\* Two New Years, targets past, present and to come, and none.
SPECIFICATION BackfillSpec
CONSTANTS
    Targets = {0, 2024, 2025, 2026}
    FirstYear = 2025
    LastYear = 2027
    MaxRows = 3
INVARIANTS
    TypeOK
    GenuineReturned
PROPERTIES
    FakesRefused

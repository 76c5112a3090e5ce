\* Collectors, loaders and jobs that stamp bronze frames again, all of which
\* fail, retry and restart.
SPECIFICATION Spec
CONSTANTS
    Row = {r1, r2, r3}
    Payload = {p1, p2}
    Vars = {"none", "sha"}
    MaxRuns = 3
INVARIANTS
    TypeOK
    OneRowPerPayload
    CompleteInBronze
PROPERTIES
    StampsAreFinal

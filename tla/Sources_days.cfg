\* Two sources over two days, while the operator edits sources.yaml twice: it
\* may break an entry and mend it again.
SPECIFICATION Spec
CONSTANTS
    Source = {s1, s2}
    Payload = {p1}
    LastDay = 1
    MaxEdits = 2
SYMMETRY Symmetry
INVARIANTS
    EverySourceAccountedFor
    StatusIsTrue

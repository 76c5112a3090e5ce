\* Two threads of one process, HEAD moving under them.
SPECIFICATION Spec
CONSTANTS
    Thread = {t1, t2}
    Frames <- AllFrames
    SampleRows = 1
    MaxHead = 2
SYMMETRY Symmetry
INVARIANTS
    TypeOK
    VersionsBounded

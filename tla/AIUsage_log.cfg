\* Three records, one of which the table refuses, and a fourth without a task;
\* threads that log while a flush runs, a caller that keeps flushing, and a
\* database, of either dialect, that does not fail forever.
SPECIFICATION FairSpec
CONSTANTS
    Record = {r1, r2, r3}
    Rejected = {r3}
    Taskless = {r0}
    MaxFaults = 2
INVARIANTS
    TypeOK
    NoSilentLoss
    NoDuplicates
    AckedDurable
PROPERTIES
    RejectedBlocksQueue
    LedgerSpec
    EventuallySettled

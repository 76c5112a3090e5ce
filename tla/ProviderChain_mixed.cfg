\* One provider of each kind; every operation.
SPECIFICATION FairSpec
CONSTANTS
    Providers <- Mixed
    Ops = {"complete", "translate", "embed"}
    MaxTexts = 2
INVARIANTS
    TypeOK
    InOrder
    AttemptBound
    WholeAnswer
PROPERTIES
    CancelIsFinal
    Terminates
    FailoverSpec

\* A server whose windows are longer and shorter than the backoff's cap, and
\* whose clock is one tick behind; every attempt may go wrong in every way.
SPECIFICATION FairSpec
CONSTANTS
    Client = {c1}
    Attempts = 4
    Multiplier = 1
    BackoffMin = 1
    BackoffMax = 3
    Windows = {2, 5}
    Skew = 1
INVARIANTS
    TypeOK
    RetryAfterHonoured
    EffectsBounded
    GivesUpLast
PROPERTIES
    Terminates

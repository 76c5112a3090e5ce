\* Two threads over two UTC days, with resets and restarts at any moment.
SPECIFICATION SpendSpec
CONSTANTS
    Thread = {t1, t2}
    Estimates = {1, 4, 5, NaN}
    Costs = {1, 5}
    PerCallCap = 4
    DailyCap = 6
    NaN = NaN
    Grain = 3
    DayLength = 1
    LastTick = 1
    MaxCalls = 2
    MaxPeriods = 1
SYMMETRY Symmetry
CONSTRAINT Bounded
INVARIANTS
    TotalWithinCap
    NoOverspend
    SpentWithinCaps
    StopsAgree
    CountedOnce

SPECIFICATION FairSpec
CONSTANTS
    Ops = {"await", "endpoint", "reboot", "failover"}
    Budgets <- SomeBudgets
    Interval = 2
    MaxRead = 1
    MaxFlips = 3
    Horizon = 6
INVARIANTS
    BoundedWait
    SteadySignalIsSeen
    RebootIsReal
    MeasuredWithinAPoll
PROPERTIES
    WaitEnds

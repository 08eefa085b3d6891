SPECIFICATION Spec
CONSTANTS
    Names = {"upload", "download"}
    Directions <- UpDownUp
    SetSize = 2
    Budget = 11
    Backoff = 2
    MaxFlow = 2
    PoolSize = 12
INVARIANTS
    FreshPorts
    AbsorbedIsReported
    RoundsAreWhole
    BudgetBound

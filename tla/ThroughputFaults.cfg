SPECIFICATION FairSpec
CONSTANTS
    N = 2
    Ports = {1, 2}
    Window = 0
    ResultTimeout = 1
    Poll = 2
    MaxRead = 0
    Priors <- RatedPriors
    Faults = {"start_rx", "count", "start_tx", "read", "stop"}
INVARIANTS
    TypeOK
    BoundedOverrun
PROPERTIES
    ImplementsMeasureFn
    SendersStoppedFirst
    Terminates

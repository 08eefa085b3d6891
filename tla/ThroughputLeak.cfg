SPECIFICATION Spec
CONSTANTS
    N = 1
    Ports = {1}
    Window = 1
    ResultTimeout = 1
    Poll = 1
    MaxRead = 0
    Priors <- RatedPriors
    Faults = {"count"}
INVARIANTS
    NoProcessOutlivesTheCall

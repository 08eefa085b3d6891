SPECIFICATION Spec
CONSTANTS
    N = 2
    Ports = {1, 2}
    Window = 1
    ResultTimeout = 1
    Poll = 1
    MaxRead = 1
    Priors <- MixedPriors
    Faults = {}
INVARIANTS
    FlowsOverlap
    RowsOfThisCall
    NonCompletionIsAFact

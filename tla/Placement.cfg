SPECIFICATION Spec
CONSTANTS
    N = 2
    Expected = 2
    Budget = 8
    Window = 1
    MaxCall = 1
    Ages = {0, 9}
    Leftovers = {0, 3}
    MaxMoves = 2
INVARIANTS
    SamplesAreFacts
    SettledStreamConverges
    CapturesReleased
    BoundedSampling

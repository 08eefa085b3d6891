SPECIFICATION OpsSpec
CONSTANTS
    h1 = h1
    h2 = h2
    p1 = p1
    Hosts = {h1, h2}
    Ports = {p1}
    Renamed = {h1}
    MaxOps = 3
    MAX_PORT = 2
    NoQuestion = NoQuestion
    Questions <- MCQuestions
INVARIANTS
    Accounted
    ReturnedMeansDone
    RecordsReadAlike
    ChoicesAreRight
    OutputsAreRead
    DiffsAreScanned
    RequestsAreRight
    ArchetypesAreTold
CHECK_DEADLOCK FALSE

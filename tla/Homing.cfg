SPECIFICATION Spec
CONSTANTS
    a1 = a1
    a2 = a2
    a3 = a3
    c1 = c1
    c2 = c2
    s1 = s1
    Clients = {c1, c2}
    Statics = {s1}
    Appliances = {a1, a2, a3}
    List <- TheList
    Assignments <- SomeAssignments
    None = None
    MaxCalls = 3
INVARIANTS
    RealizeSettles
PROPERTIES
    ImplementsClientHome
    RerunDisturbsNothing

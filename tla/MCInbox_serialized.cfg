\* One writer at a time, as save_inbox assumes. Any verb may die anywhere.
SPECIFICATION FairSpec
CONSTANTS
    e1 = e1
    e2 = e2
    x = x
    y = y
    Procs = {p1, p2}
    Pushes <- MCPushes
    Serialized = TRUE
    Faulty = {"dispatch", "drain"}
    MaxFaults = 2
INVARIANTS
    TypeOK
    AdmittedOnce
PROPERTIES
    ImplementsMailbox
    EventuallyShown

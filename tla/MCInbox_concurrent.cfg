\* Two verbs at a time.
SPECIFICATION Spec
CONSTANTS
    e1 = e1
    e2 = e2
    x = x
    y = y
    Procs = {p1, p2}
    Pushes <- MCPushes
    Serialized = FALSE
    Faulty = {"dispatch", "drain"}
    MaxFaults = 1
INVARIANTS
    RecordsCoherent
VIEW WithoutHistory
SYMMETRY ProcsAlike

\* Two writers with no lock between them. The check for deadlock is off: two
\* writers can leave a torn queue file, on which every verb fails for ever.
SPECIFICATION Spec
CONSTANTS
    EffectIds <- MCEffectIds
    LocalEvents = {a}
    RemoteEvents = {r}
    MaxSeq = 2
    Procs = {p, q}
    Serialized = FALSE
    DrainBound = 1
    Faulty = {}
    MaxFaults = 0
SYMMETRY ProcsAlike
VIEW WithoutHistory
INVARIANTS
    RecordsCoherent
CHECK_DEADLOCK FALSE

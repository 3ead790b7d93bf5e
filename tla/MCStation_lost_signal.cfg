\* A `deliver` that dies between its save and its marker is retried.
SPECIFICATION Spec
CONSTANTS
    EffectIds <- MCEffectIds
    LocalEvents = {a}
    RemoteEvents = {r}
    MaxSeq = 1
    Procs = {p}
    Serialized = TRUE
    DrainBound = 1
    Faulty = {"deliver"}
    MaxFaults = 1
INVARIANTS
    AckedIsSignalled

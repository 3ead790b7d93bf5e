\* Retries meet what dead listeners leave behind; any verb may die at any two
\* steps. One verb at a time.
SPECIFICATION JointFairSpec
CONSTANTS
    EffectIds <- MCEffectIds
    LocalEvents = {a}
    RemoteEvents = {r}
    MaxSeq = 1
    Procs = {p}
    Serialized = TRUE
    DrainBound = 1
    Faulty = {"send", "deliver", "read", "drain", "inject"}
    MaxFaults = 2
    e = e
    r = r
    Emits = {e}
    Content <- MCContent
    MaxAttempts = 3
    NoMessage = NoMessage
INVARIANTS
    FirstTryIsSignalled
PROPERTIES
    ImplementsCrossHost
    DeliveredIsRendered

\* One event, two versions: is an emit that meets a mismatch rendered?
SPECIFICATION Spec
CONSTANTS
    EffectIds <- MCEffectIds
    LocalEvents = {a}
    RemoteEvents = {r}
    MaxSeq = 1
    e1 = e1
    e2 = e2
    r = r
    Emits = {e1, e2}
    Content <- MCContent
    StableId <- MCStableId
    Versions = {1, 2}
    MaxAttempts = 1
INVARIANTS
    MismatchIsRendered

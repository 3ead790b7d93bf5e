\* Two seats emit the same content, with retries, over a lossy channel and
\* across a change of version.
SPECIFICATION Spec
CONSTANTS
    EffectIds <- MCEffectIds
    LocalEvents = {a}
    RemoteEvents = {r}
    MaxSeq = 1
    e1 = e1
    e2 = e2
    r = r
    Emits = {e1, e2}
    Content <- MCContent
    StableId <- MCStableId
    Versions = {1, 2}
    MaxAttempts = 2
INVARIANTS
    TypeOK
    DeliveredIsQueued
    NothingWithoutAcceptance
PROPERTIES
    ImplementsMailbox

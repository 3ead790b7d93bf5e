\* One writer at a time; any verb may die or fail at any two steps. Fair
\* processes and a fair heartbeat.
SPECIFICATION FairSpec
CONSTANTS
    EffectIds <- MCEffectIds
    LocalEvents = {a, b}
    RemoteEvents = {r}
    MaxSeq = 3
    Procs = {p}
    Serialized = TRUE
    DrainBound = 1
    Faulty = {"send", "deliver", "read", "drain", "inject"}
    MaxFaults = 2
INVARIANTS
    TypeOK
    QueueFileWhole
    NothingLost
    IdNamesOneEvent
    RenderedOnceInOrder
    OnlyDeliverUnsignals
    NoSpuriousWake
    TakenIsShown
PROPERTIES
    JournalAdvances
    ImplementsMailbox
    EventuallyRendered

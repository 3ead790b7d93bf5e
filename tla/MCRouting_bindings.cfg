\* Every record a founder can write, from every order of edits; every profile,
\* pair of stations, and writer and reader.
SPECIFICATION MCSpec
CONSTANTS
    None = None
    Blank = Blank
    Spaces = Spaces
    Transports <- MCTransports
    Runs <- MCRuns
    Roles <- MCRoles
    RunCap = 3
    MaxStations = 2
INVARIANTS
    PeersAgree
    ProfileReadsBack
    SurfaceIsOwned
    RecordsReachReaders
PROPERTIES
    HintIsNoSwitch

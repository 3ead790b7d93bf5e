\* Two teams contend for the global limit and one bursts.
SPECIFICATION Spec
CONSTANTS
    Teams = {1, 2}
    Sizes = {1}
    DrainBound = 4
    PerTeamLimit = 1
    GlobalLimit = 1
    ProducerQuota = 8
    OversizedBytes = 4
    StoreCapacity = 0
    MaxPending = 3
    MaxRounds = 3
INVARIANTS
    NoStarvation
CHECK_DEADLOCK FALSE

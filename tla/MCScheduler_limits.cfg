\* Every budget the teams share can run out: three turns, three sizes, one of them
\* oversized. The quota is above the limit of a team, as in the code, and never binds.
SPECIFICATION Spec
CONSTANTS
    Teams = {1, 2}
    Sizes = {1, 3, 9}
    DrainBound = 2
    PerTeamLimit = 2
    GlobalLimit = 3
    ProducerQuota = 3
    OversizedBytes = 4
    StoreCapacity = 6
    MaxPending = 2
    MaxRounds = 3
INVARIANTS
    TypeOK
    LimitsHold
    BooksAgree
    EveryoneIsTold
    PassedOverWithCause
CHECK_DEADLOCK FALSE

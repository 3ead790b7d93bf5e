------------------------------- MODULE Scheduler -------------------------------
(***************************************************************************)
(* The admission scheduler of src/src/scheduler.rs ("Gate 4"): drain turns *)
(* that serve the teams round-robin in the order of their deficit, under a *)
(* limit per team, a global limit, a producer quota and a bounded store.   *)
(*                                                                         *)
(* One turn (Scheduler::drain) runs as a sequence of steps here, one per   *)
(* envelope it decides; nothing else changes the scheduler while it runs,  *)
(* as in the code, where drain borrows it mutably. The caller is the       *)
(* environment: it offers any queue at each turn, ages the round after it, *)
(* and then releases admitted envelopes, each at most once.                *)
(***************************************************************************)
EXTENDS Naturals, Sequences, FiniteSets, Functions

CONSTANTS
    Teams,            \* source ids, as numbers: their order breaks ties
    Sizes,            \* sizes in bytes an envelope can have
    DrainBound,       \* DRAIN_BOUND
    PerTeamLimit,     \* PER_TEAM_LIMIT
    GlobalLimit,      \* GLOBAL_LIMIT
    ProducerQuota,    \* PRODUCER_QUOTA
    OversizedBytes,   \* OVERSIZED_BYTES
    StoreCapacity,    \* with_store_capacity, 0 for no limit
    MaxPending,       \* bound: envelopes a team offers in one turn
    MaxRounds         \* bound: turns

ASSUME SchedulerAssumption ==
    /\ Teams \subseteq Nat /\ IsFiniteSet(Teams)
    /\ Sizes \subseteq Nat
    /\ DrainBound \in Nat /\ PerTeamLimit \in Nat /\ GlobalLimit \in Nat
    /\ ProducerQuota \in Nat /\ OversizedBytes \in Nat /\ StoreCapacity \in Nat
    /\ MaxPending \in Nat /\ MaxRounds \in Nat

VARIABLES
    deficit,          \* per team
    team_active,      \* per team
    producer_active,  \* per producer
    global_active,
    store_used,
    round,
    phase,            \* "idle", "turn", or "served" when a turn has ended
    pending,          \* what the caller offered this turn, per team
    teams,            \* the roster of the turn
    pos,              \* the place in the roster of the team served next
    cursor,           \* how many envelopes of a team are decided
    admitted,         \* admissions of the turn
    gained,           \* the same, per team
    made_progress,
    held,             \* per team and size: admitted and not yet released
    waited            \* per team: turns in a row it was passed over for others

books == << team_active, producer_active, global_active, store_used >>
turn == << pending, teams, pos, cursor, admitted, gained, made_progress >>
vars == << deficit, books, round, phase, turn, held, waited >>

\* What a team can offer in one turn, in arrival order.
Queues == UNION {[1 .. n -> Sizes] : n \in 0 .. MaxPending}

\* Mutant of Minus: plain subtraction, which wraps below zero.
MinusUnsaturated(a, b) == a - b

\* saturating_sub
Minus(a, b) == IF a > b THEN a - b ELSE 0

NoOne == [t \in Teams |-> 0]

Init ==
    /\ deficit = NoOne
    /\ team_active = NoOne /\ producer_active = NoOne
    /\ global_active = 0 /\ store_used = 0
    /\ round = 0
    /\ phase = "idle"
    /\ pending = [t \in Teams |-> << >>]
    /\ teams = << >> /\ pos = 1 /\ cursor = NoOne
    /\ admitted = 0 /\ gained = NoOne /\ made_progress = FALSE
    /\ held = [t \in Teams |-> [n \in Sizes |-> 0]]
    /\ waited = NoOne

-------------------------------------------------------------------------------
\* The roster: teams with something pending, most deprived first. The order is
\* total, so there is one.
Before(a, b) == deficit[a] > deficit[b] \/ (deficit[a] = deficit[b] /\ a < b)

Rosters(some) ==
    {r \in [1 .. Cardinality(some) -> some] :
        /\ Range(r) = some
        /\ \A i, k \in DOMAIN r : i < k => Before(r[i], r[k])}

Start(offer) ==
    /\ phase = "idle"
    /\ round < MaxRounds
    /\ phase' = "turn"
    /\ pending' = offer
    /\ teams' \in Rosters({t \in Teams : offer[t] # << >>})
    /\ pos' = 1
    /\ cursor' = NoOne
    /\ admitted' = 0
    /\ gained' = NoOne
    /\ made_progress' = FALSE
    /\ UNCHANGED << deficit, books, round, held, waited >>

\* admit_one's checks, in their order.
StoreFull(size) ==
    StoreCapacity > 0 /\ 10 * (store_used + size) > 9 * StoreCapacity

\* Mutant of Verdict: the team may go one over its limit.
VerdictOffByOne(t, size) ==
    IF size > OversizedBytes THEN "oversized"
    ELSE IF StoreFull(size) THEN "store-full"
    ELSE IF producer_active[t] >= ProducerQuota THEN "producer-quota"
    ELSE IF team_active[t] > PerTeamLimit THEN "per-team-limit"
    ELSE IF global_active >= GlobalLimit THEN "global-limit"
    ELSE "admitted"

Verdict(t, size) ==
    IF size > OversizedBytes THEN "oversized"
    ELSE IF StoreFull(size) THEN "store-full"
    ELSE IF producer_active[t] >= ProducerQuota THEN "producer-quota"
    ELSE IF team_active[t] >= PerTeamLimit THEN "per-team-limit"
    ELSE IF global_active >= GlobalLimit THEN "global-limit"
    ELSE "admitted"

IsLimitReason(verdict) ==
    verdict \in {"producer-quota", "per-team-limit", "global-limit"}

Serving(t) ==
    /\ phase = "turn"
    /\ admitted < DrainBound
    /\ pos <= Len(teams)
    /\ t = teams[pos]

\* Mutants of Decided: a decision is not progress, or the team is served until
\* its queue is exhausted.
DecidedIdly(t) ==
    /\ cursor' = [cursor EXCEPT ![t] = @ + 1]
    /\ pos' = pos + 1
    /\ UNCHANGED << made_progress, round, phase, pending, teams, waited >>
DecidedGreedily(t) ==
    /\ cursor' = [cursor EXCEPT ![t] = @ + 1]
    /\ made_progress' = TRUE
    /\ pos' = IF cursor[t] + 1 < Len(pending[t]) THEN pos ELSE pos + 1
    /\ UNCHANGED << round, phase, pending, teams, waited >>

Decided(t) ==
    /\ cursor' = [cursor EXCEPT ![t] = @ + 1]
    /\ made_progress' = TRUE
    /\ pos' = pos + 1
    /\ UNCHANGED << round, phase, pending, teams, waited >>

AdmitOne(t) ==
    LET size == pending[t][cursor[t] + 1]
    IN  /\ Serving(t)
        /\ cursor[t] < Len(pending[t])
        /\ Verdict(t, size) = "admitted"
        /\ team_active' = [team_active EXCEPT ![t] = @ + 1]
        /\ producer_active' = [producer_active EXCEPT ![t] = @ + 1]
        /\ global_active' = global_active + 1
        /\ store_used' = store_used + size
        /\ deficit' = [deficit EXCEPT ![t] = Minus(@, 1)]
        /\ admitted' = admitted + 1
        /\ gained' = [gained EXCEPT ![t] = @ + 1]
        /\ held' = [held EXCEPT ![t][size] = @ + 1]
        /\ Decided(t)

Refuse(t) ==
    LET verdict == Verdict(t, pending[t][cursor[t] + 1])
    IN  /\ Serving(t)
        /\ cursor[t] < Len(pending[t])
        /\ verdict # "admitted"
        /\ deficit' = IF IsLimitReason(verdict)
                      THEN [deficit EXCEPT ![t] = @ + round + 1]
                      ELSE deficit
        /\ Decided(t)
        /\ UNCHANGED << books, admitted, gained, held >>

\* A team with nothing left this turn is skipped.
Skip(t) ==
    /\ Serving(t)
    /\ cursor[t] = Len(pending[t])
    /\ pos' = pos + 1
    /\ UNCHANGED << deficit, books, round, phase, pending, teams, cursor,
                    admitted, gained, made_progress, held, waited >>

NextPass ==
    /\ phase = "turn"
    /\ pos > Len(teams)
    /\ made_progress
    /\ admitted < DrainBound
    /\ pos' = 1
    /\ made_progress' = FALSE
    /\ UNCHANGED << deficit, books, round, phase, pending, teams, cursor,
                    admitted, gained, held, waited >>

\* A team was passed over if the turn admitted nothing of it although there was
\* room under its own limit and the envelope first in its queue is not oversized.
\* Nothing is released during a turn: a team that gained nothing has the active
\* count it started with.
PassedOver(t) ==
    /\ gained[t] = 0
    /\ pending[t] # << >>
    /\ pending[t][1] <= OversizedBytes
    /\ team_active[t] < PerTeamLimit

Finish ==
    /\ phase = "turn"
    /\ \/ admitted >= DrainBound
       \/ pos > Len(teams) /\ ~made_progress
    /\ phase' = "served"
    /\ waited' = [t \in Teams |->
                    IF ~PassedOver(t) THEN 0
                    ELSE IF admitted > 0 THEN waited[t] + 1 ELSE waited[t]]
    /\ UNCHANGED << deficit, books, round, turn, held >>

AgeRound ==
    /\ phase = "served"
    /\ phase' = "idle"
    /\ round' = round + 1
    /\ UNCHANGED << deficit, books, turn, held, waited >>

\* Mutant of Release: the global count is forgotten.
ReleaseForgetsGlobal(t, size) ==
    /\ phase = "idle"
    /\ held[t][size] > 0
    /\ team_active' = [team_active EXCEPT ![t] = Minus(@, 1)]
    /\ producer_active' = [producer_active EXCEPT ![t] = Minus(@, 1)]
    /\ store_used' = Minus(store_used, size)
    /\ held' = [held EXCEPT ![t][size] = @ - 1]
    /\ UNCHANGED << deficit, global_active, round, phase, turn, waited >>

Release(t, size) ==
    /\ phase = "idle"
    /\ held[t][size] > 0
    /\ team_active' = [team_active EXCEPT ![t] = Minus(@, 1)]
    /\ producer_active' = [producer_active EXCEPT ![t] = Minus(@, 1)]
    /\ global_active' = Minus(global_active, 1)
    /\ store_used' = Minus(store_used, size)
    /\ held' = [held EXCEPT ![t][size] = @ - 1]
    /\ UNCHANGED << deficit, round, phase, turn, waited >>

Next ==
    \/ \E offer \in [Teams -> Queues] : Start(offer)
    \/ \E t \in Teams : AdmitOne(t) \/ Refuse(t) \/ Skip(t)
    \/ NextPass \/ Finish \/ AgeRound
    \/ \E t \in Teams, size \in Sizes : Release(t, size)

Spec == Init /\ [][Next]_vars

-------------------------------------------------------------------------------
TypeOK ==
    /\ deficit \in [Teams -> Nat]
    /\ team_active \in [Teams -> Nat] /\ producer_active \in [Teams -> Nat]
    /\ global_active \in Nat /\ store_used \in Nat /\ round \in Nat
    /\ phase \in {"idle", "turn", "served"}
    /\ pending \in [Teams -> Queues]
    /\ teams \in Seq(Teams) /\ pos \in Nat \ {0} /\ cursor \in [Teams -> Nat]
    /\ admitted \in Nat /\ gained \in [Teams -> Nat]
    /\ made_progress \in BOOLEAN
    /\ held \in [Teams -> [Sizes -> Nat]]
    /\ waited \in [Teams -> Nat]

\* No budget is ever exceeded, by any sequence of turns and releases: the limit
\* of a team, the global limit, the quota, nine tenths of the store, and the
\* bound of one turn (scheduler.rs, lines 11-12 and 40-45).
LimitsHold ==
    /\ \A t \in Teams : team_active[t] <= PerTeamLimit
    /\ \A t \in Teams : producer_active[t] <= ProducerQuota
    /\ global_active <= GlobalLimit
    /\ StoreCapacity > 0 => 10 * store_used <= 9 * StoreCapacity
    /\ admitted <= DrainBound

\* The envelopes of some teams in a bag as a set, equal ones told apart by a
\* number, and the bytes of a set of them.
EnvelopesOf(bag, some) ==
    UNION {UNION {{<< t, n, k >> : k \in 1 .. bag[t][n]} : n \in Sizes} : t \in some}
BytesOf(envelopes) == UNION {{<< e, b >> : b \in 1 .. e[2]} : e \in envelopes}

\* The four books count what was admitted and not released, so that no
\* saturating subtraction hides a drift (scheduler.rs, lines 102-111).
BooksAgree ==
    /\ \A t \in Teams : team_active[t] = Cardinality(EnvelopesOf(held, {t}))
    /\ \A t \in Teams : producer_active[t] = Cardinality(EnvelopesOf(held, {t}))
    /\ global_active = Cardinality(EnvelopesOf(held, Teams))
    /\ store_used = Cardinality(BytesOf(EnvelopesOf(held, Teams)))

\* A turn that ends before its bound has decided every envelope offered: each is
\* admitted or its producer told, none is dropped (scheduler.rs, lines 13-15).
EveryoneIsTold ==
    phase = "served" /\ admitted < DrainBound =>
        \A t \in Teams : cursor[t] = Len(pending[t])

\* Round robin: a turn passes a team over only when something the teams share
\* ran out: a budget for its first envelope, or the bound of the turn, and then
\* no other team got more than its first either. How much a team offers, or how
\* full its own limit is, never costs another (scheduler.rs, lines 3-6).
SharedBudgetSpent(t) ==
    \/ StoreFull(pending[t][1])
    \/ producer_active[t] >= ProducerQuota
    \/ global_active >= GlobalLimit
PassedOverWithCause ==
    phase = "served" => \A t \in Teams : PassedOver(t) =>
        IF cursor[t] = 0
        THEN admitted >= DrainBound /\ \A u \in Teams : gained[u] <= 1
        ELSE SharedBudgetSpent(t)

\* No team is passed over for others in two turns in a row: it is compensated
\* within one round (scheduler.rs, lines 7-10).
NoStarvation == \A t \in Teams : waited[t] <= 1
===============================================================================

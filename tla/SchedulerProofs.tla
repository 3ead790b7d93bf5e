---------------------------- MODULE SchedulerProofs ----------------------------
(***************************************************************************)
(* Proofs about the admission scheduler, for any teams, sizes, limits and  *)
(* queues: its budgets hold, and every turn answers for what it was        *)
(* offered.                                                                *)
(***************************************************************************)
EXTENDS Scheduler, FiniteSetTheorems, TLAPS

LEMMA QueuesAreSequences == \A q \in Queues : q \in Seq(Sizes)
BY DEF Queues

LEMMA RostersAreSequences ==
    ASSUME NEW some \in SUBSET Teams, NEW r \in Rosters(some)
    PROVE  r \in Seq(Teams) /\ Range(r) = some
<1>1. IsFiniteSet(some)
  BY FS_Subset, SchedulerAssumption
<1>2. Cardinality(some) \in Nat
  BY <1>1, FS_CardinalityType
<1>3. r \in [1 .. Cardinality(some) -> some] /\ Range(r) = some
  BY DEF Rosters
<1> QED BY <1>2, <1>3

\* The type invariant but for the one Boolean, which the arithmetic solver is
\* better spared.
Counts ==
    /\ deficit \in [Teams -> Nat]
    /\ team_active \in [Teams -> Nat] /\ producer_active \in [Teams -> Nat]
    /\ global_active \in Nat /\ store_used \in Nat /\ round \in Nat
    /\ phase \in {"idle", "turn", "served"}
    /\ pending \in [Teams -> Queues]
    /\ teams \in Seq(Teams) /\ pos \in Nat \ {0} /\ cursor \in [Teams -> Nat]
    /\ admitted \in Nat /\ gained \in [Teams -> Nat]
    /\ held \in [Teams -> [Sizes -> Nat]]
    /\ waited \in [Teams -> Nat]

LEMMA TypeIsCounts == TypeOK <=> Counts /\ made_progress \in BOOLEAN
BY DEF TypeOK, Counts

\* The envelope a team is about to be decided on has a size.
LEMMA NextSize ==
    ASSUME Counts, NEW t \in Teams, cursor[t] < Len(pending[t])
    PROVE  pending[t][cursor[t] + 1] \in Sizes /\ pending[t][cursor[t] + 1] \in Nat
<1>1. pending[t] \in Seq(Sizes) /\ cursor[t] \in Nat
  BY QueuesAreSequences DEF Counts
<1>2. cursor[t] + 1 \in 1 .. Len(pending[t])
  BY <1>1
<1>3. pending[t][cursor[t] + 1] \in Sizes
  BY <1>1, <1>2
<1> QED BY <1>3, SchedulerAssumption

LEMMA AdmitOneCounts ==
    ASSUME Counts, NEW t \in Teams, AdmitOne(t)
    PROVE  Counts'
<1> DEFINE size == pending[t][cursor[t] + 1]
<1>1. size \in Sizes /\ size \in Nat
  BY NextSize DEF AdmitOne
<1>2. /\ team_active' = [team_active EXCEPT ![t] = team_active[t] + 1]
      /\ producer_active' = [producer_active EXCEPT ![t] = producer_active[t] + 1]
      /\ global_active' = global_active + 1
      /\ store_used' = store_used + size
      /\ deficit' = [deficit EXCEPT ![t] = Minus(deficit[t], 1)]
      /\ admitted' = admitted + 1
      /\ gained' = [gained EXCEPT ![t] = gained[t] + 1]
      /\ held' = [held EXCEPT ![t] = [held[t] EXCEPT ![size] = held[t][size] + 1]]
      /\ cursor' = [cursor EXCEPT ![t] = cursor[t] + 1]
      /\ pos' = pos + 1
      /\ UNCHANGED << round, phase, pending, teams, waited >>
  BY DEF AdmitOne, Decided, Counts
<1> HIDE DEF size
<1>3. held' \in [Teams -> [Sizes -> Nat]]
  BY <1>1, <1>2 DEF Counts
<1>4. deficit' \in [Teams -> Nat]
  BY <1>2 DEF Counts, Minus
<1>5. store_used' \in Nat
  BY <1>1, <1>2 DEF Counts
<1>6. /\ team_active' \in [Teams -> Nat] /\ producer_active' \in [Teams -> Nat]
      /\ gained' \in [Teams -> Nat] /\ cursor' \in [Teams -> Nat]
  BY <1>2 DEF Counts
<1>7. global_active' \in Nat /\ admitted' \in Nat /\ pos' \in Nat \ {0}
  BY <1>2 DEF Counts
<1> QED BY <1>2, <1>3, <1>4, <1>5, <1>6, <1>7 DEF Counts

LEMMA MinusBelow ==
    ASSUME NEW a \in Nat, NEW b \in Nat
    PROVE  Minus(a, b) \in Nat /\ Minus(a, b) <= a
BY DEF Minus

LEMMA ReleaseCounts ==
    ASSUME Counts, NEW t \in Teams, NEW size \in Sizes, Release(t, size)
    PROVE  /\ Counts'
           /\ \A u \in Teams : /\ team_active'[u] <= team_active[u]
                               /\ producer_active'[u] <= producer_active[u]
           /\ global_active' <= global_active /\ store_used' <= store_used
<1>1. size \in Nat
  BY SchedulerAssumption
<1>2. held' \in [Teams -> [Sizes -> Nat]]
  <2>1. held' = [held EXCEPT ![t] = [held[t] EXCEPT ![size] = held[t][size] - 1]]
    BY DEF Release
  <2>2. held[t][size] > 0 /\ held[t] \in [Sizes -> Nat]
    BY DEF Release, Counts
  <2>3. [held[t] EXCEPT ![size] = held[t][size] - 1] \in [Sizes -> Nat]
    BY <2>2
  <2> QED BY <2>1, <2>3 DEF Counts
<1>3. /\ team_active' \in [Teams -> Nat]
      /\ \A u \in Teams : team_active'[u] <= team_active[u]
  <2>1. team_active' = [team_active EXCEPT ![t] = Minus(team_active[t], 1)]
    BY DEF Release
  <2>2. team_active \in [Teams -> Nat]
    BY DEF Counts
  <2>3. Minus(team_active[t], 1) \in Nat /\ Minus(team_active[t], 1) <= team_active[t]
    BY <2>2, MinusBelow
  <2> QED BY <2>1, <2>2, <2>3
<1>4. /\ producer_active' \in [Teams -> Nat]
      /\ \A u \in Teams : producer_active'[u] <= producer_active[u]
  <2>1. producer_active' = [producer_active EXCEPT ![t] = Minus(producer_active[t], 1)]
    BY DEF Release
  <2>2. producer_active \in [Teams -> Nat]
    BY DEF Counts
  <2>3. Minus(producer_active[t], 1) \in Nat /\ Minus(producer_active[t], 1) <= producer_active[t]
    BY <2>2, MinusBelow
  <2> QED BY <2>1, <2>2, <2>3
<1>5. /\ global_active' \in Nat /\ global_active' <= global_active
      /\ store_used' \in Nat /\ store_used' <= store_used
  BY <1>1 DEF Release, Counts, Minus
<1> QED BY <1>2, <1>3, <1>4, <1>5 DEF Release, Counts, turn

\* Every variable keeps its type.
THEOREM TypeCorrect == Spec => []TypeOK
<1>1. Init => TypeOK
  <2> SUFFICES ASSUME Init PROVE TypeOK
    OBVIOUS
  <2>1. << >> \in Queues
    BY SchedulerAssumption DEF Queues
  <2>2. Counts
    BY <2>1, SchedulerAssumption DEF Init, Counts, NoOne
  <2>3. made_progress \in BOOLEAN
    BY DEF Init
  <2> QED BY <2>2, <2>3, TypeIsCounts
<1>2. TypeOK /\ [Next]_vars => TypeOK'
  <2> SUFFICES ASSUME Counts, made_progress \in BOOLEAN, [Next]_vars
               PROVE  Counts' /\ made_progress' \in BOOLEAN
    BY TypeIsCounts DEF TypeOK, Counts
  <2>1. made_progress' \in BOOLEAN
    BY DEF Next, Start, AdmitOne, Refuse, Decided, Skip, NextPass, Finish,
           AgeRound, Release, vars, turn
  <2>2. Counts'
    <3>1. ASSUME NEW offer \in [Teams -> Queues], Start(offer) PROVE Counts'
      <4>1. teams' \in Seq(Teams)
        BY <3>1, RostersAreSequences DEF Start
      <4> QED BY <3>1, <4>1 DEF Start, books, NoOne, Counts
    <3>2. ASSUME NEW t \in Teams, Refuse(t) PROVE Counts'
      <4>1. deficit' \in [Teams -> Nat]
        BY <3>2 DEF Refuse, Counts
      <4>2. cursor' \in [Teams -> Nat] /\ pos' \in Nat \ {0}
        BY <3>2 DEF Refuse, Decided, Counts
      <4>3. UNCHANGED << books, round, phase, pending, teams, admitted, gained,
                         held, waited >>
        BY <3>2 DEF Refuse, Decided
      <4> QED BY <4>1, <4>2, <4>3 DEF books, Counts
    <3>3. ASSUME NEW t \in Teams, Skip(t) PROVE Counts'
      BY <3>3 DEF Skip, books, Counts
    <3>4. CASE NextPass
      BY <3>4 DEF NextPass, books, Counts
    <3>5. CASE Finish
      BY <3>5 DEF Finish, books, turn, Counts
    <3>6. CASE AgeRound
      BY <3>6 DEF AgeRound, books, turn, Counts
    <3>7. CASE UNCHANGED vars
      BY <3>7 DEF vars, books, turn, Counts
    <3> QED
      BY <3>1, <3>2, <3>3, <3>4, <3>5, <3>6, <3>7, AdmitOneCounts, ReleaseCounts
      DEF Next
  <2> QED BY <2>1, <2>2
<1> QED BY <1>1, <1>2, PTL DEF Spec

(***************************************************************************)
(* The budgets. LimitsHold is inductive: an admission is booked only when  *)
(* every check of Verdict leaves room for it, and a release only lowers.   *)
(***************************************************************************)
LEMMA LessStaysBelow ==
    ASSUME NEW less \in Nat, NEW used \in Nat, NEW capacity \in Nat,
           less <= used, 10 * used <= 9 * capacity
    PROVE  10 * less <= 9 * capacity
OBVIOUS

\* No budget is ever exceeded, by any sequence of turns and releases.
THEOREM BudgetsAreNeverExceeded == Spec => []LimitsHold
<1>1. Init => LimitsHold
  BY SchedulerAssumption DEF Init, LimitsHold, NoOne
<1>2. TypeOK /\ LimitsHold /\ [Next]_vars => LimitsHold'
  <2> SUFFICES ASSUME Counts, LimitsHold, [Next]_vars PROVE LimitsHold'
    BY TypeIsCounts
  <2>1. ASSUME NEW t \in Teams, AdmitOne(t) PROVE LimitsHold'
    <3> DEFINE size == pending[t][cursor[t] + 1]
    <3>1. size \in Nat
      BY <2>1, NextSize DEF AdmitOne
    <3>2. /\ ~StoreFull(size)
          /\ ~(producer_active[t] >= ProducerQuota)
          /\ ~(team_active[t] >= PerTeamLimit)
          /\ ~(global_active >= GlobalLimit)
      BY <2>1 DEF AdmitOne, Verdict
    <3>3. /\ team_active' = [team_active EXCEPT ![t] = team_active[t] + 1]
          /\ producer_active' =
                [producer_active EXCEPT ![t] = producer_active[t] + 1]
          /\ global_active' = global_active + 1
          /\ store_used' = store_used + size
          /\ admitted < DrainBound /\ admitted' = admitted + 1
      BY <2>1 DEF AdmitOne, Serving
    <3> HIDE DEF size
    <3>4. StoreCapacity > 0 => 10 * store_used' <= 9 * StoreCapacity
      BY <3>1, <3>2, <3>3, SchedulerAssumption DEF StoreFull, Counts
    <3>5. \A u \in Teams : team_active'[u] <= PerTeamLimit
      BY <3>2, <3>3, SchedulerAssumption DEF Counts, LimitsHold
    <3>6. \A u \in Teams : producer_active'[u] <= ProducerQuota
      BY <3>2, <3>3, SchedulerAssumption DEF Counts, LimitsHold
    <3>7. global_active' <= GlobalLimit /\ admitted' <= DrainBound
      BY <3>2, <3>3, SchedulerAssumption DEF Counts
    <3> QED BY <3>4, <3>5, <3>6, <3>7 DEF LimitsHold
  <2>2. ASSUME NEW t \in Teams, NEW size \in Sizes, Release(t, size)
        PROVE LimitsHold'
    <3>1. Counts' /\ admitted' = admitted
      BY <2>2, ReleaseCounts DEF Release, turn
    <3>2. /\ \A u \in Teams : /\ team_active'[u] <= team_active[u]
                               /\ producer_active'[u] <= producer_active[u]
          /\ global_active' <= global_active /\ store_used' <= store_used
      BY <2>2, ReleaseCounts
    <3>3. \A u \in Teams : /\ team_active'[u] <= PerTeamLimit
                           /\ producer_active'[u] <= ProducerQuota
      <4> SUFFICES ASSUME NEW u \in Teams
                   PROVE  /\ team_active'[u] <= PerTeamLimit
                          /\ producer_active'[u] <= ProducerQuota
        OBVIOUS
      <4>1. /\ team_active[u] \in Nat /\ team_active'[u] \in Nat
            /\ producer_active[u] \in Nat /\ producer_active'[u] \in Nat
        BY <3>1 DEF Counts
      <4>2. team_active[u] <= PerTeamLimit /\ producer_active[u] <= ProducerQuota
        BY DEF LimitsHold
      <4> QED BY <3>2, <4>1, <4>2, SchedulerAssumption
    <3>4. global_active' <= GlobalLimit /\ admitted' <= DrainBound
      BY <3>1, <3>2, SchedulerAssumption DEF LimitsHold, Counts
    <3>5. StoreCapacity > 0 => 10 * store_used' <= 9 * StoreCapacity
      <4>1. store_used' \in Nat /\ store_used \in Nat /\ StoreCapacity \in Nat
        BY <3>1, SchedulerAssumption DEF Counts
      <4>2. StoreCapacity > 0 => 10 * store_used <= 9 * StoreCapacity
        BY DEF LimitsHold
      <4>3. store_used' <= store_used
        BY <3>2
      <4> QED BY <4>1, <4>2, <4>3, LessStaysBelow
    <3> QED BY <3>3, <3>4, <3>5 DEF LimitsHold
  <2>3. ASSUME NEW offer \in [Teams -> Queues], Start(offer) PROVE LimitsHold'
    BY <2>3, SchedulerAssumption DEF Start, books, LimitsHold
  <2>4. ASSUME NEW t \in Teams, Refuse(t) \/ Skip(t) PROVE LimitsHold'
    BY <2>4 DEF Refuse, Skip, books, LimitsHold
  <2>5. CASE NextPass \/ Finish \/ AgeRound \/ UNCHANGED vars
    BY <2>5 DEF NextPass, Finish, AgeRound, vars, books, turn, LimitsHold
  <2> QED BY <2>1, <2>2, <2>3, <2>4, <2>5 DEF Next
<1> QED BY <1>1, <1>2, TypeCorrect, PTL DEF Spec

(***************************************************************************)
(* The disposition. A pass that decides nothing has found every team on    *)
(* the roster exhausted, and who is not on it offered nothing.             *)
(***************************************************************************)
Exhausted(t) == cursor[t] = Len(pending[t])

TurnInv ==
    /\ phase = "turn" =>
         /\ \A t \in Teams : cursor[t] <= Len(pending[t])
         /\ \A t \in Teams : pending[t] # << >> => t \in Range(teams)
         /\ pos <= Len(teams) + 1
         /\ ~made_progress => \A i \in 1 .. pos - 1 : Exhausted(teams[i])
    /\ EveryoneIsTold

\* A turn that ends before its bound has answered for every envelope offered.
THEOREM NobodyIsDroppedSilently == Spec => []EveryoneIsTold
<1>1. Init => TurnInv
  BY DEF Init, TurnInv, EveryoneIsTold
<1>2. TypeOK /\ TurnInv /\ [Next]_vars => TurnInv'
  <2> SUFFICES ASSUME Counts, TurnInv, [Next]_vars PROVE TurnInv'
    BY TypeIsCounts
  <2>0. \A t \in Teams : pending[t] \in Seq(Sizes)
    BY QueuesAreSequences DEF Counts
  <2>1. ASSUME NEW offer \in [Teams -> Queues], Start(offer) PROVE TurnInv'
    <3>1. \A t \in Teams : offer[t] \in Seq(Sizes)
      BY QueuesAreSequences
    <3>2. /\ teams' \in Seq(Teams)
          /\ Range(teams') = {t \in Teams : offer[t] # << >>}
      BY <2>1, RostersAreSequences DEF Start
    <3>3. /\ pending' = offer /\ cursor' = NoOne /\ pos' = 1 /\ phase' = "turn"
      BY <2>1 DEF Start
    <3> QED BY <3>1, <3>2, <3>3 DEF TurnInv, EveryoneIsTold, NoOne
  <2>2. ASSUME NEW t \in Teams, AdmitOne(t) \/ Refuse(t) PROVE TurnInv'
    <3>1. /\ phase = "turn" /\ phase' = "turn"
          /\ pos' = pos + 1 /\ pos <= Len(teams)
          /\ made_progress' = TRUE
          /\ cursor[t] < Len(pending[t])
          /\ cursor' = [cursor EXCEPT ![t] = cursor[t] + 1]
          /\ UNCHANGED << pending, teams >>
      BY <2>2 DEF AdmitOne, Refuse, Decided, Serving
    <3>2. cursor \in [Teams -> Nat] /\ teams \in Seq(Teams) /\ pos \in Nat
      BY DEF Counts
    <3> QED BY <2>0, <3>1, <3>2 DEF TurnInv, EveryoneIsTold
  <2>3. ASSUME NEW t \in Teams, Skip(t) PROVE TurnInv'
    <3>1. /\ phase = "turn" /\ phase' = "turn"
          /\ pos' = pos + 1 /\ pos <= Len(teams)
          /\ t = teams[pos] /\ Exhausted(t)
          /\ UNCHANGED << pending, teams, cursor, made_progress >>
      BY <2>3 DEF Skip, Serving, Exhausted
    <3>2. teams \in Seq(Teams) /\ pos \in Nat \ {0}
      BY DEF Counts
    <3>3. \A i \in 1 .. pos' - 1 : i \in 1 .. pos - 1 \/ i = pos
      BY <3>1, <3>2
    <3> QED BY <3>1, <3>2, <3>3 DEF TurnInv, EveryoneIsTold, Exhausted
  <2>4. CASE NextPass
    BY <2>4 DEF NextPass, TurnInv, EveryoneIsTold, Counts
  <2>5. CASE Finish
    <3>1. /\ phase = "turn" /\ phase' = "served"
          /\ UNCHANGED << pending, teams, cursor, admitted >>
          /\ admitted >= DrainBound \/ (pos > Len(teams) /\ ~made_progress)
      BY <2>5 DEF Finish, turn
    <3>2. ASSUME admitted < DrainBound, NEW t \in Teams PROVE Exhausted(t)
      <4>0. ~(admitted >= DrainBound)
        BY <3>2, SchedulerAssumption DEF Counts
      <4>1. pos > Len(teams) /\ ~made_progress
        BY <3>1, <4>0
      <4>2. CASE pending[t] = << >>
        <5>1. Len(pending[t]) = 0
          BY <4>2
        <5> QED BY <2>0, <3>1, <5>1 DEF TurnInv, Counts, Exhausted
      <4>3. CASE pending[t] # << >>
        <5>1. PICK i \in 1 .. Len(teams) : teams[i] = t
          BY <3>1, <4>3 DEF TurnInv, Counts, Range
        <5>2. i \in 1 .. pos - 1
          BY <4>1 DEF Counts
        <5>3. Exhausted(teams[i])
          BY <3>1, <4>1, <5>2 DEF TurnInv
        <5> QED BY <5>1, <5>3
      <4> QED BY <4>2, <4>3
    <3> QED BY <3>1, <3>2 DEF TurnInv, EveryoneIsTold, Exhausted
  <2>6. CASE AgeRound
    BY <2>6 DEF AgeRound, TurnInv, EveryoneIsTold, turn
  <2>7. ASSUME NEW t \in Teams, NEW size \in Sizes, Release(t, size) PROVE TurnInv'
    BY <2>7 DEF Release, TurnInv, EveryoneIsTold, turn
  <2>8. CASE UNCHANGED vars
    BY <2>8 DEF vars, turn, TurnInv, EveryoneIsTold, Exhausted
  <2> QED BY <2>1, <2>2, <2>3, <2>4, <2>5, <2>6, <2>7, <2>8 DEF Next
<1>3. TurnInv => EveryoneIsTold
  BY DEF TurnInv
<1> QED BY <1>1, <1>2, <1>3, TypeCorrect, PTL DEF Spec

(***************************************************************************)
(* Round robin. While some team on the roster is undecided the turn is in  *)
(* its first pass, which has served the teams before pos once each and the *)
(* others not at all. A team that was decided and got nothing met a budget *)
(* that ran out, and budgets only fill up during a turn.                   *)
(***************************************************************************)
FirstPass ==
    (\E t \in Teams : cursor[t] = 0 /\ pending[t] # << >>) =>
        \A i \in 1 .. Len(teams) : cursor[teams[i]] = IF i < pos THEN 1 ELSE 0

DenialsHaveCause ==
    \A t \in Teams :
        cursor[t] > 0 /\ PassedOver(t) => SharedBudgetSpent(t)

RoundRobinInv ==
    /\ phase = "turn" =>
        /\ \A t \in Teams : gained[t] <= cursor[t]
        /\ \A t \in Teams : cursor[t] <= Len(pending[t])
        /\ \A t \in Teams : pending[t] # << >> => t \in Range(teams)
        /\ \A i, k \in 1 .. Len(teams) : teams[i] = teams[k] => i = k
        /\ \A i \in 1 .. Len(teams) : pending[teams[i]] # << >>
        /\ FirstPass
        /\ DenialsHaveCause
    /\ PassedOverWithCause

\* A roster names no team twice.
LEMMA RostersAreInjective ==
    ASSUME Counts, NEW some \in SUBSET Teams, NEW r \in Rosters(some)
    PROVE  \A i, k \in 1 .. Len(r) : r[i] = r[k] => i = k
<1>1. r \in Seq(Teams) /\ DOMAIN r = 1 .. Len(r)
  BY RostersAreSequences
<1>2. \A t \in Teams : ~Before(t, t)
  BY SchedulerAssumption DEF Before, Counts
<1>3. \A i, k \in 1 .. Len(r) : i < k => Before(r[i], r[k])
  BY <1>1 DEF Rosters
<1> SUFFICES ASSUME NEW i \in 1 .. Len(r), NEW k \in 1 .. Len(r), r[i] = r[k], i # k
             PROVE  FALSE
  OBVIOUS
<1>4. i < k \/ k < i
  BY <1>1
<1>5. r[i] \in Teams
  BY <1>1
<1> QED BY <1>2, <1>3, <1>4, <1>5

\* A team that offered something is on the roster.
LEMMA OnTheRoster ==
    ASSUME Counts, RoundRobinInv, phase = "turn", NEW t \in Teams, pending[t] # << >>
    PROVE  \E i \in 1 .. Len(teams) : teams[i] = t
<1>1. t \in Range(teams)
  BY DEF RoundRobinInv
<1>2. DOMAIN teams = 1 .. Len(teams)
  BY DEF Counts
<1> QED BY <1>1, <1>2 DEF Range

\* The first envelope a team offered has a size.
LEMMA FirstSize ==
    ASSUME Counts, NEW t \in Teams, pending[t] # << >>
    PROVE  pending[t][1] \in Nat
<1>1. pending[t] \in Seq(Sizes)
  BY QueuesAreSequences DEF Counts
<1>2. 1 \in 1 .. Len(pending[t])
  BY <1>1
<1>3. pending[t][1] \in Sizes
  BY <1>1, <1>2
<1> QED BY <1>3, SchedulerAssumption

\* What the two decisions have in common.
LEMMA DecisionKeepsPass ==
    ASSUME Counts, RoundRobinInv, NEW t \in Teams, AdmitOne(t) \/ Refuse(t)
    PROVE  /\ phase = "turn" /\ phase' = "turn"
           /\ UNCHANGED << pending, teams >>
           /\ cursor' = [cursor EXCEPT ![t] = cursor[t] + 1]
           /\ cursor[t] < Len(pending[t])
           /\ FirstPass'
<1>1. /\ phase = "turn" /\ phase' = "turn"
      /\ UNCHANGED << pending, teams >>
      /\ cursor' = [cursor EXCEPT ![t] = cursor[t] + 1]
      /\ cursor[t] < Len(pending[t])
      /\ pos' = pos + 1 /\ pos <= Len(teams) /\ t = teams[pos]
  BY DEF AdmitOne, Refuse, Decided, Serving
<1>2. /\ cursor \in [Teams -> Nat] /\ teams \in Seq(Teams) /\ pos \in 1 .. Len(teams)
      /\ \A i \in 1 .. Len(teams) : teams[i] \in Teams
  <2>1. cursor \in [Teams -> Nat] /\ teams \in Seq(Teams) /\ pos \in Nat \ {0}
    BY DEF Counts
  <2>2. pos <= Len(teams)
    BY <1>1
  <2> QED BY <2>1, <2>2
<1>3. ASSUME NEW u \in Teams, cursor'[u] = 0, pending[u] # << >>,
             NEW i \in 1 .. Len(teams)
      PROVE  cursor'[teams[i]] = IF i < pos + 1 THEN 1 ELSE 0
  <2>1. cursor[u] = 0
    BY <1>1, <1>2, <1>3
  <2>2. \A k \in 1 .. Len(teams) : cursor[teams[k]] = IF k < pos THEN 1 ELSE 0
    BY <1>1, <1>3, <2>1 DEF RoundRobinInv, FirstPass
  <2>3. CASE i = pos
    BY <1>1, <1>2, <2>2, <2>3
  <2>4. CASE i # pos
    <3>1. teams[i] # t
      BY <1>1, <1>2, <2>4 DEF RoundRobinInv
    <3>2. cursor'[teams[i]] = cursor[teams[i]]
      BY <1>1, <1>2, <3>1
    <3> QED BY <1>2, <2>2, <2>4, <3>2
  <2> QED BY <2>3, <2>4
<1>4. FirstPass'
  BY <1>1, <1>3 DEF FirstPass
<1> QED BY <1>1, <1>4

\* A turn passes a team over only for want of what the teams share.
THEOREM NobodyIsPassedOverIdly == Spec => []PassedOverWithCause
<1>1. Init => RoundRobinInv
  BY DEF Init, RoundRobinInv, PassedOverWithCause
<1>2. TypeOK /\ RoundRobinInv /\ [Next]_vars => RoundRobinInv'
  <2> SUFFICES ASSUME Counts, RoundRobinInv, [Next]_vars PROVE RoundRobinInv'
    BY TypeIsCounts
  <2>0. \A t \in Teams : pending[t] \in Seq(Sizes)
    BY QueuesAreSequences DEF Counts
  <2>1. ASSUME NEW offer \in [Teams -> Queues], Start(offer) PROVE RoundRobinInv'
    <3>1. \A t \in Teams : offer[t] \in Seq(Sizes)
      BY QueuesAreSequences
    <3>2. PICK some \in SUBSET Teams :
            some = {t \in Teams : offer[t] # << >>} /\ teams' \in Rosters(some)
      BY <2>1 DEF Start
    <3>3. /\ teams' \in Seq(Teams) /\ Range(teams') = some
          /\ \A i, k \in 1 .. Len(teams') : teams'[i] = teams'[k] => i = k
      BY <3>2, RostersAreSequences, RostersAreInjective
    <3>4. /\ pending' = offer /\ cursor' = NoOne /\ gained' = NoOne
          /\ pos' = 1 /\ phase' = "turn"
      BY <2>1 DEF Start
    <3>5. \A i \in 1 .. Len(teams') : teams'[i] \in some
      BY <3>3 DEF Range
    <3>6. \A t \in Teams : cursor'[t] = 0 /\ gained'[t] = 0
      BY <3>4 DEF NoOne
    <3>7. FirstPass' /\ DenialsHaveCause'
      BY <3>2, <3>4, <3>5, <3>6 DEF FirstPass, DenialsHaveCause
    <3>8. PassedOverWithCause'
      BY <3>4 DEF PassedOverWithCause
    <3> QED BY <3>1, <3>2, <3>3, <3>4, <3>5, <3>6, <3>7, <3>8 DEF RoundRobinInv
  <2>2. ASSUME NEW t \in Teams, AdmitOne(t) PROVE RoundRobinInv'
    <3> DEFINE size == pending[t][cursor[t] + 1]
    <3>1. /\ phase = "turn" /\ phase' = "turn"
          /\ UNCHANGED << pending, teams >>
          /\ cursor' = [cursor EXCEPT ![t] = cursor[t] + 1]
          /\ cursor[t] < Len(pending[t])
          /\ FirstPass'
      BY <2>2, DecisionKeepsPass
    <3>2. size \in Nat
      BY <2>2, <3>1, NextSize
    <3>3. /\ gained' = [gained EXCEPT ![t] = gained[t] + 1]
          /\ team_active' = [team_active EXCEPT ![t] = team_active[t] + 1]
          /\ producer_active' = [producer_active EXCEPT ![t] = producer_active[t] + 1]
          /\ global_active' = global_active + 1
          /\ store_used' = store_used + size
      BY <2>2 DEF AdmitOne
    <3> HIDE DEF size
    <3>4. ASSUME NEW u \in Teams, cursor'[u] > 0, PassedOver(u)'
          PROVE  SharedBudgetSpent(u)'
      <4>1. u # t /\ gained[u] = 0 /\ pending'[u] = pending[u]
        BY <3>1, <3>3, <3>4 DEF PassedOver, Counts
      <4>2. /\ cursor[u] > 0
            /\ team_active'[u] = team_active[u]
            /\ producer_active'[u] = producer_active[u]
        BY <3>1, <3>3, <3>4, <4>1 DEF Counts
      <4>3. SharedBudgetSpent(u)
        BY <3>1, <3>4, <4>1, <4>2 DEF RoundRobinInv, DenialsHaveCause, PassedOver
      <4>4. pending[u][1] \in Nat
        <5>1. pending[u] # << >>
          BY <3>4, <4>1 DEF PassedOver
        <5> QED BY <5>1, FirstSize
      <4>5. StoreFull(pending[u][1]) => StoreFull(pending[u][1])'
        <5>1. /\ store_used \in Nat /\ store_used' = store_used + size
              /\ pending'[u][1] = pending[u][1]
          BY <3>3, <4>1 DEF Counts
        <5> HIDE DEF StoreFull
        <5>2. ASSUME NEW first \in Nat, 10 * (store_used + first) > 9 * StoreCapacity
              PROVE  10 * (store_used' + first) > 9 * StoreCapacity
          BY <3>2, <5>1, <5>2, SchedulerAssumption
        <5> QED BY <4>4, <5>1, <5>2 DEF StoreFull
      <4>6. global_active >= GlobalLimit => global_active' >= GlobalLimit
        BY <3>3, SchedulerAssumption DEF Counts
      <4> QED BY <4>1, <4>2, <4>3, <4>5, <4>6 DEF SharedBudgetSpent
    <3>5. DenialsHaveCause'
      BY <3>4 DEF DenialsHaveCause
    <3>6. \A u \in Teams : gained'[u] <= cursor'[u] /\ cursor'[u] <= Len(pending'[u])
      BY <2>0, <3>1, <3>3 DEF RoundRobinInv, Counts
    <3>7. PassedOverWithCause'
      BY <3>1 DEF PassedOverWithCause
    <3> QED BY <3>1, <3>5, <3>6, <3>7 DEF RoundRobinInv
  <2>3. ASSUME NEW t \in Teams, Refuse(t) PROVE RoundRobinInv'
    <3>1. /\ phase = "turn" /\ phase' = "turn"
          /\ UNCHANGED << pending, teams >>
          /\ cursor' = [cursor EXCEPT ![t] = cursor[t] + 1]
          /\ cursor[t] < Len(pending[t])
          /\ FirstPass'
      BY <2>3, DecisionKeepsPass
    <3>2. UNCHANGED << books, gained >> /\ Verdict(t, pending[t][cursor[t] + 1]) # "admitted"
      BY <2>3 DEF Refuse
    <3>3. ASSUME NEW u \in Teams, cursor'[u] > 0, PassedOver(u)'
          PROVE  SharedBudgetSpent(u)'
      <4>1. PassedOver(u)
        BY <3>1, <3>2, <3>3 DEF PassedOver, books
      <4>2. SharedBudgetSpent(u)
        <5>1. CASE cursor[u] > 0
          BY <3>1, <4>1, <5>1 DEF RoundRobinInv, DenialsHaveCause
        <5>2. CASE ~(cursor[u] > 0)
          <6>1. u = t /\ cursor[t] = 0
            BY <3>1, <3>3, <5>2 DEF Counts
          <6>2. Verdict(t, pending[t][1]) # "admitted"
            BY <3>2, <6>1
          <6>3. ~(pending[t][1] > OversizedBytes) /\ ~(team_active[t] >= PerTeamLimit)
            <7>1. pending[t][1] \in Nat /\ team_active[t] \in Nat
              BY <4>1, <6>1, FirstSize DEF PassedOver, Counts
            <7> QED BY <4>1, <6>1, <7>1, SchedulerAssumption DEF PassedOver
          <6> QED BY <6>1, <6>2, <6>3 DEF Verdict, SharedBudgetSpent
        <5> QED BY <5>1, <5>2
      <4> QED BY <3>1, <3>2, <4>2 DEF SharedBudgetSpent, StoreFull, books
    <3>4. DenialsHaveCause'
      BY <3>3 DEF DenialsHaveCause
    <3>5. \A u \in Teams : gained'[u] <= cursor'[u] /\ cursor'[u] <= Len(pending'[u])
      BY <2>0, <3>1, <3>2 DEF RoundRobinInv, Counts
    <3>6. PassedOverWithCause'
      BY <3>1 DEF PassedOverWithCause
    <3> QED BY <3>1, <3>2, <3>4, <3>5, <3>6 DEF RoundRobinInv
  <2>4. ASSUME NEW t \in Teams, Skip(t) PROVE RoundRobinInv'
    <3>1. /\ phase = "turn" /\ phase' = "turn" /\ t = teams[pos]
          /\ pos \in 1 .. Len(teams) /\ cursor[t] = Len(pending[t])
          /\ UNCHANGED << books, pending, teams, cursor, gained >>
      BY <2>4 DEF Skip, Serving, Counts
    <3>2. cursor[teams[pos]] # 0
      <4>1. pending[t] # << >>
        BY <3>1 DEF RoundRobinInv
      <4> QED BY <2>0, <3>1, <4>1
    <3>3. FirstPass'
      <4> SUFFICES ASSUME NEW u \in Teams, cursor[u] = 0, pending[u] # << >> PROVE FALSE
        BY <3>1 DEF FirstPass
      <4>1. cursor[teams[pos]] = IF pos < pos THEN 1 ELSE 0
        BY <3>1 DEF RoundRobinInv, FirstPass
      <4>2. ~(pos < pos)
        BY <3>1
      <4> QED BY <3>2, <4>1, <4>2
    <3>4. DenialsHaveCause'
      BY <3>1 DEF RoundRobinInv, DenialsHaveCause, PassedOver, SharedBudgetSpent,
                  StoreFull, books
    <3>5. PassedOverWithCause'
      BY <3>1 DEF PassedOverWithCause
    <3> QED BY <3>1, <3>3, <3>4, <3>5 DEF RoundRobinInv
  <2>5. CASE NextPass
    <3>1. /\ phase = "turn" /\ phase' = "turn" /\ pos > Len(teams)
          /\ UNCHANGED << books, pending, teams, cursor, gained >>
      BY <2>5 DEF NextPass
    <3>2. \A t \in Teams : cursor[t] = 0 => pending[t] = << >>
      <4> SUFFICES ASSUME NEW t \in Teams, cursor[t] = 0, pending[t] # << >>
                   PROVE  FALSE
        OBVIOUS
      <4>1. PICK i \in 1 .. Len(teams) : teams[i] = t
        BY <3>1, OnTheRoster
      <4>2. i < pos
        BY <3>1, <4>1 DEF Counts
      <4>3. cursor[teams[i]] = IF i < pos THEN 1 ELSE 0
        BY <3>1, <4>1 DEF RoundRobinInv, FirstPass
      <4> QED BY <4>1, <4>2, <4>3
    <3>3. FirstPass'
      BY <3>1, <3>2 DEF FirstPass
    <3>4. DenialsHaveCause'
      BY <3>1 DEF RoundRobinInv, DenialsHaveCause, PassedOver, SharedBudgetSpent,
                  StoreFull, books
    <3>5. PassedOverWithCause'
      BY <3>1 DEF PassedOverWithCause
    <3> QED BY <3>1, <3>3, <3>4, <3>5 DEF RoundRobinInv
  <2>6. CASE Finish
    <3>1. /\ phase = "turn" /\ phase' = "served"
          /\ UNCHANGED << books, pending, teams, cursor, admitted, gained, pos >>
          /\ admitted >= DrainBound \/ pos > Len(teams)
      BY <2>6 DEF Finish, turn
    <3>2. ASSUME NEW t \in Teams, PassedOver(t), cursor[t] = 0
          PROVE  admitted >= DrainBound /\ \A u \in Teams : gained[u] <= 1
      <4>1. pending[t] # << >>
        BY <3>2 DEF PassedOver
      <4>2. \A i \in 1 .. Len(teams) : cursor[teams[i]] = IF i < pos THEN 1 ELSE 0
        BY <3>1, <3>2, <4>1 DEF RoundRobinInv, FirstPass
      <4>3. PICK i \in 1 .. Len(teams) : teams[i] = t
        BY <3>1, <4>1, OnTheRoster
      <4>4. ~(pos > Len(teams))
        <5>1. ~(i < pos)
          BY <3>2, <4>2, <4>3
        <5> QED BY <4>3, <5>1 DEF Counts
      <4>5. ASSUME NEW u \in Teams PROVE gained[u] <= 1
        <5>1. gained[u] \in Nat /\ cursor[u] \in Nat /\ gained[u] <= cursor[u]
          BY <3>1 DEF RoundRobinInv, Counts
        <5>2. CASE pending[u] = << >>
          <6>1. cursor[u] <= Len(pending[u]) /\ Len(pending[u]) = 0
            BY <3>1, <5>2 DEF RoundRobinInv
          <6> QED BY <5>1, <6>1
        <5>3. CASE pending[u] # << >>
          <6>1. PICK k \in 1 .. Len(teams) : teams[k] = u
            BY <3>1, <5>3, OnTheRoster
          <6>2. cursor[u] = IF k < pos THEN 1 ELSE 0
            BY <4>2, <6>1
          <6>3. cursor[u] <= 1
            BY <6>2
          <6> QED BY <5>1, <6>3
        <5> QED BY <5>2, <5>3
      <4> QED BY <3>1, <4>4, <4>5
    <3>3. ASSUME NEW t \in Teams, PassedOver(t), cursor[t] # 0
          PROVE  SharedBudgetSpent(t)
      <4>1. cursor[t] > 0
        BY <3>3 DEF Counts
      <4> QED BY <3>1, <3>3, <4>1 DEF RoundRobinInv, DenialsHaveCause
    <3>4. PassedOverWithCause'
      BY <3>1, <3>2, <3>3 DEF PassedOverWithCause, PassedOver, SharedBudgetSpent,
                              StoreFull, books
    <3> QED BY <3>1, <3>4 DEF RoundRobinInv
  <2>7. CASE AgeRound
    BY <2>7 DEF AgeRound, RoundRobinInv, PassedOverWithCause
  <2>8. ASSUME NEW t \in Teams, NEW size \in Sizes, Release(t, size)
        PROVE RoundRobinInv'
    BY <2>8 DEF Release, RoundRobinInv, PassedOverWithCause
  <2>9. CASE UNCHANGED vars
    BY <2>9 DEF vars, turn, books, RoundRobinInv, FirstPass, DenialsHaveCause,
                PassedOverWithCause, PassedOver, SharedBudgetSpent, StoreFull
  <2> QED BY <2>1, <2>2, <2>3, <2>4, <2>5, <2>6, <2>7, <2>8, <2>9 DEF Next
<1>3. RoundRobinInv => PassedOverWithCause
  BY DEF RoundRobinInv
<1> QED BY <1>1, <1>2, <1>3, TypeCorrect, PTL DEF Spec

(***************************************************************************)
(* The books. An admission adds one envelope to the bag of those held, and *)
(* a release takes one from it; BooksGrow says for both what becomes of    *)
(* the counts. Sizes may be infinite, so that the sets counted are finite  *)
(* is part of the invariant.                                               *)
(***************************************************************************)
Bags == [Teams -> [Sizes -> Nat]]

\* Bag g is bag h with one more envelope of team t and size s.
OneMore(g, h, t, s) ==
    \A u \in Teams, n \in Sizes :
        g[u][n] = IF u = t /\ n = s THEN h[u][n] + 1 ELSE h[u][n]

Countable(bag) ==
    /\ IsFiniteSet(EnvelopesOf(bag, Teams))
    /\ IsFiniteSet(BytesOf(EnvelopesOf(bag, Teams)))

\* One more in the bag is one more in the set, if its team is counted.
LEMMA EnvelopesGrow ==
    ASSUME NEW g \in Bags, NEW h \in Bags, NEW t \in Teams, NEW s \in Sizes,
           OneMore(g, h, t, s), NEW some \in SUBSET Teams
    PROVE  /\ << t, s, h[t][s] + 1 >> \notin EnvelopesOf(h, some)
           /\ t \in some =>
                EnvelopesOf(g, some)
                    = EnvelopesOf(h, some) \cup {<< t, s, h[t][s] + 1 >>}
           /\ t \notin some => EnvelopesOf(g, some) = EnvelopesOf(h, some)
<1> DEFINE new == << t, s, h[t][s] + 1 >>
<1>1. ASSUME NEW bag, NEW e
      PROVE  e \in EnvelopesOf(bag, some) <=>
                \E u \in some, n \in Sizes :
                    \E k \in 1 .. bag[u][n] : e = << u, n, k >>
  BY DEF EnvelopesOf
<1>2. \A u \in Teams, n \in Sizes : h[u][n] \in Nat /\ g[u][n] \in Nat
  BY DEF Bags
<1>3. new \notin EnvelopesOf(h, some)
  <2> SUFFICES ASSUME NEW u \in some, NEW n \in Sizes, NEW k \in 1 .. h[u][n],
                      new = << u, n, k >>
               PROVE  FALSE
    BY <1>1
  <2>1. u = t /\ n = s /\ k = h[t][s] + 1
    OBVIOUS
  <2> QED BY <1>2, <2>1
<1>4. ASSUME NEW u \in Teams, NEW n \in Sizes, ~(u = t /\ n = s)
      PROVE  1 .. g[u][n] = 1 .. h[u][n]
  BY <1>4 DEF OneMore
<1>5. 1 .. g[t][s] = 1 .. h[t][s] \cup {h[t][s] + 1}
  BY <1>2 DEF OneMore
<1>6. ASSUME t \notin some PROVE EnvelopesOf(g, some) = EnvelopesOf(h, some)
  <2>1. \A u \in some, n \in Sizes : 1 .. g[u][n] = 1 .. h[u][n]
    BY <1>4, <1>6
  <2>2. ASSUME NEW e PROVE e \in EnvelopesOf(g, some) <=> e \in EnvelopesOf(h, some)
    <3>1. \A u \in some, n \in Sizes :
            (\E k \in 1 .. g[u][n] : e = << u, n, k >>)
                <=> (\E k \in 1 .. h[u][n] : e = << u, n, k >>)
      BY <2>1
    <3> QED BY <1>1, <3>1
  <2> QED BY <2>2
<1>7. ASSUME t \in some
      PROVE  EnvelopesOf(g, some) = EnvelopesOf(h, some) \cup {new}
  <2>1. ASSUME NEW e \in EnvelopesOf(g, some)
        PROVE  e \in EnvelopesOf(h, some) \cup {new}
    <3>1. PICK u \in some, n \in Sizes : \E k \in 1 .. g[u][n] : e = << u, n, k >>
      BY <1>1
    <3>2. PICK k \in 1 .. g[u][n] : e = << u, n, k >>
      BY <3>1
    <3>3. k \in 1 .. h[u][n] \/ (u = t /\ n = s /\ k = h[t][s] + 1)
      BY <1>4, <1>5
    <3> QED BY <1>1, <3>2, <3>3
  <2>2. EnvelopesOf(h, some) \subseteq EnvelopesOf(g, some)
    <3> SUFFICES ASSUME NEW u \in some, NEW n \in Sizes, NEW k \in 1 .. h[u][n]
                 PROVE  << u, n, k >> \in EnvelopesOf(g, some)
      BY <1>1
    <3>1. k \in 1 .. g[u][n]
      BY <1>4, <1>5
    <3> QED BY <1>1, <3>1
  <2>3. new \in EnvelopesOf(g, some)
    BY <1>1, <1>5, <1>7
  <2> QED BY <2>1, <2>2, <2>3
<1> QED BY <1>3, <1>6, <1>7

\* An envelope added to a set adds as many bytes as its size.
LEMMA BytesGrow ==
    ASSUME NEW S, NEW e, e \notin S, e[2] \in Nat, IsFiniteSet(BytesOf(S))
    PROVE  /\ IsFiniteSet(BytesOf(S \cup {e}))
           /\ Cardinality(BytesOf(S \cup {e})) = Cardinality(BytesOf(S)) + e[2]
<1> DEFINE more == {<< e, b >> : b \in 1 .. e[2]}
           f == [b \in 1 .. e[2] |-> << e, b >>]
<1>1. IsFiniteSet(1 .. e[2]) /\ Cardinality(1 .. e[2]) = e[2]
  <2>1. /\ IsFiniteSet(1 .. e[2])
        /\ Cardinality(1 .. e[2]) = IF 1 > e[2] THEN 0 ELSE e[2] - 1 + 1
    BY FS_Interval
  <2> QED BY <2>1
<1>2. ExistsBijection(1 .. e[2], more)
  <2>1. f \in Bijection(1 .. e[2], more)
    BY DEF Bijection, Injection, Surjection, IsInjective
  <2> QED BY <2>1 DEF ExistsBijection
<1>3. IsFiniteSet(more) /\ Cardinality(more) = e[2]
  BY <1>1, <1>2, FS_Bijection
<1>4. BytesOf(S \cup {e}) = BytesOf(S) \cup more
  BY DEF BytesOf
<1>5. BytesOf(S) \cap more = {}
  BY DEF BytesOf
<1> HIDE DEF more
<1>6. Cardinality(BytesOf(S)) \in Nat /\ Cardinality({}) = 0
  BY FS_CardinalityType, FS_EmptySet
<1>7. /\ IsFiniteSet(BytesOf(S) \cup more)
      /\ Cardinality(BytesOf(S) \cup more)
            = Cardinality(BytesOf(S)) + Cardinality(more) - Cardinality({})
  BY <1>3, <1>5, FS_Union
<1>8. Cardinality(BytesOf(S) \cup more) = Cardinality(BytesOf(S)) + e[2]
  BY <1>3, <1>6, <1>7
<1> QED BY <1>4, <1>7, <1>8

\* What one more envelope makes of the four counts.
LEMMA BooksGrow ==
    ASSUME NEW g \in Bags, NEW h \in Bags, NEW t \in Teams, NEW s \in Sizes,
           OneMore(g, h, t, s), Countable(g) \/ Countable(h)
    PROVE  /\ Countable(g) /\ Countable(h)
           /\ \A u \in Teams :
                /\ Cardinality(EnvelopesOf(h, {u})) \in Nat
                /\ Cardinality(EnvelopesOf(g, {u})) =
                        IF u = t THEN Cardinality(EnvelopesOf(h, {u})) + 1
                                 ELSE Cardinality(EnvelopesOf(h, {u}))
           /\ Cardinality(EnvelopesOf(h, Teams)) \in Nat
           /\ Cardinality(EnvelopesOf(g, Teams)) = Cardinality(EnvelopesOf(h, Teams)) + 1
           /\ Cardinality(BytesOf(EnvelopesOf(h, Teams))) \in Nat
           /\ Cardinality(BytesOf(EnvelopesOf(g, Teams)))
                = Cardinality(BytesOf(EnvelopesOf(h, Teams))) + s
<1> DEFINE new == << t, s, h[t][s] + 1 >>
           before == EnvelopesOf(h, Teams)
           after == EnvelopesOf(g, Teams)
<1>1. after = before \cup {new} /\ new \notin before
  BY EnvelopesGrow
<1>2. new[2] = s /\ s \in Nat
  BY SchedulerAssumption
<1>3. BytesOf(before) \subseteq BytesOf(after)
  BY <1>1 DEF BytesOf
<1>4. IsFiniteSet(before) /\ IsFiniteSet(BytesOf(before))
  BY <1>1, <1>3, FS_Subset DEF Countable
<1>5. /\ IsFiniteSet(after) /\ Cardinality(before) \in Nat
      /\ Cardinality(after) = Cardinality(before) + 1
  BY <1>1, <1>4, FS_AddElement, FS_CardinalityType
<1>6. /\ IsFiniteSet(BytesOf(after)) /\ Cardinality(BytesOf(before)) \in Nat
      /\ Cardinality(BytesOf(after)) = Cardinality(BytesOf(before)) + s
  <2> HIDE DEF new, before, after
  <2>1. /\ IsFiniteSet(BytesOf(before \cup {new}))
        /\ Cardinality(BytesOf(before \cup {new}))
                = Cardinality(BytesOf(before)) + new[2]
    BY <1>1, <1>2, <1>4, BytesGrow
  <2> QED BY <1>1, <1>2, <1>4, <2>1, FS_CardinalityType
<1>7. ASSUME NEW u \in Teams
      PROVE  /\ Cardinality(EnvelopesOf(h, {u})) \in Nat
             /\ Cardinality(EnvelopesOf(g, {u})) =
                    IF u = t THEN Cardinality(EnvelopesOf(h, {u})) + 1
                             ELSE Cardinality(EnvelopesOf(h, {u}))
  <2>1. EnvelopesOf(h, {u}) \subseteq before
    BY DEF EnvelopesOf
  <2>2. IsFiniteSet(EnvelopesOf(h, {u}))
    BY <1>4, <2>1, FS_Subset
  <2>3. /\ new \notin EnvelopesOf(h, {u})
        /\ t \in {u} => EnvelopesOf(g, {u}) = EnvelopesOf(h, {u}) \cup {new}
        /\ t \notin {u} => EnvelopesOf(g, {u}) = EnvelopesOf(h, {u})
    BY EnvelopesGrow
  <2> QED BY <2>2, <2>3, FS_AddElement, FS_CardinalityType
<1> QED BY <1>4, <1>5, <1>6, <1>7 DEF Countable

BooksInv == Countable(held) /\ BooksAgree

LEMMA AdmitOneKeepsBooks ==
    ASSUME Counts, BooksInv, NEW t \in Teams, AdmitOne(t)
    PROVE  BooksInv'
<1> DEFINE size == pending[t][cursor[t] + 1]
<1>1. size \in Sizes /\ size \in Nat
  BY NextSize DEF AdmitOne
<1>2. /\ team_active' = [team_active EXCEPT ![t] = team_active[t] + 1]
      /\ producer_active' = [producer_active EXCEPT ![t] = producer_active[t] + 1]
      /\ global_active' = global_active + 1
      /\ store_used' = store_used + size
      /\ held' = [held EXCEPT ![t] = [held[t] EXCEPT ![size] = held[t][size] + 1]]
  BY DEF AdmitOne, Counts
<1> HIDE DEF size
<1>3. held \in Bags /\ held' \in Bags /\ OneMore(held', held, t, size)
  <2>1. held \in Bags
    BY DEF Counts, Bags
  <2>2. [held[t] EXCEPT ![size] = held[t][size] + 1] \in [Sizes -> Nat]
    BY <1>1, <2>1 DEF Bags
  <2>3. held' \in Bags
    BY <1>2, <2>1, <2>2 DEF Bags
  <2>4. OneMore(held', held, t, size)
    BY <1>1, <1>2, <2>1 DEF Bags, OneMore
  <2> QED BY <2>1, <2>3, <2>4
<1>4. /\ Countable(held')
      /\ \A u \in Teams :
            Cardinality(EnvelopesOf(held', {u})) =
                IF u = t THEN Cardinality(EnvelopesOf(held, {u})) + 1
                         ELSE Cardinality(EnvelopesOf(held, {u}))
      /\ Cardinality(EnvelopesOf(held', Teams)) = Cardinality(EnvelopesOf(held, Teams)) + 1
      /\ Cardinality(BytesOf(EnvelopesOf(held', Teams)))
            = Cardinality(BytesOf(EnvelopesOf(held, Teams))) + size
  BY <1>1, <1>3, BooksGrow DEF BooksInv
<1>5. team_active \in [Teams -> Nat] /\ producer_active \in [Teams -> Nat]
  BY DEF Counts
<1> QED BY <1>2, <1>4, <1>5 DEF BooksInv, BooksAgree, Countable

\* A released envelope is booked, so no subtraction is cut short.
LEMMA ReleaseKeepsBooks ==
    ASSUME Counts, BooksInv, NEW t \in Teams, NEW size \in Sizes, Release(t, size)
    PROVE  BooksInv'
<1>1. /\ held[t][size] \in Nat /\ held[t][size] > 0 /\ size \in Nat
      /\ held' = [held EXCEPT ![t] = [held[t] EXCEPT ![size] = held[t][size] - 1]]
  BY SchedulerAssumption DEF Release, Counts
<1>2. held \in Bags /\ held' \in Bags /\ OneMore(held, held', t, size)
  BY <1>1 DEF Counts, Bags, OneMore
<1>3. /\ Countable(held')
      /\ \A u \in Teams :
            /\ Cardinality(EnvelopesOf(held', {u})) \in Nat
            /\ Cardinality(EnvelopesOf(held, {u})) =
                IF u = t THEN Cardinality(EnvelopesOf(held', {u})) + 1
                         ELSE Cardinality(EnvelopesOf(held', {u}))
      /\ Cardinality(EnvelopesOf(held', Teams)) \in Nat
      /\ Cardinality(EnvelopesOf(held, Teams)) = Cardinality(EnvelopesOf(held', Teams)) + 1
      /\ Cardinality(BytesOf(EnvelopesOf(held', Teams))) \in Nat
      /\ Cardinality(BytesOf(EnvelopesOf(held, Teams)))
            = Cardinality(BytesOf(EnvelopesOf(held', Teams))) + size
  BY <1>2, BooksGrow DEF BooksInv
<1>4. \A a, b \in Nat : Minus(a + b, b) = a
  BY DEF Minus
<1>5. \A u \in Teams :
        /\ team_active'[u] = IF u = t THEN Minus(team_active[u], 1) ELSE team_active[u]
        /\ producer_active'[u] =
                IF u = t THEN Minus(producer_active[u], 1) ELSE producer_active[u]
  BY DEF Release, Counts
<1>6. /\ global_active' = Minus(global_active, 1)
      /\ store_used' = Minus(store_used, size)
  BY DEF Release
<1>7. \A u \in Teams : /\ team_active[u] = Cardinality(EnvelopesOf(held, {u}))
                        /\ producer_active[u] = Cardinality(EnvelopesOf(held, {u}))
  BY DEF BooksInv, BooksAgree
<1>8. \A u \in Teams : /\ team_active'[u] = Cardinality(EnvelopesOf(held', {u}))
                        /\ producer_active'[u] = Cardinality(EnvelopesOf(held', {u}))
  <2> SUFFICES ASSUME NEW u \in Teams
               PROVE  /\ team_active'[u] = Cardinality(EnvelopesOf(held', {u}))
                      /\ producer_active'[u] = Cardinality(EnvelopesOf(held', {u}))
    OBVIOUS
  <2> DEFINE left == Cardinality(EnvelopesOf(held', {u}))
             some == Cardinality(EnvelopesOf(held, {u}))
  <2>1. left \in Nat /\ some = IF u = t THEN left + 1 ELSE left
    BY <1>3
  <2>2. Minus(left + 1, 1) = left
    BY <1>4, <2>1
  <2>3. team_active[u] = some /\ producer_active[u] = some
    BY <1>7
  <2> HIDE DEF left, some
  <2>4. team_active'[u] = left /\ producer_active'[u] = left
    BY <1>5, <2>1, <2>2, <2>3
  <2> QED BY <2>4 DEF left
<1>9. global_active' = Cardinality(EnvelopesOf(held', Teams))
  BY <1>3, <1>4, <1>6 DEF BooksInv, BooksAgree
<1>10. store_used' = Cardinality(BytesOf(EnvelopesOf(held', Teams)))
  BY <1>1, <1>3, <1>4, <1>6 DEF BooksInv, BooksAgree
<1> QED BY <1>3, <1>8, <1>9, <1>10 DEF BooksInv, BooksAgree, Countable

\* The four books count what was admitted and not released, after any turns
\* and releases.
THEOREM BooksNeverDrift == Spec => []BooksAgree
<1>1. Init => BooksInv
  <2> SUFFICES ASSUME Init PROVE BooksInv
    OBVIOUS
  <2>1. \A t \in Teams, n \in Sizes : held[t][n] = 0
    BY DEF Init
  <2>2. ASSUME NEW some \in SUBSET Teams PROVE EnvelopesOf(held, some) = {}
    BY <2>1 DEF EnvelopesOf
  <2>3. BytesOf({}) = {}
    BY DEF BytesOf
  <2>4. \A t \in Teams : EnvelopesOf(held, {t}) = {}
    BY <2>2
  <2>5. EnvelopesOf(held, Teams) = {}
    BY <2>2
  <2> QED BY <2>3, <2>4, <2>5, FS_EmptySet
        DEF Init, NoOne, BooksInv, BooksAgree, Countable
<1>2. TypeOK /\ BooksInv /\ [Next]_vars => BooksInv'
  <2> SUFFICES ASSUME Counts, BooksInv, [Next]_vars PROVE BooksInv'
    BY TypeIsCounts
  <2>1. ASSUME UNCHANGED << books, held >> PROVE BooksInv'
    BY <2>1 DEF books, BooksInv, BooksAgree, Countable
  <2>2. \/ \E t \in Teams : AdmitOne(t)
        \/ \E t \in Teams, size \in Sizes : Release(t, size)
        \/ UNCHANGED << books, held >>
    BY DEF Next, Start, Refuse, Skip, NextPass, Finish, AgeRound, vars, Decided
  <2> QED BY <2>1, <2>2, AdmitOneKeepsBooks, ReleaseKeepsBooks
<1>3. BooksInv => BooksAgree
  BY DEF BooksInv
<1> QED BY <1>1, <1>2, <1>3, TypeCorrect, PTL DEF Spec
===============================================================================

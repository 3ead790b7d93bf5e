---------------------------- MODULE EffectJournal ----------------------------
(***************************************************************************)
(* The effect journal of src/src/journal.rs: the durable record of every   *)
(* effect id a station has seen and how far it got.                        *)
(*                                                                         *)
(*     absent --prepare--> prepared --admit--> admitted --consume--> consumed *)
(*                                                                         *)
(* The HashMap is a total function; an id that is not a key is "absent".   *)
(* An operation of the code that mutates the map and answers the caller is *)
(* two operators here: the new journal, and the answer.                    *)
(***************************************************************************)
EXTENDS Naturals

CONSTANT EffectIds          \* every effect id that can be journaled

EffectState == {"prepared", "admitted", "consumed"}

Journal == [EffectIds -> EffectState \cup {"absent"}]

EmptyJournal == [id \in EffectIds |-> "absent"]

\* Mutant of Prepares: only a pending id is recognised.
PreparesUnlessPending(j, id) == j[id] # "prepared"

\* Mutant of Prepare: insert in the place of the vacant entry check.
PrepareOverwrites(j, id) == [j EXCEPT ![id] = "prepared"]

\* EffectJournal::prepare. Only a vacant entry is filled: an id that is
\* already journaled keeps its state. Prepares is the value returned.
Prepares(j, id) == j[id] = "absent"
Prepare(j, id) ==
    IF Prepares(j, id) THEN [j EXCEPT ![id] = "prepared"] ELSE j

\* EffectJournal::admit. Admits holds when it answers Some(id), the one
\* answer on which the caller enacts the effect.
Admits(j, id) == j[id] = "prepared"
Admit(j, id) ==
    IF Admits(j, id) THEN [j EXCEPT ![id] = "admitted"] ELSE j

\* Mutant of Consume: a state the record format does not know.
ConsumeUnknown(j, id) == [j EXCEPT ![id] = "acknowledged"]

\* EffectJournal::consume: the acknowledgement of an exposed effect.
Consumes(j, id) == j[id] = "admitted"
Consume(j, id) ==
    IF Consumes(j, id) THEN [j EXCEPT ![id] = "consumed"] ELSE j

\* EffectJournal::ids_in, without its order.
IdsIn(j, state) == {id \in EffectIds : j[id] = state}

\* Admitting, or consuming, each id of a set: the loops of
\* QueueStore::drain and reconcile.
AdmitAll(j, ids) ==
    [id \in EffectIds |-> IF id \in ids THEN Admit(j, id)[id] ELSE j[id]]
ConsumeAll(j, ids) ==
    [id \in EffectIds |-> IF id \in ids THEN Consume(j, id)[id] ELSE j[id]]

\* Mutant of Reconciled: whatever was not acknowledged is enacted again.
ReconciledUnacknowledged(j) == IdsIn(j, "prepared") \cup IdsIn(j, "admitted")

\* reconcile: what a restart does with the surviving journal. Both lists are
\* taken before either loop runs, so an id admitted by this recovery is not
\* also consumed by it. Reconciled is the list returned, which the caller
\* enacts.
Reconciled(j) == IdsIn(j, "prepared")
Reconcile(j) ==
    AdmitAll(ConsumeAll(j, IdsIn(j, "admitted")), Reconciled(j))

(***************************************************************************)
(* The order of the lifecycle, for properties that say a journal never     *)
(* goes back.                                                              *)
(***************************************************************************)
Progress == [s \in EffectState \cup {"absent"} |->
                CASE s = "absent"   -> 0
                  [] s = "prepared" -> 1
                  [] s = "admitted" -> 2
                  [] s = "consumed" -> 3]

NoDowngrade(old, new) ==
    \A id \in EffectIds : Progress[old[id]] <= Progress[new[id]]
==============================================================================

---------------------------- MODULE JournalRecovery ----------------------------
(***************************************************************************)
(* The crash and recovery protocol that the effect journal is built for    *)
(* (src/src/journal.rs, "Gate 2"): a host keeps the journal in memory,     *)
(* saves it, enacts an effect when `admit` answers Some, acknowledges it   *)
(* with `consume`, and after a crash calls `reconcile` on the record that  *)
(* survived and enacts what that returns.                                  *)
(*                                                                         *)
(* The journal's operations are the code's. When the host saves is not: no *)
(* caller in this repository does it yet, and the order of saving and      *)
(* enacting decides what a crash between the two costs. A host keeps to    *)
(* one order, and each half of the comments' guarantee is stated under     *)
(* the order that gives it.                                                *)
(***************************************************************************)
EXTENDS EffectJournal

CONSTANT MaxCrashes      \* bound: how often the host dies

ASSUME RecoveryAssumption == MaxCrashes \in Nat

VARIABLES
    durable,    \* the saved journal, the only thing a crash leaves
    journal,    \* the journal in the host's memory
    up,         \* is the host running?
    due,        \* effects `admit` or `reconcile` told the host to enact
    enacted,    \* how often each effect has been enacted
    crashes,
    order       \* "saveFirst": an effect is enacted only after its admission
                \* is saved; "enactFirst": the admission is saved after it

vars == << durable, journal, up, due, enacted, crashes, order >>

SaveFirst == order = "saveFirst"
EnactFirst == order = "enactFirst"

Init ==
    /\ durable = EmptyJournal
    /\ journal = EmptyJournal
    /\ up = TRUE
    /\ due = {}
    /\ enacted = [id \in EffectIds |-> 0]
    /\ crashes = 0
    /\ order \in {"saveFirst", "enactFirst"}

\* An envelope arrives, for the first time or again.
Arrive(id) ==
    /\ up
    /\ journal' = Prepare(journal, id)
    /\ UNCHANGED << durable, up, due, enacted, crashes, order >>

\* The effect is exposed. Any answer but Some leaves everything alone.
Expose(id) ==
    /\ up
    /\ Admits(journal, id)
    /\ journal' = Admit(journal, id)
    /\ due' = due \cup {id}
    /\ UNCHANGED << durable, up, enacted, crashes, order >>

Enact(id) ==
    /\ up
    /\ id \in due
    /\ SaveFirst => ~Admits(durable, id) /\ durable[id] # "absent"
    /\ enacted' = [enacted EXCEPT ![id] = @ + 1]
    /\ due' = due \ {id}
    /\ UNCHANGED << durable, journal, up, crashes, order >>

Acknowledge(id) ==
    /\ up
    /\ id \notin due
    /\ Consumes(journal, id)
    /\ journal' = Consume(journal, id)
    /\ UNCHANGED << durable, up, due, enacted, crashes, order >>

SaveJournal ==
    /\ up
    /\ EnactFirst => due = {}
    /\ durable' = journal
    /\ UNCHANGED << journal, up, due, enacted, crashes, order >>

Crash ==
    /\ up
    /\ crashes < MaxCrashes
    /\ crashes' = crashes + 1
    /\ up' = FALSE
    /\ journal' = EmptyJournal
    /\ due' = {}
    /\ UNCHANGED << durable, enacted, order >>

\* Mutant of Restart: the list to enact is read off after the loops.
RestartCollectsLate ==
    /\ ~up
    /\ up' = TRUE
    /\ journal' = Reconcile(durable)
    /\ due' = Reconciled(Reconcile(durable))
    /\ UNCHANGED << durable, enacted, crashes, order >>

Restart ==
    /\ ~up
    /\ up' = TRUE
    /\ journal' = Reconcile(durable)
    /\ due' = Reconciled(durable)
    /\ UNCHANGED << durable, enacted, crashes, order >>

Next ==
    \/ \E id \in EffectIds : Arrive(id) \/ Expose(id) \/ Enact(id) \/ Acknowledge(id)
    \/ SaveJournal \/ Crash \/ Restart

Spec == Init /\ [][Next]_vars

\* A host that is up goes on exposing, enacting and saving, and one that is
\* down is restarted. Nothing obliges it to acknowledge.
Fairness ==
    /\ WF_vars(Restart)
    /\ WF_vars(SaveJournal)
    /\ \A id \in EffectIds : WF_vars(Expose(id)) /\ WF_vars(Enact(id))

FairSpec == Spec /\ Fairness

-------------------------------------------------------------------------------
TypeOK ==
    /\ durable \in Journal /\ journal \in Journal
    /\ up \in BOOLEAN
    /\ due \subseteq EffectIds
    /\ enacted \in [EffectIds -> Nat]
    /\ crashes \in Nat
    /\ order \in {"saveFirst", "enactFirst"}

\* Saving before enacting, no effect is enacted twice: not by a re-delivery,
\* not after a crash at any point, not by reconcile (journal.rs, lines 3-10).
AtMostOnce == SaveFirst => \A id \in EffectIds : enacted[id] <= 1

\* Saving after enacting, reconcile may acknowledge an effect it finds admitted
\* without enacting it: the effect has happened (journal.rs, lines 170-171).
AdmittedHasHappened ==
    EnactFirst =>
        \A id \in EffectIds :
            durable[id] \in {"admitted", "consumed"} => enacted[id] >= 1

\* The surviving journal never goes back, through crashes and recoveries too.
DurableAdvances == [][NoDowngrade(durable, durable')]_vars

\* Saving after enacting, an envelope whose arrival was saved is enacted in the
\* end, however the crashes fall: no lost envelope (journal.rs, line 167).
PreparedIsEnacted ==
    \A id \in EffectIds :
        EnactFirst /\ durable[id] = "prepared" ~> enacted[id] >= 1
===============================================================================

------------------------- MODULE JournalRecoveryProofs -------------------------
(***************************************************************************)
(* Proofs about the recovery protocol, for any set of effects and any      *)
(* number of crashes.                                                      *)
(***************************************************************************)
EXTENDS JournalRecovery, TLAPS

\* What reconcile leaves: it acknowledges what was admitted, admits what was
\* prepared, and touches nothing else.
LEMMA ReconcileState ==
    ASSUME NEW j \in Journal
    PROVE  /\ Reconcile(j) \in Journal
           /\ \A id \in EffectIds :
                /\ j[id] = "absent" => Reconcile(j)[id] = "absent"
                /\ j[id] = "prepared" => Reconcile(j)[id] = "admitted"
                /\ j[id] \in {"admitted", "consumed"} => Reconcile(j)[id] = "consumed"
<1> DEFINE mid == ConsumeAll(j, IdsIn(j, "admitted"))
<1>1. \A id \in EffectIds :
        mid[id] = IF j[id] = "admitted" THEN "consumed" ELSE j[id]
  BY DEF ConsumeAll, Consume, Consumes, IdsIn, Journal
<1>2. mid \in Journal
  BY <1>1 DEF ConsumeAll, Journal, EffectState
<1>3. \A id \in EffectIds :
        Reconcile(j)[id] = IF j[id] = "prepared" THEN "admitted" ELSE mid[id]
  BY <1>1, <1>2 DEF Reconcile, AdmitAll, Admit, Admits, Reconciled, IdsIn, Journal
<1>4. Reconcile(j) \in Journal
  BY <1>2, <1>3 DEF Reconcile, AdmitAll, Journal, EffectState
<1> QED BY <1>1, <1>3, <1>4 DEF Journal, EffectState

\* A second reconcile of the same journal admits nothing: recovery that is
\* itself interrupted after its save enacts no effect again (journal.rs, 174).
THEOREM ReconcileOnce ==
    ASSUME NEW j \in Journal
    PROVE  Reconciled(Reconcile(j)) = {}
BY ReconcileState DEF Reconciled, IdsIn, Journal, EffectState

(***************************************************************************)
(* The running host is ahead of its saved journal, and what it owes or has *)
(* enacted shows in the two journals.                                      *)
(***************************************************************************)
Ahead == up => NoDowngrade(durable, journal)

\* An effect that is due is admitted in memory and nowhere acknowledged.
DueIsAdmitted == \A id \in due : up /\ journal[id] = "admitted"

EnactedOnce ==
    SaveFirst =>
        \A id \in EffectIds :
            /\ enacted[id] <= 1
            /\ id \in due => enacted[id] = 0
            /\ enacted[id] > 0 => durable[id] \in {"admitted", "consumed"}

HappenedOrDue ==
    EnactFirst =>
        \A id \in EffectIds :
            /\ durable[id] \in {"admitted", "consumed"} => enacted[id] >= 1
            /\ up /\ journal[id] \in {"admitted", "consumed"}
                    => enacted[id] >= 1 \/ id \in due

RecoveryInv == TypeOK /\ Ahead /\ DueIsAdmitted /\ EnactedOnce /\ HappenedOrDue

\* NoDowngrade, spelt out by states.
LEMMA NoDowngradeStates ==
    ASSUME NEW old \in Journal, NEW new \in Journal
    PROVE  NoDowngrade(old, new) <=>
             \A id \in EffectIds :
                /\ old[id] = "prepared" => new[id] # "absent"
                /\ old[id] = "admitted" => new[id] \in {"admitted", "consumed"}
                /\ old[id] = "consumed" => new[id] = "consumed"
<1>1. /\ Progress["absent"] = 0
      /\ Progress["prepared"] = 1
      /\ Progress["admitted"] = 2
      /\ Progress["consumed"] = 3
  BY DEF Progress, EffectState
<1>2. \A id \in EffectIds :
        /\ old[id] \in {"absent", "prepared", "admitted", "consumed"}
        /\ new[id] \in {"absent", "prepared", "admitted", "consumed"}
  BY DEF Journal, EffectState
<1> QED BY <1>1, <1>2 DEF NoDowngrade

LEMMA InitRecovery == Init => RecoveryInv
<1> SUFFICES ASSUME Init PROVE RecoveryInv
  OBVIOUS
<1>1. EmptyJournal \in Journal /\ \A id \in EffectIds : EmptyJournal[id] = "absent"
  BY DEF EmptyJournal, Journal
<1>2. TypeOK
  BY <1>1 DEF Init, TypeOK
<1>3. Ahead
  BY <1>1, NoDowngradeStates DEF Init, Ahead
<1>4. DueIsAdmitted /\ EnactedOnce /\ HappenedOrDue
  BY <1>1 DEF Init, DueIsAdmitted, EnactedOnce, HappenedOrDue
<1> QED BY <1>2, <1>3, <1>4 DEF RecoveryInv

LEMMA NextRecovery == RecoveryInv /\ [Next]_vars => RecoveryInv'
<1> SUFFICES ASSUME RecoveryInv, [Next]_vars PROVE RecoveryInv'
  OBVIOUS
<1> USE DEF RecoveryInv, SaveFirst, EnactFirst
<1>1. /\ durable \in Journal /\ journal \in Journal
      /\ enacted \in [EffectIds -> Nat] /\ due \subseteq EffectIds
  BY DEF TypeOK
<1>2. ASSUME NEW id \in EffectIds, Arrive(id) PROVE RecoveryInv'
  <2>1. journal' \in Journal /\ UNCHANGED << durable, up, due, enacted, crashes, order >>
    BY <1>1, <1>2 DEF Arrive, Prepare, Journal, EffectState
  <2>2. \A e \in EffectIds :
          journal'[e] = IF e = id /\ journal[e] = "absent" THEN "prepared"
                        ELSE journal[e]
    BY <1>1, <1>2 DEF Arrive, Prepare, Prepares, Journal
  <2>3. TypeOK'
    BY <2>1 DEF TypeOK
  <2>4. Ahead'
    BY <1>1, <2>1, <2>2, NoDowngradeStates DEF Ahead
  <2>5. DueIsAdmitted' /\ EnactedOnce' /\ HappenedOrDue'
    BY <1>1, <2>1, <2>2 DEF DueIsAdmitted, EnactedOnce, HappenedOrDue
  <2> QED BY <2>3, <2>4, <2>5
<1>3. ASSUME NEW id \in EffectIds, Expose(id) PROVE RecoveryInv'
  <2>1. /\ journal' = [journal EXCEPT ![id] = "admitted"]
        /\ journal' \in Journal
        /\ journal[id] = "prepared" /\ up
        /\ due' = due \cup {id}
        /\ UNCHANGED << durable, up, enacted, crashes, order >>
    BY <1>1, <1>3 DEF Expose, Admit, Admits, Journal, EffectState
  <2>2. durable[id] \in {"absent", "prepared"}
    BY <1>1, <2>1, NoDowngradeStates DEF Ahead, Journal, EffectState
  <2>3. TypeOK'
    BY <2>1 DEF TypeOK
  <2>4. Ahead'
    BY <1>1, <2>1, NoDowngradeStates DEF Ahead, Journal
  <2>5. DueIsAdmitted'
    BY <1>1, <2>1 DEF DueIsAdmitted, Journal
  <2>6. EnactedOnce'
    BY <1>1, <2>1, <2>2 DEF EnactedOnce
  <2>7. HappenedOrDue'
    BY <1>1, <2>1 DEF HappenedOrDue, Journal
  <2> QED BY <2>3, <2>4, <2>5, <2>6, <2>7
<1>4. ASSUME NEW id \in EffectIds, Enact(id) PROVE RecoveryInv'
  <2>1. /\ enacted' = [enacted EXCEPT ![id] = enacted[id] + 1]
        /\ id \in due /\ due' = due \ {id}
        /\ SaveFirst => durable[id] \in {"admitted", "consumed"}
        /\ UNCHANGED << durable, journal, up, crashes, order >>
    BY <1>1, <1>4 DEF Enact, Admits, Journal, EffectState
  <2>2. TypeOK' /\ Ahead' /\ DueIsAdmitted'
    BY <1>1, <2>1 DEF TypeOK, Ahead, DueIsAdmitted
  <2>3. EnactedOnce'
    BY <1>1, <2>1 DEF EnactedOnce
  <2>4. HappenedOrDue'
    BY <1>1, <2>1 DEF HappenedOrDue
  <2> QED BY <2>2, <2>3, <2>4
<1>5. ASSUME NEW id \in EffectIds, Acknowledge(id) PROVE RecoveryInv'
  <2>1. /\ journal' = [journal EXCEPT ![id] = "consumed"]
        /\ journal' \in Journal
        /\ journal[id] = "admitted" /\ id \notin due
        /\ UNCHANGED << durable, up, due, enacted, crashes, order >>
    BY <1>1, <1>5 DEF Acknowledge, Consume, Consumes, Journal, EffectState
  <2>2. TypeOK'
    BY <2>1 DEF TypeOK
  <2>3. Ahead'
    BY <1>1, <2>1, NoDowngradeStates DEF Ahead, Journal
  <2>4. DueIsAdmitted' /\ EnactedOnce' /\ HappenedOrDue'
    BY <1>1, <2>1 DEF DueIsAdmitted, EnactedOnce, HappenedOrDue, Journal
  <2> QED BY <2>2, <2>3, <2>4
<1>6. CASE SaveJournal
  <2>1. /\ durable' = journal /\ up
        /\ EnactFirst => due = {}
        /\ UNCHANGED << journal, up, due, enacted, crashes, order >>
    BY <1>6 DEF SaveJournal
  <2>2. TypeOK'
    BY <2>1 DEF TypeOK
  <2>3. Ahead'
    BY <1>1, <2>1, NoDowngradeStates DEF Ahead
  <2>4. DueIsAdmitted' /\ HappenedOrDue'
    BY <1>1, <2>1 DEF DueIsAdmitted, HappenedOrDue
  <2>5. EnactedOnce'
    BY <1>1, <2>1, NoDowngradeStates DEF EnactedOnce, Ahead
  <2> QED BY <2>2, <2>3, <2>4, <2>5
<1>7. CASE Crash
  <2>1. EmptyJournal \in Journal
    BY DEF EmptyJournal, Journal
  <2>2. /\ journal' = EmptyJournal /\ up' = FALSE /\ due' = {}
        /\ crashes' = crashes + 1
        /\ UNCHANGED << durable, enacted, order >>
    BY <1>7 DEF Crash
  <2>3. crashes' \in Nat
    BY <1>7, <2>2 DEF TypeOK
  <2>4. TypeOK'
    BY <1>1, <2>1, <2>2, <2>3 DEF TypeOK
  <2> QED
    BY <2>2, <2>4 DEF Ahead, DueIsAdmitted, EnactedOnce, HappenedOrDue
<1>8. CASE Restart
  <2>1. /\ journal' = Reconcile(durable) /\ up' = TRUE
        /\ due' = Reconciled(durable)
        /\ UNCHANGED << durable, enacted, crashes, order >>
    BY <1>8 DEF Restart
  <2>2. /\ journal' \in Journal
        /\ \A id \in EffectIds :
             /\ durable[id] = "absent" => journal'[id] = "absent"
             /\ durable[id] = "prepared" => journal'[id] = "admitted"
             /\ durable[id] \in {"admitted", "consumed"} => journal'[id] = "consumed"
    BY <1>1, <2>1, ReconcileState
  <2>3. due' = {id \in EffectIds : durable[id] = "prepared"}
    BY <2>1 DEF Reconciled, IdsIn
  <2>4. TypeOK'
    BY <2>1, <2>2, <2>3 DEF TypeOK
  <2>5. Ahead'
    BY <1>1, <2>1, <2>2, NoDowngradeStates DEF Ahead
  <2>6. DueIsAdmitted'
    BY <2>1, <2>2, <2>3 DEF DueIsAdmitted
  <2>7. EnactedOnce'
    BY <1>1, <2>1, <2>3 DEF EnactedOnce
  <2>8. HappenedOrDue'
    BY <1>1, <2>1, <2>2, <2>3 DEF HappenedOrDue, Journal, EffectState
  <2> QED BY <2>4, <2>5, <2>6, <2>7, <2>8
<1>9. CASE UNCHANGED vars
  BY <1>9 DEF vars, TypeOK, Ahead, DueIsAdmitted, EnactedOnce, HappenedOrDue
<1> QED BY <1>2, <1>3, <1>4, <1>5, <1>6, <1>7, <1>8, <1>9 DEF Next

\* The types of the journal in memory, of the one on disk and of the rest.
THEOREM TypeCorrect == Spec => []TypeOK
<1>1. RecoveryInv => TypeOK
  BY DEF RecoveryInv
<1> QED BY <1>1, InitRecovery, NextRecovery, PTL DEF Spec

\* Saving before enacting, no effect is ever enacted twice.
THEOREM EnactedAtMostOnce == Spec => []AtMostOnce
<1>1. RecoveryInv => AtMostOnce
  BY DEF RecoveryInv, EnactedOnce, AtMostOnce
<1> QED BY <1>1, InitRecovery, NextRecovery, PTL DEF Spec

\* Saving after enacting, what the surviving journal calls admitted happened.
THEOREM RecoveryIsHonest == Spec => []AdmittedHasHappened
<1>1. RecoveryInv => AdmittedHasHappened
  BY DEF RecoveryInv, HappenedOrDue, AdmittedHasHappened
<1> QED BY <1>1, InitRecovery, NextRecovery, PTL DEF Spec

\* The surviving journal never goes back.
THEOREM DurableNeverRegresses == Spec => DurableAdvances
<1>1. ASSUME RecoveryInv, [Next]_vars PROVE NoDowngrade(durable, durable')
  <2>1. durable \in Journal /\ journal \in Journal
    BY <1>1 DEF RecoveryInv, TypeOK
  <2>2. durable' = durable \/ (up /\ durable' = journal)
    BY <1>1 DEF Next, Arrive, Expose, Enact, Acknowledge, SaveJournal, Crash,
                Restart, vars
  <2>3. NoDowngrade(durable, durable)
    BY <2>1, NoDowngradeStates DEF Journal, EffectState
  <2> QED BY <1>1, <2>2, <2>3 DEF RecoveryInv, Ahead
<1>2. RecoveryInv /\ [Next]_vars => [NoDowngrade(durable, durable')]_vars
  BY <1>1
<1> QED BY <1>2, InitRecovery, NextRecovery, PTL DEF Spec, DurableAdvances
===============================================================================

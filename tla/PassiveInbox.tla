----------------------------- MODULE PassiveInbox -----------------------------
(***************************************************************************)
(* The pull-only inbox of the Chief of Staff (src/src/inbox.rs, "Gate 1"): *)
(* producers stage envelopes in it with `inbox dispatch cof`, and the      *)
(* Chief of Staff admits what is staged with `inbox drain`, on a turn of   *)
(* its own. Both verbs load the record, change it in memory, save it and   *)
(* print; each is a process, and no lock is taken.                         *)
(*                                                                         *)
(* Filling the temporary file is one step here. What a second writer can   *)
(* do between its opening and its bytes is StationQueue's matter:          *)
(* save_inbox makes the same three calls as save_queue. A dispatch to any  *)
(* other role is handed to the active scheduler and touches no inbox.      *)
(***************************************************************************)
EXTENDS Naturals, Sequences, FiniteSets, Functions

CONSTANTS
    Procs,          \* processes that can be alive at the same time
    Pushes,         \* what producers dispatch, again and again: [id, payload]
    Serialized,     \* a verb starts only when no other one is running
    Faulty,         \* verbs whose processes can die or meet an I/O error
    MaxFaults       \* bound: how many of them do

Verbs == {"dispatch", "drain"}

ASSUME InboxAssumption ==
    /\ \A env \in Pushes : env = [id |-> env.id, payload |-> env.payload]
    /\ Serialized \in BOOLEAN
    /\ Faulty \subseteq Verbs
    /\ MaxFaults \in Nat

VARIABLES
    file,       \* inbox.json
    tmp,        \* inbox.json.tmp: the records in it, at most one
    pc,         \* the next step of a process
    verb,       \* the verb it runs
    work,       \* the inbox it has loaded and changed in memory
    cargo,      \* the envelope it stages, or those it has admitted
    receipts,   \* ids a producer was told are staged
    shown,      \* envelopes printed to the Chief of Staff, in order
    unseen,     \* history: ids a turn that died had admitted and saved
    faults      \* processes that have failed

procs == << pc, verb, work, cargo >>
vars == << file, tmp, procs, receipts, shown, unseen, faults >>

Inbox == [staged : Seq(Pushes), admitted : Seq(Pushes)]

EmptyInbox == [staged |-> << >>, admitted |-> << >>]

\* Mutant of IdsIn: payloads are compared, not effect ids.
IdsByPayload(envs) == {envs[i].payload : i \in DOMAIN envs}

IdsIn(envs) == {envs[i].id : i \in DOMAIN envs}

\* Mutant of Stage: an effect that was admitted is staged again.
StageAgain(inbox, env) ==
    IF env.id \in IdsIn(inbox.staged) THEN inbox
    ELSE [inbox EXCEPT !.staged = Append(@, env)]

\* Inbox::stage: nothing changes for an id that is staged or admitted.
Stage(inbox, env) ==
    IF env.id \in IdsIn(inbox.staged) \cup IdsIn(inbox.admitted) THEN inbox
    ELSE [inbox EXCEPT !.staged = Append(@, env)]

\* Mutant of AdmittedNow: the loop runs over what take left behind.
AdmittedNowTaken(inbox) == << >>

\* Inbox::admit_on_turn: AdmittedNow is what it returns, in staged order. An
\* envelope is skipped if its id was admitted before, by a prior turn or earlier
\* in the loop. (Spelled out without SelectSeq, about which nothing is proved.)
AdmittedNow(inbox) ==
    LET new == {i \in DOMAIN inbox.staged :
                    /\ inbox.staged[i].id \notin IdsIn(inbox.admitted)
                    /\ \A k \in 1 .. i - 1 : inbox.staged[k].id # inbox.staged[i].id}
        Nth(n) == CHOOSE i \in new : Cardinality({k \in new : k <= i}) = n
    IN  [n \in 1 .. Cardinality(new) |-> inbox.staged[Nth(n)]]

\* Mutant of AdmitOnTurn: what was admitted stays staged.
AdmitAndKeep(inbox) ==
    [inbox EXCEPT !.admitted = @ \o AdmittedNow(inbox)]

\* Mutant of AdmitOnTurn: what was admitted is forgotten with the turn.
AdmitAndForget(inbox) == EmptyInbox

AdmitOnTurn(inbox) ==
    [staged |-> << >>, admitted |-> inbox.admitted \o AdmittedNow(inbox)]

Init ==
    /\ file = EmptyInbox
    /\ tmp = {}
    /\ pc = [p \in Procs |-> "idle"]
    /\ verb = [p \in Procs |-> "none"]
    /\ work = [p \in Procs |-> EmptyInbox]
    /\ cargo = [p \in Procs |-> << >>]
    /\ receipts = {}
    /\ shown = << >>
    /\ unseen = {}
    /\ faults = 0

-------------------------------------------------------------------------------
Quiet == \A p \in Procs : pc[p] = "idle"

Begin(p, v, inbox, envs) ==
    /\ pc[p] = "idle"
    /\ Serialized => Quiet
    /\ pc' = [pc EXCEPT ![p] = "write"]
    /\ verb' = [verb EXCEPT ![p] = v]
    /\ work' = [work EXCEPT ![p] = inbox]
    /\ cargo' = [cargo EXCEPT ![p] = envs]
    /\ UNCHANGED << file, tmp, receipts, shown, unseen, faults >>

\* cmd_dispatch to the Chief of Staff.
Dispatch(p, env) == Begin(p, "dispatch", Stage(file, env), << env >>)

\* cmd_drain. The record is saved even when nothing was staged.
TakeTurn(p) == Begin(p, "drain", AdmitOnTurn(file), AdmittedNow(file))

\* The end of a process: what it held in memory is gone.
End(p) ==
    /\ pc' = [pc EXCEPT ![p] = "idle"]
    /\ verb' = [verb EXCEPT ![p] = "none"]
    /\ work' = [work EXCEPT ![p] = EmptyInbox]
    /\ cargo' = [cargo EXCEPT ![p] = << >>]

\* save_inbox. The rename moves whatever record the temporary file holds, and
\* fails when another process has moved it away.
WriteTmp(p) ==
    /\ pc[p] = "write"
    /\ tmp' = {work[p]}
    /\ pc' = [pc EXCEPT ![p] = "rename"]
    /\ UNCHANGED << file, verb, work, cargo, receipts, shown, unseen, faults >>

Rename(p) ==
    /\ pc[p] = "rename"
    /\ file' \in tmp
    /\ tmp' = {}
    /\ pc' = [pc EXCEPT ![p] = "print"]
    /\ UNCHANGED << verb, work, cargo, receipts, shown, unseen, faults >>

RenameFails(p) ==
    /\ pc[p] = "rename"
    /\ tmp = {}
    /\ End(p)
    /\ UNCHANGED << file, tmp, receipts, shown, unseen, faults >>

\* Dispatch prints staged, also of an id that was there before; drain prints
\* the envelopes it admitted.
PrintOut(p) ==
    /\ pc[p] = "print"
    /\ IF verb[p] = "dispatch"
       THEN receipts' = receipts \cup IdsIn(cargo[p]) /\ UNCHANGED shown
       ELSE shown' = shown \o cargo[p] /\ UNCHANGED receipts
    /\ End(p)
    /\ UNCHANGED << file, tmp, unseen, faults >>

\* A process is killed, or its save fails and the verb returns the error. A
\* temporary file it leaves behind is overwritten by the next writer.
Die(p) ==
    /\ pc[p] # "idle"
    /\ verb[p] \in Faulty
    /\ faults < MaxFaults
    /\ faults' = faults + 1
    /\ unseen' = IF verb[p] = "drain" /\ pc[p] = "print"
                 THEN unseen \cup IdsIn(cargo[p]) ELSE unseen
    /\ End(p)
    /\ UNCHANGED << file, tmp, receipts, shown >>

Step(p) == WriteTmp(p) \/ Rename(p) \/ RenameFails(p) \/ PrintOut(p)

Next ==
    \E p \in Procs :
        \/ \E env \in Pushes : Dispatch(p, env)
        \/ TakeTurn(p) \/ Step(p) \/ Die(p)

Spec == Init /\ [][Next]_vars

\* A running verb goes on, and the Chief of Staff comes back for another turn:
\* strong, as it can find a producer at work.
Fairness == \A p \in Procs : WF_vars(Step(p)) /\ SF_vars(TakeTurn(p))

FairSpec == Spec /\ Fairness

-------------------------------------------------------------------------------
TypeOK ==
    /\ file \in Inbox /\ tmp \subseteq Inbox
    /\ pc \in [Procs -> {"idle", "write", "rename", "print"}]
    /\ verb \in [Procs -> Verbs \cup {"none"}]
    /\ work \in [Procs -> Inbox] /\ cargo \in [Procs -> Seq(Pushes)]
    /\ receipts \subseteq {env.id : env \in Pushes}
    /\ shown \in Seq(Pushes)
    /\ unseen \subseteq {env.id : env \in Pushes}
    /\ faults \in Nat

\* No effect is there twice.
Once(envs) == \A i, k \in DOMAIN envs : envs[i].id = envs[k].id => i = k

\* No record holds an id twice, staged or admitted, however many writers race:
\* the branch of admit_on_turn for an effect that is staged and admitted at
\* once (inbox.rs, lines 109-111) is never taken.
Coherent(inbox) == Once(inbox.staged \o inbox.admitted)
RecordsCoherent ==
    /\ Coherent(file)
    /\ \A inbox \in tmp : Coherent(inbox)
    /\ \A p \in Procs : Coherent(work[p])

\* However often producers push an effect again, under whatever payload, and
\* wherever a producer or a turn dies, it is admitted exactly once: it is
\* printed in at most one turn (inbox.rs, lines 102-104).
AdmittedOnce == Once(shown)

\* What a producer was told is staged is printed to the Chief of Staff in the
\* end (inbox.rs, lines 87-88: no loss), unless a turn that had saved it as
\* admitted died before its print. No other death, of a producer or of a turn,
\* delays it for ever.
EventuallyShown ==
    \A env \in Pushes :
        env.id \in receipts ~> env.id \in IdsIn(shown) \/ env.id \in unseen

\* The inbox is a mailbox: the staged envelopes are pending in it, and the
\* admitted ones taken.
AsMailbox ==
    INSTANCE Mailbox WITH
        Envelopes <- Pushes,
        pending   <- file.staged,
        taken     <- file.admitted,
        receipts  <- {env \in Range(file.staged) \cup Range(file.admitted) :
                            env.id \in receipts}

ImplementsMailbox == AsMailbox!Spec
===============================================================================

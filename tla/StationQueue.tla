----------------------------- MODULE StationQueue -----------------------------
(***************************************************************************)
(* One station's mailbox as the comms-axi verbs work on it: the queue file *)
(* <role>.json, the temporary file it is replaced through, and the hasMail *)
(* marker, under the state directory; and the operating-system processes   *)
(* that run `send`, `deliver`, `read`, `drain` and `inject` on them, file  *)
(* operation by file operation.                                            *)
(*                                                                         *)
(*   send, deliver : load, (open, write, rename), mark, receipt            *)
(*   read, drain   : load, (open, write, rename), clear, render            *)
(*   inject        : stat the marker, then as drain                        *)
(*                                                                         *)
(* Every verb is a process of its own; between two file operations the     *)
(* others run. The code takes no lock: its comments assume one writer per  *)
(* station, which the constant Serialized adds to the model or leaves out. *)
(* Stations share no file, so one station stands for all of them.          *)
(***************************************************************************)
EXTENDS QueueStore, Functions

CONSTANTS
    Procs,           \* processes that can be alive at the same time
    Serialized,      \* a verb starts only when no other one is running
    DrainBound,      \* most envelopes a bounded `read` takes
    Faulty,          \* verbs whose processes can die or meet an I/O error
    MaxFaults        \* bound: how many of them do

Publishers == {"send", "deliver"}
Readers == {"read", "drain", "inject"}
Verbs == Publishers \cup Readers

Labels == {"idle", "load", "open", "write", "rename", "mark", "clear",
           "receipt", "render"}
AfterSaves == {"mark", "clear", "render"}
Links == {"none", "tmp", "queue", "unlinked"}

ASSUME StationAssumption ==
    /\ Serialized \in BOOLEAN
    /\ DrainBound \in Nat \ {0}
    /\ Faulty \subseteq Verbs
    /\ MaxFaults \in Nat

VARIABLES
    queue,      \* <role>.json
    tmp,        \* <role>.json.tmp, one name for every writer
    marker,     \* does <role>.hasmail exist?
    pc,         \* the next file operation of a process
    verb,       \* the verb it runs
    work,       \* the store it has loaded and changed in memory
    cargo,      \* the envelope it publishes, or those it has drained
    fresh,      \* what enqueue_with_id answered
    fd,         \* where the inode it has open for writing is linked now
    receipts,   \* envelopes a successful receipt was printed for
    taken,      \* envelopes, in order, whose removal from the queue was saved
    rendered,   \* envelopes, in order, printed as part of a turn
    cutoff,     \* the steps after its save that a verb has died before
    faults      \* processes that have failed

disk == << queue, tmp, marker >>
procs == << pc, verb, work, cargo, fresh, fd >>
history == << receipts, taken, rendered, cutoff >>
vars == << disk, procs, history, faults >>

-------------------------------------------------------------------------------
(***************************************************************************)
(* Files. A file that does not hold a record reads as the empty store when *)
(* it is missing or empty, and not at all when it is torn.                 *)
(***************************************************************************)
File == [state : {"absent", "empty", "torn", "full"}, rec : Store]

Full(s) == [state |-> "full", rec |-> s]
Blank(state) == [state |-> state, rec |-> EmptyStore]

Readable(f) == f.state # "torn"

\* The content after a writer's bytes reach an inode. When another process has
\* written to it since the writer truncated it, the longer text can show below.
Overlaid(f, s) ==
    IF f \in {Blank("empty"), Full(s)}
    THEN {Full(s)}
    ELSE {Full(s), Blank("torn")}

Init ==
    /\ queue = Blank("absent")
    /\ tmp = Blank("absent")
    /\ marker = FALSE
    /\ pc = [p \in Procs |-> "idle"]
    /\ verb = [p \in Procs |-> "none"]
    /\ work = [p \in Procs |-> EmptyStore]
    /\ cargo = [p \in Procs |-> << >>]
    /\ fresh = [p \in Procs |-> FALSE]
    /\ fd = [p \in Procs |-> "none"]
    /\ receipts = {}
    /\ taken = << >>
    /\ rendered = << >>
    /\ cutoff = {}
    /\ faults = 0

-------------------------------------------------------------------------------
(***************************************************************************)
(* Starting a verb. Loading and the change in memory are one step: nothing *)
(* the process does in between is visible to another. A torn record is a   *)
(* loud QUEUE_CORRUPT with no effect, so the actions are not enabled then. *)
(***************************************************************************)
Live == {p \in Procs : pc[p] # "idle"}

CanStart(p) == pc[p] = "idle" /\ (Serialized => Live = {})

Goto(p, label) == pc' = [pc EXCEPT ![p] = label]

Begin(p, v, label, s, envs, new) ==
    /\ Goto(p, label)
    /\ verb' = [verb EXCEPT ![p] = v]
    /\ work' = [work EXCEPT ![p] = s]
    /\ cargo' = [cargo EXCEPT ![p] = envs]
    /\ fresh' = [fresh EXCEPT ![p] = new]
    /\ UNCHANGED << disk, fd, history, faults >>

\* A producer publishes an event once, and again only after a failed attempt.
Unpublished(ev) ==
    /\ \A r \in receipts : r.event # ev
    /\ \A p \in Live : \A i \in 1 .. Len(cargo[p]) :
            verb[p] = "send" => cargo[p][i].event # ev

\* send_to. The sequence bound MaxSeq is the model's.
Send(p, ev) ==
    /\ CanStart(p)
    /\ Unpublished(ev)
    /\ Readable(queue)
    /\ queue.rec.next_seq < MaxSeq
    /\ Begin(p, "send", "open", Enqueue(queue.rec, ev),
             << NextEnvelope(queue.rec, ev) >>, TRUE)

RemoteEnvelope(ev) == [id |-> ev, event |-> ev]

\* listener::accept once the version handshake holds (a mismatch or a
\* malformed envelope leaves everything alone), then send_to_with_id. The same
\* event may be delivered any number of times. The record is saved even when
\* the id was already journaled.
Deliver(p, ev) ==
    /\ CanStart(p)
    /\ Readable(queue)
    /\ Begin(p, "deliver", "open",
             EnqueueWithId(queue.rec, RemoteEnvelope(ev)),
             << RemoteEnvelope(ev) >>,
             Appends(queue.rec, RemoteEnvelope(ev)))

\* read::read up to its save: an empty queue skips the save and only repairs
\* the marker.
LoadToDrain(p, v, limit) ==
    /\ Readable(queue)
    /\ IF IsEmpty(queue.rec)
       THEN Begin(p, v, "clear", queue.rec, << >>, FALSE)
       ELSE Begin(p, v, "open", Drain(queue.rec, limit),
                  Drained(queue.rec, limit), FALSE)

Everything == Len(queue.rec.stream)

Read(p) == CanStart(p) /\ LoadToDrain(p, "read", DrainBound)

DrainAll(p) == CanStart(p) /\ LoadToDrain(p, "drain", Everything)

\* inject on an idle tick: idle_tick stats the marker, and only a station with
\* mail goes on to read. The tick without mail changes nothing.
Inject(p) ==
    /\ CanStart(p)
    /\ marker
    /\ Begin(p, "inject", "load", EmptyStore, << >>, FALSE)

InjectLoad(p) ==
    /\ pc[p] = "load"
    /\ LoadToDrain(p, "inject", Everything)

-------------------------------------------------------------------------------
(***************************************************************************)
(* save_queue: std::fs::write opens and truncates the temporary file, then *)
(* writes it; rename puts it in the place of the queue file. An inode that *)
(* another process has open moves with the name it is linked under.        *)
(***************************************************************************)
\* Mutant of OpenTmp: the queue file itself is opened and truncated.
OpenInPlace(p) ==
    /\ pc[p] = "open"
    /\ queue' = Blank("empty")
    /\ fd' = [fd EXCEPT ![p] = "queue"]
    /\ Goto(p, "write")
    /\ UNCHANGED << tmp, marker, verb, work, cargo, fresh, history, faults >>

OpenTmp(p) ==
    /\ pc[p] = "open"
    /\ tmp' = Blank("empty")
    /\ fd' = [fd EXCEPT ![p] = "tmp"]
    /\ Goto(p, "write")
    /\ UNCHANGED << queue, marker, verb, work, cargo, fresh, history, faults >>

WriteTmp(p) ==
    /\ pc[p] = "write"
    /\ \/ /\ fd[p] = "tmp"
          /\ tmp' \in Overlaid(tmp, work[p])
          /\ UNCHANGED queue
       \/ /\ fd[p] = "queue"
          /\ queue' \in Overlaid(queue, work[p])
          /\ UNCHANGED tmp
       \/ /\ fd[p] = "unlinked"
          /\ UNCHANGED << queue, tmp >>
    /\ fd' = [fd EXCEPT ![p] = "none"]
    /\ Goto(p, "rename")
    /\ UNCHANGED << marker, verb, work, cargo, fresh, history, faults >>

\* The end of a process: what it held in memory is gone.
End(p) ==
    /\ Goto(p, "idle")
    /\ verb' = [verb EXCEPT ![p] = "none"]
    /\ work' = [work EXCEPT ![p] = EmptyStore]
    /\ cargo' = [cargo EXCEPT ![p] = << >>]
    /\ fresh' = [fresh EXCEPT ![p] = FALSE]
    /\ fd' = [fd EXCEPT ![p] = "none"]

Relinked(link) ==
    CASE link = "tmp"   -> "queue"
      [] link = "queue" -> "unlinked"
      [] OTHER          -> link

\* Mutants of AfterSave: every publisher sets the marker, none does, every
\* reader clears it.
AfterSaveMarks(p) ==
    IF verb[p] \in Publishers THEN "mark"
    ELSE IF IsEmpty(work[p]) THEN "clear" ELSE "render"
AfterSaveUnmarked(p) ==
    IF verb[p] \in Publishers THEN "receipt"
    ELSE IF IsEmpty(work[p]) THEN "clear" ELSE "render"
AfterSaveClears(p) ==
    IF verb[p] \in Publishers
    THEN IF fresh[p] THEN "mark" ELSE "receipt"
    ELSE "clear"

AfterSave(p) ==
    IF verb[p] \in Publishers
    THEN IF fresh[p] THEN "mark" ELSE "receipt"
    ELSE IF IsEmpty(work[p]) THEN "clear" ELSE "render"

Rename(p) ==
    /\ pc[p] = "rename"
    /\ tmp.state # "absent"
    /\ queue' = tmp
    /\ tmp' = Blank("absent")
    /\ fd' = [q \in Procs |-> Relinked(fd[q])]
    /\ taken' = IF verb[p] \in Readers THEN taken \o cargo[p] ELSE taken
    /\ Goto(p, AfterSave(p))
    /\ UNCHANGED << marker, verb, work, cargo, fresh, receipts, rendered, cutoff, faults >>

\* Another writer renamed the shared temporary file away: the verb fails.
RenameFails(p) ==
    /\ pc[p] = "rename"
    /\ tmp.state = "absent"
    /\ End(p)
    /\ UNCHANGED << disk, history, faults >>

\* An inject whose queue was torn between its stat and its load fails loudly.
InjectFails(p) ==
    /\ pc[p] = "load"
    /\ ~Readable(queue)
    /\ End(p)
    /\ UNCHANGED << disk, history, faults >>

-------------------------------------------------------------------------------
\* set_has_mail and clear_has_mail.
SetHasMail(p) ==
    /\ pc[p] = "mark"
    /\ marker' = TRUE
    /\ Goto(p, "receipt")
    /\ UNCHANGED << queue, tmp, verb, work, cargo, fresh, fd, history, faults >>

\* Mutant of ClearHasMail: a reader that emptied the queue returns early.
ClearHasMailReturns(p) ==
    /\ pc[p] = "clear"
    /\ marker' = FALSE
    /\ End(p)
    /\ UNCHANGED << queue, tmp, history, faults >>

ClearHasMail(p) ==
    /\ pc[p] = "clear"
    /\ marker' = FALSE
    /\ Goto(p, "render")
    /\ UNCHANGED << queue, tmp, verb, work, cargo, fresh, fd, history, faults >>

\* The publisher prints its receipt and exits 0: Enqueued or Accepted.
Receipt(p) ==
    /\ pc[p] = "receipt"
    /\ receipts' = receipts \cup Range(cargo[p])
    /\ End(p)
    /\ UNCHANGED << disk, taken, rendered, cutoff, faults >>

\* The reader prints the drained events as one turn.
Render(p) ==
    /\ pc[p] = "render"
    /\ rendered' = rendered \o cargo[p]
    /\ End(p)
    /\ UNCHANGED << disk, receipts, taken, cutoff, faults >>

\* A process is killed, or its next file operation fails and the verb returns
\* the error. A write cut short leaves its inode empty or torn. (cutoff leaves
\* out `send`: its producer has no receipt, and publishes the event anew.)
Torn(p, link, f) ==
    IF pc[p] = "write" /\ fd[p] = link THEN {f, Blank("torn")} ELSE {f}

Die(p) ==
    /\ pc[p] # "idle"
    /\ verb[p] \in Faulty
    /\ faults < MaxFaults
    /\ faults' = faults + 1
    /\ cutoff' = IF verb[p] = "send" THEN cutoff ELSE cutoff \cup ({pc[p]} \cap AfterSaves)
    /\ tmp' \in Torn(p, "tmp", tmp)
    /\ queue' \in Torn(p, "queue", queue)
    /\ End(p)
    /\ UNCHANGED << marker, receipts, taken, rendered >>

Save(p) == OpenTmp(p) \/ WriteTmp(p) \/ Rename(p) \/ RenameFails(p)

Step(p) ==
    \/ InjectLoad(p) \/ InjectFails(p)
    \/ Save(p)
    \/ SetHasMail(p) \/ ClearHasMail(p)
    \/ Receipt(p) \/ Render(p)

Start(p) ==
    \/ \E ev \in LocalEvents : Send(p, ev)
    \/ \E ev \in RemoteEvents : Deliver(p, ev)
    \/ Read(p) \/ DrainAll(p) \/ Inject(p)

Next == \E p \in Procs : Start(p) \/ Step(p) \/ Die(p)

Spec == Init /\ [][Next]_vars

\* A running process goes on to its next operation. The heartbeat ticks for
\* ever; a tick can find the station busy, so it is fair only in that a station
\* idle again and again is ticked while idle: strong fairness.
Fairness == \A p \in Procs : WF_vars(Step(p)) /\ SF_vars(Inject(p))

FairSpec == Spec /\ Fairness

-------------------------------------------------------------------------------
(***************************************************************************)
(* Properties.                                                             *)
(***************************************************************************)
TypeOK ==
    /\ queue \in File /\ tmp \in File /\ marker \in BOOLEAN
    /\ pc \in [Procs -> Labels]
    /\ verb \in [Procs -> Verbs \cup {"none"}]
    /\ work \in [Procs -> Store]
    /\ cargo \in [Procs -> Seq(Envelope)]
    /\ fresh \in [Procs -> BOOLEAN]
    /\ fd \in [Procs -> Links]
    /\ receipts \subseteq Envelope
    /\ taken \in Seq(Envelope) /\ rendered \in Seq(Envelope)
    /\ cutoff \subseteq AfterSaves
    /\ faults \in Nat

Quiet == Live = {}

\* Every record that is on disk or about to be written is coherent: the
\* prepared ids of its journal are the pending ids of its stream, once each.
\* This is why `drain` may ignore what `admit` answers (send.rs, line 98).
\* It holds with any number of unserialized writers.
RecordsCoherent ==
    /\ Coherent(queue.rec)
    /\ Coherent(tmp.rec)
    /\ \A p \in Procs : Coherent(work[p])

\* The queue file holds a whole record, or does not exist yet: save_queue's
\* temporary file and rename never leave a half-written one (send.rs, 196).
QueueFileWhole == queue.state \in {"absent", "full"}

\* Lossless publication: an envelope whose producer has a receipt is pending in
\* the queue file, or its removal was saved by a reader that has it.
NothingLost == receipts \subseteq Range(queue.rec.stream) \cup Range(taken)

\* An effect id stands for one event for ever, also after the queue was
\* drained and across failed attempts (send.rs, line 44).
IdNamesOneEvent ==
    LET known == receipts \cup Range(queue.rec.stream) \cup Range(taken)
    IN  \A a, b \in known : a.id = b.id => a.event = b.event

\* Each effect is printed in at most one turn, and the events published on this
\* host are printed in the order their ids were drawn (read.rs, lines 5-8).
RenderedOnceInOrder ==
    \A i, k \in 1 .. Len(rendered) :
        i < k => /\ rendered[i].id # rendered[k].id
                 /\ {rendered[i].id, rendered[k].id} \subseteq SeqIds
                        => rendered[i].id < rendered[k].id

\* An acknowledged envelope that is still pending has its marker: no producer
\* is told "has_mail" of mail the heartbeat will never see (send.rs, 21-24).
AckedIsSignalled ==
    (\E r \in receipts : r.id \in IdsOf(queue.rec.stream)) => marker

\* Of all the places a verb can die at, one alone unsignals acknowledged mail: a
\* listener before its marker, whose retry is a duplicate and sets none.
OnlyDeliverUnsignals == "mark" \notin cutoff => AckedIsSignalled

\* Between verbs the marker never stands over an empty queue, where it would
\* drive an empty turn, unless a reader died before it cleared it; in particular
\* a deduplicated re-delivery leaves none (send.rs, lines 261-262).
NoSpuriousWake ==
    Quiet /\ marker /\ "clear" \notin cutoff => ~IsEmpty(queue.rec)

\* Once no verb is running, every envelope removed from the queue has been
\* printed in a turn: the drain is lossless (read.rs, lines 5-8), except for the
\* turn of a reader that died between its save and its print.
TakenIsShown ==
    Quiet /\ cutoff \subseteq {"mark"} => Range(taken) \subseteq Range(rendered)

\* The saved journal never goes back: an effect that was admitted is never
\* prepared again, and a journaled id is never forgotten (journal.rs, 60-63).
JournalAdvances ==
    [][NoDowngrade(queue.rec.journal, queue'.rec.journal)]_vars

\* What was acknowledged is in the end printed in a turn by the heartbeat alone,
\* unless a listener died before its marker, or a reader took it and one died
\* after its save. No other death costs more than time.
EventuallyRendered ==
    \A id \in EffectIds :
        id \in {r.id : r \in receipts}
            ~> \/ id \in IdsOf(rendered)
               \/ "mark" \in cutoff
               \/ id \in IdsOf(taken) /\ ~(cutoff \subseteq {"mark"})

\* The verbs implement the abstract mailbox.
AsMailbox ==
    INSTANCE Mailbox WITH Envelopes <- Envelope, pending <- queue.rec.stream

ImplementsMailbox == AsMailbox!Spec
===============================================================================

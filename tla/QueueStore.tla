------------------------------ MODULE QueueStore ------------------------------
(***************************************************************************)
(* The value a station's queue file holds (QueueStore of src/src/send.rs): *)
(* the stream of pending envelopes (src/src/stream.rs), the effect journal *)
(* and the sequence local effect ids are drawn from. Every operator here   *)
(* is one of the pure methods; who loads, saves and runs them is           *)
(* StationQueue's matter.                                                  *)
(*                                                                         *)
(* An envelope keeps what tells two of them apart: its effect id and the   *)
(* event it carries. The kind is "note" for every envelope `send` and      *)
(* `deliver` write, hence the class is Actionable for all of them.         *)
(***************************************************************************)
EXTENDS EffectJournal, Sequences, Naturals

CONSTANTS
    LocalEvents,     \* events published on this host with `send`
    RemoteEvents,    \* events published on another host, handed to `deliver`
    MaxSeq           \* bound: at most MaxSeq local ids are ever drawn

SeqIds == 0 .. MaxSeq - 1

\* The two namespaces of effect ids: `{role}-{seq}`, here the number, and the
\* stable hash of a cross-host event, here the event itself.
ASSUME IdsAssumption ==
    /\ MaxSeq \in Nat
    /\ SeqIds \cap RemoteEvents = {}
    /\ EffectIds = SeqIds \cup RemoteEvents

Events == LocalEvents \cup RemoteEvents

Envelope == [id : EffectIds, event : Events]

Store == [next_seq : 0 .. MaxSeq, stream : Seq(Envelope), journal : Journal]

EmptyStore == [next_seq |-> 0, stream |-> << >>, journal |-> EmptyJournal]

IdsOf(stream) == {stream[i].id : i \in 1 .. Len(stream)}

\* Mutant of Appends: prepare's answer is ignored.
AppendsAlways(s, env) == TRUE

\* QueueStore::enqueue_with_id. Appends tells whether an envelope was added.
Appends(s, env) == Prepares(s.journal, env.id)
EnqueueWithId(s, env) ==
    IF Appends(s, env)
    THEN [s EXCEPT !.journal = Prepare(@, env.id), !.stream = Append(@, env)]
    ELSE s

\* The next local id and the envelope it goes out under.
NextEnvelope(s, ev) == [id |-> s.next_seq, event |-> ev]

\* Mutants of Enqueue: the sequence stands still, or skips a number.
EnqueueReusesSeq(s, ev) == EnqueueWithId(s, NextEnvelope(s, ev))
EnqueueSkipsSeq(s, ev) ==
    EnqueueWithId([s EXCEPT !.next_seq = @ + 2], NextEnvelope(s, ev))

\* QueueStore::enqueue. The id is the sequence number; the sequence moves on
\* whatever enqueue_with_id answers.
Enqueue(s, ev) ==
    EnqueueWithId([s EXCEPT !.next_seq = @ + 1], NextEnvelope(s, ev))

IsEmpty(s) == s.stream = << >>

\* Stream::drain_front: how many envelopes are handed out, and which.
DrainCount(s, limit) == IF limit < Len(s.stream) THEN limit ELSE Len(s.stream)

\* Mutant of Drained: the newest envelopes are handed out.
DrainedNewest(s, limit) ==
    SubSeq(s.stream, Len(s.stream) - DrainCount(s, limit) + 1, Len(s.stream))

Drained(s, limit) == SubSeq(s.stream, 1, DrainCount(s, limit))

\* Mutants of Drain: the stream is left alone, the whole stream goes whatever
\* the limit.
DrainPeeks(s, limit) ==
    [s EXCEPT !.journal = AdmitAll(@, IdsOf(Drained(s, limit)))]
DrainForgets(s, limit) ==
    [s EXCEPT !.stream = << >>,
              !.journal = AdmitAll(@, IdsOf(Drained(s, limit)))]

\* QueueStore::drain. The envelopes leave the stream whatever `admit` answers
\* for them.
Drain(s, limit) ==
    [s EXCEPT !.stream = SubSeq(@, DrainCount(s, limit) + 1, Len(@)),
              !.journal = AdmitAll(@, IdsOf(Drained(s, limit)))]

(***************************************************************************)
(* What makes a record coherent: no id is pending twice, the prepared ids  *)
(* are exactly the pending ones, and no id the sequence has yet to draw is *)
(* journaled. The code never states it; drain relies on it when it ignores *)
(* the answer of admit.                                                    *)
(***************************************************************************)
PendingOnce(s) ==
    \A i, k \in 1 .. Len(s.stream) : s.stream[i].id = s.stream[k].id => i = k
PreparedIsPending(s) == IdsIn(s.journal, "prepared") = IdsOf(s.stream)
SequenceAhead(s) ==
    \A n \in SeqIds : s.journal[n] # "absent" => n < s.next_seq

Coherent(s) == PendingOnce(s) /\ PreparedIsPending(s) /\ SequenceAhead(s)
==============================================================================

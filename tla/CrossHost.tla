------------------------------- MODULE CrossHost -------------------------------
(***************************************************************************)
(* Cross-host delivery, end to end: `emit` on the sending host (send_event *)
(* of src/src/event.rs, plan and open of src/src/delivery.rs), the channel *)
(* it opens (ssh, tailscale or herdr), and `deliver` on the receiving host *)
(* (accept of src/src/listener.rs), with the station's own `send`s and     *)
(* drains on the queue it fills.                                           *)
(*                                                                         *)
(* The channel is not this repository's. It may die before the remote verb *)
(* runs, or after the sender has given up on it and while the verb is      *)
(* still to run; a sender told of a failure emits the same event again.    *)
(* Either host can be moved to another version of the binary at any time.  *)
(* The verbs on the receiving host are single steps: what their file       *)
(* operations do is StationQueue's matter.                                 *)
(***************************************************************************)
EXTENDS QueueStore, Functions

CONSTANTS
    Emits,           \* the events seats emit, one each
    Content,         \* what each says: its (to, payload)
    StableId,        \* stable_effect_id: an effect id for each (to, payload)
    Versions,        \* protocol versions a binary can be built with
    MaxAttempts      \* bound: how often an event is emitted

ASSUME CrossHostAssumption ==
    /\ Content \in [Emits -> RemoteEvents]
    /\ StableId \in [RemoteEvents -> RemoteEvents]
    /\ MaxAttempts \in Nat

Attempts == 1 .. MaxAttempts

Message == [emit : Emits, attempt : Attempts, version : Versions]

Answer == {"accepted", "refused"}

Outcomes == {"none", "waiting", "rendered", "delivered", "failed", "refused"}

VARIABLES
    store,        \* the receiving station's queue file
    taken,        \* envelopes drained from it, in order
    running,      \* PROTOCOL_VERSION of the binary on each host
    flight,       \* messages whose remote verb has not run
    answers,      \* exit status of the remote verbs, per message
    attempts,     \* how often each event has been emitted
    outcome       \* what `emit` last told its seat

station == << store, taken >>
vars == << station, running, flight, answers, attempts, outcome >>

Init ==
    /\ store = EmptyStore
    /\ taken = << >>
    /\ running \in [{"sender", "receiver"} -> Versions]
    /\ flight = {}
    /\ answers = {}
    /\ attempts = [e \in Emits |-> 0]
    /\ outcome = [e \in Emits |-> "none"]

-------------------------------------------------------------------------------
\* The delivery envelope's payload and id, as enqueued by the listener.
EnvelopeOf(e) == [id |-> StableId[Content[e]], event |-> Content[e]]

Latest(e, v) == [emit |-> e, attempt |-> attempts[e], version |-> v]

\* An event is emitted once, and again when the seat was told it failed.
MayEmit(e) ==
    /\ outcome[e] \in {"none", "failed", "refused"}
    /\ attempts[e] < MaxAttempts

\* send_event without the gate or for a role on this host: render only.
EmitRender(e) ==
    /\ MayEmit(e)
    /\ attempts' = [attempts EXCEPT ![e] = @ + 1]
    /\ outcome' = [outcome EXCEPT ![e] = "rendered"]
    /\ UNCHANGED << station, running, flight, answers >>

\* send_event with the gate on and a cross-host binding: plan stamps the
\* envelope with the sender's version, after a handshake of that version with
\* itself, and open spawns the channel.
EmitDeliver(e) ==
    /\ MayEmit(e)
    /\ attempts' = [attempts EXCEPT ![e] = @ + 1]
    /\ outcome' = [outcome EXCEPT ![e] = "waiting"]
    /\ flight' = flight \cup
            {[emit |-> e, attempt |-> attempts[e] + 1, version |-> running["sender"]]}
    /\ UNCHANGED << station, running, answers >>

\* The channel loses a message: the remote verb will not run for it.
Lose(m) ==
    /\ m \in flight
    /\ flight' = flight \ {m}
    /\ UNCHANGED << station, running, answers, attempts, outcome >>

\* Mutants of Accept: a mismatch is answered with success, the envelope is
\* enqueued before the handshake.
AcceptQuietly(m) ==
    /\ m \in flight
    /\ flight' = flight \ {m}
    /\ store' = IF m.version = running["receiver"]
                THEN EnqueueWithId(store, EnvelopeOf(m.emit)) ELSE store
    /\ answers' = answers \cup {<< m, "accepted" >>}
    /\ UNCHANGED << taken, running, attempts, outcome >>
AcceptTooSoon(m) ==
    /\ m \in flight
    /\ flight' = flight \ {m}
    /\ store' = EnqueueWithId(store, EnvelopeOf(m.emit))
    /\ answers' = answers \cup
            {<< m, IF m.version = running["receiver"] THEN "accepted" ELSE "refused" >>}
    /\ UNCHANGED << taken, running, attempts, outcome >>

\* The remote verb runs: listener::accept. A version it does not speak is
\* refused before anything is enqueued; a duplicate is acknowledged.
Accept(m) ==
    /\ m \in flight
    /\ flight' = flight \ {m}
    /\ \/ /\ m.version = running["receiver"]
          /\ store' = EnqueueWithId(store, EnvelopeOf(m.emit))
          /\ answers' = answers \cup {<< m, "accepted" >>}
       \/ /\ m.version # running["receiver"]
          /\ answers' = answers \cup {<< m, "refused" >>}
          /\ UNCHANGED store
    /\ UNCHANGED << taken, running, attempts, outcome >>

\* `emit` learns the exit status of its channel. Success prints the receipt;
\* anything else is an error to the seat, and nothing is rendered.
LearnDelivered(e) ==
    /\ outcome[e] = "waiting"
    /\ \E v \in Versions : << Latest(e, v), "accepted" >> \in answers
    /\ outcome' = [outcome EXCEPT ![e] = "delivered"]
    /\ UNCHANGED << station, running, flight, answers, attempts >>

LearnRefused(e) ==
    /\ outcome[e] = "waiting"
    /\ \E v \in Versions : << Latest(e, v), "refused" >> \in answers
    /\ outcome' = [outcome EXCEPT ![e] = "refused"]
    /\ UNCHANGED << station, running, flight, answers, attempts >>

\* The channel process itself fails, whatever has become of the message.
ChannelFails(e) ==
    /\ outcome[e] = "waiting"
    /\ outcome' = [outcome EXCEPT ![e] = "failed"]
    /\ UNCHANGED << station, running, flight, answers, attempts >>

\* A host is moved to another version of the binary.
Upgrade(h, v) ==
    /\ running[h] # v
    /\ running' = [running EXCEPT ![h] = v]
    /\ UNCHANGED << station, flight, answers, attempts, outcome >>

\* The station's own verbs.
SendLocally(ev) ==
    /\ store.next_seq < MaxSeq
    /\ store' = Enqueue(store, ev)
    /\ UNCHANGED << taken, running, flight, answers, attempts, outcome >>

DrainStation(limit) ==
    /\ ~IsEmpty(store)
    /\ store' = Drain(store, limit)
    /\ taken' = taken \o Drained(store, limit)
    /\ UNCHANGED << running, flight, answers, attempts, outcome >>

Next ==
    \/ \E e \in Emits : EmitRender(e) \/ EmitDeliver(e)
    \/ \E m \in flight : Lose(m) \/ Accept(m)
    \/ \E e \in Emits : LearnDelivered(e) \/ LearnRefused(e) \/ ChannelFails(e)
    \/ \E h \in {"sender", "receiver"}, v \in Versions : Upgrade(h, v)
    \/ \E ev \in LocalEvents : SendLocally(ev)
    \/ \E limit \in 1 .. Len(store.stream) : DrainStation(limit)

Spec == Init /\ [][Next]_vars

-------------------------------------------------------------------------------
TypeOK ==
    /\ store \in Store /\ taken \in Seq(Envelope)
    /\ running \in [{"sender", "receiver"} -> Versions]
    /\ flight \subseteq Message
    /\ answers \subseteq Message \X Answer
    /\ attempts \in [Emits -> 0 .. MaxAttempts]
    /\ outcome \in [Emits -> Outcomes]

Accepted(id) ==
    \E m \in Message : << m, "accepted" >> \in answers
                       /\ StableId[Content[m.emit]] = id

\* An event its seat was told is delivered is in the station's journal: pending
\* or drained under its stable id, whichever attempt brought it there and
\* whatever versions the hosts have been moved to (main.rs, lines 237-244).
DeliveredIsQueued ==
    \A e \in Emits : outcome[e] = "delivered" =>
        store.journal[StableId[Content[e]]] # "absent"

\* Never a half-delivery: what the station holds of another host was accepted
\* by a listener that spoke its version, so an event of which every attempt was
\* refused or lost left nothing behind (listener.rs, lines 12-15).
NothingWithoutAcceptance ==
    \A id \in RemoteEvents : store.journal[id] # "absent" => Accepted(id)

\* A mismatch falls back to herdr render (delivery.rs, lines 17-18): an emit
\* that is over and met one was rendered.
MismatchIsRendered == \A e \in Emits : outcome[e] # "refused"

\* The two hosts and the channel implement the mailbox: each event is put in
\* the station queue at most once, whatever was retried, lost, late or
\* repeated, and only what was put in is reported as delivered.
AsMailbox ==
    INSTANCE Mailbox WITH
        Envelopes <- Envelope,
        pending   <- store.stream,
        receipts  <- {EnvelopeOf(e) : e \in {x \in Emits : outcome[x] = "delivered"}}

ImplementsMailbox == AsMailbox!Spec
===============================================================================

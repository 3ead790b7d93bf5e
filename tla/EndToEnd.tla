------------------------------- MODULE EndToEnd -------------------------------
(***************************************************************************)
(* A seat's `emit` on one host and the station it is meant for on another, *)
(* composed: the channel and the retries of CrossHost, and in the place of *)
(* its one-step remote verb the file operations of StationQueue. A listener *)
(* can die at any of them, its sender is told of a failure, and the retry  *)
(* meets what the dead listener left behind; the station's own verbs and   *)
(* the heartbeat run in between.                                           *)
(*                                                                         *)
(* The gate is on, the binding is cross-host and both hosts run one version *)
(* of the binary: renders, refusals and upgrades are CrossHost's matter.   *)
(***************************************************************************)
EXTENDS StationQueue

CONSTANTS
    Emits,           \* the events seats emit, one each
    Content,         \* what each says: its (to, payload)
    MaxAttempts,     \* bound: how often an event is emitted
    NoMessage        \* what a process that is no listener serves

Message == [emit : Emits, attempt : 1 .. MaxAttempts]

ASSUME EndToEndAssumption ==
    /\ Content \in [Emits -> RemoteEvents]
    /\ MaxAttempts \in Nat
    /\ NoMessage \notin Message

VARIABLES
    flight,       \* messages whose remote verb has not started
    serving,      \* the message a listener's process was started with
    exits,        \* messages whose remote verb has exited with success
    attempts,     \* how often each event has been emitted
    outcome,      \* what `emit` last told its seat
    saved         \* history: messages whose remote verb has saved the queue

sender == << attempts, outcome >>
channel == << flight, serving, exits >>
joint == << vars, channel, sender, saved >>

JointInit ==
    /\ Init
    /\ flight = {}
    /\ serving = [p \in Procs |-> NoMessage]
    /\ exits = {}
    /\ attempts = [e \in Emits |-> 0]
    /\ outcome = [e \in Emits |-> "none"]
    /\ saved = {}

-------------------------------------------------------------------------------
(***************************************************************************)
(* The sending host.                                                       *)
(***************************************************************************)
Latest(e) == [emit |-> e, attempt |-> attempts[e]]

\* send_event, plan and open: the first time, and again when the seat was told
\* that it failed.
EmitDeliver(e) ==
    /\ outcome[e] \in {"none", "failed"}
    /\ attempts[e] < MaxAttempts
    /\ attempts' = [attempts EXCEPT ![e] = @ + 1]
    /\ outcome' = [outcome EXCEPT ![e] = "waiting"]
    /\ flight' = flight \cup {[emit |-> e, attempt |-> attempts[e] + 1]}
    /\ UNCHANGED << vars, serving, exits, saved >>

\* Mutant of LearnDelivered: the status of the channel is not looked at.
LearnWhatever(e) ==
    /\ outcome[e] = "waiting"
    /\ outcome' = [outcome EXCEPT ![e] = "delivered"]
    /\ UNCHANGED << vars, channel, attempts, saved >>

\* The channel exits with the status of the remote verb.
LearnDelivered(e) ==
    /\ outcome[e] = "waiting"
    /\ Latest(e) \in exits
    /\ outcome' = [outcome EXCEPT ![e] = "delivered"]
    /\ UNCHANGED << vars, channel, attempts, saved >>

\* The channel fails, whether its listener has failed, succeeded, is at work or
\* still to run.
ChannelFails(e) ==
    /\ outcome[e] = "waiting"
    /\ outcome' = [outcome EXCEPT ![e] = "failed"]
    /\ UNCHANGED << vars, channel, attempts, saved >>

Lose(m) ==
    /\ m \in flight
    /\ flight' = flight \ {m}
    /\ UNCHANGED << vars, serving, exits, sender, saved >>

-------------------------------------------------------------------------------
(***************************************************************************)
(* The receiving host. A step of a listener is a step of StationQueue; the *)
(* message it serves says what the channel learns of it.                   *)
(***************************************************************************)
Arrive(p, m) ==
    /\ m \in flight
    /\ Deliver(p, Content[m.emit])
    /\ flight' = flight \ {m}
    /\ serving' = [serving EXCEPT ![p] = m]
    /\ UNCHANGED << exits, sender, saved >>

Listening(p) == serving[p] # NoMessage

Hangup(p) == serving' = [serving EXCEPT ![p] = NoMessage]

ListenerWorks(p) ==
    /\ Listening(p)
    /\ OpenTmp(p) \/ WriteTmp(p) \/ SetHasMail(p)
    /\ UNCHANGED << channel, sender, saved >>

ListenerSaves(p) ==
    /\ Listening(p)
    /\ Rename(p)
    /\ saved' = saved \cup {serving[p]}
    /\ UNCHANGED << channel, sender >>

ListenerExits(p) ==
    /\ Listening(p)
    /\ Receipt(p)
    /\ exits' = exits \cup {serving[p]}
    /\ Hangup(p)
    /\ UNCHANGED << flight, sender, saved >>

\* The listener dies or returns an error: its exit status is not 0.
ListenerFails(p) ==
    /\ Listening(p)
    /\ Die(p) \/ RenameFails(p)
    /\ Hangup(p)
    /\ UNCHANGED << flight, exits, sender, saved >>

\* The station's own verbs.
StationWorks(p) ==
    /\ ~Listening(p)
    /\ Step(p)
    /\ UNCHANGED << channel, sender, saved >>

StationStarts(p) ==
    /\ \/ \E ev \in LocalEvents : Send(p, ev)
       \/ Read(p) \/ DrainAll(p)
    /\ UNCHANGED << channel, sender, saved >>

HeartbeatTicks(p) == Inject(p) /\ UNCHANGED << channel, sender, saved >>

StationDies(p) ==
    /\ ~Listening(p)
    /\ Die(p)
    /\ UNCHANGED << channel, sender, saved >>

ListenerStep(p) ==
    ListenerWorks(p) \/ ListenerSaves(p) \/ ListenerExits(p)

JointNext ==
    \/ \E e \in Emits : EmitDeliver(e) \/ LearnDelivered(e) \/ ChannelFails(e)
    \/ \E m \in flight : Lose(m)
    \/ \E p \in Procs, m \in flight : Arrive(p, m)
    \/ \E p \in Procs :
        \/ ListenerStep(p) \/ ListenerFails(p)
        \/ StationStarts(p) \/ HeartbeatTicks(p)
        \/ StationWorks(p) \/ StationDies(p)

JointSpec == JointInit /\ [][JointNext]_joint

\* What StationQueue assumes of its processes and of the heartbeat. Nothing is
\* assumed of the channel, of the seat or of the other readers.
JointFairness ==
    \A p \in Procs :
        /\ WF_joint(ListenerStep(p) \/ StationWorks(p))
        /\ SF_joint(HeartbeatTicks(p))

JointFairSpec == JointSpec /\ JointFairness

-------------------------------------------------------------------------------
ChannelOK ==
    /\ flight \subseteq Message /\ exits \subseteq saved /\ saved \subseteq Message
    /\ serving \in [Procs -> Message \cup {NoMessage}]
    /\ \A p \in Procs : Listening(p) <=> verb[p] = "deliver"
    /\ attempts \in [Emits -> 0 .. MaxAttempts]
    /\ outcome \in [Emits -> {"none", "waiting", "delivered", "failed"}]

\* How often what e says has been emitted, by whichever seat.
SaidOnce(e) ==
    /\ attempts[e] = 1
    /\ \A x \in Emits \ {e} : Content[x] = Content[e] => attempts[x] = 0

\* An event that was emitted once and reported delivered is pending with its
\* marker, or a reader has it. Only a retry, or another seat that says the same,
\* can be acknowledged without a signal: the duplicate of an envelope whose
\* listener died before its marker (send.rs, lines 257-266).
FirstTryIsSignalled ==
    \A e \in Emits :
        outcome[e] = "delivered" /\ SaidOnce(e) =>
            \/ marker
            \/ RemoteEnvelope(Content[e]) \in Range(taken)

\* What a seat was told is delivered is printed to the station as a turn in the
\* end, by the heartbeat alone, whatever was lost, late or retried and whatever
\* died; unless a listener died before its marker, or a verb that had taken the
\* event died before its print (main.rs, lines 237-244; read.rs, lines 5-8).
DeliveredIsRendered ==
    \A e \in Emits :
        outcome[e] = "delivered"
            ~> \/ RemoteEnvelope(Content[e]) \in Range(rendered)
               \/ "mark" \in cutoff
               \/ /\ RemoteEnvelope(Content[e]) \in Range(taken)
                  /\ ~(cutoff \subseteq {"mark"})

\* The file operations of the listener and its deaths implement the remote verb
\* that CrossHost takes in one step: its rename is the step, its death before
\* that is a loss on the way, and everything after it is the channel's.
Stamped(msgs) ==
    {[emit |-> m.emit, attempt |-> m.attempt, version |-> 1] : m \in msgs}

Served == {serving[p] : p \in {q \in Procs : Listening(q)}}

AsCrossHost ==
    INSTANCE CrossHost WITH
        StableId <- [c \in RemoteEvents |-> c],
        Versions <- {1},
        store    <- queue.rec,
        running  <- [h \in {"sender", "receiver"} |-> 1],
        flight   <- Stamped(flight \cup (Served \ saved)),
        answers  <- Stamped(saved) \X {"accepted"}

ImplementsCrossHost == AsCrossHost!Spec
===============================================================================

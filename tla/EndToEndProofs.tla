---------------------------- MODULE EndToEndProofs ----------------------------
(***************************************************************************)
(* Proofs about the composition of a seat's `emit`, the channel and the    *)
(* station's verbs, for any events and contents, any number of attempts,   *)
(* processes and faults. The station's own theorems carry over to the      *)
(* composition, as every joint step is a step of the station or leaves it  *)
(* alone; what the channel adds is proved on top of their invariants.      *)
(***************************************************************************)
EXTENDS EndToEnd, StationQueueProofs

(***************************************************************************)
(* The channel. ChannelOK is not inductive: that only a message whose      *)
(* queue was saved exits needs to know where a listener stands, and that   *)
(* no other listener serves its message.                                   *)
(***************************************************************************)
Tickets ==
    /\ \A m \in flight \cup saved : m.attempt \in 1 .. attempts[m.emit]
    /\ flight \cap saved = {}
    /\ \A p \in Procs : Listening(p) =>
        /\ serving[p] \notin flight
        /\ serving[p].attempt \in 1 .. attempts[serving[p].emit]
        /\ pc[p] \in {"open", "write", "rename", "mark", "receipt"}
        /\ serving[p] \in saved <=> pc[p] \in {"mark", "receipt"}
    /\ \A p, q \in Procs : Listening(p) /\ serving[p] = serving[q] => p = q

JointBase == Base /\ ChannelOK /\ Tickets

\* A joint step is a step of the station, or leaves it alone.
LEMMA JointStation == ASSUME ChannelOK, [JointNext]_joint PROVE [Next]_vars
<1>1. ASSUME NEW e \in Emits, EmitDeliver(e) \/ LearnDelivered(e) \/ ChannelFails(e)
      PROVE  UNCHANGED vars
  BY <1>1 DEF EmitDeliver, LearnDelivered, ChannelFails
<1>2. ASSUME NEW m \in flight, Lose(m) PROVE UNCHANGED vars
  BY <1>2 DEF Lose
<1>3. ASSUME NEW p \in Procs, NEW m \in flight, Arrive(p, m) PROVE Next
  <2>1. Content[m.emit] \in RemoteEvents
    BY EndToEndAssumption DEF ChannelOK, Message
  <2> QED BY <1>3, <2>1 DEF Arrive, Next, Start
<1>4. ASSUME NEW p \in Procs,
             \/ ListenerStep(p) \/ ListenerFails(p) \/ StationStarts(p)
             \/ HeartbeatTicks(p) \/ StationWorks(p) \/ StationDies(p)
      PROVE  Next
  BY <1>4 DEF ListenerStep, ListenerWorks, ListenerSaves, ListenerExits,
     ListenerFails, StationStarts, HeartbeatTicks, StationWorks, StationDies,
     Next, Start, Step, Save
<1>5. CASE UNCHANGED joint
  BY <1>5 DEF joint
<1> QED BY <1>1, <1>2, <1>3, <1>4, <1>5 DEF JointNext

\* The initial state.
LEMMA InitJoint == JointInit => JointBase
<1> SUFFICES ASSUME JointInit PROVE JointBase
  OBVIOUS
<1>1. Base
  BY InitBase DEF JointInit
<1>2. \A p \in Procs : ~Listening(p) /\ verb[p] = "none"
  BY DEF JointInit, Init, Listening
<1>3. ChannelOK
  BY <1>2, EndToEndAssumption DEF JointInit, ChannelOK
<1>4. Tickets
  BY <1>2 DEF JointInit, Tickets
<1> QED BY <1>1, <1>3, <1>4 DEF JointBase

\* What the seat does touches neither files nor listeners.
LEMMA SeatKeepsTickets ==
    ASSUME JointBase, NEW e \in Emits,
           EmitDeliver(e) \/ LearnDelivered(e) \/ ChannelFails(e)
    PROVE  ChannelOK' /\ Tickets'
<1>1. UNCHANGED << serving, exits, saved, verb, pc >>
  BY DEF EmitDeliver, LearnDelivered, ChannelFails, channel, vars, procs
<1>2. CASE EmitDeliver(e)
  <2> DEFINE m == [emit |-> e, attempt |-> attempts[e] + 1]
  <2>1. /\ flight' = flight \cup {m}
        /\ attempts' = [attempts EXCEPT ![e] = @ + 1]
        /\ outcome' = [outcome EXCEPT ![e] = "waiting"]
        /\ attempts[e] < MaxAttempts
        /\ attempts \in [Emits -> 0 .. MaxAttempts]
        /\ MaxAttempts \in Nat
    BY <1>2, EndToEndAssumption DEF EmitDeliver, JointBase, ChannelOK
  <2>2. /\ m \in Message
        /\ attempts' \in [Emits -> 0 .. MaxAttempts]
        /\ attempts'[e] = attempts[e] + 1
        /\ \A x \in Emits : attempts[x] \in Nat /\ attempts[x] <= attempts'[x]
    BY <2>1 DEF Message
  <2>3. \A x \in Message : x.attempt \in 1 .. attempts[x.emit]
            => x # m /\ x.attempt \in 1 .. attempts'[x.emit]
    BY <2>1, <2>2 DEF Message
  <2>4. ChannelOK'
    BY <1>1, <2>1, <2>2 DEF JointBase, ChannelOK, Listening
  <2>5. flight \subseteq Message /\ saved \subseteq Message
        /\ \A p \in Procs : Listening(p) => serving[p] \in Message
    BY DEF JointBase, ChannelOK, Listening
  <2>6. m.attempt \in 1 .. attempts'[m.emit]
    BY <2>1, <2>2
  <2>7. \A x \in flight' \cup saved' : x.attempt \in 1 .. attempts'[x.emit]
    BY <1>1, <2>1, <2>3, <2>5, <2>6 DEF JointBase, Tickets
  <2>8. flight' \cap saved' = {}
    BY <1>1, <2>1, <2>3, <2>5 DEF JointBase, Tickets
  <2>9. \A p \in Procs : Listening(p)' =>
            serving'[p] \notin flight'
            /\ serving'[p].attempt \in 1 .. attempts'[serving'[p].emit]
    BY <1>1, <2>1, <2>3, <2>5 DEF JointBase, Tickets, Listening
  <2> QED BY <1>1, <2>4, <2>7, <2>8, <2>9 DEF JointBase, Tickets, Listening
<1>3. CASE LearnDelivered(e) \/ ChannelFails(e)
  <2>1. UNCHANGED << flight, attempts >>
    BY <1>3 DEF LearnDelivered, ChannelFails, channel
  <2>2. outcome' \in [Emits -> {"none", "waiting", "delivered", "failed"}]
    BY <1>3 DEF LearnDelivered, ChannelFails, JointBase, ChannelOK
  <2> QED BY <1>1, <2>1, <2>2 DEF JointBase, ChannelOK, Tickets, Listening
<1> QED BY <1>2, <1>3

\* A listener is started for a message under way.
LEMMA ArriveKeepsTickets ==
    ASSUME JointBase, NEW p \in Procs, NEW m \in flight, Arrive(p, m)
    PROVE  ChannelOK' /\ Tickets'
<1>1. /\ flight' = flight \ {m} /\ serving' = [serving EXCEPT ![p] = m]
      /\ UNCHANGED << exits, attempts, outcome, saved >>
      /\ pc[p] = "idle"
      /\ verb' = [verb EXCEPT ![p] = "deliver"]
      /\ pc' = [pc EXCEPT ![p] = "open"]
  BY DEF Arrive, Deliver, CanStart, Begin, Goto, sender
<1>2. /\ serving \in [Procs -> Message \cup {NoMessage}]
      /\ verb \in [Procs -> Verbs \cup {"none"}] /\ pc \in [Procs -> Labels]
      /\ m \in Message /\ m # NoMessage /\ m \notin saved
      /\ m.attempt \in 1 .. attempts[m.emit]
  BY EndToEndAssumption DEF JointBase, Base, TypeOK, ChannelOK, Tickets
<1>3. /\ Listening(p)' /\ serving'[p] = m /\ verb'[p] = "deliver" /\ pc'[p] = "open"
      /\ \A q \in Procs : q # p => /\ Listening(q)' <=> Listening(q)
                                   /\ serving'[q] = serving[q]
                                   /\ verb'[q] = verb[q] /\ pc'[q] = pc[q]
  BY <1>1, <1>2 DEF Listening
<1>4. ChannelOK'
  <2>1. serving' \in [Procs -> Message \cup {NoMessage}]
    BY <1>1, <1>2
  <2> QED BY <1>1, <1>3, <2>1 DEF JointBase, ChannelOK
<1>5. Tickets'
  <2>1. \A q \in Procs : q # p => serving[q] # m
    BY <1>2 DEF JointBase, Tickets, Listening
  <2> QED BY <1>1, <1>2, <1>3, <2>1 DEF JointBase, Tickets
<1> QED BY <1>4, <1>5

\* A process that stays a listener, or stays none.
LEMMA StayKeepsTickets ==
    ASSUME JointBase, NEW p \in Procs,
           UNCHANGED << flight, serving, exits, attempts, outcome, saved >>,
           verb' = verb, NEW label, Goto(p, label),
           Listening(p) => /\ label \in {"write", "rename", "mark", "receipt"}
                           /\ label \in {"mark", "receipt"}
                                <=> pc[p] \in {"mark", "receipt"}
    PROVE  ChannelOK' /\ Tickets'
<1>1. pc \in [Procs -> Labels] /\ pc' = [pc EXCEPT ![p] = label]
  BY DEF JointBase, Base, TypeOK, Goto
<1>2. \A q \in Procs : Listening(q)' <=> Listening(q)
  BY DEF Listening
<1> QED BY <1>1, <1>2 DEF JointBase, ChannelOK, Tickets

\* A process that ends is no listener any more, whatever becomes of its exit.
LEMMA EndKeepsTickets ==
    ASSUME JointBase, NEW p \in Procs, UNCHANGED << flight, attempts, outcome, saved >>,
           End(p), Listening(p) => Hangup(p), ~Listening(p) => serving' = serving,
           \/ exits' = exits
           \/ Listening(p) /\ pc[p] = "receipt" /\ exits' = exits \cup {serving[p]}
    PROVE  ChannelOK' /\ Tickets'
<1>1. /\ serving \in [Procs -> Message \cup {NoMessage}]
      /\ verb \in [Procs -> Verbs \cup {"none"}] /\ pc \in [Procs -> Labels]
      /\ NoMessage \notin Message
  BY EndToEndAssumption DEF JointBase, Base, TypeOK, ChannelOK
<1>2. verb' = [verb EXCEPT ![p] = "none"] /\ pc' = [pc EXCEPT ![p] = "idle"]
  BY DEF End, Goto
<1>3. /\ ~Listening(p)' /\ verb'[p] # "deliver"
      /\ \A q \in Procs : q # p => /\ Listening(q)' <=> Listening(q)
                                   /\ serving'[q] = serving[q]
                                   /\ verb'[q] = verb[q] /\ pc'[q] = pc[q]
  BY <1>1, <1>2 DEF Listening, Hangup
<1>4. serving' \in [Procs -> Message \cup {NoMessage}]
  BY <1>1 DEF Hangup
<1>5. exits' \subseteq saved
  BY DEF JointBase, ChannelOK, Tickets
<1>6. ChannelOK'
  BY <1>3, <1>4, <1>5 DEF JointBase, ChannelOK
<1> QED BY <1>3, <1>6 DEF JointBase, Tickets, Listening

\* A verb of the station's own begins, or goes on from its load.
LEMMA BeginKeepsTickets ==
    ASSUME JointBase, NEW p \in Procs, UNCHANGED << channel, sender, saved >>,
           ~Listening(p), NEW v, v # "deliver", NEW label, NEW s, NEW envs, NEW new,
           Begin(p, v, label, s, envs, new)
    PROVE  ChannelOK' /\ Tickets'
<1>1. /\ verb \in [Procs -> Verbs \cup {"none"}] /\ pc \in [Procs -> Labels]
      /\ verb' = [verb EXCEPT ![p] = v] /\ pc' = [pc EXCEPT ![p] = label]
      /\ UNCHANGED << flight, serving, exits, attempts, outcome, saved >>
  BY DEF JointBase, Base, TypeOK, Begin, Goto, channel, sender
<1>2. /\ verb'[p] # "deliver"
      /\ \A q \in Procs : q # p => verb'[q] = verb[q] /\ pc'[q] = pc[q]
      /\ \A q \in Procs : Listening(q)' <=> Listening(q)
  BY <1>1 DEF Listening
<1> QED BY <1>1, <1>2 DEF JointBase, ChannelOK, Tickets

\* The step that saves what the listener was sent.
LEMMA SaveKeepsTickets ==
    ASSUME JointBase, NEW p \in Procs, ListenerSaves(p)
    PROVE  ChannelOK' /\ Tickets'
<1>1. /\ Listening(p) /\ pc[p] = "rename" /\ verb' = verb
      /\ pc' = [pc EXCEPT ![p] = AfterSave(p)]
      /\ saved' = saved \cup {serving[p]}
      /\ UNCHANGED << flight, serving, exits, attempts, outcome >>
  BY DEF ListenerSaves, Rename, Goto, channel, sender
<1>2. /\ pc \in [Procs -> Labels]
      /\ serving[p] \in Message /\ verb[p] = "deliver"
      /\ serving[p] \notin flight
      /\ serving[p].attempt \in 1 .. attempts[serving[p].emit]
  BY <1>1 DEF JointBase, Base, TypeOK, ChannelOK, Tickets, Listening
<1>3. /\ pc'[p] \in {"mark", "receipt"}
      /\ \A q \in Procs : q # p => pc'[q] = pc[q]
      /\ \A q \in Procs : Listening(q)' <=> Listening(q)
  BY <1>1, <1>2 DEF AfterSave, Publishers, Listening
<1>4. ChannelOK'
  BY <1>1, <1>2, <1>3 DEF JointBase, ChannelOK
<1>5. Tickets'
  BY <1>1, <1>2, <1>3 DEF JointBase, Tickets
<1> QED BY <1>4, <1>5

\* The station's own verbs, step by step.
LEMMA WorkKeepsTickets ==
    ASSUME JointBase, NEW p \in Procs, Step(p), ~Listening(p),
           UNCHANGED << channel, sender, saved >>
    PROVE  ChannelOK' /\ Tickets'
<1>1. UNCHANGED << flight, serving, exits, attempts, outcome, saved >>
  BY DEF channel, sender
<1>2. CASE InjectLoad(p)
  BY <1>2, BeginKeepsTickets DEF InjectLoad, LoadToDrain
<1>3. CASE OpenTmp(p) \/ WriteTmp(p) \/ Rename(p) \/ SetHasMail(p) \/ ClearHasMail(p)
  <2>1. verb' = verb
    BY <1>3 DEF OpenTmp, WriteTmp, Rename, SetHasMail, ClearHasMail
  <2>2. \E label : Goto(p, label)
    BY <1>3 DEF OpenTmp, WriteTmp, Rename, SetHasMail, ClearHasMail
  <2> QED BY <1>1, <2>1, <2>2, StayKeepsTickets
<1>4. CASE InjectFails(p) \/ RenameFails(p) \/ Receipt(p) \/ Render(p)
  BY <1>1, <1>4, EndKeepsTickets DEF InjectFails, RenameFails, Receipt, Render
<1> QED BY <1>2, <1>3, <1>4 DEF Step, Save

LEMMA NextTickets == JointBase /\ [JointNext]_joint => JointBase'
<1> SUFFICES ASSUME JointBase, [JointNext]_joint PROVE JointBase'
  OBVIOUS
<1>1. Base'
  BY JointStation, NextBase DEF JointBase
<1> DEFINE Kept == ChannelOK' /\ Tickets'
<1>2. ASSUME NEW e \in Emits, EmitDeliver(e) \/ LearnDelivered(e) \/ ChannelFails(e)
      PROVE  Kept
  BY <1>2, SeatKeepsTickets
<1>3. ASSUME NEW m \in flight, Lose(m) PROVE Kept
  <2>1. /\ flight' = flight \ {m}
        /\ UNCHANGED << verb, pc, serving, exits, attempts, outcome, saved >>
    BY <1>3 DEF Lose, vars, procs, sender
  <2> QED BY <2>1 DEF JointBase, ChannelOK, Tickets, Listening
<1>4. ASSUME NEW p \in Procs, NEW m \in flight, Arrive(p, m) PROVE Kept
  BY <1>4, ArriveKeepsTickets
<1>5. ASSUME NEW p \in Procs, ListenerWorks(p) PROVE Kept
  <2>1. /\ UNCHANGED << flight, serving, exits, attempts, outcome, saved >>
        /\ verb' = verb
    BY <1>5 DEF ListenerWorks, channel, sender, OpenTmp, WriteTmp, SetHasMail
  <2>2. \/ pc[p] = "open" /\ Goto(p, "write")
        \/ pc[p] = "write" /\ Goto(p, "rename")
        \/ pc[p] = "mark" /\ Goto(p, "receipt")
    BY <1>5 DEF ListenerWorks, OpenTmp, WriteTmp, SetHasMail
  <2> QED BY <2>1, <2>2, StayKeepsTickets
<1>6. ASSUME NEW p \in Procs, ListenerSaves(p) PROVE Kept
  BY <1>6, SaveKeepsTickets
<1>7. ASSUME NEW p \in Procs, ListenerExits(p) \/ ListenerFails(p) PROVE Kept
  BY <1>7, EndKeepsTickets
     DEF ListenerExits, ListenerFails, Receipt, Die, RenameFails, sender
<1>8. ASSUME NEW p \in Procs, StationStarts(p) \/ HeartbeatTicks(p) PROVE Kept
  <2>1. ~Listening(p)
    BY <1>8 DEF StationStarts, HeartbeatTicks, Send, Read, DrainAll, Inject,
                CanStart, JointBase, Tickets
  <2> QED BY <1>8, <2>1, BeginKeepsTickets
             DEF StationStarts, HeartbeatTicks, Send, Read, DrainAll, Inject, LoadToDrain
<1>9. ASSUME NEW p \in Procs, StationWorks(p) PROVE Kept
  BY <1>9, WorkKeepsTickets DEF StationWorks
<1>10. ASSUME NEW p \in Procs, StationDies(p) PROVE Kept
  BY <1>10, EndKeepsTickets DEF StationDies, Die, channel, sender
<1>11. ASSUME UNCHANGED joint PROVE Kept
  BY <1>11 DEF joint, vars, procs, channel, sender, JointBase, ChannelOK, Tickets,
               Listening
<1>12. ASSUME JointNext PROVE Kept
  <2>1. ASSUME NEW p \in Procs, ListenerStep(p) PROVE Kept
    BY <1>5, <1>6, <1>7, <2>1 DEF ListenerStep
  <2>2. \/ \E e \in Emits : EmitDeliver(e) \/ LearnDelivered(e) \/ ChannelFails(e)
        \/ \E m \in flight : Lose(m)
        \/ \E p \in Procs, m \in flight : Arrive(p, m)
        \/ \E p \in Procs :
            \/ ListenerStep(p) \/ ListenerFails(p)
            \/ StationStarts(p) \/ HeartbeatTicks(p)
            \/ StationWorks(p) \/ StationDies(p)
    BY <1>12 DEF JointNext
  <2> HIDE DEF Kept
  <2> QED
    BY <1>2, <1>3, <1>4, <1>7, <1>8, <1>9, <1>10, <2>1, <2>2
<1>13. Kept
  BY <1>11, <1>12
<1> QED BY <1>1, <1>13 DEF JointBase

\* The channel's state keeps its type, and no listener exits with success
\* before its queue is saved: with any number of processes, serialized or not.
THEOREM ChannelTypeCorrect == JointSpec => []ChannelOK
<1>1. JointBase => ChannelOK
  BY DEF JointBase
<1> QED BY <1>1, InitJoint, NextTickets, PTL DEF JointSpec

\* The station inside the composition is the station: what is proved of it alone
\* holds of it here.
THEOREM StationInside == JointSpec => Spec
<1>1. JointInit => Init
  BY DEF JointInit
<1>2. JointBase /\ [JointNext]_joint => [Next]_vars
  BY JointStation DEF JointBase
<1> QED BY <1>1, <1>2, InitJoint, NextTickets, PTL DEF JointSpec, Spec

\* With serialized verbs the mailbox of the station keeps its promises under the
\* channel too.
COROLLARY SerializedLosslessEndToEnd ==
    ASSUME Serialized PROVE JointSpec => []NothingLost
BY StationInside, SerializedLossless, PTL

-------------------------------------------------------------------------------
(***************************************************************************)
(* The refinement of CrossHost. SerialInv says what stream and journal a   *)
(* serialized verb is about to save; that its save is one step of          *)
(* CrossHost needs the whole store, and the message it is saved for.       *)
(***************************************************************************)
Sending(p) ==
    /\ verb[p] = "send"
    /\ queue.rec.next_seq < MaxSeq
    /\ \E ev \in LocalEvents : work[p] = Enqueue(queue.rec, ev)

Accepting(p) ==
    /\ verb[p] = "deliver"
    /\ work[p] = EnqueueWithId(queue.rec, RemoteEnvelope(Content[serving[p].emit]))

Emptying(p) ==
    /\ verb[p] \in Readers
    /\ ~IsEmpty(queue.rec)
    /\ \E n \in 1 .. Len(queue.rec.stream) :
        work[p] = Drain(queue.rec, n) /\ cargo[p] = Drained(queue.rec, n)

Purpose(p) ==
    pc[p] \in {"open", "write", "rename"} => Sending(p) \/ Accepting(p) \/ Emptying(p)

JointInv == SerialInv /\ JointBase /\ \A p \in Procs : Purpose(p)

\* A drain beyond the end of the stream is a drain to its end.
LEMMA DrainToEnd ==
    ASSUME NEW s \in Store, NEW limit \in Nat, ~IsEmpty(s), limit > 0 \/ limit = Len(s.stream)
    PROVE  \E n \in 1 .. Len(s.stream) :
              Drain(s, limit) = Drain(s, n) /\ Drained(s, limit) = Drained(s, n)
<1>1. s.stream \in Seq(Envelope) /\ Len(s.stream) \in Nat /\ Len(s.stream) > 0
  BY DEF IsEmpty, Store
<1>2. /\ DrainCount(s, limit) \in 1 .. Len(s.stream)
      /\ DrainCount(s, DrainCount(s, limit)) = DrainCount(s, limit)
  BY <1>1 DEF DrainCount
<1> QED BY <1>2 DEF Drain, Drained

\* What a verb other than a listener has loaded.
LEMMA LoadGivesPurpose ==
    ASSUME SerialInv, NEW p \in Procs, NEW v \in Readers, NEW limit \in Nat,
           limit > 0 \/ limit = Everything, LoadToDrain(p, v, limit)
    PROVE  Purpose(p)'
<1>1. /\ queue.rec \in Store /\ Everything = Len(queue.rec.stream)
      /\ pc \in [Procs -> Labels] /\ verb \in [Procs -> Verbs \cup {"none"}]
      /\ work \in [Procs -> Store] /\ cargo \in [Procs -> Seq(Envelope)]
  BY DEF SerialInv, Base, TypeOK, File, Everything
<1>2. CASE IsEmpty(queue.rec)
  <2>1. pc'[p] = "clear"
    BY <1>1, <1>2 DEF LoadToDrain, Begin, Goto
  <2> QED BY <2>1 DEF Purpose
<1>3. CASE ~IsEmpty(queue.rec)
  <2>1. /\ queue' = queue /\ verb'[p] = v
        /\ work'[p] = Drain(queue.rec, limit) /\ cargo'[p] = Drained(queue.rec, limit)
    BY <1>1, <1>3 DEF LoadToDrain, Begin, disk
  <2>2. \E n \in 1 .. Len(queue.rec.stream) :
            Drain(queue.rec, limit) = Drain(queue.rec, n)
            /\ Drained(queue.rec, limit) = Drained(queue.rec, n)
    BY <1>1, <1>3, DrainToEnd
  <2>3. Emptying(p)'
    BY <1>3, <2>1, <2>2 DEF Emptying
  <2> QED BY <2>3 DEF Purpose
<1> QED BY <1>2, <1>3

\* A verb that is under way, or over, and has not touched the queue.
LEMMA PurposeLasts ==
    ASSUME SerialInv, NEW p \in Procs, Purpose(p),
           queue' = queue,
           \/ /\ UNCHANGED << verb, work, cargo, serving >>
              /\ pc'[p] \in {"open", "write", "rename"}
                    => pc[p] \in {"open", "write", "rename"}
           \/ pc'[p] \notin {"open", "write", "rename"}
    PROVE  Purpose(p)'
<1>1. CASE pc'[p] \notin {"open", "write", "rename"}
  BY <1>1 DEF Purpose
<1>2. CASE /\ UNCHANGED << verb, work, cargo, serving >>
           /\ pc'[p] \in {"open", "write", "rename"}
                 => pc[p] \in {"open", "write", "rename"}
  BY <1>2 DEF Purpose, Sending, Accepting, Emptying
<1> QED BY <1>1, <1>2

\* With the others idle, a step of p is nobody else's.
LEMMA OthersHaveNoPurpose ==
    ASSUME SerialInv, NEW p \in Procs, \A q \in Procs : q # p => pc[q] = "idle",
           NEW label, Goto(p, label), Purpose(p)'
    PROVE  \A q \in Procs : Purpose(q)'
<1>1. \A q \in Procs : q # p => pc'[q] = "idle"
  BY DEF Goto, SerialInv, Base, TypeOK
<1> QED BY <1>1 DEF Purpose

\* Only a rename changes the queue.
LEMMA QueueStays ==
    ASSUME SerialInv, NEW p \in Procs,
           Start(p) \/ Die(p) \/ (Step(p) /\ pc[p] # "rename") \/ RenameFails(p)
    PROVE  queue' = queue /\ taken' = taken
<1>1. fd[p] # "queue"
  BY DEF SerialInv, Files
<1>2. CASE Start(p)
  BY <1>2 DEF Start, Send, Deliver, Read, DrainAll, Inject, LoadToDrain, Begin,
              disk, history
<1>3. CASE Die(p)
  BY <1>1, <1>3 DEF Die, Torn
<1>4. CASE Step(p) /\ pc[p] # "rename"
  <2>1. CASE WriteTmp(p)
    BY <1>1, <2>1 DEF WriteTmp, history
  <2>2. CASE InjectLoad(p)
    BY <2>2 DEF InjectLoad, LoadToDrain, Begin, disk, history
  <2>3. CASE ~WriteTmp(p) /\ ~InjectLoad(p)
    BY <1>4, <2>3 DEF Step, Save, InjectFails, OpenTmp, Rename, RenameFails,
                      SetHasMail, ClearHasMail, Receipt, Render, disk, history
  <2> QED BY <2>1, <2>2, <2>3
<1>5. CASE RenameFails(p)
  BY <1>5 DEF RenameFails, disk, history
<1> QED BY <1>2, <1>3, <1>4, <1>5

LEMMA StepKeepsPurpose ==
    ASSUME SerialInv, NEW p \in Procs, Purpose(p),
           \A q \in Procs : q # p => pc[q] = "idle",
           \/ Step(p) /\ (pc[p] \in {"open", "write"} => serving' = serving)
           \/ Die(p)
    PROVE  \A q \in Procs : Purpose(q)'
<1> USE DEF Goto
<1>1. pc \in [Procs -> Labels]
  BY DEF SerialInv, Base, TypeOK
<1>2. CASE InjectLoad(p)
  <2>1. LoadToDrain(p, "inject", Everything) /\ "inject" \in Readers /\ Everything \in Nat
    BY <1>2 DEF InjectLoad, Readers, Everything, SerialInv, Base, TypeOK, File, Store
  <2>2. \E label : Goto(p, label)
    BY <2>1 DEF LoadToDrain, Begin
  <2> QED BY <2>1, <2>2, LoadGivesPurpose, OthersHaveNoPurpose
<1>3. CASE (OpenTmp(p) \/ WriteTmp(p)) /\ Step(p) /\ serving' = serving
  <2>1. /\ queue' = queue
        /\ pc[p] \in {"open", "write"}
        /\ UNCHANGED << verb, work, cargo, serving >>
    BY <1>3, QueueStays DEF OpenTmp, WriteTmp
  <2>2. \E label : Goto(p, label)
    BY <1>3 DEF OpenTmp, WriteTmp
  <2> QED BY <2>1, <2>2, PurposeLasts, OthersHaveNoPurpose
<1>4. CASE Rename(p) \/ SetHasMail(p) \/ ClearHasMail(p)
  <2>1. \E label \in AfterSaves \cup {"receipt"} : Goto(p, label)
    BY <1>4 DEF Rename, AfterSave, SetHasMail, ClearHasMail, AfterSaves
  <2>2. pc'[p] \notin {"open", "write", "rename"}
    BY <1>1, <2>1 DEF AfterSaves
  <2>3. Purpose(p)'
    BY <2>2 DEF Purpose
  <2> QED BY <2>1, <2>3, OthersHaveNoPurpose
<1>5. CASE InjectFails(p) \/ RenameFails(p) \/ Receipt(p) \/ Render(p) \/ Die(p)
  <2>1. End(p)
    BY <1>5 DEF InjectFails, RenameFails, Receipt, Render, Die
  <2>2. Goto(p, "idle") /\ pc'[p] = "idle"
    BY <1>1, <2>1 DEF End
  <2>3. Purpose(p)'
    BY <2>2 DEF Purpose
  <2> QED BY <2>2, <2>3, OthersHaveNoPurpose
<1>6. OpenTmp(p) \/ WriteTmp(p) => pc[p] \in {"open", "write"}
  BY DEF OpenTmp, WriteTmp
<1> QED BY <1>2, <1>3, <1>4, <1>5, <1>6 DEF Step, Save

LEMMA StartKeepsPurpose ==
    ASSUME SerialInv, Serialized, NEW p \in Procs,
           StationStarts(p) \/ HeartbeatTicks(p)
    PROVE  \A q \in Procs : Purpose(q)'
<1>1. /\ pc \in [Procs -> Labels] /\ verb \in [Procs -> Verbs \cup {"none"}]
      /\ work \in [Procs -> Store] /\ queue.rec \in Store
      /\ Everything \in Nat
  BY DEF SerialInv, Base, TypeOK, File, Store, Everything
<1>2. CanStart(p) /\ \E label : Goto(p, label)
  BY DEF StationStarts, HeartbeatTicks, Send, Read, DrainAll, Inject, LoadToDrain, Begin
<1>3. \A q \in Procs : q # p => pc[q] = "idle"
  BY <1>2, RunsAlone
<1>4. ASSUME NEW ev \in LocalEvents, Send(p, ev) PROVE Purpose(p)'
  <2>1. /\ queue' = queue /\ queue.rec.next_seq < MaxSeq
        /\ verb'[p] = "send" /\ work'[p] = Enqueue(queue.rec, ev)
    BY <1>1, <1>4 DEF Send, Begin, disk
  <2>2. Sending(p)'
    BY <2>1 DEF Sending
  <2> QED BY <2>2 DEF Purpose
<1>5. ASSUME Read(p) PROVE Purpose(p)'
  BY <1>5, LoadGivesPurpose, StationAssumption DEF Read, Readers
<1>6. ASSUME DrainAll(p) PROVE Purpose(p)'
  BY <1>1, <1>6, LoadGivesPurpose DEF DrainAll, Readers
<1>7. ASSUME Inject(p) PROVE Purpose(p)'
  <2>1. pc'[p] = "load"
    BY <1>1, <1>7 DEF Inject, Begin, Goto
  <2> QED BY <2>1 DEF Purpose
<1>8. Purpose(p)'
  BY <1>4, <1>5, <1>6, <1>7 DEF StationStarts, HeartbeatTicks
<1> QED BY <1>2, <1>3, <1>8, OthersHaveNoPurpose

LEMMA ArriveKeepsPurpose ==
    ASSUME JointInv, Serialized, NEW p \in Procs, NEW m \in flight, Arrive(p, m)
    PROVE  \A q \in Procs : Purpose(q)'
<1>1. /\ CanStart(p) /\ Goto(p, "open") /\ queue' = queue
      /\ verb' = [verb EXCEPT ![p] = "deliver"]
      /\ work' = [work EXCEPT ![p] =
                    EnqueueWithId(queue.rec, RemoteEnvelope(Content[m.emit]))]
      /\ serving' = [serving EXCEPT ![p] = m]
  BY DEF Arrive, Deliver, Begin, disk
<1>2. /\ verb \in [Procs -> Verbs \cup {"none"}] /\ work \in [Procs -> Store]
      /\ serving \in [Procs -> Message \cup {NoMessage}]
  BY DEF JointInv, JointBase, Base, TypeOK, ChannelOK
<1>3. Accepting(p)'
  BY <1>1, <1>2 DEF Accepting
<1>4. Purpose(p)'
  BY <1>3 DEF Purpose
<1>5. \A q \in Procs : q # p => pc[q] = "idle"
  BY <1>1, RunsAlone DEF JointInv
<1> QED BY <1>1, <1>4, <1>5, OthersHaveNoPurpose DEF JointInv

LEMMA NextJointInv == Serialized /\ JointInv /\ [JointNext]_joint => JointInv'
<1> SUFFICES ASSUME Serialized, JointInv, [JointNext]_joint PROVE JointInv'
  OBVIOUS
<1>1. JointBase' /\ SerialInv'
  BY JointStation, NextTickets, NextSerial DEF JointInv, JointBase
<1> DEFINE Kept == \A q \in Procs : Purpose(q)'
<1>2. ASSUME UNCHANGED << queue, pc, verb, work, cargo, serving >> PROVE Kept
  BY <1>2 DEF JointInv, Purpose, Sending, Accepting, Emptying
<1>3. ASSUME NEW e \in Emits, EmitDeliver(e) \/ LearnDelivered(e) \/ ChannelFails(e)
      PROVE  Kept
  BY <1>2, <1>3 DEF EmitDeliver, LearnDelivered, ChannelFails, channel, vars, procs, disk
<1>4. ASSUME NEW m \in flight, Lose(m) PROVE Kept
  BY <1>2, <1>4 DEF Lose, vars, procs, disk
<1>5. ASSUME NEW p \in Procs, NEW m \in flight, Arrive(p, m) PROVE Kept
  BY <1>5, ArriveKeepsPurpose
<1>6. ASSUME NEW p \in Procs,
             \/ Step(p) /\ (pc[p] \in {"open", "write"} => serving' = serving)
             \/ Die(p)
      PROVE  Kept
  <2>1. pc[p] # "idle"
    BY <1>6 DEF Step, Save, Die, InjectLoad, InjectFails, OpenTmp, WriteTmp, Rename,
                RenameFails, SetHasMail, ClearHasMail, Receipt, Render
  <2>2. \A q \in Procs : q # p => pc[q] = "idle"
    BY <2>1, RunsAlone DEF JointInv
  <2> QED BY <1>6, <2>2, StepKeepsPurpose DEF JointInv
<1>7. ASSUME NEW p \in Procs, ListenerStep(p) PROVE Kept
  <2>1. Step(p)
    BY <1>7 DEF ListenerStep, ListenerWorks, ListenerSaves, ListenerExits, Step, Save
  <2>2. serving' = serving \/ pc[p] = "receipt"
    BY <1>7 DEF ListenerStep, ListenerWorks, ListenerSaves, ListenerExits,
                Receipt, channel
  <2> QED BY <1>6, <2>1, <2>2
<1>8. ASSUME NEW p \in Procs, ListenerFails(p) PROVE Kept
  BY <1>6, <1>8 DEF ListenerFails, Step, Save, RenameFails, Die
<1>9. ASSUME NEW p \in Procs, StationWorks(p) \/ StationDies(p) PROVE Kept
  BY <1>6, <1>9 DEF StationWorks, StationDies, channel
<1>10. ASSUME NEW p \in Procs, StationStarts(p) \/ HeartbeatTicks(p) PROVE Kept
  BY <1>10, StartKeepsPurpose DEF JointInv
<1>11. ASSUME UNCHANGED joint PROVE Kept
  BY <1>2, <1>11 DEF joint, vars, procs, disk, channel
<1>12. ASSUME JointNext PROVE Kept
  <2> HIDE DEF Kept
  <2> QED BY <1>3, <1>4, <1>5, <1>7, <1>8, <1>9, <1>10, <1>12 DEF JointNext
<1>13. Kept
  BY <1>11, <1>12
<1> QED BY <1>1, <1>13 DEF JointInv

LEMMA InitJointInv == JointInit => JointInv
<1> SUFFICES ASSUME JointInit PROVE JointInv
  OBVIOUS
<1>1. \A p \in Procs : Purpose(p)
  BY DEF JointInit, Init, Purpose
<1> QED BY <1>1, InitJoint, InitSerial DEF JointInit, JointInv

\* The two modules work on the store alike.
LEMMA SameStore ==
    /\ AsCrossHost!EmptyStore = EmptyStore
    /\ \A s : AsCrossHost!IsEmpty(s) <=> IsEmpty(s)
    /\ \A s, env : AsCrossHost!EnqueueWithId(s, env) = EnqueueWithId(s, env)
    /\ \A s, ev : AsCrossHost!Enqueue(s, ev) = Enqueue(s, ev)
    /\ \A s, n : /\ AsCrossHost!Drain(s, n) = Drain(s, n)
                 /\ AsCrossHost!Drained(s, n) = Drained(s, n)
<1>1. /\ AsCrossHost!EmptyStore = EmptyStore
      /\ \A s : AsCrossHost!IsEmpty(s) <=> IsEmpty(s)
  BY DEF AsCrossHost!EmptyStore, AsCrossHost!EmptyJournal, EmptyStore, EmptyJournal,
         AsCrossHost!IsEmpty, IsEmpty
<1>2. \A s, env : AsCrossHost!EnqueueWithId(s, env) = EnqueueWithId(s, env)
  BY DEF AsCrossHost!EnqueueWithId, AsCrossHost!Appends, AsCrossHost!Prepares,
         AsCrossHost!Prepare, EnqueueWithId, Appends, Prepares, Prepare
<1>3. \A s, ev : AsCrossHost!Enqueue(s, ev) = Enqueue(s, ev)
  BY <1>2 DEF AsCrossHost!Enqueue, AsCrossHost!NextEnvelope, Enqueue, NextEnvelope
<1>4. \A s, n : AsCrossHost!DrainCount(s, n) = DrainCount(s, n)
  BY DEF AsCrossHost!DrainCount, DrainCount
<1>5. \A s, n : AsCrossHost!Drained(s, n) = Drained(s, n)
  BY <1>4 DEF AsCrossHost!Drained, Drained
<1>6. /\ \A q : AsCrossHost!IdsOf(q) = IdsOf(q)
      /\ \A j, ids : AsCrossHost!AdmitAll(j, ids) = AdmitAll(j, ids)
  BY DEF AsCrossHost!AdmitAll, AsCrossHost!Admit, AsCrossHost!Admits,
         AsCrossHost!IdsOf, AdmitAll, Admit, Admits, IdsOf
<1>7. \A s, n : AsCrossHost!Drain(s, n) = Drain(s, n)
  BY <1>4, <1>5, <1>6 DEF AsCrossHost!Drain, Drain
<1> QED BY <1>1, <1>2, <1>3, <1>5, <1>7

\* The stamped messages are told apart as the messages are.
Stamp(m) == [emit |-> m.emit, attempt |-> m.attempt, version |-> 1]

LEMMA StampFacts ==
    /\ \A m, n \in Message : Stamp(m) = Stamp(n) => m = n
    /\ \A msgs : Stamped(msgs) = {Stamp(m) : m \in msgs}
    /\ \A m : Stamp(m).emit = m.emit /\ Stamp(m).version = 1
BY DEF Message, Stamp, Stamped

LEMMA InitCrossHost == JointInit => AsCrossHost!Init
<1> SUFFICES ASSUME JointInit PROVE AsCrossHost!Init
  OBVIOUS
<1>1. Served = {}
  BY DEF JointInit, Listening, Served
<1>2. queue.rec = EmptyStore /\ taken = << >>
  BY DEF JointInit, Init, Blank
<1>3. Stamped({}) = {}
  BY DEF Stamped
<1> QED BY <1>1, <1>2, <1>3, SameStore DEF JointInit, AsCrossHost!Init

\* What the channel of CrossHost still has to deliver.
Pending == flight \cup (Served \ saved)

\* A step that CrossHost does not see.
LEMMA Unseen ==
    ASSUME queue' = queue, taken' = taken, Pending' = Pending, saved' = saved,
           attempts' = attempts, outcome' = outcome
    PROVE  UNCHANGED AsCrossHost!vars
BY DEF AsCrossHost!vars, AsCrossHost!station, Pending, Stamped

\* A message that no listener will save any more is lost on the way.
LEMMA UnseenLoss ==
    ASSUME queue' = queue, taken' = taken, saved' = saved,
           attempts' = attempts, outcome' = outcome,
           Pending \subseteq Message, NEW m \in Pending, Pending' = Pending \ {m}
    PROVE  AsCrossHost!Next
<1>1. /\ Stamped(Pending') = Stamped(Pending) \ {Stamp(m)}
      /\ Stamp(m) \in Stamped(Pending)
  BY StampFacts
<1>2. AsCrossHost!Lose(Stamp(m))
  BY <1>1 DEF AsCrossHost!Lose, AsCrossHost!station, Pending, Stamped
<1> QED BY <1>1, <1>2 DEF AsCrossHost!Next, Pending

\* What a process does that is no listener leaves the channel alone.
LEMMA PendingStays ==
    ASSUME UNCHANGED << flight, serving, saved >>
    PROVE  Pending' = Pending
BY DEF Pending, Served, Listening

\* The end of a listener takes its message out of what is pending.
LEMMA PendingOfTheDead ==
    ASSUME ChannelOK, Tickets, NEW p \in Procs, Listening(p), Hangup(p),
           UNCHANGED << flight, saved >>
    PROVE  Pending' = Pending \ {serving[p]} /\ Pending \subseteq Message
<1>1. serving' = [serving EXCEPT ![p] = NoMessage]
      /\ serving \in [Procs -> Message \cup {NoMessage}]
  BY DEF Hangup, ChannelOK
<1>2. /\ ~Listening(p)'
      /\ \A q \in Procs : q # p => serving'[q] = serving[q]
                                   /\ (Listening(q)' <=> Listening(q))
  BY <1>1 DEF Listening
<1>3. \A q \in Procs : q # p /\ Listening(q) => serving[q] # serving[p]
  BY DEF Tickets
<1>4. Served' = Served \ {serving[p]}
  BY <1>2, <1>3 DEF Served
<1>5. serving[p] \notin flight
  BY DEF Tickets
<1> QED BY <1>1, <1>4, <1>5 DEF Pending, Served, ChannelOK, Listening

\* The seat's steps.
LEMMA SeatCrossHost ==
    ASSUME JointInv, NEW e \in Emits,
           EmitDeliver(e) \/ LearnDelivered(e) \/ ChannelFails(e)
    PROVE  AsCrossHost!Next
<1>1. queue' = queue /\ taken' = taken /\ saved' = saved /\ serving' = serving
  BY DEF EmitDeliver, LearnDelivered, ChannelFails, channel, vars, disk, history
<1>2. CASE EmitDeliver(e)
  <2> DEFINE m == [emit |-> e, attempt |-> attempts[e] + 1]
  <2>1. flight' = flight \cup {m} /\ Served' = Served /\ m \notin saved
    BY <1>1, <1>2 DEF EmitDeliver, Served, Listening, JointInv, JointBase, ChannelOK,
                      Tickets
  <2>2. Pending' = Pending \cup {m}
    BY <1>1, <2>1 DEF Pending
  <2>3. Stamped(Pending') = Stamped(Pending) \cup
            {[emit |-> e, attempt |-> attempts[e] + 1, version |-> 1]}
    <3>1. Stamp(m) = [emit |-> e, attempt |-> attempts[e] + 1, version |-> 1]
      BY DEF Stamp
    <3> HIDE DEF m
    <3>2. Stamped(Pending') = Stamped(Pending) \cup {Stamp(m)}
      BY <2>2, StampFacts
    <3> QED BY <3>1, <3>2
  <2>4. AsCrossHost!EmitDeliver(e)
    BY <1>1, <1>2, <2>3
       DEF EmitDeliver, AsCrossHost!EmitDeliver, AsCrossHost!MayEmit,
           AsCrossHost!station, Pending
  <2> QED BY <2>4 DEF AsCrossHost!Next
<1>3. CASE LearnDelivered(e)
  <2>1. flight' = flight /\ attempts' = attempts /\ Pending' = Pending
    BY <1>1, <1>3, PendingStays DEF LearnDelivered, channel
  <2>2. Latest(e) \in saved
    BY <1>3 DEF LearnDelivered, JointInv, JointBase, ChannelOK
  <2>3. AsCrossHost!Latest(e, 1) \in Stamped(saved)
    BY <2>2 DEF AsCrossHost!Latest, Latest, Stamped
  <2>4. AsCrossHost!LearnDelivered(e)
    BY <1>1, <1>3, <2>1, <2>3
       DEF LearnDelivered, AsCrossHost!LearnDelivered, AsCrossHost!station, Pending
  <2> QED BY <2>4 DEF AsCrossHost!Next
<1>4. CASE ChannelFails(e)
  <2>1. flight' = flight /\ attempts' = attempts /\ Pending' = Pending
    BY <1>1, <1>4, PendingStays DEF ChannelFails, channel
  <2>2. AsCrossHost!ChannelFails(e)
    BY <1>1, <1>4, <2>1
       DEF ChannelFails, AsCrossHost!ChannelFails, AsCrossHost!station, Pending
  <2> QED BY <2>2 DEF AsCrossHost!Next
<1> QED BY <1>2, <1>3, <1>4

\* The listener's save is the remote verb of CrossHost.
LEMMA SaveCrossHost ==
    ASSUME JointInv, NEW p \in Procs, ListenerSaves(p)
    PROVE  AsCrossHost!Next
<1> DEFINE m == serving[p]
           env == RemoteEnvelope(Content[m.emit])
<1>1. /\ Listening(p) /\ Rename(p) /\ pc[p] = "rename"
      /\ saved' = saved \cup {m}
      /\ UNCHANGED << flight, serving, attempts, outcome >>
  BY DEF ListenerSaves, Rename, channel, sender
<1>2. verb[p] = "deliver" /\ m \in Message /\ m \notin saved /\ m \notin flight
      /\ \A q \in Procs : q # p /\ Listening(q) => serving[q] # m
  BY <1>1 DEF JointInv, JointBase, ChannelOK, Tickets, Listening
<1>3. /\ queue'.rec = EnqueueWithId(queue.rec, env)
      /\ taken' = taken
  BY <1>1, <1>2 DEF JointInv, Purpose, Sending, Accepting, Emptying, Readers,
                    SerialInv, Files, Full, Rename
<1>4. Pending' = Pending \ {m} /\ m \in Pending /\ Pending \subseteq Message
  <2>1. Served' = Served /\ m \in Served /\ Served \subseteq Message
    BY <1>1, <1>2 DEF Served, Listening, JointInv, JointBase, ChannelOK
  <2> QED BY <1>1, <1>2, <2>1 DEF Pending, JointInv, JointBase, ChannelOK
<1>5. /\ Stamped(Pending') = Stamped(Pending) \ {Stamp(m)}
      /\ Stamp(m) \in Stamped(Pending)
      /\ Stamped(saved') \X {"accepted"}
            = (Stamped(saved) \X {"accepted"}) \cup {<< Stamp(m), "accepted" >>}
      /\ Stamp(m).emit = m.emit /\ Stamp(m).version = 1
  BY <1>1, <1>4, StampFacts
<1>6. AsCrossHost!EnvelopeOf(m.emit) = env
  BY <1>2, EndToEndAssumption DEF AsCrossHost!EnvelopeOf, RemoteEnvelope, Message
<1>7. AsCrossHost!Accept(Stamp(m))
  BY <1>1, <1>3, <1>5, <1>6, SameStore DEF AsCrossHost!Accept, Pending
<1> QED BY <1>5, <1>7 DEF AsCrossHost!Next, Pending

\* A save of the station's own is a publication or a drain of CrossHost.
LEMMA RenameCrossHost ==
    ASSUME JointInv, NEW p \in Procs, Rename(p), ~Listening(p),
           UNCHANGED << channel, sender, saved >>
    PROVE  AsCrossHost!Next
<1>1. /\ UNCHANGED << flight, serving, attempts, outcome, saved >>
      /\ verb[p] # "deliver" /\ queue.rec \in Store
  BY DEF channel, sender, JointInv, JointBase, ChannelOK, Base, TypeOK, File
<1>2. Pending' = Pending
  BY <1>1, PendingStays
<1>3. queue'.rec = work[p] /\ (Sending(p) \/ Emptying(p))
  BY <1>1 DEF JointInv, Purpose, Accepting, SerialInv, Files, Full, Rename
<1>4. CASE Sending(p)
  <2>1. PICK ev \in LocalEvents : work[p] = Enqueue(queue.rec, ev)
    BY <1>4 DEF Sending
  <2>2. AsCrossHost!SendLocally(ev)
    BY <1>1, <1>2, <1>3, <1>4, <2>1, SameStore
       DEF Sending, Rename, Readers, AsCrossHost!SendLocally, Pending
  <2> QED BY <2>2 DEF AsCrossHost!Next
<1>5. CASE Emptying(p)
  <2>1. PICK n \in 1 .. Len(queue.rec.stream) :
            work[p] = Drain(queue.rec, n) /\ cargo[p] = Drained(queue.rec, n)
    BY <1>5 DEF Emptying
  <2>2. AsCrossHost!DrainStation(n)
    BY <1>1, <1>2, <1>3, <1>5, <2>1, SameStore
       DEF Emptying, Rename, AsCrossHost!DrainStation, Pending
  <2> QED BY <2>2 DEF AsCrossHost!Next
<1> QED BY <1>3, <1>4, <1>5

LEMMA NextCrossHost ==
    ASSUME Serialized, JointInv, [JointNext]_joint
    PROVE  [AsCrossHost!Next]_(AsCrossHost!vars)
<1> DEFINE Seen == AsCrossHost!Next \/ UNCHANGED AsCrossHost!vars
<1>0. SerialInv /\ ChannelOK /\ Tickets
  BY DEF JointInv, JointBase
<1>1. ASSUME NEW e \in Emits, EmitDeliver(e) \/ LearnDelivered(e) \/ ChannelFails(e)
      PROVE  Seen
  BY <1>1, SeatCrossHost
<1>2. ASSUME NEW m \in flight, Lose(m) PROVE Seen
  <2>1. /\ flight' = flight \ {m} /\ queue' = queue /\ taken' = taken
        /\ UNCHANGED << serving, saved, attempts, outcome >>
    BY <1>2 DEF Lose, vars, disk, history, sender
  <2>2. Served' = Served /\ m \notin Served
    BY <1>0, <2>1 DEF Served, Listening, Tickets
  <2>3. Pending' = Pending \ {m} /\ m \in Pending /\ Pending \subseteq Message
    BY <1>0, <2>1, <2>2 DEF Pending, Served, Listening, ChannelOK
  <2> QED BY <2>1, <2>3, UnseenLoss
<1>3. ASSUME NEW p \in Procs, NEW m \in flight, Arrive(p, m) PROVE Seen
  <2>1. /\ flight' = flight \ {m} /\ serving' = [serving EXCEPT ![p] = m]
        /\ UNCHANGED << saved, attempts, outcome >>
        /\ queue' = queue /\ taken' = taken
        /\ pc[p] = "idle"
    BY <1>3 DEF Arrive, Deliver, CanStart, Begin, sender, disk, history
  <2>2. /\ serving \in [Procs -> Message \cup {NoMessage}]
        /\ ~Listening(p) /\ m # NoMessage /\ m \notin saved
    BY <1>0, <2>1, EndToEndAssumption DEF ChannelOK, Tickets
  <2>3. Served' = Served \cup {m}
    BY <2>1, <2>2 DEF Served, Listening
  <2>4. Pending' = Pending
    BY <2>1, <2>2, <2>3 DEF Pending
  <2> QED BY <2>1, <2>4, Unseen
<1>4. ASSUME NEW p \in Procs, ListenerWorks(p) PROVE Seen
  <2>1. UNCHANGED << flight, serving, saved, attempts, outcome >>
    BY <1>4 DEF ListenerWorks, channel, sender
  <2>2. queue' = queue /\ taken' = taken
    BY <1>0, <1>4, QueueStays DEF ListenerWorks, Step, Save, OpenTmp, WriteTmp, SetHasMail
  <2> QED BY <2>1, <2>2, Unseen, PendingStays
<1>5. ASSUME NEW p \in Procs, ListenerSaves(p) PROVE Seen
  BY <1>5, SaveCrossHost
<1>6. ASSUME NEW p \in Procs, ListenerExits(p) PROVE Seen
  <2>1. /\ Listening(p) /\ Hangup(p) /\ pc[p] = "receipt"
        /\ queue' = queue /\ taken' = taken
        /\ UNCHANGED << flight, saved, attempts, outcome >>
    BY <1>6 DEF ListenerExits, Receipt, disk, sender
  <2>2. Pending' = Pending
    BY <1>0, <2>1, PendingOfTheDead DEF Tickets, Pending
  <2> QED BY <2>1, <2>2, Unseen
<1>7. ASSUME NEW p \in Procs, ListenerFails(p) PROVE Seen
  <2>1. /\ Listening(p) /\ Hangup(p)
        /\ UNCHANGED << flight, saved, attempts, outcome >>
    BY <1>7 DEF ListenerFails, sender
  <2>2. queue' = queue /\ taken' = taken
    BY <1>0, <1>7, QueueStays DEF ListenerFails
  <2>3. CASE serving[p] \in saved
    <3>1. Pending' = Pending
      BY <1>0, <2>1, <2>3, PendingOfTheDead DEF Tickets, Pending
    <3> QED BY <2>1, <2>2, <3>1, Unseen
  <2>4. CASE serving[p] \notin saved
    <3>1. serving[p] \in Pending
      BY <2>1, <2>4 DEF Pending, Served
    <3> QED BY <1>0, <2>1, <2>2, <3>1, PendingOfTheDead, UnseenLoss
  <2> QED BY <2>3, <2>4
<1>8. ASSUME NEW p \in Procs,
             StationStarts(p) \/ HeartbeatTicks(p) \/ StationWorks(p) \/ StationDies(p)
      PROVE  Seen
  <2>1. UNCHANGED << flight, serving, saved, attempts, outcome, channel, sender >>
    BY <1>8 DEF StationStarts, HeartbeatTicks, StationWorks, StationDies, channel, sender
  <2>2. CASE ~Rename(p)
    <3>1. Start(p) \/ Die(p) \/ (Step(p) /\ pc[p] # "rename") \/ RenameFails(p)
      BY <1>8, <2>2 DEF StationStarts, HeartbeatTicks, StationWorks, StationDies, Start,
         Step, Save, InjectLoad, InjectFails, OpenTmp, WriteTmp, SetHasMail, ClearHasMail,
         Receipt, Render
    <3> QED BY <1>0, <2>1, <3>1, QueueStays, PendingStays, Unseen
  <2>3. CASE Rename(p)
    <3>1. ~Listening(p)
      BY <1>0, <1>8, <2>3
         DEF StationStarts, HeartbeatTicks, StationWorks, StationDies, Send, Read, DrainAll,
             Inject, CanStart, Tickets
    <3> QED BY <2>1, <2>3, <3>1, RenameCrossHost
  <2> QED BY <2>2, <2>3
<1>9. ASSUME UNCHANGED joint PROVE Seen
  <2>1. UNCHANGED << flight, serving, saved, attempts, outcome, queue, taken >>
    BY <1>9 DEF joint, vars, disk, history, channel, sender
  <2> QED BY <2>1, PendingStays, Unseen
<1>10. ASSUME JointNext PROVE Seen
  <2>1. ASSUME NEW p \in Procs, ListenerStep(p) PROVE Seen
    BY <1>4, <1>5, <1>6, <2>1 DEF ListenerStep
  <2> HIDE DEF Seen
  <2> QED BY <1>1, <1>2, <1>3, <1>7, <1>8, <1>10, <2>1 DEF JointNext
<1> QED BY <1>9, <1>10

\* With serialized verbs the file operations of the listener, wherever it dies,
\* and the station's own verbs implement the one-step remote verb of CrossHost.
THEOREM SerializedImplementsCrossHost ==
    ASSUME Serialized PROVE JointSpec => ImplementsCrossHost
<1>1. JointInv /\ [JointNext]_joint => [AsCrossHost!Next]_(AsCrossHost!vars)
  BY NextCrossHost
<1> QED
  BY <1>1, InitCrossHost, InitJointInv, NextJointInv, PTL
     DEF JointSpec, ImplementsCrossHost, AsCrossHost!Spec

-------------------------------------------------------------------------------
(***************************************************************************)
(* The signal of a first try. What the station holds of the other host is  *)
(* what listeners have saved, so the listener of the only message that     *)
(* says something finds it new, sets the marker before it exits, and the   *)
(* marker is cleared over an empty queue only.                             *)
(***************************************************************************)
JournaledIsSaved ==
    \A id \in RemoteEvents :
        queue.rec.journal[id] # "absent" <=> \E m \in saved : Content[m.emit] = id

Noticed(ev) == marker \/ RemoteEnvelope(ev) \in Range(taken)

Noticing(p) ==
    Listening(p) /\ SaidOnce(serving[p].emit) =>
        /\ pc[p] \in {"open", "write", "rename"} => fresh[p]
        /\ pc[p] = "receipt" => Noticed(Content[serving[p].emit])

Reported ==
    /\ \A m \in exits : SaidOnce(m.emit) => Noticed(Content[m.emit])
    /\ \A e \in Emits : outcome[e] = "delivered" => \E m \in exits : m.emit = e

FirstInv ==
    /\ JointInv /\ SignalInv /\ JournaledIsSaved
    /\ \A p \in Procs : Noticing(p)
    /\ Reported

\* What was said once was said once before, if it had been said at all.
LEMMA SaidBefore ==
    ASSUME JointBase, [JointNext]_joint, NEW m \in exits \cup Served, SaidOnce(m.emit)'
    PROVE  SaidOnce(m.emit)
<1>1. /\ m \in Message /\ m.emit \in Emits /\ m.attempt \in 1 .. attempts[m.emit]
      /\ attempts \in [Emits -> 0 .. MaxAttempts] /\ MaxAttempts \in Nat
  BY EndToEndAssumption
     DEF JointBase, ChannelOK, Tickets, Served, Listening, Message
<1>2. \/ attempts' = attempts
      \/ \E e \in Emits : attempts' = [attempts EXCEPT ![e] = @ + 1]
  BY DEF JointNext, joint, EmitDeliver, LearnDelivered, ChannelFails, Lose, Arrive,
         ListenerStep, ListenerWorks, ListenerSaves, ListenerExits, ListenerFails,
         StationStarts, HeartbeatTicks, StationWorks, StationDies, sender
<1>3. \A x \in Emits : attempts[x] \in Nat /\ attempts[x] <= attempts'[x]
  BY <1>1, <1>2
<1> QED BY <1>1, <1>3 DEF SaidOnce

\* What is said once and still under way, no listener has saved.
LEMMA SaidOnceIsNew ==
    ASSUME JointBase, NEW m \in flight, SaidOnce(m.emit)
    PROVE  \A x \in saved : Content[x.emit] # Content[m.emit]
<1> SUFFICES ASSUME NEW x \in saved, Content[x.emit] = Content[m.emit] PROVE FALSE
  OBVIOUS
<1>1. /\ m \in Message /\ x \in Message /\ m # x
      /\ m.attempt \in 1 .. attempts[m.emit] /\ x.attempt \in 1 .. attempts[x.emit]
      /\ attempts[m.emit] = 1
  BY DEF JointBase, ChannelOK, Tickets, SaidOnce
<1>2. CASE x.emit = m.emit
  BY <1>1, <1>2 DEF Message
<1>3. CASE x.emit # m.emit
  BY <1>1, <1>3 DEF Message, SaidOnce
<1> QED BY <1>2, <1>3

\* What the journal holds of another host is pending or taken.
LEMMA JournaledIsKnown ==
    ASSUME SerialInv, NEW id \in RemoteEvents, queue.rec.journal[id] # "absent"
    PROVE  RemoteEnvelope(id) \in Known
<1>1. PICK env \in Known : env.id = id
  BY IdsAssumption DEF SerialInv, Ledger
<1>2. env.event = id
  BY <1>1 DEF SerialInv, Ledger
<1>3. queue.rec.stream \in Seq(Envelope) /\ taken \in Seq(Envelope)
  BY DEF SerialInv, Base, TypeOK, File, Store
<1>4. env \in Envelope
  BY <1>3, RangeOfSeq DEF Known
<1> QED BY <1>1, <1>2, <1>4 DEF Envelope, RemoteEnvelope

\* A marker is cleared over an empty queue: what it stood for is taken.
LEMMA ClearingIsNoticed ==
    ASSUME SerialInv, NEW p \in Procs, Course(p), pc[p] = "clear",
           NEW id \in RemoteEvents, queue.rec.journal[id] # "absent"
    PROVE  RemoteEnvelope(id) \in Range(taken)
<1>1. queue.rec.stream = << >>
  BY DEF Course, IsEmpty
<1>2. Range(queue.rec.stream) = {}
  BY <1>1 DEF Range
<1> QED BY <1>2, JournaledIsKnown DEF Known

\* What a save of the queue does to what is journaled.
LEMMA JournaledLasts ==
    ASSUME JointInv, JournaledIsSaved, NEW p \in Procs, Rename(p),
           \/ Listening(p) /\ saved' = saved \cup {serving[p]}
           \/ ~Listening(p) /\ saved' = saved
    PROVE  JournaledIsSaved'
<1>1. /\ queue.rec \in Store /\ Coherent(queue.rec) /\ pc[p] = "rename"
      /\ queue.rec.journal \in Journal /\ Len(queue.rec.stream) \in Nat
  BY DEF JointInv, SerialInv, Base, TypeOK, RecordsCoherent, File, Store, Rename
<1>2. queue'.rec = work[p] /\ (Sending(p) \/ Accepting(p) \/ Emptying(p))
  BY <1>1 DEF JointInv, Purpose, SerialInv, Files, Full, Rename
<1>3. Listening(p) <=> verb[p] = "deliver"
  BY DEF JointInv, JointBase, ChannelOK
<1>4. CASE Sending(p)
  <2>1. PICK ev \in LocalEvents : work[p] = Enqueue(queue.rec, ev)
    BY <1>4 DEF Sending
  <2>2. /\ queue'.rec.journal = Prepare(queue.rec.journal, queue.rec.next_seq)
        /\ queue.rec.next_seq \in SeqIds
    BY <1>1, <1>2, <1>4, <2>1, EnqueueCoherent, IdsAssumption
       DEF Sending, Events, SeqIds, Store
  <2>3. \A id \in RemoteEvents : queue'.rec.journal[id] = queue.rec.journal[id]
    BY <1>1, <2>2, IdsAssumption DEF Prepare, Journal
  <2>4. saved' = saved
    BY <1>3, <1>4 DEF Sending
  <2> QED BY <2>3, <2>4 DEF JournaledIsSaved
<1>5. CASE Accepting(p)
  <2> DEFINE c == Content[serving[p].emit]
  <2>1. saved' = saved \cup {serving[p]}
    BY <1>3, <1>5 DEF Accepting
  <2>2. c \in RemoteEvents
    BY <1>3, <1>5, EndToEndAssumption
       DEF Accepting, JointInv, JointBase, ChannelOK, Listening, Message
  <2>3. RemoteEnvelope(c) \in Envelope /\ RemoteEnvelope(c).id = c
    BY <2>2, IdsAssumption DEF RemoteEnvelope, Envelope, Events
  <2>4. \A id \in RemoteEvents :
            queue'.rec.journal[id] # "absent"
                <=> queue.rec.journal[id] # "absent" \/ id = c
    BY <1>1, <1>2, <1>5, <2>3, EnqueueWithIdJournal, IdsAssumption DEF Accepting
  <2> QED BY <2>1, <2>4 DEF JournaledIsSaved
<1>6. CASE Emptying(p)
  <2>1. PICK n \in 1 .. Len(queue.rec.stream) : work[p] = Drain(queue.rec, n)
    BY <1>6 DEF Emptying
  <2>2. \A id \in RemoteEvents :
            queue'.rec.journal[id] # "absent" <=> queue.rec.journal[id] # "absent"
    BY <1>1, <1>2, <2>1, DrainJournal, IdsAssumption
  <2>3. saved' = saved
    BY <1>3, <1>6 DEF Emptying, Readers
  <2> QED BY <2>2, <2>3 DEF JournaledIsSaved
<1> QED BY <1>2, <1>4, <1>5, <1>6

\* When a step keeps what FirstInv says of listeners and reports: what was
\* noticed stays so, a listener that goes on does so under its message, and a
\* new one finds news.
GoesOn(p) ==
    /\ Listening(p) /\ serving'[p] = serving[p]
    /\ fresh'[p] = fresh[p]
    /\ pc'[p] \in {"open", "write", "rename"} => pc[p] \in {"open", "write", "rename"}
    /\ pc'[p] = "receipt" =>
        \/ pc[p] = "receipt"
        \/ marker'
        \/ pc[p] = "rename" /\ ~fresh[p]

FindsNews(p) ==
    /\ pc'[p] = "open"
    /\ SaidOnce(serving[p].emit)' => fresh'[p]

Lasts ==
    /\ JournaledIsSaved'
    /\ \A id \in RemoteEvents :
            queue.rec.journal[id] # "absent" /\ Noticed(id) => Noticed(id)'
    /\ \A p \in Procs : Listening(p)' => GoesOn(p) \/ FindsNews(p)
    /\ exits \subseteq exits'
    /\ \A m \in exits' : m \in exits
            \/ \E p \in Procs : Listening(p) /\ pc[p] = "receipt" /\ m = serving[p]
    /\ \A e \in Emits : outcome'[e] = "delivered" =>
            outcome[e] = "delivered" \/ \E m \in exits : m.emit = e

LEMMA FirstsLast ==
    ASSUME FirstInv, [JointNext]_joint, Lasts
    PROVE  JournaledIsSaved' /\ Reported' /\ \A p \in Procs : Noticing(p)'
<1>0. JointBase /\ ChannelOK /\ Tickets /\ JournaledIsSaved /\ Reported
  BY DEF FirstInv, JointInv, JointBase
<1>1. \A m \in saved : /\ Content[m.emit] \in RemoteEvents
                       /\ queue.rec.journal[Content[m.emit]] # "absent"
  BY <1>0, EndToEndAssumption DEF JournaledIsSaved, ChannelOK, Message
<1>2. \A m \in saved : Noticed(Content[m.emit]) => Noticed(Content[m.emit])'
  BY <1>1 DEF Lasts
<1>3. ASSUME NEW p \in Procs, GoesOn(p) PROVE Noticing(p)'
  <2>1. serving[p] \in exits \cup Served
    BY <1>3 DEF GoesOn, Served
  <2>2. SUFFICES ASSUME SaidOnce(serving[p].emit)' PROVE Noticing(p)'
    BY DEF Noticing
  <2>3. SaidOnce(serving[p].emit)
    <3>1. PICK m \in exits \cup Served : m = serving[p]
      BY <2>1
    <3>2. SaidOnce(m.emit)'
      BY <1>3, <2>2, <3>1 DEF GoesOn, SaidOnce
    <3> QED BY <1>0, <3>1, <3>2, SaidBefore
  <2>4. Noticing(p) /\ Listening(p) /\ serving'[p] = serving[p]
    BY <1>3 DEF GoesOn, FirstInv
  <2>5. pc'[p] \in {"open", "write", "rename"} => fresh'[p]
    BY <1>3, <2>3, <2>4 DEF GoesOn, Noticing
  <2>6. CASE pc'[p] = "receipt" /\ pc[p] = "receipt"
    <3>1. serving[p] \in saved
      BY <1>0, <2>4, <2>6 DEF Tickets
    <3>2. Noticed(Content[serving[p].emit])
      BY <2>3, <2>4, <2>6 DEF Noticing
    <3>3. PICK m \in saved : m = serving[p]
      BY <3>1
    <3>4. Noticed(Content[m.emit])'
      BY <1>2, <3>2, <3>3
    <3>5. m = serving'[p]
      BY <2>4, <3>3
    <3> QED BY <2>6, <3>4, <3>5 DEF Noticing, Noticed
  <2>7. CASE pc'[p] = "receipt" /\ marker'
    BY <2>7 DEF Noticing, Noticed
  <2>8. CASE pc[p] = "rename" /\ ~fresh[p]
    BY <2>3, <2>4, <2>8 DEF Noticing
  <2>9. CASE pc'[p] # "receipt"
    BY <2>5, <2>9 DEF Noticing
  <2> QED BY <1>3, <2>6, <2>7, <2>8, <2>9 DEF GoesOn
<1>4. \A p \in Procs : FindsNews(p) => Noticing(p)'
  BY DEF FindsNews, Noticing
<1>5. \A p \in Procs : Noticing(p)'
  BY <1>3, <1>4 DEF Noticing, Lasts
<1>6. ASSUME NEW m \in exits', SaidOnce(m.emit)' PROVE Noticed(Content[m.emit])'
  <2>1. m \in exits \cup Served /\ m \in saved
    BY <1>0, <1>6 DEF Lasts, Served, ChannelOK, Tickets
  <2>2. SaidOnce(m.emit)
    BY <1>0, <1>6, <2>1, SaidBefore
  <2>3. CASE m \in exits
    BY <1>0, <1>2, <2>1, <2>2, <2>3 DEF Reported
  <2>4. CASE \E p \in Procs : Listening(p) /\ pc[p] = "receipt" /\ m = serving[p]
    BY <1>2, <2>1, <2>2, <2>4 DEF FirstInv, Noticing
  <2> QED BY <1>6, <2>3, <2>4 DEF Lasts
<1>7. \A e \in Emits : outcome'[e] = "delivered" => \E m \in exits' : m.emit = e
  BY <1>0 DEF Lasts, Reported
<1>8. Reported'
  BY <1>6, <1>7, EndToEndAssumption DEF Reported
<1> QED BY <1>5, <1>8 DEF Lasts

\* Nothing changes for the processes that are not named, nor for anyone when
\* none is.
LEMMA OthersGoOn ==
    ASSUME ChannelOK, NEW p \in Procs, NEW label, Goto(p, label),
           pc \in [Procs -> Labels],
           \A q \in Procs : q # p => serving'[q] = serving[q] /\ fresh'[q] = fresh[q]
    PROVE  \A q \in Procs : q # p /\ Listening(q)' => GoesOn(q)
BY DEF Goto, GoesOn, Listening

\* A step that touches neither the queue nor the reports, and no marker but to
\* set it.
LEMMA QuietLasts ==
    ASSUME FirstInv, UNCHANGED << queue, taken, saved >>, marker => marker'
    PROVE  /\ JournaledIsSaved'
           /\ \A id \in RemoteEvents : Noticed(id) => Noticed(id)'
BY DEF FirstInv, JournaledIsSaved, Noticed

\* The steps of the seat and of the channel.
LEMMA ChannelLasts ==
    ASSUME FirstInv,
           UNCHANGED << vars, serving, exits, saved >>,
           \A e \in Emits : outcome'[e] = "delivered" =>
                outcome[e] = "delivered" \/ \E m \in exits : m.emit = e
    PROVE  Lasts
<1>1. UNCHANGED << queue, taken, saved, marker, pc, fresh, serving, exits >>
  BY DEF vars, disk, procs, history
<1>2. \A q \in Procs : Listening(q)' => GoesOn(q)
  BY <1>1 DEF GoesOn, Listening
<1>3. JournaledIsSaved' /\ \A id \in RemoteEvents : Noticed(id) => Noticed(id)'
  BY <1>1, QuietLasts
<1> QED BY <1>1, <1>2, <1>3 DEF Lasts

LEMMA SeatLasts ==
    ASSUME FirstInv, NEW e \in Emits,
           EmitDeliver(e) \/ LearnDelivered(e) \/ ChannelFails(e)
    PROVE  Lasts
<1>1. ChannelOK
  BY DEF FirstInv, JointInv, JointBase
<1>2. UNCHANGED << vars, serving, exits, saved >>
  BY DEF EmitDeliver, LearnDelivered, ChannelFails, channel
<1>3. outcome \in [Emits -> {"none", "waiting", "delivered", "failed"}]
  BY <1>1 DEF ChannelOK
<1>4. CASE LearnDelivered(e)
  <2>1. Latest(e) \in exits /\ Latest(e).emit = e
    BY <1>4 DEF LearnDelivered, Latest
  <2>2. \A x \in Emits : x # e => outcome'[x] = outcome[x]
    BY <1>3, <1>4 DEF LearnDelivered
  <2>3. \A x \in Emits : outcome'[x] = "delivered" =>
            outcome[x] = "delivered" \/ \E m \in exits : m.emit = x
    BY <2>1, <2>2
  <2> QED BY <1>2, <2>3, ChannelLasts
<1>5. CASE EmitDeliver(e) \/ ChannelFails(e)
  <2>1. \A x \in Emits : outcome'[x] = "delivered" => outcome[x] = "delivered"
    BY <1>3, <1>5 DEF EmitDeliver, ChannelFails
  <2> QED BY <1>2, <2>1, ChannelLasts
<1> QED BY <1>4, <1>5

\* A listener that starts on what is said once has not seen it before.
LEMMA ArriveLasts ==
    ASSUME FirstInv, NEW p \in Procs, NEW m \in flight, Arrive(p, m)
    PROVE  Lasts
<1> DEFINE c == Content[m.emit]
<1>1. /\ UNCHANGED << queue, taken, saved, marker, attempts, outcome, exits >>
      /\ serving' = [serving EXCEPT ![p] = m]
      /\ fresh' = [fresh EXCEPT ![p] = Appends(queue.rec, RemoteEnvelope(c))]
      /\ Goto(p, "open")
  BY DEF Arrive, Deliver, Begin, disk, history, sender
<1>2. /\ JointBase /\ ChannelOK /\ JournaledIsSaved /\ queue.rec \in Store
      /\ pc \in [Procs -> Labels] /\ fresh \in [Procs -> BOOLEAN]
      /\ serving \in [Procs -> Message \cup {NoMessage}]
  BY DEF FirstInv, JointInv, JointBase, ChannelOK, Base, TypeOK, File
<1>3. c \in RemoteEvents
  BY <1>2, EndToEndAssumption DEF ChannelOK, Message
<1>4. ASSUME SaidOnce(m.emit) PROVE Appends(queue.rec, RemoteEnvelope(c))
  <2>1. queue.rec.journal[c] = "absent"
    BY <1>2, <1>3, <1>4, SaidOnceIsNew DEF JournaledIsSaved
  <2> QED BY <2>1 DEF Appends, Prepares, RemoteEnvelope
<1>5. serving'[p] = m /\ pc'[p] = "open" /\ fresh'[p] = Appends(queue.rec, RemoteEnvelope(c))
  BY <1>1, <1>2 DEF Goto
<1>6. SaidOnce(m.emit)' => SaidOnce(m.emit)
  BY <1>1 DEF SaidOnce
<1>7. FindsNews(p)
  <2>1. ASSUME SaidOnce(serving[p].emit)' PROVE fresh'[p]
    <3>1. SaidOnce(m.emit)'
      BY <1>5, <2>1 DEF SaidOnce
    <3> QED BY <1>4, <1>5, <1>6, <3>1
  <2> QED BY <1>5, <2>1 DEF FindsNews
<1>8. \A q \in Procs : q # p /\ Listening(q)' => GoesOn(q)
  <2>1. \A q \in Procs : q # p => serving'[q] = serving[q] /\ fresh'[q] = fresh[q]
    BY <1>1, <1>2
  <2> QED BY <1>1, <1>2, <2>1, OthersGoOn
<1>9. JournaledIsSaved' /\ \A id \in RemoteEvents : Noticed(id) => Noticed(id)'
  BY <1>1, QuietLasts
<1> QED BY <1>1, <1>7, <1>8, <1>9 DEF Lasts

\* The listener's own operations.
LEMMA WorkLasts ==
    ASSUME FirstInv, NEW p \in Procs, ListenerWorks(p)
    PROVE  Lasts
<1>0. /\ SerialInv /\ ChannelOK /\ pc \in [Procs -> Labels]
  BY DEF FirstInv, JointInv, JointBase, Base, TypeOK
<1>1. /\ UNCHANGED << serving, exits, outcome, saved, fresh >>
      /\ Listening(p)
  BY DEF ListenerWorks, OpenTmp, WriteTmp, SetHasMail, channel, sender
<1>2. queue' = queue /\ taken' = taken
  BY <1>0, QueueStays DEF ListenerWorks, Step, Save, OpenTmp, WriteTmp, SetHasMail
<1>3. marker => marker'
  BY DEF ListenerWorks, OpenTmp, WriteTmp, SetHasMail
<1>4. \E label : Goto(p, label)
  BY DEF ListenerWorks, OpenTmp, WriteTmp, SetHasMail
<1>5. \A q \in Procs : q # p /\ Listening(q)' => GoesOn(q)
  BY <1>0, <1>1, <1>4, OthersGoOn
<1>6. GoesOn(p)
  <2>1. CASE OpenTmp(p) \/ WriteTmp(p)
    <3>1. pc[p] \in {"open", "write"} /\ pc'[p] \in {"write", "rename"}
      BY <1>0, <2>1 DEF OpenTmp, WriteTmp, Goto
    <3> QED BY <1>1, <3>1 DEF GoesOn
  <2>2. CASE SetHasMail(p)
    <3>1. pc'[p] = "receipt" /\ marker'
      BY <1>0, <2>2 DEF SetHasMail, Goto
    <3> QED BY <1>1, <3>1 DEF GoesOn
  <2> QED BY <2>1, <2>2 DEF ListenerWorks
<1>7. JournaledIsSaved' /\ \A id \in RemoteEvents : Noticed(id) => Noticed(id)'
  BY <1>1, <1>2, <1>3, QuietLasts
<1> QED BY <1>1, <1>5, <1>6, <1>7 DEF Lasts

\* Its save: what it brought is journaled now, and its marker is still to come
\* if it was new.
LEMMA SaveLasts ==
    ASSUME FirstInv, NEW p \in Procs, ListenerSaves(p)
    PROVE  Lasts
<1>0. /\ JointInv /\ ChannelOK /\ pc \in [Procs -> Labels] /\ fresh \in [Procs -> BOOLEAN]
      /\ verb[p] = "deliver"
  BY DEF ListenerSaves, FirstInv, JointInv, JointBase, ChannelOK, Base, TypeOK
<1>1. /\ UNCHANGED << serving, exits, outcome, fresh, marker >>
      /\ Listening(p) /\ Rename(p) /\ saved' = saved \cup {serving[p]}
      /\ pc[p] = "rename" /\ Goto(p, AfterSave(p))
  BY DEF ListenerSaves, Rename, channel, sender
<1>2. taken' = taken
  BY <1>0, <1>1 DEF Rename, Readers
<1>3. \A q \in Procs : q # p /\ Listening(q)' => GoesOn(q)
  BY <1>0, <1>1, OthersGoOn
<1>4. pc'[p] = AfterSave(p)
  BY <1>0, <1>1 DEF Goto
<1>5. AfterSave(p) = IF fresh[p] THEN "mark" ELSE "receipt"
  BY <1>0 DEF AfterSave, Publishers
<1>6. pc'[p] \notin {"open", "write", "rename"}
  BY <1>4, <1>5
<1>7. pc'[p] = "receipt" => ~fresh[p]
  BY <1>4, <1>5
<1>8. GoesOn(p)
  BY <1>1, <1>6, <1>7 DEF GoesOn
<1>9. JournaledIsSaved'
  BY <1>0, <1>1, JournaledLasts DEF FirstInv
<1>10. \A id \in RemoteEvents : Noticed(id) => Noticed(id)'
  BY <1>1, <1>2 DEF Noticed
<1> QED BY <1>1, <1>3, <1>8, <1>9, <1>10 DEF Lasts

\* The end of a listener, in success or not.
LEMMA HangupLasts ==
    ASSUME FirstInv, NEW p \in Procs, Listening(p), Hangup(p), End(p),
           UNCHANGED << queue, taken, marker, outcome, saved >>,
           exits' = exits \/ (exits' = exits \cup {serving[p]} /\ pc[p] = "receipt")
    PROVE  Lasts
<1>0. /\ ChannelOK /\ pc \in [Procs -> Labels] /\ fresh \in [Procs -> BOOLEAN]
      /\ serving \in [Procs -> Message \cup {NoMessage}]
  BY DEF FirstInv, JointInv, JointBase, ChannelOK, Base, TypeOK
<1>1. \A q \in Procs : q # p => serving'[q] = serving[q] /\ fresh'[q] = fresh[q]
  BY <1>0 DEF Hangup, End
<1>2. Goto(p, "idle") /\ ~Listening(p)'
  BY <1>0 DEF Hangup, End, Listening
<1>3. \A q \in Procs : Listening(q)' => GoesOn(q)
  BY <1>0, <1>1, <1>2, OthersGoOn
<1>4. JournaledIsSaved' /\ \A id \in RemoteEvents : Noticed(id) => Noticed(id)'
  BY QuietLasts
<1> QED BY <1>3, <1>4 DEF Lasts

LEMMA ExitLasts ==
    ASSUME FirstInv, NEW p \in Procs, ListenerExits(p) \/ ListenerFails(p)
    PROVE  Lasts
<1>0. SerialInv
  BY DEF FirstInv, JointInv
<1>1. CASE ListenerExits(p)
  BY <1>1, HangupLasts DEF ListenerExits, Receipt, disk, sender
<1>2. CASE ListenerFails(p)
  <2>1. queue' = queue /\ taken' = taken
    BY <1>0, <1>2, QueueStays DEF ListenerFails
  <2>2. End(p) /\ marker' = marker
    BY <1>2 DEF ListenerFails, Die, RenameFails, disk
  <2> QED BY <1>2, <2>1, <2>2, HangupLasts DEF ListenerFails, sender
<1> QED BY <1>1, <1>2

\* The station's own verbs. A process that serves no message goes on with none.
LEMMA OwnLasts ==
    ASSUME FirstInv, NEW p \in Procs, NEW label, Goto(p, label), ~Listening(p),
           UNCHANGED << channel, sender, saved >>,
           \A q \in Procs : q # p => fresh'[q] = fresh[q],
           JournaledIsSaved',
           \A id \in RemoteEvents :
                queue.rec.journal[id] # "absent" /\ Noticed(id) => Noticed(id)'
    PROVE  Lasts
<1>1. ChannelOK /\ pc \in [Procs -> Labels]
  BY DEF FirstInv, JointInv, JointBase, Base, TypeOK
<1>2. UNCHANGED << serving, exits, outcome >> /\ ~Listening(p)'
  BY DEF channel, sender, Listening
<1>3. \A q \in Procs : Listening(q)' => GoesOn(q)
  BY <1>1, <1>2, OthersGoOn
<1> QED BY <1>2, <1>3 DEF Lasts

LEMMA StartLasts ==
    ASSUME FirstInv, NEW p \in Procs, StationStarts(p) \/ HeartbeatTicks(p)
    PROVE  Lasts
<1>0. /\ SerialInv /\ Tickets /\ pc \in [Procs -> Labels] /\ fresh \in [Procs -> BOOLEAN]
  BY DEF FirstInv, JointInv, JointBase, Base, TypeOK
<1>1. CanStart(p) /\ Start(p) /\ UNCHANGED << channel, sender, saved >>
  BY DEF StationStarts, HeartbeatTicks, Start, Send, Read, DrainAll, Inject
<1>2. ~Listening(p)
  BY <1>0, <1>1 DEF CanStart, Tickets
<1>3. /\ UNCHANGED << queue, taken, marker >>
      /\ \E v, label, s, envs, new : Begin(p, v, label, s, envs, new)
  BY DEF StationStarts, HeartbeatTicks, Send, Read, DrainAll, Inject, LoadToDrain,
         Begin, disk, history
<1>4. PICK label : Goto(p, label)
  BY <1>3 DEF Begin
<1>5. \A q \in Procs : q # p => fresh'[q] = fresh[q]
  BY <1>0, <1>3 DEF Begin
<1>6. JournaledIsSaved' /\ \A id \in RemoteEvents : Noticed(id) => Noticed(id)'
  BY <1>1, <1>3, QuietLasts
<1> QED BY <1>1, <1>2, <1>4, <1>5, <1>6, OwnLasts

LEMMA StationLasts ==
    ASSUME FirstInv, NEW p \in Procs, StationWorks(p) \/ StationDies(p)
    PROVE  Lasts
<1>0. /\ JointInv /\ SerialInv /\ fresh \in [Procs -> BOOLEAN]
      /\ taken \in Seq(Envelope) /\ cargo[p] \in Seq(Envelope)
  BY DEF FirstInv, JointInv, JointBase, Base, TypeOK
<1>1. ~Listening(p) /\ UNCHANGED << channel, sender, saved >> /\ (Step(p) \/ Die(p))
  BY DEF StationWorks, StationDies
<1>2. /\ \E label : Goto(p, label)
      /\ \A q \in Procs : q # p => fresh'[q] = fresh[q]
  BY <1>0, <1>1
     DEF Step, Save, InjectLoad, LoadToDrain, Begin, InjectFails, OpenTmp, WriteTmp,
         Rename, RenameFails, SetHasMail, ClearHasMail, Receipt, Render, Die, End
<1> DEFINE Kept == /\ JournaledIsSaved'
                   /\ \A id \in RemoteEvents :
                        queue.rec.journal[id] # "absent" /\ Noticed(id) => Noticed(id)'
<1>3. ASSUME Rename(p) PROVE Kept
  <2>1. JournaledIsSaved'
    BY <1>0, <1>1, <1>3, JournaledLasts DEF FirstInv
  <2>2. Range(taken) \subseteq Range(taken')
    BY <1>0, <1>3, RangeConcatenation DEF Rename
  <2>3. marker' = marker
    BY <1>3 DEF Rename
  <2>4. \A id \in RemoteEvents : Noticed(id) => Noticed(id)'
    BY <2>2, <2>3 DEF Noticed
  <2> QED BY <2>1, <2>4
<1>4. ASSUME ~Rename(p) PROVE Kept
  <2>1. queue' = queue /\ taken' = taken /\ saved' = saved
    BY <1>0, <1>1, <1>4, QueueStays
       DEF Step, Save, InjectLoad, InjectFails, OpenTmp, WriteTmp, SetHasMail,
           ClearHasMail, Receipt, Render
  <2>2. JournaledIsSaved'
    BY <2>1 DEF FirstInv, JournaledIsSaved
  <2>3. CASE ClearHasMail(p)
    <3>1. \A id \in RemoteEvents : queue.rec.journal[id] # "absent"
            => RemoteEnvelope(id) \in Range(taken)
      BY <1>0, <2>3, ClearingIsNoticed DEF FirstInv, SignalInv, ClearHasMail
    <3>2. \A id \in RemoteEvents : queue.rec.journal[id] # "absent" => Noticed(id)'
      BY <2>1, <3>1 DEF Noticed
    <3> QED BY <2>2, <3>2
  <2>4. CASE ~ClearHasMail(p)
    <3>1. marker => marker'
      BY <1>1, <1>4, <2>4
         DEF Step, Save, InjectLoad, LoadToDrain, Begin, InjectFails, OpenTmp, WriteTmp,
             RenameFails, SetHasMail, Receipt, Render, Die, disk
    <3>2. \A id \in RemoteEvents : Noticed(id) => Noticed(id)'
      BY <2>1, <3>1, QuietLasts
    <3> QED BY <2>2, <3>2
  <2> QED BY <2>3, <2>4
<1>5. Kept
  BY <1>3, <1>4
<1> QED BY <1>1, <1>2, <1>5, OwnLasts

LEMMA NextFirst == Serialized /\ FirstInv /\ [JointNext]_joint => FirstInv'
<1> SUFFICES ASSUME Serialized, FirstInv, [JointNext]_joint PROVE FirstInv'
  OBVIOUS
<1>1. JointInv'
  BY NextJointInv DEF FirstInv
<1>2. SignalInv'
  BY JointStation, NextSignal DEF FirstInv, JointInv, JointBase
<1>3. ASSUME NEW e \in Emits, EmitDeliver(e) \/ LearnDelivered(e) \/ ChannelFails(e)
      PROVE  Lasts
  BY <1>3, SeatLasts
<1>4. ASSUME NEW m \in flight, Lose(m) PROVE Lasts
  BY <1>4, ChannelLasts DEF Lose, sender
<1>5. ASSUME NEW p \in Procs, NEW m \in flight, Arrive(p, m) PROVE Lasts
  BY <1>5, ArriveLasts
<1>6. ASSUME NEW p \in Procs, ListenerStep(p) \/ ListenerFails(p) PROVE Lasts
  BY <1>6, WorkLasts, SaveLasts, ExitLasts DEF ListenerStep
<1>7. ASSUME NEW p \in Procs,
             StationStarts(p) \/ HeartbeatTicks(p) \/ StationWorks(p) \/ StationDies(p)
      PROVE  Lasts
  BY <1>7, StartLasts, StationLasts
<1>8. ASSUME UNCHANGED joint PROVE Lasts
  BY <1>8, ChannelLasts DEF joint, channel, sender
<1>9. Lasts
  <2> HIDE DEF Lasts
  <2> QED BY <1>3, <1>4, <1>5, <1>6, <1>7, <1>8 DEF JointNext
<1> QED BY <1>1, <1>2, <1>9, FirstsLast DEF FirstInv

LEMMA InitFirst == JointInit => FirstInv
<1> SUFFICES ASSUME JointInit PROVE FirstInv
  OBVIOUS
<1>1. JointInv /\ SignalInv
  BY InitJointInv, InitSignal DEF JointInit
<1>2. \A id \in RemoteEvents : queue.rec.journal[id] = "absent"
  BY IdsAssumption DEF JointInit, Init, Blank, EmptyStore, EmptyJournal
<1>3. JournaledIsSaved
  BY <1>2 DEF JointInit, JournaledIsSaved
<1>4. Reported /\ \A p \in Procs : Noticing(p)
  BY DEF JointInit, Reported, Noticing, Listening
<1> QED BY <1>1, <1>3, <1>4 DEF FirstInv

\* With serialized verbs, whatever the channel does and whichever listener or
\* verb dies at whichever file operation, an event that was emitted once and
\* reported delivered is behind a marker, or taken.
THEOREM SerializedFirstTries ==
    ASSUME Serialized PROVE JointSpec => []FirstTryIsSignalled
<1>1. FirstInv => FirstTryIsSignalled
  <2> SUFFICES ASSUME FirstInv, NEW e \in Emits, outcome[e] = "delivered", SaidOnce(e)
               PROVE  Noticed(Content[e])
    BY DEF FirstTryIsSignalled, Noticed
  <2>1. PICK m \in exits : m.emit = e
    BY DEF FirstInv, Reported
  <2> QED BY <2>1 DEF FirstInv, Reported
<1>2. FirstInv /\ [JointNext]_joint => FirstInv'
  BY NextFirst
<1> QED BY <1>1, <1>2, InitFirst, PTL DEF JointSpec

\* With serialized verbs, what a seat was told is delivered is pending in the
\* station's queue or taken from it, once, however often it was sent.
DeliveredIsHeld ==
    \A e \in Emits :
        outcome[e] = "delivered" => RemoteEnvelope(Content[e]) \in Known

THEOREM SerializedDeliveries ==
    ASSUME Serialized PROVE JointSpec => []DeliveredIsHeld
<1>1. FirstInv => DeliveredIsHeld
  <2> SUFFICES ASSUME FirstInv, NEW e \in Emits, outcome[e] = "delivered"
               PROVE  RemoteEnvelope(Content[e]) \in Known
    BY DEF DeliveredIsHeld
  <2>1. PICK m \in exits : m.emit = e
    BY DEF FirstInv, Reported
  <2>2. m \in saved /\ Content[e] \in RemoteEvents
    BY <2>1, EndToEndAssumption DEF FirstInv, JointInv, JointBase, ChannelOK
  <2>3. queue.rec.journal[Content[e]] # "absent"
    BY <2>1, <2>2 DEF FirstInv, JournaledIsSaved
  <2> QED BY <2>2, <2>3, JournaledIsKnown DEF FirstInv, JointInv
<1>2. FirstInv /\ [JointNext]_joint => FirstInv'
  BY NextFirst
<1> QED BY <1>1, <1>2, InitFirst, PTL DEF JointSpec

(***************************************************************************)
(* The two refinements composed. CrossHost implements the mailbox, so what *)
(* implements CrossHost does; the hypothesis of that theorem, that no two  *)
(* contents share an effect id, holds as this module has ids for contents. *)
(***************************************************************************)
Hosts ==
    INSTANCE CrossHostProofs WITH
        StableId <- [c \in RemoteEvents |-> c],
        Versions <- {1},
        store    <- queue.rec,
        running  <- [h \in {"sender", "receiver"} |-> 1],
        flight   <- Stamped(flight \cup (Served \ saved)),
        answers  <- Stamped(saved) \X {"accepted"}

LEMMA HostsImplementMailbox == Hosts!Spec => Hosts!ImplementsMailbox
<1>1. Hosts!NoCollision
  BY EndToEndAssumption DEF Hosts!NoCollision
<1>2. /\ [c \in RemoteEvents |-> c] \in [RemoteEvents -> RemoteEvents]
      /\ Hosts!SeqIds = SeqIds
  BY DEF Hosts!SeqIds, SeqIds
<1> QED
  BY <1>1, <1>2, EndToEndAssumption, IdsAssumption, Hosts!CrossHostImplementsMailbox

\* The two instances of CrossHost, of the module and of its proofs, are one.
LEMMA SameHosts ==
    /\ AsCrossHost!Init => Hosts!Init
    /\ [AsCrossHost!Next]_(AsCrossHost!vars) => [Hosts!Next]_(Hosts!vars)
<1>1. AsCrossHost!Init => Hosts!Init
  BY DEF AsCrossHost!Init, AsCrossHost!EmptyStore, AsCrossHost!EmptyJournal,
         Hosts!Init, Hosts!EmptyStore, Hosts!EmptyJournal
<1>2. UNCHANGED AsCrossHost!vars => UNCHANGED Hosts!vars
  BY DEF AsCrossHost!vars, AsCrossHost!station, Hosts!vars, Hosts!station
<1>3. /\ \A e : AsCrossHost!EmitRender(e) => Hosts!EmitRender(e)
      /\ \A e : AsCrossHost!EmitDeliver(e) => Hosts!EmitDeliver(e)
  BY DEF AsCrossHost!EmitRender, AsCrossHost!EmitDeliver, AsCrossHost!MayEmit,
         AsCrossHost!station,
         Hosts!EmitRender, Hosts!EmitDeliver, Hosts!MayEmit, Hosts!station
<1>4. /\ \A e : AsCrossHost!LearnDelivered(e) => Hosts!LearnDelivered(e)
      /\ \A e : AsCrossHost!LearnRefused(e) => Hosts!LearnRefused(e)
      /\ \A e : AsCrossHost!ChannelFails(e) => Hosts!ChannelFails(e)
  BY DEF AsCrossHost!LearnDelivered, AsCrossHost!LearnRefused,
         AsCrossHost!ChannelFails, AsCrossHost!Latest, AsCrossHost!station,
         Hosts!LearnDelivered, Hosts!LearnRefused,
         Hosts!ChannelFails, Hosts!Latest, Hosts!station
<1>5. \A s, env : AsCrossHost!EnqueueWithId(s, env) = Hosts!EnqueueWithId(s, env)
  BY DEF AsCrossHost!EnqueueWithId, AsCrossHost!Appends, AsCrossHost!Prepares,
         AsCrossHost!Prepare,
         Hosts!EnqueueWithId, Hosts!Appends, Hosts!Prepares, Hosts!Prepare
<1>6. /\ \A m : AsCrossHost!Lose(m) => Hosts!Lose(m)
      /\ \A m : AsCrossHost!Accept(m) => Hosts!Accept(m)
  BY <1>5 DEF AsCrossHost!Lose, AsCrossHost!Accept, AsCrossHost!EnvelopeOf,
              AsCrossHost!station,
              Hosts!Lose, Hosts!Accept, Hosts!EnvelopeOf, Hosts!station
<1>7. \A h, v : AsCrossHost!Upgrade(h, v) => Hosts!Upgrade(h, v)
  BY DEF AsCrossHost!Upgrade, AsCrossHost!station, Hosts!Upgrade, Hosts!station
<1>8. \A ev : AsCrossHost!SendLocally(ev) => Hosts!SendLocally(ev)
  BY <1>5 DEF AsCrossHost!SendLocally, AsCrossHost!Enqueue, AsCrossHost!NextEnvelope,
              Hosts!SendLocally, Hosts!Enqueue, Hosts!NextEnvelope
<1>9. \A n : AsCrossHost!DrainStation(n) => Hosts!DrainStation(n)
  <2>1. \A s, n : /\ AsCrossHost!DrainCount(s, n) = Hosts!DrainCount(s, n)
                  /\ AsCrossHost!IsEmpty(s) <=> Hosts!IsEmpty(s)
    BY DEF AsCrossHost!DrainCount, AsCrossHost!IsEmpty,
           Hosts!DrainCount, Hosts!IsEmpty
  <2>2. \A s, n : AsCrossHost!Drained(s, n) = Hosts!Drained(s, n)
    BY <2>1 DEF AsCrossHost!Drained, Hosts!Drained
  <2>3. /\ \A q : AsCrossHost!IdsOf(q) = Hosts!IdsOf(q)
        /\ \A j, ids : AsCrossHost!AdmitAll(j, ids) = Hosts!AdmitAll(j, ids)
    BY DEF AsCrossHost!IdsOf, AsCrossHost!AdmitAll, AsCrossHost!Admit,
           AsCrossHost!Admits,
           Hosts!IdsOf, Hosts!AdmitAll, Hosts!Admit, Hosts!Admits
  <2>4. \A s, n : AsCrossHost!Drain(s, n) = Hosts!Drain(s, n)
    BY <2>1, <2>2, <2>3 DEF AsCrossHost!Drain, Hosts!Drain
  <2> QED BY <2>1, <2>2, <2>4 DEF AsCrossHost!DrainStation, Hosts!DrainStation
<1>10. AsCrossHost!Next => Hosts!Next
  BY <1>3, <1>4, <1>6, <1>7, <1>8, <1>9 DEF AsCrossHost!Next, Hosts!Next
<1> QED BY <1>1, <1>2, <1>10

LEMMA SameMailbox == Hosts!ImplementsMailbox => AsCrossHost!ImplementsMailbox
<1>1. Hosts!AsMailbox!Init => AsCrossHost!AsMailbox!Init
  BY DEF Hosts!AsMailbox!Init, AsCrossHost!AsMailbox!Init,
         Hosts!EnvelopeOf, AsCrossHost!EnvelopeOf
<1>2. UNCHANGED Hosts!AsMailbox!vars => UNCHANGED AsCrossHost!AsMailbox!vars
  BY DEF Hosts!AsMailbox!vars, AsCrossHost!AsMailbox!vars,
         Hosts!EnvelopeOf, AsCrossHost!EnvelopeOf
<1>3. Hosts!Envelope = AsCrossHost!Envelope
  BY DEF Hosts!Envelope, Hosts!Events, AsCrossHost!Envelope, AsCrossHost!Events
<1>4. \A env : Hosts!AsMailbox!Put(env) => AsCrossHost!AsMailbox!Put(env)
  BY DEF Hosts!AsMailbox!Put, Hosts!AsMailbox!Range, Hosts!EnvelopeOf,
         AsCrossHost!AsMailbox!Put, AsCrossHost!AsMailbox!Range,
         AsCrossHost!EnvelopeOf
<1>5. \A env : Hosts!AsMailbox!Acknowledge(env) => AsCrossHost!AsMailbox!Acknowledge(env)
  BY DEF Hosts!AsMailbox!Acknowledge, Hosts!AsMailbox!Range, Hosts!EnvelopeOf,
         AsCrossHost!AsMailbox!Acknowledge, AsCrossHost!AsMailbox!Range,
         AsCrossHost!EnvelopeOf
<1>6. \A n : Hosts!AsMailbox!Take(n) => AsCrossHost!AsMailbox!Take(n)
  BY DEF Hosts!AsMailbox!Take, Hosts!EnvelopeOf,
         AsCrossHost!AsMailbox!Take, AsCrossHost!EnvelopeOf
<1>7. Hosts!AsMailbox!Next => AsCrossHost!AsMailbox!Next
  BY <1>3, <1>4, <1>5, <1>6 DEF Hosts!AsMailbox!Next, AsCrossHost!AsMailbox!Next
<1>8. [Hosts!AsMailbox!Next]_(Hosts!AsMailbox!vars)
        => [AsCrossHost!AsMailbox!Next]_(AsCrossHost!AsMailbox!vars)
  BY <1>2, <1>7
<1> QED
  BY <1>1, <1>8, PTL
     DEF Hosts!ImplementsMailbox, Hosts!AsMailbox!Spec,
         AsCrossHost!ImplementsMailbox, AsCrossHost!AsMailbox!Spec

\* With one writer at a time, the seats, the channel, the listeners that die at
\* any file operation, their retries and the station's own verbs are together a
\* mailbox: what the seats emit is in the station's queue once or was taken from
\* it once, in order, and only such an event is reported as delivered
\* (src/src/main.rs, lines 237-244, down to src/src/send.rs, lines 190-222).
THEOREM SerializedChainIsMailbox ==
    ASSUME Serialized PROVE JointSpec => AsCrossHost!ImplementsMailbox
<1>1. AsCrossHost!Spec => Hosts!Spec
  BY SameHosts, PTL DEF AsCrossHost!Spec, Hosts!Spec
<1> QED
  BY <1>1, HostsImplementMailbox, SameMailbox, SerializedImplementsCrossHost
     DEF ImplementsCrossHost
===============================================================================

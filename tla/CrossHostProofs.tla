---------------------------- MODULE CrossHostProofs ----------------------------
(***************************************************************************)
(* Proofs about cross-host delivery, for any events, contents, versions,   *)
(* number of attempts and choice of stable ids, colliding ones included.   *)
(***************************************************************************)
EXTENDS CrossHost, QueueStoreProofs, TLAPS

(***************************************************************************)
(* The inductive invariant. A listener's acceptance and the presence of an *)
(* id in the station's journal imply each other; the first direction       *)
(* carries the receipts, the second the refusals.                          *)
(***************************************************************************)
AcceptedIsJournaled ==
    \A m \in Message : << m, "accepted" >> \in answers =>
        store.journal[StableId[Content[m.emit]]] # "absent"

CrossInv ==
    /\ TypeOK
    /\ Coherent(store)
    /\ AcceptedIsJournaled
    /\ DeliveredIsQueued
    /\ NothingWithoutAcceptance

LEMMA EnvelopeOfType ==
    ASSUME NEW e \in Emits
    PROVE  /\ EnvelopeOf(e) \in Envelope
           /\ EnvelopeOf(e).id = StableId[Content[e]]
           /\ StableId[Content[e]] \in RemoteEvents
           /\ StableId[Content[e]] \in EffectIds
           /\ StableId[Content[e]] \notin SeqIds
BY CrossHostAssumption, IdsAssumption DEF EnvelopeOf, Envelope, Events

LEMMA InitCross == Init => CrossInv
<1> SUFFICES ASSUME Init PROVE CrossInv
  OBVIOUS
<1>1. \A id \in EffectIds : store.journal[id] = "absent"
  BY DEF Init, EmptyStore, EmptyJournal
<1>2. TypeOK
  BY EmptyStoreCoherent, CrossHostAssumption DEF Init, TypeOK, Outcomes
<1>3. Coherent(store)
  BY EmptyStoreCoherent DEF Init
<1>4. AcceptedIsJournaled /\ DeliveredIsQueued
  BY DEF Init, AcceptedIsJournaled, DeliveredIsQueued
<1>5. NothingWithoutAcceptance
  BY <1>1, IdsAssumption DEF NothingWithoutAcceptance
<1> QED BY <1>2, <1>3, <1>4, <1>5 DEF CrossInv

LEMMA NextCross == CrossInv /\ [Next]_vars => CrossInv'
<1> SUFFICES ASSUME CrossInv, [Next]_vars PROVE CrossInv'
  OBVIOUS
<1>0. /\ TypeOK /\ Coherent(store) /\ store \in Store
      /\ AcceptedIsJournaled /\ DeliveredIsQueued /\ NothingWithoutAcceptance
  BY DEF CrossInv, TypeOK
<1>1. ASSUME UNCHANGED << store, answers >>, TypeOK',
             \A e \in Emits : outcome'[e] = "delivered" =>
                 store.journal[StableId[Content[e]]] # "absent"
      PROVE  CrossInv'
  BY <1>0, <1>1 DEF CrossInv, AcceptedIsJournaled, DeliveredIsQueued,
     NothingWithoutAcceptance, Accepted
<1>2. ASSUME NEW e \in Emits, EmitRender(e) PROVE CrossInv'
  <2>1. TypeOK'
    BY <1>0, <1>2, CrossHostAssumption
    DEF EmitRender, MayEmit, TypeOK, station, Outcomes
  <2>2. \A x \in Emits : outcome'[x] = "delivered" => outcome[x] = "delivered"
    BY <1>0, <1>2 DEF EmitRender, TypeOK
  <2> QED BY <1>0, <1>1, <1>2, <2>1, <2>2
        DEF EmitRender, station, DeliveredIsQueued
<1>3. ASSUME NEW e \in Emits, EmitDeliver(e) PROVE CrossInv'
  <2>1. [emit |-> e, attempt |-> attempts[e] + 1, version |-> running["sender"]]
            \in Message
    BY <1>0, <1>3, CrossHostAssumption
    DEF EmitDeliver, MayEmit, TypeOK, Message, Attempts
  <2>2. attempts' \in [Emits -> 0 .. MaxAttempts]
    BY <1>0, <1>3, CrossHostAssumption DEF EmitDeliver, MayEmit, TypeOK
  <2>3. TypeOK'
    BY <1>0, <1>3, <2>1, <2>2 DEF EmitDeliver, TypeOK, station, Outcomes
  <2>4. \A x \in Emits : outcome'[x] = "delivered" => outcome[x] = "delivered"
    BY <1>0, <1>3 DEF EmitDeliver, TypeOK
  <2> QED BY <1>0, <1>1, <1>3, <2>3, <2>4
        DEF EmitDeliver, station, DeliveredIsQueued
<1>4. ASSUME NEW m \in flight, Lose(m) PROVE CrossInv'
  <2>1. TypeOK'
    BY <1>0, <1>4 DEF Lose, TypeOK, station
  <2> QED BY <1>0, <1>1, <1>4, <2>1 DEF Lose, station, DeliveredIsQueued
<1>5. ASSUME NEW m \in flight, Accept(m) PROVE CrossInv'
  <2>0. m \in Message /\ m.emit \in Emits
    BY <1>0 DEF TypeOK, Message
  <2> DEFINE env == EnvelopeOf(m.emit)
  <2>1. CASE m.version = running["receiver"]
    <3>1. /\ store' = EnqueueWithId(store, env)
          /\ answers' = answers \cup {<< m, "accepted" >>}
          /\ flight' = flight \ {m}
          /\ UNCHANGED << taken, running, attempts, outcome >>
      BY <1>5, <2>1 DEF Accept
    <3>2. env \in Envelope /\ env.id = StableId[Content[m.emit]] /\ env.id \notin SeqIds
      BY <2>0, EnvelopeOfType
    <3>3. store' \in Store /\ Coherent(store')
      BY <1>0, <3>1, <3>2, EnqueueWithIdCoherent
    <3>4. \A id \in EffectIds :
            store'.journal[id] # "absent" <=>
                store.journal[id] # "absent" \/ id = StableId[Content[m.emit]]
      BY <1>0, <3>1, <3>2, EnqueueWithIdJournal
    <3>5. TypeOK'
      BY <1>0, <2>0, <3>1, <3>3 DEF TypeOK, Answer
    <3>6. Coherent(store)'
      BY <3>3 DEF Coherent, PendingOnce, PreparedIsPending, SequenceAhead
    <3>7. AcceptedIsJournaled' /\ DeliveredIsQueued'
      <4>1. \A e \in Emits : StableId[Content[e]] \in EffectIds
        BY EnvelopeOfType
      <4>2. \A x \in Message : x.emit \in Emits
        BY DEF Message
      <4> QED BY <1>0, <3>1, <3>4, <4>1, <4>2
            DEF AcceptedIsJournaled, DeliveredIsQueued
    <3>8. NothingWithoutAcceptance'
      BY <1>0, <2>0, <3>1, <3>4, IdsAssumption
      DEF NothingWithoutAcceptance, Accepted
    <3> QED BY <3>5, <3>6, <3>7, <3>8 DEF CrossInv
  <2>2. CASE m.version # running["receiver"]
    <3>1. /\ answers' = answers \cup {<< m, "refused" >>}
          /\ flight' = flight \ {m}
          /\ UNCHANGED << store, taken, running, attempts, outcome >>
      BY <1>5, <2>2 DEF Accept
    <3>2. TypeOK'
      BY <1>0, <2>0, <3>1 DEF TypeOK, Answer
    <3>3. \A x : << x, "accepted" >> \in answers' <=> << x, "accepted" >> \in answers
      BY <3>1
    <3> QED BY <1>0, <3>1, <3>2, <3>3 DEF CrossInv, AcceptedIsJournaled,
            DeliveredIsQueued, NothingWithoutAcceptance, Accepted
  <2> QED BY <2>1, <2>2
<1>6. ASSUME NEW e \in Emits, LearnDelivered(e) PROVE CrossInv'
  <2>1. TypeOK'
    BY <1>0, <1>6 DEF LearnDelivered, TypeOK, station, Outcomes
  <2>2. PICK v \in Versions : << Latest(e, v), "accepted" >> \in answers
    BY <1>6 DEF LearnDelivered
  <2>3. Latest(e, v) \in Message /\ Latest(e, v).emit = e
    BY <1>0, <2>2 DEF TypeOK, Latest
  <2>4. store.journal[StableId[Content[e]]] # "absent"
    BY <1>0, <2>2, <2>3 DEF AcceptedIsJournaled
  <2>5. \A x \in Emits :
          outcome'[x] = "delivered" => x = e \/ outcome[x] = "delivered"
    BY <1>0, <1>6 DEF LearnDelivered, TypeOK
  <2> QED BY <1>0, <1>1, <1>6, <2>1, <2>4, <2>5
        DEF LearnDelivered, station, DeliveredIsQueued
<1>7. ASSUME NEW e \in Emits, LearnRefused(e) \/ ChannelFails(e) PROVE CrossInv'
  <2>1. TypeOK'
    BY <1>0, <1>7 DEF LearnRefused, ChannelFails, TypeOK, station, Outcomes
  <2>2. \A x \in Emits : outcome'[x] = "delivered" => outcome[x] = "delivered"
    BY <1>0, <1>7 DEF LearnRefused, ChannelFails, TypeOK
  <2> QED BY <1>0, <1>1, <1>7, <2>1, <2>2
        DEF LearnRefused, ChannelFails, station, DeliveredIsQueued
<1>8. ASSUME NEW h \in {"sender", "receiver"}, NEW v \in Versions, Upgrade(h, v)
      PROVE  CrossInv'
  <2>1. TypeOK'
    BY <1>0, <1>8 DEF Upgrade, TypeOK, station
  <2> QED BY <1>0, <1>1, <1>8, <2>1 DEF Upgrade, station, DeliveredIsQueued
<1>9. ASSUME store' \in Store, Coherent(store)', taken' \in Seq(Envelope),
             UNCHANGED << running, flight, answers, attempts, outcome >>,
             \A id \in RemoteEvents :
                 store'.journal[id] # "absent" <=> store.journal[id] # "absent"
      PROVE  CrossInv'
  <2>1. TypeOK'
    BY <1>0, <1>9 DEF TypeOK
  <2>2. \A e \in Emits : StableId[Content[e]] \in RemoteEvents
    BY EnvelopeOfType
  <2>3. \A m \in Message : m.emit \in Emits
    BY DEF Message
  <2> QED BY <1>0, <1>9, <2>1, <2>2, <2>3 DEF CrossInv, AcceptedIsJournaled,
          DeliveredIsQueued, NothingWithoutAcceptance, Accepted
<1>10. ASSUME NEW ev \in LocalEvents, SendLocally(ev) PROVE CrossInv'
  <2>1. ev \in Events /\ store.next_seq < MaxSeq /\ store.next_seq \in SeqIds
    BY <1>0, <1>10, IdsAssumption DEF Events, SendLocally, Store, SeqIds
  <2>2. store' = Enqueue(store, ev)
    BY <1>10 DEF SendLocally
  <2>3. store' \in Store /\ Coherent(store')
        /\ store'.journal = Prepare(store.journal, store.next_seq)
    BY <1>0, <2>1, <2>2, EnqueueCoherent
  <2>4. \A id \in RemoteEvents : store'.journal[id] = store.journal[id]
    BY <1>0, <2>1, <2>3, IdsAssumption DEF Prepare, Store, Journal
  <2>5. Coherent(store)'
    BY <2>3 DEF Coherent, PendingOnce, PreparedIsPending, SequenceAhead
  <2> QED BY <1>0, <1>9, <1>10, <2>3, <2>4, <2>5 DEF SendLocally, TypeOK
<1>11. ASSUME NEW limit \in 1 .. Len(store.stream), DrainStation(limit)
       PROVE  CrossInv'
  <2>1. limit \in Nat
    BY <1>0 DEF Store
  <2>2. /\ store' = Drain(store, limit) /\ taken' = taken \o Drained(store, limit)
        /\ UNCHANGED << running, flight, answers, attempts, outcome >>
    BY <1>11 DEF DrainStation
  <2>3. store' \in Store /\ Coherent(store') /\ taken' \in Seq(Envelope)
    BY <1>0, <2>1, <2>2, DrainCoherent DEF TypeOK
  <2>4. \A id \in RemoteEvents :
            store'.journal[id] # "absent" <=> store.journal[id] # "absent"
    BY <1>0, <2>1, <2>2, DrainJournal, IdsAssumption
  <2>5. Coherent(store)'
    BY <2>3 DEF Coherent, PendingOnce, PreparedIsPending, SequenceAhead
  <2> QED BY <1>9, <2>2, <2>3, <2>4, <2>5
<1>12. CASE UNCHANGED vars
  BY <1>0, <1>12 DEF vars, station, CrossInv, TypeOK, Coherent, PendingOnce,
     PreparedIsPending, SequenceAhead, AcceptedIsJournaled, DeliveredIsQueued,
     NothingWithoutAcceptance, Accepted
<1> QED
  BY <1>2, <1>3, <1>4, <1>5, <1>6, <1>7, <1>8, <1>10, <1>11, <1>12 DEF Next

\* The types of the station's record, of the channel and of the seats' answers.
THEOREM TypeCorrect == Spec => []TypeOK
<1>1. CrossInv => TypeOK
  BY DEF CrossInv
<1> QED BY <1>1, InitCross, NextCross, PTL DEF Spec

\* An event reported as delivered is in the station's journal.
THEOREM ReceiptsAreHonest == Spec => []DeliveredIsQueued
<1>1. CrossInv => DeliveredIsQueued
  BY DEF CrossInv
<1> QED BY <1>1, InitCross, NextCross, PTL DEF Spec

\* An event of which every attempt was refused or lost left nothing behind.
THEOREM NeverHalfDelivered == Spec => []NothingWithoutAcceptance
<1>1. CrossInv => NothingWithoutAcceptance
  BY DEF CrossInv
<1> QED BY <1>1, InitCross, NextCross, PTL DEF Spec

-------------------------------------------------------------------------------
(***************************************************************************)
(* The refinement of Mailbox. The journal is the ledger of the queue: an   *)
(* id is journaled exactly when an envelope of that id is pending or was   *)
(* taken, and what goes by the id of a cross-host event is such an event.  *)
(* What was put in is ordered: no id twice, local events in sequence.      *)
(***************************************************************************)

\* What was ever put into the station queue.
Known == Range(store.stream) \cup Range(taken)

Ledger ==
    /\ \A env \in Range(taken) : store.journal[env.id] # "absent"
    /\ \A id \in EffectIds :
        store.journal[id] # "absent" => \E env \in Known : env.id = id
    /\ \A env \in Known :
        env.id \in RemoteEvents => \E e \in Emits : env = EnvelopeOf(e)
    /\ Ordered(taken \o store.stream)

\* No two events that are emitted hash to one id. The code does not promise it
\* (delivery.rs, lines 117-119), and it is needed for the receipts alone: of two
\* such events the second is answered as a duplicate and never queued.
NoCollision ==
    \A d, e \in Emits :
        StableId[Content[d]] = StableId[Content[e]] => Content[d] = Content[e]

LEMMA KnownIsJournaled ==
    ASSUME CrossInv, Ledger, NEW env \in Known
    PROVE  env \in Envelope /\ env.id \in EffectIds /\ store.journal[env.id] # "absent"
<1>1. store.stream \in Seq(Envelope) /\ taken \in Seq(Envelope) /\ Coherent(store)
  BY DEF CrossInv, TypeOK, Store
<1>2. env \in Envelope
  BY <1>1, RangeOfSeq DEF Known
<1>3. ASSUME env \in Range(store.stream) PROVE store.journal[env.id] # "absent"
  <2>1. env.id \in IdsOf(store.stream)
    BY <1>1, <1>3, IdsOfRange
  <2> QED BY <1>1, <2>1 DEF Coherent, PreparedIsPending, IdsIn
<1>4. ASSUME env \in Range(taken) PROVE store.journal[env.id] # "absent"
  BY <1>4 DEF Ledger
<1> QED BY <1>2, <1>3, <1>4 DEF Known, Envelope

\* An envelope whose id is new is put into the mailbox.
LEMMA PutKeepsLedger ==
    ASSUME CrossInv, Ledger, NEW env \in Envelope,
           store.journal[env.id] = "absent",
           env.id \in SeqIds => env.id = store.next_seq,
           env.id \in RemoteEvents => \E e \in Emits : env = EnvelopeOf(e),
           store'.stream = Append(store.stream, env),
           \A id \in EffectIds : store'.journal[id] # "absent"
                                    <=> store.journal[id] # "absent" \/ id = env.id,
           UNCHANGED << taken, outcome >>
    PROVE  Ledger' /\ AsMailbox!Put(env)
<1>1. store.stream \in Seq(Envelope) /\ taken \in Seq(Envelope) /\ Coherent(store)
  BY DEF CrossInv, TypeOK, Store
<1>2. Known' = Known \cup {env} /\ env.id \in EffectIds
  <2>1. Range(Append(store.stream, env)) = Range(store.stream) \cup {env}
    BY <1>1, RangeAppend
  <2> QED BY <2>1 DEF Known, Envelope
<1>3. Ledger'
  <2>1. \A x \in Range(taken') : store'.journal[x.id] # "absent"
    BY KnownIsJournaled DEF Known
  <2>2. \A id \in EffectIds :
          store'.journal[id] # "absent" => \E x \in Known' : x.id = id
    BY <1>2 DEF Ledger
  <2>3. \A x \in Known' :
          x.id \in RemoteEvents => \E e \in Emits : x = EnvelopeOf(e)
    BY <1>2 DEF Ledger
  <2>4. \A a \in Known : Before(a, env)
    BY <1>1, KnownIsJournaled DEF Before, Coherent, SequenceAhead
  <2>5. Ordered(taken' \o store'.stream)
    <3>1. Range(taken \o store.stream) = Known
      BY ONLY <1>1, RangeConcatenation DEF Known
    <3>2. taken \o store.stream \in Seq(Envelope)
      BY <1>1
    <3>3. Ordered(taken \o store.stream)
      BY DEF Ledger
    <3>4. Ordered(Append(taken \o store.stream, env))
      BY ONLY <2>4, <3>1, <3>2, <3>3, env \in Envelope, OrderedAppend
    <3>5. taken' \o store'.stream = Append(taken \o store.stream, env)
      BY <1>1
    <3> QED BY <3>4, <3>5
  <2> QED BY <2>1, <2>2, <2>3, <2>5 DEF Ledger, EnvelopeOf
<1>4. AsMailbox!Put(env)
  <2>1. \A other \in Known : other.id # env.id
    BY KnownIsJournaled
  <2> QED BY <2>1 DEF AsMailbox!Put, AsMailbox!Range, Known, Range
<1> QED BY <1>3, <1>4

\* The steps that put in or take out.
LEMMA AcceptKeepsLedger ==
    ASSUME CrossInv, Ledger, NEW m \in flight, Accept(m)
    PROVE  /\ Ledger'
           /\ UNCHANGED << store, taken, outcome >> \/ \E env \in Envelope : AsMailbox!Put(env)
<1> DEFINE env == EnvelopeOf(m.emit)
<1>1. m.emit \in Emits /\ store \in Store
  BY DEF CrossInv, TypeOK, Message
<1>2. env \in Envelope /\ env.id \in EffectIds /\ env.id \notin SeqIds
  BY <1>1, EnvelopeOfType DEF Envelope, EnvelopeOf
<1>3. UNCHANGED << taken, outcome >>
  BY DEF Accept
<1>4. CASE store' = store
  BY <1>3, <1>4 DEF Ledger, Known, EnvelopeOf
<1>5. CASE store' # store
  <2>1. store' = EnqueueWithId(store, env)
    BY <1>5 DEF Accept
  <2>2. /\ store.journal[env.id] = "absent"
        /\ store'.stream = Append(store.stream, env)
    BY <1>1, <1>5, <2>1 DEF EnqueueWithId, Appends, Prepares, Store
  <2>3. \A id \in EffectIds : store'.journal[id] # "absent"
                                <=> store.journal[id] # "absent" \/ id = env.id
    BY <1>1, <1>2, <2>1, EnqueueWithIdJournal
  <2> QED BY <1>1, <1>2, <1>3, <2>2, <2>3, PutKeepsLedger
<1> QED BY <1>4, <1>5

LEMMA SendKeepsLedger ==
    ASSUME CrossInv, Ledger, NEW ev \in LocalEvents, SendLocally(ev)
    PROVE  Ledger' /\ \E env \in Envelope : AsMailbox!Put(env)
<1> DEFINE env == NextEnvelope(store, ev)
<1>1. /\ store \in Store /\ Coherent(store) /\ ev \in Events
      /\ store.next_seq < MaxSeq
  BY DEF CrossInv, TypeOK, Events, SendLocally
<1>2. /\ store.next_seq \in SeqIds /\ store.next_seq \in EffectIds
      /\ store.next_seq \notin RemoteEvents
  BY <1>1, IdsAssumption DEF Store, SeqIds
<1>3. /\ env \in Envelope /\ env.id = store.next_seq
      /\ store.journal[env.id] = "absent"
      /\ store'.stream = Append(store.stream, env)
      /\ store'.journal = Prepare(store.journal, store.next_seq)
  BY <1>1, EnqueueCoherent DEF SendLocally, NextEnvelope
<1>4. \A id \in EffectIds : store'.journal[id] # "absent"
                                <=> store.journal[id] # "absent" \/ id = env.id
  BY <1>1, <1>2, <1>3 DEF Prepare, Prepares, Store, Journal
<1>5. UNCHANGED << taken, outcome >>
  BY DEF SendLocally
<1> QED BY <1>2, <1>3, <1>4, <1>5, PutKeepsLedger

LEMMA DrainKeepsLedger ==
    ASSUME CrossInv, Ledger, NEW limit \in 1 .. Len(store.stream), DrainStation(limit)
    PROVE  Ledger' /\ AsMailbox!Take(limit)
<1>1. /\ store \in Store /\ store.stream \in Seq(Envelope)
      /\ taken \in Seq(Envelope) /\ limit \in Nat /\ limit \in 0 .. Len(store.stream)
  BY DEF CrossInv, TypeOK, Store
<1>2. DrainCount(store, limit) = limit
  BY <1>1 DEF DrainCount
<1>3. /\ store' = Drain(store, limit)
      /\ store'.stream = SubSeq(store.stream, limit + 1, Len(store.stream))
      /\ taken' = taken \o SubSeq(store.stream, 1, limit)
      /\ outcome' = outcome
  BY <1>1, <1>2 DEF DrainStation, Drain, Drained, Store
<1>4. \A id \in EffectIds :
        store'.journal[id] # "absent" <=> store.journal[id] # "absent"
  BY <1>1, <1>3, DrainJournal
<1>5. /\ SubSeq(store.stream, 1, limit) \in Seq(Envelope)
      /\ Range(store.stream) = Range(SubSeq(store.stream, 1, limit))
                                   \cup Range(store'.stream)
  BY <1>1, <1>3, RangeSplit
<1>6. Range(taken') = Range(taken) \cup Range(SubSeq(store.stream, 1, limit))
  <2> DEFINE out == SubSeq(store.stream, 1, limit)
  <2>1. taken \in Seq(Envelope) /\ out \in Seq(Envelope)
    BY <1>1, <1>5
  <2> HIDE DEF out
  <2>2. Range(taken \o out) = Range(taken) \cup Range(out)
    BY ONLY <2>1, RangeConcatenation
  <2> QED BY <1>3, <2>2 DEF out
<1>7. Known' = Known /\ Range(taken') \subseteq Known
  BY <1>5, <1>6 DEF Known
<1>8. Ledger'
  <2>1. taken' \o store'.stream = taken \o store.stream
    BY ONLY <1>1, <1>3, TakingKeepsWhole
  <2> QED BY <1>4, <1>7, <2>1, KnownIsJournaled DEF Ledger, EnvelopeOf
<1>9. AsMailbox!Take(limit)
  BY <1>3 DEF AsMailbox!Take
<1> QED BY <1>8, <1>9

\* The other steps touch neither the store nor what was taken from it.
LEMMA OthersKeepStation ==
    ASSUME Next
    PROVE  \/ \E m \in flight : Accept(m)
           \/ \E ev \in LocalEvents : SendLocally(ev)
           \/ \E limit \in 1 .. Len(store.stream) : DrainStation(limit)
           \/ UNCHANGED << store, taken >>
BY DEF Next, EmitRender, EmitDeliver, Lose, LearnDelivered, LearnRefused,
       ChannelFails, Upgrade, station

LEMMA NextLedger == CrossInv /\ Ledger /\ [Next]_vars => Ledger'
<1> SUFFICES ASSUME CrossInv, Ledger, [Next]_vars PROVE Ledger'
  OBVIOUS
<1>1. CASE UNCHANGED << store, taken >>
  BY <1>1 DEF Ledger, Known, EnvelopeOf
<1>2. CASE UNCHANGED vars
  BY <1>1, <1>2 DEF vars, station
<1>3. CASE Next
  BY <1>1, <1>3, OthersKeepStation, AcceptKeepsLedger, SendKeepsLedger,
     DrainKeepsLedger
<1> QED BY <1>2, <1>3

LEMMA InitLedger == Init => Ledger
<1> SUFFICES ASSUME Init PROVE Ledger
  OBVIOUS
<1>1. Range(store.stream) = {} /\ Range(taken) = {}
  BY DEF Init, EmptyStore, Range
<1>2. \A id \in EffectIds : store.journal[id] = "absent"
  BY DEF Init, EmptyStore, EmptyJournal
<1>3. Ordered(taken \o store.stream)
  BY DEF Init, EmptyStore, Ordered
<1> QED BY <1>1, <1>2, <1>3 DEF Ledger, Known

\* What a journaled id of an emitted event stands for is that event.
LEMMA JournaledIsKnown ==
    ASSUME CrossInv, Ledger, NoCollision, NEW e \in Emits,
           store.journal[StableId[Content[e]]] # "absent"
    PROVE  EnvelopeOf(e) \in Known
<1>1. StableId[Content[e]] \in EffectIds /\ StableId[Content[e]] \in RemoteEvents
  BY EnvelopeOfType
<1>2. PICK env \in Known : env.id = StableId[Content[e]]
  BY <1>1 DEF Ledger
<1>3. PICK d \in Emits : env = EnvelopeOf(d)
  BY <1>1, <1>2 DEF Ledger
<1>4. Content[d] = Content[e]
  BY <1>2, <1>3 DEF NoCollision, EnvelopeOf
<1> QED BY <1>2, <1>3, <1>4 DEF EnvelopeOf

\* A step that tells no seat of a delivery leaves the receipts alone.
LEMMA SameReceipts ==
    ASSUME CrossInv, Next
    PROVE  \/ \E e \in Emits : LearnDelivered(e)
           \/ \A e \in Emits : outcome'[e] = "delivered" <=> outcome[e] = "delivered"
<1>1. outcome \in [Emits -> Outcomes]
  BY DEF CrossInv, TypeOK
<1>2. ASSUME NEW e \in Emits,
             EmitRender(e) \/ EmitDeliver(e) \/ LearnRefused(e) \/ ChannelFails(e)
      PROVE  \A x \in Emits : outcome'[x] = "delivered" <=> outcome[x] = "delivered"
  <2>1. outcome[e] # "delivered"
    BY <1>2 DEF EmitRender, EmitDeliver, MayEmit, LearnRefused, ChannelFails
  <2>2. \E o \in {"rendered", "waiting", "refused", "failed"} :
            outcome' = [outcome EXCEPT ![e] = o]
    BY <1>2 DEF EmitRender, EmitDeliver, LearnRefused, ChannelFails
  <2> QED BY <1>1, <2>1, <2>2
<1>3. ASSUME outcome' = outcome
      PROVE  \A x \in Emits : outcome'[x] = "delivered" <=> outcome[x] = "delivered"
  BY <1>3
<1> QED BY <1>2, <1>3 DEF Next, Lose, Accept, Upgrade, SendLocally, DrainStation

\* The two hosts, the channel between them and the station's own verbs
\* implement the mailbox: whatever was retried, lost, late or repeated, an
\* event is queued once, and one reported as delivered is in the queue or was
\* drained from it.
THEOREM CrossHostImplementsMailbox ==
    ASSUME NoCollision PROVE Spec => ImplementsMailbox
<1> USE DEF AsMailbox!Init, AsMailbox!Next, AsMailbox!vars
<1>1. Init => AsMailbox!Init
  BY DEF Init, EmptyStore
<1>2. ASSUME CrossInv, Ledger, [Next]_vars
      PROVE  [AsMailbox!Next]_(AsMailbox!vars)
  <2> DEFINE Told == {EnvelopeOf(e) : e \in {x \in Emits : outcome[x] = "delivered"}}
  <2>1. CASE UNCHANGED vars
    BY <2>1 DEF vars, station, EnvelopeOf
  <2>2. ASSUME UNCHANGED << store, taken >>,
               \A e \in Emits : outcome'[e] = "delivered" <=> outcome[e] = "delivered"
        PROVE  UNCHANGED AsMailbox!vars
    BY <2>2 DEF EnvelopeOf
  <2>3. ASSUME NEW e \in Emits, LearnDelivered(e) PROVE AsMailbox!Next
    <3>1. PICK v \in Versions : << Latest(e, v), "accepted" >> \in answers
      BY <2>3 DEF LearnDelivered
    <3>2. Latest(e, v) \in Message /\ Latest(e, v).emit = e
      BY <1>2, <3>1 DEF CrossInv, TypeOK, Latest
    <3>3. store.journal[StableId[Content[e]]] # "absent"
      BY <1>2, <3>1, <3>2 DEF CrossInv, AcceptedIsJournaled
    <3>4. EnvelopeOf(e) \in Known
      BY <1>2, <3>3, JournaledIsKnown
    <3>5. UNCHANGED << store, taken >>
      BY <2>3 DEF LearnDelivered, station
    <3>6. \A x \in Emits :
            outcome'[x] = "delivered" <=> outcome[x] = "delivered" \/ x = e
      BY <1>2, <2>3 DEF LearnDelivered, CrossInv, TypeOK
    <3>7. Told' = Told \cup {EnvelopeOf(e)}
      BY <3>6 DEF EnvelopeOf
    <3>8. AsMailbox!Acknowledge(EnvelopeOf(e))
      BY <3>4, <3>5, <3>7 DEF AsMailbox!Acknowledge, AsMailbox!Range, Known, Range
    <3> QED BY <3>8, EnvelopeOfType
  <2>4. ASSUME NEW m \in flight, Accept(m) PROVE [AsMailbox!Next]_(AsMailbox!vars)
    BY <1>2, <2>2, <2>4, AcceptKeepsLedger
  <2>5. ASSUME NEW ev \in LocalEvents, SendLocally(ev) PROVE AsMailbox!Next
    BY <1>2, <2>5, SendKeepsLedger
  <2>6. ASSUME NEW limit \in 1 .. Len(store.stream), DrainStation(limit)
        PROVE  AsMailbox!Next
    BY <1>2, <2>6, DrainKeepsLedger
  <2>7. CASE Next
    BY <1>2, <2>2, <2>3, <2>4, <2>5, <2>6, <2>7, SameReceipts, OthersKeepStation
  <2> QED BY <1>2, <2>1, <2>7
<1>3. CrossInv /\ Ledger /\ [Next]_vars => [AsMailbox!Next]_(AsMailbox!vars)
  BY <1>2
<1> QED
  BY <1>1, <1>3, InitCross, NextCross, InitLedger, NextLedger, PTL
     DEF Spec, ImplementsMailbox, AsMailbox!Spec

\* Without any hypothesis on the ids: no effect id is queued twice, whatever is
\* retried, late, drained in between or hashed to an id another event has, and
\* the station's own events keep the order they were published in
\* (src/src/send.rs, lines 57-101).
QueuedOnceInOrder == Ordered(taken \o store.stream)

THEOREM EveryIdIsQueuedOnce == Spec => []QueuedOnceInOrder
<1>1. Ledger => QueuedOnceInOrder
  BY DEF Ledger, QueuedOnceInOrder
<1> QED BY <1>1, InitCross, NextCross, InitLedger, NextLedger, PTL DEF Spec
===============================================================================

-------------------------- MODULE StationQueueProofs --------------------------
(***************************************************************************)
(* Proofs about StationQueue. The first part holds for any set of          *)
(* processes, serialized or not; the second is about serialized verbs and  *)
(* the files, the third about serialized verbs and what the world sees of  *)
(* them.                                                                   *)
(***************************************************************************)
EXTENDS StationQueue, QueueStoreProofs

(***************************************************************************)
(* Records stay typed and coherent. TypeOK alone is not inductive: that a  *)
(* drain or a publish returns a Store needs the store to be coherent.      *)
(***************************************************************************)
Base == TypeOK /\ RecordsCoherent

\* Starting a verb with a coherent store keeps Base.
LEMMA BeginKeepsBase ==
    ASSUME Base, NEW p \in Procs, NEW v \in Verbs, NEW label \in Labels,
           NEW s \in Store, NEW envs \in Seq(Envelope), NEW new \in BOOLEAN,
           Coherent(s), Begin(p, v, label, s, envs, new)
    PROVE  Base'
<1> USE DEF Base, Begin, Goto, disk, history
<1>1. TypeOK'
  BY DEF TypeOK
<1>2. RecordsCoherent'
  BY DEF TypeOK, RecordsCoherent
<1> QED BY <1>1, <1>2

\* The end of a process keeps what Base says of processes.
LEMMA EndKeepsBase ==
    ASSUME Base, NEW p \in Procs, End(p)
    PROVE  /\ pc' \in [Procs -> Labels]
           /\ verb' \in [Procs -> Verbs \cup {"none"}]
           /\ work' \in [Procs -> Store]
           /\ cargo' \in [Procs -> Seq(Envelope)]
           /\ fresh' \in [Procs -> BOOLEAN]
           /\ fd' \in [Procs -> Links]
           /\ \A q \in Procs : Coherent(work'[q])
<1>1. << >> \in Seq(Envelope)
  OBVIOUS
<1> QED
  BY <1>1, EmptyStoreCoherent
     DEF Base, TypeOK, RecordsCoherent, End, Goto, Labels, Links

\* Loading and draining, whatever the verb.
LEMMA LoadKeepsBase ==
    ASSUME Base, NEW p \in Procs, NEW v \in Verbs, NEW limit \in Nat,
           LoadToDrain(p, v, limit)
    PROVE  Base'
<1>1. queue.rec \in Store /\ Coherent(queue.rec)
  BY DEF Base, TypeOK, RecordsCoherent, File
<1>2. << >> \in Seq(Envelope)
  OBVIOUS
<1>3. CASE IsEmpty(queue.rec)
  BY <1>1, <1>2, <1>3, BeginKeepsBase DEF LoadToDrain, Labels
<1>4. CASE ~IsEmpty(queue.rec)
  BY <1>1, <1>4, DrainCoherent, BeginKeepsBase DEF LoadToDrain, Labels
<1> QED BY <1>3, <1>4

\* The initial state satisfies Base.
LEMMA InitBase == Init => Base
<1>1. \A state \in {"absent", "empty", "torn"} :
        Blank(state) \in File /\ Coherent(Blank(state).rec)
  BY EmptyStoreCoherent DEF Blank, File
<1>2. << >> \in Seq(Envelope)
  OBVIOUS
<1>3. ASSUME Init PROVE TypeOK
  <2>1. queue \in File /\ tmp \in File /\ marker \in BOOLEAN
    BY <1>1, <1>3 DEF Init
  <2>2. /\ pc \in [Procs -> Labels]
        /\ verb \in [Procs -> Verbs \cup {"none"}]
        /\ fresh \in [Procs -> BOOLEAN]
        /\ fd \in [Procs -> Links]
    BY <1>3 DEF Init, Labels, Links
  <2>3. work \in [Procs -> Store] /\ cargo \in [Procs -> Seq(Envelope)]
    BY <1>2, <1>3, EmptyStoreCoherent DEF Init
  <2>4. /\ receipts \subseteq Envelope
        /\ taken \in Seq(Envelope) /\ rendered \in Seq(Envelope)
        /\ cutoff \subseteq AfterSaves /\ faults \in Nat
    BY <1>2, <1>3 DEF Init
  <2> QED BY <2>1, <2>2, <2>3, <2>4 DEF TypeOK
<1>4. Init => RecordsCoherent
  BY <1>1, EmptyStoreCoherent DEF Init, RecordsCoherent
<1> QED BY <1>3, <1>4 DEF Base

\* Every step keeps Base.
LEMMA NextBase == Base /\ [Next]_vars => Base'
<1> SUFFICES ASSUME Base, [Next]_vars PROVE Base'
  OBVIOUS
<1>1. queue.rec \in Store /\ Coherent(queue.rec) /\ Everything \in Nat
  BY DEF Base, TypeOK, RecordsCoherent, File, Everything, Store
<1>2. \A state \in {"absent", "empty", "torn"} :
        Blank(state) \in File /\ Coherent(Blank(state).rec)
  BY EmptyStoreCoherent DEF Blank, File
<1>3. ASSUME NEW p \in Procs, Start(p) PROVE Base'
  <2>1. ASSUME NEW ev \in LocalEvents, Send(p, ev) PROVE Base'
    <3>1. ev \in Events /\ queue.rec.next_seq < MaxSeq
      BY <2>1 DEF Events, Send
    <3>2. /\ Enqueue(queue.rec, ev) \in Store
          /\ Coherent(Enqueue(queue.rec, ev))
          /\ << NextEnvelope(queue.rec, ev) >> \in Seq(Envelope)
      BY <1>1, <3>1, EnqueueCoherent
    <3> QED BY <2>1, <3>2, BeginKeepsBase DEF Send, Verbs, Publishers, Labels
  <2>2. ASSUME NEW ev \in RemoteEvents, Deliver(p, ev) PROVE Base'
    <3> DEFINE env == RemoteEnvelope(ev)
    <3>1. env \in Envelope /\ env.id \notin SeqIds
      BY IdsAssumption DEF RemoteEnvelope, Envelope, Events
    <3>2. /\ EnqueueWithId(queue.rec, env) \in Store
          /\ Coherent(EnqueueWithId(queue.rec, env))
          /\ << env >> \in Seq(Envelope)
          /\ Appends(queue.rec, env) \in BOOLEAN
      BY <1>1, <3>1, EnqueueWithIdCoherent DEF Appends, Prepares
    <3> QED BY <2>2, <3>2, BeginKeepsBase DEF Deliver, Verbs, Publishers, Labels
  <2>3. CASE Read(p)
    BY <2>3, LoadKeepsBase, StationAssumption DEF Read, Verbs, Readers
  <2>4. CASE DrainAll(p)
    BY <1>1, <2>4, LoadKeepsBase DEF DrainAll, Verbs, Readers
  <2>5. CASE Inject(p)
    <3>1. << >> \in Seq(Envelope)
      OBVIOUS
    <3> QED
      BY <2>5, <3>1, EmptyStoreCoherent, BeginKeepsBase
         DEF Inject, Verbs, Readers, Labels
  <2> QED BY <1>3, <2>1, <2>2, <2>3, <2>4, <2>5 DEF Start
<1>4. ASSUME NEW p \in Procs, Step(p) PROVE Base'
  <2>1. CASE InjectLoad(p)
    BY <1>1, <2>1, LoadKeepsBase DEF InjectLoad, Verbs, Readers
  <2>2. CASE InjectFails(p) \/ RenameFails(p)
    BY <2>2, EndKeepsBase
       DEF InjectFails, RenameFails, Base, TypeOK, RecordsCoherent, disk, history
  <2>3. CASE OpenTmp(p)
    BY <1>2, <2>3 DEF OpenTmp, Goto, Base, TypeOK, RecordsCoherent, history,
                      Labels, Links
  <2>4. CASE WriteTmp(p)
    <3>1. \A f, g : g \in Overlaid(f, work[p]) => g \in File /\ Coherent(g.rec)
      BY <1>2 DEF Overlaid, Full, File, Base, TypeOK, RecordsCoherent
    <3>2. /\ tmp' \in File /\ Coherent(tmp'.rec)
          /\ queue' \in File /\ Coherent(queue'.rec)
      BY <2>4, <3>1 DEF WriteTmp, Base, TypeOK, RecordsCoherent
    <3> QED
      BY <2>4, <3>2 DEF WriteTmp, Goto, Base, TypeOK, RecordsCoherent, history,
                        Labels, Links
  <2>5. CASE Rename(p)
    <3>1. taken' \in Seq(Envelope)
      BY <2>5 DEF Rename, Base, TypeOK
    <3>2. pc' \in [Procs -> Labels]
      BY <2>5 DEF Rename, Base, TypeOK, Goto, AfterSave, Labels
    <3>3. fd' \in [Procs -> Links]
      BY <2>5 DEF Rename, Base, TypeOK, Relinked, Links
    <3> QED
      BY <1>2, <2>5, <3>1, <3>2, <3>3
         DEF Rename, Base, TypeOK, RecordsCoherent
  <2>6. CASE SetHasMail(p) \/ ClearHasMail(p)
    BY <2>6 DEF SetHasMail, ClearHasMail, Goto, Base, TypeOK, RecordsCoherent,
                history, Labels
  <2>7. CASE Receipt(p)
    <3>1. receipts' \subseteq Envelope
      BY <2>7 DEF Receipt, Base, TypeOK, Range
    <3> QED
      BY <2>7, <3>1, EndKeepsBase
         DEF Receipt, Base, TypeOK, RecordsCoherent, disk
  <2>8. CASE Render(p)
    <3>1. rendered' \in Seq(Envelope)
      BY <2>8 DEF Render, Base, TypeOK
    <3> QED
      BY <2>8, <3>1, EndKeepsBase DEF Render, Base, TypeOK, RecordsCoherent, disk
  <2> QED
    BY <1>4, <2>1, <2>2, <2>3, <2>4, <2>5, <2>6, <2>7, <2>8 DEF Step, Save
<1>5. ASSUME NEW p \in Procs, Die(p) PROVE Base'
  <2>1. \A link, f : \A g \in Torn(p, link, f) : g = f \/ g = Blank("torn")
    BY DEF Torn
  <2>2. /\ tmp' \in File /\ Coherent(tmp'.rec)
        /\ queue' \in File /\ Coherent(queue'.rec)
    BY <1>2, <1>5, <2>1 DEF Die, Base, TypeOK, RecordsCoherent
  <2>3. /\ faults' \in Nat /\ marker' \in BOOLEAN /\ cutoff' \subseteq AfterSaves
        /\ UNCHANGED << receipts, taken, rendered >>
    BY <1>5 DEF Die, Base, TypeOK
  <2>4. End(p)
    BY <1>5 DEF Die
  <2> QED
    BY <2>2, <2>3, <2>4, EndKeepsBase DEF Base, TypeOK, RecordsCoherent
<1>6. CASE UNCHANGED vars
  BY <1>6 DEF vars, disk, procs, history, Base, TypeOK, RecordsCoherent
<1> QED BY <1>3, <1>4, <1>5, <1>6 DEF Next

\* Every reachable state is typed.
THEOREM TypeCorrect == Spec => []TypeOK
<1>1. Base => TypeOK
  BY DEF Base
<1> QED BY <1>1, InitBase, NextBase, PTL DEF Spec

\* Every record on disk or in memory is coherent, whatever the number of
\* writers and however they interleave and fail: see RecordsCoherent.
THEOREM RecordsStayCoherent == Spec => []RecordsCoherent
<1>1. Base => RecordsCoherent
  BY DEF Base
<1> QED BY <1>1, InitBase, NextBase, PTL DEF Spec

-------------------------------------------------------------------------------
(***************************************************************************)
(* Serialized verbs. None of the properties is inductive: the invariant    *)
(* below adds what a running process knows of the files and of its cargo.  *)
(***************************************************************************)

\* What was ever put into the queue and not lost from it.
Known == Range(queue.rec.stream) \cup Range(taken)

\* One process at most is running; the files are its own.
Files ==
    /\ \A p, q \in Procs : pc[p] # "idle" /\ pc[q] # "idle" => p = q
    /\ queue.state \in {"absent", "full"}
    /\ \A p \in Procs :
        /\ fd[p] = IF pc[p] = "write" THEN "tmp" ELSE "none"
        /\ pc[p] = "write" => tmp = Blank("empty")
        /\ pc[p] = "rename" => tmp = Full(work[p])

\* The journal accounts for every envelope: pending ones are prepared (this is
\* in Coherent), taken ones admitted, and no other id is journaled.
Ledger ==
    /\ \A i, k \in 1 .. Len(taken) : taken[i].id = taken[k].id => i = k
    /\ \A env \in Range(taken) : queue.rec.journal[env.id] = "admitted"
    /\ \A id \in EffectIds :
        queue.rec.journal[id] # "absent" => \E env \in Known : env.id = id
    /\ \A env \in Known : env.id \in RemoteEvents => env.event = env.id
    /\ receipts \subseteq Known

\* A publisher between its load and its rename.
Publishing(p) ==
    /\ verb[p] \in Publishers
    /\ Len(cargo[p]) = 1
    /\ \/ /\ fresh[p]
          /\ queue.rec.journal[cargo[p][1].id] = "absent"
          /\ cargo[p][1].id \in RemoteEvents => cargo[p][1].event = cargo[p][1].id
          /\ work[p].stream = Append(queue.rec.stream, cargo[p][1])
          /\ work[p].journal = Prepare(queue.rec.journal, cargo[p][1].id)
       \/ /\ ~fresh[p]
          /\ cargo[p][1] \in Known
          /\ work[p].stream = queue.rec.stream
          /\ work[p].journal = queue.rec.journal

\* A reader between its load and its rename.
Draining(p) ==
    /\ verb[p] \in Readers
    /\ \E n \in 0 .. Len(queue.rec.stream) :
        /\ n > 0
        /\ cargo[p] = SubSeq(queue.rec.stream, 1, n)
        /\ work[p].stream = SubSeq(queue.rec.stream, n + 1, Len(queue.rec.stream))
        /\ work[p].journal = AdmitAll(queue.rec.journal, IdsOf(cargo[p]))

Errand(p) ==
    /\ pc[p] \in {"open", "write", "rename"} => Publishing(p) \/ Draining(p)
    /\ pc[p] \in {"mark", "receipt"} =>
        /\ Len(cargo[p]) = 1
        /\ cargo[p][1] \in Known

SerialInv == Base /\ Files /\ Ledger /\ \A p \in Procs : Errand(p)

(***************************************************************************)
(* The invariant of serialized verbs, action by action.                    *)
(***************************************************************************)

\* While one process runs, the others are idle.
LEMMA Alone ==
    ASSUME Files, NEW p \in Procs, pc[p] # "idle"
    PROVE  \A q \in Procs : q # p => pc[q] = "idle"
BY DEF Files

\* Ledger speaks of the queue file and the histories only.
LEMMA LedgerUnchanged ==
    ASSUME Ledger, queue' = queue, taken' = taken, receipts' = receipts
    PROVE  Ledger' /\ Known' = Known
BY DEF Ledger, Known

\* A verb starts when the others are idle, with an errand.
LEMMA BeginKeepsSerial ==
    ASSUME SerialInv, Serialized, NEW p \in Procs, NEW v, NEW label \in Labels,
           NEW s, NEW envs, NEW new,
           CanStart(p), Begin(p, v, label, s, envs, new),
           label \in {"load", "open", "clear"},
           Errand(p)'
    PROVE  Files' /\ Ledger' /\ \A q \in Procs : Errand(q)'
<1>1. \A q \in Procs : pc[q] = "idle"
  BY DEF CanStart, Live
<1>2. /\ pc' = [pc EXCEPT ![p] = label]
      /\ fd' = fd /\ queue' = queue /\ tmp' = tmp
      /\ receipts' = receipts /\ taken' = taken
  BY DEF Begin, Goto, disk, history
<1>3. \A q \in Procs : q # p => pc'[q] = "idle"
  BY <1>1, <1>2 DEF SerialInv, Base, TypeOK
<1>4. pc'[p] = label
  BY <1>2 DEF SerialInv, Base, TypeOK
<1>5. Files'
  BY <1>1, <1>2, <1>3, <1>4 DEF SerialInv, Files
<1>6. Ledger'
  BY <1>2, LedgerUnchanged DEF SerialInv
<1>7. \A q \in Procs : q # p => Errand(q)'
  BY <1>3 DEF Errand
<1> QED BY <1>5, <1>6, <1>7

\* The end of a process that leaves the files alone.
LEMMA EndKeepsFiles ==
    ASSUME Base, Files, NEW p \in Procs, pc[p] # "idle", End(p),
           queue'.state \in {"absent", "full"}
    PROVE  Files' /\ \A q \in Procs : Errand(q)'
<1>1. \A q \in Procs : q # p => pc[q] = "idle"
  BY Alone
<1>2. \A q \in Procs : pc'[q] = "idle" /\ fd'[q] = "none"
  BY <1>1 DEF End, Goto, Base, TypeOK, Files
<1> QED BY <1>2 DEF Files, Errand

\* A load that finds mail leaves a reader on its way to save.
LEMMA LoadGivesErrand ==
    ASSUME SerialInv, NEW p \in Procs, NEW v \in Readers, NEW limit \in Nat,
           limit > 0 \/ limit = Everything, LoadToDrain(p, v, limit)
    PROVE  Errand(p)'
<1> DEFINE st == queue.rec.stream
           n == DrainCount(queue.rec, limit)
<1>1. /\ queue.rec \in Store /\ Coherent(queue.rec)
      /\ st \in Seq(Envelope) /\ Len(st) \in Nat
  BY DEF SerialInv, Base, TypeOK, RecordsCoherent, File, Store
<1>2. CASE IsEmpty(queue.rec)
  <2>1. pc'[p] = "clear"
    BY <1>2 DEF LoadToDrain, Begin, Goto, SerialInv, Base, TypeOK
  <2> QED BY <2>1 DEF Errand
<1>3. CASE ~IsEmpty(queue.rec)
  <2>1. /\ pc'[p] = "open" /\ verb'[p] = v
        /\ work'[p] = Drain(queue.rec, limit)
        /\ cargo'[p] = Drained(queue.rec, limit)
        /\ queue' = queue
    BY <1>3 DEF LoadToDrain, Begin, Goto, SerialInv, Base, TypeOK, disk
  <2>2. Len(st) > 0
    BY <1>1, <1>3 DEF IsEmpty
  <2>3. n \in 0 .. Len(st) /\ n > 0
    BY <1>1, <2>2 DEF DrainCount, Everything
  <2>4. /\ work'[p].stream = SubSeq(st, n + 1, Len(st))
        /\ work'[p].journal = AdmitAll(queue.rec.journal, IdsOf(cargo'[p]))
        /\ cargo'[p] = SubSeq(st, 1, n)
    BY <1>1, <2>1 DEF Drain, Drained, Store
  <2>5. Draining(p)'
    BY <2>1, <2>3, <2>4 DEF Draining
  <2> QED BY <2>1, <2>5 DEF Errand
<1> QED BY <1>2, <1>3

LEMMA StartKeepsSerial ==
    ASSUME SerialInv, Serialized, NEW p \in Procs, Start(p)
    PROVE  Files' /\ Ledger' /\ \A q \in Procs : Errand(q)'
<1>1. /\ queue.rec \in Store /\ Coherent(queue.rec) /\ Everything \in Nat
      /\ queue.rec.journal \in Journal
  BY DEF SerialInv, Base, TypeOK, RecordsCoherent, File, Everything, Store
<1>2. ASSUME NEW ev \in LocalEvents, Send(p, ev)
      PROVE  Files' /\ Ledger' /\ \A q \in Procs : Errand(q)'
  <2> DEFINE env == NextEnvelope(queue.rec, ev)
  <2>1. /\ Enqueue(queue.rec, ev).stream = Append(queue.rec.stream, env)
        /\ Enqueue(queue.rec, ev).journal = Prepare(queue.rec.journal, env.id)
        /\ queue.rec.journal[env.id] = "absent"
        /\ env.id \notin RemoteEvents
    <3>1. ev \in Events /\ queue.rec.next_seq < MaxSeq
      BY <1>2 DEF Events, Send
    <3>2. env.id = queue.rec.next_seq /\ queue.rec.next_seq \in SeqIds
      BY <1>1, <3>1, IdsAssumption DEF NextEnvelope, Store, SeqIds
    <3> QED BY <1>1, <3>1, <3>2, EnqueueCoherent, IdsAssumption
  <2>2. /\ pc'[p] = "open" /\ verb'[p] = "send" /\ fresh'[p] = TRUE
        /\ work'[p] = Enqueue(queue.rec, ev) /\ cargo'[p] = << env >>
        /\ queue' = queue
    BY <1>2 DEF Send, Begin, Goto, SerialInv, Base, TypeOK, disk
  <2>3. Publishing(p)'
    BY <2>1, <2>2 DEF Publishing, Publishers
  <2>4. Errand(p)'
    BY <2>2, <2>3 DEF Errand
  <2> QED BY <1>2, <2>4, BeginKeepsSerial DEF Send, Labels
<1>3. ASSUME NEW ev \in RemoteEvents, Deliver(p, ev)
      PROVE  Files' /\ Ledger' /\ \A q \in Procs : Errand(q)'
  <2> DEFINE env == RemoteEnvelope(ev)
             t == EnqueueWithId(queue.rec, env)
  <2>1. /\ pc'[p] = "open" /\ verb'[p] = "deliver"
        /\ fresh'[p] = Appends(queue.rec, env)
        /\ work'[p] = t /\ cargo'[p] = << env >>
        /\ queue' = queue /\ taken' = taken
    BY <1>3 DEF Deliver, Begin, Goto, SerialInv, Base, TypeOK, disk, history
  <2>2. /\ env.id = ev /\ env.event = ev /\ ev \in EffectIds
        /\ cargo'[p][1] = env /\ Len(cargo'[p]) = 1
    BY <2>1, IdsAssumption DEF RemoteEnvelope
  <2>3. ASSUME Appends(queue.rec, env) PROVE Errand(p)'
    <3>1. /\ queue.rec.journal[env.id] = "absent"
          /\ t.stream = Append(queue.rec.stream, env)
          /\ t.journal = Prepare(queue.rec.journal, env.id)
      BY <1>1, <2>3 DEF Appends, Prepares, EnqueueWithId, Store
    <3>2. Publishing(p)'
      BY <2>1, <2>2, <2>3, <3>1 DEF Publishing, Publishers
    <3> QED BY <2>1, <3>2 DEF Errand
  <2>4. ASSUME ~Appends(queue.rec, env) PROVE Errand(p)'
    <3>1. t = queue.rec /\ queue.rec.journal[env.id] # "absent"
      BY <2>4 DEF Appends, Prepares, EnqueueWithId
    <3>2. PICK other \in Known : other.id = ev
      BY <2>2, <3>1 DEF SerialInv, Ledger
    <3>3. other.event = ev
      BY <3>2 DEF SerialInv, Ledger
    <3>4. other \in Envelope
      BY <1>1, <3>2 DEF Known, Range, SerialInv, Base, TypeOK, Store
    <3>5. other = env
      BY <3>2, <3>3, <3>4 DEF Envelope, RemoteEnvelope
    <3>6. env \in Known'
      BY <2>1, <3>2, <3>5 DEF Known
    <3>7. Publishing(p)'
      BY <2>1, <2>2, <2>4, <3>1, <3>6 DEF Publishing, Publishers
    <3> QED BY <2>1, <3>7 DEF Errand
  <2>5. Errand(p)'
    BY <2>3, <2>4
  <2>6. /\ CanStart(p)
        /\ Begin(p, "deliver", "open", t, << env >>, Appends(queue.rec, env))
    BY <1>3 DEF Deliver
  <2> QED BY <2>5, <2>6, BeginKeepsSerial DEF Labels
<1>4. ASSUME NEW v \in Readers, NEW limit \in Nat,
             limit > 0 \/ limit = Everything,
             CanStart(p), LoadToDrain(p, v, limit)
      PROVE  Files' /\ Ledger' /\ \A q \in Procs : Errand(q)'
  <2>1. Errand(p)'
    BY <1>4, LoadGivesErrand
  <2>2. CASE IsEmpty(queue.rec)
    <3>1. Begin(p, v, "clear", queue.rec, << >>, FALSE)
      BY <1>4, <2>2 DEF LoadToDrain
    <3> QED BY <1>4, <2>1, <3>1, BeginKeepsSerial DEF Labels
  <2>3. CASE ~IsEmpty(queue.rec)
    <3>1. Begin(p, v, "open", Drain(queue.rec, limit),
                Drained(queue.rec, limit), FALSE)
      BY <1>4, <2>3 DEF LoadToDrain
    <3> QED BY <1>4, <2>1, <3>1, BeginKeepsSerial DEF Labels
  <2> QED BY <2>2, <2>3
<1>5. CASE Read(p)
  BY <1>4, <1>5, StationAssumption DEF Read, Readers
<1>6. CASE DrainAll(p)
  BY <1>1, <1>4, <1>6 DEF DrainAll, Readers
<1>7. CASE Inject(p)
  <2>1. pc'[p] = "load"
    BY <1>7 DEF Inject, Begin, Goto, SerialInv, Base, TypeOK
  <2>2. Errand(p)'
    BY <2>1 DEF Errand
  <2> QED BY <1>7, <2>2, BeginKeepsSerial DEF Inject, Labels
<1> QED BY <1>2, <1>3, <1>5, <1>6, <1>7 DEF Start

\* A step of p that moves it on, closes or opens its file, and touches no
\* record in the queue file.
LEMMA MoveOnKeepsSerial ==
    ASSUME SerialInv, NEW p \in Procs, NEW label \in Labels, pc[p] # "idle",
           pc' = [pc EXCEPT ![p] = label],
           fd' = [fd EXCEPT ![p] = IF label = "write" THEN "tmp" ELSE "none"],
           label = "write" => tmp' = Blank("empty"),
           label = "rename" => tmp' = Full(work[p]),
           label \in {"write", "rename"} => pc[p] \in {"open", "write", "rename"},
           label \in {"mark", "receipt"} => pc[p] \in {"mark", "receipt"},
           label # "open",
           queue' = queue, verb' = verb, work' = work, cargo' = cargo,
           fresh' = fresh, taken' = taken, receipts' = receipts
    PROVE  Files' /\ Ledger' /\ \A q \in Procs : Errand(q)'
<1>1. \A q \in Procs : q # p => pc[q] = "idle" /\ pc'[q] = "idle"
  BY Alone DEF SerialInv, Base, TypeOK
<1>2. pc'[p] = label
  BY DEF SerialInv, Base, TypeOK
<1>3. Ledger' /\ Known' = Known
  BY LedgerUnchanged DEF SerialInv
<1>4. Files'
  BY <1>1, <1>2 DEF SerialInv, Base, TypeOK, Files
<1>5. \A q \in Procs : q # p => Errand(q)'
  BY <1>1 DEF Errand
<1>6. Errand(p)'
  BY <1>2, <1>3 DEF SerialInv, Errand, Publishing, Draining
<1> QED BY <1>3, <1>4, <1>5, <1>6

\* Renaming the record a process has written into the place of the queue file.
\* For a publisher of a fresh envelope it is a Put of the mailbox, for a reader
\* a Take, and for a deduplicated delivery nothing.
LEMMA RenameKeepsSerial ==
    ASSUME SerialInv, Base', NEW p \in Procs, Rename(p)
    PROVE  Files' /\ Ledger' /\ \A q \in Procs : Errand(q)'
<1> DEFINE st == queue.rec.stream
           j == queue.rec.journal
<1>1. /\ queue.rec \in Store /\ Coherent(queue.rec)
      /\ st \in Seq(Envelope) /\ j \in Journal
      /\ taken \in Seq(Envelope) /\ cargo[p] \in Seq(Envelope)
      /\ work[p] \in Store
  BY DEF SerialInv, Base, TypeOK, RecordsCoherent, File, Store
<1>2. /\ tmp = Full(work[p]) /\ queue' = tmp
      /\ queue'.rec = work[p] /\ queue'.state = "full"
      /\ pc' = [pc EXCEPT ![p] = AfterSave(p)]
      /\ \A q \in Procs : fd'[q] = "none"
      /\ verb' = verb /\ work' = work /\ cargo' = cargo /\ fresh' = fresh
      /\ receipts' = receipts
      /\ pc[p] = "rename"
  <2>1. pc[p] = "rename" /\ tmp = Full(work[p])
    BY DEF Rename, SerialInv, Files
  <2>2. \A q \in Procs : pc[q] # "write"
    BY <2>1 DEF SerialInv, Files
  <2>3. \A q \in Procs : fd[q] = "none"
    BY <2>2 DEF SerialInv, Files
  <2>4. \A q \in Procs : fd'[q] = "none"
    BY <2>3 DEF Rename, Relinked
  <2> QED BY <2>1, <2>4 DEF Rename, Full, Goto
<1>3. \A q \in Procs : q # p => pc[q] = "idle" /\ pc'[q] = "idle"
  BY <1>2, Alone DEF SerialInv, Base, TypeOK
<1>4. pc'[p] = AfterSave(p) /\ AfterSave(p) \in {"mark", "receipt", "clear", "render"}
  BY <1>2 DEF AfterSave, SerialInv, Base, TypeOK
<1>5. Files'
  BY <1>2, <1>3, <1>4 DEF SerialInv, Files
<1>6. Publishing(p) \/ Draining(p)
  BY <1>2 DEF SerialInv, Errand
<1>7. \A q \in Procs : q # p => Errand(q)'
  BY <1>3 DEF Errand
<1>8. \A env \in Range(taken) : env.id \in EffectIds /\ j[env.id] = "admitted"
  <2>1. Range(taken) \subseteq Envelope
    BY <1>1, RangeOfSeq
  <2> QED BY <2>1 DEF SerialInv, Ledger, Envelope
<1>9. ASSUME Publishing(p) PROVE Ledger' /\ Errand(p)'
  <2> DEFINE env == cargo[p][1]
  <2>1. /\ taken' = taken
        /\ Len(cargo[p]) = 1
        /\ env \in Envelope
    BY <1>1, <1>9 DEF Rename, Publishing, Publishers, Readers
  <2>2. CASE fresh[p]
    <3>1. /\ j[env.id] = "absent"
          /\ env.id \in EffectIds
          /\ env.id \in RemoteEvents => env.event = env.id
          /\ queue'.rec.stream = Append(st, env)
          /\ queue'.rec.journal = [j EXCEPT ![env.id] = "prepared"]
      BY <1>2, <1>9, <2>1, <2>2
         DEF Publishing, Prepare, Prepares, Envelope
    <3>2. Range(Append(st, env)) = Range(st) \cup {env}
      BY <1>1, <2>1, RangeAppend
    <3>3. Known' = Known \cup {env}
      BY <2>1, <3>1, <3>2 DEF Known
    <3>4. \A other \in Range(taken) : other.id # env.id /\ other.id \in EffectIds
      BY <1>8, <3>1
    <3>5. \A other \in Range(taken') : queue'.rec.journal[other.id] = "admitted"
      BY <1>1, <2>1, <3>1, <3>4 DEF SerialInv, Ledger, Journal
    <3>6. \A id \in EffectIds :
            queue'.rec.journal[id] # "absent" => \E other \in Known' : other.id = id
      BY <1>1, <3>1, <3>3 DEF SerialInv, Ledger, Journal
    <3>7. Ledger'
      BY <1>2, <2>1, <3>1, <3>3, <3>5, <3>6 DEF SerialInv, Ledger
    <3>8. Errand(p)'
      BY <1>2, <1>4, <2>1, <3>3 DEF Errand
    <3> QED BY <3>7, <3>8
  <2>3. CASE ~fresh[p]
    <3>1. env \in Known /\ queue'.rec.stream = st /\ queue'.rec.journal = j
      BY <1>2, <1>9, <2>3 DEF Publishing
    <3>2. Known' = Known
      BY <2>1, <3>1 DEF Known
    <3>3. Ledger'
      BY <1>2, <2>1, <3>1, <3>2 DEF SerialInv, Ledger
    <3>4. Errand(p)'
      BY <1>2, <1>4, <2>1, <3>1, <3>2 DEF Errand
    <3> QED BY <3>3, <3>4
  <2> QED BY <2>2, <2>3
<1>10. ASSUME Draining(p) PROVE Ledger' /\ Errand(p)'
  <2>1. PICK n \in 0 .. Len(st) :
          /\ n > 0
          /\ cargo[p] = SubSeq(st, 1, n)
          /\ work[p].stream = SubSeq(st, n + 1, Len(st))
          /\ work[p].journal = AdmitAll(j, IdsOf(cargo[p]))
    BY <1>10 DEF Draining
  <2>2. taken' = taken \o cargo[p]
    BY <1>10 DEF Rename, Draining
  <2>3. Range(st) = Range(cargo[p]) \cup Range(work[p].stream)
    BY <1>1, <2>1, RangeSplit
  <2>4. Range(taken') = Range(taken) \cup Range(cargo[p])
    BY <1>1, <2>2, RangeConcatenation
  <2>5. Known' = Known
    BY <1>2, <2>3, <2>4 DEF Known
  <2>6. /\ \A id \in IdsOf(cargo[p]) : j[id] = "prepared" /\ id \in EffectIds
        /\ \A env \in Range(cargo[p]) : env.id \in IdsOf(cargo[p])
    <3>1. IdsOf(cargo[p]) \subseteq IdsOf(st)
      BY <1>1, <2>3, IdsOfRange DEF Store
    <3>2. IdsOf(st) = IdsIn(j, "prepared")
      BY <1>1 DEF Coherent, PreparedIsPending
    <3>3. \A env \in Range(cargo[p]) : env.id \in IdsOf(cargo[p])
      BY <1>1, IdsOfRange
    <3> QED BY <3>1, <3>2, <3>3 DEF IdsIn
  <2>7. \A id \in EffectIds :
          queue'.rec.journal[id] =
              IF id \in IdsOf(cargo[p]) THEN "admitted" ELSE j[id]
    BY <1>1, <1>2, <2>1, <2>6 DEF AdmitAll, Admit, Admits, Journal
  <2>8. \A env \in Range(taken') : queue'.rec.journal[env.id] = "admitted"
    BY <2>4, <2>6, <2>7, <1>8
  <2>9. \A i, k \in 1 .. Len(taken') : taken'[i].id = taken'[k].id => i = k
    <3>1. /\ Len(taken) \in Nat /\ Len(cargo[p]) = n /\ n \in Nat
          /\ Len(taken') = Len(taken) + n
          /\ \A i \in 1 .. Len(taken) : taken'[i] = taken[i]
          /\ \A i \in Len(taken) + 1 .. Len(taken) + n :
                /\ i - Len(taken) \in 1 .. n
                /\ taken'[i] = cargo[p][i - Len(taken)]
      BY <1>1, <2>1, <2>2
    <3>2. \A i \in 1 .. n : i \in 1 .. Len(st) /\ cargo[p][i] = st[i]
      BY <1>1, <2>1
    <3>3. \A i, k \in 1 .. n : cargo[p][i].id = cargo[p][k].id => i = k
      BY <1>1, <3>2 DEF Coherent, PendingOnce
    <3>4. \A i, k \in 1 .. Len(taken) : taken'[i].id = taken'[k].id => i = k
      BY <3>1 DEF SerialInv, Ledger
    <3>5. \A i \in 1 .. Len(taken) : j[taken'[i].id] = "admitted"
      <4>1. \A i \in 1 .. Len(taken) : taken[i] \in Range(taken)
        BY <1>1 DEF Range
      <4> QED BY <1>8, <3>1, <4>1
    <3>6. \A i \in Len(taken) + 1 .. Len(taken) + n : j[taken'[i].id] = "prepared"
      BY <2>6, <3>1 DEF IdsOf
    <3> SUFFICES ASSUME NEW i \in 1 .. Len(taken) + n,
                        NEW k \in 1 .. Len(taken) + n,
                        taken'[i].id = taken'[k].id
                 PROVE  i = k
      BY <3>1
    <3>7. CASE i \in 1 .. Len(taken) /\ k \in 1 .. Len(taken)
      BY <3>4, <3>7
    <3>8. CASE /\ i \in Len(taken) + 1 .. Len(taken) + n
               /\ k \in Len(taken) + 1 .. Len(taken) + n
      <4>1. i - Len(taken) = k - Len(taken)
        BY <3>1, <3>3, <3>8
      <4> QED BY <3>1, <4>1
    <3>9. CASE \/ /\ i \in 1 .. Len(taken)
                  /\ k \in Len(taken) + 1 .. Len(taken) + n
               \/ /\ k \in 1 .. Len(taken)
                  /\ i \in Len(taken) + 1 .. Len(taken) + n
      BY <3>5, <3>6, <3>9
    <3> QED BY <3>1, <3>7, <3>8, <3>9
  <2>10. \A id \in EffectIds :
           queue'.rec.journal[id] # "absent" => \E env \in Known' : env.id = id
    BY <2>5, <2>6, <2>7 DEF SerialInv, Ledger
  <2>11. Ledger'
    BY <1>2, <2>5, <2>8, <2>9, <2>10 DEF SerialInv, Ledger
  <2>12. Errand(p)'
    BY <1>2, <1>4, <1>10 DEF Draining, Errand, AfterSave, Readers, Publishers
  <2> QED BY <2>11, <2>12
<1> QED BY <1>5, <1>6, <1>7, <1>9, <1>10

\* Every step of serialized verbs keeps the invariant.
LEMMA NextSerial == Serialized /\ SerialInv /\ [Next]_vars => SerialInv'
<1> SUFFICES ASSUME Serialized, SerialInv, [Next]_vars PROVE SerialInv'
  OBVIOUS
<1>1. Base'
  BY NextBase DEF SerialInv
<1> DEFINE Rest == Files' /\ Ledger' /\ \A q \in Procs : Errand(q)'
<1>2. ASSUME NEW p \in Procs, Start(p) PROVE Rest
  BY <1>2, StartKeepsSerial
<1>3. ASSUME NEW p \in Procs, Step(p) PROVE Rest
  <2>1. CASE InjectLoad(p)
    <3>1. /\ LoadToDrain(p, "inject", Everything) /\ Everything \in Nat
          /\ "inject" \in Readers
      BY <2>1 DEF InjectLoad, Everything, SerialInv, Base, TypeOK, File, Store,
                  Readers
    <3>2. Errand(p)'
      BY <3>1, LoadGivesErrand
    <3>3. /\ pc[p] = "load"
          /\ queue' = queue /\ tmp' = tmp /\ fd' = fd
          /\ taken' = taken /\ receipts' = receipts
      BY <2>1, <3>1 DEF InjectLoad, LoadToDrain, Begin, disk, history
    <3>4. \E label \in {"clear", "open"} : pc' = [pc EXCEPT ![p] = label]
      BY <3>1 DEF LoadToDrain, Begin, Goto
    <3>5. \A q \in Procs : q # p => pc[q] = "idle" /\ pc'[q] = "idle"
      BY <3>3, <3>4, Alone DEF SerialInv, Base, TypeOK
    <3>6. pc'[p] \in {"clear", "open"}
      BY <3>4 DEF SerialInv, Base, TypeOK
    <3>7. Files'
      BY <3>3, <3>5, <3>6 DEF SerialInv, Files
    <3>8. Ledger'
      BY <3>3, LedgerUnchanged DEF SerialInv
    <3>9. \A q \in Procs : q # p => Errand(q)'
      BY <3>5 DEF Errand
    <3> QED BY <3>2, <3>7, <3>8, <3>9
  <2>2. CASE InjectFails(p)
    <3>1. queue' = queue /\ taken' = taken /\ receipts' = receipts
      BY <2>2 DEF InjectFails, disk, history
    <3>2. Files' /\ \A q \in Procs : Errand(q)'
      BY <2>2, <3>1, EndKeepsFiles DEF InjectFails, SerialInv, Files
    <3> QED BY <3>1, <3>2, LedgerUnchanged DEF SerialInv
  <2>3. CASE OpenTmp(p)
    BY <2>3, MoveOnKeepsSerial DEF OpenTmp, Goto, Labels, history
  <2>4. CASE WriteTmp(p)
    <3>1. fd[p] = "tmp" /\ tmp = Blank("empty")
      BY <2>4 DEF WriteTmp, SerialInv, Files
    <3>2. Overlaid(tmp, work[p]) = {Full(work[p])}
      BY <3>1 DEF Overlaid
    <3>3. tmp' = Full(work[p]) /\ queue' = queue
      BY <2>4, <3>1, <3>2 DEF WriteTmp
    <3> QED BY <2>4, <3>3, MoveOnKeepsSerial DEF WriteTmp, Goto, Labels, history
  <2>5. CASE Rename(p)
    BY <1>1, <2>5, RenameKeepsSerial
  <2>6. CASE RenameFails(p)
    <3>1. FALSE
      BY <2>6 DEF RenameFails, SerialInv, Files, Full
    <3> QED BY <3>1
  <2>7. CASE SetHasMail(p) \/ ClearHasMail(p)
    <3>1. fd' = [fd EXCEPT ![p] = "none"]
      BY <2>7 DEF SetHasMail, ClearHasMail, SerialInv, Base, TypeOK, Files
    <3> QED
      BY <2>7, <3>1, MoveOnKeepsSerial
         DEF SetHasMail, ClearHasMail, Goto, Labels, history
  <2>8. CASE Receipt(p)
    <3>1. queue' = queue /\ taken' = taken
      BY <2>8 DEF Receipt, disk
    <3>2. Files' /\ \A q \in Procs : Errand(q)'
      BY <2>8, <3>1, EndKeepsFiles DEF Receipt, SerialInv, Files
    <3>3. Range(cargo[p]) \subseteq Known
      <4>1. Len(cargo[p]) = 1 /\ cargo[p][1] \in Known
        BY <2>8 DEF Receipt, SerialInv, Errand
      <4>2. DOMAIN cargo[p] = 1 .. Len(cargo[p])
        BY DEF SerialInv, Base, TypeOK
      <4> QED BY <4>1, <4>2 DEF Range
    <3>4. receipts' \subseteq Known
      BY <2>8, <3>3 DEF Receipt, SerialInv, Ledger
    <3>5. Ledger'
      BY <3>1, <3>4 DEF SerialInv, Ledger, Known
    <3> QED BY <3>2, <3>5
  <2>9. CASE Render(p)
    <3>1. queue' = queue /\ taken' = taken /\ receipts' = receipts
      BY <2>9 DEF Render, disk
    <3>2. Files' /\ \A q \in Procs : Errand(q)'
      BY <2>9, <3>1, EndKeepsFiles DEF Render, SerialInv, Files
    <3> QED BY <3>1, <3>2, LedgerUnchanged DEF SerialInv
  <2> QED
    BY <1>3, <2>1, <2>2, <2>3, <2>4, <2>5, <2>6, <2>7, <2>8, <2>9 DEF Step, Save
<1>4. ASSUME NEW p \in Procs, Die(p) PROVE Rest
  <2>1. fd[p] # "queue"
    BY DEF SerialInv, Files
  <2>2. queue' = queue /\ taken' = taken /\ receipts' = receipts
    BY <1>4, <2>1 DEF Die, Torn, history
  <2>3. Files' /\ \A q \in Procs : Errand(q)'
    BY <1>4, <2>2, EndKeepsFiles DEF Die, SerialInv, Files
  <2> QED BY <2>2, <2>3, LedgerUnchanged DEF SerialInv
<1>5. CASE UNCHANGED vars
  <2>1. UNCHANGED << queue, tmp, pc, verb, work, cargo, fresh, fd, receipts, taken >>
    BY <1>5 DEF vars, disk, procs, history
  <2>2. Files'
    BY <2>1 DEF SerialInv, Files
  <2>3. Ledger' /\ Known' = Known
    BY <2>1, LedgerUnchanged DEF SerialInv
  <2>4. \A q \in Procs : Errand(q)'
    BY <2>1, <2>3 DEF SerialInv, Errand, Publishing, Draining
  <2> QED BY <1>1, <2>2, <2>3, <2>4 DEF SerialInv
<1> QED BY <1>1, <1>2, <1>3, <1>4, <1>5 DEF Next, SerialInv

\* The initial state satisfies the invariant.
LEMMA InitSerial == Init => SerialInv
<1> SUFFICES ASSUME Init PROVE SerialInv
  OBVIOUS
<1>1. Base
  BY InitBase
<1>2. Files
  BY DEF Init, Files, Blank
<1>3. /\ taken = << >> /\ receipts = {}
      /\ queue.rec.stream = << >> /\ queue.rec.journal = EmptyJournal
  BY DEF Init, Blank, EmptyStore
<1>4. Range(<< >>) = {} /\ 1 .. Len(<< >>) = {}
  BY DEF Range
<1>5. Ledger
  BY <1>3, <1>4 DEF Ledger, Known, EmptyJournal
<1>6. \A p \in Procs : Errand(p)
  BY DEF Init, Errand
<1> QED BY <1>1, <1>2, <1>5, <1>6 DEF SerialInv

\* With serialized verbs, and whatever of them fail, the queue file is never
\* half-written.
THEOREM SerializedWhole == ASSUME Serialized PROVE Spec => []QueueFileWhole
<1>1. SerialInv => QueueFileWhole
  BY DEF SerialInv, Files, QueueFileWhole
<1> QED BY <1>1, InitSerial, NextSerial, PTL DEF Spec

\* With serialized verbs, and whatever of them fail, nothing acknowledged is
\* lost from the queue.
THEOREM SerializedLossless == ASSUME Serialized PROVE Spec => []NothingLost
<1>1. SerialInv => NothingLost
  BY DEF SerialInv, Ledger, Known, NothingLost
<1> QED BY <1>1, InitSerial, NextSerial, PTL DEF Spec

\* What is known carries distinct ids: within the queue by Coherent, within
\* taken by Ledger, and across the two because the journal tells them apart.
LEMMA KnownByTheirIds ==
    ASSUME SerialInv, NEW a \in Known, NEW b \in Known, a.id = b.id
    PROVE  a = b
<1> DEFINE st == queue.rec.stream
           j == queue.rec.journal
<1>1. /\ Coherent(queue.rec) /\ st \in Seq(Envelope) /\ taken \in Seq(Envelope)
  BY DEF SerialInv, Base, TypeOK, RecordsCoherent, File, Store
<1>2. \A env \in Range(st) : j[env.id] = "prepared"
  BY <1>1, IdsOfRange DEF Coherent, PreparedIsPending, IdsIn
<1>3. \A env \in Range(taken) : j[env.id] = "admitted"
  BY DEF SerialInv, Ledger
<1>4. CASE a \in Range(st) /\ b \in Range(st)
  <2>1. PICK i \in 1 .. Len(st), k \in 1 .. Len(st) : a = st[i] /\ b = st[k]
    BY <1>1, <1>4 DEF Range
  <2> QED BY <1>1, <2>1 DEF Coherent, PendingOnce
<1>5. CASE a \in Range(taken) /\ b \in Range(taken)
  <2>1. PICK i \in 1 .. Len(taken), k \in 1 .. Len(taken) :
          a = taken[i] /\ b = taken[k]
    BY <1>1, <1>5 DEF Range
  <2> QED BY <2>1 DEF SerialInv, Ledger
<1> QED BY <1>2, <1>3, <1>4, <1>5 DEF Known

\* With serialized verbs an effect id stands for one event for ever.
THEOREM SerializedIds == ASSUME Serialized PROVE Spec => []IdNamesOneEvent
<1>1. ASSUME SerialInv PROVE IdNamesOneEvent
  <2>1. receipts \cup Range(queue.rec.stream) \cup Range(taken) = Known
    BY <1>1 DEF SerialInv, Ledger, Known
  <2> QED BY <1>1, <2>1, KnownByTheirIds DEF IdNamesOneEvent
<1>2. SerialInv => IdNamesOneEvent
  BY <1>1
<1> QED BY <1>2, InitSerial, NextSerial, PTL DEF Spec

(***************************************************************************)
(* The refinement of Mailbox, and the advance of the saved journal.        *)
(***************************************************************************)

\* Only Rename and a write through an inode that has become the queue file
\* change the queue; serialized verbs have the first alone.
LEMMA OnlyRename ==
    ASSUME SerialInv, [Next]_vars
    PROVE  \/ \E p \in Procs : Rename(p)
           \/ \E p \in Procs : Receipt(p)
           \/ UNCHANGED << queue, taken, receipts >>
<1>1. \A p \in Procs : fd[p] # "queue"
  BY DEF SerialInv, Files
<1>2. ASSUME NEW p \in Procs, Start(p) PROVE UNCHANGED << queue, taken, receipts >>
  BY <1>2 DEF Start, Send, Deliver, Read, DrainAll, Inject, LoadToDrain, Begin,
              disk, history
<1>3. ASSUME NEW p \in Procs, Die(p) PROVE UNCHANGED << queue, taken, receipts >>
  BY <1>1, <1>3 DEF Die, Torn, history
<1>4. ASSUME NEW p \in Procs, Step(p), ~Rename(p), ~Receipt(p)
      PROVE  UNCHANGED << queue, taken, receipts >>
  <2>1. CASE InjectLoad(p)
    BY <2>1 DEF InjectLoad, LoadToDrain, Begin, disk, history
  <2>2. CASE WriteTmp(p)
    <3>1. fd[p] = "tmp"
      BY <2>2 DEF WriteTmp, SerialInv, Files
    <3> QED BY <2>2, <3>1 DEF WriteTmp, history
  <2>3. CASE ~InjectLoad(p) /\ ~WriteTmp(p)
    BY <1>4, <2>3 DEF Step, Save, InjectFails, OpenTmp, RenameFails, SetHasMail,
                      ClearHasMail, Render, disk, history
  <2> QED BY <2>1, <2>2, <2>3
<1>5. CASE UNCHANGED vars
  BY <1>5 DEF vars, disk, history
<1> QED BY <1>2, <1>3, <1>4, <1>5 DEF Next

\* The saved journal of serialized verbs never goes back.
THEOREM SerializedJournalAdvances ==
    ASSUME Serialized PROVE Spec => JournalAdvances
<1>1. ASSUME SerialInv, [Next]_vars
      PROVE  NoDowngrade(queue.rec.journal, queue'.rec.journal)
  <2>1. queue.rec.journal \in Journal
    BY <1>1 DEF SerialInv, Base, TypeOK, File, Store
  <2>2. CASE queue' = queue
    BY <2>1, <2>2, JournalForward
  <2>3. ASSUME NEW p \in Procs, Rename(p)
        PROVE  NoDowngrade(queue.rec.journal, queue'.rec.journal)
    <3>1. queue'.rec = work[p] /\ (Publishing(p) \/ Draining(p))
      BY <1>1, <2>3 DEF Rename, SerialInv, Files, Full, Errand
    <3>2. CASE Draining(p)
      BY <2>1, <3>1, <3>2, JournalForward DEF Draining
    <3>3. CASE Publishing(p) /\ ~fresh[p]
      BY <2>1, <3>1, <3>3, JournalForward DEF Publishing
    <3>4. CASE Publishing(p) /\ fresh[p]
      <4>1. cargo[p] \in Seq(Envelope) /\ Len(cargo[p]) = 1
        BY <1>1, <3>4 DEF Publishing, SerialInv, Base, TypeOK
      <4>2. cargo[p][1].id \in EffectIds
        <5>1. cargo[p][1] \in Envelope
          BY <4>1
        <5> QED BY <5>1 DEF Envelope
      <4> QED BY <2>1, <3>1, <3>4, <4>2, JournalForward DEF Publishing
    <3> QED BY <3>1, <3>2, <3>3, <3>4
  <2>4. ASSUME NEW p \in Procs, Receipt(p) PROVE queue' = queue
    BY <2>4 DEF Receipt, disk
  <2> QED BY <1>1, <2>2, <2>3, <2>4, OnlyRename
<1>2. SerialInv /\ [Next]_vars
        => [NoDowngrade(queue.rec.journal, queue'.rec.journal)]_vars
  BY <1>1
<1> QED BY <1>2, InitSerial, NextSerial, PTL DEF Spec, JournalAdvances

\* Serialized verbs implement the abstract mailbox: every step is a Put, a
\* Take, an Acknowledge or a stutter of it, whatever verbs fail meanwhile.
THEOREM SerializedImplementsMailbox ==
    ASSUME Serialized PROVE Spec => ImplementsMailbox
<1> USE DEF AsMailbox!Init, AsMailbox!Next, AsMailbox!vars
<1>1. Init => AsMailbox!Init
  BY DEF Init, Blank, EmptyStore
<1>2. ASSUME SerialInv, [Next]_vars
      PROVE  [AsMailbox!Next]_(AsMailbox!vars)
  <2>1. CASE UNCHANGED << queue, taken, receipts >>
    BY <2>1
  <2>2. ASSUME NEW p \in Procs, Receipt(p) PROVE AsMailbox!Next
    <3>1. Len(cargo[p]) = 1 /\ cargo[p][1] \in Known /\ cargo[p] \in Seq(Envelope)
      BY <1>2, <2>2 DEF Receipt, SerialInv, Errand, Base, TypeOK
    <3>2. cargo[p][1] \in Envelope /\ Range(cargo[p]) = {cargo[p][1]}
      BY <3>1 DEF Range
    <3>3. AsMailbox!Acknowledge(cargo[p][1])
      BY <2>2, <3>1, <3>2 DEF Receipt, AsMailbox!Acknowledge, AsMailbox!Range,
                                    Known, Range, disk
    <3> QED BY <3>2, <3>3
  <2>3. ASSUME NEW p \in Procs, Rename(p)
        PROVE  [AsMailbox!Next]_(AsMailbox!vars)
    <3>1. /\ queue'.rec = work[p]
          /\ Publishing(p) \/ Draining(p)
          /\ receipts' = receipts
      BY <1>2, <2>3 DEF Rename, SerialInv, Files, Full, Errand
    <3>2. CASE Draining(p)
      <4>1. PICK n \in 0 .. Len(queue.rec.stream) :
              /\ n > 0
              /\ cargo[p] = SubSeq(queue.rec.stream, 1, n)
              /\ work[p].stream =
                    SubSeq(queue.rec.stream, n + 1, Len(queue.rec.stream))
        BY <3>2 DEF Draining
      <4>2. taken' = taken \o cargo[p]
        BY <2>3, <3>2 DEF Rename, Draining
      <4>3. AsMailbox!Take(n)
        BY <3>1, <4>1, <4>2 DEF AsMailbox!Take
      <4>4. n \in 1 .. Len(queue.rec.stream)
        BY <4>1
      <4> QED BY <4>3, <4>4
    <3>3. CASE Publishing(p)
      <4>1. taken' = taken /\ Len(cargo[p]) = 1 /\ cargo[p] \in Seq(Envelope)
        BY <1>2, <2>3, <3>3
           DEF Rename, Publishing, Publishers, Readers, SerialInv, Base, TypeOK
      <4>2. cargo[p][1] \in Envelope
        BY <4>1
      <4>3. CASE ~fresh[p]
        BY <3>1, <3>3, <4>1, <4>3 DEF Publishing
      <4>4. CASE fresh[p]
        <5>1. /\ queue.rec.journal[cargo[p][1].id] = "absent"
              /\ queue'.rec.stream = Append(queue.rec.stream, cargo[p][1])
          BY <3>1, <3>3, <4>4 DEF Publishing
        <5>2. \A other \in Known : queue.rec.journal[other.id] # "absent"
          <6>1. queue.rec.stream \in Seq(Envelope) /\ Coherent(queue.rec)
            BY <1>2 DEF SerialInv, Base, TypeOK, RecordsCoherent, File, Store
          <6>2. \A other \in Range(queue.rec.stream) :
                  queue.rec.journal[other.id] = "prepared"
            BY <6>1, IdsOfRange DEF Coherent, PreparedIsPending, IdsIn
          <6> QED BY <1>2, <6>2 DEF Known, SerialInv, Ledger
        <5>3. AsMailbox!Put(cargo[p][1])
          BY <3>1, <4>1, <5>1, <5>2 DEF AsMailbox!Put, AsMailbox!Range, Known, Range
        <5> QED BY <4>2, <5>3
      <4> QED BY <4>3, <4>4
    <3> QED BY <3>1, <3>2, <3>3
  <2> QED BY <1>2, <2>1, <2>2, <2>3, OnlyRename
<1>3. SerialInv /\ [Next]_vars => [AsMailbox!Next]_(AsMailbox!vars)
  BY <1>2
<1> QED
  BY <1>1, <1>3, InitSerial, NextSerial, PTL
     DEF Spec, ImplementsMailbox, AsMailbox!Spec

-------------------------------------------------------------------------------
(***************************************************************************)
(* Serialized verbs and what the world sees of them: the marker, what      *)
(* readers print, and the order they print it in.                          *)
(*                                                                         *)
(* SerialInv relates the memory of a running verb to the queue file it     *)
(* loaded. Here the same is done for the steps after the save: which of    *)
(* them is still to come is what stands between a state of the files and   *)
(* the property, and cutoff remembers that it will not come.               *)
(***************************************************************************)

\* What a running verb knows at each step.
Course(p) ==
    /\ verb[p] = "send" /\ pc[p] \in {"open", "write", "rename"} =>
            fresh[p] /\ cargo[p][1].id \notin RemoteEvents
    /\ verb[p] = "deliver" /\ pc[p] # "idle" => cargo[p][1].id \in RemoteEvents
    /\ pc[p] \in {"clear", "render"} => verb[p] \in Readers
    /\ pc[p] \in {"mark", "receipt"} => verb[p] \in Publishers
    /\ pc[p] = "clear" => IsEmpty(queue.rec)
    /\ pc[p] = "mark" => ~IsEmpty(queue.rec)
    /\ pc[p] = "receipt" /\ verb[p] = "send" => marker

\* Pending mail whose marker must be set: what was acknowledged, and what comes
\* from another host, for a duplicate of it is acknowledged without a marker.
Owed == {env \in Range(queue.rec.stream) :
            env.id \in RemoteEvents \/ env \in receipts}

\* A listener before its marker; its envelope is not acknowledged yet.
Marking(p, env) ==
    /\ pc[p] = "mark" /\ verb[p] = "deliver"
    /\ cargo[p][1] = env /\ env \notin receipts

Signalled ==
    "mark" \notin cutoff =>
        \A env \in Owed : marker \/ \E p \in Procs : Marking(p, env)

Repaired ==
    "clear" \notin cutoff /\ marker /\ IsEmpty(queue.rec) =>
        \E p \in Procs : pc[p] = "clear"

Printing(p, env) == pc[p] \in {"clear", "render"} /\ env \in Range(cargo[p])

Shown ==
    cutoff \subseteq {"mark"} =>
        \A env \in Range(taken) :
            env \in Range(rendered) \/ \E p \in Procs : Printing(p, env)

SignalInv == (\A p \in Procs : Course(p)) /\ Signalled /\ Repaired /\ Shown

\* The three relations with nothing still to come.
Calm ==
    /\ "mark" \notin cutoff => \A env \in Owed : marker
    /\ ~("clear" \notin cutoff /\ marker /\ IsEmpty(queue.rec))
    /\ cutoff \subseteq {"mark"} => Range(taken) \subseteq Range(rendered)

\* What Calm and the relations speak of.
seen == << queue, marker, receipts, taken, rendered, cutoff >>

LEMMA CalmSuffices ==
    ASSUME Calm', \A p \in Procs : Course(p)'
    PROVE  SignalInv'
BY DEF Calm, SignalInv, Signalled, Repaired, Shown

LEMMA CalmLasts == ASSUME Calm, UNCHANGED seen PROVE Calm'
BY DEF Calm, seen, Owed

\* With all others idle, a verb that is not after its save finds calm.
LEMMA CalmBefore ==
    ASSUME SignalInv, NEW p \in Procs,
           \A q \in Procs : q # p => pc[q] = "idle",
           pc[p] \notin {"mark", "clear", "render"}
    PROVE  Calm
BY DEF SignalInv, Signalled, Repaired, Shown, Marking, Printing, Calm

\* Serialized verbs run alone.
LEMMA RunsAlone ==
    ASSUME SerialInv, Serialized, NEW p \in Procs,
           CanStart(p) \/ pc[p] # "idle"
    PROVE  \A q \in Procs : q # p => pc[q] = "idle"
BY Alone DEF SerialInv, CanStart, Live

\* Nobody else's course changes while a verb runs alone.
LEMMA OthersHaveNoCourse ==
    ASSUME SerialInv, NEW p \in Procs, NEW label,
           \A q \in Procs : q # p => pc[q] = "idle",
           Goto(p, label), Course(p)'
    PROVE  \A q \in Procs : Course(q)'
<1>1. \A q \in Procs : q # p => pc'[q] = "idle"
  BY DEF Goto, SerialInv, Base, TypeOK
<1> QED BY <1>1 DEF Course

\* A verb that ends leaves no course.
LEMMA EndHasNoCourse ==
    ASSUME SerialInv, NEW p \in Procs, End(p)
    PROVE  Course(p)'
<1>1. pc'[p] = "idle"
  BY DEF End, Goto, SerialInv, Base, TypeOK
<1> QED BY <1>1 DEF Course

\* Beginning a verb, and loading.
LEMMA BeginKeepsSignal ==
    ASSUME SerialInv, SignalInv, NEW p \in Procs,
           \A q \in Procs : q # p => pc[q] = "idle",
           pc[p] \in {"idle", "load"},
           NEW v, NEW label, NEW s, NEW envs, NEW new,
           Begin(p, v, label, s, envs, new), Course(p)'
    PROVE  SignalInv'
<1>1. Calm
  BY CalmBefore
<1>2. UNCHANGED seen
  BY DEF Begin, seen, disk, history
<1>3. \A q \in Procs : Course(q)'
  BY OthersHaveNoCourse DEF Begin
<1> QED BY <1>1, <1>2, <1>3, CalmLasts, CalmSuffices

LEMMA LoadKeepsSignal ==
    ASSUME SerialInv, SignalInv, NEW p \in Procs,
           \A q \in Procs : q # p => pc[q] = "idle",
           pc[p] \in {"idle", "load"},
           NEW v \in Readers, NEW limit, LoadToDrain(p, v, limit)
    PROVE  SignalInv'
<1>1. CASE IsEmpty(queue.rec)
  <2>1. Begin(p, v, "clear", queue.rec, << >>, FALSE)
    BY <1>1 DEF LoadToDrain
  <2>2. pc'[p] = "clear" /\ verb'[p] = v /\ queue' = queue
    BY <2>1 DEF Begin, Goto, SerialInv, Base, TypeOK, disk
  <2>3. Course(p)'
    BY <1>1, <2>2 DEF Course, Readers
  <2> QED BY <2>1, <2>3, BeginKeepsSignal
<1>2. CASE ~IsEmpty(queue.rec)
  <2>1. Begin(p, v, "open", Drain(queue.rec, limit),
              Drained(queue.rec, limit), FALSE)
    BY <1>2 DEF LoadToDrain
  <2>2. pc'[p] = "open" /\ verb'[p] = v
    BY <2>1 DEF Begin, Goto, SerialInv, Base, TypeOK
  <2>3. Course(p)'
    BY <2>2 DEF Course, Readers
  <2> QED BY <2>1, <2>3, BeginKeepsSignal
<1> QED BY <1>1, <1>2

LEMMA StartKeepsSignal ==
    ASSUME SerialInv, SignalInv, Serialized, NEW p \in Procs, Start(p)
    PROVE  SignalInv'
<1>1. CanStart(p)
  BY DEF Start, Send, Deliver, Read, DrainAll, Inject
<1>2. /\ \A q \in Procs : q # p => pc[q] = "idle"
      /\ pc[p] \in {"idle", "load"}
  BY <1>1, RunsAlone DEF CanStart
<1>3. ASSUME NEW ev \in LocalEvents, Send(p, ev) PROVE SignalInv'
  <2>1. Begin(p, "send", "open", Enqueue(queue.rec, ev),
              << NextEnvelope(queue.rec, ev) >>, TRUE)
    BY <1>3 DEF Send
  <2>2. /\ pc'[p] = "open" /\ verb'[p] = "send" /\ fresh'[p] = TRUE
        /\ cargo'[p] = << NextEnvelope(queue.rec, ev) >>
    BY <2>1 DEF Begin, Goto, SerialInv, Base, TypeOK
  <2>3. NextEnvelope(queue.rec, ev).id \notin RemoteEvents
    <3>1. queue.rec.next_seq \in Nat /\ queue.rec.next_seq < MaxSeq
      BY <1>3 DEF Send, SerialInv, Base, TypeOK, File, Store
    <3> QED BY <3>1, IdsAssumption DEF NextEnvelope, SeqIds
  <2>4. Course(p)'
    BY <2>2, <2>3 DEF Course
  <2> QED BY <1>2, <2>1, <2>4, BeginKeepsSignal
<1>4. ASSUME NEW ev \in RemoteEvents, Deliver(p, ev) PROVE SignalInv'
  <2> DEFINE env == RemoteEnvelope(ev)
  <2>1. Begin(p, "deliver", "open", EnqueueWithId(queue.rec, env), << env >>,
              Appends(queue.rec, env))
    BY <1>4 DEF Deliver
  <2>2. pc'[p] = "open" /\ verb'[p] = "deliver" /\ cargo'[p] = << env >>
    BY <2>1 DEF Begin, Goto, SerialInv, Base, TypeOK
  <2>3. cargo'[p][1].id = ev
    BY <2>2 DEF RemoteEnvelope
  <2>4. Course(p)'
    BY <2>2, <2>3 DEF Course
  <2> QED BY <1>2, <2>1, <2>4, BeginKeepsSignal
<1>5. CASE Read(p)
  BY <1>2, <1>5, LoadKeepsSignal DEF Read, Readers
<1>6. CASE DrainAll(p)
  BY <1>2, <1>6, LoadKeepsSignal DEF DrainAll, Readers
<1>7. CASE Inject(p)
  <2>1. Begin(p, "inject", "load", EmptyStore, << >>, FALSE)
    BY <1>7 DEF Inject
  <2>2. pc'[p] = "load" /\ verb'[p] = "inject"
    BY <2>1 DEF Begin, Goto, SerialInv, Base, TypeOK
  <2>3. Course(p)'
    BY <2>2 DEF Course
  <2> QED BY <1>2, <2>1, <2>3, BeginKeepsSignal
<1> QED BY <1>3, <1>4, <1>5, <1>6, <1>7 DEF Start

\* A step before the save moves a verb on, or ends it, and changes nothing that
\* the relations speak of.
LEMMA MoveKeepsSignal ==
    ASSUME SerialInv, SignalInv, NEW p \in Procs,
           \A q \in Procs : q # p => pc[q] = "idle",
           pc[p] \notin {"mark", "clear", "render"},
           UNCHANGED seen, NEW label, Goto(p, label), Course(p)'
    PROVE  SignalInv'
<1>1. Calm'
  BY CalmBefore, CalmLasts
<1>2. \A q \in Procs : Course(q)'
  BY OthersHaveNoCourse
<1> QED BY <1>1, <1>2, CalmSuffices

LEMMA RenameKeepsSignal ==
    ASSUME SerialInv, SignalInv, NEW p \in Procs, Rename(p),
           \A q \in Procs : q # p => pc[q] = "idle"
    PROVE  SignalInv'
<1> DEFINE st == queue.rec.stream
           env == cargo[p][1]
<1>1. /\ pc[p] = "rename" /\ queue'.rec = work[p]
      /\ Publishing(p) \/ Draining(p)
      /\ Goto(p, AfterSave(p))
      /\ verb' = verb /\ cargo' = cargo /\ marker' = marker
      /\ receipts' = receipts /\ rendered' = rendered /\ cutoff' = cutoff
  BY DEF Rename, SerialInv, Files, Full, Errand
<1>2. /\ st \in Seq(Envelope) /\ taken \in Seq(Envelope)
      /\ cargo[p] \in Seq(Envelope)
      /\ Coherent(queue.rec)
  BY DEF SerialInv, Base, TypeOK, RecordsCoherent, File, Store
<1>3. Calm /\ Course(p)
  BY <1>1, CalmBefore DEF SignalInv
<1>4. pc'[p] = AfterSave(p)
  BY <1>1 DEF Goto, SerialInv, Base, TypeOK
<1>5. CASE Publishing(p) /\ fresh[p]
  <2>1. /\ taken' = taken /\ env \in Envelope
        /\ queue'.rec.stream = Append(st, env)
        /\ queue.rec.journal[env.id] = "absent"
        /\ verb[p] \in Publishers
        /\ pc'[p] = "mark"
    BY <1>1, <1>2, <1>4, <1>5
       DEF Rename, Publishing, Publishers, Readers, AfterSave
  <2>2. Range(queue'.rec.stream) = Range(st) \cup {env}
    BY <1>2, <2>1, RangeAppend
  <2>3. env \notin receipts
    <3>1. \A e \in Range(st) : queue.rec.journal[e.id] = "prepared"
      BY <1>2, IdsOfRange DEF Coherent, PreparedIsPending, IdsIn
    <3> QED BY <2>1, <3>1 DEF SerialInv, Ledger, Known
  <2>4. ~IsEmpty(queue'.rec)
    <3>1. env \in Range(queue'.rec.stream)
      BY <2>2
    <3>2. Range(<< >>) = {}
      BY DEF Range
    <3> QED BY <3>1, <3>2 DEF IsEmpty
  <2>5. Course(p)'
    BY <1>1, <1>3, <1>4, <2>1, <2>4 DEF Course
  <2>6. \A q \in Procs : Course(q)'
    BY <1>1, <2>5, OthersHaveNoCourse
  <2>7. ASSUME "mark" \notin cutoff', NEW e \in Owed'
        PROVE  marker' \/ Marking(p, e)'
    <3>1. CASE e \in Range(st)
      BY <1>1, <1>3, <2>7, <3>1 DEF Calm, Owed
    <3>2. CASE e = env
      <4>1. env.id \in RemoteEvents
        BY <1>1, <2>3, <2>7, <3>2 DEF Owed
      <4>2. verb[p] = "deliver"
        BY <1>1, <1>3, <2>1, <4>1 DEF Course, Publishers
      <4> QED BY <1>1, <2>1, <2>3, <3>2, <4>2 DEF Marking
    <3> QED BY <2>2, <2>7, <3>1, <3>2 DEF Owed
  <2>8. Signalled' /\ Repaired' /\ Shown'
    <3>1. Signalled'
      BY <2>7 DEF Signalled
    <3>2. Repaired'
      BY <2>4 DEF Repaired
    <3>3. Shown'
      BY <1>1, <1>3, <2>1 DEF Shown, Calm
    <3> QED BY <3>1, <3>2, <3>3
  <2> QED BY <2>6, <2>8 DEF SignalInv
<1>6. CASE Publishing(p) /\ ~fresh[p]
  <2>1. /\ taken' = taken /\ queue'.rec.stream = st
        /\ verb[p] = "deliver" /\ pc'[p] = "receipt"
    BY <1>1, <1>3, <1>4, <1>6
       DEF Rename, Publishing, Publishers, Readers, AfterSave, Course
  <2>2. Calm'
    BY <1>1, <1>3, <2>1 DEF Calm, Owed, IsEmpty
  <2>3. Course(p)'
    BY <1>1, <1>3, <2>1 DEF Course, Publishers
  <2>4. \A q \in Procs : Course(q)'
    BY <1>1, <2>3, OthersHaveNoCourse
  <2> QED BY <2>2, <2>4, CalmSuffices
<1>7. CASE Draining(p)
  <2>1. /\ taken' = taken \o cargo[p]
        /\ verb[p] \in Readers
        /\ pc'[p] = IF IsEmpty(queue'.rec) THEN "clear" ELSE "render"
    BY <1>1, <1>4, <1>7 DEF Rename, Draining, Publishers, Readers, AfterSave
  <2>2. Range(queue'.rec.stream) \subseteq Range(st)
    BY <1>1, <1>2, <1>7, RangeSplit DEF Draining
  <2>3. Range(taken') = Range(taken) \cup Range(cargo[p])
    BY <1>2, <2>1, RangeConcatenation
  <2>4. Course(p)'
    BY <1>1, <2>1 DEF Course, Readers
  <2>5. \A q \in Procs : Course(q)'
    BY <1>1, <2>4, OthersHaveNoCourse
  <2>6. Signalled'
    BY <1>1, <1>3, <2>2 DEF Signalled, Calm, Owed
  <2>7. Repaired'
    BY <2>1 DEF Repaired
  <2>8. Shown'
    BY <1>1, <1>3, <2>1, <2>3 DEF Shown, Calm, Printing
  <2> QED BY <2>5, <2>6, <2>7, <2>8 DEF SignalInv
<1> QED BY <1>1, <1>5, <1>6, <1>7

\* The steps after the save.
LEMMA AfterSaveKeepsSignal ==
    ASSUME SerialInv, SignalInv, NEW p \in Procs,
           SetHasMail(p) \/ ClearHasMail(p) \/ Receipt(p) \/ Render(p),
           \A q \in Procs : q # p => pc[q] = "idle"
    PROVE  SignalInv'
<1> USE DEF disk, history
<1>1. Course(p)
  BY DEF SignalInv
<1>2. CASE SetHasMail(p)
  <2>1. /\ pc[p] = "mark" /\ pc'[p] = "receipt" /\ Goto(p, "receipt")
        /\ marker' = TRUE /\ verb' = verb /\ cargo' = cargo
    BY <1>2 DEF SetHasMail, Goto, SerialInv, Base, TypeOK
  <2>2. UNCHANGED << queue, receipts, taken, rendered, cutoff >>
    BY <1>2 DEF SetHasMail
  <2>3. ~IsEmpty(queue.rec)
    BY <1>1, <2>1 DEF Course
  <2>4. cutoff \subseteq {"mark"} => Range(taken) \subseteq Range(rendered)
    BY <2>1 DEF SignalInv, Shown, Printing
  <2>5. Calm'
    BY <2>1, <2>2, <2>3, <2>4 DEF Calm
  <2>6. Course(p)'
    BY <1>1, <2>1 DEF Course
  <2> QED BY <2>1, <2>5, <2>6, OthersHaveNoCourse, CalmSuffices
<1>3. CASE ClearHasMail(p)
  <2>1. /\ pc[p] = "clear" /\ pc'[p] = "render" /\ Goto(p, "render")
        /\ marker' = FALSE /\ verb' = verb /\ cargo' = cargo
    BY <1>3 DEF ClearHasMail, Goto, SerialInv, Base, TypeOK
  <2>2. UNCHANGED << queue, receipts, taken, rendered, cutoff >>
    BY <1>3 DEF ClearHasMail
  <2>3. queue.rec.stream = << >>
    BY <1>1, <2>1 DEF Course, IsEmpty
  <2>4. Owed' = {}
    BY <2>2, <2>3 DEF Owed, Range
  <2>5. \A env : (\E q \in Procs : Printing(q, env)) => Printing(p, env)'
    BY <2>1 DEF Printing
  <2>6. Signalled' /\ Repaired' /\ Shown'
    <3>1. Signalled'
      BY <2>4 DEF Signalled
    <3>2. Repaired'
      BY <2>1 DEF Repaired
    <3>3. Shown'
      BY <2>2, <2>5 DEF SignalInv, Shown
    <3> QED BY <3>1, <3>2, <3>3
  <2>7. Course(p)'
    BY <1>1, <2>1 DEF Course, Readers
  <2>8. \A q \in Procs : Course(q)'
    BY <2>1, <2>7, OthersHaveNoCourse
  <2> QED BY <2>6, <2>8 DEF SignalInv
<1>4. CASE Receipt(p)
  <2>1. /\ pc[p] = "receipt" /\ End(p)
        /\ receipts' = receipts \cup Range(cargo[p])
        /\ UNCHANGED << queue, marker, taken, rendered, cutoff >>
    BY <1>4 DEF Receipt
  <2>2. Calm
    BY <2>1, CalmBefore
  <2>3. Range(cargo[p]) = {cargo[p][1]}
    <3>1. Len(cargo[p]) = 1 /\ cargo[p] \in Seq(Envelope)
      BY <2>1 DEF SerialInv, Errand, Base, TypeOK
    <3> QED BY <3>1 DEF Range
  <2>4. \/ verb[p] = "send" /\ marker
        \/ verb[p] = "deliver" /\ cargo[p][1].id \in RemoteEvents
    BY <1>1, <2>1 DEF Course, Publishers
  <2>5. "mark" \notin cutoff => \A env \in Owed' : marker
    BY <2>1, <2>2, <2>3, <2>4 DEF Calm, Owed
  <2>6. Calm'
    BY <2>1, <2>2, <2>5 DEF Calm
  <2> QED BY <2>1, <2>6, EndHasNoCourse, OthersHaveNoCourse, CalmSuffices DEF End
<1>5. CASE Render(p)
  <2>1. /\ pc[p] = "render" /\ End(p)
        /\ rendered' = rendered \o cargo[p]
        /\ UNCHANGED << queue, marker, receipts, taken, cutoff >>
    BY <1>5 DEF Render
  <2>2. Range(rendered') = Range(rendered) \cup Range(cargo[p])
    BY <2>1, RangeConcatenation DEF SerialInv, Base, TypeOK
  <2>3. cutoff \subseteq {"mark"} => Range(taken) \subseteq Range(rendered')
    BY <2>1, <2>2 DEF SignalInv, Shown, Printing
  <2>4. "mark" \notin cutoff => \A env \in Owed : marker
    BY <2>1 DEF SignalInv, Signalled, Marking
  <2>5. ~("clear" \notin cutoff /\ marker /\ IsEmpty(queue.rec))
    BY <2>1 DEF SignalInv, Repaired
  <2>6. Calm'
    BY <2>1, <2>3, <2>4, <2>5 DEF Calm, Owed
  <2> QED BY <2>1, <2>6, EndHasNoCourse, OthersHaveNoCourse, CalmSuffices DEF End
<1> QED BY <1>2, <1>3, <1>4, <1>5

\* A death after the save is entered in cutoff, but that of a `send`, which
\* leaves nothing owed behind.
LEMMA DieKeepsSignal ==
    ASSUME SerialInv, SignalInv, NEW p \in Procs, Die(p),
           \A q \in Procs : q # p => pc[q] = "idle"
    PROVE  SignalInv'
<1>1. /\ pc[p] # "idle" /\ End(p)
      /\ cutoff' = IF verb[p] = "send" THEN cutoff
                   ELSE cutoff \cup ({pc[p]} \cap AfterSaves)
      /\ UNCHANGED << marker, receipts, taken, rendered >>
  BY DEF Die
<1>2. queue' = queue
  <2>1. fd[p] # "queue"
    BY DEF SerialInv, Files
  <2> QED BY <2>1 DEF Die, Torn
<1>3. Course(p)
  BY DEF SignalInv
<1>4. \A q \in Procs : Course(q)'
  BY <1>1, EndHasNoCourse, OthersHaveNoCourse DEF End
<1>5. "mark" \notin cutoff' => \A env \in Owed : marker
  <2> SUFFICES ASSUME "mark" \notin cutoff', NEW env \in Owed PROVE marker
    OBVIOUS
  <2>1. ~(pc[p] = "mark" /\ verb[p] = "deliver")
    BY <1>1 DEF AfterSaves
  <2> QED BY <1>1, <2>1 DEF SignalInv, Signalled, Marking
<1>6. ~("clear" \notin cutoff' /\ marker /\ IsEmpty(queue.rec))
  <2> SUFFICES ASSUME "clear" \notin cutoff', marker, IsEmpty(queue.rec)
               PROVE  FALSE
    OBVIOUS
  <2>1. pc[p] # "clear"
    BY <1>1, <1>3 DEF Course, Readers, AfterSaves
  <2>2. "clear" \notin cutoff
    BY <1>1
  <2> QED BY <2>1, <2>2 DEF SignalInv, Repaired
<1>7. cutoff' \subseteq {"mark"} => Range(taken) \subseteq Range(rendered)
  <2> SUFFICES ASSUME cutoff' \subseteq {"mark"}, NEW env \in Range(taken)
               PROVE  env \in Range(rendered)
    OBVIOUS
  <2>1. pc[p] \notin {"clear", "render"}
    BY <1>1, <1>3 DEF Course, Readers, AfterSaves
  <2>2. cutoff \subseteq {"mark"}
    BY <1>1
  <2> QED BY <2>1, <2>2 DEF SignalInv, Shown, Printing
<1>8. Calm'
  BY <1>1, <1>2, <1>5, <1>6, <1>7 DEF Calm, Owed
<1> QED BY <1>4, <1>8, CalmSuffices

LEMMA InitSignal == Init => SignalInv
<1> SUFFICES ASSUME Init PROVE SignalInv
  OBVIOUS
<1>1. \A p \in Procs : Course(p)
  BY DEF Init, Course
<1>2. Range(queue.rec.stream) = {} /\ Range(taken) = {} /\ marker = FALSE
  BY DEF Init, Blank, EmptyStore, Range
<1>3. Signalled
  BY <1>2 DEF Signalled, Owed
<1>4. Repaired
  BY <1>2 DEF Repaired
<1>5. Shown
  BY <1>2 DEF Shown
<1> QED BY <1>1, <1>3, <1>4, <1>5 DEF SignalInv

LEMMA NextSignal ==
    Serialized /\ SerialInv /\ SignalInv /\ [Next]_vars => SignalInv'
<1> SUFFICES ASSUME Serialized, SerialInv, SignalInv, [Next]_vars
             PROVE  SignalInv'
  OBVIOUS
<1>1. ASSUME NEW p \in Procs, Start(p) PROVE SignalInv'
  BY <1>1, StartKeepsSignal
<1>2. ASSUME NEW p \in Procs, Step(p) PROVE SignalInv'
  <2>1. pc[p] # "idle"
    BY <1>2 DEF Step, Save, InjectLoad, InjectFails, OpenTmp, WriteTmp, Rename,
                RenameFails, SetHasMail, ClearHasMail, Receipt, Render
  <2>2. \A q \in Procs : q # p => pc[q] = "idle"
    BY <2>1, RunsAlone
  <2>3. Course(p)
    BY DEF SignalInv
  <2>4. CASE InjectLoad(p)
    BY <2>2, <2>4, LoadKeepsSignal DEF InjectLoad, Readers
  <2>5. CASE InjectFails(p)
    <3>1. pc[p] = "load" /\ UNCHANGED seen /\ Goto(p, "idle") /\ Course(p)'
      BY <2>5, EndHasNoCourse DEF InjectFails, End, seen, disk, history
    <3> QED BY <2>2, <3>1, MoveKeepsSignal
  <2>6. CASE OpenTmp(p)
    <3>1. /\ pc[p] = "open" /\ UNCHANGED seen /\ Goto(p, "write")
          /\ pc'[p] = "write" /\ verb' = verb /\ cargo' = cargo /\ fresh' = fresh
      BY <2>6 DEF OpenTmp, Goto, seen, history, SerialInv, Base, TypeOK
    <3>2. Course(p)'
      BY <2>3, <3>1 DEF Course
    <3> QED BY <2>2, <3>1, <3>2, MoveKeepsSignal
  <2>7. CASE WriteTmp(p)
    <3>1. fd[p] = "tmp"
      BY <2>7 DEF WriteTmp, SerialInv, Files
    <3>2. /\ pc[p] = "write" /\ UNCHANGED seen /\ Goto(p, "rename")
          /\ pc'[p] = "rename" /\ verb' = verb /\ cargo' = cargo /\ fresh' = fresh
      BY <2>7, <3>1 DEF WriteTmp, Goto, seen, history, SerialInv, Base, TypeOK
    <3>3. Course(p)'
      BY <2>3, <3>2 DEF Course
    <3> QED BY <2>2, <3>2, <3>3, MoveKeepsSignal
  <2>8. CASE Rename(p)
    BY <2>2, <2>8, RenameKeepsSignal
  <2>9. CASE RenameFails(p)
    <3>1. FALSE
      BY <2>9 DEF RenameFails, SerialInv, Files, Full
    <3> QED BY <3>1
  <2>10. CASE SetHasMail(p) \/ ClearHasMail(p) \/ Receipt(p) \/ Render(p)
    BY <2>2, <2>10, AfterSaveKeepsSignal
  <2> QED BY <1>2, <2>4, <2>5, <2>6, <2>7, <2>8, <2>9, <2>10 DEF Step, Save
<1>3. ASSUME NEW p \in Procs, Die(p) PROVE SignalInv'
  <2>1. \A q \in Procs : q # p => pc[q] = "idle"
    BY <1>3, RunsAlone DEF Die
  <2> QED BY <1>3, <2>1, DieKeepsSignal
<1>4. CASE UNCHANGED vars
  BY <1>4 DEF vars, disk, procs, history, SignalInv, Course, Signalled, Marking,
              Owed, Repaired, Shown, Printing
<1> QED BY <1>1, <1>2, <1>3, <1>4 DEF Next

\* With serialized verbs, acknowledged mail stands without its marker only after
\* a listener died between its save and its marker (send_to_with_id).
THEOREM SerializedSignals ==
    ASSUME Serialized PROVE Spec => []OnlyDeliverUnsignals
<1>1. ASSUME SerialInv, SignalInv PROVE OnlyDeliverUnsignals
  <2> SUFFICES ASSUME "mark" \notin cutoff, NEW r \in receipts,
                      r.id \in IdsOf(queue.rec.stream)
               PROVE  marker
    BY DEF OnlyDeliverUnsignals, AckedIsSignalled
  <2>1. queue.rec.stream \in Seq(Envelope)
    BY <1>1 DEF SerialInv, Base, TypeOK, File, Store
  <2>2. PICK env \in Range(queue.rec.stream) : env.id = r.id
    BY <2>1, IdsOfRange
  <2>3. r \in Known /\ env \in Known
    BY <1>1, <2>2 DEF SerialInv, Ledger, Known
  <2>4. env = r
    BY <1>1, <2>2, <2>3, KnownByTheirIds
  <2> QED BY <1>1, <2>2, <2>4 DEF SignalInv, Signalled, Owed, Marking
<1>2. SerialInv /\ SignalInv => OnlyDeliverUnsignals
  BY <1>1
<1> QED BY <1>2, InitSerial, NextSerial, InitSignal, NextSignal, PTL DEF Spec

\* With serialized verbs, the marker stands over an empty queue between verbs
\* only after a reader died before it cleared it.
THEOREM SerializedWakes == ASSUME Serialized PROVE Spec => []NoSpuriousWake
<1>1. ASSUME SignalInv PROVE NoSpuriousWake
  BY <1>1 DEF SignalInv, Repaired, NoSpuriousWake, Quiet, Live
<1>2. SignalInv => NoSpuriousWake
  BY <1>1
<1> QED BY <1>2, InitSerial, NextSerial, InitSignal, NextSignal, PTL DEF Spec

\* With serialized verbs, what was taken has been printed between verbs, unless
\* a reader died after its save.
THEOREM SerializedShows == ASSUME Serialized PROVE Spec => []TakenIsShown
<1>1. ASSUME SignalInv PROVE TakenIsShown
  <2> SUFFICES ASSUME Quiet, cutoff \subseteq {"mark"}, NEW env \in Range(taken)
               PROVE  env \in Range(rendered)
    BY DEF TakenIsShown
  <2>1. \A p \in Procs : pc[p] = "idle"
    BY DEF Quiet, Live
  <2> QED BY <1>1, <2>1 DEF SignalInv, Shown, Printing
<1>2. SignalInv => TakenIsShown
  BY <1>1
<1> QED BY <1>2, InitSerial, NextSerial, InitSignal, NextSignal, PTL DEF Spec

(***************************************************************************)
(* The order of turns.                                                     *)
(***************************************************************************)
\* What the memory of a running verb has to do with the order.
Turn(p) ==
    /\ verb[p] = "send" /\ pc[p] \in {"open", "write", "rename"} =>
            cargo[p][1].id = queue.rec.next_seq
    /\ pc[p] \in {"clear", "render"} =>
            /\ Ordered(cargo[p])
            /\ Range(cargo[p]) \subseteq Range(taken)
            /\ Precedes(rendered, cargo[p])

OrderInv ==
    /\ Ordered(queue.rec.stream)
    /\ Precedes(taken, queue.rec.stream)
    /\ Range(rendered) \subseteq Range(taken)
    /\ Ordered(rendered)
    /\ \A p \in Procs : Turn(p)

\* A step of p alone that leaves the queue and the histories.
LEMMA MoveKeepsOrder ==
    ASSUME SerialInv, OrderInv, NEW p \in Procs,
           \A q \in Procs : q # p => pc[q] = "idle",
           UNCHANGED << queue, taken, rendered >>,
           NEW label, Goto(p, label), Turn(p)'
    PROVE  OrderInv'
<1>1. \A q \in Procs : q # p => pc'[q] = "idle"
  BY DEF Goto, SerialInv, Base, TypeOK
<1>2. \A q \in Procs : Turn(q)'
  BY <1>1 DEF Turn
<1> QED BY <1>2 DEF OrderInv

LEMMA BeginKeepsOrder ==
    ASSUME SerialInv, OrderInv, NEW p \in Procs,
           \A q \in Procs : q # p => pc[q] = "idle",
           NEW v, NEW label \in {"load", "open", "clear"},
           NEW s, NEW envs, NEW new, Begin(p, v, label, s, envs, new),
           v = "send" => envs[1].id = queue.rec.next_seq,
           label = "clear" => envs = << >>
    PROVE  OrderInv'
<1>1. /\ pc'[p] = label /\ verb'[p] = v /\ cargo'[p] = envs /\ Goto(p, label)
      /\ UNCHANGED << queue, taken, rendered >>
  BY DEF Begin, Goto, SerialInv, Base, TypeOK, disk, history
<1>2. Ordered(<< >>) /\ Range(<< >>) = {}
  BY DEF Ordered, Range
<1>3. Turn(p)'
  BY <1>1, <1>2 DEF Turn, Precedes
<1> QED BY <1>1, <1>3, MoveKeepsOrder

LEMMA LoadKeepsOrder ==
    ASSUME SerialInv, OrderInv, NEW p \in Procs,
           \A q \in Procs : q # p => pc[q] = "idle",
           NEW v \in Readers, NEW limit, LoadToDrain(p, v, limit)
    PROVE  OrderInv'
<1>1. v # "send"
  BY DEF Readers
<1>2. CASE IsEmpty(queue.rec)
  <2>1. Begin(p, v, "clear", queue.rec, << >>, FALSE)
    BY <1>2 DEF LoadToDrain
  <2> QED BY <1>1, <2>1, BeginKeepsOrder
<1>3. CASE ~IsEmpty(queue.rec)
  <2>1. Begin(p, v, "open", Drain(queue.rec, limit),
              Drained(queue.rec, limit), FALSE)
    BY <1>3 DEF LoadToDrain
  <2> QED BY <1>1, <2>1, BeginKeepsOrder
<1> QED BY <1>2, <1>3

LEMMA StartKeepsOrder ==
    ASSUME SerialInv, OrderInv, Serialized, NEW p \in Procs, Start(p)
    PROVE  OrderInv'
<1>1. CanStart(p)
  BY DEF Start, Send, Deliver, Read, DrainAll, Inject
<1>2. \A q \in Procs : q # p => pc[q] = "idle"
  BY <1>1, RunsAlone
<1>3. ASSUME NEW ev \in LocalEvents, Send(p, ev) PROVE OrderInv'
  <2>1. Begin(p, "send", "open", Enqueue(queue.rec, ev),
              << NextEnvelope(queue.rec, ev) >>, TRUE)
    BY <1>3 DEF Send
  <2>2. << NextEnvelope(queue.rec, ev) >>[1].id = queue.rec.next_seq
    BY DEF NextEnvelope
  <2> QED BY <1>2, <2>1, <2>2, BeginKeepsOrder
<1>4. ASSUME NEW ev \in RemoteEvents, Deliver(p, ev) PROVE OrderInv'
  BY <1>2, <1>4, BeginKeepsOrder DEF Deliver
<1>5. CASE Read(p)
  BY <1>2, <1>5, LoadKeepsOrder DEF Read, Readers
<1>6. CASE DrainAll(p)
  BY <1>2, <1>6, LoadKeepsOrder DEF DrainAll, Readers
<1>7. CASE Inject(p)
  BY <1>2, <1>7, BeginKeepsOrder DEF Inject
<1> QED BY <1>3, <1>4, <1>5, <1>6, <1>7 DEF Start

\* The journal knows every envelope pending or taken.
LEMMA KnownIsJournaled ==
    ASSUME SerialInv, NEW e \in Known
    PROVE  queue.rec.journal[e.id] # "absent"
<1>1. queue.rec.stream \in Seq(Envelope) /\ Coherent(queue.rec)
  BY DEF SerialInv, Base, TypeOK, RecordsCoherent, File, Store
<1>2. \A other \in Range(queue.rec.stream) :
        queue.rec.journal[other.id] = "prepared"
  BY <1>1, IdsOfRange DEF Coherent, PreparedIsPending, IdsIn
<1> QED BY <1>2 DEF Known, SerialInv, Ledger

LEMMA RenameKeepsOrder ==
    ASSUME SerialInv, SignalInv, OrderInv, NEW p \in Procs, Rename(p),
           \A q \in Procs : q # p => pc[q] = "idle"
    PROVE  OrderInv'
<1> DEFINE st == queue.rec.stream
           e == cargo[p][1]
<1>1. /\ pc[p] = "rename" /\ queue'.rec = work[p]
      /\ Publishing(p) \/ Draining(p)
      /\ verb' = verb /\ cargo' = cargo /\ rendered' = rendered
      /\ pc' = [pc EXCEPT ![p] = AfterSave(p)]
  BY DEF Rename, Goto, SerialInv, Files, Full, Errand
<1>2. /\ st \in Seq(Envelope) /\ taken \in Seq(Envelope)
      /\ cargo[p] \in Seq(Envelope) /\ Coherent(queue.rec)
  BY DEF SerialInv, Base, TypeOK, RecordsCoherent, File, Store
<1>3. Course(p) /\ Turn(p)
  BY DEF SignalInv, OrderInv
<1>4. /\ pc'[p] = AfterSave(p)
      /\ \A q \in Procs : q # p => pc'[q] = "idle"
  BY <1>1 DEF SerialInv, Base, TypeOK
<1>5. \A q \in Procs : q # p => Turn(q)'
  BY <1>4 DEF Turn
<1>6. CASE Publishing(p)
  <2>1. /\ taken' = taken /\ e \in Envelope
        /\ pc'[p] \in {"mark", "receipt"}
    BY <1>2, <1>4, <1>6
       DEF Rename, Publishing, Publishers, Readers, AfterSave
  <2>2. Turn(p)'
    BY <2>1 DEF Turn
  <2>3. Ordered(queue'.rec.stream) /\ Precedes(taken, queue'.rec.stream)
    <3>1. CASE ~fresh[p]
      BY <1>1, <1>6, <3>1 DEF Publishing, OrderInv
    <3>2. CASE fresh[p]
      <4>1. /\ queue'.rec.stream = Append(st, e)
            /\ queue.rec.journal[e.id] = "absent"
        BY <1>1, <1>6, <3>2 DEF Publishing
      <4>2. ASSUME NEW a \in Known PROVE Before(a, e)
        <5>1. queue.rec.journal[a.id] # "absent"
          BY KnownIsJournaled
        <5>2. ASSUME a.id \in SeqIds, e.id \in SeqIds PROVE a.id < e.id
          <6>1. verb[p] = "send"
            BY <1>1, <1>3, <1>6, <5>2, IdsAssumption
               DEF Course, Publishing, Publishers
          <6>2. e.id = queue.rec.next_seq
            BY <1>1, <1>3, <6>1 DEF Turn
          <6> QED BY <1>2, <5>1, <5>2, <6>2 DEF Coherent, SequenceAhead
        <5> QED BY <4>1, <5>1, <5>2 DEF Before
      <4>3. Range(queue'.rec.stream) = Range(st) \cup {e}
        BY <1>2, <2>1, <4>1, RangeAppend
      <4>4. Ordered(queue'.rec.stream)
        BY <1>2, <2>1, <4>1, <4>2, OrderedAppend DEF OrderInv, Known
      <4>5. Precedes(taken, queue'.rec.stream)
        BY <4>2, <4>3 DEF OrderInv, Precedes, Known
      <4> QED BY <4>4, <4>5
    <3> QED BY <3>1, <3>2
  <2> QED BY <1>1, <1>5, <2>1, <2>2, <2>3 DEF OrderInv
<1>7. CASE Draining(p)
  <2>1. PICK n \in 0 .. Len(st) :
          /\ cargo[p] = SubSeq(st, 1, n)
          /\ queue'.rec.stream = SubSeq(st, n + 1, Len(st))
    BY <1>1, <1>7 DEF Draining
  <2>2. taken' = taken \o cargo[p] /\ verb[p] \in Readers
    BY <1>7 DEF Rename, Draining
  <2>3. /\ Ordered(cargo[p]) /\ Ordered(queue'.rec.stream)
        /\ Precedes(cargo[p], queue'.rec.stream)
    BY <1>2, <2>1, OrderedSplit DEF OrderInv
  <2>4. Range(st) = Range(cargo[p]) \cup Range(queue'.rec.stream)
    BY <1>2, <2>1, RangeSplit
  <2>5. Range(taken') = Range(taken) \cup Range(cargo[p])
    BY <1>2, <2>2, RangeConcatenation
  <2>6. Precedes(taken', queue'.rec.stream)
    BY <2>3, <2>4, <2>5 DEF OrderInv, Precedes
  <2>7. Precedes(rendered, cargo[p])
    BY <2>4 DEF OrderInv, Precedes
  <2>8. Turn(p)'
    BY <1>1, <2>2, <2>3, <2>5, <2>7 DEF Turn, Precedes, Readers
  <2> QED BY <1>1, <1>5, <2>3, <2>5, <2>6, <2>8 DEF OrderInv
<1> QED BY <1>1, <1>6, <1>7

LEMMA RenderKeepsOrder ==
    ASSUME SerialInv, OrderInv, NEW p \in Procs, Render(p),
           \A q \in Procs : q # p => pc[q] = "idle"
    PROVE  OrderInv'
<1>1. /\ pc[p] = "render" /\ rendered' = rendered \o cargo[p]
      /\ queue' = queue /\ taken' = taken
  BY DEF Render, disk
<1>2. \A q \in Procs : pc'[q] = "idle"
  BY DEF Render, End, Goto, SerialInv, Base, TypeOK
<1>3. /\ Ordered(cargo[p]) /\ Precedes(rendered, cargo[p])
      /\ Range(cargo[p]) \subseteq Range(taken)
  BY <1>1 DEF OrderInv, Turn
<1>4. rendered \in Seq(Envelope) /\ cargo[p] \in Seq(Envelope)
  BY DEF SerialInv, Base, TypeOK
<1>5. Ordered(rendered')
  BY <1>1, <1>3, <1>4, OrderedConcat DEF OrderInv
<1>6. Range(rendered') \subseteq Range(taken)
  BY <1>1, <1>3, <1>4, RangeConcatenation DEF OrderInv
<1>7. \A q \in Procs : Turn(q)'
  BY <1>2 DEF Turn
<1> QED BY <1>1, <1>5, <1>6, <1>7 DEF OrderInv

LEMMA InitOrder == Init => OrderInv
<1>1. Ordered(<< >>) /\ Range(<< >>) = {}
  BY DEF Ordered, Range
<1>2. Init => /\ queue.rec.stream = << >> /\ taken = << >> /\ rendered = << >>
              /\ \A p \in Procs : Turn(p)
  BY DEF Init, Blank, EmptyStore, Turn
<1> QED BY <1>1, <1>2 DEF OrderInv, Precedes

LEMMA NextOrder ==
    Serialized /\ SerialInv /\ SignalInv /\ OrderInv /\ [Next]_vars => OrderInv'
<1> SUFFICES ASSUME Serialized, SerialInv, SignalInv, OrderInv, [Next]_vars
             PROVE  OrderInv'
  OBVIOUS
<1>1. ASSUME NEW p \in Procs, Start(p) PROVE OrderInv'
  BY <1>1, StartKeepsOrder
<1>2. ASSUME NEW p \in Procs, Step(p) PROVE OrderInv'
  <2>1. pc[p] # "idle"
    BY <1>2 DEF Step, Save, InjectLoad, InjectFails, OpenTmp, WriteTmp, Rename,
                RenameFails, SetHasMail, ClearHasMail, Receipt, Render
  <2>2. \A q \in Procs : q # p => pc[q] = "idle"
    BY <2>1, RunsAlone
  <2>3. Turn(p)
    BY DEF OrderInv
  <2>4. CASE InjectLoad(p)
    BY <2>2, <2>4, LoadKeepsOrder DEF InjectLoad, Readers
  <2>5. CASE InjectFails(p) \/ RenameFails(p) \/ Receipt(p)
    <3>1. UNCHANGED << queue, taken, rendered >> /\ End(p)
      BY <2>5 DEF InjectFails, RenameFails, Receipt, disk, history
    <3>2. Goto(p, "idle") /\ pc'[p] = "idle"
      BY <3>1 DEF End, Goto, SerialInv, Base, TypeOK
    <3>3. Turn(p)'
      BY <3>2 DEF Turn
    <3> QED BY <2>2, <3>1, <3>2, <3>3, MoveKeepsOrder
  <2>6. CASE OpenTmp(p) \/ WriteTmp(p)
    <3>1. UNCHANGED << queue, taken, rendered, verb, cargo >>
      BY <2>6 DEF OpenTmp, WriteTmp, SerialInv, Files, history
    <3>2. /\ pc[p] \in {"open", "write"}
          /\ \E label \in {"write", "rename"} : Goto(p, label) /\ pc'[p] = label
      BY <2>6 DEF OpenTmp, WriteTmp, Goto, SerialInv, Base, TypeOK
    <3>3. Turn(p)'
      BY <2>3, <3>1, <3>2 DEF Turn
    <3> QED BY <2>2, <3>1, <3>2, <3>3, MoveKeepsOrder
  <2>7. CASE SetHasMail(p) \/ ClearHasMail(p)
    <3>1. UNCHANGED << queue, taken, rendered, verb, cargo >>
      BY <2>7 DEF SetHasMail, ClearHasMail, history
    <3>2. \/ Goto(p, "receipt") /\ pc'[p] = "receipt"
          \/ pc[p] = "clear" /\ Goto(p, "render") /\ pc'[p] = "render"
      BY <2>7 DEF SetHasMail, ClearHasMail, Goto, SerialInv, Base, TypeOK
    <3>3. Turn(p)'
      BY <2>3, <3>1, <3>2 DEF Turn, Precedes
    <3> QED BY <2>2, <3>1, <3>2, <3>3, MoveKeepsOrder
  <2>8. CASE Rename(p)
    BY <2>2, <2>8, RenameKeepsOrder
  <2>9. CASE Render(p)
    BY <2>2, <2>9, RenderKeepsOrder
  <2> QED BY <1>2, <2>4, <2>5, <2>6, <2>7, <2>8, <2>9 DEF Step, Save
<1>3. ASSUME NEW p \in Procs, Die(p) PROVE OrderInv'
  <2>1. /\ pc[p] # "idle" /\ End(p) /\ fd[p] # "queue"
        /\ UNCHANGED << taken, rendered >>
    BY <1>3 DEF Die, SerialInv, Files
  <2>2. queue' = queue
    BY <1>3, <2>1 DEF Die, Torn
  <2>3. \A q \in Procs : q # p => pc[q] = "idle"
    BY <2>1, RunsAlone
  <2>4. Goto(p, "idle") /\ pc'[p] = "idle"
    BY <2>1 DEF End, Goto, SerialInv, Base, TypeOK
  <2>5. Turn(p)'
    BY <2>4 DEF Turn
  <2> QED BY <2>1, <2>2, <2>3, <2>4, <2>5, MoveKeepsOrder
<1>4. CASE UNCHANGED vars
  BY <1>4 DEF vars, disk, procs, history, OrderInv, Turn, Precedes
<1> QED BY <1>1, <1>2, <1>3, <1>4 DEF Next

\* With serialized verbs an effect is printed in one turn at most, and local
\* events in the order they were published, wherever verbs die.
THEOREM SerializedOrder == ASSUME Serialized PROVE Spec => []RenderedOnceInOrder
<1>1. OrderInv => RenderedOnceInOrder
  BY DEF OrderInv, Ordered, Before, RenderedOnceInOrder
<1> QED BY <1>1, InitSerial, NextSerial, InitSignal, NextSignal, InitOrder,
           NextOrder, PTL DEF Spec
===============================================================================

--------------------------- MODULE QueueStoreProofs ---------------------------
(***************************************************************************)
(* Lemmas about the pure operations of the journal and of the queue store: *)
(* each takes a well-typed, coherent store to a well-typed, coherent one,  *)
(* and moves the journal only forward.                                     *)
(***************************************************************************)
EXTENDS QueueStore, SequenceTheorems, TLAPS

(***************************************************************************)
(* The journal.                                                            *)
(***************************************************************************)

\* Journal operations stay within the type of journals.
LEMMA JournalTypes ==
    ASSUME NEW j \in Journal, NEW id \in EffectIds, NEW ids
    PROVE  /\ EmptyJournal \in Journal
           /\ Prepare(j, id) \in Journal
           /\ Admit(j, id) \in Journal
           /\ AdmitAll(j, ids) \in Journal
BY DEF Journal, EmptyJournal, Prepare, Admit, AdmitAll, EffectState

\* No operation of the station queue takes an id back in its lifecycle.
LEMMA JournalForward ==
    ASSUME NEW j \in Journal
    PROVE  /\ NoDowngrade(j, j)
           /\ \A id \in EffectIds : NoDowngrade(j, Prepare(j, id))
           /\ \A ids : NoDowngrade(j, AdmitAll(j, ids))
<1>1. /\ Progress["absent"] = 0
      /\ Progress["prepared"] = 1
      /\ Progress["admitted"] = 2
      /\ Progress["consumed"] = 3
  BY DEF Progress, EffectState
<1>2. \A e \in EffectIds : Progress[j[e]] \in {0, 1, 2, 3}
  BY <1>1 DEF Journal, EffectState
<1> QED
  BY <1>1, <1>2 DEF NoDowngrade, Prepare, Prepares, AdmitAll, Admit, Admits,
                    EmptyJournal, Journal

(***************************************************************************)
(* The store.                                                              *)
(***************************************************************************)

\* The store of a first publish.
LEMMA EmptyStoreCoherent == EmptyStore \in Store /\ Coherent(EmptyStore)
<1>1. EmptyStore \in Store
  BY IdsAssumption DEF EmptyStore, Store, EmptyJournal, Journal
<1>2. EmptyStore.stream = << >> /\ EmptyStore.journal = EmptyJournal
  BY DEF EmptyStore
<1>3. IdsIn(EmptyJournal, "prepared") = {}
  BY DEF IdsIn, EmptyJournal
<1>4. IdsOf(<< >>) = {}
  BY DEF IdsOf
<1>5. \A n \in SeqIds : EmptyJournal[n] = "absent"
  BY IdsAssumption DEF EmptyJournal
<1>6. PendingOnce(EmptyStore)
  <2>1. 1 .. Len(<< >>) = {}
    OBVIOUS
  <2> QED BY <1>2, <2>1 DEF PendingOnce
<1>7. PreparedIsPending(EmptyStore) /\ SequenceAhead(EmptyStore)
  BY <1>2, <1>3, <1>4, <1>5 DEF PreparedIsPending, SequenceAhead
<1> QED BY <1>1, <1>6, <1>7 DEF Coherent

\* enqueue_with_id: a fresh id becomes prepared and pending together, a
\* journaled one changes nothing. A local id must already have been drawn.
LEMMA EnqueueWithIdCoherent ==
    ASSUME NEW s \in Store, NEW env \in Envelope, Coherent(s),
           env.id \in SeqIds => env.id < s.next_seq
    PROVE  /\ EnqueueWithId(s, env) \in Store
           /\ Coherent(EnqueueWithId(s, env))
           /\ EnqueueWithId(s, env).next_seq = s.next_seq
<1> DEFINE t == EnqueueWithId(s, env)
<1>1. CASE ~Appends(s, env)
  BY <1>1 DEF EnqueueWithId
<1>2. CASE Appends(s, env)
  <2>1. /\ t = [s EXCEPT !.journal = Prepare(s.journal, env.id),
                         !.stream = Append(s.stream, env)]
        /\ s.journal[env.id] = "absent"
    BY <1>2 DEF EnqueueWithId, Appends, Prepares
  <2>2. /\ s.next_seq \in 0 .. MaxSeq
        /\ s.stream \in Seq(Envelope)
        /\ s.journal \in Journal
        /\ env.id \in EffectIds
    BY DEF Store, Envelope
  <2>3. t \in Store
    <3>1. Prepare(s.journal, env.id) \in Journal
      BY <2>2, JournalTypes
    <3>2. Append(s.stream, env) \in Seq(Envelope)
      BY <2>2
    <3> QED BY <2>1, <2>2, <3>1, <3>2 DEF Store
  <2>4. /\ t.next_seq = s.next_seq
        /\ t.stream = Append(s.stream, env)
        /\ t.journal = [s.journal EXCEPT ![env.id] = "prepared"]
    BY <2>1, <2>2, <2>3 DEF Store, Prepare, Prepares
  <2>5. /\ Len(t.stream) = Len(s.stream) + 1
        /\ t.stream[Len(s.stream) + 1] = env
        /\ \A i \in 1 .. Len(s.stream) : t.stream[i] = s.stream[i]
    BY <2>2, <2>4
  <2>6. env.id \notin IdsOf(s.stream)
    BY <2>1 DEF Coherent, PreparedIsPending, IdsIn
  <2>7. PendingOnce(t)
    <3>1. Len(s.stream) \in Nat
      BY <2>2
    <3>2. \A i \in 1 .. Len(s.stream) : t.stream[i].id # env.id
      BY <2>5, <2>6 DEF IdsOf
    <3>3. \A i, k \in 1 .. Len(s.stream) :
             t.stream[i].id = t.stream[k].id => i = k
      BY <2>5 DEF PendingOnce, Coherent
    <3>4. SUFFICES ASSUME NEW i \in 1 .. Len(s.stream) + 1,
                          NEW k \in 1 .. Len(s.stream) + 1,
                          t.stream[i].id = t.stream[k].id
                   PROVE  i = k
      BY <2>5 DEF PendingOnce
    <3>5. CASE i = Len(s.stream) + 1 \/ k = Len(s.stream) + 1
      BY <2>5, <3>1, <3>2, <3>4, <3>5
    <3>6. CASE i \in 1 .. Len(s.stream) /\ k \in 1 .. Len(s.stream)
      BY <3>3, <3>4, <3>6
    <3> QED BY <3>1, <3>5, <3>6
  <2>8. PreparedIsPending(t)
    <3>1. IdsOf(t.stream) = IdsOf(s.stream) \cup {env.id}
      BY <2>2, <2>5 DEF IdsOf
    <3>2. IdsIn(t.journal, "prepared") = IdsIn(s.journal, "prepared") \cup {env.id}
      BY <2>2, <2>4 DEF IdsIn, Journal
    <3> QED BY <3>1, <3>2 DEF PreparedIsPending, Coherent
  <2>9. SequenceAhead(t)
    BY <2>2, <2>4 DEF SequenceAhead, Coherent, Journal
  <2> QED BY <2>3, <2>4, <2>7, <2>8, <2>9 DEF Coherent
<1> QED BY <1>1, <1>2

\* enqueue: the id it draws is new, so the event is always appended.
LEMMA EnqueueCoherent ==
    ASSUME NEW s \in Store, NEW ev \in Events, Coherent(s), s.next_seq < MaxSeq
    PROVE  /\ NextEnvelope(s, ev) \in Envelope
           /\ Enqueue(s, ev) \in Store
           /\ Coherent(Enqueue(s, ev))
           /\ Enqueue(s, ev).next_seq = s.next_seq + 1
           /\ Enqueue(s, ev).stream = Append(s.stream, NextEnvelope(s, ev))
           /\ Enqueue(s, ev).journal = Prepare(s.journal, s.next_seq)
           /\ s.journal[s.next_seq] = "absent"
<1> DEFINE u == [s EXCEPT !.next_seq = @ + 1]
           env == NextEnvelope(s, ev)
<1>1. /\ s.next_seq \in 0 .. MaxSeq /\ s.next_seq \in SeqIds
      /\ s.stream \in Seq(Envelope)
      /\ s.journal \in Journal
  BY IdsAssumption DEF Store, SeqIds
<1>2. env \in Envelope
  BY <1>1, IdsAssumption DEF NextEnvelope, Envelope
<1>3. /\ u \in Store
      /\ u.next_seq = s.next_seq + 1
      /\ u.stream = s.stream
      /\ u.journal = s.journal
  BY <1>1, IdsAssumption DEF Store
<1>4. s.journal[s.next_seq] = "absent"
  BY <1>1 DEF Coherent, SequenceAhead
<1>5. Coherent(u)
  <2>1. SequenceAhead(u)
    BY <1>1, <1>3 DEF Coherent, SequenceAhead, SeqIds
  <2> QED BY <1>3, <2>1 DEF Coherent, PendingOnce, PreparedIsPending
<1>6. env.id = s.next_seq
  BY DEF NextEnvelope
<1>7. env.id < u.next_seq
  BY <1>1, <1>3, <1>6
<1>8. Enqueue(s, ev) = EnqueueWithId(u, env)
  BY DEF Enqueue
<1>9. /\ EnqueueWithId(u, env).stream = Append(s.stream, env)
      /\ EnqueueWithId(u, env).journal = Prepare(s.journal, s.next_seq)
  BY <1>1, <1>3, <1>4, <1>6 DEF EnqueueWithId, Appends, Prepares, Store
<1> QED
  BY <1>2, <1>3, <1>4, <1>5, <1>7, <1>8, <1>9, EnqueueWithIdCoherent

\* drain: what leaves the stream is exactly what goes from prepared to
\* admitted, so every drained envelope is a first admission.
LEMMA DrainCoherent ==
    ASSUME NEW s \in Store, NEW limit \in Nat, Coherent(s)
    PROVE  /\ Drained(s, limit) \in Seq(Envelope)
           /\ Drain(s, limit) \in Store
           /\ Coherent(Drain(s, limit))
           /\ \A id \in IdsOf(Drained(s, limit)) : Admits(s.journal, id)
<1> DEFINE n == DrainCount(s, limit)
           len == Len(s.stream)
           t == Drain(s, limit)
           out == IdsOf(Drained(s, limit))
<1>1. /\ s.next_seq \in 0 .. MaxSeq
      /\ s.stream \in Seq(Envelope)
      /\ s.journal \in Journal
      /\ len \in Nat
      /\ n \in 0 .. len
  BY DEF Store, DrainCount
<1>2. /\ Drained(s, limit) \in Seq(Envelope)
      /\ Len(Drained(s, limit)) = n
      /\ \A i \in 1 .. n : Drained(s, limit)[i] = s.stream[i]
  BY <1>1 DEF Drained
<1>3. /\ SubSeq(s.stream, n + 1, len) \in Seq(Envelope)
      /\ Len(SubSeq(s.stream, n + 1, len)) = len - n
      /\ \A i \in 1 .. len - n :
            SubSeq(s.stream, n + 1, len)[i] = s.stream[n + i]
  BY <1>1
<1>4. AdmitAll(s.journal, out) \in Journal
  BY <1>1 DEF AdmitAll, Journal, Admit, EffectState
<1>5. /\ t.next_seq = s.next_seq
      /\ t.stream = SubSeq(s.stream, n + 1, len)
      /\ t.journal = AdmitAll(s.journal, out)
      /\ t \in Store
  BY <1>1, <1>3, <1>4 DEF Drain, Store
<1>6. out = {s.stream[i].id : i \in 1 .. n}
  BY <1>2 DEF IdsOf
<1>7. IdsOf(t.stream) = {s.stream[i].id : i \in n + 1 .. len}
  <2>1. IdsOf(t.stream) = {s.stream[n + i].id : i \in 1 .. len - n}
    BY <1>3, <1>5 DEF IdsOf
  <2>2. \A i \in 1 .. len - n : n + i \in n + 1 .. len
    BY <1>1
  <2>3. \A i \in n + 1 .. len : i - n \in 1 .. len - n /\ n + (i - n) = i
    BY <1>1
  <2> QED BY <2>1, <2>2, <2>3
<1>8. /\ IdsOf(s.stream) = out \cup IdsOf(t.stream)
      /\ out \cap IdsOf(t.stream) = {}
  <2>1. IdsOf(s.stream) = {s.stream[i].id : i \in 1 .. len}
    BY DEF IdsOf
  <2>2. \A i \in 1 .. len : i \in 1 .. n \/ i \in n + 1 .. len
    BY <1>1
  <2>3. \A i \in 1 .. n : i \in 1 .. len
    BY <1>1
  <2>4. \A i \in n + 1 .. len : i \in 1 .. len /\ i \notin 1 .. n
    BY <1>1
  <2>5. IdsOf(s.stream) = out \cup IdsOf(t.stream)
    BY <1>6, <1>7, <2>1, <2>2, <2>3, <2>4
  <2>6. out \cap IdsOf(t.stream) = {}
    BY <1>6, <1>7, <2>3, <2>4 DEF Coherent, PendingOnce
  <2> QED BY <2>5, <2>6
<1>9. \A id \in out : Admits(s.journal, id)
  BY <1>8 DEF Coherent, PreparedIsPending, IdsIn, Admits
<1>10. PendingOnce(t)
  <2> SUFFICES ASSUME NEW i \in 1 .. len - n, NEW k \in 1 .. len - n,
                      t.stream[i].id = t.stream[k].id
               PROVE  i = k
    BY <1>3, <1>5 DEF PendingOnce
  <2>1. s.stream[n + i].id = s.stream[n + k].id
    BY <1>3, <1>5
  <2>2. n + i \in 1 .. len /\ n + k \in 1 .. len
    BY <1>1
  <2>3. n + i = n + k
    BY <2>1, <2>2 DEF Coherent, PendingOnce
  <2> QED BY <1>1, <2>3
<1>11. PreparedIsPending(t)
  <2>1. \A id \in EffectIds :
          t.journal[id] = IF id \in out THEN "admitted" ELSE s.journal[id]
    BY <1>1, <1>5, <1>9 DEF AdmitAll, Admit, Journal
  <2>2. IdsIn(t.journal, "prepared") = IdsIn(s.journal, "prepared") \ out
    BY <2>1 DEF IdsIn
  <2> QED BY <1>8, <2>2 DEF PreparedIsPending, Coherent
<1>12. SequenceAhead(t)
  <2>1. \A m \in SeqIds : t.journal[m] # "absent" => s.journal[m] # "absent"
    BY <1>1, <1>5, IdsAssumption DEF AdmitAll, Admit, Admits, Journal
  <2> QED BY <1>5, <2>1 DEF SequenceAhead, Coherent
<1> QED BY <1>2, <1>5, <1>9, <1>10, <1>11, <1>12 DEF Coherent

\* What an enqueue and a drain do to the ids of a journal.
LEMMA EnqueueWithIdJournal ==
    ASSUME NEW s \in Store, NEW env \in Envelope, NEW id \in EffectIds
    PROVE  EnqueueWithId(s, env).journal[id] # "absent"
                <=> s.journal[id] # "absent" \/ id = env.id
<1>1. s.journal \in Journal /\ env.id \in EffectIds
  BY DEF Store, Envelope
<1>2. CASE Prepares(s.journal, env.id)
  <2>1. EnqueueWithId(s, env).journal = Prepare(s.journal, env.id)
    BY <1>2 DEF EnqueueWithId, Appends, Store
  <2>2. Prepare(s.journal, env.id) = [s.journal EXCEPT ![env.id] = "prepared"]
    BY <1>2 DEF Prepare
  <2> QED BY <1>1, <2>1, <2>2 DEF Journal
<1>3. CASE ~Prepares(s.journal, env.id)
  BY <1>1, <1>3 DEF EnqueueWithId, Appends, Prepares
<1> QED BY <1>2, <1>3

LEMMA DrainJournal ==
    ASSUME NEW s \in Store, NEW limit \in Nat, NEW id \in EffectIds
    PROVE  Drain(s, limit).journal[id] # "absent" <=> s.journal[id] # "absent"
<1>1. Drain(s, limit).journal = AdmitAll(s.journal, IdsOf(Drained(s, limit)))
  BY DEF Drain, Store
<1> QED BY <1>1 DEF AdmitAll, Admit, Admits, Store, Journal
(***************************************************************************)
(* Facts about ranges of sequences.                                        *)
(***************************************************************************)
\* Appending adds one element to what a sequence holds.
LEMMA RangeAppend ==
    ASSUME NEW S, NEW seq \in Seq(S), NEW e \in S
    PROVE  Range(Append(seq, e)) = Range(seq) \cup {e}
<1>1. /\ Len(Append(seq, e)) = Len(seq) + 1
      /\ Append(seq, e)[Len(seq) + 1] = e
      /\ \A i \in 1 .. Len(seq) : Append(seq, e)[i] = seq[i]
      /\ Len(seq) \in Nat
  OBVIOUS
<1>2. /\ DOMAIN seq = 1 .. Len(seq)
      /\ DOMAIN Append(seq, e) = 1 .. Len(seq) + 1
  OBVIOUS
<1> QED BY <1>1, <1>2 DEF Range

\* A sequence cut in two holds what its two parts hold.
LEMMA RangeSplit ==
    ASSUME NEW S, NEW seq \in Seq(S), NEW n \in 0 .. Len(seq)
    PROVE  /\ SubSeq(seq, 1, n) \in Seq(S)
           /\ SubSeq(seq, n + 1, Len(seq)) \in Seq(S)
           /\ Range(seq) = Range(SubSeq(seq, 1, n))
                           \cup Range(SubSeq(seq, n + 1, Len(seq)))
<1> DEFINE front == SubSeq(seq, 1, n)
           rest == SubSeq(seq, n + 1, Len(seq))
<1>1. /\ Len(seq) \in Nat
      /\ front \in Seq(S) /\ rest \in Seq(S)
      /\ DOMAIN seq = 1 .. Len(seq)
      /\ DOMAIN front = 1 .. n
      /\ DOMAIN rest = 1 .. Len(seq) - n
      /\ \A i \in 1 .. n : front[i] = seq[i]
      /\ \A i \in 1 .. Len(seq) - n : rest[i] = seq[n + i]
  OBVIOUS
<1>2. \A i \in 1 .. Len(seq) :
        i \in 1 .. n \/ (i - n \in 1 .. Len(seq) - n /\ n + (i - n) = i)
  BY <1>1
<1>3. \A i \in 1 .. Len(seq) - n : n + i \in 1 .. Len(seq)
  BY <1>1
<1>4. \A i \in 1 .. n : i \in 1 .. Len(seq)
  BY <1>1
<1>5. ASSUME NEW i \in 1 .. Len(seq)
      PROVE  seq[i] \in Range(front) \cup Range(rest)
  <2>1. CASE i \in 1 .. n
    BY <1>1, <2>1 DEF Range
  <2>2. CASE i - n \in 1 .. Len(seq) - n /\ n + (i - n) = i
    <3>1. rest[i - n] = seq[i]
      BY <1>1, <2>2
    <3> QED BY <1>1, <2>2, <3>1 DEF Range
  <2> QED BY <1>2, <2>1, <2>2
<1>6. Range(front) \cup Range(rest) \subseteq Range(seq)
  BY <1>1, <1>3, <1>4 DEF Range
<1>7. Range(seq) \subseteq Range(front) \cup Range(rest)
  BY <1>1, <1>5 DEF Range
<1> QED BY <1>1, <1>6, <1>7

\* The ids of a stream are those of what it holds.
LEMMA IdsOfRange ==
    ASSUME NEW S, NEW seq \in Seq(S)
    PROVE  IdsOf(seq) = {env.id : env \in Range(seq)}
BY DEF IdsOf, Range

(***************************************************************************)
(* The order in which envelopes are queued, and what keeps it.             *)
(***************************************************************************)
\* Two effects, the second of which was published later if both are local.
Before(a, b) ==
    /\ a.id # b.id
    /\ {a.id, b.id} \subseteq SeqIds => a.id < b.id

Ordered(seq) ==
    \A i, k \in 1 .. Len(seq) : i < k => Before(seq[i], seq[k])

Precedes(s1, s2) == \A a \in Range(s1), b \in Range(s2) : Before(a, b)

\* One ordered sequence after another, when the first precedes the second.
LEMMA OrderedConcat ==
    ASSUME NEW S, NEW s1 \in Seq(S), NEW s2 \in Seq(S),
           Ordered(s1), Ordered(s2), Precedes(s1, s2)
    PROVE  Ordered(s1 \o s2)
<1>1. /\ Len(s1) \in Nat /\ Len(s2) \in Nat
      /\ DOMAIN s1 = 1 .. Len(s1) /\ DOMAIN s2 = 1 .. Len(s2)
      /\ Len(s1 \o s2) = Len(s1) + Len(s2)
      /\ \A i \in 1 .. Len(s1) : (s1 \o s2)[i] = s1[i]
      /\ \A i \in 1 .. Len(s1) + Len(s2) :
            i \notin 1 .. Len(s1) =>
                /\ i - Len(s1) \in 1 .. Len(s2)
                /\ (s1 \o s2)[i] = s2[i - Len(s1)]
  OBVIOUS
<1> SUFFICES ASSUME NEW i \in 1 .. Len(s1) + Len(s2),
                    NEW k \in 1 .. Len(s1) + Len(s2), i < k
             PROVE  Before((s1 \o s2)[i], (s1 \o s2)[k])
  BY <1>1 DEF Ordered
<1>2. CASE k \in 1 .. Len(s1)
  <2>1. i \in 1 .. Len(s1)
    BY <1>1, <1>2
  <2> QED BY <1>1, <1>2, <2>1 DEF Ordered
<1>3. CASE i \notin 1 .. Len(s1)
  <2>1. k \notin 1 .. Len(s1)
    BY <1>1, <1>3
  <2>2. i - Len(s1) < k - Len(s1)
    BY <1>1
  <2> QED BY <1>1, <1>3, <2>1, <2>2 DEF Ordered
<1>4. CASE i \in 1 .. Len(s1) /\ k \notin 1 .. Len(s1)
  <2>1. s1[i] \in Range(s1) /\ s2[k - Len(s1)] \in Range(s2)
    BY <1>1, <1>4 DEF Range
  <2> QED BY <1>1, <1>4, <2>1 DEF Precedes
<1> QED BY <1>2, <1>3, <1>4

\* An ordered sequence and a newer envelope.
LEMMA OrderedAppend ==
    ASSUME NEW S, NEW seq \in Seq(S), NEW e \in S, Ordered(seq),
           \A a \in Range(seq) : Before(a, e)
    PROVE  Ordered(Append(seq, e))
<1>1. /\ Len(seq) \in Nat /\ DOMAIN seq = 1 .. Len(seq)
      /\ Len(Append(seq, e)) = Len(seq) + 1
      /\ Append(seq, e)[Len(seq) + 1] = e
      /\ \A i \in 1 .. Len(seq) : Append(seq, e)[i] = seq[i]
  OBVIOUS
<1>2. \A i \in 1 .. Len(seq) : seq[i] \in Range(seq)
  BY <1>1 DEF Range
<1>3. \A i, k \in 1 .. Len(seq) + 1 :
        i < k => /\ i \in 1 .. Len(seq)
                 /\ k \in 1 .. Len(seq) \/ k = Len(seq) + 1
  BY <1>1
<1> QED BY <1>1, <1>2, <1>3 DEF Ordered

\* The two parts of an ordered sequence.
LEMMA OrderedSplit ==
    ASSUME NEW S, NEW seq \in Seq(S), NEW n \in 0 .. Len(seq), Ordered(seq)
    PROVE  /\ Ordered(SubSeq(seq, 1, n))
           /\ Ordered(SubSeq(seq, n + 1, Len(seq)))
           /\ Precedes(SubSeq(seq, 1, n), SubSeq(seq, n + 1, Len(seq)))
<1> DEFINE front == SubSeq(seq, 1, n)
           rest == SubSeq(seq, n + 1, Len(seq))
<1>1. /\ Len(seq) \in Nat /\ n \in Nat
      /\ Len(front) = n /\ DOMAIN front = 1 .. n
      /\ Len(rest) = Len(seq) - n /\ DOMAIN rest = 1 .. Len(seq) - n
      /\ \A i \in 1 .. n : front[i] = seq[i] /\ i \in 1 .. Len(seq)
      /\ \A i \in 1 .. Len(seq) - n :
            rest[i] = seq[n + i] /\ n + i \in 1 .. Len(seq)
  OBVIOUS
<1>2. Ordered(front)
  BY <1>1 DEF Ordered
<1>3. Ordered(rest)
  <2> SUFFICES ASSUME NEW i \in 1 .. Len(seq) - n,
                      NEW k \in 1 .. Len(seq) - n, i < k
               PROVE  Before(rest[i], rest[k])
    BY <1>1 DEF Ordered
  <2>1. n + i < n + k
    BY <1>1
  <2> QED BY <1>1, <2>1 DEF Ordered
<1>4. Precedes(front, rest)
  <2>1. ASSUME NEW i \in 1 .. n, NEW k \in 1 .. Len(seq) - n
        PROVE  Before(front[i], rest[k])
    <3>1. i < n + k
      BY <1>1
    <3> QED BY <1>1, <3>1 DEF Ordered
  <2> QED BY <1>1, <2>1 DEF Precedes, Range
<1> QED BY <1>2, <1>3, <1>4

\* What is taken from the front of a stream and appended to what was taken
\* before leaves the whole as it was.
LEMMA TakingKeepsWhole ==
    ASSUME NEW S, NEW before \in Seq(S), NEW seq \in Seq(S), NEW n \in 0 .. Len(seq)
    PROVE  (before \o SubSeq(seq, 1, n)) \o SubSeq(seq, n + 1, Len(seq))
               = before \o seq
<1> DEFINE front == SubSeq(seq, 1, n)
           rest == SubSeq(seq, n + 1, Len(seq))
<1>1. front \in Seq(S) /\ rest \in Seq(S)
  BY RangeSplit
<1>2. front \o rest = seq
  <2>1. Len(seq) \in Nat /\ 1 \in 1 .. Len(seq) + 1 /\ n \in 1 - 1 .. Len(seq)
        /\ Len(seq) \in n .. Len(seq)
    OBVIOUS
  <2>2. front \o rest = SubSeq(seq, 1, Len(seq))
    BY <2>1, ConcatAdjacentSubSeq
  <2> QED BY <2>2, SubSeqFull
<1> HIDE DEF front, rest
<1>3. (before \o front) \o rest = before \o (front \o rest)
  <2>1. \A s, t, u \in Seq(S) : (s \o t) \o u = s \o (t \o u)
    BY ConcatAssociative
  <2> QED BY <1>1, <2>1
<1> QED BY <1>2, <1>3 DEF front, rest
===============================================================================

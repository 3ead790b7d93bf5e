-------------------------- MODULE PassiveInboxProofs --------------------------
(***************************************************************************)
(* Proofs about the passive inbox, for any processes, pushes and faults.   *)
(* The first part holds without a lock, the second is about serialized     *)
(* verbs: each effect is admitted once, and the inbox is a mailbox.        *)
(***************************************************************************)
EXTENDS PassiveInbox, FiniteSetTheorems, SequenceTheorems, TLAPS

(***************************************************************************)
(* Envelopes and their ids.                                                *)
(***************************************************************************)

LEMMA IdsOfRange ==
    ASSUME NEW envs
    PROVE  IdsIn(envs) = {env.id : env \in Range(envs)}
BY DEF IdsIn, Range

LEMMA IdsType ==
    ASSUME NEW envs \in Seq(Pushes)
    PROVE  IdsIn(envs) \subseteq {env.id : env \in Pushes}
<1>1. \A i \in DOMAIN envs : envs[i] \in Pushes
  OBVIOUS
<1> QED BY <1>1 DEF IdsIn

\* The ids of a concatenation, and when it holds nothing twice.
LEMMA IdsConcat ==
    ASSUME NEW s \in Seq(Pushes), NEW t \in Seq(Pushes)
    PROVE  /\ IdsIn(s \o t) = IdsIn(s) \cup IdsIn(t)
           /\ Once(s \o t) <=> Once(s) /\ Once(t) /\ IdsIn(s) \cap IdsIn(t) = {}
<1> DEFINE st == s \o t
<1>1. /\ Len(s) \in Nat /\ Len(t) \in Nat
      /\ DOMAIN s = 1 .. Len(s) /\ DOMAIN t = 1 .. Len(t)
      /\ DOMAIN st = 1 .. Len(s) + Len(t)
      /\ \A i \in 1 .. Len(s) : st[i] = s[i]
      /\ \A i \in 1 .. Len(t) : st[Len(s) + i] = t[i]
  OBVIOUS
<1> HIDE DEF st
<1>2. /\ \A i \in 1 .. Len(s) : i \in DOMAIN st
      /\ \A i \in 1 .. Len(t) : Len(s) + i \in DOMAIN st
      /\ \A i \in DOMAIN st : \/ i \in 1 .. Len(s)
                              \/ \E k \in 1 .. Len(t) : i = Len(s) + k
  <2>1. \A i \in DOMAIN st : i \in 1 .. Len(s)
            \/ (i - Len(s) \in 1 .. Len(t) /\ i = Len(s) + (i - Len(s)))
    BY <1>1
  <2> QED BY <1>1, <2>1
<1>3. IdsIn(st) = IdsIn(s) \cup IdsIn(t)
  <2>1. IdsIn(st) \subseteq IdsIn(s) \cup IdsIn(t)
    <3> SUFFICES ASSUME NEW i \in DOMAIN st
                 PROVE  st[i].id \in IdsIn(s) \cup IdsIn(t)
      BY DEF IdsIn
    <3> QED BY <1>1, <1>2 DEF IdsIn
  <2>2. \A i \in 1 .. Len(s) : s[i].id \in IdsIn(st)
    BY <1>1, <1>2 DEF IdsIn
  <2>3. \A i \in 1 .. Len(t) : t[i].id \in IdsIn(st)
    BY <1>1, <1>2 DEF IdsIn
  <2> QED BY <1>1, <2>1, <2>2, <2>3 DEF IdsIn
<1>4. ASSUME Once(st)
      PROVE  Once(s) /\ Once(t) /\ IdsIn(s) \cap IdsIn(t) = {}
  <2>1. Once(s)
    BY <1>1, <1>2, <1>4 DEF Once
  <2>2. Once(t)
    <3> SUFFICES ASSUME NEW i \in 1 .. Len(t), NEW k \in 1 .. Len(t), t[i].id = t[k].id
                 PROVE  i = k
      BY <1>1 DEF Once
    <3>1. Len(s) + i = Len(s) + k
      BY <1>1, <1>2, <1>4 DEF Once
    <3> QED BY <1>1, <3>1
  <2>3. IdsIn(s) \cap IdsIn(t) = {}
    <3> SUFFICES ASSUME NEW i \in 1 .. Len(s), NEW k \in 1 .. Len(t), s[i].id = t[k].id
                 PROVE  FALSE
      BY <1>1 DEF IdsIn
    <3>1. i = Len(s) + k
      BY <1>1, <1>2, <1>4 DEF Once
    <3> QED BY <1>1, <3>1
  <2> QED BY <2>1, <2>2, <2>3
<1>5. ASSUME Once(s), Once(t), IdsIn(s) \cap IdsIn(t) = {} PROVE Once(st)
  <2> SUFFICES ASSUME NEW i \in DOMAIN st, NEW k \in DOMAIN st, st[i].id = st[k].id
               PROVE  i = k
    BY DEF Once
  <2>1. CASE i \in 1 .. Len(s) /\ k \in 1 .. Len(s)
    BY <1>1, <1>5, <2>1 DEF Once
  <2>2. ASSUME NEW a \in 1 .. Len(s), NEW b \in 1 .. Len(t) PROVE s[a].id # t[b].id
    BY <1>1, <1>5 DEF IdsIn
  <2>3. CASE i \in 1 .. Len(s) /\ k \notin 1 .. Len(s)
    BY <1>1, <1>2, <2>2, <2>3
  <2>4. CASE i \notin 1 .. Len(s) /\ k \in 1 .. Len(s)
    BY <1>1, <1>2, <2>2, <2>4
  <2>5. CASE i \notin 1 .. Len(s) /\ k \notin 1 .. Len(s)
    <3>1. PICK a \in 1 .. Len(t) : i = Len(s) + a
      BY <1>2, <2>5
    <3>2. PICK b \in 1 .. Len(t) : k = Len(s) + b
      BY <1>2, <2>5
    <3>3. t[a].id = t[b].id
      BY <1>1, <3>1, <3>2
    <3>4. a = b
      BY <1>1, <1>5, <3>3 DEF Once
    <3> QED BY <3>1, <3>2, <3>4
  <2> QED BY <2>1, <2>3, <2>4, <2>5
<1> QED BY <1>3, <1>4, <1>5 DEF st

\* A coherent inbox: nothing twice in either list, and nothing in both.
LEMMA CoherentParts ==
    ASSUME NEW inbox \in Inbox
    PROVE  Coherent(inbox) <=> /\ Once(inbox.staged) /\ Once(inbox.admitted)
                               /\ IdsIn(inbox.staged) \cap IdsIn(inbox.admitted) = {}
<1>1. inbox.staged \in Seq(Pushes) /\ inbox.admitted \in Seq(Pushes)
  BY DEF Inbox
<1> QED BY <1>1, IdsConcat DEF Coherent

LEMMA EmptyCoherent == EmptyInbox \in Inbox /\ Coherent(EmptyInbox)
<1>1. EmptyInbox \in Inbox
  BY DEF EmptyInbox, Inbox
<1>2. EmptyInbox.staged \o EmptyInbox.admitted = << >>
  BY DEF EmptyInbox
<1>3. DOMAIN << >> = {}
  OBVIOUS
<1> QED BY <1>1, <1>2, <1>3 DEF Coherent, Once

(***************************************************************************)
(* The two operations of the inbox.                                        *)
(***************************************************************************)

\* stage: an id that is there leaves the inbox as it is, a new one joins it.
LEMMA StageCoherent ==
    ASSUME NEW inbox \in Inbox, Coherent(inbox), NEW env \in Pushes
    PROVE  /\ Stage(inbox, env) \in Inbox /\ Coherent(Stage(inbox, env))
           /\ env.id \in IdsIn(Stage(inbox, env).staged)
                            \cup IdsIn(Stage(inbox, env).admitted)
           /\ \/ Stage(inbox, env) = inbox
              \/ /\ env.id \notin IdsIn(inbox.staged) \cup IdsIn(inbox.admitted)
                 /\ Stage(inbox, env).staged = Append(inbox.staged, env)
                 /\ Stage(inbox, env).admitted = inbox.admitted
<1> DEFINE new == [inbox EXCEPT !.staged = Append(inbox.staged, env)]
<1>1. inbox.staged \in Seq(Pushes) /\ inbox.admitted \in Seq(Pushes)
  BY DEF Inbox
<1>2. CASE env.id \in IdsIn(inbox.staged) \cup IdsIn(inbox.admitted)
  BY <1>2 DEF Stage
<1>3. CASE env.id \notin IdsIn(inbox.staged) \cup IdsIn(inbox.admitted)
  <2>1. Stage(inbox, env) = new
    BY <1>3 DEF Stage
  <2>2. /\ new \in Inbox /\ new.staged = Append(inbox.staged, env)
        /\ new.admitted = inbox.admitted
    <3>1. Append(inbox.staged, env) \in Seq(Pushes)
      BY <1>1
    <3>2. inbox = [staged |-> inbox.staged, admitted |-> inbox.admitted]
      BY DEF Inbox
    <3>3. new = [staged |-> Append(inbox.staged, env), admitted |-> inbox.admitted]
      BY <3>2
    <3> QED BY <1>1, <3>1, <3>3 DEF Inbox
  <2>3. /\ << env >> \in Seq(Pushes) /\ IdsIn(<< env >>) = {env.id}
        /\ Once(<< env >>)
    BY DEF IdsIn, Once
  <2>4. Append(inbox.staged, env) = inbox.staged \o << env >>
    BY <1>1, AppendIsConcat
  <2>5. /\ IdsIn(new.staged) = IdsIn(inbox.staged) \cup {env.id}
        /\ Once(new.staged) <=> Once(inbox.staged) /\ env.id \notin IdsIn(inbox.staged)
    <3>1. /\ IdsIn(inbox.staged \o << env >>)
                = IdsIn(inbox.staged) \cup IdsIn(<< env >>)
          /\ Once(inbox.staged \o << env >>)
                <=> /\ Once(inbox.staged) /\ Once(<< env >>)
                    /\ IdsIn(inbox.staged) \cap IdsIn(<< env >>) = {}
      BY <1>1, <2>3, IdsConcat
    <3> QED BY <2>2, <2>3, <2>4, <3>1
  <2>6. Coherent(new)
    BY <1>3, <2>2, <2>5, CoherentParts
  <2> QED BY <1>3, <2>1, <2>2, <2>5, <2>6
<1> QED BY <1>2, <1>3

\* admit_on_turn: in a coherent inbox the loop skips nothing.
LEMMA AdmittedIsStaged ==
    ASSUME NEW inbox \in Inbox, Coherent(inbox)
    PROVE  AdmittedNow(inbox) = inbox.staged
<1> DEFINE staged == inbox.staged
           len == Len(staged)
           new == {i \in DOMAIN staged :
                    /\ staged[i].id \notin IdsIn(inbox.admitted)
                    /\ \A k \in 1 .. i - 1 : staged[k].id # staged[i].id}
           Nth(n) == CHOOSE i \in new : Cardinality({k \in new : k <= i}) = n
<1>1. staged \in Seq(Pushes) /\ len \in Nat /\ DOMAIN staged = 1 .. len
  BY DEF Inbox
<1>2. Once(staged) /\ IdsIn(staged) \cap IdsIn(inbox.admitted) = {}
  BY CoherentParts
<1>3. new = 1 .. len
  <2>1. \A i \in 1 .. len : staged[i].id \notin IdsIn(inbox.admitted)
    BY <1>1, <1>2 DEF IdsIn
  <2>2. \A i \in 1 .. len : \A k \in 1 .. i - 1 : k \in 1 .. len /\ k # i
    BY <1>1
  <2>3. \A i \in 1 .. len : \A k \in 1 .. i - 1 : staged[k].id # staged[i].id
    BY <1>1, <1>2, <2>2 DEF Once
  <2> QED BY <1>1, <2>1, <2>3
<1> HIDE DEF new
<1>4. \A i \in Nat : Cardinality(1 .. i) = i
  <2> SUFFICES ASSUME NEW i \in Nat PROVE Cardinality(1 .. i) = i
    OBVIOUS
  <2>1. Cardinality(1 .. i) = IF 1 > i THEN 0 ELSE i - 1 + 1
    BY FS_Interval
  <2> QED BY <2>1
<1>5. ASSUME NEW i \in 1 .. len PROVE Cardinality({k \in new : k <= i}) = i
  <2>1. {k \in new : k <= i} = 1 .. i
    BY <1>1, <1>3
  <2>2. i \in Nat
    BY <1>1
  <2> QED BY <1>4, <2>1, <2>2
<1>6. \A n \in 1 .. len : Nth(n) = n
  BY <1>3, <1>5
<1>7. AdmittedNow(inbox) = [n \in 1 .. Cardinality(new) |-> staged[Nth(n)]]
  BY DEF AdmittedNow, new
<1>8. AdmittedNow(inbox) = [n \in 1 .. len |-> staged[n]]
  BY <1>1, <1>3, <1>4, <1>6, <1>7
<1> QED BY <1>1, <1>8

LEMMA AdmitCoherent ==
    ASSUME NEW inbox \in Inbox, Coherent(inbox)
    PROVE  /\ AdmitOnTurn(inbox) \in Inbox /\ Coherent(AdmitOnTurn(inbox))
           /\ AdmitOnTurn(inbox).staged = << >>
           /\ AdmitOnTurn(inbox).admitted = inbox.admitted \o inbox.staged
           /\ IdsIn(AdmitOnTurn(inbox).admitted)
                = IdsIn(inbox.admitted) \cup IdsIn(inbox.staged)
<1> DEFINE after == AdmitOnTurn(inbox)
<1>1. inbox.staged \in Seq(Pushes) /\ inbox.admitted \in Seq(Pushes)
  BY DEF Inbox
<1>2. after = [staged |-> << >>, admitted |-> inbox.admitted \o inbox.staged]
  BY AdmittedIsStaged DEF AdmitOnTurn
<1>3. /\ after \in Inbox /\ after.staged = << >>
      /\ after.admitted = inbox.admitted \o inbox.staged
  BY <1>1, <1>2 DEF Inbox
<1>4. IdsIn(<< >>) = {} /\ Once(<< >>)
  BY DEF IdsIn, Once
<1>5. /\ Once(inbox.staged) /\ Once(inbox.admitted)
      /\ IdsIn(inbox.staged) \cap IdsIn(inbox.admitted) = {}
  BY CoherentParts
<1>6. /\ Once(inbox.admitted \o inbox.staged)
      /\ IdsIn(inbox.admitted \o inbox.staged)
            = IdsIn(inbox.admitted) \cup IdsIn(inbox.staged)
  BY <1>1, <1>5, IdsConcat
<1>7. Coherent(after)
  BY <1>3, <1>4, <1>6, CoherentParts
<1> QED BY <1>3, <1>6, <1>7

(***************************************************************************)
(* Records stay typed and coherent, whoever writes them and in whatever    *)
(* order. TypeOK alone is not inductive: that a drain returns an Inbox     *)
(* needs the one it loaded to be coherent.                                 *)
(***************************************************************************)
Base == TypeOK /\ RecordsCoherent

\* A verb starts with a coherent inbox in memory.
LEMMA BeginKeepsBase ==
    ASSUME Base, NEW p \in Procs, NEW v \in Verbs, NEW inbox \in Inbox,
           NEW envs \in Seq(Pushes), Coherent(inbox), Begin(p, v, inbox, envs)
    PROVE  Base'
<1> USE DEF Base, Begin
<1>1. TypeOK'
  BY DEF TypeOK
<1>2. RecordsCoherent'
  BY DEF TypeOK, RecordsCoherent
<1> QED BY <1>1, <1>2

\* The end of a process keeps what Base says of processes.
LEMMA EndKeepsBase ==
    ASSUME Base, NEW p \in Procs, End(p)
    PROVE  /\ pc' \in [Procs -> {"idle", "write", "rename", "print"}]
           /\ verb' \in [Procs -> Verbs \cup {"none"}]
           /\ work' \in [Procs -> Inbox] /\ cargo' \in [Procs -> Seq(Pushes)]
           /\ \A q \in Procs : Coherent(work'[q])
<1>1. /\ pc' \in [Procs -> {"idle", "write", "rename", "print"}]
      /\ verb' \in [Procs -> Verbs \cup {"none"}]
      /\ cargo' \in [Procs -> Seq(Pushes)]
  BY DEF Base, TypeOK, End
<1>2. work' \in [Procs -> Inbox] /\ \A q \in Procs : Coherent(work'[q])
  BY EmptyCoherent DEF Base, TypeOK, RecordsCoherent, End
<1> QED BY <1>1, <1>2

LEMMA InitBase == Init => Base
<1> SUFFICES ASSUME Init PROVE Base
  OBVIOUS
<1>1. TypeOK
  BY EmptyCoherent DEF Init, TypeOK
<1>2. RecordsCoherent
  BY EmptyCoherent DEF Init, RecordsCoherent
<1> QED BY <1>1, <1>2 DEF Base

LEMMA NextBase == Base /\ [Next]_vars => Base'
<1> SUFFICES ASSUME Base, [Next]_vars PROVE Base'
  OBVIOUS
<1>0. file \in Inbox /\ Coherent(file)
  BY DEF Base, TypeOK, RecordsCoherent
<1>1. ASSUME NEW p \in Procs, NEW env \in Pushes, Dispatch(p, env) PROVE Base'
  <2>1. Stage(file, env) \in Inbox /\ Coherent(Stage(file, env))
    BY <1>0, StageCoherent
  <2>2. << env >> \in Seq(Pushes) /\ "dispatch" \in Verbs
    BY DEF Verbs
  <2>3. Begin(p, "dispatch", Stage(file, env), << env >>)
    BY <1>1 DEF Dispatch
  <2> QED BY <2>1, <2>2, <2>3, BeginKeepsBase
<1>2. ASSUME NEW p \in Procs, TakeTurn(p) PROVE Base'
  <2>1. AdmitOnTurn(file) \in Inbox /\ Coherent(AdmitOnTurn(file))
    BY <1>0, AdmitCoherent
  <2>2. AdmittedNow(file) \in Seq(Pushes) /\ "drain" \in Verbs
    BY <1>0, AdmittedIsStaged DEF Verbs, Inbox
  <2>3. Begin(p, "drain", AdmitOnTurn(file), AdmittedNow(file))
    BY <1>2 DEF TakeTurn
  <2> QED BY <2>1, <2>2, <2>3, BeginKeepsBase
<1>3. ASSUME NEW p \in Procs, WriteTmp(p) PROVE Base'
  <2>1. TypeOK'
    BY <1>3 DEF WriteTmp, Base, TypeOK
  <2>2. RecordsCoherent'
    BY <1>3 DEF WriteTmp, Base, RecordsCoherent
  <2> QED BY <2>1, <2>2 DEF Base
<1>4. ASSUME NEW p \in Procs, Rename(p) PROVE Base'
  <2>1. TypeOK'
    BY <1>4 DEF Rename, Base, TypeOK
  <2>2. RecordsCoherent'
    BY <1>4 DEF Rename, Base, RecordsCoherent
  <2> QED BY <2>1, <2>2 DEF Base
<1>5. ASSUME NEW p \in Procs, RenameFails(p) PROVE Base'
  BY <1>5, EndKeepsBase DEF RenameFails, Base, TypeOK, RecordsCoherent
<1>6. ASSUME NEW p \in Procs, PrintOut(p) PROVE Base'
  <2>1. cargo[p] \in Seq(Pushes)
    BY DEF Base, TypeOK
  <2>2. receipts' \subseteq {env.id : env \in Pushes} /\ shown' \in Seq(Pushes)
    <3>1. IdsIn(cargo[p]) \subseteq {env.id : env \in Pushes}
      BY <2>1, IdsType
    <3>2. shown \o cargo[p] \in Seq(Pushes)
      BY <2>1 DEF Base, TypeOK
    <3> QED BY <1>6, <3>1, <3>2 DEF PrintOut, Base, TypeOK
  <2> QED BY <1>6, <2>2, EndKeepsBase DEF PrintOut, Base, TypeOK, RecordsCoherent
<1>7. ASSUME NEW p \in Procs, Die(p) PROVE Base'
  <2>1. cargo[p] \in Seq(Pushes)
    BY DEF Base, TypeOK
  <2>2. unseen' \subseteq {env.id : env \in Pushes} /\ faults' \in Nat
    <3>1. IdsIn(cargo[p]) \subseteq {env.id : env \in Pushes}
      BY <2>1, IdsType
    <3> QED BY <1>7, <3>1 DEF Die, Base, TypeOK
  <2> QED BY <1>7, <2>2, EndKeepsBase DEF Die, Base, TypeOK, RecordsCoherent
<1>8. CASE UNCHANGED vars
  BY <1>8 DEF vars, procs, Base, TypeOK, RecordsCoherent
<1> QED BY <1>1, <1>2, <1>3, <1>4, <1>5, <1>6, <1>7, <1>8 DEF Next, Step

\* The types of the files, of the processes and of what was told and printed.
THEOREM TypeCorrect == Spec => []TypeOK
<1>1. Base => TypeOK
  BY DEF Base
<1> QED BY <1>1, InitBase, NextBase, PTL DEF Spec

\* With no lock at all, no record holds an id twice.
THEOREM RecordsStayCoherent == Spec => []RecordsCoherent
<1>1. Base => RecordsCoherent
  BY DEF Base
<1> QED BY <1>1, InitBase, NextBase, PTL DEF Spec

-------------------------------------------------------------------------------
(***************************************************************************)
(* Serialized verbs. AdmittedOnce is about what was printed, turn by turn; *)
(* that no turn prints what another did follows from what the file holds   *)
(* as admitted, which is kept apart from what is staged. So the invariant  *)
(* says what a running verb knows of the file: its save is one operation   *)
(* of the inbox away from it, and after the save a turn is to print what   *)
(* the file holds as admitted and no turn has printed.                     *)
(***************************************************************************)

\* The effects the inbox answers for.
Present == IdsIn(file.staged) \cup IdsIn(file.admitted)

\* One process at most is running; the temporary file is its own.
Files ==
    /\ \A p, q \in Procs : pc[p] # "idle" /\ pc[q] # "idle" => p = q
    /\ \A p \in Procs : pc[p] = "rename" => tmp = {work[p]}

\* What was told and printed is in the file.
Ledger ==
    /\ receipts \subseteq Present
    /\ IdsIn(shown) \subseteq IdsIn(file.admitted)
    /\ Once(shown)

Staging(p) ==
    /\ verb[p] = "dispatch"
    /\ \E env \in Pushes :
        /\ cargo[p] = << env >>
        /\ pc[p] \in {"write", "rename"} => work[p] = Stage(file, env)
        /\ pc[p] = "print" => env.id \in Present

Admitting(p) ==
    /\ verb[p] = "drain"
    /\ pc[p] \in {"write", "rename"} =>
        work[p] = AdmitOnTurn(file) /\ cargo[p] = file.staged
    /\ pc[p] = "print" =>
        IdsIn(cargo[p]) \subseteq IdsIn(file.admitted) /\ Once(shown \o cargo[p])

Errand(p) == pc[p] # "idle" => Staging(p) \/ Admitting(p)

SerialInv == Base /\ Files /\ Ledger /\ \A p \in Procs : Errand(p)

\* A verb starts when the others are idle, with an errand.
LEMMA BeginKeepsSerial ==
    ASSUME Serialized, SerialInv, NEW p \in Procs, NEW v, NEW inbox, NEW envs,
           Begin(p, v, inbox, envs), Errand(p)'
    PROVE  Files' /\ Ledger' /\ \A q \in Procs : Errand(q)'
<1>1. \A q \in Procs : pc[q] = "idle"
  BY DEF Begin, Quiet
<1>2. /\ pc' = [pc EXCEPT ![p] = "write"]
      /\ UNCHANGED << file, tmp, receipts, shown >>
  BY DEF Begin
<1>3. /\ \A q \in Procs : q # p => pc'[q] = "idle"
      /\ pc'[p] = "write"
  BY <1>1, <1>2 DEF SerialInv, Base, TypeOK
<1>4. Files'
  BY <1>3 DEF Files
<1>5. Ledger'
  BY <1>2 DEF SerialInv, Ledger, Present
<1>6. \A q \in Procs : q # p => Errand(q)'
  BY <1>3 DEF Errand
<1> QED BY <1>4, <1>5, <1>6

\* The end of the one process that is running.
LEMMA EndKeepsSerial ==
    ASSUME SerialInv, NEW p \in Procs, pc[p] # "idle", End(p), UNCHANGED file
    PROVE  Files' /\ (\A q \in Procs : Errand(q)') /\ Present' = Present
<1>1. \A q \in Procs : q # p => pc[q] = "idle"
  BY DEF SerialInv, Files
<1>2. \A q \in Procs : pc'[q] = "idle"
  BY <1>1 DEF End, SerialInv, Base, TypeOK
<1> QED BY <1>2 DEF Files, Errand, Present

\* The rename is the whole of the operation: what the file holds afterwards,
\* and what becomes of the ids it answers for.
LEMMA RenameSaves ==
    ASSUME SerialInv, NEW p \in Procs, Rename(p)
    PROVE  /\ file' = work[p] /\ Present \subseteq Present'
           /\ \/ /\ verb[p] = "dispatch"
                 /\ \E env \in Pushes :
                    /\ cargo[p] = << env >> /\ file' = Stage(file, env)
                    /\ env.id \in Present'
                 /\ file'.admitted = file.admitted
              \/ /\ verb[p] = "drain" /\ cargo[p] = file.staged
                 /\ file'.staged = << >>
                 /\ file'.admitted = file.admitted \o file.staged
                 /\ IdsIn(file'.admitted) = Present
<1>1. /\ file \in Inbox /\ Coherent(file)
      /\ file.staged \in Seq(Pushes)
  BY DEF SerialInv, Base, TypeOK, RecordsCoherent, Inbox
<1>2. file' = work[p] /\ pc[p] = "rename"
  BY DEF Rename, SerialInv, Files
<1>3. CASE Staging(p)
  <2>1. PICK env \in Pushes : cargo[p] = << env >> /\ work[p] = Stage(file, env)
    BY <1>2, <1>3 DEF Staging
  <2>2. /\ env.id \in Present'
        /\ \/ file' = file
           \/ /\ file'.staged = Append(file.staged, env)
              /\ file'.admitted = file.admitted
    BY <1>1, <1>2, <2>1, StageCoherent DEF Present
  <2>3. IdsIn(file.staged) \subseteq IdsIn(Append(file.staged, env))
    <3>1. /\ \A i \in 1 .. Len(file.staged) : Append(file.staged, env)[i] = file.staged[i]
          /\ DOMAIN file.staged = 1 .. Len(file.staged)
          /\ DOMAIN Append(file.staged, env) = 1 .. Len(file.staged) + 1
          /\ Len(file.staged) \in Nat
      BY <1>1
    <3>2. \A i \in 1 .. Len(file.staged) : i \in 1 .. Len(file.staged) + 1
      BY <3>1
    <3> QED BY <3>1, <3>2 DEF IdsIn
  <2>4. Present \subseteq Present' /\ file'.admitted = file.admitted
    BY <2>2, <2>3 DEF Present
  <2> QED BY <1>2, <1>3, <2>1, <2>2, <2>4 DEF Staging
<1>4. CASE Admitting(p)
  <2>1. file' = AdmitOnTurn(file) /\ cargo[p] = file.staged
    BY <1>2, <1>4 DEF Admitting
  <2>2. /\ file'.staged = << >> /\ file'.admitted = file.admitted \o file.staged
        /\ IdsIn(file'.admitted) = Present
    BY <1>1, <2>1, AdmitCoherent DEF Present
  <2> QED BY <1>2, <1>4, <2>1, <2>2 DEF Admitting, Present
<1> QED BY <1>2, <1>3, <1>4 DEF SerialInv, Errand

LEMMA RenameKeepsSerial ==
    ASSUME SerialInv, NEW p \in Procs, Rename(p)
    PROVE  Files' /\ Ledger' /\ \A q \in Procs : Errand(q)'
<1>1. /\ pc' = [pc EXCEPT ![p] = "print"] /\ pc[p] = "rename"
      /\ UNCHANGED << verb, work, cargo, receipts, shown >>
  BY DEF Rename
<1>2. \A q \in Procs : q # p => pc[q] = "idle" /\ pc'[q] = "idle"
  BY <1>1 DEF SerialInv, Files, Base, TypeOK
<1>3. pc'[p] = "print"
  BY <1>1 DEF SerialInv, Base, TypeOK
<1>4. Files'
  BY <1>2, <1>3 DEF Files
<1>5. IdsIn(file.admitted) \subseteq IdsIn(file'.admitted)
  BY RenameSaves DEF Present
<1>6. Ledger'
  BY <1>1, <1>5, RenameSaves DEF SerialInv, Ledger
<1>7. Errand(p)'
  <2>1. CASE verb[p] = "dispatch"
    <3>1. PICK env \in Pushes : cargo[p] = << env >> /\ env.id \in Present'
      BY <2>1, RenameSaves
    <3> QED BY <1>1, <1>3, <2>1, <3>1 DEF Errand, Staging
  <2>2. CASE verb[p] = "drain"
    <3>1. /\ cargo[p] = file.staged /\ IdsIn(file'.admitted) = Present
      BY <2>2, RenameSaves
    <3>2. /\ file \in Inbox /\ Coherent(file) /\ shown \in Seq(Pushes)
          /\ file.staged \in Seq(Pushes)
      BY DEF SerialInv, Base, TypeOK, RecordsCoherent, Inbox
    <3>3. /\ Once(file.staged) /\ IdsIn(file.staged) \cap IdsIn(file.admitted) = {}
      BY <3>2, CoherentParts
    <3>4. Once(shown \o file.staged)
      BY <3>2, <3>3, IdsConcat DEF SerialInv, Ledger
    <3> QED BY <1>1, <1>3, <2>2, <3>1, <3>4 DEF Errand, Admitting, Present
  <2> QED BY <2>1, <2>2, RenameSaves
<1>8. \A q \in Procs : q # p => Errand(q)'
  BY <1>2 DEF Errand
<1> QED BY <1>4, <1>6, <1>7, <1>8

\* What is printed was in the file, and in no print before.
LEMMA PrintKeepsLedger ==
    ASSUME SerialInv, NEW p \in Procs, PrintOut(p)
    PROVE  Ledger'
<1>1. UNCHANGED file /\ pc[p] = "print"
  BY DEF PrintOut
<1>2. CASE Staging(p)
  <2>1. PICK env \in Pushes : cargo[p] = << env >> /\ env.id \in Present
    BY <1>1, <1>2 DEF Staging
  <2>2. IdsIn(cargo[p]) = {env.id}
    BY <2>1 DEF IdsIn
  <2>3. receipts' = receipts \cup {env.id} /\ shown' = shown
    BY <1>2, <2>2 DEF PrintOut, Staging
  <2> QED BY <1>1, <2>1, <2>3 DEF SerialInv, Ledger, Present
<1>3. CASE Admitting(p)
  <2>1. /\ shown' = shown \o cargo[p] /\ receipts' = receipts
        /\ IdsIn(cargo[p]) \subseteq IdsIn(file.admitted) /\ Once(shown')
    BY <1>1, <1>3 DEF PrintOut, Admitting
  <2>2. shown \in Seq(Pushes) /\ cargo[p] \in Seq(Pushes)
    BY DEF SerialInv, Base, TypeOK
  <2>3. IdsIn(shown') = IdsIn(shown) \cup IdsIn(cargo[p])
    BY <2>1, <2>2, IdsConcat
  <2> QED BY <1>1, <2>1, <2>3 DEF SerialInv, Ledger, Present
<1> QED BY <1>1, <1>2, <1>3 DEF SerialInv, Errand

LEMMA NextSerial == Serialized /\ SerialInv /\ [Next]_vars => SerialInv'
<1> SUFFICES ASSUME Serialized, SerialInv, [Next]_vars
             PROVE  Files' /\ Ledger' /\ \A q \in Procs : Errand(q)'
  BY NextBase DEF SerialInv
<1>0. /\ pc \in [Procs -> {"idle", "write", "rename", "print"}]
      /\ verb \in [Procs -> Verbs \cup {"none"}]
      /\ work \in [Procs -> Inbox] /\ cargo \in [Procs -> Seq(Pushes)]
      /\ file \in Inbox /\ Coherent(file)
  BY DEF SerialInv, Base, TypeOK, RecordsCoherent
<1>1. ASSUME NEW p \in Procs, NEW env \in Pushes, Dispatch(p, env)
      PROVE  Files' /\ Ledger' /\ \A q \in Procs : Errand(q)'
  <2>1. Begin(p, "dispatch", Stage(file, env), << env >>)
    BY <1>1 DEF Dispatch
  <2>2. /\ pc'[p] = "write" /\ verb'[p] = "dispatch" /\ cargo'[p] = << env >>
        /\ work'[p] = Stage(file, env) /\ file' = file
    BY <1>0, <2>1 DEF Begin
  <2>3. Errand(p)'
    BY <2>2 DEF Errand, Staging
  <2> QED BY <2>1, <2>3, BeginKeepsSerial
<1>2. ASSUME NEW p \in Procs, TakeTurn(p)
      PROVE  Files' /\ Ledger' /\ \A q \in Procs : Errand(q)'
  <2>1. Begin(p, "drain", AdmitOnTurn(file), AdmittedNow(file))
    BY <1>2 DEF TakeTurn
  <2>2. /\ pc'[p] = "write" /\ verb'[p] = "drain" /\ cargo'[p] = file.staged
        /\ work'[p] = AdmitOnTurn(file) /\ file' = file
    BY <1>0, <2>1, AdmittedIsStaged DEF Begin
  <2>3. Errand(p)'
    BY <2>2 DEF Errand, Admitting
  <2> QED BY <2>1, <2>3, BeginKeepsSerial
<1>3. ASSUME NEW p \in Procs, WriteTmp(p)
      PROVE  Files' /\ Ledger' /\ \A q \in Procs : Errand(q)'
  <2>1. /\ pc[p] = "write" /\ pc' = [pc EXCEPT ![p] = "rename"] /\ tmp' = {work[p]}
        /\ UNCHANGED << file, verb, work, cargo, receipts, shown >>
    BY <1>3 DEF WriteTmp
  <2>2. \A q \in Procs : q # p => pc[q] = "idle" /\ pc'[q] = "idle"
    BY <1>0, <2>1 DEF SerialInv, Files
  <2>3. pc'[p] = "rename"
    BY <1>0, <2>1
  <2>4. Files'
    BY <2>1, <2>2, <2>3 DEF Files
  <2>5. Ledger'
    BY <2>1 DEF SerialInv, Ledger, Present
  <2>6. Errand(p)'
    BY <2>1, <2>3 DEF SerialInv, Errand, Staging, Admitting
  <2>7. \A q \in Procs : q # p => Errand(q)'
    BY <2>2 DEF Errand
  <2> QED BY <2>4, <2>5, <2>6, <2>7
<1>4. ASSUME NEW p \in Procs, RenameFails(p) \/ Die(p)
      PROVE  Files' /\ Ledger' /\ \A q \in Procs : Errand(q)'
  <2>1. pc[p] # "idle" /\ End(p) /\ UNCHANGED << file, receipts, shown >>
    BY <1>4 DEF RenameFails, Die
  <2> QED BY <2>1, EndKeepsSerial DEF SerialInv, Ledger
<1>5. ASSUME NEW p \in Procs, PrintOut(p)
      PROVE  Files' /\ Ledger' /\ \A q \in Procs : Errand(q)'
  <2>1. pc[p] # "idle" /\ End(p) /\ UNCHANGED file
    BY <1>5 DEF PrintOut
  <2> QED BY <1>5, <2>1, EndKeepsSerial, PrintKeepsLedger
<1>6. CASE UNCHANGED vars
  BY <1>6 DEF vars, procs, SerialInv, Files, Ledger, Present, Errand, Staging, Admitting
<1> QED BY <1>1, <1>2, <1>3, <1>4, <1>5, <1>6, RenameKeepsSerial DEF Next, Step

LEMMA InitSerial == Init => SerialInv
<1> SUFFICES ASSUME Init PROVE SerialInv
  OBVIOUS
<1>1. \A p \in Procs : pc[p] = "idle"
  BY DEF Init
<1>2. IdsIn(<< >>) = {} /\ Once(<< >>)
  BY DEF IdsIn, Once
<1>3. Ledger
  BY <1>2 DEF Init, Ledger
<1>4. Files /\ \A p \in Procs : Errand(p)
  BY <1>1 DEF Files, Errand
<1> QED BY <1>3, <1>4, InitBase DEF SerialInv

\* With one writer at a time an effect is printed in at most one turn, however
\* often it is pushed and wherever a producer or a turn dies.
THEOREM SerializedAdmitsOnce == ASSUME Serialized PROVE Spec => []AdmittedOnce
<1>1. SerialInv => AdmittedOnce
  BY DEF SerialInv, Ledger, AdmittedOnce
<1> QED BY <1>1, InitSerial, NextSerial, PTL DEF Spec

(***************************************************************************)
(* What becomes of the admitted. The step that shows them is still to come *)
(* while the turn that saved them lives; SerialInv alone does not say that *)
(* anybody has them.                                                       *)
(***************************************************************************)
Showing(p) == verb[p] = "drain" /\ pc[p] = "print"

Accounted(id) ==
    \/ id \in IdsIn(shown) \cup unseen
    \/ \E p \in Procs : Showing(p) /\ id \in IdsIn(cargo[p])

ShownInv == \A id \in IdsIn(file.admitted) : Accounted(id)

\* A step of a process that is not about to print, and leaves the file alone.
LEMMA OthersKeepShown ==
    ASSUME ShownInv, NEW p \in Procs, ~Showing(p), UNCHANGED << file, shown, unseen >>,
           \A q \in Procs : q # p =>
                pc'[q] = pc[q] /\ verb'[q] = verb[q] /\ cargo'[q] = cargo[q]
    PROVE  ShownInv'
<1>1. \A q \in Procs : Showing(q) => Showing(q)' /\ cargo'[q] = cargo[q]
  BY DEF Showing
<1> QED BY <1>1 DEF ShownInv, Accounted

LEMMA RenameKeepsShown ==
    ASSUME SerialInv, ShownInv, NEW p \in Procs, Rename(p)
    PROVE  ShownInv'
<1>1. /\ pc' = [pc EXCEPT ![p] = "print"] /\ pc[p] = "rename"
      /\ UNCHANGED << verb, cargo, shown, unseen >>
  BY DEF Rename
<1>2. /\ pc'[p] = "print"
      /\ \A q \in Procs : Showing(q) => Showing(q)'
  BY <1>1 DEF SerialInv, Base, TypeOK, Showing
<1>3. \A id : Accounted(id) => Accounted(id)'
  BY <1>1, <1>2 DEF Accounted
<1>4. CASE verb[p] = "dispatch"
  <2>1. file'.admitted = file.admitted
    BY <1>4, RenameSaves
  <2> QED BY <1>3, <2>1 DEF ShownInv
<1>5. CASE verb[p] = "drain"
  <2>1. cargo[p] = file.staged /\ IdsIn(file'.admitted) = Present
    BY <1>5, RenameSaves
  <2>2. Showing(p)' /\ cargo'[p] = file.staged
    BY <1>1, <1>2, <1>5, <2>1 DEF Showing
  <2>3. ASSUME NEW id \in IdsIn(file.staged) PROVE Accounted(id)'
    BY <2>2 DEF Accounted
  <2> QED BY <1>3, <2>1, <2>3 DEF ShownInv, Present
<1> QED BY <1>4, <1>5, RenameSaves

\* The end of a turn that prints, or is cut off before it can.
LEMMA EndKeepsShown ==
    ASSUME SerialInv, ShownInv, NEW p \in Procs, End(p), UNCHANGED file,
           IdsIn(shown) \cup unseen \subseteq IdsIn(shown') \cup unseen',
           Showing(p) => IdsIn(cargo[p]) \subseteq IdsIn(shown') \cup unseen'
    PROVE  ShownInv'
<1>1. \A q \in Procs : q # p =>
          pc'[q] = pc[q] /\ verb'[q] = verb[q] /\ cargo'[q] = cargo[q]
  BY DEF End, SerialInv, Base, TypeOK
<1>2. \A q \in Procs : q # p /\ Showing(q) => Showing(q)' /\ cargo'[q] = cargo[q]
  BY <1>1 DEF Showing
<1>3. \A id : Accounted(id) => Accounted(id)'
  BY <1>2 DEF Accounted
<1> QED BY <1>3 DEF ShownInv

LEMMA NextShown == Serialized /\ SerialInv /\ ShownInv /\ [Next]_vars => ShownInv'
<1> SUFFICES ASSUME Serialized, SerialInv, ShownInv, [Next]_vars PROVE ShownInv'
  OBVIOUS
<1>0. /\ pc \in [Procs -> {"idle", "write", "rename", "print"}]
      /\ verb \in [Procs -> Verbs \cup {"none"}]
      /\ cargo \in [Procs -> Seq(Pushes)] /\ shown \in Seq(Pushes)
  BY DEF SerialInv, Base, TypeOK
<1>1. ASSUME NEW p \in Procs, NEW v, NEW inbox, NEW envs, Begin(p, v, inbox, envs)
      PROVE  ShownInv'
  <2>1. /\ ~Showing(p) /\ UNCHANGED << file, shown, unseen >>
        /\ \A q \in Procs : q # p =>
              pc'[q] = pc[q] /\ verb'[q] = verb[q] /\ cargo'[q] = cargo[q]
    BY <1>0, <1>1 DEF Begin, Showing
  <2> QED BY <2>1, OthersKeepShown
<1>2. ASSUME NEW p \in Procs, WriteTmp(p) \/ RenameFails(p) PROVE ShownInv'
  <2>1. /\ ~Showing(p) /\ UNCHANGED << file, shown, unseen >>
        /\ \A q \in Procs : q # p =>
              pc'[q] = pc[q] /\ verb'[q] = verb[q] /\ cargo'[q] = cargo[q]
    BY <1>0, <1>2 DEF WriteTmp, RenameFails, End, Showing
  <2> QED BY <2>1, OthersKeepShown
<1>3. ASSUME NEW p \in Procs, PrintOut(p) PROVE ShownInv'
  <2>1. UNCHANGED file /\ End(p) /\ unseen' = unseen
    BY <1>3 DEF PrintOut
  <2>2. CASE verb[p] = "dispatch"
    BY <1>3, <2>1, <2>2, EndKeepsShown DEF PrintOut, Showing
  <2>3. CASE verb[p] # "dispatch"
    <3>1. shown' = shown \o cargo[p] /\ cargo[p] \in Seq(Pushes)
      BY <1>0, <1>3, <2>3 DEF PrintOut
    <3>2. IdsIn(shown') = IdsIn(shown) \cup IdsIn(cargo[p])
      BY <1>0, <3>1, IdsConcat
    <3> QED BY <2>1, <3>2, EndKeepsShown
  <2> QED BY <2>2, <2>3
<1>4. ASSUME NEW p \in Procs, Die(p) PROVE ShownInv'
  <2>1. /\ UNCHANGED << file, shown >> /\ End(p)
        /\ unseen' = IF Showing(p) THEN unseen \cup IdsIn(cargo[p]) ELSE unseen
    BY <1>4 DEF Die, Showing
  <2> QED BY <2>1, EndKeepsShown
<1>5. CASE UNCHANGED vars
  BY <1>5 DEF vars, procs, ShownInv, Accounted, Showing
<1> QED BY <1>1, <1>2, <1>3, <1>4, <1>5, RenameKeepsShown
        DEF Next, Step, Dispatch, TakeTurn

LEMMA InitShown == Init => ShownInv
BY DEF Init, EmptyInbox, ShownInv, IdsIn

\* With one writer at a time, what a producer was told is staged is staged, or
\* printed, or with a turn that is about to print it, or a turn died with it in
\* hand: no other death, of a producer or of a turn, costs an effect
\* (src/src/inbox.rs, lines 87-88). What EventuallyShown adds is fairness.
AcknowledgedIsAccounted ==
    \A id \in receipts : id \in IdsIn(file.staged) \/ Accounted(id)

THEOREM SerializedNeverHides ==
    ASSUME Serialized PROVE Spec => []AcknowledgedIsAccounted
<1>1. SerialInv /\ ShownInv => AcknowledgedIsAccounted
  BY DEF SerialInv, Ledger, Present, ShownInv, AcknowledgedIsAccounted
<1> QED
  BY <1>1, InitSerial, NextSerial, InitShown, NextShown, PTL DEF Spec

(***************************************************************************)
(* The refinement of Mailbox: a dispatch that saves puts, a turn that      *)
(* saves takes everything, a dispatch that prints acknowledges.            *)
(***************************************************************************)

\* The receipts as the mailbox has them.
Told == {env \in Range(file.staged) \cup Range(file.admitted) : env.id \in receipts}

\* An effect the file answers for is one envelope of it.
LEMMA OneOfEach ==
    ASSUME SerialInv, NEW id \in Present
    PROVE  \E env \in Range(file.staged) \cup Range(file.admitted) :
              /\ env.id = id
              /\ \A other \in Range(file.staged) \cup Range(file.admitted) :
                    other.id = id => other = env
<1>1. /\ file \in Inbox /\ Coherent(file)
  BY DEF SerialInv, Base, TypeOK, RecordsCoherent
<1>2. /\ Once(file.staged) /\ Once(file.admitted)
      /\ IdsIn(file.staged) \cap IdsIn(file.admitted) = {}
  BY <1>1, CoherentParts
<1>3. \A a, b \in Range(file.staged) : a.id = b.id => a = b
  BY <1>2 DEF Once, Range
<1>4. \A a, b \in Range(file.admitted) : a.id = b.id => a = b
  BY <1>2 DEF Once, Range
<1>5. \A a \in Range(file.staged), b \in Range(file.admitted) : a.id # b.id
  BY <1>2 DEF IdsIn, Range
<1>6. PICK env \in Range(file.staged) \cup Range(file.admitted) : env.id = id
  BY IdsOfRange DEF Present
<1> QED BY <1>3, <1>4, <1>5, <1>6

LEMMA RenameIsPutOrTake ==
    ASSUME SerialInv, NEW p \in Procs, Rename(p)
    PROVE  [AsMailbox!Next]_(AsMailbox!vars)
<1> USE DEF AsMailbox!Next, AsMailbox!vars
<1>1. /\ file.staged \in Seq(Pushes) /\ file.admitted \in Seq(Pushes)
      /\ file \in Inbox /\ Coherent(file)
      /\ receipts' = receipts
  BY DEF SerialInv, Base, TypeOK, RecordsCoherent, Inbox, Rename
<1>2. CASE verb[p] = "dispatch"
  <2>1. PICK env \in Pushes : file' = Stage(file, env)
    BY <1>2, RenameSaves
  <2>2. CASE file' = file
    BY <1>1, <2>2
  <2>3. CASE file' # file
    <3>1. /\ env.id \notin Present
          /\ file'.staged = Append(file.staged, env)
          /\ file'.admitted = file.admitted
      BY <1>1, <2>1, <2>3, StageCoherent DEF Present
    <3>2. \A other \in Range(file.staged) \cup Range(file.admitted) : other.id # env.id
      BY <3>1, IdsOfRange DEF Present
    <3>3. Range(file'.staged) = Range(file.staged) \cup {env}
      <4>1. /\ << env >> \in Seq(Pushes) /\ Range(<< env >>) = {env}
        BY DEF Range
      <4>2. Append(file.staged, env) = file.staged \o << env >>
        BY <1>1, AppendIsConcat
      <4>3. Range(file.staged \o << env >>) = Range(file.staged) \cup Range(<< env >>)
        <5>1. file.staged \in Seq(Pushes) /\ << env >> \in Seq(Pushes)
          BY <1>1, <4>1
        <5> QED BY ONLY <5>1, RangeConcatenation
      <4> QED BY <3>1, <4>1, <4>2, <4>3
    <3>4. env.id \notin receipts
      BY <3>1 DEF SerialInv, Ledger
    <3>5. Told' = Told
      BY <1>1, <3>1, <3>3, <3>4 DEF Told
    <3>6. AsMailbox!Put(env)
      BY <3>1, <3>2, <3>5 DEF AsMailbox!Put, AsMailbox!Range, Told, Range
    <3> QED BY <3>6
  <2> QED BY <2>2, <2>3
<1>3. CASE verb[p] = "drain"
  <2> DEFINE n == Len(file.staged)
  <2>1. /\ file'.staged = << >>
        /\ file'.admitted = file.admitted \o file.staged
    BY <1>3, RenameSaves
  <2>2. /\ Range(file'.admitted) = Range(file.admitted) \cup Range(file.staged)
        /\ Range(file'.staged) = {}
    <3>1. Range(file.admitted \o file.staged)
            = Range(file.admitted) \cup Range(file.staged)
      BY <1>1, RangeConcatenation
    <3>2. Range(<< >>) = {}
      BY DEF Range
    <3> QED BY <2>1, <3>1, <3>2
  <2>3. Told' = Told
    BY <1>1, <2>2 DEF Told
  <2>4. /\ SubSeq(file.staged, 1, n) = file.staged
        /\ SubSeq(file.staged, n + 1, n) = << >>
    <3>1. n \in Nat /\ n + 1 > n
      BY <1>1
    <3> QED BY <1>1, <3>1, SubSeqFull, SubSeqEmpty
  <2>5. AsMailbox!Take(n)
    BY <2>1, <2>3, <2>4 DEF AsMailbox!Take, Told, Range, AsMailbox!Range
  <2>6. CASE n = 0
    <3>1. file.staged = << >>
      BY <1>1, <2>6
    <3>2. file.admitted \o << >> = file.admitted
      BY <1>1
    <3> QED BY <2>1, <2>3, <3>1, <3>2 DEF Told, Range, AsMailbox!Range
  <2>7. CASE n # 0
    <3>1. n \in 1 .. Len(file.staged)
      BY <1>1, <2>7
    <3> QED BY <2>5, <3>1
  <2> QED BY <2>6, <2>7
<1> QED BY <1>2, <1>3, RenameSaves

LEMMA PrintAcknowledges ==
    ASSUME SerialInv, NEW p \in Procs, PrintOut(p)
    PROVE  [AsMailbox!Next]_(AsMailbox!vars)
<1> USE DEF AsMailbox!Next, AsMailbox!vars
<1>1. UNCHANGED file /\ pc[p] = "print"
  BY DEF PrintOut
<1>2. CASE Admitting(p)
  <2>1. receipts' = receipts
    BY <1>2 DEF PrintOut, Admitting
  <2> QED BY <1>1, <2>1
<1>3. CASE Staging(p)
  <2>1. PICK push \in Pushes : cargo[p] = << push >> /\ push.id \in Present
    BY <1>1, <1>3 DEF Staging
  <2>2. IdsIn(cargo[p]) = {push.id}
    BY <2>1 DEF IdsIn
  <2>3. receipts' = receipts \cup {push.id}
    BY <1>3, <2>2 DEF PrintOut, Staging
  <2>4. PICK env \in Range(file.staged) \cup Range(file.admitted) :
          /\ env.id = push.id
          /\ \A other \in Range(file.staged) \cup Range(file.admitted) :
                other.id = push.id => other = env
    BY <2>1, OneOfEach
  <2>5. Told' = Told \cup {env}
    BY <1>1, <2>3, <2>4 DEF Told
  <2>6. AsMailbox!Acknowledge(env)
    BY <1>1, <2>4, <2>5 DEF AsMailbox!Acknowledge, AsMailbox!Range, Told, Range
  <2>7. env \in Pushes
    <3>1. file.staged \in Seq(Pushes) /\ file.admitted \in Seq(Pushes)
      BY DEF SerialInv, Base, TypeOK, Inbox
    <3> QED BY <2>4, <3>1, RangeOfSeq
  <2> QED BY <2>6, <2>7
<1> QED BY <1>1, <1>2, <1>3 DEF SerialInv, Errand

\* With one writer at a time the passive inbox implements the mailbox.
THEOREM SerializedImplementsMailbox ==
    ASSUME Serialized PROVE Spec => ImplementsMailbox
<1>1. Init => AsMailbox!Init
  BY DEF Init, EmptyInbox, AsMailbox!Init, Range, AsMailbox!Range
<1>2. ASSUME SerialInv, [Next]_vars PROVE [AsMailbox!Next]_(AsMailbox!vars)
  <2>1. ASSUME UNCHANGED << file, receipts >> PROVE UNCHANGED AsMailbox!vars
    BY <2>1 DEF AsMailbox!vars
  <2>2. \/ \E p \in Procs : Rename(p) \/ PrintOut(p)
        \/ UNCHANGED << file, receipts >>
    BY <1>2 DEF Next, Step, Dispatch, TakeTurn, Begin, WriteTmp, RenameFails, Die, vars
  <2> QED BY <1>2, <2>1, <2>2, RenameIsPutOrTake, PrintAcknowledges
<1>3. SerialInv /\ [Next]_vars => [AsMailbox!Next]_(AsMailbox!vars)
  BY <1>2
<1> QED BY <1>1, <1>3, InitSerial, NextSerial, PTL
        DEF Spec, ImplementsMailbox, AsMailbox!Spec
===============================================================================

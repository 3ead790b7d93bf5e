-------------------------------- MODULE Mailbox --------------------------------
(***************************************************************************)
(* What a station queue promises, with no files and no processes: an       *)
(* envelope is put in once, under an id never used before; a reader takes  *)
(* envelopes from the front; a producer is told of an envelope only once   *)
(* it is in. So nothing acknowledged is lost, nothing is taken twice, and  *)
(* envelopes are taken in the order they were put (src/src/read.rs, lines  *)
(* 5-8 and 38-42; src/src/send.rs, lines 57-79).                           *)
(***************************************************************************)
EXTENDS Naturals, Sequences, Functions

CONSTANT Envelopes       \* records with a field id

VARIABLES
    pending,     \* envelopes waiting, oldest first
    taken,       \* envelopes taken, oldest first
    receipts     \* envelopes whose producer has been told

vars == << pending, taken, receipts >>

Init ==
    /\ pending = << >>
    /\ taken = << >>
    /\ receipts = {}

Put(env) ==
    /\ \A other \in Range(pending) \cup Range(taken) : other.id # env.id
    /\ pending' = Append(pending, env)
    /\ UNCHANGED << taken, receipts >>

Take(n) ==
    /\ taken' = taken \o SubSeq(pending, 1, n)
    /\ pending' = SubSeq(pending, n + 1, Len(pending))
    /\ UNCHANGED receipts

Acknowledge(env) ==
    /\ env \in Range(pending) \cup Range(taken)
    /\ receipts' = receipts \cup {env}
    /\ UNCHANGED << pending, taken >>

Next ==
    \/ \E env \in Envelopes : Put(env) \/ Acknowledge(env)
    \/ \E n \in 1 .. Len(pending) : Take(n)

Spec == Init /\ [][Next]_vars
===============================================================================

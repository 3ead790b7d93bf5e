------------------------------ MODULE MCCrossHost ------------------------------
(***************************************************************************)
(* The instance of CrossHost that TLC checks: two seats emit the same      *)
(* content, and the station publishes events of its own beside it.         *)
(***************************************************************************)
EXTENDS CrossHost, TLC

CONSTANTS e1, e2, r

MCEffectIds == (0 .. MaxSeq - 1) \cup RemoteEvents

MCContent == e1 :> r @@ e2 :> r

MCStableId == [c \in RemoteEvents |-> c]
===============================================================================

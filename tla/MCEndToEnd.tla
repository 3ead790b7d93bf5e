------------------------------ MODULE MCEndToEnd ------------------------------
(***************************************************************************)
(* The instance of EndToEnd that TLC checks: a seat emits its event up to  *)
(* three times to a station that publishes an event of its own beside it.  *)
(***************************************************************************)
EXTENDS EndToEnd

CONSTANTS e, r

MCEffectIds == (0 .. MaxSeq - 1) \cup RemoteEvents

MCContent == [x \in {e} |-> r]
===============================================================================

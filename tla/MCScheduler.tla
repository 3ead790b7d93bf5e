------------------------------ MODULE MCScheduler ------------------------------
(***************************************************************************)
(* The instance of Scheduler that TLC checks. The code's limits (20, 8,    *)
(* 128, 64, 1 MiB) are scaled down to a few envelopes in the .cfg files,   *)
(* with the order between them that each run is about.                     *)
(***************************************************************************)
EXTENDS Scheduler
===============================================================================

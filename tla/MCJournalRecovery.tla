--------------------------- MODULE MCJournalRecovery ---------------------------
(***************************************************************************)
(* The instance of JournalRecovery that TLC checks: model values for the   *)
(* effect ids, and MaxCrashes to bound how often an effect is repeated by  *)
(* a host that enacts before it saves.                                     *)
(***************************************************************************)
EXTENDS JournalRecovery
===============================================================================

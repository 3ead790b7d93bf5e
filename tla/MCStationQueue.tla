---------------------------- MODULE MCStationQueue ----------------------------
(***************************************************************************)
(* The instance of StationQueue that TLC checks. Model values name the     *)
(* processes and the events; the local ids are 0 .. MaxSeq - 1.            *)
(***************************************************************************)
EXTENDS StationQueue, TLC

MCEffectIds == (0 .. MaxSeq - 1) \cup RemoteEvents

\* The unserialized runs that ask nothing about taken and rendered leave them
\* out of the state: an envelope can be taken again and again there.
WithoutHistory == << disk, procs, receipts, faults >>

ProcsAlike == Permutations(Procs)
===============================================================================

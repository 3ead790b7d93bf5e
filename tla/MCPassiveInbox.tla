---------------------------- MODULE MCPassiveInbox ----------------------------
(***************************************************************************)
(* The instance of PassiveInbox that TLC checks: two effects, the first of *)
(* which is pushed under two payloads.                                     *)
(***************************************************************************)
EXTENDS PassiveInbox, TLC

CONSTANTS e1, e2, x, y

MCPushes == {[id |-> e1, payload |-> x], [id |-> e1, payload |-> y],
             [id |-> e2, payload |-> x]}

\* Without what was printed: unserialized verbs can print any number of turns.
WithoutHistory == << file, tmp, procs, faults >>

ProcsAlike == Permutations(Procs)
===============================================================================

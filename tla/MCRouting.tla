------------------------------- MODULE MCRouting -------------------------------
(***************************************************************************)
(* The instance of Routing and Launch that TLC checks. Of transports, one  *)
(* of each kind the code tells apart and one it does not know. Of names,   *)
(* some in which either separator runs together with a role, and runs that *)
(* differ only beyond what a session name keeps of them.                   *)
(*                                                                         *)
(* Routing and each of Launch's variables share nothing, so that a state   *)
(* in which two of them have moved shows nothing that two states, one for  *)
(* each, do not: only one of them moves.                                   *)
(***************************************************************************)
EXTENDS Routing, Launch

MCTransports == {"ssh", "local-socket", "sbox-remote", "pigeon"}

MCRuns ==
    {<< "a" >>, << "a", "-", "a" >>, << "a", ":", "a" >>,
     << "a", "a", "a" >>, << "a", "a", "a", "a" >>, << "a", "a", "a", "-" >>}

MCRoles == {<< "a" >>, << "a", "-", "a" >>, << "a", ":", "a" >>}

MCInit == Init /\ LaunchInit

MCNext ==
    \/ Next /\ LaunchInit /\ UNCHANGED launched
    \/ Init /\ stations = {} /\ mail = None /\ SaveSome /\ UNCHANGED vars
    \/ Init /\ saved = None /\ mail = None /\ LaunchSome /\ UNCHANGED vars
    \/ Init /\ saved = None /\ stations = {} /\ WriteOrLook /\ UNCHANGED vars

MCSpec == MCInit /\ [][MCNext]_<< vars, launched >>
===============================================================================

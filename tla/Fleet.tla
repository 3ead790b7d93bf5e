--------------------------------- MODULE Fleet ---------------------------------
(***************************************************************************)
(* The fleet profile of src/src/fleet.rs: a default every team inherits, an *)
(* override that names the keys it changes, and the profile that is saved  *)
(* as a record and read back. All of it is pure; Routing and Launch have    *)
(* the states it is part of.                                               *)
(*                                                                         *)
(* The code tells an absent key (None), an empty string (Blank) and one of *)
(* nothing but spaces (Spaces) apart, not always in the same way.          *)
(***************************************************************************)
CONSTANTS None, Blank, Spaces

ASSUME FleetAssumption ==
    /\ None # Blank /\ None # Spaces /\ Blank # Spaces
    /\ {None, Blank, Spaces} \cap {"herdr", "omp", "3by2", "named"} = {}

Opt(S) == S \cup {None}

Keys == {"surface", "harness", "layout"}

\* FleetDefault::default.
BuiltIn == [surface |-> "herdr", harness |-> "omp", layout |-> "3by2"]

\* fleet_default: the keys the record's `default` names take the place of the
\* built-in ones.
DefaultOf(named) ==
    [k \in Keys |-> IF named[k] # None THEN named[k] ELSE BuiltIn[k]]

\* resolve: an override that names a key and leaves it blank is refused, a key
\* it does not name is inherited.
OverrideFails(over) == \E k \in Keys : over[k] \in {Blank, Spaces}
Profile(named, over) ==
    [k \in Keys |-> IF over[k] # None THEN over[k] ELSE DefaultOf(named)[k]]

\* Mutant of RecordFails: a record is taken as it is.
RecordPasses(profile) == FALSE

\* from_record of what to_record writes. The stamps of version and generation
\* are always written.
RecordFails(profile) == \E k \in Keys : profile[k] = Blank

\* A record's `default` or `override`: what it says of each key.
Inputs == [Keys -> Opt({Blank, Spaces, "named"})]
===============================================================================

--------------------------------- MODULE Launch ---------------------------------
(***************************************************************************)
(* What a launched run leaves behind and where it is found again: the      *)
(* profile it saves (resolve, to_record and from_record of                 *)
(* src/src/fleet.rs), the surface each of its stations is bound to         *)
(* (backend_surface of src/src/resolve.rs), and the directory a process    *)
(* puts its records in (resolve_state_dir of src/src/main.rs, inbox_path   *)
(* of src/src/inbox.rs) and another looks for them: cf's heartbeat for the *)
(* marker, `inbox drain` for the inbox.                                    *)
(*                                                                         *)
(* The three share nothing, and each is a variable of its own. Names are   *)
(* sequences of letters, as surfaces are names that are joined.            *)
(***************************************************************************)
EXTENDS Fleet, Naturals, Sequences, FiniteSets, Functions

CONSTANTS
    Runs, Roles,    \* names: sequences of letters
    RunCap,         \* how much of a run's name a herdr session keeps
    MaxStations     \* bound: stations that are launched

ASSUME LaunchAssumption ==
    /\ Runs \subseteq Seq(STRING) /\ Roles \subseteq Seq(STRING)
    /\ RunCap \in Nat /\ MaxStations \in Nat
    /\ {None, Blank, Spaces} \cap {"cof", "cof2", "home", "home2"} = {}

VARIABLES
    saved,      \* the profile saved last, and what it was resolved from
    stations,   \* the stations launched, with their surfaces
    mail        \* the record written last, where, and who looked for it

launched == << saved, stations, mail >>

LaunchInit ==
    /\ saved = None
    /\ stations = {}
    /\ mail = None

-------------------------------------------------------------------------------
\* resolve and to_record. An override that fails saves nothing.
SaveProfile(named, over) ==
    /\ ~OverrideFails(over)
    /\ saved' = [default |-> named, override |-> over, profile |-> Profile(named, over)]
    /\ UNCHANGED << stations, mail >>

-------------------------------------------------------------------------------
\* station_environment: the role's own environment, else the run's; the empty
\* string when there is neither.
Environment(own, shared) ==
    IF own \notin {None, Blank} THEN own
    ELSE IF shared # None THEN shared ELSE Blank

\* herdr_session_name: the first RunCap letters of the run, and the role.
BoundedRun(run) == SubSeq(run, 1, IF Len(run) < RunCap THEN Len(run) ELSE RunCap)

\* Mutant of SurfaceRef: the cap is on the whole session name.
SurfaceRefCapped(adapter, run, role, environment) ==
    CASE adapter = "cmux"  -> run \o << ":" >> \o role
      [] adapter = "herdr" -> BoundedRun(run \o << "-" >> \o role)
      [] adapter = "sbox"  -> << environment >>

\* backend_surface, without the constant prefix.
SurfaceRef(adapter, run, role, environment) ==
    CASE adapter = "cmux"  -> run \o << ":" >> \o role
      [] adapter = "herdr" -> BoundedRun(run) \o << "-" >> \o role
      [] adapter = "sbox"  -> << environment >>

LaunchStation(adapter, run, role, environment) ==
    /\ stations' = stations \cup
            {[adapter |-> adapter, run |-> run, role |-> role,
              environment |-> environment,
              surface |-> SurfaceRef(adapter, run, role, environment)]}
    /\ Cardinality(stations') <= MaxStations
    /\ UNCHANGED << saved, mail >>

-------------------------------------------------------------------------------
\* The directory a process is started in and its variables CF_COF_HOME and HOME;
\* a verb has the flag --state-dir and COMMS_AXI_STATE_DIR beside them.
Homes ==
    [cwd : {"here", "there"}, cof_home : Opt({Blank, Spaces, "cof", "cof2"}),
     home : Opt({"home", "home2"})]

Process ==
    {[cwd |-> h.cwd, cof_home |-> h.cof_home, home |-> h.home,
      flag |-> flag, state_dir |-> dir] :
        h \in Homes, flag \in Opt({Blank, "flag"}), dir \in Opt({Blank, Spaces, "state"})}

Set(value) == value \notin {None, Blank, Spaces}

HomeOf(p) == IF p.home = None THEN Blank ELSE p.home

\* Where a process finds a path that begins with this name: an absolute one at the
\* root, one that begins with nothing or with spaces where it was started.
Base(p, name) == IF name \in {Blank, Spaces} THEN p.cwd ELSE "/"

Under(p, home) == << Base(p, home), home, ".omp", "state" >>

\* Mutant of StateDir: a variable that is set and blank counts.
StateDirOfBlank(p) ==
    IF p.flag # None THEN << Base(p, p.flag), p.flag >>
    ELSE IF p.state_dir # None THEN << Base(p, p.state_dir), p.state_dir >>
    ELSE IF p.cof_home # None THEN Under(p, p.cof_home)
    ELSE Under(p, HomeOf(p))

\* resolve_state_dir. The flag counts even when it is blank.
StateDir(p) ==
    IF p.flag # None THEN << Base(p, p.flag), p.flag >>
    ELSE IF Set(p.state_dir) THEN << "/", p.state_dir >>
    ELSE IF Set(p.cof_home) THEN Under(p, p.cof_home)
    ELSE Under(p, HomeOf(p))

\* inbox_path. Any CF_COF_HOME counts that is set, a blank one for the working
\* directory.
InboxDir(p) == Under(p, IF p.cof_home # None THEN p.cof_home ELSE HomeOf(p))

\* cf's heartbeat reader, which is not of this repository: it is anchored on the
\* Chief of Staff's home alone.
CfStateDir(p) == Under(p, IF Set(p.cof_home) THEN p.cof_home ELSE HomeOf(p))

\* One record is followed from its writer to its readers.
Written(p, kind, dir) ==
    /\ mail = None
    /\ mail' = [kind |-> kind, by |-> p, dir |-> dir, reader |-> None, found |-> FALSE]
    /\ UNCHANGED << saved, stations >>

SetMarker(p) == Written(p, "marker", StateDir(p))

StageInbox(p) == Written(p, "inbox", InboxDir(p))

LookedFor(kind, reader, dir) ==
    /\ mail # None
    /\ mail.kind = kind
    /\ mail' = [mail EXCEPT !.reader = reader, !.found = mail.dir = dir]
    /\ UNCHANGED << saved, stations >>

\* cf's heartbeat stats the marker.
StatMarker(reader) == LookedFor("marker", reader, CfStateDir(reader))

\* The Chief of Staff's `inbox drain`: a file that is not there is an empty inbox.
LoadInbox(reader) == LookedFor("inbox", reader, InboxDir(reader))

-------------------------------------------------------------------------------
SaveSome == \E named, over \in Inputs : SaveProfile(named, over)

LaunchSome ==
    \E adapter \in {"cmux", "herdr", "sbox"}, run \in Runs, role \in Roles,
       own \in Opt({Blank, "s1"}), shared \in Opt({Blank, "s2"}) :
        LaunchStation(adapter, run, role, Environment(own, shared))

WriteOrLook ==
    \/ \E p \in Process : SetMarker(p) \/ StageInbox(p)
    \/ \E reader \in Homes : StatMarker(reader) \/ LoadInbox(reader)

LaunchNext == SaveSome \/ LaunchSome \/ WriteOrLook

LaunchSpec == LaunchInit /\ [][LaunchNext]_launched

-------------------------------------------------------------------------------
\* A profile that was saved is read back, unless a key is empty in the default
\* and left to it: resolve refuses blanks of the override alone, and from_record
\* refuses empty keys wherever they come from (fleet.rs, lines 84-94 and
\* 140-151). A key of spaces, which resolve calls blank, passes from a default.
ProfileReadsBack ==
    saved # None =>
        /\ RecordFails(saved.profile) <=>
                \E k \in Keys : saved.default[k] = Blank /\ saved.override[k] = None
        /\ \A k \in Keys : saved.profile[k] = Spaces => saved.override[k] = None

\* A surface belongs to one station. Two share it only where they are bound to
\* one sandbox, or to none; where a role's name contains the separator; or, in
\* herdr, where the runs agree as far as the session name keeps them (resolve.rs,
\* lines 264-279).
SurfaceIsOwned ==
    \A s, t \in stations :
        s.adapter = t.adapter /\ s.surface = t.surface =>
            \/ s.run = t.run /\ s.role = t.role
            \/ s.adapter = "sbox" /\ s.environment = t.environment
            \/ s.adapter = "cmux" /\ ":" \in Range(s.role) \cup Range(t.role)
            \/ s.adapter = "herdr" /\ "-" \in Range(s.role) \cup Range(t.role)
            \/ s.adapter = "herdr" /\ s.role = t.role
               /\ BoundedRun(s.run) = BoundedRun(t.run)

\* What a process writes is found by the readers that share its home and missed by
\* all others, on machines where HOME and CF_COF_HOME differ too. The marker of a
\* verb that is given no directory, by flag or variable, is found by a heartbeat of
\* the same CF_COF_HOME whatever their HOMEs, and without one of the same HOME
\* (main.rs, lines 519-528); so is the inbox by the next `inbox drain`. A
\* CF_COF_HOME that is set and blank is none to the marker, and to the inbox the
\* directory a process is started in (inbox.rs, lines 170-178): the same two
\* processes then find each other's markers and miss each other's inbox, without
\* an error, as a file that is missing is an empty inbox.
SameHome(p, q) ==
    IF Set(p.cof_home) \/ Set(q.cof_home)
    THEN p.cof_home = q.cof_home
    ELSE HomeOf(p) = HomeOf(q) /\ (HomeOf(p) = Blank => p.cwd = q.cwd)

Homeless(p) == p.cof_home = None /\ HomeOf(p) = Blank

RecordsReachReaders ==
    mail # None /\ mail.reader # None =>
        LET p == mail.by
            q == mail.reader
        IN  /\ mail.kind = "marker" /\ p.flag = None /\ ~Set(p.state_dir) =>
                    (mail.found <=> SameHome(p, q))
            /\ mail.kind = "inbox" =>
                    (mail.found <=>
                        IF {p.cof_home, q.cof_home} \cap {Blank, Spaces} = {}
                        THEN SameHome(p, q)
                        ELSE /\ p.cwd = q.cwd
                             /\ \/ p.cof_home = q.cof_home
                                \/ Homeless(p) /\ q.cof_home = Blank
                                \/ p.cof_home = Blank /\ Homeless(q))
===============================================================================

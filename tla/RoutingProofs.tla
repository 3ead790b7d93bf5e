----------------------------- MODULE RoutingProofs -----------------------------
(***************************************************************************)
(* Routing: proofs for every registry of transports, every record and      *)
(* every order of edits. What is known of a record is what resolve_role    *)
(* let pass; the answer given last remembers it. And Launch: for any names *)
(* of runs and roles, and however much of a run's name a session keeps.    *)
(***************************************************************************)
EXTENDS Routing, Launch, SequenceTheorems, TLAPS

Named == {"host", "transport", "override", "fleet", "fleetDefault", "fleetOver",
          "cos_surface", "adapter", "sandboxed"}

\* What a verb answered under a binding: it has resolved the record under some
\* hint, and a report is the binding's own.
AnswerInv ==
    /\ DOMAIN record = Named
    /\ Bound =>
        /\ \E flag : /\ Resolves(Layered(flag))
                     /\ answer.hint = Layered(flag).cos_surface
                     /\ answer.binding = Binding(Layered(flag))
        /\ answer.verb = "report" => answer.out = Report(answer.binding)

LEMMA AnswerKeepsInv ==
    ASSUME NEW name, NEW flag, NEW out, AnswerInv, UNCHANGED record,
           Answer(name, flag, out),
           name = "report" => out = Report(Binding(Layered(flag)))
    PROVE  AnswerInv'
<1> DEFINE r == Layered(flag)
<1>1. /\ answer'.verb = name
      /\ answer'.hint = r.cos_surface
      /\ answer'.binding = IF Resolves(r) THEN Binding(r) ELSE None
      /\ answer'.out = IF Resolves(r) THEN out ELSE "unresolved"
  BY DEF Answer
<1>2. DOMAIN record' = Named
  BY DEF AnswerInv
<1>3. ASSUME Bound'
      PROVE  /\ Resolves(r) /\ answer'.binding = Binding(r) /\ answer'.out = out
             /\ answer'.verb = "report" => answer'.out = Report(answer'.binding)
  BY <1>1, <1>3 DEF Bound
<1>4. Layered(flag)' = Layered(flag)
  BY DEF Layered
<1>5. /\ Resolves(Layered(flag))' <=> Resolves(Layered(flag))
      /\ Binding(Layered(flag))' = Binding(Layered(flag))
      /\ \A b : Report(b)' = Report(b)
  BY <1>4
<1> QED BY <1>1, <1>2, <1>3, <1>4, <1>5 DEF AnswerInv

LEMMA NextAnswer == AnswerInv /\ [Next]_vars => AnswerInv'
<1> SUFFICES ASSUME AnswerInv, [Next]_vars PROVE AnswerInv'
  OBVIOUS
<1>1. ASSUME NEW flag, Resolve(flag) \/ Emit(flag) \/ ReportTurn(flag)
      PROVE  AnswerInv'
  <2>1. CASE Resolve(flag)
    BY <2>1, AnswerKeepsInv DEF Resolve
  <2>2. CASE Emit(flag)
    BY <2>2, AnswerKeepsInv DEF Emit
  <2>3. CASE ReportTurn(flag)
    BY <2>3, AnswerKeepsInv DEF ReportTurn
  <2> QED BY <1>1, <2>1, <2>2, <2>3
<1>2. ASSUME DOMAIN record' = DOMAIN record, answer' = None PROVE AnswerInv'
  BY <1>2 DEF AnswerInv, Bound, Answered
<1>3. ASSUME NEW field, NEW value, Edit(field, value) PROVE AnswerInv'
  BY <1>2, <1>3 DEF Edit
<1>4. ASSUME NEW on, SetGate(on) PROVE AnswerInv'
  BY <1>2, <1>4 DEF SetGate
<1>5. CASE Next
  BY <1>1, <1>3, <1>4, <1>5 DEF Next
<1>6. CASE UNCHANGED vars
  <2>1. UNCHANGED << record, answer >>
    BY <1>6 DEF vars
  <2>2. \A flag : Layered(flag)' = Layered(flag)
    BY <2>1 DEF Layered
  <2> QED BY <2>1, <2>2 DEF AnswerInv, Bound, Answered
<1> QED BY <1>5, <1>6

LEMMA InvariantAnswer == Spec => []AnswerInv
<1>1. Init => AnswerInv
  BY DEF Init, EmptyRecord, Named, AnswerInv, Bound, Answered
<1> QED BY <1>1, NextAnswer, PTL DEF Spec

\* What a hint does to the binding of a record.
LEMMA HintAndBinding ==
    ASSUME DOMAIN record = Named, NEW flag, NEW flag2,
           record.override # None \/ record.fleet
              \/ Layered(flag).cos_surface = Layered(flag2).cos_surface
    PROVE  Binding(Layered(flag)) = Binding(Layered(flag2))
<1> DEFINE r == Layered(flag)
           q == Layered(flag2)
<1>1. \A f : \A n \in Named \ {"cos_surface"} : Layered(f)[n] = record[n]
  BY DEF Layered
<1>2. /\ r.host = q.host /\ r.transport = q.transport /\ r.override = q.override
      /\ r.fleet = q.fleet /\ r.fleetDefault = q.fleetDefault
      /\ r.fleetOver = q.fleetOver /\ r.adapter = q.adapter
      /\ r.sandboxed = q.sandboxed
      /\ r.override = record.override /\ r.fleet = record.fleet
  BY <1>1 DEF Named
<1> HIDE DEF r, q
<1>3. Transport(r) = Transport(q)
  BY <1>2 DEF Transport, Host
<1>4. Surface(r) = Surface(q)
  <2>1. FleetSurface(r) = FleetSurface(q)
    BY <1>2 DEF FleetSurface
  <2>2. record.override # None \/ record.fleet \/ r.cos_surface = q.cos_surface
    BY DEF r, q
  <2> QED BY <1>2, <2>1, <2>2 DEF Surface
<1>5. Adapter(r) = Adapter(q)
  BY <1>2, <1>4 DEF Adapter
<1>6. Binding(r) = Binding(q)
  BY <1>3, <1>4, <1>5 DEF Binding
<1> QED BY <1>6 DEF r, q

\* Whatever hints two verbs give, one record gives one binding, unless neither an
\* override nor a fleet names the surface.
THEOREM HintsAreNoSwitch == Spec => HintIsNoSwitch
<1> DEFINE Same ==
        Bound /\ Bound' /\ answer.binding # answer'.binding =>
            record.override = None /\ ~record.fleet /\ answer.hint # answer'.hint
<1>1. AnswerInv /\ AnswerInv' /\ [Next]_vars => [Same]_vars
  <2> SUFFICES ASSUME AnswerInv, AnswerInv', Next, Bound, Bound'
               PROVE  Same
    OBVIOUS
  <2>1. answer' # None
    BY DEF Bound, Answered
  <2>2. record' = record
    BY <2>1 DEF Next, Resolve, Emit, ReportTurn, Edit, SetGate
  <2>3. PICK f : /\ answer.hint = Layered(f).cos_surface
                 /\ answer.binding = Binding(Layered(f))
    BY DEF AnswerInv
  <2>4. PICK g : /\ answer'.hint = Layered(g)'.cos_surface
                 /\ answer'.binding = Binding(Layered(g))'
    BY DEF AnswerInv
  <2>5. Layered(g)' = Layered(g)
    BY <2>2 DEF Layered
  <2>6. Binding(Layered(g))' = Binding(Layered(g))
    BY <2>5
  <2>7. DOMAIN record = Named
    BY DEF AnswerInv
  <2>8. \/ record.override # None \/ record.fleet
        \/ Layered(f).cos_surface = Layered(g).cos_surface
        => Binding(Layered(f)) = Binding(Layered(g))
    BY <2>7, HintAndBinding
  <2> QED BY <2>3, <2>4, <2>5, <2>6, <2>8
<1> QED BY <1>1, InvariantAnswer, PTL DEF Spec, HintIsNoSwitch

\* Both directions of a conversation go by one entry of MESSAGING, or neither
\* has one.
LEMMA OneEntry ==
    ASSUME NEW b
    PROVE  IF HasMessaging(b.adapter)
           THEN \E s \in {"omp", "herdr"} :
                    /\ MessagingFor(s).report = Report(b)
                    /\ MessagingFor(s).tool = Rendered(b)
           ELSE Rendered(b) = "no-messaging-adapter" /\ Report(b) = "no-report-adapter"
<1>1. CASE HasMessaging(b.adapter)
  <2> DEFINE E == {MessagingFor(s) : s \in {"omp", "herdr"}}
  <2>1. \E m \in E : m.adapter = b.adapter
    BY <1>1 DEF HasMessaging
  <2>2. MessagingOf(b.adapter) \in E
    BY <2>1 DEF MessagingOf
  <2>3. PICK s \in {"omp", "herdr"} : MessagingOf(b.adapter) = MessagingFor(s)
    BY <2>2
  <2> QED BY <1>1, <2>3 DEF Report, Rendered
<1>2. CASE ~HasMessaging(b.adapter)
  BY <1>2 DEF Report, Rendered
<1> QED BY <1>1, <1>2

THEOREM PeersAlwaysAgree == Spec => []PeersAgree
<1>1. AnswerInv => PeersAgree
  <2> SUFFICES ASSUME AnswerInv, Bound, answer.verb = "report"
               PROVE  IF SendEvent(answer.binding, FALSE) = "no-messaging-adapter"
                      THEN answer.out = "no-report-adapter"
                      ELSE \E s \in {"omp", "herdr"} :
                            /\ MessagingFor(s).report = answer.out
                            /\ MessagingFor(s).tool = SendEvent(answer.binding, FALSE)
    BY DEF PeersAgree
  <2> DEFINE b == answer.binding
  <2>1. answer.out = Report(b)
    BY DEF AnswerInv
  <2>2. SendEvent(b, FALSE) = Rendered(b)
    BY DEF SendEvent
  <2>3. \A s \in {"omp", "herdr"} : MessagingFor(s).tool # "no-messaging-adapter"
    BY DEF MessagingFor
  <2> QED BY <2>1, <2>2, <2>3, OneEntry
<1> QED BY <1>1, InvariantAnswer, PTL

-------------------------------------------------------------------------------
(***************************************************************************)
(* The fleet profile, of any default and any override.                     *)
(***************************************************************************)
LEMMA BlankSlot ==
    ASSUME NEW named \in Inputs, NEW over \in Inputs, ~OverrideFails(over), NEW k \in Keys
    PROVE  /\ Profile(named, over)[k] = Blank <=> named[k] = Blank /\ over[k] = None
           /\ Profile(named, over)[k] = Spaces => over[k] = None
<1>1. /\ Profile(named, over)[k] = IF over[k] # None THEN over[k] ELSE DefaultOf(named)[k]
      /\ DefaultOf(named)[k] = IF named[k] # None THEN named[k] ELSE BuiltIn[k]
  BY DEF Profile, DefaultOf
<1>2. over[k] \notin {Blank, Spaces}
  BY DEF OverrideFails
<1>3. BuiltIn[k] \in {"herdr", "omp", "3by2"}
  BY DEF BuiltIn, Keys
<1>4. BuiltIn[k] # Blank
  BY <1>3, FleetAssumption
<1>5. named[k] = Blank => named[k] # None
  BY FleetAssumption
<1> QED BY <1>1, <1>2, <1>4, <1>5

\* What is saved is a profile resolve has returned.
SavedInv ==
    saved # None =>
        /\ saved.default \in Inputs /\ saved.override \in Inputs
        /\ ~OverrideFails(saved.override)
        /\ saved.profile = Profile(saved.default, saved.override)

LEMMA NextSaved == SavedInv /\ [LaunchNext]_launched => SavedInv'
<1> SUFFICES ASSUME SavedInv, [LaunchNext]_launched PROVE SavedInv'
  OBVIOUS
<1>1. ASSUME NEW named \in Inputs, NEW over \in Inputs, SaveProfile(named, over)
      PROVE  SavedInv'
  BY <1>1 DEF SaveProfile, SavedInv
<1>2. ASSUME saved' = saved PROVE SavedInv'
  BY <1>2 DEF SavedInv
<1> QED
  BY <1>1, <1>2 DEF LaunchNext, SaveSome, LaunchSome, LaunchStation, WriteOrLook,
     SetMarker, StageInbox, Written, StatMarker, LoadInbox,
     LookedFor, launched

\* Only an empty key of the default that the override leaves alone is lost when
\* a profile is saved and read back.
THEOREM ProfilesReadBack == LaunchSpec => []ProfileReadsBack
<1>1. LaunchInit => SavedInv
  BY DEF LaunchInit, SavedInv
<1>2. SavedInv => ProfileReadsBack
  BY BlankSlot DEF SavedInv, ProfileReadsBack, RecordFails
<1> QED BY <1>1, <1>2, NextSaved, PTL DEF LaunchSpec

-------------------------------------------------------------------------------
(***************************************************************************)
(* Surfaces. Joined names come apart again at the last separator, if it is *)
(* in no role.                                                             *)
(***************************************************************************)
Joined(a, x, b) == a \o << x >> \o b

\* The letters of a joined name, with their places.
Spelled(a, x, b) ==
    /\ Len(a) \in Nat /\ Len(b) \in Nat
    /\ Len(Joined(a, x, b)) = Len(a) + 1 + Len(b)
    /\ \A i \in 1 .. Len(a) : Joined(a, x, b)[i] = a[i]
    /\ Joined(a, x, b)[Len(a) + 1] = x
    /\ \A i \in 1 .. Len(b) : Joined(a, x, b)[Len(a) + 1 + i] = b[i]

LEMMA JoinedIsSpelled ==
    ASSUME NEW S, NEW a \in Seq(S), NEW x, NEW b \in Seq(S)
    PROVE  Spelled(a, x, b)
BY DEF Joined, Spelled

LEMMA ShorterRole ==
    ASSUME NEW S, NEW a \in Seq(S), NEW b \in Seq(S), NEW c \in Seq(S), NEW d \in Seq(S),
           NEW x, x \notin Range(d), Joined(a, x, b) = Joined(c, x, d)
    PROVE  ~(Len(b) < Len(d))
<1> SUFFICES ASSUME Len(b) < Len(d) PROVE FALSE
  OBVIOUS
<1>1. Spelled(a, x, b) /\ Spelled(c, x, d)
  BY JoinedIsSpelled
<1>2. PICK m \in Nat : m = Len(a)
  BY <1>1 DEF Spelled
<1>3. PICK n \in Nat : n = Len(c)
  BY <1>1 DEF Spelled
<1>4. m - n \in 1 .. Len(d) /\ m + 1 = n + 1 + (m - n)
  BY <1>1, <1>2, <1>3 DEF Spelled
<1>5. Joined(c, x, d)[n + 1 + (m - n)] = d[m - n]
  BY <1>1, <1>3, <1>4 DEF Spelled
<1>6. Joined(a, x, b)[m + 1] = x
  BY <1>1, <1>2 DEF Spelled
<1>7. d[m - n] = x
  BY <1>4, <1>5, <1>6
<1>8. DOMAIN d = 1 .. Len(d)
  OBVIOUS
<1> QED BY <1>4, <1>7, <1>8 DEF Range

LEMMA NamesComeApart ==
    ASSUME NEW S, NEW a \in Seq(S), NEW b \in Seq(S), NEW c \in Seq(S), NEW d \in Seq(S),
           NEW x, x \notin Range(b), x \notin Range(d),
           Joined(a, x, b) = Joined(c, x, d)
    PROVE  a = c /\ b = d
<1>1. Spelled(a, x, b) /\ Spelled(c, x, d)
  BY JoinedIsSpelled
<1>2. ~(Len(b) < Len(d))
  BY ShorterRole
<1>3. ~(Len(d) < Len(b))
  BY ShorterRole
<1>4. Len(b) = Len(d) /\ Len(a) = Len(c)
  BY <1>1, <1>2, <1>3 DEF Spelled
<1>5. \A i \in 1 .. Len(a) : a[i] = c[i]
  BY <1>1, <1>4 DEF Spelled
<1>6. \A i \in 1 .. Len(b) : b[i] = d[i]
  BY <1>1, <1>4 DEF Spelled
<1>7. a = c
  BY <1>4, <1>5, SeqEqual
<1>8. b = d
  BY <1>4, <1>6, SeqEqual
<1> QED BY <1>7, <1>8

\* A launched station has the surface its adapter gives it.
StationsInv ==
    \A s \in stations :
        /\ s.adapter \in {"cmux", "herdr", "sbox"}
        /\ s.run \in Runs /\ s.role \in Roles
        /\ s.surface = SurfaceRef(s.adapter, s.run, s.role, s.environment)

LEMMA NextStations == StationsInv /\ [LaunchNext]_launched => StationsInv'
<1> SUFFICES ASSUME StationsInv, [LaunchNext]_launched PROVE StationsInv'
  OBVIOUS
<1>1. ASSUME NEW adapter \in {"cmux", "herdr", "sbox"}, NEW run \in Runs,
             NEW role \in Roles, NEW environment,
             LaunchStation(adapter, run, role, environment)
      PROVE  StationsInv'
  <2> DEFINE new == [adapter |-> adapter, run |-> run, role |-> role,
                     environment |-> environment,
                     surface |-> SurfaceRef(adapter, run, role, environment)]
  <2>1. stations' = stations \cup {new}
    BY <1>1 DEF LaunchStation
  <2>2. /\ new.adapter \in {"cmux", "herdr", "sbox"}
        /\ new.run \in Runs /\ new.role \in Roles
        /\ new.surface = SurfaceRef(new.adapter, new.run, new.role, new.environment)
    OBVIOUS
  <2> QED BY <2>1, <2>2 DEF StationsInv
<1>2. ASSUME stations' = stations PROVE StationsInv'
  BY <1>2 DEF StationsInv
<1> QED
  BY <1>1, <1>2 DEF LaunchNext, SaveSome, SaveProfile, LaunchSome, WriteOrLook,
     SetMarker, StageInbox, Written, StatMarker, LoadInbox,
     LookedFor, launched

\* Surfaces are shared as SurfaceIsOwned lists it, and in no other way, whatever
\* runs and roles are called.
THEOREM SurfacesAreOwned == LaunchSpec => []SurfaceIsOwned
<1>1. LaunchInit => StationsInv
  BY DEF LaunchInit, StationsInv
<1>2. \A run \in Runs : run \in Seq(STRING) /\ BoundedRun(run) \in Seq(STRING)
  BY LaunchAssumption DEF BoundedRun
<1>3. \A role \in Roles : role \in Seq(STRING)
  BY LaunchAssumption
<1>4. ASSUME StationsInv, NEW s \in stations, NEW t \in stations,
             s.adapter = t.adapter, s.surface = t.surface
      PROVE  \/ s.run = t.run /\ s.role = t.role
             \/ s.adapter = "sbox" /\ s.environment = t.environment
             \/ s.adapter = "cmux" /\ ":" \in Range(s.role) \cup Range(t.role)
             \/ s.adapter = "herdr" /\ "-" \in Range(s.role) \cup Range(t.role)
             \/ s.adapter = "herdr" /\ s.role = t.role
                /\ BoundedRun(s.run) = BoundedRun(t.run)
  <2>1. /\ s.adapter \in {"cmux", "herdr", "sbox"}
        /\ s.run \in Runs /\ s.role \in Roles /\ t.run \in Runs /\ t.role \in Roles
        /\ SurfaceRef(s.adapter, s.run, s.role, s.environment)
              = SurfaceRef(s.adapter, t.run, t.role, t.environment)
    BY <1>4 DEF StationsInv
  <2>2. CASE s.adapter = "cmux"
    <3>1. Joined(s.run, ":", s.role) = Joined(t.run, ":", t.role)
      BY <2>1, <2>2 DEF SurfaceRef, Joined
    <3>2. CASE ":" \notin Range(s.role) /\ ":" \notin Range(t.role)
      <4>1. /\ s.run \in Seq(STRING) /\ t.run \in Seq(STRING)
            /\ s.role \in Seq(STRING) /\ t.role \in Seq(STRING)
        BY <1>2, <1>3, <2>1
      <4>2. s.run = t.run /\ s.role = t.role
        BY <3>1, <3>2, <4>1, NamesComeApart
      <4> QED BY <4>2
    <3> QED BY <2>2, <3>2
  <2>3. CASE s.adapter = "herdr"
    <3>1. Joined(BoundedRun(s.run), "-", s.role) = Joined(BoundedRun(t.run), "-", t.role)
      BY <2>1, <2>3 DEF SurfaceRef, Joined
    <3>2. CASE "-" \notin Range(s.role) /\ "-" \notin Range(t.role)
      <4>1. /\ BoundedRun(s.run) \in Seq(STRING) /\ BoundedRun(t.run) \in Seq(STRING)
            /\ s.role \in Seq(STRING) /\ t.role \in Seq(STRING)
        BY <1>2, <1>3, <2>1
      <4>2. BoundedRun(s.run) = BoundedRun(t.run) /\ s.role = t.role
        BY <3>1, <3>2, <4>1, NamesComeApart
      <4> QED BY <2>3, <4>2
    <3> QED BY <2>3, <3>2
  <2>4. CASE s.adapter = "sbox"
    BY <2>1, <2>4 DEF SurfaceRef
  <2> QED BY <2>1, <2>2, <2>3, <2>4
<1>5. StationsInv => SurfaceIsOwned
  BY <1>4 DEF SurfaceIsOwned
<1> QED BY <1>1, <1>5, NextStations, PTL DEF LaunchSpec

-------------------------------------------------------------------------------
(***************************************************************************)
(* Directories.                                                            *)
(***************************************************************************)
MailInv ==
    mail # None =>
        /\ mail = [kind |-> mail.kind, by |-> mail.by, dir |-> mail.dir,
                   reader |-> mail.reader, found |-> mail.found]
        /\ mail.by \in Process
        /\ \/ mail.kind = "marker" /\ mail.dir = StateDir(mail.by)
           \/ mail.kind = "inbox" /\ mail.dir = InboxDir(mail.by)
        /\ mail.reader # None =>
                /\ mail.reader \in Homes
                /\ mail.kind = "marker" =>
                        (mail.found <=> mail.dir = CfStateDir(mail.reader))
                /\ mail.kind = "inbox" =>
                        (mail.found <=> mail.dir = InboxDir(mail.reader))

LEMMA LookKeepsMail ==
    ASSUME MailInv, NEW reader \in Homes, NEW kind, NEW dir,
           LookedFor(kind, reader, dir),
           kind = "marker" => dir = CfStateDir(reader),
           kind = "inbox" => dir = InboxDir(reader)
    PROVE  MailInv'
<1>1. /\ mail # None /\ mail.kind = kind
      /\ mail' = [kind |-> mail.kind, by |-> mail.by, dir |-> mail.dir,
                  reader |-> reader, found |-> mail.dir = dir]
  BY DEF LookedFor, MailInv
<1>2. /\ mail'.by = mail.by /\ mail'.kind = kind /\ mail'.dir = mail.dir
      /\ mail'.reader = reader
      /\ mail' = [kind |-> mail'.kind, by |-> mail'.by, dir |-> mail'.dir,
                  reader |-> mail'.reader, found |-> mail'.found]
  BY <1>1
<1>3. mail'.found <=> mail'.dir = dir
  BY <1>1
<1>4. /\ mail.by \in Process
      /\ \/ mail.kind = "marker" /\ mail.dir = StateDir(mail.by)
         \/ mail.kind = "inbox" /\ mail.dir = InboxDir(mail.by)
  BY <1>1 DEF MailInv
<1> QED BY <1>1, <1>2, <1>3, <1>4 DEF MailInv

LEMMA NextMail == MailInv /\ [LaunchNext]_launched => MailInv'
<1> SUFFICES ASSUME MailInv, [LaunchNext]_launched PROVE MailInv'
  OBVIOUS
<1>1. ASSUME NEW p \in Process, SetMarker(p) \/ StageInbox(p) PROVE MailInv'
  BY <1>1 DEF SetMarker, StageInbox, Written, MailInv, StateDir, InboxDir
<1>2. ASSUME NEW reader \in Homes, StatMarker(reader) PROVE MailInv'
  BY <1>2, LookKeepsMail DEF StatMarker
<1>3. ASSUME NEW reader \in Homes, LoadInbox(reader) PROVE MailInv'
  BY <1>3, LookKeepsMail DEF LoadInbox
<1>4. ASSUME mail' = mail PROVE MailInv'
  BY <1>4 DEF MailInv
<1> QED
  BY <1>1, <1>2, <1>3, <1>4 DEF LaunchNext, SaveSome, SaveProfile, LaunchSome,
     LaunchStation, WriteOrLook, launched

\* Homes as directories.
LEMMA HomeFacts ==
    ASSUME NEW p \in Homes
    PROVE  /\ p.cof_home \in {None, Blank, Spaces, "cof", "cof2"}
           /\ HomeOf(p) \in {Blank, "home", "home2"}
           /\ p.cwd \in {"here", "there"}
           /\ Set(p.cof_home) <=> p.cof_home \in {"cof", "cof2"}
BY FleetAssumption, LaunchAssumption DEF Homes, Opt, HomeOf, Set

\* Directories are equal if their names are, and relative ones if the processes
\* were started in one place.
LEMMA SameDirectory ==
    ASSUME NEW p, NEW q, NEW x, NEW y
    PROVE  Under(p, x) = Under(q, y)
              <=> x = y /\ (x \in {Blank, Spaces} => p.cwd = q.cwd)
BY DEF Under, Base

\* CF_COF_HOME and HOME as resolve_state_dir takes them.
LEMMA SameStateDirectory ==
    ASSUME NEW p \in Homes, NEW q \in Homes
    PROVE  CfStateDir(p) = CfStateDir(q) <=> SameHome(p, q)
<1> DEFINE x == IF Set(p.cof_home) THEN p.cof_home ELSE HomeOf(p)
           y == IF Set(q.cof_home) THEN q.cof_home ELSE HomeOf(q)
<1>1. CfStateDir(p) = CfStateDir(q) <=> x = y /\ (x \in {Blank, Spaces} => p.cwd = q.cwd)
  BY SameDirectory DEF CfStateDir
<1>2. /\ p.cof_home \in {None, Blank, Spaces, "cof", "cof2"}
      /\ HomeOf(p) \in {Blank, "home", "home2"}
      /\ Set(p.cof_home) <=> p.cof_home \in {"cof", "cof2"}
      /\ q.cof_home \in {None, Blank, Spaces, "cof", "cof2"}
      /\ HomeOf(q) \in {Blank, "home", "home2"}
      /\ Set(q.cof_home) <=> q.cof_home \in {"cof", "cof2"}
  BY HomeFacts
<1>3. /\ {None, Blank, Spaces} \cap {"cof", "cof2", "home", "home2"} = {}
      /\ None # Blank /\ None # Spaces /\ Blank # Spaces
  BY FleetAssumption, LaunchAssumption
<1>4. CASE Set(p.cof_home) /\ Set(q.cof_home)
  BY <1>1, <1>2, <1>3, <1>4 DEF SameHome
<1>5. CASE Set(p.cof_home) /\ ~Set(q.cof_home)
  <2>1. p.cof_home # q.cof_home /\ p.cof_home # HomeOf(q)
    BY <1>2, <1>3, <1>5
  <2> QED BY <1>1, <1>5, <2>1 DEF SameHome
<1>6. CASE ~Set(p.cof_home) /\ Set(q.cof_home)
  <2>1. p.cof_home # q.cof_home /\ q.cof_home # HomeOf(p)
    BY <1>2, <1>3, <1>6
  <2> QED BY <1>1, <1>6, <2>1 DEF SameHome
<1>7. CASE ~Set(p.cof_home) /\ ~Set(q.cof_home)
  <2>1. HomeOf(p) \in {Blank, Spaces} <=> HomeOf(p) = Blank
    BY <1>2, <1>3
  <2> QED BY <1>1, <1>7, <2>1 DEF SameHome
<1> QED BY <1>4, <1>5, <1>6, <1>7

\* And as inbox_path takes them.
LEMMA SameInboxDirectory ==
    ASSUME NEW p \in Homes, NEW q \in Homes
    PROVE  InboxDir(p) = InboxDir(q) <=>
              IF {p.cof_home, q.cof_home} \cap {Blank, Spaces} = {}
              THEN SameHome(p, q)
              ELSE /\ p.cwd = q.cwd
                   /\ \/ p.cof_home = q.cof_home
                      \/ Homeless(p) /\ q.cof_home = Blank
                      \/ p.cof_home = Blank /\ Homeless(q)
<1> DEFINE x == IF p.cof_home # None THEN p.cof_home ELSE HomeOf(p)
           y == IF q.cof_home # None THEN q.cof_home ELSE HomeOf(q)
<1>1. InboxDir(p) = InboxDir(q) <=> x = y /\ (x \in {Blank, Spaces} => p.cwd = q.cwd)
  BY SameDirectory DEF InboxDir
<1>2. /\ p.cof_home \in {None, Blank, Spaces, "cof", "cof2"}
      /\ HomeOf(p) \in {Blank, "home", "home2"}
      /\ Set(p.cof_home) <=> p.cof_home \in {"cof", "cof2"}
      /\ q.cof_home \in {None, Blank, Spaces, "cof", "cof2"}
      /\ HomeOf(q) \in {Blank, "home", "home2"}
      /\ Set(q.cof_home) <=> q.cof_home \in {"cof", "cof2"}
  BY HomeFacts
<1>3. /\ {None, Blank, Spaces} \cap {"cof", "cof2", "home", "home2"} = {}
      /\ None # Blank /\ None # Spaces /\ Blank # Spaces
  BY FleetAssumption, LaunchAssumption
<1>4. CASE {p.cof_home, q.cof_home} \cap {Blank, Spaces} = {}
  <2>1. /\ p.cof_home # None <=> Set(p.cof_home)
        /\ q.cof_home # None <=> Set(q.cof_home)
    BY <1>4 DEF Set
  <2>2. InboxDir(p) = CfStateDir(p) /\ InboxDir(q) = CfStateDir(q)
    BY <2>1 DEF InboxDir, CfStateDir
  <2> QED BY <1>4, <2>2, SameStateDirectory
<1>5. CASE p.cof_home \in {Blank, Spaces}
  <2>1. x = p.cof_home
    BY <1>3, <1>5
  <2>2. x = y <=> \/ p.cof_home = q.cof_home
                  \/ p.cof_home = Blank /\ Homeless(q)
    BY <1>2, <1>3, <1>5, <2>1 DEF Homeless
  <2>3. ~(Homeless(p) /\ q.cof_home = Blank)
    BY <1>3, <1>5 DEF Homeless
  <2> QED BY <1>1, <1>5, <2>1, <2>2, <2>3
<1>6. CASE p.cof_home \notin {Blank, Spaces} /\ q.cof_home \in {Blank, Spaces}
  <2>1. y = q.cof_home
    BY <1>3, <1>6
  <2>2. x = y <=> Homeless(p) /\ q.cof_home = Blank
    BY <1>2, <1>3, <1>6, <2>1 DEF Homeless
  <2>3. p.cof_home # q.cof_home /\ p.cof_home # Blank
    BY <1>6
  <2> QED BY <1>1, <1>6, <2>1, <2>2, <2>3
<1> QED BY <1>4, <1>5, <1>6

\* Of a process all that its directories depend on is its home, if it is given no
\* directory.
LEMMA ProcessHome ==
    ASSUME NEW p \in Process
    PROVE  \E h \in Homes :
              /\ h.cwd = p.cwd /\ h.cof_home = p.cof_home /\ h.home = p.home
              /\ InboxDir(p) = InboxDir(h)
              /\ p.flag = None /\ ~Set(p.state_dir) => StateDir(p) = CfStateDir(h)
              /\ HomeOf(p) = HomeOf(h)
<1>1. PICK h \in Homes : h.cwd = p.cwd /\ h.cof_home = p.cof_home /\ h.home = p.home
  BY DEF Process
<1>2. HomeOf(p) = HomeOf(h)
  BY <1>1 DEF HomeOf
<1>3. \A x : Under(p, x) = Under(h, x)
  BY <1>1 DEF Under, Base
<1>4. InboxDir(p) = InboxDir(h)
  BY <1>1, <1>2, <1>3 DEF InboxDir
<1>5. p.flag = None /\ ~Set(p.state_dir) => StateDir(p) = CfStateDir(h)
  BY <1>1, <1>2, <1>3 DEF StateDir, CfStateDir
<1> QED BY <1>1, <1>2, <1>4, <1>5

\* The marker of a verb that is given no directory, and the inbox, are found as
\* RecordsReachReaders says, from any environment.
THEOREM RecordsAreFound == LaunchSpec => []RecordsReachReaders
<1>1. LaunchInit => MailInv
  BY DEF LaunchInit, MailInv
<1>2. MailInv => RecordsReachReaders
  <2> SUFFICES ASSUME MailInv, mail # None, mail.reader # None,
                      NEW p, p = mail.by, NEW q, q = mail.reader
               PROVE  /\ mail.kind = "marker" /\ p.flag = None /\ ~Set(p.state_dir) =>
                            (mail.found <=> SameHome(p, q))
                      /\ mail.kind = "inbox" =>
                            (mail.found <=>
                                IF {p.cof_home, q.cof_home} \cap {Blank, Spaces} = {}
                                THEN SameHome(p, q)
                                ELSE /\ p.cwd = q.cwd
                                     /\ \/ p.cof_home = q.cof_home
                                        \/ Homeless(p) /\ q.cof_home = Blank
                                        \/ p.cof_home = Blank /\ Homeless(q))
    BY DEF RecordsReachReaders
  <2>1. /\ p \in Process /\ q \in Homes
        /\ mail.kind = "marker" =>
                mail.dir = StateDir(p) /\ (mail.found <=> mail.dir = CfStateDir(q))
        /\ mail.kind = "inbox" =>
                mail.dir = InboxDir(p) /\ (mail.found <=> mail.dir = InboxDir(q))
    BY DEF MailInv
  <2>2. PICK h \in Homes :
              /\ h.cwd = p.cwd /\ h.cof_home = p.cof_home /\ h.home = p.home
              /\ InboxDir(p) = InboxDir(h)
              /\ p.flag = None /\ ~Set(p.state_dir) => StateDir(p) = CfStateDir(h)
              /\ HomeOf(p) = HomeOf(h)
    BY <2>1, ProcessHome
  <2>3. SameHome(p, q) <=> SameHome(h, q)
    BY <2>2 DEF SameHome
  <2>4. Homeless(p) <=> Homeless(h)
    BY <2>2 DEF Homeless
  <2>5. ASSUME mail.kind = "marker", p.flag = None, ~Set(p.state_dir)
        PROVE  mail.found <=> SameHome(p, q)
    BY <2>1, <2>2, <2>3, <2>5, SameStateDirectory
  <2>6. ASSUME mail.kind = "inbox"
        PROVE  mail.found <=>
                  IF {p.cof_home, q.cof_home} \cap {Blank, Spaces} = {}
                  THEN SameHome(p, q)
                  ELSE /\ p.cwd = q.cwd
                       /\ \/ p.cof_home = q.cof_home
                          \/ Homeless(p) /\ q.cof_home = Blank
                          \/ p.cof_home = Blank /\ Homeless(q)
    <3>1. mail.found <=> InboxDir(h) = InboxDir(q)
      BY <2>1, <2>2, <2>6
    <3>2. mail.found <=>
              IF {h.cof_home, q.cof_home} \cap {Blank, Spaces} = {}
              THEN SameHome(h, q)
              ELSE /\ h.cwd = q.cwd
                   /\ \/ h.cof_home = q.cof_home
                      \/ Homeless(h) /\ q.cof_home = Blank
                      \/ h.cof_home = Blank /\ Homeless(q)
      BY <2>1, <3>1, SameInboxDirectory
    <3> QED BY <2>2, <2>3, <2>4, <3>2
  <2> QED BY <2>5, <2>6
<1> QED BY <1>1, <1>2, NextMail, PTL DEF LaunchSpec
===============================================================================

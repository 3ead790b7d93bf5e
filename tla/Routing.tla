-------------------------------- MODULE Routing --------------------------------
(***************************************************************************)
(* Where an event for a role goes: resolve_role of src/src/resolve.rs over *)
(* the fleet resolver of src/src/fleet.rs, the SURFACE -> ADAPTER map of   *)
(* src/src/adapter.rs, and the two verbs that act on the binding, `emit`   *)
(* (send_event, plan) and `report`.                                        *)
(*                                                                         *)
(* All of it is pure. The state is what the verbs read: the run record,    *)
(* which its founder edits field by field and in any order, and the gate   *)
(* CF_COMMS_MODE. One role stands for all, the others' fields being no     *)
(* concern of its own. An absent field is None; an empty string is Blank.  *)
(***************************************************************************)
EXTENDS Fleet

CONSTANT
    Transports      \* names the host registry is given, known or not

KnownTransports == {"local-socket", "tailscale", "ssh", "herdr-machine", "sbox-remote"}
Adapters == {"cmux", "sbox", "herdr"}

\* The fields of the record resolve_role reads. The override of a fleet is
\* read only where there is a fleet.
Fields ==
    [host         |-> Opt({"local", "far"}),
     transport    |-> Opt(Transports),         \* hosts["far"]
     override     |-> Opt({"herdr", "tmux", Blank}),   \* overrides[role].surface
     fleet        |-> BOOLEAN,                 \* is there a fleet profile?
     fleetDefault |-> Opt({"omp", Blank}),     \* its default.surface
     fleetOver    |-> Opt({"herdr", Blank}),   \* its override.surface
     cos_surface  |-> Opt({"omp", "herdr", Blank}),
     adapter      |-> Opt({"herdr", "sbox", "telex"}),   \* instances[role].adapter
     sandboxed    |-> BOOLEAN]                 \* environments, allocation

EmptyRecord ==
    [host |-> None, transport |-> None, override |-> None, fleet |-> FALSE,
     fleetDefault |-> None, fleetOver |-> None, cos_surface |-> None,
     adapter |-> None, sandboxed |-> FALSE]

VARIABLES
    record,     \* the run record on disk
    gate,       \* CF_COMMS_MODE is comms
    answer      \* what the last verb answered its seat

vars == << record, gate, answer >>

Init ==
    /\ record = EmptyRecord
    /\ gate = FALSE
    /\ answer = None

-------------------------------------------------------------------------------
\* resolve_host.
Host(r) == IF r.host = None THEN "local" ELSE r.host
Transport(r) == IF Host(r) = "local" THEN "local-socket" ELSE r.transport
HostFails(r) == Transport(r) \notin KnownTransports

\* fleet_profile: the record's fleet names a surface, and no other key here.
SurfaceOnly(surface) == [k \in Keys |-> IF k = "surface" THEN surface ELSE None]

FleetFails(r) == r.fleet /\ OverrideFails(SurfaceOnly(r.fleetOver))
FleetSurface(r) ==
    Profile(SurfaceOnly(r.fleetDefault), SurfaceOnly(r.fleetOver)).surface

\* Mutant of Surface: the hint goes before the fleet.
SurfaceByHint(r) ==
    IF r.override # None THEN r.override
    ELSE IF r.cos_surface # None THEN r.cos_surface
    ELSE IF r.fleet THEN FleetSurface(r)
    ELSE "omp"

\* resolve_surface: override, then fleet, then hint, then the default.
Surface(r) ==
    IF r.override # None THEN r.override
    ELSE IF r.fleet THEN FleetSurface(r)
    ELSE IF r.cos_surface # None THEN r.cos_surface
    ELSE "omp"

StaleHint(r) == r.cos_surface # None /\ r.cos_surface # Surface(r)

\* The adapter a surface maps to on the way to a binding.
AdapterOf(surface) == IF surface = "herdr" THEN "herdr" ELSE "cmux"

\* adapter_for.
Adapter(r) ==
    IF r.adapter # None THEN r.adapter
    ELSE IF r.sandboxed THEN "sbox"
    ELSE AdapterOf(Surface(r))

AdapterFails(r) == Adapter(r) \notin Adapters

\* resolve_role.
Resolves(r) == ~HostFails(r) /\ ~FleetFails(r) /\ ~StaleHint(r) /\ ~AdapterFails(r)
Binding(r) == [adapter |-> Adapter(r), transport |-> Transport(r), surface |-> Surface(r)]

-------------------------------------------------------------------------------
\* The MESSAGING map: by surface, where omp stands for any other, and by
\* adapter, where there is none for sbox.
MessagingFor(surface) ==
    IF surface = "herdr" THEN [adapter |-> "herdr", tool |-> "herdr", report |-> "herdr-axi"]
    ELSE [adapter |-> "cmux", tool |-> "cmux-axi", report |-> "cmux-axi"]
HasMessaging(adapter) == adapter \in {MessagingFor(s).adapter : s \in {"omp", "herdr"}}
MessagingOf(adapter) ==
    CHOOSE m \in {MessagingFor(s) : s \in {"omp", "herdr"}} : m.adapter = adapter

\* TransportKind::is_cross_host.
IsCrossHost(transport) == transport \in {"ssh", "tailscale", "herdr-machine"}

\* plan: what it spawns on this host. A binding with another transport has no
\* channel.
Channel(transport) ==
    CASE transport = "ssh"           -> "ssh"
      [] transport = "tailscale"     -> "tailscale"
      [] transport = "herdr-machine" -> "herdr"
      [] OTHER                       -> "no-channel"

Rendered(b) ==
    IF HasMessaging(b.adapter) THEN MessagingOf(b.adapter).tool
    ELSE "no-messaging-adapter"

\* send_event. A missing channel falls through to render.
SendEvent(b, on) ==
    IF on /\ IsCrossHost(b.transport) /\ Channel(b.transport) # "no-channel"
    THEN Channel(b.transport)
    ELSE Rendered(b)

\* Mutant of Report: a station without an entry reports through omp's.
ReportReroutes(b) ==
    IF HasMessaging(b.adapter) THEN MessagingOf(b.adapter).report
    ELSE MessagingFor("omp").report

\* report.
Report(b) ==
    IF HasMessaging(b.adapter) THEN MessagingOf(b.adapter).report
    ELSE "no-report-adapter"

-------------------------------------------------------------------------------
\* load_record: --surface takes the place of the record's hint.
Layered(flag) ==
    IF flag = None THEN record ELSE [record EXCEPT !.cos_surface = flag]

Answer(name, flag, out) ==
    LET r == Layered(flag)
    IN  answer' = [verb    |-> name,
                   hint    |-> r.cos_surface,
                   binding |-> IF Resolves(r) THEN Binding(r) ELSE None,
                   out     |-> IF Resolves(r) THEN out ELSE "unresolved"]

Resolve(flag) ==
    /\ Answer("resolve", flag, "binding")
    /\ UNCHANGED << record, gate >>

Emit(flag) ==
    /\ Answer("emit", flag, SendEvent(Binding(Layered(flag)), gate))
    /\ UNCHANGED << record, gate >>

ReportTurn(flag) ==
    /\ Answer("report", flag, Report(Binding(Layered(flag))))
    /\ UNCHANGED << record, gate >>

\* The founder edits the record, or opens and closes the gate.
Edit(field, value) ==
    /\ record' = [record EXCEPT ![field] = value]
    /\ answer' = None
    /\ UNCHANGED gate

SetGate(on) ==
    /\ gate' = on
    /\ answer' = None
    /\ UNCHANGED record

Next ==
    \/ \E flag \in Opt({"omp", "herdr"}) : Resolve(flag) \/ Emit(flag) \/ ReportTurn(flag)
    \/ \E field \in DOMAIN Fields : \E value \in Fields[field] : Edit(field, value)
    \/ \E on \in BOOLEAN : SetGate(on)

Spec == Init /\ [][Next]_vars

-------------------------------------------------------------------------------
Answered == answer # None
Bound == Answered /\ answer.binding # None

\* The hint is no switch: two verbs of a role on one record have one binding,
\* whatever hint either is given with --surface, or else the hint is refused as
\* stale (REQUIREMENTS.md, line 35; resolve.rs, lines 166-174). Only where neither
\* an override nor a fleet names a surface does the hint decide, and a seat that
\* emits with --surface and reports without it is bound to two surfaces.
HintIsNoSwitch ==
    [][Bound /\ Bound' /\ answer.binding # answer'.binding =>
            record.override = None /\ ~record.fleet /\ answer.hint # answer'.hint]_vars

\* Both directions of a conversation go by one adapter or both are refused: a
\* seat that can be prompted can report, with the tool of the same entry, and
\* is never re-routed through another's (report.rs, lines 57-60).
PeersAgree ==
    Bound /\ answer.verb = "report" =>
        IF SendEvent(answer.binding, FALSE) = "no-messaging-adapter"
        THEN answer.out = "no-report-adapter"
        ELSE \E s \in {"omp", "herdr"} :
                /\ MessagingFor(s).report = answer.out
                /\ MessagingFor(s).tool = SendEvent(answer.binding, FALSE)
===============================================================================

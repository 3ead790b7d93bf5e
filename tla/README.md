# comms-axi: formal model

TLA+ models of `comms-axi`, the command-line tool (and crate) through which the
seats of a run publish events to one another, pull them as turns, and route them
across hosts. The modules are translated from `src/src/*.rs`; TLC checks them on
small instances, and TLAPS proves the central safety results for every value of
the constants. `PROJECT.json` holds the map from every definition to the source
lines it stands for, the runs, the mutants that show each property can fail, the
hazards, the findings and the theorems.

## 1. The system

Every verb is a short-lived operating-system process. What persists is a handful
of JSON files and one marker file per station, replaced through a temporary file
and `rename`. There is no lock and no daemon: a *heartbeat* outside the
repository runs `inject` on a timer.

| component | state | operations | talks to |
|---|---|---|---|
| **effect journal** `journal.rs` | effect id → prepared / admitted / consumed | `prepare`, `admit`, `consume`, `ids_in`, `reconcile` | held inside a station's queue record |
| **station queue store** `send.rs`, `stream.rs` | `<role>.json`: stream of pending envelopes, journal, next sequence; `<role>.json.tmp`; `<role>.hasmail` | `enqueue`, `enqueue_with_id`, `drain`; `load_queue`, `save_queue`, `set_has_mail`, `clear_has_mail`; `send_to`, `send_to_with_id` | journal; all verbs of all processes |
| **pull verbs** `read.rs`, `wake.rs`, `inject.rs` | none of their own | `read` (bounded), `drain` (all), `wake`, `inject` on an idle tick | queue store, marker |
| **listener** `listener.rs` | none | `accept`: parse, handshake, enqueue under the sender's stable id | queue store; channel |
| **cross-host delivery** `delivery.rs`, `event.rs` | none (the binary's `PROTOCOL_VERSION`) | `gate`, `handshake`, `plan`, `open`, `stable_effect_id`, `send_event` | ssh / tailscale / herdr process, remote listener |
| **admission scheduler** `scheduler.rs` | per-team deficit, per-team / per-producer / global active counts, bytes stored, round | `drain`, `admit_one`, `age_round`, `release` | its caller |
| **passive inbox** `inbox.rs` | `inbox.json`: staged, admitted | `stage`, `admit_on_turn`, `load_inbox`, `save_inbox`; `dispatch` and `drain` verbs | producers, Chief of Staff |
| **routing** `resolve.rs`, `fleet.rs`, `adapter.rs`, `report.rs` | the run record (read only), the profile a launch saves | `resolve_role`, `fleet::resolve`, `to_record`, `from_record`, `messaging_for`, `report` | `emit`, `report` |
| **command line** `main.rs`, `lib.rs` | none; the environment says which directory the files are in | one `cmd_*` per verb, `resolve_state_dir` | all of the above |
| **errors** `error.rs` | none | exit codes and messages | all of the above |

### What is hard

* *Processes interleave.* Load, change, save is three file operations with
  nothing to keep another verb out, and all writers of a station share one
  temporary file name. The comments assume one writer per station; nothing
  enforces it.
* *Processes die.* Between the save and the marker, between the save and the
  print, in the middle of a write.
* *Messages are lost, late and repeated.* A channel can fail after its remote
  verb ran, or before; the seat then emits the same event again.
* *Versions change* while messages are under way.
* *Fairness is arithmetic.* Who is served next under a shared limit is the
  outcome of deficits several turns build up.
* *Configuration is edited field by field,* and several fields name the surface.
* *Names are joined and cut,* and files are placed by the environment of whoever
  writes them: what one process leaves, another must find, and no third.

### What makes each component correct

* journal: an effect is enacted at most once, no saved arrival is lost, states
  never go back, through crashes at any point;
* queue store and verbs: what was acknowledged is neither lost nor taken twice;
  ids stand for one event; the file is whole; mail that was acknowledged is
  signalled, and in the end printed; what is taken is printed;
* cross-host delivery: a delivered event is queued exactly once, nothing is half
  delivered, a version mismatch is noticed and answered, and what a seat was told
  is delivered is printed to its station in the end;
* scheduler: no budget is exceeded, the books agree, every envelope of a turn is
  decided, nobody is starved;
* inbox: an effect is admitted once however often it is pushed, and what was
  staged is shown;
* routing: one record gives a role one binding, whatever hint a verb comes with; both
  directions of a conversation use one adapter; a surface is one station's; a saved
  profile can be read back; records are where their readers look.

## 2. Modules

```
EffectJournal   <- QueueStore <- StationQueue <- EndToEnd
EffectJournal   <- JournalRecovery
QueueStore      <- CrossHost
Fleet           <- Routing, Launch <- MCRouting
Scheduler
PassiveInbox

implements:  StationQueue, CrossHost, PassiveInbox  ->  Mailbox
             EndToEnd                               ->  CrossHost

proofs:      QueueStoreProofs <- StationQueueProofs <- EndToEndProofs
             QueueStoreProofs <- CrossHostProofs    <- EndToEndProofs (an instance)
             JournalRecoveryProofs, SchedulerProofs, RoutingProofs, PassiveInboxProofs
```

**`EffectJournal`** (`journal.rs`). The map is a total function whose missing
keys are `"absent"`. Each mutating method that also answers is two operators:
the new journal (`Prepare`, `Admit`, `Consume`, `Reconcile`) and the answer
(`Prepares`, `Admits`, `Consumes`, `Reconciled`).

**`QueueStore`** (`QueueStore`, `Stream::drain_front`). The pure methods of the
record: `Enqueue`, `EnqueueWithId`, `Drain`, `Drained`. An envelope keeps its id
and its event; the kind is `note` for everything the verbs write, hence its class
plays no part. Local ids `{role}-{seq}` are the sequence numbers, cross-host ids
the event itself. `Coherent` names what the code relies on without saying so:
each id is pending once, the prepared ids are the pending ones, and the sequence
is ahead of every journaled local id.

**`StationQueue`** (`send_to`, `send_to_with_id`, `load_queue`, `save_queue`,
the marker; `read`; `inject`; the file side of `listener::accept`). Processes run
verbs file operation by file operation; `pc` is the next one:

```
send, deliver   load -> open -> write -> rename -> mark -> receipt
read, drain     load -> open -> write -> rename -> clear -> render
inject          stat the marker, load, then as drain
```

Loading and the change in memory are one step, as no other process sees anything
in between. `OpenTmp` truncates the shared temporary file, `WriteTmp` fills the
*inode* the process has open (`fd` follows it when another process renames it),
`Rename` puts it in the queue's place, `AfterSave` is the code's branch on
`appended` and on `is_empty`. A file is absent, empty, torn or holds a record; an
empty or missing one loads as the empty store, a torn one is a loud
`QUEUE_CORRUPT` that changes nothing. `Die` ends a process anywhere, or stands
for the error its next file operation returns; a death inside a write can leave
a torn inode. `receipts`, `taken`, `rendered` and `cutoff` are history: what was
acknowledged, removed and printed, and the steps *after its save* that a verb has
died before (a dead `send` is left out: its producer has no receipt and publishes
anew). No action reads them; they let one run with faults say which failure
windows cost what. `Serialized` adds the comments' single-writer
assumption, or leaves it out. Stations share no file, so one is enough.

**`Mailbox`** is the abstract specification: put once, take from the front,
acknowledge what is in. `StationQueue`, `CrossHost` and `PassiveInbox` each state
that they implement it.

**`JournalRecovery`** (`reconcile` and Gate 2 of `journal.rs`). A host keeps the
journal in memory, saves it, enacts, acknowledges, crashes and reconciles. The
journal's operations are the code's: `Arrive`, `Expose`, `Acknowledge` and `Restart`
stand for the host's calls of `prepare`, `admit`, `consume` and `reconcile`. The host
is not: nothing in the repository calls `reconcile`, and what a host does besides
(`Enact`, `SaveJournal`, `Crash`) is marked external. The variable `order`, chosen at the start, says whether an
admission is saved before its effect or after it, because the two halves of the comment's "no
duplicated effect, no lost envelope" hold under different orders.

**`CrossHost`** (`send_event`, `plan`, `open`, `handshake`, `accept`). Emits,
messages under way, the remote verb as one step, exit statuses, retries, and
either host moved to another version. `Lose` takes a message away before its
remote verb runs; `ChannelFails` reports a failure whatever became of the
message, so that a retry can overtake a late one. `stable_effect_id` is the
constant function `StableId` of the content.

**`EndToEnd`** composes the two sides: the seat, channel and retries of `CrossHost`,
and in the place of its one-step remote verb the file operations of
`StationQueue`. A listener is a process of the station that serves a message
(`serving`); when it exits with success the channel can report so, when it dies
at any file operation the sender learns of a failure, emits again, and the retry
meets what the dead listener left: a half-written temporary file, a queue that
holds the event without a marker, or an event a reader has taken. The
heartbeat, the station's own publishers and readers run in between. Both hosts
run one version; mismatches and renders stay in `CrossHost`. The module states that
it implements `CrossHost`: a listener's rename is the remote verb's step, its
death before that is a lost message, everything after it is the channel's.

**`Scheduler`** (`Scheduler::drain`, `admit_one`, `age_round`, `release`). A turn
is a sequence of steps, one for each envelope it decides; nothing else touches
the scheduler meanwhile (`drain` has it mutably). The 0.9 of the store's capacity
is `10 * (used + size) > 9 * capacity`, exact where the code uses `f64`. The
caller is the environment: it offers any queues, ages the round after each turn
and releases what was admitted, each envelope at most once. `held` is the bag of
envelopes admitted and not yet released; `BooksAgree` counts the envelopes and bytes
in it and compares them with the four books.

**`PassiveInbox`** (`inbox.rs`). `dispatch` and `drain` as processes: load and
change, fill the temporary file, rename, print. Filling is one step here: what a
second writer can do between open and write is `StationQueue`'s matter, and
`save_inbox` makes the same three calls. So the empty or torn `inbox.json` that two
unserialized writers can produce is not a state of this module: the one loads as an
empty inbox, the other stops every verb, and neither is a record `RecordsCoherent`
could be false of. `AdmittedNow` is the loop of `admit_on_turn`
with its race branch: the staged envelopes whose id neither the admitted ones nor an
earlier one in the loop has, in staged order. `unseen` is history: what a turn had
saved as admitted when it died before its print.

**`Fleet`** (`fleet.rs`). The profile as pure operators: what a default and an
override resolve to, what `resolve` refuses and what `from_record` refuses.
An absent key (`None`), an empty one (`Blank`) and one of spaces (`Spaces`) are three
values, as the code does not treat them alike everywhere.

**`Launch`** (`fleet.rs`; `backend_surface` and `herdr_session_name` of
`resolve.rs`; `resolve_state_dir` of `main.rs`; `inbox_path` of `inbox.rs`). What a
launched run leaves behind, in three variables that share nothing: the profile
saved last, the stations launched with their surfaces, and one record followed
from its writer's directory to its reader's. Names are sequences of
letters, because surfaces are names joined by a separator and cut at a length. The
two kinds of record have two readers: the inbox is read by `inbox drain`, through the
same `inbox_path` as it is written (`LoadInbox`); the marker by cf's heartbeat, which
is not in the repository; a comment of `main.rs` says where it looks, and it is marked
external (`StatMarker`, `CfStateDir`). A path that begins with an empty name is
relative, so each process has the directory it was started in (`cwd`).

**`Routing`** (`resolve_role`, `fleet::resolve`, `adapter_for`, `messaging_for`,
`send_event`, `plan`, `report`). The state is what the verbs read: the run
record, edited field by field in any order, the gate, and the last answer. An
absent field (`None`) and an empty string (`Blank`) are different values, as in
the code.

The `MC*` modules give values to constants that a `.cfg` cannot write, and a view
or symmetry set for two runs. `MCRouting` lets `Routing` or one variable of `Launch`
move at a time: they share nothing, and every property is about one of them.

## 3. Runs

| run | asks | bounds |
|---|---|---|
| `serialized` | with one writer at a time, and verbs that die at any file operation, is the station queue a lossless mailbox, and what do the windows after a save cost? | 1 process, 3 local ids, 2 local events and 1 remote, 2 faults, `FairSpec` |
| `concurrent` | what survives without a lock? `RecordsCoherent` | 2 processes, 2 local ids, 1 remote event |
| `lost_signal` | the finding on the queue | as small as the counterexample allows |
| `recovery` | is no effect enacted twice, only what happened acknowledged, and every saved arrival enacted, each under the order of saving that gives it? | 3 effects, 2 crashes, both orders, `FairSpec` |
| `limits` | do budgets and books hold through turns and releases; is nobody dropped, or passed over while the shared budgets last? | 2 teams, 3 sizes (one oversized), 3 turns; every limit but the quota can bind |
| `burst` | the finding on starvation | 2 teams, 3 turns |
| `retries` | is a delivered event queued once, through retries, losses and upgrades? | 2 seats that say the same, 2 attempts each, 2 versions, turns of any length |
| `mismatch` | is a mismatch rendered? | 1 attempt, 2 versions |
| `end_to_end` | is a delivered event rendered in the end, and does a listener made of file operations implement the remote verb? | 1 process, 1 remote event emitted up to 3 times, 1 local event, 2 faults of any verb, `JointFairSpec` |
| `inbox_serialized` | is the inbox a mailbox that admits once, and is what is staged shown? | 2 effects, one under two payloads, 2 faults, `FairSpec` |
| `inbox_concurrent` | which of it survives without a lock? | 2 processes, 1 fault |
| `bindings` | does one record give one binding, whatever hints the verbs give, and do both directions go by one adapter? which profiles are not read back, which stations share a surface, which processes miss each other's files? | every field value the code tells apart; 6 runs and 3 roles with separators and shared beginnings, 3 letters of a run kept, 2 stations; every environment of writer and reader |

*Why the bounds are enough.* The hazards of the queue need at most two writers, a
retry of one remote event and a local event before and after a drain: three
envelopes, of two id namespaces. A third local id lets an id drawn by an attempt
that failed be followed by one more on the same file. Two faults let a
recovery fail too. `end_to_end` needs three attempts: one that dies before the save,
one that dies after it, and the duplicate that succeeds. With one writer at a time
one process value is enough, as a process at rest has no state. The scheduler's limits are scaled down
with the order between them that the code's numbers have. The limit of a team, the
global limit, the store and the bound of a turn can each be the first to be reached.
`ProducerQuota` (3) never is, as `PRODUCER_QUOTA` (64) never is in the code: it is
compared with the same count as the limit of a team (2, and 8 in the code), which is
below it. That the quota is kept where it does bind is left to the theorem
`BudgetsAreNeverExceeded`, which holds for every value of the limits. The theorems of section 5 do not depend on any of these
values.

`CHECK_DEADLOCK FALSE` appears where the system may stop: in the scheduler runs,
which end after `MaxRounds` turns, and in the unserialized station runs, where a
torn queue file stops every verb for ever.

`concurrent` and `inbox_concurrent` take the history variables out of the state
with a VIEW (no action reads what it leaves out, and `RecordsCoherent` does not
either) and use the symmetry of the processes; both check an invariant only.

### Fairness

* `StationQueue`: weak fairness of a running process (the operating system runs
  it on) and *strong* fairness of `Inject`. The heartbeat ticks for ever and
  every tick that finds mail reads it, but a tick can fall into another verb's
  run; strong fairness says only that a station idle again and again is ticked
  while idle. Nothing is assumed of `read` or `drain`: the heartbeat alone must do.
* `PassiveInbox`: the same, of `TakeTurn`: the Chief of Staff comes back.
* `JournalRecovery`: a host goes on exposing, enacting and saving, and is
  restarted. Crashes are bounded (`MaxCrashes`); acknowledging is not obliged.
* `EndToEnd`: the same of its listeners, its station's processes and the heartbeat.
  Nothing is assumed of the channel or the seat: messages may be lost and nobody
  has to emit again.
* The scheduler and cross-host models have no liveness property; `NoStarvation`
  is stated as a bound on `waited`, a safety property.

## 4. What the runs show

With one writer at a time the queue does what its comments say: whatever verb dies at
whatever file operation, an acknowledged envelope is pending or taken
(`NothingLost`), an id names one event (`IdNamesOneEvent`), effects are printed at
most once and local ones in order (`RenderedOnceInOrder`), the saved journal never
goes back (`JournalAdvances`), and the whole implements `Mailbox`. Even without
a lock, no interleaving produces an incoherent *record* (`RecordsCoherent`):
`drain` may ignore what `admit` answers because every envelope in a record it
loads is prepared in that record.

Deaths after a save are not harmless, and three properties say exactly which
costs what. Acknowledged mail is left without its marker by a listener that
dies before it, and by no other death (`OnlyDeliverUnsignals`); a marker stands
over an empty queue only after a reader died before it cleared it
(`NoSpuriousWake`); taken envelopes go unprinted only with a reader that died
before its print (`TakenIsShown`). Where none of this happened, everything
acknowledged is printed by the heartbeat alone (`EventuallyRendered`).

From one host to another (`end_to_end`): an event that was emitted once and reported
delivered is behind a marker, or a reader has taken it (`FirstTryIsSignalled`).
Only a retry, or a second seat that says the same, can be acknowledged without a
signal: the duplicate of an envelope whose listener died before its marker.
What a seat was told is delivered is printed by the heartbeat alone
(`DeliveredIsRendered`), with two exceptions that are the same deaths as above: a
listener's before its marker, or a reader's between its save and its print. Whatever
dies in the listener, the sender sees no more than `CrossHost` shows
(`ImplementsCrossHost`), so that `retries` speaks of the composed system as well.

A hint is not a switch (`bindings`): two verbs on one record get one binding or the
hint is refused, whatever `--surface` each is given, if an override or a fleet names
the surface (`HintIsNoSwitch`). On a record that names none the hint decides, and
an `emit` with `--surface herdr` and a `report` without it go by different adapters.
What one binding reports by is the entry it is rendered by (`PeersAgree`).

Of what a launch leaves behind (`bindings`), each property lists the exceptions, and
there are no others: a saved profile is read back unless its default names a key and
leaves it empty, as `resolve` refuses blanks in the override alone
(`ProfileReadsBack`). Two stations share a surface where they are bound to one sandbox or to
no environment, where a role's name contains the separator, or in herdr where
their runs agree in their first 32 characters (`SurfaceIsOwned`). The marker of a
verb that is given no directory is found by a heartbeat of the same home, and by no
other; so is the inbox by an `inbox drain`, except that a `CF_COF_HOME` that is set and
blank, which `resolve_state_dir` skips, makes the inbox relative to the working
directory (`RecordsReachReaders`): a drain with such an environment takes an inbox
that was staged without it for an empty one.

A turn of the scheduler passes a team over only when the bound of the turn or a
budget all teams share is spent (`PassedOverWithCause`): a burst of one team costs
another nothing before that. After that it does, which is the second finding.

The disagreements between code and text that have a run (quotations under
`findings` in `PROJECT.json`):

1. `lost_signal`: a listener that dies between save and marker leaves mail
   without a marker, and the retry, a duplicate, sets none: acknowledged, never
   signalled.
2. `burst`: deficit grows with each *refused envelope*, so the team that offers
   more outranks the one that waits.
3. `mismatch`: the sender compares its version with itself; the real mismatch is
   refused by the listener, and `emit` fails in the place of rendering.

Others of the same causes came up while modelling; each is one change of a
configuration away:

* *Lost update* (`send.rs`: load in `send_to`, rename in `save_queue`): with
  `Serialized = FALSE`, `NothingLost` fails: of two verbs that loaded the same
  record the later rename discards what the earlier acknowledged. `QueueFileWhole`
  fails too: one writer renames the temporary file another has just truncated.
* *Double turn* (`read.rs`): with `Serialized = FALSE`, `RenderedOnceInOrder` fails:
  two overlapping readers load the same record and print one effect twice.
* *Lost turn* (`read.rs`): a reader that dies between its save and its print takes
  its events along; `reconcile` is never called for a queue. It is the exception
  `TakenIsShown` makes.
* *Inbox race* (`inbox.rs`): with `Serialized = FALSE`, `AdmittedOnce` fails: a
  dispatch that loaded before a turn and saves after it puts the admitted effects
  back.
* *Blank default* (`fleet.rs`): a record whose `fleet.default` names a key and leaves it
  empty resolves, where the override leaves that key alone, to a profile with an empty
  slot, although `resolve` is documented to
  leave "no silent half-resolved slot" (fleet.rs:123-125); `from_record` refuses what
  `to_record` wrote of it. It is the exception `ProfileReadsBack` makes.
* *Crowd* (`scheduler.rs`): with three teams, `DrainBound = 2`, `PerTeamLimit = 1`,
  `GlobalLimit = 3` and `MaxPending = 1`, `NoStarvation` fails without any refusal:
  a team the turn bound cuts off gains no deficit, and ties go to smaller ids.

## 5. Proofs

All theorems hold for every value of the constants under the named assumptions
of their modules (`IdsAssumption`, `StationAssumption`, `RecoveryAssumption`,
`SchedulerAssumption`, `CrossHostAssumption`, `EndToEndAssumption`, `InboxAssumption`,
`FleetAssumption`, `LaunchAssumption`), which TLC evaluates in the runs. Two kinds of
theorem have a hypothesis besides. `Serialized` is the comments' one writer per
station or inbox; without it the properties are false (section 4). `NoCollision`, in
one theorem about `CrossHost`, says that `stable_effect_id` gives no two emitted
contents one id, which its comment does not promise.

**`QueueStoreProofs`**: `Enqueue`, `EnqueueWithId` and `Drain` map coherent
stores to coherent stores, and what they do to the journal. Then the lemmas about
sequences everything on queues rests on: what appending, concatenating and splitting
do to the elements (`RangeAppend`, `RangeSplit`) and to the order in which ids were
drawn (`OrderedAppend`, `OrderedConcat`, `OrderedSplit`), and that taking from the
front leaves the history as a whole alone (`TakingKeepsWhole`).

**`StationQueueProofs`**, in three parts. `RecordsStayCoherent` needs `Base` = `TypeOK` and
coherence of *every* copy of the record: queue file, temporary file and each
process's memory, since each may be the next queue file. `Serialized` is not
used. The other results take `ASSUME Serialized` and a stronger invariant,
`SerialInv`:

* `Files`: which of the queue and temporary file can be empty or torn, at which
  `pc`;
* `Ledger`: no id is taken twice, taken ids are admitted, every journaled id is
  that of an envelope pending or taken, and so is every receipt;
* `Errand(p)`: what the memory of a running process is, relative to the queue
  file it loaded (nothing else has changed that file). Without it `Rename` could
  replace the queue by anything coherent, and neither `NothingLost` nor the
  refinement would be preserved.

From it: `SerializedWhole`, `SerializedLossless`, `SerializedIds`,
`SerializedJournalAdvances`, and `SerializedImplementsMailbox`, in which `Rename`
by a publisher is `Put` or a stutter, by a reader `Take`, `Receipt` is
`Acknowledge` or a stutter, and everything else stutters.

The third part is what becomes visible of serialized verbs, on top of
`SerialInv`. `SignalInv` adds, for each property about a death after the save, the
step that is still to come: mail that is owed a marker has it or its listener is
before `mark`; a marker over an empty queue has a reader before `clear`; what was
taken is printed or in the memory of a reader before `render`. `Calm` is the same
with nothing to come, which is what a verb finds when it starts. Owed are also
*unacknowledged* envelopes from another host: a duplicate of one is acknowledged
without a marker, so the property would not be inductive without them. `OrderInv`
says that the pending envelopes come after the taken ones in every order that
ids define, and a reader's cargo after what is printed. From these
`SerializedSignals`, `SerializedWakes`, `SerializedShows` and `SerializedOrder`.

**`JournalRecoveryProofs`**. `RecoveryInv` adds to the type: memory is never
behind the disk (`Ahead`), what is due is admitted in memory (`DueIsAdmitted`),
and, for each `order`, that an effect was enacted once at most and only after its
admission was saved (`EnactedOnce`), or that what is admitted has happened or is
due (`HappenedOrDue`). From it `TypeCorrect`, `EnactedAtMostOnce`, `RecoveryIsHonest` and
`DurableNeverRegresses`. `ReconcileOnce` is about the operator alone: a second
reconcile has nothing to enact.

**`SchedulerProofs`**: `TypeCorrect`; `BudgetsAreNeverExceeded`;
`NobodyIsDroppedSilently`, whose invariant `TurnInv` says that while no progress
was made in a pass, each team served so far in it has no envelope left;
`NobodyIsPassedOverIdly`, from `RoundRobinInv`: while some team has had nothing
decided, those before the one being served have had one envelope each and the
others none (`FirstPass`); and a team refused so far was refused its first
envelope over a spent budget (`DenialsHaveCause`), which stays spent, as nothing
is released during a turn; and `BooksNeverDrift`, that the four books are what the
envelopes held say. The property counts sets, as the provers have theorems about
`Cardinality` and none about sums: an admission puts one envelope in the set
(`EnvelopesGrow`) and as many bytes as it has (`BytesGrow`), a release is the same step
backwards. A cardinality says something of finite sets only, so that they are finite is
part of the inductive invariant `BooksInv`; and as the books count what is held, a
release never saturates.

**`CrossHostProofs`**: `TypeCorrect`, `ReceiptsAreHonest` and `NeverHalfDelivered`, from
`CrossInv`: what a listener answered `accepted` is journaled, an outcome
`delivered` is journaled, and what is journaled was accepted. The refinement of
`Mailbox` needs `Ledger` besides: an id is journaled exactly when an envelope of that
id is pending or was taken, what goes by the id of a cross-host event is such an event,
and what was taken followed by what is pending has no id twice and the local ones in
sequence. The last conjunct is `EveryIdIsQueuedOnce`, for any function from contents to
ids. `CrossHostImplementsMailbox` has the hypothesis `NoCollision`, and for one step
only: of two different contents with one id the second is answered as a duplicate, and
its seat told it is delivered, although no envelope holds it. It is the residual the
comment of `stable_effect_id` names.

**`EndToEndProofs`**. Every joint step is a step of the station or leaves it alone
(`StationInside`), so the station's theorems hold in the composition
(`SerializedLosslessEndToEnd`). The channel's type (`ChannelTypeCorrect`) needs
`Tickets`: no two listeners serve one message, what is served is no longer in flight,
and a listener that has saved is past its rename. Under `ASSUME Serialized`,
`JointInv` adds to the station's `SerialInv` the `Purpose` of each process that is
about to save: the *whole* store it has in memory is what its verb makes of the queue
file, for a listener with the envelope its message says; `SerialInv` knows stream
and journal only. From it `SerializedImplementsCrossHost`, one lemma per action.
`FirstInv` is about the signal: the journal holds of the other host exactly what
listeners have saved (`JournaledIsSaved`); a listener whose event has been said
once finds it new before its save, and when it exits there is a marker or the event is taken
(`Noticing`); so it is for every message that has exited (`Reported`). `Lasts` names what a
step must do to keep this, and each action is shown to do it: above all, a marker
is cleared over an empty queue only, where what it stood for is taken. From these
`SerializedFirstTries` and `SerializedDeliveries`: a delivered event is pending or taken.
`SerializedChainIsMailbox` composes the two refinements: `EndToEnd` implements
`CrossHost`, which implements `Mailbox`, hence seat, channel, dying listeners and
station are together a mailbox. The theorem of `CrossHostProofs` is used through an
instance of that module under the refinement mapping (`Hosts`); there ids are contents,
which discharges `NoCollision`, so the collisions of the hash are left to
`EveryIdIsQueuedOnce`.

**`PassiveInboxProofs`**. `TypeCorrect` and `RecordsStayCoherent` are proved together,
without `Serialized`: that the result of `AdmittedNow` is a sequence and repeats
nothing needs the record to be coherent, and each copy of it (the file, the temporary
file, a process's memory) may be the next inbox. For a coherent record `AdmittedNow` is
`staged` itself (`AdmittedIsStaged`): this is why the race branch of `admit_on_turn`
is never taken. `SerializedAdmitsOnce` and `SerializedImplementsMailbox` have a
`SerialInv` with the same three parts as the station's: the temporary file is the
running process's own (`Files`), what was told or printed is in the file, once
(`Ledger`), and the memory of a dispatch or a turn is its verb's result on the file as
it is now (`Errand`). `Rename` is then `Put`, `Take` of everything staged, or, for a
repeated push and an empty turn, a stutter; `PrintOut` of a dispatch is `Acknowledge`.
`SerializedNeverHides` is the safety half of `EventuallyShown`: what was acknowledged is
staged, printed, in the memory of a turn about to print it, or in `unseen`. Its
`ShownInv` says of every admitted effect which of the last three it is.

**`RoutingProofs`**. For `Routing`, `AnswerInv` says that the answer given last is what
resolution makes of the record under *some* hint, and that a report is the binding's
own. `HintAndBinding` compares two hints on one record: nothing resolution reads is
touched by a hint but the surface, and the surface only where neither override nor
fleet names one. An edit forgets the answer, so that two answers in a row are about
one record: `HintsAreNoSwitch`, and from `AnswerInv` alone `PeersAlwaysAgree`. For `Launch`, each variable carries what its writer computed (`SavedInv`,
`StationsInv`, `MailInv`), and the rest is about the operators: a key of a profile is
empty only where the default leaves it so (`BlankSlot`); two joined names that are
equal come apart at the last separator, if neither role contains it
(`NamesComeApart`), for names of any length and any cap; two directories are equal if
their names are and, for a relative one, the processes were started in one place
(`SameDirectory`, and with it `SameStateDirectory` and `SameInboxDirectory`, one for each
way the code reads `CF_COF_HOME`). From these `ProfilesReadBack`, `SurfacesAreOwned` and
`RecordsAreFound`.

*Only model-checked:* the liveness properties `EventuallyRendered`,
`PreparedIsEnacted`, `EventuallyShown` and `DeliveredIsRendered`. They hold under
fairness, that is under `ENABLED`, which the provers do not treat. Every other property
of a passing run is stated by a theorem.

## 6. Not modelled

* `error.rs`: an error is an action that changes nothing. Flag parsing and
  printing of `main.rs`.
* `emit --json`, which prints the plan and opens no channel (listed as a hazard).
* Stream classes and views (`stream.rs`): only tests read them.
* The `session_id` of a binding, which no verb opens (its directory is listed as a
  hazard), the wake kind, a constant, and `migrate_legacy_cos_surface`, which nothing
  calls.
* Power loss: neither the temporary file nor the directory is synced. The models'
  disk is what other processes see.
* What ssh and the remote shell do to the argv.

## 7. Plan

Done: the modules above in the order journal, store, station queue and its
abstract mailbox, recovery, scheduler, cross-host delivery, passive inbox,
routing, the composition of cross-host delivery with the station's file
operations, the fleet profile's round trip, and what a launch leaves behind; each
with runs and mutants; proofs of every safety property the passing runs check, and of
all refinements: `StationQueue`, `CrossHost` and `PassiveInbox` of `Mailbox`, `EndToEnd`
of `CrossHost` and, composed, of `Mailbox`.

Next, proving more:

1. the scheduler's turn against an abstract one that knows budgets and queues but no
   order, as a refinement;
2. the safety half of `DeliveredIsRendered`: `SerializedDeliveries` and the station's
   `SerializedShows` in one statement about the seat's receipt.

Next, extending the model:

1. the scheduler with the passive inbox or a queue as its caller;
2. recovery of a station queue after a lost turn, with `reconcile` as the
   repair the journal offers;
3. a disk that forgets what was not synced.

# Portier in TLA+

Portier forwards TCP connections and UDP datagrams from listen bindings to
targets, by rules an operator edits through a local HTTP API.  It exists twice,
as a Go service (`service/`) and as a NestJS server (`server/`), with one
contract (`shared/`), a web client, a CLI and a replay tool.  This directory
holds TLA+ models of the parts where order, failure and concurrency decide
whether Portier is correct, and of the algorithms whose answers other parts and
scripts rely on; TLC configurations that check them on small instances; and
theorems that TLAPS proves for every instance.

Source paths below are relative to the repository root.

## 1. The system

| Part | State it keeps | Operations | Hard behaviour | What makes it correct | Model |
|---|---|---|---|---|---|
| Rule manager, `service/sources/manager` | rule list, runtime map (running, last error, forwarder), recovery state | create, update, delete, reorder, import, start/stop of a rule or a group, boot pass | saves that fail after forwarders were stopped, starts that fail, persisted duplicates; no lock | no socket without a rule, sockets serve the current rule, memory = file, no new duplicate binding, the running flag is true only of a listening forwarder | `ForwardManager` |
| Startup recovery, `service/sources/recovery` | the reason, the quarantine path | classify the file, quarantine it, block writes | a file that is bad, unreadable, or cannot be renamed | no bad file is overwritten; the API comes up | `ForwardManager`, `ConfigStore` |
| Config store, `service/sources/config`, `server/sources/persistence` | `rules.json`, temporary files | load, save | a crash between two file operations; the remove-and-rename second attempt; two saves at once | the file is the old list or the new one | `ConfigStore` |
| TCP forwarder, `service/sources/forwarders/tcp.go` | listener, open connections, counters | start, accept, dial, copy, stop | accept and dial racing Stop, the 2 s wait | everything open has a handler; a clean Stop leaves nothing; one end per connection in the log | `TcpForwarder` |
| UDP forwarder, `service/sources/forwarders/udp.go` | listen socket, target socket or one session per client, idle timers | start, read, session open/expire, stop | stale timers, packets racing Stop | a live session is never expired; every socket has a closer | `UdpMultiClient`, `UdpSharedTarget` |
| Registries, `service/sources/connections` | live connections and UDP sessions by id and by key | open, record, close, prune | calls from many goroutines after the forwarder's lock is released | an entry for every live session, none for a dead one | `UdpSessionRegistry`, `TcpForwarder` |
| Plan and apply, `service/sources/configplan`, `api/config_routes.go`, and the same engine in `server/` | none (computed from the list and the desired config) | validate, diff, apply | the list changes between plan and apply; ids and bindings matched two ways | applying a plan reaches the desired state, once is enough, nothing is lost without consent | `ConfigPlan`, `ConfigApply` |
| Validation, `service/sources/validation`, `shared/sources/index.ts` | none | decode, check, normalise, patch | two languages, `null` and absent, two measures of length | what is stored can be read again, by both services | `RuleLife` |
| TypeScript server, `server/sources` | the same as the Go manager, forwarders, registries, store | the same | awaits instead of threads: requests interleave at every await | the same promises | `TsForwardManager`, `ConfigStore`, `RuleLife` |
| CLI workflows, `tools/cli/sources/workflow` | the run history file | plan, run, record, list, prune, clear | steps that refer to steps, one reading of the service, commands without a lock on the file | a run says what happened, the history keeps what it was given | `Workflow`, `WorkflowHistory` |
| CLI policies, `tools/cli/sources/policy` | policy, report and baseline files | check, review, template, baseline create and compare | what a fingerprint depends on; files that could not be written | a baseline hides nothing new, exit codes can be trusted | `PolicyTools` |
| CLI commands, `tools/cli/sources/commands`, `client`, `doctor` | none but their files | start, stop, diagnose, group, doctor, config export, import, plan, diff, apply, validate, doctor | several requests to a service that others change; an answer that is late or cut while the service goes on | the exit code is what happened, to the rule that was named | `CliCommands`, `ConfigApply`, `RuleLife` |
| CLI files, `commands/config_migrate.go`, `commands/supportbundle.go` | a configuration, its backups, a bundle | migrate with backup and rename, fill a bundle | commands at once, a save or a kill between two file operations | what is replaced is kept; a manifest means a whole bundle | `CliFiles` |
| Replay, `tools/replay/sources/core` | none | detect, analyse, timeline, compare | three readers of one file | they agree, and silence means the same | `Replay` |
| Activity log, `service/sources/activity` | newest-first list of at most 500 events | add, list, clear | concurrent writers | bounded, ordered | events of a connection only, `TcpForwarder` |
| HTTP API, service lifecycle | phase | one handler per operation; start, serve, shut down | handlers run concurrently on the manager; shutdown timeout | each request acts as if alone | partly |
| Client, options, packaging | view state | | | | not modelled |

How they interact: the API calls the manager; the manager calls Start and Stop of
forwarders, Save of the store, and adds events to the log; forwarders accept,
dial and read on goroutines (or callbacks) of their own, write the registries
and the log, and are only ever stopped through the manager's runtime map.  On
boot the recovery loader reads the file, the manager starts the enabled rules
one after the other, and then the API is served.  The CLI calls the API and
leaves files; the replay tool only reads such files.

The hazards that weigh most are listed at their lines in `PROJECT.json` with the
properties that cover them, or with the reason why none does.

## 2. How the modules fit together

| Module | Extends or instantiates | Its run | Proofs |
|---|---|---|---|
| `ForwardManager` | | `manager_core`, `manager_groups` | `ForwardManager_proofs` |
| `UdpSessionRegistry` | | through the forwarders below | lemmas in `UdpForwarders_proofs` |
| `UdpForwarder` | `UdpSessionRegistry` | through both below | lemmas in `UdpForwarders_proofs` |
| `UdpMultiClient` | `UdpForwarder` | `udp_multi`, `udp_unlisted` | `UdpForwarders_proofs` |
| `UdpSharedTarget` | `UdpForwarder` | `udp_shared` | `UdpForwarders_proofs` |
| `TcpForwarder` | | `tcp` | `TcpForwarder_proofs` |
| `AtomicFile` | abstract specification | as a property of `ConfigStore` | |
| `ConfigStore` | `INSTANCE AtomicFile WITH ...` | `config_store` | `ConfigStore_proofs` |
| `TsForwardManager` | | `ts_manager` | `TsForwardManager_proofs` |
| `ConfigPlan` | operators | through `ConfigApply` | |
| `ConfigApply` | `ConfigPlan` | `config_apply`, `config_apply_restarts` | `ConfigApply_proofs` |
| `WorkflowHistory` | | through `Workflow` | `Workflow_proofs` |
| `Workflow` | `WorkflowHistory` | `workflow` | `Workflow_proofs` |
| `RuleLife`, `PolicyTools`, `Replay` | | through `Algorithms` | `Algorithms_proofs` |
| `CliCommands`, `CliFiles` | | through `Algorithms` | `Algorithms_proofs` |
| `Algorithms` | the five above | `algorithms` | `Algorithms_proofs` |

A module `MC...` gives the constants of a run their values.  What `ForwardManager`
takes of its parts are their outcomes: a forwarder starts or fails to, a save
succeeds, fails, or fails after it has removed the file; the modules of the parts
show that there are no others for the Go service (`ImplementsAtomicFile` and
the theorem `StoreWholeFile`: the file changes to a list being saved, or vanishes in the second
attempt).

Several runs check a property that is the conjunction of named parts, one idea
seen from several sides; the parts are defined, each with its comment, just above
it in the module.  The lists below name the parts.

## 3. Modules, runs and what they show

### ForwardManager

One Go manager and what it owns.  `rules`, `runtime` and `recovery` are the fields
of `Manager`; `sockets` are the listen sockets its forwarders hold, by binding;
`disk` is the file at the config path as the loader sees it; `pending` holds the
positions of the rules the request in progress still has to start; `phase` is
the process's.

A request is one step up to and including its save, since nothing else runs in
between: requests come one at a time here.  The forwarders it then starts are
started by `StartNext`, one step each, so a crash (`Exit`) may fall between any
two.  A start fails when the binding is taken and may fail for other reasons.
Bindings, targets, groups and ids are model values; names, counters and activity
events are left out.

Runs (`MCForwardManager`), with three ids, two bindings, at most two rules and
three forwarder objects: two rules suffice for every conflict between rules
(bindings, ids, order), the third id lets a rule be replaced while the entry of
an old one is still there, and three forwarders cover one per id.

* `manager_core`: every operation, two targets, failing and losing saves, one
  damaged file.  No socket leaks (`NoLeakedSocket`) or serves a rule other than
  its own as it now is (`SocketsServeTheirRules`); memory and file agree
  (`DiskMatchesMemory`); no damaged file is overwritten (`BadFilesPreserved`); no
  request adds a duplicate binding (`NoNewDuplicateBinding`); boot starts or
  explains every enabled rule (`BootDealsWithEveryEnabledRule`).
* `manager_groups`: group starts and stops, with saves that succeed.
  `RunningIsListening`: the flag that makes a start return early and a group
  start skip a rule is true only of a rule that listens.  `PassesEnd` (`BootEnds`,
  `RequestsEnd`): boot and group starts go through all their rules and end.

Fairness: `WF(StartNext)` and `WF(Serve)`.  A handler that has begun and the boot
loop are straight-line Go code that ends; nobody has to send a request, start
the service or stop it.

Assumption of this module: requests do not overlap.  `net/http` does not ensure
that and the manager has no lock.  Two handlers at once are a data race on Go
maps and slices, after which Go promises nothing, so there is no behaviour to
model; the Node manager, which runs the same sequences cut at its awaits, is
modelled with overlap (`TsForwardManager`).

### UdpSessionRegistry, UdpForwarder, UdpMultiClient, UdpSharedTarget

`UdpSessionRegistry` is the registry as one rule sees it: `entries` and
`keyToID` are its two maps, `aged` the ids whose `lastSeenAt` lies before the
pruning cutoff, `drawn` the ids drawn so far, since a random id does not come
twice.  Its operations are steps, for each holds the registry's lock throughout.
`UdpForwarder` adds what a forwarder has in every mode, its listen loop and how
far its Stop is.  The two modules of the modes extend it and call the registry's
operations from their own actions; the names of `UdpSharedTarget` that the other
module has too begin with `Shared`, so that both can be proved about in one
module.

`UdpMultiClient` is the forwarder with one target socket per client.  `sessions`
is `f.sessions`, `session` the `udpSession` objects with the state of their
socket, `loop` the listen loop and its packet, `armed` and `fired` the idle
timers by session and captured generation, `expiring` the `expireSession` calls
that are past the lock, `taken` the sessions Stop has yet to close, `deaf` the
sessions whose read loop ended on a read error.  A step is
what runs under `f.mu`; registry calls and closes outside the lock are steps of
their own, because that is where another goroutine gets in.  There is no clock: a
timer that is set may fire at any moment, and Stop's two seconds may be over at
any moment, so every property holds whatever the scheduler does.  The one
assumption about time can be switched off: with `ClockMayJump = FALSE` an entry
does not pass the five-minute cutoff while the one-minute timer of its session is
still set.

`UdpSharedTarget` is the forwarder of the modes one-way and
bidirectional-last-client, with `lastClient`, `lastSessionID` and the
read loop of the shared target socket.  Its Stop waits for both loops, or for two
seconds (`gaveUp`): a write or the scheduler may hold up a loop for longer, which
then handles the packet it has in hand after Stop has returned.

Runs.  Two clients compete, two sessions and ids let one session of a client
replace another, and one refresh is enough for a stale timer; the bounds end a
behaviour when objects, ids or refreshes run out, which is why these runs do not
check for deadlock (a stopped forwarder also really stops).

* `udp_multi`: a session found in the map has an open socket and a timer
  (`MappedSessionsAreUsable`), an open socket always has somebody who will close
  it (`EverySocketHasACloser`), nothing is listed that is gone
  (`NoGhostEntries`), a stale timer never takes a renewed session
  (`RenewedSessionsStay`) nor closes the socket under the packet in hand
  (`PacketsLostOnlyToTimeouts`).
  `StopCleansUp`: after Stop has returned all sockets are closed and all entries gone
  in the end, also those of a session that a packet opened behind Stop's back.
* `udp_unlisted`, with one client and a clock that keeps time, expects a violation of
  `LiveSessionsAreListed`, see section 5.
* `udp_shared`: `ListingIsCurrent` (`SharedTypeOK`, `OnlyTheLastClientIsListed`,
  `StoppedRuleIsNotListed`): between two packets of last-client mode only the last
  client is listed, and in both modes a Stop that has waited for its loops leaves no
  entry, one that timed out at most that of the packet in hand; `MapsAgree`: the
  registry's two maps are inverse to each other; `StopEnds`: Stop returns and both
  loops end, before or after that.  Four ids allow for entries that are pruned and
  reopened.

Fairness: goroutines that can run do run, timers that are set fire, a Stop that
has begun goes on, and a closed listen socket ends the read of the loop.  Nobody
has to send a packet, to call Stop, or to prune.

### TcpForwarder

One rule's accept loop, a handler per accepted connection (`pc`), its two copy
goroutines (`copying`, and of these the ones that are in `Write`: `writing`), Stop
with its snapshot of `f.conns` (`closing`), and the registry entries and activity
events of each connection. `sock` holds this side's two sockets of a connection,
client and target. The steps are cut where another goroutine can get in: between the
accept and the entry in `f.conns`, between the dial and the target's entry, between
one close and the next. Stop may time out at any moment, a dial may fail, a copy may
fail, a client may hang up, and a peer may never read what is written to it.

Run `tcp`, with two connections, so that one may be in Stop's snapshot and the
other arrive behind it:

* `EventsAreTrue` (`OneEndEvent`, `ErrorsHaveACause`): the log has one end per
  connection, and an error only if something failed: the errors of copies whose
  sockets were closed on purpose are not reported.
* `NothingOrphaned` (`NoGhostEntries`, `SocketsHaveAHandler`): every entry and
  every open socket has a handler that still runs.
* `CleanStopIsComplete`: a Stop that did not time out leaves nothing.
* `StopIsDoneWithAll`: Stop returns, and in the end every connection whose client has
  been closed, by Stop or otherwise, has ended, or hangs: a target that was dialled
  behind the snapshot is closed by nobody, and a copy that is in a `Write` to it stays
  there for as long as the target does not read (`HangsInWrite`).

Fairness: goroutines that can go on do, a dial ends by itself, and a `Read` or a
`Write` returns once its own socket is closed.  Nobody has to send, to read what is
written to them, or to hang up.

### ConfigStore, AtomicFile

`AtomicFile` is what the rule file promises: it changes in one step, to a list
somebody is saving; it vanishes only where a save has announced that it will remove
it, or when the loader moves it aside; it is cut off only where a save has announced a
file that is; a power failure may bring back what it was. `ConfigStore` is the code:
for each save the temporary file, write, sync, close, rename, and Go's second attempt
(remove, rename), each of which may fail; Node's write, which may stop short without
an error, as nobody looks at `bytesWritten`; overlapping saves, for neither runtime
locks them; a kill or a power failure between any two steps; start, load, quarantine
with its name of one-second resolution, and an operator who edits the file while the
service is down. The runtime that is up, Go or Node, is a variable, and the file
survives a change from one to the other.

Run `config_store`, with two saves, two lists, two damaged files, one that only Go
reads, two quarantine names beside the plain one, and one edit:

* `ImplementsAtomicFile` (refinement).
* `AckedSaveSurvives`: a save that succeeded and that none overlapped is what the
  file holds until the next one; if Node's write was short, the cut-off file is kept,
  at the path or in quarantine.
* `NothingFoundIsLost`: no damaged file is ever overwritten, by a save, by
  another damaged file, or by a second quarantine in the same second.

Two saves are all that overlap needs, as the effects of a save on another are its
rename and its remove.  There is no fairness: these are safety properties.

### TsForwardManager

The Node manager.  A request runs alone up to an await, so a step ends where the
code awaits the save, the closing of a listener, or the start of a forwarder, and at
the turns of a loop, where no other request runs (`ThreadIsFree`).  `req` holds, for
each request, where it is, what it does, what it remembers from before its await (the
rules to roll back to), and the forwarders it waits for.

A start lasts while the name of the listen host is looked up, and the forwarder is in
the map before it is bound (`Register`, then `StartEnds`).  A stop that comes meanwhile
drops it: UDP takes that for a stop, and the start never gets its answer; TCP refuses,
and the request or its turn of the loop ends with an error (`StopRefused`,
`StopAllRejected`).

Nothing looks up the id of a rule that is added, and a merge looks only at the ids that
were there before its file: `reused` says that a rule has come under an id that another
had.  `again` holds the later rules of a merge that names an id twice; of a replacing
file the later rule of an id stays, as in the code's map.

Two requests, two rules, two bindings, three forwarders; a request may begin
`MaxOverlaps` times while another is under way.  An id that was taken counts as an
overlap in that bound, since either leaves forwarders that belong to nobody.

Run `ts_manager`:

* `StateIsSound` (`TypeOK`, `EntriesAreLive`, `QuietStateAgrees`): what clients are
  told of a rule is about a forwarder of that rule that has not been closed, at
  every await, with overlap and with ids that are used again.  As long as there has been
  neither, rules, sockets and file agree between requests.
* `EverythingIsAnswered` (`EveryWaitEnds`, `BootExplainsEveryRule`): no request
  waits for a socket that is not closing or starting, so no two wait for each other; the
  one wait without an end is that for a start that was dropped, and it takes a stop
  that overlapped.  Boot leaves no enabled rule down without a reason.
* `FailedSaveRestores`: a request that nothing overlapped and whose save fails puts
  back the rules it began with, unless it added one under an id that was taken.

What goes wrong with overlap, and with ids that are used again, is in section 5.

### ConfigPlan, ConfigApply

`ConfigPlan` is the plan engine as operators: how a desired rule is matched (by id,
then by binding), which changes are destructive, what is removed, the errors, the
drift, and the list an apply imports.  The engine of `server/` is a twin of the Go
one and maps to the same definitions.  `ConfigApply` is one apply around it: the
CLI command with its local checks, backup, request, ten-second timeout and exit
code, which is also that of an answer it could not read or a report it could not write
(`told` is false then), or a client that posts directly; the handler, which plans from one reading
and imports into whatever the rules have become; the import with its failures; and
another client that edits, starts and stops rules in between.

Run `config_apply`, with starting lists of up to two rules (one with a duplicate
binding), every file of at most two rules over three ids, two keys and two targets,
and one edit by somebody else:

* `AppliesAreTrue` (`TypeOK`, `AppliedIsDesired`, `SecondPlanIsQuiet`,
  `CountsAreTrue`): after an apply that says ok the rules are the desired ones, a
  second plan has nothing to do, and the counts are the difference.
* `ResultsAreHonest` (`ExitCodeIsHonest`, `BackupBeforeApply`,
  `PlanBlocksImportErrors`): the exit code of a command that had its answer says
  whether rules were replaced (a 1 of one that could not read or report the answer does
  not: the rules may have been replaced), the backup holds what was replaced, and what a plan without errors imports has no
  duplicate binding.
* `ConsentBeforeLoss`: without `yes` no rule the plan has seen is removed or
  moved.
* `config_apply_restarts` expects a violation of `MetadataKeepsSockets`, see
  section 5.

Two rules are enough for all ways in which two rules of a file can collide, over
ids, bindings or both.

### Workflow, WorkflowHistory

`Workflow` parses a file of steps, plans it, and runs it in order: policy checks of
a file or of the service, reviews, and baseline comparisons that may take their
report from an earlier step; then it writes the report and may record the run.
`WorkflowHistory` is the history file with the commands that use it, each a
process that loads, decides and writes in place, without a lock; a write truncates
first and may be cut short.

Run `workflow`: files of up to three steps with repeated ids, references forwards,
to themselves, to comparisons and to nothing, and every way a step can be invalid;
one other command that records, lists, shows, prunes or clears; a history of at
most two runs.  Three steps let a comparison refer across another step; two runs
are the limit plus one when one is added.

* `RunsAreTrue` (`TypeOK`, `SkipsAreExplained`, `CompareUsesItsSource`,
  `RuntimeReadOnce`, `ExitCodeIsTheRun`).
* `HistoryIsTrue` (`QuietHistory`, `ViewsAgree`): while commands do not overlap the
  file holds what they promised to keep, and list, stats and prune select the same
  runs.
* `TornFileIsLeftAlone`: what cannot be parsed is only ever cleared on request, or
  written over by a command that had read it before.

### RuleLife, PolicyTools, Replay, CliCommands, CliFiles, composed by Algorithms

Five parts that share no state with the rest.  `Algorithms` puts them side by side;
`subject` says which one a behaviour is about.  The first three compute rather than
run: each is a module of operators translated from the code, with actions that reach
the states worth asking about, so that the properties quantify over what the program
can really produce.

`RuleLife`: a rule is created from a request and changed by a patch, by the Go
service and by the Node server at once, and read back by either or by the CLI.
Texts are the few the two languages tell apart.  `PolicyTools`: a configuration, a
policy, a report and a baseline are changed by the commands and by the operator.
`Replay`: workflows are run and planned, and everything the CLI can save of them
(report, bundle, history) is read by the three readers of the replay tool.

`CliCommands` is one command with its arguments, file and options, and the service
it speaks with.  `Begin` is what it refuses and the first request; `Receive` is what
it concludes from an answer (`AfterForwards` resolves the argument to a rule, the
`...Code` operators are the exit codes); `Serve` is the service, at any time until
the answer comes and also after the command has given up; `Lose` is an answer that
does not come, or is cut, or output that cannot be written; `Change` is what others
do meanwhile.  Every rule is enabled, and its state stands for its health; rules that
agree in id, name, group and state count as one.  Nothing makes ids unique: the
service keeps a rule's state by its id, so what is done to one rule is done to the
others of that id; a merging import gives a rule whose id is taken a new one
(`MergedIds`), and adds all the rules of its file or none.  `plan` stands for diff
too.  A command about a rule puts its id into the path of the request unescaped, and
the service reads there what to act on: `Strays` says of the ids a path does not hold
as they are where they lead, `groups/g` to the group g, `%31` to the rule 1, `1?`
nowhere; `Reached` is where a command's path leads.  An id that brings another
operation along (`1/stop?`) is not modelled.

`CliFiles` is two commands that write files at the same time: `config migrate`, with
one action for each access to a file between the read and the rename, or
`support-bundle`, with two for each artifact (`os.WriteFile` truncates first).  Each
may fail or be killed anywhere; the service or an operator may save the
configuration meanwhile, and the clock may tick, since names of backups have a
resolution of a second.

Run `algorithms`: every request that differs from a rule in order in one field, or
in two that bear on each other, then every such patch; policies on up to three
rules and two edits, starting from rules that share bindings, names or have
neither; two runs or plans of two workflows with two steps each; every command, with
every argument, on seven services (in recovery, with a rule whose id is another's
name, with two rules of one name, in order, with two rules of one id, with an id that
leads to a group, with ids that lead to another rule and nowhere) and nine files, with two ids to give to merged rules and one change by others; and two
commands that write files, one save and one tick.  The two are
interchangeable, hence the symmetry: two are enough to take one name, and what more
of them do is left to `FilesAreKept`.  The run does not check for deadlock: a command
that has ended and bounds that are used up are the end of a behaviour.

* `StoredRulesTravel` (`StoredRulesReload`, `RulesMoveBetweenServices`,
  `MigratedFilesLoad`, `StoredGroupsCanBeNamed`) and `RequestsMeanTheSame`
  (`TwinsAgree`, `PatchesTouchOnlyTheirFields`, `CheckedPatchesApply`): the
  differences between the twins, and between the CLI and the service, are exactly
  those that `Exotic`, `CreatesDiffer`, `PatchesDiffer` and `OnlyCliTakes` name.
* `PoliciesTellTheTruth`: baselines tell what is new (`AcceptedIsQuiet`,
  `FixingAddsNothing`, `NothingNewIsHidden`) and answers can be trusted
  (`OmittedGuardrailsPermit`, `TemplatesAreOrdered`, `ValidateAgreesWithPolicy`,
  `SummaryAddsUp`, `PassedMeansNothingNew`).
* `ReplayTellsTheTruth`: the readers tell what was saved (`ReadersAgree`,
  `BundleKeepsTheReport`, `HistoryTellsTheReport`, `DetectedAsWritten`) and a
  comparison tells the difference (`SilenceMeansSame`, `NewRunsShow`).
* `CommandsTellTheTruth`: an exit code says what the service did (`ExitCodesTell`);
  the command asks for the one rule the argument named (`OnlyTheNamedRule`); what its
  path led to is done (`DoneIsDone`), and no other rule is touched
  (`OthersAreLeftAlone`); a verdict put together from several answers is that of the service
  when nobody changed it in between (`ReportsAreTrue`); commands agree on a file
  (`FileVerdictsAgree`).
* `FilesAreWhole`: what a migrate replaces stays in a whole backup, unless another
  migrate took the same name, and then it is lost to a save or a kill, or is in the
  file again (`ReplacedIsKept`); configurations are never half written
  (`MigratesAreWhole`); and a manifest means a whole bundle (`BundlesAreWhole`).

## 4. Proofs

Each `..._proofs` module extends the module it is about and proves, for every value
of the constants, an inductive invariant and what follows from it.

### ForwardManager_proofs

* `TypeCorrect`: `Spec => []TypeOK`, with a lemma per action.
* `BadFilesArePreserved`: the invariant alone is not inductive, since a save
  would overwrite a bad file if one could lie there while writes are allowed.
  The strengthening `NoBadFileInNormalMode` says that outside recovery the file
  is absent or good; a boot is the only step that sets recovery, and it looks at
  the file.
* `DiskAndMemoryAgree`: inductive as it stands.  The lemma `RequestPersists`
  carries it: every request either saves the list it leaves in memory or leaves
  the old list.
* `NoSocketLeaks`: needs that a process that is down holds nothing, because a
  boot empties the runtime map.  Its core is `StopLeaksNothing`: a step that
  stops a set of ids may drop those ids and no others.  Deleting, reordering
  and importing are shown to satisfy that also when ids repeat; for a reorder
  this takes the existence of the first rule of an id, from well-foundedness.

* `WhatIsServedIsTheRule`: `SocketsServeTheirRules`, also when ids repeat.  An
  entry serves the rule it was made from, but of two rules of one id an update
  or a delete finds the first; so the strengthening `FirstRulesServe` says that
  the rule that is served is the first of its id.
* `RunningRulesListen`: if every save succeeds, `RunningIsListening`.  The
  hypothesis is needed: a delete or a replacing import whose save fails puts the
  rules back after it has stopped their forwarders (section 5).  The invariant is
  that a flag tells of a live forwarder (`FlagsAreTrue`) and that a manager in
  recovery holds no rules.
* `NoDuplicateIsMade`: if ids arrive unique, the action property
  `NoNewDuplicateBinding`.  An update's check skips the rule of its own id; that
  only one rule has that id is the invariant, and every request keeps it
  (`IdsStayUnique`).
* `BootForgetsNoRule`: if ids arrive unique, `BootDealsWithEveryEnabledRule`: each
  rule a boot has passed runs, has failed or is off (`DealtWith`), and the rules
  that are still to come have ids of their own, so that no later start undoes it.

The constants include `DuplicateIds`: the theorems without that hypothesis hold also
when clients send ids that are in use, which no run covers.  They assume what
`ConstantsAssumption` states and nothing about how requests are bounded (`MaxRules`
plays no role in them).

### TsForwardManager_proofs

Proved for any number of requests, rules, bindings, forwarders and overlaps:
`TsTypeCorrect`, `TsStateIsSound` (`StateIsSound`), `TsEverythingIsAnswered`
(`EverythingIsAnswered`) and the action property `TsFailedSaveRestores`
(`FailedSaveRestores`).  The requests interleave at every `await`, so the invariant
has a layer for each thing an interleaving could break:

* `TypeInv`: what a request remembers over an await (an index, the old list) fits
  the list it is about.
* `EveryStep`: whatever its handler, a request has a turn, in which it leaves the
  forwarders alone, takes the listeners it then waits for, or makes one forwarder whose
  start it waits for; the other steps are the end of a start, the close of a listener and
  those of the boot pass.  That an entry is that of a live forwarder follows from these
  few and not from the actions.
* `WaitInv`: every wait has somebody who ends it (`EveryWaitEnds`), and a forwarder is
  waited for by one request only (`WaitsAreApart`), or one answer would leave another
  request waiting.
* `OneInv`: until two requests have overlapped, one is under way at a time.
* `MineInv`: until then, a request that waits has changed no rule but its own, so that
  putting those back is putting everything back, which gives `TsFailedSaveRestores`.
* `QuietInv`: while it is `Calm` (no overlap, no id used again, no shutdown), `UnderWay`
  says for the one request under way, operation by operation and await by await, what it
  has changed in memory, what the file holds, which forwarders it has taken down and
  which one it is starting.  What holds between requests is the case of nobody under way.

### UdpForwarders_proofs

The registry's operations, which both forwarders call, come first, with a lemma
each: `RemoveKeepsRegistry` and `OpenKeepsRegistry`; the second needs that an id in
use was drawn (`ListedWereDrawn`).

For `UdpMultiClient`, for any number of clients, sessions, ids and refreshes:
`TypeCorrect`, `RegistryMapsAgree`, `SessionsAreUsable`, `NoOrphanedSocket`,
`NothingListedIsGone`, `PacketsReachTheirSockets` and the action property
`StaleTimersAreHarmless`.  They follow from one inductive invariant
`IInv`.  Its parts lean on each other: that a session in the map has its timer
(`MappedSessionsAreUsable`) survives an expiry only because that expiry's
generation is compared under the lock; a new session's timer is new because an
object not yet used has none (`UnusedSessionsRest`); a refreshed timer is new
because no timer is of a later generation than its session
(`TimersAreOfThePast`), which also keeps a timer from being set and fired at once
and so gives `StaleTimersAreHarmless`; that Stop forgets no socket needs that
nothing was taken before it (`NothingTakenWhileRunning`).  That every registry
entry is backed (`NothingListedIsGone`) and that a packet loses its socket only to
Stop or to its own timer (`PacketsReachTheirSockets`) are each inductive next to
`IInv`.

For `UdpSharedTarget`: `SharedListingIsCurrent` and `SharedMapsAgree`, for any
number of clients and ids.  What is listed between two packets is not inductive, since the loop takes two locks one after the other; the
invariant says what is listed at each of its positions
(`ListedAtEachPoint`), which entry and client the packet in hand carries
(`LoopKnowsItsPacket`), and that a loop opens nothing once Stop has waited for it, and
one entry at most when Stop has not (`NobodyOpensAfterStop`).

### TcpForwarder_proofs

Proved for any number of connections: `TcpTypeCorrect`, `TcpEventsAreTrue`,
`TcpNothingOrphaned`, `TcpCleanStopIsComplete`.  The inductive invariant says what a
handler holds at each of its positions, connection by connection (`HandlersHold`),
that the wait group counts exactly the goroutines that run (`GroupCounts`), that
a handler began while the loop ran (`HandlersNeedALoop`), and that nobody runs
after a wait that ended by itself (`NobodyAfterACleanWait`): a loop that is
ended adds no handler to a group that is empty.

### ConfigStore_proofs

Proved for any number of saves, lists, damaged files and quarantine names:
`StoreTypeCorrect`, `StoreWholeFile` (where Node does not run, the path never names
half a list), `StoreAckedSaveSurvives`, `StoreNothingFoundIsLost`, and the refinement
`StoreImplementsAtomicFile`: every step of a save is a step of `AtomicFile` or leaves
the file alone.  The invariant `StoreInv` says that a temporary file that is
about to be renamed was synced and holds its list, or in Node what was written of it,
that the file at the path is synced or was put there by an operator, and where each
damaged file lies.

### ConfigApply_proofs

Proved for any finite list with unique ids, any desired file and any number of
edits by others: `AppliesTellTheTruth`, `ResultsTellTheTruth` and
`NothingIsLostUnasked`.  The first half is about the plan engine alone, with no
state: `Plannable` is what a plan without errors says of its input, `Imports` is
the list an import makes of it.  `IdMeansMatch` is the lemma the rest hangs on, an
imported rule has the id of a rule that the plan saw exactly when their desired
rule matched that one, so the imports have unique ids (`IdsApart`) and bindings
(`ImportsAreOnePerKey`), are the desired rules (`ImportsAreDesired`), make a second
plan that finds nothing to do (`AgainNothing`), and are counted right, by a
bijection for each counter (`AddsCounted`, `RemovalsCounted`, `UnchangedCounted`).
The second half is the inductive `ApplyInv`: what the plan is a plan of, and, for
each answer, what the list, the backup and the exit code are then.

The assumption on the constants is that a service starts with a finite list of
unique ids and that a file holds finitely many rules, which is what
`ConfigStore` gives the first and JSON the second.

### Workflow_proofs

Proved for every workflow file, every history, any number of commands and any
retention: `RunsTellTheTruth`, `TheHistoryIsTrue` and `TornFilesAreLeftAlone`, which are
the three properties of the run `workflow`.

* What the loops over the history compute (`Those`).  The library's induction
  theorems take an operator, so induction is done over a set instead: a set of
  sequences that has the empty one, and every extension of one it has, has all
  (`SetOfAllSequences`, from the well-foundedness of the numbers).  With it: a loop
  finds what it looks for among what it reads (`ThoseAreTheOnes`), two opposite
  loops share the runs out between them (`ThoseAndTheOthers`), and a loop that goes
  the other way finds the reverse (`ThoseOfReverse`).  So what list, prune and stats
  see agrees (`ViewsOfRuns`), and what a command computes from a list that is kept
  newest first is what it promised in terms of the order of events
  (`RecordedIsPromised`, `PrunedIsPromised`).
* The file (`HistoryInv`).  `QuietHistory` speaks of moments when nobody is busy and
  is not inductive.  `Quiet` says what is true in between: at most one command is
  busy; it carries what it promised; and the file holds what was promised before
  until that command truncates it, and from then on is empty and its own to fill.
* The run (`EngineInv`).  In a valid plan an id names one step (`IdsAreUnique`), so the
  map of reports tells of the step that is meant (`ReportIsOfThatStep`); every result
  used the answer that is remembered (`RulesAreTheMemo`); and at each stage the exit
  code agrees with what was, or is being, recorded (`ExitTellsAll`).

The assumptions are that the history that was there is one a command could have
written, that a prune's number is a number, and that a file holds a sequence of
steps.

### Algorithms_proofs

Of each of the five subjects an invariant of the specification of `Algorithms` is
proved, and from it what the run `algorithms` checks: `RulesTravel` and
`ServicesAgree` (`RuleLife`), `PoliciesAreTrue` (`PolicyTools`), `ReplayIsTrue`
(`Replay`), `CommandsAreTrue` (`CliCommands`) and `FilesAreKept` (`CliFiles`), which
are all six invariants of that run.  What TLC enumerates there, the proofs let be
anything: any set of requests and patches, configurations, policies and baselines of
any length, reports and histories of any length, any services and files of
configurations, any number of commands that write files, of artifacts, of changes and
of saves by others.

* Rules (`LifeIInv`).  A stored rule is not any record: it has the shape its service
  stores, and what the service that reads it does depends on that shape.  The
  invariant says what was asked, what was stored and what was patched, and each part of
  the two properties is then a lemma about the functions that validate, store,
  decode and normalise.
* Policies (`PolicyIInv`).  A fingerprint names a finding of a configuration
  (`FingerprintsFound`), so a rule that is moved or renamed keeps its own
  (`Rearranged`, `RewrittenIsQuiet`).  The CLI and the replay tool look for the rules
  of a binding in opposite ways; that they name the same ones needs a least place, which there is
  because the numbers are well-founded, and the counts are right by a bijection for
  each (`SizeOfImage`).
* Reports (`ReplayIInv`).  A run is what a workflow leaves: each of its steps has the
  outcome its plan allowed, it was numbered when it was recorded, so the runs of a
  history count down to one.  `ReadAs` says of a reader that it sees `n` items and
  reads each in a given way, and is shown of each kind of file; the three readers
  then agree because each list they show is the image of those items, and the
  timeline because it is those items one place on (`IsTimeline`).  That a history that
  grew shows its new runs is `Grown`: the old one is the tail of the new.
* Commands that speak with the service (`CliIInv`).  A command is at a call of its own
  (`AtItsCall`), the service has at most one request of it, perhaps of a call that was
  given up (`RequestHolds`), and acts at most once (`ActHolds`).  A rule is looked up in
  one answer and acted on in another call, so the rule the argument named stays named
  in the answer it was looked up in (`TargetHolds`), whatever becomes of the service.
  That its id leads to it is not so, and not needed: what was done is said of what the
  path led to (`ReachedRules`), which keeps its ids and groups when it is started or
  stopped.
  Answers and what was read tell what the service is like now as long as nobody
  changed it (`AnswerHolds`, `SeenHolds`), which is what makes one verdict out of
  several.  That what was done is done (`DoneHolds`) needs every step of the service
  to be a change of the states of some ids (`RestatedAll`), which keeps one state for
  each id.
* Commands that write files (`FilesIInv`).  It says what a migrate holds at each of its
  steps, and that what it replaced is in the backup whose name it took (`Secured`), or
  that another took that name too.  A free name exists because there are more names
  than commands (`NamesAreFree`, a pigeonhole).  Of a bundle: what is left in the
  directory ends with the manifest, and a torn artifact is one that a command is
  writing, or was when it was killed.  The proof showed that `ReplacedIsKept`, as it was checked
  before, is wrong from three migrates on, one more than the run has; it was corrected
  to what the invariant says.

The assumptions are `RequestsAssumption`, `PoliciesAssumption`, `SavedAssumption`,
`CliAssumption` and `FilesAssumption`: requests are records of the fields a client can send, a policy's labels are names, the ids of a
workflow's steps differ (`workflow.go:291` refuses others, so no saved plan that is
valid has them; saved plans that are invalid for that reason are not modelled), the
codes of a policy are not those of a failing step, there is a service, whose rules are
finitely many and have one state for each id, a file without rules has no errors, the
commands that run at once are finitely many, and the artifacts of a bundle have names
other than its manifest's.

### What is only model-checked

Liveness (`PassesEnd`, `StopCleansUp`, `StopEnds`, `StopIsDoneWithAll`) is out of the
prover's reach, and so is ENABLED.  So is what a recursive definition computes for
every input, for which the library's induction takes an operator; where a proof needed
such a fact it is had by other means, as under `Workflow_proofs`.  Every invariant that
a passing run checks, and every property of steps, is stated by a theorem.

The type invariants of `UdpMultiClient`, `TcpForwarder` and `ConfigStore` are proved and
not in a configuration; the others are checked, as part of a merged property where
the list above says so.

## 5. Where the code does otherwise than it says

Two disagreements are runs that TLC must find violated:

* `config_apply_restarts`: `docs/api-contract.md:559` calls a change of name, enabled
  or group metadata that restarts no socket; an apply is a replacing import, which
  stops and starts every rule, also those the plan calls unchanged.
* `udp_unlisted`: the expiry of a session removes its entry after the lock is
  released (`udp.go:532`), and by then the entry may be that of its successor, which
  is then not listed; `docs/api-contract.md:407` says all are.

The models have the others too, in behaviours that the properties above leave out by a
named exception, by a hypothesis such as "until two requests have overlapped", or by a
setting of the constants.  In the Go service:

* `manager.go:361`, `:476`: when the save of a delete or a replacing import fails,
  the rules are put back but their forwarders were stopped, and the entries still
  say running.  `manager_groups` therefore has saves that succeed.
* `manager.go:662`: recovery is never left before a restart; `docs/recovery.md` says
  that the first successful import clears it.
* `manager.go:705`: with an id that is used twice, the duplicate check of an update
  ignores the other rule of that id.  `manager_core` has `DuplicateIds = FALSE`.
* `manager.go:381`: a reorder takes one rule of each id, so that of two rules of one
  id, which a create and an import accept, one is gone from memory and file.
* `config.go:112`: the previous file is intact until the rename, says the resilience
  audit (`audits/v1.16-resilience-durability-audit-1.md:59`); in the second attempt it is
  removed first (`removing` in `AtomicFile`).
* `tcp.go:85`: stopping a rule closes its active sockets, says
  `docs/api-contract.md:100`; Stop closes those it finds in `f.conns` at one moment.  A
  connection accepted just before, or a target dialled after, is forwarded on for as
  long as its peers like, and a target that was dialled behind the snapshot and does not
  read may keep even a connection whose client Stop has closed (`HangsInWrite`).
* `udp_session_registry.go:93`: a session in use is not listed either when the wall clock
  is set ahead by five minutes (`ClockMayJump`), for `lastSeenAt` has no monotonic reading.
* `udp.go:402`: a packet in hand may open a session after Stop has emptied the map; it
  lives until its idle timer, though the resilience audit says Stop leaks none.

In the Node server:

* `config-store.ts:116`: an interrupted write cannot truncate the previous `rules.json`,
  says the comment at `:89`; a short write is not noticed, and the cut-off file is synced
  and renamed over it, in a save that succeeds (`cut` in `ConfigStore`).
* `forward-manager.ts:282`: an update checks for duplicates before it awaits a stop and
  writes its rule after; a request that overlaps it can take the same binding, which
  the comment at `:89` says is rejected.
* `forward-manager.ts:379`: a stop that ends late takes the rule out of the map, whatever
  the map has for it by then.  With two overlapping updates of one rule that is the
  forwarder the second has started: it listens on, the rule is shown as stopped, and
  nothing can stop it.
* `forward-manager.ts:249`: a failed save deletes what was added under the id; when the
  id was taken, the older rule is gone too, though the comment at `:247` says that no
  partial state is left.  Its forwarder listens on without a rule, and `stopAll`, which
  asks for the rule of each forwarder, rejects from then on: replacing imports fail, and
  a shutdown exits without its flush.
* `forward-manager.ts:359`: a start that is dropped by another request's stop never
  answers its own (UDP); TCP refuses the stop.
* `forward-manager.ts:276`: a comment calls a refused merge unreachable; a patch that
  turns a UDP rule with a mode into a TCP rule, or gives a TCP rule a mode, passes
  the checks of its fields and is refused after the merge (`LeavesModeOnTcp`).

In the CLI:

* `commands/config.go:699`: the help promises exit code 2 for a missing `--yes`; it is 1.
* `config.go:239` of the CLI: `config validate` and `config migrate` accept files that
  the service quarantines (`OnlyCliTakes`).
* `commands/supportbundle.go:168`: the manifest's presence marks a complete bundle;
  two commands that find one directory empty write into it together, and the manifest
  of one may stand beside an artifact the other has just truncated.
* `client/client.go:461`: "ids are UUIDs, so there is no encoding to preserve", says the
  comment at `forwards_routes.go:19`; files and imports may bring any id, and the
  client does not escape it.  `portier start` of a rule `groups/g` starts the group g
  and ends with exit code 0 (`Strays`).
* `commands/config_migrate.go:204`: `backUpFile` never overwrites an existing backup, says
  the comment at `:195`; it looks for a free name and then writes without reserving it,
  so two migrates within one second may take one name (`OneName`).  When somebody saved
  between their readings, or the second is killed as it writes, the backup of what was
  replaced is gone.
* `workflow/history.go:528`: Append records a run, says the comment at `:523`; of two
  commands that load the same file the later write replaces the other's run, and both
  end with success (`QuietHistory` is about commands that do not overlap).
* `policy/baseline.go:238`: fingerprints never depend on rule ids, says the comment;
  those of rules without a name that share a binding do.

## 6. Not modelled

Overlapping requests on the Go manager, because a data race has no behaviour that
the code determines.  The activity log as a list: each of its methods holds one
lock throughout, so nothing interleaves.  The HTTP handlers that are one call of the
manager, the NestJS controllers, and the Node forwarders beyond their start and
stop, which follow the Go ones on one thread.  The shutdown of the HTTP server and
the Windows service states, which are calls into `net/http` and the operating
system.  The commands that only read and print: status, list, url, activity, runtime,
metrics and explain.  Counters, names, the wording of messages, renderings, runbooks and
workflow templates, `plan.go` and `explain.go` of the replay tool, which choose texts.
Command-line options, static files, logging, version and advisory.  The web client.
Packaging, scripts and tests.

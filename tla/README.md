# HincyRay in TLA+

HincyRay is a Rust daemon for Keenetic routers. It owns a Mihomo proxy process,
generates that process's configuration from a list of proxy profiles and a routing
policy, installs a transparent iptables firewall, watches all of it from a
watchdog thread and answers an HTTP API. This directory holds a formal model of
the parts of the daemon where several threads change shared state or where a pure
computation decides what the router does, TLC configurations that check it on small
instances, and TLAPS proofs.

All line numbers refer to `src/src/hincyray.rs` unless another file is named.

## 1. The system

### Threads and locks

| thread | what it does |
|---|---|
| HTTP handlers, one thread per request | every `handle_*` function |
| watchdog (24138) | the phases of a tick, every 10 s: pool, core, firewall, health and failover, benchmark, auto-select, update check, refreshes, statistics, connection log, maintenance, learning, deep benchmark, write-behind flush |
| benchmark workers (`benchmark.rs` from 418) | a pool of threads over one queue |
| deep benchmark (25439) | one long-running thread, started by watchdog or request |
| GeoBase job (20712) | one background analysis of rule lists |
| ndm, Mihomo | the router's own daemon rebuilds its firewall and runs our hook; Mihomo measures, logs and crashes |

Two mutexes matter. `inner` guards the in-memory state, the tracked core process
and the firewall manager; `apply` serialises operations that replace the running
configuration, and is taken before `inner`. An activation holds `apply` for its
whole duration but releases `inner` between its steps, so handlers that take only
`inner` interleave with it: core stop, firewall start and stop, profile delete,
undo, geo download, and the maintenance phase of the watchdog. Some work holds no
lock at all: probes, downloads, and the watchdog's repair of the firewall rules.

### Components

| component | state | operations | correct when | module |
|---|---|---|---|---|
| Activation (8386-8629) | `state.json`, `config.yaml`, `inner.state`, `proxy_rejected`, the captured identity | capture, plan, write, reload, readiness, selector, firewall, acknowledge, rollback, policy restore | what it answers is true of file, core, selector and policy; a failure changes nothing | `Activation` |
| Profile switch and edit (6907, 10680, 23942) | active profile, file, core, selector | one critical section with rollback | as above | `Activation`, `ProxyHealth` |
| Core manager (2756-2882) | child process, loaded configuration | start, stop, restart, hot reload, readiness | a stopped core stays stopped, a crashed one comes back | `Activation` |
| Firewall manager (3011-3878) | manager fields, chains, jumps, hook script, ready marker | start, stop, ndm hook, repair | the router's rules are those of the firewall the daemon knows | `Firewall` |
| Watchdog (24116-25140) | the tick's copies, backoff, counters | the phases | nobody acts on copies that no longer hold | all |
| GeoBase store and jobs (`geobase.rs` 440-811, 20436-20981) | manifest, artifact directories, applied snapshot, running flag | create, update, enable, delete, commit, collect, analyze, cancel | a snapshot in use has its artifacts; one analysis, which ends | `GeoBase` |
| Health and failover (24304-24590, 23451-23562) | samples per core generation | reject, recover, replace | fail-closed after three fresh failures, open after two successes | `ProxyHealth` |
| Best-of-best pool (`hincyray_pool.rs`, 4962-5400) | members, cursor, cooldowns, selection | probe, select, close, reset | carries traffic only over what was seen to work, and finds what works | `Pool` |
| Benchmarks (8738-9960, `benchmark.rs`) | job, queue, cancel flag, workers, statistics | start, take, probe, record, stop | a search tells the truth and reaches every server | `Bench` |
| Profiles and subscriptions (10110-12770) | list with positional ids, trash, fixed routes, undo stack | add, import, edit, delete, refresh, trash, promote, undo | positions are invisible | `Profiles`, `ProfileStore` |
| Routing policy (13650-15640, `mihomo_config.rs`) | rules, settings, device routes, learned exceptions | change, preset, reset, apply, delete; generator; trace; port warnings | what is not deferred is what the core runs; the trace is right | `Routes`, `RoutingPolicy` |
| Log and learning (20117-20420) | offset, generation, queue of domains | read, rotate, learn | no line twice, no domain dropped undecided | `TrafficLog` |
| Deep benchmark (11671-11800, 25015-25122, 25299-25800) | job, thread handle, dates, history | start, cancel, reap, save | cancellable, once a day, results kept | `DeepBench` |
| Sessions (`hincyray_security.rs`) | tokens, lockout | login, logout, password change | - | not modelled |
| Backups, self update, safe mode, memory guard | files, process | timed phases | - | safe mode in `RoutingPolicy` |
| Configuration layout, desktop application, web interface, scripts | - | - | - | not modelled |

The hard behaviours are the interleavings above; steps that fail after they took
effect (a save that fails after its rename, a reload that times out after Mihomo
acted, a selector request that is obeyed and then answered with an error); crashes
of Mihomo and restarts of the daemon between any two steps; the router flushing the
daemon's firewall rules; numeric profile ids, snapshots and thread handles kept over
an interval in which others write; and rules whose meaning is computed three times,
by the generator, by the trace and by the warnings. The list, with a line for each,
is under `hazards` in `PROJECT.json`.

## 2. Plan

| step | module | state |
|---|---|---|
| 1 | `Activation`: the apply transaction and everything that interleaves with it | checked, proved (`ActivationProofs`) |
| 2 | `GeoBase`: store, jobs and the activations that consume the store | checked, proved (`GeoBaseProofs`) |
| 3 | `ProxyHealth`: health samples, selector, verified failover | checked, safety and liveness; safety proved (`ProxyHealthProofs`) |
| 4 | `Bench`: the worker pool and adaptive search | checked, safety and liveness; safety proved (`PolicyProofs`) |
| 5 | `Profiles` over the abstract `ProfileStore`: positional ids | checked, refinement; both proved (`ProfilesProofs`) |
| 6 | `DeepBench`, `TrafficLog`, `Pool`, `Firewall`: the watchdog's other machines | checked; safety proved (`DeepBenchProofs`, `PolicyProofs`, `PoolProofs`, `FirewallProofs`) |
| 7 | `Routes` and `RoutingPolicy`: generator, trace, warnings, and the handlers of the policy | checked; proved (`PolicyProofs`) |

Every invariant and every safety action property of the passing runs is a theorem; the
liveness properties are left to TLC (section 13, What is not proved).

How the modules compose. `Activation` has the inside of a transaction; every other
module takes an activation as one step with the outcomes `Activation` shows
(succeeded, rolled back, rolled back incompletely), and refines the part of the state
`Activation` abstracts: which profile is active (`Profiles`, `ProxyHealth`), which
rules the kernel has (`Firewall`), what the policy says (`RoutingPolicy`), which
artifacts a configuration needs (`GeoBase`), what the pool's group carries (`Pool`).
`RoutingPolicy` extends `Routes`; `Profiles` implements `ProfileStore`, an
INSTANCE with a refinement mapping that hides the positions.

Modules use no RECURSIVE operator, and their parameters are CONSTANTS with a named
assumption, so that proofs can be added beside them. The MC modules only give
constants their values.

## 3. Module Activation

| state | code |
|---|---|
| `mem`, `disk`, `dirty` | `inner.state` (is a profile active, `split_routing.enabled`, the other routing settings, the connmark of the Keenetic policy, `tproxy_available`), the same in `state.json`, `inner.dirty` |
| `undo` | the snapshots in `inner.state.undo_stack` |
| `config` | the Mihomo configuration file, or `NoConfig` |
| `core` | the child process: up, loaded configuration, selector of the `proxy` group, and whether `failover_health_identity` is of this core |
| `rejected` | `inner.proxy_rejected` |
| `firewall`, `rules` | `FirewallManager`, and what is in the kernel |
| `tx` | the holder of `apply`: step, kind and what `capture_activation_runtime` and its callers captured |
| `wd` | the watchdog's position, its snapshot of the tick, its backoff |
| `updating` | a core update between its running check and the apply lock |
| `report` | the answer of the last activation |
| `intruded`, `doubted` | read by properties only |

An action is one critical section of `inner`, or one write between two of them.

* `SaveSettings`, `RequestActivation` begin an activation, `Capture`, `Plan`,
  `Reload`/`ForceRestart`, `Ready`, `Select`, `ApplyFirewall`/`ClearFirewall`,
  `Rewrite` (the second pass when the TPROXY probe disagrees), `Acknowledge` are
  its steps; each failing step goes to `Rollback`, and a settings change on to
  `Unwind`.
* `SwitchProfile`, `EditProfile` and the watchdog's `Failover` hold both mutexes
  from their plan to their end or rollback, hence are one action each, with the
  outcomes success, rolled back, and rolled back incompletely (two faults).
* `CoreStop`, `FirewallStart`, `FirewallStop`, `DeleteProfile`, `UndoRestore`,
  `GeoDownload` take only `inner`; `CheckUpdate`/`UpdateCore` are the two halves of
  a core update; `Wake` .. `Flush` are the watchdog's phases; `CoreCrash`,
  `WipeRules`, `Reboot` are the environment.

Abstractions. The profile is reduced to whether one is active, the settings to
"enabled" and one value for everything else, the generated file to what the
properties distinguish (`BuildConfig`). Device routes and rule edits go through the
same path as settings. Readiness (four clean samples) is one step that succeeds or
fails. The health counters are abstracted: an observed core's selector may move at
any sample, a core not observed before is only noted and the tick ends, as in the
code. The controller is configured, as it is by default. A switch that is refused
before it changes anything is a stutter. The watchdog's phases 4 to 9 do not touch this
state except through the actions above and are left out. A graceful shutdown is a
flush followed by `Reboot`. A restore of the file that fails may have put it back
all the same, or removed it when there was none: the directory is synchronised last
(8245-8254). A core that ran without a file cannot be put back, and the rollback answers
"incomplete".

Run `activation`: one policy value (settings still differ by `enabled`), two
requests, one fault. It starts with a fresh installation or an installed one, split
routing on or off. Two requests give an activation and an operation that interleaves
with it; the watchdog, whose restarts are activations too and whose maintenance
rewrites the file, runs unboundedly besides. One fault is any one failing call,
crash, flush or restart anywhere. That the invariants do not depend on these bounds
is what the theorems of section 13 add. With `TproxySupport = {TRUE}` and a fresh state
that says otherwise, the second pass of an activation is met. `MaxBackoff` is the
clamp of the code in ticks. `requests` and `faults` bound the environment, never the
daemon.

Fairness. Weak fairness of an activation's steps and of the watchdog's: both are
threads that wait for nothing but mutexes whose holders are also threads, and every
call they make has a timeout (after which it is a fault). Nothing is assumed of
clients, of crashes or of Mihomo. Faults are finite in number, which is what "once
calls stop failing" means in `CoreComesBack`. `CoreComesBack` and `DirtyIsSaved` are
conditional on an active profile: without one no plan can be made, and a running
core without one ends every tick before the flush.

## 4. Module GeoBase

| state | code |
|---|---|
| `manifest` | `manifest.json`: bases, generation, applied bases and generation |
| `artifacts`, `unique` | the artifact directories and the counter of their names |
| `file`, `core` | the rule providers the configuration and the core refer to |
| `act` | the activation that holds `apply`: plan, load, commit, collect or rollback |
| `pending` | handlers between their running check and their effect |
| `runtime`, `jobs` | `inner.geobase` and the job threads |
| `intruded` | read by properties only |

Each store operation is one transaction of the store's mutex and one action.
`Arrive` is the running check of a handler, `Mutate` its effect under `apply`;
`LoadBase` and `StartJob` are the two parts of `start_geobase_job`; `Analyze`,
`Save`, `Complete` the job; `Plan` .. `Rollback` the activation, with the steps that
`Activation` models in detail collapsed into `Load`; `Regenerate`, `Undo`,
`CheckUpdate`, `UpdateCore`, `CoreStops`, `Reboot` the others. An active profile is
assumed throughout (without one every plan and regeneration is refused, which
changes nothing here). The content of lists, analysis results and preflight are
abstracted to the artifact they are published under. `intruded` is set by the
operations that replace the file or the state without the apply lock while an
activation holds it, and cleared only by an activation that answers "applied" on a
file of its own with the core running that file: until then the file of an intruder
may still be the one a rollback restores.

Run `geobase`: two ids, two concurrent clients, four requests (create, apply,
change, apply is the shortest history in which collection could remove something
that is in use), one fault, `MaxBases` scaled to 1 so that the limit is hit,
`MaxArtifacts` 4, at least the number of publications four requests can make. It
shows `TypeOK` (which includes that at most one analysis runs), `ArtifactsExist`,
`AppliedSnapshotTrue`, and `AnalysisEnds` under weak fairness of job steps and of the
activation, both threads whose calls have deadlines.

## 5. Module ProxyHealth

| state | code |
|---|---|
| `list`, `active` | `inner.state.profiles` as the sequence of raw links, the id is the position; `active_profile_id`, 0 for none |
| `proven` | links whose statistics admit them to a failover or a selection: a successful probe with a latency, not cooling down, not among the dead servers |
| `bench` | `inner.bench` runs |
| `core` | the Mihomo process: up, `core_generation`, the link it serves, the selector of `proxy`, the last sample of the sensor group and its result |
| `rejected`, `health` | `proxy_rejected`; `failover_health_identity`, `failover_health_sample`, `failover_fail_count`, `failover_recovery_count` |
| `failing` | `failover_rejected_profiles`, local to the watchdog |
| `wd` | the watchdog's position and what it keeps over unlocked intervals: both identities, the sample, the failed link, the candidates, the chosen link and its id |
| `evidence` | read by properties only: the failing and healthy samples the running core has taken of the link it serves |

The handlers are `SelectProfile`, `DeleteProfile`, `AddProfile`, `EditProfile`,
`RefreshSubscription`, `Activate` (core start, routing and everything else that goes
through `activate_current_config`), `StopCore`, `StartBenchmark`. The watchdog's
tick begins with `Wake`; phase 1 is `RestartCore`/`RestartWaits`; phase 3 is
`FetchSample` or `Inconclusive`, `Reread`, `NoteIdentity` or `DecideHealth`, then
`EngageReject` or `Recover`; a rejection with automatic switching goes on with
`attempt_verified_failover`: `RankCandidates`, `VerifyCandidate`, `SwitchToCandidate`,
`AbortFailover`, `CandidateGone`, `NoCandidateLeft`; phase 5 is `ChooseBest` and
phase 7 `RefreshDue` and `ChooseReplacement`, both followed by `ActivateChosen`.
`ApplyFree` says when the watchdog holds the apply lock over several steps.
`MeasureUpstream` and `CoreCrash` are Mihomo.

Abstractions. An activation or switch is one step (module `Activation` has its
inner steps): it succeeds, is rolled back, or is rolled back incompletely with the
core stopped. Generations and sample times are only compared for equality with what
another variable holds; a value nobody holds is reused as a new one, which keeps
the model finite with unbounded runs. A sample that the next one overtakes before a
tick reads it changes nothing for the daemon and is left out. A reload may or may
not leave the old history visible in the controller, so both are allowed. Whether
automatic switching, selection and refresh are on is read at the moment the code
reads it and is nondeterministic, like the order of candidates by latency (any
order), the result of a benchmark (any set of profiles) and a cooldown that ends
(part of the same action). A refreshed list keeps the order of its other profiles
and ends with the links of the answer. An edit of a profile a fixed route names goes
through the activation as well, whether it is the active one or not, and so does the
rollback of one that cannot be saved (10742). The limit of eight candidates is not reached
with three profiles. The check through SOCKS when no controller is configured is left out.

Run `proxyhealth`: two profiles, both of which the subscription may deliver or drop, or
one at first, so that the other can be added, and a third link, which comes by an edit or
an addition; one request (handler, benchmark or
refresh) and one fault (a failing call, a lost selector request, a crash). Two profiles
are the fewest with which a failover, a re-indexing and a wrong index exist; a delete or
refresh may fall between any two steps of a failover, with a fault besides. The watchdog
and the sensor run without bound, so that all samples needed to pass the thresholds, in
any pattern of results, occur. The thresholds are those of the code, 3 and 2.

Fairness: the watchdog is a thread whose calls all have timeouts and that waits
only for mutexes; a benchmark has a deadline; Mihomo's sensor group measures at a
fixed interval as long as the core is up. `HealthyIsServed` assumes, beyond that,
that from some time on the core is up with an active profile and its samples are
healthy: then two fresh samples open the selector, and it stays open, even when a
request to open it was lost.

## 6. Module Bench

| state | code |
|---|---|
| `able`, `dead`, `history`, `searchCursor` | what each server can do (the truth the results are compared with), Dead Servers, what the last service check left in the statistics, `profile_search_cursor` |
| `job`, `queue`, `cancel` | the job's public record (`BenchJob`), its queue and its cancellation flag |
| `workers` | what each worker thread holds: nothing, a profile before, in or after its probe |
| `stoppers`, `handle` | a stop handler between its look and its act, the join handle in `BenchRuntime` |

`StartBench` is `handle_bench_start` with admission, candidate selection and the
interleaved order of `order_adaptive_search_candidates` (an exploration slot for a
server nothing is known of): `Lanes` sorts the candidates, `RotatedLeft` lets the
unknown take turns, `Merged` fills slot after slot from the preferred lane. `TakeProfile`, `LeaveLoop`, `Preflight`, `Probe`,
`DropResult`, `ReportResult`, `RecordResult` are the worker loop of
`run_bench_with_probe` (`benchmark.rs` 418), one action per critical section of the
job's mutex; `StartFails` is a start whose cursor cannot be saved or whose thread cannot be
spawned, which releases the reservation and leaves no job record; `FinishJob`, `MemoryAlarm`, `StopLook`/`StopAct`, `HistoryAges` are the
end of a job, the memory monitor, a stop and old evidence. Latency, speed and texts
are left out; the actions on the list after a full benchmark are in `Profiles`.

Run `bench`: four profiles of three servers (two profiles of one server, so that
deduplication matters), a search for two servers with two services required, and
availability checks; two workers, one stop or memory alarm, one ageing; three worlds
(the first exhausts the search). Fairness: worker threads and stop handlers go on;
strong fairness of a *search being started* says that the client keeps searching,
the hypothesis of `UnknownServersExplored` and nothing the code owes.

## 7. Modules Profiles and ProfileStore

| state | code |
|---|---|
| `mem`, `disk` | `inner.state` and `state.json`: list, active id, Dead Servers, pinned servers (enabled fixed routes), subscriptions |
| `undo` | the snapshots of the undo stack |
| `core` | up, the link it serves, the servers it has fixed routes to, whether routes were saved that it has not been given |
| `thread` | what a request thread keeps over unlocked intervals: a refresh, a membership change, a benchmark's post-action, a status answer |
| `bench`, `shown` | results of the last full benchmark, as link and positional id; those of the last status answer |
| `measured`, `due` of a thread | read by properties only: the links that benchmark measured, never renumbered; those of them in the list at the first section of a status answer, with their places |

One action per handler that edits the list; a handler that unlocks has one action
per critical section (`StartRefresh`/`RefreshSource`, `ChangeMembership` and
`ActivateMembership`, `RunBenchmark`/`MoveUnresponsive`/`PromoteSuccessful`,
`ReadStatus`/`AnswerStatus`). `Transact` is save-or-roll-back, `Commit` a save whose
failure keeps the change in memory. `UndoRestore` uses a snapshot up even when it cannot
be read. `SplitRouting` says whether fixed routes are generated at all (`InForce`): with it
off, and the torrent listener with it, the core has none, and changes of Dead Servers and
routes are not activated on their account (4570, 11859). The run has it on; the theorems
hold for both.

`ResultsKeepTheirLinks` compares a status answer with `measured`, which no renumbering
touches. The result of a measured link is shown under that link's place of the first
section or not at all, so never under another profile of the same server; it is not lost
while the link is still there at the second section; and it is dropped when a profile of
another server has moved in.

`ProfileStore` is what the list promises without positions: a set of links with
groups, one of which may be active, changed only by choice, edit, undo or removal,
and a saved copy a restart finds. `ImplementsStore` is the refinement; the mapping
forgets the order of the list.

What a handler keeps of a list is written by positions and not by recursion: `Kept`
(module `Positions`, which `Routes` uses too) is the list of what is at a set of
positions, in their order, `Nth` and `Rank` go between a position and its place among
them, and `Promoted` fills each slot of a group
with the profile `PromotedFrom` says the stable sort brings there. `WellFormed` is what
the model asks of a `state.json` the daemon starts from: a link once, an active id that
is a position, and a profile for each fixed route; the handlers write no other file.

Run `profiles`: four links of three servers, one subscription with three possible
answers, two threads, any three requests, one fault. Three requests are a refresh or
benchmark with two removals in its unlocked intervals.

## 8. Module DeepBench

`job` is the part of `inner` (active, the kept cancellation flag and handle), `worker`
the threads, `last` the two marks in the settings, `history`/`disk` memory and
`quality-history.json`, `wd` the watchdog's position and snapshot, `starter` the
request thread of a start between its two critical sections, `main` the shutdown.
`DateOf` is the civil-date arithmetic of the code on hours since the epoch, `Capped`
the cap of the history. Phases A and B of a run are `FinishPhaseA` and `StepPhaseB`,
`SaveHistory` its end; `Panic`, `Crash`, `Shutdown` and failing writes are the faults.

Run `deep_bench`: three hours on both sides of a month's end and of midnight, with
the window 03-05, two runs, two events. Fairness: threads are scheduled and a
measurement ends by its timeouts. Run `deep_bench_join`: a finding (section 14).

## 9. Module TrafficLog

`log`, `generation` are the file and its generation file; `cursor` is
`MihomoLogCursor`; `wd` is the watchdog between the two looks of a read and between
the truncation and the mark of a rotation; `pending`, `probe`, `exceptions`, `recent`
are the queue of domains that failed directly, a learning cycle, the exceptions it
stores and the domains checked within a day (`QueuedAll` queues what one read
delivers, the oldest domain giving way). `StartCore`/`StartGoesOn` are the
rotation by every start of the core, the second writer of the file.

Run `traffic_log`: six lines over two domains; limits 1 (start), 2 (watchdog) and 2
(one read) stand for 1 MiB, 8 MiB and the read limit, so every rotation and a partial
read occur; a queue of two, batches of one; two requests. `TypeOK` of this module and
of `Pool` is stated there and not part of the runs.

## 10. Module Pool

`pool` is `state.best_of_best`, `core.group` the selection of the group in Mihomo,
`runtime` failures, cooldowns and `PoolRuntime` (`hincyray_pool.rs`), `u` the update in
progress, step by step: `ControllerFailed`, `Compare`, `Choose`, `Probe`, `Judge`,
`Put`, `Close`, each a controller call or a critical section (when nobody is eligible and
the controller is not configured any more, `Close` does nothing, 5262); `setting` a settings request that
has saved and not yet activated. `Reload`, `Restart`, `Stop`, `Undo`, `Maintain`,
`Crash`, `MovedByOthers` are those who load, stop or move under it. `works` is the
truth about servers; `passed`, `streak`, `foreign` are read by properties only.

Run `pool`: two servers, lists of both or one, cooldown, retry and retention of one
tick each so that a cooldown can expire while the list is tried; three requests, one
fault. Fairness: the watchdog, the request thread and time go on. Run `pool_sticky`:
a finding (section 14).

## 11. Modules Routes and RoutingPolicy

`Routes` has the computations. `Config` is what `build_daemon_config` generates from a
policy: the rules in their order, device routes, system rules, PortMode rules, the
final MATCH, each an entry with domains, addresses, ports and a target. `Decide` is
Mihomo, taking the first entry that matches. `Trace` is `handle_routing_trace`, with
its own matching of rules, computed from the saved policy and never from the
configuration. `Conflicts` is the single pass that warns of rules PortMode keeps from
Mihomo, `Covers` its interval cover. A host is the sequence of its labels, a CIDR the
set of its addresses, a port item an interval.

`RoutingPolicy` has the handlers: `ReplaceRules`, `RouteResource`, `ResetPolicy`,
`ApplyPreset`, `ChangeSettings`, `SetDevice`, `DeleteDevice`, `SetSafeMode`,
`ApplyPolicy`, `LearnException`; each is saved and either `deferred` or activated by
`Generate` and `Load`, with `CannotGenerate` and `ActivationFails` undoing it, and
`DeleteProfile` in between.

`RoutesAssumption` and `RoutingPolicyAssumption` are what the proofs ask of the
constants; TLC evaluates them on the instance of the run. The rules the daemon brings
itself, those of presets (1645-1739, their target only ever overridden by direct, reject
or active, 14734) and of a reset (14616), name no server, and the words of the other
targets are not links of servers. What a request saves has the form the handlers
normalise it to: a rule is `WellFormed`, its port items are ascending ranges inside
1-65535 (`PortItem`; `normalize_port_items`, `hincyray_routing.rs` 32-63, called at
14080), its address items are CIDRs or names only Mihomo knows; the lists of the settings
have destination ports only (`PortList`, 13746-13755); a device route is for an address.
A state file with other ports gets no configuration at all, because the generator
normalises again and returns the error (5435). `Covers` walks the intervals in the order
of `Sorted`, which places each after those that start before it.

Run `routing`: a rule list of each form the editor has (hosts, services, addresses,
sources, ports, networks, exclude mode, old-style kinds, disabled rules), seven
settings, four presets, four starts (a dead server, an installed base, another active
profile), two servers, two addresses, three ports, two requests and one failing
activation. `TraceNeverGuesses` quantifies over every question and, for each, every
connection the question covers, with any content of the sets only Mihomo knows.

## 12. Module Firewall

| state | code |
|---|---|
| `settings` | `split_routing` in the state: enabled, `redirect_port`, is `policy_mark` known, `tproxy_available` |
| `fw` | `FirewallManager` |
| `kernel` | the `HINCYRAY` chain of the nat table, the jump to it, the port of the UDP rules |
| `hook`, `ready` | the parameters in the ndm hook script, `/tmp/hincyray_ready` |
| `job`, `program` | what the daemon does under `inner`; the commands each of the three writers (daemon, watchdog, ndm) has still to run |
| `tx`, `wd`, `ndm` | an activation that holds `apply`, the watchdog's tick with its copies, a rebuild whose hook has not run |
| `spoilt`, `leftover` | read by properties only |

`RunCommand` executes one iptables command of one writer, or fails it: errors are
dropped (3334-3644), so the writer goes on. `Probe` is steps 1-3 of
`FirewallManager::start`, `FinishJob` its end. `FirewallStart`, `FirewallStop`,
`Activate`/`Configure`/`Acknowledge`, `Rollback`/`Unwind`, `SaveSettings`, `Undo`,
`Boot`, `Shutdown` are those who begin such a job; `Wake`, `WatchdogStart`, `SeeTproxy`,
`Repair` (which looks for the rules without the lock, in the middle of a job or not),
`RepairDirectly`, `Sleep` are phase 2; `Reload`, `NdmHook`, `Crash` the environment.

Abstractions. There is one policy and one mark, which is known or not; the bypass
rules are one rule; the jump stands for the DNS rules too; delete-and-add is one
command; the mangle table, whose list of commands is the nat table's again, is one
command. Script and marker are taken to be written. The persistence of mark and
TPROXY support is immediate (`Activation` has the delay). A script run by the watchdog
ends with the daemon. Phase 2 is taken with the core running.

Run `firewall`: two ports, a router with TPROXY that a probe may miss, two events of
any kind (a request, an activation, a failing command, a reload by ndm, a crash).
Two events bring, for example, a reload and a stop, so that the hook, the unlocked
repair and the daemon's commands interleave. `RouterFollowsFirewall` excuses a table
only from the moment two writers disturbed each other in it, or a command failed, or
a repair used other settings, until the table is built anew; it excuses the hook only
after a start over leftovers. Fairness: the threads go on, and ndm runs the hooks it
has to run. It says nothing about the environment's reloads.

## 13. Runs and proofs

| run | what it checks |
|---|---|
| `activation` | `TypeOK`, `ActivatedCoreMatches`, `AnswerHolds`, `RolledBackToBefore`, `PolicyChangeIsAllOrNothing`, `CoreComesBack`, `DirtyIsSaved` |
| `geobase` | `TypeOK`, `ArtifactsExist`, `AppliedSnapshotTrue`, `AnalysisEnds` |
| `proxyhealth` | `TypeOK`, `ActiveIsServed`, `SelectorMovesOnEvidence`, `FailoverReplacesTheFailed`, `HealthyIsServed` |
| `bench` | `BenchTypeOK`, `SearchTellsTheTruth`, `CandidatesAccounted`, `UnknownServersExplored` |
| `profiles` | `TypeOK`, `CoreFollowsState`, `PinnedServersPresent`, `ResultsKeepTheirLinks`, `ImplementsStore` |
| `deep_bench` | `TypeOK`, `CancelReachesRun`, `OncePerDay`, `HistorySurvives`, `ActiveClears` |
| `traffic_log` | `CursorIsExact`, `DrainedAreDecided` |
| `pool` | `CarriesOnlyVerified`, `WorkingMemberFound` |
| `routing` | `SettledPolicyRuns`, `TraceNeverGuesses`, `ConflictsAreReal`, `PolicyStaysBuildable` |
| `firewall` | `RouterFollowsFirewall`, `RulesComeBack` |
| `deep_bench_join`, `pool_sticky` | violated, section 14 |

The bounds are those of the sections above. All counters named `Max...` bound what the
environment does (requests, faults, events); queues, limits and thresholds with a
value of the code are scaled down only where said. For every property
`PROJECT.json` names a changed definition (a mutant: a guard dropped, a
comparison off by one, a missing reset) under which TLC finds it violated.

Deadlock is checked except in `profiles`, `deep_bench`, `pool`, `routing` and
`firewall`, whose models stop when the bounded environment has nothing left to do.

### ActivationProofs

For every set of policies, either answer to `StoreSelected`, any TPROXY support and
any bounds (`ConstantsAssumption`):

* `TypeCorrect`: `Spec => []TypeOK`, by `NextTyped`, one step per action.
* `ActivationPreservesFailClosed`, `AnswersHold`, `RollbackIsExact`: the three
  invariants of the run `activation`. None is inductive alone: that a running core
  has the file and the selector at the end of an activation depends on nobody
  having started a core behind one that captured it stopped, and on a core under
  reload running the file (`LoadingCoreMatches`); an answer stays true because every
  operation that moves core, file or selector outside an activation either stops
  the core, reports itself, or sets `intruded` or `doubted`. Their conjunction is
  `CoreInv`, preserved by `CoreInvNext` through the lemmas `CoreInvFrame`,
  `CoreInvStopped`, `CoreInvIntruded`, `CoreInvBegun`, `CoreInvRolledBack` and
  `CoreInvActivated`, one for each way a step can touch the core.
* `PolicyChangesAreAtomic`: the action property `PolicyChangeIsAllOrNothing`, from
  the invariant `PolicyInForce` (the captured policy is still in memory while a
  settings change runs) with `PolicyNext` and `PolicyChangeStep`.

`IInv` in `Activation` is the conjunction the proofs use.

### PolicyProofs

The policy, the log that automatic learning reads to change it, and the benchmark
runtime: the three parts that work through lists, by positions. Each computes with
selected or joined sequences, and the lemmas before the first theorem say by position
what these hold (`RankOrder`, `NthFound`, `KeptElements`, `JoinedSequence`). An induction
over a list is done by `Counting`, which follows from the least number outside a set
and needs no operator as a parameter.

For any rules, settings, presets, devices, servers, requests and faults
(`RoutesAssumption`, `RoutingPolicyAssumption`):

* `SettledPolicy`: `SettledPolicyRuns`. What is saved may differ from what the core runs
  while a change is activated and while one waits; `PolicyInv` says that the core then
  runs the policy to which a failing activation goes back (`Undoes`, `Runs`), and that a
  generated configuration is still that of the state, although profiles were deleted
  since (`ConfigOf`).
* `BuildablePolicy`: `PolicyStaysBuildable`. Resets, presets, safe mode, deleted device
  routes and learned exceptions are saved without a check of their targets; they add no
  fixed server (`FixedOf`, `FewerServers`).
* `TraceIsTrue`: `TraceNeverGuesses`, from `PolicyInv` and the inductive `DataFormed`
  (`PolicyFormed`: every handler saves rules, settings and device routes of the form
  above, and so is what a failing change goes back to). `VerdictTrue` compares the
  verdict of the trace on one rule with the entry the generator makes of it, for every
  connection the question covers: "matches" is true of all of them, "misses" of none.
  The trace stops at the first rule that does not miss, and answers if it surely
  matches; Mihomo takes the first entry that matches. `KeptBefore` and `NthFound` say
  that the generator keeps the order of the rules it keeps, so the first of one list is
  the first of the other (`FirstDecides`, `RulesDecide`, `DevicesDecide`).
  `ConfigDecides` goes through the parts of the configuration in order (`FirstOfJoined`,
  `NoneOfJoined`, `NoSystemRules`),
  `TraceAnswers` through the cases of the trace, and `TraceIsConfig` matches them.
* `ConflictsAreTrue`: `ConflictsAreReal`, both ways: a warning is given exactly when a
  port of an enabled rule is kept from Mihomo. `SortedLists` shows that the placing of
  the intervals is a sequence in the order of their starts, `SweepFinds` that the pass
  then stops at the first port none covers (before `next` all is covered, `next` itself
  is not), hence `CoversIs` and `OverlapIs`.

For any number of lines, domains and requests and any limits (`TrafficLogAssumption`):

* `CursorExact`: `CursorIsExact`. The inductive `CursorInv` says that the log is a tail
  of what was written (`LogIsTail`) and, while no writer has outrun the cursor
  (`outrun`), where the cursor is (`Aligned`): a log of a generation it does not know,
  or shorter than its offset, holds nothing it has handled; otherwise the offset
  divides the handled lines from the new. `KnownGeneration` is the generation it belongs to in
  the middle of a skip. `Part` and `NewLinesAre` say what a read delivers.
* `DomainsAreDecided`: `DrainedAreDecided`, from `QueueInv`: the queue still begins with
  the batch a learning cycle is probing, and every domain of the batch is left out or a
  candidate. That reading keeps the queue a sequence of domains is an induction over
  the lines read (`QueuedAllType`).

For any profiles and servers, required services, requests, numbers of workers, stops and
memory alarms (`BenchAssumption`: the list has each profile once, a request is one
`validate` accepts), `BenchInvariant` proves `BenchInv`, and from it follow

* `BenchTypes`: `BenchTypeOK`;
* `SearchIsTrue`: `SearchTellsTheTruth`. A search never finds more than its target
  although several workers probe at once, because a profile that is being probed has its
  place reserved (`SearchCounts`: found and active together are at most the target). That
  "exhausted" means no capable server was missed needs the whole life of a candidate:
  while a search runs and is not cancelled, a capable server waits in the queue, is in a
  worker's hands or was found good (`Covered`); what a worker holds after its probe is
  good if the server is capable (`WorkerHolds`); and a worker leaves only when the target
  is reached or the queue is empty (`Leaves`).
* `CandidatesStay`: `CandidatesAccounted`. Every profile of a running job is in one place,
  the queue, one worker or one result (`InOnePlace`), they add up to the job's total
  (`Counted`), and no two of them are of one server in a search (`OneEach`). At the start
  this is a fact about the order of the candidates: `MergedLists` shows that filling slot
  after slot from two lanes, one of them rotated, lists every candidate once.

### GeoBaseProofs

For any number of bases, artifacts, clients, requests and faults:

* `GeoBaseTypeCorrect`: `TypeOK`, which has that at most one analysis runs. That is not
  inductive: `OneJob` says how the running record, the cancellations and the job
  threads belong together.
* `NoDanglingArtifact`, `AppliedSnapshotIsTrue`: `ArtifactsExist`,
  `AppliedSnapshotTrue`, from `GeoInv`: records and applied records name published
  artifacts, equal generations are equal bases (`StoreSound`); nobody mutates the store
  between an activation's plan and its commit (`PlanCurrent`); a file that is served or
  that a rollback may put back is complete (`ServedKnown`); who was not intruded upon
  runs what he planned (`OwnFile`). The first attempt failed for a good reason: an
  earlier model cleared `intruded` as soon as a configuration was loaded, and a rollback
  could then restore an intruder's file, in a history of more requests than the run has.

### ProxyHealthProofs

For any finite set of profiles, any subscription, any requests and faults:

* `ProxyHealthTypeCorrect`, `ActiveProfileIsServed`: `TypeOK`, `ActiveIsServed`.
* `SelectorNeedsEvidence`, `FailoverHitsTheFailed`: the action properties
  `SelectorMovesOnEvidence` and `FailoverReplacesTheFailed`.

All follow from `ProxyHealthInvariant`, that `ProxyInv` holds: lists have distinct links
and every field its range (`Typed`), and of a running core (`Running`) that it serves
the active link, that the daemon's two counters are covered by samples this core has
taken of this link, counting those read and not yet decided and those not yet read
(`Counted`, `Overtaken`), that a decision is for the identity it was read from
(`Watched`), and that a rejection or recovery under way has its three or two samples
(`Justified`). Lemmas on lists (`RemoveAtProperties`, `EditDistinct`, `ConcatDistinct`,
`ListArranges`) carry the re-indexing of positional ids.

### DeepBenchProofs

For any servers, runs, events and any set of hours since 1970:

* `DateOfMonotone`: later hours have later or equal dates, over every leap year, and
  `DateOfIsDate`: they have a day of a month. The algorithm works in eras of 400 years
  of years that begin in March; the lemmas order eras, years, months and days apart
  and join them.
* `DeepBenchTypeCorrect`, `CancellationReachesTheRun`, `OneRunADay`, `HistoryIsKept`:
  `TypeOK`, `CancelReachesRun`, `OncePerDay`, `HistorySurvives`, from
  `DeepBenchInvariant`, that `DeepInv` holds: the stages of a start (`Stages`), at most
  one run whose flag and handle are those kept, unless a start raced with a tick
  (`RunInv`), no date of the future and completed runs in order (`DateInv`), and what
  the file has of this month is in memory (`MemoryHasDisk`).

### PoolProofs

For any servers, lists, thresholds, requests and faults:

* `OnlyVerifiedCarries`: `CarriesOnlyVerified`. `PoolInv` adds to the types that an
  update and a settings request exclude each other (`OneHolder`), that a group which
  carries is on the selected member (`Selected`), that the failures a member has had
  are counted (`CountedProbes`), and that what an update saw before its unlocked calls
  still holds when it acts on it, by the core's generation (`SeenHolds`).

### FirewallProofs

For any ports, any number of events and every interleaving of the three writers:

* `RulesFollowFirewall`: `RouterFollowsFirewall`. A writer's program is a sequence of
  commands, and no proof looks into it beyond its first command: `Legal` says that each
  command may follow the one before, with one lemma for every program the code
  builds. What a table holds is then a function of the next command of the writer that
  renews it (`NatAt`, `MangleAt`). `IInv` (`Shapes`, `PortsKnown`, `JobInv`, `Programs`,
  `NatInv`, `MangleInv`, `FilesInv`) says that of every table nobody has disturbed, and
  of a disturbed one from the first command on of an undisturbed job that builds it
  anew. There is one lemma for each kind of step; `Frame` covers all that touch neither
  rules nor programs.

### ProfilesProofs

For any finite set of links, any servers, subscriptions and answers, any number of
threads, requests and faults:

* `TypeCorrect`: `TypeOK`. Every link is in the list once.
* `CoreFollows`: `CoreFollowsState`. It is not inductive: between the two steps of a
  membership change memory is ahead of the core. `CoreRuns` says that the core then
  routes by the membership before the change, which the thread has kept, and
  `OneActivates` that one thread at a time is between them.
* `PinnedPresent`: `PinnedServersPresent`, from `MachineTyped`, which asks it also of
  `state.json` and of every snapshot an undo could bring back.
* `ResultsKept`: `ResultsKeepTheirLinks`, an action property of the step that answers.
  `ResultsInv` says that no measured link is without its kept result, and that the copy a
  status answer has taken has every link of `due` at the place it had and no second result
  of it. What a renumbering does to the kept results
  (`RemappedLinks`), and that removals, promotions and edits between the two sections
  leave the copy alone (`ResultsStep`), are lemmas of their own.
* `ListImplementsStore`: `ImplementsStore`, the refinement, step by step.

All rest on `ProfilesInvariant`: `ProfilesInv` is inductive. The module begins with
lemmas on lists by positions: what `Kept` holds and in which order, that it leaves a link
once, that positions of a set are counted off by `Nth`, that `Promoted` is a permutation
within groups. Then come lemmas on states (`Follows`: the active link stays or leaves
with its profile) and on kinds of step: `ChangeStep` and the lemmas after it show that a
step of that kind keeps the core with the list and is a step of `ProfileStore` or
stutters. Each action is then shown to be of one of the kinds.

### What is not proved

TLC has checked each inductive invariant above on the instance of its run
(`ProfilesInv` and `PolicyInv` also with two faults). Not proved and only model-checked:

* the liveness properties `CoreComesBack`, `DirtyIsSaved`, `AnalysisEnds`, `HealthyIsServed`,
  `UnknownServersExplored`, `ActiveClears`, `WorkingMemberFound` and `RulesComeBack`:
  fairness and ENABLED are outside the prover's reach;
* the two counterexamples, which are behaviours.

## 14. Where the code and its texts disagree, and what else the models show

Two runs end in a violation, and `findings` in `PROJECT.json` quotes the text:

| run | the code |
|---|---|
| `deep_bench_join` | the watchdog can join, under `inner`, a deep-benchmark thread that waits for `inner` (25113); the comment at 25439 says it never blocks |
| `pool_sticky` | after a load of the configuration a selected member that no longer works is probed for ever (5231, 5331-5353); `docs/stabilization.md:15` promises a cooldown after two failures |

The models contain the following behaviours as well; the properties exempt them
(by `intruded`, `doubted`, `raced`, `spoilt` and the like) or are stated so that they
are allowed.

Activation, GeoBase, health
* A rollback whose validation query fails leaves the restored core on the selection
  it started with while the daemon holds it rejected (8323).
* Undo takes no apply lock: it can replace the state under an activation, which then
  answers "applied" (12807).
* A regeneration without the apply lock makes an activation commit a GeoBase
  snapshot the core has not loaded. A base switched off while its analysis starts is
  switched on again by the result (20693).
* Maintenance regenerates the file and restarts the core without the apply lock, and
  may do so with a policy that is being rolled back (25824).
* The wait between restarts of the core (24235) is 20 s after every failure; the
  comment at 24106 calls it exponential.
* A user who selects the failed profile again while candidates are probed is switched
  away all the same: only the link is compared (23480). A failover is tried once,
  when the selector closes (24463).
* `docs/adaptive-discovery.md:79` says that an invalid controller answer resets the
  failure streak; the code leaves it (24524).
* Automatic selection keeps an index over an unlocked interval (24609).

Profiles
* A refresh that races with the deletion of its subscription brings its profiles
  back; one that delivers only links known elsewhere empties its group (12146,
  12175); one that removes the active profile leaves the core running although the
  comment at 12197 leaves that to the caller.
* Editing its link can make the active profile a dead server. Deleting the active
  profile during an activation leaves the core running it.
* An add or a group delete whose save fails keeps the change in memory without
  marking it dirty. The undo stack is lost at a restart, and the ids of its entries
  (`undo-<seconds>-<length>`) can repeat once the stack is full.
* Deleting a subscription stops the core even when no profile is active.

Deep benchmark, log, learning, pool
* The cap of the history (25759, "30 days") subtracts 30 from a number `yyyymmdd`,
  which keeps the calendar month.
* The comment at 612-618 says that the thread resets `deep_bench_active`; the watchdog
  does. A start that overlaps a tick which does not know of it can leave a run nobody
  can cancel (`raced`).
* Lines appended between the last read and a rotation are lost, and a generation that
  could not be written may hide lines; the comment at 24968 says "every completed
  line".
* A learning cycle can store again a domain the user removed meanwhile.
* Maintenance looks only at `bench_running`, and a quick benchmark does not look for a
  deep one.
* Two profiles of one server in one pool: the configuration names the outbound of the
  active one `proxy-active`, the update compares profile ids (5173, 5283) and asks
  for an outbound that is not in the group. (`Pool` has one profile per server.)
* A stop of the core after a failing request for REJECT may fail too, unseen.

Routing
* The undo of a failed policy change can bring back a fixed route to a server deleted
  during the activation, after which no configuration can be generated
  (14226, 10318, 10355): the exception in `PolicyStaysBuildable`.
* The preset "Only Web VPN" (1688) says "everything else direct" but leaves
  `match_target` alone, so that everything else goes to MATCH, by default the proxy.
  The preset "Ad Block" can never be applied: its list is refused as unsafe (the test at
  35522 has it so).
* In safe mode the trace leaves out system rules (15700, 15737) that safe mode does not
  suppress (19471). `TraceNeverGuesses` is asked outside safe mode.
* A rule with a `kind`, addresses of its own and a leftover `pattern`: the trace
  matches the pattern, the generator ignores it, and the other way round for hosts. A
  pattern that cannot be normalised widens a port rule to all traffic. `Unambiguous`
  excludes such rules.
* The guard against MATCH direct without rules (13786) can be bypassed by deleting the
  rules afterwards or by a preset that clears them.
* A route for one resource changes the target of the whole first rule that names the
  resource, and an earlier, broader rule still wins.
* In an allow list, source-port items are always warned of.
* The preview compares only the applied file; after a regeneration that nobody loaded
  it can say that nothing waits to be applied.

Firewall
* The hook, the direct repair and the daemon interleave command by command: an
  overlap can leave the REDIRECT in the chain before the bypass rules, or twice, and
  the watchdog looks only for the jumps, so it stays until the chain is built anew.
  The comment at 3761-3763 says "atomically".
* A repair that began before a stop adds the rules again after it; the hook is a no-op
  by then (3131), the direct installation is not (24282). It installs the port and the
  mark saved at the start of its tick, applied or not.
* A daemon killed between saving "disabled" and the stop, or started with split
  routing off, leaves rules, hook and marker of its last life, which ndm goes on
  installing (`leftover`). A start that finds no TPROXY any more leaves the UDP rules of
  an earlier life.
* On the first start "Run it immediately to apply rules now" (3860) does nothing: the
  marker is written only afterwards.
* A stop by request with split routing on is undone by the next tick. A changed policy
  name has no effect while the mark of the old one is cached.
* Startup does not store `tproxy_available`.

## 15. Not modelled

Restore of a backup (21950-22023): state and configuration are replaced under the apply
lock, and a failed activation is undone by a three-way merge in which arrays somebody
changed meanwhile stay as they are (`hincyray_state_transaction.rs` 27-29). A profile
added in between, which takes no apply lock, then keeps the backup's list while the
active id and the rules go back; `PROJECT.json` lists it as the one hazard without a
property.

Sessions and the login limiter (access control to the web interface); writing and listing backups, the daemon's own update and
the memory guard as sequences of file and process operations of one thread; the health
check over SOCKS without a controller (24526-24588); revalidation of ungrouped profiles
(11052); the permit counters (183-256), whose guards return on drop; the layout of YAML,
iptables commands and HTTP messages; the parsing of links, lists and subscriptions;
migration of old state files; probes of Telegram and YouTube; the desktop application,
the web interface, scripts and packaging. They are I/O, pure conversions or
presentation; a third of `hincyray.rs`, from 26012 on, is tests.

## Running

    tlc -config Activation.cfg Activation.tla
    tlc -config GeoBase.cfg GeoBase.tla
    tlc -config ProxyHealth.cfg MCProxyHealth.tla
    tlc -config Bench.cfg MCBench.tla
    tlc -config Profiles.cfg MCProfiles.tla
    tlc -config DeepBench.cfg MCDeepBench.tla
    tlc -config DeepBenchJoin.cfg MCDeepBench.tla
    tlc -config TrafficLog.cfg MCTrafficLog.tla
    tlc -config Pool.cfg MCPool.tla
    tlc -config PoolSticky.cfg MCPool.tla
    tlc -config Routing.cfg MCRouting.tla
    tlc -config Firewall.cfg Firewall.tla
    tlapm ActivationProofs.tla
    tlapm GeoBaseProofs.tla
    tlapm ProxyHealthProofs.tla
    tlapm DeepBenchProofs.tla
    tlapm PolicyProofs.tla
    tlapm PoolProofs.tla
    tlapm FirewallProofs.tla
    tlapm ProfilesProofs.tla

# A TLA+ model of local-engine-router

local-engine-router is an HTTP proxy in front of several LLM engines (a systemd unit,
processes it launches, services with an HTTP API) that share one GPU memory. It lets one
engine at a time hold that memory, swaps engines when a request needs another model, and
keeps clients alive while a swap of minutes goes on. This directory models in TLA+ its swap state
machine, its engines and its request handlers, and what decides where a request goes:
catalog, picker, caches and the records they rest on. TLC checks the models; TLAPS proves
their main properties for any number of requests, engines, models and processes.

Line numbers refer to `router/*.py` of the repository.

## 1. The system

| Part | State | Operations | Interacts with |
|---|---|---|---|
| **EngineManager** (`engines.py:1201-1790`) | `active_engine` (the marker), `_swap_lock`, `_inflight` counters and their condition, `_last_swap`, `_seen_models` | `acquire`, `release`, `force_swap`, `_swap_to`, `_drain`, `_ensure_model_loaded`, `_await_memory_settle`, `startup`, `aclose`, `engine_for`, `_persist` | called by every handler; calls the engines, the catalog and the picker |
| **Engines** (`engines.py:292-1157`) | a `Popen` handle or a systemd unit, pids and a port; or models loaded in a service; caches of model lists | `is_ready`, `ensure_started`, `free_vram`, `load_model`, `available_models` | OS processes and HTTP services, which also change by themselves |
| **Request handlers** (`app.py:725-1359`) | per request: attempt, acquire task, bound engine, `streamed` | `_handle_v1_post`, `_handle_api_post_with_model`, streaming and not | the manager, the upstream engine, the client, the picker's health records |
| Other endpoints (`app.py`) | none of their own | status, model lists, admin, `/api/*` pass-through | manager, catalog, picker |
| Proxy helpers (`proxy.py`) | none | `forward`, header filters | handlers |
| **Smart picker** (`smart.py`) | mode, health and cooldown per model, swap-cost estimates, calibration | `maybe_pick`, `record_success`, `record_failure`, `note_swap`, `run_calibration` | catalog, benchmarks, manager |
| **Catalog** (`catalog.py`) | current entries, remembered entries | `rebuild`, `refresh`, `set_seen_models`, `resolve` | engines' model lists, the state file |
| Benchmark store, model identity (`benchmarks.py`, `model_identity.py`) | a cache of scores | `records_for`, `refresh`, `clear`; `identify` | picker, the state file |
| Metrics (`metrics.py`) | counters, histograms, a gauge | `record_swap`, `set_active`, `render_prometheus` | written by the manager, read over HTTP |
| Config, sysmem, CLI, wizard, presets, deployment | configuration; counters | parsing, formatting, installation | everything, at startup or from outside |

**What is hard.** The program is one asyncio event loop: nothing is preempted, but every
`await` lets every other task run, and a task can be cancelled wherever it is suspended.
The difficult parts are

- several requests that want different engines, at any point of a swap, while earlier
  requests are still streaming;
- a swap of several steps (drain, stop, settle, start, load) of which any may fail, time out,
  or be cancelled because the client that caused it has gone;
- a drain timeout that stops an engine over requests that are still in flight;
- the release of an in-flight count on every way out of a handler, cancellation included;
- a marker (`active_engine`) that stands for the state of engines which crash, restart and
  load models by themselves, and which outlive a restart of the router;
- retries that must not splice two answers, and clients that vanish in silence;
- signals, `systemctl` and unload requests whose effect is not known, and listings that read
  as empty when they fail;
- several sources that name the owner of a model (configuration, live lists, start commands,
  what is remembered), refreshed at different moments and read back after a restart.

**What makes each part correct.** Manager: an engine is stopped only when the requests on it
have ended or were given up, no engine enters memory beside another, the counters are exact,
every caller is answered. Engines: `free_vram` returns only when the memory is free,
`ensure_started` only when the engine serves. Handlers: a count per attempt and none left
over, relaying only to the engine that is held, no retry after bytes, an end to every
response. Picker: a model that keeps failing is skipped for its cooldown and comes back.
Catalog: one owner per model, static before live before remembered, whatever the order of
probes, the same for every place that looks it up. What is recorded (strikes, calibrations,
benchmarks, swap times) is whole, current, and survives a restart.

## 2. Modules

| Module | Models |
|---|---|
| `GpuLease` | What the manager promises to the HTTP layer: a holder, the users of each engine, eviction by a drain timeout, and the rule that the GPU passes on only when the other engines have no user left. |
| `EngineManager` | The swap state machine, with the engines as `free_vram`, `ensure_started` and `load_model` promise them, crashing and coming up by themselves. |
| `ProxiedRequests` | The request handlers over `GpuLease`. |
| `Calibration` | `run_calibration`, another user of `GpuLease`. |
| `Processes` | The processes of one engine as the operating system keeps them: groups, forks, signals, a port. |
| `EngineCalls` | A call of the manager into an engine: where it stands, its deadline, how it ended. |
| `ProcessEngine`, `Ds4Engine` | `ensure_started` and `free_vram` of an engine the router launches, and of ds4 (under systemd or launched), over `Processes` and `EngineCalls`. |
| `ApiSwapEngine` | The same calls and `load_model` of a service with an HTTP API, Ollama included. |
| `ListCaches`, `LoadedLists` | The caches of model lists; how a list, or a readiness answer, is read. |
| `MemorySettle` | The wait for freed memory to settle. |
| `Catalog`, `StartCommand` | Who owns a model, and every place that asks; the ids a start command names. |
| `SmartDecision`, `SmartHealth` | What the picker picks and in which order it is tried; failures, cooldowns, restarts. |
| `RequestBodies` | What each attempt of a request sends: the model and the thinking policy. |
| `BenchmarkStore`, `SwapRecords` | The cache of benchmark records; metrics and duration estimates of swaps. |
| `MCSwaps`, `MCLoads`, `MCRequests`, `MCEngines`, `MCCatalog`, `MCRouting` | Instances for TLC. |
| `GpuLeaseProofs`, `EngineManagerProofs`, `ProxiedRequestsProofs`, `ProcessEngineProofs`, `Ds4EngineProofs`, `ApiSwapEngineProofs`, `CatalogProofs`, `RoutingProofs` | Theorems and proofs. |

`EngineManager` implements `GpuLease` (theorem `ImplementsLease`, run `loads`), and
`ProxiedRequests` and `Calibration` use `GpuLease` in its place, with attempts, or
calibration runs and other requests, as the users. The composition is thus by contract:
handlers are checked against everything any implementation of the lease may do.
`ProcessEngine`, `Ds4Engine` and `ApiSwapEngine` look into one engine each, below what
`EngineManager` assumes of it. `SmartHealth` takes its plans from `SmartDecision`
(`MCRouting!PlansGiven`).

### EngineManager

An action is what a task runs between two suspensions. `pc[t]` is where task `t` stands:

| `pc` | Code |
|---|---|
| `lock` | `async with self._swap_lock` (1540, 1720) |
| `drain`, `drainWait` | `_drain` of the next engine to free: the test of the counter, the bounded wait (1681-1697) |
| `free` | `free_vram()` of that engine (1603), the marker already cleared (1601) |
| `settle` | `_await_memory_settle` (1606) |
| `start`, `waitReady` | `ensure_started()`: launch, poll (1608) |
| `probe`, `loadDrain`, `loadDrainWait`, `load` | `_ensure_model_loaded` (1552-1571) |
| `finish` | the increment under the condition (1548) |
| `serving` | `acquire` has returned and `release` has not run |

`active`, `inflight`, `lock` are the attributes of the same names; `prev` and `todo` are
`_swap_to`'s locals. `resident`, `ready`, `loaded`, `exited` are the world: which engines
hold memory, answer their probe, hold which model, went down by themselves. `late` are the
loads that the router gave up (a timeout, a cancellation, a failed transport, a just-in-time
request whose client left, a restart) and that the service knows nothing of: `LateLoad` may end
one at any later moment, whoever has the GPU by then (1022-1032). No drain can wait for them.
`settleDue`, `severed`, `stray`, `orphans` and the field `overtaken` of a job are history: they
are never read by a guard that stands for code. (`severed`: the requests of a drain that timed
out are no longer waited for, which is what the properties must not promise to them. `stray`:
engines the router tolerates beside another, because it found them at startup, a severed
request reloaded them, or a load given up brought them back. `overtaken`: requests whose model a
late load has replaced.)

Three kinds of engines are told apart because the code treats them differently: `Process`
(launched, stopped), `Loaders` (API engines with a `load_path`), `Jit` (API engines that load
on the first request). A cancellation can strike at every label except the two the code
reaches without an await; `WaitForLosesCancel` adds what `asyncio.wait_for` of Python 3.10
and 3.11 does when it is cancelled after its inner wait has finished (`pyproject.toml`
admits both). `Restart` ends every task, keeps the engines as they are and detects the active
one again.

What the module takes on trust: `free_vram()` that returns has freed the engine (`Freed`; what
a load given up does afterwards is `LateLoad`), `ensure_started()` that returns has seen it
ready. `FreedIsFree`, `FreedStaysFree` and `FreedStaysEmpty` say when the first holds of each kind
of engine, and what it depends on.

### ProxiedRequests

Each request has a plan (`_attempt_plan`), of one model unless the picker chose it. `at[r]`
is where its handler stands: `waiting` for the acquire task, `polling` the client after a
keep-alive interval, `connect`, `relay` (streams) or `forward` (not streamed), `finally`,
`releasing`. `acq[r]` is the acquire task, which goes on by itself while the handler waits:
the step at which it completes and the step at which the handler notices (`Bind`) are apart,
and the cancellation of the handler may fall between them, which is what the `finally` clause
is about. `Cancel` is the server's cancellation or the closing of the generator, possible in
streams wherever they are suspended, once the client has gone; `owed` is the shielded release
that outlives a handler cancelled while it awaits it. `acq.cancel()` in the `finally` clause
(`CancelAcquire`, 948) ends the acquire with nothing counted or, where `WaitForLosesCancel`
holds, is dropped: the attempt is then in `lost`, its handler goes away, and the acquire may
still count it at any later grant (`LostAcquired`), as `EngineManager!CancelLost` does. `frames`
is what the client was sent, repeated keep-alives and bytes merged, and `whole` (history) the
requests an upstream has answered to the end. The response of a request that is not streamed is
decided where the code builds it and is noted there.

### ProcessEngine

One call at a time (the manager holds its lock), cut at its awaits:

| `pc` | Code |
|---|---|
| `ready?`, `waiting` | `ensure_started`: `is_ready()` (638), `wait_ready()` (644) |
| `port?` | `free_vram`: the port, no pid having been found (694) |
| `stopping`, `stopping-port` | an iteration of the first `_wait_stopped` (708): the pids, then the port |
| `killing`, `killing-port` | the same after SIGKILL (772) |
| `verifying` | the last question to the port (712) |

`handle` is `_proc`. `EngineCalls` has what the three kinds of engines share: `late` is a deadline
that has passed, `outcome` how the last call ended. The
pids found are read at one step and the port answers at a later one, so that what is done after
the answer rests on pids that may be out of date. `pattern` is chosen at the start and never
changes: `process_pattern` may match the launched commands (`leaders`), what they fork
(`workers`), both, or, when it is not configured, nothing. A cancelled call leaves everything
as it is; a restart forgets the handle while the processes live on. `Processes` is the
environment: a process asked to stop may ignore it for ever, keeps or loses the port
meanwhile, and goes for certain only after SIGKILL. Left out: the signalling of process trees
on Windows, a pid that may not be signalled, and the reuse of a pid while the router refers to
it.

### Ds4Engine

The places are those of `ProcessEngine`. What differs: the processes are only ever looked for
with `pgrep`, and one that fails reads as none (`Pgrep`, 408); `systemctl` is asked and its
return code not looked at, so that a start or stop may not reach systemd (`FreeUnit` sets
`heard` when it does, 482); the unit has `Restart=always`, and systemd (`UnitSpawns`,
`UnitEmpty`, `StartJob`, `StopJob`, `UnitKills`) brings it back unless it was stopped. `queued`
is a start job behind a stop: a start that was given up may still take effect. `blind` and
`heard` are history. Its names begin with `Ds4`, and those of `ApiSwapEngine` with `Api`, because
`MCEngines` extends the three kinds together.

### ApiSwapEngine

`todo` is the list `free_vram` unloads one by one, `asked` the model `load_model` waits for;
`misled` is history (what the last call was told was
not so, or the service was still loading when it returned).
The service keeps `loaded`, what it is still loading (`pending`) and unloading (`leaving`), crashes,
recovers, and does later what a caller gave up on (1029). A listing is what is loaded or, when
it fails, nothing (918). Without a `loaded_path` nothing is seen, without an `unload_path`
nothing is told. `ListCaches` is the cache in front of the model list of either kind: three
styles, because Ollama keeps its old list when it does not answer (`OllamaFails`) while the
other engines keep the empty one. `LoadedLists` reads the four shapes of answer the presets
are written for (a list of names, of objects under a key, of all models with a state, one
object), and the `ready_check`.

### MemorySettle

`Sample` is an iteration of the loop (1664); `Unreadable` and `Timeout` are its other two exits.
A fall of memory counts as a plateau, as in the code.

### Catalog

`Refresh` is `refresh_catalog` from its last answer on, `Snapshot` is `_snapshot_seen_models`
(1341), both without an await. `persisted`, `entries` and `seen` are the attributes
`_persisted`, `entries` and the manager's `_seen_models`; `disk` is the state file, `old` and
`disk.expired` the ids beyond `state_ttl_s`. Every change ends in `WriteOut`, `_persist`: the file
is replaced or, when an `OSError` is swallowed (1789), stays as it was; `CatalogSaved` is a
write for another reason. `written` (history) are the entries of the last write that
succeeded. `EngineFor`, `Explain`, `Enumerate` and `ModelList`
are the four lookups (requests, `/admin/resolve`, the picker, `/v1/models`), each translated
by itself from its own code, so that `RoutesAgree` compares what is written four times.
Discovery is enabled; without it the catalog has static entries only.

`StartCommand` is the scan of a start command, in two loops over one index, against a
definition without a loop.

### SmartDecision and SmartHealth

`SmartDecision` is `_decide` from the scores on (`smart.py:878`) and `_attempt_plan`, for every view
of a set given as a constant: cooldown, residence, margin, confidence, fallbacks (of the engines the
router still has, `managed`), retry policy. A score is an arbitrary number: the formula is
arithmetic on tuning constants about which the code makes no promise.

`SmartHealth` is the picker at work. `failures` and `cooling` are `consecutive_failures` and
`cooldown_until` (as "ahead" or not), `saved` the two in the state file. Where a failure is
recorded decides whether it is written: `Refused` (a failed acquire or connection, then
persisted), `Broken` (an error status or a cut answer, recorded in memory only). A success
resets in memory and is not written. A write may fail unnoticed (`WriteRecord`): a restart then
brings back the older record, and the history `noted` says what had happened by the time of it.

### RequestBodies, BenchmarkStore, SwapRecords, Calibration

`RequestBodies`: all attempts write into one dict; the first attempt's bytes are kept (`raw`).
`BenchmarkStore`: `shelf` is `_cache`, `filed` its section of the state file; `stamp` is what the
code can know of an age, `age` what it is. `SwapRecords`: a swap is cut where another task can
observe it, so that what is recorded at its start, at the change of the marker and at its end
can be compared in between; `learnt` and `safe` (history) are the swaps that the estimates, and
those in the state file, have been told of. `Calibration`: acquire, a battery of probes, release
in `finally`, and only then the scores are stored. That release is not shielded (`smart.py:1120`):
when it is cancelled (`ReleaseInterrupted`) the run is over and its count stays (`leaked`).

## 3. Properties

| Property | Says | Hazard |
|---|---|---|
| `InflightExact` | each counter is the number of requests it stands for | a count lost or left on a failure path |
| `ServedAlone` | a request in flight that was not given up has the GPU for its engine | interleaved swaps, failures, loads |
| `StartsAlone`, `TakesAlone` | an engine is started, and comes into memory, only when no other is there | half-done swaps |
| `ActiveWasReady` | the marker is never left on a process engine that the router has stopped | cancellation inside a swap |
| `ModelStable` | no load the router makes replaces the model under a request, and a load that failed serves nobody; the late end of a load given up is excepted | requests admitted while a load drains, loads that fail or are cancelled |
| `LeaseSpec` | the manager implements `GpuLease` | all of these as one contract |
| `CallsEnd` | who waits for the swap lock is answered | requests that never end, engines that never come up |
| `CountsAreHeld` | a count belongs to the attempt in progress or to a release on its way; only an acquire whose cancellation was lost leaves another | cancellation anywhere in a handler |
| `RelaysUnderLease` | a request is relayed to the engine it holds, which still has the GPU | the bound engine used after swaps |
| `NoRetryAfterBytes` | no other attempt once bytes were sent | fallback in mid-stream |
| `WellTerminated` | nothing follows the end of a response; a client still there gets an answer that came whole and no error with it or, on SSE and plain requests, an error and then the end, except when something other than an `EngineError` is raised | forgotten error paths, broken answers closed as if whole |
| `GoneLetsGo` | a stream whose client has gone lets go of the swap and, unless its cancellation is lost, of its count | clients that vanish in silence |
| `NeverTwice` | an engine is not launched beside a server of its own that its pattern covers | starts that time out or are cancelled, restarts |
| `FreedIsFree` | a `free_vram` that returns leaves nothing alive that the pattern covers | frozen, forked and forgotten processes; pids out of date |
| `FrozenIsKilled` | with a complete pattern, a stop that runs to its end is fatal even to a frozen server | SIGTERM ignored |
| `CallsReturn` | every call of the manager into an engine, of each kind, comes back | waits on processes and services that never end |
| `FreedStaysFree` | after a stop of ds4 that reached systemd, with pgreps that answered, nothing runs and nothing brings it back | systemd restarts, start jobs in the queue |
| `LingererIsKilled` | a ds4 process that ignores its stop goes in the end | the same |
| `FreedStaysEmpty` | after a `free_vram` of a service whose listings answered, no model is loaded, until the engine is used again | late loads, unloads that fail |
| `RoutesAgree` | the four lookups of an owner agree at every moment | sources refreshed at different times, aliases |
| `NeverForgets` | a model once known can still be routed; only a restart forgets one, when it has expired (`state_ttl_s`) or no write since has succeeded | snapshots and refreshes that overwrite |
| `OwnerSurvivesRestart` | a restart gives a reported model the owner it had at the last write that succeeded | catalog and seen models merged in another order |
| `NeverStarves` | while a model fits there is a plan, and it is bounded | every model in cooldown |
| `PlanAvoidsCooled` | a model in cooldown is not tried while another fits | rules that prefer the resident engine |
| `SwapsAreWorthIt` | a swap is picked only with confidence and by the margin | ties, cooldown of the resident |
| `StrikesHold` | a model that refused its number of requests in a row was put in cooldown; a restart takes off the refusals whose write failed and no others | concurrent ends, restarts and failing writes between them |
| `ServedTagsAge` | what a cache of tags serves is younger than its time to live, counted from the question (not when Ollama is silent; the catalog may remember a model for longer) | slow and overlapping answers |
| `SettleExact` | the settle wait ends at the first plateau and at nothing else | counts not reset |
| `ParserExact` | the scan of a start command finds the ids it names | off-by-one in nested loops |
| `ListingIsTruth` | what is read from a service is what is in its memory | shapes of answers |
| `BodiesAreClients` | each attempt sends the client's body for its own model | one dict for all attempts |
| `BenchmarksAreCurrent` | records are no older than allowed, over clears, refreshes, failing writes and restarts | ages read back from a file |
| `SwapsAddUp` | the series of `/metrics` agree with each other and with the swaps, at any moment, under every label (0 where there is none) | counts written at different places |
| `CostsMeasured` | an engine's cost lies between the swaps to it that succeeded, and is the configured one when there are none; a restart loses the swaps since the last write | failures folded in, estimates lost or mixed by a restart |
| `RunsHoldCounts` | a calibration holds a count exactly while it measures and until its release; only a release that is itself cancelled leaves one | cancellation at any probe |
| `RecordsAreWhole` | a stored calibration is a whole battery | interrupted and concurrent runs |

## 4. Runs

| Run | Instance | Shows |
|---|---|---|
| `swaps` | 3 tasks, two process engines and a just-in-time one; a model of the first and of the last | `InflightExact`, `ServedAlone`, `StartsAlone`, `ActiveWasReady`, `TakesAlone` |
| `loads` | 3 tasks, a process engine and a loader of two models | `TypeOK`, `ModelStable`, `LeaseSpec` |
| `calls_end` | 2 tasks, the engines of `loads`, a model of each, with fairness | `CallsEnd` |
| `requests` | an SSE stream with a plan of three attempts (a model twice, then another) and a plain request with two | `TypeOK`, `CountsAreHeld`, `RelaysUnderLease`, `WellTerminated`, `NoRetryAfterBytes` |
| `gone_clients` | an /api stream with three attempts, with fairness | `GoneLetsGo` |
| `stopping` | one engine of each kind: a process engine of 3 pids with every pattern, ds4 of 2 under either control, a service of 2 models; with fairness | `NeverTwice`, `FreedIsFree`, `FreedStaysFree`, `FreedStaysEmpty`, `FrozenIsKilled`, `LingererIsKilled`, `CallsReturn` |
| `routing` | the eleven parts below, one per behaviour | the 17 properties from `RoutesAgree` to `RecordsAreWhole` in section 3 |
| `unsettled_launch`, `leftover_engine`, `lost_cancel`, `unreaped_worker`, `config_order` | small instances | the findings of section 6 |

Bounds. In the first five runs and in `stopping` one thing is cut off: at most `MaxLate` = 1 load
that was given up is still to end at any time (one is enough to replace a model, or to bring an
engine back, under any request). Every other variable ranges over finite sets once the sets of
tasks, engines and models are fixed (`attempt` is bounded by the plan, `frames` merges repetitions,
counters by the tasks), so TLC visits every reachable state of the instance and no run has a state
constraint. Three tasks are one that is served, one that swaps and one that waits with another
target (or a second one that is served); a swap over three engines frees two of them, so that it can
fail between the two. A just-in-time engine sits between the two process engines in dict order. The
two models of a loader are what an explicit load can confuse; an engine of `swaps` or `loads`
without a model is swapped to by `ForceSwap`. `WaitForLosesCancel` is TRUE in `requests` and
`gone_clients` as in the runs of the manager, but for `calls_end`. Two requests suffice for the
handlers because handlers meet only in the lease; one of each kind (SSE, plain) runs in `requests`,
the third (/api stream) in `gone_clients`. Three pids are a launcher and two workers, or a worker of
a dead launcher beside a new launcher and its own worker. The theorems of section 5 remove these
bounds for safety.

`stopping` and `routing` choose one component per behaviour (`kind`, `part`) and leave the others
at a first state (the kinds of engines take turns with the processes and the call). That loses
no behaviour, since the components of each run share no other variable, and no product of
unrelated states is explored. The parts of `routing`:

| Part | Instance and bounds |
|---|---|
| catalog | two process engines and a service; a static id, one that an engine and the service list, one that a start command and the service's tags name, an alias that an engine lists as a model, an alias whose target only the tags name; every answer at every probe, every write failing or not |
| decision | three models on two engines, one of which the router may no longer have; every set that fits or is in cooldown, scores apart by less than, exactly and more than the margin |
| health | 2 requests over 2 models, plans of 2 attempts at most, a threshold of 2; strikes are counted up to the threshold, beyond which the code does not tell them apart |
| caches | 2 callers, a time to live of 3 ticks (`Ttl`); ages are counted up to it |
| settle | five amounts around a rise of 2 (`Rise`), 4 samples (`MaxSamples`): one more than a plateau |
| command | every command of up to 4 arguments, of ten kinds: the four flags, the four values, two joined flags |
| bodies | 4 plans over a model with a policy and one without, below, at and above its limit |
| lists | 3 models, the four shapes, every set in memory, and an answer that is not JSON |
| benchmarks | 2 models, a built-in and a network provider, a time to live of 0 or 1 ticks, ages up to 2 (`MaxAge`): one beyond it |
| records | 2 engines, 2 swaps (`MaxSwaps`) of up to 2 ticks (`MaxTicks`), 2 buckets and the overflow: an estimate that folds one swap into another, or a swap on each side of a restart |
| calibration | 2 runs on two engines, another request, 2 probes |

`swaps` and `loads` use the symmetry of the tasks and `routing` that of the picker's requests and
of the callers of the caches, which are interchangeable and over which no liveness is checked
there. `swaps` and `loads` also have a VIEW that hides histories (`settleDue`; in `loads` also
`stray` and `exited`) which no guard and no property of the run reads, so that states that differ
in nothing else are one. Deadlock is checked in
every run.

Fairness. `calls_end`: the holder of the lock always goes on, because each of its awaits is
bounded (`drain_timeout_s`, the stop timeouts, the settle timeout, `start_timeout_s`,
`load_timeout_s`, the control client's 10 s), and `asyncio.Lock` is first come first served,
hence strong fairness of `LockGranted`. No request is assumed to end and no engine to come up.
`gone_clients`: the event loop runs what is ready, timers included (`HandlerStep`, among it
the keep-alive timer), and a shielded release completes. No acquire is assumed to end, no
upstream to answer, and the server is not assumed to notice that a client has gone.
`stopping`, for each kind of engine: the event loop runs the call (`Progress`), deadlines pass
(the loops compare the clock at every iteration), and a SIGKILLed process goes in the end.
Nothing is assumed of a process that was asked to stop, of systemd, or of a service, and a poll of
a service before its deadline may give the same answer for ever (`ApiPolls`).
`routing` has no liveness: nothing in it waits.

Mutants. Beside an action stands, where a property needs it, a "seeded fault": the action with
a plausible bug (a guard dropped, a reset forgotten, an order swapped). Each property is
violated when the action is replaced by it, so that each property is known to depend on the
code. The specifications do not use them.

## 5. Proofs

Every safety property of every passing run is a theorem, for every value of the constants that
satisfies the modules' assumptions: finite `Tasks`; engine kinds disjoint; every model owned by
an engine; distinct positions; a plan of one attempt at least, and of exactly one without the
picker; a threshold, a time to live, a number of probes and a rise of one at least; amounts of
memory, limits, lifetimes and start estimates that are natural numbers, and scores that are
integers; histogram buckets in increasing order; more than one engine; a lifetime of benchmarks
within what is counted of an age; an alias that is neither a static id nor the target of another
alias, as the validation of the configuration demands (`config.py`).

| Theorem | Module |
|---|---|
| `TypeCorrect`, `InflightAccounting`, `ServedExclusively`, `StartedExclusively`, `ModelKept`, `MarkerIsTrue`, `TakenAlone`, `ImplementsLease` | `EngineManagerProofs` |
| `TypeCorrect`, `CountsHeld`, `RelayedUnderLease`, `NoneAfterBytes`, `Terminated` | `ProxiedRequestsProofs` |
| `Together` | `GpuLeaseProofs` |
| `TypeCorrect`, `LaunchedOnce`, `Freed` | `ProcessEngineProofs` |
| `TypeCorrect`, `StaysFreed` | `Ds4EngineProofs` |
| `TypeCorrect`, `FreedEmpty` | `ApiSwapEngineProofs` |
| `LookupsAgree`, `NothingForgotten`, `OwnersSurvive`, `CachedTagsAge`, `ListingsRead` | `CatalogProofs` |
| `StrikesCount`, `SettlesAtPlateau`, `PlansBounded`, `CooledSpared`, `SwapsGain`, `BodiesRight`, `EveryIdFound`, `BenchmarksFresh`, `SeriesAddUp`, `CostsBounded`, `CalibrationTyped`, `CountsHeld`, `WholeBatteries` | `RoutingProofs` |

**EngineManager.** None of the properties is inductive. The invariant they share has, beside
the types, five parts. `LockInv`: the lock is held by exactly the task past it. `GpuInv`: while
the marker names an engine, only that engine and strays hold memory; a served request's engine
is the marker's, or there is no marker; two served requests agree. `SwapInv`, half-way through
a swap: only strays, the engines in `todo` and the target hold memory, and whoever is served is
on one of them; the engine being freed serves nobody; the marker is `NoEngine` from the first
drain on, and `todo` is empty from the settling on. `LoadInv`, half-way through an explicit
load: the marker is the engine's, nobody is served while it loads, and what is loaded at the
end is what was asked for or nothing. `ModelStable` itself: what a loading engine holds under a
served request that no late load has overtaken is its model or none. From these follow
one after the other that the counters are exact (`InflightExact` is inductive with the types and
needs that a task is counted once), that a started engine is alone, that a served request is,
and the step properties. `ImplementsLease` maps the marker to the holder and the tasks in
`serving` to the users; each action is shown to be a step of the lease or a stutter: `Finish`
is `Admit`, `BeginFree` is `Revoke` or, with a timeout, `Evict`, `SwapDone` is `Grant`.

**ProxiedRequests.** `TypeInv` adds to the types what each place of a handler says of its
acquire (`Stands`): a handler in `connect`, `relay`, `forward` or `releasing` has one that
completed, a pending one is waited for, and a handler that goes on to another attempt has one
left. `LeaseInv` says what the lease holds for a request (`Lent`: nothing but the current
attempt or an owed release, the engine of the current model, the same in the handler's
local) and that users not evicted agree with the holder (`KeptHold`). `Lent` is needed in
full: that an owed release is of a handler that has ended is what keeps it from taking away
the count of a later attempt. `NoneAfterBytes` rests on `Committed`: a handler that has sent
bytes is relaying, has ended, or leaves with an exit that is not `continue`. `Terminated`
rests on `Told`: while an attempt goes on, or another is to come, nothing but keep-alives and
upstream bytes was sent (`Quiet`), so that an end can only be the last frame (`EndsLast`), and a
handler that leaves for good has closed its response as its end was (`Closed`: whole, or with an
error), has one to give after its release, or was let down by an exception that is not an
`EngineError`. An acquire whose cancellation was lost touches the lease alone: `Lent` lets its
attempt, of a handler that has ended, have a count that nobody releases.

**GpuLease.** Agreement of the users (`KeptTogether`) needs to be strengthened by the holder.

**ProcessEngine.** `FreedIsFree` is about one step, but rests on `StillNothing`: while the last
answer of the port is awaited, what was looked for in vain is still not there. It is preserved
because a process that does not live cannot fork and only `ensure_started` launches; for that a
leader must be told from a worker (`Fresh`: no process is ever given the name of a living
group). `NeverTwice` is inductive with the types.

**Ds4Engine.** `FreedStaysFree` needs that systemd, once it has got the stop, has no reason to
start the unit (`UnitHalted`), that a launched ds4 has no unit (`UnitUnused`), and, as for
`ProcessEngine`, that what the last look did not find is still not there (`NothingLeft`).

**ApiSwapEngine.** `FreedStaysEmpty` is not inductive, because a load under way would fill the
memory again: that nothing is pending either (`StaysQuiet`) makes it so.

**Calibration.** One invariant per run (`Counted`, `Leased`, `Measured`): it has a count exactly
while it probes and releases, or once its release has been cancelled, its engine has the GPU unless
a drain gave it up, and it leaves without an exception only after the whole battery.

**Choices and inductions.** The catalog, the picker and the histograms choose by an order (the
winner of the claims, the best candidate, the first bucket), and what they compute is a loop
over a sequence. Both rest on one lemma, that a nonempty set of natural numbers has a least
member (`LeastNat`, from the well-foundedness of the inclusion of finite sets): `LeastRank`
gives every choice its member, and `EachNumber` is induction over numbers for a *set* of them,
which can be instantiated where the library's induction theorems, stated with an operator,
cannot. `ChosenIs`, `RankedIs` and `RenderedIs` are proved with it.

**Catalog.** The lookups are compared through `Routed`, which says of the entries of a rebuild where
each comes from: a static id has its configured engine, an alias its target's, a model listed live
the first engine that lists it, and so on down `SOURCE_PRIORITY`. `EntriesAre` proves it of every
rebuild, from the winner of the claims (`WinnerOwns`), and `LookupsAgreeNow` that in its presence
the four lookups agree. The invariant `CatalogInv` says that the entries are a rebuild of what is
remembered and of *some* lists (`MemoryInv`), since a snapshot or a restart rebuilds without the
lists of the last refresh, and that the state file fits the entries of its last write, `written`
(`FileInv`): all of them that are neither static nor an alias are in it, nothing in it was unknown
then, and what an engine reported is read back with its owner. It is about `written` and not about
the entries of the moment because writes fail. The last is what the order of the two sections in
`_load_state` is for, and needs that the seen models of an engine are among the remembered ones.

**ListCaches, LoadedLists.** `ServedTagsAge` needs that a time stamp is never younger than its
question (`StampedEarly`). `ListingIsTruth` is proved once per shape of answer (`ReadRight`):
the entries kept are those of the models in memory (`ChosenImages`, `ChosenAre`), and the
readiness check finds a model exactly when one of the strings named is its name.

**SmartHealth, MemorySettle.** `StrikesHold` needs that the state file is not behind the
refusals of its last write (`StrikesSaved`, about `noted`), or a restart would take off strikes
that had been written. `SettleExact` needs what the
counter stands for (`Counting`): whether the last two samples belong to a plateau.

**SmartDecision.** The decision is one step; the work is in the order. `Before` is a strict
total order of the candidates (by score, then by name), so that a best one exists (`FirstIs`)
and the sorted list is a bijection (`RankedIs`), from which follow what a fallback is
(`FallbacksAre`) and that no model but the first is tried twice.

**RequestBodies.** `BodyInv`: on /api the shared dict keeps the client's own kwargs, elsewhere
the first attempt puts them back. Without it the second attempt could inherit the thinking
switch of the first.

**StartCommand.** `ParserInv` says that the ids found are those of the arguments passed, and
that the inner loop runs exactly where the next value is one of `--served-model-name`. Which
values are is said without a loop (`UnderName`), and so needs a lemma about one more argument
(`UnderNext`).

**BenchmarkStore.** `StoreOK` of the cache and of the state file: each entry is as old as its
stamp says, was fetched after the model was last cleared or refreshed and saved, and holds what
the dependable providers gave. That both stores meet it is what lets one be read into the other.

**SwapRecords.** `CountsInv` equates each bucket and each label with the cardinality of the set
of swaps that belong to it; the rendered, cumulative buckets are then cardinalities of unions of
those sets (`RenderedCounts`). `GaugeInv`: past its stops a swap has no engine in place, so that
the uptime starts when it succeeds. A label without an entry counts as 0 (`TotalsAre`), so
that the totals are equated for all labels there are. `EstimatesInv`: a moving average of two
durations lies between them, rounding included (`BetweenKept`), in memory over the swaps `learnt`
and in the file that a restart reads over those that are `safe`.

Model-checked only: liveness (`CallsEnd`, `GoneLetsGo`, `FrozenIsKilled`, `LingererIsKilled`,
`CallsReturn`), which is out of the prover's reach.

## 6. Where the code and its documents differ

- **Memory is not always settled before a launch** (`unsettled_launch`). The settle wait runs
  only when an engine was marked active (1605). After a swap that failed or was cancelled, or
  a startup that detected nothing, the next swap may free an engine that holds memory and
  launch its target at once. README 217-226, 281-285 state the wait without that condition.
- **Two engines may hold memory** (`leftover_engine`). `startup` marks the first engine it
  finds and leaves the others; while the marker equals the target no swap runs. README
  308-311, `engines.py:3-5`. `ServedAlone` and its relatives therefore speak of the engines
  that are not `stray`.
- **A cancelled acquire may count all the same** (`lost_cancel`), on Python 3.10 and 3.11,
  when the cancellation meets a drain that has just been woken: the count stays until a
  restart, and every later drain of that engine runs into its timeout. `app.py:945-947`,
  README 249-254.
- **A forked worker may outlive `free_vram`** (`unreaped_worker`). The stop signal goes to the
  whole group, but what is waited for, and killed at the deadline, are the pids of `_pids()` and
  the port. When the launcher exits and closes the port, a worker that ignored the signal and is
  not matched by `process_pattern` keeps its memory while the call returns. `engines.py:552-554`,
  721-724 promise the escalation for the group. `FreedIsFree` says how much a pattern gives.
- **A snapshot takes a model from an earlier engine** (`config_order`). `set_seen_models`
  (`catalog.py:225-239`), called when an engine has come up (`engines.py:1346-1360`), makes it the
  owner of every model it lists and rebuilds the catalog without live lists. In the run a refresh
  finds a model on the earlier engine alone, and then the later one, which was not up at the
  time, is swapped in and lists it too: requests for the model go to the later engine, although
  the router holds both to list it (`_seen_models`). No probe and no write fails.
  `config.py:333-334`, README 647-648.

Other observations, which no run is about:

- The retry of the same model does not follow a reload (README 513-515): after a failed
  connection the marker still names the engine, so that the second attempt goes to the same
  unreachable engine at once (`app.py:925`).
- A load that was given up (`engines.py:1022-1032`) may end in the service after the swap lock has
  been released, and replace the model of later requests or bring an engine back beside another
  (`EngineManager!LateLoad`). The code does not ask the service to drop it.
- The release at the end of a calibration is not shielded (`smart.py:1120`), unlike the handlers'
  (`app.py:959`): cancelled while it waits for the condition, it leaves a count
  (`Calibration!ReleaseInterrupted`).
- A write of the state file that fails is logged at debug level only (`engines.py:1789-1790`);
  what it would have saved is lost with the next restart.
- `state_ttl_s` (README 642, `config.py:339-341`) does not forget what the `seen_models` section
  still lists, since `_load_state` adds those ids back (`catalog.py:194-213`); `NeverForgets`
  is therefore stronger in practice than the document asks.
- An alias whose target nobody lists, while an engine lists its own name, resolves differently
  in `explain_model` and `engine_for` (`catalog.py:398-400`); `Dangling` excludes it from
  `RoutesAgree`.
- The docstring of `_snapshot_seen_models` (`engines.py:1349-1352`) says that a deleted model
  drops out of discovery with the next snapshot; the catalog goes on remembering it
  (`Snapshot`).
- A start of ds4 that was given up may wait in systemd's queue behind a stop and take effect
  later; the next stop replaces it (`UnitHalted`).
- A list of tags dropped by a load can be put back by a probe that was on its way
  (`engines.py:1039`, 1057); its time stamp keeps its age right (`ServedTagsAge`).
- A plan is made once; what cools down later is still tried (`app.py:204`).
- A status of 400 to 499 is a failure of the model on a stream (`app.py:881`) and a success on a
  plain request (`app.py:1025`). Successes, and the routing mode, are not persisted.
- A benchmark provider that failed leaves an incomplete entry in the cache, which with a time
  to live of 0 stays for good.
- A calibration whose engine was evicted stores its failed probes like wrong answers
  (`smart.py:1108`).
- The LM Studio preset lists the models the service knows, without a filter for those that are
  loaded (`presets/lmstudio.yaml:14-16`, 35-37); `ListingIsTruth` is about configurations that
  say how to tell them apart.

## 7. Not modelled

- **Configuration** (parsing, defaults, validation at startup): its values are constants, and
  what validation guarantees is an assumption where a module needs it (`CatalogAssumption`).
- **Request classification and model identity**: regular expressions over text. The modules take
  the class's effect (scores) as arbitrary and the canonical name as a function.
- **The score formula** of the picker: arithmetic on tuning constants.
- **Authentication, header filtering, status pages**: no state.
- **The `/api/*` pass-through**, which goes to Ollama without the manager's knowledge. What it
  makes Ollama load is `ApiSwapEngine!RelayedLoad` only while Ollama is active.
- **CLI, wizard, presets, deployment**: clients of the admin endpoints, data, scripts.
- Counters of picks and fallbacks: written and rendered, never compared with anything.
- Windows: signalling of process trees; reuse of a pid while the router refers to it.

What would add most next: an abstract module of one engine (`Freed`, `FreeFailed`,
`AlreadyReady`, `Launch`) that `EngineManager` uses and the three engine modules are shown to
implement under the conditions their properties name; two engines behind one port.

## 8. Running

    tlc -workers 2 -config swaps.cfg MCSwaps.tla
    tlc -workers 2 -config routing.cfg MCRouting.tla
    tlapm EngineManagerProofs.tla

`stopping` and `routing` take two to three minutes each. `PROJECT.json` lists the runs with their
modules and configurations, the seeded faults, the source lines of every definition, the
hazards and the theorems.

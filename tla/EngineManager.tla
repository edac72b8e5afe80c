--------------------------- MODULE EngineManager ---------------------------
(***************************************************************************)
(* The swap state machine of router/engines.py (class EngineManager):      *)
(* asyncio tasks that call acquire/release or force_swap, the swap lock,   *)
(* the in-flight counters, the active marker, and the engines' hold on GPU *)
(* memory.                                                                 *)
(*                                                                         *)
(* The code is cooperative: what runs between two awaits is one action,    *)
(* and a task can be cancelled only where it is suspended.  The calls into *)
(* one engine (free_vram, ensure_started, load_model) are represented by   *)
(* what they promise to the manager: they return having done their work,   *)
(* or raise.                                                               *)
(***************************************************************************)
EXTENDS Naturals, FiniteSets

CONSTANTS
  Tasks,              \* asyncio tasks that call into the manager
  Models,             \* real model ids (aliases are resolved before)
  Process,            \* engines the router launches (Ds4Engine, GenericProcessEngine)
  Loaders,            \* APISwapEngines with a load_path
  Jit,                \* API engines that load a model when a request reaches them
  Owner,              \* which engine engine_for() finds for a model
  Position,           \* the order of the engines in the manager's dict
  NoTask, NoEngine, NoModel,
  WaitForLosesCancel, \* TRUE: asyncio.wait_for of Python 3.10 and 3.11, which
                      \* drops a cancellation that meets a finished inner wait
  MaxLate             \* a bound: given-up loads that are still to end at one time

Engines == Process \cup Loaders \cup Jit

ASSUME TasksAssumption   == IsFiniteSet(Tasks) /\ NoTask \notin Tasks
ASSUME EnginesAssumption ==
  /\ NoEngine \notin Engines
  /\ Process \cap (Loaders \cup Jit) = {}
  /\ Loaders \cap Jit = {}
ASSUME ModelsAssumption  == NoModel \notin Models /\ Owner \in [Models -> Engines]
ASSUME PositionAssumption ==
  /\ Position \in [Engines -> Nat]
  /\ \A e, f \in Engines : Position[e] = Position[f] => e = f
ASSUME CancelAssumption  == WaitForLosesCancel \in BOOLEAN
ASSUME LateAssumption    == MaxLate \in Nat

VARIABLES
  pc,         \* where each task stands in acquire() / force_swap()
  job,        \* what each task asked for
  lock,       \* holder of _swap_lock
  active,     \* active_engine
  inflight,   \* _inflight
  prev,       \* _swap_to's local: the active engine when the swap began
  todo,       \* engines _swap_to has still to drain and free
  resident,   \* engines that hold GPU memory
  ready,      \* engines whose readiness probe succeeds
  loaded,     \* the model a Loader holds
  late,       \* loads the router gave up that the engine's service may still end
  exited,     \* process engines that went down by themselves since their launch
  settleDue,  \* history: memory was freed and no settle wait has ended since
  severed,    \* history: in-flight requests a drain gave up waiting for
  stray,      \* history: engines in GPU memory that the router tolerates beside
              \* another one: found at startup, reloaded by a severed request, or
              \* brought back by a load that was given up
  orphans     \* history: tasks whose caller cancelled them and left, and which
              \* go on because the cancellation was lost

taskVars   == <<pc, job, lock, orphans>>
swapVars   == <<active, prev, todo>>
engineVars == <<resident, ready, loaded, late, exited, stray, settleDue>>
vars == <<taskVars, swapVars, engineVars, inflight, severed>>

-----------------------------------------------------------------------------
(* Types and null values *)

\* overtaken is history: since the task found or loaded its model, a load that an
\* earlier task gave up has replaced it.
Job ==
  [eng : Engines \cup {NoEngine}, model : Models \cup {NoModel}, counted : BOOLEAN,
   overtaken : BOOLEAN]
Asked(e, m, counted) ==
  [eng |-> e, model |-> m, counted |-> counted, overtaken |-> FALSE]
NoJob == Asked(NoEngine, NoModel, FALSE)

\* What a task does while it holds _swap_lock: the swap, then the explicit load.
SwapPhases == {"drain", "drainWait", "free", "settle", "start", "waitReady"}
LoadPhases == {"probe", "loadDrain", "loadDrainWait", "load", "finish"}
Holding    == SwapPhases \cup LoadPhases

\* The labels at which a task is not suspended: the code reaches _drain's test
\* of the counter without an await.
Unsuspended == {"drain", "loadDrain"}

TypeOK ==
  /\ pc \in [Tasks -> Holding \cup {"idle", "lock", "serving"}]
  /\ job \in [Tasks -> Job]
  /\ lock \in Tasks \cup {NoTask}
  /\ active \in Engines \cup {NoEngine}
  /\ inflight \in [Engines -> Nat]
  /\ prev \in Engines \cup {NoEngine}
  /\ todo \subseteq Engines
  /\ resident \subseteq Engines
  /\ ready \subseteq Engines
  /\ loaded \in [Engines -> Models \cup {NoModel}]
  /\ late \subseteq (Loaders \cup Jit) \X Models
  /\ exited \subseteq Process
  /\ settleDue \in BOOLEAN
  /\ severed \subseteq Tasks
  /\ stray \subseteq Engines
  /\ orphans \subseteq Tasks

Eng(t) == job[t].eng

\* The requests the in-flight counter of e stands for.
InFlight(e) == {t \in Tasks : pc[t] = "serving" /\ Eng(t) = e}

\* Iteration in dict order: e comes first among S.
IsFirst(e, S) == e \in S /\ \A f \in S : Position[e] <= Position[f]

-----------------------------------------------------------------------------
(* Startup.  The manager looks at which engine holds the GPU: the first     *)
(* process engine that is ready, else the first API engine with a model.    *)

Detected(a, res, rdy) ==
  LET serving == Process \cap rdy
      holding == (Engines \ Process) \cap res
  IN  \/ IsFirst(a, serving)
      \/ serving = {} /\ IsFirst(a, holding)
      \/ serving \cup holding = {} /\ a = NoEngine

\* The engines may be in any state when the router starts.  A process engine that
\* answers its probe holds memory; a Loader holds memory when it holds a model.
Found(res, rdy, ld) ==
  /\ res \subseteq Engines /\ rdy \subseteq Engines
  /\ Process \cap rdy \subseteq res
  /\ ld \in [Engines -> Models \cup {NoModel}]
  /\ \A e \in Engines : ld[e] # NoModel <=> e \in Loaders \cap res

Init ==
  /\ pc = [t \in Tasks |-> "idle"]
  /\ job = [t \in Tasks |-> NoJob]
  /\ lock = NoTask
  /\ inflight = [e \in Engines |-> 0]
  /\ prev = NoEngine /\ todo = {}
  /\ resident \in SUBSET Engines /\ ready \in SUBSET Engines
  /\ loaded \in [Engines -> Models \cup {NoModel}]
  /\ Found(resident, ready, loaded)
  /\ late = {} /\ exited = {}
  /\ active \in Engines \cup {NoEngine} /\ Detected(active, resident, ready)
  /\ settleDue = FALSE
  /\ severed = {} /\ orphans = {}
  /\ stray = IF active = NoEngine THEN {} ELSE resident \ {active}

-----------------------------------------------------------------------------
(* Entering: acquire() and force_swap() up to the swap lock *)

Call(t, j) ==
  /\ pc[t] = "idle"
  /\ job' = [job EXCEPT ![t] = j]
  /\ pc' = [pc EXCEPT ![t] = "lock"]
  /\ UNCHANGED <<lock, orphans, swapVars, engineVars, inflight, severed>>

Acquire(t, m) == Call(t, Asked(Owner[m], m, TRUE))

\* By engine key (with or without a model id, which need not be one of that
\* engine's), or by a model id alone.  The model id is looked at on a Loader only.
ForceSwap(t, e, m) ==
  /\ m # NoModel => e \in Loaders
  /\ Call(t, Asked(e, m, FALSE))

\* Where a task goes once its engine is active: the explicit load, or out.
AfterSwap(t) ==
  IF Eng(t) \in Loaders /\ job[t].model # NoModel THEN "probe" ELSE "finish"

\* What _swap_to does when no engine is left to free.
AfterFree(p) == IF p # NoEngine THEN "settle" ELSE "start"

\* Seeded fault: an engine that answers its probe is taken for the active one.
LockGrantedIfReady(t) ==
  /\ pc[t] = "lock" /\ lock = NoTask
  /\ lock' = t
  /\ IF Eng(t) \in ready
     THEN /\ pc' = [pc EXCEPT ![t] = AfterSwap(t)]
          /\ UNCHANGED <<prev, todo>>
     ELSE /\ prev' = active
          /\ todo' = Engines \ {Eng(t)}
          /\ pc' = [pc EXCEPT ![t] = IF todo' # {} THEN "drain" ELSE AfterFree(active)]
  /\ UNCHANGED <<job, orphans, active, engineVars, inflight, severed>>

\* Seeded fault: free the previous engine only.
LockGrantedFreesPrevious(t) ==
  /\ pc[t] = "lock" /\ lock = NoTask
  /\ lock' = t
  /\ IF active = Eng(t)
     THEN /\ pc' = [pc EXCEPT ![t] = AfterSwap(t)]
          /\ UNCHANGED <<prev, todo>>
     ELSE /\ prev' = active
          /\ todo' = {active} \ {NoEngine}
          /\ pc' = [pc EXCEPT ![t] = IF todo' # {} THEN "drain" ELSE AfterFree(active)]
  /\ UNCHANGED <<job, orphans, active, engineVars, inflight, severed>>

LockGranted(t) ==
  /\ pc[t] = "lock" /\ lock = NoTask
  /\ lock' = t
  /\ IF active = Eng(t)
     THEN /\ pc' = [pc EXCEPT ![t] = AfterSwap(t)]
          /\ UNCHANGED <<prev, todo>>
     ELSE /\ prev' = active
          /\ todo' = Engines \ {Eng(t)}
          /\ pc' = [pc EXCEPT ![t] = IF todo' # {} THEN "drain" ELSE AfterFree(active)]
  /\ UNCHANGED <<job, orphans, active, engineVars, inflight, severed>>

-----------------------------------------------------------------------------
(* _swap_to, by the holder of the lock *)

\* Seeded fault: the marker stays on the engine that is being stopped.
BeginFreeKeepsMarker(t) ==
  /\ pc' = [pc EXCEPT ![t] = "free"]
  /\ UNCHANGED <<job, lock, orphans, swapVars, engineVars, inflight>>

\* _drain returned: the marker is cleared before the engine is touched.
BeginFree(t) ==
  /\ active' = NoEngine
  /\ pc' = [pc EXCEPT ![t] = "free"]
  /\ UNCHANGED <<job, lock, orphans, prev, todo, engineVars, inflight>>

DrainEmpty(t) ==
  /\ pc[t] = "drain"
  /\ \E k \in todo : IsFirst(k, todo) /\ inflight[k] = 0
  /\ BeginFree(t)
  /\ UNCHANGED severed

DrainBlock(t) ==
  /\ pc[t] = "drain"
  /\ \E k \in todo : IsFirst(k, todo) /\ inflight[k] # 0
  /\ pc' = [pc EXCEPT ![t] = "drainWait"]
  /\ UNCHANGED <<job, lock, orphans, swapVars, engineVars, inflight, severed>>

\* Seeded fault: any release ends the wait.
DrainWokenByAny(t) ==
  /\ pc[t] = "drainWait"
  /\ BeginFree(t)
  /\ UNCHANGED severed

DrainWoken(t) ==
  /\ pc[t] = "drainWait"
  /\ \E k \in todo : IsFirst(k, todo) /\ inflight[k] = 0
  /\ BeginFree(t)
  /\ UNCHANGED severed

\* Seeded fault: the drain is not bounded.
DrainTimeoutNever(t) == FALSE /\ BeginFree(t) /\ UNCHANGED severed

\* drain_timeout_s elapsed: the swap goes on over the requests still in flight.
DrainTimeout(t) ==
  /\ pc[t] = "drainWait"
  /\ \E k \in todo : /\ IsFirst(k, todo) /\ inflight[k] # 0
                     /\ severed' = severed \cup InFlight(k)
  /\ BeginFree(t)

\* free_vram() of the engine at hand returned: it holds no GPU memory.
Freed(t, k) ==
  /\ pc[t] = "free" /\ IsFirst(k, todo)
  /\ todo' = todo \ {k}
  /\ resident' = resident \ {k}
  /\ ready' = IF k \in Process THEN ready \ {k} ELSE ready
  /\ loaded' = [loaded EXCEPT ![k] = NoModel]
  /\ stray' = stray \ {k}
  /\ settleDue' = (settleDue \/ k \in resident)
  /\ pc' = [pc EXCEPT ![t] = IF todo' # {} THEN "drain" ELSE AfterFree(prev)]
  /\ UNCHANGED <<job, lock, orphans, active, prev, late, exited, inflight, severed>>

\* Seeded fault: a failed swap puts the marker back on the engine it came from.
SwapFailedRollsBack(t) ==
  /\ active' = prev
  /\ prev' = NoEngine /\ todo' = {}
  /\ lock' = NoTask
  /\ pc' = [pc EXCEPT ![t] = "idle"]
  /\ job' = [job EXCEPT ![t] = NoJob]
  /\ orphans' = orphans \ {t}
  /\ UNCHANGED <<inflight, severed>>

\* The except clause of _swap_to and the exits from the lock above it.
SwapFailed(t) ==
  /\ active' = NoEngine
  /\ prev' = NoEngine /\ todo' = {}
  /\ lock' = NoTask
  /\ pc' = [pc EXCEPT ![t] = "idle"]
  /\ job' = [job EXCEPT ![t] = NoJob]
  /\ orphans' = orphans \ {t}
  /\ UNCHANGED <<inflight, severed>>

FreeFailed(t) ==
  /\ pc[t] = "free"
  /\ \E k \in resident : IsFirst(k, todo)
  /\ SwapFailed(t)
  /\ UNCHANGED engineVars

\* _await_memory_settle: memory reached a plateau, the timeout elapsed, or it
\* cannot be read.
Settled(t) ==
  /\ pc[t] = "settle"
  /\ settleDue' = FALSE
  /\ pc' = [pc EXCEPT ![t] = "start"]
  /\ UNCHANGED <<job, lock, orphans, swapVars, resident, ready, loaded, late, exited,
                 stray, inflight, severed>>

\* Seeded fault: the marker is set to the model that was asked for.
SwapDoneMarksModel(t) ==
  /\ Eng(t) \in ready
  /\ active' = job[t].model
  /\ prev' = NoEngine /\ todo' = {}
  /\ stray' = stray \ {Eng(t)}
  /\ pc' = [pc EXCEPT ![t] = AfterSwap(t)]
  /\ UNCHANGED <<job, lock, orphans, resident, ready, loaded, late, exited,
                 settleDue, inflight, severed>>

SwapDone(t) ==
  /\ Eng(t) \in ready
  /\ active' = Eng(t)
  /\ prev' = NoEngine /\ todo' = {}
  /\ stray' = stray \ {Eng(t)}
  /\ pc' = [pc EXCEPT ![t] = AfterSwap(t)]
  /\ UNCHANGED <<job, lock, orphans, resident, ready, loaded, late, exited,
                 settleDue, inflight, severed>>

AlreadyReady(t) == pc[t] = "start" /\ SwapDone(t)

\* Launch the process unless one is already running; an API engine's service is
\* asked to start.
Launch(t) ==
  /\ pc[t] = "start" /\ Eng(t) \notin ready
  /\ resident' = resident \cup ({Eng(t)} \cap Process)
  /\ exited' = exited \ {Eng(t)}
  /\ pc' = [pc EXCEPT ![t] = "waitReady"]
  /\ UNCHANGED <<job, lock, orphans, swapVars, ready, loaded, late, stray, settleDue,
                 inflight, severed>>

\* No start command, no serve script, systemctl cannot be run.
LaunchFailed(t) ==
  /\ pc[t] = "start" /\ Eng(t) \in Process \ ready
  /\ SwapFailed(t)
  /\ UNCHANGED engineVars

BecameReady(t) == pc[t] = "waitReady" /\ SwapDone(t)

StartTimeout(t) ==
  /\ pc[t] = "waitReady" /\ Eng(t) \notin ready
  /\ SwapFailed(t)
  /\ UNCHANGED engineVars

-----------------------------------------------------------------------------
(* _ensure_model_loaded, still under the lock *)

Goto(t, label) ==
  /\ pc' = [pc EXCEPT ![t] = label]
  /\ UNCHANGED <<job, lock, orphans, swapVars, engineVars, inflight>>

AlreadyLoaded(t) ==
  /\ pc[t] = "probe" /\ loaded[Eng(t)] = job[t].model
  /\ Goto(t, "finish") /\ UNCHANGED severed

\* Seeded fault: load at once, under the requests in flight.
NotLoadedNoDrain(t) ==
  /\ pc[t] = "probe"
  /\ Goto(t, "load") /\ UNCHANGED severed

\* Another model is loaded, none is, or the probe failed (it is best effort).
NotLoaded(t) ==
  /\ pc[t] = "probe"
  /\ Goto(t, "loadDrain") /\ UNCHANGED severed

LoadDrainEmpty(t) ==
  /\ pc[t] = "loadDrain" /\ inflight[Eng(t)] = 0
  /\ Goto(t, "load") /\ UNCHANGED severed

LoadDrainBlock(t) ==
  /\ pc[t] = "loadDrain" /\ inflight[Eng(t)] # 0
  /\ Goto(t, "loadDrainWait") /\ UNCHANGED severed

LoadDrainWoken(t) ==
  /\ pc[t] = "loadDrainWait" /\ inflight[Eng(t)] = 0
  /\ Goto(t, "load") /\ UNCHANGED severed

LoadDrainTimeout(t) ==
  /\ pc[t] = "loadDrainWait" /\ inflight[Eng(t)] # 0
  /\ severed' = severed \cup InFlight(Eng(t))
  /\ Goto(t, "load")

\* The engine holds m now (NoModel: none).
Holds(e, m) ==
  /\ loaded' = [loaded EXCEPT ![e] = m]
  /\ resident' = IF m = NoModel THEN resident \ {e} ELSE resident \cup {e}
  /\ stray' = IF m = NoModel THEN stray \ {e} ELSE stray
  /\ UNCHANGED <<ready, exited, settleDue>>

Loaded(t) ==
  /\ pc[t] = "load" /\ Eng(t) \in ready
  /\ UNCHANGED late
  /\ Holds(Eng(t), job[t].model)
  /\ pc' = [pc EXCEPT ![t] = "finish"]
  /\ UNCHANGED <<job, lock, orphans, swapVars, inflight, severed>>

\* The router gives up the loads that the tasks ts are waiting for: their services
\* know nothing of it, and may end any of them at any later moment, or never.
GivenUp(ts) ==
  \E some \in SUBSET ts :
    /\ late' = late \cup {<<Eng(t), job[t].model>> : t \in some}
    /\ some # {} => Cardinality(late') <= MaxLate

\* A load that errors out, times out or is cancelled has dropped the engine's model
\* by then, or done nothing yet.
LoadInterrupted(t) ==
  /\ \E m \in {loaded[Eng(t)], NoModel} : Holds(Eng(t), m)
  /\ GivenUp({t})

\* Leaving the lock without counting.
Leave(t) ==
  /\ lock' = NoTask
  /\ pc' = [pc EXCEPT ![t] = "idle"]
  /\ job' = [job EXCEPT ![t] = NoJob]
  /\ orphans' = orphans \ {t}
  /\ UNCHANGED <<swapVars, severed>>

LoadFailed(t) ==
  /\ pc[t] = "load"
  /\ LoadInterrupted(t)
  /\ Leave(t)
  /\ UNCHANGED inflight

\* acquire() counts the request and leaves the lock; force_swap() just leaves.
Finish(t) ==
  /\ pc[t] = "finish" /\ job[t].counted
  /\ inflight' = [inflight EXCEPT ![Eng(t)] = @ + 1]
  /\ lock' = NoTask
  /\ pc' = [pc EXCEPT ![t] = "serving"]
  /\ UNCHANGED <<job, orphans, swapVars, engineVars, severed>>

\* Seeded fault: force_swap() counts a request nobody will release.
FinishForcedCounts(t) ==
  /\ pc[t] = "finish" /\ ~job[t].counted
  /\ inflight' = [inflight EXCEPT ![Eng(t)] = @ + 1]
  /\ Leave(t)
  /\ UNCHANGED engineVars

FinishForced(t) ==
  /\ pc[t] = "finish" /\ ~job[t].counted
  /\ Leave(t)
  /\ UNCHANGED <<inflight, engineVars>>

\* The tasks whose requests a Jit engine may be loading its model for.
JitLoading == {t \in Tasks : pc[t] = "serving" /\ Eng(t) \in Jit \cap ready}

\* The caller's release(), whatever ended the request: a client that left, or an
\* upstream timeout, may leave a Jit engine loading.
Release(t) ==
  /\ pc[t] = "serving" /\ t \notin orphans
  /\ inflight' = [inflight EXCEPT ![Eng(t)] = IF @ > 0 THEN @ - 1 ELSE @]
  /\ pc' = [pc EXCEPT ![t] = "idle"]
  /\ job' = [job EXCEPT ![t] = NoJob]
  /\ severed' = severed \ {t}
  /\ GivenUp({t} \cap JitLoading)
  /\ UNCHANGED <<lock, orphans, swapVars, resident, ready, loaded, exited, stray, settleDue>>

-----------------------------------------------------------------------------
(* Cancellation: the client went away, or the router shuts the task down *)

CancelWaiting(t) ==
  /\ pc[t] = "lock"
  /\ pc' = [pc EXCEPT ![t] = "idle"]
  /\ job' = [job EXCEPT ![t] = NoJob]
  /\ UNCHANGED <<lock, orphans, swapVars, engineVars, inflight, severed>>

\* A drain has been woken up (its counter is down to 0) and has not run yet.
Woken(t) ==
  \/ pc[t] = "drainWait" /\ \E k \in todo : IsFirst(k, todo) /\ inflight[k] = 0
  \/ pc[t] = "loadDrainWait" /\ inflight[Eng(t)] = 0

CancelSwap(t) ==
  /\ pc[t] \in SwapPhases \ Unsuspended /\ t \notin orphans
  /\ ~(WaitForLosesCancel /\ Woken(t))
  /\ SwapFailed(t)
  /\ UNCHANGED engineVars

CancelLoad(t) ==
  /\ pc[t] \in LoadPhases \ Unsuspended /\ t \notin orphans
  /\ ~(WaitForLosesCancel /\ Woken(t))
  /\ IF pc[t] = "load" THEN LoadInterrupted(t) ELSE UNCHANGED engineVars
  /\ Leave(t)
  /\ UNCHANGED inflight

\* wait_for returns the finished wait's result in place of the cancellation: the
\* caller is gone and the task goes on.
CancelLost(t) ==
  /\ WaitForLosesCancel /\ Woken(t) /\ t \notin orphans
  /\ orphans' = orphans \cup {t}
  /\ UNCHANGED <<pc, job, lock, swapVars, engineVars, inflight, severed>>

-----------------------------------------------------------------------------
(* The engines, and the router's own restart *)

\* A launched process finishes loading; an API service answers (again).
ComesUp(e) ==
  /\ e \in Engines \ ready
  /\ e \in Process => e \in resident
  /\ ready' = ready \cup {e}
  /\ UNCHANGED <<taskVars, swapVars, resident, loaded, late, exited, stray,
                 settleDue, inflight, severed>>

\* An engine leaves the GPU by itself: it crashes, or an interrupted stop or
\* unload takes effect after all.
GoesDown(e) ==
  /\ e \in resident \cup ready
  /\ resident' = resident \ {e}
  /\ ready' = ready \ {e}
  /\ loaded' = [loaded EXCEPT ![e] = NoModel]
  /\ stray' = stray \ {e}
  /\ exited' = exited \cup ({e} \cap Process)
  /\ UNCHANGED <<taskVars, swapVars, late, settleDue, inflight, severed>>

\* The service ends a load the router gave up, whoever has the GPU by now.
LateLoad(e, m) ==
  /\ <<e, m>> \in late /\ e \in ready
  /\ late' = late \ {<<e, m>>}
  /\ resident' = resident \cup {e}
  /\ loaded' = [loaded EXCEPT ![e] = IF e \in Loaders THEN m ELSE @]
  /\ stray' = IF e \in resident \/ active = e THEN stray ELSE stray \cup {e}
  /\ job' = [t \in Tasks |->
               IF e \in Loaders /\ Eng(t) = e /\ job[t].model # m /\ pc[t] \in {"finish", "serving"}
               THEN [job[t] EXCEPT !.overtaken = TRUE] ELSE job[t]]
  /\ UNCHANGED <<pc, lock, orphans, swapVars, ready, exited, settleDue, inflight, severed>>

\* A request reaches a Jit engine, which loads the model for it.
ServeLoads(t) ==
  /\ pc[t] = "serving" /\ t \notin orphans /\ Eng(t) \in Jit \cap ready
  /\ resident' = resident \cup {Eng(t)}
  /\ stray' = IF t \in severed /\ Eng(t) \notin resident
              THEN stray \cup {Eng(t)} ELSE stray
  /\ UNCHANGED <<taskVars, swapVars, ready, loaded, late, exited, settleDue,
                 inflight, severed>>

\* The router stops and starts again; the engines live on, its tasks do not: what
\* they were loading is given up.
Restart ==
  /\ pc' = [t \in Tasks |-> "idle"]
  /\ job' = [t \in Tasks |-> NoJob]
  /\ lock' = NoTask /\ prev' = NoEngine /\ todo' = {}
  /\ inflight' = [e \in Engines |-> 0]
  /\ severed' = {} /\ orphans' = {}
  /\ \E a \in Engines \cup {NoEngine} : Detected(a, resident, ready) /\ active' = a
  /\ stray' = IF active' = NoEngine THEN {} ELSE resident \ {active'}
  /\ GivenUp({t \in Tasks : pc[t] = "load"} \cup JitLoading)
  /\ UNCHANGED <<resident, ready, loaded, exited, settleDue>>

-----------------------------------------------------------------------------
(* The specification *)

\* What the holder of the lock does next.
HolderStep(t) ==
  \/ DrainEmpty(t) \/ DrainBlock(t) \/ DrainWoken(t) \/ DrainTimeout(t)
  \/ \E k \in todo : Freed(t, k)
  \/ FreeFailed(t) \/ Settled(t)
  \/ AlreadyReady(t) \/ Launch(t) \/ LaunchFailed(t) \/ BecameReady(t) \/ StartTimeout(t)
  \/ AlreadyLoaded(t) \/ NotLoaded(t)
  \/ LoadDrainEmpty(t) \/ LoadDrainBlock(t) \/ LoadDrainWoken(t) \/ LoadDrainTimeout(t)
  \/ Loaded(t) \/ LoadFailed(t) \/ Finish(t) \/ FinishForced(t)

TaskStep(t) ==
  \/ \E m \in Models : Acquire(t, m)
  \/ \E e \in Engines, m \in Models \cup {NoModel} : ForceSwap(t, e, m)
  \/ LockGranted(t)
  \/ HolderStep(t)
  \/ Release(t)
  \/ CancelWaiting(t) \/ CancelSwap(t) \/ CancelLoad(t) \/ CancelLost(t)
  \/ ServeLoads(t)

Next ==
  \/ \E t \in Tasks : TaskStep(t)
  \/ \E e \in Engines : ComesUp(e) \/ GoesDown(e) \/ \E m \in Models : LateLoad(e, m)
  \/ Restart

Spec == Init /\ [][Next]_vars

\* Every await of the holder is bounded (drain_timeout_s, the stop timeouts, the
\* settle timeout, start_timeout_s, load_timeout_s, the control client's own), so
\* it goes on; asyncio.Lock serves its waiters in turn.  Nothing makes a request
\* end, an engine come up, or a caller come.
Fairness ==
  \A t \in Tasks : WF_vars(HolderStep(t)) /\ SF_vars(LockGranted(t))

FairSpec == Spec /\ Fairness

-----------------------------------------------------------------------------
(* Properties *)

\* A request in flight that no drain has given up.
Served(t) == pc[t] = "serving" /\ t \notin severed

\* The in-flight counter of every engine is the number of requests it stands for,
\* through failed loads, failed swaps, cancellations and restarts: a count that is
\* lost lets a swap stop a busy engine, one too many makes every drain time out.
InflightExact == \A e \in Engines : inflight[e] = Cardinality(InFlight(e))

\* While a request is served, and was not given up by a drain, its engine has the
\* GPU to itself: no interleaving of swaps, loads and cancellations by other tasks
\* brings another engine into memory.
ServedAlone == \A t \in Tasks : Served(t) => resident \ stray \subseteq {Eng(t)}

\* When _swap_to comes to start its target no other engine holds memory, even after
\* a swap that failed half-way, a cancelled start, or a restart of the router.
StartsAlone ==
  \A t \in Tasks : pc[t] \in {"settle", "start", "waitReady"} =>
    resident \ stray \subseteq {Eng(t)}

\* No load the router makes replaces the model under a request being served, and a
\* load that failed serves nobody: what an engine holds under a served request is
\* the model asked for, or none, unless its service has since ended a load that the
\* router gave up (no drain can wait for those: hazard of load_model's timeout).
ModelStable ==
  \A t \in Tasks : Served(t) /\ Eng(t) \in Loaders /\ ~job[t].overtaken =>
    loaded[Eng(t)] \in {job[t].model, NoModel}

\* A process engine marked active was seen ready and has not been stopped since (it
\* may have gone down by itself): an interrupted swap never leaves the marker on an
\* engine it has stopped.
ActiveWasReady == active \in Process => active \in ready \cup exited

\* An engine comes into GPU memory only when no other is there.
TakesAlone ==
  [][\A e \in resident' \ resident : e \notin stray' => resident \ stray \subseteq {e}]_vars

\* The manager implements the lease: the marker is the holder, and the requests in
\* flight are its users.
Lease == INSTANCE GpuLease WITH
  holder  <- active,
  users   <- [t \in Tasks |-> IF pc[t] = "serving" THEN Eng(t) ELSE NoEngine],
  evicted <- severed

LeaseSpec == Lease!Spec

\* Every call that waits for the swap lock is answered (served, failed, or gone),
\* though the requests in flight may never end and engines may never come up: the
\* drains and the starts are bounded, so the lock always comes free.
CallsEnd == \A t \in Tasks : pc[t] = "lock" ~> pc[t] \in {"idle", "serving"}

\* README.md:217-226 and 281-285: after freeing an engine the router waits for the
\* memory to be reclaimed before it starts the next engine.
SettledBeforeLaunch ==
  [][\A t \in Tasks : pc[t] = "start" /\ pc'[t] = "waitReady" /\ Eng(t) \in Process
       => ~settleDue]_vars

\* engines.py:3-5, README.md:308: only one engine holds the GPU at a time; here,
\* when a request is served, none but its engine.
OneEngineAtATime ==
  \A t \in Tasks : Served(t) => resident \subseteq {Eng(t)}

\* README.md:249-254, router/app.py:946-947: a request whose client has gone is released;
\* cancelling an acquire that is still pending leaks no in-flight count.
NoLeakedCount == \A t \in Tasks : pc[t] = "serving" => t \notin orphans
=============================================================================

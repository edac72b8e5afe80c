------------------------ MODULE EngineManagerProofs ------------------------
(***************************************************************************)
(* Proofs about EngineManager: types, the in-flight accounting, and the    *)
(* exclusive use of the GPU, for any set of tasks, engines and models.     *)
(***************************************************************************)
EXTENDS EngineManager, FiniteSetTheorems, TLAPS

(* What each step does to the variables; cited by the steps below. *)
USE DEF Engines

-----------------------------------------------------------------------------
(* Type correctness *)

\* A task that is not idle asked for an engine, and for a model if it is counted or
\* loads one.
JobOK ==
  \A t \in Tasks : pc[t] # "idle" =>
    /\ Eng(t) \in Engines
    /\ job[t].counted => job[t].model \in Models
    /\ pc[t] = "serving" => job[t].counted
    /\ pc[t] \in LoadPhases \ {"finish"} => Eng(t) \in Loaders /\ job[t].model \in Models

TypeInv == TypeOK /\ JobOK

LEMMA NoJobIsJob == NoJob \in Job
BY DEF NoJob, Asked, Job

LEMMA InitTypeInv == Init => TypeInv
<1> SUFFICES ASSUME Init PROVE TypeInv
  OBVIOUS
<1>1. TypeOK
  BY NoJobIsJob DEF Init, TypeOK
<1>2. JobOK
  BY DEF Init, JobOK
<1> QED
  BY <1>1, <1>2 DEF TypeInv

\* The labels a task goes to are labels.
LEMMA Labels ==
  ASSUME NEW t, NEW p
  PROVE  /\ AfterSwap(t) \in LoadPhases
         /\ AfterFree(p) \in SwapPhases
BY DEF AfterSwap, AfterFree, LoadPhases, SwapPhases

\* What is given up are loads of models by engines that load them.
LEMMA GivenUpTyped ==
  ASSUME TypeOK, NEW ts, GivenUp(ts),
         \A t \in ts : Eng(t) \in Loaders \cup Jit /\ job[t].model \in Models
  PROVE  late' \subseteq (Loaders \cup Jit) \X Models
BY DEF TypeOK, GivenUp

LEMMA JitLoadingTyped ==
  ASSUME TypeInv
  PROVE  \A t \in JitLoading : Eng(t) \in Loaders \cup Jit /\ job[t].model \in Models
BY DEF TypeInv, JobOK, JitLoading

LEMMA NextTypeInv == TypeInv /\ [Next]_vars => TypeInv'
<1> SUFFICES ASSUME TypeInv, [Next]_vars
             PROVE  TypeInv'
  OBVIOUS
<1> USE DEF TypeInv, TypeOK, JobOK, Eng, Holding, SwapPhases, LoadPhases, taskVars, swapVars, engineVars
<1>1. CASE UNCHANGED vars
  BY <1>1 DEF vars
<1>2. ASSUME NEW t \in Tasks, NEW m \in Models, Acquire(t, m)
      PROVE  TypeInv'
  BY <1>2, ModelsAssumption DEF Acquire, Call, Asked, Job
<1>3. ASSUME NEW t \in Tasks, NEW e \in Engines, NEW m \in Models \cup {NoModel},
             ForceSwap(t, e, m)
      PROVE  TypeInv'
  BY <1>3 DEF ForceSwap, Call, Asked, Job
<1>4. ASSUME NEW t \in Tasks, LockGranted(t)
      PROVE  TypeInv'
  <2> Eng(t) \in Engines /\ job[t].model \in Models \cup {NoModel}
    BY <1>4 DEF LockGranted, Job
  <2> QED
    BY <1>4 DEF LockGranted, AfterSwap, AfterFree
<1>5. ASSUME NEW t \in Tasks, HolderStep(t)
      PROVE  TypeInv'
  <2> Eng(t) \in Engines \cup {NoEngine} /\ job[t].model \in Models \cup {NoModel}
    BY DEF Job
  <2>1. CASE DrainEmpty(t) \/ DrainBlock(t) \/ DrainWoken(t) \/ DrainTimeout(t)
    BY <2>1 DEF DrainEmpty, DrainBlock, DrainWoken, DrainTimeout, BeginFree, InFlight
  <2>2. ASSUME NEW k \in todo, Freed(t, k)
        PROVE  TypeInv'
    BY <2>2 DEF Freed, AfterFree
  <2>3. CASE FreeFailed(t) \/ LaunchFailed(t) \/ StartTimeout(t)
    BY <2>3, NoJobIsJob DEF FreeFailed, LaunchFailed, StartTimeout, SwapFailed
  <2>4. CASE Settled(t)
    BY <2>4 DEF Settled
  <2>5. CASE AlreadyReady(t) \/ BecameReady(t)
    BY <2>5 DEF AlreadyReady, BecameReady, SwapDone, AfterSwap
  <2>6. CASE Launch(t)
    BY <2>6 DEF Launch
  <2>7. CASE \/ AlreadyLoaded(t) \/ NotLoaded(t)
             \/ LoadDrainEmpty(t) \/ LoadDrainBlock(t) \/ LoadDrainWoken(t)
             \/ LoadDrainTimeout(t)
    BY <2>7 DEF AlreadyLoaded, NotLoaded, LoadDrainEmpty, LoadDrainBlock, LoadDrainWoken,
                LoadDrainTimeout, Goto, InFlight
  <2>8. CASE Loaded(t)
    BY <2>8 DEF Loaded, Holds
  <2>9. CASE LoadFailed(t)
    <3>1. PICK m \in {loaded[Eng(t)], NoModel} : Holds(Eng(t), m)
      BY <2>9 DEF LoadFailed, LoadInterrupted
    <3>2. late' \subseteq (Loaders \cup Jit) \X Models
      BY <2>9, GivenUpTyped DEF LoadFailed, LoadInterrupted
    <3> QED
      BY <3>1, <3>2, <2>9, NoJobIsJob DEF LoadFailed, Leave, Holds
  <2>10. CASE Finish(t)
    BY <2>10 DEF Finish
  <2>11. CASE FinishForced(t)
    BY <2>11, NoJobIsJob DEF FinishForced, Leave
  <2> QED
    BY <1>5, <2>1, <2>2, <2>3, <2>4, <2>5, <2>6, <2>7, <2>8, <2>9, <2>10, <2>11
    DEF HolderStep
<1>6. ASSUME NEW t \in Tasks, Release(t)
      PROVE  TypeInv'
  <2>1. late' \subseteq (Loaders \cup Jit) \X Models
    BY <1>6, GivenUpTyped, JitLoadingTyped DEF Release
  <2> QED
    BY <2>1, <1>6, NoJobIsJob DEF Release
<1>7. ASSUME NEW t \in Tasks, CancelWaiting(t) \/ CancelSwap(t) \/ CancelLost(t)
      PROVE  TypeInv'
  BY <1>7, NoJobIsJob DEF CancelWaiting, CancelSwap, CancelLost, SwapFailed
<1>8. ASSUME NEW t \in Tasks, CancelLoad(t)
      PROVE  TypeInv'
  <2> Eng(t) \in Engines /\ job[t].model \in Models \cup {NoModel}
    BY <1>8 DEF CancelLoad, Job
  <2>1. CASE pc[t] = "load" /\ LoadInterrupted(t)
    <3>1. PICK m \in {loaded[Eng(t)], NoModel} : Holds(Eng(t), m)
      BY <2>1 DEF LoadInterrupted
    <3>2. late' \subseteq (Loaders \cup Jit) \X Models
      BY <2>1, GivenUpTyped DEF LoadInterrupted
    <3> QED
      BY <3>1, <3>2, <1>8, NoJobIsJob DEF CancelLoad, Leave, Holds
  <2>2. CASE UNCHANGED engineVars
    BY <2>2, <1>8, NoJobIsJob DEF CancelLoad, Leave
  <2> QED
    BY <2>1, <2>2, <1>8 DEF CancelLoad
<1>9. ASSUME NEW t \in Tasks, ServeLoads(t)
      PROVE  TypeInv'
  BY <1>9 DEF ServeLoads
<1>10. ASSUME NEW e \in Engines, ComesUp(e) \/ GoesDown(e)
       PROVE  TypeInv'
  BY <1>10 DEF ComesUp, GoesDown
<1>11. CASE Restart
  <2>1. late' \subseteq (Loaders \cup Jit) \X Models
    BY <1>11, GivenUpTyped, JitLoadingTyped DEF Restart
  <2> QED
    BY <2>1, <1>11, NoJobIsJob DEF Restart
<1>12. ASSUME NEW e \in Engines, NEW m \in Models, LateLoad(e, m)
       PROVE  TypeInv'
  <2>1. \A t \in Tasks : /\ job'[t] \in Job
                         /\ job'[t].eng = job[t].eng /\ job'[t].model = job[t].model
                         /\ job'[t].counted = job[t].counted
    BY <1>12 DEF LateLoad, Job
  <2>2. job' \in [Tasks -> Job]
    BY <2>1, <1>12 DEF LateLoad
  <2> QED
    BY <2>1, <2>2, <1>12 DEF LateLoad
<1> QED
  BY <1>1, <1>2, <1>3, <1>4, <1>5, <1>6, <1>7, <1>8, <1>9, <1>10, <1>11, <1>12
  DEF Next, TaskStep

\* Every variable of the swap state machine keeps its type.
THEOREM TypeCorrect == Spec => []TypeOK
<1>1. TypeInv => TypeOK
  BY DEF TypeInv
<1> QED
  BY <1>1, InitTypeInv, NextTypeInv, PTL DEF Spec

-----------------------------------------------------------------------------
(* The in-flight accounting *)

\* A step that counts no request and releases none.
KeepsServing ==
  /\ inflight' = inflight
  /\ \A t \in Tasks : /\ pc'[t] = "serving" <=> pc[t] = "serving"
                      /\ pc[t] = "serving" => Eng(t)' = Eng(t)

LEMMA StepKinds ==
  ASSUME TypeInv, [Next]_vars
  PROVE  \/ KeepsServing
         \/ Restart
         \/ \E t \in Tasks : Finish(t) \/ Release(t)
<1> USE DEF TypeInv, TypeOK, KeepsServing, Holding, SwapPhases, LoadPhases, Eng,
            taskVars, swapVars
<1>1. CASE UNCHANGED vars
  BY <1>1 DEF vars
<1>2. ASSUME NEW t \in Tasks, NEW j, Call(t, j)
      PROVE  KeepsServing
  BY <1>2 DEF Call
<1>3. ASSUME NEW t \in Tasks, LockGranted(t)
      PROVE  KeepsServing
  BY <1>3, Labels DEF LockGranted
<1>4. ASSUME NEW t \in Tasks, HolderStep(t), ~Finish(t)
      PROVE  KeepsServing
  <2>1. CASE DrainEmpty(t) \/ DrainBlock(t) \/ DrainWoken(t) \/ DrainTimeout(t)
    BY <2>1 DEF DrainEmpty, DrainBlock, DrainWoken, DrainTimeout, BeginFree
  <2>2. ASSUME NEW k \in todo, Freed(t, k)
        PROVE  KeepsServing
    BY <2>2, Labels DEF Freed
  <2>3. CASE FreeFailed(t) \/ LaunchFailed(t) \/ StartTimeout(t)
    BY <2>3 DEF FreeFailed, LaunchFailed, StartTimeout, SwapFailed
  <2>4. CASE Settled(t) \/ Launch(t)
    BY <2>4 DEF Settled, Launch
  <2>5. CASE AlreadyReady(t) \/ BecameReady(t)
    BY <2>5, Labels DEF AlreadyReady, BecameReady, SwapDone
  <2>6. CASE \/ AlreadyLoaded(t) \/ NotLoaded(t)
             \/ LoadDrainEmpty(t) \/ LoadDrainBlock(t) \/ LoadDrainWoken(t)
             \/ LoadDrainTimeout(t)
    BY <2>6 DEF AlreadyLoaded, NotLoaded, LoadDrainEmpty, LoadDrainBlock, LoadDrainWoken,
                LoadDrainTimeout, Goto
  <2>7. CASE Loaded(t)
    BY <2>7 DEF Loaded
  <2>8. CASE LoadFailed(t) \/ FinishForced(t)
    BY <2>8 DEF LoadFailed, FinishForced, Leave
  <2> QED
    BY <1>4, <2>1, <2>2, <2>3, <2>4, <2>5, <2>6, <2>7, <2>8 DEF HolderStep
<1>5. ASSUME NEW t \in Tasks,
             CancelWaiting(t) \/ CancelSwap(t) \/ CancelLoad(t) \/ CancelLost(t)
      PROVE  KeepsServing
  BY <1>5 DEF CancelWaiting, CancelSwap, CancelLoad, CancelLost, SwapFailed, Leave
<1>6. ASSUME NEW t \in Tasks, ServeLoads(t)
      PROVE  KeepsServing
  BY <1>6 DEF ServeLoads
<1>7. ASSUME NEW e \in Engines, ComesUp(e) \/ GoesDown(e)
      PROVE  KeepsServing
  BY <1>7 DEF ComesUp, GoesDown
<1>8. ASSUME NEW e \in Engines, NEW m \in Models, LateLoad(e, m)
      PROVE  KeepsServing
  BY <1>8 DEF LateLoad, Job
<1> QED
  BY <1>1, <1>2, <1>3, <1>4, <1>5, <1>6, <1>7, <1>8
  DEF Next, TaskStep, Acquire, ForceSwap

LEMMA InFlightFinite ==
  ASSUME NEW e
  PROVE  IsFiniteSet(InFlight(e)) /\ Cardinality(InFlight(e)) \in Nat
BY TasksAssumption, FS_Subset, FS_CardinalityType DEF InFlight

LEMMA NextInflightExact ==
  ASSUME TypeInv, InflightExact, [Next]_vars
  PROVE  InflightExact'
<1> SUFFICES ASSUME NEW e \in Engines
             PROVE  inflight'[e] = Cardinality(InFlight(e)')
  BY DEF InflightExact
<1> USE DEF TypeInv, TypeOK
<1>0. inflight[e] = Cardinality(InFlight(e))
  BY DEF InflightExact
<1>1. CASE KeepsServing
  <2>1. InFlight(e)' = InFlight(e)
    BY <1>1 DEF KeepsServing, InFlight, Eng
  <2> QED
    BY <2>1, <1>1, <1>0 DEF KeepsServing
<1>2. CASE Restart
  <2>1. InFlight(e)' = {}
    BY <1>2 DEF Restart, InFlight
  <2> QED
    BY <2>1, <1>2, FS_EmptySet DEF Restart
<1>3. ASSUME NEW t \in Tasks, Finish(t)
      PROVE  inflight'[e] = Cardinality(InFlight(e)')
  <2>1. CASE Eng(t) = e
    <3>1. InFlight(e)' = InFlight(e) \cup {t} /\ t \notin InFlight(e)
      BY <1>3, <2>1 DEF Finish, InFlight, Eng
    <3>2. inflight'[e] = inflight[e] + 1
      BY <1>3, <2>1 DEF Finish
    <3>3. Cardinality(InFlight(e) \cup {t}) = Cardinality(InFlight(e)) + 1
      <4>1. IsFiniteSet(InFlight(e))
        BY InFlightFinite
      <4> QED
        BY <4>1, <3>1, FS_AddElement
    <3> QED
      BY <3>1, <3>2, <3>3, <1>0
  <2>2. CASE Eng(t) # e
    <3>1. InFlight(e)' = InFlight(e)
      BY <1>3, <2>2 DEF Finish, InFlight, Eng
    <3>2. inflight'[e] = inflight[e]
      BY <1>3, <2>2 DEF Finish
    <3> QED
      BY <3>1, <3>2, <1>0
  <2> QED
    BY <2>1, <2>2
<1>4. ASSUME NEW t \in Tasks, Release(t)
      PROVE  inflight'[e] = Cardinality(InFlight(e)')
  <2>1. CASE Eng(t) = e
    <3>1. InFlight(e)' = InFlight(e) \ {t} /\ t \in InFlight(e)
      BY <1>4, <2>1 DEF Release, InFlight, Eng
    <3> IsFiniteSet(InFlight(e)) /\ Cardinality(InFlight(e)) \in Nat
      BY InFlightFinite
    <3>2. Cardinality(InFlight(e) \ {t}) = Cardinality(InFlight(e)) - 1
      BY <3>1, FS_RemoveElement
    <3>3. inflight[e] > 0
      BY <3>1, <1>0, FS_EmptySet
    <3>4. inflight'[e] = inflight[e] - 1
      BY <1>4, <2>1, <3>3 DEF Release
    <3> QED
      BY <3>1, <3>2, <3>4, <1>0
  <2>2. CASE Eng(t) # e
    <3>1. InFlight(e)' = InFlight(e)
      BY <1>4, <2>2 DEF Release, InFlight, Eng
    <3>2. inflight'[e] = inflight[e]
      BY <1>4, <2>2 DEF Release
    <3> QED
      BY <3>1, <3>2, <1>0
  <2> QED
    BY <2>1, <2>2
<1> QED
  BY <1>1, <1>2, <1>3, <1>4, StepKinds

LEMMA InitInflightExact == Init => InflightExact
<1> SUFFICES ASSUME Init, NEW e \in Engines
             PROVE  inflight[e] = Cardinality(InFlight(e))
  BY DEF InflightExact
<1>1. InFlight(e) = {}
  BY DEF Init, InFlight
<1> QED
  BY <1>1, FS_EmptySet DEF Init

\* The in-flight counter of every engine is the number of requests it stands for.
THEOREM InflightAccounting == Spec => []InflightExact
BY InitTypeInv, NextTypeInv, InitInflightExact, NextInflightExact, PTL DEF Spec

-----------------------------------------------------------------------------
(* Exclusive use of the GPU: the inductive invariant *)

\* The lock is held by the task that is past it.
LockInv == \A t \in Tasks : pc[t] \in Holding <=> lock = t

\* What holds of the marker, of memory, and of the requests being served.
GpuInv ==
  /\ active # NoEngine => resident \ stray \subseteq {active}
  /\ \A t \in Tasks : Served(t) => active \in {NoEngine, Eng(t)}
  /\ \A s, t \in Tasks : Served(s) /\ Served(t) => Eng(s) = Eng(t)

\* Half-way through a swap by h: what was freed stays free (or comes back stray), and
\* whoever is served is on an engine that h has still to drain, or on h's own.  The
\* engine of the marker is still to be drained.
SwapInv ==
  \A h \in Tasks :
    /\ pc[h] \in SwapPhases =>
         /\ resident \ stray \subseteq todo \cup {Eng(h)}
         /\ \A t \in Tasks : Served(t) => Eng(t) \in todo \cup {Eng(h)}
         /\ active \in todo \cup {NoEngine}
    /\ pc[h] = "free" => \A t \in Tasks : Served(t) => ~IsFirst(Eng(t), todo)
    /\ pc[h] \in {"free", "settle", "start", "waitReady"} => active = NoEngine
    /\ pc[h] \in {"settle", "start", "waitReady"} => todo = {}

\* Half-way through an explicit load by h: its engine has the GPU, and nobody is
\* served while the model changes.
LoadInv ==
  \A h \in Tasks :
    /\ pc[h] \in LoadPhases => active = Eng(h)
    /\ pc[h] = "load" => \A t \in Tasks : ~Served(t)
    /\ pc[h] = "finish" /\ Eng(h) \in Loaders /\ job[h].model # NoModel
         /\ ~job[h].overtaken =>
         loaded[Eng(h)] \in {job[h].model, NoModel}

IInv == TypeInv /\ InflightExact /\ LockInv /\ GpuInv /\ ServedAlone /\ SwapInv
          /\ LoadInv /\ ModelStable

LEMMA InitIInv == Init => IInv
<1> SUFFICES ASSUME Init PROVE IInv
  OBVIOUS
<1>1. LockInv
  BY TasksAssumption DEF Init, LockInv, Holding, SwapPhases, LoadPhases
<1>2. GpuInv /\ ServedAlone /\ ModelStable
  BY DEF Init, GpuInv, ServedAlone, ModelStable, Served
<1>3. SwapInv /\ LoadInv
  BY DEF Init, SwapInv, LoadInv, SwapPhases, LoadPhases
<1> QED
  BY <1>1, <1>2, <1>3, InitTypeInv, InitInflightExact DEF IInv

LEMMA NextLockInv ==
  ASSUME TypeInv, LockInv, [Next]_vars
  PROVE  LockInv'
<1> USE TasksAssumption
    DEF TypeInv, TypeOK, LockInv, Holding, SwapPhases, LoadPhases, taskVars, swapVars
<1>1. CASE UNCHANGED vars
  BY <1>1 DEF vars
<1>2. ASSUME NEW t \in Tasks, NEW j, Call(t, j)
      PROVE  LockInv'
  BY <1>2 DEF Call
<1>3. ASSUME NEW t \in Tasks, LockGranted(t)
      PROVE  LockInv'
  BY <1>3, Labels DEF LockGranted
<1>4. ASSUME NEW t \in Tasks, HolderStep(t)
      PROVE  LockInv'
  <2>1. CASE DrainEmpty(t) \/ DrainBlock(t) \/ DrainWoken(t) \/ DrainTimeout(t)
    BY <2>1 DEF DrainEmpty, DrainBlock, DrainWoken, DrainTimeout, BeginFree
  <2>2. ASSUME NEW k \in todo, Freed(t, k)
        PROVE  LockInv'
    BY <2>2, Labels DEF Freed
  <2>3. CASE FreeFailed(t) \/ LaunchFailed(t) \/ StartTimeout(t)
    BY <2>3 DEF FreeFailed, LaunchFailed, StartTimeout, SwapFailed
  <2>4. CASE Settled(t) \/ Launch(t)
    BY <2>4 DEF Settled, Launch
  <2>5. CASE AlreadyReady(t) \/ BecameReady(t)
    BY <2>5, Labels DEF AlreadyReady, BecameReady, SwapDone
  <2>6. CASE \/ AlreadyLoaded(t) \/ NotLoaded(t)
             \/ LoadDrainEmpty(t) \/ LoadDrainBlock(t) \/ LoadDrainWoken(t)
             \/ LoadDrainTimeout(t)
    BY <2>6 DEF AlreadyLoaded, NotLoaded, LoadDrainEmpty, LoadDrainBlock, LoadDrainWoken,
                LoadDrainTimeout, Goto
  <2>7. CASE Loaded(t)
    BY <2>7 DEF Loaded
  <2>8. CASE LoadFailed(t) \/ Finish(t) \/ FinishForced(t)
    BY <2>8 DEF LoadFailed, Finish, FinishForced, Leave
  <2> QED
    BY <1>4, <2>1, <2>2, <2>3, <2>4, <2>5, <2>6, <2>7, <2>8 DEF HolderStep
<1>5. ASSUME NEW t \in Tasks,
             CancelWaiting(t) \/ CancelSwap(t) \/ CancelLoad(t) \/ CancelLost(t)
      PROVE  LockInv'
  BY <1>5 DEF CancelWaiting, CancelSwap, CancelLoad, CancelLost, SwapFailed, Leave
<1>6. ASSUME NEW t \in Tasks, ServeLoads(t) \/ Release(t)
      PROVE  LockInv'
  BY <1>6 DEF ServeLoads, Release
<1>7. ASSUME NEW e \in Engines, ComesUp(e) \/ GoesDown(e)
      PROVE  LockInv'
  BY <1>7 DEF ComesUp, GoesDown
<1>8. CASE Restart
  BY <1>8 DEF Restart
<1>9. ASSUME NEW e \in Engines, NEW m \in Models, LateLoad(e, m)
      PROVE  LockInv'
  BY <1>9 DEF LateLoad
<1> QED
  BY <1>1, <1>2, <1>3, <1>4, <1>5, <1>6, <1>7, <1>8, <1>9
  DEF Next, TaskStep, Acquire, ForceSwap

\* An engine whose counter is zero serves no request.
LEMMA NoneInFlight ==
  ASSUME InflightExact, NEW e \in Engines, inflight[e] = 0
  PROVE  \A t \in Tasks : pc[t] = "serving" => Eng(t) # e
<1>1. InFlight(e) = {}
  BY InFlightFinite, FS_EmptySet DEF InflightExact
<1> QED
  BY <1>1 DEF InFlight

\* Two engines cannot both come first.
LEMMA FirstIsUnique ==
  ASSUME NEW e \in Engines, NEW f \in Engines, NEW S, IsFirst(e, S), IsFirst(f, S)
  PROVE  e = f
<1>1. Position[e] <= Position[f] /\ Position[f] <= Position[e]
  BY DEF IsFirst
<1>2. Position[e] \in Nat /\ Position[f] \in Nat
  BY PositionAssumption
<1>3. Position[e] = Position[f]
  BY <1>1, <1>2
<1> QED
  BY <1>3, PositionAssumption

\* What a load that was given up brings into memory is stray, or of the active engine.
LEMMA LateIsStray ==
  ASSUME NEW e, NEW m, LateLoad(e, m)
  PROVE  resident' \ stray' \subseteq (resident \ stray) \cup ({active} \cap {e})
BY DEF LateLoad

ExclInv == GpuInv /\ ServedAlone /\ SwapInv /\ LoadInv /\ ModelStable

LEMMA NextExclInv ==
  ASSUME IInv, TypeInv', LockInv', [Next]_vars
  PROVE  ExclInv'
<1> USE DEF IInv, ExclInv, TypeInv, TypeOK, JobOK, LockInv, GpuInv, ServedAlone, SwapInv,
            LoadInv, ModelStable, Served, Eng, Holding, SwapPhases, LoadPhases,
            taskVars, swapVars, engineVars
<1>1. CASE UNCHANGED vars
  BY <1>1 DEF vars
<1>2. ASSUME NEW t \in Tasks, NEW j, Call(t, j)
      PROVE  ExclInv'
  BY <1>2 DEF Call
<1>3. ASSUME NEW t \in Tasks, LockGranted(t)
      PROVE  ExclInv'
  BY <1>3 DEF LockGranted, AfterSwap, AfterFree
<1>4. ASSUME NEW t \in Tasks, HolderStep(t)
      PROVE  ExclInv'
  <2>1. CASE DrainEmpty(t) \/ DrainWoken(t)
    BY <2>1, NoneInFlight, FirstIsUnique DEF DrainEmpty, DrainWoken, BeginFree
  <2>2. CASE DrainBlock(t)
    BY <2>2 DEF DrainBlock
  <2>3. CASE DrainTimeout(t)
    BY <2>3, FirstIsUnique DEF DrainTimeout, BeginFree, InFlight
  <2>4. ASSUME NEW k \in todo, Freed(t, k)
        PROVE  ExclInv'
    BY <2>4 DEF Freed, AfterFree
  <2>5. CASE FreeFailed(t) \/ LaunchFailed(t) \/ StartTimeout(t)
    BY <2>5 DEF FreeFailed, LaunchFailed, StartTimeout, SwapFailed
  <2>6. CASE Settled(t)
    BY <2>6 DEF Settled
  <2>7. CASE Launch(t)
    BY <2>7 DEF Launch
  <2>8. CASE AlreadyReady(t) \/ BecameReady(t)
    BY <2>8 DEF AlreadyReady, BecameReady, SwapDone, AfterSwap
  <2>9. CASE AlreadyLoaded(t) \/ NotLoaded(t) \/ LoadDrainBlock(t)
    BY <2>9 DEF AlreadyLoaded, NotLoaded, LoadDrainBlock, Goto
  <2>10. CASE LoadDrainEmpty(t) \/ LoadDrainWoken(t)
    <3>1. active = Eng(t) /\ Eng(t) \in Engines /\ inflight[Eng(t)] = 0
      BY <2>10 DEF LoadDrainEmpty, LoadDrainWoken
    <3>2. \A s \in Tasks : ~Served(s)
      BY <3>1, NoneInFlight, EnginesAssumption
    <3> QED
      BY <2>10, <3>2 DEF LoadDrainEmpty, LoadDrainWoken, Goto
  <2>11. CASE LoadDrainTimeout(t)
    <3>1. active = Eng(t) /\ Eng(t) \in Engines
      BY <2>11 DEF LoadDrainTimeout
    <3>2. \A s \in Tasks : Served(s) => s \in InFlight(Eng(t))
      BY <3>1, EnginesAssumption DEF InFlight
    <3>3. \A s \in Tasks : ~Served(s)'
      BY <3>2, <2>11 DEF LoadDrainTimeout, Goto
    <3> QED
      BY <2>11, <3>3 DEF LoadDrainTimeout, Goto
  <2>12. CASE Loaded(t)
    BY <2>12 DEF Loaded, Holds
  <2>13. CASE LoadFailed(t)
    BY <2>13 DEF LoadFailed, Leave, LoadInterrupted, Holds
  <2>14. CASE Finish(t)
    <3>1. active = Eng(t) /\ Eng(t) \in Engines /\ job[t].model \in Models /\ lock = t
      BY <2>14 DEF Finish
    <3>2. \A s \in Tasks : Served(s)' => s = t \/ Served(s)
      BY <2>14 DEF Finish
    <3>3. \A s \in Tasks : Served(s)' => Eng(s) = Eng(t)
      BY <3>1, <3>2, EnginesAssumption
    <3>4. GpuInv' /\ ServedAlone'
      BY <3>1, <3>3, <2>14, EnginesAssumption DEF Finish
    <3>5. SwapInv' /\ LoadInv'
      BY <3>1, <2>14 DEF Finish
    <3>6. ModelStable'
      BY <3>1, <3>2, <2>14, ModelsAssumption DEF Finish
    <3> QED
      BY <3>4, <3>5, <3>6
  <2>15. CASE FinishForced(t)
    BY <2>15 DEF FinishForced, Leave
  <2> QED
    BY <1>4, <2>1, <2>2, <2>3, <2>4, <2>5, <2>6, <2>7, <2>8, <2>9, <2>10, <2>11, <2>12,
       <2>13, <2>14, <2>15
    DEF HolderStep
<1>5. ASSUME NEW t \in Tasks, Release(t)
      PROVE  ExclInv'
  BY <1>5 DEF Release
<1>6. ASSUME NEW t \in Tasks, CancelWaiting(t) \/ CancelSwap(t) \/ CancelLost(t)
      PROVE  ExclInv'
  BY <1>6 DEF CancelWaiting, CancelSwap, CancelLost, SwapFailed
<1>7. ASSUME NEW t \in Tasks, CancelLoad(t)
      PROVE  ExclInv'
  BY <1>7 DEF CancelLoad, Leave, LoadInterrupted, Holds
<1>8. ASSUME NEW t \in Tasks, ServeLoads(t)
      PROVE  ExclInv'
  BY <1>8 DEF ServeLoads
<1>9. ASSUME NEW e \in Engines, ComesUp(e) \/ GoesDown(e)
      PROVE  ExclInv'
  BY <1>9 DEF ComesUp, GoesDown
<1>10. CASE Restart
  BY <1>10 DEF Restart
<1>11. ASSUME NEW e \in Engines, NEW m \in Models, LateLoad(e, m)
       PROVE  ExclInv'
  <2>1. \A t \in Tasks :
          /\ job'[t].eng = job[t].eng /\ job'[t].model = job[t].model
          /\ ~job'[t].overtaken => ~job[t].overtaken
          /\ pc[t] \in {"finish", "serving"} /\ Eng(t) = e /\ e \in Loaders
               /\ ~job'[t].overtaken => job[t].model = m
    BY <1>11 DEF LateLoad, Job
  <2>2. \A t \in Tasks : Served(t)' = Served(t)
    BY <1>11 DEF LateLoad
  <2>3. resident' \ stray' \subseteq (resident \ stray) \cup ({active} \cap {e})
    BY <1>11, LateIsStray
  <2>4. GpuInv' /\ ServedAlone'
    BY <2>1, <2>2, <2>3, <1>11, EnginesAssumption DEF LateLoad
  <2>5. SwapInv'
    BY <2>1, <2>2, <2>3, <1>11, EnginesAssumption DEF LateLoad
  <2>6. LoadInv' /\ ModelStable'
    BY <2>1, <2>2, <1>11 DEF LateLoad
  <2> QED
    BY <2>4, <2>5, <2>6
<1> QED
  BY <1>1, <1>2, <1>3, <1>4, <1>5, <1>6, <1>7, <1>8, <1>9, <1>10, <1>11
  DEF Next, TaskStep, Acquire, ForceSwap

LEMMA NextIInv == IInv /\ [Next]_vars => IInv'
<1> SUFFICES ASSUME IInv, [Next]_vars PROVE IInv'
  OBVIOUS
<1>1. TypeInv /\ InflightExact /\ LockInv
  BY DEF IInv
<1>2. TypeInv' /\ InflightExact' /\ LockInv'
  BY <1>1, NextTypeInv, NextInflightExact, NextLockInv
<1>3. ExclInv'
  BY <1>2, NextExclInv
<1> QED
  BY <1>2, <1>3 DEF IInv, ExclInv

LEMMA InductiveInvariant == Spec => []IInv
BY InitIInv, NextIInv, PTL DEF Spec

\* A request that no drain has given up has the GPU for its engine.
THEOREM ServedExclusively == Spec => []ServedAlone
<1>1. IInv => ServedAlone
  BY DEF IInv
<1> QED
  BY <1>1, InductiveInvariant, PTL

\* No engine is started over another one that still holds memory.
THEOREM StartedExclusively == Spec => []StartsAlone
<1>1. IInv => StartsAlone
  BY DEF IInv, SwapInv, StartsAlone, SwapPhases
<1> QED
  BY <1>1, InductiveInvariant, PTL

\* A request being served keeps the model it was loaded for, as far as it lies with
\* the router: a service may end a load that the router gave up.
THEOREM ModelKept == Spec => []ModelStable
<1>1. IInv => ModelStable
  BY DEF IInv
<1> QED
  BY <1>1, InductiveInvariant, PTL

-----------------------------------------------------------------------------
(* The active marker *)

LEMMA DetectedIsReady ==
  ASSUME NEW a \in Process, NEW res, NEW rdy, Detected(a, res, rdy)
  PROVE  a \in rdy
BY EnginesAssumption DEF Detected, IsFirst

LEMMA NextActiveWasReady ==
  ASSUME IInv, ActiveWasReady, [Next]_vars
  PROVE  ActiveWasReady'
<1> USE EnginesAssumption
    DEF IInv, ActiveWasReady, TypeInv, TypeOK, SwapInv, taskVars, swapVars, engineVars
<1>1. CASE UNCHANGED <<active, ready, exited>>
  BY <1>1
<1>2. CASE active' = NoEngine
  BY <1>2
<1>3. ASSUME NEW t \in Tasks, HolderStep(t)
      PROVE  ActiveWasReady'
  <2>1. CASE DrainEmpty(t) \/ DrainWoken(t) \/ DrainTimeout(t)
    BY <2>1, <1>2 DEF DrainEmpty, DrainWoken, DrainTimeout, BeginFree
  <2>2. ASSUME NEW k \in todo, Freed(t, k)
        PROVE  ActiveWasReady'
    BY <2>2, <1>2 DEF Freed
  <2>3. CASE FreeFailed(t) \/ LaunchFailed(t) \/ StartTimeout(t)
    BY <2>3, <1>2 DEF FreeFailed, LaunchFailed, StartTimeout, SwapFailed
  <2>4. CASE AlreadyReady(t) \/ BecameReady(t)
    BY <2>4 DEF AlreadyReady, BecameReady, SwapDone
  <2>5. CASE Launch(t)
    BY <2>5, <1>2 DEF Launch
  <2>6. CASE DrainBlock(t) \/ Settled(t) \/ AlreadyLoaded(t) \/ NotLoaded(t)
             \/ LoadDrainEmpty(t) \/ LoadDrainBlock(t) \/ LoadDrainWoken(t)
             \/ LoadDrainTimeout(t)
    BY <2>6 DEF DrainBlock, Settled, AlreadyLoaded, NotLoaded, LoadDrainEmpty,
                LoadDrainBlock, LoadDrainWoken, LoadDrainTimeout, Goto
  <2>7. CASE Loaded(t) \/ LoadFailed(t) \/ Finish(t) \/ FinishForced(t)
    BY <2>7 DEF Loaded, LoadFailed, LoadInterrupted, Holds, Finish, FinishForced, Leave
  <2> QED
    BY <1>3, <2>1, <2>2, <2>3, <2>4, <2>5, <2>6, <2>7 DEF HolderStep
<1>4. ASSUME NEW t \in Tasks, TaskStep(t), ~HolderStep(t)
      PROVE  ActiveWasReady'
  <2>1. CASE CancelSwap(t)
    BY <2>1, <1>2 DEF CancelSwap, SwapFailed
  <2>2. CASE CancelLoad(t)
    BY <2>2 DEF CancelLoad, LoadInterrupted, Holds, Leave
  <2>3. CASE LockGranted(t)
    BY <2>3 DEF LockGranted
  <2>4. CASE CancelWaiting(t) \/ CancelLost(t) \/ ServeLoads(t) \/ Release(t)
    BY <2>4 DEF CancelWaiting, CancelLost, ServeLoads, Release
  <2> QED
    BY <1>4, <2>1, <2>2, <2>3, <2>4 DEF TaskStep, Acquire, ForceSwap, Call
<1>5. ASSUME NEW e \in Engines, ComesUp(e) \/ GoesDown(e)
      PROVE  ActiveWasReady'
  BY <1>5 DEF ComesUp, GoesDown
<1>7. ASSUME NEW e \in Engines, NEW m \in Models, LateLoad(e, m)
      PROVE  ActiveWasReady'
  BY <1>7 DEF LateLoad
<1>6. CASE Restart
  <2>1. Detected(active', resident, ready) /\ ready' = ready
    BY <1>6 DEF Restart
  <2> QED
    BY <2>1, DetectedIsReady
<1> QED
  BY <1>1, <1>3, <1>4, <1>5, <1>6, <1>7 DEF Next, vars

\* The marker is never left on a process engine the router has stopped.
THEOREM MarkerIsTrue == Spec => []ActiveWasReady
<1>1. Init => ActiveWasReady
  BY DetectedIsReady DEF Init, ActiveWasReady
<1>2. ActiveWasReady /\ IInv /\ [Next]_vars => ActiveWasReady'
  BY NextActiveWasReady
<1> QED
  BY <1>1, <1>2, InductiveInvariant, PTL DEF Spec

-----------------------------------------------------------------------------
(* How an engine comes into memory *)

TakesAloneStep ==
  \A e \in resident' \ resident : e \notin stray' => resident \ stray \subseteq {e}

LEMMA StepTakesAlone ==
  ASSUME IInv, [Next]_vars
  PROVE  TakesAloneStep
<1> USE DEF IInv, TakesAloneStep, TypeInv, TypeOK, taskVars, swapVars, engineVars
<1>1. CASE resident' \subseteq resident
  BY <1>1
<1>2. ASSUME NEW t \in Tasks, HolderStep(t)
      PROVE  TakesAloneStep
  <2>1. CASE Launch(t)
    BY <2>1 DEF Launch, SwapInv, SwapPhases
  <2>2. CASE Loaded(t) \/ LoadFailed(t)
    <3>1. active = Eng(t) /\ Eng(t) \in Engines
      BY <2>2 DEF Loaded, LoadFailed, LoadInv, LoadPhases, JobOK
    <3>2. resident' \subseteq resident \cup {Eng(t)}
      BY <2>2 DEF Loaded, LoadFailed, LoadInterrupted, Holds
    <3> QED
      BY <3>1, <3>2, EnginesAssumption DEF GpuInv
  <2>3. CASE \E k \in todo : Freed(t, k)
    BY <2>3, <1>1 DEF Freed
  <2>4. CASE FreeFailed(t) \/ LaunchFailed(t) \/ StartTimeout(t) \/ Settled(t)
    BY <2>4, <1>1 DEF FreeFailed, LaunchFailed, StartTimeout, Settled
  <2>5. CASE AlreadyReady(t) \/ BecameReady(t)
    BY <2>5, <1>1 DEF AlreadyReady, BecameReady, SwapDone
  <2>6. CASE DrainEmpty(t) \/ DrainBlock(t) \/ DrainWoken(t) \/ DrainTimeout(t)
    BY <2>6, <1>1 DEF DrainEmpty, DrainBlock, DrainWoken, DrainTimeout, BeginFree
  <2>7. CASE AlreadyLoaded(t) \/ NotLoaded(t)
             \/ LoadDrainEmpty(t) \/ LoadDrainBlock(t) \/ LoadDrainWoken(t)
             \/ LoadDrainTimeout(t)
    BY <2>7, <1>1 DEF AlreadyLoaded, NotLoaded, LoadDrainEmpty, LoadDrainBlock,
                      LoadDrainWoken, LoadDrainTimeout, Goto
  <2>8. CASE Finish(t) \/ FinishForced(t)
    BY <2>8, <1>1 DEF Finish, FinishForced
  <2> QED
    BY <1>2, <2>1, <2>2, <2>3, <2>4, <2>5, <2>6, <2>7, <2>8 DEF HolderStep
<1>3. ASSUME NEW t \in Tasks, TaskStep(t), ~HolderStep(t)
      PROVE  TakesAloneStep
  <2>1. CASE ServeLoads(t)
    BY <2>1 DEF ServeLoads, ServedAlone, Served
  <2>2. CASE CancelLoad(t)
    <3>1. CASE resident' = resident
      BY <3>1, <1>1
    <3>2. CASE pc[t] = "load"
      <4>1. active = Eng(t) /\ Eng(t) \in Engines
        BY <3>2 DEF LoadInv, LoadPhases, JobOK
      <4>2. resident' \subseteq resident \cup {Eng(t)}
        BY <2>2, <3>2 DEF CancelLoad, LoadInterrupted, Holds
      <4> QED
        BY <4>1, <4>2, EnginesAssumption DEF GpuInv
    <3> QED
      BY <3>1, <3>2, <2>2 DEF CancelLoad
  <2>3. CASE LockGranted(t) \/ Release(t) \/ CancelWaiting(t) \/ CancelSwap(t) \/ CancelLost(t)
    BY <2>3, <1>1 DEF LockGranted, Release, CancelWaiting, CancelSwap, CancelLost
  <2> QED
    BY <1>1, <1>3, <2>1, <2>2, <2>3 DEF TaskStep, Acquire, ForceSwap, Call
<1>4. ASSUME NEW e \in Engines, ComesUp(e) \/ GoesDown(e)
      PROVE  TakesAloneStep
  BY <1>4, <1>1 DEF ComesUp, GoesDown
<1>5. ASSUME NEW e \in Engines, NEW m \in Models, LateLoad(e, m)
      PROVE  TakesAloneStep
  BY <1>5, EnginesAssumption DEF LateLoad, GpuInv
<1> QED
  BY <1>1, <1>2, <1>3, <1>4, <1>5 DEF Next, Restart, vars

\* An engine comes into GPU memory only when no other is there, or by a load that was
\* given up.
THEOREM TakenAlone == Spec => TakesAlone
<1>1. IInv /\ [Next]_vars => [TakesAloneStep]_vars
  BY StepTakesAlone
<1>2. Spec => [][TakesAloneStep]_vars
  BY <1>1, InductiveInvariant, PTL DEF Spec
<1> QED
  BY <1>2 DEF TakesAlone, TakesAloneStep

-----------------------------------------------------------------------------
(* The manager implements the lease *)

LEMMA StepImplementsLease ==
  ASSUME IInv, [Next]_vars
  PROVE  [Lease!Next]_(Lease!vars)
<1> USE EnginesAssumption
    DEF IInv, TypeInv, TypeOK, JobOK, Eng, Holding, SwapPhases, LoadPhases,
        taskVars, swapVars, engineVars, Lease!vars
<1>1. CASE KeepsServing /\ UNCHANGED <<active, severed>>
  BY <1>1 DEF KeepsServing
<1>2. ASSUME KeepsServing, active' = NoEngine, UNCHANGED severed
      PROVE  Lease!Next
  BY <1>2 DEF KeepsServing, Lease!Next, Lease!Revoke
<1>3. ASSUME NEW e \in Engines, KeepsServing,
             severed' = severed \cup InFlight(e), active' \in {active, NoEngine}
      PROVE  Lease!Next
  <2>1. Lease!Kept(e) = InFlight(e) \ severed
    BY DEF Lease!Kept, InFlight
  <2>2. Lease!Evict(e)
    BY <1>3, <2>1 DEF KeepsServing, Lease!Evict
  <2> QED
    BY <2>2 DEF Lease!Next
<1>4. ASSUME NEW t \in Tasks, Finish(t)
      PROVE  Lease!Next
  <2>1. active = Eng(t) /\ Eng(t) \in Engines
    BY <1>4 DEF Finish, LoadInv
  <2>2. Lease!Admit(t)
    BY <1>4, <2>1 DEF Finish, Lease!Admit
  <2> QED
    BY <2>2 DEF Lease!Next
<1>5. ASSUME NEW t \in Tasks, Release(t)
      PROVE  Lease!Next
  <2> DEFINE used == [s \in Tasks |-> IF pc[s] = "serving" THEN Eng(s) ELSE NoEngine]
  <2>1. /\ pc[t] = "serving" /\ Eng(t) \in Engines /\ NoEngine \notin Engines
        /\ pc' = [pc EXCEPT ![t] = "idle"] /\ job' = [job EXCEPT ![t] = NoJob]
        /\ severed' = severed \ {t} /\ active' = active
    BY <1>5 DEF Release
  <2>2. pc'[t] = "idle" /\ \A s \in Tasks \ {t} : pc'[s] = pc[s] /\ Eng(s)' = Eng(s)
    BY <2>1
  <2>3. used' = [used EXCEPT ![t] = NoEngine]
    BY <2>2
  <2>4. Lease!Leave(t)
    BY <2>1, <2>3 DEF Lease!Leave
  <2> QED
    BY <2>4 DEF Lease!Next
<1>6. ASSUME Restart
      PROVE  Lease!Next
  <2>1. Lease!Restart
    BY <1>6 DEF Restart, Lease!Restart
  <2> QED
    BY <2>1 DEF Lease!Next
<1>7. ASSUME NEW t \in Tasks, AlreadyReady(t) \/ BecameReady(t), KeepsServing
      PROVE  Lease!Next
  <2>1. active = NoEngine /\ todo = {} /\ Eng(t) \in Engines
    BY <1>7 DEF AlreadyReady, BecameReady, SwapInv
  <2>2. \A s \in Tasks : Served(s) => Eng(s) = Eng(t)
    BY <1>7, <2>1 DEF AlreadyReady, BecameReady, SwapInv
  <2>3. \A f \in Engines \ {Eng(t)} : Lease!Kept(f) = {}
    BY <2>2 DEF Lease!Kept, Served
  <2>4. Lease!Grant(Eng(t))
    BY <1>7, <2>1, <2>3 DEF AlreadyReady, BecameReady, SwapDone, KeepsServing, Lease!Grant
  <2> QED
    BY <2>1, <2>4 DEF Lease!Next
<1>8. ASSUME NEW t \in Tasks, HolderStep(t), KeepsServing
      PROVE  [Lease!Next]_(Lease!vars)
  <2>1. CASE DrainEmpty(t) \/ DrainWoken(t)
    BY <2>1, <1>2, <1>8 DEF DrainEmpty, DrainWoken, BeginFree
  <2>2. CASE DrainTimeout(t)
    BY <2>2, <1>3, <1>8 DEF DrainTimeout, BeginFree
  <2>3. CASE FreeFailed(t) \/ LaunchFailed(t) \/ StartTimeout(t)
    BY <2>3, <1>2, <1>8 DEF FreeFailed, LaunchFailed, StartTimeout, SwapFailed
  <2>4. CASE AlreadyReady(t) \/ BecameReady(t)
    BY <2>4, <1>7, <1>8
  <2>5. CASE LoadDrainTimeout(t)
    BY <2>5, <1>3, <1>8 DEF LoadDrainTimeout, Goto
  <2>6. CASE \E k \in todo : Freed(t, k)
    BY <2>6, <1>1, <1>8 DEF Freed
  <2>7. CASE DrainBlock(t) \/ Settled(t) \/ Launch(t) \/ AlreadyLoaded(t) \/ NotLoaded(t)
             \/ LoadDrainEmpty(t) \/ LoadDrainBlock(t) \/ LoadDrainWoken(t)
    BY <2>7, <1>1, <1>8 DEF DrainBlock, Settled, Launch, AlreadyLoaded, NotLoaded,
                            LoadDrainEmpty, LoadDrainBlock, LoadDrainWoken, Goto
  <2>8. CASE Loaded(t) \/ LoadFailed(t) \/ FinishForced(t)
    BY <2>8, <1>1, <1>8 DEF Loaded, LoadFailed, FinishForced, Leave
  <2> QED
    BY <1>4, <1>8, <2>1, <2>2, <2>3, <2>4, <2>5, <2>6, <2>7, <2>8 DEF HolderStep
<1>9. ASSUME NEW t \in Tasks, TaskStep(t), ~HolderStep(t), KeepsServing
      PROVE  [Lease!Next]_(Lease!vars)
  <2>1. CASE CancelSwap(t)
    BY <2>1, <1>2, <1>9 DEF CancelSwap, SwapFailed
  <2>2. CASE CancelLoad(t)
    BY <2>2, <1>1, <1>9 DEF CancelLoad, Leave
  <2>3. CASE LockGranted(t) \/ CancelWaiting(t) \/ CancelLost(t) \/ ServeLoads(t)
    BY <2>3, <1>1, <1>9 DEF LockGranted, CancelWaiting, CancelLost, ServeLoads
  <2>4. CASE \/ \E m \in Models : Acquire(t, m)
             \/ \E e \in Engines, m \in Models \cup {NoModel} : ForceSwap(t, e, m)
    BY <2>4, <1>1, <1>9 DEF Acquire, ForceSwap, Call
  <2> QED
    BY <1>5, <1>9, <2>1, <2>2, <2>3, <2>4 DEF TaskStep
<1>10. ASSUME NEW e \in Engines, ComesUp(e) \/ GoesDown(e), KeepsServing
       PROVE  [Lease!Next]_(Lease!vars)
  BY <1>10, <1>1 DEF ComesUp, GoesDown
<1>12. ASSUME NEW e \in Engines, NEW m \in Models, LateLoad(e, m), KeepsServing
       PROVE  [Lease!Next]_(Lease!vars)
  BY <1>12, <1>1 DEF LateLoad
<1>11. CASE KeepsServing
  BY <1>1, <1>6, <1>8, <1>9, <1>10, <1>11, <1>12 DEF Next, vars
<1> QED
  BY <1>4, <1>5, <1>6, <1>11, StepKinds

\* The swap state machine implements the GPU lease.
THEOREM ImplementsLease == Spec => LeaseSpec
<1>1. Init => Lease!Init
  BY DEF Init, Lease!Init
<1>2. IInv /\ [Next]_vars => [Lease!Next]_(Lease!vars)
  BY StepImplementsLease
<1> QED
  BY <1>1, <1>2, InductiveInvariant, PTL DEF Spec, LeaseSpec, Lease!Spec
=============================================================================

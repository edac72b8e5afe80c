--------------------------- MODULE ProcessEngine ---------------------------
(***************************************************************************)
(* GenericProcessEngine: ensure_started() and free_vram() of an engine the *)
(* router launches itself, step by step between awaits, while the          *)
(* processes it finds by their pids run, fork, freeze and die.             *)
(*                                                                         *)
(* Calls may be cancelled at any await, and the router may restart; what   *)
(* it launched survives, in a session of its own.                          *)
(***************************************************************************)
EXTENDS Processes, EngineCalls

VARIABLES
  pattern,   \* which processes process_pattern matches; never changes
  handle     \* self._proc: the process launched last, or Nobody

callVars == <<handle, pc, late, outcome>>
vars     == <<procVars, pattern, callVars>>

\* Between awaits: is_ready() and wait_ready() of ensure_started; then, of free_vram,
\* the port check of its early return, the two halves of an iteration of
\* _wait_stopped before and after SIGKILL, and the last port check.
Places == {"idle", "ready?", "waiting", "port?", "stopping", "stopping-port",
           "killing", "killing-port", "verifying"}

TypeInv ==
  /\ ProcTypes
  /\ pattern \in SUBSET {"leaders", "workers"}
  /\ handle \in Pids \cup {Nobody}
  /\ CallTypes(Places)

\* At first at most one server left by an earlier router, or started by hand.
Init ==
  /\ \E S \in SUBSET Pids, g \in Pids :
       /\ life = [p \in Pids |-> IF p \in S THEN "running" ELSE "gone"]
       /\ group = [p \in Pids |-> IF p \in S THEN g ELSE p]
  /\ server \in Alive \cup {Nobody}
  /\ up \in (IF server = Nobody THEN {FALSE} ELSE BOOLEAN)
  /\ pattern \in SUBSET {"leaders", "workers"}
  /\ handle = Nobody
  /\ NoCall

Matched == {p \in Alive : (IF p \in Leaders THEN "leaders" ELSE "workers") \in pattern}

\* Seeded fault: strays are not looked for.
FoundByHandle == {handle} \cap Alive

\* _pids(): the launched process while it lives, and what the pattern matches.
Found == ({handle} \cap Alive) \cup Matched

----------------------------------------------------------------------------
(* ensure_started() *)

EnsureStarted ==
  /\ pc = "idle"
  /\ Goto("ready?")
  /\ UNCHANGED <<procVars, pattern, handle>>

AlreadyReady ==
  /\ pc = "ready?"
  /\ up
  /\ Return("started")
  /\ UNCHANGED <<procVars, pattern, handle>>

\* A process is there already, loading: its readiness is waited for.
AlreadyRunning ==
  /\ pc = "ready?"
  /\ ~up
  /\ Found # {}
  /\ Goto("waiting")
  /\ UNCHANGED <<procVars, pattern, handle>>

\* Seeded fault: only the port is asked, a server still loading is not noticed.
LaunchUnlooked(p) ==
  /\ pc = "ready?"
  /\ ~up
  /\ Fresh(p)
  /\ Spawned(p, p)
  /\ handle' = p
  /\ Goto("waiting")
  /\ UNCHANGED <<server, up, pattern>>

Launch(p) ==
  /\ pc = "ready?"
  /\ ~up
  /\ Found = {}
  /\ Fresh(p)
  /\ Spawned(p, p)
  /\ handle' = p
  /\ Goto("waiting")
  /\ UNCHANGED <<server, up, pattern>>

\* No start_cmd, or Popen raised.
LaunchFails ==
  /\ pc = "ready?"
  /\ ~up
  /\ Found = {}
  /\ Return("failed")
  /\ UNCHANGED <<procVars, pattern, handle>>

\* wait_ready(): at its deadline the call fails, and what was launched stays.
WaitReady ==
  /\ pc = "waiting"
  /\ \/ up /\ Return("started")
     \/ ~up /\ late /\ Return("failed")
  /\ UNCHANGED <<procVars, pattern, handle>>

----------------------------------------------------------------------------
(* free_vram() *)

\* Nothing found: nothing is signalled, and if the port is closed nothing is done.
FreeNothingFound ==
  /\ pc = "idle"
  /\ Found = {}
  /\ Goto("port?")
  /\ UNCHANGED <<procVars, pattern, handle>>

FreeSignal ==
  /\ pc = "idle"
  /\ Found # {}
  /\ life' = Stopped(GroupsOf(Found))
  /\ Goto("stopping")
  /\ UNCHANGED <<group, server, up, pattern, handle>>

\* The pids are those of before the await: none, so no signal goes out.
PortAsked ==
  /\ pc = "port?"
  /\ IF PortOpen
     THEN Goto("stopping") /\ UNCHANGED handle
     ELSE Return("freed") /\ handle' = Nobody
  /\ UNCHANGED <<procVars, pattern>>

\* Seeded fault: what the pattern still finds is not looked at again.
VerifyPortOnly ==
  /\ handle' = Nobody
  /\ Goto("verifying")

\* The handle is forgotten, and what is found without it decides.
Verify ==
  /\ handle' = Nobody
  /\ IF Matched = {} THEN Goto("verifying") ELSE Return("stuck")

\* Seeded fault: the stop signal is sent again in place of SIGKILL.
SigkillLeftoverGently ==
  IF Found = {}
  THEN Verify /\ UNCHANGED life
  ELSE life' = Stopped(GroupsOf(Found)) /\ Goto("killing") /\ UNCHANGED handle

\* _sigkill_leftover()
SigkillLeftover ==
  IF Found = {}
  THEN Verify /\ UNCHANGED life
  ELSE life' = Killed(GroupsOf(Found)) /\ Goto("killing") /\ UNCHANGED handle

\* What follows a _wait_stopped that timed out: SIGKILL the first time.
TimedOut ==
  IF pc \in {"stopping", "stopping-port"}
  THEN SigkillLeftover
  ELSE Verify /\ UNCHANGED life

\* Seeded fault: the deadline is only looked at after the port.
PollPidsForever ==
  /\ pc \in {"stopping", "killing"}
  /\ Found = {}
  /\ pc' = (IF pc = "stopping" THEN "stopping-port" ELSE "killing-port")
  /\ UNCHANGED <<procVars, pattern, handle, late, outcome>>

\* _wait_stopped(), the first half of an iteration: no pid must be found.
PollPids ==
  /\ pc \in {"stopping", "killing"}
  /\ \/ /\ Found = {}
        /\ pc' = (IF pc = "stopping" THEN "stopping-port" ELSE "killing-port")
        /\ UNCHANGED <<life, handle, late, outcome>>
     \/ Found # {} /\ late /\ TimedOut
  /\ UNCHANGED <<group, server, up, pattern>>

\* The second half, after the await: the port must be closed.
PollPort ==
  /\ pc \in {"stopping-port", "killing-port"}
  /\ \/ ~PortOpen /\ Verify /\ UNCHANGED life
     \/ PortOpen /\ late /\ TimedOut
     \/ /\ PortOpen /\ ~late
        /\ pc' = (IF pc = "stopping-port" THEN "stopping" ELSE "killing")
        /\ UNCHANGED <<life, handle, late, outcome>>
  /\ UNCHANGED <<group, server, up, pattern>>

LastCheck ==
  /\ pc = "verifying"
  /\ Return(IF PortOpen THEN "stuck" ELSE "freed")
  /\ UNCHANGED <<procVars, pattern, handle>>

----------------------------------------------------------------------------
DeadlinePasses ==
  /\ pc \in {"waiting", "stopping", "stopping-port", "killing", "killing-port"}
  /\ ~late
  /\ late' = TRUE
  /\ UNCHANGED <<procVars, pattern, handle, pc, outcome>>

\* The task that made the call is cancelled at an await: nothing is undone.
Cancel ==
  /\ pc # "idle"
  /\ Return("cancelled")
  /\ UNCHANGED <<procVars, pattern, handle>>

Restart ==
  /\ handle' = Nobody
  /\ Return("restarted")
  /\ UNCHANGED <<procVars, pattern>>

\* A pid is not used again while the router has a handle of it.
System ==
  /\ \/ \E p, w \in Pids : w # handle /\ Fork(p, w)
     \/ \E p \in Pids : Listen(p) \/ Dies(p)
     \/ Loads
     \/ Quiet
  /\ UNCHANGED <<pattern, callVars>>

Progress ==
  \/ AlreadyReady
  \/ AlreadyRunning
  \/ \E p \in Pids : Launch(p)
  \/ LaunchFails
  \/ WaitReady
  \/ PortAsked
  \/ PollPids
  \/ PollPort
  \/ LastCheck

Next ==
  \/ EnsureStarted
  \/ FreeNothingFound
  \/ FreeSignal
  \/ Progress
  \/ DeadlinePasses
  \/ Cancel
  \/ Restart
  \/ System

Spec == Init /\ [][Next]_vars

\* The event loop runs the call, clocks run, and a SIGKILLed process goes.  Nothing
\* is assumed of a process that was asked to stop.
Fairness ==
  /\ WF_vars(Progress)
  /\ WF_vars(DeadlinePasses)
  /\ \A p \in Pids : WF_vars(KillTakes(p) /\ UNCHANGED <<pattern, callVars>>)

FairSpec == Spec /\ Fairness

----------------------------------------------------------------------------
Complete == pattern = {"leaders", "workers"}

\* The least an engine must promise the manager: when free_vram() returns, nothing
\* of this engine that its pattern covers is alive - neither what this router
\* launched, nor what an earlier one left, nor what ignored the stop signal.  With a
\* pattern for the launched command only, workers whose leader died may be left.
FreedIsFree ==
  [][(pc # "idle" /\ pc' = "idle" /\ outcome' = "freed") =>
       (("leaders" \in pattern => Leaders' = {}) /\ (Complete => Alive' = {}))]_vars

\* Whatever is cancelled, times out or is restarted half-way, the engine is never
\* launched beside a server of its own that the pattern covers: the two would share
\* the GPU and fight for the port.
NeverTwice ==
  /\ "leaders" \in pattern => \A p, q \in Leaders : p = q
  /\ Complete => \A p, q \in Alive : group[p] = group[q]

\* A server that freezes on the stop signal does not survive a free_vram() that runs
\* to its end, whether it then succeeds or raises.
FrozenIsKilled ==
  Complete /\ pc = "stopping" ~>
    Alive = {} \/ outcome \in {"cancelled", "restarted"}

\* What the class says of its own free_vram(): the process group is signalled, and
\* killed after stop_timeout_s.  So nothing that was asked to stop, forked workers
\* included, is left alive by a call that sent the signal and returns.
GroupEscalated ==
  [][(pc = "verifying" /\ pc' = "idle" /\ outcome' = "freed") =>
       \A p \in Pids : life'[p] # "ending"]_vars
=============================================================================

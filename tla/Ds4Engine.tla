----------------------------- MODULE Ds4Engine -----------------------------
(***************************************************************************)
(* Ds4Engine: ensure_started() and free_vram() of the ds4 server, which    *)
(* either belongs to a systemd user unit with Restart=always or is         *)
(* launched by the router itself.  Its processes are only ever looked for  *)
(* with pgrep, and a pgrep that fails reads as no process; systemctl is    *)
(* asked and its answer is mostly not looked at.                           *)
(***************************************************************************)
EXTENDS Processes, EngineCalls

VARIABLES
  control,   \* "systemd-user" or "process"; never changes
  ds4Pattern,  \* which processes process_pattern matches; never changes
  unit,      \* the unit's state: "inactive", "active" or "deactivating"
  main,      \* the unit's main process, or Nobody
  queued,    \* a start job waits for the unit to have stopped
  blind,     \* history: a pgrep of the call failed to list what is there
  heard      \* history: systemd got the stop of the last free_vram()

unitVars == <<unit, main, queued>>
ds4ConfVars == <<control, ds4Pattern>>
ds4Vars     == <<procVars, ds4ConfVars, unitVars, pc, late, outcome, blind, heard>>

Ds4Places == {"idle", "ready?", "waiting", "stopping", "stopping-port", "killing",
           "killing-port", "verifying"}

Ds4TypeInv ==
  /\ ProcTypes
  /\ control \in {"systemd-user", "process"}
  /\ ds4Pattern \in SUBSET {"leaders", "workers"}
  /\ unit \in {"inactive", "active", "deactivating"}
  /\ main \in Pids \cup {Nobody}
  /\ CallTypes(Ds4Places)
  /\ {queued, blind, heard} \subseteq BOOLEAN

\* At first nothing, or one server: the unit's, or one that was started by hand.
Ds4Init ==
  /\ control \in {"systemd-user", "process"}
  /\ ds4Pattern \in SUBSET {"leaders", "workers"}
  /\ group = [p \in Pids |-> p]
  /\ \E p \in Pids :
       \/ life = [q \in Pids |-> "gone"] /\ main = Nobody /\ unit = "inactive"
       \/ /\ life = [q \in Pids |-> IF q = p THEN "running" ELSE "gone"]
          /\ \/ main = Nobody /\ unit = "inactive"
             \/ control = "systemd-user" /\ main = p /\ unit = "active"
  /\ server = Nobody
  /\ up = FALSE
  /\ queued = FALSE
  /\ NoCall
  /\ blind = FALSE
  /\ heard = FALSE

Ds4Matched == {p \in Alive : (IF p \in Leaders THEN "leaders" ELSE "workers") \in ds4Pattern}

\* _pids(): what pgrep lists, or nothing when it fails or takes too long.
Pgrep == {Ds4Matched, {}}
Missed(found) == found # Ds4Matched

----------------------------------------------------------------------------
(* systemd, which is outside the repository *)

UnitSpawns(p) ==
  /\ Fresh(p)
  /\ Spawned(p, p)
  /\ unit' = "active"
  /\ main' = p
  /\ queued' = FALSE

\* "start": an inactive unit is started, one that is stopping is started after that.
StartJob ==
  \/ unit = "inactive" /\ \E p \in Pids : UnitSpawns(p)
  \/ unit = "active" /\ UNCHANGED <<life, group, unitVars>>
  \/ unit = "deactivating" /\ queued' = TRUE /\ UNCHANGED <<life, group, unit, main>>

\* "stop": the whole unit gets SIGTERM, and a start job in the queue is replaced.
StopJob ==
  /\ unit' = IF unit = "active" THEN "deactivating" ELSE unit
  /\ life' = IF main = Nobody THEN life ELSE Stopped(GroupsOf({main}))
  /\ queued' = FALSE
  /\ UNCHANGED <<group, main>>

\* What is left of the unit is killed when its stop takes too long, or when its main
\* process has ended.
UnitKills ==
  /\ main # Nobody
  /\ unit = "deactivating" \/ main \notin Alive
  /\ life' = Killed(GroupsOf({main}))
  /\ UNCHANGED <<group, server, up, unitVars>>

\* The unit has no process left: Restart=always brings it back, unless it was stopped.
UnitEmpty ==
  /\ unit # "inactive"
  /\ main = Nobody \/ GroupsOf({main}) = {}
  /\ \/ (unit = "active" \/ queued) /\ \E p \in Pids : UnitSpawns(p)
     \/ /\ unit = "deactivating" /\ ~queued
        /\ unit' = "inactive" /\ main' = Nobody
        /\ UNCHANGED <<life, group, queued>>
  /\ UNCHANGED <<server, up>>

----------------------------------------------------------------------------
(* ensure_started() *)

StartDs4 ==
  /\ pc = "idle"
  /\ Goto("ready?")
  /\ blind' = FALSE
  /\ UNCHANGED <<procVars, ds4ConfVars, unitVars, heard>>

Ds4AlreadyReady ==
  /\ pc = "ready?"
  /\ up
  /\ Return("started")
  /\ UNCHANGED <<procVars, ds4ConfVars, unitVars, blind, heard>>

\* The start may reach systemd or not, and systemctl may return in 30 s or not: only
\* the second is looked at, a non-zero return code is a warning.
StartUnit ==
  /\ control = "systemd-user"
  /\ pc = "ready?"
  /\ ~up
  /\ StartJob \/ UNCHANGED <<life, group, unitVars>>
  /\ Goto("waiting") \/ Return("failed")
  /\ UNCHANGED <<server, up, ds4ConfVars, blind, heard>>

\* is_running() in process mode, and _launch() when it finds nothing.
StartProcess ==
  /\ control = "process"
  /\ pc = "ready?"
  /\ ~up
  /\ \E found \in Pgrep :
       /\ blind' = Missed(found)
       /\ \/ found # {} /\ Goto("waiting") /\ UNCHANGED <<life, group>>
          \/ found = {} /\ Goto("waiting") /\ \E p \in Pids : Fresh(p) /\ Spawned(p, p)
          \/ found = {} /\ Return("failed") /\ UNCHANGED <<life, group>>
  /\ UNCHANGED <<server, up, ds4ConfVars, unitVars, heard>>

Ds4WaitReady ==
  /\ pc = "waiting"
  /\ \/ up /\ Return("started")
     \/ ~up /\ late /\ Return("failed")
  /\ UNCHANGED <<procVars, ds4ConfVars, unitVars, blind, heard>>

----------------------------------------------------------------------------
(* free_vram() *)

\* The last look, after whatever was done: "sure" says that no look of this step
\* missed a process.
Ds4Verify(sure) ==
  \E found \in Pgrep :
    /\ blind' = (blind \/ ~sure \/ Missed(found))
    /\ IF found = {} THEN Goto("verifying") ELSE Return("stuck")

\* Seeded fault: the pids are signalled and the unit is not stopped.
FreeUnitBySignal ==
  /\ control = "systemd-user"
  /\ pc = "idle"
  /\ life' = Stopped(Ds4Matched)
  /\ heard' = TRUE
  /\ Goto("stopping")
  /\ blind' = FALSE
  /\ UNCHANGED <<group, server, up, ds4ConfVars, unitVars>>

\* "systemctl stop --no-block": whether it reached systemd is not looked at.
FreeUnit ==
  /\ control = "systemd-user"
  /\ pc = "idle"
  /\ \/ StopJob /\ heard' = TRUE
     \/ UNCHANGED <<life, group, unitVars>> /\ heard' = FALSE
  /\ Goto("stopping")
  /\ blind' = FALSE
  /\ UNCHANGED <<server, up, ds4ConfVars>>

\* _terminate_pids(): with nothing found there is nothing to wait for.
FreeProcess ==
  /\ control = "process"
  /\ pc = "idle"
  /\ heard' = TRUE
  /\ \E found \in Pgrep :
       \/ /\ found # {}
          /\ life' = Stopped(found)
          /\ Goto("stopping")
          /\ blind' = FALSE
       \/ /\ found = {}
          /\ \E again \in Pgrep :
               /\ blind' = (Missed(found) \/ Missed(again))
               /\ IF again = {} THEN Goto("verifying") ELSE Return("stuck")
          /\ UNCHANGED life
  /\ UNCHANGED <<group, server, up, ds4ConfVars, unitVars>>

\* Seeded fault: what lingers is reported instead of killed.
NeverKills(sure) == Ds4Verify(sure) /\ UNCHANGED life

\* _sigkill_leftover()
Ds4Sigkill(sure) ==
  \E found \in Pgrep :
    \/ found = {} /\ Ds4Verify(sure /\ ~Missed(found)) /\ UNCHANGED life
    \/ /\ found # {}
       /\ life' = Killed(found)
       /\ Goto("killing")
       /\ blind' = (blind \/ ~sure)

\* _wait_stopped(), the first half of an iteration; at the deadline only the pids
\* count, whatever the port says.
Ds4PollPids ==
  /\ pc \in {"stopping", "killing"}
  /\ \E found \in Pgrep :
       \/ /\ ~late /\ found = {}
          /\ pc' = (IF pc = "stopping" THEN "stopping-port" ELSE "killing-port")
          /\ blind' = (blind \/ Missed(found))
          /\ UNCHANGED <<life, late, outcome>>
       \/ /\ late /\ (found = {} \/ pc = "killing")
          /\ Ds4Verify(~Missed(found)) /\ UNCHANGED life
       \/ late /\ found # {} /\ pc = "stopping" /\ Ds4Sigkill(TRUE)
  /\ UNCHANGED <<group, server, up, ds4ConfVars, unitVars, heard>>

\* The second half, after the await.
Ds4PollPort ==
  /\ pc \in {"stopping-port", "killing-port"}
  /\ \/ ~PortOpen /\ Ds4Verify(TRUE)
     \/ /\ PortOpen
        /\ pc' = (IF pc = "stopping-port" THEN "stopping" ELSE "killing")
        /\ UNCHANGED <<late, outcome, blind>>
  /\ UNCHANGED <<procVars, ds4ConfVars, unitVars, heard>>

Ds4LastCheck ==
  /\ pc = "verifying"
  /\ Return(IF PortOpen THEN "stuck" ELSE "freed")
  /\ UNCHANGED <<procVars, ds4ConfVars, unitVars, blind, heard>>

----------------------------------------------------------------------------
Ds4DeadlinePasses ==
  /\ pc \in {"waiting", "stopping", "stopping-port", "killing", "killing-port"}
  /\ ~late
  /\ late' = TRUE
  /\ UNCHANGED <<procVars, ds4ConfVars, unitVars, pc, outcome, blind, heard>>

Ds4Interrupted ==
  /\ \/ pc # "idle" /\ Return("cancelled")
     \/ Return("restarted")
  /\ UNCHANGED <<procVars, ds4ConfVars, unitVars, blind, heard>>

ds4CallVars == <<pc, late, outcome, blind, heard>>

Ds4System ==
  /\ \/ /\ \/ \E p, w \in Pids : Fork(p, w)
           \/ \E p \in Pids : Listen(p) \/ Dies(p)
           \/ Loads
           \/ Quiet
        /\ UNCHANGED unitVars
     \/ UnitKills
     \/ UnitEmpty
  /\ UNCHANGED <<ds4ConfVars, ds4CallVars>>

Ds4Progress ==
  \/ Ds4AlreadyReady
  \/ StartUnit
  \/ StartProcess
  \/ Ds4WaitReady
  \/ Ds4PollPids
  \/ Ds4PollPort
  \/ Ds4LastCheck

Ds4Next ==
  \/ StartDs4
  \/ FreeUnit
  \/ FreeProcess
  \/ Ds4Progress
  \/ Ds4DeadlinePasses
  \/ Ds4Interrupted
  \/ Ds4System

Ds4Spec == Ds4Init /\ [][Ds4Next]_ds4Vars

\* The event loop runs the call, clocks run, and a SIGKILLed process goes.  Nothing is
\* assumed of systemd, nor of a process that was asked to stop.
Ds4Fairness ==
  /\ WF_ds4Vars(Ds4Progress)
  /\ WF_ds4Vars(Ds4DeadlinePasses)
  /\ \A p \in Pids : WF_ds4Vars(KillTakes(p) /\ UNCHANGED <<ds4ConfVars, unitVars, ds4CallVars>>)

Ds4FairSpec == Ds4Spec /\ Ds4Fairness

----------------------------------------------------------------------------
AllMatched == ds4Pattern = {"leaders", "workers"}

\* Once free_vram() has returned, no ds4 server runs until the next start - not one
\* that survived, and not one that systemd brought back (a plain kill is undone by
\* Restart=always, a start still queued from a failed call is not dropped by it) -
\* where every pgrep of the call worked and systemd got the stop.
FreedStaysFree ==
  outcome = "freed" /\ heard /\ ~blind =>
    /\ "leaders" \in ds4Pattern => Leaders = {}
    /\ AllMatched => Alive = {}

\* A process that ignores the stop does not survive a free_vram() that runs to its
\* end, in either mode, whether it belongs to the unit or was started by hand, as long
\* as its processes are seen and the unit is stopped.
LingererIsKilled ==
  \A p \in Pids :
    AllMatched /\ pc = "stopping" /\ p \in Alive ~>
      p \notin Alive \/ outcome \in {"cancelled", "restarted"} \/ blind \/ ~heard

=============================================================================

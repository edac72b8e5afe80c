--------------------------- MODULE Ds4EngineProofs ---------------------------
(***************************************************************************)
(* Proofs about Ds4Engine, for any number of processes, in both modes.     *)
(***************************************************************************)
EXTENDS Ds4Engine, TLAPS

\* Nothing that the pattern covers is alive.
NothingCovered ==
  /\ "leaders" \in ds4Pattern => Leaders = {}
  /\ AllMatched => Alive = {}

Stopping == pc \in {"stopping", "stopping-port", "killing", "killing-port", "verifying"}

\* Once systemd has got the stop, it starts nothing by itself: neither is the unit to be
\* kept up, nor does a start wait for its turn.
UnitHalted == (Stopping \/ outcome = "freed") /\ heard => unit # "active" /\ ~queued

UnitUnused == control = "process" => unit = "inactive" /\ ~queued

\* What the last look did not find is still not there when the port has answered, nor
\* after the return.
NothingLeft == (pc = "verifying" \/ outcome = "freed") /\ heard /\ ~blind => NothingCovered

IInv == Ds4TypeInv /\ UnitHalted /\ UnitUnused /\ NothingLeft

----------------------------------------------------------------------------
LEMMA NothingMatched ==
  ASSUME Ds4TypeInv, Ds4Matched = {}
  PROVE  NothingCovered
<1>1. "leaders" \in ds4Pattern => Leaders = {}
  BY DEF Ds4TypeInv, Ds4Matched, Leaders
<1>2. AllMatched => Alive = {}
  BY DEF Ds4TypeInv, Ds4Matched, AllMatched
<1>. QED  BY <1>1, <1>2 DEF NothingCovered

\* Signals do not bring a process to life.
LEMMA SignalsKeep ==
  ASSUME ProcTypes, NothingCovered, NEW S,
         life' \in {life, Stopped(S), Killed(S)}, UNCHANGED <<group, ds4Pattern>>
  PROVE  NothingCovered'
<1>1. Alive' = Alive
  BY DEF ProcTypes, Stopped, Killed, Alive, Lives
<1>. QED  BY <1>1 DEF Leaders, NothingCovered, AllMatched

\* Nor does what the processes do by themselves start a server.
LEMMA ProcessesKeep ==
  ASSUME ProcTypes, NothingCovered, UNCHANGED ds4Pattern,
         \/ \E p, w \in Pids : Fork(p, w)
         \/ \E p \in Pids : Listen(p) \/ Dies(p)
         \/ Loads
         \/ Quiet
  PROVE  NothingCovered'
<1>1. ASSUME NEW p \in Pids, NEW w \in Pids, Fork(p, w) PROVE NothingCovered'
  <2>1. p \in Alive /\ group[p] # w
    BY <1>1 DEF Fork, Fresh, Alive
  <2>2. Alive' = Alive \cup {w} /\ group' = [group EXCEPT ![w] = group[p]]
    BY <1>1 DEF Fork, Spawned, Alive, ProcTypes
  <2>3. Leaders' \subseteq Leaders
    BY <2>1, <2>2 DEF Leaders, Alive, ProcTypes
  <2>. QED  BY <2>1, <2>3 DEF NothingCovered, AllMatched
<1>2. ASSUME NEW p \in Pids, Dies(p) PROVE NothingCovered'
  <2>1. Alive' = Alive \ {p} /\ \A q \in Alive' : group'[q] = group[q]
    BY <1>2 DEF Dies, Alive, ProcTypes, Lives
  <2>. QED  BY <2>1 DEF Leaders, NothingCovered, AllMatched
<1>3. ASSUME NEW p \in Pids, Listen(p) \/ Loads \/ Quiet PROVE NothingCovered'
  <2>1. UNCHANGED <<life, group>>
    BY <1>3 DEF Listen, Loads, Quiet
  <2>. QED  BY <2>1 DEF NothingCovered, AllMatched, Alive, Leaders
<1>4. CASE Loads \/ Quiet
  <2>1. UNCHANGED <<life, group>>
    BY <1>4 DEF Loads, Quiet
  <2>. QED  BY <2>1 DEF NothingCovered, AllMatched, Alive, Leaders
<1>. QED  BY <1>1, <1>2, <1>3, <1>4

----------------------------------------------------------------------------
\* Each step of systemd and of the processes keeps the types.
LEMMA SystemTypes ==
  ASSUME Ds4TypeInv, Ds4System
  PROVE  Ds4TypeInv'
<1>. USE DEF Ds4TypeInv, CallTypes, Outcomes, ProcTypes, Lives
<1>1. ASSUME NEW p \in Pids, NEW w \in Pids, Fork(p, w) PROVE ProcTypes'
  <2>1. group[p] \in Pids  OBVIOUS
  <2>. QED  BY <1>1, <2>1 DEF Fork, Spawned
<1>2. ASSUME NEW p \in Pids, Listen(p) \/ Dies(p) PROVE ProcTypes'
  <2>1. CASE Listen(p)  BY <2>1 DEF Listen
  <2>2. CASE Dies(p)  BY <2>2 DEF Dies
  <2>. QED  BY <1>2, <2>1, <2>2
<1>3. ASSUME Loads \/ Quiet PROVE ProcTypes'
  BY <1>3 DEF Loads, Quiet
<1>4. ASSUME NEW p \in Pids, UnitSpawns(p), UNCHANGED <<server, up>>
      PROVE  ProcTypes' /\ unit' = "active" /\ main' = p /\ queued' = FALSE
  BY <1>4 DEF UnitSpawns, Spawned
<1>5. CASE UnitKills
  BY <1>5 DEF Ds4System, UnitKills, Killed, unitVars, ds4ConfVars, ds4CallVars
<1>6. CASE UnitEmpty
  <2>1. CASE \E p \in Pids : UnitSpawns(p)
    BY <1>4, <1>6, <2>1 DEF Ds4System, UnitEmpty, ds4ConfVars, ds4CallVars
  <2>2. CASE ~\E p \in Pids : UnitSpawns(p)
    BY <1>6, <2>2 DEF Ds4System, UnitEmpty, ds4ConfVars, ds4CallVars
  <2>. QED  BY <2>1, <2>2
<1>7. CASE UNCHANGED unitVars /\ ProcTypes'
  BY <1>7 DEF Ds4System, unitVars, ds4ConfVars, ds4CallVars
<1>. QED  BY <1>1, <1>2, <1>3, <1>5, <1>6, <1>7 DEF Ds4System

LEMMA TypeStep ==
  ASSUME Ds4TypeInv, [Ds4Next]_ds4Vars
  PROVE  Ds4TypeInv'
<1>. USE DEF Ds4TypeInv, CallTypes, Outcomes, ProcTypes, Lives, Ds4Places, Goto, Return, procVars, ds4ConfVars, unitVars
<1>1. CASE StartDs4  BY <1>1 DEF StartDs4
<1>2. CASE Ds4AlreadyReady  BY <1>2 DEF Ds4AlreadyReady
<1>3. ASSUME NEW p \in Pids, Spawned(p, p), UNCHANGED <<server, up>> PROVE ProcTypes'
  BY <1>3 DEF Spawned
<1>4. CASE StartUnit
  <2>1. /\ ProcTypes'
        /\ unit' \in {"inactive", "active", "deactivating"}
        /\ main' \in Pids \cup {Nobody}
        /\ queued' \in BOOLEAN
    <3>1. CASE \E p \in Pids : UnitSpawns(p)
      BY <1>3, <1>4, <3>1 DEF StartUnit, StartJob, UnitSpawns
    <3>2. CASE ~\E p \in Pids : UnitSpawns(p)
      BY <1>4, <3>2 DEF StartUnit, StartJob
    <3>. QED  BY <3>1, <3>2
  <2>. QED  BY <1>4, <2>1 DEF StartUnit
<1>5. CASE StartProcess
  <2>1. ProcTypes'
    BY <1>3, <1>5 DEF StartProcess
  <2>2. blind' \in BOOLEAN
    BY <1>5 DEF StartProcess, Missed
  <2>. QED  BY <1>5, <2>1, <2>2 DEF StartProcess
<1>6. CASE Ds4WaitReady  BY <1>6 DEF Ds4WaitReady
<1>7. CASE FreeUnit  BY <1>7 DEF FreeUnit, StopJob, Stopped
<1>8. CASE FreeProcess  BY <1>8 DEF FreeProcess, Stopped, Missed
<1>9. CASE Ds4PollPids
  BY <1>9 DEF Ds4PollPids, Ds4Sigkill, Ds4Verify, Missed, Killed
<1>10. CASE Ds4PollPort  BY <1>10 DEF Ds4PollPort, Ds4Verify, Missed
<1>11. CASE Ds4LastCheck  BY <1>11 DEF Ds4LastCheck
<1>12. CASE Ds4DeadlinePasses  BY <1>12 DEF Ds4DeadlinePasses
<1>13. CASE Ds4Interrupted  BY <1>13 DEF Ds4Interrupted
<1>14. CASE Ds4System  BY <1>14, SystemTypes
<1>15. CASE UNCHANGED ds4Vars  BY <1>15 DEF ds4Vars
<1>. QED  BY <1>1, <1>2, <1>4, <1>5, <1>6, <1>7, <1>8, <1>9, <1>10, <1>11, <1>12, <1>13,
            <1>14, <1>15 DEF Ds4Next, Ds4Progress

\* What has been stopped stays stopped, and what a look did not find is not there.
LEMMA InvStep ==
  ASSUME IInv, [Ds4Next]_ds4Vars
  PROVE  UnitHalted' /\ UnitUnused' /\ NothingLeft'
<1>. USE DEF IInv, UnitHalted, UnitUnused, NothingLeft, Stopping
<1>. USE DEF Goto, Return, ds4ConfVars, unitVars
<1>1. ASSUME UNCHANGED <<life, group, ds4Pattern>>, NothingCovered PROVE NothingCovered'
  BY <1>1 DEF NothingCovered, AllMatched, Alive, Leaders
<1>2. ASSUME UNCHANGED <<life, group, ds4Pattern>>, Ds4Matched = {} PROVE NothingCovered'
  BY <1>1, <1>2, NothingMatched
<1>3. ASSUME NEW sure, Ds4Verify(sure), UNCHANGED <<life, group, ds4Pattern>>,
             pc' = "verifying", ~blind'
      PROVE  NothingCovered'
  BY <1>2, <1>3 DEF Ds4Verify, Missed, Pgrep
<1>4. CASE StartDs4 \/ Ds4AlreadyReady \/ Ds4WaitReady \/ Ds4Interrupted
  BY <1>4 DEF StartDs4, Ds4AlreadyReady, Ds4WaitReady, Ds4Interrupted
<1>5. CASE StartUnit \/ StartProcess
  BY <1>5 DEF StartUnit, StartProcess
<1>6. CASE FreeUnit
  BY <1>6 DEF FreeUnit, StopJob, Ds4TypeInv
<1>7. CASE FreeProcess
  <2>1. ASSUME pc' = "verifying", ~blind' PROVE NothingCovered'
    BY <1>2, <1>7, <2>1 DEF FreeProcess, Missed, Pgrep
  <2>2. unit = "inactive" /\ ~queued
    BY <1>7 DEF FreeProcess
  <2>. QED  BY <1>7, <2>1, <2>2 DEF FreeProcess
<1>8. CASE Ds4PollPids
  <2>1. UNCHANGED <<group, ds4ConfVars, unitVars, heard>> /\ Stopping
    BY <1>8 DEF Ds4PollPids
  <2>2. blind => blind'
    BY <1>8 DEF Ds4PollPids, Ds4Verify, Ds4Sigkill
  <2>3. ASSUME pc' = "verifying", ~blind' PROVE NothingCovered'
    BY <1>3, <1>8, <2>3 DEF Ds4PollPids, Ds4Sigkill
  <2>4. outcome' = "freed" => outcome = "freed" /\ UNCHANGED life
    BY <1>8 DEF Ds4PollPids, Ds4Sigkill, Ds4Verify
  <2>. QED  BY <1>1, <2>1, <2>2, <2>3, <2>4
<1>9. CASE Ds4PollPort
  <2>1. UNCHANGED <<life, group, ds4ConfVars, unitVars, heard>> /\ Stopping
    BY <1>9 DEF Ds4PollPort, procVars
  <2>2. blind => blind'
    BY <1>9 DEF Ds4PollPort, Ds4Verify
  <2>3. ASSUME pc' = "verifying", ~blind' PROVE NothingCovered'
    BY <1>3, <1>9, <2>1, <2>3 DEF Ds4PollPort
  <2>4. outcome' = "freed" => outcome = "freed"
    BY <1>9 DEF Ds4PollPort, Ds4Verify
  <2>. QED  BY <1>1, <2>1, <2>2, <2>3, <2>4
<1>10. CASE Ds4LastCheck \/ Ds4DeadlinePasses
  BY <1>1, <1>10 DEF Ds4LastCheck, Ds4DeadlinePasses, procVars
<1>11. CASE Ds4System
  <2>. UNCHANGED <<ds4ConfVars, ds4CallVars>>
    BY <1>11 DEF Ds4System
  <2>. USE DEF ds4CallVars
  <2>1. CASE ~UnitEmpty
    <3>1. UNCHANGED unitVars
      BY <1>11, <2>1 DEF Ds4System, UnitKills
    <3>2. ASSUME NothingCovered PROVE NothingCovered'
      <4>1. CASE UnitKills
        BY <3>2, <4>1, SignalsKeep DEF UnitKills, Ds4TypeInv
      <4>2. CASE ~UnitKills
        BY <1>11, <2>1, <3>2, <4>2, ProcessesKeep DEF Ds4System, Ds4TypeInv
      <4>. QED  BY <4>1, <4>2
    <3>. QED  BY <3>1, <3>2
  <2>2. CASE UnitEmpty
    <3>1. CASE unit = "active" \/ queued
      BY <2>2, <3>1 DEF UnitEmpty, UnitSpawns
    <3>2. CASE ~(unit = "active" \/ queued)
      BY <1>1, <2>2, <3>2 DEF UnitEmpty
    <3>. QED  BY <3>1, <3>2
  <2>. QED  BY <2>1, <2>2
<1>12. CASE UNCHANGED ds4Vars
  BY <1>1, <1>12 DEF ds4Vars, procVars
<1>. QED  BY <1>4, <1>5, <1>6, <1>7, <1>8, <1>9, <1>10, <1>11, <1>12 DEF Ds4Next, Ds4Progress

LEMMA InvInit == Ds4Init => IInv
<1>. SUFFICES ASSUME Ds4Init PROVE IInv
  OBVIOUS
<1>1. Ds4TypeInv
  BY DEF Ds4Init, NoCall, Ds4TypeInv, CallTypes, Outcomes, ProcTypes, Lives, Ds4Places
<1>. QED  BY <1>1 DEF Ds4Init, NoCall, IInv, UnitHalted, UnitUnused, NothingLeft, Stopping

LEMMA Invariance == Ds4Spec => []IInv
<1>1. IInv /\ [Ds4Next]_ds4Vars => IInv'
  BY TypeStep, InvStep DEF IInv
<1>. QED  BY <1>1, InvInit, PTL DEF Ds4Spec

----------------------------------------------------------------------------
\* The variables of ds4 and of its unit keep their types.
THEOREM TypeCorrect == Ds4Spec => []Ds4TypeInv
<1>1. IInv => Ds4TypeInv  BY DEF IInv
<1>. QED  BY <1>1, Invariance, PTL

\* After a free_vram() that returned, whose pgreps worked and whose stop reached systemd,
\* ds4 does not run until the next start, whatever the unit's Restart=always.
THEOREM StaysFreed == Ds4Spec => []FreedStaysFree
<1>1. IInv => FreedStaysFree
  BY DEF IInv, NothingLeft, NothingCovered, FreedStaysFree
<1>. QED  BY <1>1, Invariance, PTL
=============================================================================

------------------------- MODULE ProcessEngineProofs -------------------------
(***************************************************************************)
(* Proofs about ProcessEngine, for any number of processes.                *)
(***************************************************************************)
EXTENDS ProcessEngine, TLAPS

\* Nothing that the pattern covers is alive.
NothingCovered ==
  /\ "leaders" \in pattern => Leaders = {}
  /\ Complete => Alive = {}

\* What free_vram() looked for and did not find is still not there when the answer of
\* the port comes back.
StillNothing == pc \in {"port?", "verifying"} => NothingCovered

IInv == TypeInv /\ StillNothing /\ NeverTwice

\* What _pids() not finding anything says of the processes.
LEMMA NothingFound ==
  ASSUME TypeInv, Matched = {}
  PROVE  NothingCovered
<1>1. "leaders" \in pattern => Leaders = {}
  BY DEF TypeInv, Matched, Leaders
<1>2. Complete => Alive = {}
  BY DEF TypeInv, Matched, Complete
<1>. QED  BY <1>1, <1>2 DEF NothingCovered

\* Signals end no process by themselves.
LEMMA SignalsKeepAlive ==
  ASSUME ProcTypes, NEW S, life' \in {Stopped(S), Killed(S)}, UNCHANGED group
  PROVE  Alive' = Alive /\ Leaders' = Leaders
<1>1. Alive' = Alive
  BY DEF ProcTypes, Stopped, Killed, Alive, Lives
<1>. QED  BY <1>1 DEF Leaders

\* Each of the router's steps either leaves the set of live processes alone or is the
\* launch of one when nothing is found.
QuietStep == Alive' = Alive /\ Leaders' = Leaders /\ UNCHANGED <<group, pattern>>

\* The part of the invariant that only depends on who is alive.
LEMMA QuietStepKeeps ==
  ASSUME NeverTwice, QuietStep
  PROVE  NeverTwice' /\ (NothingCovered => NothingCovered')
  BY DEF NeverTwice, QuietStep, NothingCovered, Complete

LEMMA TypeStep ==
  ASSUME TypeInv, [Next]_vars
  PROVE  TypeInv'
<1>. USE PidsAssumption DEF TypeInv, CallTypes, ProcTypes, Lives, Places, Outcomes
<1>1. CASE EnsureStarted  BY <1>1 DEF EnsureStarted, Goto, procVars
<1>2. CASE FreeNothingFound  BY <1>2 DEF FreeNothingFound, Goto, procVars
<1>3. CASE FreeSignal
  BY <1>3 DEF FreeSignal, Goto, Stopped
<1>4. CASE AlreadyReady  BY <1>4 DEF AlreadyReady, Return, procVars
<1>5. CASE AlreadyRunning  BY <1>5 DEF AlreadyRunning, Goto, procVars
<1>6. ASSUME NEW p \in Pids, Launch(p) PROVE TypeInv'
  BY <1>6 DEF Launch, Goto, Spawned
<1>7. CASE LaunchFails  BY <1>7 DEF LaunchFails, Return, procVars
<1>8. CASE WaitReady  BY <1>8 DEF WaitReady, Return, procVars
<1>9. CASE PortAsked  BY <1>9 DEF PortAsked, Return, Goto, procVars
<1>10. CASE PollPids
  BY <1>10 DEF PollPids, TimedOut, SigkillLeftover, Verify, Goto, Return, Killed
<1>11. CASE PollPort
  BY <1>11 DEF PollPort, TimedOut, SigkillLeftover, Verify, Goto, Return, Killed
<1>12. CASE LastCheck  BY <1>12 DEF LastCheck, Return, procVars
<1>13. CASE DeadlinePasses  BY <1>13 DEF DeadlinePasses, procVars
<1>14. CASE Cancel  BY <1>14 DEF Cancel, Return, procVars
<1>15. CASE Restart  BY <1>15 DEF Restart, Return, procVars
<1>16. CASE System
  <2>1. ASSUME NEW p \in Pids, NEW w \in Pids, Fork(p, w) PROVE ProcTypes'
    <3>1. group[p] \in Pids  OBVIOUS
    <3>. QED  BY <2>1, <3>1 DEF Fork, Spawned
  <2>2. ASSUME NEW p \in Pids, Listen(p) PROVE ProcTypes'
    BY <2>2 DEF Listen
  <2>3. ASSUME NEW p \in Pids, Dies(p) PROVE ProcTypes'
    BY <2>3 DEF Dies
  <2>4. ASSUME Loads \/ Quiet PROVE ProcTypes'
    BY <2>4 DEF Loads, Quiet
  <2>5. ProcTypes'
    BY <1>16, <2>1, <2>2, <2>3, <2>4 DEF System
  <2>. QED  BY <1>16, <2>5 DEF System, callVars
<1>17. CASE UNCHANGED vars  BY <1>17 DEF vars, procVars, callVars
<1>. QED  BY <1>1, <1>2, <1>3, <1>4, <1>5, <1>6, <1>7, <1>8, <1>9, <1>10, <1>11, <1>12,
            <1>13, <1>14, <1>15, <1>16, <1>17 DEF Next, Progress

LEMMA InvStep ==
  ASSUME IInv, [Next]_vars
  PROVE  StillNothing' /\ NeverTwice'
<1>. USE DEF IInv
<1>1. Matched = {} => NothingCovered
  BY NothingFound
<1>2. Found = {} => Matched = {}
  BY DEF Found
<1>3. ASSUME UNCHANGED procVars, UNCHANGED pattern PROVE QuietStep
  BY <1>3 DEF procVars, QuietStep, Alive, Leaders
<1>4. ASSUME NEW S, life' \in {Stopped(S), Killed(S)}, UNCHANGED <<group, pattern>>
      PROVE  QuietStep
  BY <1>4, SignalsKeepAlive DEF QuietStep, TypeInv
<1>5. ASSUME QuietStep, (pc' \in {"port?", "verifying"} => NothingCovered)
      PROVE  StillNothing' /\ NeverTwice'
  BY <1>5, QuietStepKeeps DEF StillNothing
<1>6. CASE EnsureStarted \/ AlreadyReady \/ AlreadyRunning \/ LaunchFails \/ WaitReady
           \/ LastCheck \/ Cancel \/ Restart \/ PortAsked
  <2>1. QuietStep
    BY <1>6, <1>3 DEF EnsureStarted, AlreadyReady, AlreadyRunning, LaunchFails,
                      WaitReady, LastCheck, Cancel, Restart, PortAsked
  <2>2. pc' \notin {"port?", "verifying"}
    BY <1>6 DEF EnsureStarted, AlreadyReady, AlreadyRunning, LaunchFails, WaitReady,
                LastCheck, Cancel, Restart, PortAsked, Goto, Return
  <2>. QED  BY <1>5, <2>1, <2>2
<1>7. CASE FreeNothingFound
  BY <1>7, <1>1, <1>2, <1>3, <1>5 DEF FreeNothingFound
<1>8. CASE FreeSignal
  <2>1. QuietStep  BY <1>8, <1>4 DEF FreeSignal
  <2>2. pc' = "stopping"  BY <1>8 DEF FreeSignal, Goto
  <2>. QED  BY <1>5, <2>1, <2>2
<1>9. CASE DeadlinePasses
  <2>1. QuietStep  BY <1>9, <1>3 DEF DeadlinePasses
  <2>2. pc' \notin {"port?", "verifying"}  BY <1>9 DEF DeadlinePasses
  <2>. QED  BY <1>5, <2>1, <2>2
<1>10. CASE PollPids \/ PollPort
  <2>1. UNCHANGED <<group, pattern>>  BY <1>10 DEF PollPids, PollPort
  <2>2. UNCHANGED life \/ \E S : life' = Killed(S)
    BY <1>10 DEF PollPids, PollPort, TimedOut, SigkillLeftover
  <2>3. QuietStep
    <3>1. CASE UNCHANGED life  BY <3>1, <2>1 DEF QuietStep, Alive, Leaders
    <3>2. CASE \E S : life' = Killed(S)  BY <3>2, <2>1, <1>4
    <3>. QED  BY <2>2, <3>1, <3>2
  <2>4. pc' \in {"port?", "verifying"} => Matched = {}
    BY <1>10 DEF PollPids, PollPort, TimedOut, SigkillLeftover, Verify, Goto, Return
  <2>. QED  BY <1>1, <1>5, <2>3, <2>4
<1>11. ASSUME NEW p \in Pids, Launch(p) PROVE StillNothing' /\ NeverTwice'
  <2>1. NothingCovered  BY <1>11, <1>1, <1>2 DEF Launch
  <2>2. Alive' = Alive \cup {p} /\ p \notin Alive
    BY <1>11 DEF Launch, Spawned, Alive, Fresh, TypeInv, ProcTypes
  <2>3. \A q \in Alive : group'[q] = group[q]
    BY <1>11, <2>2 DEF Launch, Spawned, Alive, TypeInv, ProcTypes
  <2>4. Leaders' \subseteq Leaders \cup {p}
    BY <2>2, <2>3 DEF Leaders
  <2>5. UNCHANGED pattern /\ pc' = "waiting"  BY <1>11 DEF Launch, Goto
  <2>6. NeverTwice'
    BY <2>1, <2>2, <2>4, <2>5 DEF NeverTwice, NothingCovered, Complete
  <2>. QED  BY <2>5, <2>6 DEF StillNothing
<1>12. CASE System
  <2>. UNCHANGED <<pattern, pc>>  BY <1>12 DEF System, callVars
  <2>1. ASSUME NEW p \in Pids, NEW w \in Pids, Fork(p, w)
        PROVE  StillNothing' /\ NeverTwice'
    <3>1. p \in Alive /\ group[p] # w /\ w \notin Alive
      BY <2>1 DEF Fork, Fresh, Alive
    <3>2. Alive' = Alive \cup {w} /\ group' = [group EXCEPT ![w] = group[p]]
      BY <2>1 DEF Fork, Spawned, Alive, TypeInv, ProcTypes
    <3>3. Leaders' = Leaders
      BY <3>1, <3>2 DEF Leaders, Alive, TypeInv, ProcTypes
    <3>4. \A q \in Alive : group'[q] = group[q]
      BY <3>1, <3>2 DEF Alive, TypeInv, ProcTypes
    <3>5. group'[w] = group[p]
      BY <3>2 DEF TypeInv, ProcTypes
    <3>6. NeverTwice'
      BY <3>1, <3>2, <3>3, <3>4, <3>5 DEF NeverTwice, Complete
    <3>7. NothingCovered => NothingCovered'
      BY <3>1, <3>3 DEF NothingCovered, Complete
    <3>. QED  BY <3>6, <3>7 DEF StillNothing
  <2>2. ASSUME NEW p \in Pids, Dies(p) PROVE StillNothing' /\ NeverTwice'
    <3>1. Alive' = Alive \ {p} /\ \A q \in Alive' : group'[q] = group[q]
      BY <2>2 DEF Dies, Alive, TypeInv, ProcTypes, Lives
    <3>2. Leaders' \subseteq Leaders
      BY <3>1 DEF Leaders
    <3>3. NeverTwice'  BY <3>1, <3>2 DEF NeverTwice, Complete
    <3>4. NothingCovered => NothingCovered'
      BY <3>1, <3>2 DEF NothingCovered, Complete
    <3>. QED  BY <3>3, <3>4 DEF StillNothing
  <2>3. ASSUME UNCHANGED <<life, group>> PROVE StillNothing' /\ NeverTwice'
    <3>1. QuietStep  BY <2>3 DEF QuietStep, Alive, Leaders
    <3>. QED  BY <3>1, QuietStepKeeps DEF StillNothing
  <2>. QED  BY <1>12, <2>1, <2>2, <2>3 DEF System, Listen, Loads, Quiet
<1>13. CASE UNCHANGED vars
  <2>1. QuietStep  BY <1>13, <1>3 DEF vars
  <2>. QED  BY <1>13, <2>1, QuietStepKeeps DEF StillNothing, vars, callVars
<1>. QED  BY <1>6, <1>7, <1>8, <1>9, <1>10, <1>11, <1>12, <1>13 DEF Next, Progress

LEMMA InvInit == Init => IInv
<1>. SUFFICES ASSUME Init PROVE IInv
  OBVIOUS
<1>1. PICK S \in SUBSET Pids, g \in Pids :
        /\ life = [p \in Pids |-> IF p \in S THEN "running" ELSE "gone"]
        /\ group = [p \in Pids |-> IF p \in S THEN g ELSE p]
  BY DEF Init, NoCall
<1>2. Alive = S /\ \A p \in S : group[p] = g
  BY <1>1 DEF Alive
<1>3. TypeInv
  BY <1>1 DEF Init, NoCall, TypeInv, CallTypes, ProcTypes, Lives, Places, Outcomes, Alive
<1>4. NeverTwice
  BY <1>2 DEF NeverTwice, Leaders
<1>. QED  BY <1>3, <1>4 DEF IInv, StillNothing, Init, NoCall

LEMMA Invariance == Spec => []IInv
<1>1. IInv /\ [Next]_vars => IInv'
  BY TypeStep, InvStep DEF IInv
<1>. QED  BY <1>1, InvInit, PTL DEF Spec

\* The variables have their types.
THEOREM TypeCorrect == Spec => []TypeInv
<1>1. IInv => TypeInv  BY DEF IInv
<1>. QED  BY <1>1, Invariance, PTL

\* ensure_started() never launches the engine beside a server of its own that the
\* pattern covers, however many processes it has.
THEOREM LaunchedOnce == Spec => []NeverTwice
<1>1. IInv => NeverTwice  BY DEF IInv
<1>. QED  BY <1>1, Invariance, PTL

\* When free_vram() returns, nothing that the pattern covers is alive.
THEOREM Freed == Spec => FreedIsFree
<1>. DEFINE Returns == pc # "idle" /\ pc' = "idle" /\ outcome' = "freed"
            Promise == Returns => (("leaders" \in pattern => Leaders' = {})
                                    /\ (Complete => Alive' = {}))
<1>1. ASSUME IInv, [Next]_vars PROVE [Promise]_vars
  <2>. SUFFICES ASSUME Next, Returns
                PROVE  ("leaders" \in pattern => Leaders' = {}) /\ (Complete => Alive' = {})
    BY <1>1
  <2>1. CASE PortAsked \/ LastCheck
    <3>1. NothingCovered
      BY <1>1, <2>1 DEF IInv, StillNothing, PortAsked, LastCheck
    <3>2. UNCHANGED procVars  BY <2>1 DEF PortAsked, LastCheck
    <3>. QED  BY <3>1, <3>2 DEF NothingCovered, procVars, Alive, Leaders
  <2>2. CASE ~(PortAsked \/ LastCheck)
    BY <2>2 DEF Next, Progress, EnsureStarted, FreeNothingFound, FreeSignal, AlreadyReady,
                AlreadyRunning, Launch, LaunchFails, WaitReady, PollPids, PollPort,
                TimedOut, SigkillLeftover, Verify, DeadlinePasses, Cancel, Restart, System,
                Goto, Return, callVars
  <2>. QED  BY <2>1, <2>2
<1>. QED  BY <1>1, Invariance, PTL DEF Spec, FreedIsFree
=============================================================================

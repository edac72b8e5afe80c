------------------------------ MODULE GpuLease ------------------------------
(***************************************************************************)
(* What EngineManager promises to the HTTP layer (the docstring of         *)
(* router/engines.py, lines 1-37): one engine at a time has the GPU, a     *)
(* request is let in only on the engine that has it, and the GPU passes to *)
(* another engine only when no request is left on the others, save those   *)
(* a drain timeout gave up.                                                *)
(***************************************************************************)
CONSTANTS Engines, Tasks, NoEngine

VARIABLES
  holder,  \* the engine that has the GPU, or NoEngine
  users,   \* the engine each request in flight is served by
  evicted  \* requests in flight that the router no longer waits for

vars == <<holder, users, evicted>>

Init ==
  /\ holder \in Engines \cup {NoEngine}
  /\ users = [t \in Tasks |-> NoEngine]
  /\ evicted = {}

\* Requests in flight on e that the router waits for.
Kept(e) == {t \in Tasks \ evicted : users[t] = e}

Admit(t) ==
  /\ users[t] = NoEngine /\ holder # NoEngine
  /\ users' = [users EXCEPT ![t] = holder]
  /\ UNCHANGED <<holder, evicted>>

Leave(t) ==
  /\ users[t] # NoEngine
  /\ users' = [users EXCEPT ![t] = NoEngine]
  /\ evicted' = evicted \ {t}
  /\ UNCHANGED holder

\* All the requests on one engine are given up together, when the engine is about
\* to lose the GPU (or its model).
Evict(e) ==
  /\ evicted' = evicted \cup Kept(e)
  /\ holder' \in {holder, NoEngine}
  /\ UNCHANGED users

Revoke ==
  /\ holder' = NoEngine
  /\ UNCHANGED <<users, evicted>>

Grant(e) ==
  /\ holder = NoEngine
  /\ \A f \in Engines \ {e} : Kept(f) = {}
  /\ holder' = e
  /\ UNCHANGED <<users, evicted>>

\* The router starts again: every request is gone, and the holder is what the
\* engines themselves say.
Restart ==
  /\ holder' \in Engines \cup {NoEngine}
  /\ users' = [t \in Tasks |-> NoEngine]
  /\ evicted' = {}

Next ==
  \/ \E t \in Tasks : Admit(t) \/ Leave(t)
  \/ \E e \in Engines : Evict(e) \/ Grant(e)
  \/ Revoke
  \/ Restart

Spec == Init /\ [][Next]_vars

\* A request that is waited for is served by the engine that has the GPU, or by
\* the last one that had it.
KeptTogether ==
  \A s, t \in Tasks \ evicted :
    users[s] # NoEngine /\ users[t] # NoEngine => users[s] = users[t]
=============================================================================

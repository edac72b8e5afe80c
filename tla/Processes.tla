----------------------------- MODULE Processes -----------------------------
(***************************************************************************)
(* The processes of one locally launched engine, as the operating system   *)
(* keeps them.  They are outside the repository: the router only sees them *)
(* through pids, signals and one HTTP port, and that is all this module    *)
(* has.  A process launched by the router or by hand leads a group of its  *)
(* own; whatever it forks is in the same group and holds GPU memory too.   *)
(***************************************************************************)
LOCAL INSTANCE FiniteSets

CONSTANTS Pids,      \* the process ids the engine's processes may have
          Nobody     \* no process

ASSUME PidsAssumption == Nobody \notin Pids

VARIABLES
  life,     \* [Pids -> Lives]
  group,    \* [Pids -> Pids]: the process group, named by the pid of its leader; a
            \* pid that is gone keeps its own name
  server,   \* who answers on the engine's port, or Nobody
  up        \* its answer to the readiness path is a 200 that passes ready_check

procVars == <<life, group, server, up>>

\* "ending" was sent the stop signal and may ignore it for ever; "killed" was sent
\* SIGKILL and has still to go.
Lives == {"gone", "running", "ending", "killed"}

ProcTypes ==
  /\ life \in [Pids -> Lives]
  /\ group \in [Pids -> Pids]
  /\ server \in Pids \cup {Nobody}
  /\ up \in BOOLEAN

Alive   == {p \in Pids : life[p] # "gone"}
Leaders == {p \in Alive : group[p] = p}

\* _port_open()
PortOpen == server # Nobody

\* A pid is free while it names neither a process nor the group of one.
Fresh(p) == p \notin Alive /\ \A q \in Alive : group[q] # p

GroupsOf(S) == {q \in Alive : \E p \in S : group[q] = group[p]}

\* The effect of the stop signal, and of SIGKILL, on the processes of S.
Stopped(S) == [p \in Pids |-> IF p \in S /\ life[p] = "running" THEN "ending" ELSE life[p]]
Killed(S)  == [p \in Pids |-> IF p \in S /\ p \in Alive THEN "killed" ELSE life[p]]

Spawned(p, g) ==
  /\ life' = [life EXCEPT ![p] = "running"]
  /\ group' = [group EXCEPT ![p] = g]

Fork(p, w) ==
  /\ life[p] = "running"
  /\ Fresh(w)
  /\ Spawned(w, group[p])
  /\ UNCHANGED <<server, up>>

\* A process answers on the port, at first with an error while the model loads.
Listen(p) ==
  /\ life[p] = "running"
  /\ server = Nobody
  /\ server' = p
  /\ UNCHANGED <<life, group, up>>

Loads ==
  /\ server # Nobody
  /\ life[server] = "running"
  /\ up' = TRUE
  /\ UNCHANGED <<life, group, server>>

\* The server no longer answers in time: it is busy, or froze while ending.
Quiet ==
  /\ server # Nobody
  /\ server' = Nobody
  /\ up' = FALSE
  /\ UNCHANGED <<life, group>>

\* A process ends by itself, by a signal, or crashes.
Dies(p) ==
  /\ p \in Alive
  /\ life' = [life EXCEPT ![p] = "gone"]
  /\ server' = IF server = p THEN Nobody ELSE server
  /\ up' = IF server = p THEN FALSE ELSE up
  /\ group' = [group EXCEPT ![p] = p]

\* SIGKILL cannot be ignored.
KillTakes(p) == life[p] = "killed" /\ Dies(p)
=============================================================================

---------------------------- MODULE EngineCalls ----------------------------
(***************************************************************************)
(* A call of the manager into an engine: ensure_started(), free_vram() or  *)
(* load_model(), cut at its awaits.  The manager makes one at a time,      *)
(* under its lock; a call may be cancelled at any await, and the router    *)
(* may restart at any point.                                               *)
(***************************************************************************)
VARIABLES
  pc,        \* where the call in progress stands, or "idle"
  late,      \* the deadline of the wait in progress has passed
  outcome    \* how the last call ended

Outcomes == {"none", "started", "failed", "freed", "stuck", "cancelled", "restarted"}

CallTypes(places) == pc \in places /\ late \in BOOLEAN /\ outcome \in Outcomes

NoCall == pc = "idle" /\ late = FALSE /\ outcome = "none"

Goto(place) == pc' = place /\ late' = FALSE /\ outcome' = "none"
Return(how) == pc' = "idle" /\ late' = FALSE /\ outcome' = how

----------------------------------------------------------------------------
\* Each call of the manager into an engine comes back, whatever the engine's processes,
\* systemd or the service do; the manager holds its lock meanwhile.
CallsReturn == pc # "idle" ~> pc = "idle"
=============================================================================

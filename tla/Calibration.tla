---------------------------- MODULE Calibration ----------------------------
(***************************************************************************)
(* run_calibration() over the GPU lease: a user of the lease like any      *)
(* request, which sends a battery of probes and stores their scores.  What *)
(* else uses the lease, and the manager, are GpuLease's.                   *)
(***************************************************************************)
EXTENDS Naturals

CONSTANTS
  Runs,            \* calibrations
  Others,          \* requests in flight
  Subject,         \* [Runs -> model]
  ServedBy,        \* [models -> engine]
  LeaseEngines,
  NoLease,
  Probes           \* the length of _CALIBRATION_PROBES

ASSUME CalibrationAssumption ==
  /\ Probes \in Nat \ {0} /\ Runs \cap Others = {}
  /\ NoLease \notin LeaseEngines
  /\ \A r \in Runs : ServedBy[Subject[r]] \in LeaseEngines

Subjects == {Subject[r] : r \in Runs}

VARIABLES
  holder, users, evicted,   \* GpuLease's
  stage,      \* [Runs -> "idle", "acquiring", "probing", "releasing", "leaked"]
  results,    \* [Runs -> 0..Probes]: the probes that have their score
  cut,        \* [Runs -> BOOLEAN]: the handler is leaving by an exception
  records,    \* smart.calibration: [Subjects -> 0..Probes]: those of the stored run, or 0
  stored      \* the same in the state file

Lease == INSTANCE GpuLease WITH Engines <- LeaseEngines, Tasks <- Runs \cup Others,
                                NoEngine <- NoLease

leaseVars == <<holder, users, evicted>>
calibrationVars == <<leaseVars, stage, results, cut, records, stored>>

Blank == [q \in Subjects |-> 0]

CalibrationInit ==
  /\ Lease!Init
  /\ stage = [r \in Runs |-> "idle"]
  /\ results = [r \in Runs |-> 0]
  /\ cut = [r \in Runs |-> FALSE]
  /\ records = Blank /\ stored = Blank

Move(r, s) == stage' = [stage EXCEPT ![r] = s]
EngineOf(r) == ServedBy[Subject[r]]

\* POST /admin/smart/calibrate, once the body has been read.
StartRun(r) ==
  /\ stage[r] = "idle"
  /\ Move(r, "acquiring")
  /\ UNCHANGED <<leaseVars, results, cut, records, stored>>

RunAcquires(r) ==
  /\ stage[r] = "acquiring"
  /\ holder = EngineOf(r)
  /\ Lease!Admit(r)
  /\ Move(r, "probing")
  /\ UNCHANGED <<results, cut, records, stored>>

\* acquire() raises, or is cancelled.
RunFails(r) ==
  /\ stage[r] = "acquiring"
  /\ Move(r, "idle")
  /\ UNCHANGED <<leaseVars, results, cut, records, stored>>

\* A probe is a result whatever becomes of it: an engine that does not answer, because it
\* was stopped under an evicted run for one, makes it a failed one.
Probe(r) ==
  /\ stage[r] = "probing"
  /\ results' = [results EXCEPT ![r] = @ + 1]
  /\ Move(r, IF results'[r] = Probes THEN "releasing" ELSE "probing")
  /\ UNCHANGED <<leaseVars, cut, records, stored>>

\* Seeded fault: the handler is cancelled between two probes, outside of the try.
InterruptedOutside(r) ==
  /\ stage[r] = "probing"
  /\ Move(r, "idle")
  /\ UNCHANGED <<leaseVars, results, cut, records, stored>>

\* The handler is cancelled at a probe: only the finally clause still runs.
InterruptedRun(r) ==
  /\ stage[r] = "probing"
  /\ Move(r, "releasing")
  /\ cut' = [cut EXCEPT ![r] = TRUE]
  /\ UNCHANGED <<leaseVars, results, records, stored>>

\* Seeded fault: the scores are stored in the finally clause.
RunEndsStoring(r) ==
  /\ stage[r] = "releasing"
  /\ Lease!Leave(r)
  /\ Move(r, "idle")
  /\ records' = [records EXCEPT ![Subject[r]] = results[r]]
  /\ stored' = records' \/ stored' = stored
  /\ results' = [results EXCEPT ![r] = 0]
  /\ cut' = [cut EXCEPT ![r] = FALSE]

\* release(), and what follows it without an await; the write may fail.
RunEnds(r) ==
  /\ stage[r] = "releasing"
  /\ Lease!Leave(r)
  /\ Move(r, "idle")
  /\ IF cut[r] THEN UNCHANGED <<records, stored>>
     ELSE /\ records' = [records EXCEPT ![Subject[r]] = results[r]]
          /\ stored' = records' \/ stored' = stored
  /\ results' = [results EXCEPT ![r] = 0]
  /\ cut' = [cut EXCEPT ![r] = FALSE]

\* The handler is cancelled while release() waits for the lock: nothing shields it here,
\* the count stays, and nothing is stored.
ReleaseInterrupted(r) ==
  /\ stage[r] = "releasing"
  /\ Move(r, "leaked")
  /\ UNCHANGED <<leaseVars, results, cut, records, stored>>

\* The manager, and the requests of other handlers.
LeaseMoves ==
  /\ \/ \E t \in Others : Lease!Admit(t) \/ Lease!Leave(t)
     \/ \E e \in LeaseEngines : Lease!Evict(e) \/ Lease!Grant(e)
     \/ Lease!Revoke
  /\ UNCHANGED <<stage, results, cut, records, stored>>

\* The handlers go with the router; what was stored is read back.
CalibrationRestart ==
  /\ Lease!Restart
  /\ stage' = [r \in Runs |-> "idle"]
  /\ records' = stored
  /\ results' = [r \in Runs |-> 0]
  /\ cut' = [r \in Runs |-> FALSE]
  /\ UNCHANGED stored

CalibrationNext ==
  \/ \E r \in Runs :
       \/ StartRun(r)
       \/ RunAcquires(r)
       \/ RunFails(r)
       \/ Probe(r)
       \/ InterruptedRun(r)
       \/ RunEnds(r)
       \/ ReleaseInterrupted(r)
  \/ LeaseMoves
  \/ CalibrationRestart

CalibrationSpec == CalibrationInit /\ [][CalibrationNext]_calibrationVars

----------------------------------------------------------------------------
\* A calibration has a count on its engine exactly from the end of its acquire to its
\* release, however it ends: no drain waits for one that is over, and none is missed, but
\* for one whose release was itself cancelled, which is counted until the router restarts.
\* As long as it was not given up by a drain, no other engine has the GPU while it measures.
RunsHoldCounts ==
  \A r \in Runs :
    /\ users[r] = IF stage[r] \in {"probing", "releasing", "leaked"} THEN EngineOf(r)
                  ELSE NoLease
    /\ stage[r] = "probing" /\ r \notin evicted => holder \in {EngineOf(r), NoLease}

\* Among calibrations that are cancelled, fail, or run twice for one model: what is stored is
\* the result of a whole battery, never of an interrupted one nor of two mixed, in memory and
\* in the state file.
RecordsAreWhole ==
  \A q \in Subjects : records[q] \in {0, Probes} /\ stored[q] \in {0, Probes}
=============================================================================

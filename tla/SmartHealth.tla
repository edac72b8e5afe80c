---------------------------- MODULE SmartHealth ----------------------------
(***************************************************************************)
(* The picker at work: requests that are tried on the models of their      *)
(* plans, the failures and successes they report in any order, cooldowns,  *)
(* the state file, the mode switch, and restarts of the router.            *)
(***************************************************************************)
EXTENDS Naturals, Sequences

CONSTANTS
  Models,
  Requests,
  Threshold,       \* retry.failure_threshold, one at least
  Plans(_),        \* the plans _decide() may make, given the models in cooldown
  ConfiguredMode   \* routing_mode

ASSUME HealthAssumption ==
  Threshold \in Nat \ {0} /\ ConfiguredMode \in {"smart", "manual"}

VARIABLES
  mode,       \* "smart" or "manual"
  failures,   \* [Models -> 0..Threshold]: consecutive_failures, at most the threshold
  cooling,    \* the models whose cooldown_until lies ahead
  saved,      \* the two in the state file
  plan,       \* [Requests -> sequence of models]; <<>>: not a request of the picker
  refused,    \* history: [Models -> 0..Threshold], refusals since the last success, but
              \* for those a restart found no written record of
  rested,     \* history: those that refused Threshold requests and came out of a cooldown
              \* since the last of them
  noted       \* history: the two at the last write of the state file that succeeded

healthVars == <<mode, failures, cooling, saved, plan, refused, rested, noted>>

Record == [failures |-> failures, cooling |-> cooling]

Struck(count) == {m \in Models : count[m] >= Threshold}

History == [refused |-> refused, rested |-> rested]

\* The write of the state file: replaced, or left as it is when that fails, unnoticed.
WriteRecord ==
  \/ saved' = Record' /\ noted' = History'
  \/ UNCHANGED <<saved, noted>>

AtMost(n) == IF n > Threshold THEN Threshold ELSE n

HealthInit ==
  /\ mode = ConfiguredMode
  /\ failures = [m \in Models |-> 0]
  /\ cooling = {}
  /\ saved = Record
  /\ plan = [r \in Requests |-> <<>>]
  /\ refused = [m \in Models |-> 0]
  /\ rested = {}
  /\ noted = History

\* POST /admin/smart/mode; not saved.
SetMode(new) ==
  /\ mode' = new
  /\ UNCHANGED <<failures, cooling, saved, plan, refused, rested, noted>>

\* The plan is made once: what cools down later is still tried.
Pick(r) ==
  /\ mode = "smart"
  /\ plan[r] = <<>>
  /\ \E p \in Plans(cooling) : plan' = [plan EXCEPT ![r] = p]
  /\ UNCHANGED <<mode, failures, cooling, saved, refused, rested, noted>>

RecordFailure(m) ==
  /\ failures' = [failures EXCEPT ![m] = AtMost(@ + 1)]
  /\ cooling' = IF failures[m] + 1 >= Threshold THEN cooling \cup {m} ELSE cooling

\* Seeded fault: the file is written before the failure is recorded.
RefusedSavesFirst(r) ==
  /\ plan[r] # <<>>
  /\ RecordFailure(Head(plan[r]))
  /\ saved' = Record
  /\ plan' = [plan EXCEPT ![r] = Tail(@)]
  /\ refused' = [refused EXCEPT ![Head(plan[r])] = AtMost(@ + 1)]
  /\ rested' = rested \ {Head(plan[r])}
  /\ noted' = History'
  /\ UNCHANGED mode

\* The engine does not come up or cannot be connected to: recorded, written, and the
\* next attempt made, if there is one.
Refused(r) ==
  /\ plan[r] # <<>>
  /\ RecordFailure(Head(plan[r]))
  /\ plan' = [plan EXCEPT ![r] = Tail(@)]
  /\ refused' = [refused EXCEPT ![Head(plan[r])] = AtMost(@ + 1)]
  /\ rested' = rested \ {Head(plan[r])}
  /\ WriteRecord
  /\ UNCHANGED mode

\* An error status or an answer cut short: recorded only, and not tried again.
Broken(r) ==
  /\ plan[r] # <<>>
  /\ RecordFailure(Head(plan[r]))
  /\ plan' = [plan EXCEPT ![r] = <<>>]
  /\ UNCHANGED <<mode, saved, refused, rested, noted>>

Succeeded(r) ==
  /\ plan[r] # <<>>
  /\ failures' = [failures EXCEPT ![Head(plan[r])] = 0]
  /\ cooling' = cooling \ {Head(plan[r])}
  /\ plan' = [plan EXCEPT ![r] = <<>>]
  /\ refused' = [refused EXCEPT ![Head(plan[r])] = 0]
  /\ rested' = rested \ {Head(plan[r])}
  /\ noted' = [refused |-> [noted.refused EXCEPT ![Head(plan[r])] = 0],
               rested |-> noted.rested \ {Head(plan[r])}]
  /\ UNCHANGED <<mode, saved>>

\* The client has gone before the attempt ended.
Gone(r) ==
  /\ plan[r] # <<>>
  /\ plan' = [plan EXCEPT ![r] = <<>>]
  /\ UNCHANGED <<mode, failures, cooling, saved, refused, rested, noted>>

\* A swap, a refresh of the catalog or a calibration writes the state file.
Persist ==
  /\ UNCHANGED <<mode, failures, cooling, plan, refused, rested>>
  /\ WriteRecord

\* cooldown_until is reached; the one in the file is never later.
CooldownEnds(m) ==
  /\ \/ /\ m \in cooling
        /\ cooling' = cooling \ {m}
        /\ rested' = rested \cup ({m} \cap Struck(refused))
     \/ m \in saved.cooling /\ UNCHANGED <<cooling, rested>>
  /\ saved' = [saved EXCEPT !.cooling = @ \ {m}]
  /\ noted' = [noted EXCEPT !.rested = @ \cup ({m} \cap Struck(noted.refused))]
  /\ UNCHANGED <<mode, failures, plan, refused>>

HealthRestart ==
  /\ mode' = ConfiguredMode
  /\ failures' = saved.failures
  /\ cooling' = saved.cooling
  /\ plan' = [r \in Requests |-> <<>>]
  /\ refused' = noted.refused
  /\ rested' = noted.rested
  /\ UNCHANGED <<saved, noted>>

HealthNext ==
  \/ \E new \in {"smart", "manual"} : SetMode(new)
  \/ \E r \in Requests : Pick(r) \/ Refused(r) \/ Broken(r) \/ Succeeded(r) \/ Gone(r)
  \/ Persist
  \/ \E m \in Models : CooldownEnds(m)
  \/ HealthRestart

HealthSpec == HealthInit /\ [][HealthNext]_healthVars

----------------------------------------------------------------------------
\* A model that refused Threshold requests in a row, whichever requests they were, is in
\* cooldown, or has been and came out of it.  A restart between them takes off the
\* refusals recorded since the state file was last written, and no other: each refusal
\* writes it, so that those are the ones whose write failed.
StrikesHold ==
  Struck(refused) \subseteq cooling \cup rested
=============================================================================

----------------------------- MODULE MCEngines -----------------------------
(***************************************************************************)
(* One engine of one kind per behaviour: a process engine, ds4, or a       *)
(* service with an API.  They share nothing but the GPU, so that looking   *)
(* at them one at a time loses nothing, and they take turns with the       *)
(* processes and with the call in progress.                                *)
(***************************************************************************)
EXTENDS ProcessEngine, Ds4Engine, ApiSwapEngine

CONSTANT Ds4Pids     \* the pids of ds4's processes

VARIABLE kind        \* "process", "ds4" or "api"

ownVars    == <<pattern, handle>>
ds4OwnVars == <<ds4ConfVars, unitVars, blind, heard>>
apiOwnVars == <<apiConfVars, serviceVars, todo, asked, misled>>
anyVars    == <<kind, procVars, pc, late, outcome, ownVars, ds4OwnVars, apiOwnVars>>

\* What the other kinds have.
NoProcess == pattern = {} /\ handle = Nobody
NoDs4 ==
  /\ control = "process" /\ ds4Pattern = {}
  /\ unit = "inactive" /\ main = Nobody /\ queued = FALSE /\ blind = FALSE /\ heard = FALSE
NoApi ==
  /\ probes = FALSE /\ unloads = FALSE /\ serving = FALSE /\ misled = FALSE
  /\ loaded = {} /\ pending = {} /\ leaving = {} /\ todo = {} /\ asked = NoModel

NobodyLives ==
  life = [p \in Pids |-> "gone"] /\ group = [p \in Pids |-> p] /\ server = Nobody /\ up = FALSE

OfDs4 == \A p \in Pids \ Ds4Pids : life[p] = "gone"

AnyInit ==
  \/ kind = "process" /\ Init /\ NoDs4 /\ NoApi
  \/ kind = "ds4" /\ Ds4Init /\ OfDs4 /\ NoProcess /\ NoApi
  \/ kind = "api" /\ ApiInit /\ NobodyLives /\ NoProcess /\ NoDs4

OnlyProcess(act) == kind = "process" /\ act /\ UNCHANGED <<kind, ds4OwnVars, apiOwnVars>>
OnlyDs4(act) == kind = "ds4" /\ act /\ OfDs4' /\ UNCHANGED <<kind, ownVars, apiOwnVars>>
OnlyApi(act) == kind = "api" /\ act /\ UNCHANGED <<kind, procVars, ownVars, ds4OwnVars>>

AnyNext == OnlyProcess(Next) \/ OnlyDs4(Ds4Next) \/ OnlyApi(ApiNext)

\* The fairness of each engine is its module's.
AnySpec ==
  /\ AnyInit /\ [][AnyNext]_anyVars
  /\ WF_anyVars(OnlyProcess(Progress) \/ OnlyDs4(Ds4Progress) \/ OnlyApi(ApiPolls))
  /\ WF_anyVars(\/ OnlyProcess(DeadlinePasses)
                \/ OnlyDs4(Ds4DeadlinePasses)
                \/ OnlyApi(ApiDeadlinePasses))
  /\ \A p \in Pids :
       WF_anyVars(\/ OnlyProcess(KillTakes(p) /\ UNCHANGED <<pattern, callVars>>)
                  \/ OnlyDs4(KillTakes(p) /\ UNCHANGED <<ds4ConfVars, unitVars, ds4CallVars>>))
=============================================================================

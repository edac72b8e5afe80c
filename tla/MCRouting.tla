----------------------------- MODULE MCRouting -----------------------------
(***************************************************************************)
(* The parts that decide where a request goes and what it carries, and     *)
(* those that keep what these decisions rest on.  They share no state but  *)
(* what the catalog and the picker are given, so that a behaviour runs one *)
(* of them ("part") and leaves the others at their first state.            *)
(***************************************************************************)
EXTENDS MCCatalog, SmartDecision, SmartHealth, ListCaches, MemorySettle, StartCommand,
        RequestBodies, LoadedLists, BenchmarkStore, SwapRecords, Calibration, TLC

CONSTANTS small, large, other   \* models of the picker, in the order of their names

VARIABLE part

----------------------------------------------------------------------------
(* The picker: two models on one engine and one on another, every combination of what *)
(* fits, what is in cooldown, what is up, and the scores that differ by less than the *)
(* margin, by it, and by more.                                                        *)

ThreeByName == <<small, large, other>>
Homes == [p \in {small, large, other} |-> IF p = other THEN e2 ELSE e1]

AllViews ==
  {w \in [fits : SUBSET Candidates, cooled : SUBSET Candidates,
             active : {e1, e2, NoEngine}, score : [Candidates -> {0, 1, 3}],
             managed : {{e1}, {e1, e2}}, sure : BOOLEAN, sameModelReload : BOOLEAN,
             fallForward : BOOLEAN] :
     /\ w.cooled \subseteq w.fits
     /\ e2 \in w.managed \/ (w.active = e1 /\ w.sure /\ w.fallForward)
     /\ w.sameModelReload \/ w.fallForward}

\* The plans for two of the models, given those in cooldown.
PlansGiven(resting) ==
  {Plan([fits |-> fits, cooled |-> resting \cap fits, active |-> up1,
         score |-> [p \in Candidates |-> IF p = small THEN 1 ELSE 0],
         managed |-> {e1, e2}, sure |-> TRUE, sameModelReload |-> FALSE, fallForward |-> TRUE]) :
     fits \in SUBSET {small, other}, up1 \in {e1, e2}}

----------------------------------------------------------------------------
(* Start commands of up to four arguments, and thinking policies of two models. *)

Arguments ==
  {[flag |-> f, value |-> NoValue] : f \in Flags \ {"no flag"}}
    \cup {[flag |-> "no flag", value |-> v] : v \in Values}
    \cup {[flag |-> "-m", value |-> "module"], [flag |-> "--served-model-name", value |-> "plain"]}
ShortCommands == UNION {[1..n -> Arguments] : n \in 0..4}

Policies == [p \in {small, other} |-> IF p = small THEN 2 ELSE 0]
Tried == {<<small>>, <<small, small, other>>, <<other, other, small>>, <<small, other, small>>}

----------------------------------------------------------------------------
(* A service with three models; the built-in benchmark table and a surer provider from the *)
(* network; two calibrations, of models on two engines.                                    *)

ThreeOffered == <<small, large, other>>
Instances == [p \in {small, large, other} |-> <<"instance of", p>>]

TwoProviders == <<"builtin-priors", "fetcher">>
Sureness     == [p \in {"builtin-priors", "fetcher"} |-> IF p = "fetcher" THEN 2 ELSE 1]
OwnNames     == [p \in {small, other} |-> p]

TwoBuckets     == <<0, 1>>
StartEstimates == [p \in {e1, e2} |-> 30]

Measured == [r \in {"first", "second"} |-> IF r = "first" THEN small ELSE other]

----------------------------------------------------------------------------
(* The sum *)

AView == CHOOSE view1 \in Views : TRUE
DecisionOff == view = AView /\ planned = Undecided
CachesOff ==
  /\ style = "process" /\ up = FALSE /\ cache = None
  /\ asking = [caller \in Callers |-> [on |-> FALSE, for |-> 0]]
  /\ told = [how |-> "nothing", age |-> 0]
CommandOff == argv = <<>> /\ i = 1 /\ within = FALSE /\ ids = {}
BodiesOff ==
  /\ path = "api" /\ budget = 0 /\ own = "none" /\ attempts = <<other>>
  /\ raw = Body(other, "none") /\ body = raw /\ sent = <<>>

ListsOff == service = [kind |-> "names", in |-> {}] /\ read = <<>>

AnyInit ==
  /\ part \in {"catalog", "decision", "health", "caches", "settle", "command", "bodies",
              "lists", "benchmarks", "records", "calibration"}
  /\ CatalogInit /\ HealthInit /\ SettleInit
  /\ IF part = "decision" THEN DecisionInit ELSE DecisionOff
  /\ IF part = "caches" THEN CacheInit ELSE CachesOff
  /\ IF part = "command" THEN CommandInit ELSE CommandOff
  /\ IF part = "bodies" THEN BodiesInit ELSE BodiesOff
  /\ IF part = "lists" THEN ListsInit ELSE ListsOff
  /\ BenchInit /\ (part # "benchmarks" => lifetime = 0)
  /\ RecordsInit /\ (part # "records" => marker = Nowhere)
  /\ CalibrationInit /\ (part # "calibration" => holder = NoLease)

decisionVars == <<view, planned>>

\* The variables of every part but one.
OthersStill ==
  /\ IF part = "catalog" THEN TRUE ELSE UNCHANGED catalogVars
  /\ IF part = "decision" THEN TRUE ELSE UNCHANGED decisionVars
  /\ IF part = "health" THEN TRUE ELSE UNCHANGED healthVars
  /\ IF part = "caches" THEN TRUE ELSE UNCHANGED cacheVars
  /\ IF part = "settle" THEN TRUE ELSE UNCHANGED settleVars
  /\ IF part = "command" THEN TRUE ELSE UNCHANGED commandVars
  /\ IF part = "bodies" THEN TRUE ELSE UNCHANGED bodyVars
  /\ IF part = "lists" THEN TRUE ELSE UNCHANGED listVars
  /\ IF part = "benchmarks" THEN TRUE ELSE UNCHANGED benchVars
  /\ IF part = "records" THEN TRUE ELSE UNCHANGED recordVars
  /\ IF part = "calibration" THEN TRUE ELSE UNCHANGED calibrationVars

AnyNext ==
  /\ UNCHANGED part
  /\ \/ part = "catalog" /\ CatalogNext
     \/ part = "decision" /\ DecisionNext
     \/ part = "health" /\ HealthNext
     \/ part = "caches" /\ CacheNext
     \/ part = "settle" /\ SettleNext
     \/ part = "command" /\ CommandNext
     \/ part = "bodies" /\ BodiesNext
     \/ part = "lists" /\ ListsNext
     \/ part = "benchmarks" /\ BenchNext
     \/ part = "records" /\ RecordsNext
     \/ part = "calibration" /\ CalibrationNext
  /\ OthersStill

anyVars == <<part, catalogVars, decisionVars, healthVars, cacheVars, settleVars, commandVars,
             bodyVars, listVars, benchVars, recordVars, calibrationVars>>

AnySpec == AnyInit /\ [][AnyNext]_anyVars

\* The requests of the health part, and the callers of the caches, are interchangeable.
Alike == Permutations(Requests) \cup Permutations(Callers)
=============================================================================

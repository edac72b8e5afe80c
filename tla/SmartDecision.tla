--------------------------- MODULE SmartDecision ---------------------------
(***************************************************************************)
(* The smart picker's decision: what it picks (_decide, from the scores    *)
(* on) and in which order the handlers then try the models                 *)
(* (_attempt_plan).  Scores are arbitrary numbers here: how they are put   *)
(* together from benchmarks, speed, swap cost and reliability is left out, *)
(* what is done with them is not.                                          *)
(***************************************************************************)
EXTENDS Integers, Sequences, FiniteSets, Functions

CONSTANTS
  ByName,        \* the candidates in the order of their ids
  Home,          \* [model -> engine]
  NoEngine,
  Margin,        \* swap_margin, in the unit of the scores
  MaxFallbacks   \* retry.max_fallbacks

Candidates == Range(ByName)

ASSUME DecisionAssumption ==
  /\ ByName \in Seq(Candidates)
  /\ DOMAIN Home = Candidates /\ NoEngine \notin {Home[m] : m \in Candidates}
  /\ Margin \in Nat /\ MaxFallbacks \in Nat

----------------------------------------------------------------------------
(* _decide(); "view" is what it sees: the models that fit the request, those in *)
(* cooldown, the active engine, the scores, whether the confidence that follows *)
(* from the scores and benchmarks is enough ("sure"), the engines the router    *)
(* has ("managed"; a remembered model may be of one it no longer has), and the  *)
(* retry policy: same_model_reload and fall_forward                             *)

Rested(view) == view.fits \ view.cooled
Resident(view, m) == Home[m] = view.active

\* With all of them in cooldown they are let through at a nominal score, the resident
\* ones before the others.
Viable(view) == IF Rested(view) # {} THEN Rested(view) ELSE view.fits
Total(view, m) ==
  IF Rested(view) # {} THEN view.score[m]
  ELSE IF Resident(view, m) THEN 2 ELSE 1

Place(m) == CHOOSE i \in DOMAIN ByName : ByName[i] = m

Before(view, a, b) ==
  \/ Total(view, a) > Total(view, b)
  \/ Total(view, a) = Total(view, b) /\ Place(a) < Place(b)

First(view, S) == CHOOSE m \in S : \A n \in S \ {m} : Before(view, m, n)

Residents(view) == {m \in Viable(view) : Resident(view, m)}

\* Seeded fault: the gain is compared with what the model has, not with the resident's.
BestByScore(view) ==
  LET top == First(view, Viable(view))
  IN IF Residents(view) # {} /\ (Total(view, top) < Margin \/ ~view.sure)
     THEN First(view, Residents(view)) ELSE top

\* The swap-worth-it rule, then the confidence rule: in doubt the engine that is up.
Best(view) ==
  LET top == First(view, Viable(view))
      res == First(view, Residents(view))
  IN IF /\ Residents(view) # {}
        /\ \/ ~Resident(view, top) /\ Total(view, top) - Total(view, res) < Margin
           \/ ~view.sure
     THEN res ELSE top

\* The members of S, each before those it beats.
Ranked(view, S) ==
  CHOOSE s \in [1..Cardinality(S) -> S] :
    \A i, j \in DOMAIN s : i < j => Before(view, s[i], s[j])

UpTo(n, s) == IF Len(s) <= n THEN s ELSE SubSeq(s, 1, n)

\* Seeded fault: what is in cooldown stays in the list of fallbacks.
FallbacksOfAll(view) == UpTo(MaxFallbacks, Ranked(view, view.fits \ {Best(view)}))

\* The other models let through, of the engines the router has.
Alternatives(view) == {m \in Viable(view) \ {Best(view)} : Home[m] \in view.managed}

Fallbacks(view) == UpTo(MaxFallbacks, Ranked(view, Alternatives(view)))

Attempted(view, best) ==
  <<best>> \o (IF view.sameModelReload THEN <<best>> ELSE <<>>)
           \o (IF view.fallForward THEN Fallbacks(view) ELSE <<>>)

\* Seeded fault: with everything in cooldown nothing is picked.
PlanOfRested(view) ==
  IF Rested(view) = {} THEN <<>> ELSE Attempted(view, Best(view))

\* _attempt_plan() of the decision; without one (no model fits) the request is routed
\* as it is.
Plan(view) ==
  IF view.fits = {} THEN <<>> ELSE Attempted(view, Best(view))

----------------------------------------------------------------------------
(* As a process of one step, for every view of a given set *)

CONSTANT Views

ASSUME ViewsAssumption ==
  \A w \in Views : w.fits \subseteq Candidates /\ w.score \in [Candidates -> Int]

VARIABLES view, planned

Undecided == <<"undecided">>

DecisionInit == view \in Views /\ planned = Undecided
Decide == planned = Undecided /\ planned' = Plan(view) /\ UNCHANGED view
DecisionNext == Decide \/ UNCHANGED <<view, planned>>
DecisionSpec == DecisionInit /\ [][DecisionNext]_<<view, planned>>

Decided == planned # Undecided

\* A request is never left without a model while one fits, even with all of them in
\* cooldown; and its attempts are bounded: one model twice, no other twice.
NeverStarves ==
  Decided =>
    /\ (planned = <<>>) = (view.fits = {})
    /\ Len(planned) <= 2 + MaxFallbacks
    /\ \A i, j \in DOMAIN planned : i < j /\ planned[i] = planned[j] => <<i, j>> = <<1, 2>>

\* A model in cooldown is neither picked nor kept as a fallback while another one fits,
\* not even by the rules that prefer the resident engine.
PlanAvoidsCooled ==
  Decided => \/ Range(planned) \cap view.cooled = {}
             \/ view.fits \subseteq view.cooled

\* The GPU is not swapped for little or on a guess: a model of another engine is picked
\* only with confidence and when each model of the active engine that could serve scores
\* less by the margin.
SwapsAreWorthIt ==
  Decided /\ planned # <<>> /\ ~Resident(view, planned[1]) =>
    \A m \in view.fits :
      /\ Resident(view, m) => m \in view.cooled \/
           (view.sure /\ view.score[planned[1]] >= view.score[m] + Margin)
      /\ Resident(view, m) => Rested(view) # {}
=============================================================================

--------------------------- MODULE RequestBodies ---------------------------
(***************************************************************************)
(* What a handler sends upstream for each attempt of a request: the real   *)
(* model id, and on /v1 the thinking policy of that model, both written    *)
(* into one dict that all attempts share.                                  *)
(***************************************************************************)
EXTENDS Naturals, Sequences

CONSTANTS
  Targets,
  Below,     \* [Targets -> Nat]: disable_thinking_below_max_tokens, 0 for none
  Budgets,   \* what max_tokens may be; 0: not a number, or not there
  Attempts      \* attempts, as _attempt_plan() makes them

ASSUME BodiesAssumption ==
  /\ Below \in [Targets -> Nat] /\ Budgets \subseteq Nat
  /\ Attempts \subseteq Seq(Targets) \ {<<>>}

VARIABLES
  path,     \* "chat" for /v1/chat/completions, "v1" or "api"
  budget, own,   \* the client's max_tokens and chat_template_kwargs
  attempts, \* the plan
  body,     \* the dict: its model and chat_template_kwargs
  raw,      \* the bytes of the first attempt
  sent      \* the bodies sent so far

bodyVars == <<path, budget, own, attempts, body, raw, sent>>

\* chat_template_kwargs: none, without enable_thinking, with it, or not an object.
OwnKwargs == {"none", "other", "chosen", "odd"}

\* _apply_thinking_policy(): where it writes, it writes enable_thinking = false.
Fires(m) == path = "chat" /\ budget # 0 /\ budget < Below[m]
Thinking(m, kwargs) ==
  CASE ~Fires(m) \/ kwargs \in {"chosen", "off", "other+off"} -> kwargs
    [] Fires(m) /\ kwargs = "other" -> "other+off"
    [] Fires(m) /\ kwargs \in {"none", "odd"} -> "off"

Body(m, kwargs) == [model |-> m, kwargs |-> kwargs]

\* The model of the first attempt is already the real one (the pick, or the alias's).
BodiesInit ==
  /\ path \in {"chat", "v1", "api"}
  /\ budget \in Budgets
  /\ own \in OwnKwargs
  /\ attempts \in Attempts
  /\ raw = Body(attempts[1], Thinking(attempts[1], own))
  /\ body = raw
  /\ sent = <<>>

Next1 == attempts[Len(sent) + 1]

\* Seeded fault: a fallback keeps what was written for the model before.
BodyForInherits ==
  IF Next1 = attempts[1] THEN sent' = Append(sent, raw) /\ UNCHANGED body
  ELSE /\ body' = Body(Next1, Thinking(Next1, body.kwargs))
       /\ sent' = Append(sent, body')

\* body_for(): the client's own kwargs are put back first, on /v1.
BodyFor ==
  IF Next1 = attempts[1] THEN sent' = Append(sent, raw) /\ UNCHANGED body
  ELSE /\ body' = Body(Next1, Thinking(Next1, IF path = "api" THEN body.kwargs ELSE own))
       /\ sent' = Append(sent, body')

Attempt ==
  /\ Len(sent) < Len(attempts)
  /\ BodyFor
  /\ UNCHANGED <<path, budget, own, attempts, raw>>

BodiesNext == Attempt \/ UNCHANGED bodyVars
BodiesSpec == BodiesInit /\ [][BodiesNext]_bodyVars

----------------------------------------------------------------------------
\* Every attempt carries the client's request for the model it goes to: its id, and the
\* client's own kwargs with thinking turned off exactly if the policy of that model says
\* so, whatever the attempts before it have written.
BodiesAreClients ==
  \A n \in DOMAIN sent :
    /\ sent[n].model = attempts[n]
    /\ sent[n].kwargs = Thinking(attempts[n], own)
=============================================================================

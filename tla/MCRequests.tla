----------------------------- MODULE MCRequests -----------------------------
(* ProxiedRequests with an SSE stream, an /api stream and a plain request, planned
   by the smart picker: a model twice, then another; or two models. *)
EXTENDS ProxiedRequests, TLC

CONSTANTS sse, api, json, a, b, ea, eb

MCOwner == (a :> ea) @@ (b :> eb)
MCPlan  == [r \in Requests |-> IF r = json THEN <<b, a>> ELSE <<a, a, b>>]
=============================================================================

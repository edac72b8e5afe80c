----------------------------- MODULE MCCatalog -----------------------------
(***************************************************************************)
(* A catalog of two process engines and a service.  m is listed by e2 and  *)
(* by the service; e2's start command names c, and so do the service's     *)
(* tags; e1 lists the name of the alias x of m, and the target u of the    *)
(* alias d is listed by nobody and named by the service's tags alone.      *)
(***************************************************************************)
EXTENDS Catalog

CONSTANTS e1, e2, a1,       \* engines: two of processes, a service with an API
          s, m, c, x, d, u  \* ids; x and d are aliases

ThreeEngines  == <<e1, a1, e2>>
OneStatic     == [id \in {s} |-> e1]
NoServed      == [e \in {e2} |-> {}]
OneStartCmd   == [e \in {e2} |-> {c}]
TwoAliases    == [id \in {x, d} |-> IF id = x THEN m ELSE u]
Listable      == [e \in {e1, a1, e2} |->
                    CASE e = e1 -> {x} [] e = e2 -> {m} [] e = a1 -> {m}]
Taggable      == [e \in {a1} |-> {m, c, u}]
=============================================================================

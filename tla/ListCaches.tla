---------------------------- MODULE ListCaches ----------------------------
(***************************************************************************)
(* The cache of an engine's model list: available_models() of a process    *)
(* engine, available_tags() of a service with an API, and of Ollama.  Each *)
(* call looks at the cache, asks the engine if it is old, and stores what  *)
(* comes back with the time at which the call began; calls overlap, and    *)
(* nothing keeps the answers in order.                                     *)
(***************************************************************************)
EXTENDS Naturals

CONSTANTS Callers, Ttl   \* tags_cache_ttl_s, in ticks

ASSUME CacheAssumption == Ttl \in Nat \ {0}

VARIABLES
  style,   \* "process", "api" or "ollama": whose method it is; never changes
  up,      \* the engine answers
  cache,   \* None, or the age of the time stamp and, as history, of the question
  asking,  \* [Callers -> None or the ticks since the call began]
  told     \* history: what the last call that ended was told

cacheVars == <<style, up, cache, asking, told>>

None == [stamp |-> Ttl, age |-> Ttl, kept |-> FALSE]
Kept(stamp, age) == [stamp |-> stamp, age |-> age, kept |-> TRUE]

CacheInit ==
  /\ style \in {"process", "api", "ollama"}
  /\ up \in BOOLEAN
  /\ cache = None
  /\ asking = [c \in Callers |-> [on |-> FALSE, for |-> 0]]
  /\ told = [how |-> "nothing", age |-> 0]

Later(n) == IF n < Ttl THEN n + 1 ELSE Ttl

Tick ==
  /\ cache' = [cache EXCEPT !.stamp = Later(@), !.age = Later(@)]
  /\ asking' = [c \in Callers |->
                  IF asking[c].on THEN [asking[c] EXCEPT !.for = Later(@)] ELSE asking[c]]
  /\ told' = [told EXCEPT !.how = "nothing", !.age = 0]
  /\ UNCHANGED <<style, up>>

UpOrDown == up' = ~up /\ UNCHANGED <<style, cache, asking, told>>

Fresh == cache.kept /\ cache.stamp < Ttl

FromCache(c) ==
  /\ ~asking[c].on
  /\ Fresh
  /\ told' = [how |-> "cache", age |-> cache.age]
  /\ UNCHANGED <<style, up, cache, asking>>

Ask(c) ==
  /\ ~asking[c].on
  /\ ~Fresh
  /\ asking' = [asking EXCEPT ![c] = [on |-> TRUE, for |-> 0]]
  /\ UNCHANGED <<style, up, cache, told>>

Over(c) == asking' = [asking EXCEPT ![c] = [on |-> FALSE, for |-> 0]]

\* Seeded fault: the time is taken when the answer has come.
AnsweredStampedLate(c) ==
  /\ asking[c].on
  /\ up \/ style # "ollama"
  /\ cache' = Kept(0, asking[c].for)
  /\ told' = [how |-> "answer", age |-> asking[c].for]
  /\ Over(c)
  /\ UNCHANGED <<style, up>>

\* An answer; of the first two kinds of engine a failure too, which is an empty list.
Answered(c) ==
  /\ asking[c].on
  /\ up \/ style # "ollama"
  /\ cache' = Kept(asking[c].for, asking[c].for)
  /\ told' = [how |-> "answer", age |-> asking[c].for]
  /\ Over(c)
  /\ UNCHANGED <<style, up>>

\* Ollama's failure is not stored: the old list is returned, however old.
OllamaFails(c) ==
  /\ asking[c].on
  /\ style = "ollama" /\ ~up
  /\ told' = [how |-> IF cache.kept THEN "stale" ELSE "nothing", age |-> cache.age]
  /\ Over(c)
  /\ UNCHANGED <<style, up, cache>>

\* load_model() has loaded another model: the list is dropped, a question that is on
\* its way is not.
LoadDrops ==
  /\ style = "api"
  /\ cache' = None
  /\ UNCHANGED <<style, up, asking, told>>

Abandoned(c) == asking[c].on /\ Over(c) /\ UNCHANGED <<style, up, cache, told>>

CacheNext ==
  \/ Tick
  \/ UpOrDown
  \/ \E c \in Callers : \/ FromCache(c) \/ Ask(c) \/ Answered(c) \/ OllamaFails(c)
                        \/ Abandoned(c)
  \/ LoadDrops

CacheSpec == CacheInit /\ [][CacheNext]_cacheVars

----------------------------------------------------------------------------
\* A list served from the cache was asked for less than the time to live ago, however
\* slow its answer was and whatever overtook it.  This is the age of what the cache gives
\* only: a list served because Ollama does not answer has any age, and a model that has
\* left the list is remembered by the catalog and still routed there.
ServedTagsAge == told.how = "cache" => told.age < Ttl
=============================================================================

-------------------------- MODULE BenchmarkStore --------------------------
(***************************************************************************)
(* The cache of benchmark records: lookups of the picker, the admin's      *)
(* refresh and clear, the state file, and restarts.  No method awaits, so  *)
(* that each operation is one step; a write of the state file may fail,    *)
(* and a provider may raise at any fetch.                                  *)
(***************************************************************************)
EXTENDS Naturals, Sequences, Functions

CONSTANTS
  Spellings,      \* local model ids
  Canonical,      \* [Spellings -> canonical id], identify(...).canonical
  Registered,     \* the providers as a sequence
  Networked,      \* those of them that need the network
  AllowNetwork,   \* smart.benchmarks.allow_network
  Dependable,     \* those that never raise: the built-in table
  Confidence,     \* [providers -> Nat], of their records
  Lifetimes,      \* the cache_ttl_s of interest, in ticks; 0: for ever
  MaxAge          \* bound: ages are told apart up to it

Providers  == Range(Registered)
Canonicals == Range(Canonical)

ASSUME BenchmarkAssumption ==
  /\ Registered \in Seq(Providers) /\ Confidence \in [Providers -> Nat]
  /\ DOMAIN Canonical = Spellings /\ MaxAge \in Nat
  /\ Networked \subseteq Providers /\ AllowNetwork \in BOOLEAN
  /\ Dependable \subseteq Providers \ Networked
  /\ Lifetimes \subseteq 0..(MaxAge - 1)

VARIABLES
  lifetime,   \* cache_ttl_s; never changes
  shelf,      \* _cache: [canonical ids -> who gave the records, ticks since fetched_at
              \* and, as history, since the fetch]
  filed,      \* the benchmarks section of the state file
  looked,     \* history: the last lookup, <<>> when none since the last step but lookups
  settled     \* history: [canonical id -> ticks since it was cleared or refreshed and saved]

benchVars == <<lifetime, shelf, filed, looked, settled>>

BenchInit ==
  /\ lifetime \in Lifetimes
  /\ shelf = <<>> /\ filed = <<>>
  /\ looked = <<>>
  /\ settled = [id \in Canonicals |-> MaxAge]

Expired(id) == lifetime > 0 /\ shelf[id].stamp > lifetime

\* _fetch_and_cache(): a provider that raises is passed over.
Fetched(working) ==
  [from |-> {p \in working : AllowNetwork \/ p \notin Networked}, stamp |-> 0, age |-> 0]

With(store, ids, entry) ==
  [id \in DOMAIN store \cup ids |-> IF id \in ids THEN entry ELSE store[id]]
Without(store, ids) == [id \in DOMAIN store \ ids |-> store[id]]

----------------------------------------------------------------------------
(* records_for() *)

LookUpCached(id) ==
  /\ id \in DOMAIN shelf /\ ~Expired(id)
  /\ looked' = <<[of |-> id, from |-> shelf[id].from, age |-> shelf[id].age]>>
  /\ UNCHANGED <<lifetime, shelf, filed, settled>>

LookUpFetched(id, working) ==
  /\ id \in DOMAIN shelf => Expired(id)
  /\ shelf' = With(shelf, {id}, Fetched(working))
  /\ looked' = <<[of |-> id, from |-> shelf'[id].from, age |-> 0]>>
  /\ UNCHANGED <<lifetime, filed, settled>>

----------------------------------------------------------------------------
(* The admin's operations, each ending in _persist(), which may fail *)

Persisted(touched) ==
  \/ /\ filed' = shelf'
     /\ settled' = [id \in Canonicals |-> IF id \in touched THEN 0 ELSE settled[id]]
  \/ UNCHANGED <<filed, settled>>

\* POST /admin/benchmarks/refresh: one model, or all that are cached and the candidates.
Refetch(ids, working) ==
  /\ shelf' = With(shelf, ids, Fetched(working))
  /\ Persisted(ids)
  /\ looked' = <<>>
  /\ UNCHANGED lifetime

RefetchAll(candidates, working) ==
  Refetch(DOMAIN shelf \cup {Canonical[m] : m \in candidates}, working)

\* POST /admin/benchmarks/clear: one model, or all.
Clear(ids) ==
  /\ shelf' = Without(shelf, ids)
  /\ Persisted(ids)
  /\ looked' = <<>>
  /\ UNCHANGED lifetime

\* Any other _persist().
Save ==
  /\ filed' = shelf
  /\ looked' = <<>>
  /\ UNCHANGED <<lifetime, shelf, settled>>

\* Seeded fault: what is loaded counts as fetched now.
ReadBackYoung == [id \in {k \in DOMAIN filed : filed[k].from # {}} |->
                    [filed[id] EXCEPT !.stamp = 0]]

\* load_state(): an entry without records is not taken over.
ReadBack == [id \in {k \in DOMAIN filed : filed[k].from # {}} |-> filed[id]]

BenchRestart ==
  /\ shelf' = ReadBack
  /\ looked' = <<>>
  /\ UNCHANGED <<lifetime, filed, settled>>

Aged(n) == IF n < MaxAge THEN n + 1 ELSE n
Older(store) ==
  [id \in DOMAIN store |-> [from |-> store[id].from, stamp |-> Aged(store[id].stamp),
                            age |-> Aged(store[id].age)]]

ClockTicks ==
  /\ shelf' = Older(shelf)
  /\ filed' = Older(filed)
  /\ settled' = [id \in Canonicals |-> Aged(settled[id])]
  /\ looked' = <<>>
  /\ UNCHANGED lifetime

BenchNext ==
  \/ \E m \in Spellings :
       \/ LookUpCached(Canonical[m])
       \/ Clear({Canonical[m]})
  \/ \E raising \in SUBSET (Providers \ Dependable) :
       \/ \E m \in Spellings :
            \/ LookUpFetched(Canonical[m], Providers \ raising)
            \/ Refetch({Canonical[m]}, Providers \ raising)
       \/ \E candidates \in SUBSET Spellings : RefetchAll(candidates, Providers \ raising)
  \/ Clear(DOMAIN shelf)
  \/ Save
  \/ BenchRestart
  \/ ClockTicks

BenchSpec == BenchInit /\ [][BenchNext]_benchVars

----------------------------------------------------------------------------
\* priors_for(): the surest record, the first among equals.
Surest(from) ==
  CHOOSE p \in from : \A q \in from :
    \/ Confidence[p] > Confidence[q]
    \/ Confidence[p] = Confidence[q]
         /\ (CHOOSE n \in DOMAIN Registered : Registered[n] = p)
              <= (CHOOSE n \in DOMAIN Registered : Registered[n] = q)

\* What the picker is given was fetched no longer than cache_ttl_s ago, restarts
\* included, and not before the admin last cleared or refreshed the model, if that was
\* saved; and whoever raised at the fetch, it is at least as sure as the built-in table.
BenchmarksAreCurrent ==
  looked # <<>> =>
    LET answer == looked[1] IN
    /\ lifetime > 0 => answer.age <= lifetime
    /\ answer.age <= settled[answer.of]
    /\ \A p \in Dependable : answer.from # {} /\ Confidence[Surest(answer.from)] >= Confidence[p]
=============================================================================

---------------------------- MODULE CatalogProofs ----------------------------
(***************************************************************************)
(* Proofs about the catalog, for any engines, models, aliases and answers: *)
(* the lookups of an owner agree, no model is forgotten, and a restart     *)
(* leaves it with its owner; and about what engines are heard to list: the *)
(* caches of their lists, and the shapes a list may have.  First what all  *)
(* choices by order, and all inductions over numbers, rest on.             *)
(***************************************************************************)
EXTENDS Catalog, ListCaches, LoadedLists, FiniteSetTheorems, WellFoundedInduction, TLAPS

----------------------------------------------------------------------------
(* Least members *)

\* A nonempty family of finite sets has a minimal member.
LEMMA MinimalSet ==
  ASSUME NEW S, NEW F, F \subseteq FiniteSubsetsOf(S), F # {}
  PROVE  \E A \in F : \A B \in F : ~(B \subseteq A /\ B # A)
<1>1. \E A \in F : \A B \in F : <<B, A>> \notin StrictSubsetOrdering(S)
  BY WFMin, FS_StrictSubsetOrderingWellFounded
<1>2. \A A \in F : A \subseteq S
  BY DEF FiniteSubsetsOf
<1>. QED  BY <1>1, <1>2 DEF StrictSubsetOrdering

\* A nonempty set of natural numbers has a least member.
LEMMA LeastNat ==
  ASSUME NEW S \in SUBSET Nat, S # {}
  PROVE  \E n \in S : \A k \in S : n <= k
<1>. DEFINE F == {0..n : n \in S}
<1>1. F \subseteq FiniteSubsetsOf(Nat)
  <2>1. \A n \in S : IsFiniteSet(0..n) /\ 0..n \subseteq Nat
    BY FS_Interval
  <2>. QED  BY <2>1 DEF FiniteSubsetsOf
<1>2. PICK A \in F : \A B \in F : ~(B \subseteq A /\ B # A)
  <2>1. F # {}
    OBVIOUS
  <2>. HIDE DEF F
  <2>. QED  BY <1>1, <2>1, MinimalSet
<1>3. PICK n \in S : A = 0..n
  BY <1>2
<1>4. ASSUME NEW k \in S, k < n PROVE FALSE
  <2>1. 0..k \in F /\ 0..k \subseteq A /\ n \in A /\ n \notin 0..k
    BY <1>3, <1>4
  <2>. QED  BY <1>2, <2>1
<1>. QED  BY <1>4

\* Whatever is ranked by natural numbers has a member of the least rank.
LEMMA LeastRank ==
  ASSUME NEW S, S # {}, NEW rank \in [S -> Nat]
  PROVE  \E x \in S : \A y \in S : rank[x] <= rank[y]
<1>1. PICK n \in {rank[x] : x \in S} : \A k \in {rank[x] : x \in S} : n <= k
  BY LeastNat
<1>. QED  BY <1>1

\* Induction, over a set of natural numbers rather than over a predicate.
LEMMA EachNumber ==
  ASSUME NEW S, 0 \in S, \A n \in Nat : n \in S => n + 1 \in S
  PROVE  Nat \subseteq S
<1>. DEFINE others == Nat \ S
<1>. SUFFICES ASSUME others # {} PROVE FALSE
  OBVIOUS
<1>1. PICK n \in others : \A k \in others : n <= k
  BY LeastNat
<1>2. n - 1 \in Nat /\ n - 1 \notin others
  BY <1>1
<1>. QED  BY <1>1, <1>2

----------------------------------------------------------------------------
(* The order of the engines *)

\* Each engine has one place in the order.
LEMMA Places ==
  ASSUME NEW e \in Engines
  PROVE  Position(e) \in Nat /\ Position(e) \in DOMAIN Order /\ Order[Position(e)] = e
<1>1. PICK i \in DOMAIN Order : Order[i] = e
  BY DEF Engines, Range
<1>2. DOMAIN Order \subseteq Nat
  BY CatalogAssumption
<1>. QED  BY <1>1, <1>2 DEF Position

LEMMA SamePlace ==
  ASSUME NEW e \in Engines, NEW f \in Engines, Earlier(e, f), Earlier(f, e)
  PROVE  e = f
BY Places DEF Earlier

LEMMA FirstIsMember ==
  ASSUME NEW S \in SUBSET Engines, S # {}
  PROVE  FirstOf(S) \in S /\ \A f \in S : Earlier(FirstOf(S), f)
<1>. DEFINE rank == [e \in S |-> Position(e)]
<1>1. rank \in [S -> Nat]
  BY Places
<1>2. \E e \in S : \A f \in S : rank[e] <= rank[f]
  <2>. HIDE DEF rank
  <2>. QED  BY <1>1, LeastRank
<1>3. \E e \in S : \A f \in S : Earlier(e, f)
  BY <1>2 DEF Earlier
<1>. QED  BY <1>3 DEF FirstOf

LEMMA LastIsMember ==
  ASSUME NEW S \in SUBSET Engines, S # {}
  PROVE  LastOf(S) \in S
<1>. DEFINE rank == [e \in S |-> Len(Order) - Position(e)]
<1>1. rank \in [S -> Nat]
  <2>1. Len(Order) \in Nat /\ DOMAIN Order = 1..Len(Order)
    BY CatalogAssumption
  <2>. QED  BY <2>1, Places
<1>2. \E e \in S : \A f \in S : rank[e] <= rank[f]
  <2>. HIDE DEF rank
  <2>. QED  BY <1>1, LeastRank
<1>3. \E e \in S : \A f \in S : Earlier(f, e)
  <2>1. Len(Order) \in Nat
    BY CatalogAssumption
  <2>. QED  BY <1>2, <2>1, Places DEF Earlier
<1>. QED  BY <1>3 DEF LastOf

----------------------------------------------------------------------------
(* Claims and their winner *)

Sources == {"static", "served_models", "live", "start_cmd", "persisted"}

LEMMA Priorities ==
  /\ SOURCE_PRIORITY["static"] = 100 /\ SOURCE_PRIORITY["served_models"] = 80
  /\ SOURCE_PRIORITY["live"] = 70 /\ SOURCE_PRIORITY["start_cmd"] = 60
  /\ SOURCE_PRIORITY["persisted"] = 10
BY DEF SOURCE_PRIORITY

Proper(c) == c.engine \in Engines /\ c.source \in Sources

\* Of any claims one beats the others: by source, then by the place of its engine.
LEMMA WinnerWins ==
  ASSUME NEW C, C # {}, \A c \in C : Proper(c)
  PROVE  Winner(C) \in C /\ \A d \in C : Beats(Winner(C), d)
<1>. DEFINE weak == [c \in C |-> 100 - SOURCE_PRIORITY[c.source]]
            D == {c \in C : \A d \in C : weak[c] <= weak[d]}
            place == [c \in D |-> Position(c.engine)]
<1>1. \A c \in C : SOURCE_PRIORITY[c.source] \in 0..100
  BY Priorities DEF Proper, Sources
<1>2. weak \in [C -> Nat]
  BY <1>1
<1>3. D # {}
  <2>1. \E c \in C : \A d \in C : weak[c] <= weak[d]
    <3>. HIDE DEF weak
    <3>. QED  BY <1>2, LeastRank
  <2>. QED  BY <2>1
<1>4. place \in [D -> Nat]
  BY Places DEF Proper
<1>5. PICK c \in D : \A d \in D : place[c] <= place[d]
  <2>. HIDE DEF D, place
  <2>. QED  BY <1>3, <1>4, LeastRank
<1>6. ASSUME NEW d \in C PROVE Beats(c, d)
  <2>1. CASE SOURCE_PRIORITY[c.source] > SOURCE_PRIORITY[d.source]
    BY <2>1 DEF Beats
  <2>2. CASE ~(SOURCE_PRIORITY[c.source] > SOURCE_PRIORITY[d.source])
    <3>0. c \in C /\ weak[c] <= weak[d] /\ weak[c] = 100 - SOURCE_PRIORITY[c.source]
            /\ weak[d] = 100 - SOURCE_PRIORITY[d.source]
      BY <1>5, <1>6
    <3>1. SOURCE_PRIORITY[c.source] = SOURCE_PRIORITY[d.source]
      <4>. DEFINE p == SOURCE_PRIORITY[c.source]
                  q == SOURCE_PRIORITY[d.source]
      <4>1. p \in 0..100 /\ q \in 0..100
        BY <1>1, <3>0
      <4>2. ~(p > q) /\ 100 - p <= 100 - q
        BY <2>2, <3>0
      <4>. HIDE DEF p, q
      <4>3. p = q
        BY <4>1, <4>2
      <4>. QED  BY <4>3 DEF p, q
    <3>2. c.source = d.source
      BY <1>6, <3>0, <3>1, Priorities DEF Proper, Sources
    <3>3. d \in D
      BY <1>5, <1>6, <3>0, <3>1
    <3>. QED  BY <1>5, <3>2, <3>3 DEF Beats, Earlier
  <2>. QED  BY <2>1, <2>2
<1>. QED  BY <1>5, <1>6 DEF Winner

\* Who claims what.
LEMMA InFrom ==
  ASSUME NEW source, NEW lists, NEW c
  PROVE  c \in From(source, lists) <=>
           \E e \in DOMAIN lists : \E m \in lists[e] :
             c = [id |-> m, engine |-> e, source |-> source]
BY DEF From

LEMMA ClaimKinds ==
  ASSUME NEW r, NEW live, DOMAIN live \subseteq Engines, NEW c \in Claims(r, live),
         r \in [DOMAIN r -> Engines]
  PROVE  /\ Proper(c)
         /\ c.source = "static" => c.id \in DOMAIN Static /\ c.engine = Static[c.id]
         /\ c.source = "served_models" => c.engine \in Discovering /\ c.id \in Served[c.engine]
         /\ c.source = "start_cmd" => c.engine \in Discovering /\ c.id \in StartCmd[c.engine]
         /\ c.source = "live" => c.engine \in DOMAIN live /\ c.id \in live[c.engine]
         /\ c.source = "persisted" => c.id \in DOMAIN r /\ c.engine = r[c.id]
<1>1. CASE \E m \in DOMAIN Static : c = [id |-> m, engine |-> Static[m], source |-> "static"]
  BY <1>1, CatalogAssumption DEF Proper, Sources
<1>2. CASE c \in From("served_models", Served)
  BY <1>2, InFrom, CatalogAssumption DEF Proper, Sources
<1>3. CASE c \in From("start_cmd", StartCmd)
  BY <1>3, InFrom, CatalogAssumption DEF Proper, Sources
<1>4. CASE c \in From("live", live)
  BY <1>4, InFrom DEF Proper, Sources
<1>5. CASE \E m \in DOMAIN r : c = [id |-> m, engine |-> r[m], source |-> "persisted"]
  BY <1>5 DEF Proper, Sources
<1>. QED  BY <1>1, <1>2, <1>3, <1>4, <1>5 DEF Claims

----------------------------------------------------------------------------
(* What rebuild() makes of what is remembered and listed *)

\* The ids that only the configuration names.
Configured == DOMAIN Static \cup (UNION Range(Served)) \cup (UNION Range(StartCmd))

\* All that is listed is remembered; no engine but ours.
Fits(r, live) == r \in [DOMAIN r -> Engines] /\ live \in [Engines -> SUBSET DOMAIN r]

Resolvable(known) == {a \in DOMAIN Aliases : Aliases[a] \in known}

\* The entry of a model is a claim, and no stronger claim was there.
Owned(r, live, m, entry) ==
  /\ entry.engine \in Engines /\ entry.source \in Sources
  /\ entry.source = "static" => m \in DOMAIN Static /\ entry.engine = Static[m]
  /\ entry.source = "served_models" => \E e \in Discovering : m \in Served[e]
  /\ entry.source = "start_cmd" => \E e \in Discovering : m \in StartCmd[e]
  /\ entry.source = "live" => m \in live[entry.engine]
  /\ entry.source = "persisted" => m \in DOMAIN r /\ entry.engine = r[m]
  /\ m \in DOMAIN Static => entry.source = "static"
  /\ (\E e \in Discovering : m \in Served[e]) => entry.source \in {"static", "served_models"}

LEMMA ClaimedAre ==
  ASSUME NEW r, NEW live, Fits(r, live)
  PROVE  Claimed(Claims(r, live)) = Configured \cup DOMAIN r
<1>1. ASSUME NEW m \in Claimed(Claims(r, live)) PROVE m \in Configured \cup DOMAIN r
  <2>1. PICK c \in Claims(r, live) : m = c.id
    BY DEF Claimed
  <2>2. r \in [DOMAIN r -> Engines] /\ DOMAIN live \subseteq Engines
    BY DEF Fits
  <2>3. c.source = "live" => m \in DOMAIN r
    BY <2>1, <2>2, ClaimKinds DEF Fits
  <2>4. c.source = "served_models" => m \in UNION Range(Served)
    <3>1. c.source = "served_models" => c.engine \in DOMAIN Served /\ m \in Served[c.engine]
      BY <2>1, <2>2, ClaimKinds, CatalogAssumption
    <3>. QED  BY <3>1 DEF Range
  <2>5. c.source = "start_cmd" => m \in UNION Range(StartCmd)
    <3>1. c.source = "start_cmd" => c.engine \in DOMAIN StartCmd /\ m \in StartCmd[c.engine]
      BY <2>1, <2>2, ClaimKinds, CatalogAssumption
    <3>. QED  BY <3>1 DEF Range
  <2>6. /\ c.source = "static" => m \in DOMAIN Static
        /\ c.source = "persisted" => m \in DOMAIN r
        /\ c.source \in Sources
    BY <2>1, <2>2, ClaimKinds DEF Proper
  <2>. QED  BY <2>3, <2>4, <2>5, <2>6 DEF Configured, Sources
<1>2. ASSUME NEW m, NEW c \in Claims(r, live), c.id = m PROVE m \in Claimed(Claims(r, live))
  BY <1>2 DEF Claimed
<1>3. ASSUME NEW m \in DOMAIN r PROVE m \in Claimed(Claims(r, live))
  <2>1. [id |-> m, engine |-> r[m], source |-> "persisted"] \in Claims(r, live)
    BY DEF Claims
  <2>. QED  BY <1>2, <2>1
<1>4. ASSUME NEW m \in DOMAIN Static PROVE m \in Claimed(Claims(r, live))
  <2>1. [id |-> m, engine |-> Static[m], source |-> "static"] \in Claims(r, live)
    BY DEF Claims
  <2>. QED  BY <1>2, <2>1
<1>5. ASSUME NEW e \in DOMAIN Served, NEW m \in Served[e] PROVE m \in Claimed(Claims(r, live))
  <2>1. [id |-> m, engine |-> e, source |-> "served_models"] \in Claims(r, live)
    BY InFrom DEF Claims
  <2>. QED  BY <1>2, <2>1
<1>6. ASSUME NEW e \in DOMAIN StartCmd, NEW m \in StartCmd[e]
      PROVE  m \in Claimed(Claims(r, live))
  <2>1. [id |-> m, engine |-> e, source |-> "start_cmd"] \in Claims(r, live)
    BY InFrom DEF Claims
  <2>. QED  BY <1>2, <2>1
<1>. QED  BY <1>1, <1>3, <1>4, <1>5, <1>6 DEF Configured, Range

LEMMA WinnerOwns ==
  ASSUME NEW r, NEW live, Fits(r, live), NEW m \in Configured \cup DOMAIN r
  PROVE  LET w == Winner(ClaimsOn(Claims(r, live), m)) IN Owned(r, live, m, w)
<1>. DEFINE C == ClaimsOn(Claims(r, live), m)
            w == Winner(C)
<1>1. C \subseteq Claims(r, live) /\ \A c \in C : c.id = m
  BY DEF ClaimsOn
<1>2. r \in [DOMAIN r -> Engines] /\ DOMAIN live \subseteq Engines
  BY DEF Fits
<1>3. C # {}
  BY ClaimedAre DEF Claimed, ClaimsOn
<1>4. w \in C /\ \A d \in C : Beats(w, d)
  BY <1>1, <1>2, <1>3, ClaimKinds, WinnerWins
<1>. HIDE DEF C, w
<1>5. /\ Proper(w) /\ w.id = m
      /\ w.source = "static" => m \in DOMAIN Static /\ w.engine = Static[m]
      /\ w.source = "served_models" => w.engine \in Discovering /\ m \in Served[w.engine]
      /\ w.source = "start_cmd" => w.engine \in Discovering /\ m \in StartCmd[w.engine]
      /\ w.source = "live" => w.engine \in DOMAIN live /\ m \in live[w.engine]
      /\ w.source = "persisted" => m \in DOMAIN r /\ w.engine = r[m]
  <2>1. w \in Claims(r, live) /\ w.id = m
    BY <1>1, <1>4
  <2>. QED  BY <1>2, <2>1, ClaimKinds
<1>6. ASSUME m \in DOMAIN Static PROVE w.source = "static"
  <2>. DEFINE d == [id |-> m, engine |-> Static[m], source |-> "static"]
  <2>1. d \in C /\ d.source = "static"
    BY <1>6 DEF C, ClaimsOn, Claims
  <2>2. Beats(w, d)
    BY <1>4, <2>1
  <2>. HIDE DEF d
  <2>. QED  BY <1>5, <2>1, <2>2, Priorities DEF Beats, Proper, Sources
<1>7. ASSUME NEW e \in Discovering, m \in Served[e]
      PROVE  w.source \in {"static", "served_models"}
  <2>. DEFINE d == [id |-> m, engine |-> e, source |-> "served_models"]
  <2>1. d \in C /\ d.source = "served_models"
    <3>1. d \in From("served_models", Served)
      BY <1>7, InFrom, CatalogAssumption
    <3>. QED  BY <3>1 DEF C, ClaimsOn, Claims
  <2>2. Beats(w, d)
    BY <1>4, <2>1
  <2>. HIDE DEF d
  <2>. QED  BY <1>5, <2>1, <2>2, Priorities DEF Beats, Proper, Sources
<1>. QED  BY <1>5, <1>6, <1>7 DEF Owned, Proper, C, w

\* The entries are all that is named and the aliases of that, each with its owner, an
\* alias with that of the model that it stands for.
Routed(r, live, known, E) ==
  /\ DOMAIN E = known \cup Resolvable(known)
  /\ \A m \in known \ Resolvable(known) : Owned(r, live, m, E[m])
  /\ \A a \in Resolvable(known) :
       /\ E[a].source = "alias" /\ E[a].engine = E[Aliases[a]].engine
       /\ Aliases[a] \in known \ Resolvable(known)

LEMMA EntriesAre ==
  ASSUME NEW r, NEW live, Fits(r, live), NEW E, E = Rebuilt(r, live),
         NEW known, known = Configured \cup DOMAIN r
  PROVE  Routed(r, live, known, E)
<1>. DEFINE claims == Claims(r, live)
            W(m) == Winner(ClaimsOn(claims, m))
<1>1. Claimed(claims) = known /\ Usable(claims) = Resolvable(known)
  BY ClaimedAre DEF Usable, Resolvable
<1>2. \A m \in known : Owned(r, live, m, W(m))
  BY WinnerOwns
<1>3. E = [m \in known \cup Resolvable(known) |->
             IF m \in Resolvable(known)
             THEN [engine |-> W(Aliases[m]).engine, source |-> "alias"]
             ELSE [engine |-> W(m).engine, source |-> W(m).source]]
  BY <1>1 DEF Rebuilt, Merged
<1>. HIDE DEF claims, W
<1>4. \A m \in known \ Resolvable(known) :
        E[m].engine = W(m).engine /\ E[m].source = W(m).source
  BY <1>3
<1>5. \A a \in Resolvable(known) : Aliases[a] \in known \ Resolvable(known)
  BY CatalogAssumption DEF Resolvable
<1>6. \A m \in known \ Resolvable(known) : Owned(r, live, m, E[m])
  BY <1>2, <1>4 DEF Owned
<1>7. \A a \in Resolvable(known) :
        E[a].source = "alias" /\ E[a].engine = E[Aliases[a]].engine
  <2>. SUFFICES ASSUME NEW a \in Resolvable(known)
                PROVE  E[a].source = "alias" /\ E[a].engine = E[Aliases[a]].engine
    OBVIOUS
  <2>. DEFINE owner == W(Aliases[a]).engine
  <2>1. E[a] = [engine |-> owner, source |-> "alias"]
    BY <1>3
  <2>2. E[Aliases[a]].engine = owner
    BY <1>4, <1>5
  <2>. HIDE DEF owner
  <2>. QED  BY <2>1, <2>2
<1>. QED  BY <1>3, <1>5, <1>6, <1>7 DEF Routed

----------------------------------------------------------------------------
(* What is remembered, in memory and in the state file *)

KnownNow == Configured \cup DOMAIN persisted

MemoryInv ==
  /\ persisted \in [DOMAIN persisted -> Engines]
  /\ \E live : Fits(persisted, live) /\ entries = Rebuilt(persisted, live)
  /\ seen \in [Engines -> SUBSET DOMAIN persisted]

\* All that a restart from the file could know.
Brought(file) == Configured \cup DOMAIN file.catalog \cup (UNION Range(file.seen))

\* The file holds the owners of all the entries it was written from that would otherwise
\* be forgotten, and nothing that would make an alias of a model which was none.
FileFits(E, file) ==
  /\ file = [catalog |-> file.catalog, expired |-> file.expired, seen |-> file.seen]
  /\ file.catalog \in [DOMAIN file.catalog -> Engines]
  /\ DOMAIN file.seen = Engines
  /\ \A m \in DOMAIN E :
       /\ E[m].source = "static" => m \in DOMAIN Static
       /\ E[m].source = "alias" =>
            /\ m \in DOMAIN Aliases /\ Aliases[m] \in DOMAIN E
            /\ E[Aliases[m]].source # "alias"
       /\ E[m].source \notin {"static", "alias"} =>
            m \in DOMAIN file.catalog /\ file.catalog[m] = E[m].engine
       /\ E[m].source \in {"live", "persisted"} =>
            /\ m \notin DOMAIN Static /\ \A e \in Discovering : m \notin Served[e]
            /\ ~(m \in DOMAIN Aliases /\ Aliases[m] \in Brought(file))

FileInv == FileFits(written, disk)

CatalogInv == MemoryInv /\ FileInv

\* What holds of the entries whenever the memory is in order.
LEMMA EntriesNow ==
  ASSUME MemoryInv
  PROVE  \E live : Fits(persisted, live) /\ Routed(persisted, live, KnownNow, entries)
BY EntriesAre DEF MemoryInv, KnownNow

\* What is listed is what the engines in question list.
LEMMA Listed ==
  ASSUME NEW lists, NEW m
  PROVE  m \in UNION Range(lists) <=> Listing(lists, m) # {}
BY DEF Range, Listing

LEMMA DiscoveredAre ==
  ASSUME MemoryInv
  PROVE  DOMAIN Discovered \subseteq KnownNow
<1>. DEFINE lists == [e \in Discovering |-> StartCmd[e] \cup seen[e] \cup Served[e]]
<1>1. DOMAIN Discovered = UNION Range(lists)
  BY DEF Discovered
<1>2. ASSUME NEW m \in UNION Range(lists) PROVE m \in KnownNow
  <2>1. PICK e \in Discovering : m \in StartCmd[e] \cup seen[e] \cup Served[e]
    BY <1>2 DEF Range
  <2>2. e \in Engines /\ e \in DOMAIN Served /\ e \in DOMAIN StartCmd
    BY CatalogAssumption
  <2>3. seen[e] \subseteq DOMAIN persisted
    BY <2>2 DEF MemoryInv
  <2>4. StartCmd[e] \subseteq UNION Range(StartCmd) /\ Served[e] \subseteq UNION Range(Served)
    BY <2>2 DEF Range
  <2>. QED  BY <2>1, <2>3, <2>4 DEF KnownNow, Configured
<1>. QED  BY <1>1, <1>2

----------------------------------------------------------------------------
(* The lookups *)

LEMMA LookupsAgreeNow ==
  ASSUME MemoryInv
  PROVE  RoutesAgree
<1>. SUFFICES ASSUME NEW tags \in Within(MayTag)
              PROVE  /\ \A m \in Known : ~Dangling(m) => EngineFor(m, tags) = Explain(m, tags)
                     /\ \A m \in DOMAIN Enumerate(tags) :
                          Enumerate(tags)[m] = EngineFor(m, tags)
                     /\ \A m \in DOMAIN ModelList :
                          ~Dangling(m) => ModelList[m] = EngineFor(m, tags)
  BY DEF RoutesAgree
<1>. DEFINE K == KnownNow
            R == Resolvable(KnownNow)
<1>1. DOMAIN entries = K \cup R
  BY EntriesNow DEF Routed
<1>2. \A m \in K \ R : /\ entries[m].source # "alias"
                       /\ m \in DOMAIN Static => entries[m].engine = Static[m]
  BY EntriesNow DEF Routed, Owned, Sources
<1>3. \A a \in R : /\ entries[a].source = "alias" /\ entries[a].engine = entries[Aliases[a]].engine
                   /\ Aliases[a] \in K \ R
  BY EntriesNow DEF Routed
<1>4. \A m : m \in R <=> m \in DOMAIN Aliases /\ Aliases[m] \in K
  BY DEF Resolvable
<1>5. \A a \in DOMAIN Aliases : a \notin DOMAIN Static /\ Aliases[a] \notin DOMAIN Aliases
  BY CatalogAssumption
<1>6. DOMAIN Static \subseteq K /\ DOMAIN Discovered \subseteq K
  BY DiscoveredAre DEF KnownNow, Configured
<1>. HIDE DEF K, R
<1>7. ASSUME NEW m \in DOMAIN Aliases, ~Dangling(m) PROVE m \in R
  BY <1>1, <1>4, <1>5, <1>7 DEF Dangling, Real
<1>8. ASSUME NEW m \in Known, ~Dangling(m) PROVE EngineFor(m, tags) = Explain(m, tags)
  <2>1. CASE m \in DOMAIN Aliases
    <3>1. m \in R /\ Real(m) = Aliases[m] /\ Real(m) \in DOMAIN entries
      BY <1>1, <1>3, <1>7, <1>8, <2>1 DEF Real
    <3>. QED  BY <1>1, <1>3, <3>1 DEF EngineFor, Explain
  <2>2. CASE m \notin DOMAIN Aliases
    BY <2>2 DEF Known, Real, EngineFor, Explain
  <2>. QED  BY <2>1, <2>2
<1>9. ASSUME NEW m \in DOMAIN Enumerate(tags) PROVE Enumerate(tags)[m] = EngineFor(m, tags)
  <2>. DEFINE named == {n \in DOMAIN entries : entries[n].source # "alias"}
              ids == (UNION Range(tags)) \cup DOMAIN Discovered \cup named \cup DOMAIN Static
  <2>1. /\ m \in ids \ DOMAIN Aliases
        /\ Enumerate(tags)[m] =
             IF m \in DOMAIN Static THEN Static[m]
             ELSE IF m \in named THEN entries[m].engine
             ELSE IF Listing(tags, m) # {} THEN FirstOf(Listing(tags, m))
             ELSE Discovered[m]
    BY <1>9 DEF Enumerate
  <2>2. m \in DOMAIN entries => m \in named
    BY <1>1, <1>2, <1>4, <2>1
  <2>3. Real(m) = m
    BY <2>1 DEF Real
  <2>4. CASE m \in DOMAIN Static
    BY <2>1, <2>3, <2>4 DEF EngineFor
  <2>5. CASE m \notin DOMAIN Static /\ m \in named
    BY <2>1, <2>3, <2>5 DEF EngineFor
  <2>6. CASE m \notin DOMAIN Static /\ m \notin named
    <3>1. m \notin DOMAIN entries
      BY <2>2, <2>6
    <3>2. Listing(tags, m) = {} => m \in DOMAIN Discovered
      BY <2>1, <2>6, Listed
    <3>. QED  BY <2>1, <2>3, <2>6, <3>1, <3>2 DEF EngineFor
  <2>. QED  BY <2>4, <2>5, <2>6
<1>10. ASSUME NEW m \in DOMAIN ModelList, ~Dangling(m)
       PROVE  ModelList[m] = EngineFor(m, tags)
  <2>1. /\ m \in DOMAIN Static \cup DOMAIN entries \cup DOMAIN Discovered
        /\ ModelList[m] = IF m \in DOMAIN Static THEN Static[m]
                          ELSE IF m \in DOMAIN entries THEN entries[m].engine
                          ELSE Discovered[m]
    BY <1>10 DEF ModelList
  <2>2. m \in DOMAIN entries
    BY <1>1, <1>6, <2>1
  <2>3. CASE m \in DOMAIN Aliases
    <3>1. m \in R /\ m \notin DOMAIN Static /\ Real(m) = Aliases[m]
      BY <1>5, <1>7, <1>10, <2>3 DEF Real
    <3>2. ModelList[m] = entries[Real(m)].engine /\ Real(m) \in K \ R
      BY <1>3, <2>1, <2>2, <3>1
    <3>. QED  BY <1>1, <1>2, <3>2 DEF EngineFor
  <2>4. CASE m \notin DOMAIN Aliases
    BY <2>1, <2>2, <2>4 DEF EngineFor, Real
  <2>. QED  BY <2>3, <2>4
<1>. QED  BY <1>8, <1>9, <1>10

----------------------------------------------------------------------------
(* What is remembered of what is written *)

LEMMA NothingFits ==
  ASSUME NEW r, r \in [DOMAIN r -> Engines]
  PROVE  Fits(r, Nothing)
BY DEF Fits, Nothing

LEMMA SeenFits ==
  ASSUME NEW r, NEW live, Fits(r, live)
  PROVE  SeenModels(r, Rebuilt(r, live)) \in [Engines -> SUBSET DOMAIN r]
<1>. DEFINE E == Rebuilt(r, live)
            known == Configured \cup DOMAIN r
<1>1. Routed(r, live, known, E)
  BY EntriesAre
<1>. HIDE DEF E, known
<1>2. ASSUME NEW m \in DOMAIN E, E[m].source \in {"live", "persisted"} PROVE m \in DOMAIN r
  <2>1. m \in known \ Resolvable(known)
    BY <1>1, <1>2 DEF Routed
  <2>2. Owned(r, live, m, E[m])
    BY <1>1, <2>1 DEF Routed
  <2>. QED  BY <1>2, <2>2 DEF Owned, Fits
<1>3. SeenModels(r, E) \in [Engines -> SUBSET DOMAIN r]
  BY <1>2 DEF SeenModels
<1>. QED  BY <1>3 DEF E

LEMMA LoadedIs ==
  ASSUME NEW file
  PROVE  /\ DOMAIN Loaded(file) = (DOMAIN file.catalog \ file.expired) \cup (UNION Range(file.seen))
         /\ \A m \in DOMAIN Loaded(file) :
              Loaded(file)[m] = IF m \in DOMAIN file.catalog \ file.expired THEN file.catalog[m]
                                ELSE FirstOf(Listing(file.seen, m))
         /\ Loaded(file) = [m \in DOMAIN Loaded(file) |-> Loaded(file)[m]]
BY DEF Loaded

LEMMA LoadedFits ==
  ASSUME NEW file, file.catalog \in [DOMAIN file.catalog -> Engines], DOMAIN file.seen = Engines
  PROVE  Loaded(file) \in [DOMAIN Loaded(file) -> Engines]
<1>1. ASSUME NEW m \in DOMAIN Loaded(file) PROVE Loaded(file)[m] \in Engines
  <2>1. CASE m \in DOMAIN file.catalog \ file.expired
    BY <2>1, LoadedIs
  <2>2. CASE m \notin DOMAIN file.catalog \ file.expired
    <3>1. m \in UNION Range(file.seen) /\ Loaded(file)[m] = FirstOf(Listing(file.seen, m))
      BY <1>1, <2>2, LoadedIs
    <3>2. Listing(file.seen, m) # {} /\ Listing(file.seen, m) \subseteq Engines
      BY <3>1, Listed DEF Listing
    <3>. QED  BY <3>1, <3>2, FirstIsMember
  <2>. QED  BY <2>1, <2>2
<1>. QED  BY <1>1, LoadedIs

\* What is written of rebuilt entries fits.
LEMMA SavedFits ==
  ASSUME NEW r, NEW live, Fits(r, live), NEW E, E = Rebuilt(r, live),
         NEW expired, NEW lists \in [Engines -> SUBSET DOMAIN r],
         NEW file, file = Saved(E, expired, lists)
  PROVE  FileFits(E, file)
<1>. DEFINE ids == {m \in DOMAIN E : E[m].source \notin {"static", "alias"}}
            known == Configured \cup DOMAIN r
<1>1. Routed(r, live, known, E)
  BY EntriesAre
<1>2. /\ file = [catalog |-> file.catalog, expired |-> file.expired, seen |-> file.seen]
      /\ DOMAIN file.catalog = ids /\ \A m \in ids : file.catalog[m] = E[m].engine
      /\ file.catalog = [m \in ids |-> E[m].engine]
      /\ file.seen = lists
  BY DEF Saved
<1>. HIDE DEF known
<1>3. ASSUME NEW m \in DOMAIN E, E[m].source # "alias"
      PROVE  m \in known \ Resolvable(known) /\ Owned(r, live, m, E[m])
  BY <1>1, <1>3 DEF Routed
<1>4. file.catalog \in [DOMAIN file.catalog -> Engines]
  BY <1>2, <1>3 DEF Owned
<1>5. DOMAIN file.seen = Engines /\ UNION Range(file.seen) \subseteq DOMAIN r
  BY <1>2 DEF Range
<1>6. Brought(file) \subseteq known
  <2>1. ids \subseteq known
    BY <1>3
  <2>2. DOMAIN r \subseteq known /\ Configured \subseteq known
    BY DEF known
  <2>. QED  BY <1>2, <1>5, <2>1, <2>2 DEF Brought
<1>7. ASSUME NEW m \in DOMAIN E, E[m].source = "alias"
      PROVE  /\ m \in DOMAIN Aliases /\ Aliases[m] \in DOMAIN E
             /\ E[Aliases[m]].source # "alias"
  <2>1. m \in Resolvable(known)
    <3>1. CASE m \in known \ Resolvable(known)
      BY <1>1, <1>7, <3>1 DEF Routed, Owned, Sources
    <3>. QED  BY <1>1, <3>1 DEF Routed
  <2>2. Aliases[m] \in known \ Resolvable(known)
    BY <1>1, <2>1 DEF Routed
  <2>3. Owned(r, live, Aliases[m], E[Aliases[m]]) /\ Aliases[m] \in DOMAIN E
    BY <1>1, <2>2 DEF Routed
  <2>. QED  BY <2>1, <2>3 DEF Resolvable, Owned, Sources
<1>8. ASSUME NEW m \in DOMAIN E, E[m].source \in {"live", "persisted"}
      PROVE  /\ m \notin DOMAIN Static /\ \A e \in Discovering : m \notin Served[e]
             /\ ~(m \in DOMAIN Aliases /\ Aliases[m] \in Brought(file))
  <2>1. m \in known \ Resolvable(known) /\ Owned(r, live, m, E[m])
    BY <1>3, <1>8
  <2>. QED  BY <1>6, <1>8, <2>1 DEF Owned, Resolvable
<1>9. \A m \in DOMAIN E : E[m].source = "static" => m \in DOMAIN Static
  BY <1>3 DEF Owned
<1>10. \A m \in DOMAIN E : E[m].source \notin {"static", "alias"} =>
         m \in DOMAIN file.catalog /\ file.catalog[m] = E[m].engine
  BY <1>2
<1>. HIDE DEF ids
<1>11. \A m \in DOMAIN E :
         /\ E[m].source = "static" => m \in DOMAIN Static
         /\ E[m].source = "alias" =>
              /\ m \in DOMAIN Aliases /\ Aliases[m] \in DOMAIN E
              /\ E[Aliases[m]].source # "alias"
         /\ E[m].source \notin {"static", "alias"} =>
              m \in DOMAIN file.catalog /\ file.catalog[m] = E[m].engine
         /\ E[m].source \in {"live", "persisted"} =>
              /\ m \notin DOMAIN Static /\ \A e \in Discovering : m \notin Served[e]
              /\ ~(m \in DOMAIN Aliases /\ Aliases[m] \in Brought(file))
  BY <1>7, <1>8, <1>9, <1>10
<1>. QED  BY <1>2, <1>4, <1>5, <1>11 DEF FileFits

\* What is in the file when state_ttl_s has gone by fits as well.
LEMMA ExpiredFits ==
  ASSUME NEW E, NEW file, FileFits(E, file), NEW expired, NEW later,
         later = [catalog |-> file.catalog, expired |-> expired, seen |-> file.seen]
  PROVE  FileFits(E, later)
<1>1. /\ later.catalog = file.catalog /\ later.seen = file.seen
      /\ later = [catalog |-> later.catalog, expired |-> later.expired, seen |-> later.seen]
  OBVIOUS
<1>2. Brought(later) = Brought(file)
  BY <1>1 DEF Brought
<1>. QED  BY <1>1, <1>2 DEF FileFits

----------------------------------------------------------------------------
(* The invariant *)

\* A rebuild leaves the memory in order, and the file, written or not.
LEMMA WrittenDown ==
  ASSUME CatalogInv, NEW live, Fits(persisted', live), entries' = Rebuilt(persisted', live),
         seen' \in [Engines -> SUBSET DOMAIN persisted'], WriteOut
  PROVE  CatalogInv'
<1>1. MemoryInv'
  BY DEF MemoryInv, Fits
<1>2. CASE UNCHANGED <<disk, written>>
  BY <1>1, <1>2 DEF CatalogInv, FileInv
<1>3. CASE disk' = Saved(entries', old', seen') /\ written' = entries'
  <2>1. FileFits(entries', disk')
    BY <1>3, SavedFits
  <2>. QED  BY <1>1, <1>3, <2>1 DEF CatalogInv, FileInv
<1>. QED  BY <1>2, <1>3 DEF WriteOut

LEMMA CatalogStarts == CatalogInit => CatalogInv
<1>. SUFFICES ASSUME CatalogInit PROVE CatalogInv
  OBVIOUS
<1>1. persisted \in [DOMAIN persisted -> Engines]
  BY DEF CatalogInit
<1>2. Fits(persisted, Nothing) /\ Nothing \in [Engines -> SUBSET DOMAIN persisted]
  BY <1>1, NothingFits DEF Nothing
<1>3. entries = Rebuilt(persisted, Nothing) /\ seen = Nothing
  BY DEF CatalogInit
<1>4. MemoryInv
  BY <1>1, <1>2, <1>3 DEF MemoryInv
<1>5. /\ disk = [catalog |-> disk.catalog, expired |-> disk.expired, seen |-> disk.seen]
      /\ disk.catalog \in [DOMAIN disk.catalog -> Engines] /\ DOMAIN disk.seen = Engines
      /\ DOMAIN written = {}
  BY DEF CatalogInit, Saved, Nothing
<1>6. FileFits(written, disk)
  BY <1>5 DEF FileFits
<1>. QED  BY <1>4, <1>6 DEF CatalogInv, FileInv

LEMMA CatalogKeeps == CatalogInv /\ [CatalogNext]_catalogVars => CatalogInv'
<1>. SUFFICES ASSUME CatalogInv, [CatalogNext]_catalogVars PROVE CatalogInv'
  OBVIOUS
<1>1. ASSUME NEW lists \in Within(MayList), Refresh(lists) PROVE CatalogInv'
  <2>1. DOMAIN lists = Engines
    BY CatalogAssumption DEF Within
  <2>2. DOMAIN persisted' = DOMAIN persisted \cup (UNION Range(lists))
    BY <1>1 DEF Refresh
  <2>3. ASSUME NEW m \in DOMAIN persisted' PROVE persisted'[m] \in Engines
    <3>1. CASE Listing(lists, m) = {}
      <4>1. m \in DOMAIN persisted /\ persisted'[m] = persisted[m]
        BY <1>1, <2>2, <2>3, <3>1, Listed DEF Refresh
      <4>. QED  BY <4>1 DEF CatalogInv, MemoryInv
    <3>2. CASE Listing(lists, m) # {}
      <4>1. persisted'[m] = LastOf(Listing(lists, m))
        BY <1>1, <2>2, <2>3, <3>2 DEF Refresh
      <4>2. Listing(lists, m) \subseteq Engines
        BY <2>1 DEF Listing
      <4>. QED  BY <3>2, <4>1, <4>2, LastIsMember
    <3>. QED  BY <3>1, <3>2
  <2>4. persisted' \in [DOMAIN persisted' -> Engines]
    BY <1>1, <2>3 DEF Refresh
  <2>5. lists \in [Engines -> SUBSET DOMAIN persisted']
    <3>1. \A e \in Engines : lists[e] \subseteq UNION Range(lists)
      BY <2>1 DEF Range
    <3>2. lists = [e \in Engines |-> lists[e]]
      BY <2>1 DEF Within
    <3>. QED  BY <2>2, <3>1, <3>2
  <2>6. Fits(persisted', lists)
    BY <2>4, <2>5 DEF Fits
  <2>7. entries' = Rebuilt(persisted', lists) /\ WriteOut
          /\ seen' = SeenModels(persisted', entries')
    BY <1>1 DEF Refresh
  <2>8. seen' \in [Engines -> SUBSET DOMAIN persisted']
    BY <2>6, <2>7, SeenFits
  <2>. QED  BY <2>6, <2>7, <2>8, WrittenDown
<1>2. ASSUME NEW e \in Engines, NEW ids \in SUBSET MayList[e], Snapshot(e, ids) PROVE CatalogInv'
  <2>1. /\ persisted' = [m \in DOMAIN persisted \cup ids |-> IF m \in ids THEN e ELSE persisted[m]]
        /\ entries' = Rebuilt(persisted', Nothing) /\ WriteOut
        /\ seen' = [seen EXCEPT ![e] = ids]
    BY <1>2 DEF Snapshot
  <2>2. persisted \in [DOMAIN persisted -> Engines] /\ seen \in [Engines -> SUBSET DOMAIN persisted]
    BY DEF CatalogInv, MemoryInv
  <2>3. persisted' \in [DOMAIN persisted' -> Engines]
    BY <2>1, <2>2
  <2>4. Fits(persisted', Nothing)
    BY <2>3, NothingFits
  <2>5. seen' \in [Engines -> SUBSET DOMAIN persisted']
    BY <2>1, <2>2
  <2>. QED  BY <2>1, <2>4, <2>5, WrittenDown
<1>3. CASE TimePasses
  <2>1. MemoryInv'
    BY <1>3 DEF TimePasses, CatalogInv, MemoryInv
  <2>2. FileFits(written, disk')
    BY <1>3, ExpiredFits DEF TimePasses, CatalogInv, FileInv
  <2>. QED  BY <1>3, <2>1, <2>2 DEF TimePasses, CatalogInv, FileInv
<1>4. CASE Restart
  <2>1. /\ persisted' = Loaded(disk) /\ entries' = Rebuilt(persisted', Nothing) /\ disk' = disk
        /\ seen' = SeenModels(persisted', entries')
    BY <1>4 DEF Restart
  <2>2. persisted' \in [DOMAIN persisted' -> Engines]
    BY <2>1, LoadedFits DEF CatalogInv, FileInv, FileFits
  <2>3. Fits(persisted', Nothing) /\ seen' \in [Engines -> SUBSET DOMAIN persisted']
    BY <2>1, <2>2, NothingFits, SeenFits
  <2>4. MemoryInv'
    BY <2>1, <2>2, <2>3 DEF MemoryInv
  <2>. QED  BY <1>4, <2>4 DEF Restart, CatalogInv, FileInv
<1>5. CASE UNCHANGED catalogVars
  BY <1>5 DEF catalogVars, CatalogInv, MemoryInv, FileInv
<1>6. CASE CatalogSaved
  <2>1. PICK live : Fits(persisted, live) /\ entries = Rebuilt(persisted, live)
    BY DEF CatalogInv, MemoryInv
  <2>2. Fits(persisted', live) /\ entries' = Rebuilt(persisted', live) /\ WriteOut
    BY <1>6, <2>1 DEF CatalogSaved, Fits
  <2>3. seen' \in [Engines -> SUBSET DOMAIN persisted']
    BY <1>6 DEF CatalogSaved, CatalogInv, MemoryInv
  <2>. QED  BY <2>2, <2>3, WrittenDown
<1>. QED  BY <1>1, <1>2, <1>3, <1>4, <1>5, <1>6 DEF CatalogNext

LEMMA CatalogHolds == CatalogSpec => []CatalogInv
BY CatalogStarts, CatalogKeeps, PTL DEF CatalogSpec

\* The lookups agree: /admin/resolve names the engine that a request for the model goes
\* to, the picker chooses a model on the engine its request will go to, and /v1/models
\* lists each model under that engine.
THEOREM LookupsAgree == CatalogSpec => []RoutesAgree
<1>1. CatalogInv => RoutesAgree
  BY LookupsAgreeNow DEF CatalogInv
<1>. QED  BY <1>1, CatalogHolds, PTL

----------------------------------------------------------------------------
(* What a step may not do *)

\* Entries go only when what is remembered goes.
LEMMA EntriesStay ==
  ASSUME MemoryInv, MemoryInv', DOMAIN persisted \subseteq DOMAIN persisted'
  PROVE  DOMAIN entries \subseteq DOMAIN entries'
<1>1. DOMAIN entries = KnownNow \cup Resolvable(KnownNow)
  BY EntriesNow DEF Routed
<1>2. DOMAIN entries' = KnownNow' \cup Resolvable(KnownNow')
  <2>1. PICK live : Routed(persisted', live, KnownNow', entries')
    <3>1. PICK l : Fits(persisted', l) /\ entries' = Rebuilt(persisted', l)
      BY DEF MemoryInv, Fits
    <3>2. KnownNow' = Configured \cup DOMAIN persisted'
      BY DEF KnownNow, Configured
    <3>. QED  BY <3>1, <3>2, EntriesAre
  <2>. QED  BY <2>1 DEF Routed
<1>3. KnownNow \subseteq KnownNow'
  BY DEF KnownNow, Configured
<1>4. Resolvable(KnownNow) \subseteq Resolvable(KnownNow')
  BY <1>3 DEF Resolvable
<1>. QED  BY <1>1, <1>2, <1>3, <1>4

\* What a restart rebuilds.
LEMMA RestartRebuilds ==
  ASSUME CatalogInv, CatalogInv', Restart
  PROVE  /\ persisted' = Loaded(disk)
         /\ KnownNow' = Configured \cup DOMAIN Loaded(disk)
         /\ Routed(Loaded(disk), Nothing, KnownNow', entries')
<1>1. persisted' = Loaded(disk) /\ entries' = Rebuilt(persisted', Nothing)
  BY DEF Restart
<1>2. KnownNow' = Configured \cup DOMAIN persisted'
  BY DEF KnownNow, Configured
<1>3. persisted' \in [DOMAIN persisted' -> Engines]
  BY DEF CatalogInv, MemoryInv
<1>4. Fits(persisted', Nothing)
  BY <1>3, NothingFits
<1>5. Routed(persisted', Nothing, KnownNow', entries')
  BY <1>1, <1>2, <1>4, EntriesAre
<1>. QED  BY <1>1, <1>2, <1>5

LEMMA StepForgetsNothing ==
  ASSUME CatalogInv, CatalogInv', [CatalogNext]_catalogVars
  PROVE  \A m \in DOMAIN entries \ DOMAIN entries' :
           Restart /\ (m \notin DOMAIN written \/ {m, Real(m)} \cap disk.expired # {})
<1>1. ASSUME DOMAIN persisted \subseteq DOMAIN persisted' PROVE DOMAIN entries \subseteq DOMAIN entries'
  BY <1>1, EntriesStay DEF CatalogInv
<1>2. ASSUME NEW lists, Refresh(lists) PROVE DOMAIN persisted \subseteq DOMAIN persisted'
  BY <1>2 DEF Refresh
<1>3. ASSUME NEW e, NEW ids, Snapshot(e, ids) PROVE DOMAIN persisted \subseteq DOMAIN persisted'
  BY <1>3 DEF Snapshot
<1>4. ASSUME CatalogSaved \/ TimePasses \/ UNCHANGED catalogVars
      PROVE  DOMAIN persisted \subseteq DOMAIN persisted'
  BY <1>4 DEF CatalogSaved, TimePasses, catalogVars
<1>5. CASE Restart
  <2>. DEFINE kept == Configured \cup DOMAIN Loaded(disk)
  <2>1. DOMAIN entries' = kept \cup Resolvable(kept)
    BY <1>5, RestartRebuilds DEF Routed
  <2>2. ASSUME NEW m \in DOMAIN written, written[m].source # "alias", m \notin disk.expired
        PROVE  m \in kept
    <3>1. CASE written[m].source = "static"
      BY <3>1 DEF CatalogInv, FileInv, FileFits, Configured
    <3>2. CASE written[m].source # "static"
      <4>1. m \in DOMAIN disk.catalog \ disk.expired
        BY <2>2, <3>2 DEF CatalogInv, FileInv, FileFits
      <4>. QED  BY <4>1, LoadedIs
    <3>. QED  BY <3>1, <3>2
  <2>. HIDE DEF kept
  <2>3. ASSUME NEW m \in DOMAIN written, m \notin disk.expired, Real(m) \notin disk.expired
        PROVE  m \in DOMAIN entries'
    <3>1. CASE written[m].source = "alias"
      <4>1. /\ m \in DOMAIN Aliases /\ Real(m) = Aliases[m] /\ Real(m) \in DOMAIN written
            /\ written[Real(m)].source # "alias"
        BY <3>1 DEF CatalogInv, FileInv, FileFits, Real
      <4>2. Real(m) \in kept
        BY <2>2, <2>3, <4>1
      <4>. QED  BY <2>1, <4>1, <4>2 DEF Resolvable
    <3>2. CASE written[m].source # "alias"
      BY <2>1, <2>2, <2>3, <3>2
    <3>. QED  BY <3>1, <3>2
  <2>. QED  BY <1>5, <2>3
<1>. QED  BY <1>1, <1>2, <1>3, <1>4, <1>5 DEF CatalogNext

\* A model once known can still be routed while its engine is down; only a restart may
\* forget it, after state_ttl_s or when no write has succeeded since it became known.
THEOREM NothingForgotten == CatalogSpec => NeverForgets
<1>1. CatalogInv /\ CatalogInv' /\ [CatalogNext]_catalogVars
        => [\A m \in DOMAIN entries \ DOMAIN entries' :
              Restart /\ (m \notin DOMAIN written \/ {m, Real(m)} \cap disk.expired # {})]_catalogVars
  BY StepForgetsNothing
<1>. QED  BY <1>1, CatalogHolds, PTL DEF CatalogSpec, NeverForgets

LEMMA RestartKeepsOwner ==
  ASSUME CatalogInv, CatalogInv', Restart, NEW m \in DOMAIN written, Reported(m),
         \A e \in Discovering : m \notin StartCmd[e]
  PROVE  entries'[m].engine = written[m].engine
<1>1. /\ m \in DOMAIN disk.catalog \ disk.expired /\ disk.catalog[m] = written[m].engine
      /\ m \notin DOMAIN Static /\ \A e \in Discovering : m \notin Served[e]
      /\ ~(m \in DOMAIN Aliases /\ Aliases[m] \in Brought(disk))
  BY DEF CatalogInv, FileInv, FileFits, Reported
<1>2. m \in DOMAIN Loaded(disk) /\ Loaded(disk)[m] = written[m].engine
  BY <1>1, LoadedIs
<1>3. KnownNow' = Configured \cup DOMAIN Loaded(disk)
        /\ Routed(Loaded(disk), Nothing, KnownNow', entries')
  BY RestartRebuilds
<1>4. DOMAIN Loaded(disk) \subseteq Brought(disk) /\ Configured \subseteq Brought(disk)
  BY LoadedIs DEF Brought
<1>5. m \in KnownNow' \ Resolvable(KnownNow')
  BY <1>1, <1>2, <1>3, <1>4 DEF Resolvable
<1>6. Owned(Loaded(disk), Nothing, m, entries'[m])
  BY <1>3, <1>5 DEF Routed
<1>7. entries'[m].source = "persisted"
  BY <1>1, <1>6 DEF Owned, Nothing, Sources
<1>. QED  BY <1>2, <1>6, <1>7 DEF Owned

\* A restart within state_ttl_s gives each model that only its engines have reported the
\* owner it had when the state file was last written.
THEOREM OwnersSurvive == CatalogSpec => OwnerSurvivesRestart
<1>1. CatalogInv /\ CatalogInv'
        => [OnlyReported # {} /\ Restart =>
              \A m \in OnlyReported : entries'[m].engine = written[m].engine]_catalogVars
  BY RestartKeepsOwner DEF OnlyReported
<1>. QED  BY <1>1, CatalogHolds, PTL DEF CatalogSpec, OwnerSurvivesRestart

----------------------------------------------------------------------------
(* ListCaches *)

CacheTypes ==
  /\ cache \in [stamp : Nat, age : Nat, kept : BOOLEAN]
  /\ asking \in [Callers -> [on : BOOLEAN, for : Nat]]
  /\ told \in [how : {"nothing", "cache", "answer", "stale"}, age : Nat]

\* The time stamp of a list is never younger than the question it answers.
StampedEarly == cache.age <= cache.stamp

CacheInv == CacheTypes /\ StampedEarly /\ ServedTagsAge

\* A cached list is served for less than its time to live after it was asked for,
\* whatever number of calls overlap and in whatever order their answers come.
THEOREM CachedTagsAge == CacheSpec => []ServedTagsAge
<1>. USE CacheAssumption DEF CacheInv, CacheTypes, StampedEarly, ServedTagsAge
<1>1. CacheInit => CacheInv
  BY DEF CacheInit, None
<1>2. CacheInv /\ [CacheNext]_cacheVars => CacheInv'
  <2>. SUFFICES ASSUME CacheInv, [CacheNext]_cacheVars PROVE CacheInv'
    OBVIOUS
  <2>1. CASE Tick
    <3>1. \A n, k \in Nat : Later(n) \in Nat /\ (n <= k => Later(n) <= Later(k))
      BY DEF Later
    <3>2. cache' \in [stamp : Nat, age : Nat, kept : BOOLEAN] /\ cache'.age <= cache'.stamp
      BY <2>1, <3>1 DEF Tick
    <3>3. asking' \in [Callers -> [on : BOOLEAN, for : Nat]]
      BY <2>1, <3>1 DEF Tick
    <3>. QED  BY <2>1, <3>2, <3>3 DEF Tick
  <2>2. CASE UpOrDown
    BY <2>2 DEF UpOrDown
  <2>3. ASSUME NEW c \in Callers, FromCache(c) PROVE CacheInv'
    BY <2>3 DEF FromCache, Fresh
  <2>4. ASSUME NEW c \in Callers, Ask(c) PROVE CacheInv'
    BY <2>4 DEF Ask
  <2>5. ASSUME NEW c \in Callers, Answered(c) PROVE CacheInv'
    BY <2>5 DEF Answered, Over, Kept
  <2>6. ASSUME NEW c \in Callers, OllamaFails(c) PROVE CacheInv'
    BY <2>6 DEF OllamaFails, Over
  <2>7. ASSUME NEW c \in Callers, Abandoned(c) PROVE CacheInv'
    BY <2>7 DEF Abandoned, Over
  <2>8. CASE LoadDrops
    BY <2>8 DEF LoadDrops, None
  <2>9. CASE UNCHANGED cacheVars
    BY <2>9 DEF cacheVars
  <2>. QED  BY <2>1, <2>2, <2>3, <2>4, <2>5, <2>6, <2>7, <2>8, <2>9 DEF CacheNext
<1>3. CacheInv => ServedTagsAge
  OBVIOUS
<1>. QED  BY <1>1, <1>2, <1>3, PTL DEF CacheSpec

----------------------------------------------------------------------------
(* LoadedLists *)

\* A sequence by the sequence of what was appended so far.
ChosenBy(f, seq, places) ==
  /\ DOMAIN f = 0..Len(seq) /\ f[0] = <<>>
  /\ \A n \in 1..Len(seq) : f[n] = IF n \in places THEN Append(f[n - 1], seq[n]) ELSE f[n - 1]

LEMMA ChosenIs ==
  ASSUME NEW seq, Len(seq) \in Nat, NEW places
  PROVE  \E f : ChosenBy(f, seq, places) /\ Chosen(seq, places) = f[Len(seq)]
<1>. DEFINE N == Len(seq)
            F(f) == [n \in 0..N |-> IF n = 0 THEN <<>>
                                    ELSE IF n \in places THEN Append(f[n - 1], seq[n])
                                                         ELSE f[n - 1]]
            Upto(g, m) == /\ DOMAIN g = 0..m /\ g[0] = <<>>
                          /\ \A k \in 1..m :
                               g[k] = IF k \in places THEN Append(g[k - 1], seq[k]) ELSE g[k - 1]
            S == {m \in Nat : \E g : Upto(g, m)}
<1>0. N \in Nat
  OBVIOUS
<1>. HIDE DEF N
<1>1. 0 \in S
  <2>1. Upto([k \in 0..0 |-> <<>>], 0)
    OBVIOUS
  <2>. QED  BY <2>1
<1>2. ASSUME NEW m \in Nat, m \in S PROVE m + 1 \in S
  <2>1. PICK g : Upto(g, m)
    BY <1>2
  <2>. DEFINE next == IF m + 1 \in places THEN Append(g[m], seq[m + 1]) ELSE g[m]
              h == [k \in 0..(m + 1) |-> IF k = m + 1 THEN next ELSE g[k]]
  <2>. HIDE DEF next
  <2>2. DOMAIN h = 0..(m + 1) /\ h[0] = <<>> /\ h[m + 1] = next
        /\ \A k \in 0..m : h[k] = g[k]
    BY <2>1
  <2>. HIDE DEF h
  <2>3. ASSUME NEW k \in 1..(m + 1)
        PROVE  h[k] = IF k \in places THEN Append(h[k - 1], seq[k]) ELSE h[k - 1]
    <3>1. CASE k = m + 1
      <4>1. h[k - 1] = g[m]
        BY <2>2, <3>1
      <4>. QED  BY <2>2, <3>1, <4>1 DEF next
    <3>2. CASE k # m + 1
      <4>1. k \in 1..m /\ k \in 0..m /\ k - 1 \in 0..m
        BY <3>2
      <4>. QED  BY <2>1, <2>2, <4>1
    <3>. QED  BY <3>1, <3>2
  <2>4. Upto(h, m + 1)
    BY <2>2, <2>3
  <2>. QED  BY <2>4
<1>. HIDE DEF S
<1>3. N \in S
  BY <1>0, <1>1, <1>2, EachNumber
<1>. USE DEF S
<1>4. \E f : f = F(f)
  <2>1. PICK g : Upto(g, N)
    BY <1>3
  <2>2. \A n \in 0..N : n # 0 => n \in 1..N /\ n - 1 \in 0..N
    BY <1>0
  <2>. DEFINE f == [n \in 0..N |-> g[n]]
  <2>3. \A n \in 0..N : f[n] = IF n = 0 THEN <<>>
                               ELSE IF n \in places THEN Append(f[n - 1], seq[n]) ELSE f[n - 1]
    BY <1>0, <2>1, <2>2
  <2>4. f = F(f)
    BY <2>3
  <2>. QED  BY <2>4
<1>5. Chosen(seq, places) = (CHOOSE f : f = F(f))[N]
  BY DEF Chosen, N
<1>. DEFINE c == CHOOSE f : f = F(f)
<1>. HIDE DEF F
<1>6. c = F(c)
  BY <1>4
<1>. HIDE DEF c
<1>. USE DEF F
<1>7. ChosenBy(c, seq, places)
  <2>1. DOMAIN c = 0..N /\ \A n \in 0..N : c[n] = F(c)[n]
    BY <1>6
  <2>2. 0 \in 0..N /\ \A n \in 1..N : n \in 0..N /\ n # 0
    BY <1>0
  <2>. QED  BY <2>1, <2>2 DEF ChosenBy, N
<1>. QED  BY <1>5, <1>7 DEF c, N

\* With all places it is the sequence.
LEMMA ChosenAll ==
  ASSUME NEW A, NEW seq \in Seq(A), NEW places, DOMAIN seq \subseteq places
  PROVE  Chosen(seq, places) = seq
<1>0. Len(seq) \in Nat /\ DOMAIN seq = 1..Len(seq)
  OBVIOUS
<1>1. PICK f : ChosenBy(f, seq, places) /\ Chosen(seq, places) = f[Len(seq)]
  BY <1>0, ChosenIs
<1>. DEFINE S == {n \in Nat : n <= Len(seq) => f[n] = SubSeq(seq, 1, n)}
<1>2. 0 \in S
  <2>1. f[0] = <<>>
    BY <1>1 DEF ChosenBy
  <2>2. SubSeq(seq, 1, 0) = <<>>
    BY <1>0
  <2>. QED  BY <2>1, <2>2
<1>3. ASSUME NEW n \in Nat, n \in S, n + 1 <= Len(seq) PROVE f[n + 1] = SubSeq(seq, 1, n + 1)
  <2>1. f[n + 1] = Append(f[n], seq[n + 1]) /\ f[n] = SubSeq(seq, 1, n)
    <3>1. n + 1 \in 1..Len(seq) /\ n + 1 \in places /\ (n + 1) - 1 = n /\ n <= Len(seq)
      BY <1>0, <1>3
    <3>. QED  BY <1>1, <1>3, <3>1 DEF ChosenBy
  <2>. QED  BY <1>0, <1>3, <2>1
<1>4. \A n \in Nat : n \in S => n + 1 \in S
  BY <1>3
<1>5. Len(seq) \in S
  <2>. HIDE DEF S
  <2>. QED  BY <1>0, <1>2, <1>4, EachNumber
<1>. QED  BY <1>0, <1>1, <1>5

\* What is chosen is in the sequence, at a place of the set, and all of that is.
LEMMA ChosenAre ==
  ASSUME NEW A, NEW seq \in Seq(A), NEW places
  PROVE  /\ Chosen(seq, places) \in Seq(A)
         /\ Range(Chosen(seq, places)) = {seq[k] : k \in DOMAIN seq \cap places}
<1>0. Len(seq) \in Nat /\ DOMAIN seq = 1..Len(seq)
  OBVIOUS
<1>1. PICK f : ChosenBy(f, seq, places) /\ Chosen(seq, places) = f[Len(seq)]
  BY <1>0, ChosenIs
<1>. DEFINE Good(n) == f[n] \in Seq(A) /\ Range(f[n]) = {seq[k] : k \in (1..n) \cap places}
            S == {n \in Nat : n <= Len(seq) => Good(n)}
<1>2. 0 \in S
  <2>1. f[0] = <<>>
    BY <1>1 DEF ChosenBy
  <2>2. <<>> \in Seq(A) /\ Range(<<>>) = {}
    BY DEF Range
  <2>3. {seq[k] : k \in (1..0) \cap places} = {}
    OBVIOUS
  <2>. QED  BY <2>1, <2>2, <2>3
<1>3. ASSUME NEW n \in Nat, n \in S, n + 1 <= Len(seq) PROVE Good(n + 1)
  <2>1. n + 1 \in 1..Len(seq) /\ (n + 1) - 1 = n /\ n <= Len(seq) /\ 1..(n + 1) = (1..n) \cup {n + 1}
    BY <1>0, <1>3
  <2>2. f[n + 1] = (IF n + 1 \in places THEN Append(f[n], seq[n + 1]) ELSE f[n]) /\ Good(n)
    BY <1>1, <1>3, <2>1 DEF ChosenBy
  <2>3. seq[n + 1] \in A
    BY <1>0, <2>1
  <2>4. CASE n + 1 \in places
    <3>1. f[n + 1] = Append(f[n], seq[n + 1]) /\ f[n] \in Seq(A)
      BY <2>2, <2>4
    <3>2. f[n + 1] \in Seq(A)
      BY <2>3, <3>1
    <3>3. Range(f[n + 1]) = Range(f[n]) \cup {seq[n + 1]}
      <4>. DEFINE earlier == f[n]
                  new == f[n + 1]
                  last == Len(earlier) + 1
      <4>1. /\ DOMAIN earlier = 1..Len(earlier) /\ Len(earlier) \in Nat /\ DOMAIN new = 1..last
            /\ new[last] = seq[n + 1] /\ \A k \in 1..Len(earlier) : new[k] = earlier[k]
        BY <2>3, <3>1
      <4>. HIDE DEF earlier, new
      <4>2. 1..last = (1..Len(earlier)) \cup {last}
        BY <4>1
      <4>. HIDE DEF last
      <4>3. Range(new) = Range(earlier) \cup {seq[n + 1]}
        BY <4>1, <4>2 DEF Range
      <4>. QED  BY <4>3 DEF earlier, new
    <3>4. {seq[k] : k \in (1..(n + 1)) \cap places} = {seq[k] : k \in (1..n) \cap places} \cup {seq[n + 1]}
      BY <2>1, <2>4
    <3>. QED  BY <2>2, <3>2, <3>3, <3>4
  <2>5. CASE n + 1 \notin places
    <3>1. (1..(n + 1)) \cap places = (1..n) \cap places
      BY <2>1, <2>5
    <3>. QED  BY <2>2, <2>5, <3>1
  <2>. QED  BY <2>4, <2>5
<1>. HIDE DEF Good
<1>4. \A n \in Nat : n \in S => n + 1 \in S
  BY <1>3
<1>5. Len(seq) \in S
  <2>. HIDE DEF S
  <2>. QED  BY <1>0, <1>2, <1>4, EachNumber
<1>. QED  BY <1>0, <1>1, <1>5 DEF Good

LEMMA NothingInIt ==
  ASSUME NEW A, NEW seq \in Seq(A), Range(seq) = {}
  PROVE  seq = <<>>
<1>1. Len(seq) \in Nat /\ DOMAIN seq = 1..Len(seq)
  OBVIOUS
<1>2. \A n \in 1..Len(seq) : FALSE
  BY <1>1 DEF Range
<1>3. Len(seq) = 0
  BY <1>1, <1>2
<1>. QED  BY <1>3

\* Choosing from the images is the image of choosing.
LEMMA ChosenImages ==
  ASSUME NEW A, NEW seq \in Seq(A), NEW places, NEW G
  PROVE  Chosen([n \in DOMAIN seq |-> G[seq[n]]], places)
           = [n \in DOMAIN Chosen(seq, places) |-> G[Chosen(seq, places)[n]]]
<1>. DEFINE N == Len(seq)
            image == [n \in DOMAIN seq |-> G[seq[n]]]
            B == {G[a] : a \in A}
            Of(s) == [n \in DOMAIN s |-> G[s[n]]]
<1>0. N \in Nat /\ DOMAIN seq = 1..N /\ image \in Seq(B) /\ Len(image) = N
      /\ \A n \in 1..N : image[n] = G[seq[n]] /\ seq[n] \in A
  <2>1. N \in Nat /\ DOMAIN seq = 1..N /\ \A n \in 1..N : seq[n] \in A
    OBVIOUS
  <2>2. image \in [1..N -> B]
    BY <2>1
  <2>. QED  BY <2>1, <2>2
<1>. HIDE DEF image
<1>1. PICK f : ChosenBy(f, seq, places) /\ Chosen(seq, places) = f[N]
  BY <1>0, ChosenIs
<1>2. PICK g : ChosenBy(g, image, places) /\ Chosen(image, places) = g[N]
  BY <1>0, ChosenIs
<1>. DEFINE Good(n) == f[n] \in Seq(A) /\ g[n] = Of(f[n])
            S == {n \in Nat : n <= N => Good(n)}
<1>3. 0 \in S
  <2>1. f[0] = <<>> /\ g[0] = <<>>
    BY <1>1, <1>2 DEF ChosenBy
  <2>2. <<>> \in Seq(A) /\ Of(<<>>) = <<>>
    OBVIOUS
  <2>. QED  BY <2>1, <2>2
<1>. HIDE DEF N
<1>4. ASSUME NEW n \in Nat, n \in S, n + 1 <= N PROVE Good(n + 1)
  <2>1. n + 1 \in 1..N /\ (n + 1) - 1 = n /\ n <= N
    BY <1>0, <1>4
  <2>2. /\ f[n + 1] = IF n + 1 \in places THEN Append(f[n], seq[n + 1]) ELSE f[n]
        /\ g[n + 1] = IF n + 1 \in places THEN Append(g[n], image[n + 1]) ELSE g[n]
        /\ Good(n) /\ image[n + 1] = G[seq[n + 1]] /\ seq[n + 1] \in A
    BY <1>0, <1>1, <1>2, <1>4, <2>1 DEF ChosenBy, N
  <2>3. ASSUME NEW s \in Seq(A), NEW a \in A PROVE Of(Append(s, a)) = Append(Of(s), G[a])
    <3>1. Of(s) \in Seq(B) /\ Len(Of(s)) = Len(s) /\ G[a] \in B
      <4>1. Of(s) \in [1..Len(s) -> B] /\ Len(s) \in Nat
        OBVIOUS
      <4>. QED  BY <4>1
    <3>. QED  BY <3>1
  <2>4. CASE n + 1 \in places
    <3>1. Of(Append(f[n], seq[n + 1])) = Append(Of(f[n]), G[seq[n + 1]])
      BY <2>2, <2>3
    <3>2. Append(f[n], seq[n + 1]) \in Seq(A)
      BY <2>2
    <3>. HIDE DEF Of
    <3>. QED  BY <2>2, <2>4, <3>1, <3>2
  <2>5. CASE n + 1 \notin places
    BY <2>2, <2>5
  <2>. QED  BY <2>4, <2>5
<1>. HIDE DEF Good
<1>5. \A n \in Nat : n \in S => n + 1 \in S
  BY <1>4
<1>6. N \in S
  <2>. HIDE DEF S
  <2>. QED  BY <1>0, <1>3, <1>5, EachNumber
<1>. QED  BY <1>0, <1>1, <1>2, <1>6 DEF image, N, Good

\* One place of it gives one element.
LEMMA ChosenOne ==
  ASSUME NEW A, NEW seq \in Seq(A), NEW places, NEW p \in DOMAIN seq, DOMAIN seq \cap places = {p}
  PROVE  Chosen(seq, places) = <<seq[p]>>
<1>0. Len(seq) \in Nat /\ DOMAIN seq = 1..Len(seq)
  OBVIOUS
<1>1. PICK f : ChosenBy(f, seq, places) /\ Chosen(seq, places) = f[Len(seq)]
  BY <1>0, ChosenIs
<1>. DEFINE Good(n) == f[n] = IF n < p THEN <<>> ELSE <<seq[p]>>
            S == {n \in Nat : n <= Len(seq) => Good(n)}
<1>2. 0 \in S
  <2>1. f[0] = <<>>
    BY <1>1 DEF ChosenBy
  <2>2. 0 < p
    BY <1>0
  <2>. QED  BY <2>1, <2>2
<1>3. ASSUME NEW n \in Nat, n \in S, n + 1 <= Len(seq) PROVE Good(n + 1)
  <2>1. n + 1 \in DOMAIN seq /\ (n + 1) - 1 = n /\ n <= Len(seq) /\ p \in Nat
    BY <1>0, <1>3
  <2>2. f[n + 1] = (IF n + 1 \in places THEN Append(f[n], seq[n + 1]) ELSE f[n]) /\ Good(n)
    BY <1>0, <1>1, <1>3, <2>1 DEF ChosenBy
  <2>3. n + 1 \in places <=> n + 1 = p
    BY <2>1
  <2>4. CASE n + 1 = p
    <3>1. f[n] = <<>> /\ f[n + 1] = Append(f[n], seq[p])
      BY <2>1, <2>2, <2>3, <2>4
    <3>. QED  BY <2>4, <3>1
  <2>5. CASE n + 1 # p
    BY <2>1, <2>2, <2>3, <2>5
  <2>. QED  BY <2>4, <2>5
<1>. HIDE DEF Good
<1>4. \A n \in Nat : n \in S => n + 1 \in S
  BY <1>3
<1>5. Len(seq) \in S
  <2>. HIDE DEF S
  <2>. QED  BY <1>0, <1>2, <1>4, EachNumber
<1>. QED  BY <1>0, <1>1, <1>5 DEF Good

----------------------------------------------------------------------------

LEMMA JsonIs ==
  /\ \A v : Str(v).json = "string" /\ Str(v) # Null
  /\ \A v, w : Str(v) = Str(w) => v = w
  /\ \A s : List(s).json = "list" /\ List(s).of = s /\ List(s) # Null
  /\ \A f : Obj(f).json = "object" /\ Obj(f) # Null
  /\ \A f, k : Field(Obj(f), k) = IF k \in DOMAIN f THEN f[k] ELSE Null
  /\ Null.json = "null"
<1>1. /\ \A v : Str(v).json = "string" /\ Str(v).is = v
      /\ \A s : List(s).json = "list" /\ List(s).of = s
      /\ \A f : Obj(f).json = "object" /\ Obj(f).has = f
      /\ Null.json = "null"
  BY DEF Str, List, Obj, Null
<1>. QED  BY <1>1 DEF Field

LEMMA InMemoryIs ==
  ASSUME NEW in \in SUBSET Range(Offered)
  PROVE  InMemory(in) \in Seq(Range(Offered)) /\ Range(InMemory(in)) = in
<1>. DEFINE at == {n \in DOMAIN Offered : Offered[n] \in in}
<1>1. {Offered[k] : k \in DOMAIN Offered \cap at} = in
  BY DEF Range
<1>. QED  BY <1>1, ChosenAre, ListsAssumption DEF InMemory

\* Entries that all count and have names give their names.
LEMMA AllNamed ==
  ASSUME NEW cfg, NEW byId, NEW data, NEW E, NEW items \in Seq(E),
         EntriesOf(cfg, data) = items, NEW V,
         \A n \in DOMAIN items :
           /\ Counts(cfg, items[n])
           /\ NameOf(cfg, byId, items[n]) = Str(V[n])
  PROVE  LoadedNames(cfg, byId, data) = [n \in DOMAIN items |-> Str(V[n])]
<1>. DEFINE names == [n \in DOMAIN items |-> NameOf(cfg, byId, items[n])]
            B == {names[n] : n \in DOMAIN items}
<1>1. names \in Seq(B) /\ DOMAIN names = DOMAIN items
  <2>1. DOMAIN items = 1..Len(items) /\ Len(items) \in Nat
    OBVIOUS
  <2>2. names \in [1..Len(items) -> B]
    BY <2>1
  <2>. QED  BY <2>1, <2>2
<1>2. (\A n \in DOMAIN items : names[n] # Null) /\ names = [n \in DOMAIN items |-> Str(V[n])]
  BY JsonIs
<1>. HIDE DEF names
<1>3. Chosen(names, {n \in DOMAIN items : Counts(cfg, items[n]) /\ names[n] # Null}) = names
  BY <1>1, <1>2, ChosenAll
<1>. QED  BY <1>2, <1>3 DEF LoadedNames, names

LEMMA FirstFound ==
  ASSUME NEW entry, NEW a, NEW b, NEW c, Field(entry, a) # Null
  PROVE  FirstField(entry, <<a, b, c>>) = Field(entry, a)
<1>. DEFINE keys == <<a, b, c>>
            had == {n \in DOMAIN keys : Field(entry, keys[n]) # Null}
<1>1. 1 \in had /\ (\A n \in had : n \in Nat /\ 1 <= n) /\ keys[1] = a
  OBVIOUS
<1>. HIDE DEF had
<1>2. \A n \in had : (\A k \in had : n <= k) => n = 1
  BY <1>1
<1>3. (CHOOSE n \in had : \A k \in had : n <= k) = 1
  BY <1>1, <1>2
<1>. QED  BY <1>1, <1>3 DEF FirstField, had

\* What the router should read.
IdOf(kind, q) == IF kind = "instances" THEN Str(Instance[q]) ELSE Str(q)
ReadRight(kind, in) ==
  /\ LoadedNames(Config(kind), FALSE, Answer(kind, in)) = [n \in DOMAIN InMemory(in) |-> Str(InMemory(in)[n])]
  /\ LoadedNames(Config(kind), TRUE, Answer(kind, in))
       = [n \in DOMAIN InMemory(in) |-> IdOf(kind, InMemory(in)[n])]
  /\ Answer(kind, in) # Null
  /\ \A q \in Range(Offered) : Str(q) \in StringValues(Answer(kind, in))
                               <=> (kind = "instances" \/ q \in in)

\* Entries that each name one model name these.
NamedBy(R) == UNION {Naming(e) : e \in R}

LEMMA NamingAll ==
  ASSUME NEW in, NEW R, \A e \in R : \E q \in in : Naming(e) = {Str(q)},
         \A q \in in : \E e \in R : Naming(e) = {Str(q)}
  PROVE  \A q : Str(q) \in NamedBy(R) <=> q \in in
BY JsonIs DEF NamedBy

LEMMA NamesRead == ASSUME NEW in \in SUBSET Range(Offered) PROVE ReadRight("names", in)
<1>. DEFINE mem == InMemory(in)
            cfg == Config("names")
            data == Answer("names", in)
            items == [n \in DOMAIN mem |-> Str(mem[n])]
            E == {Str(q) : q \in Range(Offered)}
<1>0. mem \in Seq(Range(Offered)) /\ Range(mem) = in
  BY InMemoryIs
<1>1. data = List(items)
  BY DEF Answer, Mapped
<1>2. EntriesOf(cfg, data) = items
  <2>. HIDE DEF items, data
  <2>. QED  BY <1>1, JsonIs DEF EntriesOf
<1>3. items \in Seq(E)
  <2>1. items \in [1..Len(mem) -> E] /\ Len(mem) \in Nat
    BY <1>0
  <2>. QED  BY <2>1
<1>4. ASSUME NEW byId, NEW n \in DOMAIN items
      PROVE  Counts(cfg, items[n]) /\ NameOf(cfg, byId, items[n]) = Str(mem[n])
  BY <1>4, JsonIs DEF Counts, NameOf
<1>5. \A byId : LoadedNames(cfg, byId, data) = items
  <2>. HIDE DEF cfg, data
  <2>. QED  BY <1>2, <1>3, <1>4, AllNamed
<1>6. \A q \in Range(Offered) : Str(q) \in StringValues(data) <=> q \in in
  <2>1. StringValues(data) = NamedBy(Range(items))
    <3>1. \A s : List(s).json = "list" /\ List(s).of = s
      BY JsonIs
    <3>. QED  BY <1>1, <3>1 DEF StringValues, NamedBy
  <2>2. Range(items) = {Str(q) : q \in in}
    BY <1>0 DEF Range
  <2>3. \A q : Naming(Str(q)) = {Str(q)}
    BY JsonIs DEF Naming
  <2>. HIDE DEF data, items
  <2>4. /\ \A e \in Range(items) : \E q \in in : Naming(e) = {Str(q)}
        /\ \A q \in in : \E e \in Range(items) : Naming(e) = {Str(q)}
    BY <2>2, <2>3
  <2>5. \A q : Str(q) \in NamedBy(Range(items)) <=> q \in in
    BY <2>4, NamingAll
  <2>. QED  BY <2>1, <2>5
<1>7. data # Null
  BY <1>1, JsonIs
<1>. QED  BY <1>5, <1>6, <1>7 DEF ReadRight, IdOf

LEMMA RunningRead == ASSUME NEW in \in SUBSET Range(Offered) PROVE ReadRight("running", in)
<1>. DEFINE mem == InMemory(in)
            cfg == Config("running")
            data == Answer("running", in)
            items == [n \in DOMAIN mem |-> Obj([name |-> Str(mem[n])])]
            E == {Obj([name |-> Str(q)]) : q \in Range(Offered)}
            O == [models |-> List(items)]
<1>0. mem \in Seq(Range(Offered)) /\ Range(mem) = in
  BY InMemoryIs
<1>1. data = Obj(O)
  BY DEF Answer, Mapped
<1>2. EntriesOf(cfg, data) = items
  <2>1. DOMAIN O = {"models"} /\ O["models"] = List(items) /\ cfg.list = "models"
    BY DEF Config
  <2>. HIDE DEF items, data, O, cfg
  <2>2. Field(data, cfg.list) = List(items)
    BY <1>1, <2>1, JsonIs
  <2>. QED  BY <1>1, <2>2, JsonIs DEF EntriesOf
<1>3. items \in Seq(E)
  <2>1. items \in [1..Len(mem) -> E] /\ Len(mem) \in Nat
    BY <1>0
  <2>. QED  BY <2>1
<1>4. ASSUME NEW byId, NEW n \in DOMAIN items
      PROVE  Counts(cfg, items[n]) /\ NameOf(cfg, byId, items[n]) = Str(mem[n])
  <2>. DEFINE v == Str(mem[n])
              R == [name |-> v]
  <2>0. R.name = v /\ DOMAIN R = {"name"} /\ R["name"] = v
    OBVIOUS
  <2>. HIDE DEF R
  <2>1. items[n].json = "object" /\ Field(items[n], "name") = v /\ v # Null
    BY <1>4, <2>0, JsonIs DEF R
  <2>2. cfg.name = "name" /\ cfg.id = "" /\ cfg.filter = FALSE
    BY DEF Config
  <2>3. Counts(cfg, items[n])
    <3>. HIDE DEF v, items, cfg
    <3>. QED  BY <2>1, <2>2 DEF Counts
  <2>4. FirstField(items[n], <<"name", "model", "id">>) = v
    <3>. HIDE DEF v, items, cfg
    <3>. QED  BY <2>1, FirstFound
  <2>5. NameOf(cfg, byId, items[n]) = v
    <3>. HIDE DEF v, items, cfg
    <3>. QED  BY <2>1, <2>2, <2>4 DEF NameOf
  <2>. QED  BY <2>3, <2>5
<1>5. \A byId : LoadedNames(cfg, byId, data) = [n \in DOMAIN mem |-> Str(mem[n])]
  <2>1. DOMAIN items = DOMAIN mem
    OBVIOUS
  <2>. HIDE DEF cfg, data, items, mem
  <2>2. ASSUME NEW byId
        PROVE  LoadedNames(cfg, byId, data) = [n \in DOMAIN items |-> Str(mem[n])]
    BY <1>2, <1>3, <1>4, AllNamed
  <2>. QED  BY <2>1, <2>2
<1>6. \A q \in Range(Offered) : Str(q) \in StringValues(data) <=> q \in in
  <2>. DEFINE V == [q \in in |-> Obj([name |-> Str(q)])]
  <2>1. DOMAIN O = {"models"} /\ O["models"] = List(items)
    OBVIOUS
  <2>2. Range(items) = {V[q] : q \in in}
    <3>1. (\A n \in DOMAIN mem : mem[n] \in in) /\ \A q \in in : \E n \in DOMAIN mem : mem[n] = q
      BY <1>0 DEF Range
    <3>2. DOMAIN items = DOMAIN mem /\ \A n \in DOMAIN mem : items[n] = V[mem[n]]
      BY <3>1
    <3>. HIDE DEF V, items, mem
    <3>. QED  BY <3>1, <3>2 DEF Range
  <2>3. \A q \in in : Naming(V[q]) = {Str(q)}
    <3>. TAKE q \in in
    <3>. DEFINE R == [name |-> Str(q)]
    <3>1. DOMAIN R = {"name"} /\ R["name"] = Str(q) /\ V[q] = Obj(R)
      OBVIOUS
    <3>. HIDE DEF R, V
    <3>2. {Field(V[q], k) : k \in {"id", "model", "name"}} = {Null, Str(q)}
      BY <3>1, JsonIs
    <3>. QED  BY <3>1, <3>2, JsonIs DEF Naming
  <2>. HIDE DEF V, data, items, O
  <2>4. /\ Field(data, "models") = List(items) /\ Field(data, "data") = Null
        /\ Naming(data) = {}
    <3>1. \A k : Field(data, k) = IF k = "models" THEN List(items) ELSE Null
      BY <1>1, <2>1, JsonIs
    <3>2. {Field(data, k) : k \in {"id", "model", "name"}} = {Null}
      BY <3>1
    <3>. QED  BY <1>1, <3>1, <3>2, JsonIs DEF Naming
  <2>5. {k \in {"data", "models"} : Field(data, k).json = "list"} = {"models"}
    BY <2>4, JsonIs
  <2>6. StringValues(data) = NamedBy(Range(items))
    <3>1. data.json = "object" /\ Field(data, "models").of = items
      BY <1>1, <2>4, JsonIs
    <3>. QED  BY <2>4, <2>5, <3>1 DEF StringValues, NamedBy
  <2>7. /\ \A e \in Range(items) : \E q \in in : Naming(e) = {Str(q)}
        /\ \A q \in in : \E e \in Range(items) : Naming(e) = {Str(q)}
    BY <2>2, <2>3
  <2>8. \A q : Str(q) \in NamedBy(Range(items)) <=> q \in in
    BY <2>7, NamingAll
  <2>. QED  BY <2>6, <2>8
<1>7. data # Null
  BY <1>1, JsonIs
<1>. QED  BY <1>5, <1>6, <1>7 DEF ReadRight, IdOf

LEMMA SingleRead ==
  ASSUME NEW in \in SUBSET Range(Offered), \A p, q \in in : p = q
  PROVE  ReadRight("single", in)
<1>. DEFINE mem == InMemory(in)
            cfg == Config("single")
            data == Answer("single", in)
<1>0. mem \in Seq(Range(Offered)) /\ Range(mem) = in
  BY InMemoryIs
<1>1. cfg.list = "" /\ cfg.name = "id" /\ cfg.id = "" /\ cfg.filter = FALSE
  BY DEF Config
<1>2. ASSUME NEW O, data = Obj(O), "" \notin DOMAIN O, "data" \notin DOMAIN O, "models" \notin DOMAIN O
      PROVE  /\ EntriesOf(cfg, data) = <<data>>
             /\ Counts(cfg, data)
             /\ \A byId : NameOf(cfg, byId, data) = FirstField(data, <<"id", "model", "id">>)
             /\ StringValues(data) = Naming(data)
             /\ Naming(data) = {Field(data, k) : k \in {"id", "model", "name"}} \ {Null}
             /\ data # Null
             /\ \A k : Field(data, k) = IF k \in DOMAIN O THEN O[k] ELSE Null
  <2>. HIDE DEF data, cfg
  <2>1. data.json = "object" /\ data # Null
        /\ \A k : Field(data, k) = IF k \in DOMAIN O THEN O[k] ELSE Null
    BY <1>2, JsonIs
  <2>2. Field(data, "") = Null /\ Field(data, "data") = Null /\ Field(data, "models") = Null
    BY <1>2, <2>1
  <2>3. EntriesOf(cfg, data) = <<data>>
    BY <1>1, <2>1, <2>2, JsonIs DEF EntriesOf
  <2>4. Counts(cfg, data) /\ \A byId : NameOf(cfg, byId, data) = FirstField(data, <<"id", "model", "id">>)
    BY <1>1, <2>1 DEF Counts, NameOf
  <2>5. {k \in {"data", "models"} : Field(data, k).json = "list"} = {}
    BY <2>2, JsonIs
  <2>6. StringValues(data) = Naming(data)
    BY <2>1, <2>5 DEF StringValues
  <2>7. Naming(data) = {Field(data, k) : k \in {"id", "model", "name"}} \ {Null}
    BY <2>1 DEF Naming
  <2>. QED  BY <2>1, <2>3, <2>4, <2>6, <2>7
<1>3. CASE in = {}
  <2>. DEFINE O == [detail |-> Str("none")]
  <2>1. /\ data = Obj(O)
        /\ \A k \in {"", "data", "models", "id", "model", "name"} : k \notin DOMAIN O
    BY <1>3 DEF Answer
  <2>2. mem = <<>>
    <3>. HIDE DEF mem
    <3>. QED  BY <1>0, <1>3, NothingInIt
  <2>. HIDE DEF O
  <2>3. /\ EntriesOf(cfg, data) = <<data>>
        /\ \A byId : NameOf(cfg, byId, data) = FirstField(data, <<"id", "model", "id">>)
        /\ StringValues(data) = {Field(data, k) : k \in {"id", "model", "name"}} \ {Null}
        /\ data # Null
        /\ \A k \in {"id", "model", "name"} : Field(data, k) = Null
    <3>. HIDE DEF data, cfg
    <3>1. "" \notin DOMAIN O /\ "data" \notin DOMAIN O /\ "models" \notin DOMAIN O
      BY <2>1
    <3>2. /\ EntriesOf(cfg, data) = <<data>>
          /\ \A byId : NameOf(cfg, byId, data) = FirstField(data, <<"id", "model", "id">>)
          /\ StringValues(data) = Naming(data)
          /\ Naming(data) = {Field(data, k) : k \in {"id", "model", "name"}} \ {Null}
          /\ data # Null
          /\ \A k : Field(data, k) = IF k \in DOMAIN O THEN O[k] ELSE Null
      BY <1>2, <2>1, <3>1
    <3>. QED  BY <2>1, <3>2
  <2>. HIDE DEF data, cfg
  <2>4. FirstField(data, <<"id", "model", "id">>) = Null
    <3>. DEFINE keys == <<"id", "model", "id">>
    <3>1. \A n \in DOMAIN keys : keys[n] \in {"id", "model", "name"}
      OBVIOUS
    <3>2. {n \in DOMAIN keys : Field(data, keys[n]) # Null} = {}
      BY <2>3, <3>1
    <3>. QED  BY <3>2 DEF FirstField
  <2>5. ASSUME NEW byId PROVE LoadedNames(cfg, byId, data) = <<>>
    <3>. DEFINE names == [n \in DOMAIN <<data>> |-> NameOf(cfg, byId, <<data>>[n])]
                at == {n \in DOMAIN <<data>> : Counts(cfg, <<data>>[n]) /\ names[n] # Null}
                c == Chosen(names, at)
    <3>1. names \in Seq({Null}) /\ \A n \in DOMAIN <<data>> : names[n] = Null
      <4>1. names = <<Null>>
        BY <2>3, <2>4
      <4>. QED  BY <4>1
    <3>2. at = {}
      BY <3>1
    <3>. HIDE DEF names, at
    <3>3. c \in Seq({Null}) /\ Range(c) = {}
      BY <3>1, <3>2, ChosenAre
    <3>. HIDE DEF c
    <3>6. c = <<>>
      BY <3>3, NothingInIt
    <3>. QED  BY <2>3, <3>6 DEF LoadedNames, names, at, c
  <2>6. \A q : Str(q) \notin StringValues(data)
    BY <2>3
  <2>7. /\ [n \in DOMAIN mem |-> Str(mem[n])] = <<>>
        /\ [n \in DOMAIN mem |-> IdOf("single", mem[n])] = <<>>
    BY <2>2
  <2>. HIDE DEF mem
  <2>. QED  BY <1>3, <2>3, <2>5, <2>6, <2>7 DEF ReadRight, data, cfg, mem
<1>4. CASE in # {}
  <2>1. PICK p \in in : in = {p}
    BY <1>4
  <2>2. mem = <<p>>
    <3>1. PICK k \in DOMAIN Offered : Offered[k] = p
      BY <2>1 DEF Range
    <3>2. \A n \in DOMAIN Offered : Offered[n] = p => n = k
      BY <3>1, ListsAssumption DEF IsInjective
    <3>3. DOMAIN Offered \cap {n \in DOMAIN Offered : Offered[n] \in in} = {k}
      BY <2>1, <3>1, <3>2
    <3>. QED  BY <3>1, <3>3, ChosenOne, ListsAssumption DEF InMemory
  <2>. DEFINE O == [id |-> Str(p), parameters |-> Obj(<<>>)]
  <2>3. /\ data = Obj(O) /\ O["id"] = Str(p) /\ "id" \in DOMAIN O
        /\ \A k \in {"", "data", "models", "model", "name"} : k \notin DOMAIN O
    BY <1>4, <2>2 DEF Answer
  <2>. HIDE DEF O
  <2>4. /\ EntriesOf(cfg, data) = <<data>> /\ Counts(cfg, data)
        /\ \A byId : NameOf(cfg, byId, data) = FirstField(data, <<"id", "model", "id">>)
        /\ StringValues(data) = {Field(data, k) : k \in {"id", "model", "name"}} \ {Null}
        /\ data # Null
        /\ Field(data, "id") = Str(p) /\ Field(data, "model") = Null /\ Field(data, "name") = Null
    <3>. HIDE DEF data, cfg
    <3>1. "" \notin DOMAIN O /\ "data" \notin DOMAIN O /\ "models" \notin DOMAIN O
      BY <2>3
    <3>2. /\ EntriesOf(cfg, data) = <<data>> /\ Counts(cfg, data)
          /\ \A byId : NameOf(cfg, byId, data) = FirstField(data, <<"id", "model", "id">>)
          /\ StringValues(data) = Naming(data)
          /\ Naming(data) = {Field(data, k) : k \in {"id", "model", "name"}} \ {Null}
          /\ data # Null
          /\ \A k : Field(data, k) = IF k \in DOMAIN O THEN O[k] ELSE Null
      BY <1>2, <2>3, <3>1
    <3>. QED  BY <2>3, <3>2
  <2>. HIDE DEF data, cfg
  <2>5. \A byId : NameOf(cfg, byId, data) = Str(p)
    BY <2>4, FirstFound, JsonIs
  <2>6. ASSUME NEW byId PROVE LoadedNames(cfg, byId, data) = <<Str(p)>>
    <3>. DEFINE items == <<data>>
                V == <<p>>
    <3>1. items \in Seq({data}) /\ EntriesOf(cfg, data) = items
      BY <2>4
    <3>2. \A n \in DOMAIN items : Counts(cfg, items[n]) /\ NameOf(cfg, byId, items[n]) = Str(V[n])
      BY <2>4, <2>5
    <3>3. LoadedNames(cfg, byId, data) = [n \in DOMAIN items |-> Str(V[n])]
      <4>. HIDE DEF items, V
      <4>. QED  BY <3>1, <3>2, AllNamed
    <3>. QED  BY <3>3
  <2>7. \A q : Str(q) \in StringValues(data) <=> q = p
    BY <2>4, JsonIs
  <2>8. [n \in DOMAIN mem |-> Str(mem[n])] = <<Str(p)>>
    BY <2>2
  <2>. QED  BY <2>1, <2>4, <2>6, <2>7, <2>8 DEF ReadRight, IdOf, data, cfg
<1>. QED  BY <1>3, <1>4

LEMMA InstancesRead == ASSUME NEW in \in SUBSET Range(Offered) PROVE ReadRight("instances", in)
<1>. DEFINE all == Range(Offered)
            at == {n \in DOMAIN Offered : Offered[n] \in in}
            mem == InMemory(in)
            cfg == Config("instances")
            data == Answer("instances", in)
            R(q) == [id |-> Str(q), instance_id |-> Str(Instance[q]),
                     state |-> Str(IF q \in in THEN "loaded" ELSE "idle")]
            items == [n \in DOMAIN Offered |-> Obj(R(Offered[n]))]
            O == [data |-> List(items)]
<1>0. Offered \in Seq(all) /\ mem = Chosen(Offered, at)
      /\ \A n \in DOMAIN Offered : Offered[n] \in all
  BY ListsAssumption DEF InMemory, Range
<1>1. cfg.list = "data" /\ cfg.name = "id" /\ cfg.id = "instance_id" /\ cfg.filter = TRUE
  BY DEF Config
<1>2. data = Obj(O) /\ DOMAIN O = {"data"} /\ O["data"] = List(items)
  BY DEF Answer, Mapped
<1>3. ASSUME NEW q
      PROVE  /\ Obj(R(q)).json = "object"
             /\ Field(Obj(R(q)), "id") = Str(q)
             /\ Field(Obj(R(q)), "instance_id") = Str(Instance[q])
             /\ Field(Obj(R(q)), "state") = Str("loaded") <=> q \in in
             /\ Field(Obj(R(q)), "model") = Null /\ Field(Obj(R(q)), "name") = Null
  <2>. DEFINE r == R(q)
  <2>1. /\ DOMAIN r = {"id", "instance_id", "state"}
        /\ r["id"] = Str(q) /\ r["instance_id"] = Str(Instance[q])
        /\ r["state"] = Str(IF q \in in THEN "loaded" ELSE "idle")
    OBVIOUS
  <2>2. r["state"] = Str("loaded") <=> q \in in
    BY <2>1, JsonIs
  <2>. HIDE DEF r
  <2>3. /\ Obj(r).json = "object"
        /\ Field(Obj(r), "id") = Str(q)
        /\ Field(Obj(r), "instance_id") = Str(Instance[q])
        /\ Field(Obj(r), "state") = Str("loaded") <=> q \in in
        /\ Field(Obj(r), "model") = Null /\ Field(Obj(r), "name") = Null
    BY <2>1, <2>2, JsonIs
  <2>. QED  BY <2>3 DEF r
<1>. HIDE DEF R, O
<1>4. DOMAIN items = DOMAIN Offered /\ \A n \in DOMAIN items : items[n] = Obj(R(Offered[n]))
  OBVIOUS
<1>. HIDE DEF items, data, cfg
<1>5. /\ EntriesOf(cfg, data) = items /\ data # Null /\ data.json = "object"
      /\ \A k : Field(data, k) = IF k = "data" THEN List(items) ELSE Null
  <2>1. \A k : Field(data, k) = IF k = "data" THEN List(items) ELSE Null
    BY <1>2, JsonIs
  <2>2. data.json = "object" /\ data # Null
    BY <1>2, JsonIs
  <2>. QED  BY <1>1, <2>1, <2>2, JsonIs DEF EntriesOf
<1>6. ASSUME NEW n \in DOMAIN items
      PROVE  /\ Counts(cfg, items[n]) <=> Offered[n] \in in
             /\ NameOf(cfg, FALSE, items[n]) = Str(Offered[n])
             /\ NameOf(cfg, TRUE, items[n]) = Str(Instance[Offered[n]])
  <2>1. items[n] = Obj(R(Offered[n]))
    BY <1>4, <1>6
  <2>2. /\ items[n].json = "object" /\ Field(items[n], "id") = Str(Offered[n])
        /\ Field(items[n], "instance_id") = Str(Instance[Offered[n]])
        /\ Field(items[n], "state") = Str("loaded") <=> Offered[n] \in in
    BY <1>3, <2>1
  <2>3. FirstField(items[n], <<"id", "model", "id">>) = Str(Offered[n])
    BY <2>2, FirstFound, JsonIs
  <2>. QED  BY <1>1, <2>2, <2>3 DEF Counts, NameOf
<1>7. ASSUME NEW G, NEW byId,
             \A n \in DOMAIN items : NameOf(cfg, byId, items[n]) = G[Offered[n]] /\ G[Offered[n]] # Null
      PROVE  LoadedNames(cfg, byId, data) = [n \in DOMAIN mem |-> G[mem[n]]]
  <2>. DEFINE names == [n \in DOMAIN items |-> NameOf(cfg, byId, items[n])]
  <2>1. names = [n \in DOMAIN Offered |-> G[Offered[n]]]
    BY <1>4, <1>7
  <2>2. \A n \in DOMAIN items : names[n] # Null
    BY <1>7
  <2>. HIDE DEF names
  <2>3. {n \in DOMAIN items : Counts(cfg, items[n]) /\ names[n] # Null} = at
    BY <1>4, <1>6, <2>2
  <2>4. Chosen(names, at) = [n \in DOMAIN mem |-> G[mem[n]]]
    <3>. HIDE DEF at, mem
    <3>. QED  BY <1>0, <2>1, ChosenImages
  <2>. QED  BY <1>5, <2>3, <2>4 DEF LoadedNames, names
<1>8. \A n \in DOMAIN mem : mem[n] \in all
  BY InMemoryIs
<1>9. LoadedNames(cfg, FALSE, data) = [n \in DOMAIN mem |-> Str(mem[n])]
  <2>. DEFINE G == [q \in all |-> Str(q)]
  <2>1. \A n \in DOMAIN items : NameOf(cfg, FALSE, items[n]) = G[Offered[n]] /\ G[Offered[n]] # Null
    BY <1>0, <1>4, <1>6, JsonIs
  <2>2. \A q \in all : G[q] = Str(q)
    OBVIOUS
  <2>. HIDE DEF G, mem
  <2>3. LoadedNames(cfg, FALSE, data) = [n \in DOMAIN mem |-> G[mem[n]]]
    BY <1>7, <2>1
  <2>. QED  BY <1>8, <2>2, <2>3
<1>10. LoadedNames(cfg, TRUE, data) = [n \in DOMAIN mem |-> Str(Instance[mem[n]])]
  <2>. DEFINE G == [q \in all |-> Str(Instance[q])]
  <2>1. \A n \in DOMAIN items : NameOf(cfg, TRUE, items[n]) = G[Offered[n]] /\ G[Offered[n]] # Null
    BY <1>0, <1>4, <1>6, JsonIs
  <2>2. \A q \in all : G[q] = Str(Instance[q])
    OBVIOUS
  <2>. HIDE DEF G, mem
  <2>3. LoadedNames(cfg, TRUE, data) = [n \in DOMAIN mem |-> G[mem[n]]]
    BY <1>7, <2>1
  <2>. QED  BY <1>8, <2>2, <2>3
<1>11. \A q \in all : Str(q) \in StringValues(data)
  <2>1. Field(data, "data") = List(items) /\ Naming(data) = {}
    <3>1. {Field(data, k) : k \in {"id", "model", "name"}} = {Null}
      BY <1>5
    <3>. QED  BY <1>5, <3>1 DEF Naming
  <2>2. {k \in {"data", "models"} : Field(data, k).json = "list"} = {"data"}
    BY <1>5, JsonIs
  <2>3. StringValues(data) = NamedBy(Range(items))
    <3>1. Field(data, "data").of = items
      BY <2>1, JsonIs
    <3>. QED  BY <1>5, <2>1, <2>2, <3>1 DEF StringValues, NamedBy
  <2>4. \A q : Naming(Obj(R(q))) = {Str(q)}
    <3>. TAKE q
    <3>1. {Field(Obj(R(q)), k) : k \in {"id", "model", "name"}} = {Str(q), Null}
      BY <1>3
    <3>. QED  BY <1>3, <3>1, JsonIs DEF Naming
  <2>5. \A q \in all : Obj(R(q)) \in Range(items)
    BY <1>4 DEF Range
  <2>. QED  BY <2>3, <2>4, <2>5 DEF NamedBy
<1>. QED  BY <1>5, <1>9, <1>10, <1>11 DEF ReadRight, IdOf, data, cfg

----------------------------------------------------------------------------

ListsInv ==
  /\ service \in [kind : {"names", "running", "instances", "single"}, in : SUBSET Range(Offered)]
  /\ service.kind = "single" => \A p, q \in service.in : p = q
  /\ ListingIsTruth

\* An answer that is no JSON says nothing.
LEMMA GarbledRead ==
  /\ \A cfg, byId : LoadedNames(cfg, byId, Null) = <<>>
  /\ \A check : ReadyCheckPasses(check, Null) <=> check.form = "none"
<1>1. \A cfg : EntriesOf(cfg, Null) = <<>>
  BY JsonIs DEF EntriesOf
<1>2. ASSUME NEW cfg, NEW byId PROVE LoadedNames(cfg, byId, Null) = <<>>
  <2>. DEFINE names == [n \in DOMAIN <<>> |-> NameOf(cfg, byId, <<>>[n])]
              at == {n \in DOMAIN <<>> : Counts(cfg, <<>>[n]) /\ names[n] # Null}
  <2>1. names = <<>> /\ DOMAIN names \subseteq at
    OBVIOUS
  <2>2. names \in Seq({})
    BY <2>1
  <2>. HIDE DEF names, at
  <2>3. Chosen(names, at) = <<>>
    BY <2>1, <2>2, ChosenAll
  <2>. QED  BY <1>1, <2>3 DEF LoadedNames, names, at
<1>. QED  BY <1>2 DEF ReadyCheckPasses

\* The router reads of every service the models in its memory, in order and once each, with
\* the ids that unload them, whatever number of models it has and whichever are loaded:
\* _extract_loaded_names() and _ready_check_passes().
THEOREM ListingsRead == ListsSpec => []ListingIsTruth
<1>1. ListsInit => ListsInv
  BY DEF ListsInit, ListsInv, ListingIsTruth
<1>2. ListsInv /\ [ListsNext]_listVars => ListsInv'
  <2>. SUFFICES ASSUME ListsInv, [ListsNext]_listVars PROVE ListsInv'
    OBVIOUS
  <2>1. CASE AskService
    <3>. DEFINE kind == service.kind
                in == service.in
                cfg == Config(kind)
    <3>0. kind \in {"names", "running", "instances", "single"} /\ in \in SUBSET Range(Offered)
          /\ service' = service
      BY <2>1 DEF ListsInv, AskService
    <3>1. ReadRight(kind, in)
      BY <3>0, NamesRead, RunningRead, InstancesRead, SingleRead DEF ListsInv
    <3>2. PICK data \in {Answer(kind, in), Null} :
            read' = <<[garbled |-> data = Null,
                       names   |-> LoadedNames(cfg, FALSE, data),
                       ids     |-> LoadedNames(cfg, TRUE, data),
                       ready   |-> {q \in Range(Offered) : ReadyCheckPasses(Check(q), data)},
                       state   |-> ReadyCheckPasses([form |-> "field", key |-> "state",
                                                     value |-> "loaded"], data),
                       up      |-> ReadyCheckPasses([form |-> "none"], data)]>>
      BY <2>1 DEF AskService
    <3>3. /\ read'[1].garbled = (data = Null)
          /\ read'[1].names = LoadedNames(cfg, FALSE, data)
          /\ read'[1].ids = LoadedNames(cfg, TRUE, data)
          /\ read'[1].ready = {q \in Range(Offered) : ReadyCheckPasses(Check(q), data)}
          /\ read'[1].state = ReadyCheckPasses([form |-> "field", key |-> "state",
                                                value |-> "loaded"], data)
      BY <3>2
    <3>4. CASE data = Null
      <4>1. read'[1].names = <<>> /\ read'[1].ids = <<>> /\ read'[1].ready = {} /\ ~read'[1].state
        <5>1. [form |-> "field", key |-> "state", value |-> "loaded"].form # "none"
              /\ \A q : Check(q).form # "none"
          BY DEF Check
        <5>2. /\ \A q : ~ReadyCheckPasses(Check(q), data)
              /\ ~ReadyCheckPasses([form |-> "field", key |-> "state", value |-> "loaded"], data)
          BY <3>4, <5>1, GarbledRead
        <5>3. LoadedNames(cfg, FALSE, data) = <<>> /\ LoadedNames(cfg, TRUE, data) = <<>>
          BY <3>4, GarbledRead
        <5>. QED  BY <3>3, <5>2, <5>3
      <4>. QED  BY <3>0, <3>3, <3>4, <4>1 DEF ListsInv, ListingIsTruth
    <3>5. CASE data # Null
      <4>0. data = Answer(kind, in)
        BY <3>2, <3>5
      <4>1. read'[1].ready = IF kind = "instances" THEN Range(Offered) ELSE in
        <5>1. \A q \in Range(Offered) : ReadyCheckPasses(Check(q), data) <=> Str(q) \in StringValues(data)
          BY <3>5 DEF ReadyCheckPasses, Check
        <5>. QED  BY <3>0, <3>1, <3>3, <4>0, <5>1 DEF ReadRight
      <4>2. read'[1].names = [n \in DOMAIN InMemory(in) |-> Str(InMemory(in)[n])]
        BY <3>1, <3>3, <4>0 DEF ReadRight
      <4>3. read'[1].ids = [n \in DOMAIN InMemory(in) |-> IdOf(kind, InMemory(in)[n])]
        BY <3>1, <3>3, <4>0 DEF ReadRight
      <4>4. \A n \in DOMAIN InMemory(in) : InMemory(in)[n] \in Range(Offered)
        BY <3>0, InMemoryIs
      <4>. DEFINE idOf == [q \in Range(Offered) |-> IF kind = "instances" THEN Str(Instance[q])
                                                                          ELSE Str(q)]
      <4>5. read'[1].ids = [n \in DOMAIN InMemory(in) |-> idOf[InMemory(in)[n]]]
        BY <4>3, <4>4 DEF IdOf
      <4>6. ~read'[1].garbled
        BY <3>3, <3>5
      <4>. QED  BY <3>0, <4>1, <4>2, <4>5, <4>6 DEF ListsInv, ListingIsTruth, Mapped
    <3>. QED  BY <3>4, <3>5
  <2>2. CASE UNCHANGED listVars
    BY <2>2 DEF listVars, ListsInv, ListingIsTruth, Mapped
  <2>. QED  BY <2>1, <2>2 DEF ListsNext
<1>3. ListsInv => ListingIsTruth
  BY DEF ListsInv
<1>. QED  BY <1>1, <1>2, <1>3, PTL DEF ListsSpec

=============================================================================

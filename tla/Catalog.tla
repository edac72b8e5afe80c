------------------------------ MODULE Catalog ------------------------------
(***************************************************************************)
(* The model catalog, with discovery enabled, and the three places that    *)
(* look an owner up in it: engine_for() (the request), explain_model()     *)
(* (/admin/resolve) and _enumerate_candidates() (the picker).              *)
(*                                                                         *)
(* What engines answer is arbitrary at every probe; a probe that fails is  *)
(* an empty answer.  All that follows the last answer of a refresh, and    *)
(* the one of a snapshot, happens without an await: one step each.         *)
(***************************************************************************)
EXTENDS Naturals, Sequences, Functions

CONSTANTS
  Order,        \* the enabled engines as a sequence, in declaration order
  ApiEngines,   \* those that are APISwapEngines
  Static,       \* [configured model ids -> engine]: the models: section
  Served,       \* [engine -> ids]: served_models of engines with discover_models
  StartCmd,     \* [engine -> ids]: what their start_cmd names
  Discovering,  \* the engines with discover_models
  Aliases,      \* [alias -> id]
  NoOwner,
  MayList,      \* [engine -> ids it may answer with when it is asked for its models]
  MayTag        \* [API engine -> ids that its available_tags() may name]

Engines == Range(Order)

\* What _validate_aliases() enforces, and models: on enabled engines.
ASSUME CatalogAssumption ==
  /\ Order \in Seq(Engines) /\ IsInjective(Order) /\ NoOwner \notin Engines
  /\ ApiEngines \subseteq Engines /\ Discovering \subseteq Engines
  /\ Static \in [DOMAIN Static -> Engines]
  /\ DOMAIN Served = Discovering /\ DOMAIN StartCmd = Discovering
  /\ \A a \in DOMAIN Aliases : a \notin DOMAIN Static /\ Aliases[a] \notin DOMAIN Aliases
  /\ DOMAIN MayList = Engines /\ DOMAIN MayTag = ApiEngines

VARIABLES
  persisted,   \* _persisted: [remembered ids -> engine]
  old,         \* the ids whose entries are older than state_ttl_s
  entries,     \* entries: [known ids -> [engine, source]]
  seen,        \* the manager's _seen_models: [engine -> ids]
  disk,        \* the state file: its catalog section, the expired ids in it, seen_models
  written      \* history: the entries when the state file was last written

catalogVars == <<persisted, old, entries, seen, disk, written>>

Position(e)   == CHOOSE i \in DOMAIN Order : Order[i] = e
Earlier(e, f) == Position(e) <= Position(f)
FirstOf(S)    == CHOOSE e \in S : \A f \in S : Earlier(e, f)
LastOf(S)     == CHOOSE e \in S : \A f \in S : Earlier(f, e)

Nothing == [e \in Engines |-> {}]
Listing(lists, m) == {e \in DOMAIN lists : m \in lists[e]}

----------------------------------------------------------------------------
(* rebuild() *)

SOURCE_PRIORITY == [static |-> 100, alias |-> 90, served_models |-> 80, live |-> 70,
                    start_cmd |-> 60, persisted |-> 10]

From(source, lists) ==
  UNION {{[id |-> m, engine |-> e, source |-> source] : m \in lists[e]} : e \in DOMAIN lists}

Claims(remembered, live) ==
  {[id |-> m, engine |-> Static[m], source |-> "static"] : m \in DOMAIN Static}
    \cup From("served_models", Served)
    \cup From("start_cmd", StartCmd)
    \cup From("live", live)
    \cup {[id |-> m, engine |-> remembered[m], source |-> "persisted"] :
            m \in DOMAIN remembered}

\* _winner(): by source, then by declaration order.
Beats(a, b) ==
  \/ SOURCE_PRIORITY[a.source] > SOURCE_PRIORITY[b.source]
  \/ a.source = b.source /\ Earlier(a.engine, b.engine)

Winner(claims) == CHOOSE c \in claims : \A d \in claims : Beats(c, d)
ClaimsOn(claims, m) == {c \in claims : c.id = m}

Claimed(claims)  == {c.id : c \in claims}
Usable(claims) == {a \in DOMAIN Aliases : Aliases[a] \in Claimed(claims)}

Merged(claims) ==
  [m \in Claimed(claims) \cup Usable(claims) |->
     IF m \in Usable(claims)
     THEN [engine |-> Winner(ClaimsOn(claims, Aliases[m])).engine, source |-> "alias"]
     ELSE [engine |-> Winner(ClaimsOn(claims, m)).engine,
           source |-> Winner(ClaimsOn(claims, m)).source]]

Rebuilt(remembered, live) == Merged(Claims(remembered, live))

----------------------------------------------------------------------------
(* What is remembered *)

\* ModelCatalog.seen_models()
SeenModels(remembered, known) ==
  [e \in Engines |->
     {m \in DOMAIN remembered : remembered[m] = e}
       \cup {m \in DOMAIN known :
               known[m].engine = e /\ known[m].source \in {"live", "persisted"}}]

\* What state_payload() has written: static models and aliases are not.
Saved(known, expired, lists) ==
  LET ids == {m \in DOMAIN known : known[m].source \notin {"static", "alias"}}
  IN [catalog |-> [m \in ids |-> known[m].engine],
      expired |-> ids \cap expired,
      seen    |-> lists]

\* Seeded fault: the seen_models section overrides the catalog section.
LoadedSeenFirst(file) ==
  LET current == DOMAIN file.catalog \ file.expired
      listed  == UNION Range(file.seen)
  IN [m \in current \cup listed |->
        IF m \in listed THEN FirstOf(Listing(file.seen, m)) ELSE file.catalog[m]]

\* _load_state(): expired catalog entries are dropped, then seen_models fills in.
Loaded(file) ==
  LET current == DOMAIN file.catalog \ file.expired
      listed  == UNION Range(file.seen)
  IN [m \in current \cup listed |->
        IF m \in current THEN file.catalog[m] ELSE FirstOf(Listing(file.seen, m))]

CatalogInit ==
  /\ persisted = <<>>
  /\ old = {}
  /\ entries = Rebuilt(<<>>, Nothing)
  /\ seen = Nothing
  /\ disk = Saved(<<>>, {}, Nothing)
  /\ written = <<>>

\* _persist(): an OSError is swallowed, and the file stays as it was.
WriteOut ==
  \/ disk' = Saved(entries', old', seen') /\ written' = entries'
  \/ UNCHANGED <<disk, written>>

\* A rebuild makes all entries anew but those that are only remembered.
StillOld(listed) ==
  {m \in (old \ listed) \cap DOMAIN entries' : entries'[m].source = "persisted"}

\* Seeded fault: what no engine lists any more is dropped from what is remembered.
RefreshForgets(lists) ==
  /\ persisted' = [m \in UNION Range(lists) |-> LastOf(Listing(lists, m))]
  /\ old' = {}
  /\ entries' = Rebuilt(persisted', lists)
  /\ seen' = SeenModels(persisted', entries')
  /\ WriteOut

\* refresh_catalog(): the answers are merged in declaration order, so that the last
\* engine to list a model is the one remembered for it.
Refresh(lists) ==
  /\ persisted' = [m \in DOMAIN persisted \cup UNION Range(lists) |->
                     IF Listing(lists, m) = {} THEN persisted[m] ELSE LastOf(Listing(lists, m))]
  /\ entries' = Rebuilt(persisted', lists)
  /\ old' = StillOld(UNION Range(lists))
  /\ seen' = SeenModels(persisted', entries')
  /\ WriteOut

\* _snapshot_seen_models() of the engine just started, with set_seen_models().
Snapshot(e, ids) ==
  /\ ids # {}
  /\ persisted' = [m \in DOMAIN persisted \cup ids |-> IF m \in ids THEN e ELSE persisted[m]]
  /\ entries' = Rebuilt(persisted', Nothing)
  /\ old' = StillOld(ids)
  /\ seen' = [seen EXCEPT ![e] = ids]
  /\ WriteOut

\* The state is written for another reason: at startup, after a swap, by the picker.
CatalogSaved ==
  /\ UNCHANGED <<persisted, old, entries, seen>>
  /\ WriteOut

\* More than state_ttl_s goes by.
TimePasses ==
  /\ old' = DOMAIN entries
  /\ disk' = [catalog |-> disk.catalog, expired |-> DOMAIN disk.catalog, seen |-> disk.seen]
  /\ UNCHANGED <<persisted, entries, seen, written>>

Restart ==
  /\ persisted' = Loaded(disk)
  /\ old' = {}
  /\ entries' = Rebuilt(persisted', Nothing)
  /\ seen' = SeenModels(persisted', entries')
  /\ UNCHANGED <<disk, written>>

\* Any answers to a set of questions, each within what may be answered.
Within(may) ==
  {lists \in [DOMAIN may -> SUBSET UNION Range(may)] :
     \A e \in DOMAIN may : lists[e] \subseteq may[e]}

CatalogNext ==
  \/ \E lists \in Within(MayList) : Refresh(lists)
  \/ \E e \in Engines : \E ids \in SUBSET MayList[e] : Snapshot(e, ids)
  \/ CatalogSaved
  \/ TimePasses
  \/ Restart

CatalogSpec == CatalogInit /\ [][CatalogNext]_catalogVars

----------------------------------------------------------------------------
(* Who owns a model; "tags" is what each API engine's available_tags() answers *)

Real(m) == IF m \in DOMAIN Aliases THEN Aliases[m] ELSE m

\* The engine a model goes to that nobody is known to serve.
Default ==
  IF Len(Order) = 1 THEN Order[1]
  ELSE IF ApiEngines # {} THEN FirstOf(ApiEngines) ELSE NoOwner

\* _discovered_index()
Discovered ==
  LET lists == [e \in Discovering |-> StartCmd[e] \cup seen[e] \cup Served[e]]
  IN [m \in UNION Range(lists) |-> FirstOf(Listing(lists, m))]

\* Seeded fault: the live tags are asked before the catalog.
EngineForTagsFirst(m, tags) ==
  LET id == Real(m) IN
  IF id \in DOMAIN Static THEN Static[id]
  ELSE IF Listing(tags, id) # {} THEN FirstOf(Listing(tags, id))
  ELSE IF id \in DOMAIN entries THEN entries[id].engine
  ELSE Default

EngineFor(m, tags) ==
  LET id == Real(m) IN
  IF id \in DOMAIN Static THEN Static[id]
  ELSE IF id \in DOMAIN entries THEN entries[id].engine
  ELSE IF Listing(tags, id) # {} THEN FirstOf(Listing(tags, id))
  ELSE IF id \in DOMAIN Discovered THEN Discovered[id]
  ELSE Default

\* explain_model(), with resolve(): the requested id is looked up before the real one.
Explain(m, tags) ==
  LET id == Real(m) IN
  IF id \in DOMAIN Static THEN Static[id]
  ELSE IF m \in DOMAIN entries THEN entries[m].engine
  ELSE IF id \in DOMAIN entries THEN entries[id].engine
  ELSE IF Listing(tags, id) # {} THEN FirstOf(Listing(tags, id))
  ELSE Default

\* _enumerate_candidates(): what the picker may choose, and from whom.
Enumerate(tags) ==
  LET named == {m \in DOMAIN entries : entries[m].source # "alias"}
      ids   == (UNION Range(tags)) \cup DOMAIN Discovered \cup named \cup DOMAIN Static
  IN [m \in ids \ DOMAIN Aliases |->
        IF m \in DOMAIN Static THEN Static[m]
        ELSE IF m \in named THEN entries[m].engine
        ELSE IF Listing(tags, m) # {} THEN FirstOf(Listing(tags, m))
        ELSE Discovered[m]]

\* GET /v1/models, after its refresh, and /admin/discover: what clients and the admin are
\* told there is, and whose it is.
ModelList ==
  LET ids == DOMAIN Static \cup DOMAIN entries \cup DOMAIN Discovered
  IN [m \in ids |-> IF m \in DOMAIN Static THEN Static[m]
                    ELSE IF m \in DOMAIN entries THEN entries[m].engine
                    ELSE Discovered[m]]

----------------------------------------------------------------------------
Known == DOMAIN entries \cup DOMAIN Aliases

\* An alias whose target nobody lists, while an engine lists its own name, is the one
\* id that explain_model() and engine_for() may see differently.
Dangling(m) == m \in DOMAIN Aliases /\ Real(m) \notin DOMAIN entries

\* The lookups of one moment agree: /admin/resolve names the engine that a request for
\* the model goes to, the picker chooses a model on the engine its request will go to, and
\* /v1/models lists each model under that engine, whatever was remembered, listed, moved
\* between engines or reloaded before.
RoutesAgree ==
  \A tags \in Within(MayTag) :
    LET picked == Enumerate(tags)
        listed == ModelList
    IN /\ \A m \in Known : ~Dangling(m) => EngineFor(m, tags) = Explain(m, tags)
       /\ \A m \in DOMAIN picked : picked[m] = EngineFor(m, tags)
       /\ \A m \in DOMAIN listed : ~Dangling(m) => listed[m] = EngineFor(m, tags)

\* A model once known can still be routed while its engine is down, over every refresh
\* that fails.  Only a restart may forget it: when state_ttl_s has gone by, or when no
\* write of the state file has succeeded since the model became known.
NeverForgets ==
  [][\A m \in DOMAIN entries \ DOMAIN entries' :
       Restart /\ (m \notin DOMAIN written \/ {m, Real(m)} \cap disk.expired # {})]_catalogVars

\* A restart within state_ttl_s gives each model that only its engines have reported the
\* owner it had at the last write that succeeded, though another engine also listed it:
\* requests are not sent to an engine that would have to be swapped in.  A later owner,
\* learnt when the write failed, is lost.
Reported(m) == written[m].source \in {"live", "persisted"} /\ m \notin disk.expired
OnlyReported ==
  {m \in DOMAIN written : Reported(m) /\ \A e \in Discovering : m \notin StartCmd[e]}
OwnerSurvivesRestart ==
  [][OnlyReported # {} /\ Restart =>
       \A m \in OnlyReported : entries'[m].engine = written[m].engine]_catalogVars

\* "config_order -> the engine that appears first in the engines: table wins": of the
\* engines that the router itself holds to have reported a model, the first one owns it.
ConfigOrder ==
  \A m \in DOMAIN entries :
    entries[m].source \in {"live", "persisted"} /\ Listing(seen, m) # {} =>
      entries[m].engine = FirstOf(Listing(seen, m))
=============================================================================

--------------------------- MODULE LoadedLists ---------------------------
(***************************************************************************)
(* How the router reads what a service says of its models: the readiness   *)
(* assertion (ready_check), the models that are loaded by name, and the    *)
(* ids to unload them by, over the shapes of answer that the presets are   *)
(* written for.  A JSON value is Null, a string, a list or an object; the  *)
(* fields of an object are a function on the keys that it has.             *)
(***************************************************************************)
EXTENDS Naturals, Sequences, Functions

CONSTANTS
  Offered,    \* the models of the service, as a sequence
  Instance    \* [models -> id of the loaded instance]

ASSUME ListsAssumption ==
  Offered \in Seq(Range(Offered)) /\ IsInjective(Offered) /\ DOMAIN Instance = Range(Offered)

\* The elements of a sequence at the places of a set, as a loop that appends them.
Chosen(seq, places) ==
  LET upTo[n \in 0..Len(seq)] ==
        IF n = 0 THEN <<>>
        ELSE IF n \in places THEN Append(upTo[n - 1], seq[n]) ELSE upTo[n - 1]
  IN upTo[Len(seq)]

Null       == [json |-> "null"]
Str(v)     == [json |-> "string", is |-> v]
List(seq)  == [json |-> "list", of |-> seq]
Obj(f)     == [json |-> "object", has |-> f]
Field(o, k) == IF k \in DOMAIN o.has THEN o.has[k] ELSE Null

----------------------------------------------------------------------------
(* The services: what each kind answers when the models "in" are in memory *)

InMemory(in) == Chosen(Offered, {n \in DOMAIN Offered : Offered[n] \in in})
Mapped(F(_), seq) == [n \in DOMAIN seq |-> F(seq[n])]

Answer(kind, in) ==
  CASE kind = "names"    -> List(Mapped(Str, InMemory(in)))
    [] kind = "running"  -> Obj([models |->
         List(Mapped(LAMBDA q : Obj([name |-> Str(q)]), InMemory(in)))])
    [] kind = "instances" -> Obj([data |->
         List(Mapped(LAMBDA q : Obj([id |-> Str(q), instance_id |-> Str(Instance[q]),
                                     state |-> Str(IF q \in in THEN "loaded" ELSE "idle")]),
                     Offered))])
    [] kind = "single"   ->
         IF in = {} THEN Obj([detail |-> Str("none")])
         ELSE Obj([id |-> Str(InMemory(in)[1]), parameters |-> Obj(<<>>)])

\* loaded_models_key, loaded_name_key, loaded_id_key, loaded_filter for each kind.
Config(kind) ==
  CASE kind = "names"     -> [list |-> "models", name |-> "name", id |-> "", filter |-> FALSE]
    [] kind = "running"   -> [list |-> "models", name |-> "name", id |-> "", filter |-> FALSE]
    [] kind = "instances" -> [list |-> "data", name |-> "id", id |-> "instance_id", filter |-> TRUE]
    [] kind = "single"    -> [list |-> "", name |-> "id", id |-> "", filter |-> FALSE]

----------------------------------------------------------------------------
(* _extract_loaded_names() *)

\* Seeded fault: an object without the list is taken for an empty list.
EntriesOfLists(cfg, data) ==
  CASE data.json = "object" -> IF Field(data, cfg.list).json = "list"
                               THEN Field(data, cfg.list).of ELSE <<>>
    [] data.json = "list"   -> data.of
    [] OTHER                -> <<>>

EntriesOf(cfg, data) ==
  CASE data.json = "object" -> IF Field(data, cfg.list).json = "list"
                               THEN Field(data, cfg.list).of ELSE <<data>>
    [] data.json = "list"   -> data.of
    [] OTHER                -> <<>>

Counts(cfg, entry) ==
  \/ entry.json = "string"
  \/ /\ entry.json = "object"
     /\ cfg.filter => Field(entry, "state") = Str("loaded")

FirstField(entry, keys) ==
  LET had == {n \in DOMAIN keys : Field(entry, keys[n]) # Null}
  IN IF had = {} THEN Null ELSE Field(entry, keys[CHOOSE n \in had : \A k \in had : n <= k])

NameOf(cfg, byId, entry) ==
  IF entry.json = "string" THEN entry
  ELSE IF byId /\ cfg.id # "" THEN Field(entry, cfg.id)
  ELSE FirstField(entry, <<cfg.name, "model", "id">>)

LoadedNames(cfg, byId, data) ==
  LET entries == EntriesOf(cfg, data)
      names   == [n \in DOMAIN entries |-> NameOf(cfg, byId, entries[n])]
  IN Chosen(names, {n \in DOMAIN entries : Counts(cfg, entries[n]) /\ names[n] # Null})

----------------------------------------------------------------------------
(* _ready_check_passes() *)

Naming(entry) ==
  CASE entry.json = "string" -> {entry}
    [] entry.json = "object" -> {Field(entry, k) : k \in {"id", "model", "name"}} \ {Null}
    [] OTHER                 -> {}

\* _collect_string_values()
StringValues(data) ==
  CASE data.json = "list"   -> UNION {Naming(e) : e \in Range(data.of)}
    [] data.json = "object" ->
         Naming(data) \cup UNION {UNION {Naming(e) : e \in Range(Field(data, k).of)} :
                                   k \in {key \in {"data", "models"} : Field(data, key).json = "list"}}
    [] OTHER                -> {}

Objects(data) ==
  CASE data.json = "object" -> {data}
    [] data.json = "list"   -> {e \in Range(data.of) : e.json = "object"}
    [] OTHER                -> {}

ReadyCheckPasses(check, data) ==
  \/ check.form = "none"
  \/ /\ data # Null
     /\ \/ check.form = "model" /\ Str(check.model) \in StringValues(data)
        \/ check.form = "field" /\ \E o \in Objects(data) : Field(o, check.key) = Str(check.value)

----------------------------------------------------------------------------
VARIABLES
  service,   \* the kind of service and the models in its memory; never changes
  read       \* what the router reads from it, <<>> before it asks

listVars == <<service, read>>

ListsInit ==
  /\ service \in {[kind |-> k, in |-> in] : k \in {"names", "running", "instances", "single"},
                                            in \in SUBSET Range(Offered)}
  /\ service.kind = "single" => \A p, q \in service.in : p = q
  /\ read = <<>>

Check(q) == [form |-> "model", model |-> q]

\* is_ready(), loaded_model_names() and loaded_models(); the answer may not be JSON.
AskService ==
  /\ read = <<>>
  /\ \E data \in {Answer(service.kind, service.in), Null} :
       read' = <<[garbled |-> data = Null,
                  names   |-> LoadedNames(Config(service.kind), FALSE, data),
                  ids     |-> LoadedNames(Config(service.kind), TRUE, data),
                  ready   |-> {q \in Range(Offered) : ReadyCheckPasses(Check(q), data)},
                  state   |-> ReadyCheckPasses([form |-> "field", key |-> "state",
                                                value |-> "loaded"], data),
                  up      |-> ReadyCheckPasses([form |-> "none"], data)]>>
  /\ UNCHANGED service

ListsNext == AskService \/ (read # <<>> /\ UNCHANGED listVars)

ListsSpec == ListsInit /\ [][ListsNext]_listVars

\* Whatever way a service says it, the router reads the models that are in its memory,
\* each once, and for each of them the id that unloads it: no model is loaded again that
\* is there, and none stays behind after free_vram().  "model:<id>" passes for exactly the
\* models that the answer lists, and an answer that cannot be read asserts nothing.
ListingIsTruth ==
  read # <<>> =>
    LET in    == InMemory(service.in)
        idOf  == [q \in Range(Offered) |->
                    IF service.kind = "instances" THEN Str(Instance[q]) ELSE Str(q)]
    IN IF read[1].garbled
       THEN read[1].names = <<>> /\ read[1].ids = <<>> /\ read[1].ready = {} /\ ~read[1].state
       ELSE /\ read[1].names = Mapped(Str, in)
            /\ read[1].ids = Mapped(LAMBDA q : idOf[q], in)
            /\ read[1].ready = IF service.kind = "instances" THEN Range(Offered) ELSE service.in
=============================================================================

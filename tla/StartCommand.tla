--------------------------- MODULE StartCommand ---------------------------
(***************************************************************************)
(* served_ids_from_start_cmd(): which model ids a start command names.     *)
(* The code has it twice, for engine_for() and for the catalog.  An        *)
(* argument is a flag, alone or joined with a value by "=", or a value;    *)
(* values are plain, look like a Python module, are a path of a .gguf      *)
(* file, which names two ids, or are empty.                                *)
(***************************************************************************)
EXTENDS Naturals, Sequences

CONSTANTS Commands, NoValue

VARIABLES
  argv,    \* the command; never changes
  i,       \* the loop's index
  within,  \* the inner loop over the values of --served-model-name runs
  ids      \* the ids found so far

commandVars == <<argv, i, within, ids>>

Flags == {"--served-model-name", "-m", "--model", "--other", "no flag"}
Values == {"plain", "module", "file.gguf", "empty"}

\* Each argument is [flag, value]; value is NoValue for a flag alone.
ASSUME CommandsAssumption ==
  Commands \subseteq Seq([flag : Flags, value : Values \cup {NoValue}])

CommandInit == argv \in Commands /\ i = 1 /\ within = FALSE /\ ids = {}

More == i <= Len(argv)
IsValue(k) == argv[k].flag = "no flag"
Joined(k) == argv[k].value # NoValue

\* _add_model_id()
Ids(value) ==
  CASE value = "empty"     -> {}
    [] value = "file.gguf" -> {"file.gguf", "file"}
    [] OTHER               -> {value}

\* A value after -m that looks like a module is one of "python -m".
Named(flag, value) == IF flag = "-m" /\ value = "module" THEN {} ELSE Ids(value)

ServedName ==
  /\ More /\ ~within /\ argv[i].flag = "--served-model-name"
  /\ IF Joined(i) THEN ids' = ids \cup Ids(argv[i].value) /\ UNCHANGED within
                  ELSE within' = TRUE /\ UNCHANGED ids
  /\ i' = i + 1
  /\ UNCHANGED argv

NextName ==
  /\ within
  /\ IF More /\ IsValue(i)
     THEN ids' = ids \cup Ids(argv[i].value) /\ i' = i + 1 /\ UNCHANGED within
     ELSE within' = FALSE /\ UNCHANGED <<i, ids>>
  /\ UNCHANGED argv

\* Seeded fault: what follows -m is its value, whatever it is.
ModelFlagTakesAll ==
  /\ More /\ ~within /\ argv[i].flag \in {"-m", "--model"}
  /\ IF Joined(i)
     THEN ids' = ids \cup Named(argv[i].flag, argv[i].value) /\ i' = i + 1
     ELSE IF i + 1 <= Len(argv)
     THEN /\ ids' = ids \cup (IF IsValue(i + 1) THEN Named(argv[i].flag, argv[i + 1].value) ELSE {})
          /\ i' = i + 2
     ELSE i' = i + 1 /\ UNCHANGED ids
  /\ UNCHANGED <<argv, within>>

ModelFlag ==
  /\ More /\ ~within /\ argv[i].flag \in {"-m", "--model"}
  /\ IF Joined(i)
     THEN ids' = ids \cup Named(argv[i].flag, argv[i].value) /\ i' = i + 1
     ELSE IF i + 1 <= Len(argv) /\ IsValue(i + 1)
     THEN ids' = ids \cup Named(argv[i].flag, argv[i + 1].value) /\ i' = i + 2
     ELSE i' = i + 1 /\ UNCHANGED ids
  /\ UNCHANGED <<argv, within>>

OtherArgument ==
  /\ More /\ ~within /\ argv[i].flag \in {"--other", "no flag"}
  /\ i' = i + 1
  /\ UNCHANGED <<argv, within, ids>>

Parsed == ~More /\ ~within

CommandNext ==
  \/ ServedName
  \/ NextName
  \/ ModelFlag
  \/ OtherArgument
  \/ Parsed /\ UNCHANGED commandVars

CommandSpec == CommandInit /\ [][CommandNext]_commandVars

----------------------------------------------------------------------------
\* What the docstring promises, without the loop: every joined value, the values between
\* --served-model-name and the next flag, and the one value after a model flag.
Reference ==
  LET Under(k, f) == f < k /\ \A j \in (f + 1)..k : IsValue(j)
  IN (UNION {Named(argv[k].flag, argv[k].value) :
              k \in {n \in DOMAIN argv : argv[n].flag \in {"--served-model-name", "-m", "--model"}
                                           /\ Joined(n)}})
     \cup (UNION {Ids(argv[k].value) :
              k \in {n \in DOMAIN argv : \E f \in DOMAIN argv :
                       argv[f].flag = "--served-model-name" /\ ~Joined(f) /\ Under(n, f)}})
     \cup (UNION {Named(argv[k - 1].flag, argv[k].value) :
              k \in {n \in DOMAIN argv \ {1} : argv[n - 1].flag \in {"-m", "--model"}
                                           /\ ~Joined(n - 1) /\ IsValue(n)}})

\* The loop with its skips and its inner loop finds exactly these, whatever follows
\* whatever: an id missed is a model that is not routed to its engine while that is
\* down, and an id too many is one that is routed to an engine without it.
ParserExact == Parsed => ids = Reference
=============================================================================

--------------------------- MODULE ApiSwapEngine ---------------------------
(***************************************************************************)
(* APISwapEngine and its preset OllamaEngine: a service that is not the    *)
(* router's own process, whose models are loaded and unloaded over HTTP.   *)
(* The router only knows what the service lists; a listing that fails      *)
(* reads as an empty one, an unload that fails is only logged, and what    *)
(* was asked for and abandoned the service may still do.                   *)
(***************************************************************************)
EXTENDS EngineCalls

CONSTANTS Models, NoModel

ASSUME ModelsAssumption == NoModel \notin Models

VARIABLES
  probes,    \* a loaded_path is configured (Ollama always has one); never changes
  unloads,   \* an unload_path is configured (Ollama always has one); never changes
  serving,   \* the service answers; the service is outside the repository
  loaded,    \* the models that hold its memory
  pending,   \* models it is loading, for a call or a request, abandoned or not
  leaving,   \* models it has been told to unload and has not yet
  todo,      \* models free_vram() has still to unload; NoModel is "whatever there is"
  asked,     \* the model load_model() waits for
  misled     \* history: what the last call was told about loaded models was not so,
             \* or the service was still loading when it returned

apiConfVars    == <<probes, unloads>>
serviceVars == <<serving, loaded, pending, leaving>>
apiCallVars    == <<pc, todo, asked, late, outcome, misled>>
apiVars        == <<apiConfVars, serviceVars, apiCallVars>>

ApiPlaces == {"idle", "ready?", "waiting", "listing", "unloading", "polling",
           "last-poll", "loading"}

ApiTypeInv ==
  /\ CallTypes(ApiPlaces)
  /\ {probes, unloads, serving, misled} \subseteq BOOLEAN
  /\ loaded \subseteq Models
  /\ pending \subseteq Models
  /\ leaving \subseteq loaded
  /\ todo \subseteq Models \cup {NoModel}
  /\ asked \in Models \cup {NoModel}

\* An earlier router, or a user, may have left models loaded or loading.
ApiInit ==
  /\ probes \in BOOLEAN
  /\ unloads \in BOOLEAN
  /\ serving \in BOOLEAN
  /\ loaded \in (IF serving THEN SUBSET Models ELSE {{}})
  /\ pending = {}
  /\ leaving = {}
  /\ NoCall
  /\ todo = {}
  /\ asked = NoModel
  /\ misled = FALSE

ApiReturn(how) == Return(how) /\ todo' = {} /\ asked' = NoModel

\* loaded_models(): what the service lists, or nothing when it does not answer in time
\* or with something that is not a list; Truly(seen) is that it was so.
Listing == IF serving THEN {loaded, {}} ELSE {{}}
Truly(seen) == seen = loaded

----------------------------------------------------------------------------
(* The service *)

LoadEnds(m) ==
  /\ m \in pending
  /\ pending' = pending \ {m}
  /\ \/ loaded' = loaded \cup {m} /\ UNCHANGED leaving
     \/ loaded' = {m} /\ leaving' = {}
     \/ UNCHANGED <<loaded, leaving>>
  /\ UNCHANGED serving

UnloadEnds(m) ==
  /\ m \in leaving
  /\ loaded' = loaded \ {m}
  /\ leaving' = leaving \ {m}
  /\ UNCHANGED <<serving, pending>>

Crashes ==
  /\ serving
  /\ serving' = FALSE
  /\ loaded' = {}
  /\ pending' = {}
  /\ leaving' = {}

Recovers == ~serving /\ serving' = TRUE /\ UNCHANGED <<loaded, pending, leaving>>

\* While the engine is active, a request that is relayed makes the service load its
\* model; the client may be gone before it has.
RelayedLoad(m) ==
  /\ pc = "idle"
  /\ outcome = "started"
  /\ serving
  /\ pending' = pending \cup {m}
  /\ UNCHANGED <<serving, loaded, leaving>>

Service ==
  /\ \/ \E m \in Models : LoadEnds(m) \/ UnloadEnds(m) \/ RelayedLoad(m)
     \/ Crashes
     \/ Recovers
  /\ UNCHANGED <<apiConfVars, apiCallVars>>

----------------------------------------------------------------------------
(* ensure_started() *)

StartService ==
  /\ pc = "idle"
  /\ Goto("ready?")
  /\ misled' = FALSE
  /\ UNCHANGED <<apiConfVars, serviceVars, todo, asked>>

\* Not answering: systemctl start is tried, whatever comes of it, and 20 s are waited.
Ready ==
  /\ pc = "ready?"
  /\ \/ serving /\ ApiReturn("started")
     \/ Goto("waiting") /\ UNCHANGED <<todo, asked>>
  /\ UNCHANGED <<apiConfVars, serviceVars, misled>>

ApiWaitReady ==
  /\ pc = "waiting"
  /\ \/ serving /\ ApiReturn("started")
     \/ late /\ ApiReturn("failed")
  /\ UNCHANGED <<apiConfVars, serviceVars, misled>>

----------------------------------------------------------------------------
(* free_vram() *)

Freed(truly) ==
  /\ ApiReturn("freed")
  /\ misled' = (misled \/ ~truly \/ pending # {})

\* Without a loaded_path nothing can be listed, and one unload is sent unseen.
FreeVram ==
  /\ pc = "idle"
  /\ IF probes THEN Goto("listing") /\ UNCHANGED todo
               ELSE Goto("unloading") /\ todo' = {NoModel}
  /\ misled' = FALSE
  /\ UNCHANGED <<apiConfVars, serviceVars, asked>>

Listed ==
  /\ pc = "listing"
  /\ \E seen \in Listing :
       \/ seen = {} /\ Freed(Truly(seen))
       \/ seen # {} /\ Goto("unloading") /\ todo' = seen /\ UNCHANGED <<asked, misled>>
  /\ UNCHANGED <<apiConfVars, serviceVars>>

\* _unload(): the request may be lost, and its failure is only logged; without an
\* unload_path there is none.
Told(m) ==
  \/ /\ unloads /\ serving
     /\ leaving' = leaving \cup (IF m = NoModel THEN loaded ELSE {m} \cap loaded)
  \/ UNCHANGED leaving

\* Seeded fault: the service is taken at its word that it unloads.
UnloadsUnwatched ==
  /\ pc = "unloading"
  /\ \E m \in todo :
       /\ Told(m)
       /\ IF todo # {m} THEN todo' = todo \ {m} /\ UNCHANGED <<pc, asked, late, outcome, misled>>
          ELSE Freed(probes)
  /\ UNCHANGED <<apiConfVars, serving, loaded, pending>>

Unload ==
  /\ pc = "unloading"
  /\ \E m \in todo :
       /\ Told(m)
       /\ IF todo # {m} THEN todo' = todo \ {m} /\ UNCHANGED <<pc, asked, late, outcome, misled>>
          ELSE IF probes THEN Goto("polling") /\ todo' = {} /\ UNCHANGED <<asked, misled>>
          ELSE Freed(FALSE)
  /\ UNCHANGED <<apiConfVars, serving, loaded, pending>>

\* Every half second until the list is empty, and once more after unload_timeout_s.
Poll ==
  /\ pc = "polling"
  /\ \/ \E seen \in Listing : ~late /\ seen = {} /\ Freed(Truly(seen))
     \/ late /\ Goto("last-poll") /\ UNCHANGED <<todo, asked, misled>>
  /\ UNCHANGED <<apiConfVars, serviceVars>>

LastPoll ==
  /\ pc = "last-poll"
  /\ \E seen \in Listing :
       \/ seen = {} /\ Freed(Truly(seen))
       \/ seen # {} /\ ApiReturn("stuck") /\ UNCHANGED misled
  /\ UNCHANGED <<apiConfVars, serviceVars>>

----------------------------------------------------------------------------
(* load_model() *)

\* The request reaches the service or not; without a load_path nothing is done.
LoadModel(m) ==
  /\ pc = "idle"
  /\ outcome = "started"
  /\ \/ serving /\ pending' = pending \cup {m}
     \/ UNCHANGED pending
  /\ Goto("loading")
  /\ asked' = m
  /\ UNCHANGED <<apiConfVars, serving, loaded, leaving, todo, misled>>

\* An answer, good or an error, or none within load_timeout_s: what the service does
\* with the request is not known after that.
LoadAnswered ==
  /\ pc = "loading"
  /\ \/ asked \in loaded /\ ApiReturn("started")
     \/ ApiReturn("failed")
  /\ UNCHANGED <<apiConfVars, serviceVars, misled>>

----------------------------------------------------------------------------
ApiDeadlinePasses ==
  /\ pc \in {"waiting", "polling"}
  /\ ~late
  /\ late' = TRUE
  /\ UNCHANGED <<apiConfVars, serviceVars, pc, todo, asked, outcome, misled>>

ApiInterrupted ==
  /\ \/ pc # "idle" /\ ApiReturn("cancelled")
     \/ ApiReturn("restarted")
  /\ UNCHANGED <<apiConfVars, serviceVars, misled>>

ApiProgress ==
  \/ Ready
  \/ ApiWaitReady
  \/ Listed
  \/ Unload
  \/ Poll
  \/ LastPoll
  \/ LoadAnswered

ApiNext ==
  \/ StartService
  \/ FreeVram
  \/ \E m \in Models : LoadModel(m)
  \/ ApiProgress
  \/ ApiDeadlinePasses
  \/ ApiInterrupted
  \/ Service

ApiSpec == ApiInit /\ [][ApiNext]_apiVars

\* The event loop runs the call and clocks run; nothing is assumed of the service, and a
\* poll is not assumed to find an empty list, be it because it failed.
ApiPolls    == ApiProgress /\ (pc = "polling" => late)
ApiFairSpec == ApiSpec /\ WF_apiVars(ApiPolls) /\ WF_apiVars(ApiDeadlinePasses)

----------------------------------------------------------------------------
\* What free_vram() promises the manager of an engine it can look into: once it has
\* returned, no model holds memory until the engine is used again - unless a listing
\* failed on the way or the service was still loading for a call or a request that
\* was given up, which it cannot see.
FreedStaysEmpty == outcome = "freed" /\ probes /\ ~misled => loaded = {}
=============================================================================

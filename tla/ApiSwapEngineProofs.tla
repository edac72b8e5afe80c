-------------------------- MODULE ApiSwapEngineProofs --------------------------
(***************************************************************************)
(* Proofs about ApiSwapEngine, for any set of models.                      *)
(***************************************************************************)
EXTENDS ApiSwapEngine, TLAPS

\* FreedStaysEmpty is not inductive: a load under way would fill the memory again.
StaysQuiet == outcome = "freed" /\ probes /\ ~misled => loaded = {} /\ pending = {}

EngineInv == ApiTypeInv /\ StaysQuiet

\* The variables of an API engine keep their types, for any set of models.
THEOREM TypeCorrect == ApiSpec => []ApiTypeInv
<1>1. ApiInit => ApiTypeInv
  BY DEF ApiInit, NoCall, ApiTypeInv, CallTypes, Outcomes, ApiPlaces
<1>2. ApiTypeInv /\ [ApiNext]_apiVars => ApiTypeInv'
  <2> SUFFICES ASSUME ApiTypeInv, [ApiNext]_apiVars PROVE ApiTypeInv'
    OBVIOUS
  <2> USE DEF ApiTypeInv, CallTypes, Outcomes, ApiPlaces, apiConfVars, serviceVars, apiCallVars, Goto, Return, ApiReturn
  <2>1. CASE StartService  BY <2>1 DEF StartService
  <2>2. CASE FreeVram  BY <2>2 DEF FreeVram
  <2>3. ASSUME NEW m \in Models, LoadModel(m) PROVE ApiTypeInv'
    BY <2>3 DEF LoadModel
  <2>4. CASE Ready  BY <2>4 DEF Ready
  <2>5. CASE ApiWaitReady  BY <2>5 DEF ApiWaitReady
  <2>6. CASE Listed  BY <2>6 DEF Listed, Listing, Truly, Freed
  <2>7. CASE Unload
    <3>1. PICK m \in todo :
            /\ Told(m)
            /\ IF todo # {m} THEN todo' = todo \ {m} /\ UNCHANGED <<pc, asked, late, outcome, misled>>
               ELSE IF probes THEN Goto("polling") /\ todo' = {} /\ UNCHANGED <<asked, misled>>
               ELSE Freed(FALSE)
      BY <2>7 DEF Unload
    <3>2. UNCHANGED <<probes, unloads, serving, loaded, pending>>
      BY <2>7 DEF Unload
    <3>3. leaving' \subseteq loaded
      BY <3>1 DEF Told
    <3> QED
      BY <3>1, <3>2, <3>3 DEF Freed
  <2>8. CASE Poll  BY <2>8 DEF Poll, Listing, Truly, Freed
  <2>9. CASE LastPoll  BY <2>9 DEF LastPoll, Listing, Truly, Freed
  <2>10. CASE LoadAnswered  BY <2>10 DEF LoadAnswered
  <2>11. CASE ApiDeadlinePasses  BY <2>11 DEF ApiDeadlinePasses
  <2>12. CASE ApiInterrupted  BY <2>12 DEF ApiInterrupted
  <2>13. CASE Service
    BY <2>13 DEF Service, LoadEnds, UnloadEnds, RelayedLoad, Crashes, Recovers
  <2>14. CASE UNCHANGED apiVars  BY <2>14 DEF apiVars
  <2> QED
    BY <2>1, <2>2, <2>3, <2>4, <2>5, <2>6, <2>7, <2>8, <2>9, <2>10, <2>11, <2>12, <2>13, <2>14
       DEF ApiNext, ApiProgress
<1> QED
  BY <1>1, <1>2, PTL DEF ApiSpec

\* A free_vram() that listed truly, with nothing still loading, has emptied the service,
\* and nothing fills it until the engine is used again.
THEOREM FreedEmpty == ApiSpec => []FreedStaysEmpty
<1>1. ApiInit => StaysQuiet
  BY DEF ApiInit, NoCall, StaysQuiet
<1>2. ApiTypeInv /\ StaysQuiet /\ [ApiNext]_apiVars => StaysQuiet'
  <2> SUFFICES ASSUME ApiTypeInv, StaysQuiet, [ApiNext]_apiVars PROVE StaysQuiet'
    OBVIOUS
  <2> USE DEF StaysQuiet, apiConfVars, serviceVars, apiCallVars, Goto, Return, ApiReturn
  <2>1. ASSUME NEW truly \in BOOLEAN, Freed(truly), UNCHANGED <<apiConfVars, loaded, pending>>,
               truly => loaded = {}
        PROVE  StaysQuiet'
    BY <2>1 DEF Freed, ApiTypeInv
  <2>2. CASE StartService \/ FreeVram \/ ApiInterrupted
    BY <2>2 DEF StartService, FreeVram, ApiInterrupted
  <2>3. ASSUME NEW m \in Models, LoadModel(m) PROVE StaysQuiet'
    BY <2>3 DEF LoadModel
  <2>4. CASE Ready \/ ApiWaitReady \/ LoadAnswered \/ ApiDeadlinePasses
    BY <2>4 DEF Ready, ApiWaitReady, LoadAnswered, ApiDeadlinePasses
  <2>5. CASE Listed
    <3>1. PICK seen \in Listing : \/ seen = {} /\ Freed(Truly(seen))
                                  \/ seen # {} /\ Goto("unloading")
      BY <2>5 DEF Listed
    <3>2. UNCHANGED <<apiConfVars, loaded, pending>>
      BY <2>5 DEF Listed
    <3> QED
      BY <3>1, <3>2, <2>1 DEF Truly
  <2>6. CASE Unload
    <3>1. PICK m \in todo :
            IF todo # {m} THEN UNCHANGED <<outcome, misled>>
            ELSE IF probes THEN Goto("polling") ELSE Freed(FALSE)
      BY <2>6 DEF Unload
    <3>2. UNCHANGED <<apiConfVars, loaded, pending>>
      BY <2>6 DEF Unload
    <3> QED
      BY <3>1, <3>2, <2>1
  <2>7. CASE Poll
    <3>1. PICK seen \in Listing : \/ seen = {} /\ Freed(Truly(seen))
                                  \/ Goto("last-poll")
      BY <2>7 DEF Poll, Listing
    <3>2. UNCHANGED <<apiConfVars, loaded, pending>>
      BY <2>7 DEF Poll
    <3> QED
      BY <3>1, <3>2, <2>1 DEF Truly
  <2>8. CASE LastPoll
    <3>1. PICK seen \in Listing : \/ seen = {} /\ Freed(Truly(seen))
                                  \/ ApiReturn("stuck")
      BY <2>8 DEF LastPoll
    <3>2. UNCHANGED <<apiConfVars, loaded, pending>>
      BY <2>8 DEF LastPoll
    <3> QED
      BY <3>1, <3>2, <2>1 DEF Truly
  <2>9. CASE Service
    BY <2>9 DEF Service, LoadEnds, UnloadEnds, RelayedLoad, Crashes, Recovers, ApiTypeInv
  <2>10. CASE UNCHANGED apiVars  BY <2>10 DEF apiVars
  <2> QED
    BY <2>2, <2>3, <2>4, <2>5, <2>6, <2>7, <2>8, <2>9, <2>10 DEF ApiNext, ApiProgress
<1>3. StaysQuiet => FreedStaysEmpty
  BY DEF StaysQuiet, FreedStaysEmpty
<1> QED
  BY <1>1, <1>2, <1>3, TypeCorrect, PTL DEF ApiSpec
=============================================================================

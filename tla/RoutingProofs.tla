----------------------------- MODULE RoutingProofs -----------------------------
(***************************************************************************)
(* Proofs about the decisions on a request and what they are made from:    *)
(* the health of models, the settle wait, the picker's decision, the       *)
(* bodies of the attempts, the ids a start command names, the benchmark    *)
(* store, the records of swaps and the calibrations, for any models,       *)
(* engines, requests, thresholds, lifetimes, durations and scores.         *)
(***************************************************************************)
EXTENDS CatalogProofs, SmartDecision, SmartHealth, MemorySettle, StartCommand, RequestBodies,
        BenchmarkStore, SwapRecords, Calibration, TLAPS

----------------------------------------------------------------------------
(* SmartHealth *)

HealthTypes ==
  /\ failures \in [Models -> 0..Threshold]
  /\ refused \in [Models -> 0..Threshold]
  /\ saved.failures \in [Models -> 0..Threshold]
  /\ noted.refused \in [Models -> 0..Threshold]

\* The state file is never behind the refusals whose write succeeded.
StrikesSaved ==
  \A m \in Models :
    /\ refused[m] <= failures[m]
    /\ noted.refused[m] <= saved.failures[m]
    /\ noted.refused[m] >= Threshold => m \in saved.cooling \cup noted.rested

SavedRecord ==
  /\ saved = [failures |-> saved.failures, cooling |-> saved.cooling]
  /\ noted = [refused |-> noted.refused, rested |-> noted.rested]

HealthInv == HealthTypes /\ SavedRecord /\ StrikesSaved /\ StrikesHold

\* A counter that is written stays a function into the set of its values.
LEMMA CounterWritten ==
  ASSUME NEW S, NEW f \in [Models -> S], NEW m, NEW e, m \in Models => e \in S
  PROVE  [f EXCEPT ![m] = e] \in [Models -> S]
OBVIOUS

\* A capped counter stays in its range.
LEMMA Capped == \A n \in 0..Threshold : AtMost(n + 1) \in 0..Threshold
BY HealthAssumption DEF AtMost

LEMMA HealthTypeStep ==
  ASSUME HealthInv, [HealthNext]_healthVars
  PROVE  HealthTypes' /\ SavedRecord'
<1>0. HealthTypes /\ SavedRecord /\ 0 \in 0..Threshold
  BY HealthAssumption DEF HealthInv
<1>1. ASSUME NEW m, RecordFailure(m) PROVE failures' \in [Models -> 0..Threshold]
  <2>1. failures \in [Models -> 0..Threshold]
    BY <1>0 DEF HealthTypes
  <2>2. m \in Models => AtMost(failures[m] + 1) \in 0..Threshold
    BY <2>1, Capped
  <2>3. failures' = [failures EXCEPT ![m] = AtMost(failures[m] + 1)]
    BY <1>1 DEF RecordFailure
  <2>4. [failures EXCEPT ![m] = AtMost(failures[m] + 1)] \in [Models -> 0..Threshold]
    BY <2>1, <2>2, CounterWritten
  <2>. QED  BY <2>3, <2>4
<1>2. ASSUME NEW m PROVE [refused EXCEPT ![m] = AtMost(@ + 1)] \in [Models -> 0..Threshold]
  <2>1. refused \in [Models -> 0..Threshold]
    BY <1>0 DEF HealthTypes
  <2>2. m \in Models => AtMost(refused[m] + 1) \in 0..Threshold
    BY <2>1, Capped
  <2>. QED  BY <2>1, <2>2, CounterWritten
<1>w. ASSUME failures' \in [Models -> 0..Threshold], refused' \in [Models -> 0..Threshold],
             WriteRecord
      PROVE  HealthTypes' /\ SavedRecord'
  <2>1. CASE UNCHANGED <<saved, noted>>
    BY <1>0, <1>w, <2>1 DEF HealthTypes, SavedRecord
  <2>2. CASE saved' = Record' /\ noted' = History'
    BY <1>w, <2>2 DEF Record, History, HealthTypes, SavedRecord
  <2>. QED  BY <1>w, <2>1, <2>2 DEF WriteRecord
<1>3. ASSUME NEW r \in Requests, Refused(r) PROVE HealthTypes' /\ SavedRecord'
  <2>1. failures' \in [Models -> 0..Threshold]
    BY <1>1, <1>3 DEF Refused
  <2>2. refused' \in [Models -> 0..Threshold]
    BY <1>2, <1>3 DEF Refused
  <2>. QED  BY <1>w, <1>3, <2>1, <2>2 DEF Refused
<1>4. ASSUME NEW r \in Requests, Broken(r) PROVE HealthTypes' /\ SavedRecord'
  BY <1>0, <1>1, <1>4 DEF Broken, HealthTypes, SavedRecord
<1>5. ASSUME NEW r \in Requests, Succeeded(r) PROVE HealthTypes' /\ SavedRecord'
  <2>. DEFINE k == Head(plan[r])
  <2>1. /\ failures' = [failures EXCEPT ![k] = 0]
        /\ refused' = [refused EXCEPT ![k] = 0]
        /\ saved' = saved
        /\ noted' = [refused |-> [noted.refused EXCEPT ![k] = 0],
                     rested |-> noted.rested \ {k}]
    BY <1>5 DEF Succeeded
  <2>2. /\ failures \in [Models -> 0..Threshold] /\ refused \in [Models -> 0..Threshold]
        /\ noted.refused \in [Models -> 0..Threshold]
    BY <1>0 DEF HealthTypes
  <2>3. /\ failures' \in [Models -> 0..Threshold] /\ refused' \in [Models -> 0..Threshold]
        /\ noted'.refused \in [Models -> 0..Threshold]
    BY <1>0, <2>1, <2>2, CounterWritten
  <2>. QED  BY <1>0, <2>1, <2>3 DEF HealthTypes, SavedRecord
<1>6. ASSUME NEW r \in Requests, Pick(r) \/ Gone(r) PROVE HealthTypes' /\ SavedRecord'
  BY <1>0, <1>6 DEF Pick, Gone, HealthTypes, SavedRecord
<1>7. ASSUME NEW mm \in Models, CooldownEnds(mm) PROVE HealthTypes' /\ SavedRecord'
  <2>1. /\ UNCHANGED <<failures, refused>>
        /\ saved' = [saved EXCEPT !.cooling = @ \ {mm}]
        /\ noted' = [noted EXCEPT !.rested = @ \cup ({mm} \cap Struck(noted.refused))]
    BY <1>7 DEF CooldownEnds
  <2>2. /\ saved' = [failures |-> saved.failures, cooling |-> saved.cooling \ {mm}]
        /\ noted' = [refused |-> noted.refused,
                     rested |-> noted.rested \cup ({mm} \cap Struck(noted.refused))]
    BY <1>0, <2>1 DEF SavedRecord
  <2>. QED  BY <1>0, <2>1, <2>2 DEF HealthTypes, SavedRecord
<1>8. CASE Persist
  <2>1. failures' \in [Models -> 0..Threshold] /\ refused' \in [Models -> 0..Threshold]
    BY <1>0, <1>8 DEF Persist, HealthTypes
  <2>. QED  BY <1>w, <1>8, <2>1 DEF Persist
<1>9. CASE HealthRestart \/ \E new \in {"smart", "manual"} : SetMode(new)
  BY <1>0, <1>9 DEF HealthRestart, SetMode, HealthTypes, SavedRecord
<1>10. CASE UNCHANGED healthVars
  BY <1>0, <1>10 DEF healthVars, HealthTypes, SavedRecord
<1>. QED  BY <1>3, <1>4, <1>5, <1>6, <1>7, <1>8, <1>9, <1>10 DEF HealthNext

\* A write of the state file, good or failed, keeps what the failures in memory keep.
LEMMA StrikesWritten ==
  ASSUME HealthInv, WriteRecord,
         \A m \in Models : refused'[m] <= failures'[m],
         StrikesHold'
  PROVE  StrikesSaved'
<1>1. CASE UNCHANGED <<saved, noted>>
  BY <1>1 DEF HealthInv, StrikesSaved
<1>2. CASE saved' = Record' /\ noted' = History'
  BY <1>2 DEF StrikesHold, Struck, Record, History, StrikesSaved
<1>. QED  BY <1>1, <1>2 DEF WriteRecord

LEMMA StrikesStep ==
  ASSUME HealthInv, [HealthNext]_healthVars
  PROVE  StrikesSaved' /\ StrikesHold'
<1>. USE HealthAssumption
     DEF HealthInv, HealthTypes, SavedRecord, StrikesSaved, StrikesHold, Struck
<1>1. ASSUME NEW r \in Requests, Refused(r) PROVE StrikesSaved' /\ StrikesHold'
  <2>. DEFINE k == Head(plan[r])
  <2>1. /\ failures' = [failures EXCEPT ![k] = AtMost(@ + 1)]
        /\ refused' = [refused EXCEPT ![k] = AtMost(@ + 1)]
        /\ cooling' = IF failures[k] + 1 >= Threshold THEN cooling \cup {k} ELSE cooling
        /\ rested' = rested \ {k}
    BY <1>1 DEF Refused, RecordFailure
  <2>2. ASSUME NEW m \in Models
        PROVE  refused'[m] <= failures'[m]
                 /\ (refused'[m] >= Threshold => m \in cooling' \cup rested')
    <3>1. CASE m = k
      BY <2>1, <3>1 DEF AtMost
    <3>2. CASE m # k
      BY <2>1, <3>2
    <3>. QED  BY <3>1, <3>2
  <2>. QED  BY <1>1, <2>2, StrikesWritten DEF Refused
<1>2. ASSUME NEW r \in Requests, Broken(r) PROVE StrikesSaved' /\ StrikesHold'
  BY <1>2 DEF Broken, RecordFailure, AtMost
<1>3. ASSUME NEW r \in Requests, Succeeded(r) PROVE StrikesSaved' /\ StrikesHold'
  <2>. DEFINE k == Head(plan[r])
  <2>1. /\ failures' = [failures EXCEPT ![k] = 0]
        /\ refused' = [refused EXCEPT ![k] = 0]
        /\ cooling' = cooling \ {k} /\ rested' = rested \ {k}
        /\ saved' = saved
        /\ noted'.refused = [noted.refused EXCEPT ![k] = 0]
        /\ noted'.rested = noted.rested \ {k}
    BY <1>3 DEF Succeeded
  <2>2. ASSUME NEW m \in Models
        PROVE  /\ refused'[m] <= failures'[m]
               /\ refused'[m] >= Threshold => m \in cooling' \cup rested'
               /\ noted'.refused[m] <= saved'.failures[m]
               /\ noted'.refused[m] >= Threshold => m \in saved'.cooling \cup noted'.rested
    <3>1. CASE m = k
      BY <2>1, <3>1
    <3>2. CASE m # k
      BY <2>1, <3>2
    <3>. QED  BY <3>1, <3>2
  <2>. QED  BY <2>2
<1>4. ASSUME NEW r \in Requests, Pick(r) \/ Gone(r) PROVE StrikesSaved' /\ StrikesHold'
  BY <1>4 DEF Pick, Gone
<1>5. ASSUME NEW mm \in Models, CooldownEnds(mm) PROVE StrikesSaved' /\ StrikesHold'
  <2>1. /\ UNCHANGED <<failures, refused>>
        /\ \/ UNCHANGED <<cooling, rested>>
           \/ /\ cooling' = cooling \ {mm}
              /\ rested' = rested \cup ({mm} \cap Struck(refused))
        /\ saved'.failures = saved.failures
        /\ saved'.cooling = saved.cooling \ {mm}
        /\ noted'.refused = noted.refused
        /\ noted'.rested = noted.rested \cup ({mm} \cap Struck(noted.refused))
    BY <1>5 DEF CooldownEnds
  <2>. QED  BY <2>1
<1>6. CASE Persist
  <2>1. /\ \A m \in Models : refused'[m] <= failures'[m]
        /\ StrikesHold'
    BY <1>6 DEF Persist
  <2>. QED  BY <1>6, <2>1, StrikesWritten DEF Persist
<1>7. CASE HealthRestart
  BY <1>7 DEF HealthRestart
<1>8. CASE UNCHANGED healthVars \/ \E new \in {"smart", "manual"} : SetMode(new)
  BY <1>8 DEF healthVars, SetMode
<1>. QED  BY <1>1, <1>2, <1>3, <1>4, <1>5, <1>6, <1>7, <1>8 DEF HealthNext

\* A model that refused its number of requests in a row is put to rest, whatever succeeds,
\* fails or restarts between them: a restart takes off only what was never written.
THEOREM StrikesCount == HealthSpec => []StrikesHold
<1>1. HealthInit => HealthInv
  BY HealthAssumption
     DEF HealthInit, HealthInv, HealthTypes, SavedRecord, StrikesSaved, StrikesHold, Struck,
         Record, History
<1>2. HealthInv /\ [HealthNext]_healthVars => HealthInv'
  BY HealthTypeStep, StrikesStep DEF HealthInv
<1>3. HealthInv => StrikesHold
  BY DEF HealthInv
<1>. QED  BY <1>1, <1>2, <1>3, PTL DEF HealthSpec

----------------------------------------------------------------------------
(* MemorySettle *)

SettleTypes ==
  /\ curve \in Seq(Amounts)
  /\ previous = IF curve = <<>> THEN <<>> ELSE <<curve[Len(curve)]>>
  /\ stable \in Nat
  /\ verdict \in {"waiting", "settled", "unreadable", "timeout"}

\* What the counter stands for: whether the last two samples belong to a plateau.
Counting ==
  verdict = "waiting" =>
    stable = IF Len(curve) > 1 /\ Hardly(curve[Len(curve) - 1], curve[Len(curve)])
             THEN 1 ELSE 0

SettleInv == SettleTypes /\ Counting /\ SettleExact

\* The settle wait ends at the first plateau of the samples and at no other of them.
THEOREM SettlesAtPlateau == SettleSpec => []SettleExact
<1>1. SettleInit => SettleInv
  BY DEF SettleInit, SettleInv, SettleTypes, Counting, SettleExact, Plateau, Hardly
<1>2. SettleInv /\ [SettleNext]_settleVars => SettleInv'
  <2>. SUFFICES ASSUME SettleInv, [SettleNext]_settleVars PROVE SettleInv'
    OBVIOUS
  <2>1. CASE Sample
    <3>. DEFINE L == Len(curve)
                Low(n) == n >= 3 /\ curve[n - 1] < curve[n - 2] + Rise
                                 /\ curve[n] < curve[n - 1] + Rise
                After(n) == n >= 3 /\ curve'[n - 1] < curve'[n - 2] + Rise
                                   /\ curve'[n] < curve'[n - 1] + Rise
    <3>1. PICK now \in Amounts :
            /\ stable' = IF previous # <<>> /\ Hardly(previous[1], now) THEN stable + 1 ELSE 0
            /\ verdict' = IF stable' >= 2 THEN "settled" ELSE "waiting"
            /\ previous' = <<now>>
            /\ curve' = Append(curve, now)
      BY <2>1 DEF Sample
    <3>2. /\ L \in Nat /\ Len(curve') = L + 1 /\ curve'[L + 1] = now
          /\ \A n \in 1..L : curve'[n] = curve[n] /\ curve[n] \in Nat
          /\ curve' \in Seq(Amounts) /\ curve' # <<>>
      <4>1. curve \in Seq(Amounts) /\ Amounts \subseteq Nat
        BY SettleAssumption DEF SettleInv, SettleTypes
      <4>2. L \in Nat /\ \A n \in 1..L : curve[n] \in Amounts
        BY <4>1
      <4>3. /\ curve' \in Seq(Amounts) /\ Len(curve') = L + 1 /\ curve'[L + 1] = now
            /\ \A n \in 1..L : curve'[n] = curve[n]
        BY <3>1, <4>1
      <4>4. curve' # <<>>
        BY <4>2, <4>3
      <4>. QED  BY <4>1, <4>2, <4>3, <4>4
    <3>3. verdict = "waiting" /\ ~Low(L) /\ \A n \in 1..(L - 1) : ~Low(n)
      BY <2>1, SettleAssumption DEF Sample, SettleInv, SettleExact, Plateau, Hardly
    <3>4. SettleTypes'
      BY <3>1, <3>2 DEF SettleInv, SettleTypes
    <3>5. stable' = IF L > 0 /\ now < curve[L] + Rise THEN stable + 1 ELSE 0
      BY <3>1, <3>2 DEF SettleInv, SettleTypes, Hardly
    <3>6. stable = IF L > 1 /\ curve[L] < curve[L - 1] + Rise THEN 1 ELSE 0
      BY <3>3 DEF SettleInv, Counting, Hardly
    <3>7. ASSUME NEW n \in 1..L PROVE ~Low(n)
      <4>1. n \in 1..(L - 1) \/ n = L
        BY <3>2
      <4>. HIDE DEF Low
      <4>. QED  BY <3>3, <4>1
    <3>8. ASSUME NEW n \in 1..L PROVE ~After(n)
      <4>1. CASE n >= 3
        <5>1. curve'[n] = curve[n] /\ curve'[n - 1] = curve[n - 1] /\ curve'[n - 2] = curve[n - 2]
          BY <3>2, <4>1
        <5>. QED  BY <3>7, <5>1
      <4>2. CASE ~(n >= 3)
        BY <4>2
      <4>. QED  BY <4>1, <4>2
    <3>9. After(L + 1) <=> stable' >= 2
      <4>1. CASE L < 2
        BY <3>2, <3>5, <3>6, <4>1
      <4>2. CASE L >= 2
        <5>1. /\ curve'[L] = curve[L] /\ curve'[L - 1] = curve[L - 1]
              /\ (L + 1) - 1 = L /\ (L + 1) - 2 = L - 1
          BY <3>2, <4>2
        <5>2. After(L + 1) <=> curve[L] < curve[L - 1] + Rise /\ now < curve[L] + Rise
          BY <3>2, <4>2, <5>1
        <5>. QED  BY <3>2, <3>5, <3>6, <4>2, <5>2
      <4>. QED  BY <3>2, <4>1, <4>2
    <3>10. Counting'
      BY <3>1, <3>2, <3>5, <3>6 DEF Counting, Hardly
    <3>11. SettleExact'
      <4>1. verdict' = "settled" => After(Len(curve'))
        BY <3>1, <3>2, <3>9
      <4>2. verdict' \in {"waiting", "timeout"} => ~After(Len(curve'))
        BY <3>1, <3>2, <3>9
      <4>3. \A n \in 1..(Len(curve') - 1) : ~After(n)
        BY <3>2, <3>8
      <4>. QED  BY <4>1, <4>2, <4>3 DEF SettleExact, Plateau, Hardly
    <3>. QED  BY <3>4, <3>10, <3>11 DEF SettleInv
  <2>2. CASE Unreadable \/ Timeout
    BY <2>2 DEF Unreadable, Timeout, SettleInv, SettleTypes, Counting, SettleExact, Plateau, Hardly
  <2>3. CASE UNCHANGED settleVars
    BY <2>3 DEF settleVars, SettleInv, SettleTypes, Counting, SettleExact, Plateau, Hardly
  <2>. QED  BY <2>1, <2>2, <2>3 DEF SettleNext
<1>3. SettleInv => SettleExact
  BY DEF SettleInv
<1>. QED  BY <1>1, <1>2, <1>3, PTL DEF SettleSpec

----------------------------------------------------------------------------
(* SmartDecision *)

\* What the proofs need of a view.
Sane(w) == w.fits \subseteq Candidates /\ w.score \in [Candidates -> Int]

LEMMA CandidatesFinite == IsFiniteSet(Candidates)
<1>1. ByName \in [1..Len(ByName) -> Candidates] /\ Len(ByName) \in Nat
  BY DecisionAssumption
<1>2. ByName \in Surjection(1..Len(ByName), Candidates)
  BY <1>1 DEF Surjection, Candidates, Range
<1>. QED  BY <1>1, <1>2, FS_Interval, FS_Surjection

\* Each candidate has a place of its own.
LEMMA PlaceOf ==
  ASSUME NEW a \in Candidates
  PROVE  Place(a) \in Nat /\ ByName[Place(a)] = a
<1>1. PICK pos \in DOMAIN ByName : ByName[pos] = a
  BY DEF Candidates, Range
<1>2. DOMAIN ByName \subseteq Nat
  BY DecisionAssumption
<1>. QED  BY <1>1, <1>2 DEF Place

LEMMA TotalIsInt ==
  ASSUME NEW w, Sane(w), NEW a \in Candidates
  PROVE  Total(w, a) \in Int
BY DEF Total, Sane

\* One of two beats the other, none itself, and who beats a winner beats the loser.
LEMMA BeforeOrders ==
  ASSUME NEW w, Sane(w)
  PROVE  /\ \A a \in Candidates : ~Before(w, a, a)
         /\ \A a, b \in Candidates : a # b => Before(w, a, b) \/ Before(w, b, a)
         /\ \A a, b, c \in Candidates : Before(w, a, b) /\ Before(w, b, c) => Before(w, a, c)
<1>1. \A a \in Candidates : Total(w, a) \in Int /\ Place(a) \in Int
  BY TotalIsInt, PlaceOf
<1>2. \A a, b \in Candidates : a # b => Place(a) # Place(b)
  BY PlaceOf
<1>3. \A a \in Candidates : ~Before(w, a, a)
  BY <1>1 DEF Before
<1>4. ASSUME NEW a \in Candidates, NEW b \in Candidates, a # b
      PROVE  Before(w, a, b) \/ Before(w, b, a)
  <2>. DEFINE x == Total(w, a)
              y == Total(w, b)
              p == Place(a)
              q == Place(b)
  <2>1. x \in Int /\ y \in Int /\ p \in Int /\ q \in Int /\ p # q
    BY <1>1, <1>2, <1>4
  <2>. HIDE DEF x, y, p, q
  <2>2. (x > y \/ (x = y /\ p < q)) \/ (y > x \/ (y = x /\ q < p))
    BY <2>1
  <2>. QED  BY <2>2 DEF Before, x, y, p, q
<1>5. ASSUME NEW a \in Candidates, NEW b \in Candidates, NEW c \in Candidates,
             Before(w, a, b), Before(w, b, c)
      PROVE  Before(w, a, c)
  <2>. DEFINE x == Total(w, a)
              y == Total(w, b)
              z == Total(w, c)
              p == Place(a)
              q == Place(b)
              r == Place(c)
  <2>1. x \in Int /\ y \in Int /\ z \in Int /\ p \in Int /\ q \in Int /\ r \in Int
    BY <1>1
  <2>2. (x > y \/ (x = y /\ p < q)) /\ (y > z \/ (y = z /\ q < r))
    BY <1>5 DEF Before
  <2>. HIDE DEF x, y, z, p, q, r
  <2>3. x > z \/ (x = z /\ p < r)
    BY <2>1, <2>2
  <2>. QED  BY <2>3 DEF Before, x, z, p, r
<1>. QED  BY <1>3, <1>4, <1>5

\* One of any candidates comes before the others.
LEMMA FirstIs ==
  ASSUME NEW w, Sane(w), NEW S \in SUBSET Candidates, S # {}
  PROVE  First(w, S) \in S /\ \A n \in S \ {First(w, S)} : Before(w, First(w, S), n)
<1>. DEFINE Down(m) == {n \in S : Before(w, n, m)}
            F == {Down(m) : m \in S}
<1>1. F \subseteq FiniteSubsetsOf(S) /\ F # {}
  <2>1. IsFiniteSet(S)
    BY CandidatesFinite, FS_Subset
  <2>2. \A m \in S : Down(m) \in SUBSET S /\ IsFiniteSet(Down(m))
    BY <2>1, FS_Subset
  <2>. QED  BY <2>2 DEF FiniteSubsetsOf
<1>2. PICK A \in F : \A B \in F : ~(B \subseteq A /\ B # A)
  <2>. HIDE DEF F
  <2>. QED  BY <1>1, MinimalSet
<1>3. PICK m \in S : A = Down(m)
  BY <1>2
<1>4. ASSUME NEW n \in S, Before(w, n, m) PROVE FALSE
  <2>1. Down(n) \subseteq Down(m)
    BY <1>4, BeforeOrders
  <2>2. n \in Down(m) /\ n \notin Down(n)
    BY <1>4, BeforeOrders
  <2>. QED  BY <1>2, <1>3, <2>1, <2>2
<1>5. \A n \in S \ {m} : Before(w, m, n)
  BY <1>4, BeforeOrders
<1>. QED  BY <1>5 DEF First

InOrder(w, s) == \A pos, j \in DOMAIN s : pos < j => Before(w, s[pos], s[j])

\* Candidates can be ranked, and a ranking names none twice.
LEMMA RankedIs ==
  ASSUME NEW w, Sane(w), NEW S \in SUBSET Candidates
  PROVE  /\ Ranked(w, S) \in [1..Cardinality(S) -> S] /\ Cardinality(S) \in Nat
         /\ \A pos, j \in DOMAIN Ranked(w, S) : pos < j => Ranked(w, S)[pos] # Ranked(w, S)[j]
<1>. DEFINE Good == {n \in Nat : \A T \in SUBSET Candidates :
                       Cardinality(T) = n => \E s \in [1..n -> T] : InOrder(w, s)}
<1>1. \A T \in SUBSET Candidates : IsFiniteSet(T) /\ Cardinality(T) \in Nat
  BY CandidatesFinite, FS_Subset, FS_CardinalityType
<1>2. 0 \in Good
  <2>. SUFFICES ASSUME NEW T \in SUBSET Candidates, Cardinality(T) = 0
                PROVE  \E s \in [1..0 -> T] : InOrder(w, s)
    OBVIOUS
  <2>1. T = {}
    BY <1>1, FS_EmptySet
  <2>. DEFINE s == [pos \in {} |-> pos]
  <2>2. s \in [1..0 -> T] /\ DOMAIN s = {}
    OBVIOUS
  <2>. QED  BY <2>2 DEF InOrder
<1>3. ASSUME NEW n \in Nat, n \in Good PROVE n + 1 \in Good
  <2>. SUFFICES ASSUME NEW T \in SUBSET Candidates, Cardinality(T) = n + 1
                PROVE  \E s \in [1..(n + 1) -> T] : InOrder(w, s)
    OBVIOUS
  <2>. DEFINE top == First(w, T)
              U == T \ {top}
  <2>1. T # {}
    BY FS_EmptySet
  <2>2. top \in T /\ \A m \in U : Before(w, top, m)
    BY <2>1, FirstIs
  <2>. HIDE DEF top
  <2>3. Cardinality(U) = n
    BY <1>1, <2>2, FS_RemoveElement
  <2>4. PICK s \in [1..n -> U] : InOrder(w, s)
    BY <1>3, <2>3
  <2>. DEFINE t == [pos \in 1..(n + 1) |-> IF pos = 1 THEN top ELSE s[pos - 1]]
  <2>5. t \in [1..(n + 1) -> T]
    BY <2>2, <2>4
  <2>6. ASSUME NEW pos \in 1..(n + 1), NEW j \in 1..(n + 1), pos < j
        PROVE  Before(w, t[pos], t[j])
    <3>1. j - 1 \in 1..n /\ t[j] = s[j - 1] /\ t[j] \in U
      BY <2>4, <2>6
    <3>2. CASE pos = 1
      BY <2>2, <3>1, <3>2
    <3>3. CASE pos # 1
      <4>1. pos - 1 \in 1..n /\ t[pos] = s[pos - 1] /\ pos - 1 < j - 1
        BY <2>6, <3>3
      <4>. QED  BY <2>4, <3>1, <4>1 DEF InOrder
    <3>. QED  BY <3>2, <3>3
  <2>7. InOrder(w, t)
    BY <2>6 DEF InOrder
  <2>. QED  BY <2>5, <2>7
<1>4. Nat \subseteq Good
  <2>. HIDE DEF Good
  <2>. QED  BY <1>2, <1>3, EachNumber
<1>5. \E s \in [1..Cardinality(S) -> S] : InOrder(w, s)
  BY <1>1, <1>4
<1>6. Ranked(w, S) \in [1..Cardinality(S) -> S] /\ InOrder(w, Ranked(w, S))
  BY <1>5 DEF Ranked, InOrder
<1>7. ASSUME NEW pos \in DOMAIN Ranked(w, S), NEW j \in DOMAIN Ranked(w, S), pos < j
      PROVE  Ranked(w, S)[pos] # Ranked(w, S)[j]
  <2>1. Ranked(w, S)[pos] \in Candidates /\ Ranked(w, S)[j] \in Candidates
          /\ Before(w, Ranked(w, S)[pos], Ranked(w, S)[j])
    BY <1>6, <1>7 DEF InOrder
  <2>. QED  BY <2>1, BeforeOrders
<1>. QED  BY <1>1, <1>6, <1>7

\* What is picked is one of the models let through, of the rested ones if there are any.
LEMMA BestIs ==
  ASSUME NEW w, Sane(w), w.fits # {}
  PROVE  /\ Viable(w) \subseteq w.fits /\ Viable(w) # {} /\ Viable(w) \subseteq Candidates
         /\ Best(w) \in Viable(w)
         /\ Residents(w) # {} => First(w, Residents(w)) \in Residents(w)
         /\ First(w, Viable(w)) \in Viable(w)
<1>1. Viable(w) \subseteq w.fits /\ Viable(w) # {} /\ Viable(w) \subseteq Candidates
  BY DEF Viable, Rested, Sane
<1>2. First(w, Viable(w)) \in Viable(w)
  BY <1>1, FirstIs
<1>3. Residents(w) \subseteq Viable(w)
  BY DEF Residents
<1>4. Residents(w) # {} => First(w, Residents(w)) \in Residents(w)
  BY <1>1, <1>3, FirstIs
<1>. QED  BY <1>1, <1>2, <1>3, <1>4 DEF Best

\* The fallbacks are a few of the other models let through, each once.
LEMMA FallbacksAre ==
  ASSUME NEW w, Sane(w), w.fits # {}
  PROVE  /\ Fallbacks(w) \in Seq(Viable(w) \ {Best(w)}) /\ Len(Fallbacks(w)) <= MaxFallbacks
         /\ \A pos, j \in 1..Len(Fallbacks(w)) : pos < j => Fallbacks(w)[pos] # Fallbacks(w)[j]
<1>. DEFINE S == Alternatives(w)
            s == Ranked(w, S)
            n == Cardinality(S)
<1>0. S \subseteq Viable(w) \ {Best(w)}
  BY DEF Alternatives
<1>1. S \in SUBSET Candidates
  BY <1>0, BestIs
<1>2. s \in [1..n -> S] /\ n \in Nat /\ \A pos, j \in DOMAIN s : pos < j => s[pos] # s[j]
  BY <1>1, RankedIs
<1>. HIDE DEF S, s, n
<1>3. s \in Seq(S) /\ Len(s) = n
  BY <1>2
<1>4. Fallbacks(w) = UpTo(MaxFallbacks, s)
  BY DEF Fallbacks, S, s
<1>5. MaxFallbacks \in Nat
  BY DecisionAssumption
<1>6. CASE n <= MaxFallbacks
  <2>1. Fallbacks(w) = s
    BY <1>3, <1>4, <1>6 DEF UpTo
  <2>. QED  BY <1>0, <1>2, <1>3, <1>6, <2>1
<1>7. CASE ~(n <= MaxFallbacks)
  <2>1. Fallbacks(w) = SubSeq(s, 1, MaxFallbacks)
    BY <1>3, <1>4, <1>7 DEF UpTo
  <2>2. /\ SubSeq(s, 1, MaxFallbacks) \in Seq(S) /\ Len(SubSeq(s, 1, MaxFallbacks)) = MaxFallbacks
        /\ \A pos \in 1..MaxFallbacks : SubSeq(s, 1, MaxFallbacks)[pos] = s[pos] /\ pos \in 1..n
    BY <1>2, <1>3, <1>5, <1>7
  <2>. QED  BY <1>0, <1>2, <2>1, <2>2
<1>. QED  BY <1>2, <1>5, <1>6, <1>7

\* The attempts: the model picked, perhaps again, and the fallbacks.
LEMMA AttemptedIs ==
  ASSUME NEW w, Sane(w), w.fits # {}, NEW p, p = Attempted(w, Best(w))
  PROVE  /\ p \in Seq(Viable(w)) /\ Len(p) >= 1 /\ Len(p) <= 2 + MaxFallbacks
         /\ p[1] = Best(w)
         /\ \A pos, j \in 1..Len(p) : pos < j /\ p[pos] = p[j] => pos = 1 /\ j = 2
<1>. DEFINE b == Best(w)
            again == IF w.sameModelReload THEN <<b>> ELSE <<>>
            rest == IF w.fallForward THEN Fallbacks(w) ELSE <<>>
            S == Viable(w) \ {b}
<1>1. b \in Viable(w)
  BY BestIs
<1>2. again \in Seq(Viable(w)) /\ Len(again) \in 0..1 /\ \A pos \in 1..Len(again) : again[pos] = b
  BY <1>1
<1>3. /\ rest \in Seq(S) /\ Len(rest) \in Nat /\ Len(rest) <= MaxFallbacks
      /\ \A pos, j \in 1..Len(rest) : pos < j => rest[pos] # rest[j]
  <2>1. CASE w.fallForward
    <3>1. rest = Fallbacks(w)
      BY <2>1
    <3>. HIDE DEF rest
    <3>2. rest \in Seq(S) /\ Len(rest) <= MaxFallbacks
            /\ \A pos, j \in 1..Len(rest) : pos < j => rest[pos] # rest[j]
      BY <3>1, FallbacksAre
    <3>. QED  BY <3>2
  <2>2. CASE ~w.fallForward
    <3>1. rest = <<>>
      BY <2>2
    <3>. HIDE DEF rest
    <3>. QED  BY <3>1, DecisionAssumption
  <2>. QED  BY <2>1, <2>2
<1>4. p = (<<b>> \o again) \o rest
  BY DEF Attempted
<1>5. MaxFallbacks \in Nat
  BY DecisionAssumption
<1>. HIDE DEF b, again, rest, S
<1>. DEFINE k == Len(again)
            front == <<b>> \o again
<1>6. front \in Seq(Viable(w)) /\ Len(front) = 1 + k /\ \A pos \in 1..(1 + k) : front[pos] = b
  BY <1>1, <1>2
<1>7. rest \in Seq(Viable(w)) /\ \A pos \in 1..Len(rest) : rest[pos] # b
  BY <1>3 DEF S
<1>. HIDE DEF front
<1>8. /\ p \in Seq(Viable(w)) /\ Len(p) = 1 + k + Len(rest)
      /\ \A pos \in 1..(1 + k) : p[pos] = b
      /\ \A pos \in 1..Len(p) : pos > 1 + k => p[pos] = rest[pos - (1 + k)] /\ pos - (1 + k) \in 1..Len(rest)
  BY <1>2, <1>3, <1>4, <1>6, <1>7 DEF front
<1>9. ASSUME NEW pos \in 1..Len(p), NEW j \in 1..Len(p), pos < j, p[pos] = p[j] PROVE pos = 1 /\ j = 2
  <2>1. k \in 0..1 /\ pos \in Nat /\ j \in Nat /\ pos >= 1
    BY <1>2, <1>3, <1>8
  <2>2. CASE j > 1 + k
    <3>1. p[j] = rest[j - (1 + k)] /\ j - (1 + k) \in 1..Len(rest)
      BY <1>8, <2>2
    <3>2. CASE pos > 1 + k
      <4>1. p[pos] = rest[pos - (1 + k)] /\ pos - (1 + k) \in 1..Len(rest)
        BY <1>8, <3>2
      <4>2. pos - (1 + k) < j - (1 + k)
        BY <1>9, <2>1
      <4>. QED  BY <1>3, <1>9, <3>1, <4>1, <4>2
    <3>3. CASE ~(pos > 1 + k)
      <4>1. p[pos] = b
        BY <1>8, <2>1, <3>3
      <4>. QED  BY <1>7, <1>9, <3>1, <4>1
    <3>. QED  BY <3>2, <3>3
  <2>3. CASE ~(j > 1 + k)
    <3>. HIDE DEF k
    <3>1. pos < j
      BY <1>9
    <3>. QED  BY <2>1, <2>3, <3>1
  <2>. QED  BY <2>2, <2>3
<1>10. Len(p) >= 1 /\ Len(p) <= 2 + MaxFallbacks /\ p[1] = Best(w)
  <2>1. k \in 0..1 /\ Len(rest) \in Nat /\ Len(rest) <= MaxFallbacks /\ Len(p) = 1 + k + Len(rest)
    BY <1>2, <1>3, <1>8
  <2>2. p[1] = b
    BY <1>8, <2>1
  <2>. HIDE DEF k
  <2>3. Len(p) >= 1 /\ Len(p) <= 2 + MaxFallbacks
    BY <1>5, <2>1
  <2>. QED  BY <2>2, <2>3 DEF b
<1>. QED  BY <1>8, <1>9, <1>10

DecisionInv == view \in Views /\ (Decided => planned = Plan(view))

LEMMA DecisionHolds == DecisionSpec => []DecisionInv
<1>1. DecisionInit => DecisionInv
  BY DEF DecisionInit, DecisionInv, Decided
<1>2. DecisionInv /\ [DecisionNext]_<<view, planned>> => DecisionInv'
  BY DEF DecisionInv, DecisionNext, Decide, Decided
<1>. QED  BY <1>1, <1>2, PTL DEF DecisionSpec

\* A request has attempts whenever a model fits, few of them, and none but the first
\* model twice.
THEOREM PlansBounded == DecisionSpec => []NeverStarves
<1>1. DecisionInv => NeverStarves
  <2>. SUFFICES ASSUME DecisionInv, Decided
                PROVE  /\ (planned = <<>>) = (view.fits = {})
                       /\ Len(planned) <= 2 + MaxFallbacks
                       /\ \A pos, j \in DOMAIN planned :
                            pos < j /\ planned[pos] = planned[j] => <<pos, j>> = <<1, 2>>
    BY DEF NeverStarves
  <2>1. CASE view.fits = {}
    <3>1. planned = <<>>
      BY <2>1 DEF DecisionInv, Plan
    <3>. QED  BY <2>1, <3>1, DecisionAssumption
  <2>2. CASE view.fits # {}
    <3>1. Sane(view) /\ planned = Attempted(view, Best(view))
      BY <2>2, ViewsAssumption DEF DecisionInv, Plan, Sane
    <3>2. /\ planned \in Seq(Viable(view)) /\ Len(planned) >= 1
          /\ Len(planned) <= 2 + MaxFallbacks
          /\ \A pos, j \in 1..Len(planned) : pos < j /\ planned[pos] = planned[j] => pos = 1 /\ j = 2
      BY <2>2, <3>1, AttemptedIs
    <3>3. planned # <<>> /\ DOMAIN planned = 1..Len(planned)
      BY <3>2
    <3>. QED  BY <2>2, <3>2, <3>3
  <2>. QED  BY <2>1, <2>2
<1>. QED  BY <1>1, DecisionHolds, PTL

\* No model in cooldown is tried while another one fits.
THEOREM CooledSpared == DecisionSpec => []PlanAvoidsCooled
<1>1. DecisionInv => PlanAvoidsCooled
  <2>. SUFFICES ASSUME DecisionInv, Decided, ~(view.fits \subseteq view.cooled)
                PROVE  Range(planned) \cap view.cooled = {}
    BY DEF PlanAvoidsCooled
  <2>1. Sane(view) /\ view.fits # {} /\ planned = Attempted(view, Best(view))
    BY ViewsAssumption DEF DecisionInv, Plan, Sane
  <2>2. planned \in Seq(Viable(view))
    BY <2>1, AttemptedIs
  <2>3. Viable(view) \cap view.cooled = {}
    BY DEF Viable, Rested
  <2>. QED  BY <2>2, <2>3 DEF Range
<1>. QED  BY <1>1, DecisionHolds, PTL

\* Another engine is swapped in for a gain of the margin, with confidence.
THEOREM SwapsGain == DecisionSpec => []SwapsAreWorthIt
<1>1. DecisionInv => SwapsAreWorthIt
  <2>. DEFINE top == First(view, Viable(view))
              res == First(view, Residents(view))
  <2>. SUFFICES ASSUME DecisionInv, Decided, planned # <<>>, ~Resident(view, planned[1]),
                       NEW m \in view.fits, Resident(view, m)
                PROVE  /\ m \in view.cooled \/
                            (view.sure /\ view.score[planned[1]] >= view.score[m] + Margin)
                       /\ Rested(view) # {}
    BY DEF SwapsAreWorthIt
  <2>1. Sane(view) /\ view.fits # {} /\ planned = Attempted(view, Best(view))
    BY ViewsAssumption DEF DecisionInv, Plan, Sane
  <2>2. planned[1] = Best(view)
    BY <2>1, AttemptedIs
  <2>3. top \in Viable(view) /\ Viable(view) \subseteq Candidates
          /\ Residents(view) \subseteq Viable(view) /\ (Residents(view) # {} => res \in Residents(view))
    BY <2>1, BestIs DEF Residents
  <2>4. \A n \in Viable(view) : n # top => Before(view, top, n)
    BY <2>1, <2>3, FirstIs
  <2>5. \A n \in Residents(view) : n # res => Before(view, res, n)
    BY <2>1, <2>3, FirstIs
  <2>. HIDE DEF top, res
  <2>6. Best(view) = top
    <3>1. Residents(view) # {} => Resident(view, res)
      BY <2>3 DEF Residents
    <3>. QED  BY <2>2, <3>1 DEF Best, top, res
  <2>7. Rested(view) # {}
    <3>. SUFFICES ASSUME Rested(view) = {} PROVE FALSE
      OBVIOUS
    <3>1. m \in Viable(view) /\ m # top /\ ~Resident(view, top)
      BY <2>2, <2>6 DEF Viable
    <3>2. Before(view, top, m) /\ Total(view, top) = 1 /\ Total(view, m) = 2
      BY <2>4, <3>1 DEF Total
    <3>. QED  BY <3>2 DEF Before
  <2>8. ASSUME m \notin view.cooled
        PROVE  view.sure /\ view.score[planned[1]] >= view.score[m] + Margin
    <3>1. m \in Residents(view)
      BY <2>7, <2>8 DEF Residents, Viable, Rested
    <3>2. view.sure /\ ~(Total(view, top) - Total(view, res) < Margin)
      BY <2>2, <2>3, <2>6, <3>1 DEF Best, top, res, Residents
    <3>3. \A n \in Viable(view) : Total(view, n) = view.score[n] /\ view.score[n] \in Int
      BY <2>1, <2>3, <2>7 DEF Total, Sane
    <3>4. view.score[res] >= view.score[m]
      <4>1. CASE m = res
        BY <2>3, <3>1, <3>3, <4>1
      <4>2. CASE m # res
        <5>1. Before(view, res, m)
          BY <2>5, <3>1, <4>2
        <5>. QED  BY <2>3, <3>1, <3>3, <5>1 DEF Before
      <4>. QED  BY <4>1, <4>2
    <3>5. Margin \in Nat /\ res \in Viable(view) /\ m \in Viable(view)
      BY <2>3, <3>1, DecisionAssumption
    <3>6. view.score[top] >= view.score[m] + Margin
      <4>. DEFINE x == view.score[top]
                  y == view.score[res]
                  z == view.score[m]
      <4>1. x \in Int /\ y \in Int /\ z \in Int /\ ~(x - y < Margin) /\ y >= z
        BY <2>3, <3>2, <3>3, <3>4, <3>5
      <4>. HIDE DEF x, y, z
      <4>2. x >= z + Margin
        BY <3>5, <4>1
      <4>. QED  BY <4>2 DEF x, z
    <3>. QED  BY <2>2, <2>6, <3>2, <3>6
  <2>. QED  BY <2>7, <2>8
<1>. QED  BY <1>1, DecisionHolds, PTL

----------------------------------------------------------------------------
(* RequestBodies *)

\* What the bodies to come are made from: on /api the shared dict keeps the client's own
\* kwargs, elsewhere they are put back.
BodyInv ==
  /\ attempts \in Attempts /\ path \in {"chat", "v1", "api"}
  /\ sent \in Seq({Body(m, k) : m \in Targets, k \in {Thinking(t, own) : t \in Targets}})
  /\ Len(sent) <= Len(attempts)
  /\ raw = Body(attempts[1], Thinking(attempts[1], own))
  /\ path = "api" => body.kwargs = own

BodiesInv == BodyInv /\ BodiesAreClients

LEMMA AttemptsAre ==
  ASSUME attempts \in Attempts
  PROVE  /\ Len(attempts) \in Nat /\ Len(attempts) >= 1
         /\ \A n \in 1..Len(attempts) : attempts[n] \in Targets
<1>1. attempts \in Seq(Targets) /\ attempts # <<>>
  BY BodiesAssumption
<1>. QED  BY <1>1

\* Without a policy the kwargs stay.
LEMMA ThinkingOnApi ==
  ASSUME path = "api", NEW m, NEW k
  PROVE  Thinking(m, k) = k
BY DEF Thinking, Fires

LEMMA BodyIs ==
  ASSUME NEW m, NEW k
  PROVE  Body(m, k).model = m /\ Body(m, k).kwargs = k
BY DEF Body

\* Every attempt carries the client's request for the model it goes to, whatever the
\* attempts before it have written into the dict they share.
THEOREM BodiesRight == BodiesSpec => []BodiesAreClients
<1>1. BodiesInit => BodiesInv
  <2>. SUFFICES ASSUME BodiesInit PROVE BodiesInv
    OBVIOUS
  <2>1. attempts \in Attempts /\ Len(attempts) >= 1 /\ sent = <<>> /\ body = raw
          /\ raw = Body(attempts[1], Thinking(attempts[1], own)) /\ path \in {"chat", "v1", "api"}
    BY AttemptsAre DEF BodiesInit
  <2>2. path = "api" => body.kwargs = own
    BY <2>1, BodyIs, ThinkingOnApi
  <2>. QED  BY <2>1, <2>2 DEF BodiesInv, BodyInv, BodiesAreClients
<1>2. BodiesInv /\ [BodiesNext]_bodyVars => BodiesInv'
  <2>. SUFFICES ASSUME BodiesInv, [BodiesNext]_bodyVars PROVE BodiesInv'
    OBVIOUS
  <2>1. CASE Attempt
    <3>. DEFINE n == Len(sent) + 1
                m == attempts[n]
                B == {Body(t, k) : t \in Targets, k \in {Thinking(t, own) : t \in Targets}}
    <3>1. /\ Len(sent) < Len(attempts) /\ UNCHANGED <<path, budget, own, attempts, raw>>
          /\ n \in 1..Len(attempts) /\ m \in Targets /\ attempts[1] \in Targets
          /\ n \in Nat
      <4>1. Len(sent) \in Nat
        BY DEF BodiesInv, BodyInv
      <4>2. Len(sent) < Len(attempts) /\ UNCHANGED <<path, budget, own, attempts, raw>>
        BY <2>1 DEF Attempt
      <4>. QED  BY <4>1, <4>2, AttemptsAre DEF BodiesInv, BodyInv
    <3>2. PICK b : /\ sent' = Append(sent, b) /\ b = Body(m, Thinking(m, own))
                   /\ path = "api" => body'.kwargs = own
      <4>1. CASE m = attempts[1]
        BY <2>1, <4>1 DEF Attempt, BodyFor, Next1, BodiesInv, BodyInv
      <4>2. CASE m # attempts[1]
        <5>1. /\ body' = Body(m, Thinking(m, IF path = "api" THEN body.kwargs ELSE own))
              /\ sent' = Append(sent, body')
          BY <2>1, <4>2 DEF Attempt, BodyFor, Next1
        <5>2. (IF path = "api" THEN body.kwargs ELSE own) = own
          BY DEF BodiesInv, BodyInv
        <5>3. body' = Body(m, Thinking(m, own))
          BY <5>1, <5>2
        <5>4. path = "api" => body'.kwargs = own
          BY <5>3, BodyIs, ThinkingOnApi
        <5>. QED  BY <5>1, <5>3, <5>4
      <4>. QED  BY <4>1, <4>2
    <3>3. \A t, k : Thinking(t, k)' = Thinking(t, k)
      BY <3>1 DEF Thinking, Fires
    <3>4. sent \in Seq(B) /\ b \in B
      BY <3>1, <3>2 DEF BodiesInv, BodyInv
    <3>. HIDE DEF B
    <3>5. /\ sent' \in Seq(B) /\ Len(sent') = n /\ sent'[n] = b
          /\ \A pos \in 1..(n - 1) : sent'[pos] = sent[pos]
      BY <3>2, <3>4
    <3>6. BodyInv'
      BY <3>1, <3>2, <3>3, <3>5 DEF BodiesInv, BodyInv, B
    <3>7. ASSUME NEW pos \in DOMAIN sent'
          PROVE  sent'[pos].model = attempts[pos] /\ sent'[pos].kwargs = Thinking(attempts[pos], own)
      <4>1. pos \in 1..(n - 1) \/ pos = n
        BY <3>1, <3>5
      <4>2. CASE pos = n
        BY <3>2, <3>5, <4>2, BodyIs
      <4>3. CASE pos \in 1..(n - 1)
        <5>1. pos \in DOMAIN sent /\ sent'[pos] = sent[pos]
          BY <3>4, <3>5, <4>3
        <5>. QED  BY <5>1 DEF BodiesInv, BodiesAreClients
      <4>. QED  BY <4>1, <4>2, <4>3
    <3>8. BodiesAreClients'
      BY <3>1, <3>3, <3>7 DEF BodiesAreClients
    <3>. QED  BY <3>6, <3>8 DEF BodiesInv
  <2>2. CASE UNCHANGED bodyVars
    <3>1. UNCHANGED <<path, budget, own, attempts, body, raw, sent>>
      BY <2>2 DEF bodyVars
    <3>2. \A t, k : Thinking(t, k)' = Thinking(t, k)
      BY <3>1 DEF Thinking, Fires
    <3>3. BodyInv' /\ BodiesAreClients'
      BY <3>1, <3>2 DEF BodiesInv, BodyInv, BodiesAreClients
    <3>. QED  BY <3>3 DEF BodiesInv
  <2>. QED  BY <2>1, <2>2 DEF BodiesNext
<1>3. BodiesInv => BodiesAreClients
  BY DEF BodiesInv
<1>. QED  BY <1>1, <1>2, <1>3, PTL DEF BodiesSpec

----------------------------------------------------------------------------
(* StartCommand *)

\* Whether argument k is one of the values of --served-model-name, or the value of a model
\* flag; and the ids it gives.
UnderName(k) ==
  \E f \in DOMAIN argv : /\ argv[f].flag = "--served-model-name" /\ ~Joined(f)
                         /\ f < k /\ \A j \in (f + 1)..k : IsValue(j)
AfterModel(k) ==
  k # 1 /\ argv[k - 1].flag \in {"-m", "--model"} /\ ~Joined(k - 1) /\ IsValue(k)
WithValue(k) == argv[k].flag \in {"--served-model-name", "-m", "--model"} /\ Joined(k)

Gives(k) ==
  (IF WithValue(k) THEN Named(argv[k].flag, argv[k].value) ELSE {})
    \cup (IF UnderName(k) THEN Ids(argv[k].value) ELSE {})
    \cup (IF AfterModel(k) THEN Named(argv[k - 1].flag, argv[k].value) ELSE {})

GivenBefore(n) == UNION {Gives(k) : k \in 1..(n - 1)}

\* The ids found are those of the arguments passed, and the inner loop runs where the next
\* value is one of --served-model-name.
ParserInv ==
  /\ argv \in Commands /\ i \in 1..(Len(argv) + 1) /\ within \in BOOLEAN
  /\ ids = GivenBefore(i)
  /\ More => /\ ~AfterModel(i)
             /\ within /\ IsValue(i) => UnderName(i)
             /\ ~within => ~UnderName(i)

LEMMA ArgvIs ==
  ASSUME argv \in Commands
  PROVE  /\ Len(argv) \in Nat /\ DOMAIN argv = 1..Len(argv)
         /\ \A k \in 1..Len(argv) : argv[k].flag \in Flags
<1>. DEFINE Arguments == [flag : Flags, value : Values \cup {NoValue}]
<1>1. argv \in Seq(Arguments)
  BY CommandsAssumption
<1>2. \A r \in Arguments : r.flag \in Flags
  OBVIOUS
<1>. HIDE DEF Arguments
<1>3. Len(argv) \in Nat /\ argv \in [1..Len(argv) -> Arguments]
  BY <1>1
<1>. QED  BY <1>2, <1>3

\* A value is under a name if the argument before it is, or is the name's flag.
LEMMA UnderNext ==
  ASSUME argv \in Commands, NEW k \in 1..Len(argv)
  PROVE  UnderName(k + 1) <=>
           IsValue(k + 1) /\ (UnderName(k) \/ (argv[k].flag = "--served-model-name" /\ ~Joined(k)))
<1>0. Len(argv) \in Nat /\ DOMAIN argv = 1..Len(argv)
  BY ArgvIs
<1>1. ASSUME UnderName(k + 1)
      PROVE  IsValue(k + 1) /\ (UnderName(k) \/ (argv[k].flag = "--served-model-name" /\ ~Joined(k)))
  <2>1. PICK f \in DOMAIN argv : /\ argv[f].flag = "--served-model-name" /\ ~Joined(f)
                                 /\ f < k + 1 /\ \A j \in (f + 1)..(k + 1) : IsValue(j)
    BY <1>1 DEF UnderName
  <2>2. f \in Nat /\ k \in Nat
    BY <1>0
  <2>3. IsValue(k + 1)
    BY <2>1, <2>2
  <2>4. CASE f = k
    BY <2>1, <2>3, <2>4
  <2>5. CASE f # k
    <3>1. f < k /\ \A j \in (f + 1)..k : IsValue(j)
      BY <2>1, <2>2, <2>5
    <3>. QED  BY <2>1, <2>3, <3>1 DEF UnderName
  <2>. QED  BY <2>4, <2>5
<1>2. ASSUME IsValue(k + 1), UnderName(k) PROVE UnderName(k + 1)
  <2>1. PICK f \in DOMAIN argv : /\ argv[f].flag = "--served-model-name" /\ ~Joined(f)
                                 /\ f < k /\ \A j \in (f + 1)..k : IsValue(j)
    BY <1>2 DEF UnderName
  <2>2. f \in Nat /\ k \in Nat
    BY <1>0
  <2>3. f < k + 1 /\ \A j \in (f + 1)..(k + 1) : j \in (f + 1)..k \/ j = k + 1
    BY <2>1, <2>2
  <2>. QED  BY <1>2, <2>1, <2>3 DEF UnderName
<1>3. ASSUME IsValue(k + 1), argv[k].flag = "--served-model-name", ~Joined(k)
      PROVE  UnderName(k + 1)
  <2>1. k < k + 1 /\ \A j \in (k + 1)..(k + 1) : j = k + 1
    BY <1>0
  <2>. QED  BY <1>0, <1>3, <2>1 DEF UnderName
<1>. QED  BY <1>1, <1>2, <1>3

\* Nothing but a value is under a name, or the value of a flag.
LEMMA OnlyValues ==
  ASSUME argv \in Commands, NEW k \in 1..Len(argv)
  PROVE  UnderName(k) => IsValue(k)
<1>1. \A f \in DOMAIN argv : f < k => k \in (f + 1)..k
  BY ArgvIs
<1>. QED  BY <1>1 DEF UnderName

LEMMA OneMoreGiven ==
  ASSUME NEW n \in Nat, n >= 1
  PROVE  GivenBefore(n + 1) = GivenBefore(n) \cup Gives(n)
<1>1. 1..((n + 1) - 1) = (1..(n - 1)) \cup {n}
  OBVIOUS
<1>. QED  BY <1>1 DEF GivenBefore

\* At the end these are the ids of the reference.
LEMMA AllGiven ==
  ASSUME argv \in Commands
  PROVE  GivenBefore(Len(argv) + 1) = Reference
<1>0. Len(argv) \in Nat /\ DOMAIN argv = 1..Len(argv) /\ (Len(argv) + 1) - 1 = Len(argv)
  BY ArgvIs
<1>. DEFINE A == UNION {Named(argv[k].flag, argv[k].value) : k \in {n \in DOMAIN argv : WithValue(n)}}
            B == UNION {Ids(argv[k].value) : k \in {n \in DOMAIN argv : UnderName(n)}}
            C == UNION {Named(argv[k - 1].flag, argv[k].value) :
                          k \in {n \in DOMAIN argv : AfterModel(n)}}
<1>1. Reference = A \cup B \cup C
  <2>1. {n \in DOMAIN argv : AfterModel(n)}
          = {n \in DOMAIN argv \ {1} : argv[n - 1].flag \in {"-m", "--model"}
                                         /\ ~Joined(n - 1) /\ IsValue(n)}
    BY DEF AfterModel
  <2>2. \A n : UnderName(n) <=>
          \E f \in DOMAIN argv : argv[f].flag = "--served-model-name" /\ ~Joined(f)
                                   /\ (f < n /\ \A j \in (f + 1)..n : IsValue(j))
    BY DEF UnderName
  <2>. QED  BY <2>1, <2>2 DEF Reference, WithValue
<1>2. ASSUME NEW x PROVE x \in GivenBefore(Len(argv) + 1) <=> x \in A \cup B \cup C
  <2>1. x \in GivenBefore(Len(argv) + 1) <=> \E k \in DOMAIN argv : x \in Gives(k)
    BY <1>0 DEF GivenBefore
  <2>2. \A k : x \in Gives(k) <=>
          \/ WithValue(k) /\ x \in Named(argv[k].flag, argv[k].value)
          \/ UnderName(k) /\ x \in Ids(argv[k].value)
          \/ AfterModel(k) /\ x \in Named(argv[k - 1].flag, argv[k].value)
    BY DEF Gives
  <2>. QED  BY <2>1, <2>2
<1>. QED  BY <1>1, <1>2

\* The parts of the command do not move, so neither do the definitions about them.
LEMMA SameCommand ==
  ASSUME argv' = argv
  PROVE  /\ (ids = GivenBefore(i))' <=> ids' = GivenBefore(i')
         /\ (AfterModel(i))' <=> AfterModel(i')
         /\ (UnderName(i))' <=> UnderName(i')
         /\ (IsValue(i))' <=> IsValue(i')
         /\ More' <=> i' <= Len(argv)
<1>1. \A k : Gives(k)' = Gives(k)
  BY DEF Gives, UnderName, AfterModel, WithValue, Joined, IsValue
<1>2. /\ (AfterModel(i))' <=> AfterModel(i')
      /\ (UnderName(i))' <=> UnderName(i')
      /\ (IsValue(i))' <=> IsValue(i')
      /\ More' <=> i' <= Len(argv)
  BY DEF UnderName, AfterModel, Joined, IsValue, More
<1>3. (ids = GivenBefore(i))' <=> ids' = GivenBefore(i')
  BY <1>1 DEF GivenBefore
<1>. QED  BY <1>2, <1>3

\* A step past argument i: what it gives is added, and what stands at the next argument.
LEMMA OnePassed ==
  ASSUME ParserInv, More, argv' = argv, i' = i + 1, ids' = ids \cup Gives(i), within' \in BOOLEAN,
         argv[i].flag \in {"-m", "--model"} /\ ~Joined(i) => ~(i + 1 <= Len(argv) /\ IsValue(i + 1)),
         within' <=> \/ within
                     \/ argv[i].flag = "--served-model-name" /\ ~Joined(i),
         within => IsValue(i)
  PROVE  ParserInv'
<1>0. /\ Len(argv) \in Nat /\ i \in 1..Len(argv) /\ i + 1 \in Nat /\ (i + 1) - 1 = i
      /\ More' <=> i + 1 <= Len(argv)
  BY ArgvIs DEF ParserInv, More
<1>1. ids' = GivenBefore(i + 1)
  BY <1>0, OneMoreGiven DEF ParserInv
<1>2. i + 1 <= Len(argv) => ~AfterModel(i + 1)
  BY <1>0 DEF AfterModel
<1>3. UnderName(i + 1) <=>
        IsValue(i + 1) /\ (UnderName(i) \/ (argv[i].flag = "--served-model-name" /\ ~Joined(i)))
  BY <1>0, UnderNext DEF ParserInv
<1>4. (within <=> UnderName(i))
  BY DEF ParserInv
<1>5. /\ within' => (IsValue(i + 1) => UnderName(i + 1))
      /\ ~within' => ~UnderName(i + 1)
  BY <1>3, <1>4
<1>6. /\ (ids = GivenBefore(i))' /\ ((AfterModel(i))' <=> AfterModel(i + 1))
      /\ ((UnderName(i))' <=> UnderName(i + 1)) /\ ((IsValue(i))' <=> IsValue(i + 1))
  BY <1>1, SameCommand
<1>7. argv' \in Commands /\ i' \in 1..(Len(argv') + 1)
  BY <1>0 DEF ParserInv
<1>. QED  BY <1>0, <1>2, <1>5, <1>6, <1>7 DEF ParserInv

LEMMA ParserStep == ParserInv /\ [CommandNext]_commandVars => ParserInv'
<1>. SUFFICES ASSUME ParserInv, [CommandNext]_commandVars PROVE ParserInv'
  OBVIOUS
<1>0. /\ Len(argv) \in Nat /\ (More => i \in 1..Len(argv) /\ argv[i].flag \in Flags)
      /\ More /\ IsValue(i) /\ within => UnderName(i)
      /\ More => (~AfterModel(i) /\ (UnderName(i) => within /\ IsValue(i)))
  BY ArgvIs, OnlyValues DEF ParserInv, More
<1>1. CASE ServedName
  <2>1. CASE Joined(i)
    <3>1. Gives(i) = Ids(argv[i].value)
      BY <1>0, <1>1, <2>1 DEF ServedName, Gives, WithValue, Named
    <3>. QED  BY <1>1, <2>1, <3>1, OnePassed DEF ServedName, ParserInv
  <2>2. CASE ~Joined(i)
    <3>1. Gives(i) = {}
      BY <1>0, <1>1, <2>2 DEF ServedName, Gives, WithValue
    <3>. QED  BY <1>1, <2>2, <3>1, OnePassed DEF ServedName, ParserInv
  <2>. QED  BY <2>1, <2>2
<1>2. CASE NextName
  <2>1. CASE More /\ IsValue(i)
    <3>1. Gives(i) = Ids(argv[i].value)
      BY <1>0, <1>2, <2>1 DEF NextName, Gives, WithValue, IsValue
    <3>. QED  BY <1>2, <2>1, <3>1, OnePassed DEF NextName, ParserInv, IsValue
  <2>2. CASE ~(More /\ IsValue(i))
    <3>1. argv' = argv /\ i' = i /\ ids' = ids /\ within' = FALSE
      BY <1>2, <2>2 DEF NextName
    <3>2. More => ~UnderName(i)
      BY <1>0, <2>2
    <3>. QED  BY <3>1, <3>2, SameCommand DEF ParserInv, More
  <2>. QED  BY <2>1, <2>2
<1>3. CASE ModelFlag
  <2>0. More /\ ~within /\ within' = within /\ argv' = argv /\ argv[i].flag \in {"-m", "--model"}
        /\ argv[i].flag # "--served-model-name" /\ ~UnderName(i) /\ ~AfterModel(i)
    BY <1>0, <1>3 DEF ModelFlag
  <2>1. CASE Joined(i)
    <3>1. Gives(i) = Named(argv[i].flag, argv[i].value)
      BY <2>0, <2>1 DEF Gives, WithValue
    <3>. QED  BY <1>3, <2>0, <2>1, <3>1, OnePassed DEF ModelFlag, ParserInv
  <2>2. CASE ~Joined(i) /\ ~(i + 1 <= Len(argv) /\ IsValue(i + 1))
    <3>1. Gives(i) = {}
      BY <2>0, <2>2 DEF Gives, WithValue
    <3>. QED  BY <1>3, <2>0, <2>2, <3>1, OnePassed DEF ModelFlag, ParserInv
  <2>3. CASE ~Joined(i) /\ i + 1 <= Len(argv) /\ IsValue(i + 1)
    <3>0. /\ i \in Nat /\ i + 1 \in 1..Len(argv) /\ i \in 1..Len(argv) /\ (i + 1) - 1 = i
          /\ (i + 1) + 1 = i + 2 /\ (i + 2) - 1 = i + 1 /\ i + 1 >= 1 /\ i >= 1 /\ i + 1 \in Nat
          /\ i + 1 # 1
      BY <1>0, <2>0, <2>3
    <3>1. Gives(i) = {}
      BY <2>0, <2>3 DEF Gives, WithValue
    <3>2. ~UnderName(i + 1)
      BY <2>0, <3>0, UnderNext DEF ParserInv
    <3>3. argv[i + 1].flag = "no flag"
      BY <2>3 DEF IsValue
    <3>4. Gives(i + 1) = Named(argv[i].flag, argv[i + 1].value)
      BY <2>0, <2>3, <3>0, <3>2, <3>3 DEF Gives, WithValue, AfterModel
    <3>5. i' = i + 2 /\ ids' = ids \cup Named(argv[i].flag, argv[i + 1].value)
      BY <1>3, <2>3 DEF ModelFlag
    <3>6. ids' = GivenBefore(i + 2)
      <4>1. GivenBefore(i + 2) = GivenBefore(i + 1) \cup Gives(i + 1)
        BY <3>0, OneMoreGiven
      <4>2. GivenBefore(i + 1) = GivenBefore(i) \cup Gives(i)
        BY <3>0, OneMoreGiven
      <4>. QED  BY <3>1, <3>4, <3>5, <4>1, <4>2 DEF ParserInv
    <3>7. ~AfterModel(i + 2)
      BY <3>0, <3>3 DEF AfterModel
    <3>8. ~UnderName(i + 2)
      BY <3>0, <3>2, <3>3, UnderNext DEF ParserInv
    <3>9. i' \in 1..(Len(argv) + 1)
      BY <1>0, <3>0, <3>5
    <3>10. (ids = GivenBefore(i))' /\ ~(AfterModel(i))' /\ ~(UnderName(i))'
      BY <2>0, <3>5, <3>6, <3>7, <3>8, SameCommand
    <3>. QED  BY <2>0, <3>9, <3>10 DEF ParserInv
  <2>. QED  BY <2>1, <2>2, <2>3
<1>4. CASE OtherArgument
  <2>1. Gives(i) = {}
    BY <1>0, <1>4 DEF OtherArgument, Gives, WithValue
  <2>. QED  BY <1>4, <2>1, OnePassed DEF OtherArgument, ParserInv
<1>5. CASE UNCHANGED commandVars
  <2>1. argv' = argv /\ i' = i /\ ids' = ids /\ within' = within
    BY <1>5 DEF commandVars
  <2>. QED  BY <2>1, SameCommand DEF ParserInv, More, IsValue
<1>. QED  BY <1>1, <1>2, <1>3, <1>4, <1>5 DEF CommandNext

\* The loop of served_ids_from_start_cmd() finds the ids of the reference for every command of
\* every length, whatever follows whatever.
THEOREM EveryIdFound == CommandSpec => []ParserExact
<1>1. CommandInit => ParserInv
  <2>. SUFFICES ASSUME CommandInit PROVE ParserInv
    OBVIOUS
  <2>1. Len(argv) \in Nat /\ argv \in Commands /\ i = 1 /\ within = FALSE /\ ids = {}
    BY ArgvIs DEF CommandInit
  <2>2. GivenBefore(1) = {}
    BY DEF GivenBefore
  <2>3. ~AfterModel(1) /\ ~UnderName(1)
    <3>1. \A f \in DOMAIN argv : ~(f < 1)
      BY <2>1, ArgvIs
    <3>. QED  BY <3>1 DEF AfterModel, UnderName
  <2>4. i \in 1..(Len(argv) + 1)
    <3>1. \A n \in Nat : 1 \in 1..(n + 1)
      OBVIOUS
    <3>. QED  BY <2>1, <3>1
  <2>5. within \in BOOLEAN
    BY <2>1
  <2>. QED  BY <2>1, <2>2, <2>3, <2>4, <2>5 DEF ParserInv
<1>2. ParserInv => ParserExact
  <2>. SUFFICES ASSUME ParserInv, Parsed PROVE ids = Reference
    BY DEF ParserExact
  <2>1. i = Len(argv) + 1
    BY ArgvIs DEF ParserInv, Parsed, More
  <2>. QED  BY <2>1, AllGiven DEF ParserInv
<1>. QED  BY <1>1, <1>2, ParserStep, PTL DEF CommandSpec

----------------------------------------------------------------------------
(* BenchmarkStore *)

Ages == 0..MaxAge

\* Entries are as old as their time stamps say, hold what the dependable providers gave,
\* and were fetched after the model was last cleared or refreshed and saved.
StoreOK(store, since) ==
  /\ DOMAIN store \subseteq Canonicals
  /\ \A id \in DOMAIN store :
       /\ store[id].from \subseteq Providers /\ Dependable \subseteq store[id].from
       /\ store[id].age \in Ages /\ store[id].stamp = store[id].age
       /\ store[id].age <= since[id]

AnswerOK ==
  looked # <<>> =>
    LET answer == looked[1] IN
    /\ lifetime > 0 => answer.age <= lifetime
    /\ answer.age <= settled[answer.of]
    /\ answer.from \subseteq Providers /\ Dependable \subseteq answer.from

BenchInv ==
  /\ lifetime \in Lifetimes /\ settled \in [Canonicals -> Ages]
  /\ StoreOK(shelf, settled) /\ StoreOK(filed, settled)
  /\ AnswerOK

LEMMA AgesAre ==
  /\ MaxAge \in Nat /\ 0 \in Ages /\ Lifetimes \subseteq Nat
  /\ \A n \in Ages : Aged(n) \in Ages
  /\ \A n, k \in Ages : n <= k => Aged(n) <= Aged(k)
BY BenchmarkAssumption DEF Aged, Ages

LEMMA CanonicalIs == \A m \in Spellings : Canonical[m] \in Canonicals
BY BenchmarkAssumption DEF Canonicals, Range

\* What is fetched fits, whoever raised.
LEMMA FetchedFits ==
  ASSUME NEW raising \in SUBSET (Providers \ Dependable), NEW e, e = Fetched(Providers \ raising)
  PROVE  /\ e.from \subseteq Providers /\ Dependable \subseteq e.from
         /\ e.age = 0 /\ e.stamp = 0
BY BenchmarkAssumption DEF Fetched

LEMMA WithHas ==
  ASSUME NEW store, NEW batch, NEW e, NEW id \in batch
  PROVE  With(store, batch, e)[id] = e
BY DEF With

LEMMA WithFits ==
  ASSUME NEW store, NEW since \in [Canonicals -> Ages], StoreOK(store, since),
         NEW batch \in SUBSET Canonicals, NEW raising \in SUBSET (Providers \ Dependable),
         NEW e, e = Fetched(Providers \ raising), NEW later, later = With(store, batch, e)
  PROVE  StoreOK(later, since)
<1>1. /\ DOMAIN later = DOMAIN store \cup batch
      /\ \A id \in DOMAIN later : later[id] = IF id \in batch THEN e ELSE store[id]
  BY DEF With
<1>2. 0 \in Ages /\ \A id \in Canonicals : 0 <= since[id]
  BY AgesAre DEF Ages
<1>3. e.from \subseteq Providers /\ Dependable \subseteq e.from /\ e.age = 0 /\ e.stamp = 0
  BY FetchedFits
<1>4. DOMAIN later \subseteq Canonicals
  BY <1>1 DEF StoreOK
<1>5. ASSUME NEW id \in DOMAIN later
      PROVE  /\ later[id].from \subseteq Providers /\ Dependable \subseteq later[id].from
             /\ later[id].age \in Ages /\ later[id].stamp = later[id].age
             /\ later[id].age <= since[id]
  <2>1. CASE id \in batch
    <3>1. later[id] = e /\ id \in Canonicals
      BY <1>1, <1>5, <2>1
    <3>. QED  BY <1>2, <1>3, <3>1
  <2>2. CASE id \notin batch
    <3>1. later[id] = store[id] /\ id \in DOMAIN store
      BY <1>1, <1>5, <2>2
    <3>. QED  BY <3>1 DEF StoreOK
  <2>. QED  BY <2>1, <2>2
<1>. QED  BY <1>1, <1>4, <1>5 DEF StoreOK

LEMMA WithoutFits ==
  ASSUME NEW store, NEW since, StoreOK(store, since), NEW batch,
         NEW later, later = Without(store, batch)
  PROVE  StoreOK(later, since) /\ \A id \in batch : id \notin DOMAIN later
<1>1. /\ DOMAIN later = DOMAIN store \ batch
      /\ \A id \in DOMAIN later : later[id] = store[id]
  BY DEF Without
<1>. QED  BY <1>1 DEF StoreOK

\* A write that succeeds settles what was cleared or fetched just now.
LEMMA PersistedFits ==
  ASSUME BenchInv, StoreOK(shelf', settled), NEW batch, Persisted(batch),
         \A id \in batch : id \in DOMAIN shelf' => shelf'[id].age = 0
  PROVE  settled' \in [Canonicals -> Ages] /\ StoreOK(shelf', settled') /\ StoreOK(filed', settled')
<1>1. CASE UNCHANGED <<filed, settled>>
  BY <1>1 DEF BenchInv
<1>2. CASE /\ filed' = shelf'
           /\ settled' = [id \in Canonicals |-> IF id \in batch THEN 0 ELSE settled[id]]
  <2>1. settled' \in [Canonicals -> Ages]
    BY <1>2, AgesAre DEF BenchInv
  <2>2. ASSUME NEW id \in DOMAIN shelf' PROVE shelf'[id].age <= settled'[id]
    <3>1. id \in Canonicals /\ shelf'[id].age <= settled[id]
      BY <2>2 DEF StoreOK
    <3>2. CASE id \in batch
      BY <1>2, <3>1, <3>2
    <3>3. CASE id \notin batch
      BY <1>2, <3>1, <3>3
    <3>. QED  BY <3>2, <3>3
  <2>3. StoreOK(shelf', settled')
    BY <2>2 DEF StoreOK
  <2>. QED  BY <1>2, <2>1, <2>3
<1>. QED  BY <1>1, <1>2 DEF Persisted

LEMMA OlderFits ==
  ASSUME NEW store, NEW since \in [Canonicals -> Ages], StoreOK(store, since),
         NEW later, later = Older(store),
         NEW since2, since2 = [id \in Canonicals |-> Aged(since[id])]
  PROVE  StoreOK(later, since2)
<1>1. DOMAIN later = DOMAIN store
  BY DEF Older
<1>2. ASSUME NEW id \in DOMAIN store
      PROVE  /\ later[id].from = store[id].from
             /\ later[id].stamp = Aged(store[id].stamp) /\ later[id].age = Aged(store[id].age)
  BY DEF Older
<1>. QED  BY <1>1, <1>2, AgesAre DEF StoreOK

LEMMA ReadBackFits ==
  ASSUME StoreOK(filed, settled)
  PROVE  StoreOK(ReadBack, settled)
BY DEF StoreOK, ReadBack

----------------------------------------------------------------------------
\* Of any records one is the surest.
LEMMA SurestIs ==
  ASSUME NEW from \in SUBSET Providers, from # {}
  PROVE  Surest(from) \in from /\ \A q \in from : Confidence[Surest(from)] >= Confidence[q]
<1>. DEFINE Seat(p) == CHOOSE n \in DOMAIN Registered : Registered[n] = p
            Above(p) == {q \in from : \/ Confidence[q] > Confidence[p]
                                      \/ Confidence[q] = Confidence[p] /\ Seat(q) < Seat(p)}
            F == {Above(p) : p \in from}
<1>1. \A p \in Providers : Seat(p) \in Nat /\ Confidence[p] \in Nat
  <2>1. DOMAIN Registered \subseteq Nat /\ Confidence \in [Providers -> Nat]
    BY BenchmarkAssumption
  <2>2. \A p \in Providers : \E n \in DOMAIN Registered : Registered[n] = p
    BY DEF Providers, Range
  <2>. QED  BY <2>1, <2>2
<1>. HIDE DEF Seat
<1>2. IsFiniteSet(from)
  <2>1. Registered \in [1..Len(Registered) -> Providers] /\ Len(Registered) \in Nat
    BY BenchmarkAssumption
  <2>2. Registered \in Surjection(1..Len(Registered), Providers)
    BY <2>1 DEF Surjection, Providers, Range
  <2>3. IsFiniteSet(Providers)
    BY <2>1, <2>2, FS_Interval, FS_Surjection
  <2>. QED  BY <2>3, FS_Subset
<1>3. F \subseteq FiniteSubsetsOf(from) /\ F # {}
  <2>1. \A p \in from : Above(p) \in SUBSET from /\ IsFiniteSet(Above(p))
    BY <1>2, FS_Subset
  <2>. HIDE DEF Above
  <2>. QED  BY <2>1 DEF FiniteSubsetsOf
<1>4. PICK A \in F : \A B \in F : ~(B \subseteq A /\ B # A)
  <2>. HIDE DEF F
  <2>. QED  BY <1>3, MinimalSet
<1>5. PICK p \in from : A = Above(p)
  BY <1>4
<1>6. ASSUME NEW q \in from, q \in Above(p) PROVE FALSE
  <2>1. \A r \in from : Seat(r) \in Nat /\ Confidence[r] \in Nat
    BY <1>1
  <2>2. Above(q) \subseteq Above(p)
    <3>. SUFFICES ASSUME NEW r \in Above(q) PROVE r \in Above(p)
      OBVIOUS
    <3>. DEFINE x == Confidence[r]
                y == Confidence[q]
                z == Confidence[p]
                pos == Seat(r)
                j == Seat(q)
                k == Seat(p)
    <3>1. /\ x \in Nat /\ y \in Nat /\ z \in Nat /\ pos \in Nat /\ j \in Nat /\ k \in Nat
          /\ x > y \/ (x = y /\ pos < j)
          /\ y > z \/ (y = z /\ j < k)
      BY <1>6, <2>1
    <3>. HIDE DEF x, y, z, pos, j, k
    <3>2. x > z \/ (x = z /\ pos < k)
      BY <3>1
    <3>. QED  BY <3>2 DEF x, z, pos, k
  <2>3. q \notin Above(q)
    BY <2>1
  <2>. QED  BY <1>4, <1>5, <1>6, <2>2, <2>3
<1>7. \A q \in from : \/ Confidence[p] > Confidence[q]
                      \/ Confidence[p] = Confidence[q] /\ Seat(p) <= Seat(q)
  <2>. SUFFICES ASSUME NEW q \in from
                PROVE  \/ Confidence[p] > Confidence[q]
                       \/ Confidence[p] = Confidence[q] /\ Seat(p) <= Seat(q)
    OBVIOUS
  <2>. DEFINE x == Confidence[p]
              y == Confidence[q]
              pos == Seat(p)
              j == Seat(q)
  <2>1. x \in Nat /\ y \in Nat /\ pos \in Nat /\ j \in Nat /\ ~(y > x) /\ ~(y = x /\ j < pos)
    BY <1>1, <1>6
  <2>. HIDE DEF x, y, pos, j
  <2>2. x > y \/ (x = y /\ pos <= j)
    BY <2>1
  <2>. QED  BY <2>2 DEF x, y, pos, j
<1>8. \E s \in from : \A q \in from : \/ Confidence[s] > Confidence[q]
                                      \/ Confidence[s] = Confidence[q] /\ Seat(s) <= Seat(q)
  BY <1>7
<1>9. /\ Surest(from) \in from
      /\ \A q \in from : \/ Confidence[Surest(from)] > Confidence[q]
                         \/ Confidence[Surest(from)] = Confidence[q] /\ Seat(Surest(from)) <= Seat(q)
  BY <1>8 DEF Surest, Seat
<1>10. \A q \in from : Confidence[q] \in Nat
  BY <1>1
<1>. QED  BY <1>9, <1>10

----------------------------------------------------------------------------
LEMMA BenchKeeps == BenchInv /\ [BenchNext]_benchVars => BenchInv'
<1>. SUFFICES ASSUME BenchInv, [BenchNext]_benchVars PROVE BenchInv'
  OBVIOUS
<1>0. settled \in [Canonicals -> Ages] /\ StoreOK(shelf, settled) /\ StoreOK(filed, settled)
        /\ lifetime \in Lifetimes
  BY DEF BenchInv
<1>1. ASSUME NEW id \in Canonicals, LookUpCached(id) PROVE BenchInv'
  <2>1. looked' = <<[of |-> id, from |-> shelf[id].from, age |-> shelf[id].age]>>
          /\ UNCHANGED <<lifetime, shelf, filed, settled>> /\ id \in DOMAIN shelf /\ ~Expired(id)
    BY <1>1 DEF LookUpCached
  <2>2. shelf[id].from \subseteq Providers /\ Dependable \subseteq shelf[id].from
          /\ shelf[id].age \in Ages /\ shelf[id].stamp = shelf[id].age
          /\ shelf[id].age <= settled[id]
    BY <1>0, <2>1 DEF StoreOK
  <2>3. lifetime > 0 => shelf[id].age <= lifetime
    <3>1. shelf[id].age \in Nat /\ lifetime \in Nat
      BY <1>0, <2>2, AgesAre DEF Ages
    <3>. QED  BY <2>1, <2>2, <3>1 DEF Expired
  <2>4. AnswerOK'
    BY <2>1, <2>2, <2>3 DEF AnswerOK
  <2>. QED  BY <1>0, <2>1, <2>4 DEF BenchInv
<1>2. ASSUME NEW id \in Canonicals, NEW raising \in SUBSET (Providers \ Dependable),
             LookUpFetched(id, Providers \ raising)
      PROVE  BenchInv'
  <2>. DEFINE e == Fetched(Providers \ raising)
  <2>1. shelf' = With(shelf, {id}, e) /\ UNCHANGED <<lifetime, filed, settled>>
          /\ looked' = <<[of |-> id, from |-> shelf'[id].from, age |-> 0]>>
    BY <1>2 DEF LookUpFetched
  <2>2. e.from \subseteq Providers /\ Dependable \subseteq e.from
    BY FetchedFits
  <2>3. StoreOK(shelf', settled)
    BY <1>0, <2>1, WithFits
  <2>6. shelf'[id] = e
    BY <2>1, WithHas
  <2>4. settled[id] \in Nat /\ lifetime \in Nat
    BY <1>0, AgesAre DEF Ages
  <2>. HIDE DEF e
  <2>5. AnswerOK'
    BY <2>1, <2>2, <2>4, <2>6 DEF AnswerOK
  <2>. QED  BY <1>0, <2>1, <2>3, <2>5 DEF BenchInv
<1>3. ASSUME NEW batch \in SUBSET Canonicals, NEW raising \in SUBSET (Providers \ Dependable),
             Refetch(batch, Providers \ raising)
      PROVE  BenchInv'
  <2>1. shelf' = With(shelf, batch, Fetched(Providers \ raising)) /\ Persisted(batch)
          /\ looked' = <<>> /\ UNCHANGED lifetime
    BY <1>3 DEF Refetch
  <2>2. Fetched(Providers \ raising).age = 0
    BY FetchedFits
  <2>3. StoreOK(shelf', settled)
    BY <1>0, <2>1, WithFits
  <2>5. \A id \in batch : shelf'[id].age = 0
    BY <2>1, <2>2, WithHas
  <2>4. settled' \in [Canonicals -> Ages] /\ StoreOK(shelf', settled') /\ StoreOK(filed', settled')
    BY <2>1, <2>3, <2>5, PersistedFits
  <2>. QED  BY <1>0, <2>1, <2>4 DEF BenchInv, AnswerOK
<1>4. ASSUME NEW batch, Clear(batch) PROVE BenchInv'
  <2>1. shelf' = Without(shelf, batch) /\ Persisted(batch) /\ looked' = <<>> /\ UNCHANGED lifetime
    BY <1>4 DEF Clear
  <2>2. StoreOK(shelf', settled) /\ \A id \in batch : id \notin DOMAIN shelf'
    BY <1>0, <2>1, WithoutFits
  <2>3. settled' \in [Canonicals -> Ages] /\ StoreOK(shelf', settled') /\ StoreOK(filed', settled')
    BY <2>1, <2>2, PersistedFits
  <2>. QED  BY <1>0, <2>1, <2>3 DEF BenchInv, AnswerOK
<1>5. CASE Save
  BY <1>0, <1>5 DEF Save, BenchInv, AnswerOK
<1>6. CASE BenchRestart
  BY <1>0, <1>6, ReadBackFits DEF BenchRestart, BenchInv, AnswerOK
<1>7. CASE ClockTicks
  <2>1. /\ shelf' = Older(shelf) /\ filed' = Older(filed) /\ looked' = <<>> /\ UNCHANGED lifetime
        /\ settled' = [id \in Canonicals |-> Aged(settled[id])]
    BY <1>7 DEF ClockTicks
  <2>2. StoreOK(shelf', settled') /\ StoreOK(filed', settled')
    BY <1>0, <2>1, OlderFits
  <2>3. settled' \in [Canonicals -> Ages]
    BY <1>0, <2>1, AgesAre
  <2>. QED  BY <1>0, <2>1, <2>2, <2>3 DEF BenchInv, AnswerOK
<1>8. CASE UNCHANGED benchVars
  BY <1>8 DEF benchVars, BenchInv, AnswerOK
<1>9. ASSUME NEW candidates \in SUBSET Spellings, NEW raising \in SUBSET (Providers \ Dependable),
             RefetchAll(candidates, Providers \ raising)
      PROVE  BenchInv'
  <2>1. DOMAIN shelf \cup {Canonical[m] : m \in candidates} \subseteq Canonicals
    BY <1>0, CanonicalIs DEF StoreOK
  <2>. QED  BY <1>3, <1>9, <2>1 DEF RefetchAll
<1>. QED
  BY <1>1, <1>2, <1>3, <1>4, <1>5, <1>6, <1>7, <1>8, <1>9, CanonicalIs DEF BenchNext

\* What the picker is given was fetched within cache_ttl_s, not before the model was last
\* cleared or refreshed, and is at least as sure as the built-in table.
THEOREM BenchmarksFresh == BenchSpec => []BenchmarksAreCurrent
<1>1. BenchInit => BenchInv
  <2>. SUFFICES ASSUME BenchInit PROVE BenchInv
    OBVIOUS
  <2>1. DOMAIN shelf = {} /\ DOMAIN filed = {} /\ looked = <<>> /\ lifetime \in Lifetimes
          /\ settled = [id \in Canonicals |-> MaxAge]
    BY DEF BenchInit
  <2>2. MaxAge \in Ages
    BY AgesAre DEF Ages
  <2>. QED  BY <2>1, <2>2 DEF BenchInv, StoreOK, AnswerOK
<1>2. BenchInv => BenchmarksAreCurrent
  <2>. SUFFICES ASSUME BenchInv, looked # <<>>
                PROVE  /\ lifetime > 0 => looked[1].age <= lifetime
                       /\ looked[1].age <= settled[looked[1].of]
                       /\ \A p \in Dependable :
                            /\ looked[1].from # {}
                            /\ Confidence[Surest(looked[1].from)] >= Confidence[p]
    BY DEF BenchmarksAreCurrent
  <2>1. looked[1].from \in SUBSET Providers /\ Dependable \subseteq looked[1].from
    BY DEF BenchInv, AnswerOK
  <2>2. \A p \in Dependable : /\ looked[1].from # {}
                              /\ Confidence[Surest(looked[1].from)] >= Confidence[p]
    BY <2>1, SurestIs
  <2>. QED  BY <2>2 DEF BenchInv, AnswerOK
<1>. QED  BY <1>1, <1>2, BenchKeeps, PTL DEF BenchSpec

----------------------------------------------------------------------------
(* SwapRecords *)

\* The swaps that ended since the router was started, those of each bucket, those that a
\* bound holds, and those of a label.
Recent == (life + 1)..Len(log)
Held(n, took) == took <= Bounds[n] /\ (n > 1 => took > Bounds[n - 1])
InBucket(n) == {k \in Recent : Held(n, log[k].took)}
Quicker(n) == {k \in Recent : log[k].took <= Bounds[n]}
Labels(s) == <<s.from, s.to, s.ok>>
Labelled(l) == {k \in Recent : Labels(log[k]) = l}

Markers == SwapEngines \cup {Nowhere}
Ends == [from : Markers, to : SwapEngines, took : Nat, ok : BOOLEAN]

RecordTypes ==
  /\ marker \in Markers /\ gauge \in [of : Markers, since : Nat] /\ held \in Nat
  /\ begun \in Nat /\ timed \in Nat
  /\ \/ swap = <<>>
     \/ \E s \in [from : Markers, to : SwapEngines, took : Nat, stopping : BOOLEAN] : swap = <<s>>
  /\ log \in Seq(Ends) /\ life \in 0..Len(log)

\* Every swap that ended is in the counts of its bucket and of its label.
CountsInv ==
  /\ timed = Len(log) - life
  /\ begun = timed + Len(swap)
  /\ tallies \in [DOMAIN Bounds -> Nat]
  /\ \A n \in DOMAIN Bounds : tallies[n] = Cardinality(InBucket(n))
  /\ DOMAIN totals \subseteq AllLabels
  /\ \A k \in Recent : Labels(log[k]) \in DOMAIN totals
  /\ \A l \in DOMAIN totals : totals[l] = Cardinality(Labelled(l))

\* A swap past its stops has no engine in place, so the uptime starts when it succeeds.
GaugeInv ==
  /\ gauge.of = marker
  /\ marker # Nowhere => gauge.since = held
  /\ swap # <<>> => (~swap[1].stopping => marker = Nowhere)

Met(l, K, e) == {l[n].took : n \in {k \in K : l[k].to = e /\ l[k].ok}}

\* Estimates that have been told of the swaps K of a log have one for each engine that one
\* of these succeeded in reaching, between two that did.
Between(of, l, K) ==
  /\ K \subseteq DOMAIN l
  /\ \A e : e \in DOMAIN of <=> Met(l, K, e) # {}
  /\ \A e \in DOMAIN of : /\ of[e] \in Nat
                          /\ \E d \in Met(l, K, e) : 10 * d <= of[e]
                          /\ \E d \in Met(l, K, e) : of[e] <= 10 * d

\* What is in memory and what is on disk both lie between swaps that succeeded.
EstimatesInv == Between(estimate, log, learnt) /\ Between(kept, log, safe)

LEMMA BucketsOrdered ==
  /\ Len(Bounds) \in Nat /\ DOMAIN Bounds = 1..Len(Bounds)
  /\ \A n \in DOMAIN Bounds : Bounds[n] \in Nat
  /\ \A n \in 2..Len(Bounds) : Bounds[n - 1] < Bounds[n]
BY SwapRecordsAssumption

LEMMA RecordTypesStep == RecordTypes /\ [RecordsNext]_recordVars => RecordTypes'
<1>. SUFFICES ASSUME RecordTypes, [RecordsNext]_recordVars PROVE RecordTypes'
  OBVIOUS
<1>0. Len(log) \in Nat /\ \A k \in Nat : OneMore(k) \in Nat
  BY DEF RecordTypes, OneMore
<1>1. ASSUME NEW e \in SwapEngines, BeginSwap(e) PROVE RecordTypes'
  <2>. DEFINE s == [from |-> marker, to |-> e, took |-> 0, stopping |-> TRUE]
  <2>1. s \in [from : Markers, to : SwapEngines, took : Nat, stopping : BOOLEAN] /\ swap' = <<s>>
    BY <1>1 DEF BeginSwap, RecordTypes
  <2>2. begun' \in Nat
    BY <1>1 DEF BeginSwap, RecordTypes
  <2>. HIDE DEF s
  <2>3. UNCHANGED <<marker, timed, gauge, log, life, held>>
    BY <1>1 DEF BeginSwap
  <2>. QED  BY <2>1, <2>2, <2>3 DEF RecordTypes
<1>2. CASE StopOthers
  <2>1. PICK s \in [from : Markers, to : SwapEngines, took : Nat, stopping : BOOLEAN] :
          swap = <<s>>
    BY <1>2 DEF RecordTypes, StopOthers
  <2>2. /\ swap' = <<[s EXCEPT !.stopping = FALSE]>>
        /\ [s EXCEPT !.stopping = FALSE] \in
             [from : Markers, to : SwapEngines, took : Nat, stopping : BOOLEAN]
    BY <1>2, <2>1 DEF StopOthers
  <2>3. marker' \in Markers /\ gauge' \in [of : Markers, since : Nat]
    BY <1>2 DEF StopOthers, SetActive, RecordTypes, Markers
  <2>4. UNCHANGED <<timed, begun, log, life, held>>
    BY <1>2 DEF StopOthers, counters
  <2>. QED  BY <2>2, <2>3, <2>4 DEF RecordTypes
<1>3. ASSUME NEW ok \in BOOLEAN, swap # <<>>, EndSwap(ok), life' = life,
             NEW e \in Markers, SetActive(e), held' \in Nat
      PROVE  RecordTypes'
  <2>1. PICK s \in [from : Markers, to : SwapEngines, took : Nat, stopping : BOOLEAN] :
          swap = <<s>>
    BY <1>3 DEF RecordTypes
  <2>2. /\ log' \in Seq(Ends) /\ Len(log') = Len(log) + 1
    <3>. DEFINE r == [from |-> s.from, to |-> s.to, took |-> s.took, ok |-> ok]
    <3>1. r \in Ends
      BY DEF Ends
    <3>2. log' = Append(log, r)
      BY <1>3, <2>1 DEF EndSwap
    <3>. HIDE DEF r
    <3>. QED  BY <3>1, <3>2 DEF RecordTypes
  <2>3. life' \in 0..Len(log')
    BY <1>0, <1>3, <2>2 DEF RecordTypes
  <2>4. marker' \in Markers /\ gauge' \in [of : Markers, since : Nat]
    BY <1>3 DEF SetActive, RecordTypes
  <2>5. begun' \in Nat /\ timed' \in Nat /\ swap' = <<>>
    BY <1>3 DEF EndSwap, Observe, RecordTypes
  <2>. QED  BY <1>3, <2>2, <2>3, <2>4, <2>5 DEF RecordTypes
<1>4. CASE Succeeds
  <2>1. swap[1].to \in SwapEngines
    BY <1>4 DEF Succeeds, RecordTypes
  <2>. QED  BY <1>3, <1>4, <2>1 DEF Succeeds, Markers
<1>5. CASE Fails
  BY <1>3, <1>5 DEF Fails, Markers, RecordTypes
<1>6. CASE SecondsPass
  <2>1. \/ swap' = <<>>
        \/ \E s \in [from : Markers, to : SwapEngines, took : Nat, stopping : BOOLEAN] : swap' = <<s>>
    <3>1. CASE swap = <<>>
      BY <1>6, <3>1 DEF SecondsPass
    <3>2. ASSUME NEW s \in [from : Markers, to : SwapEngines, took : Nat, stopping : BOOLEAN],
                 swap = <<s>>
          PROVE  swap' = <<[s EXCEPT !.took = OneMore(@)]>>
                   /\ [s EXCEPT !.took = OneMore(@)] \in
                        [from : Markers, to : SwapEngines, took : Nat, stopping : BOOLEAN]
      BY <1>0, <1>6, <3>2 DEF SecondsPass
    <3>. QED  BY <3>1, <3>2 DEF RecordTypes
  <2>. QED  BY <1>0, <1>6, <2>1 DEF SecondsPass, RecordTypes, counters
<1>7. CASE RecordsSaved
  BY <1>7 DEF RecordsSaved, counters, RecordTypes
<1>8. CASE RecordsRestart
  BY <1>0, <1>8 DEF RecordsRestart, RecordTypes, Markers
<1>9. CASE UNCHANGED recordVars
  BY <1>9 DEF recordVars, RecordTypes
<1>. QED  BY <1>1, <1>2, <1>4, <1>5, <1>6, <1>7, <1>8, <1>9 DEF RecordsNext

LEMMA Finite ==
  ASSUME RecordTypes
  PROVE  /\ IsFiniteSet(Recent)
         /\ \A S \in SUBSET Recent : IsFiniteSet(S) /\ Cardinality(S) \in Nat
<1>1. life + 1 \in Int /\ Len(log) \in Int
  BY DEF RecordTypes
<1>2. IsFiniteSet(Recent)
  BY <1>1, FS_Interval DEF Recent
<1>. QED  BY <1>2, FS_Subset, FS_CardinalityType

\* What a swap that ends adds to a count.
LEMMA OneMoreEnds ==
  ASSUME RecordTypes, NEW S \in SUBSET Recent
  PROVE  Cardinality(S \cup {Len(log) + 1}) = Cardinality(S) + 1
<1>1. Len(log) + 1 \notin S
  BY DEF Recent, RecordTypes
<1>. QED  BY <1>1, Finite, FS_AddElement

\* A label that is in no total has no swap.
LEMMA TotalsAre ==
  ASSUME CountsInv, NEW l
  PROVE  TotalOf(l) = Cardinality(Labelled(l))
<1>1. CASE l \in DOMAIN totals
  BY <1>1 DEF CountsInv, TotalOf
<1>2. CASE l \notin DOMAIN totals
  <2>1. Labelled(l) = {}
    BY <1>2 DEF CountsInv, Labelled
  <2>. QED  BY <1>2, <2>1, FS_EmptySet DEF TotalOf
<1>. QED  BY <1>1, <1>2

LEMMA CountsStep ==
  RecordTypes /\ CountsInv /\ [RecordsNext]_recordVars => CountsInv'
<1>. SUFFICES ASSUME RecordTypes, CountsInv, [RecordsNext]_recordVars PROVE CountsInv'
  OBVIOUS
<1>0. Len(log) \in Nat /\ life \in Nat /\ life <= Len(log) /\ timed \in Nat /\ begun \in Nat
  BY DEF RecordTypes
<1>1. ASSUME log' = log, life' = life, tallies' = tallies, totals' = totals, timed' = timed,
             begun' = timed + Len(swap')
      PROVE  CountsInv'
  BY <1>1 DEF CountsInv, InBucket, Labelled, Recent
<1>2. ASSUME NEW e \in SwapEngines, BeginSwap(e) PROVE CountsInv'
  BY <1>0, <1>1, <1>2 DEF BeginSwap, CountsInv
<1>3. CASE StopOthers
  <2>1. Len(swap') = 1 /\ Len(swap) = 1
    BY <1>3 DEF StopOthers, RecordTypes
  <2>. QED  BY <1>1, <1>3, <2>1 DEF StopOthers, counters, CountsInv
<1>4. ASSUME NEW ok \in BOOLEAN, swap # <<>>, EndSwap(ok), life' = life
      PROVE  CountsInv'
  <2>. DEFINE s == swap[1]
              r == [from |-> s.from, to |-> s.to, took |-> s.took, ok |-> ok]
              last == Len(log) + 1
  <2>1. s.took \in Nat /\ Len(swap) = 1 /\ r \in Ends /\ Labels(r) = <<s.from, s.to, ok>>
        /\ r.took = s.took
    <3>1. PICK q \in [from : Markers, to : SwapEngines, took : Nat, stopping : BOOLEAN] :
            swap = <<q>>
      BY <1>4 DEF RecordTypes
    <3>. QED  BY <3>1 DEF Ends, Labels
  <2>2. /\ log' = Append(log, r) /\ swap' = <<>> /\ begun' = begun /\ timed' = timed + 1
        /\ Inc(Labels(r))
        /\ tallies' = [n \in DOMAIN Bounds |-> IF Held(n, r.took) THEN tallies[n] + 1
                                                                 ELSE tallies[n]]
    BY <1>4, <2>1 DEF EndSwap, Observe, Held
  <2>. HIDE DEF r, s
  <2>3. /\ Len(log') = last /\ log'[last] = r /\ \A k \in 1..Len(log) : log'[k] = log[k]
        /\ \A k \in Recent : log'[k] = log[k]
    BY <2>1, <2>2, <1>0 DEF RecordTypes, Recent
  <2>. HIDE DEF last
  <2>4. Recent' = Recent \cup {last}
    BY <1>0, <1>4, <2>3 DEF Recent, last
  <2>5. timed' = Len(log') - life' /\ begun' = timed' + Len(swap')
    <3>1. Len(swap') = 0 /\ timed = Len(log) - life /\ begun = timed + 1
      BY <2>1, <2>2 DEF CountsInv
    <3>. QED  BY <1>0, <1>4, <2>2, <2>3, <3>1 DEF last
  <2>6. ASSUME NEW n \in DOMAIN Bounds PROVE tallies'[n] \in Nat /\ tallies'[n] = Cardinality(InBucket(n)')
    <3>0. tallies[n] = Cardinality(InBucket(n)) /\ InBucket(n) \in SUBSET Recent /\ tallies[n] \in Nat
      BY DEF CountsInv, InBucket
    <3>1. CASE Held(n, r.took)
      <4>1. InBucket(n)' = InBucket(n) \cup {last}
        BY <2>3, <2>4, <3>1 DEF InBucket, Held
      <4>2. Cardinality(InBucket(n) \cup {last}) = Cardinality(InBucket(n)) + 1
        BY <3>0, OneMoreEnds DEF last
      <4>. QED  BY <2>2, <3>0, <3>1, <4>1, <4>2
    <3>2. CASE ~Held(n, r.took)
      <4>1. InBucket(n)' = InBucket(n)
        BY <2>3, <2>4, <3>2 DEF InBucket, Held
      <4>. QED  BY <2>2, <3>0, <3>2, <4>1
    <3>. QED  BY <3>1, <3>2
  <2>7. tallies' \in [DOMAIN Bounds -> Nat]
    BY <2>2, <2>6
  <2>8. DOMAIN totals' = DOMAIN totals \cup {Labels(r)}
    BY <2>2 DEF Inc
  <2>9. ASSUME NEW k \in Recent' PROVE Labels(log'[k]) \in DOMAIN totals'
    BY <2>3, <2>4, <2>8 DEF CountsInv
  <2>11. DOMAIN totals' \subseteq AllLabels
    BY <2>1, <2>8 DEF CountsInv, AllLabels, Labels, Ends, Markers
  <2>10. ASSUME NEW l \in DOMAIN totals' PROVE totals'[l] = Cardinality(Labelled(l)')
    <3>0. Labelled(l) \in SUBSET Recent
      BY DEF Labelled
    <3>1. TotalOf(l) = Cardinality(Labelled(l))
      BY TotalsAre
    <3>2. totals'[l] = Cardinality(Labelled(l)) + (IF l = Labels(r) THEN 1 ELSE 0)
      BY <2>2, <2>8, <3>1 DEF Inc
    <3>3. CASE l = Labels(r)
      <4>1. Labelled(l)' = Labelled(l) \cup {last}
        BY <2>3, <2>4, <3>3 DEF Labelled, Labels
      <4>2. Cardinality(Labelled(l) \cup {last}) = Cardinality(Labelled(l)) + 1
        BY <3>0, OneMoreEnds DEF last
      <4>. QED  BY <3>2, <3>3, <4>1, <4>2
    <3>4. CASE l # Labels(r)
      <4>1. Labelled(l)' = Labelled(l)
        BY <2>3, <2>4, <3>4 DEF Labelled, Labels
      <4>. QED  BY <3>0, <3>2, <3>4, <4>1, Finite
    <3>. QED  BY <3>3, <3>4
  <2>. QED  BY <2>5, <2>6, <2>7, <2>9, <2>10, <2>11 DEF CountsInv
<1>5. CASE Succeeds
  BY <1>4, <1>5 DEF Succeeds
<1>6. CASE Fails
  BY <1>4, <1>6 DEF Fails
<1>10. CASE RecordsSaved
  BY <1>1, <1>10 DEF RecordsSaved, counters, CountsInv
<1>7. CASE SecondsPass
  <2>1. Len(swap') = Len(swap)
    BY <1>7 DEF SecondsPass, RecordTypes
  <2>. QED  BY <1>1, <1>7, <2>1 DEF SecondsPass, counters, CountsInv
<1>8. CASE RecordsRestart
  <2>1. Recent' = {}
    BY <1>0, <1>8 DEF RecordsRestart, Recent
  <2>2. timed' = Len(log') - life' /\ begun' = timed' + Len(swap')
    BY <1>0, <1>8 DEF RecordsRestart
  <2>3. tallies' \in [DOMAIN Bounds -> Nat] /\ \A n \in DOMAIN Bounds : tallies'[n] = 0
    BY <1>8 DEF RecordsRestart, Zero
  <2>4. \A n : InBucket(n)' = {}
    BY <2>1 DEF InBucket
  <2>5. DOMAIN totals' = {}
    BY <1>8 DEF RecordsRestart
  <2>. QED  BY <2>1, <2>2, <2>3, <2>4, <2>5, FS_EmptySet DEF CountsInv
<1>9. CASE UNCHANGED recordVars
  BY <1>1, <1>9 DEF recordVars, CountsInv
<1>. QED  BY <1>2, <1>3, <1>5, <1>6, <1>7, <1>8, <1>9, <1>10 DEF RecordsNext

LEMMA GaugeStep ==
  RecordTypes /\ GaugeInv /\ [RecordsNext]_recordVars => GaugeInv'
<1>. SUFFICES ASSUME RecordTypes, GaugeInv, [RecordsNext]_recordVars PROVE GaugeInv'
  OBVIOUS
<1>0. Nowhere \notin SwapEngines
  BY SwapRecordsAssumption
<1>1. ASSUME NEW e \in SwapEngines, BeginSwap(e) PROVE GaugeInv'
  BY <1>1 DEF BeginSwap, GaugeInv
<1>2. CASE StopOthers
  BY <1>2 DEF StopOthers, SetActive, GaugeInv
<1>3. CASE Succeeds
  <2>1. swap[1].to \in SwapEngines
    BY <1>3 DEF Succeeds, RecordTypes
  <2>2. swap[1].to # gauge.of
    BY <1>0, <1>3, <2>1 DEF Succeeds, GaugeInv
  <2>. QED  BY <1>3, <2>2 DEF Succeeds, SetActive, EndSwap, GaugeInv
<1>4. CASE Fails
  BY <1>4 DEF Fails, SetActive, EndSwap, GaugeInv
<1>5. CASE SecondsPass
  <2>1. swap' # <<>> => swap # <<>> /\ swap'[1].stopping = swap[1].stopping
    <3>1. CASE swap = <<>>
      BY <1>5, <3>1 DEF SecondsPass
    <3>2. ASSUME NEW s \in [from : Markers, to : SwapEngines, took : Nat, stopping : BOOLEAN],
                 swap = <<s>>
          PROVE  swap'[1].stopping = swap[1].stopping
      BY <1>5, <3>2 DEF SecondsPass
    <3>. QED  BY <3>1, <3>2 DEF RecordTypes
  <2>2. gauge'.of = gauge.of /\ gauge'.since = OneMore(gauge.since) /\ held' = OneMore(held)
        /\ marker' = marker
    BY <1>5 DEF SecondsPass, RecordTypes
  <2>. QED  BY <2>1, <2>2 DEF GaugeInv
<1>6. CASE RecordsSaved
  BY <1>6 DEF RecordsSaved, GaugeInv
<1>7. CASE RecordsRestart
  BY <1>7 DEF RecordsRestart, GaugeInv
<1>8. CASE UNCHANGED recordVars
  BY <1>8 DEF recordVars, GaugeInv
<1>. QED  BY <1>1, <1>2, <1>3, <1>4, <1>5, <1>6, <1>7, <1>8 DEF RecordsNext

\* A weighted mean lies between what it is of.
LEMMA MeanBetween ==
  ASSUME NEW a \in Nat, NEW b \in Nat
  PROVE  LET m == (6 * a + 4 * b) \div 10
         IN m \in Nat /\ (a <= b => a <= m /\ m <= b) /\ (b <= a => b <= m /\ m <= a)
OBVIOUS

\* One more swap in the log leaves the estimates that are not told of it as they are.
LEMMA BetweenKept ==
  ASSUME RecordTypes, NEW r \in Ends, log' = Append(log, r), NEW of, NEW K, Between(of, log, K)
  PROVE  Between(of, log', K)
<1>1. \A k \in DOMAIN log : k \in DOMAIN log' /\ log'[k] = log[k]
  BY DEF RecordTypes
<1>2. K \subseteq DOMAIN log
  BY DEF Between
<1>3. \A e : Met(log', K, e) = Met(log, K, e)
  BY <1>1, <1>2 DEF Met
<1>. QED  BY <1>1, <1>2, <1>3 DEF Between

LEMMA EstimatesStep ==
  RecordTypes /\ EstimatesInv /\ [RecordsNext]_recordVars => EstimatesInv'
<1>. SUFFICES ASSUME RecordTypes, EstimatesInv, [RecordsNext]_recordVars PROVE EstimatesInv'
  OBVIOUS
<1>1. ASSUME NEW ok \in BOOLEAN, swap # <<>>, EndSwap(ok) PROVE EstimatesInv'
  <2>1. PICK s \in [from : Markers, to : SwapEngines, took : Nat, stopping : BOOLEAN] :
          swap = <<s>>
    BY <1>1 DEF RecordTypes
  <2>. DEFINE r == [from |-> s.from, to |-> s.to, took |-> s.took, ok |-> ok]
              last == Len(log) + 1
  <2>2. r \in Ends /\ r.took = s.took /\ r.to = s.to /\ r.ok = ok /\ s.took \in Nat
    BY DEF Ends
  <2>3. /\ log' = Append(log, r) /\ NoteSwap(s.to, s.took, ok)
        /\ learnt' = learnt \cup {last} /\ WriteEstimates
    BY <1>1, <2>1 DEF EndSwap
  <2>. HIDE DEF r
  <2>4. /\ DOMAIN log' = DOMAIN log \cup {last} /\ log'[last] = r
        /\ last \notin DOMAIN log
        /\ \A k \in DOMAIN log : log'[k] = log[k]
    BY <2>2, <2>3 DEF RecordTypes
  <2>. HIDE DEF last
  <2>5. Between(estimate, log', learnt) /\ Between(kept, log', safe)
    BY <2>2, <2>3, BetweenKept DEF EstimatesInv
  <2>6. learnt' \subseteq DOMAIN log'
    BY <2>3, <2>4, <2>5 DEF Between
  <2>7. ASSUME NEW e
        PROVE  Met(log', learnt', e)
                 = Met(log', learnt, e) \cup (IF ok /\ e = s.to THEN {s.took} ELSE {})
    <3>. DEFINE Of(K) == {k \in K : log'[k].to = e /\ log'[k].ok}
    <3>1. log'[last].took = s.took
          /\ (log'[last].to = e /\ log'[last].ok <=> ok /\ e = s.to)
      BY <2>2, <2>4
    <3>2. Of(learnt') = Of(learnt) \cup (IF ok /\ e = s.to THEN {last} ELSE {})
      BY <2>3, <3>1
    <3>3. \A K : Met(log', K, e) = {log'[n].took : n \in Of(K)}
      BY DEF Met
    <3>. HIDE DEF Of
    <3>4. CASE ok /\ e = s.to
      <4>1. Of(learnt') = Of(learnt) \cup {last}
        BY <3>2, <3>4
      <4>. QED  BY <3>1, <3>3, <3>4, <4>1
    <3>5. CASE ~(ok /\ e = s.to)
      <4>1. Of(learnt') = Of(learnt)
        BY <3>2, <3>5
      <4>. QED  BY <3>3, <3>5, <4>1
    <3>. QED  BY <3>4, <3>5
  <2>8. Between(estimate', log', learnt')
    <3>1. CASE ~ok
      <4>1. estimate' = estimate /\ \A e : Met(log', learnt', e) = Met(log', learnt, e)
        BY <2>3, <2>7, <3>1 DEF NoteSwap
      <4>. QED  BY <2>5, <2>6, <4>1 DEF Between
    <3>2. CASE ok
      <4>1. s.took \in Met(log', learnt', s.to)
        BY <2>7, <3>2
      <4>2. /\ DOMAIN estimate' = DOMAIN estimate \cup {s.to}
            /\ \A e \in DOMAIN estimate : e # s.to => estimate'[e] = estimate[e]
            /\ s.to \notin DOMAIN estimate => estimate'[s.to] = 10 * s.took
            /\ s.to \in DOMAIN estimate =>
                 estimate'[s.to] = (6 * estimate[s.to] + 4 * (10 * s.took)) \div 10
        BY <2>3, <3>2 DEF NoteSwap, Folded
      <4>3. ASSUME NEW e \in DOMAIN estimate'
            PROVE  /\ estimate'[e] \in Nat
                   /\ \E d \in Met(log', learnt', e) : 10 * d <= estimate'[e]
                   /\ \E d \in Met(log', learnt', e) : estimate'[e] <= 10 * d
        <5>1. CASE e # s.to
          BY <2>5, <2>7, <4>2, <5>1 DEF Between
        <5>2. CASE e = s.to /\ e \notin DOMAIN estimate
          BY <2>2, <4>1, <4>2, <5>2
        <5>3. CASE e = s.to /\ e \in DOMAIN estimate
          <6>1. /\ estimate[e] \in Nat
                /\ \E d \in Met(log', learnt', e) : 10 * d <= estimate[e]
                /\ \E d \in Met(log', learnt', e) : estimate[e] <= 10 * d
            BY <2>5, <2>7, <5>3 DEF Between
          <6>. DEFINE a == estimate[e]
                      b == 10 * s.took
                      m == (6 * a + 4 * b) \div 10
          <6>2. b \in Nat /\ estimate'[e] = m
            BY <2>2, <4>2, <5>3
          <6>3. m \in Nat /\ (a <= b => a <= m /\ m <= b) /\ (b <= a => b <= m /\ m <= a)
            BY <6>1, <6>2, MeanBetween
          <6>. HIDE DEF m
          <6>4. PICK lo \in Met(log', learnt', e) : 10 * lo <= a
            BY <6>1
          <6>5. PICK hi \in Met(log', learnt', e) : a <= 10 * hi
            BY <6>1
          <6>6. lo \in Nat /\ hi \in Nat
            <7>1. log' \in Seq(Ends)
              BY <2>2, <2>3 DEF RecordTypes
            <7>2. \A k \in learnt' : log'[k] \in Ends
              BY <2>6, <7>1
            <7>. QED  BY <6>4, <6>5, <7>2 DEF Met, Ends
          <6>7. CASE a <= b
            BY <2>2, <4>1, <5>3, <6>1, <6>2, <6>3, <6>4, <6>5, <6>6, <6>7
          <6>8. CASE b <= a
            BY <2>2, <4>1, <5>3, <6>1, <6>2, <6>3, <6>4, <6>5, <6>6, <6>8
          <6>. QED  BY <6>1, <6>2, <6>7, <6>8
        <5>. QED  BY <4>2, <5>1, <5>2, <5>3
      <4>4. ASSUME NEW e PROVE e \in DOMAIN estimate' <=> Met(log', learnt', e) # {}
        BY <2>5, <2>7, <3>2, <4>2 DEF Between
      <4>. QED  BY <2>6, <4>3, <4>4 DEF Between
    <3>. QED  BY <3>1, <3>2
  <2>9. Between(kept', log', safe')
    BY <2>3, <2>5, <2>8 DEF WriteEstimates
  <2>. QED  BY <2>8, <2>9 DEF EstimatesInv
<1>2. ASSUME UNCHANGED <<log, estimate, kept, learnt, safe>> PROVE EstimatesInv'
  BY <1>2 DEF EstimatesInv
<1>3. ASSUME NEW e \in SwapEngines, BeginSwap(e) PROVE EstimatesInv'
  BY <1>2, <1>3 DEF BeginSwap
<1>4. CASE StopOthers
  BY <1>2, <1>4 DEF StopOthers
<1>5. CASE Succeeds
  BY <1>1, <1>5 DEF Succeeds
<1>6. CASE Fails
  BY <1>1, <1>6 DEF Fails
<1>7. CASE SecondsPass
  BY <1>2, <1>7 DEF SecondsPass
<1>8. CASE RecordsSaved
  BY <1>8 DEF RecordsSaved, EstimatesInv
<1>9. CASE RecordsRestart
  BY <1>9 DEF RecordsRestart, EstimatesInv
<1>10. CASE UNCHANGED recordVars
  BY <1>2, <1>10 DEF recordVars
<1>. QED  BY <1>3, <1>4, <1>5, <1>6, <1>7, <1>8, <1>9, <1>10 DEF RecordsNext

----------------------------------------------------------------------------
\* The counts of the buckets have their sums.
LEMMA RenderedIs ==
  /\ Rendered[0] = 0
  /\ \A n \in 1..Len(Bounds) : Rendered[n] = Rendered[n - 1] + tallies[n]
<1>. DEFINE N == Len(Bounds)
            F(f) == [n \in 0..N |-> IF n = 0 THEN 0 ELSE f[n - 1] + tallies[n]]
            Sums(g, m) == /\ DOMAIN g = 0..m /\ g[0] = 0
                          /\ \A k \in 1..m : g[k] = g[k - 1] + tallies[k]
            S == {m \in Nat : \E g : Sums(g, m)}
<1>0. N \in Nat
  BY BucketsOrdered
<1>. HIDE DEF N
<1>1. 0 \in S
  <2>1. Sums([k \in 0..0 |-> 0], 0)
    OBVIOUS
  <2>. QED  BY <2>1
<1>2. ASSUME NEW m \in Nat, m \in S PROVE m + 1 \in S
  <2>1. PICK g : Sums(g, m)
    BY <1>2
  <2>. DEFINE h == [k \in 0..(m + 1) |-> IF k = m + 1 THEN g[m] + tallies[m + 1] ELSE g[k]]
  <2>2. DOMAIN h = 0..(m + 1) /\ h[0] = 0 /\ h[m + 1] = g[m] + tallies[m + 1] /\ h[m] = g[m]
        /\ \A k \in 0..m : h[k] = g[k]
    BY <2>1
  <2>. HIDE DEF h
  <2>3. ASSUME NEW k \in 1..(m + 1) PROVE h[k] = h[k - 1] + tallies[k]
    <3>1. CASE k = m + 1
      BY <2>2, <3>1
    <3>2. CASE k # m + 1
      <4>1. k \in 1..m /\ k \in 0..m /\ k - 1 \in 0..m
        BY <3>2
      <4>. QED  BY <2>1, <2>2, <4>1
    <3>. QED  BY <3>1, <3>2
  <2>4. Sums(h, m + 1)
    BY <2>2, <2>3
  <2>. QED  BY <2>4
<1>. HIDE DEF S
<1>3. N \in S
  BY <1>0, <1>1, <1>2, EachNumber
<1>. USE DEF S
<1>4. \E f : f = F(f)
  <2>1. PICK g : Sums(g, N)
    BY <1>3
  <2>. DEFINE f == [n \in 0..N |-> g[n]]
  <2>2. \A n \in 0..N : f[n] = IF n = 0 THEN 0 ELSE f[n - 1] + tallies[n]
    <3>1. \A n \in 0..N : n # 0 => n \in 1..N /\ n - 1 \in 0..N
      BY <1>0
    <3>. QED  BY <1>0, <2>1, <3>1
  <2>3. f = F(f)
    BY <2>2
  <2>. QED  BY <2>3
<1>5. Rendered = CHOOSE f : f = F(f)
  BY DEF Rendered, N
<1>. HIDE DEF F
<1>6. Rendered = F(Rendered)
  BY <1>4, <1>5
<1>. USE DEF F
<1>7. 0 \in 0..N /\ \A n \in 1..N : n \in 0..N /\ n # 0
  BY <1>0
<1>8. \A n \in 0..N : Rendered[n] = IF n = 0 THEN 0 ELSE Rendered[n - 1] + tallies[n]
  BY <1>6
<1>. QED  BY <1>7, <1>8 DEF N

\* The sum of the buckets up to a bound counts the swaps that the bound holds.
LEMMA RenderedCounts ==
  ASSUME RecordTypes, CountsInv
  PROVE  \A n \in DOMAIN Bounds : Rendered[n] = Cardinality(Quicker(n))
<1>. DEFINE S == {n \in Nat : n \in DOMAIN Bounds => Rendered[n] = Cardinality(Quicker(n))}
<1>0. /\ Len(Bounds) \in Nat /\ DOMAIN Bounds = 1..Len(Bounds)
      /\ \A k \in Recent : log[k].took \in Nat
  <2>1. \A k \in Recent : k \in 1..Len(log)
    BY DEF Recent, RecordTypes
  <2>2. \A k \in 1..Len(log) : log[k] \in Ends
    BY DEF RecordTypes
  <2>. QED  BY <2>1, <2>2, BucketsOrdered DEF Ends
<1>1. 0 \in S
  BY <1>0
<1>2. ASSUME NEW n \in Nat, n \in S, n + 1 \in DOMAIN Bounds
      PROVE  Rendered[n + 1] = Cardinality(Quicker(n + 1))
  <2>0. Rendered[n + 1] = Rendered[n] + tallies[n + 1] /\ (n + 1) - 1 = n
        /\ tallies[n + 1] = Cardinality(InBucket(n + 1))
    BY <1>0, <1>2, RenderedIs DEF CountsInv
  <2>1. CASE n = 0
    <3>1. Quicker(1) = InBucket(1)
      BY DEF Quicker, InBucket, Held
    <3>2. Cardinality(InBucket(1)) \in Nat
      BY Finite DEF InBucket
    <3>. QED  BY <2>0, <2>1, <3>1, <3>2, RenderedIs
  <2>2. CASE n # 0
    <3>1. n \in DOMAIN Bounds /\ n + 1 > 1 /\ Bounds[n] < Bounds[n + 1]
          /\ Bounds[n] \in Nat /\ Bounds[n + 1] \in Nat
      <4>1. n \in DOMAIN Bounds /\ n + 1 > 1 /\ n + 1 \in 2..Len(Bounds)
        BY <1>0, <1>2, <2>2
      <4>. QED  BY <1>2, <2>0, <4>1, BucketsOrdered
    <3>2. Rendered[n] = Cardinality(Quicker(n))
      BY <1>2, <3>1
    <3>3. /\ Quicker(n + 1) = Quicker(n) \cup InBucket(n + 1)
          /\ Quicker(n) \cap InBucket(n + 1) = {}
      BY <1>0, <2>0, <3>1 DEF Quicker, InBucket, Held
    <3>4. IsFiniteSet(Quicker(n)) /\ IsFiniteSet(InBucket(n + 1))
          /\ Cardinality(Quicker(n)) \in Nat /\ Cardinality(InBucket(n + 1)) \in Nat
      BY Finite DEF Quicker, InBucket
    <3>5. Cardinality(Quicker(n + 1))
            = Cardinality(Quicker(n)) + Cardinality(InBucket(n + 1)) - Cardinality({})
      BY <3>3, <3>4, FS_Union
    <3>. QED  BY <2>0, <3>2, <3>4, <3>5, FS_EmptySet
  <2>. QED  BY <2>1, <2>2
<1>3. \A n \in Nat : n \in S => n + 1 \in S
  BY <1>2
<1>4. \A n \in DOMAIN Bounds : n \in S
  <2>. HIDE DEF S
  <2>1. Nat \subseteq S
    BY <1>1, <1>3, EachNumber
  <2>. QED  BY <1>0, <2>1
<1>. QED  BY <1>4

RecordsInv == RecordTypes /\ CountsInv /\ GaugeInv /\ EstimatesInv

LEMMA RecordsHold == RecordsSpec => []RecordsInv
<1>1. RecordsInit => RecordsInv
  <2>. SUFFICES ASSUME RecordsInit PROVE RecordsInv
    OBVIOUS
  <2>1. RecordTypes
    BY DEF RecordsInit, RecordTypes, Markers
  <2>2. Recent = {}
    BY DEF RecordsInit, Recent
  <2>3. CountsInv
    <3>1. \A n : InBucket(n) = {}
      BY <2>2 DEF InBucket
    <3>2. tallies \in [DOMAIN Bounds -> Nat] /\ \A n \in DOMAIN Bounds : tallies[n] = 0
      BY DEF RecordsInit, Zero
    <3>3. DOMAIN totals = {} /\ timed = Len(log) - life /\ begun = timed + Len(swap)
      BY DEF RecordsInit
    <3>. QED  BY <2>2, <3>1, <3>2, <3>3, FS_EmptySet DEF CountsInv
  <2>4. GaugeInv /\ EstimatesInv
    BY DEF RecordsInit, GaugeInv, EstimatesInv, Between, Met
  <2>. QED  BY <2>1, <2>3, <2>4 DEF RecordsInv
<1>. QED  BY <1>1, RecordTypesStep, CountsStep, GaugeStep, EstimatesStep, PTL
          DEF RecordsSpec, RecordsInv

\* What /metrics renders of the swaps agrees with itself and with what happened at every
\* moment, for every number of buckets, engines, swaps and restarts: record_swap() and
\* the rendering of metrics.py.
THEOREM SeriesAddUp == RecordsSpec => []SwapsAddUp
<1>1. RecordsInv => SwapsAddUp
  <2>. SUFFICES ASSUME RecordsInv PROVE SwapsAddUp
    OBVIOUS
  <2>1. \A n \in DOMAIN Bounds : Rendered[n] = Cardinality(Quicker(n))
    BY RenderedCounts DEF RecordsInv
  <2>2. \A l : TotalOf(l) = Cardinality(Labelled(l))
    BY TotalsAre DEF RecordsInv
  <2>. QED  BY <2>1, <2>2 DEF RecordsInv, CountsInv, GaugeInv, SwapsAddUp, Ended, Recent,
                              Quicker, Labelled, Labels
<1>. QED  BY <1>1, RecordsHold, PTL

\* The picker's cost of an engine lies between the swaps to it that succeeded, but for those
\* that a restart lost before they were saved, and is the configured one when there is none:
\* note_swap() and swap_cost_estimate().
THEOREM CostsBounded == RecordsSpec => []CostsMeasured
<1>1. RecordsInv => CostsMeasured
  <2>. SUFFICES ASSUME RecordsInv, NEW e \in SwapEngines \ {marker}
                PROVE  /\ \E d \in Evidence(e) : d <= Cost(e, 0)
                       /\ \E d \in Evidence(e) : Cost(e, 0) <= d
                       /\ \A n \in 0..6 : Cost(e, n) \in Cost(e, 0)..(Cost(e, 0) + 100)
    BY DEF CostsMeasured
  <2>1. Successes(e) = Met(log, learnt, e)
    BY DEF Successes, Met
  <2>2. e \in DOMAIN estimate <=> Successes(e) # {}
    BY <2>1 DEF RecordsInv, EstimatesInv, Between
  <2>3. CASE e \in DOMAIN estimate
    <3>1. /\ estimate[e] \in Nat
          /\ \E d \in Successes(e) : 10 * d <= estimate[e]
          /\ \E d \in Successes(e) : estimate[e] <= 10 * d
      BY <2>1, <2>3 DEF RecordsInv, EstimatesInv, Between
    <3>2. Evidence(e) = {10 * d : d \in Successes(e)}
      BY <2>2, <2>3 DEF Evidence
    <3>3. Cost(e, 0) = estimate[e]
      BY <2>3, <3>1 DEF Cost
    <3>4. \A n \in 0..6 : Cost(e, n) \in Cost(e, 0)..(Cost(e, 0) + 100)
      BY <2>3, <3>1, <3>3 DEF Cost
    <3>. QED  BY <3>1, <3>2, <3>3, <3>4
  <2>4. CASE e \notin DOMAIN estimate
    <3>1. StartEstimate[e] \in Nat /\ Evidence(e) = {StartEstimate[e]}
      BY <2>2, <2>4, SwapRecordsAssumption DEF Evidence
    <3>2. Cost(e, 0) = StartEstimate[e]
      BY <2>4, <3>1 DEF Cost
    <3>3. \A n \in 0..6 : Cost(e, n) \in Cost(e, 0)..(Cost(e, 0) + 100)
      BY <2>4, <3>1, <3>2 DEF Cost
    <3>. QED  BY <3>1, <3>2, <3>3
  <2>. QED  BY <2>3, <2>4
<1>. QED  BY <1>1, RecordsHold, PTL

----------------------------------------------------------------------------
(* Calibration *)

CalibrationTypes ==
  /\ holder \in LeaseEngines \cup {NoLease}
  /\ users \in [Runs \cup Others -> LeaseEngines \cup {NoLease}]
  /\ stage \in [Runs -> {"idle", "acquiring", "probing", "releasing", "leaked"}]
  /\ results \in [Runs -> Nat]
  /\ cut \in [Runs -> BOOLEAN]
  /\ records \in [Subjects -> {0, Probes}]
  /\ stored \in [Subjects -> {0, Probes}]

\* RunsHoldCounts, one calibration at a time.
Counted(r) ==
  users[r] = IF stage[r] \in {"probing", "releasing", "leaked"} THEN EngineOf(r) ELSE NoLease

Leased(r) == stage[r] = "probing" /\ r \notin evicted => holder \in {EngineOf(r), NoLease}

\* A calibration that is about to release has its whole battery, unless it was cut off,
\* and the next one starts from nothing.
Measured(r) ==
  /\ stage[r] \in {"idle", "acquiring"} => results[r] = 0
  /\ stage[r] = "probing" => results[r] < Probes
  /\ stage[r] = "releasing" /\ ~cut[r] => results[r] = Probes

RunInv == \A r \in Runs : Counted(r) /\ Leased(r) /\ Measured(r)

CalibrationInv == CalibrationTypes /\ RunInv

----------------------------------------------------------------------------
LEMMA CalibrationTypeStep ==
  ASSUME CalibrationInv, [CalibrationNext]_calibrationVars
  PROVE  CalibrationTypes'
<1>. USE CalibrationAssumption DEF CalibrationInv, RunInv, CalibrationTypes, Move, Subjects, leaseVars
<1>1. ASSUME NEW r \in Runs, StartRun(r) PROVE CalibrationTypes'
  BY <1>1 DEF StartRun
<1>2. ASSUME NEW r \in Runs, RunAcquires(r) PROVE CalibrationTypes'
  BY <1>2 DEF RunAcquires, Lease!Admit
<1>3. ASSUME NEW r \in Runs, RunFails(r) PROVE CalibrationTypes'
  BY <1>3 DEF RunFails
<1>4. ASSUME NEW r \in Runs, Probe(r) PROVE CalibrationTypes'
  BY <1>4 DEF Probe
<1>5. ASSUME NEW r \in Runs, InterruptedRun(r) PROVE CalibrationTypes'
  BY <1>5 DEF InterruptedRun
<1>6. ASSUME NEW r \in Runs, RunEnds(r) PROVE CalibrationTypes'
  <2>1. /\ holder' = holder
        /\ users' \in [Runs \cup Others -> LeaseEngines \cup {NoLease}]
    BY <1>6 DEF RunEnds, Lease!Leave
  <2>2. ~cut[r] => results[r] = Probes
    BY <1>6 DEF RunEnds, Measured
  <2>3. records' \in [Subjects -> {0, Probes}] /\ stored' \in [Subjects -> {0, Probes}]
    BY <1>6, <2>2 DEF RunEnds
  <2>. QED  BY <1>6, <2>1, <2>3 DEF RunEnds
<1>10. ASSUME NEW r \in Runs, ReleaseInterrupted(r) PROVE CalibrationTypes'
  BY <1>10 DEF ReleaseInterrupted
<1>7. CASE LeaseMoves
  <2>1. /\ holder' \in LeaseEngines \cup {NoLease}
        /\ users' \in [Runs \cup Others -> LeaseEngines \cup {NoLease}]
    BY <1>7 DEF LeaseMoves, Lease!Admit, Lease!Leave, Lease!Evict, Lease!Grant, Lease!Revoke
  <2>. QED  BY <1>7, <2>1 DEF LeaseMoves
<1>8. CASE CalibrationRestart
  BY <1>8 DEF CalibrationRestart, Lease!Restart
<1>9. CASE UNCHANGED calibrationVars
  BY <1>9 DEF calibrationVars
<1>. QED  BY <1>1, <1>2, <1>3, <1>4, <1>5, <1>6, <1>7, <1>8, <1>9, <1>10 DEF CalibrationNext

\* What one calibration does leaves the others as they are.
LEMMA OtherRunsKept ==
  ASSUME CalibrationInv, NEW r \in Runs, NEW s \in Runs \ {r},
         UNCHANGED holder, users'[s] = users[s], stage'[s] = stage[s],
         results'[s] = results[s], cut'[s] = cut[s], s \in evicted' <=> s \in evicted
  PROVE  Counted(s)' /\ Leased(s)' /\ Measured(s)'
  BY DEF CalibrationInv, RunInv, Counted, Leased, Measured, EngineOf

LEMMA RunStep ==
  ASSUME CalibrationInv, [CalibrationNext]_calibrationVars
  PROVE  RunInv'
<1>. USE CalibrationAssumption DEF CalibrationInv, CalibrationTypes, RunInv, Move, leaseVars, EngineOf
<1>1. ASSUME NEW r \in Runs,
             StartRun(r) \/ RunAcquires(r) \/ RunFails(r) \/ Probe(r)
               \/ InterruptedRun(r) \/ RunEnds(r) \/ ReleaseInterrupted(r)
      PROVE  RunInv'
  <2>1. ASSUME NEW s \in Runs \ {r} PROVE Counted(s)' /\ Leased(s)' /\ Measured(s)'
    <3>1. UNCHANGED holder /\ users'[s] = users[s] /\ stage'[s] = stage[s]
            /\ results'[s] = results[s] /\ cut'[s] = cut[s]
            /\ (s \in evicted' <=> s \in evicted)
      BY <1>1 DEF StartRun, RunAcquires, RunFails, Probe, InterruptedRun, RunEnds,
                  ReleaseInterrupted, Lease!Admit, Lease!Leave
    <3>. QED  BY <3>1, OtherRunsKept
  <2>2. Counted(r)' /\ Leased(r)' /\ Measured(r)'
    <3>. USE DEF Counted, Leased, Measured
    <3>1. CASE StartRun(r) \/ RunFails(r)
      BY <3>1 DEF StartRun, RunFails
    <3>2. CASE RunAcquires(r)
      BY <3>2 DEF RunAcquires, Lease!Admit
    <3>3. CASE Probe(r)
      BY <3>3 DEF Probe
    <3>4. CASE InterruptedRun(r)
      BY <3>4 DEF InterruptedRun
    <3>5. CASE RunEnds(r)
      BY <3>5 DEF RunEnds, Lease!Leave
    <3>6. CASE ReleaseInterrupted(r)
      BY <3>6 DEF ReleaseInterrupted
    <3>. QED  BY <1>1, <3>1, <3>2, <3>3, <3>4, <3>5, <3>6
  <2>. QED  BY <2>1, <2>2
<1>2. CASE LeaseMoves
  <2>. TAKE r \in Runs
  <2>1. UNCHANGED <<stage, results, cut>> /\ users'[r] = users[r]
    BY <1>2 DEF LeaseMoves, Lease!Admit, Lease!Leave, Lease!Evict, Lease!Grant, Lease!Revoke
  <2>2. r \notin evicted' => r \notin evicted
    BY <1>2 DEF LeaseMoves, Lease!Admit, Lease!Leave, Lease!Evict, Lease!Grant, Lease!Revoke
  <2>3. ASSUME stage[r] = "probing", r \notin evicted', NEW e \in LeaseEngines, Lease!Grant(e)
        PROVE  e = EngineOf(r)
    <3>1. users[r] = EngineOf(r) /\ r \notin evicted
      BY <2>2, <2>3 DEF Counted
    <3>2. r \in Lease!Kept(EngineOf(r))
      BY <3>1 DEF Lease!Kept
    <3>. QED  BY <2>3, <3>2 DEF Lease!Grant
  <2>4. Leased(r)'
    BY <1>2, <2>1, <2>2, <2>3
       DEF Leased, LeaseMoves, Lease!Admit, Lease!Leave, Lease!Evict, Lease!Grant, Lease!Revoke
  <2>. QED  BY <2>1, <2>4 DEF Counted, Measured
<1>3. CASE CalibrationRestart
  BY <1>3 DEF CalibrationRestart, Lease!Restart, Counted, Leased, Measured
<1>4. CASE UNCHANGED calibrationVars
  BY <1>4 DEF calibrationVars, Counted, Leased, Measured
<1>. QED  BY <1>1, <1>2, <1>3, <1>4 DEF CalibrationNext

LEMMA CalibrationHolds == CalibrationSpec => []CalibrationInv
<1>1. CalibrationInit => CalibrationInv
  BY CalibrationAssumption
     DEF CalibrationInit, Lease!Init, Blank, CalibrationInv, CalibrationTypes, RunInv, Counted, Leased, Measured
<1>2. CalibrationInv /\ [CalibrationNext]_calibrationVars => CalibrationInv'
  BY CalibrationTypeStep, RunStep DEF CalibrationInv
<1>. QED  BY <1>1, <1>2, PTL DEF CalibrationSpec

----------------------------------------------------------------------------
\* The variables of the calibrations and of the lease they use keep their types.
THEOREM CalibrationTyped == CalibrationSpec => []CalibrationTypes
<1>1. CalibrationInv => CalibrationTypes  BY DEF CalibrationInv
<1>. QED  BY <1>1, CalibrationHolds, PTL

\* A calibration has a count exactly while it holds its engine, and has the GPU for its
\* engine as long as no drain gave it up.
THEOREM CountsHeld == CalibrationSpec => []RunsHoldCounts
<1>1. CalibrationInv => RunsHoldCounts
  BY DEF CalibrationInv, RunInv, Counted, Leased, RunsHoldCounts
<1>. QED  BY <1>1, CalibrationHolds, PTL

\* What is stored of a calibration is the result of a whole battery.
THEOREM WholeBatteries == CalibrationSpec => []RecordsAreWhole
<1>1. CalibrationInv => RecordsAreWhole
  BY DEF CalibrationInv, CalibrationTypes, RecordsAreWhole
<1>. QED  BY <1>1, CalibrationHolds, PTL
=============================================================================

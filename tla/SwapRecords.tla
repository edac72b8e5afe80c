---------------------------- MODULE SwapRecords ----------------------------
(***************************************************************************)
(* What the router records of its swaps: the metrics that /metrics         *)
(* renders, which a restart sets to zero, and the duration estimates of    *)
(* the picker, which the state file keeps.  A swap is cut where others can *)
(* see it: begun, its other engines stopped, ended.                        *)
(***************************************************************************)
EXTENDS Naturals, Sequences, FiniteSets

CONSTANTS
  SwapEngines,     \* two at least
  Nowhere,
  Bounds,          \* upper bounds of the buckets, increasing, in ticks
  StartEstimate,   \* [engines -> Nat]: the estimate from the configured timeouts
  MaxSwaps,        \* bound: swaps, over all restarts
  MaxTicks         \* bound: ticks of one swap, and of the uptime

ASSUME SwapRecordsAssumption ==
  /\ Cardinality(SwapEngines) > 1 /\ Nowhere \notin SwapEngines
  /\ Bounds \in Seq(Nat) /\ StartEstimate \in [SwapEngines -> Nat] /\ MaxTicks \in Nat
  /\ \A n \in 2..Len(Bounds) : Bounds[n - 1] < Bounds[n]

VARIABLES
  marker,     \* active_engine
  swap,       \* the swap under way, <<>> when there is none
  begun,      \* count of in_flight_at_swap_start
  tallies,    \* counts of swap_duration_seconds, per bucket
  timed,      \* its count
  totals,     \* swap_total: [label tuples seen -> Nat]
  gauge,      \* _active_engine and the ticks since _active_since
  estimate,   \* _swap_seconds: [engines swapped to -> tenths of ticks]
  kept,       \* the same in the state file
  log,        \* history: the swaps that ended, ever
  life,       \* history: how many of them before the router was last started
  held,       \* history: ticks since the last swap that succeeded, or the start
  learnt,     \* history: the swaps of the log that the estimates have been told of
  safe        \* history: those that the ones in the state file have been told of

recordVars == <<marker, swap, begun, tallies, timed, totals, gauge, estimate, kept, log,
                life, held, learnt, safe>>
counters == <<begun, tallies, timed, totals>>

Zero == [n \in DOMAIN Bounds |-> 0]

RecordsInit ==
  /\ marker \in SwapEngines \cup {Nowhere}
  /\ gauge = [of |-> marker, since |-> 0]
  /\ swap = <<>> /\ log = <<>> /\ life = 0 /\ held = 0
  /\ begun = 0 /\ tallies = Zero /\ timed = 0 /\ totals = <<>>
  /\ estimate = <<>> /\ kept = <<>> /\ learnt = {} /\ safe = {}

\* _Histogram.observe(): the first bucket that holds the value counts it.
Observe(took) ==
  /\ timed' = timed + 1
  /\ tallies' = [n \in DOMAIN Bounds |->
                   IF took <= Bounds[n] /\ (n > 1 => took > Bounds[n - 1])
                   THEN tallies[n] + 1 ELSE tallies[n]]

TotalOf(labels) == IF labels \in DOMAIN totals THEN totals[labels] ELSE 0

\* Seeded fault: a swap that fails is not counted.
IncSucceeded(labels) ==
  totals' = [l \in DOMAIN totals \cup {labels} |->
               TotalOf(l) + IF l = labels /\ labels[3] THEN 1 ELSE 0]

\* _Counter.inc()
Inc(labels) ==
  totals' = [l \in DOMAIN totals \cup {labels} |-> TotalOf(l) + IF l = labels THEN 1 ELSE 0]

\* _Histogram.render_lines(): the counts of the buckets up to the n-th.
Rendered[n \in 0..Len(Bounds)] == IF n = 0 THEN 0 ELSE Rendered[n - 1] + tallies[n]

SetActive(e) ==
  /\ marker' = e
  /\ gauge' = IF e = gauge.of THEN gauge ELSE [of |-> e, since |-> 0]

Folded(e, took) ==
  [x \in DOMAIN estimate \cup {e} |->
     IF x # e THEN estimate[x]
     ELSE IF e \in DOMAIN estimate THEN (6 * estimate[e] + 4 * took) \div 10 ELSE took]

\* Seeded fault: swaps that failed count too.
NoteAnySwap(e, took, ok) == estimate' = Folded(e, 10 * took)

\* note_swap()
NoteSwap(e, took, ok) == estimate' = IF ok THEN Folded(e, 10 * took) ELSE estimate

----------------------------------------------------------------------------
BeginSwap(e) ==
  /\ swap = <<>> /\ e # marker
  /\ Len(log) < MaxSwaps
  /\ swap' = <<[from |-> marker, to |-> e, took |-> 0, stopping |-> TRUE]>>
  /\ begun' = begun + 1
  /\ UNCHANGED <<marker, tallies, timed, totals, gauge, estimate, kept, log, life, held, learnt,
                 safe>>

\* The marker is cleared before another engine is stopped.
StopOthers ==
  /\ swap # <<>> /\ swap[1].stopping
  /\ SetActive(Nowhere)
  /\ swap' = <<[swap[1] EXCEPT !.stopping = FALSE]>>
  /\ UNCHANGED <<counters, estimate, kept, log, life, held, learnt, safe>>

\* _persist(), which leaves the file as it is when the write fails.
WriteEstimates ==
  \/ kept' = estimate' /\ safe' = learnt'
  \/ UNCHANGED <<kept, safe>>

\* record_swap(), _record_swap() and _persist().
EndSwap(ok) ==
  /\ Observe(swap[1].took)
  /\ Inc(<<swap[1].from, swap[1].to, ok>>)
  /\ NoteSwap(swap[1].to, swap[1].took, ok)
  /\ learnt' = learnt \cup {Len(log) + 1}
  /\ WriteEstimates
  /\ log' = Append(log, [from |-> swap[1].from, to |-> swap[1].to, took |-> swap[1].took, ok |-> ok])
  /\ swap' = <<>>
  /\ UNCHANGED begun

Succeeds ==
  /\ swap # <<>> /\ ~swap[1].stopping
  /\ SetActive(swap[1].to)
  /\ EndSwap(TRUE)
  /\ held' = 0
  /\ UNCHANGED life

\* At any step of it, or cancelled.
Fails ==
  /\ swap # <<>>
  /\ SetActive(Nowhere)
  /\ EndSwap(FALSE)
  /\ UNCHANGED <<life, held>>

OneMore(n) == IF n < MaxTicks THEN n + 1 ELSE n

SecondsPass ==
  /\ swap' = [n \in DOMAIN swap |-> [swap[n] EXCEPT !.took = OneMore(@)]]
  /\ gauge' = [gauge EXCEPT !.since = OneMore(@)]
  /\ held' = OneMore(held)
  /\ UNCHANGED <<marker, counters, estimate, kept, log, life, learnt, safe>>

\* The state file is written for another reason.
RecordsSaved ==
  /\ kept' = estimate /\ safe' = learnt
  /\ UNCHANGED <<marker, swap, counters, gauge, estimate, log, life, held, learnt>>

\* The metrics start from zero, the estimates from the state file; a swap under way is
\* recorded nowhere.
RecordsRestart ==
  /\ marker' \in SwapEngines \cup {Nowhere}
  /\ gauge' = [of |-> marker', since |-> 0]
  /\ swap' = <<>> /\ life' = Len(log) /\ held' = 0
  /\ begun' = 0 /\ tallies' = Zero /\ timed' = 0 /\ totals' = <<>>
  /\ estimate' = kept /\ learnt' = safe
  /\ UNCHANGED <<kept, safe, log>>

RecordsNext ==
  \/ \E e \in SwapEngines : BeginSwap(e)
  \/ StopOthers
  \/ Succeeds
  \/ Fails
  \/ SecondsPass
  \/ RecordsSaved
  \/ RecordsRestart

RecordsSpec == RecordsInit /\ [][RecordsNext]_recordVars

----------------------------------------------------------------------------
Ended(P(_)) == Cardinality({n \in (life + 1)..Len(log) : P(log[n])})

AllLabels == (SwapEngines \cup {Nowhere}) \X SwapEngines \X BOOLEAN

\* At every moment /metrics can be asked, its series agree with each other and with what
\* happened: a bucket counts the swaps that took no longer than its bound, swap_total
\* counts every swap that ended since the start under the engine left, the engine wanted
\* and its result, and none that did not, the durations count as many, the drains recorded
\* are theirs and that of the swap under way, and the uptime is that of the engine in
\* place since it was swapped to.
SwapsAddUp ==
  /\ \A n \in DOMAIN Bounds : Rendered[n] = Ended(LAMBDA s : s.took <= Bounds[n])
  /\ timed = Len(log) - life
  /\ begun = timed + Len(swap)
  /\ DOMAIN totals \subseteq AllLabels
  /\ \A l \in AllLabels : TotalOf(l) = Ended(LAMBDA s : <<s.from, s.to, s.ok>> = l)
  /\ gauge.of = marker
  /\ marker # Nowhere => gauge.since = held

\* swap_cost_estimate(), with n requests in flight on other engines.
Cost(e, n) ==
  IF marker = e THEN 0
  ELSE (IF e \in DOMAIN estimate THEN estimate[e] ELSE StartEstimate[e])
         + IF 2 * n < 10 THEN 20 * n ELSE 100

Successes(e) == {log[n].took : n \in {k \in learnt : log[k].to = e /\ log[k].ok}}

\* What there is to go by: the swaps to the engine that succeeded and were not lost in a
\* restart, or the configured timeouts when there are none.
Evidence(e) ==
  IF Successes(e) = {} THEN {StartEstimate[e]} ELSE {10 * d : d \in Successes(e)}

\* The cost of an engine that is not up lies between the quickest and the slowest of the
\* swaps to it that succeeded, and the drain adds a bounded part: swaps that fail and
\* restarts do not move it.  Without such a swap, and only then, it is the configured
\* one.  What a restart loses are the swaps since the state file was last written.
CostsMeasured ==
  \A e \in SwapEngines \ {marker} :
    /\ \E d \in Evidence(e) : d <= Cost(e, 0)
    /\ \E d \in Evidence(e) : Cost(e, 0) <= d
    /\ \A n \in 0..6 : Cost(e, n) \in Cost(e, 0)..(Cost(e, 0) + 100)
=============================================================================

--------------------------- MODULE MemorySettle ---------------------------
(***************************************************************************)
(* _await_memory_settle(): samples of the available memory, taken every    *)
(* half second, until they no longer rise.                                 *)
(***************************************************************************)
EXTENDS Naturals, Sequences

CONSTANTS
  Amounts,      \* what a sample may read, in an arbitrary unit
  Rise,         \* 1_000_000 kB in that unit
  MaxSamples    \* settle timeout over the half second between samples

ASSUME SettleAssumption == Amounts \subseteq Nat /\ Rise \in Nat \ {0} /\ MaxSamples \in Nat

VARIABLES
  previous,   \* the sample before, or <<>> (-1 in the code)
  stable,     \* samples in a row that hardly rose
  verdict,    \* "waiting", "settled", "unreadable" or "timeout"
  curve       \* history: the samples read

settleVars == <<previous, stable, verdict, curve>>

SettleInit ==
  /\ previous = <<>>
  /\ stable = 0
  /\ verdict = "waiting"
  /\ curve = <<>>

Hardly(from, to) == to < from + Rise

\* Seeded fault: what has hardly risen in all is counted, not in a row.
SampleNoReset ==
  /\ verdict = "waiting"
  /\ Len(curve) < MaxSamples
  /\ \E now \in Amounts :
       /\ stable' = IF previous # <<>> /\ Hardly(previous[1], now) THEN stable + 1 ELSE stable
       /\ verdict' = IF stable' >= 2 THEN "settled" ELSE "waiting"
       /\ previous' = <<now>>
       /\ curve' = Append(curve, now)

Sample ==
  /\ verdict = "waiting"
  /\ Len(curve) < MaxSamples
  /\ \E now \in Amounts :
       /\ stable' = IF previous # <<>> /\ Hardly(previous[1], now) THEN stable + 1 ELSE 0
       /\ verdict' = IF stable' >= 2 THEN "settled" ELSE "waiting"
       /\ previous' = <<now>>
       /\ curve' = Append(curve, now)

Unreadable ==
  /\ verdict = "waiting"
  /\ verdict' = "unreadable"
  /\ UNCHANGED <<previous, stable, curve>>

Timeout ==
  /\ verdict = "waiting"
  /\ verdict' = "timeout"
  /\ UNCHANGED <<previous, stable, curve>>

SettleNext == Sample \/ Unreadable \/ Timeout \/ (verdict # "waiting" /\ UNCHANGED settleVars)

SettleSpec == SettleInit /\ [][SettleNext]_settleVars

----------------------------------------------------------------------------
\* The samples up to the n-th end in a plateau: three of them, no two apart by a rise.
Plateau(n) == n >= 3 /\ Hardly(curve[n - 2], curve[n - 1]) /\ Hardly(curve[n - 1], curve[n])

\* The launch goes ahead at the first plateau, neither on two samples nor on rises that
\* stopped in between, and a plateau is not passed over.
SettleExact ==
  /\ verdict = "settled" => Plateau(Len(curve))
  /\ \A n \in 1..(Len(curve) - 1) : ~Plateau(n)
  /\ verdict \in {"waiting", "timeout"} => ~Plateau(Len(curve))
=============================================================================

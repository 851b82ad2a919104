--------------------------------- MODULE Pool ----------------------------------
(***************************************************************************)
(* lb.Backend (src/internal/lb/pool.go) as a record and its methods as     *)
(* operators on it. The health checker and the handler are the goroutines  *)
(* that call them; each operator is one atomic step of the code.           *)
(***************************************************************************)
EXTENDS Integers

CONSTANT Unit    \* ewmaMs is kept in 1/Unit of a millisecond

\* A power of ten that makes the decimal arithmetic of RecordLatency exact for as
\* many samples as it has zeros.
ASSUME UnitAssumption == Unit \in Nat \ {0}

\* NewPool: optimistic, and without statistics.
NewBackend == [healthy |-> TRUE, inflight |-> 0, ewma |-> 0, hasStats |-> FALSE]

BackendType == [healthy : BOOLEAN, inflight : Nat, ewma : Nat, hasStats : BOOLEAN]

\* SetHealthy is two steps: the Swap of the bit ...
SwapHealthy(be, v) == [be EXCEPT !.healthy = v]

\* Mutant: the wipe only forgets that there are statistics.
WipeFlag(be) == [be EXCEPT !.hasStats = FALSE]

\* ... and, on the way back up, the wipe of the statistics under mu.
WipeStats(be) == [be EXCEPT !.ewma = 0, !.hasStats = FALSE]

Acquire(be) == [be EXCEPT !.inflight = @ + 1]

Release(be) == [be EXCEPT !.inflight = @ - 1]

\* A latency of ms whole milliseconds, alpha = 0.3.
RecordLatency(be, ms) ==
    [be EXCEPT !.hasStats = TRUE,
               !.ewma = IF be.hasStats THEN (3 * ms * Unit + 7 * @) \div 10 ELSE ms * Unit]

\* Mutant: an ewma of zero is taken as it is.
ScoreRaw(ewma, inflight) == ewma * (inflight + 1)

\* An ewma of exactly zero counts as a millisecond. The two arguments are read one
\* after the other.
Score(ewma, inflight) == (IF ewma = 0 THEN Unit ELSE ewma) * (inflight + 1)

\* Mutant: the second draw is not shifted past the first.
SecondUnshifted(i, j) == j

\* Pick draws i from 0..n-1 and j from 0..n-2, and steps j over i.
Second(i, j) == IF j >= i THEN j + 1 ELSE j
================================================================================

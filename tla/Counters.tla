------------------------------ MODULE Counters ------------------------------
(***************************************************************************)
(* Rates from counters (counter_delta and compute_value, snmp/poller.py).  *)
(* A counter metric is [raw, ts, bits]: last_raw and last_raw_ts, or       *)
(* NoReading, and counter_bits.                                            *)
(***************************************************************************)
EXTENDS Integers

CONSTANTS Max32, Max64,  \* COUNTER32_MAX and COUNTER64_MAX
          MinRateWindow  \* MIN_RATE_WINDOW
ASSUME RangeAssumption == Max32 \in Nat \ {0} /\ Max64 \in Nat /\ Max32 <= Max64 /\ MinRateWindow \in Nat

NoReading == -1          \* None
NoDelta == -1

RangeOf(bits) == IF bits = 64 THEN Max64 ELSE Max32

\* Mutant of CounterDelta: any smaller reading is a reset.
CounterDeltaNoWrap(prev, cur, bits) == IF cur >= prev THEN cur - prev ELSE NoDelta

\* A genuine wrap only moves the counter forward by less than half its range.
CounterDelta(prev, cur, bits) ==
    LET wrapped == RangeOf(bits) - prev + cur
    IN  IF cur >= prev THEN cur - prev
        ELSE IF prev < RangeOf(bits) /\ 2 * wrapped < RangeOf(bits) THEN wrapped
        ELSE NoDelta

\* compute_value of a counter: [delta, dt], of which the value is the quotient, or no value, and
\* the metric as it is stored (new_last_raw, or the old baseline kept).
ComputeCounter(m, cur, now, rebooted) ==
    LET dt == now - m.ts
        delta == CounterDelta(m.raw, cur, m.bits)
        rebased == [m EXCEPT !.raw = cur, !.ts = now]
        none == [delta |-> NoDelta, dt |-> 0]
    IN  IF cur = NoReading THEN [value |-> none, m |-> m]
        ELSE IF m.raw = NoReading \/ rebooted \/ dt <= 0 \/ delta = NoDelta
          THEN [value |-> none, m |-> rebased]
        ELSE IF delta = 0 /\ dt < MinRateWindow THEN [value |-> none, m |-> m]
        ELSE [value |-> [delta |-> delta, dt |-> dt], m |-> rebased]
=============================================================================

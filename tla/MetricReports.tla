--------------------------- MODULE MetricReports ---------------------------
(***************************************************************************)
(* What charts and reports compute from stored samples: storage.py         *)
(* (series, metric_summary), reporting.py (statistics, 95th percentile,    *)
(* volume) and dashboards.py (buckets of a panel, targets, reductions).    *)
(*                                                                         *)
(* A store is one metric: [raw, rolled, watermark, value], the timestamps  *)
(* of its samples, by period the rollup rows and the watermark, and the    *)
(* value of each sample ever taken.  Results say which samples they were   *)
(* computed from; an average is a pair, sum and count.                     *)
(***************************************************************************)
EXTENDS Buckets, Sequences, FiniteSets, FiniteSetsExt

CONSTANTS Fine, Hour,    \* the rollup periods, 300 and 3600
          EnoughRows,    \* 12: an hour of five-minute averages
          RawSpan,       \* RAW_MAX_SPAN
          NiceSteps,     \* NICE_STEPS
          DaySteps       \* 86400, the unit of steps beyond them

ASSUME PeriodsAssumption ==
    /\ Fine \in Nat \ {0} /\ Hour \in Nat /\ Hour > Fine /\ Hour % Fine = 0
    /\ DaySteps \in Nat \ {0} /\ DaySteps % Hour = 0
    /\ NiceSteps \in Seq(Nat) /\ RawSpan \in Nat
    /\ \A i \in DOMAIN NiceSteps : NiceSteps[i] >= Fine => NiceSteps[i] % Fine = 0
    /\ \A i \in DOMAIN NiceSteps : NiceSteps[i] >= Hour => NiceSteps[i] % Hour = 0

NoTime == -1             \* no row, no watermark

CeilDiv(a, b) == (a + b - 1) \div b

\* <<sum, count>> of the samples of a row: vavg, and vavg * vcount.
Average(s, of) == <<MapThenSumSet(LAMBDA t : s.value[t], of), Cardinality(of)>>
Below(a, b) == a[1] * b[2] < b[1] * a[2]

RawIn(s, from, to) == {t \in s.raw : from <= t /\ t <= to}
RowsIn(s, p, from, before) == {r \in s.rolled[p] : from <= r.bucket /\ r.bucket < before}

\* ORDER BY v LIMIT 1 OFFSET k, of rows whose v are pairs.
AtOffset(v, k) ==
    CHOOSE r \in DOMAIN v : /\ Cardinality({q \in DOMAIN v : Below(v[q], v[r])}) <= k
                            /\ Cardinality({q \in DOMAIN v : Below(v[r], v[q])}) < Cardinality(DOMAIN v) - k

\* The averages of rows; of raw samples, the values.
Averages(s, rows) == [r \in rows |-> Average(s, r.of)]
RawValues(s, raw) == [t \in raw |-> <<s.value[t], 1>>]

-----------------------------------------------------------------------------
(* storage.py.                                                             *)

\* metric_summary: raw samples, or hourly rows where there are none.
MetricSummary(s, start, end) ==
    LET raw == RawIn(s, start, end)
        of == IF raw # {} THEN raw ELSE UNION {r.of : r \in RowsIn(s, Hour, start, end + 1)}
    IN  [of |-> of,
         p95 |-> IF raw = {} THEN NoTime ELSE AtOffset(RawValues(s, raw), (Cardinality(raw) * 95) \div 100)]

-----------------------------------------------------------------------------
(* reporting.py.                                                           *)

\* Where raw samples take over: asked of the first metric only.
OldestRaw(stores, end) == IF stores[1].raw = {} THEN end ELSE Min(stores[1].raw)

\* _metric_stats of the k-th metric: the samples its average counts, from rollups and raw.
MetricStats(stores, k, start, end) ==
    LET oldest == OldestRaw(stores, end)
    IN  [rolled |-> IF start < oldest
                      THEN UNION {r.of : r \in RowsIn(stores[k], Hour, start, oldest)} ELSE {},
         raw |-> RawIn(stores[k], Max({start, oldest}), end)]

Rank95(n) == Max({0, CeilDiv(n * 95, 100) - 1})

\* percentile_95: [basis, p95], an average of the row chosen, or of one sample.
Percentile95(s, start, end) ==
    LET rows(p) == RowsIn(s, p, start, end)
        raw == RawIn(s, start, end)
        at95(v) == v[AtOffset(v, Rank95(Cardinality(DOMAIN v)))]
    IN  IF Cardinality(rows(Fine)) >= EnoughRows THEN [basis |-> Fine, p95 |-> at95(Averages(s, rows(Fine)))]
        ELSE IF Cardinality(rows(Hour)) >= 1 THEN [basis |-> Hour, p95 |-> at95(Averages(s, rows(Hour)))]
        ELSE IF raw = {} THEN [basis |-> NoTime, p95 |-> <<>>]
        ELSE [basis |-> 0, p95 |-> at95(RawValues(s, raw))]

\* Mutant of FineRows: rows that reach beyond the window count.
FineRowsBeyond(s, start, end) == {r \in s.rolled[Fine] : r.bucket >= start /\ r.bucket <= end}

FineRows(s, start, end) == {r \in s.rolled[Fine] : r.bucket >= start /\ r.bucket + Fine <= end}

\* _volume_bytes: the intervals [from, to) whose average rate, that of the samples in of, is
\* integrated: five-minute rows, hourly rows before the first of them, raw samples after the last.
VolumePieces(s, start, end) ==
    LET five == FineRows(s, start, end)
        olderUntil == IF five = {} THEN end ELSE Min({r.bucket : r \in five})
        hours == {r \in s.rolled[Hour] : r.bucket >= start /\ r.bucket + Hour <= olderUntil}
        newerFrom == IF five # {} THEN Max({r.bucket : r \in five}) + Fine
                     ELSE IF hours # {} THEN Max({r.bucket : r \in hours}) + Hour ELSE start
        raw == RawIn(s, newerFrom, end)
        later(t) == {u \in raw : u > t}
        piece(r, p) == [from |-> r.bucket, to |-> r.bucket + p, of |-> r.of]
    IN  {piece(r, Fine) : r \in five} \cup {piece(r, Hour) : r \in hours}
        \cup {[from |-> t, to |-> Min(later(t)), of |-> {t}] : t \in {u \in raw : later(u) # {}}}

-----------------------------------------------------------------------------
(* dashboards.py.                                                          *)

NiceStep(span, minStep, points) ==
    LET want == Max({minStep, CeilDiv(span, Max({1, points}))})
        enough == {i \in DOMAIN NiceSteps : NiceSteps[i] >= want}
    IN  IF enough # {} THEN NiceSteps[Min(enough)] ELSE CeilDiv(want, DaySteps) * DaySteps

\* _bucketed: the points of a metric, by bucket of step; a point is the set of the rows, or of the
\* raw samples, it averages.  Where both have the bucket, that of the raw samples is kept.
Bucketed(s, start, end, step) ==
    LET long == step >= Fine /\ end - start > RawSpan
        period == IF step >= Hour THEN Hour ELSE Fine
        rollEnd == IF s.watermark[period] = NoTime THEN start ELSE Min({end, s.watermark[period]})
        rows == IF long THEN RowsIn(s, period, start, rollEnd) ELSE {}
        raw == RawIn(s, IF long THEN Max({start, rollEnd}) ELSE start, end)
        at(b) == LET fresh == {t \in raw : Bucket(t, step) = b}
                 IN  IF fresh # {} THEN {fresh}
                     ELSE {r.of : r \in {q \in rows : Bucket(q.bucket, step) = b}}
    IN  [b \in {Bucket(t, step) : t \in raw} \cup {Bucket(r.bucket, step) : r \in rows} |-> at(b)]
=============================================================================

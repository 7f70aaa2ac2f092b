------------------------------ MODULE Rollups ------------------------------
(***************************************************************************)
(* Raw samples, their rollups and retention (storage.py), for one metric:  *)
(* every statement groups by metric.  A sample is its timestamp, and a     *)
(* rollup row the set of the samples it aggregates: minimum, maximum,      *)
(* average and count are functions of that set.                            *)
(*                                                                         *)
(* The actions are those of the housekeeping loop, which module            *)
(* Housekeeping puts in order, and of polls, which write a sample with the *)
(* time they began at.                                                     *)
(***************************************************************************)
EXTENDS Buckets, FiniteSets, FiniteSetsExt

CONSTANTS Periods,       \* ROLLUP_PERIODS
          RawKeep,       \* retention_raw_days
          RollupKeep     \* by period: min(retention_rollup_days, 35), retention_rollup_days

ASSUME PeriodsAssumption == Periods # {} /\ IsFiniteSet(Periods) /\ Periods \subseteq Nat \ {0}
\* A period is an hour at most, raw samples are kept for days, and rollups for weeks.
ASSUME KeepAssumption ==
    /\ RawKeep \in Nat /\ \A p \in Periods : p <= RawKeep
    /\ RollupKeep \in [Periods -> Nat]
    /\ \A p \in Periods : RawKeep + p <= RollupKeep[p]

VARIABLES samples,       \* table samples
          rolled,        \* table rollups: by period, the rows
          watermark,     \* meta rollup_watermark_<period>
          polling,       \* ts of the polls under way
          onTime         \* history: by period, the samples stored in time for its rollup

storageVars == <<samples, rolled, watermark, polling, onTime>>

Unset == -1              \* no watermark yet

StorageInit ==
    /\ samples = {} /\ polling = {}
    /\ onTime = [p \in Periods |-> {}]
    /\ rolled = [p \in Periods |-> {}]
    /\ watermark = [p \in Periods |-> Unset]

-----------------------------------------------------------------------------
(* Polls.                                                                  *)

PollBegins(now) ==
    /\ polling = {}
    /\ polling' = {now}
    /\ UNCHANGED <<samples, rolled, watermark, onTime>>

\* The transaction of poll_device.  from[p]: where the rollup of p goes on from.  A sample is on
\* time if its bucket is not over, or no rollup has passed it.
PollWrites(from, now) ==
    \E ts \in polling :
        /\ polling' = {}
        /\ samples' = samples \cup {ts}
        /\ onTime' = [p \in Periods |-> IF ts >= from[p] \/ now < Bucket(ts, p) + p
                                       THEN onTime[p] \cup {ts} ELSE onTime[p]]
        /\ UNCHANGED <<rolled, watermark>>

-----------------------------------------------------------------------------
(* rollup: for each period, two reads, then one transaction.               *)

NoWindow == [start |-> 0, end |-> 0]

\* Mutant of RollupWindow: the bucket that is not over is rolled up as well.
RollupWindowToNow(p, now) ==
    [start |-> IF watermark[p] = Unset THEN Bucket(Min(samples \cup {now}), p) ELSE watermark[p],
     end   |-> Bucket(now, p) + p]

\* What is to be rolled up; nothing before the first sample.
RollupWindow(p, now) ==
    [start |-> IF watermark[p] = Unset THEN Bucket(Min(samples \cup {now}), p) ELSE watermark[p],
     end   |-> Bucket(now, p)]

RollupWrites(p, window) ==
    LET due == {t \in samples : window.start <= t /\ t < window.end}
        new == Grouped(due, p)
    IN  /\ rolled' = [rolled EXCEPT ![p] =
                        {r \in @ : \A n \in new : n.bucket # r.bucket} \cup new]
        /\ watermark' = [watermark EXCEPT ![p] = window.end]
        /\ UNCHANGED <<samples, polling, onTime>>

-----------------------------------------------------------------------------
(* apply_retention: its first transaction.                                 *)

ApplyRetention(now) ==
    /\ samples' = {t \in samples : t >= now - RawKeep}
    /\ rolled' = [p \in Periods |-> {r \in rolled[p] : r.bucket >= now - RollupKeep[p]}]
    /\ UNCHANGED <<watermark, polling, onTime>>

-----------------------------------------------------------------------------
(* series, for a resolution of one period: points of the chart.            *)

\* Mutant of RecentPoints: the samples of the last rollup again.
RecentPointsTwice(p, start, end, rows) ==
    LET last == IF rows = {} THEN start ELSE Max({r.bucket : r \in rows})
    IN  Grouped({t \in samples : last <= t /\ t <= end}, p)

\* The samples after the last rollup, or all of them when there is none.
RecentPoints(p, start, end, rows) ==
    LET last == IF rows = {} THEN start ELSE Max({r.bucket : r \in rows}) + p
    IN  Grouped({t \in samples : last <= t /\ t <= end}, p)

Series(p, start, end) ==
    LET rows == {r \in rolled[p] : start <= r.bucket /\ r.bucket <= end}
    IN  [rows |-> rows, tail |-> RecentPoints(p, start, end, rows)]
=============================================================================

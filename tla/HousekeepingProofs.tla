------------------------- MODULE HousekeepingProofs -------------------------
(***************************************************************************)
(* Type correctness of Housekeeping; that rollups are complete and charts  *)
(* show every sample once, for any periods and times of retention; and     *)
(* that no occurrence of a daily or weekly report is sent twice.           *)
(***************************************************************************)
EXTENDS Housekeeping, WellFoundedInduction, FiniteSetTheorems, TLAPS

-----------------------------------------------------------------------------
(* Buckets, and the least and the greatest of a set.                       *)

\* Times and periods.
LEMMA PeriodType == ASSUME NEW p \in Periods PROVE p \in Nat /\ p > 0
  BY PeriodsAssumption

LEMMA Multiples ==
    ASSUME NEW p \in Nat, NEW i \in Int, NEW j \in Int, i < j
    PROVE  i * p + p <= j * p
<1>1. i + 1 <= j
  OBVIOUS
<1>2. (j - (i + 1)) * p >= 0
  BY <1>1
<1>3. QED
  BY <1>2

LEMMA BucketBounds ==
    ASSUME NEW p \in Nat \ {0}, NEW t \in Int
    PROVE  /\ Bucket(t, p) \in Int
           /\ Bucket(t, p) <= t /\ t < Bucket(t, p) + p
           /\ t \in Nat => Bucket(t, p) \in Nat
<1>1. t = p * (t \div p) + (t % p) /\ 0 <= t % p /\ t % p < p /\ t \div p \in Int
  OBVIOUS
<1>2. t \in Nat => t \div p >= 0
  OBVIOUS
<1>3. t \in Nat => (t \div p) * p >= 0
  BY <1>2
<1>4. QED
  BY <1>1, <1>3 DEF Bucket

\* A time before the bucket of u is in a bucket that ends there at the latest, one in it or
\* after it is not in an earlier one.
LEMMA BucketOrder ==
    ASSUME NEW p \in Nat \ {0}, NEW t \in Int, NEW u \in Int
    PROVE  /\ t < Bucket(u, p) => Bucket(t, p) + p <= Bucket(u, p)
           /\ t >= Bucket(u, p) => Bucket(t, p) >= Bucket(u, p)
           /\ Bucket(Bucket(u, p), p) = Bucket(u, p)
<1> DEFINE i == t \div p
           j == u \div p
<1>1. i \in Int /\ j \in Int /\ Bucket(t, p) = i * p /\ Bucket(u, p) = j * p
  BY DEF Bucket
<1>2. i * p <= t /\ t < i * p + p /\ i * p \in Int /\ j * p \in Int
  BY <1>1, BucketBounds
<1> HIDE DEF i, j
<1>3. i < j => i * p + p <= j * p
  BY <1>1, Multiples
<1>4. j < i => j * p + p <= i * p
  BY <1>1, Multiples
<1>5. i = j => i * p = j * p
  OBVIOUS
<1>6. i < j \/ i = j \/ j < i
  BY <1>1
<1>7. (t < j * p => i * p + p <= j * p) /\ (t >= j * p => i * p >= j * p)
  BY <1>1, <1>2, <1>3, <1>4, <1>5, <1>6
<1>8. Bucket(j * p, p) = j * p
  BY <1>1 DEF Bucket
<1>9. QED
  BY <1>1, <1>7, <1>8

LEMMA Earliest ==
    ASSUME NEW S \in SUBSET Nat, S # {}
    PROVE  \E m \in S : \A t \in S : m <= t
<1> DEFINE R == OpToRel(<, Nat)
<1>1. R = {ss \in Nat \X Nat : ss[1] < ss[2]}
  BY DEF OpToRel
<1>2. \E m \in S : \A t \in S : ~(<<t, m>> \in R)
  <2>1. IsWellFoundedOn(R, Nat)
    BY NatLessThanWellFounded
  <2> HIDE DEF R
  <2>2. QED
    BY <2>1, WFMin
<1> HIDE DEF R
<1>3. PICK m \in S : \A t \in S : ~(<<t, m>> \in R)
  BY <1>2
<1>4. \A t \in S : ~(t < m)
  BY <1>1, <1>3
<1>5. \A t \in S : m <= t
  BY <1>4
<1>6. QED
  BY <1>5

LEMMA MinOfTimes ==
    ASSUME NEW S \in SUBSET Nat, S # {}
    PROVE  Min(S) \in S /\ \A t \in S : Min(S) <= t
  BY Earliest DEF Min

LEMMA MaxOfTimes ==
    ASSUME NEW S \in SUBSET Nat, S # {}, NEW top \in Nat, \A t \in S : t <= top
    PROVE  Max(S) \in S /\ \A t \in S : t <= Max(S)
<1> DEFINE T == {top - t : t \in S}
<1>1. \A t \in S : t \in Nat /\ top - t \in Nat
  OBVIOUS
<1>2. T \in SUBSET Nat /\ T # {}
  BY <1>1
<1>3. PICK m \in T : \A d \in T : m <= d
  BY <1>2, Earliest
<1>4. PICK x \in S : m = top - x
  BY <1>3
<1>5. \A t \in S : top - x <= top - t
  BY <1>3, <1>4
<1>6. \A t \in S : x >= t
  BY <1>1, <1>5
<1>7. QED
  BY <1>1, <1>6 DEF Max

LEMMA Groups ==
    ASSUME NEW p \in Nat \ {0}, NEW of \in SUBSET Nat
    PROVE  /\ \A r \in Grouped(of, p) : \E t \in of :
                 r = [bucket |-> Bucket(t, p), of |-> {u \in of : Bucket(u, p) = Bucket(t, p)}]
           /\ \A t \in of :
                 [bucket |-> Bucket(t, p), of |-> {u \in of : Bucket(u, p) = Bucket(t, p)}]
                     \in Grouped(of, p)
<1> DEFINE G(t) == {u \in of : Bucket(u, p) = Bucket(t, p)}
<1>1. \A t \in of : Row(p, G(t)) = [bucket |-> Bucket(t, p), of |-> G(t)]
  <2> TAKE t \in of
  <2>1. t \in G(t) /\ \A u \in G(t) : Bucket(u, p) = Bucket(t, p)
    OBVIOUS
  <2> HIDE DEF G
  <2>2. (CHOOSE u \in G(t) : TRUE) \in G(t)
    BY <2>1
  <2>3. QED
    BY <2>1, <2>2 DEF Row
<1>2. \A r \in Grouped(of, p) : \E t \in of : r = Row(p, G(t))
  BY DEF Grouped
<1>3. \A t \in of : Row(p, G(t)) \in Grouped(of, p)
  BY DEF Grouped
<1>4. QED
  BY <1>1, <1>2, <1>3

-----------------------------------------------------------------------------
(* Type correctness.                                                       *)

LEMMA PeriodInTodo ==
    ASSUME TypeOK, loop.todo # {}
    PROVE  /\ Period \in loop.todo /\ Period \in Periods
           /\ Period \in Nat /\ Period > 0
           /\ loop.todo \ {Period} \in SUBSET Periods
<1>1. loop.todo \in SUBSET Periods
  BY DEF TypeOK, Loop
<1>2. loop.todo \in SUBSET Nat
  BY <1>1, PeriodsAssumption
<1>3. Period \in loop.todo
  BY <1>2, MinOfTimes DEF Period
<1>4. QED
  BY <1>1, <1>3, PeriodType

\* What a step may set the loop to.
LEMMA WindowType ==
    ASSUME TypeOK, NEW p \in Periods
    PROVE  RollupWindow(p, loop.since) \in [start: Nat, end: Nat]
<1> DEFINE S == samples \cup {loop.since}
<1>1. loop.since \in Nat /\ S \in SUBSET Nat /\ S # {}
  BY DEF TypeOK, Loop
<1>2. Min(S) \in Nat
  BY <1>1, MinOfTimes
<1>3. p \in Nat \ {0}
  BY PeriodType
<1> HIDE DEF S
<1>4. /\ Bucket(Min(S), p) \in Nat
      /\ Bucket(loop.since, p) \in Nat
  <2>1. ASSUME NEW t \in Nat PROVE Bucket(t, p) \in Nat
    BY <1>3, BucketBounds
  <2>2. QED
    BY <2>1, <1>1, <1>2
<1>5. watermark[p] # Unset => watermark[p] \in Nat
  BY DEF TypeOK
<1>6. QED
  BY <1>4, <1>5 DEF RollupWindow, S

LEMMA OccurrencesGrow ==
    ASSUME TypeOK, now' \in {now, now + 1}
    PROVE  Occurrences \subseteq Occurrences'
<1>1. StartTime..now \subseteq StartTime..now'
  BY StartAssumption DEF TypeOK
<1>2. QED
  BY <1>1 DEF Occurrences

LEMMA GroupedType ==
    ASSUME NEW p \in Nat \ {0}, NEW of \in SUBSET Nat
    PROVE  Grouped(of, p) \subseteq RollupRow
<1> SUFFICES ASSUME NEW r \in Grouped(of, p) PROVE r \in RollupRow
  OBVIOUS
<1>1. PICK t \in of :
        r = [bucket |-> Bucket(t, p), of |-> {u \in of : Bucket(u, p) = Bucket(t, p)}]
  BY Groups
<1>2. Bucket(t, p) \in Nat
  BY BucketBounds
<1>3. {u \in of : Bucket(u, p) = Bucket(t, p)} \in SUBSET Nat
  OBVIOUS
<1>4. QED
  BY <1>1, <1>2, <1>3 DEF RollupRow

LEMMA ScheduleType ==
    ASSUME TypeOK, NEW t \in Nat
    PROVE  /\ RecordRun(t) => schedule' \in {NoSchedule} \cup Schedule
           /\ \A body \in Schedules :
                 CreateSchedule(body, t) \/ PatchSchedule(body)
                     => schedule' \in {NoSchedule} \cup Schedule
           /\ DeleteSchedule => schedule' \in {NoSchedule} \cup Schedule
<1>1. schedule \in {NoSchedule} \cup Schedule
  BY DEF TypeOK
<1>2. schedule.exists => schedule \in Schedule
  BY <1>1 DEF NoSchedule
<1>3. RecordRun(t) => schedule' \in {NoSchedule} \cup Schedule
  BY <1>1, <1>2 DEF RecordRun, Schedule
<1>4. ASSUME NEW body \in Schedules
      PROVE  CreateSchedule(body, t) \/ PatchSchedule(body) => schedule' \in Schedule
  <2>1. CreateSchedule(body, t) => schedule' \in Schedule
    BY DEF CreateSchedule, Schedule, Never
  <2>2. PatchSchedule(body) => schedule' \in Schedule
    BY <1>2 DEF PatchSchedule, Schedule
  <2>3. QED
    BY <2>1, <2>2
<1>5. DeleteSchedule => schedule' = NoSchedule
  BY DEF DeleteSchedule
<1>6. QED
  BY <1>3, <1>4, <1>5

LEMMA Asleeps == Asleep \in Loop /\ Never \in Occurrences
  BY DEF Asleep, Loop, NoWindow, Occurrences

LEMMA LoopType ==
    ASSUME loop \in Loop
    PROVE  /\ loop.began \in Nat /\ loop.since \in Nat /\ loop.todo \in SUBSET Periods
           /\ loop.window \in [start: Nat, end: Nat] /\ loop.occurrence \in Occurrences
           /\ loop.at \in {"asleep", "rollup", "writing", "building", "sent", "retention"}
  BY DEF Loop

LEMMA Initially == Init => TypeOK
<1> SUFFICES ASSUME Init PROVE TypeOK
  OBVIOUS
<1>1. Asleep \in Loop
  BY Asleeps
<1>2. watermark \in [Periods -> Nat \cup {Unset}]
  BY DEF Init, StorageInit
<1>3. QED
  BY <1>1, <1>2, StartAssumption DEF Init, StorageInit, TypeOK

LEMMA TypePreserved == TypeOK /\ [Next]_vars => TypeOK'
<1> SUFFICES ASSUME TypeOK, [Next]_vars PROVE TypeOK'
  OBVIOUS
<1>a. now' = now => Occurrences' = Occurrences /\ Loop' = Loop
  BY DEF Occurrences, Loop
<1> USE DEF TypeOK
<1>b. Asleep \in Loop /\ Never \in Occurrences
  BY Asleeps
<1>1. CASE Wake
  <2>1. loop' \in Loop
    BY <1>1, <1>b DEF Wake, Asleep, Loop, NoWindow
  <2>2. QED
    BY <1>1, <1>a, <2>1 DEF Wake, Untouched, storageVars
<1>2. CASE RollupReads
  <2>1. Period \in Periods /\ loop.todo \ {Period} \in SUBSET Periods
    BY <1>2, PeriodInTodo DEF RollupReads
  <2>2. RollupWindow(Period, loop.since) \in [start: Nat, end: Nat]
    BY <2>1, WindowType
  <2>3. loop' \in Loop
    BY <1>2, <2>1, <2>2 DEF RollupReads, Loop
  <2>4. QED
    BY <1>2, <1>a, <2>3 DEF RollupReads, Untouched, storageVars
<1>3. CASE RollupEnds
  <2> DEFINE due == {t \in samples : loop.window.start <= t /\ t < loop.window.end}
  <2>1. Period \in Periods => Period \in Nat \ {0}
    BY PeriodType
  <2>2. due \in SUBSET Nat /\ loop.window.end \in Nat
    BY LoopType
  <2>3. Period \in Periods => Grouped(due, Period) \subseteq RollupRow
    BY <2>1, <2>2, GroupedType
  <2>4. /\ rolled' = [rolled EXCEPT ![Period] =
                        {r \in @ : \A n \in Grouped(due, Period) : n.bucket # r.bucket}
                          \cup Grouped(due, Period)]
        /\ watermark' = [watermark EXCEPT ![Period] = loop.window.end]
        /\ UNCHANGED <<samples, polling, onTime>>
    BY <1>3 DEF RollupEnds, RollupWrites
  <2> HIDE DEF due
  <2>5. rolled' \in [Periods -> SUBSET RollupRow]
    BY <2>3, <2>4
  <2>6. watermark' \in [Periods -> Nat \cup {Unset}]
    BY <2>2, <2>4
  <2>7. loop' \in Loop
    BY <1>3 DEF RollupEnds, Loop, NoWindow
  <2>8. QED
    BY <1>3, <1>a, <2>4, <2>5, <2>6, <2>7 DEF RollupEnds, Untouched
<1>4. CASE RunDue
  <2>1. now \in StartTime..now
    BY StartAssumption
  <2>2. schedule.exists => schedule.body \in Schedules
    <3>1. schedule = NoSchedule \/ schedule \in Schedule
      OBVIOUS
    <3>2. schedule = NoSchedule => ~schedule.exists
      BY DEF NoSchedule
    <3>3. schedule \in Schedule => schedule.body \in Schedules
      BY DEF Schedule
    <3> QED
      BY <3>1, <3>2, <3>3
  <2>3. schedule.exists => PreviousOccurrence(schedule.body, now) \in Occurrences
    BY <2>1, <2>2 DEF Occurrences
  <2>4. loop' \in Loop
    BY <1>4, <2>3 DEF RunDue, Loop
  <2>5. QED
    BY <1>4, <1>a, <2>4 DEF RunDue, Untouched, storageVars
<1>5. CASE LoopSends
  <2>1. loop' \in Loop /\ loop.occurrence \in Occurrences
    BY <1>5 DEF LoopSends, Loop
  <2>2. QED
    BY <1>5, <1>a, <2>1 DEF LoopSends, storageVars
<1>6. CASE LoopRecords
  <2>1. loop' \in Loop
    BY <1>6, <1>b DEF LoopRecords, Loop
  <2>2. schedule' \in {NoSchedule} \cup Schedule
    BY <1>6, ScheduleType DEF LoopRecords
  <2>3. QED
    BY <1>6, <1>a, <2>1, <2>2 DEF LoopRecords, Untouched, storageVars
<1>7. CASE BuildFails
  <2>1. loop' \in Loop /\ loop.since \in Nat
    BY <1>7, <1>b DEF BuildFails, Loop
  <2>2. schedule' \in {NoSchedule} \cup Schedule
    BY <1>7, <2>1, ScheduleType DEF BuildFails
  <2>3. QED
    BY <1>7, <1>a, <2>1, <2>2 DEF BuildFails, Untouched, storageVars
<1>8. CASE Retention
  <2>1. loop' \in Loop
    BY <1>8, <1>b DEF Retention
  <2>2. samples' \subseteq Nat /\ rolled' \in [Periods -> SUBSET RollupRow]
    BY <1>8 DEF Retention, ApplyRetention, storageVars
  <2>3. lastRetention' \in Nat
    BY <1>8 DEF Retention
  <2>4. polling' = polling /\ watermark' = watermark /\ onTime' = onTime
    BY <1>8 DEF Retention, ApplyRetention, storageVars
  <2>5. QED
    BY <1>8, <1>a, <2>1, <2>2, <2>3, <2>4 DEF Retention
<1>9. CASE Raises
  <2>1. QED
    BY <1>9, <1>a, <1>b DEF Raises, Fault, storageVars
<1>10. CASE Poll
  <2>1. UNCHANGED <<schedule, now, loop, lastRetention, faults, reported>>
    BY <1>10 DEF Poll
  <2>2. CASE PollBegins(now) /\ Event
    BY <2>1, <2>2, <1>a DEF PollBegins, Event
  <2>3. CASE UNCHANGED events /\ \E from : PollWrites(from, now)
    <3>a. PICK from : PollWrites(from, now)
      BY <2>3
    <3>1. PICK ts \in polling :
            /\ polling' = {}
            /\ samples' = samples \cup {ts}
            /\ onTime' = [p \in Periods |-> IF ts >= from[p] \/ now < Bucket(ts, p) + p
                                           THEN onTime[p] \cup {ts} ELSE onTime[p]]
            /\ UNCHANGED <<rolled, watermark>>
      BY <3>a DEF PollWrites
    <3>2. ts \in Nat
      OBVIOUS
    <3>3. onTime' \in [Periods -> SUBSET Nat]
      BY <3>1, <3>2
    <3>4. QED
      BY <2>1, <2>3, <3>1, <3>2, <3>3, <1>a
  <2>4. QED
    BY <1>10, <2>2, <2>3 DEF Poll
<1>11. CASE Edit
  <2>1. schedule' \in {NoSchedule} \cup Schedule
    BY <1>11, ScheduleType DEF Edit
  <2>2. QED
    BY <1>11, <1>a, <2>1 DEF Edit, Event, storageVars
<1>12. CASE SendNow
  <2>1. schedule' \in {NoSchedule} \cup Schedule
    BY <1>12, ScheduleType DEF SendNow
  <2>2. QED
    BY <1>12, <1>a, <2>1 DEF SendNow, Event, storageVars
<1>13. CASE Restart
  <2>1. QED
    BY <1>13, <1>a, <1>b DEF Restart, Fault
<1>14. CASE Tick
  <2>1. now' \in Nat /\ now' >= StartTime /\ now' = now + 1
    BY <1>14, StartAssumption DEF Tick
  <2>2. Occurrences \subseteq Occurrences'
    BY <2>1, OccurrencesGrow
  <2>3. loop' \in Loop'
    BY <1>14, <2>2 DEF Tick, Loop
  <2>4. QED
    BY <1>14, <2>1, <2>2, <2>3 DEF Tick, storageVars
<1>15. CASE UNCHANGED vars
  <2>1. QED
    BY <1>15, <1>a DEF vars, storageVars
<1>16. QED
  BY <1>1, <1>2, <1>3, <1>4, <1>5, <1>6, <1>7, <1>8, <1>9, <1>10, <1>11, <1>12, <1>13, <1>14, <1>15
     DEF Next, LoopStep

\* Every variable of housekeeping keeps its type (monitor.py, storage.py, scheduled.py).
THEOREM TypeCorrect == Spec => []TypeOK
<1>1. QED
  BY Initially, TypePreserved, PTL DEF Spec

-----------------------------------------------------------------------------
(* The invariant of the tables and of the loop.                            *)

\* Between two samples, and between a poll and its sample, time does not run backwards.
Clocks ==
    /\ \A t \in samples : t <= now /\ \A ts \in polling : t <= ts
    /\ \A ts \in polling : ts <= now /\ now <= ts + PassTime /\ \A u \in polling : u = ts
    /\ loop.at # "asleep" => loop.began <= now /\ now <= loop.began + PassTime
    /\ loop.at \in {"rollup", "writing"} => loop.since = loop.began

Aligned(t, p) == Bucket(t, p) = t

Watermarks ==
    \A p \in Periods : watermark[p] # Unset => Aligned(watermark[p], p) /\ watermark[p] <= now

\* The rows of a rollup are of completed buckets, one of each.
RowsBehind ==
    \A p \in Periods : \A r \in rolled[p] :
        /\ r.bucket + p <= watermark[p]
        /\ \A u \in r.of : Bucket(u, p) = r.bucket
        /\ \A other \in rolled[p] : other.bucket = r.bucket => other = r

\* What is not rolled up yet is in time for it, and still there.
Unrolled ==
    \A p \in Periods : \A t \in samples \cup onTime[p] :
        t >= watermark[p] => t \in samples /\ t \in onTime[p]

\* Of a bucket the rollup has passed, its row; or both it and the samples have expired.
Rolled ==
    \A p \in Periods : \A t \in onTime[p] :
        Bucket(t, p) + p <= watermark[p] =>
            \/ \E r \in rolled[p] :
                  r.bucket = Bucket(t, p) /\ r.of = {u \in onTime[p] : Bucket(u, p) = r.bucket}
            \/ Bucket(t, p) < now - RollupKeep[p] /\ t \notin samples

\* Once the pass has done with a period, retention spares what that left.
Passed ==
    loop.at # "asleep" =>
        \A p \in Periods \ loop.todo : \A t \in onTime[p] :
            t >= watermark[p] => loop.began <= t + PassTime + p

Finished == loop.at \in {"building", "sent", "retention"} => loop.todo = {}

\* The window under way begins where the last one ended, or before every sample.
Window(p) ==
    /\ Aligned(loop.window.start, p) /\ loop.window.end = Bucket(loop.since, p)
    /\ loop.window.start < loop.window.end
    /\ watermark[p] # Unset => loop.window.start = watermark[p]
    /\ watermark[p] = Unset => samples # {} /\ \A t \in samples : loop.window.start <= t

Writing == loop.at = "writing" => loop.todo # {} /\ Window(Period)

StoreInv == Clocks /\ Watermarks /\ RowsBehind /\ Unrolled /\ Rolled
PassInv == Passed /\ Finished /\ Writing
StorageInv == TypeOK /\ StoreInv /\ PassInv

-----------------------------------------------------------------------------
(* What the invariant gives.                                               *)

LEMMA CompleteFromInv == StorageInv => RollupsComplete
  BY DEF StorageInv, StoreInv, Rolled, RollupsComplete

\* A sample is on one side of an aligned watermark, with its whole bucket.
LEMMA Sides ==
    ASSUME NEW p \in Periods, NEW t \in Nat, NEW w \in Nat \cup {Unset},
           w # Unset => Aligned(w, p)
    PROVE  /\ t < w => Bucket(t, p) + p <= w
           /\ t >= w => Bucket(t, p) >= w
<1>1. p \in Nat \ {0}
  BY PeriodType
<1>2. CASE w = Unset
  <2>1. Bucket(t, p) \in Nat
    BY <1>1, BucketBounds
  <2>2. QED
    BY <1>2, <2>1 DEF Unset
<1>3. CASE w # Unset
  <2>1. w \in Nat /\ Bucket(w, p) = w
    BY <1>3 DEF Aligned
  <2>2. /\ t < Bucket(w, p) => Bucket(t, p) + p <= Bucket(w, p)
        /\ t >= Bucket(w, p) => Bucket(t, p) >= Bucket(w, p)
    BY <1>1, <2>1, BucketOrder
  <2>3. QED
    BY <2>1, <2>2
<1>4. QED
  BY <1>2, <1>3

\* The tables as they were, at the same time or an hour later.
LEMMA TablesKept ==
    ASSUME StorageInv, UNCHANGED <<samples, rolled, watermark, onTime>>, now' \in {now, now + 1}
    PROVE  Watermarks' /\ RowsBehind' /\ Unrolled' /\ Rolled'
<1>1. now \in Nat /\ now' \in Nat /\ now <= now'
  BY DEF StorageInv, TypeOK
<1>2. Watermarks'
  <2>1. ASSUME NEW p \in Periods, watermark[p] # Unset
        PROVE  Aligned(watermark[p], p) /\ watermark[p] <= now'
    <3>1. watermark[p] \in Nat
      BY <2>1 DEF StorageInv, TypeOK
    <3>2. QED
      BY <1>1, <2>1, <3>1 DEF StorageInv, StoreInv, Watermarks
  <2>2. QED
    BY <2>1 DEF Watermarks, Aligned
<1>3. RowsBehind' /\ Unrolled'
  BY DEF StorageInv, StoreInv, RowsBehind, Unrolled
<1>4. Rolled'
  <2>1. ASSUME NEW p \in Periods, NEW t \in onTime[p], Bucket(t, p) < now - RollupKeep[p]
        PROVE  Bucket(t, p) < now' - RollupKeep[p]
    <3>1. t \in Nat /\ p \in Nat \ {0} /\ RollupKeep[p] \in Nat
      BY PeriodType, KeepAssumption DEF StorageInv, TypeOK
    <3>2. Bucket(t, p) \in Nat
      BY <3>1, BucketBounds
    <3>3. QED
      BY <1>1, <2>1, <3>1, <3>2
  <2>2. QED
    BY <2>1 DEF StorageInv, StoreInv, Rolled
<1>5. QED
  BY <1>2, <1>3, <1>4

\* What the loop does with the schedule leaves the tables and the clocks alone.
LEMMA LoopOnly ==
    ASSUME StorageInv, TypeOK', UNCHANGED <<samples, rolled, watermark, onTime, now>>,
           polling' \in {polling, {}}
    PROVE  /\ Watermarks' /\ RowsBehind' /\ Unrolled' /\ Rolled'
           /\ loop' = Asleep => StorageInv'
           /\ (loop'.todo = loop.todo /\ loop'.began = loop.began /\ loop.at # "asleep"
                 /\ loop.todo = {} /\ loop'.at \in {"building", "sent", "retention"}) => StorageInv'
           /\ loop' = loop => StorageInv'
<1>1. Watermarks' /\ RowsBehind' /\ Unrolled' /\ Rolled'
  BY TablesKept
<1>2. /\ \A t \in samples' : t <= now' /\ \A ts \in polling' : t <= ts
      /\ \A ts \in polling' : ts <= now' /\ now' <= ts + PassTime /\ \A u \in polling' : u = ts
  BY DEF StorageInv, StoreInv, Clocks
<1>3. loop' = Asleep => StorageInv'
  <2> HAVE loop' = Asleep
  <2>1. loop'.at = "asleep"
    BY DEF Asleep
  <2>2. QED
    BY <1>1, <1>2, <2>1 DEF StorageInv, StoreInv, PassInv, Clocks, Passed, Finished, Writing
<1>4. ASSUME loop'.todo = loop.todo, loop'.began = loop.began, loop.at # "asleep", loop.todo = {},
             loop'.at \in {"building", "sent", "retention"}
      PROVE  StorageInv'
  <2>1. Clocks'
    BY <1>2, <1>4 DEF StorageInv, StoreInv, Clocks
  <2>2. PassInv'
    BY <1>4 DEF StorageInv, PassInv, Passed, Finished, Writing
  <2>3. QED
    BY <1>1, <2>1, <2>2 DEF StorageInv, StoreInv
<1>5. loop' = loop => StorageInv'
  <2> HAVE loop' = loop
  <2>1. Clocks'
    BY <1>2 DEF StorageInv, StoreInv, Clocks
  <2>2. PassInv'
    BY DEF StorageInv, PassInv, Passed, Finished, Writing, Window, Period, Aligned
  <2>3. QED
    BY <1>1, <2>1, <2>2 DEF StorageInv, StoreInv
<1>6. QED
  BY <1>1, <1>3, <1>4, <1>5

\* rollup reads what it is to do for one period.
LEMMA ReadsKeeps ==
    ASSUME StorageInv, TypeOK', RollupReads
    PROVE  StorageInv'
<1> DEFINE p == Period
           window == RollupWindow(p, loop.since)
           S == samples \cup {loop.since}
<1>1. /\ UNCHANGED <<samples, rolled, watermark, onTime, polling, now>>
      /\ loop.at = "rollup" /\ loop.todo # {}
      /\ loop' = IF window.end <= window.start
                    THEN [loop EXCEPT !.todo = @ \ {p}]
                    ELSE [loop EXCEPT !.at = "writing", !.window = window]
  BY DEF RollupReads, Untouched, storageVars
<1>2. p \in loop.todo /\ p \in Periods /\ p \in Nat \ {0} /\ loop.todo # {}
  BY <1>1, PeriodInTodo DEF StorageInv
<1>3. /\ loop \in Loop /\ loop.began \in Nat /\ loop.since = loop.began
      /\ samples \in SUBSET Nat /\ watermark[p] \in Nat \cup {Unset}
      /\ now \in Nat /\ loop.began <= now
  BY <1>1, <1>2, LoopType DEF StorageInv, TypeOK, StoreInv, Clocks
<1>4. Watermarks' /\ RowsBehind' /\ Unrolled' /\ Rolled'
  BY <1>1, TablesKept
<1>5. S \in SUBSET Nat /\ S # {}
  BY <1>3
<1>6. /\ window.start = (IF watermark[p] = Unset THEN Bucket(Min(S), p) ELSE watermark[p])
      /\ window.end = Bucket(loop.since, p)
  BY DEF RollupWindow
<1> HIDE DEF p, S, window
<1>7. S \in SUBSET Nat /\ S # {} /\ Min(S) \in Nat /\ Min(S) \in S /\ \A t \in S : Min(S) <= t
  BY <1>5, MinOfTimes
<1>8. /\ Bucket(loop.since, p) \in Nat /\ loop.since < Bucket(loop.since, p) + p
      /\ Bucket(Min(S), p) \in Nat /\ Bucket(Min(S), p) <= Min(S)
      /\ Min(S) < Bucket(Min(S), p) + p /\ Aligned(Bucket(Min(S), p), p)
  <2>1. loop.since \in Nat /\ loop.since \in Int /\ Min(S) \in Int
    BY <1>3, <1>7
  <2>2. Bucket(loop.since, p) \in Nat /\ loop.since < Bucket(loop.since, p) + p
    BY <1>2, <2>1, BucketBounds
  <2>3. /\ Bucket(Min(S), p) \in Nat /\ Bucket(Min(S), p) <= Min(S)
        /\ Min(S) < Bucket(Min(S), p) + p
    BY <1>2, <1>7, <2>1, BucketBounds
  <2>4. Aligned(Bucket(Min(S), p), p)
    BY <1>2, <2>1, BucketOrder DEF Aligned
  <2>5. QED
    BY <2>2, <2>3, <2>4
<1>9. CASE window.end <= window.start
  <2>1. loop' = [loop EXCEPT !.todo = @ \ {p}]
    BY <1>1, <1>9
  <2>2. loop'.at = "rollup" /\ loop'.todo = loop.todo \ {p} /\ loop'.began = loop.began
        /\ loop'.since = loop.since
    BY <1>1, <1>3, <2>1 DEF Loop
  <2>3. ASSUME NEW t \in onTime[p], t >= watermark[p] PROVE loop.began <= t + PassTime + p
    <3>1. t \in samples /\ t \in Nat
      BY <1>2, <1>3, <2>3 DEF StorageInv, TypeOK, StoreInv, Unrolled
    <3>2. window.start <= t
      <4>1. CASE watermark[p] = Unset
        BY <1>7, <1>6, <1>8, <3>1, <4>1 DEF S
      <4>2. CASE watermark[p] # Unset
        BY <1>6, <2>3, <4>2
      <4>3. QED
        BY <4>1, <4>2
    <3>3. window.start \in Nat
      BY <1>3, <1>6, <1>8
    <3>4. QED
      BY <1>2, <1>3, <1>6, <1>8, <1>9, <3>1, <3>2, <3>3, PassAssumption
  <2>4. Passed'
    BY <1>1, <2>2, <2>3 DEF StorageInv, PassInv, Passed
  <2>5. Clocks'
    BY <1>1, <2>2 DEF StorageInv, StoreInv, Clocks
  <2>6. QED
    BY <1>4, <2>2, <2>4, <2>5 DEF StorageInv, StoreInv, PassInv, Finished, Writing
<1>10. CASE ~(window.end <= window.start)
  <2>1. loop' = [loop EXCEPT !.at = "writing", !.window = window]
    BY <1>1, <1>10
  <2>2. loop'.at = "writing" /\ loop'.todo = loop.todo /\ loop'.began = loop.began
        /\ loop'.since = loop.since /\ loop'.window = window
    BY <1>1, <1>3, <2>1 DEF Loop
  <2>3. Period' = p
    BY <2>2 DEF Period, p
  <2>4. window.start < window.end
    BY <1>3, <1>6, <1>8, <1>10
  <2>5. Aligned(window.start, p)
    BY <1>2, <1>6, <1>8 DEF StorageInv, StoreInv, Watermarks
  <2>6. ASSUME watermark[p] = Unset
        PROVE  samples # {} /\ \A t \in samples : window.start <= t
    <3>1. \A t \in S : window.start <= t
      BY <1>3, <1>7, <1>6, <1>8, <2>6 DEF S
    <3>2. ASSUME samples = {} PROVE FALSE
      <4>1. Min(S) = loop.since
        BY <1>7, <3>2 DEF S
      <4>2. QED
        BY <1>6, <2>4, <2>6, <4>1, <1>8
    <3>3. QED
      BY <3>1, <3>2 DEF S
  <2>7. Writing'
    BY <1>1, <1>2, <1>6, <2>2, <2>3, <2>4, <2>5, <2>6 DEF Writing, Window, Aligned
  <2>8. Clocks' /\ Passed' /\ Finished'
    BY <1>1, <2>2 DEF StorageInv, StoreInv, PassInv, Clocks, Passed, Finished
  <2>9. QED
    BY <1>4, <2>7, <2>8 DEF StorageInv, StoreInv, PassInv
<1>11. QED
  BY <1>9, <1>10

\* rollup writes the rows of a window and moves the watermark to its end.
LEMMA WritesKeep ==
    ASSUME StorageInv, TypeOK', RollupEnds
    PROVE  StorageInv'
<1> DEFINE p == Period
           start == loop.window.start
           end == loop.window.end
           due == {t \in samples : start <= t /\ t < end}
           new == Grouped(due, p)
<1>1. /\ UNCHANGED <<samples, polling, onTime, now>>
      /\ loop.at = "writing"
      /\ loop' = [loop EXCEPT !.at = "rollup", !.todo = @ \ {p}, !.window = NoWindow]
      /\ rolled' = [rolled EXCEPT ![p] = {r \in @ : \A n \in new : n.bucket # r.bucket} \cup new]
      /\ watermark' = [watermark EXCEPT ![p] = end]
  BY DEF RollupEnds, RollupWrites, Untouched
<1>2. loop.todo # {} /\ Window(p)
  BY <1>1 DEF StorageInv, PassInv, Writing
<1>3. p \in loop.todo /\ p \in Periods /\ p \in Nat \ {0}
  BY <1>2, PeriodInTodo DEF StorageInv
<1>4. /\ loop \in Loop /\ loop.began \in Nat /\ loop.since = loop.began
      /\ samples \in SUBSET Nat /\ watermark[p] \in Nat \cup {Unset}
      /\ now \in Nat /\ loop.began <= now /\ start \in Nat /\ end \in Nat
      /\ onTime \in [Periods -> SUBSET Nat]
      /\ watermark \in [Periods -> Nat \cup {Unset}]
      /\ rolled \in [Periods -> SUBSET RollupRow]
  BY <1>1, <1>3, LoopType DEF StorageInv, TypeOK, StoreInv, Clocks
<1>5. due \in SUBSET Nat
  BY <1>4
<1>6. /\ Aligned(start, p) /\ end = Bucket(loop.since, p) /\ start < end
      /\ watermark[p] # Unset => start = watermark[p]
      /\ watermark[p] = Unset => \A t \in samples : start <= t
  BY <1>2 DEF Window
<1> HIDE DEF p, start, end, new
<1>7. /\ end <= loop.began /\ loop.began < end + p /\ Aligned(end, p) /\ end <= now
  <2>1. loop.since \in Int
    BY <1>4
  <2>2. Bucket(loop.since, p) <= loop.since /\ loop.since < Bucket(loop.since, p) + p
    BY <1>3, <2>1, BucketBounds
  <2>3. Bucket(Bucket(loop.since, p), p) = Bucket(loop.since, p)
    BY <1>3, <2>1, BucketOrder
  <2>4. QED
    BY <1>4, <1>6, <2>2, <2>3 DEF Aligned
<1>8. ASSUME NEW t \in Nat
      PROVE  /\ Bucket(t, p) \in Nat /\ Bucket(t, p) <= t /\ t < Bucket(t, p) + p
             /\ t < start => Bucket(t, p) + p <= start
             /\ t >= start => Bucket(t, p) >= start
             /\ t < end => Bucket(t, p) + p <= end
             /\ t >= end => Bucket(t, p) >= end
  <2>1. start \in Nat \cup {Unset} /\ end \in Nat \cup {Unset}
    BY <1>4
  <2>2. /\ t < start => Bucket(t, p) + p <= start
        /\ t >= start => Bucket(t, p) >= start
    BY <1>3, <1>6, <2>1, Sides
  <2>3. /\ t < end => Bucket(t, p) + p <= end
        /\ t >= end => Bucket(t, p) >= end
    BY <1>3, <1>7, <2>1, Sides
  <2>4. Bucket(t, p) \in Nat /\ Bucket(t, p) <= t /\ t < Bucket(t, p) + p
    BY <1>3, BucketBounds
  <2>5. QED
    BY <2>2, <2>3, <2>4
\* The rows made now.
<1>9. /\ \A n \in new : \E t \in due :
            n = [bucket |-> Bucket(t, p), of |-> {u \in due : Bucket(u, p) = Bucket(t, p)}]
      /\ \A t \in due :
            [bucket |-> Bucket(t, p), of |-> {u \in due : Bucket(u, p) = Bucket(t, p)}] \in new
  BY <1>3, <1>5, Groups DEF new
\* The samples from the start of the window on are on time.
<1>10. ASSUME NEW t \in Nat, start <= t PROVE t \in samples <=> t \in onTime[p]
  <2>1. t >= watermark[p]
    BY <1>4, <1>6, <1>10 DEF Unset
  <2>2. QED
    BY <1>3, <2>1 DEF StorageInv, StoreInv, Unrolled
<1>11. ASSUME NEW t \in onTime[p], t < start
       PROVE  Bucket(t, p) + p <= watermark[p] /\ watermark[p] = start
  <2>1. t \in Nat
    BY <1>3, <1>4
  <2>2. CASE watermark[p] = Unset
    <3>1. t \in samples
      BY <1>3, <2>1, <2>2 DEF StorageInv, StoreInv, Unrolled, Unset
    <3>2. QED
      BY <1>4, <1>6, <1>11, <2>1, <2>2, <3>1
  <2>3. CASE watermark[p] # Unset
    BY <1>6, <1>8, <1>11, <2>1, <2>3
  <2>4. QED
    BY <2>2, <2>3
<1>12. \A n \in new : n.bucket \in Nat /\ start <= n.bucket /\ n.bucket + p <= end
  <2> TAKE n \in new
  <2>1. PICK t \in due : n.bucket = Bucket(t, p)
    BY <1>9
  <2>2. QED
    BY <1>4, <1>8, <2>1
<1> HIDE DEF due
<1>13. /\ rolled'[p] = {r \in rolled[p] : \A n \in new : n.bucket # r.bucket} \cup new
       /\ watermark'[p] = end
       /\ \A q \in Periods \ {p} : rolled'[q] = rolled[q] /\ watermark'[q] = watermark[q]
  BY <1>1, <1>3, <1>4
<1>14. /\ loop'.at = "rollup" /\ loop'.todo = loop.todo \ {p} /\ loop'.began = loop.began
       /\ loop'.since = loop.since
  BY <1>1, <1>4 DEF Loop
<1>15. Clocks'
  BY <1>1, <1>14 DEF StorageInv, StoreInv, Clocks
<1>16. Watermarks'
  BY <1>1, <1>4, <1>7, <1>13 DEF StorageInv, StoreInv, Watermarks, Aligned
<1>17. RowsBehind'
  <2>1. ASSUME NEW r \in rolled[p] PROVE r.bucket \in Nat /\ r.bucket + p <= end
    <3>1. r.bucket \in Nat /\ r.bucket + p <= watermark[p]
      BY <1>3, <1>4, <2>1 DEF StorageInv, StoreInv, RowsBehind, RollupRow
    <3>2. watermark[p] = start
      BY <1>3, <1>6, <3>1 DEF Unset
    <3>3. QED
      BY <1>3, <1>4, <1>6, <3>1, <3>2
  <2>2. ASSUME NEW r \in rolled'[p]
        PROVE  /\ r.bucket + p <= end
               /\ \A u \in r.of : Bucket(u, p) = r.bucket
               /\ \A other \in rolled'[p] : other.bucket = r.bucket => other = r
    <3>1. CASE r \in new
      <4>1. PICK t \in due :
              r = [bucket |-> Bucket(t, p), of |-> {u \in due : Bucket(u, p) = Bucket(t, p)}]
        BY <1>9, <3>1
      <4>2. \A u \in r.of : Bucket(u, p) = r.bucket
        BY <4>1
      <4>3. ASSUME NEW other \in rolled'[p], other.bucket = r.bucket PROVE other = r
        <5>1. other \in new
          BY <1>13, <3>1, <4>3
        <5>2. PICK s \in due :
                other = [bucket |-> Bucket(s, p), of |-> {u \in due : Bucket(u, p) = Bucket(s, p)}]
          BY <1>9, <5>1
        <5>3. Bucket(s, p) = Bucket(t, p)
          BY <4>1, <4>3, <5>2
        <5>4. QED
          BY <4>1, <5>2, <5>3
      <4>4. QED
        BY <1>12, <3>1, <4>2, <4>3
    <3>2. CASE r \notin new
      <4>1. r \in rolled[p] /\ \A n \in new : n.bucket # r.bucket
        BY <1>13, <3>2
      <4>2. \A u \in r.of : Bucket(u, p) = r.bucket
        BY <1>3, <4>1 DEF StorageInv, StoreInv, RowsBehind
      <4>3. \A other \in rolled'[p] : other.bucket = r.bucket => other = r
        BY <1>3, <1>13, <4>1 DEF StorageInv, StoreInv, RowsBehind
      <4>4. QED
        BY <2>1, <4>1, <4>2, <4>3
    <3>3. QED
      BY <3>1, <3>2
  <2>3. ASSUME NEW q \in Periods, q # p
        PROVE  \A r \in rolled'[q] :
                  /\ r.bucket + q <= watermark'[q]
                  /\ \A u \in r.of : Bucket(u, q) = r.bucket
                  /\ \A other \in rolled'[q] : other.bucket = r.bucket => other = r
    BY <1>13, <2>3 DEF StorageInv, StoreInv, RowsBehind
  <2>4. QED
    BY <1>13, <2>2, <2>3 DEF RowsBehind
<1>18. Unrolled'
  <2>1. ASSUME NEW t \in samples \cup onTime[p], t >= end PROVE t \in samples /\ t \in onTime[p]
    <3>1. t \in Nat /\ start <= t
      BY <1>3, <1>4, <1>6, <2>1
    <3>2. QED
      BY <1>10, <2>1, <3>1
  <2>2. ASSUME NEW q \in Periods, q # p, NEW t \in samples \cup onTime[q], t >= watermark'[q]
        PROVE  t \in samples /\ t \in onTime[q]
    BY <1>13, <2>2 DEF StorageInv, StoreInv, Unrolled
  <2>3. QED
    BY <1>1, <1>13, <2>1, <2>2 DEF Unrolled
<1>19. Rolled'
  <2>1. ASSUME NEW t \in onTime[p], Bucket(t, p) + p <= end
        PROVE  \/ \E r \in rolled'[p] :
                     r.bucket = Bucket(t, p) /\ r.of = {u \in onTime[p] : Bucket(u, p) = r.bucket}
               \/ Bucket(t, p) < now - RollupKeep[p] /\ t \notin samples
    <3>1. t \in Nat
      BY <1>3, <1>4
    <3>2. CASE t < start
      <4>1. Bucket(t, p) + p <= watermark[p] /\ Bucket(t, p) + p <= start /\ Bucket(t, p) \in Nat
        BY <1>8, <1>11, <3>1, <3>2
      <4>2. ASSUME NEW n \in new PROVE n.bucket # Bucket(t, p)
        BY <1>3, <1>4, <1>12, <4>1
      <4>3. ASSUME NEW r \in rolled[p], r.bucket = Bucket(t, p) PROVE r \in rolled'[p]
        BY <1>13, <4>2, <4>3
      <4>4. QED
        BY <1>3, <4>1, <4>3 DEF StorageInv, StoreInv, Rolled
    <3>3. CASE t >= start
      <4> DEFINE b == Bucket(t, p)
                 r == [bucket |-> b, of |-> {u \in due : Bucket(u, p) = b}]
      <4>1. b \in Nat /\ t < b + p /\ b >= start
        BY <1>8, <3>1, <3>3
      <4>2. t \in samples /\ t < end
        BY <1>3, <1>4, <1>10, <2>1, <3>1, <3>3, <4>1
      <4>3. t \in due
        BY <3>3, <4>2 DEF due
      <4>4. r \in rolled'[p]
        BY <1>9, <1>13, <4>3
      <4>5. ASSUME NEW u \in Nat, Bucket(u, p) = b PROVE u \in due <=> u \in onTime[p]
        <5>1. start <= u /\ u < end
          BY <1>3, <1>4, <1>8, <2>1, <4>1, <4>5
        <5>2. QED
          BY <1>10, <5>1 DEF due
      <4>6. r.of = {u \in onTime[p] : Bucket(u, p) = b}
        BY <1>3, <1>4, <1>5, <4>5
      <4>7. QED
        BY <4>4, <4>6
    <3>4. QED
      BY <1>4, <3>1, <3>2, <3>3
  <2>2. ASSUME NEW q \in Periods, q # p, NEW t \in onTime[q], Bucket(t, q) + q <= watermark'[q]
        PROVE  \/ \E r \in rolled'[q] :
                     r.bucket = Bucket(t, q) /\ r.of = {u \in onTime[q] : Bucket(u, q) = r.bucket}
               \/ Bucket(t, q) < now - RollupKeep[q] /\ t \notin samples
    BY <1>13, <2>2 DEF StorageInv, StoreInv, Rolled
  <2>3. QED
    BY <1>1, <1>13, <2>1, <2>2 DEF Rolled
<1>20. Passed'
  <2>1. ASSUME NEW t \in onTime[p], t >= end PROVE loop.began <= t + PassTime + p
    <3>1. t \in Nat
      BY <1>3, <1>4
    <3>2. QED
      BY <1>3, <1>4, <1>7, <2>1, <3>1, PassAssumption
  <2>2. ASSUME NEW q \in Periods \ loop.todo, q # p, NEW t \in onTime[q], t >= watermark'[q]
        PROVE  loop.began <= t + PassTime + q
    BY <1>1, <1>13, <2>2 DEF StorageInv, PassInv, Passed
  <2>3. QED
    BY <1>1, <1>13, <1>14, <2>1, <2>2 DEF Passed
<1>21. QED
  BY <1>14, <1>15, <1>16, <1>17, <1>18, <1>19, <1>20
     DEF StorageInv, StoreInv, PassInv, Finished, Writing

\* A poll writes no sample behind a rollup.
LEMMA PollKeeps ==
    ASSUME StorageInv, TypeOK', Poll
    PROVE  StorageInv'
<1>1. UNCHANGED <<now, loop>>
  BY DEF Poll
<1>2. CASE PollBegins(now)
  <2>1. UNCHANGED <<samples, rolled, watermark, onTime>> /\ polling = {} /\ polling' = {now}
    BY <1>2 DEF PollBegins
  <2>2. Watermarks' /\ RowsBehind' /\ Unrolled' /\ Rolled'
    BY <1>1, <2>1, TablesKept
  <2>3. Clocks'
    BY <1>1, <2>1, PassAssumption DEF StorageInv, StoreInv, Clocks, TypeOK
  <2>4. PassInv'
    BY <1>1, <2>1 DEF StorageInv, PassInv, Passed, Finished, Writing, Window, Period, Aligned
  <2>5. QED
    BY <2>2, <2>3, <2>4 DEF StorageInv, StoreInv
<1> DEFINE from == [p \in Periods |-> IF loop.at = "writing" /\ p = Period
                                     THEN loop.window.start ELSE watermark[p]]
<1>3. CASE PollWrites(from, now)
  <2>1. PICK ts \in polling :
          /\ polling' = {}
          /\ samples' = samples \cup {ts}
          /\ onTime' = [p \in Periods |-> IF ts >= from[p] \/ now < Bucket(ts, p) + p
                                         THEN onTime[p] \cup {ts} ELSE onTime[p]]
          /\ UNCHANGED <<rolled, watermark>>
    BY <1>3 DEF PollWrites
  <2>2. /\ ts \in Nat /\ now \in Nat /\ ts <= now /\ now <= ts + PassTime
        /\ samples \in SUBSET Nat /\ onTime \in [Periods -> SUBSET Nat]
        /\ watermark \in [Periods -> Nat \cup {Unset}]
        /\ \A t \in samples : t <= ts
        /\ loop \in Loop /\ loop.began \in Nat /\ loop.since \in Nat /\ loop.window.start \in Nat
    BY <2>1, LoopType DEF StorageInv, TypeOK, StoreInv, Clocks
  <2>3. ASSUME NEW p \in Periods, loop.at = "writing", p = Period
        PROVE  /\ watermark[p] # Unset => loop.window.start = watermark[p]
               /\ watermark[p] = Unset => loop.window.start <= ts
               /\ loop.window.start < Bucket(loop.since, p) /\ loop.since <= now
    <3>1. Window(p)
      BY <2>3 DEF StorageInv, PassInv, Writing
    <3>2. ASSUME watermark[p] = Unset PROVE loop.window.start <= ts
      <4>1. PICK s \in samples : loop.window.start <= s
        BY <3>1, <3>2 DEF Window
      <4>2. s \in Nat /\ s <= ts
        BY <2>2
      <4>3. QED
        BY <2>2, <4>1, <4>2
    <3>3. loop.since <= now
      BY <2>3 DEF StorageInv, StoreInv, Clocks
    <3>4. QED
      BY <3>1, <3>2, <3>3 DEF Window
  \* On time is behind no watermark.
  <2>4. ASSUME NEW p \in Periods
        PROVE  onTime'[p] = IF ts >= watermark[p] THEN onTime[p] \cup {ts} ELSE onTime[p]
    <3>1. p \in Nat \ {0} /\ watermark[p] \in Nat \cup {Unset}
      BY <2>2, PeriodType
    <3>2. now < Bucket(ts, p) + p => watermark[p] <= ts
      <4>1. CASE watermark[p] = Unset
        BY <2>2, <4>1 DEF Unset
      <4>2. CASE watermark[p] # Unset
        <5>1. Aligned(watermark[p], p) /\ watermark[p] <= now
          BY <4>2 DEF StorageInv, StoreInv, Watermarks
        <5>2. ts < watermark[p] => Bucket(ts, p) + p <= watermark[p]
          BY <2>2, <3>1, <5>1, Sides
        <5>3. Bucket(ts, p) \in Nat
          BY <2>2, <3>1, BucketBounds
        <5>4. QED
          BY <2>2, <3>1, <4>2, <5>1, <5>2, <5>3
      <4>3. QED
        BY <4>1, <4>2
    <3>3. from[p] <= ts <=> watermark[p] <= ts
      BY <2>2, <2>3, <3>1 DEF Unset
    <3>4. QED
      BY <2>1, <2>2, <3>1, <3>2, <3>3
  <2> HIDE DEF from
  <2>5. Clocks'
    BY <1>1, <2>1, <2>2 DEF StorageInv, StoreInv, Clocks
  <2>6. Watermarks' /\ RowsBehind'
    BY <1>1, <2>1 DEF StorageInv, StoreInv, Watermarks, RowsBehind, Aligned
  <2>7. Unrolled'
    <3>1. ASSUME NEW p \in Periods, NEW t \in samples' \cup onTime'[p], t >= watermark[p]
          PROVE  t \in samples' /\ t \in onTime'[p]
      BY <2>1, <2>4, <3>1 DEF StorageInv, StoreInv, Unrolled
    <3>2. QED
      BY <2>1, <3>1 DEF Unrolled
  <2>8. Rolled'
    <3>1. ASSUME NEW p \in Periods, NEW t \in onTime'[p], Bucket(t, p) + p <= watermark[p]
          PROVE  \/ \E r \in rolled[p] :
                       r.bucket = Bucket(t, p) /\ r.of = {u \in onTime'[p] : Bucket(u, p) = r.bucket}
                 \/ Bucket(t, p) < now - RollupKeep[p] /\ t \notin samples'
      <4>1. p \in Nat \ {0} /\ watermark[p] \in Nat \cup {Unset} /\ watermark[p] \in Int
        BY <2>2, PeriodType DEF Unset
      <4>2. watermark[p] # Unset => Aligned(watermark[p], p)
        BY DEF StorageInv, StoreInv, Watermarks
      <4>3. t \in Nat
        BY <2>2, <2>4
      <4>4. Bucket(t, p) \in Nat /\ t < Bucket(t, p) + p /\ Bucket(ts, p) \in Nat
        <5>1. \A u \in Nat : Bucket(u, p) \in Nat /\ u < Bucket(u, p) + p
          BY <4>1, BucketBounds
        <5>2. QED
          BY <2>2, <4>3, <5>1
      <4>5. ts >= watermark[p] => Bucket(ts, p) >= watermark[p]
        BY <2>2, <4>1, <4>2, Sides
      <4>6. ts >= watermark[p] => Bucket(ts, p) # Bucket(t, p) /\ ts # t
        <5>1. Bucket(ts, p) = Bucket(t, p) => ~(Bucket(ts, p) >= watermark[p])
          BY <3>1, <4>1, <4>4
        <5>2. QED
          BY <4>5, <5>1
      <4>7. t \in onTime[p]
        <5>1. CASE ts >= watermark[p]
          <6>1. onTime'[p] = onTime[p] \cup {ts}
            BY <2>4, <5>1
          <6>2. t # ts
            BY <4>6, <5>1
          <6>3. QED
            BY <6>1, <6>2
        <5>2. CASE ~(ts >= watermark[p])
          BY <2>4, <5>2
        <5>3. QED
          BY <5>1, <5>2
      <4>8. {u \in onTime'[p] : Bucket(u, p) = Bucket(t, p)}
              = {u \in onTime[p] : Bucket(u, p) = Bucket(t, p)}
        BY <2>4, <4>6
      <4>9. Bucket(t, p) < now - RollupKeep[p] => t # ts
        <5>1. /\ RollupKeep[p] \in Nat /\ RawKeep \in Nat /\ PassTime \in Nat
              /\ RawKeep + p <= RollupKeep[p] /\ 2 * PassTime + p <= RawKeep
          BY KeepAssumption, PassAssumption
        <5>2. QED
          BY <2>2, <4>1, <4>3, <4>4, <5>1
      <4>10. QED
        BY <2>1, <3>1, <4>7, <4>8, <4>9 DEF StorageInv, StoreInv, Rolled
    <3>2. QED
      BY <1>1, <2>1, <3>1 DEF Rolled
  <2>9. Passed'
    <3>1. ASSUME NEW p \in Periods \ loop.todo, loop.at # "asleep",
                 NEW t \in onTime'[p], t >= watermark[p]
          PROVE  loop.began <= t + PassTime + p
      <4>1. CASE t \in onTime[p]
        BY <3>1, <4>1 DEF StorageInv, PassInv, Passed
      <4>2. CASE t = ts
        <5>1. loop.began <= now /\ p \in Nat /\ PassTime \in Nat
          BY <3>1, PeriodType, PassAssumption DEF StorageInv, StoreInv, Clocks
        <5>2. loop.began <= ts + PassTime
          BY <2>2, <5>1
        <5>3. loop.began <= ts + PassTime + p
          BY <2>2, <5>1, <5>2
        <5>4. QED
          BY <4>2, <5>3
      <4>3. onTime'[p] \subseteq onTime[p] \cup {ts}
        BY <2>4, <3>1
      <4>4. QED
        BY <4>1, <4>2, <4>3
    <3>2. QED
      BY <1>1, <2>1, <3>1 DEF Passed
  <2>10. Writing'
    <3>1. ASSUME loop.at = "writing", loop.todo # {}, Window(Period) PROVE Window(Period)'
      <4>1. Period \in Periods
        BY <3>1, PeriodInTodo DEF StorageInv
      <4>2. watermark[Period] = Unset => \A t \in samples' : loop.window.start <= t
        BY <2>1, <2>3, <3>1, <4>1 DEF Window
      <4>3. samples' # {} /\ Period' = Period
        BY <1>1, <2>1 DEF Period
      <4>4. QED
        BY <1>1, <2>1, <3>1, <4>2, <4>3 DEF Window, Aligned
    <3>2. QED
      BY <1>1, <3>1 DEF StorageInv, PassInv, Writing
  <2>11. QED
    BY <1>1, <2>5, <2>6, <2>7, <2>8, <2>9, <2>10 DEF StorageInv, StoreInv, PassInv, Finished
<1>4. QED
  BY <1>2, <1>3 DEF Poll

\* Retention spares what is not rolled up, and of a row only what its samples outlived.
LEMMA RetentionKeeps ==
    ASSUME StorageInv, TypeOK', Retention
    PROVE  StorageInv'
<1>1. loop.at = "retention" /\ loop' = Asleep /\ now' = now
  BY DEF Retention
<1>2. CASE UNCHANGED storageVars
  BY <1>1, <1>2, LoopOnly DEF storageVars
<1>3. CASE ApplyRetention(now)
  <2>1. /\ samples' = {t \in samples : t >= now - RawKeep}
        /\ rolled' = [p \in Periods |-> {r \in rolled[p] : r.bucket >= now - RollupKeep[p]}]
        /\ UNCHANGED <<watermark, polling, onTime>>
    BY <1>3 DEF ApplyRetention
  <2>2. /\ samples \in SUBSET Nat /\ onTime \in [Periods -> SUBSET Nat]
        /\ watermark \in [Periods -> Nat \cup {Unset}] /\ now \in Nat /\ loop.began \in Nat
        /\ now <= loop.began + PassTime
        /\ rolled \in [Periods -> SUBSET RollupRow]
    BY <1>1, LoopType DEF StorageInv, TypeOK, StoreInv, Clocks
  <2>3. loop.todo = {}
    BY <1>1 DEF StorageInv, PassInv, Finished
  <2>4. ASSUME NEW p \in Periods
        PROVE  /\ p \in Nat \ {0} /\ RollupKeep[p] \in Nat /\ RawKeep \in Nat /\ PassTime \in Nat
               /\ RawKeep + p <= RollupKeep[p] /\ 2 * PassTime + p <= RawKeep
    BY PeriodType, KeepAssumption, PassAssumption
  <2>5. loop'.at = "asleep"
    BY <1>1 DEF Asleep
  <2>6. Clocks' /\ Watermarks' /\ RowsBehind'
    BY <1>1, <2>1, <2>5 DEF StorageInv, StoreInv, Clocks, Watermarks, RowsBehind, Aligned
  <2>7. Unrolled'
    <3>1. ASSUME NEW p \in Periods, NEW t \in samples \cup onTime[p], t >= watermark[p]
          PROVE  t \in samples' /\ t \in onTime[p]
      <4>1. t \in samples /\ t \in onTime[p] /\ t \in Nat
        BY <2>2, <3>1 DEF StorageInv, StoreInv, Unrolled
      <4>2. loop.began <= t + PassTime + p
        BY <1>1, <2>3, <3>1, <4>1 DEF StorageInv, PassInv, Passed
      <4>3. t >= now - RawKeep
        BY <2>2, <2>4, <4>1, <4>2
      <4>4. QED
        BY <2>1, <4>1, <4>3
    <3>2. QED
      BY <2>1, <3>1 DEF Unrolled
  <2>8. Rolled'
    <3>1. ASSUME NEW p \in Periods, NEW t \in onTime[p], Bucket(t, p) + p <= watermark[p]
          PROVE  \/ \E r \in rolled'[p] :
                       r.bucket = Bucket(t, p) /\ r.of = {u \in onTime[p] : Bucket(u, p) = r.bucket}
                 \/ Bucket(t, p) < now - RollupKeep[p] /\ t \notin samples'
      <4>1. t \in Nat
        BY <2>2
      <4>2. Bucket(t, p) \in Nat /\ t < Bucket(t, p) + p
        BY <2>4, <4>1, BucketBounds
      <4>3. CASE Bucket(t, p) < now - RollupKeep[p]
        <5>1. ~(t >= now - RawKeep)
          BY <2>2, <2>4, <4>1, <4>2, <4>3
        <5>2. QED
          BY <2>1, <4>3, <5>1
      <4>4. CASE ~(Bucket(t, p) < now - RollupKeep[p])
        <5>1. PICK r \in rolled[p] :
                r.bucket = Bucket(t, p) /\ r.of = {u \in onTime[p] : Bucket(u, p) = r.bucket}
          BY <3>1, <4>4 DEF StorageInv, StoreInv, Rolled
        <5>2. r.bucket >= now - RollupKeep[p]
          BY <2>2, <2>4, <4>2, <4>4, <5>1
        <5>3. r \in rolled'[p]
          BY <2>1, <5>2
        <5>4. QED
          BY <5>1, <5>3
      <4>5. QED
        BY <4>3, <4>4
    <3>2. QED
      BY <1>1, <2>1, <3>1 DEF Rolled
  <2>9. QED
    BY <2>5, <2>6, <2>7, <2>8 DEF StorageInv, StoreInv, PassInv, Passed, Finished, Writing
<1>4. QED
  BY <1>2, <1>3 DEF Retention, storageVars

LEMMA StorageInitially == Init => StorageInv
<1> SUFFICES ASSUME Init PROVE StorageInv
  OBVIOUS
<1>1. TypeOK /\ loop.at = "asleep"
  BY Initially DEF Init, Asleep
<1>2. Clocks /\ Watermarks /\ RowsBehind /\ Unrolled /\ Rolled
  BY <1>1 DEF Init, StorageInit, Clocks, Watermarks, RowsBehind, Unrolled, Rolled
<1>3. QED
  BY <1>1, <1>2 DEF StorageInv, StoreInv, PassInv, Passed, Finished, Writing

LEMMA StoragePreserved == StorageInv /\ [Next]_vars => StorageInv'
<1> SUFFICES ASSUME StorageInv, [Next]_vars PROVE StorageInv'
  OBVIOUS
<1>1. TypeOK' /\ loop \in Loop
  BY TypePreserved DEF StorageInv, TypeOK
<1>2. CASE Wake
  <2>1. UNCHANGED <<samples, rolled, watermark, onTime, polling, now>>
    BY <1>2 DEF Wake, Untouched, storageVars
  <2>2. loop'.at = "rollup" /\ loop'.began = now /\ loop'.since = now /\ loop'.todo = Periods
    BY <1>2 DEF Wake, Asleep
  <2>3. Watermarks' /\ RowsBehind' /\ Unrolled' /\ Rolled'
    BY <2>1, TablesKept
  <2>4. Clocks'
    BY <2>1, <2>2, PassAssumption DEF StorageInv, TypeOK, StoreInv, Clocks
  <2>5. QED
    BY <1>1, <2>2, <2>3, <2>4 DEF StorageInv, StoreInv, PassInv, Passed, Finished, Writing
<1>3. CASE RollupReads
  BY <1>1, <1>3, ReadsKeeps
<1>4. CASE RollupEnds
  BY <1>1, <1>4, WritesKeep
<1>5. CASE RunDue
  <2>1. UNCHANGED <<samples, rolled, watermark, onTime, polling, now>>
    BY <1>5 DEF RunDue, Untouched, storageVars
  <2>2. loop.at = "rollup" /\ loop.todo = {}
    BY <1>5 DEF RunDue
  <2>3. loop'.todo = loop.todo /\ loop'.began = loop.began /\ loop'.at \in {"building", "retention"}
    BY <1>1, <1>5 DEF RunDue, Loop
  <2>4. QED
    BY <1>1, <2>1, <2>2, <2>3, LoopOnly
<1>6. CASE LoopSends \/ LoopRecords \/ BuildFails
  <2>1. UNCHANGED <<samples, rolled, watermark, onTime, polling, now>>
    BY <1>6 DEF LoopSends, LoopRecords, BuildFails, Untouched, storageVars
  <2>2. loop.at \in {"building", "sent"}
    BY <1>6 DEF LoopSends, LoopRecords, BuildFails
  <2>3. loop'.todo = loop.todo /\ loop'.began = loop.began /\ loop'.at \in {"sent", "retention"}
    BY <1>1, <1>6 DEF LoopSends, LoopRecords, BuildFails, Loop
  <2>4. loop.todo = {}
    BY <2>2 DEF StorageInv, PassInv, Finished
  <2>5. QED
    BY <1>1, <2>1, <2>2, <2>3, <2>4, LoopOnly
<1>7. CASE Retention
  BY <1>1, <1>7, RetentionKeeps
<1>8. CASE Raises
  BY <1>1, <1>8, LoopOnly DEF Raises, storageVars
<1>9. CASE Poll
  BY <1>1, <1>9, PollKeeps
<1>10. CASE Edit \/ SendNow
  BY <1>1, <1>10, LoopOnly DEF Edit, SendNow, storageVars
<1>11. CASE Restart
  BY <1>1, <1>11, LoopOnly DEF Restart
<1>12. CASE Tick
  <2>1. UNCHANGED <<samples, rolled, watermark, onTime, polling, loop>> /\ now' = now + 1
    BY <1>12 DEF Tick, storageVars
  <2>2. Watermarks' /\ RowsBehind' /\ Unrolled' /\ Rolled'
    BY <2>1, TablesKept
  <2>3. Clocks'
    <3>1. now \in Nat /\ samples \in SUBSET Nat /\ polling \in SUBSET Nat /\ PassTime \in Nat
          /\ loop.began \in Nat
      BY <1>1, LoopType, PassAssumption DEF StorageInv, TypeOK
    <3>2. /\ loop.at # "asleep" => now < loop.began + PassTime
          /\ \A ts \in polling : now < ts + PassTime
      BY <1>12 DEF Tick
    <3>3. \A t \in samples : t <= now'
      BY <2>1, <3>1 DEF StorageInv, StoreInv, Clocks
    <3>4. \A ts \in polling : ts <= now' /\ now' <= ts + PassTime
      BY <2>1, <3>1, <3>2 DEF StorageInv, StoreInv, Clocks
    <3>5. loop.at # "asleep" => loop.began <= now' /\ now' <= loop.began + PassTime
      BY <2>1, <3>1, <3>2 DEF StorageInv, StoreInv, Clocks
    <3>6. QED
      BY <2>1, <3>3, <3>4, <3>5 DEF StorageInv, StoreInv, Clocks
  <2>4. PassInv'
    BY <2>1 DEF StorageInv, PassInv, Passed, Finished, Writing, Window, Period, Aligned
  <2>5. QED
    BY <1>1, <2>2, <2>3, <2>4 DEF StorageInv, StoreInv
<1>13. CASE UNCHANGED vars
  BY <1>1, <1>13, LoopOnly DEF vars, storageVars
<1>14. QED
  BY <1>2, <1>3, <1>4, <1>5, <1>6, <1>7, <1>8, <1>9, <1>10, <1>11, <1>12, <1>13 DEF Next, LoopStep

\* A completed bucket of a rollup holds every sample that was stored in time for it, for any
\* periods and times of retention, whatever polls, exceptions and restarts came between
\* (rollup, apply_retention).
THEOREM RollupsCompleteAlways == Spec => []RollupsComplete
<1>1. Spec => []StorageInv
  BY StorageInitially, StoragePreserved, PTL DEF Spec
<1>2. QED
  BY <1>1, CompleteFromInv, PTL

-----------------------------------------------------------------------------
(* Charts.                                                                 *)

\* A sample of the range is in one row or in one point of the tail.
LEMMA OnePoint ==
    ASSUME StorageInv, NEW p \in Periods, NEW first \in samples, NEW end \in samples,
           NEW t \in onTime[p] \cap samples, Bucket(first, p) <= t, t <= end
    PROVE  Cardinality(PointsWith(t, Series(p, Bucket(first, p), end))) = 1
<1> DEFINE start == Bucket(first, p)
           rows == {r \in rolled[p] : start <= r.bucket /\ r.bucket <= end}
           last == IF rows = {} THEN start ELSE Max({r.bucket : r \in rows}) + p
           late == {u \in samples : last <= u /\ u <= end}
           tail == Grouped(late, p)
           points == {x \in rows \X {"rows"} \cup tail \X {"tail"} : t \in x[1].of}
<1>1. Series(p, start, end) = [rows |-> rows, tail |-> tail]
  BY DEF Series, RecentPoints
<1>2. /\ p \in Nat \ {0} /\ first \in Nat /\ end \in Nat /\ t \in Nat /\ samples \in SUBSET Nat
      /\ watermark[p] \in Nat \cup {Unset} /\ rolled[p] \in SUBSET RollupRow
      /\ watermark[p] # Unset => Aligned(watermark[p], p)
  BY PeriodType DEF StorageInv, TypeOK, StoreInv, Watermarks
<1>3. Bucket(t, p) \in Nat /\ Bucket(t, p) <= t /\ t < Bucket(t, p) + p
  BY <1>2, BucketBounds
<1>4. start \in Nat
  BY <1>2, BucketBounds
<1>5. start <= Bucket(t, p)
  BY <1>2, BucketOrder
<1>6. \A r \in rolled[p] : r.bucket \in Nat /\ r.bucket + p <= watermark[p]
                          /\ \A u \in r.of : Bucket(u, p) = r.bucket
  BY <1>2 DEF StorageInv, StoreInv, RowsBehind, RollupRow
<1>7. rows # {} => /\ last \in Nat /\ last <= watermark[p]
                   /\ \A r \in rows : r.bucket + p <= last
  <2> DEFINE B == {r.bucket : r \in rows}
  <2>1. ASSUME rows # {} PROVE B \in SUBSET Nat /\ B # {} /\ \A b \in B : b <= end
    BY <1>2, <1>6, <2>1
  <2>2. ASSUME rows # {} PROVE Max(B) \in B /\ \A b \in B : b <= Max(B)
    <3>1. B \in SUBSET Nat /\ B # {} /\ \A b \in B : b <= end
      BY <2>1, <2>2
    <3> HIDE DEF B
    <3>2. QED
      BY <1>2, <3>1, MaxOfTimes
  <2>3. rows # {} => last = Max(B) + p
    OBVIOUS
  <2>4. ASSUME rows # {}
        PROVE  last \in Nat /\ last <= watermark[p] /\ \A r \in rows : r.bucket + p <= last
    <3>1. PICK m \in rows : m.bucket = Max(B)
      BY <2>2, <2>4
    <3>2. m.bucket \in Nat /\ m.bucket + p <= watermark[p]
      BY <1>6, <3>1
    <3>3. last = m.bucket + p
      BY <2>3, <2>4, <3>1
    <3>4. \A r \in rows : r.bucket \in Nat /\ r.bucket <= m.bucket
      BY <1>6, <2>2, <2>4, <3>1
    <3> HIDE DEF last, rows, B
    <3>5. QED
      BY <1>2, <3>2, <3>3, <3>4
  <2>5. QED
    BY <2>4
<1>8. late \in SUBSET Nat
  BY <1>2
<1>9. /\ \A x \in tail : \E u \in late :
            x = [bucket |-> Bucket(u, p), of |-> {v \in late : Bucket(v, p) = Bucket(u, p)}]
      /\ \A u \in late :
            [bucket |-> Bucket(u, p), of |-> {v \in late : Bucket(v, p) = Bucket(u, p)}] \in tail
  <2> HIDE DEF late
  <2>1. QED
    BY <1>2, <1>8, Groups
<1> HIDE DEF start, last
<1>10. \E one : points = {one}
  <2>1. CASE Bucket(t, p) + p <= watermark[p]
    <3>1. PICK r \in rolled[p] :
            r.bucket = Bucket(t, p) /\ r.of = {u \in onTime[p] : Bucket(u, p) = r.bucket}
      BY <2>1 DEF StorageInv, StoreInv, Rolled
    <3>2. r \in rows /\ t \in r.of
      BY <1>2, <1>3, <1>4, <1>5, <3>1
    <3>3. ASSUME NEW s \in rows, t \in s.of PROVE s = r
      <4>1. s.bucket = Bucket(t, p)
        BY <1>6, <3>3
      <4>2. QED
        BY <3>1, <4>1 DEF StorageInv, StoreInv, RowsBehind
    <3>4. ASSUME NEW s \in tail, t \in s.of PROVE FALSE
      <4>1. t \in late
        BY <1>9, <3>4
      <4>2. last <= t /\ Bucket(t, p) + p <= last /\ last \in Nat
        BY <1>7, <3>1, <3>2, <4>1
      <4>3. QED
        BY <1>2, <1>3, <4>2
    <3>5. points = {<<r, "rows">>}
      <4> HIDE DEF rows, tail
      <4>1. QED
        BY <3>2, <3>3, <3>4
    <3>6. QED
      BY <3>5
  <2>2. CASE ~(Bucket(t, p) + p <= watermark[p])
    <3>1. ASSUME NEW s \in rows, t \in s.of PROVE FALSE
      BY <1>6, <2>2, <3>1
    <3>2. watermark[p] <= t
      <4>1. t < watermark[p] => Bucket(t, p) + p <= watermark[p]
        BY <1>2, Sides
      <4>2. watermark[p] \in Int
        BY <1>2 DEF Unset
      <4>3. QED
        BY <1>2, <2>2, <4>1, <4>2
    <3>3. last <= t
      <4>1. rows = {} => last = start
        BY DEF last
      <4>2. watermark[p] \in Int
        BY <1>2 DEF Unset
      <4>3. QED
        BY <1>2, <1>3, <1>4, <1>5, <1>7, <3>2, <4>1, <4>2
    <3>4. t \in late
      BY <3>3
    <3> DEFINE point == [bucket |-> Bucket(t, p), of |-> {v \in late : Bucket(v, p) = Bucket(t, p)}]
    <3>5. point \in tail /\ t \in point.of
      BY <1>9, <3>4
    <3>6. ASSUME NEW s \in tail, t \in s.of PROVE s = point
      <4>1. PICK u \in late :
              s = [bucket |-> Bucket(u, p), of |-> {v \in late : Bucket(v, p) = Bucket(u, p)}]
        BY <1>9
      <4>2. Bucket(t, p) = Bucket(u, p)
        BY <3>6, <4>1
      <4>3. QED
        BY <4>1, <4>2
    <3>7. points = {<<point, "tail">>}
      <4> HIDE DEF rows, tail, point
      <4>1. QED
        BY <3>1, <3>5, <3>6
    <3>8. QED
      BY <3>7
  <2>3. QED
    BY <2>1, <2>2
<1>11. Cardinality(points) = 1
  <2> HIDE DEF points
  <2>1. QED
    BY <1>10, FS_Singleton
<1> HIDE DEF rows, tail
<1>12. QED
  BY <1>1, <1>11 DEF start, PointsWith

\* A chart drawn from rollups shows every kept sample of its range once (series), for any periods
\* and times of retention, and between any two steps of housekeeping.
THEOREM ChartsNeverStaleAlways == Spec => []ChartsNeverStale
<1>1. StorageInv => ChartsNeverStale
  <2> SUFFICES ASSUME StorageInv, NEW p \in Periods, NEW first \in samples, NEW end \in samples,
                      NEW t \in onTime[p] \cap samples, Bucket(first, p) <= t, t <= end
               PROVE  Cardinality(PointsWith(t, Series(p, Bucket(first, p), end))) = 1
    BY DEF ChartsNeverStale
  <2>1. QED
    BY OnePoint
<1>2. Spec => []StorageInv
  BY StorageInitially, StoragePreserved, PTL DEF Spec
<1>3. QED
  BY <1>1, <1>2, PTL

-----------------------------------------------------------------------------
(* Months.                                                                 *)

LEMMA Induction ==
    ASSUME NEW S, 0 \in S, \A n \in Nat : n \in S => n + 1 \in S
    PROVE  Nat \subseteq S
<1> DEFINE T == Nat \ S
           R == OpToRel(<, Nat)
<1>1. R = {ss \in Nat \X Nat : ss[1] < ss[2]}
  BY DEF OpToRel
<1>2. IsWellFoundedOn(R, Nat)
  BY NatLessThanWellFounded
<1> HIDE DEF R
<1>3. ASSUME T # {} PROVE FALSE
  <2>1. PICK m \in T : \A t \in T : ~(<<t, m>> \in R)
    BY <1>2, <1>3, WFMin
  <2>2. m \in Nat /\ m # 0
    OBVIOUS
  <2>3. m - 1 \in Nat /\ m - 1 < m /\ m - 1 + 1 = m
    BY <2>2
  <2>4. m - 1 \in T
    BY <2>2, <2>3
  <2>5. QED
    BY <1>1, <2>1, <2>3, <2>4
<1>4. QED
  BY <1>3

\* Where each of n periods begins.
Follow(f, n, len) == f = [m \in 1..n |-> IF m = 1 THEN 0 ELSE f[m - 1] + len[m - 1]]

LEMMA FollowExist == ASSUME NEW len PROVE \A n \in Nat : \E f : Follow(f, n, len)
<1> DEFINE S == {n \in Nat : \E f : Follow(f, n, len)}
<1>1. 0 \in S
  <2> DEFINE f == [i \in 1..0 |-> 0]
  <2>1. Follow(f, 0, len)
    BY DEF Follow
  <2>2. QED
    BY <2>1
<1>2. ASSUME NEW n \in Nat, n \in S PROVE n + 1 \in S
  <2>1. PICK f : Follow(f, n, len)
    BY <1>2
  <2> DEFINE last == IF n = 0 THEN 0 ELSE f[n] + len[n]
             g == [m \in 1..n + 1 |-> IF m = n + 1 THEN last ELSE f[m]]
             h == [m \in 1..n + 1 |-> IF m = 1 THEN 0 ELSE g[m - 1] + len[m - 1]]
  <2>2. ASSUME NEW m \in 1..n + 1 PROVE g[m] = h[m]
    <3>1. CASE m = n + 1
      <4>1. g[m] = last
        BY <3>1
      <4>2. m # 1 => g[m - 1] = f[n]
        BY <3>1
      <4>3. QED
        BY <3>1, <4>1, <4>2
    <3>2. CASE m # n + 1
      <4>1. m \in 1..n /\ g[m] = f[m]
        BY <3>2
      <4>2. m # 1 => m - 1 \in 1..n /\ g[m - 1] = f[m - 1]
        BY <4>1
      <4>3. f[m] = IF m = 1 THEN 0 ELSE f[m - 1] + len[m - 1]
        BY <2>1, <4>1 DEF Follow
      <4>4. QED
        BY <4>1, <4>2, <4>3
    <3>3. QED
      BY <3>1, <3>2
  <2>3. g = h
    BY <2>2
  <2>4. Follow(g, n + 1, len)
    BY <2>3 DEF Follow
  <2>5. QED
    BY <2>4
<1> HIDE DEF S
<1>3. Nat \subseteq S
  BY <1>1, <1>2, Induction
<1>4. QED
  BY <1>3 DEF S

\* n periods, and what follows them.
Sequel(f, n, len) ==
    /\ n \in Nat /\ f[1] = 0
    /\ \A m \in 1..n : len[m] \in Nat /\ f[m + 1] = f[m] + len[m]

LEMMA FollowSequel ==
    ASSUME NEW n \in Nat, NEW len, \A m \in 1..n : len[m] \in Nat, NEW f, Follow(f, n + 1, len)
    PROVE  Sequel(f, n, len)
<1>1. \A m \in 1..n + 1 : f[m] = IF m = 1 THEN 0 ELSE f[m - 1] + len[m - 1]
  BY DEF Follow
<1>2. f[1] = 0
  BY <1>1
<1>3. ASSUME NEW m \in 1..n PROVE f[m + 1] = f[m] + len[m]
  <2>1. m + 1 \in 1..n + 1 /\ m + 1 # 1 /\ m + 1 - 1 = m
    OBVIOUS
  <2>2. QED
    BY <1>1, <2>1
<1>4. QED
  BY <1>2, <1>3 DEF Sequel

LEMMA SequelNat == ASSUME NEW n, NEW len, NEW f, Sequel(f, n, len) PROVE \A m \in 1..n + 1 : f[m] \in Nat
<1>1. n \in Nat /\ f[1] = 0 /\ \A m \in 1..n : len[m] \in Nat /\ f[m + 1] = f[m] + len[m]
  BY DEF Sequel
<1> DEFINE S == {i \in Nat : i + 1 \in 1..n + 1 => f[i + 1] \in Nat}
<1>2. 0 \in S
  BY <1>1
<1>3. ASSUME NEW i \in Nat, i \in S PROVE i + 1 \in S
  <2>1. SUFFICES ASSUME i + 1 + 1 \in 1..n + 1 PROVE f[i + 1 + 1] \in Nat
    OBVIOUS
  <2>2. i + 1 \in 1..n
    BY <1>1, <2>1
  <2>3. f[i + 1] \in Nat
    BY <1>1, <1>3, <2>2
  <2>4. len[i + 1] \in Nat /\ f[i + 1 + 1] = f[i + 1] + len[i + 1]
    BY <1>1, <2>2
  <2>5. QED
    BY <2>3, <2>4
<1> HIDE DEF S
<1>4. Nat \subseteq S
  BY <1>2, <1>3, Induction
<1>5. ASSUME NEW m \in 1..n + 1 PROVE f[m] \in Nat
  <2>1. m - 1 \in Nat /\ m - 1 + 1 = m
    BY <1>1
  <2>2. QED
    BY <1>4, <2>1 DEF S
<1>6. QED
  BY <1>5

\* Every day has its period.
LEMMA SequelCovers ==
    ASSUME NEW n, NEW len, NEW f, Sequel(f, n, len), NEW day \in Nat, day < f[n + 1]
    PROVE  \E m \in 1..n : f[m] <= day /\ day < f[m + 1]
<1>1. n \in Nat /\ f[1] = 0
  BY DEF Sequel
<1>2. \A i \in 1..n + 1 : f[i] \in Nat
  BY SequelNat
<1> DEFINE S == {j \in Nat : j \in 1..n /\ day < f[j + 1] => \E m \in 1..n : f[m] <= day /\ day < f[m + 1]}
<1>3. 0 \in S
  OBVIOUS
<1>4. ASSUME NEW j \in Nat, j \in S PROVE j + 1 \in S
  <2>1. SUFFICES ASSUME j + 1 \in 1..n, day < f[j + 1 + 1]
                 PROVE  \E m \in 1..n : f[m] <= day /\ day < f[m + 1]
    OBVIOUS
  <2>2. f[j + 1] \in Nat
    BY <1>1, <1>2, <2>1
  <2>3. CASE f[j + 1] <= day
    BY <2>1, <2>3
  <2>4. CASE day < f[j + 1]
    <3>1. j # 0
      BY <1>1, <2>4
    <3>2. j \in 1..n
      BY <1>1, <2>1, <3>1
    <3>3. QED
      BY <1>4, <2>4, <3>2
  <2>5. QED
    BY <2>2, <2>3, <2>4
<1> HIDE DEF S
<1>5. Nat \subseteq S
  BY <1>3, <1>4, Induction
<1>6. n # 0
  BY <1>1
<1>7. n \in 1..n
  BY <1>1, <1>6
<1>8. QED
  BY <1>1, <1>5, <1>7 DEF S

Months == Len(MonthLengths)

LEMMA Lengths ==
    /\ HoursPerDay \in Nat \ {0} /\ DaysPerWeek \in Nat \ {0} /\ LastMonthDay \in Nat \ {0}
    /\ Months \in Nat /\ Months >= 3 /\ DOMAIN MonthLengths = 1..Months
    /\ \A m \in 1..Months : MonthLengths[m] \in Nat /\ LastMonthDay <= MonthLengths[m]
  BY CalendarAssumption DEF Months

LEMMA MonthsFollow == Sequel(MonthStart, Months, MonthLengths)
<1>1. \E f : Follow(f, Months + 1, MonthLengths)
  <2>1. Months + 1 \in Nat
    BY Lengths
  <2>2. QED
    BY <2>1, FollowExist
<1>2. Follow(MonthStart, Months + 1, MonthLengths)
  BY <1>1 DEF MonthStart, Follow, Months
<1>3. QED
  BY <1>2, Lengths, FollowSequel

LEMMA MonthStarts ==
    /\ MonthStart[1] = 0
    /\ \A m \in 1..Months + 1 : MonthStart[m] \in Nat
    /\ \A m \in 1..Months : MonthStart[m + 1] = MonthStart[m] + MonthLengths[m]
  BY MonthsFollow, SequelNat DEF Sequel

LEMMA MonthIs ==
    ASSUME NEW day \in Nat, day < MonthStart[Months + 1]
    PROVE  LET m == MonthOf(day)
           IN  m \in 1..Months /\ MonthStart[m] <= day /\ day < MonthStart[m + 1]
<1>1. \E m \in 1..Months : MonthStart[m] <= day /\ day < MonthStart[m + 1]
  BY MonthsFollow, SequelCovers
<1>2. \A k \in 1..Months : MonthStart[k] + MonthLengths[k] = MonthStart[k + 1]
  BY MonthStarts
<1>3. MonthOf(day) = CHOOSE k \in 1..Months : MonthStart[k] <= day /\ day < MonthStart[k] + MonthLengths[k]
  BY Lengths DEF MonthOf
<1>4. \E m \in 1..Months : MonthStart[m] <= day /\ day < MonthStart[m] + MonthLengths[m]
  BY <1>1, <1>2
<1> DEFINE m == MonthOf(day)
<1>5. m \in 1..Months /\ MonthStart[m] <= day /\ day < MonthStart[m] + MonthLengths[m]
  BY <1>3, <1>4, Zenon
<1>6. QED
  BY <1>2, <1>5

-----------------------------------------------------------------------------
(* Reports.                                                                *)

\* The run ends before the calendar does.
InCalendar == now < DayStart(MonthStart[Months + 1])

LEMMA EndType == DayStart(MonthStart[Months + 1]) \in Int
<1>1. Months + 1 \in 1..Months + 1 /\ HoursPerDay \in Int
  BY Lengths
<1>2. MonthStart[Months + 1] \in Int
  BY <1>1, MonthStarts
<1>3. QED
  BY <1>1, <1>2 DEF DayStart

LEMMA CalendarInitially == Init => InCalendar
<1>1. StartTime <= Horizon /\ Horizon < DayStart(MonthStart[Months + 1])
  BY CalendarCovers DEF Months
<1>2. StartTime \in Int /\ Horizon \in Int /\ DayStart(MonthStart[Months + 1]) \in Int
  BY StartAssumption, HorizonAssumption, EndType
<1> HIDE DEF StartTime
<1>3. QED
  BY <1>1, <1>2 DEF Init, InCalendar

LEMMA CalendarPreserved == TypeOK /\ InCalendar /\ [Next]_vars => InCalendar'
<1>1. ASSUME TypeOK, InCalendar, Tick PROVE InCalendar'
  <2>1. now < Horizon /\ now' = now + 1 /\ now \in Int
    BY <1>1 DEF Tick, TypeOK
  <2>2. Horizon \in Int /\ Horizon < DayStart(MonthStart[Months + 1])
    BY CalendarCovers, HorizonAssumption DEF Months
  <2>3. DayStart(MonthStart[Months + 1]) \in Int
    BY EndType
  <2>4. now' < DayStart(MonthStart[Months + 1])
    BY <2>1, <2>2, <2>3
  <2>5. QED
    BY <2>4 DEF InCalendar
<1>2. ASSUME TypeOK, InCalendar, [Next]_vars, ~Tick PROVE InCalendar'
  <2>1. now' = now
    BY <1>2 DEF Next, LoopStep, vars, Wake, RollupReads, RollupEnds, RunDue, LoopSends, LoopRecords,
                BuildFails, Retention, Raises, Poll, Edit, SendNow, Restart, Untouched
  <2>2. QED
    BY <1>2, <2>1 DEF InCalendar
<1>3. QED
  BY <1>1, <1>2

LEMMA LatestBehind ==
    ASSUME NEW body \in Bodies, NEW t \in Nat, NEW day \in Int, NEW earlier \in Int, earlier < Day(t)
    PROVE  Latest(day, earlier, body, t) \in Int /\ Latest(day, earlier, body, t) <= t
<1> DEFINE h == HoursPerDay
<1>1. h \in Nat \ {0} /\ body.hour \in Nat /\ body.hour < h
  BY CalendarAssumption DEF Bodies
<1>2. Day(t) \in Int /\ Day(t) * h <= t
  <2>1. Bucket(t, h) <= t
    BY <1>1, BucketBounds
  <2>2. QED
    BY <1>1, <2>1 DEF Bucket, Day
<1>3. At(day, body) \in Int /\ At(earlier, body) \in Int
  <2>1. day * h \in Int /\ earlier * h \in Int
    BY <1>1
  <2>2. QED
    BY <1>1, <2>1 DEF At
<1>4. earlier * h + h <= Day(t) * h
  BY <1>1, <1>2, Multiples
<1>5. At(earlier, body) <= t
  <2>1. earlier * h \in Int /\ Day(t) * h \in Int
    BY <1>1, <1>2
  <2>2. At(earlier, body) = earlier * h + body.hour
    BY DEF At
  <2> HIDE DEF h
  <2>3. QED
    BY <1>1, <1>2, <1>4, <2>1, <2>2
<1>6. QED
  BY <1>3, <1>5 DEF Latest

LEMMA MonthTwo == MonthStart[2] = MonthLengths[1] /\ MonthLengths[1] \in Nat
<1>1. 1 \in 1..Months /\ 1 + 1 = 2
  BY Lengths
<1>2. MonthStart[1 + 1] = MonthStart[1] + MonthLengths[1] /\ MonthStart[1] = 0 /\ MonthLengths[1] \in Nat
  BY <1>1, MonthStarts, Lengths
<1>3. QED
  BY <1>1, <1>2

\* A time of the run is neither in the first month nor after the last one.
LEMMA DayWithin ==
    ASSUME NEW t \in Nat, StartTime <= t, t < DayStart(MonthStart[Months + 1])
    PROVE  Day(t) \in Nat /\ Day(t) < MonthStart[Months + 1] /\ MonthStart[2] <= Day(t)
<1> DEFINE h == HoursPerDay
           d == Day(t)
           b == MonthStart[Months + 1]
           a == MonthStart[2]
<1>1. h \in Nat \ {0}
  BY Lengths
<1>2. d \in Nat /\ d * h <= t /\ t < d * h + h
  <2>1. Bucket(t, h) <= t /\ t < Bucket(t, h) + h
    BY <1>1, BucketBounds
  <2>2. QED
    BY <1>1, <2>1 DEF Bucket, Day
<1>3. b \in Nat /\ a \in Nat
  BY MonthStarts, MonthTwo, Lengths
<1>4. t < b * h /\ a * h <= t
  BY MonthTwo DEF DayStart, StartTime
<1>5. ASSUME b <= d PROVE FALSE
  <2>1. (d - b) * h >= 0
    BY <1>1, <1>2, <1>3, <1>5
  <2>2. (d - b) * h = d * h - b * h /\ d * h \in Int /\ b * h \in Int
    BY <1>1, <1>2, <1>3
  <2> HIDE DEF d, b, h
  <2>3. QED
    BY <1>2, <1>4, <2>1, <2>2
<1>6. ASSUME d < a PROVE FALSE
  <2>1. d * h + h <= a * h
    BY <1>1, <1>2, <1>3, <1>6, Multiples
  <2>2. d * h \in Int /\ a * h \in Int
    BY <1>1, <1>2, <1>3
  <2> HIDE DEF d, a, h
  <2>3. QED
    BY <1>1, <1>2, <1>4, <2>1, <2>2
<1>7. QED
  BY <1>2, <1>3, <1>5, <1>6

LEMMA OccurrenceBehind ==
    ASSUME NEW body \in Schedules, NEW t \in Nat, StartTime <= t, t < DayStart(MonthStart[Months + 1])
    PROVE  PreviousOccurrence(body, t) \in Int /\ PreviousOccurrence(body, t) <= t
<1> DEFINE today == Day(t)
           day == SameWeek(today, body)
<1>1. body \in Bodies /\ body.frequency \in {"daily", "weekly", "monthly"}
  BY SchedulesAssumption DEF Bodies
<1>2. today \in Int
  BY CalendarAssumption DEF Day
<1>3. day \in Int /\ day <= today
  <2>1. Weekday(today) \in Int /\ body.weekday \in Int /\ DaysPerWeek \in Nat \ {0}
    BY <1>1, <1>2, CalendarAssumption DEF Weekday, Bodies
  <2>2. (Weekday(today) - body.weekday) % DaysPerWeek \in Nat
    BY <2>1
  <2>3. QED
    BY <1>2, <2>2 DEF SameWeek
<1>4. DaysPerWeek \in Nat \ {0}
  BY CalendarAssumption
<1>5. CASE body.frequency = "daily"
  <2>1. PreviousOccurrence(body, t) = Latest(today, today - 1, body, t)
    BY <1>5 DEF PreviousOccurrence
  <2> HIDE DEF today
  <2>2. today - 1 \in Int /\ today - 1 < Day(t)
    BY <1>2 DEF today
  <2>3. QED
    BY <1>1, <1>2, <2>1, <2>2, LatestBehind
<1>6. CASE body.frequency = "weekly"
  <2>1. PreviousOccurrence(body, t) = Latest(day, day - DaysPerWeek, body, t)
    BY <1>6 DEF PreviousOccurrence
  <2> HIDE DEF day
  <2>2. day - DaysPerWeek \in Int /\ day - DaysPerWeek < Day(t)
    BY <1>2, <1>3, <1>4
  <2>3. QED
    BY <1>1, <1>3, <2>1, <2>2, LatestBehind
<1>7. CASE body.frequency = "monthly"
  <2> DEFINE m == MonthOf(today)
             inMonth(k) == MonthStart[k] + MonthDay(body) - 1
  <2>1. PreviousOccurrence(body, t) = Latest(inMonth(m), inMonth(m - 1), body, t)
    BY <1>7 DEF PreviousOccurrence
  <2>2. today \in Nat /\ today < MonthStart[Months + 1] /\ MonthStart[2] <= today
    BY DayWithin
  <2>3. m \in 1..Months /\ MonthStart[m] <= today
        /\ today < MonthStart[m + 1]
    <3> HIDE DEF today
    <3>1. QED
      BY <2>2, MonthIs
  <2> HIDE DEF today, m
  <2>4. m # 1 /\ m - 1 \in 1..Months /\ m - 1 + 1 = m
    <3>1. ASSUME m = 1 PROVE FALSE
      <4>1. m + 1 = 2
        BY <3>1
      <4>2. MonthStart[2] \in Int
        BY MonthTwo
      <4>3. QED
        BY <1>2, <2>2, <2>3, <4>1, <4>2
    <3>2. QED
      BY <2>3, <3>1, Lengths
  <2>5. MonthStart[m] = MonthStart[m - 1] + MonthLengths[m - 1] /\ MonthStart[m - 1] \in Nat
        /\ MonthStart[m] \in Nat
    <3>1. m \in 1..Months + 1 /\ m - 1 \in 1..Months + 1 /\ m - 1 \in 1..Months
      BY <2>3, <2>4, Lengths
    <3>2. MonthStart[(m - 1) + 1] = MonthStart[m - 1] + MonthLengths[m - 1]
      BY <3>1, MonthStarts
    <3>3. MonthStart[m - 1] \in Nat /\ MonthStart[m] \in Nat
      BY <3>1, MonthStarts
    <3>4. QED
      BY <2>4, <3>2, <3>3
  <2>6. MonthLengths[m - 1] \in Nat /\ LastMonthDay <= MonthLengths[m - 1] /\ LastMonthDay \in Nat
    BY <2>4, Lengths
  <2>7. MonthDay(body) \in Nat /\ MonthDay(body) <= LastMonthDay
    <3>1. body.monthday \in Int /\ body.monthday >= 0
      BY <1>1, <2>6 DEF Bodies
    <3>2. LastMonthDay \in Nat \ {0}
      BY Lengths
    <3>3. QED
      BY <3>1, <3>2 DEF MonthDay
  <2>8. inMonth(m) \in Int /\ inMonth(m - 1) \in Int /\ inMonth(m - 1) < MonthStart[m]
    BY <2>5, <2>6, <2>7
  <2> HIDE DEF inMonth
  <2>9. inMonth(m - 1) < Day(t)
    BY <1>2, <2>3, <2>5, <2>8 DEF today
  <2>10. QED
    BY <1>1, <2>1, <2>8, <2>9, LatestBehind
<1>8. QED
  BY <1>1, <1>5, <1>6, <1>7

\* What is reported is recorded, unless its record is still to come; a report under way is of an
\* occurrence later than any that was reported.
Building == loop.at = "building" => /\ loop.occurrence <= loop.since /\ loop.since <= now
                                   /\ \A o \in reported : o < loop.occurrence
Sent == loop.at = "sent" => loop.occurrence <= now
Recorded ==
    schedule.exists =>
        /\ schedule.lastRun <= now
        /\ \A o \in reported : o <= schedule.lastRun \/ (loop.at = "sent" /\ o = loop.occurrence)

ReportInv == TypeOK /\ InCalendar /\ Building /\ Sent /\ Recorded

LEMMA ReportNumbers ==
    ASSUME TypeOK, InCalendar
    PROVE  /\ now \in Nat /\ loop.since \in Nat /\ loop.occurrence \in Int
           /\ \A o \in reported : o \in Int
           /\ schedule.exists => schedule.lastRun \in Nat /\ schedule.body \in Schedules
                                /\ schedule \in Schedule
<1>1. StartTime..now \in SUBSET Nat
  BY StartAssumption DEF TypeOK
<1>2. ASSUME NEW o \in Occurrences PROVE o \in Int
  <2>1. CASE o = Never
    BY <2>1 DEF Never
  <2>2. CASE o # Never
    <3>1. PICK body \in Schedules, t \in StartTime..now : o = PreviousOccurrence(body, t)
      BY <1>2, <2>2 DEF Occurrences
    <3>2. t \in Nat /\ StartTime <= t /\ t < DayStart(MonthStart[Months + 1])
      <4>1. t \in Int /\ t <= now /\ now \in Int /\ StartTime <= t
        BY <3>1, StartAssumption DEF TypeOK
      <4>2. QED
        BY <1>1, <4>1, EndType DEF InCalendar
    <3>3. QED
      BY <3>1, <3>2, OccurrenceBehind
  <2>3. QED
    BY <2>1, <2>2
<1>3. loop.occurrence \in Occurrences /\ loop.since \in Nat
  BY LoopType DEF TypeOK
<1>4. schedule = NoSchedule => ~schedule.exists
  BY DEF NoSchedule
<1>5. schedule \in Schedule => schedule.lastRun \in Nat /\ schedule.body \in Schedules
  BY DEF Schedule
<1>6. QED
  BY <1>2, <1>3, <1>4, <1>5 DEF TypeOK

LEMMA ReportInitially == Init => ReportInv
<1>1. Init => TypeOK /\ InCalendar
  BY Initially, CalendarInitially
<1>2. QED
  BY <1>1 DEF Init, ReportInv, Building, Sent, Recorded, Asleep, NoSchedule

LEMMA ReportPreserved ==
    ASSUME ReportInv, [Next]_vars
    PROVE  ReportInv'
<1>1. TypeOK /\ TypeOK' /\ loop \in Loop /\ InCalendar /\ InCalendar'
  BY TypePreserved, CalendarPreserved DEF ReportInv, TypeOK
<1>2. /\ now \in Nat /\ loop.since \in Nat /\ loop.occurrence \in Int
      /\ \A o \in reported : o \in Int
      /\ schedule.exists => schedule.lastRun \in Nat /\ schedule.body \in Schedules
                           /\ schedule \in Schedule
  BY <1>1, ReportNumbers
<1>3. CASE Wake \/ RollupReads \/ RollupEnds \/ Raises
  <2>1. UNCHANGED <<schedule, now, reported>> /\ loop.at \notin {"building", "sent"}
    BY <1>3 DEF Wake, RollupReads, RollupEnds, Raises, Untouched
  <2>2. loop'.at \notin {"building", "sent"}
    <3>1. (Wake => loop'.at = "rollup") /\ (Raises => loop'.at = "asleep")
      <4>1. Wake => loop'.at = "rollup"
        BY DEF Wake, Asleep
      <4>2. Raises => loop'.at = "asleep"
        BY DEF Raises, Asleep
      <4>3. QED
        BY <4>1, <4>2
    <3>2. RollupReads => loop'.at \in {"rollup", "writing"}
      BY <1>1 DEF RollupReads, Loop
    <3>3. RollupEnds => loop'.at = "rollup"
      BY <1>1 DEF RollupEnds, Loop
    <3>4. QED
      BY <1>3, <3>1, <3>2, <3>3
  <2>3. QED
    BY <1>1, <2>1, <2>2 DEF ReportInv, Building, Sent, Recorded
<1>4. CASE RunDue
  <2>1. UNCHANGED <<schedule, now, reported>> /\ loop.at = "rollup"
    BY <1>4 DEF RunDue, Untouched
  <2>2. CASE schedule.exists /\ IsDue(schedule, now)
    <3>1. loop'.at = "building" /\ loop'.since = now
          /\ loop'.occurrence = PreviousOccurrence(schedule.body, now)
      BY <1>1, <1>4, <2>2 DEF RunDue, Loop
    <3>2. PreviousOccurrence(schedule.body, now) \in Int /\ PreviousOccurrence(schedule.body, now) <= now
      <4>1. StartTime <= now /\ now < DayStart(MonthStart[Months + 1])
        BY <1>1 DEF TypeOK, InCalendar
      <4>2. QED
        BY <1>2, <2>2, <4>1, OccurrenceBehind
    <3>3. schedule.lastRun < loop'.occurrence
      BY <2>2, <3>1 DEF IsDue
    <3>4. \A o \in reported : o < loop'.occurrence
      BY <1>2, <2>1, <2>2, <3>1, <3>2, <3>3 DEF ReportInv, Recorded
    <3>5. QED
      BY <1>1, <1>2, <2>1, <3>1, <3>2, <3>4 DEF ReportInv, Building, Sent, Recorded
  <2>3. CASE ~(schedule.exists /\ IsDue(schedule, now))
    <3>1. loop'.at = "retention"
      BY <1>1, <1>4, <2>3 DEF RunDue, Loop
    <3>2. QED
      BY <1>1, <2>1, <3>1 DEF ReportInv, Building, Sent, Recorded
  <2>4. QED
    BY <2>2, <2>3
<1>5. CASE LoopSends
  <2>1. UNCHANGED <<schedule, now>> /\ loop.at = "building"
        /\ reported' = reported \cup {loop.occurrence}
    BY <1>5 DEF LoopSends
  <2>2. loop'.at = "sent" /\ loop'.occurrence = loop.occurrence
    BY <1>1, <1>5 DEF LoopSends, Loop
  <2>3. loop.occurrence <= now
    BY <1>2, <2>1 DEF ReportInv, Building
  <2>4. QED
    BY <1>1, <2>1, <2>2, <2>3 DEF ReportInv, Building, Sent, Recorded
<1>6. CASE LoopRecords
  <2>1. UNCHANGED <<now, reported>> /\ loop.at = "sent" /\ RecordRun(now)
    BY <1>6 DEF LoopRecords, Untouched
  <2>2. loop'.at = "retention"
    BY <1>1, <1>6 DEF LoopRecords, Loop
  <2>3. schedule.exists => schedule'.lastRun = now
    BY <1>2, <2>1 DEF RecordRun, Schedule
  <2>4. schedule'.exists => schedule.exists
    BY <2>1 DEF RecordRun
  <2>5. schedule.exists => \A o \in reported : o <= now
    BY <1>2, <2>1 DEF ReportInv, Recorded, Sent
  <2>6. QED
    BY <1>1, <1>2, <2>1, <2>2, <2>3, <2>4, <2>5 DEF ReportInv, Building, Sent, Recorded
<1>7. CASE BuildFails
  <2>1. UNCHANGED <<now, reported>> /\ loop.at = "building" /\ RecordRun(loop.since)
    BY <1>7 DEF BuildFails, Untouched
  <2>2. loop'.at = "retention"
    BY <1>1, <1>7 DEF BuildFails, Loop
  <2>3. schedule.exists => schedule'.lastRun = loop.since
    BY <1>2, <2>1 DEF RecordRun, Schedule
  <2>4. schedule'.exists => schedule.exists
    BY <2>1 DEF RecordRun
  <2>5. loop.since <= now /\ \A o \in reported : o <= loop.since
    BY <1>2, <2>1 DEF ReportInv, Building
  <2>6. QED
    BY <1>1, <2>1, <2>2, <2>3, <2>4, <2>5 DEF ReportInv, Building, Sent, Recorded
<1>8. CASE Retention
  <2>1. UNCHANGED <<schedule, now, reported>> /\ loop.at = "retention" /\ loop'.at = "asleep"
    BY <1>8 DEF Retention, Asleep
  <2>2. QED
    BY <1>1, <2>1 DEF ReportInv, Building, Sent, Recorded
<1>9. CASE Poll
  BY <1>1, <1>9 DEF Poll, ReportInv, Building, Sent, Recorded
<1>10. CASE Edit
  <2>1. UNCHANGED <<now, loop>> /\ reported' = IF schedule.exists THEN reported ELSE {}
    BY <1>10 DEF Edit
  <2>2. CASE ~schedule.exists
    <3>1. PICK body \in Schedules : CreateSchedule(body, now)
      BY <1>10, <2>2 DEF Edit, PatchSchedule, DeleteSchedule
    <3>2. schedule'.lastRun = 0
      BY <3>1 DEF CreateSchedule, Never
    <3>3. QED
      BY <1>1, <1>2, <2>1, <2>2, <3>2 DEF ReportInv, Building, Sent, Recorded
  <2>3. CASE schedule.exists
    <3>1. schedule'.exists => schedule'.lastRun = schedule.lastRun
      BY <1>2, <1>10, <2>3 DEF Edit, CreateSchedule, PatchSchedule, DeleteSchedule, NoSchedule, Schedule
    <3>2. QED
      BY <1>1, <2>1, <2>3, <3>1 DEF ReportInv, Building, Sent, Recorded
  <2>4. QED
    BY <2>2, <2>3
<1>11. CASE SendNow
  <2>1. UNCHANGED <<now, loop, reported>> /\ schedule.exists /\ RecordRun(now)
    BY <1>11 DEF SendNow
  <2>2. schedule'.lastRun = now
    BY <1>2, <2>1 DEF RecordRun, Schedule
  <2>3. \A o \in reported : o <= now \/ (loop.at = "sent" /\ o = loop.occurrence)
    BY <1>2, <2>1 DEF ReportInv, Recorded
  <2>4. QED
    BY <1>1, <1>2, <2>1, <2>2, <2>3 DEF ReportInv, Building, Sent, Recorded
<1>12. CASE Restart
  <2>1. UNCHANGED <<schedule, now>> /\ loop'.at = "asleep"
        /\ reported' = IF loop.at = "sent" THEN reported \ {loop.occurrence} ELSE reported
    BY <1>12 DEF Restart, Asleep
  <2>2. QED
    BY <1>1, <2>1 DEF ReportInv, Building, Sent, Recorded
<1>13. CASE Tick
  <2>1. UNCHANGED <<schedule, loop, reported>> /\ now' = now + 1
    BY <1>13 DEF Tick
  <2>2. \A x \in Int : x <= now => x <= now'
    BY <1>2, <2>1
  <2>3. QED
    BY <1>1, <1>2, <2>1, <2>2 DEF ReportInv, Building, Sent, Recorded
<1>14. CASE UNCHANGED vars
  BY <1>1, <1>14 DEF vars, ReportInv, Building, Sent, Recorded
<1>15. QED
  BY <1>3, <1>4, <1>5, <1>6, <1>7, <1>8, <1>9, <1>10, <1>11, <1>12, <1>13, <1>14 DEF Next, LoopStep

\* The loop sends no occurrence of a schedule twice, unless the process ended between the sending
\* and its record, for any schedules, however requests edit, replace and send
\* them meanwhile (deliver, run_due).
THEOREM OncePerOccurrenceAlways == Spec => OncePerOccurrence
<1>1. Init => ReportInv
  BY ReportInitially
<1>2. ReportInv /\ [Next]_vars => ReportInv'
  BY ReportPreserved
<1>3. ReportInv => (loop.at = "building" => loop.occurrence \notin reported)
  <2>1. ASSUME ReportInv, loop.at = "building", loop.occurrence \in reported PROVE FALSE
    <3>1. loop.occurrence \in Int /\ loop.occurrence < loop.occurrence
      BY <2>1, ReportNumbers DEF ReportInv, Building
    <3>2. QED
      BY <3>1
  <2>2. QED
    BY <2>1
<1>4. ReportInv /\ [Next]_vars =>
          [loop.at = "building" /\ loop'.at = "sent" => loop.occurrence \notin reported]_vars
  BY <1>3
<1>5. QED
  BY <1>1, <1>2, <1>4, PTL DEF Spec, OncePerOccurrence
=============================================================================

---------------------------- MODULE Housekeeping ----------------------------
(***************************************************************************)
(* The housekeeping loop of Monitor: rollups, then the reports that are    *)
(* due, then retention.  Rollups and retention run in worker threads and a *)
(* delivery is awaited, so polls write samples, and requests edit, send    *)
(* and delete the schedule, between any two steps.  The process may be     *)
(* stopped and started again at any of them.                               *)
(***************************************************************************)
EXTENDS Rollups, ReportSchedule

CONSTANTS Horizon,       \* bound: the hour at which the clock stops
          MaxEvents,     \* bound: polls, and requests to create, edit, send and delete the schedule
          MaxFaults,     \* bound: exceptions, and restarts
          RetentionInterval,
          PassTime       \* what a pass of the loop, or a poll, takes at most: requests have timeouts

ASSUME HorizonAssumption == Horizon \in Nat /\ MaxEvents \in Nat /\ MaxFaults \in Nat
                            /\ RetentionInterval \in Nat
\* A pass and a poll take minutes, raw samples are kept for days.
ASSUME PassAssumption == PassTime \in Nat /\ \A p \in Periods : 2 * PassTime + p <= RawKeep

VARIABLES now,           \* the clock, in hours
          loop,          \* _housekeeping_loop: where it is, and what it holds there
          lastRetention, \* its last_retention, 0 after a start
          events,        \* how many polls and requests there were
          faults,        \* how many exceptions and restarts there were
          reported       \* history: occurrences whose report the loop sent, crashes undone

vars == <<storageVars, schedule, now, loop, lastRetention, events, faults, reported>>

Asleep == [at |-> "asleep", began |-> 0, since |-> 0, todo |-> {}, window |-> NoWindow, occurrence |-> Never]

StartTime == MonthLengths[1] * HoursPerDay
ASSUME StartAssumption == StartTime \in Nat
\* The calendar holds the run, and the month before it.
ASSUME CalendarCovers == StartTime <= Horizon /\ Horizon < DayStart(MonthStart[Len(MonthLengths) + 1])

Occurrences == {Never} \cup {PreviousOccurrence(body, t) : body \in Schedules, t \in StartTime..now}

Loop == [at: {"asleep", "rollup", "writing", "building", "sent", "retention"}, began: Nat, since: Nat,
         todo: SUBSET Periods, window: [start: Nat, end: Nat], occurrence: Occurrences]

RollupRow == [bucket: Nat, of: SUBSET Nat]

TypeOK ==
    /\ samples \subseteq Nat /\ polling \subseteq Nat
    /\ onTime \in [Periods -> SUBSET Nat]
    /\ watermark \in [Periods -> Nat \cup {Unset}]
    /\ rolled \in [Periods -> SUBSET RollupRow]
    /\ schedule \in {NoSchedule} \cup Schedule
    /\ now \in Nat /\ now >= StartTime
    /\ loop \in Loop
    /\ lastRetention \in Nat
    /\ events \in Nat /\ faults \in Nat
    /\ reported \subseteq Occurrences

Init ==
    /\ StorageInit
    /\ schedule = NoSchedule
    /\ now = StartTime
    /\ loop = Asleep /\ lastRetention = 0
    /\ events = 0 /\ faults = 0 /\ reported = {}

Fault == faults < MaxFaults /\ faults' = faults + 1

Untouched == UNCHANGED <<now, lastRetention, events, faults, reported>>

-----------------------------------------------------------------------------
(* The loop.                                                               *)

Period == Min(loop.todo)

\* rollup reads the clock once, and takes the periods in turn.
Wake ==
    /\ loop.at = "asleep"
    /\ loop' = [Asleep EXCEPT !.at = "rollup", !.began = now, !.since = now, !.todo = Periods]
    /\ Untouched /\ UNCHANGED <<storageVars, schedule>>

RollupReads ==
    LET window == RollupWindow(Period, loop.since)
    IN  /\ loop.at = "rollup" /\ loop.todo # {}
        /\ loop' = IF window.end <= window.start
                     THEN [loop EXCEPT !.todo = @ \ {Period}]
                     ELSE [loop EXCEPT !.at = "writing", !.window = window]
        /\ Untouched /\ UNCHANGED <<storageVars, schedule>>

RollupEnds ==
    /\ loop.at = "writing"
    /\ RollupWrites(Period, loop.window)
    /\ loop' = [loop EXCEPT !.at = "rollup", !.todo = @ \ {Period}, !.window = NoWindow]
    /\ Untouched /\ UNCHANGED schedule

\* run_due: the rows that are enabled, each asked whether it is due; deliver begins.
RunDue ==
    /\ loop.at = "rollup" /\ loop.todo = {}
    /\ loop' = IF schedule.exists /\ IsDue(schedule, now)
                 THEN [loop EXCEPT !.at = "building", !.since = now,
                                   !.occurrence = PreviousOccurrence(schedule.body, now)]
                 ELSE [loop EXCEPT !.at = "retention"]
    /\ Untouched /\ UNCHANGED <<storageVars, schedule>>

\* The report is built and rendered, and sent to each channel; a channel that fails is noted.
LoopSends ==
    /\ loop.at = "building"
    /\ loop' = [loop EXCEPT !.at = "sent"]
    /\ reported' = reported \cup {loop.occurrence}
    /\ UNCHANGED <<storageVars, schedule, now, lastRetention, events, faults>>

\* The end of deliver.
LoopRecords ==
    /\ loop.at = "sent"
    /\ RecordRun(now)
    /\ loop' = [loop EXCEPT !.at = "retention", !.occurrence = Never]
    /\ Untouched /\ UNCHANGED storageVars

\* Mutant of BuildFails: a report that cannot be built is tried again every minute.
BuildFailsUnrecorded ==
    /\ loop.at = "building"
    /\ loop' = [loop EXCEPT !.at = "retention", !.occurrence = Never]
    /\ Untouched /\ UNCHANGED <<storageVars, schedule>>

\* run_due catches what building raises, and sets last_run to the time it read.
BuildFails ==
    /\ loop.at = "building"
    /\ RecordRun(loop.since)
    /\ loop' = [loop EXCEPT !.at = "retention", !.occurrence = Never]
    /\ Untouched /\ UNCHANGED storageVars

Retention ==
    /\ loop.at = "retention"
    /\ loop' = Asleep
    /\ IF now - lastRetention > RetentionInterval
         THEN ApplyRetention(now) /\ lastRetention' = now
         ELSE UNCHANGED <<storageVars, lastRetention>>
    /\ UNCHANGED <<schedule, now, events, faults, reported>>

\* The loop catches what rollup and apply_retention raise, and sleeps.
Raises ==
    /\ loop.at \in {"rollup", "writing", "retention"}
    /\ Fault
    /\ loop' = Asleep
    /\ UNCHANGED <<storageVars, schedule, now, lastRetention, events, reported>>

-----------------------------------------------------------------------------
(* Everything else.                                                        *)

Event == events < MaxEvents /\ events' = events + 1

\* A poll writes behind the rollup under way, if it is older than what that will read.
Poll ==
    /\ \/ PollBegins(now) /\ Event
       \/ /\ PollWrites([p \in Periods |-> IF loop.at = "writing" /\ p = Period
                                             THEN loop.window.start ELSE watermark[p]], now)
          /\ UNCHANGED events
    /\ UNCHANGED <<schedule, now, loop, lastRetention, faults, reported>>

Edit ==
    /\ Event
    /\ \/ \E body \in Schedules : CreateSchedule(body, now) \/ PatchSchedule(body)
       \/ DeleteSchedule
    /\ reported' = IF schedule.exists THEN reported ELSE {}
    /\ UNCHANGED <<storageVars, now, loop, lastRetention, faults>>

\* A request to send the report now ends: until its record, a delivery changes nothing here,
\* and the record is for the schedule that has the id then.
SendNow ==
    /\ Event
    /\ schedule.exists
    /\ RecordRun(now)
    /\ UNCHANGED <<storageVars, now, loop, lastRetention, faults, reported>>

Restart ==
    /\ Fault
    /\ loop' = Asleep /\ lastRetention' = 0 /\ polling' = {}
    /\ reported' = IF loop.at = "sent" THEN reported \ {loop.occurrence} ELSE reported
    /\ UNCHANGED <<samples, rolled, watermark, onTime, schedule, now, events>>

Tick ==
    /\ now < Horizon
    /\ loop.at # "asleep" => now < loop.began + PassTime
    /\ \A ts \in polling : now < ts + PassTime
    /\ now' = now + 1
    /\ UNCHANGED <<storageVars, schedule, loop, lastRetention, events, faults, reported>>

LoopStep ==
    \/ Wake \/ RollupReads \/ RollupEnds \/ RunDue \/ LoopSends \/ LoopRecords
    \/ BuildFails \/ Retention

Next == LoopStep \/ Raises \/ Poll \/ Edit \/ SendNow \/ Restart \/ Tick

Spec == Init /\ [][Next]_vars

\* The event loop runs the housekeeping task; its sleep and every delivery have a timeout.
FairSpec == Spec /\ WF_vars(LoopStep)

-----------------------------------------------------------------------------
(* What housekeeping promises.                                             *)

\* Of a completed bucket the rollup holds every sample that was stored before the rollup
\* passed it, whatever polls, retention, exceptions and restarts came between, until
\* its own retention has gone by (rollup, apply_retention).
RollupsComplete ==
    \A p \in Periods : \A t \in onTime[p] :
        Bucket(t, p) + p <= watermark[p] =>
            \/ \E r \in rolled[p] :
                  r.bucket = Bucket(t, p) /\ r.of = {u \in onTime[p] : Bucket(u, p) = r.bucket}
            \/ Bucket(t, p) < now - RollupKeep[p]

\* The points of a chart that a sample is in.
PointsWith(t, chart) ==
    {x \in chart.rows \X {"rows"} \cup chart.tail \X {"tail"} : t \in x[1].of}

\* A chart drawn from rollups shows every sample of its range that is still kept, in exactly
\* one point: between the last rollup and now the tail of raw samples neither leaves a gap nor
\* counts a bucket twice (series).
ChartsNeverStale ==
    \A p \in Periods : \A first \in samples : \A end \in samples :
        LET chart == Series(p, Bucket(first, p), end)
        IN  \A t \in onTime[p] \cap samples :
                Bucket(first, p) <= t /\ t <= end => Cardinality(PointsWith(t, chart)) = 1

\* The loop sends no occurrence of a schedule twice, unless the process ended between the
\* sending and the record of it, although requests edit the schedule, replace it, and
\* send it by hand meanwhile (deliver, run_due).
OncePerOccurrence ==
    [][loop.at = "building" /\ loop'.at = "sent" => loop.occurrence \notin reported]_vars

Due == schedule.exists /\ IsDue(schedule, now)

\* A report that is due does not stay due: when restarts and exceptions end, it is sent or its
\* failure recorded, and a report that cannot be built does not hold up the loop (run_due).
DueIsSettled == Due ~> ~Due
=============================================================================

----------------------------- MODULE CheckRunner -----------------------------
(***************************************************************************)
(* Availability checks: the jobs that Monitor starts for them, by the      *)
(* check loop or by hand, and record_result, which advances a check's      *)
(* up/down state and keeps its outages.                                    *)
(*                                                                         *)
(* A job copies the check row (the snapshot) when it is created, waits for *)
(* a slot of the semaphore, awaits the probe, and only then writes, from   *)
(* the snapshot.  Everything that happens to the row in between is unseen. *)
(* The write is one SQLite transaction, so it is one action here; so is    *)
(* each API handler that runs in a worker thread (one transaction or one   *)
(* statement under the database lock).                                     *)
(*                                                                         *)
(* Time is the number of recorded results: record_result stamps them with  *)
(* time.time(), read just before its transaction, which grows from one     *)
(* record to the next.                                                     *)
(***************************************************************************)
EXTENDS Naturals, Sequences, FiniteSets

CONSTANTS CheckIds,      \* ids of check rows, 1..n
          JobIds,        \* as many jobs as can be in flight together
          RetryValues,   \* values of the "retries" column
          Concurrency,   \* Settings.poller_concurrency, size of the semaphore
          MaxClock,      \* bound: results recorded in a behaviour
          ManualRuns,    \* POST /checks/{id}/run is used
          Deletes        \* checks and devices are deleted

ASSUME CheckIdsAssumption == CheckIds \subseteq Nat \ {0}
ASSUME RetriesAssumption == RetryValues \subseteq Nat /\ RetryValues # {}
ASSUME BoundsAssumption == Concurrency \in Nat \ {0} /\ MaxClock \in Nat
ASSUME SwitchesAssumption == ManualRuns \in BOOLEAN /\ Deletes \in BOOLEAN

VARIABLES rows,       \* ids present in table checks
          check,      \* the columns of each row that record_result uses
          okBeats,    \* table heartbeats, per check id (no foreign key): the
          failBeats,  \*   times of those with ok = 1 and of those with ok = 0
          outages,    \* table outages, per check id, in rowid order
          jobs,       \* Monitor._jobs and the run-now requests
          inflight,   \* Monitor._inflight, the "c<id>" keys
          clock       \* time of the latest recorded result

vars == <<rows, check, okBeats, failBeats, outages, jobs, inflight, clock>>

Open == 0             \* outages.ended_at IS NULL

States == {"unknown", "up", "down"}
Row == [state: States, since: Nat, failCount: Nat, retries: RetryValues, enabled: {0, 1}]
Snapshot == [state: States, failCount: Nat, retries: RetryValues]
Outage == [from: Nat, to: Nat]
Job == [id: JobIds, check: CheckIds, snap: Snapshot, phase: {"queued", "probing"}]

TypeOK ==
    /\ rows \subseteq CheckIds
    /\ check \in [CheckIds -> Row]
    /\ okBeats \in [CheckIds -> SUBSET Nat]
    /\ failBeats \in [CheckIds -> SUBSET Nat]
    /\ outages \in [CheckIds -> Seq(Outage)]
    /\ jobs \subseteq Job
    /\ inflight \subseteq CheckIds
    /\ clock \in Nat

-----------------------------------------------------------------------------
(* The queries and updates of record_result.                               *)

\* A row as create_check inserts it: the other columns take their defaults.
NewRow(retries) ==
    [state |-> "unknown", since |-> 0, failCount |-> 0, retries |-> retries, enabled |-> 1]

\* What the model keeps in "check" for an id that is in no row.
NoRow == NewRow(CHOOSE r \in RetryValues : TRUE)

\* Mutant of FailsSinceOk: the query forgets the last success.
AllFails(c) == failBeats[c]

\* Times of the failures after the last success.
FailsSinceOk(c) == {t \in failBeats[c] : \A u \in okBeats[c] : u < t}

\* Mutant of Earliest: outages are not backdated.
Latest(times) == CHOOSE t \in times : \A u \in times : u <= t

Earliest(times) == CHOOSE t \in times : \A u \in times : t <= u

\* SELECT MIN(ts) ... AND ts > COALESCE((SELECT MAX(ts) ... AND ok = 1), 0),
\* asked when the failure of time ts is in the table.
FirstFail(c, ts) == Earliest(FailsSinceOk(c) \cup {ts})

OpenAt(os) == {i \in DOMAIN os : os[i].to = Open}

\* The outcomes of closing the open outage db.one returns: a query with no ORDER BY.
Closed(os, ts) ==
    IF OpenAt(os) = {} THEN {os} ELSE {[os EXCEPT ![i].to = ts] : i \in OpenAt(os)}

\* Mutants of RowAfterOk: the count is not reset; only a check that was down
\* goes up; only a check that was never probed goes up.
RowAfterOkKeepsCount(row, snap, ts) ==
    IF snap.state # "up" THEN [row EXCEPT !.state = "up", !.since = ts] ELSE row

RowAfterOkFromDown(row, snap, ts) ==
    IF snap.state = "down"
      THEN [row EXCEPT !.failCount = 0, !.state = "up", !.since = ts]
      ELSE [row EXCEPT !.failCount = 0]

RowAfterOkFirstOnly(row, snap, ts) ==
    IF snap.state = "unknown"
      THEN [row EXCEPT !.failCount = 0, !.state = "up", !.since = ts]
      ELSE [row EXCEPT !.failCount = 0]

\* The columns written to a row for a success seen from snapshot snap.
RowAfterOk(row, snap, ts) ==
    IF snap.state # "up"
      THEN [row EXCEPT !.failCount = 0, !.state = "up", !.since = ts]
      ELSE [row EXCEPT !.failCount = 0]

\* Mutant of GoesDown: one failure too early.
GoesDownEarly(snap) == snap.failCount + 1 >= snap.retries /\ snap.state # "down"

\* This failure is one more than the retries, and the check was not down.
GoesDown(snap) == snap.failCount + 1 > snap.retries /\ snap.state # "down"

\* The columns written to a row for a failure; firstFail is the MIN(ts) query.
RowAfterFail(row, snap, firstFail) ==
    IF GoesDown(snap)
      THEN [row EXCEPT !.failCount = snap.failCount + 1, !.state = "down", !.since = firstFail]
      ELSE [row EXCEPT !.failCount = snap.failCount + 1]

\* UPDATE checks ... WHERE id = c, which touches nothing when the row is gone.
UpdateRow(c, row) == check' = IF c \in rows THEN [check EXCEPT ![c] = row] ELSE check

-----------------------------------------------------------------------------
(* Jobs.                                                                   *)

SnapshotOf(c) ==
    [state |-> check[c].state, failCount |-> check[c].failCount, retries |-> check[c].retries]

NextClock == clock + 1

StartJob(c, j) ==
    /\ \A jb \in jobs : jb.id # j
    /\ jobs' = jobs \cup {[id |-> j, check |-> c, snap |-> SnapshotOf(c), phase |-> "queued"]}
    /\ inflight' = inflight \cup {c}
    /\ UNCHANGED <<rows, check, okBeats, failBeats, outages, clock>>

\* Mutant of ScheduleCheck: the loop does not look at the keys in flight.
ScheduleAnyway(c, j) ==
    /\ c \in rows
    /\ check[c].enabled = 1
    /\ StartJob(c, j)

\* _check_loop: an enabled check that is due and whose key is not in flight.
ScheduleCheck(c, j) ==
    /\ c \in rows
    /\ check[c].enabled = 1
    /\ c \notin inflight
    /\ StartJob(c, j)

\* run_check_now: any check, in flight or not.
RunCheckNow(c, j) ==
    /\ ManualRuns
    /\ c \in rows
    /\ StartJob(c, j)

\* The job gets past "async with self._sem" and sends its probe.
AcquireSlot(jb) ==
    /\ jb.phase = "queued"
    /\ Cardinality({k \in jobs : k.phase = "probing"}) < Concurrency
    /\ jobs' = (jobs \ {jb}) \cup {[jb EXCEPT !.phase = "probing"]}
    /\ UNCHANGED <<rows, check, okBeats, failBeats, outages, inflight, clock>>

\* _check_job's end: the slot is released and the key discarded.
FinishJob(jb) ==
    /\ jobs' = jobs \ {jb}
    /\ inflight' = inflight \ {jb.check}

\* record_result for a probe that succeeded.
RecordOk(jb) ==
    LET c == jb.check IN
    /\ jb.phase = "probing"
    /\ clock < MaxClock
    /\ clock' = NextClock
    /\ okBeats' = [okBeats EXCEPT ![c] = @ \cup {NextClock}]
    /\ UpdateRow(c, RowAfterOk(check[c], jb.snap, NextClock))
    /\ IF jb.snap.state # "up"
         THEN \E os \in Closed(outages[c], NextClock) : outages' = [outages EXCEPT ![c] = os]
         ELSE UNCHANGED outages
    /\ FinishJob(jb)
    /\ UNCHANGED <<rows, failBeats>>

\* record_result for a probe that failed.
RecordFail(jb) ==
    LET c == jb.check IN
    /\ jb.phase = "probing"
    /\ clock < MaxClock
    /\ GoesDown(jb.snap) => c \in rows
    /\ clock' = NextClock
    /\ failBeats' = [failBeats EXCEPT ![c] = @ \cup {NextClock}]
    /\ UpdateRow(c, RowAfterFail(check[c], jb.snap, FirstFail(c, NextClock)))
    /\ outages' = IF GoesDown(jb.snap)
                    THEN [outages EXCEPT
                            ![c] = Append(@, [from |-> FirstFail(c, NextClock), to |-> Open])]
                    ELSE outages
    /\ FinishJob(jb)
    /\ UNCHANGED <<rows, okBeats>>

\* The outage insert of a check deleted meanwhile breaks the foreign key: the
\* transaction rolls back, heartbeat included, and _check_job logs the exception.
RecordRolledBack(jb) ==
    /\ jb.phase = "probing"
    /\ GoesDown(jb.snap)
    /\ jb.check \notin rows
    /\ FinishJob(jb)
    /\ UNCHANGED <<rows, check, okBeats, failBeats, outages, clock>>

\* A probe that raises what run_probe does not catch: nothing is recorded.
ProbeCrash(jb) ==
    /\ jb.phase = "probing"
    /\ FinishJob(jb)
    /\ UNCHANGED <<rows, check, okBeats, failBeats, outages, clock>>

\* Monitor.stop cancels every job, or the process dies; then it starts again.
Restart ==
    /\ jobs # {}
    /\ jobs' = {}
    /\ inflight' = {}
    /\ UNCHANGED <<rows, check, okBeats, failBeats, outages, clock>>

-----------------------------------------------------------------------------
(* The API, in worker threads.                                             *)

\* INTEGER PRIMARY KEY without AUTOINCREMENT: one more than the largest id in use.
FreshId == IF rows = {} THEN 1 ELSE 1 + CHOOSE c \in rows : \A d \in rows : d <= c

CreateCheck(retries) ==
    /\ FreshId \in CheckIds
    /\ rows' = rows \cup {FreshId}
    /\ check' = [check EXCEPT ![FreshId] = NewRow(retries)]
    /\ UNCHANGED <<okBeats, failBeats, outages, jobs, inflight, clock>>

\* update_check: the editable columns only, never the state machine's.
UpdateCheck(c, retries, enabled) ==
    /\ c \in rows
    /\ check' = [check EXCEPT ![c].retries = retries, ![c].enabled = enabled]
    /\ UNCHANGED <<rows, okBeats, failBeats, outages, jobs, inflight, clock>>

\* Mutant of DeleteChecks: foreign keys are off, so nothing cascades.
DeleteWithoutCascade(cs) ==
    /\ Deletes
    /\ cs # {}
    /\ rows' = rows \ cs
    /\ check' = [c \in CheckIds |-> IF c \in cs THEN NoRow ELSE check[c]]
    /\ okBeats' = [c \in CheckIds |-> IF c \in cs THEN {} ELSE okBeats[c]]
    /\ failBeats' = [c \in CheckIds |-> IF c \in cs THEN {} ELSE failBeats[c]]
    /\ UNCHANGED <<outages, jobs, inflight, clock>>

\* delete_check for one check, delete_device for all of a device's: heartbeats
\* by hand, outages by the cascade.  Jobs in flight are not told.
DeleteChecks(cs) ==
    /\ Deletes
    /\ cs # {}
    /\ rows' = rows \ cs
    /\ check' = [c \in CheckIds |-> IF c \in cs THEN NoRow ELSE check[c]]
    /\ okBeats' = [c \in CheckIds |-> IF c \in cs THEN {} ELSE okBeats[c]]
    /\ failBeats' = [c \in CheckIds |-> IF c \in cs THEN {} ELSE failBeats[c]]
    /\ outages' = [c \in CheckIds |-> IF c \in cs THEN <<>> ELSE outages[c]]
    /\ UNCHANGED <<jobs, inflight, clock>>

-----------------------------------------------------------------------------
Init ==
    /\ rows = {}
    /\ check = [c \in CheckIds |-> NoRow]
    /\ okBeats = [c \in CheckIds |-> {}]
    /\ failBeats = [c \in CheckIds |-> {}]
    /\ outages = [c \in CheckIds |-> <<>>]
    /\ jobs = {}
    /\ inflight = {}
    /\ clock = 0

JobStep ==
    \E jb \in jobs :
        \/ AcquireSlot(jb)
        \/ RecordOk(jb)
        \/ RecordFail(jb)
        \/ RecordRolledBack(jb)
        \/ ProbeCrash(jb)

Next ==
    \/ \E c \in CheckIds, j \in JobIds : ScheduleCheck(c, j) \/ RunCheckNow(c, j)
    \/ JobStep
    \/ Restart
    \/ \E retries \in RetryValues : CreateCheck(retries)
    \/ \E c \in CheckIds, retries \in RetryValues, enabled \in {0, 1} :
          UpdateCheck(c, retries, enabled)
    \/ \E cs \in SUBSET rows : DeleteChecks(cs)

Spec == Init /\ [][Next]_vars

-----------------------------------------------------------------------------
(* Properties.                                                             *)

\* The outage table and the state column tell the same story: a check that is
\* down has exactly one open outage, its latest, which began when the check's
\* state_since says; any other check has none.  They are written by different
\* statements of record_result, from a snapshot.
OutageMatchesState ==
    \A c \in rows :
        IF check[c].state = "down"
          THEN /\ OpenAt(outages[c]) = {Len(outages[c])}
               /\ outages[c][Len(outages[c])].from = check[c].since
          ELSE OpenAt(outages[c]) = {}

\* Outages of a check, in the order they were inserted, do not touch: each has
\* ended before the first failure of the next, although the start is backdated.
OutagesDisjoint ==
    \A c \in CheckIds : \A i, k \in DOMAIN outages[c] :
        i < k => /\ outages[c][i].from < outages[c][i].to
                 /\ outages[c][i].to < outages[c][k].from

\* An outage covers a maximal run of failed probes: it starts at a failure
\* that follows a success (or nothing), it ends at a success, and no success
\* lies inside it.  This is what makes the downtime of the reports right.
OutageIsMaximalFailureRun ==
    \A c \in CheckIds : \A i \in DOMAIN outages[c] :
        LET o == outages[c][i]
            inside(t) == t >= o.from /\ (o.to = Open \/ t < o.to)
        IN  /\ o.from \in failBeats[c]
            /\ o.to # Open => o.to \in okBeats[c]
            /\ \A t \in okBeats[c] : ~inside(t)
            /\ \A t \in failBeats[c] :
                  t < o.from => \E u \in okBeats[c] : t < u /\ u < o.from

\* fail_count, computed from a snapshot, is the number of failed heartbeats
\* since the last success.
FailCountIsStreak ==
    \A c \in rows : check[c].failCount = Cardinality(FailsSinceOk(c))

\* "A check goes down only after retries + 1 consecutive failures": the failed
\* heartbeats since the last success, the new one included, outnumber the
\* retries the job that records it was started with.
DownOnlyAfterRetries ==
    [][\A c \in CheckIds :
         check[c].state # "down" /\ check'[c].state = "down" =>
             \E jb \in jobs \ jobs' :
                 jb.check = c /\ Cardinality(FailsSinceOk(c)') > jb.snap.retries]_vars

\* "down -> up: probe ok / close outage": a check that is up has no open outage.  It follows
\* from OutageMatchesState while the loop alone starts jobs, and is false with runs by hand.
UpHasNoOpenOutage ==
    \A c \in rows : check[c].state = "up" => OpenAt(outages[c]) = {}

\* However jobs overlap, and whatever is deleted under them, a check shown as
\* down has an open outage: the downtime is never left out of the reports.
DownHasOpenOutage ==
    \A c \in rows : check[c].state = "down" => OpenAt(outages[c]) # {}

\* A job that outlives its check leaves no outage behind, and an outage in the
\* table is never lost or rewritten but by the success that ends it.
OutageHistoryKept ==
    [][\A c \in CheckIds :
         /\ c \notin rows => outages'[c] = <<>>
         /\ c \in rows \cap rows' =>
               /\ Len(outages'[c]) >= Len(outages[c])
               /\ \A i \in DOMAIN outages[c] :
                     outages'[c][i] # outages[c][i] =>
                         /\ outages[c][i].to = Open
                         /\ outages'[c][i].from = outages[c][i].from
                         /\ outages'[c][i].to \in okBeats'[c]]_vars

\* Without manual runs and deletions the runner implements the lifecycle: the
\* job, its snapshot and the heartbeat table are invisible.
StreakStart(c) == IF FailsSinceOk(c) = {} THEN 0 ELSE Earliest(FailsSinceOk(c))

Lifecycle ==
    INSTANCE CheckLifecycle
        WITH status <- [c \in CheckIds |-> check[c].state],
             streak <- [c \in CheckIds |-> check[c].failCount],
             streakStart <- [c \in CheckIds |-> StreakStart(c)],
             log <- outages,
             now <- clock

ImplementsLifecycle == Lifecycle!LifecycleSpec
=============================================================================

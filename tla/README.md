# SNMPathy in TLA+

SNMPathy is one Python process around one SQLite file: it polls devices with SNMP, runs
availability checks, receives syslog, evaluates alert rules and reports. This directory
holds TLA+ models of its core, the TLC configurations that check them, and proofs that
TLAPS checks. Paths below are relative to the repository; `monitor.py` and the like are
under `snmpathy/`.

Run a check with `tlc -workers 2 -config Alerts_loop.cfg MCAlertEngine.tla`, a proof with
`tlapm CheckRunnerProofs.tla`. `PROJECT.json` lists components, runs, findings, hazards
and theorems, and maps each definition to the lines it models.

## 1. The system

### What runs

One asyncio event loop runs the tasks of `Monitor` (poll loop, check loop, alert loop,
housekeeping, syslog writer), the jobs they start, and the `async` API handlers. The other
API handlers run in worker threads, as do rollups, retention and the storing of syslog
batches. So there are two kinds of interleaving:

* coroutines change places only at an `await`;
* worker threads run at any time, between any two statements of a coroutine, but a
  transaction (`Database.transaction`) or a single statement is atomic: it holds the lock
  of the one connection.

This decides what one TLA+ action is: a transaction, a statement, or a stretch of code
without `await` that no worker thread can disturb visibly.

### Inventory

| Component | State | Operations | What is hard | What makes it correct |
|---|---|---|---|---|
| Availability checks (`checks/runner.py`, check part of `monitor.py`) | tables `checks`, `heartbeats`, `outages`; jobs in flight, semaphore, `_inflight` | schedule, run now, probe, `record_result`, create, edit, delete | a job writes from a copy of the row made before it waited; jobs of one check overlap; deletions under a job; restarts | state, fail count, heartbeats and outages tell one story; outages are the maximal runs of failures; down only after retries + 1 |
| Alert engine (`alerting/engine.py`, `alerting/notify.py`, `_alert_loop`) | `alerts`, `alert_rules`, `maintenance`, `channels`, `notifications`; the outbox of an evaluation; the wakeup event | `evaluate`, `dispatch`, loop, `POST /alerts/evaluate`, edits of rules, channels and windows | `evaluate` is neither atomic nor exclusive; the outbox is lost by a crash; notifications overtake each other; lost wakeups | one open alert per fingerprint; channels agree with the table; nothing fires early; windows hold; everything is reported in the end |
| Monitor life cycle | task and job lists, client cache, `_next_poll` | start, stop, forget | cancellation of whatever is in flight | no job after stop; no client closed in use |
| Device poller (`snmp/poller.py`), discovery, client cache | `devices`, `metrics`, `samples`, `interfaces`; `_clients` | poll job, poll now, discover, edit, delete | state read before a long await; client replaced in use; counter wraps, resets, caches | rates never wrong by a wrap; credentials edited are the ones used; no samples of deleted devices |
| Syslog server | queue, batch, counters, device map | enqueue, TCP frames, writer, flush, stop | full queue, cancelled batch, failing insert | every message is stored once, or counted |
| Syslog framing and parser | stream buffer | `split_octet_counted`, `parse`, `_trust` | chunk boundaries; times without a year | same frames however the stream is cut; a message is timed when it was sent, or received |
| Syslog search (`syslog/search.py`) | none | filter, words, pages, histogram, top | an index of words, or `LIKE`, which finds parts of words; operators and exclusions; messages arriving between pages | every match once, newest first; a match is what the query says |
| Probes and SNMP client (`checks/probes.py`, `snmp/client.py`) | the ICMP mode | ping, TCP, HTTP, get, walk | other hosts' packets; means that fail; PDUs cut and asked again | nothing is up, or has a value, without an answer |
| Storage (`storage.py`) | `samples`, `rollups`, watermark | rollup, retention, series | late samples, late passes, restarts | each completed bucket is rolled up from all its samples; charts have no seams |
| Availability reports (`reports.py`) | none | interval algebra, availability, days, SLA | boundaries, overlapping windows | the figures of counting second by second |
| Report figures, dashboards (`reporting.py`, `dashboards.py`) | none | statistics, percentile, volume, buckets of panels | seams between rollups of two periods and raw samples | no sample counts twice, none is left out (not so in the hour of the oldest raw sample) |
| Scheduled reports (`scheduled.py`) | `report_schedules.last_run` | `is_due`, `deliver`, `run_due`, send now | restart and failure around a delivery; calendar edges | delivered once per period; periods meet |
| Configuration (`services.py`, `api.py`) | all configuration tables | create, edit, delete, seed, import, export | names, ids and secrets across export, import and old pages | a backup restores; an import is idempotent |
| Database (`db.py`) | one connection, one lock | statements, transactions | nested transactions, id reuse | (the ground the models stand on) |
| Grafana endpoint, UI, rendering, CLI, demo, packaging | reading and presentation | | | not modelled |

How they interact: check and poll jobs set the alert loop's event (`_alert_wakeup`); the
alert engine reads `checks.state`, `devices.status`, `metrics.last_value` and `syslog`;
reports read `outages`; deletions in `services.py` pull rows from under all of them.

## 2. The modules

| Module | What it is |
|---|---|
| `CheckRunner` | checks: jobs, snapshots, `record_result`, API edits and deletions |
| `CheckLifecycle` | what the checks promise: results applied one after the other to the check's own state; `CheckRunner` is shown to implement it |
| `CheckRunnerProofs` | type invariant; a down check has an open outage and the history of outages is kept, whatever overlaps; the inductive invariant of the scheduled case, five safety properties, and that `CheckRunner` implements `CheckLifecycle` |
| `AlertEngine` | alert rules: `evaluate`, dispatch, the alert loop, requests, edits, windows |
| `AlertEngineProofs` | its type invariant; one open alert per fingerprint; windows hold; alerts fire by what evaluations saw; channels agree with the table |
| `SyslogIngest` | syslog from arrival to table: queue, writer, worker threads, stop and flush |
| `SyslogIngestProofs` | its invariants: messages are stored once and in order, losses are counted, `stop` loses one batch |
| `TcpFraming` | one TCP connection: `split_octet_counted` and `_handle_tcp`, byte by byte |
| `TcpFramingProofs` | the frames are the messages that were sent, however the stream is cut |
| `DevicePoller` | one polled device: poll jobs, discovery, one counter, edits of credentials, restarts |
| `DevicePollerProofs` | its type invariant; three safety properties while only the loop polls |
| `Buckets`, `Rollups` | samples, rollups, watermarks, retention, charts, for one metric |
| `Calendar`, `ReportSchedule` | local time, occurrences, report periods; the row of a scheduled report |
| `Housekeeping` | the housekeeping loop, which composes `Rollups` and `ReportSchedule`, among polls, requests, restarts |
| `HousekeepingProofs` | its type invariant; rollups and charts are right; no occurrence is sent twice |
| `Configuration` | configuration tables, requests, seeding, export and import |
| `ConfigurationProofs` | its invariant; secrets survive pages; a backup restores, an import is idempotent |
| `Availability` | the interval functions and figures of `reports.py` |
| `SyslogSearch` | the filter, the query with and without the index, pages, histogram and top lists |
| `MetricReports` | statistics, percentiles, volumes, buckets of panels |
| `Counters` | counter deltas, and the baseline `compute_value` keeps |
| `Probes`, `SnmpClient` | probes and GETs as functions of what the network answers |
| `SyslogParse` | forms, fields and times of syslog messages |
| `Computations` | a bench for the seven modules above and `Calendar`: their inputs grow step by step, their results are compared with reference definitions |
| `ComputationsProofs` | periods of reports tile the time; availability is what counting seconds gives; stamps are trusted; probes need an answer; figures and charts agree with the samples; rates add up |
| `MC...` | instances for TLC |

### CheckRunner

`check[c]` holds the columns `record_result` reads and writes. `okBeats` and `failBeats`
are table `heartbeats` split by `ok`; that table has no foreign key, so rows can exist for
an id in no `checks` row. `outages[c]` is the table in rowid order. A job is a record with
the check's id, the *snapshot* of the row taken when the job was created, and its phase:
queued for the semaphore, or probing.

`ScheduleCheck` is the check loop for one due check (due times are abstracted: any enabled
check not in flight may be due). `RunCheckNow` is the API's run, which does not look at
`_inflight`. `AcquireSlot` passes the semaphore. `RecordOk`, `RecordFail` and
`RecordRolledBack` are the transaction of `record_result` with the end of the job;
`ProbeCrash` is a job that ends in an exception; `Restart` loses all jobs. `CreateCheck`,
`UpdateCheck` and `DeleteChecks` are the API (`delete_device` deletes several checks at
once). Two facts of SQLite are in the model: an id is one more than the largest in use, so
ids are used again; and an `UPDATE` of a row that is gone changes nothing, while an insert
into `outages` for it fails and rolls the transaction back.

Time is the number of results recorded. `record_result` reads the clock right before its
transaction and nothing waits in between, so times grow from one record to the next.

### AlertEngine

A fingerprint is a pair of a rule and a subject. `matching` is the set of fingerprints
whose condition is true, which the rest of the program changes at will (`StateChange` for
checks and devices, which set the wakeup; `SilentChange` for everything else).
Times are ages, so that the state space is finite: `since[fp]` is the age of the match's
`since`, an alert carries the age of its `started_at`, and `Tick` makes all of them older.
An evaluation carries the ages it read with its matches (`eval.ages`, of `StartedAgo`).
`vouched` is a history variable: the longest time, up to now, that the latest evaluations
outside maintenance have said a condition was true for.

`eval` is the evaluation between its first statement and its first `await`. It advances
one statement at a time (`ReadRule`, `RuleFails`, `EvaluateMatch`, `EvaluationFails`,
`ReadLeftovers`, `Leftover`, `FinishEvaluation`), because API handlers in worker threads
can delete a rule, edit one or create a window between two of them; coroutines cannot
(`Quiet`). `outbox[who]` is what a caller's evaluation still has to send: one per caller,
because the alert loop and each client of `POST /alerts/evaluate` await their own
dispatch. An item carries its rule's list of channels as the evaluation read it. `LookUp`
is the begin of an item's dispatch: it selects the enabled channels of that list (all of them
when it is empty). `Send` then sends to one of them; `told` records the last event a channel
was sent for a fingerprint. The insert into `notifications` needs the rows of the alert and
the channel: when one is gone the remaining channels get nothing (`AfterSend`).

`SetChannel` creates, switches and deletes channels, `CreateRule` and `UpdateRule` set what a
rule addresses (`Addressed`), at any time. `readdressed` is a history variable: the pairs of
a fingerprint and a channel that such an edit took from the rule, or gave to it, since the
channel was told of the fingerprint.

Left out: the text of messages, severities, acknowledgements (no code of the engine reads
them), the content of a channel's configuration, and what makes a condition true.

### SyslogIngest

`arrived` is every message `enqueue` was called with, in order; `queue` and `batch` are
those the server holds. `Arrive` is `enqueue` (drop when full); `WriterTakes`,
`WriterSubmits` and `WriterResumes` are the writer between two awaits (the deadline of
`flush_interval` may pass at any time, so a batch may be submitted as soon as it has one
message). `store` runs in a worker thread and takes four steps: `Parse`, `Insert` or
`InsertRaises`, and `Count`; `stats.stored += n` is a read and a write, because two threads
may be storing. `StopBegins`, `StopCancels`, `Flush` and `StopEnds` are `stop`, split at its
awaits. Cancelling the writer does not stop a thread that has started (one that has not is
cancelled with it), and does not take back what the writer held. `thread["writer"]` stays
that of the cancelled writer while `thread["stop"]` stores what the queue held. Connections
that are open outlive `stop`, so only datagrams stop arriving.

`StopCancels` is the cancellation as Python 3.12 has it. On 3.10 and 3.11, which the program
supports too, a `wait_for` that is cancelled when its `get` is done may return the message
instead; then the writer goes on and `stop` awaits it for good. That is `CancelIsSwallowed`,
which may happen whenever the writer waits and a message is queued; the history variable
`swallowed` tells the properties.

### TcpFraming

The bytes of a stream are the letters of a small alphabet: the delimiters, digits, the `<` a
message starts with and a letter. `Init` chooses the messages and how each is sent (RFC 6587
count, with or without a stray newline; LF, CR LF or NUL; nothing for the last); the sender
side is the environment. `Receive(n)` is one pass of the handler's loop with a chunk of n
bytes, so that TLC cuts every stream everywhere; `Close` and `Reset` are its two ends.
`Pass` is one pass of the loop of `split_octet_counted`, `Passes` a recursive function that
makes one after the other, and `Split` what is left after as many as the buffer has bytes;
the loop ends earlier, and further passes change nothing. The number of a count is a recursive
function too (`Number`), for the proofs' sake. The properties speak of connections on which
every message fits the buffer (`Fits`); of the others only that the buffer keeps its bound.

### DevicePoller

One device, and one counter of one of its interfaces. `row` holds the columns of `devices`
that polls and discoveries read and write, `metric` the counter's row of `metrics` with
`last_raw` and `last_raw_ts` as one `baseline`. `agent` is the device: its sysUpTime, the
OID its counter has now, and the credentials it answers to; it changes as it likes
(`AgentChanges`). A reading is modelled by the OID and sysUpTime it was taken with, because
the questions are which two readings make a rate. sysUpTime counts in steps longer than
the 60 s of `poll_device` and stays below the wrap after 497 days. A GET asks for sysUpTime
and counters in several PDUs, and with an agent that refuses one, object by object: sysUpTime
may be answered before the counter (`UptimeAnswers`), so that the agent restarts between the
two, and either may be missing (0 is "not answered").

A job carries what the coroutine carries: the copy of the device row made when it was
created (`SchedulePoll`, `PollNow`), the client for those credentials, and the copy of the
metric row made when it begins to await the values (`Poll`). `AcquireSlot` decides on a
discovery; `SystemAnswers`, `SystemFails` and `WalksEnd` are the discovery, whose client is
one for the row as it is then; after it a poll job reads the row again. `WalksEnd` is
`apply_discovery`: a series that was found is inserted or enabled (`FoundAt`, which voids
the baseline when the OID is another), one that was not found is disabled (`Vanished`), and
a walk that got no answer counts as one that found nothing. `PollAnswers` is the transaction
of `poll_device`, which without sysUpTime looks for no restart and keeps the stored one;
`PollFails` is `_mark_failure`. `JobCrashes` is an exception in a job,
`Restart` the end of all jobs, `DiscoveryAges` the passing of `REDISCOVER_INTERVAL`.
`Computed` leaves open what `counter_delta` says of two readings; that is module `Counters`.

`sample` is the sample the step before stored, if it stored one: the properties are about each as
it is made. `events` is the parity of the number of `device.up` and `device.down` events: enough to see
whether a step logs one. Two history variables are for properties only: `discoveredFrom`
(credentials of the latest discovery) and `interrupted` (since the baseline was read a
discovery was applied, or a poll did not get the counter together with sysUpTime).

Left out: interface states and the events about them, derived series, custom metrics, the
cache of clients (no client is closed under a job), and deletion of the device.

### Housekeeping, Rollups, ReportSchedule

A sample is its timestamp, and a rollup row the set of samples it was made of: average,
extremes and count are functions of that set. `Rollups` has the statements of `storage.py` as
actions; `Housekeeping` puts them in the order of the loop: `Wake`, then for each period
`RollupReads` and `RollupEnds` (the watermark is read before the transaction), `RunDue`, then
`LoopSends` and `LoopRecords` or `BuildFails`, then `Retention`. `Raises` is an exception that
the loop catches. Between any two of them polls begin and write (`Poll`), requests edit the
schedule (`Edit`) or send the report (`SendNow`), the clock ticks (`Tick`), and the process is
restarted (`Restart`). Time is in hours of a calendar whose days, weeks and months are short.

`onTime` is a history variable: the samples that were stored before the rollup passed their
bucket. A sample that comes later, from a poll that began long before it wrote, is in no
rollup; that is what the code does, and the properties are about the others. `reported`
holds the occurrences that were sent, and forgets the last one when the process ends
between sending and recording, as the program does.

### Configuration

The tables are functions from ids to rows, so that `Export` and `Import` are operators on a
database and can be applied to the one there is, to an empty one, and twice. Requests are the
handlers of `api.py` with what they call of `services.py`; each is one step, since overlapping
requests meet here only in the database. `OpenForm` and `SubmitForm` are a page that is
opened and saved later. It shows a mask for a secret, and sends the mask back, which keeps the
secret there is; a page opened while there was none sends no secret, which keeps that of a
device but removes that of a channel (`update_channel` replaces the whole `config`). A custom
metric can be disabled (`ToggleMetric`); an export does not say so (`Enabled`). A PATCH lets
fields through that a POST refuses (`Patched` holds the empty string). An import that meets a
row `create_*` refuses is rolled back as a whole (`Rejected`).

### Computations

`reports.py`, `search.py`, `probes.py` and the like keep no state: each is an operator here, in
a module of its own, that takes what the code reads from tables or the network. `Computations`
is their bench. `Init` chooses a topic and a small input; each step makes the input a little
longer, as the program would meet it: an hour passes (`HourPasses`), an outage or a window is
recorded (`RecordOutage`, `PlanMaintenance`), a message arrives or the next page is read
(`MessageArrives`, `ReadOn`), rollups and retention advance (`RollUp`, `Retire`,
`RetireFineRows`), a counter is read, unreachable or restarted (`ReadCounter`, `ReadNothing`,
`ReadRestarted`), a ping is tried again or a packet comes in (`NextAttempt`, `PacketComes`),
an object more is asked for (`AskFor`), a URL is checked for one thing more (`AddOption`), the
same message is received a day later (`DayPasses`). The invariants say what each result owes
to its input: most compare it with a definition by counting instants, samples or messages.

A value, a word, a packet or a response is abstracted to what the code tells apart; strings
are not taken apart. A stored message has the set of words, phrases and prefixes that the index
finds in it, and apart from that what `LIKE` finds in its message and in its host and
application: neither contains the other ("err" is found in "error" only by `LIKE`, a phrase
across punctuation only by the index). A syslog message is its parts in their order, with what
the expressions of `parser.py` look at: a sequence number, a host before the stamp, the form of
the stamp, a label before the tag, a tag of Cisco's. FTS5, `datetime`, agents and the ping
command are external.

## 3. What is checked

### Runs that pass

* `CheckRunner_scheduled`: 2 checks, 2 jobs, a semaphore of 1, retries 0 and 1, 4 results.
  No runs by hand and no deletions; edits, crashes of probes and restarts. Four results
  are enough to go down, up and down again with retries 0, to see two outages, and to
  have a failure tolerated, then fatal, then ended with retries 1. Shown: the outage
  table agrees with the state (`OutageMatchesState`), outages do not touch
  (`OutagesDisjoint`) and are exactly maximal runs of failures
  (`OutageIsMaximalFailureRun`: this is what makes the backdating query right), the fail
  count is the run of failures in the heartbeat table (`FailCountIsStreak`), a check goes
  down only after retries + 1 failures (`DownOnlyAfterRetries`), and the runner implements
  `CheckLifecycle` (`ImplementsLifecycle`).
* `CheckRunner_operated`: 1 check, 3 overlapping jobs, 4 results, runs by hand and
  deletions. Most of the properties above are false here (see below). What survives
  is `DownHasOpenOutage` (downtime is never missing from the reports, though it may be
  there twice) and `OutageHistoryKept`.
* `Alerts_loop`: 1 rule, 1 subject, 2 alert ids, 1 channel, for_seconds 0 and 2, ages to
  2; the loop alone, with rule edits and windows. `FiringHasHeld` (an alert fires only for a
  condition that evaluations vouch for as long as `for_seconds`), and under fairness
  `TrueIsReported`, by way of pending and of windows. Two ids are enough for an alert that is
  resolved and one that is open for the same fingerprint.
* `Alerts_channels`: 1 rule, 1 subject, 2 alert ids, 2 channels, the loop alone, with edits of
  the rule's channels and switching of channels between any two steps. `ChannelsAgree` (when
  nothing is under way a channel was last told "firing" of exactly the firing fingerprints of
  rules that address it), and under fairness `TrueIsReported` and `FalseIsReported`. What the code does not give is
  excepted by name, as `readdressed`: a channel that an edit adds hears nothing of an alert
  that is firing, and one that an edit removes, or disables, never hears of its end. Two
  channels are enough for one to be added while another is told. Deletions are left out, as
  `dispatch` may then leave an item half sent.
* `Alerts_operated`: 1 rule, 1 subject, 3 alert ids, 1 channel, a client's evaluation
  overlapping the loop's, and every disturbance: rules and subjects deleted between two
  statements of an evaluation, a rule that raises, windows, edits, restarts.
  `OneOpenAlert` and `MaintenanceHolds`. Three ids, because an evaluation may find a
  resolved alert whose notification is still under way next to the one it inserts.

* `SyslogIngest`: 4 messages (2 by UDP, one of them unparsable), queue and batches of 2,
  failing inserts, stop. Four messages overfill the queue while a batch is in the writer's
  hands and another is being stored. `StoredOnceInOrder`, `LossesAreCounted` (while the
  server runs, what is missing from the table is in a counter, and what is in it is
  counted), `StopLosesOneBatchAtMost`, and under fairness `QueuedIsSettled` and
  `StopReturnsUnlessSwallowed`: with Python 3.10 or 3.11 `stop` may never return. The order of
  `StoredOnceInOrder` is claimed until `stop` cancels the writer: a thread that outlives it
  and the flush may store in any order. Frames of connections that outlive `stop` are queued
  after the flush and lost; no property bounds them, as the code does not.
* `TcpFraming`: up to 2 messages of up to 4 bytes, a buffer of 4. `OnlyWholeMessages`,
  `DeliveredAtOnce` (no message waits for the chunk after its last byte), `CloseKeepsAll`.
  Two messages are enough for one to be taken for the continuation of the other; counts
  have one digit (`MaxDigits`).

* `DevicePoller_serial`: 2 credentials, 2 OIDs, sysUpTime 1 and 2, 1 job at a time, of the
  loop or by hand; sysUpTime and the counter may be answered apart, or one of them not at all
  (`Partial`). Two values of each are enough for one to be stale, and sysUpTime to go
  backwards. `RatesOfOneOid`: whatever renumbers, fails, crashes or is edited, the baseline
  is of the OID that is polled. `RebootsMissedOnlyIfInterrupted`: the defect of
  `RatesWithinOneBoot` (below) needs, between the two readings or with the later one, a
  discovery, or a poll that did not get sysUpTime and the counter in one (the code looks for a
  restart only in what it was answered). Under fairness `OfferedIsPolled`: when edits and
  disturbances end, a device that answers gets its series polled, at the OID it has, whatever
  discovery lost before. With two jobs in flight `RatesOfOneOid` is false, and so is
  `TransitionsAreRecorded` (an event for every change between down and not down, and no other;
  proved for one job at a time): a poll writes back the reading, and compares with the status,
  of its copies.

* `Housekeeping`: 1 rollup period of 2 hours, days of 2 hours, raw samples kept for 4 hours
  and rollups for 6, 7 hours, 3 polls or requests, 1 restart or exception, a daily schedule
  at one of two hours. That is long enough for a bucket to be rolled up late and for its raw samples to
  be removed, for two occurrences to pass, and for the schedule to be replaced during a
  delivery. It is too short for rollup rows to be removed by their own retention, which the
  proofs cover. `RollupsComplete`, `ChartsNeverStale`, `OncePerOccurrence`, and under fairness
  `DueIsSettled`.
* `Configuration`: 2 names, 1 host, 1 secret, 2 rows per table, 4 requests in any order, the
  seed, an export at any time. Two names and two rows are enough for a clash of names and for
  an id that is used again. `RestoreRebuilds` (an export into an empty database gives the
  exported one, ids aside; the exceptions are in section 4, and that a custom metric which was
  disabled is enabled again), `ImportIsIdempotent`, and `SecretsChangeOnlyWhenSent`: a secret
  survives every page but one, of a channel, that was opened while there was none.
* `Computations`: the bounds are in the cfg; inputs of 3 or 4 items over a few hours, so that
  intervals can touch, overlap and contain each other, and every seam (raw and rollup, 32
  and 64 bits, month and year) is met. `ReportsTile` (the windows of successive runs
  meet), `UptimeBySecond` (each figure of a report is what counting its seconds gives),
  `SearchIsComplete`, `FiguresAgree`, `CountersAddUp`, `ProbesNeedAnAnswer`, `StampsAreTrusted`.

  `SearchIsComplete` says that pages hold every match once, newest first, whatever arrives
  between them, and what a match is. With the index, a message in which the query is true as it
  reads (`TrueOf`: alternatives of words that are there and words that are not), for queries
  that are clear (`IsClear`: FTS5 reads "a b" in one way, and "a -b c" in its own). Without it, or
  with excluded words only, token by token (`Literally`). The two differ, as an index and `LIKE`
  do. The histogram is of the window it resolves; times reach from before that window to after
  the present.

Excepted by name in the properties of `Computations`, or kept out of its inputs:

* statistics of a report count twice the samples of the hour that the oldest raw sample lies
  in, and leave out those of an hour that the window cuts, and those from before that sample
  that are not rolled up yet (`StatsMeet`);
* a point of a panel at the seam holds raw samples only, and the first point of a chart whose
  start is not at a bucket only the part after it; a short window older than the raw samples
  draws nothing;
* the SLA average is 0 when nothing was monitored;
* an excluded word at the beginning of a query excludes nothing (`Leading`), and a word that is excluded without the index is looked for in the
  message only;
* a label before a Cisco tag is lost, and a host where no stamp could be read (`LostParts`);
* reports meet when each is delivered on the day of its occurrence: one delivered past midnight
  has the period of that day.

Bounds, by name: `MaxClock` (results recorded), `JobIds` (jobs at once), `MaxAge` (the age
at which clocks stop, at least every `for_seconds`), `RoomForAlerts` (an evaluation begins
when an id is free for every alert it may insert; retention frees them), `MaxLength`,
`MaxMessages` and `MaxDigits` (of a TCP stream; the splitter looks for counts of up to 11
digits, and the proofs are for all of those), `MaxUptime` (the sysUpTime at which an agent's clock stops until it
restarts). `QueueSize`, `BatchSize` and `MaxFrame` are the program's own limits, made
small. In `SyslogIngest` each message arrives at most once. `Horizon`, `MaxEvents`,
`MaxFaults` and `PassTime` bound `Housekeeping` (the last says that a pass of the loop, or a
poll, ends long before raw samples are removed), `MaxRows` and `MaxRequests` bound
`Configuration`.

One rule and one subject do not let two fingerprints meet. `evaluate` treats fingerprints
independently except for the order of the outbox, and no property is about that order.

### Fairness

`FairSpec` assumes of the alert engine only what the process gives it. The event loop
runs a coroutine that can run (weak fairness of the loop's start, of each statement of an
evaluation and of the wait's two ends). A channel answers or times out: `dispatch` builds
its client with a timeout of 10 s and catches every exception (weak fairness of `Send`).
Time passes between two evaluations, since the loop sleeps or waits before each (strong
fairness of `Tick`, which is disabled while an evaluation runs). Housekeeping deletes
resolved alerts after their retention (weak fairness of `ExpireAlert`, which only keeps the
bound on ids from stopping the loop). Nothing is assumed of conditions, edits or windows.

`SyslogIngest!FairSpec` assumes that tasks that can run do (weak fairness of the writer and
of `stop`, whose waits have timeouts: `flush_interval`, and two seconds for connections) and
that a worker thread that was started ends (weak fairness of each owner's `StoreStep`).
Nothing is assumed of arrivals.

`DevicePoller!FairSpec` assumes that the poll loop comes round (weak fairness of
`SchedulePoll`), that a job goes on (of `JobStep`: the semaphore is given out in order, and
every request has a timeout and retries), and that six hours go by (of `DiscoveryAges`).
Nothing is assumed of the agent or of edits; `OfferedIsPolled` speaks of executions in which
they end.

`Housekeeping!FairSpec` assumes that the loop goes on (weak fairness of `LoopStep`: threads
end, and deliveries have timeouts). Nothing is assumed of polls, requests, restarts and
exceptions, except that `MaxFaults` makes the last two finitely many: a rollup that raises
in every pass would keep reports from being sent for ever.

### A run that finds a violation

It states what the repository says of the program, and the code does otherwise.

* `Computations_window` (`StatsStayInWindow`): the statistics of a report whose window ended
  before the oldest raw sample average the hourly rollups up to that sample, hours after
  the window among them.

Eight more disagreements are stated in the modules, and no run checks them; adding
the definition to the cfg named here shows the counterexample.

* `RatesWithinOneBoot` (`DevicePoller_serial.cfg`; `tests/test_snmp.py:95` says "Counters must not
  produce a bogus rate across a reboot."): the agent restarts, a discovery stores its new
  sysUpTime (`discovery.py:220`), and the poll after it sees no restart: it makes a rate of
  readings from before and after, and logs no event. The loop alone does this, at the
  six-hourly discovery.
* `StatsUseEachOnce` (`Computations.cfg`; the docstring at `reporting.py:70` says "using raw samples
  where available and 1h rollups before that"): a window that reaches across the oldest raw
  sample has the samples of that hour twice, raw and in the rollup of the hour
  (`reporting.py:80-91`).
* `ExclusionsHold` (`Computations.cfg`; `README.md:165` gives `-exclude` as search syntax): a search
  for `-b a` finds messages that hold b. FTS5 knows no leading NOT, and `search.py:91-93` drops
  it with its word.
* `UpHasNoOpenOutage` (`CheckRunner_operated.cfg`): two jobs of one check, one of them
  run by hand, both go down and open an outage each; the next success closes one.
  The other is never closed, since a success from state up does not look for it. (With
  jobs by hand `DownOnlyAfterRetries` fails as well: a job whose snapshot is older than a
  success counts the failures before that success.)
* `ChangesAreSeenAtOnce` (`Alerts_loop.cfg`): a change during the dispatch of notifications
  sets the event, and the loop clears it after the dispatch; the change waits for
  `alert_eval_interval`. `TrueIsReported` shows that it is not lost for good.
* `FiringIsDownAsLong` (`Alerts_loop.cfg`): a check goes down, its alert is pending, it comes
  back and goes down again before the next evaluation, or under a maintenance window. The row
  keeps the start of the first time (`engine.py:219` updates everything else), and the alert
  fires before the check has been down for `for_seconds` (`engine.py:11` says "until its
  condition has held for `for_seconds`").
* `ChannelsAgree` (`Alerts_channels.cfg` with a client in `Requests`): an evaluation asked for by
  a client sends "resolved" while the loop still awaits a channel for "firing" of the same
  alert.
* `DiscoveredWithCredentials` (`DevicePoller_serial.cfg`): the credentials are edited while a
  discovery is awaited; `apply_discovery` sets `last_discovered` again, and the rediscovery
  with the new credentials waits for six hours.

## 4. What is proved

| Theorem | Says |
|---|---|
| `CheckRunnerProofs!TypeCorrect` | `Spec => []TypeOK` |
| `CheckRunnerProofs!DownHasOpenOutageAlways` | `Spec => []DownHasOpenOutage`, with runs by hand and deletions |
| `CheckRunnerProofs!OutageHistoryKeptAlways` | only the success that ends an outage changes it; deletions leave none behind |
| `CheckRunnerProofs!OutageMatchesStateAlways` | the state column and the outage table agree, scheduled case |
| `CheckRunnerProofs!OutagesDisjointAlways` | outages do not touch, scheduled case |
| `CheckRunnerProofs!FailCountIsStreakAlways` | the fail count is the run of failures, scheduled case |
| `CheckRunnerProofs!OutageIsMaximalFailureRunAlways` | an outage is a maximal run of failures, scheduled case |
| `CheckRunnerProofs!DownOnlyAfterRetriesAlways` | down only after retries + 1 failures, scheduled case |
| `CheckRunnerProofs!RunnerImplementsLifecycle` | `Spec => ImplementsLifecycle`, scheduled case |
| `AlertEngineProofs!TypeCorrect` | `Spec => []TypeOK`, with every disturbance of the module |
| `AlertEngineProofs!OneOpenAlertAlways` | one open alert per fingerprint, with overlapping evaluations and deletions |
| `AlertEngineProofs!MaintenanceHoldsAlways` | an evaluation changes no alert under a window it saw |
| `AlertEngineProofs!FiringHasHeldAlways` | an alert fires only for a condition that evaluations vouch for as long as `for_seconds`; no restarts or deletions |
| `AlertEngineProofs!ChannelsAgreeAlways` | when no message is under way, each channel has heard of exactly the firing alerts of rules that address it, but for channels that edits added or removed; the loop alone, no restarts or deletions |
| `SyslogIngestProofs!Invariance` | `Spec => []Inv`: types, no message in two places, the places in the order of arrival |
| `SyslogIngestProofs!StoredOnceInOrderAlways` | no message is stored twice; until `stop` cancels the writer, they are stored in the order they arrived |
| `SyslogIngestProofs!LossesAreCountedAlways` | while the server runs every message is stored, held, dropped or counted |
| `SyslogIngestProofs!StopLosesOneBatchAtMostAlways` | what is neither stored nor counted after `stop` is one batch at most |
| `TcpFramingProofs!OnlyWholeMessagesAlways` | what is queued of a connection is a prefix of what was sent; the buffer keeps its bound |
| `TcpFramingProofs!DeliveredAtOnceAlways` | a message is queued with the chunk that holds its last byte |
| `TcpFramingProofs!CloseKeepsAllAlways` | a sender that closes after its last byte loses nothing |
| `ConfigurationProofs!Invariance` | `Spec => []Inv`: types, references, the backup is an export, pages show no secret |
| `ConfigurationProofs!SecretsChangeOnlyWhenSentAlways` | a secret changes only in a request that carries the new one, or in one page that is named |
| `ConfigurationProofs!ImportIsIdempotentAlways` | a second import of a document changes nothing, and no import changes a row |
| `ConfigurationProofs!RestoreRebuildsAlways` | an export restores what it was taken of, but for the exceptions the property names |
| `DevicePollerProofs!TypeCorrect` | `Spec => []TypeOK`, with jobs by hand that overlap |
| `DevicePollerProofs!RatesOfOneOidAlways` | no rate mixes two OIDs, scheduled case |
| `DevicePollerProofs!RebootsMissedOnlyIfInterruptedAlways` | a rate across a restart needs a discovery, or a poll that did not get sysUpTime and the counter in one, scheduled case |
| `DevicePollerProofs!TransitionsAreRecordedAlways` | an event for each change between down and not down, and no other, scheduled case |
| `HousekeepingProofs!TypeCorrect` | `Spec => []TypeOK` |
| `HousekeepingProofs!RollupsCompleteAlways` | a completed bucket has every sample that was on time, until retention |
| `HousekeepingProofs!ChartsNeverStaleAlways` | a chart shows each kept sample that was on time once |
| `HousekeepingProofs!OncePerOccurrenceAlways` | no occurrence is sent twice, however requests edit, replace and send the schedule |
| `ComputationsProofs!ReportsTileAlways` | an occurrence is the latest one, and the periods of successive reports meet |
| `ComputationsProofs!UptimeBySecondAlways` | the figures of availability reports, their days and their average are those of counting seconds |
| `ComputationsProofs!StampsAreTrustedAlways` | a message is timed within a day of its reception, a true stamp gets its year, no text is lost but before a Cisco tag |
| `ComputationsProofs!ProbesNeedAnAnswerAlways` | no probe, get or walk takes silence, or another's answer, for its target's |
| `ComputationsProofs!FiguresAgreeAlways` | statistics, percentiles, volumes, panels and charts agree with the samples, whatever is rolled up and deleted; the statistics but for the hours the property names |
| `ComputationsProofs!CountersAddUpAlways` | each event is in one rate, or given up with a reason |

They hold for every value of the constants: any sets of checks, jobs, rules, subjects,
callers, channels, credentials and OIDs, any names, hosts and secrets, any number of messages,
any length of them, any size of the queue and of a connection's buffer, any retries and
`for_seconds`, any size of the semaphore, any rollup periods and times of retention, any
calendar, schedule and history of outages, any samples and windows, any agent, size of PDU and
sequence of attempts, any width of a counter, and executions of any length. They assume what
the modules assume of their constants; what is more than a type is this. A calendar has at least three months, each
with the 28 days `previous_occurrence` relies on (`CalendarAssumption`), and holds the hours
that are tried (`HoursAssumption`, `CalendarCovers`): the code's calendar has no ends. A year
has more days than the trusted skew of a stamp by more than four, and its leap day is not within
that skew of its end (`YearsAssumption`). Hours are made of five-minute periods, days of hours, and the nice steps
of a chart of either, once they are as long (`PeriodsAssumption`). The "scheduled case" is the assumption `ScheduledOnly`, that the API's run-now and deletions (for devices: poll
and discover) are not used. Without it the statements about checks are false, as
`UpHasNoOpenOutage` shows, and so are `RatesOfOneOid` and `TransitionsAreRecorded`. Two
theorems about alerts assume `NothingVanishes` (no restarts, and no deletion of rules,
subjects or channels): both take alerts away and tell no channel. `ChannelsAgreeAlways` assumes
`Requests = {}` as well, since a client's evaluation overtakes the loop's messages.

*Types.* `TypeInv` adds to `TypeOK` that heartbeats are stamped in the past and that the
failures since the last success, if there are any, have an earliest one: the start of an
outage is a `CHOOSE` over them, and has a type only then.

*A down check has an open outage.* The state goes down only in `RecordFail`, which appends
an open outage in the same step. An outage is closed only in `RecordOk`, which then sets
the state to up: the case that needs care is a success seen from an "up" snapshot, which
closes nothing and does not change the state either, so a check taken down meanwhile by
another job keeps both.

*The history of outages.* An outage could be left behind by a job that outlives its check.
`NoOrphans` says that an id in no row has no outage: deletions cascade, and an insert for
an id that is gone fails with its whole transaction (`RecordRolledBack`). Given that, each
action either leaves a check's outages alone, appends one, closes the open ones, or removes
them with the row (`HistoryStep`).

*The scheduled case.* `OutageMatchesState` is not inductive: it speaks of the row, and a
job writes from its snapshot. The strengthening (`SerialInv`, preserved by `LEMMA
SerialInvariant`) says that each check has at most one job and its key is in flight, that
the snapshot's state and count are still the row's (`SnapshotsFresh`), that an id no row
has yet left no trace (`UnusedIds`), that the fail count is the number of failures since
the last success (`StreakCounted`), and how outages lie in time (`OutagesSettled`). The
retries of the snapshot may be stale, and are not in it: the edits are allowed.
`OutageIsMaximalFailureRun` needs `MaximalRuns` on top: no beat is both a success and a
failure, and each outage, open or closed, starts at the first failure after a success and
ends at the next one (`RunsOf`).

*Refinement.* The mapping gives the lifecycle the row's state and count, the first failure
since the last success, the outage table and the clock. `RecordOk` maps to `Success`,
`RecordFail` to `FailureOpensOutage` or `FailureTolerated` with the snapshot's retries, and
every other step to a stutter.

*No rate mixes two OIDs.* The strengthening (`OidInv`) says that there is at most one job and
its key is in flight (`OneJob`), that what is kept of a reading is of the row's OID
(`OfItsOid`), and that the copy a job writes back has the row's OID (`CopiesOfOid`). It is the
last that needs `OneJob`: a discovery of another job would move the OID under the copy.

*Restarts of the agent, and events.* `FreshInv` says that the job's copies are the rows
(`CopiesOfRow`, `CopiesOfBaseline`), again because of `OneJob`, and that the stored sysUpTime
is not behind the baseline's unless `interrupted` (`BaselineBehind`): a poll whose agent has
started again since the baseline then finds a smaller sysUpTime than the stored one. A poll
that is not answered sysUpTime keeps the stored one, and one that is answered it before the
counter may store that of an earlier boot: both leave `interrupted` set (`UptimeAnswersFresh`
and the cases of `PollAnswers`: `Reread`, `Rated`, `LeftOut`).

*One open alert.* No key forbids two. `EvalInv` says what an evaluation under way knows. What
is open of a fingerprint it has still to deal with (`Ahead`) is in the list it read at its
start (`OpenIsKnown`): between two of its statements worker threads can take rows away, but
only the evaluation itself adds one. Ids are used again, so a row with the id of an alert in
the list may be one inserted since under the id of a row that is gone; that one is open too,
and not in maintenance (`RowsOfKnown`), from which `MaintenanceHolds` follows.

*What fires has held.* `HeldInv` adds to the invariant of one open alert that the matches an
evaluation read are vouched for (`MatchesVouched`), that it knows rows and rules as they are
(`Current`), and that a pending alert is not older than what is vouched for its condition
(`PendingVouched`), unless the evaluation under way is going to delete it (`Doomed`): one that
finds a condition false makes `vouched` 0 when it reads the rule, and deletes the row several
statements later. The theorem assumes `NothingVanishes`: a restart between the two leaves a
pending row that nothing vouches for, and a deletion gives its id to another.

*Channels agree.* With one caller, what is unsent (`Unsent`) is of one evaluation, and that
never speaks twice of a fingerprint (`LoopEval`), so messages have no order to get wrong: there is
one message per fingerprint and it says what the table holds (`Messages`). The claim is about
the channels that are `Followed`: the rule addresses them and has done so since they were told.
Such a channel was told what the table holds unless one of the messages will correct it
(`ToldOrUnsent`), where a message reaches the channels it was looked up for or, before that, all
its list names (`Reaches`). That list is as old as the evaluation, so `AddressInv` says that it
names every channel that is followed now: one that an edit has added since is not followed. A
channel that is not addressed believes in nothing, or was dropped by an edit.

*Syslog.* A message that arrived is in the table, in the hands of the writer or its thread
(`InHand`), with the thread of `stop`, or in the queue, and never in two of them (`Apart`). Each
place is in the order of arrival (`Sorted`) and, until the writer is cancelled, so is one
after the other (`Staged`); cancelling leaves a thread nobody awaits beside the one of `stop`.
What is in no place that is still served is at most what is counted, and one batch once the
writer is cancelled (`GoneCounted`). What parsing a batch gives is a recursive function
(`RowsUpTo`); that it selects messages, in their order, is shown by induction on its argument
(`RowsExist`, `RowsDefined`).

*Framing.* The bytes of a message on the wire end a frame at a place of their own (`Taken`):
with the count, with the delimiter, or, if the last message has neither, one byte after the
stream's end, which is never read. Bytes between that place and the next message are skipped
(`TakenIs`). A pass over a piece of the stream that begins where the splitter may be (`At`: k
messages are taken, what is left of the k-th is skipped) takes message k + 1 if its place has
been read and waits otherwise (`PassAt`); here the forms of framing must not be mistaken for
each other, which holds because a message begins with `<`, a count with a digit, and the
delimiters of a message are not in it (`FrameTaken`, `FrameAwaited`). By induction on the
passes, `Split` yields all messages whose place has been read (`SplitAt`). The invariant
(`IInv`) then says that the buffer is the piece of the stream after the messages that are
queued, and that the next one cannot be taken yet (`Held`); joined with the next chunk it is
such a piece again (`Joined`). A buffer too long under `Fits` can only be the whole of a last
message without a delimiter (`TooLongIs`). `FlattenSeq` and the two recursive functions are
unfolded by induction (`FlatUnique`, `PassesExist`, `ValueExists`).

*Configuration.* The document of an export has its rows in the order of their ids (`Nth`, the
n-th smallest id). The lemmas say what `Added` and `Listed` do to a table, row by row and by
rank; then an import into an empty database gives each name the rank it has in the document,
names of devices find the devices they named (this needs that 0, the id of no device, is not
a name), and the export of what was restored is the document again. Ids of channels come back
only if they have no gaps (`NoGaps`), and rows that a `create_*` would refuse come from PATCH
alone (`Blanked`): with disabled metrics (`Enabled`) the exceptions of `RestoreRebuilds` are
exactly these. The pages' secrets are a lemma of their own (`SubmitFormSecrets`). A second import
finds every name it would insert.

*Rollups and charts.* `StoreInv` says that the watermark is the start of a bucket; that a
sample at or after it is on time and still there (`Unrolled`); that rows are of buckets before
it, one of each (`RowsBehind`); and that the row of such a bucket holds exactly its samples
that were on time, or has expired together with them (`Rolled`). `PassInv` says the same in
the middle of a pass: once the pass has done with a period, what it left is too young for
the retention at its end (`Passed`; this is where `PassAssumption` is needed, that a pass and a
poll end long before raw samples are removed). A chart is rows up to the start of a bucket and
raw samples from there on, so no sample is in both.

*Scheduled reports.* `ReportInv` says that every occurrence that was reported is at `last_run`
at the latest, but for the one whose record is still to come (`Recorded`), and that a report
under way is of a later occurrence than any that was reported (`Building`). It needs that an
occurrence is never ahead of the clock (`OccurrenceBehind`). For a monthly schedule that is a
fact about the calendar: `MonthStart` counts days by recursion, is unfolded by induction
(`FollowExist`), and every day lies in a month (`SequelCovers`).

*Periods of reports.* Month starts move forward by at least the days every month has
(`MonthsAdvance`), so each frequency has one day per day, week or month, and `MonthlyIs`,
`WeeklyIs` and `DailyIs` say that the occurrence found is the last of those before now. The
occurrence before it is the one of the day, week or month before; the periods the two reports
resolve therefore end and begin at the same midnight (`DailyTiles`, `WeeklyTiles`,
`MonthlyTiles`).

*Availability.* `Sorted`, and the folds of `merge`, `subtract`, `total` and `sla_summary`, are
unfolded prefix by prefix (`FoldPrefixes`). What a list of intervals covers is a set of
seconds: `merge` keeps it and leaves intervals apart and in order (`Ascending`), `clip` and
`subtract` cut it, and the total of such a list is the number of its seconds (`TotalIs`). The
three days of the bars split the window, so their sets of seconds are disjoint. `Availability`
writes out its sort (by how many come before), since the provers have no definition of the
library's.

*Stamps.* Years follow each other as months do. A stamp without a year is taken for the year of
the reception, or for the year before when it is more than two days ahead. As a year is longer
than the skew by more than those days, a date is within the skew of the reception in one year at
most, and that is the one `ParseBsdTs` chooses. The parts of a message are distinct pieces in
their order; each goes to host, application or text (`Pieces`, `HeadAndRest`, `NothingIsLost`)
unless a Cisco tag is found behind it.

*Probes.* A ping's result is a fold over attempts, and so is a get over PDUs and, when one is
refused, over objects. `Heard` says what has been seen after each attempt; `Owes` and `Fits`
say that the answers so far are for exactly the objects asked so far, chunk by chunk. What a walk
keeps is what the agent gave below the root before its first error.

*Figures and charts.* The invariant (`FigureInv`) is that retention has not passed the hour up
to which there are rollups. Buckets of different sizes nest, as each is a multiple of the
other; each rolled-up sample is then in exactly one row, and what a window takes from rows and
from raw samples meets in the hour of the oldest raw sample, the only one they share. Order statistics exist
because averages are strictly ordered; the pieces of a volume are disjoint; a chart is decided
by where the rollups end: before its window, in it, or after it.

*Counters.* `Accounted` says that the agent is less than a turn of the counter past the
baseline, that the baseline is the last reading modulo the width, and that what was put into
rates and what was given up add up to the events between the first reading and the
baseline. That a counter turns less than once between two readings that count is assumed of
agents: two readings cannot tell more turns from fewer.

### Only model-checked

Recursive functions, and the folds of the community modules, which are recursive functions, can
be reasoned about by induction stated for a set of naturals (`Induction`). RECURSIVE operators
cannot, and neither can `SortSeq`, of which the provers have no definition.

* `SearchIsComplete` of `Computations`: a page of a search, and its top list, are sorted with
  `SortSeq`; the other six properties of that module are proved.
* Everything under fairness: liveness and `ENABLED` are out of the proof system's reach.
* The properties about checks, devices and channels outside the assumptions above, of which the
  sections on runs say what is false.

## 5. Plan, and what is left

Done, in the order of what matters most to the program: checks with their lifecycle and its
refinement; alerts; syslog ingestion and framing; the poller of a device; rollups, retention
and scheduled reports in the housekeeping loop; configuration with export and import; and the
functions without state on their bench; then proofs of the safety properties of each.
What would come next: interface states in `DevicePoller`
(`apply_discovery` writes `oper_status`, the hazard of `sys_uptime` again), the cache of SNMP
clients under edits and deletions, an abstract alert lifecycle that
`AlertEngine` implements, and a composition of checks and alerts (a check that stays down is
reported).

### Not modelled

* Grafana endpoint, web UI, rendering of reports, mail and chat formats, CSV: presentation of
  what other components computed; it changes no state and its results are text.
* Command line, application, configuration file, demo, packaging: wiring and generated data.
* `db.py`: its lock and transactions are the grain of the actions of every module.
* `checks/probes.py`: the arguments of the ping command and its output, and the contents of a
  certificate; the operating system and OpenSSL decide them. Probes are modelled from there on.
* `snmp/client.py`: credentials, security levels and transport are pysnmp's. The cache of clients
  in `monitor.py` is left out too: in `DevicePoller` no client is closed under a job.
* `snmp/discovery.py` beyond what it changes for one series: which MIB has which table, names of
  interfaces. `poller.py`: gauges, derived series and interface states.
* `syslog/parser.py`: the regular expressions, structured data and zones; `syslog/server.py`: the
  cached map from addresses to devices, and sockets.
* Retention of heartbeats, events and syslog: deletion by age of rows nothing modelled reads.
* Editing of dashboards and settings: rows replaced as a whole by one request.
* Overlapping requests in `Configuration`: each handler is a transaction; where they meet a
  loop or a job, the module of that engine has them.

Seven of the hazards in `PROJECT.json` are covered by no property; each names the reason.

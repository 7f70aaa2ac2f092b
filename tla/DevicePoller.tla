---------------------------- MODULE DevicePoller ----------------------------
(***************************************************************************)
(* One device as SNMPathy polls it: the poll jobs of Monitor, discovery    *)
(* (apply_discovery) and poll_device, with one counter of one interface.   *)
(*                                                                         *)
(* A job copies the device row when it is created, waits for the           *)
(* semaphore, may await a discovery, copies the metric rows, awaits the    *)
(* values and writes.  The device's agent restarts, renumbers its counters *)
(* and falls silent as it likes meanwhile.                                 *)
(*                                                                         *)
(* A reading of the counter is modelled by where and when it was taken,    *)
(* its OID and the sysUpTime then, since the questions are which two       *)
(* readings make a rate, and what discovery does to the earlier one.  A    *)
(* GET asks for many OIDs, sysUpTime first, in several PDUs or, with an    *)
(* agent that answers with an error, one by one, so that the counter may   *)
(* be answered later than sysUpTime, and either not at all.                *)
(* sysUpTime counts in steps of more than a minute, the margin of          *)
(* poll_device, and stays below its wrap after 497 days.                   *)
(***************************************************************************)
EXTENDS Naturals, FiniteSets

CONSTANTS Credentials,   \* SNMP credentials
          Oids,          \* OIDs the counter may have
          JobIds,        \* as many jobs as can be in flight together
          MaxUptime,     \* bound: the sysUpTime an agent reaches before it restarts
          Partial,       \* the values of a GET are answered apart, or some of them not
          Edits,         \* credentials are edited
          ByHand         \* POST /devices/{id}/poll and /discover are used

ASSUME CredentialsAssumption == Credentials # {} /\ Oids # {}
ASSUME UptimeAssumption == MaxUptime \in Nat \ {0}
ASSUME SwitchesAssumption == Partial \in BOOLEAN /\ Edits \in BOOLEAN /\ ByHand \in BOOLEAN

VARIABLES agent,         \* the device's SNMP agent
          row,           \* the row of table devices
          metric,        \* the row of table metrics
          sample,        \* the sample that the latest step stored, as the readings it was made of
          events,        \* parity of the number of device.up and device.down events
          jobs,          \* Monitor._jobs and the requests to poll and to discover
          inflight,      \* the device's key is in Monitor._inflight
          discoveredFrom,\* history: credentials of the latest discovery
          interrupted    \* history: since the baseline was read, a discovery was applied,
                         \*   or a poll did not get the counter together with sysUpTime

vars == <<agent, row, metric, sample, events, jobs, inflight, discoveredFrom, interrupted>>

None == [none |-> TRUE]      \* NULL; 0 for a sysUpTime

Uptimes == 1..MaxUptime
Reading == [uptime: Uptimes, oid: Oids]

Agent == [uptime: Uptimes, oid: Oids, answersTo: SUBSET Credentials]

Row == [creds: Credentials, discovered: {"never", "recently", "long ago"},
        uptime: Nat, status: {"unknown", "up", "down"}, polled: BOOLEAN]

NoRow == [creds |-> CHOOSE c \in Credentials : TRUE, discovered |-> "never", uptime |-> 0,
          status |-> "unknown", polled |-> FALSE]

\* "known": discovery has inserted the row; baseline: last_raw and last_raw_ts.
Metric == [known: BOOLEAN, enabled: BOOLEAN, oid: Oids, baseline: Reading \cup {None}]

NoMetric == [known |-> FALSE, enabled |-> FALSE, oid |-> CHOOSE o \in Oids : TRUE, baseline |-> None]

\* "client" and "asker" are the credentials of the clients that poll and discover;
\* "uptime" is the sysUpTime the job has got, before the other values.
Job == [id: JobIds, kind: {"poll", "discover"}, phase: {"queued", "asking", "walking", "polling"},
        row: Row, metric: Metric, client: Credentials, asker: Credentials, uptime: Nat]

Sample == [prev: Reading, cur: Reading, interrupted: BOOLEAN]

TypeOK ==
    /\ agent \in Agent
    /\ row \in Row
    /\ metric \in Metric
    /\ sample \in Sample \cup {None}
    /\ events \in {0, 1}
    /\ jobs \subseteq Job
    /\ inflight \in BOOLEAN
    /\ discoveredFrom \subseteq Credentials
    /\ interrupted \in BOOLEAN

-----------------------------------------------------------------------------
(* The agent.                                                              *)

\* Time goes by; it restarts, gives its counters other OIDs, or answers to other
\* credentials.
AgentChanges ==
    /\ \/ agent.uptime < MaxUptime /\ agent' = [agent EXCEPT !.uptime = @ + 1]
       \/ agent.uptime # 1 /\ agent' = [agent EXCEPT !.uptime = 1]
       \/ \E o \in Oids \ {agent.oid} : agent' = [agent EXCEPT !.oid = o]
       \/ \E c \in Credentials : agent' = [agent EXCEPT !.answersTo = {c}]
       \/ agent' = [agent EXCEPT !.answersTo = {}]
    /\ sample' = None
    /\ UNCHANGED <<row, metric, events, jobs, inflight, discoveredFrom, interrupted>>

-----------------------------------------------------------------------------
(* Jobs begin.                                                             *)

FreeIds == JobIds \ {j.id : j \in jobs}

NewJob(kind, phase) ==
    [id |-> CHOOSE i \in FreeIds : TRUE, kind |-> kind, phase |-> phase,
     row |-> IF kind = "poll" THEN row ELSE NoRow,
     metric |-> NoMetric, client |-> row.creds, asker |-> row.creds, uptime |-> 0]

\* The poll loop, when the device is due.
SchedulePoll ==
    /\ ~inflight
    /\ FreeIds # {}
    /\ jobs' = jobs \cup {NewJob("poll", "queued")}
    /\ inflight' = TRUE
    /\ sample' = None
    /\ UNCHANGED <<agent, row, metric, events, discoveredFrom, interrupted>>

\* POST /devices/{id}/poll, which does not look at the key.
PollNow ==
    /\ ByHand
    /\ FreeIds # {}
    /\ jobs' = jobs \cup {NewJob("poll", "queued")}
    /\ inflight' = TRUE
    /\ sample' = None
    /\ UNCHANGED <<agent, row, metric, events, discoveredFrom, interrupted>>

\* POST /devices/{id}/discover, which takes no slot and no key.
DiscoverNow ==
    /\ ByHand
    /\ FreeIds # {}
    /\ jobs' = jobs \cup {NewJob("discover", "asking")}
    /\ sample' = None
    /\ UNCHANGED <<agent, row, metric, events, inflight, discoveredFrom, interrupted>>

Advance(j, next) == jobs' = (jobs \ {j}) \cup {next}

\* The job awaits its discovery, with a client for the row as it is now.  The copy it
\* has will not be used again.
Ask(j) == Advance(j, [j EXCEPT !.phase = "asking", !.asker = row.creds, !.row = NoRow])

\* The job has copied the metric rows and awaits the values; d is its device row, of
\* which poll_device looks at these columns.
Poll(j, d, m) ==
    Advance(j, [j EXCEPT !.phase = "polling", !.metric = m,
                         !.row = [NoRow EXCEPT !.status = d.status, !.polled = d.polled, !.uptime = d.uptime],
                         !.asker = j.client, !.uptime = 0])

\* Mutant of NeedsDiscovery: a discovery is never repeated.
NeverDiscovered(d) == d.discovered = "never"

NeedsDiscovery(d) == d.discovered # "recently"

\* A slot of the semaphore is free.
AcquireSlot(j) ==
    /\ j.phase = "queued"
    /\ IF NeedsDiscovery(j.row) THEN Ask(j) ELSE Poll(j, j.row, metric)
    /\ sample' = None
    /\ UNCHANGED <<agent, row, metric, events, inflight, discoveredFrom, interrupted>>

End(j) ==
    /\ jobs' = jobs \ {j}
    /\ inflight' = IF j.kind = "poll" THEN FALSE ELSE inflight

\* An exception is logged and ends the job.
JobCrashes(j) ==
    /\ End(j)
    /\ sample' = None
    /\ UNCHANGED <<agent, row, metric, events, discoveredFrom, interrupted>>

-----------------------------------------------------------------------------
(* Discovery.                                                              *)

\* After a discovery, applied or failed, a poll job reads the device row again and
\* polls; a request to discover is done.
AfterDiscovery(j, d, m) ==
    IF j.kind = "poll" THEN Poll(j, d, m) /\ UNCHANGED inflight ELSE End(j)

\* The sysUpTime a job has when the other values arrive: 0 if it was not answered.
UptimesFor(j) ==
    IF j.uptime # 0 THEN {j.uptime} ELSE {agent.uptime} \cup (IF Partial THEN {0} ELSE {})

\* discover: the system group is answered.
SystemAnswers(j) ==
    /\ j.phase = "asking"
    /\ j.asker \in agent.answersTo
    /\ \E up \in UptimesFor(j) : Advance(j, [j EXCEPT !.phase = "walking", !.uptime = up])
    /\ sample' = None
    /\ UNCHANGED <<agent, row, metric, events, inflight, discoveredFrom, interrupted>>

\* The device does not answer: discover raises.
SystemFails(j) ==
    /\ j.phase = "asking"
    /\ j.asker \notin agent.answersTo
    /\ AfterDiscovery(j, row, metric)
    /\ sample' = None
    /\ UNCHANGED <<agent, row, metric, events, discoveredFrom, interrupted>>

\* Mutant of FoundAt: last_raw outlives a change of the OID.
FoundAtKeepingRaw(m, oid) == [m EXCEPT !.known = TRUE, !.enabled = TRUE, !.oid = oid]

\* A series that was found is inserted, or enabled; a new OID voids what was read.
FoundAt(m, oid) ==
    [known |-> TRUE, enabled |-> TRUE, oid |-> oid,
     baseline |-> IF m.oid = oid THEN m.baseline ELSE None]

\* A series that was not found stops being polled.
Vanished(m) == [m EXCEPT !.enabled = FALSE]

\* The walks end, and apply_discovery writes.  A walk that is not answered counts
\* as an empty one (_safe_walk).
WalksEnd(j) ==
    LET d == [row EXCEPT !.discovered = "recently", !.uptime = j.uptime]
        m == IF j.asker \in agent.answersTo THEN FoundAt(metric, agent.oid) ELSE Vanished(metric)
    IN  /\ j.phase = "walking"
        /\ row' = d
        /\ metric' = m
        /\ discoveredFrom' = {j.asker}
        /\ interrupted' = TRUE
        /\ AfterDiscovery(j, d, m)
        /\ sample' = None
        /\ UNCHANGED <<agent, events>>

-----------------------------------------------------------------------------
(* poll_device.                                                            *)

\* Mutant of Rebooted: sysUpTime is not looked at.
NeverRebooted(d, up) == FALSE

\* sysUpTime, if there is one, is behind the one in the copied row (0, for NULL, is
\* ahead of none).
Rebooted(d, up) == d.polled /\ up # 0 /\ up < d.uptime

\* compute_value: whether the two readings make a rate, and the new last_raw.  Soon
\* after the last poll an unchanged counter makes none and is not kept; a counter
\* that looks reset makes none and is kept.
Computed(prev, cur, rebooted) ==
    IF prev = None \/ rebooted THEN {[rate |-> FALSE, raw |-> cur]}
    ELSE {[rate |-> TRUE, raw |-> cur], [rate |-> FALSE, raw |-> None], [rate |-> FALSE, raw |-> cur]}

Coalesce(a, b) == IF a = None THEN b ELSE a

\* The event for device row d going to a status: down from any other, up from down.
StatusEvent(d, status) == d.status # status /\ "down" \in {d.status, status}

LogStatus(d, status) == events' = IF StatusEvent(d, status) THEN 1 - events ELSE events

\* sysUpTime is answered, in a PDU before that of the counter.
UptimeAnswers(j) ==
    /\ Partial
    /\ j.phase = "polling" /\ j.uptime = 0
    /\ j.client \in agent.answersTo
    /\ Advance(j, [j EXCEPT !.uptime = agent.uptime])
    /\ sample' = None
    /\ UNCHANGED <<agent, row, metric, events, inflight, discoveredFrom, interrupted>>

\* Whether the counter is answered.
Reads(j) ==
    IF j.metric.enabled /\ j.metric.oid = agent.oid
      THEN {TRUE} \cup (IF Partial THEN {FALSE} ELSE {}) ELSE {FALSE}

\* The values arrive and everything is written, from the copies, in one transaction.
PollAnswers(j) ==
    LET cur == [uptime |-> agent.uptime, oid |-> agent.oid]
        prev == j.metric.baseline
    IN  /\ j.phase = "polling"
        /\ j.client \in agent.answersTo
        /\ \E up \in UptimesFor(j), read \in Reads(j) :
             LET apart == up # agent.uptime IN
             /\ \E v \in IF read THEN Computed(prev, cur, Rebooted(j.row, up))
                                 ELSE {[rate |-> FALSE, raw |-> None]} :
                  /\ sample' = IF v.rate THEN [prev |-> prev, cur |-> cur, interrupted |-> interrupted \/ apart]
                                         ELSE None
                  /\ metric' = IF j.metric.enabled
                                 THEN [metric EXCEPT !.baseline = Coalesce(Coalesce(v.raw, prev), @)]
                                 ELSE metric
                  /\ interrupted' = (apart \/ (v.raw = None /\ (interrupted \/ ~read)))
             /\ row' = [row EXCEPT !.status = "up", !.polled = TRUE, !.uptime = IF up # 0 THEN up ELSE j.row.uptime]
        /\ LogStatus(j.row, "up")
        /\ End(j)
        /\ UNCHANGED <<agent, discoveredFrom>>

\* _mark_failure.
PollFails(j) ==
    /\ j.phase = "polling"
    /\ j.client \notin agent.answersTo
    /\ row' = [row EXCEPT !.status = "down", !.polled = TRUE]
    /\ sample' = None
    /\ LogStatus(j.row, "down")
    /\ End(j)
    /\ UNCHANGED <<agent, metric, discoveredFrom, interrupted>>

-----------------------------------------------------------------------------
(* What happens to the rows and the jobs from outside.                     *)

\* REDISCOVER_INTERVAL goes by.
DiscoveryAges ==
    /\ row.discovered = "recently"
    /\ row' = [row EXCEPT !.discovered = "long ago"]
    /\ sample' = None
    /\ UNCHANGED <<agent, metric, events, jobs, inflight, discoveredFrom, interrupted>>

\* update_device with other credentials.
EditCredentials(c) ==
    /\ Edits
    /\ c # row.creds
    /\ row' = [row EXCEPT !.creds = c, !.discovered = "never"]
    /\ sample' = None
    /\ UNCHANGED <<agent, metric, events, jobs, inflight, discoveredFrom, interrupted>>

\* PATCH /metrics/{id}.
ToggleMetric ==
    /\ metric.known
    /\ metric' = [metric EXCEPT !.enabled = ~@]
    /\ sample' = None
    /\ UNCHANGED <<agent, row, events, jobs, inflight, discoveredFrom, interrupted>>

\* The process stops, or crashes, and starts again.
Restart ==
    /\ jobs' = {}
    /\ inflight' = FALSE
    /\ sample' = None
    /\ UNCHANGED <<agent, row, metric, events, discoveredFrom, interrupted>>

-----------------------------------------------------------------------------
Init ==
    /\ agent \in [uptime: {1}, oid: Oids, answersTo: {{}}]
    /\ row \in {[NoRow EXCEPT !.creds = c] : c \in Credentials}
    /\ metric = NoMetric
    /\ sample = None
    /\ events = 0
    /\ jobs = {}
    /\ inflight = FALSE
    /\ discoveredFrom = {}
    /\ interrupted = FALSE

DiscoveryStep(j) == SystemAnswers(j) \/ SystemFails(j) \/ WalksEnd(j)

PollStep(j) == AcquireSlot(j) \/ UptimeAnswers(j) \/ PollAnswers(j) \/ PollFails(j)

JobStep(i) == \E j \in jobs : j.id = i /\ (DiscoveryStep(j) \/ PollStep(j))

Next ==
    \/ AgentChanges
    \/ \E c \in Credentials : EditCredentials(c)
    \/ SchedulePoll \/ PollNow \/ DiscoverNow
    \/ \E i \in JobIds : JobStep(i)
    \/ \E j \in jobs : JobCrashes(j)
    \/ DiscoveryAges \/ ToggleMetric \/ Restart

Spec == Init /\ [][Next]_vars

\* The poll loop comes round, what a job awaits comes or times out, and six hours
\* go by.
Fairness == WF_vars(SchedulePoll) /\ (\A i \in JobIds : WF_vars(JobStep(i))) /\ WF_vars(DiscoveryAges)

FairSpec == Spec /\ Fairness

-----------------------------------------------------------------------------
(* Properties.                                                             *)

\* A rate is never made of the readings of two OIDs: whenever agents renumber,
\* discoveries run, credentials change and jobs die, last_raw belongs to the OID
\* that is polled.
RatesOfOneOid == sample # None => sample.prev.oid = sample.cur.oid

\* "Counters must not produce a bogus rate across a reboot" (tests/test_snmp.py:95):
\* sysUpTime does not go backwards between two readings that make a rate.
RatesWithinOneBoot == sample # None => sample.prev.uptime <= sample.cur.uptime

\* What is left of it: poll_device makes a rate of readings between which sysUpTime went
\* backwards only if, between them or with the later one, a discovery was applied or a
\* poll did not get the counter and sysUpTime in one: the one, the other, or both later.
RebootsMissedOnlyIfInterrupted ==
    sample # None /\ sample.cur.uptime < sample.prev.uptime => sample.interrupted

\* Every change between down and not down logs an event, and nothing else does:
\* the copy of the row a poll compares with is never behind.
TransitionsAreRecorded ==
    [][(row.status = "down") # (row'.status = "down") <=> events' # events]_vars

\* "Re-discover ... when credentials change" (FR-SNMP-7): a device that counts as
\* discovered was discovered with the credentials it has.  False when an edit meets a
\* discovery; see OfferedIsPolled for what holds.
DiscoveredWithCredentials == row.discovered # "never" => discoveredFrom = {row.creds}

\* Whatever was lost, crashed or edited before: once nothing happens but polls and
\* the passing of time, a device that answers has the series it offers polled.
Undisturbed == <>[][SchedulePoll \/ (\E i \in JobIds : JobStep(i)) \/ DiscoveryAges]_vars

OfferedIsPolled ==
    Undisturbed =>
        (<>[](row.creds \in agent.answersTo) => <>[](metric.enabled /\ metric.oid = agent.oid))
=============================================================================

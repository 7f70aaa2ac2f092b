------------------------- MODULE DevicePollerProofs -------------------------
(***************************************************************************)
(* Type correctness of DevicePoller, and, for one job at a time, that no   *)
(* rate is made of the readings of two OIDs, that a restart of the agent   *)
(* is missed only after a discovery or a poll without a value, and that a  *)
(* device goes down and comes back with an event.                          *)
(***************************************************************************)
EXTENDS DevicePoller, TLAPS

\* None is NULL: no reading and no sample.
LEMMA NoneIsNoReading == None \notin Reading /\ None \notin Sample
  BY DEF None, Reading, Sample

LEMMA NullRows == NoRow \in Row /\ NoMetric \in Metric
  <1>1. (CHOOSE c \in Credentials : TRUE) \in Credentials /\ (CHOOSE o \in Oids : TRUE) \in Oids
    BY CredentialsAssumption
  <1> QED  BY <1>1 DEF NoRow, Row, NoMetric, Metric

\* What begins is a job with an id of its own.
LEMMA NewJobType ==
    ASSUME TypeOK, FreeIds # {},
           NEW kind \in {"poll", "discover"}, NEW phase \in {"queued", "asking"}
    PROVE  NewJob(kind, phase) \in Job /\ NewJob(kind, phase).id \in FreeIds
  <1>1. (CHOOSE i \in FreeIds : TRUE) \in FreeIds
    OBVIOUS
  <1>2. FreeIds \subseteq JobIds
    BY DEF FreeIds
  <1>3. row.creds \in Credentials
    BY DEF TypeOK, Row
  <1>4. (IF kind = "poll" THEN row ELSE NoRow) \in Row
    BY NullRows DEF TypeOK
  <1> QED  BY <1>1, <1>2, <1>3, <1>4, NullRows DEF NewJob, Job

\* A job that goes on to await a discovery or the values is a job, and of the same id.
LEMMA AskType ==
    ASSUME TypeOK, NEW j \in jobs, Ask(j)
    PROVE  jobs' \subseteq Job
  <1>1. row.creds \in Credentials /\ j \in Job
    BY DEF TypeOK, Row
  <1>2. [j EXCEPT !.phase = "asking", !.asker = row.creds, !.row = NoRow] \in Job
    BY <1>1, NullRows DEF Job
  <1> QED  BY <1>2 DEF Ask, Advance, TypeOK

LEMMA PollType ==
    ASSUME TypeOK, NEW j \in jobs, NEW d \in Row, NEW m \in Metric, Poll(j, d, m)
    PROVE  jobs' \subseteq Job
  <1> DEFINE copy == [NoRow EXCEPT !.status = d.status, !.polled = d.polled, !.uptime = d.uptime]
  <1>1. copy \in Row
    BY NullRows DEF Row
  <1>2. j \in Job
    BY DEF TypeOK
  <1> HIDE DEF copy
  <1>3. [j EXCEPT !.phase = "polling", !.metric = m, !.row = copy, !.asker = j.client, !.uptime = 0] \in Job
    BY <1>1, <1>2 DEF Job
  <1> QED  BY <1>3 DEF Poll, Advance, TypeOK, copy

\* What apply_discovery makes of a row of metrics, and what poll_device computes.
LEMMA FoundAtType ==
    ASSUME NEW m \in Metric, NEW oid \in Oids
    PROVE  FoundAt(m, oid) \in Metric /\ Vanished(m) \in Metric
  BY DEF Metric, FoundAt, Vanished

LEMMA ComputedType ==
    ASSUME NEW prev, NEW cur \in Reading, NEW rebooted \in BOOLEAN, NEW v \in Computed(prev, cur, rebooted)
    PROVE  /\ v.rate \in BOOLEAN /\ v.raw \in {cur, None}
           /\ v.rate => prev # None
  <1>1. CASE prev = None \/ rebooted
    <2>1. v = [rate |-> FALSE, raw |-> cur]
      BY <1>1 DEF Computed
    <2> QED  BY <2>1
  <1>2. CASE ~(prev = None \/ rebooted)
    <2>1. \/ v = [rate |-> TRUE, raw |-> cur]
          \/ v = [rate |-> FALSE, raw |-> None]
          \/ v = [rate |-> FALSE, raw |-> cur]
      BY <1>2 DEF Computed
    <2>2. prev # None
      BY <1>2
    <2>3. v.rate \in BOOLEAN /\ v.raw \in {cur, None}
      <3>1. CASE v = [rate |-> TRUE, raw |-> cur]
        BY <3>1
      <3>2. CASE v = [rate |-> FALSE, raw |-> None]
        BY <3>2
      <3>3. CASE v = [rate |-> FALSE, raw |-> cur]
        BY <3>3
      <3> QED  BY <2>1, <3>1, <3>2, <3>3
    <2> QED  BY <2>2, <2>3
  <1> QED  BY <1>1, <1>2

LEMMA UptimesForType ==
    ASSUME TypeOK, NEW j \in jobs
    PROVE  UptimesFor(j) \subseteq Nat
  <1>1. j.uptime \in Nat /\ agent.uptime \in Nat
    BY DEF TypeOK, Job, Agent, Uptimes
  <1> QED  BY <1>1 DEF UptimesFor

LEMMA AfterDiscoveryType ==
    ASSUME TypeOK, NEW j \in jobs, NEW d \in Row, NEW m \in Metric, AfterDiscovery(j, d, m)
    PROVE  jobs' \subseteq Job /\ inflight' \in BOOLEAN
  <1>1. CASE j.kind = "poll"
    BY <1>1, PollType DEF AfterDiscovery, TypeOK
  <1>2. CASE j.kind # "poll"
    BY <1>2 DEF AfterDiscovery, End, TypeOK
  <1> QED  BY <1>1, <1>2

-----------------------------------------------------------------------------
(* Type correctness.                                                       *)

LEMMA InitType == Init => TypeOK
  <1> SUFFICES ASSUME Init PROVE TypeOK
    OBVIOUS
  <1>1. agent \in Agent
    BY UptimeAssumption DEF Init, Agent, Uptimes
  <1>2. row \in Row
    BY NullRows DEF Init, Row
  <1> QED  BY <1>1, <1>2, NullRows DEF Init, TypeOK

LEMMA StartType ==
    ASSUME TypeOK, SchedulePoll \/ PollNow \/ DiscoverNow
    PROVE  TypeOK'
  <1>1. CASE SchedulePoll \/ PollNow
    BY <1>1, NewJobType DEF SchedulePoll, PollNow, TypeOK
  <1>2. CASE DiscoverNow
    BY <1>2, NewJobType DEF DiscoverNow, TypeOK
  <1> QED  BY <1>1, <1>2

LEMMA DiscoveryType ==
    ASSUME TypeOK, NEW j \in jobs, DiscoveryStep(j)
    PROVE  TypeOK'
  <1>1. CASE SystemAnswers(j)
    <2>1. PICK up \in UptimesFor(j) : Advance(j, [j EXCEPT !.phase = "walking", !.uptime = up])
      BY <1>1 DEF SystemAnswers
    <2>2. j \in Job /\ up \in Nat
      BY UptimesForType DEF TypeOK
    <2>3. [j EXCEPT !.phase = "walking", !.uptime = up] \in Job
      BY <2>2 DEF Job
    <2> QED  BY <1>1, <2>1, <2>3 DEF SystemAnswers, Advance, TypeOK
  <1>2. CASE SystemFails(j)
    <2>1. row \in Row /\ metric \in Metric
      BY DEF TypeOK
    <2> QED  BY <1>2, <2>1, AfterDiscoveryType DEF SystemFails, TypeOK
  <1>3. CASE WalksEnd(j)
    <2>1. j \in Job /\ agent.oid \in Oids
      BY DEF TypeOK, Agent
    <2>2. row' \in Row
      BY <1>3, <2>1 DEF WalksEnd, TypeOK, Row, Job
    <2>3. metric' \in Metric
      BY <1>3, <2>1, FoundAtType DEF WalksEnd, TypeOK
    <2>4. AfterDiscovery(j, row', metric')
      BY <1>3 DEF WalksEnd
    <2>5. jobs' \subseteq Job /\ inflight' \in BOOLEAN
      BY <2>2, <2>3, <2>4, AfterDiscoveryType
    <2>6. j.asker \in Credentials
      BY <2>1 DEF Job
    <2> QED  BY <1>3, <2>2, <2>3, <2>5, <2>6 DEF WalksEnd, TypeOK
  <1> QED  BY <1>1, <1>2, <1>3 DEF DiscoveryStep

\* The transaction of poll_device: what it stores and what it writes back.
Cur == [uptime |-> agent.uptime, oid |-> agent.oid]

LEMMA PolledReadings ==
    ASSUME TypeOK, NEW j \in jobs, PollAnswers(j)
    PROVE  \E rate \in BOOLEAN, raw \in {Cur, None}, doubt \in BOOLEAN :
             /\ rate \/ raw # None => j.metric.oid = agent.oid
             /\ rate => j.metric.baseline # None
             /\ sample' = IF rate THEN [prev |-> j.metric.baseline, cur |-> Cur, interrupted |-> doubt]
                                   ELSE None
             /\ metric' = IF j.metric.enabled
                            THEN [metric EXCEPT !.baseline = Coalesce(Coalesce(raw, j.metric.baseline), @)]
                            ELSE metric
  <1> DEFINE prev == j.metric.baseline
             values(up, read) == IF read THEN Computed(prev, Cur, Rebooted(j.row, up))
                                         ELSE {[rate |-> FALSE, raw |-> None]}
  <1>1. PICK up \in UptimesFor(j), read \in Reads(j) :
          \E v \in values(up, read) :
             /\ sample' = IF v.rate THEN [prev |-> prev, cur |-> Cur,
                                          interrupted |-> interrupted \/ up # agent.uptime]
                                    ELSE None
             /\ metric' = IF j.metric.enabled
                            THEN [metric EXCEPT !.baseline = Coalesce(Coalesce(v.raw, prev), @)]
                            ELSE metric
    BY DEF PollAnswers, Cur
  <1>2. PICK v \in values(up, read) :
             /\ sample' = IF v.rate THEN [prev |-> prev, cur |-> Cur,
                                          interrupted |-> interrupted \/ up # agent.uptime]
                                    ELSE None
             /\ metric' = IF j.metric.enabled
                            THEN [metric EXCEPT !.baseline = Coalesce(Coalesce(v.raw, prev), @)]
                            ELSE metric
    BY <1>1
  <1>3. Cur \in Reading /\ (interrupted \/ up # agent.uptime) \in BOOLEAN
    BY DEF TypeOK, Agent, Reading, Cur
  <1>4. read \in BOOLEAN /\ (read => j.metric.oid = agent.oid)
    BY DEF Reads
  <1>5. CASE read
    <2>1. Rebooted(j.row, up) \in BOOLEAN
      BY DEF Rebooted, TypeOK, Job, Row
    <2>2. v \in Computed(prev, Cur, Rebooted(j.row, up))
      BY <1>5
    <2>3. v.rate \in BOOLEAN /\ v.raw \in {Cur, None} /\ (v.rate => prev # None)
      BY <1>3, <2>1, <2>2, ComputedType
    <2> QED  BY <1>2, <1>3, <1>4, <1>5, <2>3
  <1>6. CASE ~read
    <2>1. v = [rate |-> FALSE, raw |-> None]
      BY <1>6
    <2>2. v.rate = FALSE /\ v.raw = None
      BY <2>1
    <2> QED  BY <1>2, <2>2
  <1> QED  BY <1>4, <1>5, <1>6

LEMMA WrittenBackType ==
    ASSUME TypeOK, NEW j \in jobs, NEW raw \in {Cur, None}
    PROVE  Coalesce(Coalesce(raw, j.metric.baseline), metric.baseline) \in Reading \cup {None}
  <1>1. Cur \in Reading
    BY DEF TypeOK, Agent, Reading, Cur
  <1>2. j.metric.baseline \in Reading \cup {None} /\ metric.baseline \in Reading \cup {None}
    BY DEF TypeOK, Job, Metric
  <1> QED  BY <1>1, <1>2 DEF Coalesce

LEMMA PollAnswersType ==
    ASSUME TypeOK, NEW j \in jobs, PollAnswers(j)
    PROVE  TypeOK'
  <1>1. PICK rate \in BOOLEAN, raw \in {Cur, None}, doubt \in BOOLEAN :
             /\ rate => j.metric.baseline # None
             /\ sample' = IF rate THEN [prev |-> j.metric.baseline, cur |-> Cur, interrupted |-> doubt]
                                   ELSE None
             /\ metric' = IF j.metric.enabled
                            THEN [metric EXCEPT !.baseline = Coalesce(Coalesce(raw, j.metric.baseline), @)]
                            ELSE metric
    BY PolledReadings
  <1>2. metric' \in Metric
    <2>1. metric \in Metric
      BY DEF TypeOK
    <2>2. Coalesce(Coalesce(raw, j.metric.baseline), metric.baseline) \in Reading \cup {None}
      BY WrittenBackType
    <2> QED  BY <1>1, <2>1, <2>2 DEF Metric
  <1>3. sample' \in Sample \cup {None}
    <2>1. Cur \in Reading /\ j.metric.baseline \in Reading \cup {None}
      BY DEF TypeOK, Agent, Reading, Cur, Job, Metric
    <2> QED  BY <1>1, <2>1 DEF Sample
  <1>4. row' \in Row
    <2>1. PICK up \in UptimesFor(j) :
            row' = [row EXCEPT !.status = "up", !.polled = TRUE,
                               !.uptime = IF up # 0 THEN up ELSE j.row.uptime]
      BY DEF PollAnswers
    <2>2. row \in Row /\ up \in Nat /\ j.row.uptime \in Nat
      BY UptimesForType DEF TypeOK, Job, Row
    <2>3. (IF up # 0 THEN up ELSE j.row.uptime) \in Nat
      BY <2>2
    <2> QED  BY <2>1, <2>2, <2>3 DEF Row
  <1>5. events' \in {0, 1}
    BY DEF PollAnswers, LogStatus, TypeOK
  <1>6. interrupted' \in BOOLEAN
    BY DEF PollAnswers
  <1>7. jobs' \subseteq Job /\ inflight' \in BOOLEAN
    BY DEF PollAnswers, End, TypeOK
  <1> QED  BY <1>2, <1>3, <1>4, <1>5, <1>6, <1>7 DEF PollAnswers, TypeOK

LEMMA PollStepType ==
    ASSUME TypeOK, NEW j \in jobs, PollStep(j)
    PROVE  TypeOK'
  <1>1. CASE AcquireSlot(j)
    <2>1. j.row \in Row /\ metric \in Metric
      BY DEF TypeOK, Job
    <2>2. jobs' \subseteq Job
      BY <1>1, <2>1, AskType, PollType DEF AcquireSlot
    <2> QED  BY <1>1, <2>2 DEF AcquireSlot, TypeOK
  <1>2. CASE PollAnswers(j)
    BY <1>2, PollAnswersType
  <1>3. CASE UptimeAnswers(j)
    <2>1. j \in Job /\ agent.uptime \in Nat
      BY DEF TypeOK, Agent, Uptimes
    <2>2. [j EXCEPT !.uptime = agent.uptime] \in Job
      BY <2>1 DEF Job
    <2> QED  BY <1>3, <2>2 DEF UptimeAnswers, Advance, TypeOK
  <1>4. CASE PollFails(j)
    <2>1. row' \in Row
      BY <1>4 DEF PollFails, TypeOK, Row
    <2>2. events' \in {0, 1}
      BY <1>4 DEF PollFails, LogStatus, TypeOK
    <2>3. jobs' \subseteq Job /\ inflight' \in BOOLEAN
      BY <1>4 DEF PollFails, End, TypeOK
    <2> QED  BY <1>4, <2>1, <2>2, <2>3 DEF PollFails, TypeOK
  <1> QED  BY <1>1, <1>2, <1>4, <1>3 DEF PollStep

LEMMA OutsideType ==
    ASSUME TypeOK,
           \/ AgentChanges \/ (\E c \in Credentials : EditCredentials(c))
           \/ (\E j \in jobs : JobCrashes(j)) \/ DiscoveryAges \/ ToggleMetric \/ Restart
           \/ UNCHANGED vars
    PROVE  TypeOK'
  <1>1. CASE AgentChanges
    <2>1. agent' \in Agent
      BY <1>1, UptimeAssumption DEF AgentChanges, TypeOK, Agent, Uptimes
    <2> QED  BY <1>1, <2>1 DEF AgentChanges, TypeOK
  <1>2. CASE \E c \in Credentials : EditCredentials(c)
    BY <1>2 DEF EditCredentials, TypeOK, Row
  <1>3. CASE \E j \in jobs : JobCrashes(j)
    BY <1>3 DEF JobCrashes, End, TypeOK
  <1>4. CASE DiscoveryAges
    BY <1>4 DEF DiscoveryAges, TypeOK, Row
  <1>5. CASE ToggleMetric
    BY <1>5 DEF ToggleMetric, TypeOK, Metric
  <1>6. CASE Restart
    BY <1>6 DEF Restart, TypeOK
  <1>7. CASE UNCHANGED vars
    BY <1>7 DEF vars, TypeOK
  <1> QED  BY <1>1, <1>2, <1>3, <1>4, <1>5, <1>6, <1>7

\* The variables of DevicePoller keep their types: whatever overlaps, only readings
\* and NULL are written to last_raw, and statuses and events stay in their ranges.
THEOREM TypeCorrect == Spec => []TypeOK
  <1>1. TypeOK /\ [Next]_vars => TypeOK'
    <2> SUFFICES ASSUME TypeOK, [Next]_vars PROVE TypeOK'
      OBVIOUS
    <2>1. CASE SchedulePoll \/ PollNow \/ DiscoverNow
      BY <2>1, StartType
    <2>2. CASE \E i \in JobIds : JobStep(i)
      BY <2>2, DiscoveryType, PollStepType DEF JobStep
    <2>3. CASE ~(SchedulePoll \/ PollNow \/ DiscoverNow) /\ ~(\E i \in JobIds : JobStep(i))
      BY <2>3, OutsideType DEF Next
    <2> QED  BY <2>1, <2>2, <2>3
  <1> QED  BY <1>1, InitType, PTL DEF Spec

-----------------------------------------------------------------------------
(* While only the poll loop starts jobs.                                   *)

\* Neither POST /devices/{id}/poll nor POST /devices/{id}/discover is used.
ScheduledOnly == ~ByHand

\* There is one job at most, and while there is one its key is in flight.
OneJob ==
    /\ \A j, k \in jobs : j = k
    /\ \A j \in jobs : j.kind = "poll" /\ inflight

\* What was read and is kept was read at the OID of the row.
OfItsOid(m) == m.baseline # None => m.baseline.oid = m.oid

\* The copy a job writes back has the row's OID.
CopiesOfOid == \A j \in jobs : j.phase = "polling" => j.metric.oid = metric.oid /\ OfItsOid(j.metric)

OidInv == TypeOK /\ OneJob /\ OfItsOid(metric) /\ CopiesOfOid /\ RatesOfOneOid

LEMMA InitOid == Init => OidInv
  <1>1. Init => metric.baseline = None
    BY DEF Init, NoMetric
  <1> QED  BY <1>1, InitType DEF Init, OidInv, OneJob, OfItsOid, CopiesOfOid, RatesOfOneOid

\* The poll loop starts a job only when there is none.
LEMMA ScheduleOid ==
    ASSUME OidInv, SchedulePoll
    PROVE  OidInv'
  <1>1. TypeOK /\ TypeOK'
    BY StartType DEF OidInv
  <1>2. jobs = {} /\ jobs' = {NewJob("poll", "queued")} /\ inflight'
    BY DEF SchedulePoll, OidInv, OneJob
  <1>3. NewJob("poll", "queued").kind = "poll" /\ NewJob("poll", "queued").phase = "queued"
    BY DEF NewJob
  <1>4. OneJob' /\ CopiesOfOid'
    BY <1>2, <1>3 DEF OneJob, CopiesOfOid
  <1> QED  BY <1>1, <1>4 DEF SchedulePoll, OidInv, OfItsOid, RatesOfOneOid

\* The only job goes on to poll, with a copy of the row as it then is.
LEMMA PollOid ==
    ASSUME TypeOK, OneJob, NEW j \in jobs, NEW d \in Row, NEW m \in Metric, OfItsOid(m),
           Poll(j, d, m), inflight' = inflight, metric' = m
    PROVE  OneJob' /\ CopiesOfOid' /\ OfItsOid(metric)'
  <1>1. PICK next : /\ jobs' = (jobs \ {j}) \cup {next}
                    /\ next.kind = j.kind /\ next.metric = m
    <2> DEFINE copy == [NoRow EXCEPT !.status = d.status, !.polled = d.polled, !.uptime = d.uptime]
    <2>1. j \in Job
      BY DEF TypeOK
    <2> DEFINE next == [j EXCEPT !.phase = "polling", !.metric = m, !.row = copy,
                                 !.asker = j.client, !.uptime = 0]
    <2>2. jobs' = (jobs \ {j}) \cup {next}
      BY DEF Poll, Advance
    <2> HIDE DEF copy
    <2>3. next.kind = j.kind /\ next.metric = m
      BY <2>1 DEF Job
    <2> QED  BY <2>2, <2>3
  <1>2. jobs' = {next}
    BY <1>1 DEF OneJob
  <1> QED  BY <1>1, <1>2 DEF OneJob, CopiesOfOid, OfItsOid

\* The only job ends.
LEMMA EndOid ==
    ASSUME OneJob, NEW j \in jobs, End(j)
    PROVE  OneJob' /\ CopiesOfOid'
  <1>1. jobs' = {}
    BY DEF OneJob, End
  <1> QED  BY <1>1 DEF OneJob, CopiesOfOid

LEMMA AfterDiscoveryOid ==
    ASSUME TypeOK, OneJob, NEW j \in jobs, NEW d \in Row, NEW m \in Metric, OfItsOid(m),
           AfterDiscovery(j, d, m), metric' = m
    PROVE  OneJob' /\ CopiesOfOid' /\ OfItsOid(metric)'
  <1>1. j.kind = "poll"
    BY DEF OneJob
  <1>2. Poll(j, d, m) /\ inflight' = inflight
    BY <1>1 DEF AfterDiscovery
  <1> QED  BY <1>2, PollOid

LEMMA DiscoveryOid ==
    ASSUME OidInv, NEW j \in jobs, DiscoveryStep(j)
    PROVE  OidInv'
  <1>1. TypeOK /\ TypeOK' /\ OneJob /\ OfItsOid(metric) /\ j \in Job
    BY DiscoveryType DEF OidInv, TypeOK
  <1>2. CASE SystemAnswers(j)
    <2>1. PICK up \in UptimesFor(j) : Advance(j, [j EXCEPT !.phase = "walking", !.uptime = up])
      BY <1>2 DEF SystemAnswers
    <2> DEFINE next == [j EXCEPT !.phase = "walking", !.uptime = up]
    <2>2. next.kind = j.kind /\ next.phase = "walking"
      BY <1>1 DEF Job
    <2>3. jobs' = {next}
      BY <1>1, <2>1 DEF Advance, OneJob
    <2> HIDE DEF next
    <2>4. OneJob' /\ CopiesOfOid'
      BY <1>1, <1>2, <2>2, <2>3 DEF SystemAnswers, OneJob, CopiesOfOid
    <2> QED  BY <1>1, <1>2, <2>4 DEF SystemAnswers, OidInv, OfItsOid, RatesOfOneOid
  <1>3. CASE SystemFails(j)
    <2>1. row \in Row /\ metric \in Metric
      BY <1>1 DEF TypeOK
    <2>2. OneJob' /\ CopiesOfOid' /\ OfItsOid(metric)'
      BY <1>1, <1>3, <2>1, AfterDiscoveryOid DEF SystemFails
    <2> QED  BY <1>1, <1>3, <2>2 DEF SystemFails, OidInv, RatesOfOneOid
  <1>4. CASE WalksEnd(j)
    <2>1. metric' = FoundAt(metric, agent.oid) \/ metric' = Vanished(metric)
      BY <1>4 DEF WalksEnd
    <2>2. OfItsOid(metric')
      BY <1>1, <2>1 DEF TypeOK, Metric, OfItsOid, FoundAt, Vanished
    <2>3. row' \in Row /\ metric' \in Metric
      BY <1>1 DEF TypeOK
    <2>4. AfterDiscovery(j, row', metric')
      BY <1>4 DEF WalksEnd
    <2>5. OneJob' /\ CopiesOfOid' /\ OfItsOid(metric)'
      BY <1>1, <2>2, <2>3, <2>4, AfterDiscoveryOid
    <2> QED  BY <1>1, <1>4, <2>5 DEF WalksEnd, OidInv, RatesOfOneOid
  <1> QED  BY <1>2, <1>3, <1>4 DEF DiscoveryStep

LEMMA AcquireOid ==
    ASSUME OidInv, NEW j \in jobs, AcquireSlot(j)
    PROVE  OidInv'
  <1>1. TypeOK /\ TypeOK' /\ OneJob /\ OfItsOid(metric) /\ j \in Job
    BY PollStepType DEF OidInv, TypeOK, PollStep
  <1>2. OneJob' /\ CopiesOfOid'
    <2>1. CASE Ask(j)
      <3> DEFINE next == [j EXCEPT !.phase = "asking", !.asker = row.creds, !.row = NoRow]
      <3>1. next.kind = j.kind /\ next.phase = "asking"
        BY <1>1 DEF Job
      <3>2. jobs' = {next}
        BY <1>1, <2>1 DEF Ask, Advance, OneJob
      <3> HIDE DEF next
      <3> QED  BY <1>1, <3>1, <3>2 DEF AcquireSlot, OneJob, CopiesOfOid
    <2>2. CASE Poll(j, j.row, metric)
      <3>1. j.row \in Row /\ metric \in Metric /\ metric' = metric /\ inflight' = inflight
        BY <1>1 DEF TypeOK, Job, AcquireSlot
      <3> QED  BY <1>1, <2>2, <3>1, PollOid
    <2> QED  BY <2>1, <2>2 DEF AcquireSlot
  <1> QED  BY <1>1, <1>2 DEF AcquireSlot, OidInv, OfItsOid, RatesOfOneOid

LEMMA UptimeAnswersOid ==
    ASSUME OidInv, NEW j \in jobs, UptimeAnswers(j)
    PROVE  OidInv'
  <1>1. TypeOK /\ TypeOK' /\ OneJob /\ j \in Job
    BY PollStepType DEF OidInv, TypeOK, PollStep
  <1> DEFINE next == [j EXCEPT !.uptime = agent.uptime]
  <1>2. jobs' = {next}
    BY <1>1 DEF UptimeAnswers, Advance, OneJob
  <1>3. next.kind = j.kind /\ next.phase = j.phase /\ next.metric = j.metric
    BY <1>1 DEF Job
  <1> HIDE DEF next
  <1>4. OneJob' /\ CopiesOfOid'
    BY <1>1, <1>2, <1>3 DEF UptimeAnswers, OidInv, OneJob, CopiesOfOid
  <1> QED  BY <1>1, <1>4 DEF UptimeAnswers, OidInv, OfItsOid, RatesOfOneOid

\* The readings a poll uses and writes back are of one OID: the new one was taken at
\* the OID of the copy, and so was the old one.
LEMMA PollAnswersOid ==
    ASSUME OidInv, NEW j \in jobs, PollAnswers(j)
    PROVE  OidInv'
  <1>1. TypeOK /\ TypeOK' /\ OneJob /\ OfItsOid(metric) /\ metric \in Metric
    BY PollAnswersType DEF OidInv, TypeOK
  <1>2. j.metric.oid = metric.oid /\ OfItsOid(j.metric)
    BY DEF OidInv, CopiesOfOid, PollAnswers
  <1>3. PICK rate \in BOOLEAN, raw \in {Cur, None}, doubt \in BOOLEAN :
             /\ rate \/ raw # None => j.metric.oid = agent.oid
             /\ rate => j.metric.baseline # None
             /\ sample' = IF rate THEN [prev |-> j.metric.baseline, cur |-> Cur, interrupted |-> doubt]
                                   ELSE None
             /\ metric' = IF j.metric.enabled
                            THEN [metric EXCEPT !.baseline = Coalesce(Coalesce(raw, j.metric.baseline), @)]
                            ELSE metric
    BY <1>1, PolledReadings
  <1>4. Cur.oid = agent.oid
    BY DEF Cur
  <1>5. OfItsOid(metric')
    <2> DEFINE kept == Coalesce(Coalesce(raw, j.metric.baseline), metric.baseline)
    <2>1. kept # None => kept.oid = metric.oid
      BY <1>1, <1>2, <1>3, <1>4 DEF Coalesce, OfItsOid
    <2> HIDE DEF kept
    <2>2. metric' = metric \/ metric' = [metric EXCEPT !.baseline = kept]
      BY <1>3 DEF kept
    <2> QED  BY <1>1, <2>1, <2>2 DEF OfItsOid, Metric
  <1>6. RatesOfOneOid'
    <2>1. CASE rate
      <3>1. sample'.prev = j.metric.baseline /\ sample'.cur = Cur
        BY <1>3, <2>1
      <3>2. j.metric.baseline.oid = Cur.oid
        BY <1>2, <1>3, <1>4, <2>1 DEF OfItsOid
      <3> QED  BY <3>1, <3>2 DEF RatesOfOneOid
    <2>2. CASE ~rate
      BY <1>3, <2>2 DEF RatesOfOneOid
    <2> QED  BY <2>1, <2>2
  <1>7. OneJob' /\ CopiesOfOid'
    BY <1>1, EndOid DEF PollAnswers
  <1> QED  BY <1>1, <1>5, <1>6, <1>7 DEF OidInv, OfItsOid

LEMMA PollFailsOid ==
    ASSUME OidInv, NEW j \in jobs, PollFails(j)
    PROVE  OidInv'
  <1>1. TypeOK' /\ OneJob' /\ CopiesOfOid'
    BY PollStepType, EndOid DEF OidInv, PollStep, PollFails
  <1> QED  BY <1>1 DEF PollFails, OidInv, OfItsOid, RatesOfOneOid

LEMMA OutsideOid ==
    ASSUME OidInv,
           \/ AgentChanges \/ (\E c \in Credentials : EditCredentials(c))
           \/ (\E j \in jobs : JobCrashes(j)) \/ DiscoveryAges \/ ToggleMetric \/ Restart
           \/ UNCHANGED vars
    PROVE  OidInv'
  <1>1. TypeOK /\ TypeOK'
    BY OutsideType DEF OidInv
  <1>2. CASE \/ AgentChanges \/ (\E c \in Credentials : EditCredentials(c))
             \/ DiscoveryAges \/ UNCHANGED vars
    <2>1. metric' = metric /\ sample' \in {None, sample} /\ jobs' = jobs /\ inflight' = inflight
      BY <1>2 DEF AgentChanges, EditCredentials, DiscoveryAges, vars
    <2> QED  BY <1>1, <2>1 DEF OidInv, OneJob, OfItsOid, CopiesOfOid, RatesOfOneOid
  <1>3. CASE \E j \in jobs : JobCrashes(j)
    <2>1. OneJob' /\ CopiesOfOid'
      BY <1>3, EndOid DEF JobCrashes, OidInv
    <2> QED  BY <1>1, <1>3, <2>1 DEF JobCrashes, OidInv, OfItsOid, RatesOfOneOid
  <1>4. CASE ToggleMetric
    <2>1. metric'.oid = metric.oid /\ metric'.baseline = metric.baseline
      BY <1>1, <1>4 DEF ToggleMetric, TypeOK, Metric
    <2> QED  BY <1>1, <1>4, <2>1 DEF ToggleMetric, OidInv, OneJob, OfItsOid, CopiesOfOid, RatesOfOneOid
  <1>5. CASE Restart
    BY <1>1, <1>5 DEF Restart, OidInv, OneJob, OfItsOid, CopiesOfOid, RatesOfOneOid
  <1> QED  BY <1>2, <1>3, <1>4, <1>5

LEMMA OidInvariant ==
    ASSUME ScheduledOnly
    PROVE  Spec => []OidInv
  <1>1. OidInv /\ [Next]_vars => OidInv'
    <2> SUFFICES ASSUME OidInv, [Next]_vars PROVE OidInv'
      OBVIOUS
    <2>1. CASE SchedulePoll
      BY <2>1, ScheduleOid
    <2>2. CASE PollNow \/ DiscoverNow
      BY <2>2 DEF PollNow, DiscoverNow, ScheduledOnly
    <2>3. CASE \E i \in JobIds : JobStep(i)
      BY <2>3, DiscoveryOid, AcquireOid, UptimeAnswersOid, PollAnswersOid, PollFailsOid DEF JobStep, PollStep
    <2>4. CASE ~(SchedulePoll \/ PollNow \/ DiscoverNow) /\ ~(\E i \in JobIds : JobStep(i))
      BY <2>4, OutsideOid DEF Next
    <2> QED  BY <2>1, <2>2, <2>3, <2>4
  <1> QED  BY <1>1, InitOid, PTL DEF Spec

\* While only the poll loop starts jobs, no rate is made of the readings of two OIDs,
\* however the agent renumbers its counters and whatever discoveries, edits, crashes
\* and restarts happen between the two readings.
THEOREM RatesOfOneOidAlways ==
    ASSUME ScheduledOnly
    PROVE  Spec => []RatesOfOneOid
  <1>1. OidInv => RatesOfOneOid
    BY DEF OidInv
  <1> QED  BY <1>1, OidInvariant, PTL

-----------------------------------------------------------------------------
(* What a poll compares with is what the rows hold.                        *)

\* The columns poll_device looks at.
SameColumns(d, e) == d.status = e.status /\ d.polled = e.polled /\ d.uptime = e.uptime

\* The copies a job has are not behind the rows.
CopiesOfRow ==
    \A j \in jobs : j.phase \in {"queued", "polling"} => SameColumns(j.row, row)

CopiesOfBaseline ==
    \A j \in jobs : j.phase = "polling" => j.metric.baseline = metric.baseline

\* Without an interruption sys_uptime is not behind the latest reading.
BaselineBehind ==
    metric.baseline # None /\ ~interrupted => row.polled /\ metric.baseline.uptime <= row.uptime

FreshInv == CopiesOfRow /\ CopiesOfBaseline /\ BaselineBehind /\ RebootsMissedOnlyIfInterrupted

LEMMA InitFresh == Init => FreshInv
  BY DEF Init, NoMetric, FreshInv, CopiesOfRow, CopiesOfBaseline, BaselineBehind,
         RebootsMissedOnlyIfInterrupted

LEMMA ScheduleFresh ==
    ASSUME OidInv, FreshInv, SchedulePoll
    PROVE  FreshInv'
  <1>1. jobs' = {NewJob("poll", "queued")}
    BY DEF SchedulePoll, OidInv, OneJob
  <1>2. NewJob("poll", "queued").row = row /\ NewJob("poll", "queued").phase = "queued"
    BY DEF NewJob
  <1>3. CopiesOfRow' /\ CopiesOfBaseline'
    BY <1>1, <1>2 DEF SchedulePoll, CopiesOfRow, CopiesOfBaseline, SameColumns
  <1> QED  BY <1>3 DEF SchedulePoll, FreshInv, BaselineBehind, RebootsMissedOnlyIfInterrupted

\* The only job goes on to poll, with copies of the rows as they then are.
LEMMA PollFresh ==
    ASSUME TypeOK, OneJob, NEW j \in jobs, NEW d \in Row, NEW m \in Metric, Poll(j, d, m),
           SameColumns(d, row'), m.baseline = metric'.baseline
    PROVE  CopiesOfRow' /\ CopiesOfBaseline'
  <1> DEFINE copy == [NoRow EXCEPT !.status = d.status, !.polled = d.polled, !.uptime = d.uptime]
             next == [j EXCEPT !.phase = "polling", !.metric = m, !.row = copy,
                               !.asker = j.client, !.uptime = 0]
  <1>1. j \in Job
    BY DEF TypeOK
  <1>2. SameColumns(copy, row')
    BY NullRows DEF Row, SameColumns
  <1>3. jobs' = {next}
    BY DEF Poll, Advance, OneJob
  <1> HIDE DEF copy
  <1>4. next.row = copy /\ next.metric = m
    BY <1>1 DEF Job
  <1> HIDE DEF next
  <1> QED  BY <1>2, <1>3, <1>4 DEF CopiesOfRow, CopiesOfBaseline

LEMMA EndFresh ==
    ASSUME OneJob, NEW j \in jobs, End(j)
    PROVE  CopiesOfRow' /\ CopiesOfBaseline'
  <1>1. jobs' = {}
    BY DEF OneJob, End
  <1> QED  BY <1>1 DEF CopiesOfRow, CopiesOfBaseline

\* The only job goes on to a phase in which it has no copies.
LEMMA WaitFresh ==
    ASSUME OneJob, NEW j \in jobs, NEW next, Advance(j, next), next.phase \in {"asking", "walking"}
    PROVE  CopiesOfRow' /\ CopiesOfBaseline'
  <1>1. jobs' = {next}
    BY DEF OneJob, Advance
  <1> QED  BY <1>1 DEF CopiesOfRow, CopiesOfBaseline

LEMMA DiscoveryFresh ==
    ASSUME OidInv, FreshInv, NEW j \in jobs, DiscoveryStep(j)
    PROVE  FreshInv' /\ row'.status = row.status /\ events' = events
  <1>1. TypeOK /\ TypeOK' /\ OneJob /\ j \in Job
    BY DiscoveryType DEF OidInv, TypeOK
  <1>2. CASE SystemAnswers(j)
    <2>1. PICK up \in UptimesFor(j) : Advance(j, [j EXCEPT !.phase = "walking", !.uptime = up])
      BY <1>2 DEF SystemAnswers
    <2> DEFINE next == [j EXCEPT !.phase = "walking", !.uptime = up]
    <2>2. next.phase = "walking"
      BY <1>1 DEF Job
    <2>3. CopiesOfRow' /\ CopiesOfBaseline'
      BY <1>1, <2>1, <2>2, WaitFresh
    <2> QED  BY <1>2, <2>3 DEF SystemAnswers, FreshInv, BaselineBehind, RebootsMissedOnlyIfInterrupted
  <1>3. CASE SystemFails(j)
    <2>1. row \in Row /\ metric \in Metric /\ j.kind = "poll"
      BY <1>1 DEF TypeOK, OneJob
    <2>2. Poll(j, row, metric) /\ row' = row /\ metric' = metric
      BY <1>3, <2>1 DEF SystemFails, AfterDiscovery
    <2>3. CopiesOfRow' /\ CopiesOfBaseline'
      BY <1>1, <2>1, <2>2, PollFresh DEF SameColumns
    <2> QED  BY <1>3, <2>3 DEF SystemFails, FreshInv, BaselineBehind, RebootsMissedOnlyIfInterrupted
  <1>4. CASE WalksEnd(j)
    <2>1. row' \in Row /\ metric' \in Metric /\ j.kind = "poll"
      BY <1>1 DEF TypeOK, OneJob
    <2>2. Poll(j, row', metric')
      BY <1>4, <2>1 DEF WalksEnd, AfterDiscovery
    <2>3. CopiesOfRow' /\ CopiesOfBaseline'
      BY <1>1, <2>1, <2>2, PollFresh DEF SameColumns
    <2>4. row'.status = row.status
      BY <1>1, <1>4 DEF WalksEnd, TypeOK, Row
    <2> QED  BY <1>4, <2>3, <2>4 DEF WalksEnd, FreshInv, BaselineBehind, RebootsMissedOnlyIfInterrupted
  <1> QED  BY <1>2, <1>3, <1>4 DEF DiscoveryStep

LEMMA AcquireFresh ==
    ASSUME OidInv, FreshInv, NEW j \in jobs, AcquireSlot(j)
    PROVE  FreshInv' /\ row' = row /\ events' = events
  <1>1. TypeOK /\ OneJob /\ j \in Job
    BY DEF OidInv, TypeOK
  <1>2. CopiesOfRow' /\ CopiesOfBaseline'
    <2>1. CASE Ask(j)
      <3>1. [j EXCEPT !.phase = "asking", !.asker = row.creds, !.row = NoRow].phase = "asking"
        BY <1>1 DEF Job
      <3> QED  BY <1>1, <2>1, <3>1, WaitFresh DEF Ask
    <2>2. CASE Poll(j, j.row, metric)
      <3>1. j.row \in Row /\ metric \in Metric /\ metric' = metric /\ row' = row
        BY <1>1 DEF TypeOK, Job, AcquireSlot
      <3>2. SameColumns(j.row, row')
        BY <3>1 DEF FreshInv, CopiesOfRow, AcquireSlot
      <3> QED  BY <1>1, <2>2, <3>1, <3>2, PollFresh
    <2> QED  BY <2>1, <2>2 DEF AcquireSlot
  <1> QED  BY <1>2 DEF AcquireSlot, FreshInv, BaselineBehind, RebootsMissedOnlyIfInterrupted

LEMMA UptimeAnswersFresh ==
    ASSUME OidInv, FreshInv, NEW j \in jobs, UptimeAnswers(j)
    PROVE  FreshInv' /\ row' = row /\ events' = events
  <1>1. OneJob /\ j \in Job
    BY DEF OidInv, TypeOK
  <1> DEFINE next == [j EXCEPT !.uptime = agent.uptime]
  <1>2. jobs' = {next}
    BY <1>1 DEF UptimeAnswers, Advance, OneJob
  <1>3. next.row = j.row /\ next.phase = j.phase /\ next.metric = j.metric
    BY <1>1 DEF Job
  <1> HIDE DEF next
  <1>4. CopiesOfRow' /\ CopiesOfBaseline'
    BY <1>2, <1>3 DEF UptimeAnswers, FreshInv, CopiesOfRow, CopiesOfBaseline
  <1> QED  BY <1>4 DEF UptimeAnswers, FreshInv, BaselineBehind, RebootsMissedOnlyIfInterrupted

\* What poll_device makes of the two readings, and when.
Doubtful == interrupted' /\ (sample' = None \/ sample'.interrupted)

Reread == sample' = None /\ metric' = [metric EXCEPT !.baseline = Cur]

Rated(j) ==
    /\ j.metric.baseline # None
    /\ metric' = [metric EXCEPT !.baseline = Cur]
    /\ sample' = [prev |-> j.metric.baseline, cur |-> Cur, interrupted |-> interrupted]

LeftOut(j) ==
    /\ j.metric.baseline # None
    /\ metric' = [metric EXCEPT !.baseline = j.metric.baseline]
    /\ sample' = None /\ interrupted' = interrupted

\* If sysUpTime came with the counter, a rate is made, or an unchanged reading left out,
\* only if it has gone on since the copied row.
LEMMA PolledOutcomes ==
    ASSUME TypeOK, NEW j \in jobs, PollAnswers(j), ~Doubtful
    PROVE  /\ row' = [row EXCEPT !.status = "up", !.polled = TRUE, !.uptime = agent.uptime]
           /\ Reread \/ (~Rebooted(j.row, agent.uptime) /\ (Rated(j) \/ LeftOut(j)))
  <1> DEFINE prev == j.metric.baseline
             values(up, read) == IF read THEN Computed(prev, Cur, Rebooted(j.row, up))
                                         ELSE {[rate |-> FALSE, raw |-> None]}
  <1>1. PICK up \in UptimesFor(j), read \in Reads(j) :
          /\ \E v \in values(up, read) :
               /\ sample' = IF v.rate THEN [prev |-> prev, cur |-> Cur,
                                            interrupted |-> interrupted \/ up # agent.uptime]
                                      ELSE None
               /\ metric' = IF j.metric.enabled
                              THEN [metric EXCEPT !.baseline = Coalesce(Coalesce(v.raw, prev), @)]
                              ELSE metric
               /\ interrupted' = (up # agent.uptime \/ (v.raw = None /\ (interrupted \/ ~read)))
          /\ row' = [row EXCEPT !.status = "up", !.polled = TRUE,
                                !.uptime = IF up # 0 THEN up ELSE j.row.uptime]
    BY DEF PollAnswers, Cur
  <1>2. PICK v \in values(up, read) :
             /\ sample' = IF v.rate THEN [prev |-> prev, cur |-> Cur,
                                          interrupted |-> interrupted \/ up # agent.uptime]
                                    ELSE None
             /\ metric' = IF j.metric.enabled
                            THEN [metric EXCEPT !.baseline = Coalesce(Coalesce(v.raw, prev), @)]
                            ELSE metric
             /\ interrupted' = (up # agent.uptime \/ (v.raw = None /\ (interrupted \/ ~read)))
    BY <1>1
  <1> HIDE DEF values
  <1>3. up = agent.uptime
    <2>1. SUFFICES ASSUME up # agent.uptime PROVE Doubtful
      OBVIOUS
    <2>2. sample' = None \/ sample'.interrupted
      BY <1>2, <2>1
    <2> QED  BY <1>2, <2>1, <2>2 DEF Doubtful
  <1>4. interrupted \in BOOLEAN /\ agent.uptime # 0 /\ Cur # None
    BY NoneIsNoReading DEF TypeOK, Agent, Reading, Cur, Uptimes
  <1>5. row' = [row EXCEPT !.status = "up", !.polled = TRUE, !.uptime = agent.uptime]
    BY <1>1, <1>3, <1>4
  <1>6. read /\ j.metric.enabled
    <2>1. SUFFICES ASSUME ~read PROVE Doubtful
      BY DEF Reads
    <2>2. v = [rate |-> FALSE, raw |-> None]
      BY <2>1 DEF values
    <2>3. ~v.rate /\ v.raw = None
      BY <2>2
    <2> QED  BY <1>2, <2>1, <2>3 DEF Doubtful
  <1>7. v \in Computed(prev, Cur, Rebooted(j.row, agent.uptime))
    BY <1>3, <1>6 DEF values
  <1>8. CASE v.raw = Cur /\ ~v.rate
    <2>1. Reread
      BY <1>2, <1>4, <1>6, <1>8 DEF Reread, Coalesce
    <2> QED  BY <1>5, <2>1
  <1>9. CASE ~(v.raw = Cur /\ ~v.rate)
    <2>1. prev # None /\ ~Rebooted(j.row, agent.uptime)
      <3>1. SUFFICES ASSUME prev = None \/ Rebooted(j.row, agent.uptime) PROVE FALSE
        OBVIOUS
      <3>2. v = [rate |-> FALSE, raw |-> Cur]
        BY <1>7, <3>1 DEF Computed
      <3> QED  BY <1>9, <3>2
    <2>2. v = [rate |-> TRUE, raw |-> Cur] \/ v = [rate |-> FALSE, raw |-> None]
      <3>1. \/ v = [rate |-> TRUE, raw |-> Cur]
            \/ v = [rate |-> FALSE, raw |-> None]
            \/ v = [rate |-> FALSE, raw |-> Cur]
        BY <1>7, <2>1 DEF Computed
      <3> QED  BY <1>9, <3>1
    <2>3. CASE v = [rate |-> TRUE, raw |-> Cur]
      <3>1. v.rate /\ v.raw = Cur
        BY <2>3
      <3>2. Rated(j)
        BY <1>2, <1>3, <1>4, <1>6, <2>1, <3>1 DEF Rated, Coalesce
      <3> QED  BY <1>5, <2>1, <3>2
    <2>4. CASE v = [rate |-> FALSE, raw |-> None]
      <3>1. ~v.rate /\ v.raw = None
        BY <2>4
      <3>2. LeftOut(j)
        BY <1>2, <1>3, <1>4, <1>6, <2>1, <3>1 DEF LeftOut, Coalesce
      <3> QED  BY <1>5, <2>1, <3>2
    <2> QED  BY <2>2, <2>3, <2>4
  <1> QED  BY <1>8, <1>9

LEMMA PollAnswersFresh ==
    ASSUME OidInv, FreshInv, NEW j \in jobs, PollAnswers(j)
    PROVE  FreshInv'
  <1>1. TypeOK /\ OneJob /\ metric \in Metric /\ j \in Job /\ row \in Row /\ agent \in Agent
    BY DEF OidInv, TypeOK
  <1>2. CopiesOfRow' /\ CopiesOfBaseline'
    BY <1>1, EndFresh DEF PollAnswers
  <1>3. CASE Doubtful
    BY <1>2, <1>3 DEF Doubtful, FreshInv, BaselineBehind, RebootsMissedOnlyIfInterrupted
  <1>4. CASE ~Doubtful
    <2>1. SameColumns(j.row, row) /\ j.metric.baseline = metric.baseline
      BY DEF PollAnswers, FreshInv, CopiesOfRow, CopiesOfBaseline
    <2>2. row' = [row EXCEPT !.status = "up", !.polled = TRUE, !.uptime = agent.uptime]
      BY <1>1, <1>4, PolledOutcomes
    <2>3. agent.uptime \in Nat \ {0} /\ row.uptime \in Nat
      <3>1. row.uptime \in Nat /\ agent.uptime \in Uptimes
        BY <1>1 DEF Row, Agent
      <3> QED  BY <3>1, UptimeAssumption DEF Uptimes
    <2>4. row'.polled /\ row'.uptime = agent.uptime /\ Cur.uptime = agent.uptime
      BY <1>1, <2>2 DEF Row, Cur
    <2>5. j.metric.baseline # None => j.metric.baseline \in Reading /\ j.metric.baseline.uptime \in Nat
      BY <1>1 DEF Job, Metric, Reading, Uptimes
    <2>6. j.metric.baseline # None /\ ~Rebooted(j.row, agent.uptime) /\ ~interrupted
            => j.metric.baseline.uptime <= agent.uptime
      BY <2>1, <2>3, <2>5 DEF FreshInv, BaselineBehind, Rebooted, SameColumns
    <2>7. CASE Reread
      <3>1. metric'.baseline = Cur
        BY <1>1, <2>7 DEF Reread, Metric
      <3> QED  BY <1>2, <2>3, <2>4, <2>7, <3>1 DEF Reread, FreshInv, BaselineBehind, RebootsMissedOnlyIfInterrupted
    <2>8. CASE ~Rebooted(j.row, agent.uptime) /\ Rated(j)
      <3>1. metric'.baseline = Cur
        BY <1>1, <2>8 DEF Rated, Metric
      <3>2. /\ sample'.prev = j.metric.baseline /\ sample'.cur = Cur
            /\ sample'.interrupted = interrupted
        BY <2>8 DEF Rated
      <3>3. BaselineBehind'
        BY <2>3, <2>4, <3>1 DEF BaselineBehind
      <3>4. ~interrupted => sample'.prev.uptime <= sample'.cur.uptime
        BY <2>4, <2>6, <2>8, <3>2 DEF Rated
      <3>5. sample'.cur.uptime \in Nat /\ sample'.prev.uptime \in Nat
        BY <2>3, <2>4, <2>5, <2>8, <3>2 DEF Rated
      <3>6. RebootsMissedOnlyIfInterrupted'
        BY <3>2, <3>4, <3>5 DEF RebootsMissedOnlyIfInterrupted
      <3> QED  BY <1>2, <3>3, <3>6 DEF FreshInv
    <2>9. CASE ~Rebooted(j.row, agent.uptime) /\ LeftOut(j)
      <3>1. metric'.baseline = j.metric.baseline
        BY <1>1, <2>9 DEF LeftOut, Metric
      <3>2. BaselineBehind'
        BY <2>4, <2>6, <2>9, <3>1 DEF LeftOut, BaselineBehind
      <3> QED  BY <1>2, <2>9, <3>2 DEF LeftOut, FreshInv, RebootsMissedOnlyIfInterrupted
    <2> QED  BY <1>1, <1>4, <2>7, <2>8, <2>9, PolledOutcomes
  <1> QED  BY <1>3, <1>4

LEMMA PollFailsFresh ==
    ASSUME OidInv, FreshInv, NEW j \in jobs, PollFails(j)
    PROVE  FreshInv'
  <1>1. CopiesOfRow' /\ CopiesOfBaseline'
    BY EndFresh DEF OidInv, PollFails
  <1>2. row'.polled /\ row'.uptime = row.uptime
    BY DEF PollFails, OidInv, TypeOK, Row
  <1> QED  BY <1>1, <1>2 DEF PollFails, FreshInv, BaselineBehind, RebootsMissedOnlyIfInterrupted

\* The event a poll logs is the change it makes.
LEMMA PollEvent ==
    ASSUME OidInv, FreshInv, NEW j \in jobs, PollAnswers(j) \/ PollFails(j)
    PROVE  (row.status = "down") # (row'.status = "down") <=> events' # events
  <1>1. row \in Row /\ events \in {0, 1}
    BY DEF OidInv, TypeOK
  <1>2. j.row.status = row.status
    BY DEF PollAnswers, PollFails, FreshInv, CopiesOfRow, SameColumns
  <1>3. CASE PollAnswers(j)
    <2>1. PICK up \in UptimesFor(j) :
            row' = [row EXCEPT !.status = "up", !.polled = TRUE,
                               !.uptime = IF up # 0 THEN up ELSE j.row.uptime]
      BY <1>3 DEF PollAnswers
    <2>2. row'.status = "up" /\ LogStatus(j.row, "up")
      BY <1>1, <1>3, <2>1 DEF PollAnswers, Row
    <2> QED  BY <1>1, <1>2, <2>2 DEF LogStatus, StatusEvent
  <1>4. CASE PollFails(j)
    <2>1. row'.status = "down" /\ LogStatus(j.row, "down")
      BY <1>1, <1>4 DEF PollFails, Row
    <2> QED  BY <1>1, <1>2, <2>1 DEF LogStatus, StatusEvent
  <1> QED  BY <1>3, <1>4

LEMMA OutsideFresh ==
    ASSUME OidInv, FreshInv,
           \/ AgentChanges \/ (\E c \in Credentials : EditCredentials(c))
           \/ (\E j \in jobs : JobCrashes(j)) \/ DiscoveryAges \/ ToggleMetric \/ Restart
           \/ UNCHANGED vars
    PROVE  FreshInv' /\ row'.status = row.status /\ events' = events
  <1>1. row \in Row /\ metric \in Metric /\ OneJob
    BY DEF OidInv, TypeOK
  <1>2. /\ SameColumns(row', row) /\ metric'.baseline = metric.baseline
        /\ interrupted' = interrupted /\ sample' \in {None, sample} /\ events' = events
    BY <1>1 DEF AgentChanges, EditCredentials, JobCrashes, DiscoveryAges, ToggleMetric, Restart,
                vars, SameColumns, Row, Metric
  <1>3. jobs' = jobs \/ jobs' = {}
    BY <1>1 DEF AgentChanges, EditCredentials, JobCrashes, DiscoveryAges, ToggleMetric, Restart,
                vars, End, OneJob
  <1>4. CopiesOfRow' /\ CopiesOfBaseline'
    BY <1>2, <1>3 DEF FreshInv, CopiesOfRow, CopiesOfBaseline, SameColumns
  <1> QED  BY <1>2, <1>4 DEF FreshInv, BaselineBehind, RebootsMissedOnlyIfInterrupted, SameColumns

\* One step, from a state in which the copies are those of the rows.
LEMMA FreshStep ==
    ASSUME ScheduledOnly, OidInv, FreshInv, [Next]_vars
    PROVE  /\ FreshInv'
           /\ (row.status = "down") # (row'.status = "down") <=> events' # events
  <1>1. CASE SchedulePoll
    BY <1>1, ScheduleFresh DEF SchedulePoll
  <1>2. CASE PollNow \/ DiscoverNow
    BY <1>2 DEF PollNow, DiscoverNow, ScheduledOnly
  <1>3. CASE \E i \in JobIds : JobStep(i)
    <2>1. PICK j \in jobs : DiscoveryStep(j) \/ PollStep(j)
      BY <1>3 DEF JobStep
    <2> QED  BY <2>1, DiscoveryFresh, AcquireFresh, UptimeAnswersFresh, PollAnswersFresh, PollFailsFresh, PollEvent DEF PollStep
  <1>4. CASE ~(SchedulePoll \/ PollNow \/ DiscoverNow) /\ ~(\E i \in JobIds : JobStep(i))
    BY <1>4, OutsideFresh DEF Next
  <1> QED  BY <1>1, <1>2, <1>3, <1>4

LEMMA FreshInvariant ==
    ASSUME ScheduledOnly
    PROVE  Spec => []FreshInv
  <1>1. OidInv /\ FreshInv /\ [Next]_vars => FreshInv'
    BY FreshStep
  <1> QED  BY <1>1, InitFresh, OidInvariant, PTL DEF Spec

\* While only the poll loop starts jobs, a rate across a restart of the agent needs a discovery
\* between the two readings, or a poll, between them or the later one, that did not get the
\* counter and sysUpTime in one (poll_device).
THEOREM RebootsMissedOnlyIfInterruptedAlways ==
    ASSUME ScheduledOnly
    PROVE  Spec => []RebootsMissedOnlyIfInterrupted
  <1>1. FreshInv => RebootsMissedOnlyIfInterrupted
    BY DEF FreshInv
  <1> QED  BY <1>1, FreshInvariant, PTL

\* While only the poll loop starts jobs, a step logs an event if and only if the device goes
\* down or comes back with it (poll_device, _mark_failure).
THEOREM TransitionsAreRecordedAlways ==
    ASSUME ScheduledOnly
    PROVE  Spec => TransitionsAreRecorded
  <1>1. OidInv /\ FreshInv /\ [Next]_vars =>
            [(row.status = "down") # (row'.status = "down") <=> events' # events]_vars
    BY FreshStep
  <1> QED  BY <1>1, OidInvariant, FreshInvariant, PTL DEF Spec, TransitionsAreRecorded
=============================================================================

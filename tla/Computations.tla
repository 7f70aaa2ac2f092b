---------------------------- MODULE Computations ----------------------------
(***************************************************************************)
(* The computations of the program, one at a time, on inputs that grow     *)
(* step by step: an hour passes, an outage is recorded, a message arrives, *)
(* samples are rolled up and deleted, a counter is read, a packet comes in. *)
(* The modules this one extends hold the computations; here are the        *)
(* inputs, and what each result owes to its input.                         *)
(***************************************************************************)
EXTENDS Calendar, Availability, SyslogSearch, MetricReports, Counters, Probes, SnmpClient, SyslogParse

CONSTANTS LastHour,      \* of the calendar's hours tried
          LastSecond,    \* now, for availability
          MaxEntries,    \* outages and maintenance windows of a history
          MaxMessages, Texts, Queries,
          FirstTime, LastTime,
          MaxReadings, Advances,
          MaxAttempts,
          Objects        \* the objects asked of an agent, a sequence

ASSUME AdvancesAssumption == Advances \subseteq Nat
ASSUME TimesAssumption == FirstTime \in Nat /\ FirstTime % Fine = 0 /\ LastTime \in Nat
ASSUME SecondsAssumption == LastSecond \in Nat
ASSUME ObjectsAssumption == Objects \in Seq(Range(Objects))
ASSUME HoursAssumption == LastHour \in Int /\ LastHour < HoursPerDay * MonthStart[Len(MonthLengths) + 1]

VARIABLES topic, input

vars == <<topic, input>>

Begin(t, i) == topic = t /\ input = i
Continue(t, i) == topic = t /\ topic' = t /\ input' = i

-----------------------------------------------------------------------------
(* Scheduled reports: an hour passes.                                      *)

\* From the second month on: the one before is in the calendar.
FirstHour == HoursPerDay * MonthStart[3]

BeginSchedule == \E body \in Bodies : Begin("schedule", [body |-> body, now |-> FirstHour])

HourPasses ==
    /\ topic = "schedule" /\ input.now < LastHour
    /\ Continue("schedule", [input EXCEPT !.now = @ + 1])

\* The period a schedule of each frequency reports by default (default_range).
Period(body) == CASE body.frequency = "daily" -> "yesterday"
                  [] body.frequency = "weekly" -> "last_week"
                  [] OTHER -> "last_month"

-----------------------------------------------------------------------------
(* Availability: entries are added to the history of check 1, on device 1. *)

BeginHistory ==
    \E first \in {0, 2} :
        Begin("history", [check |-> 1, device |-> 1, beats |-> {[ts |-> first, ok |-> TRUE]},
                          outages |-> {}, maintenance |-> {}])

\* MaxEntries leaves room for one more.
RoomFor(set) == Cardinality(set) < 2 /\ Cardinality(input.outages) + Cardinality(input.maintenance) < MaxEntries

RecordOutage ==
    \E s \in 0..LastSecond - 1 : \E e \in s + 1..LastSecond \cup {Open} :
        /\ topic = "history" /\ RoomFor(input.outages)
        /\ Continue("history", [input EXCEPT !.outages = @ \cup {[start |-> s, end |-> e]}])

PlanMaintenance ==
    \E s \in 0..LastSecond - 1, target \in {<<0, 0>>, <<1, 0>>, <<0, 1>>, <<2, 0>>} :
      \E e \in s + 1..LastSecond :
        /\ topic = "history" /\ RoomFor(input.maintenance)
        /\ Continue("history", [input EXCEPT !.maintenance =
               @ \cup {[from |-> s, to |-> e, device |-> target[1], check |-> target[2]]}])

-----------------------------------------------------------------------------
(* Search: messages arrive while somebody reads the results page by page.  *)

\* When the results are read.
ReadAt == 4

BeginSearch ==
    \E q \in Queries, fts \in BOOLEAN, bound \in {<<Unset, Unset>>, <<4, 1>>} :
        Begin("search",
              [rows |-> {}, fts |-> fts, pages |-> <<>>, upTo |-> Unset,
               f |-> FromParams([q |-> q, host |-> NoText, app |-> Wildcard, device |-> Unset,
                                 severity |-> bound[1], facility |-> Unset, start |-> Unset, end |-> Unset,
                                 since |-> bound[2]], ReadAt)])

MessageArrives ==
    \E text \in Texts :
        LET id == Cardinality(input.rows) + 1
        IN  /\ topic = "search" /\ id <= MaxMessages
            /\ Continue("search", [input EXCEPT !.rows = @ \cup
                   {[id |-> id, ts |-> text.ts, severity |-> text.severity, facility |-> 1, host |-> "h",
                     ip |-> "i", app |-> "p", device |-> 1, indexed |-> text.indexed \cup {"h", "p"},
                     message |-> text.message, named |-> {"h", "p"}]}])

\* The next page of one message, from the oldest that has been read.
ReadOn ==
    LET i == input
        before == IF i.pages = <<>> THEN 0 ELSE Last(i.pages).id
    IN  /\ topic = "search"
        /\ Continue("search", [i EXCEPT
               !.pages = @ \o Search(i.rows, i.f, i.fts, 1, before),
               !.upTo = IF i.pages = <<>> THEN Cardinality(i.rows) ELSE @])

-----------------------------------------------------------------------------
(* Figures: of two metrics, the first with a sample missing, added late or  *)
(* never sampled; rollups and retention advance.                           *)

Times == FirstTime..LastTime

\* A sample's value: every rank differs from the order in time.
Measure == [t \in Times |-> (3 * t) % 5]

BeginFigures ==
    \E gap \in Times \cup {NoTime}, from \in {FirstTime, LastTime - 2, LastTime + 1} :
        Begin("figures", [samples |-> <<{t \in Times : from <= t /\ t # gap}, Times>>, rolledAt |-> NoTime,
                          cut |-> FirstTime, fineCut |-> FirstTime])

RollUp ==
    \E now \in {t \in Times \cup {LastTime + 1} : t % Fine = 0} :
        /\ topic = "figures" /\ now > input.rolledAt
        /\ Continue("figures", [input EXCEPT !.rolledAt = now])

\* Raw samples are kept longer than it takes to roll them up, and five-minute rows longer still.
Retire ==
    \E c \in Times :
        /\ topic = "figures" /\ input.cut < c
        /\ input.rolledAt # NoTime /\ c <= Bucket(input.rolledAt, Hour)
        /\ Continue("figures", [input EXCEPT !.cut = c])

RetireFineRows ==
    \E c \in {t \in Times : t % Fine = 0} :
        /\ topic = "figures" /\ input.fineCut < c /\ c <= input.cut
        /\ Continue("figures", [input EXCEPT !.fineCut = c])

\* What is stored of the k-th metric.
Watermark(p) == IF input.rolledAt = NoTime THEN NoTime ELSE Bucket(input.rolledAt, p)

Store(k) ==
    LET of == input.samples[k]
    IN  [raw |-> {t \in of : t >= input.cut},
         rolled |-> [p \in {Fine, Hour} |->
             {r \in Grouped({t \in of : t < Watermark(p)}, p) : p = Fine => r.bucket >= input.fineCut}],
         watermark |-> [p \in {Fine, Hour} |-> Watermark(p)],
         value |-> Measure]

-----------------------------------------------------------------------------
(* Counters: an agent counts, is read, is not reached, is restarted.  Of    *)
(* the events since the first reading, counted are in a rate and lost are   *)
(* given up; base is what the agent had counted at the baseline.           *)

BeginCounter ==
    \E bits \in {32, 64}, total \in {0, RangeOf(32) - 2} :
        Begin("counter", [m |-> [raw |-> NoReading, ts |-> 0, bits |-> bits], now |-> 0, n |-> 0,
                          total |-> total, first |-> total, base |-> total, counted |-> 0, lost |-> 0])

\* No more than a turn of the counter between two readings that count.
Counts(i, advance) == i.total + advance - i.base < RangeOf(i.m.bits)

\* Events may be given up with a reason: the clock did not go forward, or they are so many that a
\* smaller reading could be a restart.
Reason(i, advance, dt) ==
    dt <= 0 \/ 2 * (i.total + advance - i.base) >= RangeOf(i.m.bits)

ReadCounter ==
    \E advance \in Advances, later \in {0, 1, 2} :
        LET i == input
            total == i.total + advance
            now == i.now + later
            got == ComputeCounter(i.m, total % RangeOf(i.m.bits), now, FALSE)
            valued == got.value.delta # NoDelta
            given == ~valued /\ got.m # i.m
        IN  /\ topic = "counter" /\ i.n < MaxReadings /\ Counts(i, advance)
            /\ Continue("counter", [i EXCEPT
                   !.m = got.m, !.now = now, !.n = @ + 1, !.total = total,
                   !.first = IF i.m.raw = NoReading THEN total ELSE @,
                   !.base = IF valued \/ given THEN total ELSE @,
                   !.counted = IF valued THEN @ + got.value.delta ELSE @,
                   !.lost = IF given /\ i.m.raw # NoReading /\ Reason(i, advance, now - i.m.ts)
                              THEN @ + total - i.base ELSE @])

ReadNothing ==
    \E advance \in Advances :
        LET got == ComputeCounter(input.m, NoReading, input.now + 1, FALSE)
        IN  /\ topic = "counter" /\ input.n < MaxReadings /\ Counts(input, advance)
            /\ got.value.delta = NoDelta
            /\ Continue("counter", [input EXCEPT !.m = got.m, !.now = @ + 1, !.n = @ + 1, !.total = @ + advance])

\* sysUpTime went back: what was counted before is history.
ReadRestarted ==
    \E advance \in Advances :
        LET got == ComputeCounter(input.m, advance % RangeOf(input.m.bits), input.now + 1, TRUE)
        IN  /\ topic = "counter" /\ input.n < MaxReadings
            /\ Continue("counter", [input EXCEPT
                   !.m = got.m, !.now = @ + 1, !.n = @ + 1, !.total = advance, !.first = advance,
                   !.base = advance, !.counted = 0, !.lost = 0])

-----------------------------------------------------------------------------
(* Pings: an attempt is made, a packet comes in.                           *)

Packet(type, ours, target) == [type |-> type, ours |-> ours, target |-> target, full |-> TRUE]
Packets == {Packet("reply", TRUE, TRUE), Packet("reply", FALSE, TRUE), Packet("reply", FALSE, FALSE),
            Packet("unreachable", FALSE, TRUE), Packet("unreachable", FALSE, FALSE),
            [Packet("other", FALSE, TRUE) EXCEPT !.full = FALSE]}
Runs == {[starts |-> FALSE, ends |-> FALSE, code |-> 1, says |-> "nothing"],
         [starts |-> TRUE, ends |-> FALSE, code |-> 1, says |-> "nothing"],
         [starts |-> TRUE, ends |-> TRUE, code |-> 0, says |-> "time"],
         [starts |-> TRUE, ends |-> TRUE, code |-> 0, says |-> "unreachable"]}
Ports == {<<"timeout", "refused">>, <<"error", "timeout">>}

BeginPing ==
    \E forced \in {"", "tcp"}, raw, dgram, hasPing, v6 \in BOOLEAN :
        Begin("ping", [mode |-> DetectMode(forced, [windows |-> FALSE, raw |-> raw, dgram |-> dgram], hasPing),
                       hasPing |-> hasPing, v6 |-> v6, attempts |-> <<>>])

NextAttempt ==
    \E error \in {"", "unreachable", "denied"}, run \in Runs, ports \in Ports :
        /\ topic = "ping" /\ Len(input.attempts) < MaxAttempts
        /\ Continue("ping", [input EXCEPT !.attempts =
               Append(@, [error |-> error, packets |-> <<>>, run |-> run, ports |-> ports])])

\* A datagram socket gets what the target sends.
PacketComes ==
    \E p \in Packets :
        LET n == Len(input.attempts)
        IN  /\ topic = "ping" /\ n > 0
            /\ input.mode \in {"raw", "dgram"} /\ input.attempts[n].error = ""
            /\ Len(input.attempts[n].packets) < 2
            /\ input.mode = "dgram" => p.target
            /\ Continue("ping", [input EXCEPT !.attempts[n].packets = Append(@, p)])

-----------------------------------------------------------------------------
(* An agent is asked for one object more.                                  *)

BeginGet ==
    \E version \in {1, 2}, has \in SUBSET Range(Objects), refuses \in SUBSET Range(Objects), dies \in 0..5 :
        /\ Cardinality(refuses) <= 1
        /\ Begin("get", [agent |-> [version |-> version, refuses |-> refuses, dies |-> dies,
                                    holds |-> [o \in has |-> IF o = Objects[1] THEN "Null" ELSE "Counter32"]],
                         oids |-> <<>>])

AskFor ==
    /\ topic = "get" /\ Len(input.oids) < Len(Objects)
    /\ Continue("get", [input EXCEPT !.oids = Append(@, Objects[Len(@) + 1])])

-----------------------------------------------------------------------------
(* A URL is checked for one thing more.                                    *)

BeginUrl ==
    \E fails \in BOOLEAN, status \in {200, 204, 302, 500}, keyword \in BOOLEAN, days \in {Unknown, 3, 30} :
        Begin("url", [r |-> [fails |-> fails, status |-> status, keyword |-> keyword, days |-> days],
                      o |-> [expected |-> {[lo |-> 200, hi |-> 399]}, keyword |-> NoKeyword,
                             https |-> days # Unknown, certDays |-> 0]])

AddOption ==
    /\ topic = "url"
    /\ \/ \E k \in {"present", "absent"} :
             input.o.keyword = NoKeyword /\ Continue("url", [input EXCEPT !.o.keyword = k])
       \/ input.o.certDays = 0 /\ Continue("url", [input EXCEPT !.o.certDays = 7])
       \/ \E part \in {[lo |-> 200, hi |-> 299], [lo |-> 204, hi |-> 204]} :
             /\ Cardinality(input.o.expected) = 1 /\ part \notin input.o.expected
             /\ Continue("url", [input EXCEPT !.o.expected = {part}])

-----------------------------------------------------------------------------
(* A syslog message is received a day later.                               *)

LastDay == YearStart[Max(Years)] + DaysOf(Max(Years)) - 1

BeginStamp ==
    \E date \in 1..Dates, year \in {2, NoStamp}, form \in {"5424", "bsd"}, stampForm \in {"bsd", "iso", "none"},
       star, seq, cisco, stampColon \in BOOLEAN, stamp \in {NoStamp, 15}, host \in {Absent, "h"},
       seqHost \in {Absent, "c"}, label \in {Absent, "l"} :
        /\ stampForm = "bsd" => stamp = NoStamp
        /\ stampForm # "bsd" => date = 1 /\ year = NoStamp
        /\ form = "5424" => ~star /\ ~seq /\ ~cisco /\ seqHost = Absent /\ label = Absent /\ stampForm = "iso"
        /\ stampColon => form = "bsd" /\ stampForm = "iso"
        /\ seqHost # Absent => seq
        \* A label there would be the host.
        /\ seq /\ cisco /\ stampForm = "none" /\ ~star /\ host = Absent /\ label # Absent => seqHost # Absent
        /\ Begin("stamp", [received |-> 1,
               m |-> [form |-> form, pri |-> IF seq THEN 165 ELSE NoStamp, stamp |-> stamp, host |-> host,
                      app |-> "app", sd |-> IF stamp = NoStamp THEN "bad" ELSE "-", rest |-> "rest", seq |-> seq,
                      seqHost |-> seqHost, star |-> star, stampForm |-> stampForm, stampColon |-> stampColon,
                      date |-> date, year |-> year, label |-> label, cisco |-> cisco]])

DayPasses ==
    /\ topic = "stamp" /\ input.received < LastDay
    /\ Continue("stamp", [input EXCEPT !.received = @ + 1])

-----------------------------------------------------------------------------

Init == BeginSchedule \/ BeginHistory \/ BeginSearch \/ BeginFigures
        \/ BeginCounter \/ BeginPing \/ BeginGet \/ BeginUrl \/ BeginStamp

Next == HourPasses \/ RecordOutage \/ PlanMaintenance \/ MessageArrives \/ ReadOn
        \/ RollUp \/ Retire \/ RetireFineRows \/ ReadCounter \/ ReadNothing \/ ReadRestarted
        \/ NextAttempt \/ PacketComes \/ AskFor \/ AddOption \/ DayPasses

Spec == Init /\ [][Next]_vars

-----------------------------------------------------------------------------
(* Scheduled reports.                                                      *)

\* Reports of consecutive occurrences leave no time out and cover none twice (scheduled.py,
\* previous_occurrence; reporting.py, resolve_range): an occurrence is the latest hour up to now
\* that the schedule names, and the default period of the report, resolved at any hour of the day
\* of the occurrence, begins where that of the occurrence before it ended.
ReportsTile ==
    topic = "schedule" =>
        LET body == input.body
            now == input.now
            at == PreviousOccurrence(body, now)
            before == PreviousOccurrence(body, at - 1)
            laterOn(t) == t..DayStart(Day(t) + 1) - 1
        IN  /\ at <= now /\ Matches(body, at)
            /\ \A u \in FirstHour..now : Matches(body, u) => u <= at
            /\ before >= FirstHour =>
                 \A t \in laterOn(at), u \in laterOn(before) :
                     ResolveRange(Period(body), t)[1] = ResolveRange(Period(body), u)[2]

-----------------------------------------------------------------------------
(* Availability.                                                           *)

\* The seconds from first up to before last of which P holds.
Seconds(first, last, P(_)) == Cardinality({x \in first..last - 1 : P(x)})

InOutage(h, x) == \E o \in h.outages : o.start <= x /\ (o.end = Open \/ x < o.end)
InMaintenance(h, x) == \E w \in h.maintenance : Covers(w, h) /\ w.from <= x /\ x < w.to

\* The figures of an uptime report (reports.py) are those of counting second by second, however
\* outages and maintenance windows overlap: a second of both is neither up nor down.
CountedBySecond(h, start, until) ==
    LET a == AvailabilityOf(h, start, until, LastSecond)
        from == Max({start, Min({b.ts : b \in h.beats} \cup {o.start : o \in h.outages})})
        seconds(P(_)) == Seconds(from, a.end, P)
    IN  /\ a.monitored = seconds(LAMBDA x : ~InMaintenance(h, x))
        /\ a.downtime = seconds(LAMBDA x : InOutage(h, x) /\ ~InMaintenance(h, x))
        /\ a.maintenance = seconds(LAMBDA x : InMaintenance(h, x))
        /\ a.measured => 0 <= a.uptime[1] /\ a.uptime[1] <= a.uptime[2]

\* The days of a check's bars add up to the figures of all of them (daily_bars).
DaysAddUp(h) ==
    LET days == DailyBars(h, 3, 2, LastSecond)
        all == AvailabilityOf(h, days[1].start, LastSecond, LastSecond)
        sum(P(_)) == P(days[1]) + P(days[2]) + P(days[3])
    IN  /\ sum(LAMBDA a : a.monitored) = all.monitored
        /\ sum(LAMBDA a : a.downtime) = all.downtime
        /\ sum(LAMBDA a : a.run) = all.run

\* The average of an SLA report is the share of the seconds monitored that were up, of all checks
\* together; when no second was monitored it is 0, though each check by itself has 100 percent.
AverageIsShare(h) ==
    LET other == [h EXCEPT !.check = 2, !.device = 2, !.outages = {}]
        rows == UptimeRows({h, other}, {}, AnyDevice, 1, LastSecond, LastSecond)
        average == SlaSummary(rows).average
        sum(P(_)) == MapThenSumSet(P, rows)
        weight == sum(LAMBDA r : r.a.monitored)
    IN  average # None =>
            /\ average[1] = weight - sum(LAMBDA r : r.a.downtime)
            /\ average[2] = Max({1, weight})

\* Reports of availability count every second of their window once, check by check, day by day
\* and on average (reports.py, merge, subtract, availability, daily_bars, sla_summary).
UptimeBySecond ==
    topic = "history" =>
        /\ \A start \in 0..LastSecond : \A until \in start + 1..LastSecond + 1 :
               CountedBySecond(input, start, until)
        /\ DaysAddUp(input)
        /\ AverageIsShare(input)

-----------------------------------------------------------------------------
(* Search.                                                                 *)

IsOperator(tok) == ~tok.minus /\ tok.word \in Operators
IsWord(tok) == ~tok.minus /\ ~IsOperator(tok)

\* What stands before the first token without a minus.
Leading(q) == {k \in DOMAIN q : \A i \in 1..k : q[i].minus}

\* A query that reads as it is written: no NOT; an AND or OR between words, or between an excluded
\* word and a word; and, the leading ones apart, no word directly behind an excluded one.
IsClear(q) ==
    /\ \E k \in DOMAIN q : IsWord(q[k])
    /\ \A k \in DOMAIN q \ Leading(q) :
         LET next == k + 1
         IN  /\ IsOperator(q[k]) => /\ q[k].word # "NOT" /\ k # 1 /\ k - 1 \notin Leading(q)
                                    /\ next \in DOMAIN q /\ IsWord(q[next])
             /\ q[k].minus /\ next \in DOMAIN q => ~IsWord(q[next])

\* The places between two ORs, or one and an end of the query.
Alternatives(q) ==
    LET ends == {0, Len(q) + 1} \cup {k \in DOMAIN q : IsOperator(q[k]) /\ q[k].word = "OR"}
    IN  {w \in {a + 1..b - 1 : a, b \in ends} : w # {} /\ Min(w) - 1 \in ends /\ Max(w) + 1 \in ends
                                               /\ w \cap ends = {}}

\* The rows of which a clear query is true: some choice has all its words and none of those it
\* excludes, in the index; a leading exclusion is ignored.
TrueOf(rows, q) ==
    {r \in rows : \E choice \in Alternatives(q) : \A k \in choice \ Leading(q) :
                      /\ IsWord(q[k]) => q[k].word \in r.indexed
                      /\ q[k].minus => q[k].word \notin r.indexed}

\* Token by token, operators too: without the index, and when all words are excluded.
Literally(rows, q) ==
    {r \in rows : \A k \in DOMAIN q : IF q[k].minus THEN q[k].word \notin r.message
                                      ELSE q[k].word \in r.message \cup r.named}

\* What a search should find; a query that is not clear finds what it may.
Wanted(rows, f, fts) ==
    LET found == CASE ~fts \/ (\A tok \in Range(f.q) : tok.minus) -> Literally(rows, f.q)
                   [] fts /\ IsClear(f.q)                       -> TrueOf(rows, f.q)
                   [] OTHER                                     -> Selected(rows, f, fts)
    IN  {r \in found : FieldsMatch(r, f)}

\* Reading on page by page shows each message a query is true of exactly once, the newest first,
\* whatever arrives meanwhile (search.py, search and its before_id); the count and the top list are
\* of all of them, the bars of the histogram of those in its window.  With the index the query is
\* true as it reads, operators and excluded words included (_fts_query), else token by token.
SearchIsComplete ==
    topic = "search" =>
        LET i == input
            wanted == Wanted(i.rows, i.f, i.fts)
            bars == Histogram(i.rows, i.f, i.fts, 2, ReadAt).bars
            from == IF i.f.start # Unset THEN i.f.start ELSE ReadAt - DefaultSpan
            tops == Top(i.rows, i.f, i.fts, "severity", MaxMessages)
        IN  /\ Selected(i.rows, i.f, i.fts) = wanted
            /\ i.pages # <<>> =>
                 i.pages = NewestFirst({r \in wanted : Last(i.pages).id <= r.id /\ r.id <= i.upTo})
            /\ i.pages = <<>> /\ i.upTo # Unset => \A r \in wanted : r.id > i.upTo
            /\ Count(i.rows, i.f, i.fts) = Cardinality(wanted)
            /\ FoldLeft(LAMBDA n, v : n + v.count, 0, tops) = Cardinality(wanted)
            /\ FoldFunction(LAMBDA bar, n : n + bar.error + bar.warning + bar.info, 0, bars)
                 = Cardinality({r \in wanted : from <= r.ts /\ r.ts <= ReadAt})

\* "-exclude" (README.md, search syntax): with the index, no message is found that holds a word the
\* query excludes (search.py, _fts_query).
ExclusionsHold ==
    topic = "search" =>
        LET i == input
        IN  i.fts => \A r \in Selected(i.rows, i.f, TRUE), tok \in Range(i.f.q) :
                         tok.minus => tok.word \notin r.indexed

-----------------------------------------------------------------------------
(* Figures and charts.                                                     *)

Windows == {w \in Times \X Times : w[1] <= w[2]}
Within(w) == {t \in Times : w[1] <= t /\ t <= w[2]}

\* The samples of a report's average and maximum (reporting.py, _metric_stats): one counts twice
\* only in the hour of the oldest raw sample of the first metric; one is missing only from an
\* hour the window cuts, or when it is not rolled up yet and older than that oldest raw sample.
StatsMeet(w, k) ==
    LET oldest == OldestRaw(<<Store(1), Store(2)>>, w[2])
        stats == MetricStats(<<Store(1), Store(2)>>, k, w[1], w[2])
    IN  /\ \A t \in stats.rolled \cap stats.raw : Bucket(t, Hour) = Bucket(oldest, Hour)
        /\ \A t \in (input.samples[k] \cap Within(w)) \ (stats.rolled \cup stats.raw) :
               \/ Bucket(t, Hour) < w[1] \/ t = w[2]
               \/ Watermark(Hour) <= t /\ t < oldest

\* The volume of a window (_volume_bytes) integrates over no instant twice and over none outside,
\* though it puts together rows of two periods and raw samples.
VolumeOnce(w, k) ==
    LET pieces == VolumePieces(Store(k), w[1], w[2])
    IN  /\ \A p \in pieces : w[1] <= p.from /\ p.to <= w[2]
        /\ \A p, q \in pieces : p = q \/ p.to <= q.from \/ q.to <= p.from

\* No more than a twentieth of the averages lies above the 95th percentile (percentile_95), and
\* metric_summary leaves out only samples that are no longer raw.
PercentileHolds(w, k) ==
    LET p == Percentile95(Store(k), w[1], w[2])
        rows == RowsIn(Store(k), p.basis, w[1], w[2])
        above == {r \in rows : Below(p.p95, Average(Store(k), r.of))}
        summary == MetricSummary(Store(k), w[1], w[2])
    IN  /\ p.basis \in {Fine, Hour} => 20 * Cardinality(above) <= Cardinality(rows)
        /\ p.basis = NoTime => Store(k).raw \cap Within(w) = {}
        /\ \A t \in (input.samples[k] \cap Within(w)) \ summary.of :
               t < input.cut /\ (summary.of = {} => Bucket(t, Hour) < w[1])

\* A panel (dashboards.py, _bucketed) puts every sample of the window in the point of its bucket,
\* except where the window cuts a row, a point is of samples not rolled up yet though its bucket
\* began before, or the window is short, and older than the raw samples.
ChartIsComplete(w, k, points) ==
    LET step == NiceStep(w[2] - w[1], 1, points)
        chart == Bucketed(Store(k), w[1], w[2], step)
        in(b) == UNION chart[b]
        long == step >= Fine /\ w[2] - w[1] > RawSpan
        period == IF step >= Hour THEN Hour ELSE Fine
    IN  /\ \A b \in DOMAIN chart : in(b) # {} /\ \A t \in in(b) : Bucket(t, step) = b
        /\ \A t \in input.samples[k] \cap Within(w) :
               \/ Bucket(t, step) \in DOMAIN chart /\ t \in in(Bucket(t, step))
               \/ Bucket(t, period) < w[1]
               \/ long /\ period = Fine /\ t < input.fineCut
               \/ long /\ Bucket(t, step) = Bucket(Min({w[2], Watermark(period)}), step)
               \/ ~long /\ t < input.cut

\* Statistics, percentiles, volumes and charts agree with the samples they are made from, whatever
\* has been rolled up and deleted (reporting.py, storage.py, dashboards.py).
FiguresAgree ==
    topic = "figures" =>
        \A w \in Windows, k \in 1..2 :
            /\ StatsMeet(w, k)
            /\ VolumeOnce(w, k)
            /\ PercentileHolds(w, k)
            /\ \A points \in {2, 4} : ChartIsComplete(w, k, points)

\* "using raw samples where available and 1h rollups before that" (reporting.py, _metric_stats):
\* no sample is used raw and in a rollup.
StatsUseEachOnce ==
    topic = "figures" =>
        \A w \in Windows, k \in 1..2 :
            LET stats == MetricStats(<<Store(1), Store(2)>>, k, w[1], w[2])
            IN  stats.rolled \cap stats.raw = {}

\* "avg / max per metric" between start and end (reporting.py, _metric_stats): no row lies
\* altogether after the window.
StatsStayInWindow ==
    topic = "figures" =>
        \A w \in Windows, k \in 1..2 :
            LET stats == MetricStats(<<Store(1), Store(2)>>, k, w[1], w[2])
            IN  \A t \in stats.rolled \cup stats.raw : Bucket(t, Hour) <= w[2]

-----------------------------------------------------------------------------
(* Counters.                                                               *)

\* Every event a counter has counted since its first reading is in exactly one rate, across wraps,
\* unchanged readings and answers that do not come (poller.py, counter_delta and compute_value),
\* but for those given up with a reason.
CountersAddUp ==
    topic = "counter" /\ input.m.raw # NoReading =>
        /\ input.counted + input.lost = input.base - input.first
        /\ input.m.raw = input.base % RangeOf(input.m.bits)

-----------------------------------------------------------------------------
(* Probes.                                                                 *)

\* That the target answers the attempt: by its reply, the command's word, or a connection.
Answered(a, socket) ==
    \/ socket /\ \E p \in Range(a.packets) : p.type = "reply" /\ p.ours /\ p.target
    \/ a.run.ends /\ a.run.code = 0 /\ a.run.says \in {"time", "ttl"}
    \/ Range(a.ports) \cap {"open", "refused"} # {}

\* A ping is up only if an attempt was answered by its target, and up if the socket of an attempt
\* heard the target's reply before an error from it (probes.py, _ping_socket, ping); a mode that
\* does not work is given up for all pings, and never taken back.
PingNeedsAnAnswer ==
    LET socket == input.mode \in {"raw", "dgram"}
        ping == Ping(TRUE, input.v6, input.mode, input.hasPing, input.attempts)
        clear(a) == \E n \in DOMAIN a.packets :
            /\ a.packets[n].type = "reply" /\ a.packets[n].ours
            /\ \A i \in 1..n - 1 : a.packets[i].target /\ a.packets[i].full =>
                                      a.packets[i].type \notin {"unreachable", "ttl"}
    IN  /\ ping.result.ok => \E a \in Range(input.attempts) : Answered(a, socket /\ ~input.v6)
        /\ socket /\ ~input.v6 /\ (\A a \in Range(input.attempts) : a.error = "")
             /\ (\E a \in Range(input.attempts) : clear(a)) => ping.result.ok
        /\ ping.shared # input.mode =>
             /\ socket /\ ping.shared \notin {"raw", "dgram"}
             /\ \E a \in Range(input.attempts) : a.error = "denied"
        /\ ~Ping(FALSE, input.v6, input.mode, input.hasPing, input.attempts).result.ok

\* The rows of a table that an agent has of the objects asked for, in their order.
Table(agent, oids) ==
    LET places == Sorted({k \in DOMAIN oids : oids[k] \in DOMAIN agent.holds}, LAMBDA k, n : k < n)
    IN  [k \in DOMAIN places |-> [oid |-> oids[places[k]], under |-> TRUE, error |-> "",
                                  type |-> agent.holds[oids[places[k]]]]]

\* client.get answers for every object it is asked for, or raises; it gives no value only to an
\* object the agent does not have or refuses, or whose retry was not answered, and raises only if
\* the agent fell silent or refuses an object in a request of its own.  A walk of the same objects
\* agrees with it, and an SNMP check is up only if the agent answered.
GetAnswersForAll ==
    LET agent == input.agent
        got == Get(agent, input.oids)
        silent == agent.dies < got.sent
        held(o) == o \in DOMAIN agent.holds /\ Converted(agent.holds[o]) # Nothing
        end == IF agent.version = 1 THEN [oid |-> "end", under |-> FALSE, type |-> "Null", error |-> "noSuchName"]
               ELSE [oid |-> "end", under |-> FALSE, type |-> "EndOfMibView", error |-> ""]
        has(o) == o \in DOMAIN agent.holds
        walk == Walk(Append(Table(agent, input.oids), end))
    IN  /\ got.raised => silent \/ agent.refuses # {}
        /\ ~got.raised =>
             /\ DOMAIN got.values = Range(input.oids)
             /\ \A o \in DOMAIN got.values :
                    IF got.values[o] = Nothing THEN ~held(o) \/ o \in agent.refuses \/ silent
                    ELSE held(o) /\ got.values[o] = Converted(agent.holds[o])
             /\ ~walk.raised
             /\ ~silent /\ agent.refuses = {} =>
                    \A o \in DOMAIN got.values :
                        IF o \in DOMAIN walk.values THEN walk.values[o] = got.values[o] ELSE ~has(o)
        /\ input.oids # <<>> /\ SnmpCheck(agent, input.oids[1]) =>
             agent.dies > 0 /\ held(input.oids[1]) /\ input.oids[1] \notin agent.refuses

\* Asking more of a URL can only take its check down; a certificate that cannot be read does not.
OptionsOnlyRefuse ==
    LET bare == [expected |-> {[lo |-> 200, hi |-> 399]}, keyword |-> NoKeyword, https |-> FALSE, certDays |-> 0]
    IN  /\ HttpCheck(input.r, input.o).ok => HttpCheck(input.r, bare).ok
        /\ input.r.days = Unknown => HttpCheck(input.r, input.o) = HttpCheck(input.r, [input.o EXCEPT !.certDays = 0])

\* No probe takes silence, or somebody else's answer, for the answer of its target.
ProbesNeedAnAnswer ==
    /\ topic = "ping" => PingNeedsAnAnswer
    /\ topic = "get" => GetAnswersForAll
    /\ topic = "url" => OptionsOnlyRefuse

-----------------------------------------------------------------------------
(* Syslog messages.                                                        *)

\* The parts of a message that are found nowhere in what is stored of it.
LostParts(m, out) == {m.seqHost, m.host, m.label, m.app, m.rest} \ ({Absent, out.host, out.app} \cup Range(out.text))

\* A stored message (parser.py, parse) is timed within CLOCK_SKEW_LIMIT of its reception; a stamp
\* without a year that was true, or off by no more than that, is taken for the time it was, at the
\* turn of a year and on a leap day too, unless it lies in the year ahead; and of its parts none
\* is lost but a host or a label before a Cisco tag: what is not taken for host or application
\* stays in the text.
StampsAreTrusted ==
    topic = "stamp" =>
        LET m == input.m
            out == Parse(m, "source", input.received)
            sent == {t \in 0..LastDay : /\ Exists(YearOf(t), m.date) /\ Timestamp(YearOf(t), m.date) = t
                                        /\ Distance(t, input.received) <= SkewLimit
                                        /\ YearOf(t) <= YearOf(input.received)}
        IN  /\ Distance(out.ts, input.received) <= SkewLimit
            /\ m.form = "bsd" /\ m.stampForm = "bsd" /\ m.year = NoStamp /\ ~m.star =>
                 \A t \in sent : out.ts = t
            /\ LostParts(m, out) \subseteq {m.seqHost, m.host, m.label}
            /\ LostParts(m, out) # {} => m.cisco /\ out.app = m.app
=============================================================================

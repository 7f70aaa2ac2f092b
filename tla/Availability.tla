---------------------------- MODULE Availability ----------------------------
(***************************************************************************)
(* Uptime and SLA figures (reports.py): intervals of outages and of        *)
(* maintenance, and what they leave of a window.  Times are seconds, an    *)
(* interval <<s, e>> is [s, e), a quotient is a pair.                      *)
(***************************************************************************)
EXTENDS Integers, Sequences, FiniteSets, SequencesExt, FiniteSetsExt

Open == -1               \* ended_at is NULL
None == <<>>             \* None
AnyDevice == 0           \* device_id, check_id NULL

Earlier(i, j) == i[1] < j[1] \/ (i[1] = j[1] /\ i[2] < j[2])

\* sorted: the members of S, of which Before orders every two.
Sorted(S, Before(_,_)) ==
    [k \in 1..Cardinality(S) |-> CHOOSE x \in S : Cardinality({y \in S : Before(y, x)}) = k - 1]

\* Mutant of Merge: intervals that touch or overlap stay apart.
MergeNothing(intervals) == Sorted({i \in intervals : i[2] > i[1]}, Earlier)

Merge(intervals) ==
    FoldLeft(LAMBDA out, i :
                 IF out # <<>> /\ i[1] <= Last(out)[2]
                   THEN [out EXCEPT ![Len(out)] = <<@[1], Max({@[2], i[2]})>>]
                   ELSE Append(out, i),
             <<>>, Sorted({i \in intervals : i[2] > i[1]}, Earlier))

Clip(intervals, start, end) ==
    {<<Max({i[1], start}), Min({i[2], end})>> : i \in {j \in intervals : j[2] > start /\ j[1] < end}}

Total(intervals) == FoldLeft(LAMBDA sum, i : sum + i[2] - i[1], 0, intervals)

\* What b leaves of <<s, e>>.
Cut(interval, b) ==
    LET step(acc, j) ==
          IF j[2] <= acc.cur \/ j[1] >= interval[2] THEN acc
          ELSE [cur |-> Max({acc.cur, j[2]}),
                out |-> IF j[1] > acc.cur THEN Append(acc.out, <<acc.cur, j[1]>>) ELSE acc.out]
        end == FoldLeft(step, [cur |-> interval[1], out |-> <<>>], b)
    IN  IF end.cur < interval[2] THEN Append(end.out, <<end.cur, interval[2]>>) ELSE end.out

Subtract(a, b) == FlattenSeq([k \in DOMAIN Merge(a) |-> Cut(Merge(a)[k], Merge(b))])

-----------------------------------------------------------------------------
(* A history: [check, device, beats, outages, maintenance], where beats are *)
(* [ts, ok], outages [start, end], maintenance [from, to, device, check].  *)

Covers(w, h) ==
    \/ w.device = AnyDevice /\ w.check = AnyDevice
    \/ w.check = h.check
    \/ w.device # AnyDevice /\ w.device = h.device

MaintenanceWindows(h, start, end) ==
    LET rows == {w \in h.maintenance : w.to > start /\ w.from < end /\ Covers(w, h)}
    IN  Merge(Clip({<<w.from, w.to>> : w \in rows}, start, end))

OutageIntervals(h, start, end, now) ==
    LET until(o) == IF o.end = Open THEN now ELSE o.end
    IN  {[start |-> o.start, end |-> until(o), closed |-> o.end # Open] :
            o \in {p \in h.outages : p.start < end /\ until(p) > start}}

Duration(o) == o.end - o.start

\* _empty.
Empty(start, end) ==
    [start |-> start, end |-> end, monitored |-> 0, downtime |-> 0, maintenance |-> 0,
     measured |-> FALSE, uptime |-> None, outages |-> 0, longest |-> 0, mttr |-> None, mtbf |-> None,
     run |-> 0, ok |-> 0]

\* availability: [start, end) up to now, from the first that is known of the check.  uptime is
\* the pair of seconds up and seconds monitored.
AvailabilityOf(h, start, until, now) ==
    LET end == Min({until, now})
        known == {b.ts : b \in h.beats} \cup {o.start : o \in h.outages}
        from == Max({start, Min(known)})
        maint == MaintenanceWindows(h, from, end)
        outages == OutageIntervals(h, from, end, now)
        down == Total(Subtract(Clip({<<o.start, o.end>> : o \in outages}, from, end), Range(maint)))
        monitored == (end - from) - Total(maint)
        closed == {o \in outages : o.closed}
        beats == {b \in h.beats : from <= b.ts /\ b.ts < end}
    IN  IF known = {} \/ from >= end THEN Empty(start, end)
        ELSE [start |-> start, end |-> end, monitored |-> monitored, downtime |-> down,
              maintenance |-> Total(maint), measured |-> TRUE,
              uptime |-> IF monitored <= 0 THEN <<1, 1>> ELSE <<Max({0, monitored - down}), monitored>>,
              outages |-> Cardinality(outages),
              longest |-> Max({Duration(o) : o \in outages} \cup {0}),
              mttr |-> IF closed = {} THEN None
                         ELSE <<MapThenSumSet(Duration, closed), Cardinality(closed)>>,
              mtbf |-> IF outages = {} THEN None ELSE <<monitored - down, Cardinality(outages)>>,
              run |-> Cardinality(beats), ok |-> Cardinality({b \in beats : b.ok})]

\* daily_bars: days of the given length, the last one that of now, oldest first.
DailyBars(h, days, dayLength, now) ==
    LET today == now - (now % dayLength)
        start(k) == today - (days - k) * dayLength
    IN  [k \in 1..days |-> AvailabilityOf(h, start(k), start(k) + dayLength, now)]

\* uptime_report: the checks asked for, or those of a device; nothing asked for is all of them.
UptimeRows(histories, checks, device, start, end, now) ==
    {[h |-> h, a |-> AvailabilityOf(h, start, end, now)] :
        h \in {g \in histories : /\ checks # {} => g.check \in checks
                                 /\ device # AnyDevice => g.device = device}}

\* sla_summary: uptime weighted by the time monitored; average is a pair.
SlaSummary(rows) ==
    LET measured == {r \in rows : r.a.measured}
        weight == MapThenSumSet(LAMBDA r : r.a.monitored, measured)
        up(r) == IF r.a.monitored = 0 THEN 0 ELSE r.a.uptime[1]
    IN  IF measured = {}
          THEN [checks |-> Cardinality(rows), average |-> None, downtime |-> 0, outages |-> 0]
          ELSE [checks |-> Cardinality(rows),
                average |-> <<MapThenSumSet(up, measured), IF weight = 0 THEN 1 ELSE weight>>,
                downtime |-> MapThenSumSet(LAMBDA r : r.a.downtime, measured),
                outages |-> MapThenSumSet(LAMBDA r : r.a.outages, measured)]
=============================================================================

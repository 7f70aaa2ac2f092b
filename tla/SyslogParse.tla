---------------------------- MODULE SyslogParse ----------------------------
(***************************************************************************)
(* Parsing of a syslog message (syslog/parser.py): which of the forms it   *)
(* has, what becomes facility, severity, host, application and text, and   *)
(* what time it is given.  A message is a record of the parts that the     *)
(* regular expressions tell apart; a part that is not there is Absent.     *)
(*                                                                         *)
(* A calendar of a few dates, one of which, the leap date, only some years *)
(* have.  Times are in days; zones are the business of datetime.           *)
(***************************************************************************)
EXTENDS Integers, Sequences, FiniteSets

CONSTANTS Dates,         \* the number of dates of a leap year
          LeapDate,      \* 29 February
          Years, LeapYears,
          SkewLimit      \* CLOCK_SKEW_LIMIT, in days
ASSUME DatesAssumption == Dates \in Nat /\ LeapDate \in 1..Dates /\ LeapYears \subseteq Years
\* Stamps are trusted within a day; a year is longer by far, and its leap day is not near its end.
ASSUME YearsAssumption ==
    /\ IsFiniteSet(Years) /\ Years = 1..Cardinality(Years) /\ 2 \in Years
    /\ SkewLimit \in 0..2 /\ SkewLimit + 4 < Dates /\ LeapDate + SkewLimit <= Dates

Absent == "absent"
NoStamp == -1             \* None

-----------------------------------------------------------------------------
(* datetime (external): years, dates and timestamps.                       *)

Exists(year, date) == year \in LeapYears \/ date # LeapDate
DaysOf(year) == IF year \in LeapYears THEN Dates ELSE Dates - 1
YearStart[year \in Years] ==
    IF \A y \in Years : y >= year THEN 0 ELSE YearStart[year - 1] + DaysOf(year - 1)
Timestamp(year, date) ==
    YearStart[year] + date - (IF year \notin LeapYears /\ date > LeapDate THEN 2 ELSE 1)
YearOf(t) == CHOOSE y \in Years : YearStart[y] <= t /\ t < YearStart[y] + DaysOf(y)

Distance(t, u) == IF t < u THEN u - t ELSE t - u

-----------------------------------------------------------------------------
(* Times.                                                                  *)

\* Mutant of ParseBsdTs: a stamp without a year is of this year.
ParseBsdTsThisYear(date, year, received) ==
    LET of == IF year # NoStamp THEN year ELSE YearOf(received)
    IN  IF ~Exists(of, date) THEN NoStamp ELSE Timestamp(of, date)

\* _parse_bsd_ts: a stamp with no year that would lie ahead of us is last year's.
ParseBsdTs(date, year, received) ==
    LET of == IF year # NoStamp THEN year ELSE YearOf(received)
        ts == Timestamp(of, date)
        ahead == year = NoStamp /\ ts - received > 2
    IN  IF ~Exists(of, date) THEN NoStamp
        ELSE IF ahead /\ of - 1 \in Years /\ Exists(of - 1, date) THEN Timestamp(of - 1, date)
        ELSE ts

Trust(ts, received) == IF ts = NoStamp \/ Distance(ts, received) > SkewLimit THEN received ELSE ts

-----------------------------------------------------------------------------
(* The forms.                                                              *)

\* <PRI>; a value out of range is dropped, none at all is user.notice.
Priority(pri) ==
    IF pri = NoStamp THEN [facility |-> 1, severity |-> 5]
    ELSE IF pri <= 191 THEN [facility |-> pri \div 8, severity |-> pri % 8]
    ELSE [facility |-> NoStamp, severity |-> NoStamp]

Nil(field) == IF field = "-" THEN Absent ELSE field

\* _parse_5424, m.stamp being a time, or NoStamp for "-" and for what fromisoformat refuses, and
\* m.sd "-", "good", "bad" or Absent: malformed structured data is left in the text.
Parse5424(m, received) ==
    [ts |-> Trust(m.stamp, received), host |-> Nil(m.host), app |-> Nil(m.app),
     text |-> IF m.sd = "bad" THEN <<m.sd, m.rest>> ELSE <<m.rest>>]

\* The host of a Cisco message with a sequence number, when it is followed by something
\* that looks like the rest of one.
SequencedHost(m) ==
    IF \/ m.star
       \/ m.stampForm = "bsd"
       \/ m.cisco /\ m.stampForm = "none" /\ m.host = Absent /\ m.label = Absent
    THEN m.seqHost ELSE Absent

Piece(part) == IF part = Absent THEN <<>> ELSE <<part>>
StampText == "stamp"

\* A part of the message that a colon follows.
EndsInColon(m, part) == part \in {m.seqHost, m.label} \/ (part = StampText /\ m.stampColon)

\* _parse_bsd: an unsynchronised clock is not believed, but its stamp is consumed; a host is
\* only looked for after a stamp that could be read, and neither behind a sequenced host that is
\* not taken for one.  What is left before the tag is dropped if the tag is a Cisco one and a
\* colon precedes it; else the tag is not found, and a first word with a colon is taken for it.
ParseBsd(m, received) ==
    LET behind == m.seqHost # Absent /\ SequencedHost(m) = Absent
        ts == CASE behind                          -> NoStamp
                [] ~behind /\ m.stampForm = "bsd"  -> ParseBsdTs(m.date, m.year, received)
                [] ~behind /\ m.stampForm = "iso"  -> m.stamp
                [] ~behind /\ m.stampForm = "none" -> NoStamp
        named == SequencedHost(m) = Absent /\ ts # NoStamp
        left == (IF behind THEN Piece(m.seqHost) ELSE <<>>)
                \o (IF behind /\ m.stampForm = "iso" THEN <<StampText>> ELSE <<>>)
                \o (IF named THEN <<>> ELSE Piece(m.host)) \o Piece(m.label)
        found == left = <<>> \/ (m.cisco /\ EndsInColon(m, left[Len(left)]))
        mistaken == ~found /\ EndsInColon(m, Head(left))
    IN  [ts |-> IF m.star THEN received ELSE Trust(ts, received),
         host |-> IF named THEN m.host ELSE SequencedHost(m),
         app |-> IF found THEN m.app ELSE IF mistaken THEN Head(left) ELSE Absent,
         text |-> IF found THEN <<m.rest>>
                  ELSE (IF mistaken THEN Tail(left) ELSE left) \o <<m.app, m.rest>>]

Parse(m, source, received) ==
    LET body == IF m.form = "5424" THEN Parse5424(m, received) ELSE ParseBsd(m, received)
    IN  [ts |-> body.ts, app |-> body.app, text |-> body.text,
         facility |-> Priority(m.pri).facility, severity |-> Priority(m.pri).severity,
         host |-> IF body.host = Absent THEN source ELSE body.host]
=============================================================================

---------------------------- MODULE SyslogSearch ----------------------------
(***************************************************************************)
(* Searching stored syslog messages (syslog/search.py): the filter, the    *)
(* words asked for, pages, histogram and top lists.  A row is [id, ts,     *)
(* severity, facility, host, ip, app, device, indexed, message, named]:    *)
(* the phrases and prefixes that the index finds in it, and what LIKE      *)
(* finds in its message and in its host or app (parts of words too, but no *)
(* phrase across punctuation).  A filter has the fields of SyslogFilter,   *)
(* its q a sequence of tokens [word, minus], where the word may be "AND",  *)
(* "OR" or "NOT".                                                          *)
(***************************************************************************)
EXTENDS Integers, Sequences, FiniteSets, SequencesExt, FiniteSetsExt

CONSTANT DefaultSpan     \* 86400: the histogram of a filter without a start

Unset == -1              \* None, and the NULL of a severity or a facility
Wildcard == "*"               \* no pattern, or one that matches everything
NoText == ""             \* nothing to search, no host, no app

Operators == {"AND", "OR", "NOT"}

-----------------------------------------------------------------------------
(* from_params: severity and facility by number or name, since for start.  *)

\* severity and since have been converted: a name to its index, a number to itself, "5m" to 300.
FromParams(p, now) ==
    [p EXCEPT !.start = IF p.since # Unset /\ p.start = Unset THEN now - p.since ELSE p.start]

-----------------------------------------------------------------------------
(* _fts_query, and what FTS5 makes of it.                                  *)

\* A part is an operator or a phrase; "NOT phrase", for a token with a minus, is one part.
Part(tok) == IF tok.word \in Operators /\ ~tok.minus THEN <<tok.word>>
             ELSE IF tok.minus THEN <<"NOT", tok.word>> ELSE <<tok.word>>

\* "FTS5 does not allow a leading NOT": what stands there is dropped.
FtsQuery(q) ==
    LET parts == [k \in DOMAIN q |-> Part(q[k])]
        leading == {k \in 0..Len(q) : \A i \in 1..k : parts[i][1] = "NOT"}
    IN  FlattenSeq(SubSeq(parts, Max(leading) + 1, Len(q)))

\* The runs of words between the occurrences of an operator.
Split(words, op) ==
    FoldLeft(LAMBDA runs, w : IF w = op THEN Append(runs, <<>>)
                              ELSE [runs EXCEPT ![Len(runs)] = Append(@, w)],
             <<<<>>>>, words)

\* FTS5: phrases side by side bind tightest, then NOT, AND and OR: alternatives, each of
\* conditions, each a run of words and the runs excluded from it.
FtsTree(words) ==
    {{Split(run, "NOT") : run \in Range(Split(ands, "AND"))} : ands \in Range(Split(words, "OR"))}

\* Otherwise sqlite3.OperationalError.
WellFormed(words) ==
    \A ands \in FtsTree(words) : \A nots \in ands : <<>> \notin Range(nots)

\* The index is over message, host and app.
FtsMatches(row, words) ==
    LET all(run) == Range(run) \subseteq row.indexed
    IN  \E ands \in FtsTree(words) : \A nots \in ands :
            all(nots[1]) /\ \A k \in 2..Len(nots) : ~all(nots[k])

\* Without FTS, each token by itself; an excluded word is looked for in the message only.
LikeMatches(row, q) ==
    \A tok \in Range(q) : IF tok.minus THEN tok.word \notin row.message
                          ELSE tok.word \in row.message \cup row.named

-----------------------------------------------------------------------------
(* _where and _run.                                                        *)

\* LIKE and =, a pattern being Wildcard or a word.
Like(value, pattern) == pattern = Wildcard \/ value = pattern

FieldsMatch(row, f) ==
    /\ f.host # NoText => Like(row.host, f.host) \/ Like(row.ip, f.host)
    /\ f.app # NoText => Like(row.app, f.app)
    /\ f.device # Unset => row.device = f.device
    /\ f.severity # Unset => row.severity # Unset /\ row.severity <= f.severity
    /\ f.facility # Unset => row.facility = f.facility
    /\ f.start # Unset => row.ts >= f.start
    /\ f.end # Unset => row.ts <= f.end

\* The rows a query selects: by the index if there is one and the query has words left for it,
\* else, or if the index refuses the query, token by token.
Selected(rows, f, hasFts) ==
    LET words == FtsQuery(f.q)
        matches(row) == IF f.q = <<>> THEN TRUE
                        ELSE IF hasFts /\ words # <<>> /\ WellFormed(words) THEN FtsMatches(row, words)
                        ELSE LikeMatches(row, f.q)
    IN  {row \in rows : matches(row) /\ FieldsMatch(row, f)}

-----------------------------------------------------------------------------
(* search, count, histogram and top.                                       *)

MaxRows == 5000

\* Newest first.
NewestFirst(rows) == SetToSortSeq(rows, LAMBDA a, b : a.id > b.id)

\* Mutant of Search: the page begins at the row the last one ended with.
SearchAgain(rows, f, hasFts, limit, beforeId) ==
    LET page == NewestFirst({r \in Selected(rows, f, hasFts) : beforeId = 0 \/ r.id <= beforeId})
    IN  SubSeq(page, 1, Min({Len(page), Max({1, Min({limit, MaxRows})})}))

Search(rows, f, hasFts, limit, beforeId) ==
    LET page == NewestFirst({r \in Selected(rows, f, hasFts) : beforeId = 0 \/ r.id < beforeId})
    IN  SubSeq(page, 1, Min({Len(page), Max({1, Min({limit, MaxRows})})}))

Count(rows, f, hasFts) == Cardinality(Selected(rows, f, hasFts))

\* Half-open steps from the start of the window; its end may lie in a step of its own.
Histogram(rows, f, hasFts, buckets, now) ==
    LET end == IF f.end # Unset /\ f.end # 0 THEN f.end ELSE now
        start == IF f.start # Unset /\ f.start # 0 THEN f.start ELSE end - DefaultSpan
        step == Max({1, (end - start) \div Max({1, buckets})})
        of == Selected(rows, [f EXCEPT !.start = start, !.end = end], hasFts)
        bar(i, P(_)) == Cardinality({r \in of : (r.ts - start) \div step = i /\ P(r)})
    IN  [start |-> start, end |-> end, step |-> step,
         bars |-> [i \in 0..((end - start) \div step) |->
             [ts |-> start + (i * step),
              error |-> bar(i, LAMBDA r : r.severity # Unset /\ r.severity <= 3),
              warning |-> bar(i, LAMBDA r : r.severity = 4),
              info |-> bar(i, LAMBDA r : r.severity = Unset \/ r.severity >= 5)]]]

\* The values of a field with how many rows have each, the most frequent first.
Top(rows, f, hasFts, field, limit) ==
    LET of == Selected(rows, f, hasFts)
        n(v) == Cardinality({r \in of : r[field] = v})
        groups == {[value |-> v, count |-> n(v)] : v \in {r[field] : r \in of}}
        sorted == SetToSortSeq(groups, LAMBDA a, b : a.count > b.count)
    IN  SubSeq(sorted, 1, Min({Len(sorted), limit}))
=============================================================================

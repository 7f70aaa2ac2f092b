--------------------------- MODULE MCComputations ---------------------------
(***************************************************************************)
(* Computations for TLC: see Computations.cfg.                             *)
(***************************************************************************)
EXTENDS Computations

\* Weeks of three days and months of four or five, the last one of the calendar never reached.
MCMonthLengths == <<4, 4, 5, 4, 5, 4>>

\* Severity, what the index finds, what the message holds, and time: "b" may be a part of a word,
\* and "a" found by the index alone.
Text(severity, indexed, message, ts) ==
    [severity |-> severity, indexed |-> indexed, message |-> message, ts |-> ts]
MCTexts == {Text(Unset, {}, {}, 1), Text(3, {"a"}, {"a"}, 2), Text(4, {"a", "b"}, {"a", "b"}, 2),
            Text(4, {"b"}, {"a", "b"}, 3), Text(6, {"a"}, {}, 5)}

Word(w) == [word |-> w, minus |-> FALSE]
No(w) == [word |-> w, minus |-> TRUE]
MCQueries == {<<>>, <<Word("a")>>, <<Word("a"), No("b")>>, <<No("b"), Word("a")>>, <<No("p")>>,
              <<Word("p"), No("b"), No("a")>>, <<Word("a"), Word("OR"), Word("b")>>,
              <<Word("b"), No("a"), Word("OR"), Word("a"), Word("AND"), Word("h"), No("b")>>,
              <<Word("a"), No("b"), Word("p")>>, <<Word("a"), Word("OR")>>}

MCNiceSteps == <<1, 2, 4, 8>>
MCObjects == <<"o1", "o2", "o3", "o4">>
=============================================================================

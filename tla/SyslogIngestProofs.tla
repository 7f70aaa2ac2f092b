------------------------- MODULE SyslogIngestProofs -------------------------
(***************************************************************************)
(* Proofs about SyslogIngest, for any messages, sizes of the queue and of  *)
(* batches: what is stored is stored once and in order, and what is lost   *)
(* is counted.                                                             *)
(***************************************************************************)
EXTENDS SyslogIngest, SequenceTheorems, FiniteSetTheorems, WellFoundedInduction, TLAPS

-----------------------------------------------------------------------------
(* The rows of a batch: a recursion over its messages.                     *)

\* Induction over the naturals, for a set of them.
LEMMA Induction ==
    ASSUME NEW S, 0 \in S, \A n \in Nat : n \in S => n + 1 \in S
    PROVE  Nat \subseteq S
<1> DEFINE T == Nat \ S
           R == OpToRel(<, Nat)
<1>1. R = {ss \in Nat \X Nat : ss[1] < ss[2]}
  BY DEF OpToRel
<1>2. IsWellFoundedOn(R, Nat)
  BY NatLessThanWellFounded
<1> HIDE DEF R
<1>3. ASSUME T # {} PROVE FALSE
  <2>1. PICK m \in T : \A t \in T : ~(<<t, m>> \in R)
    BY <1>2, <1>3, WFMin
  <2>2. m \in Nat /\ m # 0
    OBVIOUS
  <2>3. m - 1 \in Nat /\ m - 1 < m /\ m - 1 + 1 = m
    BY <2>2
  <2>4. m - 1 \in T
    BY <2>2, <2>3
  <2>5. QED
    BY <1>1, <2>1, <2>3, <2>4
<1>4. QED
  BY <1>3

\* f is the recursion RowsUpTo of the first n messages.
IsRowsUpTo(f, messages, n) ==
    f = [i \in 0..n |-> IF i = 0 THEN <<>>
                        ELSE IF Parsable(messages[i]) THEN Append(f[i - 1], messages[i]) ELSE f[i - 1]]

LEMMA RowsExist == ASSUME NEW messages PROVE \A n \in Nat : \E f : IsRowsUpTo(f, messages, n)
<1> DEFINE S == {n \in Nat : \E f : IsRowsUpTo(f, messages, n)}
<1>1. 0 \in S
  <2> DEFINE f == [i \in 0..0 |-> <<>>]
  <2>1. IsRowsUpTo(f, messages, 0)
    BY DEF IsRowsUpTo
  <2>2. QED
    BY <2>1
<1>2. ASSUME NEW n \in Nat, n \in S PROVE n + 1 \in S
  <2>1. PICK f : IsRowsUpTo(f, messages, n)
    BY <1>2
  <2> DEFINE last == IF Parsable(messages[n + 1]) THEN Append(f[n], messages[n + 1]) ELSE f[n]
             g == [i \in 0..n + 1 |-> IF i = n + 1 THEN last ELSE f[i]]
             h == [i \in 0..n + 1 |-> IF i = 0 THEN <<>>
                      ELSE IF Parsable(messages[i]) THEN Append(g[i - 1], messages[i]) ELSE g[i - 1]]
  <2>2. ASSUME NEW i \in 0..n + 1 PROVE g[i] = h[i]
    <3>1. CASE i = n + 1
      <4>1. g[i - 1] = f[n] /\ i # 0
        BY <3>1
      <4>2. QED
        BY <3>1, <4>1
    <3>2. CASE i # n + 1
      <4>1. i \in 0..n /\ g[i] = f[i]
        BY <3>2
      <4>2. i # 0 => i - 1 \in 0..n /\ g[i - 1] = f[i - 1]
        BY <4>1
      <4>3. f[i] = IF i = 0 THEN <<>>
                   ELSE IF Parsable(messages[i]) THEN Append(f[i - 1], messages[i]) ELSE f[i - 1]
        BY <2>1, <4>1 DEF IsRowsUpTo
      <4>4. QED
        BY <4>1, <4>2, <4>3
    <3>3. QED
      BY <3>1, <3>2
  <2>3. g = h
    BY <2>2
  <2>4. IsRowsUpTo(g, messages, n + 1)
    BY <2>3 DEF IsRowsUpTo
  <2>5. QED
    BY <2>4
<1> HIDE DEF S
<1>3. Nat \subseteq S
  BY <1>1, <1>2, Induction
<1>4. QED
  BY <1>3 DEF S

LEMMA RowsDefined ==
    ASSUME NEW messages, Len(messages) \in Nat
    PROVE  IsRowsUpTo(RowsUpTo(messages), messages, Len(messages))
<1>1. \E f : IsRowsUpTo(f, messages, Len(messages))
  BY RowsExist
<1>2. QED
  BY <1>1 DEF RowsUpTo, IsRowsUpTo

\* What the first n messages give: some of them, in their order, and no more are left out than
\* are counted.
Selects(rows, messages, n) ==
    /\ rows \in Seq(Messages) /\ Len(rows) <= n
    /\ \A i \in 1..Len(rows) : \E p \in 1..n : rows[i] = messages[p]
    /\ \A i, k \in 1..Len(rows) : i < k =>
          \E p, q \in 1..n : p < q /\ rows[i] = messages[p] /\ rows[k] = messages[q]
    /\ IsFiniteSet({messages[p] : p \in 1..n} \ Range(rows))
    /\ Cardinality({messages[p] : p \in 1..n} \ Range(rows)) <= n - Len(rows)

LEMMA SelectsNone == ASSUME NEW messages PROVE Selects(<<>>, messages, 0)
<1>1. {messages[p] : p \in 1..0} \ Range(<<>>) = {}
  OBVIOUS
<1>2. QED
  BY <1>1, FS_EmptySet DEF Selects

LEMMA RangeAppend ==
    ASSUME NEW S, NEW s \in Seq(S), NEW e \in S
    PROVE  Range(Append(s, e)) = Range(s) \cup {e}
<1>1. /\ Append(s, e) \in Seq(S) /\ Len(Append(s, e)) = Len(s) + 1 /\ Len(s) \in Nat
      /\ \A i \in 1..Len(s) : Append(s, e)[i] = s[i]
      /\ Append(s, e)[Len(s) + 1] = e
  BY AppendProperties
<1>2. Range(s) = {s[i] : i \in 1..Len(s)} /\ Range(Append(s, e)) = {Append(s, e)[i] : i \in 1..Len(s) + 1}
  BY <1>1, RangeEquality
<1>3. QED
  BY <1>1, <1>2

LEMMA SelectsKept ==
    ASSUME NEW messages \in Seq(Messages), NEW n \in Nat, n + 1 \in 1..Len(messages),
           NEW rows, Selects(rows, messages, n)
    PROVE  Selects(Append(rows, messages[n + 1]), messages, n + 1)
<1> DEFINE m == messages[n + 1]
           more == Append(rows, m)
           left == {messages[p] : p \in 1..n} \ Range(rows)
           leftMore == {messages[p] : p \in 1..n + 1} \ Range(more)
<1>1. m \in Messages /\ rows \in Seq(Messages) /\ Len(rows) \in Nat /\ Len(rows) <= n
  BY DEF Selects
<1>2. /\ more \in Seq(Messages) /\ Len(more) = Len(rows) + 1
      /\ \A i \in 1..Len(rows) : more[i] = rows[i]
      /\ more[Len(rows) + 1] = m
  BY <1>1, AppendProperties
<1>3. ASSUME NEW i \in 1..Len(more) PROVE \E p \in 1..n + 1 : more[i] = messages[p]
  BY <1>1, <1>2 DEF Selects
<1>4. ASSUME NEW i \in 1..Len(more), NEW k \in 1..Len(more), i < k
      PROVE  \E p, q \in 1..n + 1 : p < q /\ more[i] = messages[p] /\ more[k] = messages[q]
  <2>1. i \in 1..Len(rows) /\ more[i] = rows[i]
    BY <1>1, <1>2, <1>4
  <2>2. CASE k = Len(rows) + 1
    <3>1. PICK p \in 1..n : rows[i] = messages[p]
      BY <2>1 DEF Selects
    <3>2. p \in 1..n + 1 /\ n + 1 \in 1..n + 1 /\ p < n + 1
      OBVIOUS
    <3>3. QED
      BY <1>2, <2>1, <2>2, <3>1, <3>2
  <2>3. CASE k # Len(rows) + 1
    <3>1. k \in 1..Len(rows) /\ more[k] = rows[k]
      BY <1>1, <1>2, <2>3
    <3>2. PICK p, q \in 1..n : p < q /\ rows[i] = messages[p] /\ rows[k] = messages[q]
      BY <1>4, <2>1, <3>1 DEF Selects
    <3>3. p \in 1..n + 1 /\ q \in 1..n + 1 /\ more[i] = messages[p] /\ more[k] = messages[q]
      BY <2>1, <3>1, <3>2
    <3>4. QED
      BY <3>2, <3>3
  <2>4. QED
    BY <2>2, <2>3
<1>5. leftMore \subseteq left
  <2>1. Range(more) = Range(rows) \cup {m}
    BY <1>1, RangeAppend
  <2>2. \A p \in 1..n + 1 : p \in 1..n \/ messages[p] = m
    OBVIOUS
  <2>3. QED
    BY <2>1, <2>2
<1>6. IsFiniteSet(left) /\ Cardinality(left) <= n - Len(rows) /\ Cardinality(left) \in Nat
  BY FS_CardinalityType DEF Selects
<1>7. IsFiniteSet(leftMore) /\ Cardinality(leftMore) <= Cardinality(left) /\ Cardinality(leftMore) \in Nat
  BY <1>5, <1>6, FS_Subset, FS_CardinalityType
<1>8. Cardinality(leftMore) <= n + 1 - Len(more) /\ Len(more) <= n + 1
  BY <1>1, <1>2, <1>6, <1>7
<1> HIDE DEF more, m, left
<1>9. Selects(more, messages, n + 1)
  BY <1>2, <1>3, <1>4, <1>7, <1>8 DEF Selects
<1>10. QED
  BY <1>9 DEF more, m

LEMMA SelectsLeft ==
    ASSUME NEW messages \in Seq(Messages), NEW n \in Nat, n + 1 \in 1..Len(messages),
           NEW rows, Selects(rows, messages, n)
    PROVE  Selects(rows, messages, n + 1)
<1> DEFINE left == {messages[p] : p \in 1..n} \ Range(rows)
           leftMore == {messages[p] : p \in 1..n + 1} \ Range(rows)
<1>1. rows \in Seq(Messages) /\ Len(rows) \in Nat /\ Len(rows) <= n
  BY DEF Selects
<1>2. leftMore \subseteq left \cup {messages[n + 1]}
  <2>1. \A p \in 1..n + 1 : p \in 1..n \/ messages[p] = messages[n + 1]
    OBVIOUS
  <2>2. QED
    BY <2>1
<1>3. IsFiniteSet(left) /\ Cardinality(left) <= n - Len(rows) /\ Cardinality(left) \in Nat
  BY FS_CardinalityType DEF Selects
<1> HIDE DEF left, leftMore
<1>4. /\ IsFiniteSet(left \cup {messages[n + 1]})
      /\ Cardinality(left \cup {messages[n + 1]}) <= Cardinality(left) + 1
  <2> DEFINE m == messages[n + 1]
  <2> HIDE DEF m
  <2>1. /\ IsFiniteSet(left \cup {m})
        /\ Cardinality(left \cup {m}) = IF m \in left THEN Cardinality(left) ELSE Cardinality(left) + 1
    BY <1>3, FS_AddElement
  <2>2. QED
    BY <1>3, <2>1 DEF m
<1>5. /\ IsFiniteSet(leftMore) /\ Cardinality(leftMore) \in Nat
      /\ Cardinality(leftMore) <= Cardinality(left \cup {messages[n + 1]})
  BY <1>2, <1>4, FS_Subset, FS_CardinalityType
<1>6. Cardinality(left \cup {messages[n + 1]}) \in Nat
  BY <1>4, FS_CardinalityType
<1>7. Cardinality(leftMore) <= n + 1 - Len(rows)
  BY <1>1, <1>3, <1>4, <1>5, <1>6
<1>8. \A i \in 1..Len(rows) : \E p \in 1..n + 1 : rows[i] = messages[p]
  BY DEF Selects
<1>9. ASSUME NEW i \in 1..Len(rows), NEW k \in 1..Len(rows), i < k
      PROVE  \E p, q \in 1..n + 1 : p < q /\ rows[i] = messages[p] /\ rows[k] = messages[q]
  <2>1. PICK p, q \in 1..n : p < q /\ rows[i] = messages[p] /\ rows[k] = messages[q]
    BY <1>9 DEF Selects
  <2>2. p \in 1..n + 1 /\ q \in 1..n + 1
    OBVIOUS
  <2>3. QED
    BY <2>1, <2>2
<1>10. Len(rows) <= n + 1
  BY <1>1
<1>11. QED
  BY <1>1, <1>5, <1>7, <1>8, <1>9, <1>10 DEF Selects, leftMore

\* The rows of a batch are some of its messages, in their order.
LEMMA RowsSelect ==
    ASSUME NEW messages \in Seq(Messages)
    PROVE  Selects(RowsOf(messages), messages, Len(messages))
<1> DEFINE f == RowsUpTo(messages)
           S == {n \in Nat : n <= Len(messages) => Selects(f[n], messages, n)}
<1>1. Len(messages) \in Nat
  OBVIOUS
<1>2. IsRowsUpTo(f, messages, Len(messages))
  BY <1>1, RowsDefined
<1> HIDE DEF f
<1>3. f[0] = <<>>
  BY <1>1, <1>2 DEF IsRowsUpTo
<1>4. 0 \in S
  BY <1>3, SelectsNone
<1>5. ASSUME NEW n \in Nat, n \in S PROVE n + 1 \in S
  <2>1. SUFFICES ASSUME n + 1 <= Len(messages) PROVE Selects(f[n + 1], messages, n + 1)
    BY <1>1
  <2>2. Selects(f[n], messages, n)
    BY <1>1, <1>5, <2>1
  <2>3. n + 1 \in 1..Len(messages) /\ n + 1 \in 0..Len(messages) /\ n + 1 # 0 /\ n + 1 - 1 = n
    BY <1>1, <2>1
  <2>4. f[n + 1] = IF Parsable(messages[n + 1]) THEN Append(f[n], messages[n + 1]) ELSE f[n]
    <3>1. \A i \in 0..Len(messages) :
             f[i] = IF i = 0 THEN <<>>
                    ELSE IF Parsable(messages[i]) THEN Append(f[i - 1], messages[i]) ELSE f[i - 1]
      BY <1>2 DEF IsRowsUpTo
    <3>2. QED
      BY <2>3, <3>1
  <2>5. QED
    BY <2>2, <2>3, <2>4, SelectsKept, SelectsLeft
<1> HIDE DEF S
<1>6. Nat \subseteq S
  BY <1>4, <1>5, Induction
<1>7. QED
  BY <1>1, <1>6 DEF S, f, RowsOf

-----------------------------------------------------------------------------
(* The invariant.                                                          *)

Phases == {"none", "submitted", "parsed", "inserted", "failed", "done"}

Thread == [phase : Phases, batch : Seq(Messages), rows : Seq(Messages), read : Nat]

Types ==
    /\ arrived \in Seq(Messages) /\ queue \in Seq(Messages)
    /\ batch \in Seq(Messages) /\ table \in Seq(Messages)
    /\ writer \in {"getting", "filling", "storing", "cancelled"}
    /\ thread \in [Owners -> Thread]
    /\ stored \in Nat /\ dropped \in Nat /\ errors \in Nat
    /\ server \in {"running", "closing", "cancelling", "flushing", "stopped", "raised"}

\* Where the writer, its thread and the thread of stop() can be at the same time.
WriterHolds ==
    /\ server \in {"running", "closing"} => writer # "cancelled"
    /\ server \in {"flushing", "stopped", "raised"} => writer = "cancelled"
    /\ writer = "getting" => batch = <<>>
    /\ writer \in {"getting", "filling"} => thread["writer"] = NoThread
    /\ writer = "storing" =>
          thread["writer"].phase # "none" /\ thread["writer"].batch = batch
    /\ writer = "cancelled" =>
          batch = <<>> /\ thread["writer"].phase # "submitted"
    /\ Len(batch) <= BatchSize

StopHolds ==
    /\ server \notin {"flushing", "stopped", "raised"} => thread["stop"] = NoThread
    /\ server = "stopped" => thread["stop"].phase \in {"none", "done"}

RowsHold ==
    \A o \in Owners :
        thread[o].phase \in {"parsed", "failed"} =>
            /\ Len(thread[o].rows) <= Len(thread[o].batch)
            /\ Range(thread[o].rows) \subseteq Range(thread[o].batch)

\* What the thread of o has yet to insert, or has failed to.
InThread(o) ==
    CASE thread[o].phase = "submitted" -> thread[o].batch
      [] thread[o].phase \in {"parsed", "failed"} -> thread[o].rows
      [] OTHER -> <<>>

InHand == IF thread["writer"].phase = "none" THEN batch ELSE InThread("writer")

\* The pairs of messages of which the first arrived first.
Earlier(messages) ==
    {<<messages[pq[1]], messages[pq[2]]>> :
        pq \in {ab \in (1..Len(messages)) \X (1..Len(messages)) : ab[1] < ab[2]}}

Different == {mn \in Messages \X Messages : mn[1] # mn[2]}

Ascending(s, R) == \A i, k \in 1..Len(s) : i < k => <<s[i], s[k]>> \in R

\* No message is twice in what arrived or in the table, or in two of the places
\* between them, ...
Apart ==
    /\ Ascending(arrived, Different) /\ Ascending(table, Different)
    /\ Range(table) \cap Range(InHand) = {} /\ Range(table) \cap Range(InThread("stop")) = {}
    /\ Range(table) \cap Range(queue) = {} /\ Range(InHand) \cap Range(InThread("stop")) = {}
    /\ Range(InHand) \cap Range(queue) = {} /\ Range(InThread("stop")) \cap Range(queue) = {}

AllArrived ==
    Range(table) \cup Range(InHand) \cup Range(InThread("stop")) \cup Range(queue)
        \subseteq Range(arrived)

\* ... each is in the order of arrival, ...
Sorted ==
    /\ Ascending(InHand, Earlier(arrived)) /\ Ascending(InThread("stop"), Earlier(arrived))
    /\ Ascending(queue, Earlier(arrived))

\* ... and until the writer is cancelled, one after the other.
Staged ==
    writer # "cancelled" =>
        /\ Ascending(table, Earlier(arrived))
        /\ Range(table) \X Range(InHand) \subseteq Earlier(arrived)
        /\ Range(table) \X Range(queue) \subseteq Earlier(arrived)
        /\ Range(InHand) \X Range(queue) \subseteq Earlier(arrived)

\* What is still served: by the writer, or by stop() when the writer is cancelled.
Served == IF writer = "cancelled" THEN InThread("stop") ELSE InHand

\* What arrived and is on no way that is still served: what is not counted of it is at most
\* the batch of the cancelled writer.
Gone == Range(arrived) \ (Range(table) \cup Range(queue) \cup Range(Served))

Allowed == dropped + errors + (IF writer = "cancelled" THEN BatchSize ELSE 0)

GoneCounted ==
    /\ IsFiniteSet(Gone)
    /\ Cardinality(Gone) <= Allowed

StoredCounted ==
    writer # "cancelled" =>
        IF thread["writer"].phase = "inserted"
          THEN thread["writer"].read + Len(thread["writer"].rows) = Len(table)
          ELSE stored = Len(table)

Control == Types /\ WriterHolds /\ StopHolds /\ RowsHold
Places == Apart /\ AllArrived /\ Sorted /\ Staged
Inv == Control /\ Places /\ GoneCounted /\ StoredCounted

-----------------------------------------------------------------------------
(* Sequences of messages whose elements are pairwise in a relation.        *)

LEMMA RangeNone == Range(<<>>) = {}
BY DEF Range

LEMMA RangeTail ==
    ASSUME NEW s \in Seq(Messages), s # <<>>
    PROVE  Range(s) = {Head(s)} \cup Range(Tail(s))
<1>1. /\ Head(s) = s[1] /\ Tail(s) \in Seq(Messages) /\ Len(Tail(s)) = Len(s) - 1
      /\ \A i \in 1..Len(Tail(s)) : Tail(s)[i] = s[i + 1]
      /\ Len(s) \in Nat \ {0}
  BY HeadTailProperties, EmptySeq
<1>2. /\ Range(s) = {s[i] : i \in 1..Len(s)}
      /\ Range(Tail(s)) = {Tail(s)[i] : i \in 1..Len(Tail(s))}
  BY <1>1, RangeEquality
<1>3. ASSUME NEW i \in 1..Len(s) PROVE s[i] = s[1] \/ s[i] \in Range(Tail(s))
  <2>1. CASE i # 1
    <3>1. i - 1 \in 1..Len(Tail(s)) /\ i - 1 + 1 = i
      BY <1>1, <2>1
    <3>2. Tail(s)[i - 1] = s[i]
      BY <1>1, <3>1
    <3>3. QED
      BY <1>2, <3>1, <3>2
  <2>2. QED
    BY <2>1
<1>4. ASSUME NEW i \in 1..Len(Tail(s)) PROVE Tail(s)[i] \in Range(s)
  <2>1. i + 1 \in 1..Len(s)
    BY <1>1
  <2>2. QED
    BY <1>1, <1>2, <2>1
<1>5. s[1] \in Range(s)
  BY <1>1, <1>2
<1>6. QED
  BY <1>1, <1>2, <1>3, <1>4, <1>5

LEMMA AscendingNone == ASSUME NEW R PROVE Ascending(<<>>, R)
BY DEF Ascending

LEMMA AscendingMore ==
    ASSUME NEW s, NEW R, NEW Q, R \subseteq Q, Ascending(s, R)
    PROVE  Ascending(s, Q)
BY DEF Ascending

LEMMA AscendingAppend ==
    ASSUME NEW s \in Seq(Messages), NEW m \in Messages, NEW R,
           Ascending(s, R), Range(s) \X {m} \subseteq R
    PROVE  Ascending(Append(s, m), R)
<1>1. /\ Len(Append(s, m)) = Len(s) + 1 /\ Len(s) \in Nat
      /\ \A i \in 1..Len(s) : Append(s, m)[i] = s[i]
      /\ Append(s, m)[Len(s) + 1] = m
  BY AppendProperties
<1>2. Range(s) = {s[i] : i \in 1..Len(s)}
  BY RangeEquality
<1>3. SUFFICES ASSUME NEW i \in 1..Len(s) + 1, NEW k \in 1..Len(s) + 1, i < k
               PROVE  <<Append(s, m)[i], Append(s, m)[k]>> \in R
  BY <1>1 DEF Ascending
<1>4. i \in 1..Len(s) /\ Append(s, m)[i] = s[i]
  BY <1>1, <1>3
<1>5. CASE k = Len(s) + 1
  BY <1>1, <1>2, <1>4, <1>5
<1>6. CASE k # Len(s) + 1
  <2>1. k \in 1..Len(s) /\ Append(s, m)[k] = s[k]
    BY <1>1, <1>6
  <2>2. QED
    BY <1>3, <1>4, <2>1 DEF Ascending
<1>7. QED
  BY <1>5, <1>6

LEMMA AscendingTail ==
    ASSUME NEW s \in Seq(Messages), s # <<>>, NEW R, Ascending(s, R)
    PROVE  Ascending(Tail(s), R) /\ {Head(s)} \X Range(Tail(s)) \subseteq R
<1>1. /\ Head(s) = s[1] /\ Tail(s) \in Seq(Messages) /\ Len(Tail(s)) = Len(s) - 1
      /\ \A i \in 1..Len(Tail(s)) : Tail(s)[i] = s[i + 1]
      /\ Len(s) \in Nat \ {0}
  BY HeadTailProperties, EmptySeq
<1>2. Range(Tail(s)) = {Tail(s)[i] : i \in 1..Len(Tail(s))}
  BY <1>1, RangeEquality
<1>3. ASSUME NEW i \in 1..Len(Tail(s)), NEW k \in 1..Len(Tail(s)), i < k
      PROVE  <<Tail(s)[i], Tail(s)[k]>> \in R
  <2>1. i + 1 \in 1..Len(s) /\ k + 1 \in 1..Len(s) /\ i + 1 < k + 1
    BY <1>1, <1>3
  <2>2. <<s[i + 1], s[k + 1]>> \in R
    BY <2>1 DEF Ascending
  <2>3. QED
    BY <1>1, <2>2
<1>4. ASSUME NEW i \in 1..Len(Tail(s)) PROVE <<Head(s), Tail(s)[i]>> \in R
  <2>1. 1 \in 1..Len(s) /\ i + 1 \in 1..Len(s) /\ 1 < i + 1
    BY <1>1
  <2>2. <<s[1], s[i + 1]>> \in R
    BY <2>1 DEF Ascending
  <2>3. QED
    BY <1>1, <2>2
<1>5. QED
  BY <1>2, <1>3, <1>4 DEF Ascending

LEMMA AscendingConcat ==
    ASSUME NEW s \in Seq(Messages), NEW t \in Seq(Messages), NEW R,
           Ascending(s, R), Ascending(t, R), Range(s) \X Range(t) \subseteq R
    PROVE  Ascending(s \o t, R)
<1>1. /\ Len(s \o t) = Len(s) + Len(t) /\ Len(s) \in Nat /\ Len(t) \in Nat
      /\ \A i \in 1..Len(s) + Len(t) : (s \o t)[i] = IF i <= Len(s) THEN s[i] ELSE t[i - Len(s)]
  BY ConcatProperties
<1>2. Range(s) = {s[i] : i \in 1..Len(s)} /\ Range(t) = {t[i] : i \in 1..Len(t)}
  BY RangeEquality
<1>3. SUFFICES ASSUME NEW i \in 1..Len(s) + Len(t), NEW k \in 1..Len(s) + Len(t), i < k
               PROVE  <<(s \o t)[i], (s \o t)[k]>> \in R
  BY <1>1 DEF Ascending
<1>4. CASE k <= Len(s)
  <2>1. i \in 1..Len(s) /\ k \in 1..Len(s) /\ (s \o t)[i] = s[i] /\ (s \o t)[k] = s[k]
    BY <1>1, <1>3, <1>4
  <2>2. QED
    BY <1>3, <2>1 DEF Ascending
<1>5. CASE i > Len(s)
  <2>1. /\ i - Len(s) \in 1..Len(t) /\ k - Len(s) \in 1..Len(t) /\ i - Len(s) < k - Len(s)
        /\ (s \o t)[i] = t[i - Len(s)] /\ (s \o t)[k] = t[k - Len(s)]
    BY <1>1, <1>3, <1>5
  <2>2. <<t[i - Len(s)], t[k - Len(s)]>> \in R
    BY <2>1 DEF Ascending
  <2>3. QED
    BY <2>1, <2>2
<1>6. CASE i <= Len(s) /\ k > Len(s)
  <2>1. /\ i \in 1..Len(s) /\ k - Len(s) \in 1..Len(t)
        /\ (s \o t)[i] = s[i] /\ (s \o t)[k] = t[k - Len(s)]
    BY <1>1, <1>3, <1>6
  <2>2. s[i] \in Range(s) /\ t[k - Len(s)] \in Range(t)
    BY <1>2, <2>1
  <2>3. QED
    BY <2>1, <2>2
<1>7. k <= Len(s) \/ i > Len(s) \/ (i <= Len(s) /\ k > Len(s))
  BY <1>1
<1>8. QED
  BY <1>4, <1>5, <1>6, <1>7

LEMMA AscendingSelected ==
    ASSUME NEW s \in Seq(Messages), NEW rows, NEW R,
           Selects(rows, s, Len(s)), Ascending(s, R)
    PROVE  Ascending(rows, R)
BY DEF Selects, Ascending

LEMMA RangeSelected ==
    ASSUME NEW s \in Seq(Messages), NEW rows, Selects(rows, s, Len(s))
    PROVE  Range(rows) \subseteq Range(s)
<1>1. rows \in Seq(Messages)
  BY DEF Selects
<1>2. Range(rows) = {rows[i] : i \in 1..Len(rows)} /\ Range(s) = {s[i] : i \in 1..Len(s)}
  BY <1>1, RangeEquality
<1>3. QED
  BY <1>2 DEF Selects

LEMMA RangeMessages ==
    ASSUME NEW s \in Seq(Messages)
    PROVE  Range(s) \subseteq Messages
<1>1. Range(s) = {s[i] : i \in 1..Len(s)}
  BY RangeEquality
<1>2. QED
  BY <1>1

\* A sequence has no more messages than places.
LEMMA RangeSize ==
    ASSUME NEW s \in Seq(Messages)
    PROVE  IsFiniteSet(Range(s)) /\ Cardinality(Range(s)) \in Nat /\ Cardinality(Range(s)) <= Len(s)
<1>1. Len(s) \in Nat /\ DOMAIN s = 1..Len(s) /\ s \in [1..Len(s) -> Messages]
  BY LenProperties
<1>2. s \in Surjection(1..Len(s), Range(s))
  BY <1>1 DEF Surjection, Range
<1>3. IsFiniteSet(1..Len(s)) /\ Cardinality(1..Len(s)) = IF 1 > Len(s) THEN 0 ELSE Len(s) - 1 + 1
  BY <1>1, FS_Interval
<1>4. IsFiniteSet(Range(s)) /\ Cardinality(Range(s)) <= Cardinality(1..Len(s))
  BY <1>2, <1>3, FS_Surjection
<1>5. Cardinality(Range(s)) \in Nat
  BY <1>4, FS_CardinalityType
<1>6. QED
  BY <1>1, <1>3, <1>4, <1>5

\* A set that grew by nothing outside X has grown by no more than X.
LEMMA Grown ==
    ASSUME NEW S, NEW T, NEW X, IsFiniteSet(S), IsFiniteSet(X), T \subseteq S \cup X
    PROVE  /\ IsFiniteSet(T) /\ Cardinality(T) \in Nat /\ Cardinality(S) \in Nat
           /\ Cardinality(X) \in Nat /\ Cardinality(T) <= Cardinality(S) + Cardinality(X)
<1>1. /\ IsFiniteSet(S \cup X)
      /\ Cardinality(S \cup X) = Cardinality(S) + Cardinality(X) - Cardinality(S \cap X)
  BY FS_Union
<1>2. IsFiniteSet(S \cap X) /\ IsFiniteSet(T) /\ Cardinality(T) <= Cardinality(S \cup X)
  BY <1>1, FS_Subset
<1>3. /\ Cardinality(S) \in Nat /\ Cardinality(X) \in Nat /\ Cardinality(T) \in Nat
      /\ Cardinality(S \cap X) \in Nat
  BY <1>2, FS_CardinalityType
<1>4. QED
  BY <1>1, <1>2, <1>3

LEMMA Smaller ==
    ASSUME NEW S, NEW T, IsFiniteSet(S), T \subseteq S
    PROVE  /\ IsFiniteSet(T) /\ Cardinality(T) \in Nat /\ Cardinality(S) \in Nat
           /\ Cardinality(T) <= Cardinality(S)
BY FS_Subset, FS_CardinalityType

LEMMA EarlierHolds ==
    ASSUME NEW s \in Seq(Messages), NEW m, NEW n
    PROVE  <<m, n>> \in Earlier(s) <=> \E p, q \in 1..Len(s) : p < q /\ s[p] = m /\ s[q] = n
<1>1. ASSUME NEW p \in 1..Len(s), NEW q \in 1..Len(s), p < q, s[p] = m, s[q] = n
      PROVE  <<m, n>> \in Earlier(s)
  <2>1. <<p, q>> \in {ab \in (1..Len(s)) \X (1..Len(s)) : ab[1] < ab[2]}
    BY <1>1
  <2>2. QED
    BY <1>1, <2>1 DEF Earlier
<1>2. ASSUME <<m, n>> \in Earlier(s)
      PROVE  \E p, q \in 1..Len(s) : p < q /\ s[p] = m /\ s[q] = n
  BY <1>2 DEF Earlier
<1>3. QED
  BY <1>1, <1>2

LEMMA EarlierAppend ==
    ASSUME NEW s \in Seq(Messages), NEW m \in Messages
    PROVE  /\ Earlier(s) \subseteq Earlier(Append(s, m))
           /\ Range(s) \X {m} \subseteq Earlier(Append(s, m))
<1>1. /\ Append(s, m) \in Seq(Messages) /\ Len(Append(s, m)) = Len(s) + 1 /\ Len(s) \in Nat
      /\ \A i \in 1..Len(s) : Append(s, m)[i] = s[i]
      /\ Append(s, m)[Len(s) + 1] = m
  BY AppendProperties
<1>2. Range(s) = {s[i] : i \in 1..Len(s)}
  BY RangeEquality
<1>3. ASSUME NEW p \in 1..Len(s), NEW q \in 1..Len(s), p < q
      PROVE  <<s[p], s[q]>> \in Earlier(Append(s, m))
  <2>1. p \in 1..Len(Append(s, m)) /\ q \in 1..Len(Append(s, m))
    BY <1>1
  <2>2. QED
    BY <1>1, <1>3, <2>1, EarlierHolds
<1>4. ASSUME NEW p \in 1..Len(s) PROVE <<s[p], m>> \in Earlier(Append(s, m))
  <2>1. p \in 1..Len(Append(s, m)) /\ Len(s) + 1 \in 1..Len(Append(s, m)) /\ p < Len(s) + 1
    BY <1>1
  <2>2. QED
    BY <1>1, <2>1, EarlierHolds
<1>5. Earlier(s) \subseteq Earlier(Append(s, m))
  <2>1. ASSUME NEW x \in Earlier(s) PROVE x \in Earlier(Append(s, m))
    <3>1. PICK pq \in {ab \in (1..Len(s)) \X (1..Len(s)) : ab[1] < ab[2]} :
             x = <<s[pq[1]], s[pq[2]]>>
      BY DEF Earlier
    <3>2. pq[1] \in 1..Len(s) /\ pq[2] \in 1..Len(s) /\ pq[1] < pq[2]
      OBVIOUS
    <3>3. QED
      BY <1>3, <3>1, <3>2
  <2>2. QED
    BY <2>1
<1>6. QED
  BY <1>2, <1>4, <1>5

\* What arrives once is not earlier than itself.
LEMMA EarlierDiffers ==
    ASSUME NEW s \in Seq(Messages), Ascending(s, Different)
    PROVE  Earlier(s) \subseteq Different
BY DEF Earlier, Ascending

-----------------------------------------------------------------------------
(* The invariant holds in the first state, and every step keeps it.        *)

LEMMA ThreadTypes ==
    ASSUME Types, NEW o \in Owners
    PROVE  /\ thread[o] \in Thread /\ thread[o].phase \in Phases /\ thread[o].read \in Nat
           /\ thread[o].batch \in Seq(Messages) /\ thread[o].rows \in Seq(Messages)
<1>1. thread[o] \in Thread
  BY DEF Types
<1>2. QED
  BY <1>1 DEF Thread

LEMMA PlaceTypes ==
    ASSUME Types
    PROVE  /\ \A o \in Owners : InThread(o) \in Seq(Messages)
           /\ InHand \in Seq(Messages)
<1>1. <<>> \in Seq(Messages)
  BY EmptySeq
<1>2. ASSUME NEW o \in Owners PROVE InThread(o) \in Seq(Messages)
  <2>1. thread[o].batch \in Seq(Messages) /\ thread[o].rows \in Seq(Messages)
    BY ThreadTypes
  <2>2. QED
    BY <1>1, <2>1 DEF InThread
<1>3. InHand \in Seq(Messages)
  BY <1>2 DEF InHand, Types, Owners
<1>4. QED
  BY <1>2, <1>3

LEMMA InitInv == Init => Inv
<1> SUFFICES ASSUME Init PROVE Inv
  OBVIOUS
<1>1. NoThread \in Thread /\ <<>> \in Seq(Messages) /\ Len(<<>>) = 0
  <2>1. <<>> \in Seq(Messages)
    BY EmptySeq
  <2>2. QED
    BY <2>1 DEF NoThread, Thread, Phases
<1>2. thread["writer"] = NoThread /\ thread["stop"] = NoThread
  BY DEF Init, Owners
<1>3. NoThread.phase = "none" /\ NoThread.batch = <<>> /\ NoThread.rows = <<>>
  BY DEF NoThread
<1>4. Control
  <2>1. Types
    BY <1>1 DEF Init, Types, Owners
  <2>2. WriterHolds
    BY <1>1, <1>2, <1>3, SizesAssumption DEF Init, WriterHolds
  <2>3. StopHolds /\ RowsHold
    BY <1>2, <1>3 DEF Init, StopHolds, RowsHold, Owners
  <2>4. QED
    BY <2>1, <2>2, <2>3 DEF Control
<1>5. InHand = <<>> /\ InThread("stop") = <<>> /\ Served = <<>>
  BY <1>2, <1>3 DEF Init, InHand, InThread, Served
<1>6. Places
  <2>1. Range(<<>>) = {}
    BY RangeNone
  <2>2. QED
    BY <1>5, <2>1, AscendingNone DEF Init, Places, Apart, AllArrived, Sorted, Staged
<1>7. GoneCounted
  <2>1. Gone = {}
    BY RangeNone DEF Init, Gone
  <2>2. Allowed = 0
    BY DEF Init, Allowed
  <2>3. IsFiniteSet(Gone) /\ Cardinality(Gone) = 0
    BY <2>1, FS_EmptySet
  <2>4. QED
    BY <2>2, <2>3 DEF GoneCounted
<1>8. StoredCounted
  BY <1>1, <1>2, <1>3 DEF Init, StoredCounted
<1>9. QED
  BY <1>4, <1>6, <1>7, <1>8 DEF Inv

\* A step that moves no message.
LEMMA PlacesStay ==
    ASSUME Places, GoneCounted, Types, Types',
           UNCHANGED <<arrived, queue, table, writer, dropped, errors, InHand>>,
           InThread("stop")' = InThread("stop")
    PROVE  Places' /\ GoneCounted'
<1>1. Places'
  BY DEF Places, Apart, AllArrived, Sorted, Staged
<1>2. Gone' = Gone
  BY DEF Gone, Served
<1>3. QED
  BY <1>1, <1>2 DEF GoneCounted, Allowed

\* A step after which a place holds some of the messages it held.
LEMMA PlacesShrink ==
    ASSUME Places, UNCHANGED <<arrived, queue, table>>, writer = "cancelled" => writer' = "cancelled",
           Range(InHand') \subseteq Range(InHand), Ascending(InHand', Earlier(arrived)),
           Range(InThread("stop")') \subseteq Range(InThread("stop")),
           Ascending(InThread("stop")', Earlier(arrived))
    PROVE  Places'
<1>1. Apart' /\ AllArrived'
  BY DEF Places, Apart, AllArrived
<1>2. Sorted'
  BY DEF Places, Sorted
<1>3. Staged'
  <2>1. SUFFICES ASSUME writer' # "cancelled" PROVE Staged'
    BY DEF Staged
  <2>2. writer # "cancelled"
    BY <2>1
  <2>3. QED
    BY <2>2 DEF Places, Staged
<1>4. QED
  BY <1>1, <1>2, <1>3 DEF Places

\* A step that lets go of no more than it counts.
LEMMA GoneGrows ==
    ASSUME GoneCounted, Allowed \in Nat, Allowed' \in Nat, NEW X, IsFiniteSet(X),
           Gone' \subseteq Gone \cup X, Allowed + Cardinality(X) <= Allowed'
    PROVE  GoneCounted'
<1> DEFINE S == Gone
           T == Gone'
           a == Allowed
           b == Allowed'
<1>1. IsFiniteSet(S) /\ Cardinality(S) <= a /\ T \subseteq S \cup X /\ a \in Nat /\ b \in Nat
  BY DEF GoneCounted
<1>2. a + Cardinality(X) <= b
  OBVIOUS
<1> HIDE DEF S, T, a, b
<1>3. /\ IsFiniteSet(T) /\ Cardinality(T) \in Nat /\ Cardinality(S) \in Nat
      /\ Cardinality(X) \in Nat /\ Cardinality(T) <= Cardinality(S) + Cardinality(X)
  BY <1>1, Grown
<1>4. Cardinality(T) <= b
  BY <1>1, <1>2, <1>3
<1>5. QED
  BY <1>3, <1>4 DEF GoneCounted, T, b

LEMMA GoneShrinks ==
    ASSUME GoneCounted, Allowed \in Nat, Allowed' \in Nat, Gone' \subseteq Gone, Allowed <= Allowed'
    PROVE  GoneCounted'
<1>1. IsFiniteSet({}) /\ Cardinality({}) = 0
  BY FS_EmptySet
<1>2. Allowed + Cardinality({}) <= Allowed'
  BY <1>1
<1>3. Gone' \subseteq Gone \cup {}
  OBVIOUS
<1>4. QED
  BY <1>1, <1>2, <1>3, GoneGrows

LEMMA AllowedTypes == ASSUME Types, Types' PROVE Allowed \in Nat /\ Allowed' \in Nat
<1>1. dropped \in Nat /\ errors \in Nat /\ dropped' \in Nat /\ errors' \in Nat /\ BatchSize \in Nat
  BY SizesAssumption DEF Types
<1>2. \A a, b, c \in Nat : a + b + c \in Nat
  OBVIOUS
<1> DEFINE more == IF writer = "cancelled" THEN BatchSize ELSE 0
<1>3. more \in Nat /\ more' \in Nat
  BY <1>1
<1> HIDE DEF more
<1>4. dropped + errors + more \in Nat /\ dropped' + errors' + more' \in Nat
  BY <1>1, <1>2, <1>3
<1>5. QED
  BY <1>4 DEF Allowed, more

LEMMA ArriveKeeps ==
    ASSUME Inv, NEW m \in Messages, Arrive(m)
    PROVE  Inv'
<1> USE DEF Inv, Control, Places
<1>1. /\ Append(arrived, m) \in Seq(Messages) /\ Append(queue, m) \in Seq(Messages)
      /\ arrived' = Append(arrived, m)
      /\ UNCHANGED <<writer, batch, thread, table, stored, errors, server>>
  BY AppendProperties DEF Types, Arrive
<1>2. \/ queue' = Append(queue, m) /\ dropped' = dropped
      \/ dropped' = dropped + 1 /\ queue' = queue
  BY DEF Arrive
<1>3. Control'
  <2>1. queue' \in Seq(Messages) /\ dropped' \in Nat
    <3>1. queue \in Seq(Messages) /\ dropped \in Nat /\ dropped + 1 \in Nat
      BY DEF Types
    <3>2. CASE queue' = Append(queue, m) /\ dropped' = dropped
      BY <1>1, <3>1, <3>2
    <3>3. CASE dropped' = dropped + 1 /\ queue' = queue
      BY <3>1, <3>3
    <3>4. QED
      BY <1>2, <3>2, <3>3
  <2>2. Types'
    BY <1>1, <2>1 DEF Types
  <2>3. WriterHolds' /\ StopHolds' /\ RowsHold'
    BY <1>1 DEF WriterHolds, StopHolds, RowsHold
  <2>4. QED
    BY <2>2, <2>3
<1>4. InHand' = InHand /\ InThread("stop")' = InThread("stop") /\ Served' = Served
  BY <1>1 DEF InHand, InThread, Served
<1>5. m \notin Range(arrived) /\ Range(arrived') = Range(arrived) \cup {m}
  BY <1>1, RangeAppend DEF Arrive, Types
<1>6. /\ Earlier(arrived) \subseteq Earlier(arrived')
      /\ Range(arrived) \X {m} \subseteq Earlier(arrived')
  BY <1>1, EarlierAppend DEF Types
<1>7. Range(queue') = Range(queue) \/ Range(queue') = Range(queue) \cup {m}
  <2>1. Range(Append(queue, m)) = Range(queue) \cup {m}
    BY RangeAppend DEF Types
  <2>2. QED
    BY <1>2, <2>1
<1>8. Ascending(arrived', Different)
  <2>1. Range(arrived) \X {m} \subseteq Different
    BY <1>5, RangeMessages DEF Different, Types
  <2>2. QED
    BY <1>1, <2>1, AscendingAppend DEF Apart, Types
<1>9. AllArrived'
  BY <1>1, <1>4, <1>5, <1>7 DEF AllArrived
<1>10. Apart'
  BY <1>1, <1>4, <1>5, <1>7, <1>8 DEF Apart, AllArrived
<1>11. Sorted'
  <2>1. Ascending(queue, Earlier(arrived'))
    BY <1>6, AscendingMore DEF Sorted
  <2>2. Ascending(queue', Earlier(arrived'))
    <3>1. CASE queue' = queue
      BY <2>1, <3>1
    <3>2. CASE queue' = Append(queue, m)
      <4>1. Range(queue) \X {m} \subseteq Earlier(arrived')
        BY <1>6 DEF AllArrived
      <4>2. QED
        BY <2>1, <3>2, <4>1, AscendingAppend DEF Types
    <3>3. QED
      BY <1>2, <3>1, <3>2
  <2>3. Ascending(InHand, Earlier(arrived')) /\ Ascending(InThread("stop"), Earlier(arrived'))
    BY <1>6, AscendingMore DEF Sorted
  <2>4. QED
    BY <1>4, <2>2, <2>3 DEF Sorted
<1>12. Staged'
  <2>1. SUFFICES ASSUME writer # "cancelled" PROVE Staged'
    BY <1>1 DEF Staged
  <2>2. Ascending(table, Earlier(arrived'))
    BY <1>6, <2>1, AscendingMore DEF Staged
  <2>3. Range(table) \X Range(InHand) \subseteq Earlier(arrived')
    BY <1>6, <2>1 DEF Staged
  <2>4. Range(table) \X Range(queue') \subseteq Earlier(arrived')
    BY <1>6, <1>7, <2>1 DEF Staged, AllArrived
  <2>5. Range(InHand) \X Range(queue') \subseteq Earlier(arrived')
    BY <1>6, <1>7, <2>1 DEF Staged, AllArrived
  <2>6. QED
    BY <1>1, <1>4, <2>2, <2>3, <2>4, <2>5 DEF Staged
<1>13. GoneCounted'
  <2>1. Allowed \in Nat /\ Allowed' \in Nat
    BY <1>3, AllowedTypes
  <2>2. CASE queue' = Append(queue, m) /\ dropped' = dropped
    <3>1. Range(queue') = Range(queue) \cup {m}
      BY <2>2, RangeAppend DEF Types
    <3>2. Gone' \subseteq Gone
      BY <1>1, <1>4, <1>5, <3>1 DEF Gone
    <3>3. Allowed' = Allowed
      BY <1>1, <2>2 DEF Allowed
    <3>4. QED
      BY <2>1, <3>2, <3>3, GoneShrinks
  <2>3. CASE dropped' = dropped + 1 /\ queue' = queue
    <3>1. Gone' \subseteq Gone \cup {m}
      BY <1>1, <1>4, <1>5, <2>3 DEF Gone
    <3>2. IsFiniteSet({m}) /\ Cardinality({m}) = 1
      BY FS_Singleton
    <3>3. Allowed + 1 = Allowed'
      BY <1>1, <2>3, SizesAssumption DEF Allowed, Types
    <3>4. Allowed + Cardinality({m}) <= Allowed'
      BY <2>1, <3>2, <3>3
    <3>5. QED
      BY <2>1, <3>1, <3>2, <3>4, GoneGrows
  <2>4. QED
    BY <1>2, <2>2, <2>3
<1>14. StoredCounted'
  BY <1>1 DEF StoredCounted
<1>15. QED
  BY <1>3, <1>9, <1>10, <1>11, <1>12, <1>13, <1>14

LEMMA SubmittedIs ==
    ASSUME NEW b
    PROVE  Submitted(b) = [phase |-> "submitted", batch |-> b, rows |-> <<>>, read |-> 0]
<1>1. NoThread = [phase |-> "none", batch |-> <<>>, rows |-> <<>>, read |-> 0]
  BY DEF NoThread
<1>2. Submitted(b) = [NoThread EXCEPT !.phase = "submitted", !.batch = b]
  BY DEF Submitted
<1>3. QED
  BY <1>1, <1>2

LEMMA ParsedIs ==
    ASSUME NEW t \in Thread, NEW rows, NEW x, x = [t EXCEPT !.phase = "parsed", !.rows = rows]
    PROVE  x = [phase |-> "parsed", batch |-> t.batch, rows |-> rows, read |-> t.read]
BY DEF Thread

LEMMA InsertedIs ==
    ASSUME NEW t \in Thread, NEW read, NEW x, x = [t EXCEPT !.phase = "inserted", !.read = read]
    PROVE  x = [phase |-> "inserted", batch |-> t.batch, rows |-> t.rows, read |-> read]
BY DEF Thread

\* A step of the thread of o.
LEMMA ThreadStep ==
    ASSUME Types, NEW o \in Owners, NEW w \in Thread,
           thread' = [p \in Owners |-> IF p = o THEN w ELSE thread[p]]
    PROVE  /\ thread'[o] = w /\ \A p \in Owners : p # o => thread'[p] = thread[p]
           /\ thread' \in [Owners -> Thread]
<1>1. \A p \in Owners : thread[p] \in Thread
  BY ThreadTypes
<1>2. QED
  BY <1>1

\* A thread that stores is the writer's or, when the writer is cancelled, that of stop().
LEMMA WhoStores ==
    ASSUME Control, NEW o \in Owners, thread[o].phase \in Phases \ {"none"}
    PROVE  \/ o = "writer" /\ writer \in {"storing", "cancelled"}
           \/ o = "stop" /\ writer = "cancelled" /\ server \in {"flushing", "stopped", "raised"}
<1>1. NoThread.phase = "none"
  BY DEF NoThread
<1>2. CASE o = "writer"
  BY <1>1, <1>2 DEF Control, WriterHolds, Types
<1>3. CASE o = "stop"
  <2>1. server \in {"flushing", "stopped", "raised"}
    BY <1>1, <1>3 DEF Control, StopHolds, Types
  <2>2. QED
    BY <1>3, <2>1 DEF Control, WriterHolds, Types
<1>4. QED
  BY <1>2, <1>3 DEF Owners

\* A message goes from the queue to the batch of the writer, who may be told to stop.
LEMMA TakenKeeps ==
    ASSUME Inv, queue # <<>>, queue' = Tail(queue), batch' = Append(batch, Head(queue)),
           writer \in {"getting", "filling"}, writer' = "filling", Len(batch) < BatchSize,
           (server' = server \/ (server = "closing" /\ server' = "cancelling")),
           UNCHANGED <<arrived, thread, table, stored, dropped, errors>>
    PROVE  Inv'
<1> USE DEF Inv, Control, Places
<1> DEFINE m == Head(queue)
<1>1. /\ queue # <<>> /\ writer # "cancelled" /\ queue' = Tail(queue) /\ batch' = Append(batch, m)
      /\ writer' = "filling" /\ Len(batch) < BatchSize
      /\ thread["writer"] = NoThread /\ thread["writer"].phase = "none"
      /\ (server' = server \/ (server = "closing" /\ server' = "cancelling"))
      /\ UNCHANGED <<arrived, thread, table, stored, dropped, errors>>
  BY DEF WriterHolds, NoThread
<1>2. m \in Messages /\ Tail(queue) \in Seq(Messages) /\ batch \in Seq(Messages)
  BY <1>1, HeadTailProperties DEF Types
<1>3. /\ Append(batch, m) \in Seq(Messages) /\ Len(Append(batch, m)) = Len(batch) + 1
      /\ Len(batch) \in Nat
  BY <1>2, AppendProperties
<1> HIDE DEF m
<1>4. Control'
  <2>1. Types'
    BY <1>1, <1>2, <1>3 DEF Types
  <2>2. WriterHolds'
    <3>1. Len(batch') <= BatchSize
      BY <1>1, <1>3, SizesAssumption
    <3>2. QED
      BY <1>1, <3>1 DEF WriterHolds
  <2>3. StopHolds' /\ RowsHold'
    BY <1>1 DEF StopHolds, RowsHold
  <2>4. QED
    BY <2>1, <2>2, <2>3
<1>5. /\ InHand = batch /\ InHand' = batch' /\ InThread("stop")' = InThread("stop")
      /\ Served = InHand /\ Served' = InHand'
  BY <1>1 DEF InHand, InThread, Served
<1>6. Range(queue) = {m} \cup Range(queue') /\ Range(InHand') = Range(InHand) \cup {m}
  <2>1. Range(queue) = {m} \cup Range(queue')
    BY <1>1, RangeTail DEF Types, m
  <2>2. QED
    BY <1>1, <1>2, <1>5, <2>1, RangeAppend
<1>7. Ascending(queue', Earlier(arrived)) /\ {m} \X Range(queue') \subseteq Earlier(arrived)
  BY <1>1, AscendingTail DEF Sorted, Types, m
<1>8. m \notin Range(queue')
  <2>1. {m} \X Range(queue') \subseteq Different
    BY <1>7, EarlierDiffers DEF Apart, Types
  <2>2. SUFFICES ASSUME m \in Range(queue') PROVE FALSE
    OBVIOUS
  <2>3. <<m, m>> \in Different
    BY <2>1, <2>2
  <2>4. QED
    BY <2>3 DEF Different
<1>9. Apart'
  BY <1>1, <1>5, <1>6, <1>8 DEF Apart
<1>10. AllArrived'
  BY <1>1, <1>5, <1>6 DEF AllArrived
<1>11. Sorted'
  <2>1. Ascending(batch, Earlier(arrived)) /\ Range(batch) \X {m} \subseteq Earlier(arrived)
    BY <1>1, <1>5, <1>6 DEF Sorted, Staged
  <2>2. Ascending(InHand', Earlier(arrived))
    BY <1>1, <1>2, <1>5, <2>1, AscendingAppend
  <2>3. QED
    BY <1>1, <1>5, <1>7, <2>2 DEF Sorted
<1>12. Staged'
  BY <1>1, <1>5, <1>6, <1>7 DEF Staged
<1>13. GoneCounted'
  <2>1. Gone' \subseteq Gone
    BY <1>1, <1>5, <1>6 DEF Gone
  <2>2. Allowed' = Allowed
    BY <1>1 DEF Allowed
  <2>3. QED
    BY <1>4, <2>1, <2>2, AllowedTypes, GoneShrinks
<1>14. StoredCounted'
  BY <1>1 DEF StoredCounted
<1>15. QED
  BY <1>4, <1>9, <1>10, <1>11, <1>12, <1>13, <1>14

LEMMA WriterTakesKeeps == ASSUME Inv, WriterTakes PROVE Inv'
<1>1. writer = "getting" => Len(batch) = 0
  BY EmptySeq DEF Inv, Control, WriterHolds
<1>2. Len(batch) < BatchSize /\ writer \in {"getting", "filling"}
  BY <1>1, SizesAssumption DEF WriterTakes
<1>3. /\ queue # <<>> /\ queue' = Tail(queue) /\ batch' = Append(batch, Head(queue))
      /\ writer' = "filling"
      /\ (server' = server \/ (server = "closing" /\ server' = "cancelling"))
      /\ UNCHANGED <<arrived, thread, table, stored, dropped, errors>>
  BY DEF WriterTakes, stats
<1>4. QED
  BY <1>2, <1>3, TakenKeeps

LEMMA CancelIsSwallowedKeeps == ASSUME Inv, CancelIsSwallowed PROVE Inv'
  BY TakenKeeps DEF CancelIsSwallowed, stats

LEMMA WriterSubmitsKeeps == ASSUME Inv, WriterSubmits PROVE Inv'
<1> USE DEF Inv, Control, Places
<1> DEFINE w == [phase |-> "submitted", batch |-> batch, rows |-> <<>>, read |-> 0]
<1>1. /\ writer = "filling" /\ writer' = "storing" /\ thread["writer"].phase = "none"
      /\ thread["writer"] = NoThread
      /\ thread' = [thread EXCEPT !["writer"] = w]
      /\ UNCHANGED <<arrived, queue, batch, table, stored, dropped, errors, server>>
  <2>1. Submitted(batch) = w
    BY SubmittedIs
  <2>2. thread["writer"] = NoThread /\ writer = "filling"
    BY DEF WriterSubmits, WriterHolds
  <2>3. QED
    BY <2>1, <2>2 DEF WriterSubmits, stats, NoThread
<1>2. w \in Thread
  BY EmptySeq DEF Thread, Phases, Types
<1>3. thread'["writer"] = w /\ thread'["stop"] = thread["stop"] /\ thread' \in [Owners -> Thread]
  BY <1>1, <1>2 DEF Types, Owners
<1>4. w.phase = "submitted" /\ w.batch = batch
  OBVIOUS
<1> HIDE DEF w
<1>5. Control'
  <2>1. Types'
    BY <1>1, <1>3 DEF Types
  <2>2. WriterHolds' /\ StopHolds'
    BY <1>1, <1>3, <1>4 DEF WriterHolds, StopHolds
  <2>3. RowsHold'
    BY <1>3, <1>4 DEF RowsHold, Owners
  <2>4. QED
    BY <2>1, <2>2, <2>3
<1>6. InHand' = InHand /\ InThread("stop")' = InThread("stop")
  BY <1>1, <1>3, <1>4 DEF InHand, InThread
<1>7. Apart' /\ AllArrived' /\ Sorted' /\ Staged'
  BY <1>1, <1>6 DEF Apart, AllArrived, Sorted, Staged
<1>8. GoneCounted'
  <2>1. Gone' = Gone /\ Allowed' = Allowed
    BY <1>1, <1>6 DEF Gone, Served, Allowed
  <2>2. QED
    BY <2>1 DEF GoneCounted
<1>9. StoredCounted'
  BY <1>1, <1>3, <1>4 DEF StoredCounted
<1>10. QED
  BY <1>5, <1>7, <1>8, <1>9

LEMMA WriterResumesKeeps == ASSUME Inv, WriterResumes PROVE Inv'
<1> USE DEF Inv, Control, Places
<1>1. /\ writer = "storing" /\ writer' = "getting" /\ batch' = <<>>
      /\ thread["writer"].phase \in {"done", "failed"}
      /\ thread' = [thread EXCEPT !["writer"] = NoThread]
      /\ UNCHANGED <<arrived, queue, table, stored, dropped, server>>
      /\ errors' = IF thread["writer"].phase = "failed" THEN errors + Len(batch) ELSE errors
  BY DEF WriterResumes
<1>2. NoThread \in Thread /\ NoThread.phase = "none" /\ Len(<<>>) = 0
  BY EmptySeq DEF Thread, Phases, NoThread
<1>3. /\ thread'["writer"] = NoThread /\ thread'["stop"] = thread["stop"]
      /\ thread' \in [Owners -> Thread]
  BY <1>1, <1>2 DEF Types, Owners
<1>4. /\ thread["writer"].batch = batch /\ Len(batch) \in Nat
      /\ batch \in Seq(Messages) /\ <<>> \in Seq(Messages)
  BY <1>1, EmptySeq DEF WriterHolds, Types
<1>5. Control'
  <2>1. errors' \in Nat
    BY <1>1, <1>4 DEF Types
  <2>2. Types'
    BY <1>1, <1>3, <1>4, <2>1 DEF Types
  <2>3. WriterHolds' /\ StopHolds'
    BY <1>1, <1>2, <1>3, SizesAssumption DEF WriterHolds, StopHolds
  <2>4. RowsHold'
    BY <1>2, <1>3 DEF RowsHold, Owners
  <2>5. QED
    BY <2>2, <2>3, <2>4
<1>6. InHand' = <<>> /\ InThread("stop")' = InThread("stop")
  BY <1>1, <1>2, <1>3 DEF InHand, InThread
<1>7. Places'
  <2>1. Range(InHand') \subseteq Range(InHand) /\ Ascending(InHand', Earlier(arrived))
    BY <1>6, RangeNone, AscendingNone
  <2>2. Ascending(InThread("stop")', Earlier(arrived))
    BY <1>6 DEF Sorted
  <2>3. QED
    BY <1>1, <1>6, <2>1, <2>2, PlacesShrink
<1>8. GoneCounted'
  <2>1. Served = InHand /\ Served' = InHand'
    BY <1>1 DEF Served
  <2>2. Gone' \subseteq Gone \cup Range(InHand)
    BY <1>1, <2>1 DEF Gone
  <2>3. IsFiniteSet(Range(InHand)) /\ Cardinality(Range(InHand)) \in Nat
    BY PlaceTypes, RangeSize
  <2>4. Allowed + Cardinality(Range(InHand)) <= Allowed'
    <3>1. Allowed \in Nat /\ Allowed' \in Nat
      BY <1>5, AllowedTypes
    <3>2. CASE thread["writer"].phase = "failed"
      <4>1. InHand = thread["writer"].rows /\ Len(thread["writer"].rows) <= Len(batch)
        BY <1>4, <3>2 DEF InHand, InThread, RowsHold, Owners
      <4>2. Cardinality(Range(InHand)) <= Len(InHand) /\ Len(InHand) \in Nat
        BY PlaceTypes, RangeSize, LenProperties
      <4>3. Allowed' = Allowed + Len(batch)
        <5>1. dropped \in Nat /\ errors \in Nat
          BY DEF Types
        <5>2. errors' = errors + Len(batch) /\ dropped' = dropped
          BY <1>1, <3>2
        <5>3. Allowed = dropped + errors + 0 /\ Allowed' = dropped' + errors' + 0
          BY <1>1 DEF Allowed
        <5>4. QED
          BY <1>4, <5>1, <5>2, <5>3
      <4>4. QED
        BY <1>4, <2>3, <3>1, <4>1, <4>2, <4>3
    <3>3. CASE thread["writer"].phase = "done"
      <4>1. InHand = <<>>
        BY <3>3 DEF InHand, InThread
      <4>2. Cardinality(Range(InHand)) = 0
        BY <4>1, RangeNone, FS_EmptySet
      <4>3. Allowed' = Allowed
        BY <1>1, <3>3 DEF Allowed
      <4>4. QED
        BY <3>1, <4>2, <4>3
    <3>4. QED
      BY <1>1, <3>2, <3>3
  <2>5. QED
    BY <1>5, <2>2, <2>3, <2>4, AllowedTypes, GoneGrows
<1>9. StoredCounted'
  BY <1>1, <1>2, <1>3 DEF StoredCounted
<1>10. QED
  BY <1>5, <1>7, <1>8, <1>9

LEMMA ParseKeeps == ASSUME Inv, NEW o \in Owners, Parse(o) PROVE Inv'
<1> USE DEF Inv, Control, Places
<1> DEFINE b == thread[o].batch
           rows == RowsOf(b)
           w == [phase |-> "parsed", batch |-> b, rows |-> rows, read |-> thread[o].read]
<1>1. /\ thread[o].phase = "submitted"
      /\ thread' = [thread EXCEPT ![o].phase = "parsed", ![o].rows = rows]
      /\ errors' = errors + (Len(b) - Len(rows))
      /\ UNCHANGED <<arrived, queue, writer, batch, table, stored, dropped, server>>
  BY DEF Parse
<1>2. b \in Seq(Messages) /\ Len(b) \in Nat /\ thread[o].read \in Nat
  BY ThreadTypes, LenProperties
<1> HIDE DEF b
<1>3. Selects(rows, b, Len(b))
  BY <1>2, RowsSelect
<1> HIDE DEF rows
<1>4. /\ rows \in Seq(Messages) /\ Len(rows) \in Nat /\ Len(rows) <= Len(b)
      /\ Range(rows) \subseteq Range(b)
  BY <1>2, <1>3, RangeSelected, LenProperties DEF Selects
<1>5. w \in Thread
  BY <1>2, <1>4 DEF Thread, Phases
<1>6. /\ thread'[o] = w /\ \A p \in Owners : p # o => thread'[p] = thread[p]
      /\ thread' \in [Owners -> Thread]
  <2>1. thread[o] \in Thread
    BY ThreadTypes
  <2>2. /\ thread'[o] = [thread[o] EXCEPT !.phase = "parsed", !.rows = rows]
        /\ \A p \in Owners : p # o => thread'[p] = thread[p]
        /\ thread' = [p \in Owners |-> thread'[p]]
    BY <1>1 DEF Types
  <2>3. thread'[o] = w
    BY <2>1, <2>2, ParsedIs DEF b
  <2>4. \A p \in Owners : thread'[p] \in Thread
    BY <1>5, <2>2, <2>3, ThreadTypes
  <2>5. thread' \in [Owners -> Thread]
    BY <2>2, <2>4
  <2>6. QED
    BY <2>2, <2>3, <2>5
<1>7. w.phase = "parsed" /\ w.batch = b /\ w.rows = rows
  OBVIOUS
<1> HIDE DEF w
<1>8. /\ o = "writer" => writer = "storing" /\ b = batch
      /\ o = "stop" => writer = "cancelled" /\ server \in {"flushing", "raised"}
  <2>1. NoThread.phase = "none"
    BY DEF NoThread
  <2>2. o = "writer" => writer = "storing" /\ b = batch
    BY <1>1, <2>1 DEF WriterHolds, Types, b
  <2>3. o = "stop" => server \in {"flushing", "raised"}
    BY <1>1, <2>1 DEF StopHolds, Types
  <2>4. QED
    BY <2>2, <2>3 DEF WriterHolds, Types
<1>9. Control'
  <2>1. errors' \in Nat
    BY <1>1, <1>2, <1>4 DEF Types
  <2>2. Types'
    BY <1>1, <1>6, <2>1 DEF Types
  <2>3. WriterHolds' /\ StopHolds'
    <3>1. CASE o = "writer"
      <4>1. thread'["stop"] = thread["stop"]
        BY <1>6, <3>1 DEF Owners
      <4>2. WriterHolds'
        BY <1>1, <1>6, <1>7, <1>8, <3>1 DEF WriterHolds
      <4>3. QED
        BY <1>1, <4>1, <4>2 DEF StopHolds
    <3>2. CASE o = "stop"
      <4>1. thread'["writer"] = thread["writer"]
        BY <1>6, <3>2 DEF Owners
      <4>2. StopHolds'
        BY <1>1, <1>8, <3>2 DEF StopHolds
      <4>3. QED
        BY <1>1, <4>1, <4>2 DEF WriterHolds
    <3>3. QED
      BY <3>1, <3>2 DEF Owners
  <2>4. RowsHold'
    BY <1>4, <1>6, <1>7 DEF RowsHold
  <2>5. QED
    BY <2>2, <2>3, <2>4
<1>10. /\ Served = b /\ Served' = rows
       /\ o = "writer" => InHand = b /\ InHand' = rows /\ InThread("stop")' = InThread("stop")
       /\ o = "stop" => InHand' = InHand /\ InThread("stop") = b /\ InThread("stop")' = rows
  <2>1. CASE o = "writer"
    <3>1. thread'["stop"] = thread["stop"]
      BY <1>6, <2>1 DEF Owners
    <3>2. InHand = b
      BY <1>1, <2>1 DEF InHand, InThread, b
    <3>3. InHand' = rows
      BY <1>6, <1>7, <2>1 DEF InHand, InThread
    <3>4. QED
      BY <1>1, <1>8, <2>1, <3>1, <3>2, <3>3 DEF InThread, Served
  <2>2. CASE o = "stop"
    <3>1. thread'["writer"] = thread["writer"]
      BY <1>6, <2>2 DEF Owners
    <3>2. InThread("stop") = b
      BY <1>1, <2>2 DEF InThread, b
    <3>3. InThread("stop")' = rows
      BY <1>6, <1>7, <2>2 DEF InThread
    <3>4. QED
      BY <1>1, <1>8, <2>2, <3>1, <3>2, <3>3 DEF InHand, InThread, Served
  <2>3. QED
    BY <2>1, <2>2 DEF Owners
<1>11. Places'
  <2>1. CASE o = "writer"
    <3>1. Ascending(rows, Earlier(arrived)) /\ Ascending(InThread("stop"), Earlier(arrived))
      BY <1>2, <1>3, <1>10, <2>1, AscendingSelected DEF Sorted
    <3>2. QED
      BY <1>1, <1>4, <1>10, <2>1, <3>1, PlacesShrink
  <2>2. CASE o = "stop"
    <3>1. Ascending(rows, Earlier(arrived)) /\ Ascending(InHand, Earlier(arrived))
      BY <1>2, <1>3, <1>10, <2>2, AscendingSelected DEF Sorted
    <3>2. QED
      BY <1>1, <1>4, <1>10, <2>2, <3>1, PlacesShrink
  <2>3. QED
    BY <2>1, <2>2 DEF Owners
<1>12. GoneCounted'
  <2> DEFINE X == {b[p] : p \in 1..Len(b)} \ Range(rows)
  <2>1. Range(b) = {b[p] : p \in 1..Len(b)}
    BY <1>2, RangeEquality
  <2>2. Gone' \subseteq Gone \cup X
    BY <1>1, <1>10, <2>1 DEF Gone
  <2>3. IsFiniteSet(X) /\ Cardinality(X) <= Len(b) - Len(rows)
    BY <1>3 DEF Selects
  <2> HIDE DEF X
  <2>4. Allowed + Cardinality(X) <= Allowed'
    <3>1. Allowed' = Allowed + (Len(b) - Len(rows))
      <4>1. PICK more \in Nat : Allowed = dropped + errors + more /\ Allowed' = dropped' + errors' + more
        BY <1>1, SizesAssumption DEF Allowed
      <4>2. dropped \in Nat /\ errors \in Nat
        BY DEF Types
      <4>3. QED
        BY <1>1, <1>2, <1>4, <4>1, <4>2
    <3>2. Allowed \in Nat /\ Cardinality(X) \in Nat
      BY <1>9, <2>3, AllowedTypes, FS_CardinalityType
    <3>3. QED
      BY <1>2, <1>4, <2>3, <3>1, <3>2
  <2>5. QED
    BY <1>9, <2>2, <2>3, <2>4, AllowedTypes, GoneGrows
<1>13. StoredCounted'
  <2>1. CASE o = "writer"
    BY <1>1, <1>6, <1>7, <2>1 DEF StoredCounted
  <2>2. CASE o = "stop"
    BY <1>1, <1>8, <2>2 DEF StoredCounted
  <2>3. QED
    BY <2>1, <2>2 DEF Owners
<1>14. QED
  BY <1>9, <1>11, <1>12, <1>13

LEMMA InsertKeeps == ASSUME Inv, NEW o \in Owners, Insert(o) PROVE Inv'
<1> USE DEF Inv, Control, Places
<1> DEFINE rows == thread[o].rows
           w == [phase |-> "inserted", batch |-> thread[o].batch, rows |-> rows, read |-> stored]
<1>1. /\ thread[o].phase = "parsed" /\ table' = table \o rows
      /\ thread' = [thread EXCEPT ![o].phase = "inserted", ![o].read = stored]
      /\ UNCHANGED <<arrived, queue, writer, batch, stored, dropped, errors, server>>
  BY DEF Insert, stats
<1>2. /\ rows \in Seq(Messages) /\ Len(rows) \in Nat /\ thread[o].batch \in Seq(Messages)
      /\ thread[o] \in Thread /\ stored \in Nat /\ table \in Seq(Messages)
  BY ThreadTypes, LenProperties DEF Types
<1>3. w \in Thread
  BY <1>2 DEF Thread, Phases
<1>4. thread' = [p \in Owners |-> IF p = o THEN w ELSE thread[p]]
  <2>1. /\ thread'[o] = [thread[o] EXCEPT !.phase = "inserted", !.read = stored]
        /\ \A p \in Owners : p # o => thread'[p] = thread[p]
        /\ thread' = [p \in Owners |-> thread'[p]]
    BY <1>1 DEF Types
  <2>2. thread'[o] = w
    BY <1>2, <2>1, InsertedIs
  <2> HIDE DEF w
  <2>3. QED
    BY <2>1, <2>2
<1>5. w.phase = "inserted" /\ w.batch = thread[o].batch /\ w.rows = rows /\ w.read = stored
  OBVIOUS
<1> HIDE DEF w, rows
<1>6. /\ thread'[o] = w /\ \A p \in Owners : p # o => thread'[p] = thread[p]
      /\ thread' \in [Owners -> Thread]
  BY <1>3, <1>4, ThreadStep
<1>7. \/ o = "writer" /\ thread'["stop"] = thread["stop"] /\ writer \in {"storing", "cancelled"}
      \/ /\ o = "stop" /\ thread'["writer"] = thread["writer"]
         /\ writer = "cancelled" /\ server \in {"flushing", "raised"}
  <2>1. thread[o].phase \in Phases \ {"none"}
    BY <1>1 DEF Phases
  <2>2. o = "stop" => server # "stopped"
    BY <1>1 DEF StopHolds
  <2>3. QED
    BY <1>6, <2>1, <2>2, WhoStores DEF Owners
<1>8. /\ table' \in Seq(Messages) /\ Len(table') = Len(table) + Len(rows)
      /\ Range(table') = Range(table) \cup Range(rows)
  BY <1>1, <1>2, ConcatProperties, RangeConcatenation
<1>9. Control'
  <2>1. Types'
    BY <1>1, <1>6, <1>8 DEF Types
  <2>2. WriterHolds' /\ StopHolds'
    <3>1. CASE o = "writer"
      <4>1. WriterHolds'
        BY <1>1, <1>5, <1>6, <1>7, <3>1 DEF WriterHolds
      <4>2. QED
        BY <1>1, <1>7, <3>1, <4>1 DEF StopHolds
    <3>2. CASE o = "stop"
      <4>1. StopHolds'
        BY <1>1, <1>7, <3>2 DEF StopHolds
      <4>2. QED
        BY <1>1, <1>7, <3>2, <4>1 DEF WriterHolds
    <3>3. QED
      BY <3>1, <3>2 DEF Owners
  <2>3. RowsHold'
    BY <1>5, <1>6 DEF RowsHold
  <2>4. QED
    BY <2>1, <2>2, <2>3
<1>10. \/ /\ o = "writer" /\ InHand = rows /\ InHand' = <<>>
          /\ InThread("stop")' = InThread("stop")
       \/ /\ o = "stop" /\ writer = "cancelled" /\ InHand' = InHand
          /\ InThread("stop") = rows /\ InThread("stop")' = <<>>
  <2>1. CASE o = "writer"
    <3>1. InHand = rows
      BY <1>1, <2>1 DEF InHand, InThread, rows
    <3>2. InHand' = <<>>
      BY <1>5, <1>6, <2>1 DEF InHand, InThread
    <3>3. QED
      BY <1>7, <2>1, <3>1, <3>2 DEF InThread
  <2>2. CASE o = "stop"
    <3>1. InThread("stop") = rows
      BY <1>1, <2>2 DEF InThread, rows
    <3>2. InThread("stop")' = <<>>
      BY <1>5, <1>6, <2>2 DEF InThread
    <3>3. QED
      BY <1>1, <1>7, <2>2, <3>1, <3>2 DEF InHand, InThread
  <2>3. QED
    BY <2>1, <2>2 DEF Owners
<1>11. Ascending(rows, Earlier(arrived))
  BY <1>10 DEF Sorted
<1>12. Apart'
  <2>1. Earlier(arrived) \subseteq Different
    BY EarlierDiffers DEF Apart, Types
  <2>2. Ascending(rows, Different)
    BY <1>11, <2>1, AscendingMore
  <2>3. Range(table) \X Range(rows) \subseteq Different
    <3>1. Range(table) \cap Range(rows) = {}
      BY <1>10 DEF Apart
    <3>2. Range(table) \subseteq Messages /\ Range(rows) \subseteq Messages
      BY <1>2, RangeMessages
    <3>3. QED
      BY <3>1, <3>2 DEF Different
  <2>4. Ascending(table', Different)
    BY <1>1, <1>2, <2>2, <2>3, AscendingConcat DEF Apart
  <2>5. QED
    BY <1>1, <1>8, <1>10, <2>4, RangeNone DEF Apart
<1>13. AllArrived'
  BY <1>1, <1>8, <1>10, RangeNone DEF AllArrived
<1>14. Sorted'
  BY <1>1, <1>10, AscendingNone DEF Sorted
<1>15. Staged'
  <2>1. SUFFICES ASSUME writer # "cancelled" PROVE Staged'
    BY <1>1 DEF Staged
  <2>2. InHand = rows /\ InHand' = <<>>
    BY <1>10, <2>1
  <2>3. Ascending(table', Earlier(arrived))
    BY <1>1, <1>2, <1>11, <2>1, <2>2, AscendingConcat DEF Staged
  <2>4. QED
    BY <1>1, <1>8, <2>1, <2>2, <2>3, RangeNone DEF Staged
<1>16. GoneCounted'
  <2>1. Gone' \subseteq Gone
    BY <1>1, <1>8, <1>10, RangeNone DEF Gone, Served
  <2>2. Allowed' = Allowed
    BY <1>1 DEF Allowed
  <2>3. QED
    BY <1>9, <2>1, <2>2, AllowedTypes, GoneShrinks
<1>17. StoredCounted'
  <2>1. SUFFICES ASSUME writer # "cancelled" PROVE StoredCounted'
    BY <1>1 DEF StoredCounted
  <2>2. o = "writer" /\ stored = Len(table)
    BY <1>1, <1>7, <2>1 DEF StoredCounted
  <2>3. thread'["writer"].read + Len(thread'["writer"].rows) = Len(table')
    BY <1>5, <1>6, <1>8, <2>2
  <2>4. QED
    BY <1>5, <1>6, <2>2, <2>3 DEF StoredCounted
<1>18. QED
  BY <1>9, <1>12, <1>13, <1>14, <1>15, <1>16, <1>17

\* The two steps of a thread that move no message.
LEMMA InsertRaisesKeeps == ASSUME Inv, NEW o \in Owners, InsertRaises(o) PROVE Inv'
<1> USE DEF Inv, Control, Places
<1> DEFINE w == [phase |-> "failed", batch |-> thread[o].batch, rows |-> thread[o].rows,
                 read |-> thread[o].read]
<1>1. /\ thread[o].phase = "parsed" /\ thread' = [thread EXCEPT ![o].phase = "failed"]
      /\ UNCHANGED <<arrived, queue, writer, batch, table, stored, dropped, errors, server>>
  BY DEF InsertRaises, stats
<1>2. /\ thread[o].rows \in Seq(Messages) /\ thread[o].batch \in Seq(Messages)
      /\ thread[o] \in Thread /\ thread[o].read \in Nat
  BY ThreadTypes
<1>3. w \in Thread
  BY <1>2 DEF Thread, Phases
<1>4. thread' = [p \in Owners |-> IF p = o THEN w ELSE thread[p]]
  <2>1. [thread[o] EXCEPT !.phase = "failed"] = w
    BY <1>2 DEF Thread
  <2> HIDE DEF w
  <2>2. thread' = [thread EXCEPT ![o] = [thread[o] EXCEPT !.phase = "failed"]]
    BY <1>1 DEF Types
  <2>3. QED
    BY <2>1, <2>2 DEF Types
<1>5. w.phase = "failed" /\ w.batch = thread[o].batch /\ w.rows = thread[o].rows
  OBVIOUS
<1> HIDE DEF w
<1>6. /\ thread'[o] = w /\ \A p \in Owners : p # o => thread'[p] = thread[p]
      /\ thread' \in [Owners -> Thread]
  BY <1>3, <1>4, ThreadStep
<1>7. \/ o = "writer" /\ thread'["stop"] = thread["stop"] /\ writer \in {"storing", "cancelled"}
      \/ /\ o = "stop" /\ thread'["writer"] = thread["writer"]
         /\ writer = "cancelled" /\ server \in {"flushing", "raised"}
  <2>1. thread[o].phase \in Phases \ {"none"}
    BY <1>1 DEF Phases
  <2>2. o = "stop" => server # "stopped"
    BY <1>1 DEF StopHolds
  <2>3. QED
    BY <1>6, <2>1, <2>2, WhoStores DEF Owners
<1>8. Control'
  <2>1. Types'
    BY <1>1, <1>6 DEF Types
  <2>2. WriterHolds'
    BY <1>1, <1>5, <1>6, <1>7 DEF WriterHolds
  <2>3. StopHolds'
    BY <1>1, <1>7 DEF StopHolds
  <2>4. RowsHold'
    BY <1>1, <1>5, <1>6 DEF RowsHold
  <2>5. QED
    BY <2>1, <2>2, <2>3, <2>4
<1>9. InHand' = InHand /\ InThread("stop")' = InThread("stop")
  <2>1. CASE o = "writer"
    BY <1>1, <1>5, <1>6, <1>7, <2>1 DEF InHand, InThread
  <2>2. CASE o = "stop"
    BY <1>1, <1>5, <1>6, <1>7, <2>2 DEF InHand, InThread
  <2>3. QED
    BY <2>1, <2>2 DEF Owners
<1>10. Places' /\ GoneCounted'
  BY <1>1, <1>8, <1>9, PlacesStay
<1>11. StoredCounted'
  BY <1>1, <1>5, <1>6, <1>7 DEF StoredCounted
<1>12. QED
  BY <1>8, <1>10, <1>11

LEMMA CountKeeps == ASSUME Inv, NEW o \in Owners, Count(o) PROVE Inv'
<1> USE DEF Inv, Control, Places
<1> DEFINE w == [phase |-> "done", batch |-> thread[o].batch, rows |-> thread[o].rows,
                 read |-> thread[o].read]
<1>1. /\ thread[o].phase = "inserted" /\ thread' = [thread EXCEPT ![o].phase = "done"]
      /\ stored' = thread[o].read + Len(thread[o].rows)
      /\ UNCHANGED <<arrived, queue, writer, batch, table, dropped, errors, server>>
  BY DEF Count, NewlyStored
<1>2. /\ thread[o].rows \in Seq(Messages) /\ thread[o].batch \in Seq(Messages)
      /\ thread[o] \in Thread /\ thread[o].read \in Nat /\ Len(thread[o].rows) \in Nat
  BY ThreadTypes, LenProperties
<1>3. w \in Thread
  BY <1>2 DEF Thread, Phases
<1>4. thread' = [p \in Owners |-> IF p = o THEN w ELSE thread[p]]
  <2>1. [thread[o] EXCEPT !.phase = "done"] = w
    BY <1>2 DEF Thread
  <2> HIDE DEF w
  <2>2. thread' = [thread EXCEPT ![o] = [thread[o] EXCEPT !.phase = "done"]]
    BY <1>1 DEF Types
  <2>3. QED
    BY <2>1, <2>2 DEF Types
<1>5. w.phase = "done" /\ w.batch = thread[o].batch
  OBVIOUS
<1> HIDE DEF w
<1>6. /\ thread'[o] = w /\ \A p \in Owners : p # o => thread'[p] = thread[p]
      /\ thread' \in [Owners -> Thread]
  BY <1>3, <1>4, ThreadStep
<1>7. \/ o = "writer" /\ thread'["stop"] = thread["stop"] /\ writer \in {"storing", "cancelled"}
      \/ /\ o = "stop" /\ thread'["writer"] = thread["writer"]
         /\ writer = "cancelled" /\ server \in {"flushing", "raised"}
  <2>1. thread[o].phase \in Phases \ {"none"}
    BY <1>1 DEF Phases
  <2>2. o = "stop" => server # "stopped"
    BY <1>1 DEF StopHolds
  <2>3. QED
    BY <1>6, <2>1, <2>2, WhoStores DEF Owners
<1>8. Control'
  <2>1. stored' \in Nat
    BY <1>1, <1>2
  <2>2. Types'
    BY <1>1, <1>6, <2>1 DEF Types
  <2>3. WriterHolds'
    BY <1>1, <1>5, <1>6, <1>7 DEF WriterHolds
  <2>4. StopHolds'
    BY <1>1, <1>7 DEF StopHolds
  <2>5. RowsHold'
    BY <1>5, <1>6 DEF RowsHold
  <2>6. QED
    BY <2>2, <2>3, <2>4, <2>5
<1>9. InHand' = InHand /\ InThread("stop")' = InThread("stop")
  <2>1. CASE o = "writer"
    BY <1>1, <1>5, <1>6, <1>7, <2>1 DEF InHand, InThread
  <2>2. CASE o = "stop"
    BY <1>1, <1>5, <1>6, <1>7, <2>2 DEF InHand, InThread
  <2>3. QED
    BY <2>1, <2>2 DEF Owners
<1>10. Places' /\ GoneCounted'
  BY <1>1, <1>8, <1>9, PlacesStay
<1>11. StoredCounted'
  BY <1>1, <1>5, <1>6, <1>7 DEF StoredCounted
<1>12. QED
  BY <1>8, <1>10, <1>11

LEMMA StopBeginsKeeps == ASSUME Inv, StopBegins PROVE Inv'
<1> USE DEF Inv, Control, Places
<1>1. /\ server = "running" /\ server' = "closing"
      /\ UNCHANGED <<arrived, queue, writer, batch, thread, table, stored, dropped, errors>>
  BY DEF StopBegins, stats
<1>2. Types' /\ WriterHolds' /\ StopHolds' /\ RowsHold'
  BY <1>1 DEF Types, WriterHolds, StopHolds, RowsHold
<1>3. InHand' = InHand /\ InThread("stop")' = InThread("stop")
  BY <1>1 DEF InHand, InThread
<1>4. Places' /\ GoneCounted'
  BY <1>1, <1>2, <1>3, PlacesStay
<1>5. StoredCounted'
  BY <1>1 DEF StoredCounted
<1>6. QED
  BY <1>2, <1>4, <1>5

\* The batch of the writer, or what is left of it, is what stop() may lose.
LEMMA InHandSize ==
    ASSUME Control, writer # "cancelled"
    PROVE  Len(InHand) \in Nat /\ Len(InHand) <= BatchSize
<1>1. Len(batch) \in Nat /\ Len(batch) <= BatchSize /\ BatchSize \in Nat
  BY SizesAssumption, LenProperties DEF Control, Types, WriterHolds
<1>2. Len(InHand) \in Nat
  BY PlaceTypes, LenProperties DEF Control
<1>3. CASE thread["writer"].phase = "none"
  BY <1>1, <1>3 DEF InHand
<1>4. CASE thread["writer"].phase # "none"
  <2>1. writer = "storing" /\ thread["writer"].batch = batch
    BY <1>4 DEF Control, Types, WriterHolds, NoThread
  <2>2. CASE thread["writer"].phase = "submitted"
    BY <1>1, <2>1, <2>2 DEF InHand, InThread
  <2>3. CASE thread["writer"].phase \in {"parsed", "failed"}
    <3>1. InHand = thread["writer"].rows
      BY <2>3 DEF InHand, InThread
    <3>2. Len(thread["writer"].rows) <= Len(batch)
      BY <2>1, <2>3 DEF Control, RowsHold, Owners
    <3>3. QED
      BY <1>1, <1>2, <3>1, <3>2
  <2>4. CASE thread["writer"].phase \notin {"submitted", "parsed", "failed"}
    <3>1. InHand = <<>>
      BY <1>4, <2>4 DEF InHand, InThread
    <3>2. QED
      BY <1>1, <3>1, EmptySeq
  <2>5. QED
    BY <2>2, <2>3, <2>4
<1>5. QED
  BY <1>2, <1>3, <1>4

LEMMA StopCancelsKeeps == ASSUME Inv, StopCancels PROVE Inv'
<1> USE DEF Inv, Control, Places
<1>1. /\ server = "closing" /\ server' = "cancelling" /\ writer' = "cancelled" /\ batch' = <<>>
      /\ thread' = IF thread["writer"].phase = "submitted"
                      THEN [thread EXCEPT !["writer"] = NoThread] ELSE thread
      /\ UNCHANGED <<arrived, queue, table, stored, dropped, errors>>
  BY DEF StopCancels, stats
<1>2. /\ NoThread \in Thread /\ NoThread.phase = "none"
      /\ <<>> \in Seq(Messages) /\ Len(<<>>) = 0
  BY EmptySeq DEF NoThread, Thread, Phases
<1>3. writer # "cancelled" /\ thread["stop"] = NoThread
  BY <1>1 DEF WriterHolds, StopHolds
<1>4. /\ thread' \in [Owners -> Thread] /\ thread'["stop"] = thread["stop"]
      /\ thread'["writer"] = IF thread["writer"].phase = "submitted" THEN NoThread
                             ELSE thread["writer"]
  BY <1>1, <1>2 DEF Types, Owners
<1>5. Control'
  <2>1. Types'
    BY <1>1, <1>2, <1>4 DEF Types
  <2>2. WriterHolds'
    BY <1>1, <1>2, <1>4, SizesAssumption DEF WriterHolds
  <2>3. StopHolds'
    BY <1>1, <1>3, <1>4 DEF StopHolds
  <2>4. RowsHold'
    BY <1>2, <1>3, <1>4 DEF RowsHold, Owners
  <2>5. QED
    BY <2>1, <2>2, <2>3, <2>4
<1>6. InThread("stop") = <<>> /\ InThread("stop")' = <<>>
  BY <1>2, <1>3, <1>4 DEF InThread
<1>7. InHand' \in {InHand, <<>>}
  <2>1. CASE thread["writer"].phase \in {"none", "submitted"}
    BY <1>1, <1>2, <1>4, <2>1 DEF InHand
  <2>2. CASE thread["writer"].phase \notin {"none", "submitted"}
    BY <1>1, <1>4, <2>2 DEF InHand, InThread
  <2>3. QED
    BY <2>1, <2>2
<1>8. Places'
  <2>1. Range(InHand') \subseteq Range(InHand) /\ Ascending(InHand', Earlier(arrived))
    BY <1>7, RangeNone, AscendingNone DEF Sorted
  <2>2. /\ Range(InThread("stop")') \subseteq Range(InThread("stop"))
        /\ Ascending(InThread("stop")', Earlier(arrived))
    BY <1>6, AscendingNone
  <2>3. QED
    BY <1>1, <2>1, <2>2, PlacesShrink
<1>9. GoneCounted'
  <2>1. Served = InHand /\ Served' = <<>>
    BY <1>1, <1>3, <1>6 DEF Served
  <2>2. Gone' \subseteq Gone \cup Range(InHand)
    BY <1>1, <2>1 DEF Gone
  <2>3. /\ IsFiniteSet(Range(InHand)) /\ Cardinality(Range(InHand)) \in Nat
        /\ Cardinality(Range(InHand)) <= Len(InHand)
    BY PlaceTypes, RangeSize
  <2>4. Len(InHand) \in Nat /\ Len(InHand) <= BatchSize
    BY <1>3, InHandSize
  <2>5. Allowed \in Nat /\ Allowed' \in Nat
    BY <1>5, AllowedTypes
  <2>6. Allowed' = Allowed + BatchSize
    <3>1. dropped \in Nat /\ errors \in Nat /\ BatchSize \in Nat
      BY SizesAssumption DEF Types
    <3>2. Allowed = dropped + errors + 0 /\ Allowed' = dropped' + errors' + BatchSize
      BY <1>1, <1>3 DEF Allowed
    <3>3. dropped' = dropped /\ errors' = errors
      BY <1>1
    <3>4. QED
      BY <3>1, <3>2, <3>3
  <2>7. Allowed + Cardinality(Range(InHand)) <= Allowed'
    BY <2>3, <2>4, <2>5, <2>6, SizesAssumption
  <2>8. QED
    BY <2>2, <2>3, <2>5, <2>7, GoneGrows
<1>10. StoredCounted'
  BY <1>1 DEF StoredCounted
<1>11. QED
  BY <1>5, <1>8, <1>9, <1>10

LEMMA FlushKeeps == ASSUME Inv, Flush PROVE Inv'
<1> USE DEF Inv, Control, Places
<1> DEFINE w == [phase |-> "submitted", batch |-> queue, rows |-> <<>>, read |-> 0]
<1>1. /\ server = "cancelling" /\ writer = "cancelled" /\ queue' = <<>>
      /\ \/ queue = <<>> /\ server' = "stopped" /\ thread' = thread
         \/ server' = "flushing" /\ thread' = [thread EXCEPT !["stop"] = w]
      /\ UNCHANGED <<arrived, writer, batch, table, stored, dropped, errors>>
  <2>1. Submitted(queue) = w
    BY SubmittedIs
  <2>2. QED
    BY <2>1 DEF Flush, stats
<1>2. w \in Thread /\ <<>> \in Seq(Messages) /\ NoThread.phase = "none"
  BY EmptySeq DEF Thread, Phases, Types, NoThread
<1>3. w.phase = "submitted" /\ w.batch = queue
  OBVIOUS
<1>4. thread["stop"] = NoThread
  BY <1>1 DEF StopHolds
<1> HIDE DEF w
<1>5. /\ thread' \in [Owners -> Thread] /\ thread'["writer"] = thread["writer"]
      /\ \/ queue = <<>> /\ server' = "stopped" /\ thread'["stop"] = NoThread
         \/ server' = "flushing" /\ thread'["stop"] = w
  BY <1>1, <1>2, <1>4 DEF Types, Owners
<1>6. Control'
  <2>1. Types'
    BY <1>1, <1>2, <1>5 DEF Types
  <2>2. WriterHolds'
    BY <1>1, <1>5 DEF WriterHolds
  <2>3. StopHolds'
    BY <1>2, <1>5 DEF StopHolds
  <2>4. RowsHold'
    BY <1>2, <1>3, <1>5 DEF RowsHold, Owners
  <2>5. QED
    BY <2>1, <2>2, <2>3, <2>4
<1>7. /\ InHand' = InHand /\ InThread("stop") = <<>> /\ InThread("stop")' = queue
      /\ Served = <<>> /\ Served' = queue
  <2>1. InHand' = InHand
    BY <1>1, <1>5 DEF InHand, InThread
  <2>2. InThread("stop") = <<>> /\ InThread("stop")' = queue
    BY <1>2, <1>3, <1>4, <1>5 DEF InThread
  <2>3. QED
    BY <1>1, <2>1, <2>2 DEF Served
<1>8. Apart' /\ AllArrived'
  BY <1>1, <1>7, RangeNone DEF Apart, AllArrived
<1>9. Sorted' /\ Staged'
  BY <1>1, <1>7, AscendingNone DEF Sorted, Staged
<1>10. GoneCounted'
  <2>1. Gone' \subseteq Gone
    BY <1>1, <1>7, RangeNone DEF Gone
  <2>2. Allowed' = Allowed
    BY <1>1 DEF Allowed
  <2>3. QED
    BY <1>6, <2>1, <2>2, AllowedTypes, GoneShrinks
<1>11. StoredCounted'
  BY <1>1 DEF StoredCounted
<1>12. QED
  BY <1>6, <1>8, <1>9, <1>10, <1>11

LEMMA StopEndsKeeps == ASSUME Inv, StopEnds PROVE Inv'
<1> USE DEF Inv, Control, Places
<1>1. /\ server = "flushing"
      /\ \/ server' = "raised"
         \/ server' = "stopped" /\ thread["stop"].phase = "done"
      /\ UNCHANGED <<arrived, queue, writer, batch, thread, table, stored, dropped, errors>>
  BY DEF StopEnds, stats
<1>2. Types' /\ WriterHolds' /\ StopHolds' /\ RowsHold'
  BY <1>1 DEF Types, WriterHolds, StopHolds, RowsHold
<1>3. InHand' = InHand /\ InThread("stop")' = InThread("stop")
  BY <1>1 DEF InHand, InThread
<1>4. Places' /\ GoneCounted'
  BY <1>1, <1>2, <1>3, PlacesStay
<1>5. StoredCounted'
  BY <1>1 DEF StoredCounted
<1>6. QED
  BY <1>2, <1>4, <1>5

LEMMA NextKeeps == ASSUME Inv, Next PROVE Inv'
<1>1. ASSUME NEW m \in Messages, Arrive(m) PROVE Inv'
  BY <1>1, ArriveKeeps
<1>2. CASE WriterStep
  BY <1>2, WriterTakesKeeps, WriterSubmitsKeeps, WriterResumesKeeps DEF WriterStep
<1>3. ASSUME NEW o \in Owners, StoreStep(o) PROVE Inv'
  BY <1>3, ParseKeeps, InsertKeeps, InsertRaisesKeeps, CountKeeps DEF StoreStep
<1>4. CASE StopBegins
  BY <1>4, StopBeginsKeeps
<1>5. CASE StopStep
  BY <1>5, StopCancelsKeeps, CancelIsSwallowedKeeps, FlushKeeps, StopEndsKeeps DEF StopStep
<1>6. QED
  BY <1>1, <1>2, <1>3, <1>4, <1>5 DEF Next

LEMMA StutterKeeps == ASSUME Inv, UNCHANGED vars PROVE Inv'
<1> USE DEF Inv, Control, Places
<1>1. UNCHANGED <<arrived, queue, writer, batch, thread, table, stored, dropped, errors, server>>
  BY DEF vars, stats
<1>2. Types' /\ WriterHolds' /\ StopHolds' /\ RowsHold'
  BY <1>1 DEF Types, WriterHolds, StopHolds, RowsHold
<1>3. InHand' = InHand /\ InThread("stop")' = InThread("stop")
  BY <1>1 DEF InHand, InThread
<1>4. Places' /\ GoneCounted'
  BY <1>1, <1>2, <1>3, PlacesStay
<1>5. QED
  BY <1>1, <1>2, <1>4 DEF StoredCounted

\* The inductive invariant: who holds what, where each message is, and what is counted.
THEOREM Invariance == Spec => []Inv
<1>1. Inv /\ [Next]_vars => Inv'
  BY NextKeeps, StutterKeeps
<1>2. QED
  BY <1>1, InitInv, PTL DEF Spec

-----------------------------------------------------------------------------
(* What it gives.                                                          *)

\* Whatever is cancelled, whatever fails and however many messages come: SyslogServer stores no
\* message twice.  In the order they arrived it stores them only until stop() has cancelled the
\* writer: what stop() flushes may overtake the batch of a thread that was not cancelled.
THEOREM StoredOnceInOrderAlways == Spec => []StoredOnceInOrder
<1>1. Inv => StoredOnceInOrder
  <2> SUFFICES ASSUME Inv, NEW i \in DOMAIN table, NEW k \in DOMAIN table, i < k
               PROVE  /\ table[i] # table[k]
                      /\ writer # "cancelled" =>
                            \E p, q \in DOMAIN arrived :
                                p < q /\ arrived[p] = table[i] /\ arrived[q] = table[k]
    BY DEF StoredOnceInOrder
  <2>1. /\ DOMAIN table = 1..Len(table) /\ DOMAIN arrived = 1..Len(arrived)
        /\ arrived \in Seq(Messages)
    BY LenProperties DEF Inv, Control, Types
  <2>2. <<table[i], table[k]>> \in Different
    BY <2>1 DEF Inv, Places, Apart, Ascending
  <2>3. ASSUME writer # "cancelled" PROVE <<table[i], table[k]>> \in Earlier(arrived)
    BY <2>1, <2>3 DEF Inv, Places, Staged, Ascending
  <2>4. QED
    BY <2>1, <2>2, <2>3, EarlierHolds DEF Different
<1>2. QED
  BY <1>1, Invariance, PTL

\* Nothing that is missing is still served, by the writer or by stop().
LEMMA MissingIsGone ==
    ASSUME Inv, server \in {"running", "stopped"}
    PROVE  Missing \subseteq Gone
<1>1. CASE server = "running"
  <2>1. writer # "cancelled" /\ Served = InHand
    BY <1>1 DEF Inv, Control, WriterHolds, Served
  <2>2. Range(InHand) \subseteq Range(batch)
    <3>1. CASE thread["writer"].phase = "none"
      BY <3>1 DEF InHand
    <3>2. CASE thread["writer"].phase # "none"
      <4>1. thread["writer"].batch = batch
        BY <2>1, <3>2 DEF Inv, Control, Types, WriterHolds, NoThread
      <4>2. CASE thread["writer"].phase = "submitted"
        BY <4>1, <4>2 DEF InHand, InThread
      <4>3. CASE thread["writer"].phase \in {"parsed", "failed"}
        BY <4>1, <4>3 DEF InHand, InThread, Inv, Control, RowsHold, Owners
      <4>4. CASE thread["writer"].phase \notin {"submitted", "parsed", "failed"}
        BY <3>2, <4>4, RangeNone DEF InHand, InThread
      <4>5. QED
        BY <4>2, <4>3, <4>4
    <3>3. QED
      BY <3>1, <3>2
  <2>3. QED
    BY <2>1, <2>2 DEF Missing, Pending, Gone
<1>2. CASE server = "stopped"
  <2>1. writer = "cancelled" /\ thread["stop"].phase \in {"none", "done"}
    BY <1>2 DEF Inv, Control, Types, WriterHolds, StopHolds
  <2>2. Range(Served) = {}
    BY <2>1, RangeNone DEF Served, InThread
  <2>3. QED
    BY <2>2 DEF Missing, Pending, Gone
<1>3. QED
  BY <1>1, <1>2

\* As long as the server runs, SyslogServer's counters cover every message that got lost, on
\* whatever way, and stats.stored is the number of rows, but between a thread's insert and count.
THEOREM LossesAreCountedAlways == Spec => []LossesAreCounted
<1>1. Inv => LossesAreCounted
  <2> SUFFICES ASSUME Inv, server = "running"
               PROVE  /\ Cardinality(Missing) <= dropped + errors
                      /\ thread["writer"].phase # "inserted" => stored = Len(table)
    BY DEF LossesAreCounted
  <2>1. writer # "cancelled"
    BY DEF Inv, Control, WriterHolds
  <2>2. IsFiniteSet(Gone) /\ Cardinality(Gone) <= dropped + errors
    <3>1. Allowed = dropped + errors + 0 /\ dropped \in Nat /\ errors \in Nat
      BY <2>1 DEF Allowed, Inv, Control, Types
    <3>2. QED
      BY <3>1 DEF Inv, GoneCounted
  <2>3. /\ Cardinality(Missing) \in Nat /\ Cardinality(Gone) \in Nat
        /\ Cardinality(Missing) <= Cardinality(Gone)
    BY <2>2, MissingIsGone, Smaller
  <2>4. dropped \in Nat /\ errors \in Nat
    BY DEF Inv, Control, Types
  <2>5. QED
    BY <2>1, <2>2, <2>3, <2>4 DEF Inv, StoredCounted
<1>2. QED
  BY <1>1, Invariance, PTL

\* When SyslogServer.stop returns, what is lost uncounted is at most one batch, however long the
\* queue was that it found.
THEOREM StopLosesOneBatchAtMostAlways == Spec => []StopLosesOneBatchAtMost
<1>1. Inv => StopLosesOneBatchAtMost
  <2> SUFFICES ASSUME Inv, server = "stopped"
               PROVE  Cardinality(Missing) <= dropped + errors + BatchSize
    BY DEF StopLosesOneBatchAtMost
  <2>1. writer = "cancelled"
    BY DEF Inv, Control, Types, WriterHolds
  <2>2. IsFiniteSet(Gone) /\ Cardinality(Gone) <= dropped + errors + BatchSize
    BY <2>1 DEF Inv, GoneCounted, Allowed
  <2>3. /\ Cardinality(Missing) \in Nat /\ Cardinality(Gone) \in Nat
        /\ Cardinality(Missing) <= Cardinality(Gone)
    BY <2>2, MissingIsGone, Smaller
  <2>4. dropped \in Nat /\ errors \in Nat /\ BatchSize \in Nat
    BY SizesAssumption DEF Inv, Control, Types
  <2>5. QED
    BY <2>2, <2>3, <2>4
<1>2. QED
  BY <1>1, Invariance, PTL

=============================================================================

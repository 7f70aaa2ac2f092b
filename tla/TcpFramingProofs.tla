-------------------------- MODULE TcpFramingProofs --------------------------
(***************************************************************************)
(* Proofs about TcpFraming, for messages, counts and buffers of any length *)
(* and any number of messages: the frames are the messages, however the    *)
(* stream is cut.                                                          *)
(***************************************************************************)
EXTENDS TcpFraming, SequenceTheorems, FiniteSetTheorems, WellFoundedInduction, TLAPS

-----------------------------------------------------------------------------
(* Recursion over the naturals.                                            *)

\* Induction over the naturals, for a set of them.
LEMMA Induction ==
    ASSUME NEW S, 0 \in S, \A n \in Nat : n \in S => n + 1 \in S
    PROVE  Nat \subseteq S
<1> DEFINE T == Nat \ S
           R == OpToRel(<, Nat)
<1>1. R = {ss \in Nat \X Nat : ss[1] < ss[2]}
  BY DEF OpToRel
<1>2. IsWellFoundedOn(R, Nat)
  BY NatLessThanWellFounded
<1> HIDE DEF R
<1>3. ASSUME T # {} PROVE FALSE
  <2>1. PICK m \in T : \A t \in T : ~(<<t, m>> \in R)
    BY <1>2, <1>3, WFMin
  <2>2. m \in Nat /\ m # 0
    OBVIOUS
  <2>3. m - 1 \in Nat /\ m - 1 < m /\ m - 1 + 1 = m
    BY <2>2
  <2>4. m - 1 \in T
    BY <2>2, <2>3
  <2>5. QED
    BY <1>1, <2>1, <2>3, <2>4
<1>4. QED
  BY <1>3

\* f is the recursion of Passes, for the first n passes.
IsPasses(f, buf, n) ==
    f = [i \in 0..n |-> IF i = 0 THEN [frames |-> <<>>, rest |-> buf] ELSE Pass(f[i - 1])]

LEMMA PassesExist == ASSUME NEW buf PROVE \A n \in Nat : \E f : IsPasses(f, buf, n)
<1> DEFINE S == {n \in Nat : \E f : IsPasses(f, buf, n)}
           start == [frames |-> <<>>, rest |-> buf]
<1>1. 0 \in S
  <2> DEFINE f == [i \in 0..0 |-> start]
  <2>1. IsPasses(f, buf, 0)
    BY DEF IsPasses
  <2>2. QED
    BY <2>1
<1>2. ASSUME NEW n \in Nat, n \in S PROVE n + 1 \in S
  <2>1. PICK f : IsPasses(f, buf, n)
    BY <1>2
  <2> DEFINE g == [i \in 0..n + 1 |-> IF i = n + 1 THEN Pass(f[n]) ELSE f[i]]
             h == [i \in 0..n + 1 |-> IF i = 0 THEN start ELSE Pass(g[i - 1])]
  <2>2. ASSUME NEW i \in 0..n + 1 PROVE g[i] = h[i]
    <3>1. CASE i = n + 1
      <4>1. g[i - 1] = f[n] /\ i # 0
        BY <3>1
      <4>2. QED
        BY <3>1, <4>1
    <3>2. CASE i # n + 1
      <4>1. i \in 0..n /\ g[i] = f[i]
        BY <3>2
      <4>2. i # 0 => i - 1 \in 0..n /\ g[i - 1] = f[i - 1]
        BY <4>1
      <4>3. f[i] = IF i = 0 THEN start ELSE Pass(f[i - 1])
        BY <2>1, <4>1 DEF IsPasses
      <4>4. QED
        BY <4>1, <4>2, <4>3
    <3>3. QED
      BY <3>1, <3>2
  <2>3. g = h
    BY <2>2
  <2>4. IsPasses(g, buf, n + 1)
    BY <2>3 DEF IsPasses
  <2>5. QED
    BY <2>4
<1> HIDE DEF S
<1>3. Nat \subseteq S
  BY <1>1, <1>2, Induction
<1>4. QED
  BY <1>3 DEF S

LEMMA PassesDefined ==
    ASSUME NEW buf, Len(buf) \in Nat
    PROVE  /\ Passes(buf)[0] = [frames |-> <<>>, rest |-> buf]
           /\ \A n \in 1..Len(buf) : Passes(buf)[n] = Pass(Passes(buf)[n - 1])
<1>1. \E f : IsPasses(f, buf, Len(buf))
  BY PassesExist
<1>2. IsPasses(Passes(buf), buf, Len(buf))
  BY <1>1 DEF Passes, IsPasses
<1>3. QED
  BY <1>2 DEF IsPasses

\* f is the recursion of FlattenSeq, of the first n sequences.
IsFlat(f, c, n) == f = [i \in 1..n |-> IF i = 1 THEN c[i] ELSE f[i - 1] \o c[i]]

LEMMA FlatExists == ASSUME NEW c PROVE \A n \in Nat : \E f : IsFlat(f, c, n)
<1> DEFINE S == {n \in Nat : \E f : IsFlat(f, c, n)}
<1>1. 0 \in S
  <2> DEFINE f == [i \in 1..0 |-> <<>>]
  <2>1. IsFlat(f, c, 0)
    BY DEF IsFlat
  <2>2. QED
    BY <2>1
<1>2. ASSUME NEW n \in Nat, n \in S PROVE n + 1 \in S
  <2>1. PICK f : IsFlat(f, c, n)
    BY <1>2
  <2> DEFINE last == IF n = 0 THEN c[n + 1] ELSE f[n] \o c[n + 1]
             g == [i \in 1..n + 1 |-> IF i = n + 1 THEN last ELSE f[i]]
             h == [i \in 1..n + 1 |-> IF i = 1 THEN c[i] ELSE g[i - 1] \o c[i]]
  <2>2. ASSUME NEW i \in 1..n + 1 PROVE g[i] = h[i]
    <3>1. CASE i = n + 1
      <4>1. g[i] = last
        BY <3>1
      <4>2. i # 1 => g[i - 1] = f[n]
        BY <3>1
      <4>3. QED
        BY <3>1, <4>1, <4>2
    <3>2. CASE i # n + 1
      <4>1. i \in 1..n /\ g[i] = f[i]
        BY <3>2
      <4>2. i # 1 => i - 1 \in 1..n /\ g[i - 1] = f[i - 1]
        BY <4>1
      <4>3. f[i] = IF i = 1 THEN c[i] ELSE f[i - 1] \o c[i]
        BY <2>1, <4>1 DEF IsFlat
      <4>4. QED
        BY <4>1, <4>2, <4>3
    <3>3. QED
      BY <3>1, <3>2
  <2>3. g = h
    BY <2>2
  <2>4. IsFlat(g, c, n + 1)
    BY <2>3 DEF IsFlat
  <2>5. QED
    BY <2>4
<1> HIDE DEF S
<1>3. Nat \subseteq S
  BY <1>1, <1>2, Induction
<1>4. QED
  BY <1>3 DEF S

Agree(f, g, n) == \A i \in 1..n : f[i] = g[i]

\* What does not differ up to n is flattened to the same.
LEMMA FlatUnique ==
    ASSUME NEW c, NEW d, NEW n \in Nat, NEW m \in Nat, n <= m, Agree(c, d, n),
           NEW f, NEW g, IsFlat(f, c, n), IsFlat(g, d, m)
    PROVE  Agree(f, g, n)
<1>1. /\ \A i \in 1..n : f[i] = IF i = 1 THEN c[i] ELSE f[i - 1] \o c[i]
      /\ \A i \in 1..m : g[i] = IF i = 1 THEN d[i] ELSE g[i - 1] \o d[i]
  BY DEF IsFlat
<1> DEFINE S == {i \in Nat : i \in 1..n => f[i] = g[i]}
<1>2. 0 \in S
  OBVIOUS
<1>3. ASSUME NEW i \in Nat, i \in S PROVE i + 1 \in S
  <2>1. SUFFICES ASSUME i + 1 \in 1..n PROVE f[i + 1] = g[i + 1]
    OBVIOUS
  <2>2. f[i + 1] = IF i + 1 = 1 THEN c[i + 1] ELSE f[i + 1 - 1] \o c[i + 1]
    BY <1>1, <2>1
  <2>3. g[i + 1] = IF i + 1 = 1 THEN d[i + 1] ELSE g[i + 1 - 1] \o d[i + 1]
    <3>1. i + 1 \in 1..m
      BY <2>1
    <3>2. QED
      BY <1>1, <3>1
  <2>4. c[i + 1] = d[i + 1] /\ i + 1 - 1 = i
    BY <2>1 DEF Agree
  <2>5. CASE i = 0
    BY <2>2, <2>3, <2>4, <2>5
  <2>6. CASE i # 0
    <3>1. f[i] = g[i]
      BY <1>3, <2>1, <2>6
    <3>2. QED
      BY <2>2, <2>3, <2>4, <2>6, <3>1
  <2>7. QED
    BY <2>5, <2>6
<1> HIDE DEF S
<1>4. Nat \subseteq S
  BY <1>2, <1>3, Induction
<1>5. QED
  BY <1>4 DEF S, Agree

LEMMA FlattenSeqDefined ==
    ASSUME NEW c, Len(c) \in Nat \ {0}
    PROVE  \E f : IsFlat(f, c, Len(c)) /\ FlattenSeq(c) = f[Len(c)]
<1>1. \E f : IsFlat(f, c, Len(c))
  BY FlatExists
<1> DEFINE flat == CHOOSE f : IsFlat(f, c, Len(c))
<1>2. IsFlat(flat, c, Len(c))
  BY <1>1
<1>3. FlattenSeq(c) = flat[Len(c)]
  BY DEF FlattenSeq, IsFlat
<1>4. QED
  BY <1>2, <1>3

LEMMA FlattenedAs ==
    ASSUME NEW c, NEW m \in Nat, NEW f, IsFlat(f, c, m),
           NEW d, NEW n \in Nat \ {0}, n = Len(d), n <= m, Agree(d, c, n)
    PROVE  FlattenSeq(d) = f[n]
<1>1. PICK g : IsFlat(g, d, Len(d)) /\ FlattenSeq(d) = g[Len(d)]
  BY FlattenSeqDefined
<1>2. IsFlat(g, d, n)
  BY <1>1
<1>3. Agree(g, f, n)
  BY <1>2, FlatUnique
<1>4. QED
  BY <1>1, <1>3 DEF Agree

\* The first i sequences of c, flattened, and where they end.
Flat(c, i) == FlattenSeq(SubSeq(c, 1, i))
EndIn(c, i) == Len(Flat(c, i))

LEMMA FlatStep ==
    ASSUME NEW S, NEW c \in Seq(Seq(S))
    PROVE  /\ Flat(c, 0) = <<>>
           /\ \A i \in 1..Len(c) : Flat(c, i) = Flat(c, i - 1) \o c[i]
<1>1. Flat(c, 0) = <<>>
  <2>1. SubSeq(c, 1, 0) = <<>>
    BY SubSeqEmpty
  <2>2. QED
    BY <2>1 DEF Flat, FlattenSeq
<1>2. PICK f : IsFlat(f, c, Len(c))
  <2>1. Len(c) \in Nat
    OBVIOUS
  <2>2. QED
    BY <2>1, FlatExists
<1>3. ASSUME NEW i \in 1..Len(c) PROVE Flat(c, i) = f[i]
  <2> DEFINE d == SubSeq(c, 1, i)
             m == Len(c)
  <2>1. i \in Nat \ {0} /\ m \in Nat /\ i <= m /\ i = Len(d) /\ Agree(d, c, i) /\ IsFlat(f, c, m)
    BY <1>2 DEF Agree
  <2> HIDE DEF d, m
  <2>2. FlattenSeq(d) = f[i]
    BY <2>1, FlattenedAs
  <2>3. QED
    BY <2>2 DEF Flat, d
<1>4. ASSUME NEW i \in 1..Len(c) PROVE Flat(c, i) = Flat(c, i - 1) \o c[i]
  <2>1. f[i] = IF i = 1 THEN c[i] ELSE f[i - 1] \o c[i]
    BY <1>2 DEF IsFlat
  <2>2. CASE i = 1
    <3>1. <<>> \o c[1] = c[1]
      BY <2>2, ConcatEmptySeq
    <3>2. QED
      BY <1>1, <1>3, <2>1, <2>2, <3>1
  <2>3. CASE i # 1
    <3>1. i - 1 \in 1..Len(c)
      BY <2>3
    <3>2. QED
      BY <1>3, <2>1, <2>3, <3>1
  <2>4. QED
    BY <2>2, <2>3
<1>5. QED
  BY <1>1, <1>4

\* The first n sequences of c lie one after the other in their flattening.
Parts(S, c, n) ==
    /\ Flat(c, n) \in Seq(S) /\ EndIn(c, n) \in Nat
    /\ \A i \in 1..n : /\ EndIn(c, i - 1) \in Nat
                      /\ EndIn(c, i) = EndIn(c, i - 1) + Len(c[i])
                      /\ EndIn(c, i) <= EndIn(c, n)
                      /\ \A j \in 1..Len(c[i]) : Flat(c, n)[EndIn(c, i - 1) + j] = c[i][j]

LEMMA Flattened == ASSUME NEW S, NEW c \in Seq(Seq(S)), NEW n \in 0..Len(c) PROVE Parts(S, c, n)
<1> DEFINE Good(k) ==
           /\ Flat(c, k) \in Seq(S) /\ EndIn(c, k) \in Nat
           /\ \A i \in 1..k : /\ EndIn(c, i - 1) \in Nat
                             /\ EndIn(c, i) = EndIn(c, i - 1) + Len(c[i])
                             /\ EndIn(c, i) <= EndIn(c, k)
                             /\ \A j \in 1..Len(c[i]) : Flat(c, k)[EndIn(c, i - 1) + j] = c[i][j]
           T == {k \in Nat : k <= Len(c) => Good(k)}
<1>1. Good(0)
  <2>1. Flat(c, 0) = <<>>
    BY FlatStep
  <2>2. <<>> \in Seq(S) /\ Len(<<>>) = 0 /\ 1..0 = {}
    OBVIOUS
  <2>3. QED
    BY <2>1, <2>2 DEF EndIn
<1>2. ASSUME NEW k \in Nat, k + 1 <= Len(c), Good(k) PROVE Good(k + 1)
  <2>1. Flat(c, k + 1) = Flat(c, k) \o c[k + 1]
    <3>1. k + 1 \in 1..Len(c) /\ k + 1 - 1 = k
      BY <1>2
    <3>2. ASSUME NEW i \in 1..Len(c), i - 1 = k PROVE Flat(c, i) = Flat(c, k) \o c[i]
      <4>1. Flat(c, i) = Flat(c, i - 1) \o c[i]
        BY FlatStep
      <4>2. QED
        BY <3>2, <4>1
    <3>3. QED
      BY <3>1, <3>2
  <2>2. c[k + 1] \in Seq(S)
    BY <1>2
  <2> DEFINE F == Flat(c, k)  G == Flat(c, k + 1)  d == c[k + 1]
  <2>3. F \in Seq(S) /\ d \in Seq(S) /\ G = F \o d
    BY <1>2, <2>1, <2>2
  <2>4. EndIn(c, k) = Len(F) /\ EndIn(c, k + 1) = Len(G)
    BY DEF EndIn
  <2> HIDE DEF F, G, d
  <2>5. /\ G \in Seq(S) /\ Len(G) = Len(F) + Len(d) /\ Len(F) \in Nat /\ Len(d) \in Nat
        /\ \A p \in 1..Len(F) : G[p] = F[p]
        /\ \A j \in 1..Len(d) : G[Len(F) + j] = d[j]
    BY <2>3
  <2>6. ASSUME NEW i \in 1..k + 1
        PROVE  /\ EndIn(c, i - 1) \in Nat
               /\ EndIn(c, i) = EndIn(c, i - 1) + Len(c[i])
               /\ EndIn(c, i) <= EndIn(c, k + 1)
               /\ \A j \in 1..Len(c[i]) : G[EndIn(c, i - 1) + j] = c[i][j]
    <3>1. CASE i = k + 1
      <4>1. i - 1 = k /\ c[i] = d
        BY <3>1 DEF d
      <4>2. EndIn(c, i - 1) = Len(F) /\ EndIn(c, i) = Len(G) /\ Len(c[i]) = Len(d)
        BY <2>4, <3>1, <4>1
      <4>3. \A j \in 1..Len(c[i]) : G[EndIn(c, i - 1) + j] = c[i][j]
        BY <2>5, <4>1, <4>2
      <4>4. EndIn(c, i) = EndIn(c, i - 1) + Len(c[i]) /\ EndIn(c, i - 1) \in Nat
        BY ONLY <2>5, <4>2
      <4>5. EndIn(c, i) <= EndIn(c, k + 1)
        <5>1. EndIn(c, i) = EndIn(c, k + 1) /\ EndIn(c, i) \in Nat
          BY ONLY <2>4, <2>5, <4>2
        <5>2. QED
          BY ONLY <5>1
      <4>6. QED
        BY ONLY <4>3, <4>4, <4>5
    <3>2. CASE i # k + 1
      <4>1. i \in 1..k
        BY <3>2
      <4>2. /\ EndIn(c, i - 1) \in Nat /\ EndIn(c, i) = EndIn(c, i - 1) + Len(c[i])
            /\ EndIn(c, i) <= Len(F)
            /\ \A j \in 1..Len(c[i]) : F[EndIn(c, i - 1) + j] = c[i][j]
        BY <1>2, <2>4, <4>1 DEF F
      <4>3. Len(c[i]) \in Nat
        <5>1. i \in 1..Len(c)
          BY <1>2, <4>1
        <5>2. QED
          BY <5>1
      <4>4. \A j \in 1..Len(c[i]) : EndIn(c, i - 1) + j \in 1..Len(F)
        <5>1. EndIn(c, i - 1) + Len(c[i]) <= Len(F) /\ EndIn(c, i - 1) \in Nat
          BY <4>2
        <5>2. Len(F) \in Nat
          BY <2>5
        <5>3. QED
          BY <4>3, <5>1, <5>2
      <4>5. \A j \in 1..Len(c[i]) : G[EndIn(c, i - 1) + j] = c[i][j]
        BY <2>5, <4>2, <4>4
      <4>6. EndIn(c, i) \in Nat
        BY <4>2, <4>3
      <4>7. QED
        BY <2>4, <2>5, <4>2, <4>5, <4>6
    <3>3. QED
      BY <3>1, <3>2
  <2>7. QED
    BY <2>4, <2>5, <2>6 DEF G
<1> HIDE DEF Good
<1>3. ASSUME NEW k \in Nat, k \in T PROVE k + 1 \in T
  BY <1>2, <1>3
<1>4. Nat \subseteq T
  <2>1. 0 \in T
    BY <1>1
  <2> HIDE DEF T
  <2>2. QED
    BY <1>3, <2>1, Induction
<1>5. Good(n)
  BY <1>4
<1>6. QED
  BY <1>5 DEF Good, Parts

-----------------------------------------------------------------------------
(* What the helpers of split_octet_counted return.                         *)

LEMMA FirstIs ==
    ASSUME NEW P \in SUBSET Int, NEW i \in P, \A k \in P : i <= k
    PROVE  First(P) = i
<1>1. First(P) \in P /\ \A k \in P : First(P) <= k
  <2>1. \E x \in P : \A k \in P : x <= k
    OBVIOUS
  <2>2. QED
    BY <2>1 DEF First
<1>2. First(P) \in Int /\ i \in Int /\ First(P) <= i /\ i <= First(P)
  BY <1>1
<1>3. QED
  BY <1>2

\* The bytes skipped between frames.
Skip == {NL, CR, NUL, SP}

LEMMA SkippedIs ==
    ASSUME NEW S, NEW buf \in Seq(S), NEW p \in 0..Len(buf), \A i \in 1..p : buf[i] \in Skip,
           p < Len(buf) => buf[p + 1] \notin Skip
    PROVE  Skipped(buf) = SubSeq(buf, p + 1, Len(buf))
<1> DEFINE kept == {i \in DOMAIN buf : buf[i] \notin Skip}
<1>1. Skipped(buf) = IF kept = {} THEN <<>> ELSE SubSeq(buf, First(kept), Len(buf))
  BY DEF Skipped, Skip
<1>2. CASE p = Len(buf)
  <2>1. kept = {}
    BY <1>2
  <2>2. SubSeq(buf, p + 1, Len(buf)) = <<>>
    BY <1>2, SubSeqEmpty
  <2>3. QED
    BY <1>1, <2>1, <2>2
<1>3. CASE p # Len(buf)
  <2>1. p + 1 \in kept /\ kept \in SUBSET Int
    BY <1>3
  <2>2. \A k \in kept : p + 1 <= k
    OBVIOUS
  <2> HIDE DEF kept
  <2>3. First(kept) = p + 1
    BY <2>1, <2>2, FirstIs
  <2>4. QED
    BY <1>1, <2>1, <2>3
<1>4. QED
  BY <1>2, <1>3

LEMMA NothingSkipped ==
    ASSUME NEW S, NEW buf \in Seq(S), buf # <<>> => buf[1] \notin Skip
    PROVE  Skipped(buf) = buf
<1>1. SubSeq(buf, 1, Len(buf)) = buf
  BY SubSeqFull
<1>2. 0 \in 0..Len(buf) /\ (0 < Len(buf) => buf[0 + 1] \notin Skip)
  OBVIOUS
<1>3. Skipped(buf) = SubSeq(buf, 0 + 1, Len(buf))
  BY <1>2, SkippedIs
<1>4. QED
  BY <1>1, <1>3

LEMMA StrippedIs ==
    ASSUME NEW S, NEW frame \in Seq(S), NEW n \in 1..Len(frame), frame[n] # CR,
           \A k \in n + 1..Len(frame) : frame[k] = CR
    PROVE  Stripped(frame) = SubSeq(frame, 1, n)
<1>1. {i \in DOMAIN frame : \E k \in i..Len(frame) : frame[k] # CR} = 1..n
  <2>1. ASSUME NEW i \in 1..n PROVE \E k \in i..Len(frame) : frame[k] # CR
    OBVIOUS
  <2>2. ASSUME NEW i \in 1..Len(frame), NEW k \in i..Len(frame), frame[k] # CR PROVE i \in 1..n
    BY <2>2
  <2>3. QED
    BY <2>1, <2>2
<1>2. Cardinality(1..n) = n
  BY FS_Interval
<1>3. QED
  BY <1>1, <1>2 DEF Stripped

LEMMA Sorts == /\ "<" \notin Digit /\ "<" \notin Skip /\ Digit \cap Skip = {}
               /\ SP \notin {NL, NUL} /\ CR \notin {NL, NUL}
<1>1. Digit = {"0", "1", "2", "3", "4", "5", "6", "7", "8", "9"}
  BY DEF Digit, Digits, ToSet, Range
<1>2. QED
  BY <1>1 DEF Skip, NL, CR, NUL, SP

-----------------------------------------------------------------------------
(* Codes: a message takes the first f bytes of its code, or would with the *)
(* delimiter it has not got.                                               *)

WithCount(x, f) ==
    \E d \in Seq(Digit) :
        /\ Len(d) \in 1..11 /\ Number(d) = Len(x.message)
        /\ f = Len(d) + 1 + Len(x.message)
        /\ \A i \in 1..Len(d) : x.code[i] = d[i]
        /\ x.code[Len(d) + 1] = SP
        /\ \A j \in 1..Len(x.message) : x.code[Len(d) + 1 + j] = x.message[j]
        /\ Len(x.code) \in {f, f + 1}
        /\ Len(x.code) = f + 1 => x.code[f + 1] = NL

WithDelimiter(x, f) ==
    /\ f = Len(x.code) /\ Len(x.message) < f
    /\ Delimitable(x.message)
    /\ \A j \in 1..Len(x.message) : x.code[j] = x.message[j]
    /\ \A k \in Len(x.message) + 1..f - 1 : x.code[k] = CR
    /\ x.code[f] \in {NL, NUL}

WithoutEnd(x, f) ==
    /\ Bare(x) /\ Delimitable(x.message)
    /\ f = Len(x.code) + 1

Framed(x, f) ==
    /\ f \in Nat /\ x.message \in Seq(Bytes) /\ x.code \in Seq(Bytes)
    /\ x.message # <<>> /\ x.message[1] = "<"
    /\ WithCount(x, f) \/ WithDelimiter(x, f) \/ WithoutEnd(x, f)

LEMMA MessageType == ASSUME NEW m \in Message PROVE m \in Seq(Bytes) /\ m # <<>> /\ m[1] = "<"
<1>1. PICK s \in BoundedSeq(Content, MaxLength - 1) : m = <<"<">> \o s
  BY DEF Message
<1>2. s \in Seq(Bytes)
  BY ContentAssumption DEF BoundedSeq, SeqOf
<1>3. <<"<">> \in Seq(Bytes)
  BY DEF Bytes
<1>4. QED
  BY <1>1, <1>2, <1>3

LEMMA SendableFramed == ASSUME NEW x \in Sendable PROVE \E f : Framed(x, f)
<1>1. PICK m, c : /\ m \in Message /\ x = [message |-> m, code |-> c]
                  /\ \/ c \in Counted(m)
                     \/ Delimitable(m) /\ c \in Delimited(m)
                     \/ Delimitable(m) /\ c = m
  BY DEF Sendable
<1>2. m \in Seq(Bytes) /\ m # <<>> /\ m[1] = "<" /\ Len(m) \in Nat
  BY <1>1, MessageType
<1>3. x.message = m /\ x.code = c
  BY <1>1
<1>4. {SP, NL, NUL, CR} \subseteq Bytes /\ Digit \subseteq Bytes
  BY DEF Bytes
<1>5. CASE c \in Counted(m)
  <2>1. PICK d \in Counts(Len(m)), stray \in {<<>>, <<NL>>} : c = d \o <<SP>> \o m \o stray
    BY <1>5 DEF Counted
  <2>2. d \in Seq(Digit) /\ Len(d) \in 1..11 /\ Number(d) = Len(m)
    <3>1. d \in BoundedSeq(Digit, MaxDigits) /\ d # <<>> /\ Number(d) = Len(m)
      BY <2>1 DEF Counts
    <3>2. PICK n \in 0..MaxDigits : d \in [1..n -> Digit]
      BY <3>1, BoundsAssumption DEF BoundedSeq, SeqOf
    <3>3. n \in 0..11
      BY BoundsAssumption
    <3>4. d \in Seq(Digit) /\ Len(d) = n
      BY <3>2, <3>3
    <3>5. QED
      BY <3>1, <3>3, <3>4
  <2>3. d \in Seq(Bytes) /\ <<SP>> \in Seq(Bytes) /\ stray \in Seq(Bytes)
    <3>1. d \in Seq(Bytes)
      BY <1>4, <2>2, SeqMonotonic
    <3>2. <<SP>> \in Seq(Bytes) /\ <<NL>> \in Seq(Bytes) /\ <<>> \in Seq(Bytes)
      BY <1>4
    <3>3. QED
      BY <2>1, <3>1, <3>2
  <2> DEFINE a == d \o <<SP>>
             b == a \o m
  <2>4. a \in Seq(Bytes) /\ Len(a) = Len(d) + 1 /\ a[Len(d) + 1] = SP /\ \A i \in 1..Len(d) : a[i] = d[i]
    BY <2>3
  <2> HIDE DEF a
  <2>5. /\ b \in Seq(Bytes) /\ Len(b) = Len(a) + Len(m)
        /\ \A i \in 1..Len(a) : b[i] = a[i]
        /\ \A j \in 1..Len(m) : b[Len(a) + j] = m[j]
    BY <1>2, <2>4
  <2> HIDE DEF b
  <2>6. /\ c \in Seq(Bytes) /\ Len(c) = Len(b) + Len(stray)
        /\ \A i \in 1..Len(b) : c[i] = b[i]
        /\ stray = <<NL>> => c[Len(b) + 1] = NL
    <3>1. c = b \o stray
      BY <2>1 DEF a, b
    <3>2. /\ c \in Seq(Bytes) /\ Len(c) = Len(b) + Len(stray)
          /\ \A i \in 1..Len(b) : c[i] = b[i]
          /\ \A j \in 1..Len(stray) : c[Len(b) + j] = stray[j]
      <4>1. b \in Seq(Bytes) /\ stray \in Seq(Bytes)
        BY <2>3, <2>5
      <4>2. /\ b \o stray \in Seq(Bytes) /\ Len(b \o stray) = Len(b) + Len(stray)
            /\ \A i \in 1..Len(b) + Len(stray) :
                  (b \o stray)[i] = IF i <= Len(b) THEN b[i] ELSE stray[i - Len(b)]
        BY <4>1, ConcatProperties
      <4>3. Len(b) \in Nat /\ Len(stray) \in Nat
        BY <4>1
      <4>4. QED
        BY <3>1, <4>2, <4>3
    <3>3. stray = <<NL>> => 1 \in 1..Len(stray) /\ stray[1] = NL
      OBVIOUS
    <3>4. QED
      BY <3>2, <3>3
  <2> DEFINE f == Len(d) + 1 + Len(m)
  <2>7. f \in Nat /\ Len(b) = f /\ Len(c) \in {f, f + 1} /\ (Len(c) = f + 1 => c[f + 1] = NL)
    <3>1. \/ Len(stray) = 0
          \/ Len(stray) = 1 /\ stray = <<NL>>
      BY <2>1
    <3>2. Len(d) \in Nat /\ Len(b) = f /\ f \in Nat
      BY <1>2, <2>2, <2>4, <2>5
    <3>3. Len(c) = f + Len(stray) /\ (stray = <<NL>> => c[f + 1] = NL)
      BY <2>6, <3>2
    <3> HIDE DEF f
    <3>4. CASE Len(stray) = 0
      <4>1. Len(c) = f /\ f # f + 1
        BY <3>2, <3>3, <3>4
      <4>2. QED
        BY <3>2, <4>1
    <3>5. CASE Len(stray) = 1 /\ stray = <<NL>>
      BY <3>2, <3>3, <3>5
    <3>6. QED
      BY <3>1, <3>4, <3>5
  <2>8. /\ \A i \in 1..Len(d) : c[i] = d[i]
        /\ c[Len(d) + 1] = SP
        /\ \A j \in 1..Len(m) : c[Len(d) + 1 + j] = m[j]
    <3>1. Len(d) \in Nat /\ Len(b) = Len(d) + 1 + Len(m) /\ Len(a) = Len(d) + 1
      BY <1>2, <2>2, <2>4, <2>5
    <3>2. \A i \in 1..Len(a) : c[i] = a[i]
      BY <1>2, <2>5, <2>6, <3>1
    <3>3. \A j \in 1..Len(m) : c[Len(a) + j] = m[j]
      BY <1>2, <2>5, <2>6, <3>1
    <3>4. QED
      BY <2>4, <3>1, <3>2, <3>3
  <2> HIDE DEF f
  <2>9. WithCount(x, f)
    BY <1>3, <2>2, <2>7, <2>8 DEF WithCount, f
  <2>10. QED
    BY <1>2, <1>3, <2>6, <2>7, <2>9 DEF Framed
<1>6. CASE Delimitable(m) /\ c \in Delimited(m)
  <2>1. PICK end \in {<<NL>>, <<CR, NL>>, <<NUL>>} : c = m \o end
    BY <1>6 DEF Delimited
  <2>2. end \in Seq(Bytes)
    BY <1>4, <2>1
  <2>3. c \in Seq(Bytes) /\ Len(c) = Len(m) + Len(end) /\ \A j \in 1..Len(m) : c[j] = m[j]
    BY <1>2, <2>1, <2>2
  <2>4. \A j \in 1..Len(end) : c[Len(m) + j] = end[j]
    BY <1>2, <2>1, <2>2
  <2>5. /\ Len(m) < Len(c) /\ c[Len(c)] \in {NL, NUL}
        /\ \A k \in Len(m) + 1..Len(c) - 1 : c[k] = CR
    <3>1. CASE end = <<NL>> \/ end = <<NUL>>
      <4>1. Len(end) = 1 /\ end[1] \in {NL, NUL}
        BY <3>1
      <4>2. QED
        BY <1>2, <2>3, <2>4, <4>1
    <3>2. CASE end = <<CR, NL>>
      <4>1. Len(end) = 2 /\ end[1] = CR /\ end[2] = NL
        BY <3>2
      <4>2. c[Len(m) + 1] = CR /\ c[Len(m) + 2] = NL
        BY <2>4, <4>1
      <4>3. QED
        BY <1>2, <2>3, <4>1, <4>2
    <3>3. QED
      BY <2>1, <3>1, <3>2
  <2>6. WithDelimiter(x, Len(c))
    BY <1>3, <1>6, <2>3, <2>5 DEF WithDelimiter
  <2>7. Framed(x, Len(c))
    BY <1>2, <1>3, <2>3, <2>6 DEF Framed
  <2>8. QED
    BY <2>7
<1>7. CASE Delimitable(m) /\ c = m
  <2>1. WithoutEnd(x, Len(c) + 1) /\ Len(c) + 1 \in Nat
    BY <1>2, <1>3, <1>7 DEF WithoutEnd, Bare
  <2>2. Framed(x, Len(c) + 1)
    BY <1>2, <1>3, <1>7, <2>1 DEF Framed
  <2>3. QED
    BY <1>7, <2>2
<1>8. QED
  BY <1>1, <1>5, <1>6, <1>7

-----------------------------------------------------------------------------
(* A pass: it takes the message in front when its f bytes are there, and   *)
(* waits otherwise.                                                        *)

LEMMA FirstIn ==
    ASSUME NEW P \in SUBSET Nat, P # {}
    PROVE  First(P) \in P /\ \A k \in P : First(P) <= k
<1> DEFINE R == OpToRel(<, Nat)
<1>1. R = {ss \in Nat \X Nat : ss[1] < ss[2]}
  BY DEF OpToRel
<1>2. IsWellFoundedOn(R, Nat)
  BY NatLessThanWellFounded
<1> HIDE DEF R
<1>3. PICK m \in P : \A k \in P : ~(<<k, m>> \in R)
  BY <1>2, WFMin
<1>4. ASSUME NEW k \in P PROVE m <= k
  <2>1. <<k, m>> \notin R /\ k \in Nat /\ m \in Nat
    BY <1>3
  <2>2. ~(k < m)
    BY <1>1, <2>1
  <2>3. QED
    BY <2>1, <2>2
<1>5. QED
  BY <1>4 DEF First

Spaces(buf) == Positions(buf, SP) \cap 1..12

AfterCount(buf, space) ==
    /\ \A i \in 1..(space - 1) : buf[i] \in Digit
    /\ space < Len(buf) /\ buf[space + 1] = "<"

\* f is the recursion of Number, of the first n digits.
IsValue(f, d, n) ==
    f = [i \in 0..n |-> IF i = 0 THEN 0 ELSE 10 * f[i - 1] + DigitValue(d[i])]

LEMMA ValueExists == ASSUME NEW d PROVE \A n \in Nat : \E f : IsValue(f, d, n)
<1> DEFINE S == {n \in Nat : \E f : IsValue(f, d, n)}
<1>1. 0 \in S
  <2> DEFINE f == [i \in 0..0 |-> 0]
  <2>1. IsValue(f, d, 0)
    BY DEF IsValue
  <2>2. QED
    BY <2>1
<1>2. ASSUME NEW n \in Nat, n \in S PROVE n + 1 \in S
  <2>1. PICK f : IsValue(f, d, n)
    BY <1>2
  <2> DEFINE last == 10 * f[n] + DigitValue(d[n + 1])
             g == [i \in 0..n + 1 |-> IF i = n + 1 THEN last ELSE f[i]]
             h == [i \in 0..n + 1 |-> IF i = 0 THEN 0 ELSE 10 * g[i - 1] + DigitValue(d[i])]
  <2>2. ASSUME NEW i \in 0..n + 1 PROVE g[i] = h[i]
    <3>1. CASE i = n + 1
      <4>1. g[i - 1] = f[n] /\ i # 0
        BY <3>1
      <4>2. QED
        BY <3>1, <4>1
    <3>2. CASE i # n + 1
      <4>1. i \in 0..n /\ g[i] = f[i]
        BY <3>2
      <4>2. i # 0 => i - 1 \in 0..n /\ g[i - 1] = f[i - 1]
        BY <4>1
      <4>3. f[i] = IF i = 0 THEN 0 ELSE 10 * f[i - 1] + DigitValue(d[i])
        BY <2>1, <4>1 DEF IsValue
      <4>4. QED
        BY <4>1, <4>2, <4>3
    <3>3. QED
      BY <3>1, <3>2
  <2>3. g = h
    BY <2>2
  <2>4. IsValue(g, d, n + 1)
    BY <2>3 DEF IsValue
  <2>5. QED
    BY <2>4
<1> HIDE DEF S
<1>3. Nat \subseteq S
  BY <1>1, <1>2, Induction
<1>4. QED
  BY <1>3 DEF S

LEMMA NumberType == ASSUME NEW d \in Seq(Digit) PROVE Number(d) \in Nat
<1> DEFINE m == Len(d)
<1>1. PICK f : IsValue(f, d, m) /\ Number(d) = f[m]
  <2>1. \E f : IsValue(f, d, m)
    <3>1. m \in Nat
      OBVIOUS
    <3> HIDE DEF m
    <3>2. QED
      BY <3>1, ValueExists
  <2>2. IsValue(CHOOSE f : IsValue(f, d, m), d, m)
    BY <2>1
  <2>3. Number(d) = (CHOOSE f : IsValue(f, d, m))[m]
    BY DEF Number, IsValue
  <2>4. QED
    BY <2>2, <2>3
<1> HIDE DEF m
<1>2. m \in Nat /\ \A i \in 1..m : d[i] \in Digit
  BY DEF m
<1>3. ASSUME NEW b \in Digit PROVE DigitValue(b) \in Nat
  <2> DEFINE P == Positions(Digits, b)
  <2>1. P \in SUBSET (1..10) /\ P # {}
    BY DEF Positions, Digits, Digit, ToSet
  <2> HIDE DEF P
  <2>2. First(P) \in P
    BY <2>1, FirstIn
  <2>3. QED
    BY <2>1, <2>2 DEF DigitValue, P
<1> DEFINE T == {k \in Nat : k <= m => f[k] \in Nat}
<1>4. 0 \in T
  BY <1>1, <1>2 DEF IsValue
<1>5. ASSUME NEW k \in Nat, k \in T PROVE k + 1 \in T
  <2>1. SUFFICES ASSUME k + 1 <= m PROVE f[k + 1] \in Nat
    OBVIOUS
  <2>2. k + 1 \in 0..m /\ k + 1 # 0 /\ k + 1 - 1 = k /\ f[k] \in Nat /\ k + 1 \in 1..m
    BY <1>2, <1>5, <2>1
  <2>3. f[k + 1] = 10 * f[k] + DigitValue(d[k + 1])
    <3>1. ASSUME NEW i \in 0..m, i # 0 PROVE f[i] = 10 * f[i - 1] + DigitValue(d[i])
      BY <1>1, <3>1 DEF IsValue
    <3>2. QED
      BY <2>2, <3>1
  <2>4. DigitValue(d[k + 1]) \in Nat
    BY <1>2, <1>3, <2>2
  <2>5. QED
    BY <2>2, <2>3, <2>4
<1> HIDE DEF T
<1>6. Nat \subseteq T
  BY <1>4, <1>5, Induction
<1>7. QED
  BY <1>1, <1>2, <1>6 DEF T

LEMMA CountEndIs ==
    ASSUME NEW buf
    PROVE  CountEnd(buf) = IF Spaces(buf) # {} /\ AfterCount(buf, First(Spaces(buf)))
                           THEN First(Spaces(buf)) ELSE 0
BY DEF CountEnd, Spaces, AfterCount

NotACount(buf, s) == s >= Len(buf) \/ \E i \in 1..s - 1 : buf[i] \notin Digit

LEMMA NoCount ==
    ASSUME NEW buf \in Seq(Bytes), \A s \in Spaces(buf) : NotACount(buf, s)
    PROVE  CountEnd(buf) = 0
<1> DEFINE space == First(Spaces(buf))
<1>1. CountEnd(buf) = IF Spaces(buf) # {} /\ AfterCount(buf, space) THEN space ELSE 0
  BY CountEndIs
<1>2. ASSUME Spaces(buf) # {} PROVE space \in Spaces(buf)
  <2>1. Spaces(buf) \in SUBSET Nat
    BY DEF Spaces
  <2>2. QED
    BY <1>2, <2>1, FirstIn
<1>3. ASSUME Spaces(buf) # {} PROVE ~AfterCount(buf, space)
  <2>1. space \in Nat /\ Len(buf) \in Nat /\ NotACount(buf, space)
    BY <1>2, <1>3 DEF Spaces
  <2> HIDE DEF space
  <2>2. QED
    BY <2>1 DEF AfterCount, NotACount
<1> HIDE DEF space
<1>4. QED
  BY <1>1, <1>3

LEMMA NoCountInFront ==
    ASSUME NEW buf \in Seq(Bytes), buf # <<>> => buf[1] = "<"
    PROVE  CountEnd(buf) = 0
<1>1. ASSUME NEW s \in Spaces(buf) PROVE NotACount(buf, s)
  <2>1. s \in 1..Len(buf) /\ buf[s] = SP
    BY DEF Spaces, Positions
  <2>2. buf # <<>> /\ SP # "<"
    BY <2>1, Sorts DEF Skip
  <2>3. s # 1 /\ buf[1] = "<"
    BY <2>1, <2>2
  <2>4. 1 \in 1..s - 1 /\ buf[1] \notin Digit
    BY <2>1, <2>3, Sorts
  <2>5. QED
    BY <2>4 DEF NotACount
<1>2. QED
  BY <1>1, NoCount

LEMMA CountIs ==
    ASSUME NEW buf \in Seq(Bytes), NEW n \in 1..11, n + 2 <= Len(buf),
           \A i \in 1..n : buf[i] \in Digit, buf[n + 1] = SP, buf[n + 2] = "<"
    PROVE  CountEnd(buf) = n + 1
<1>1. n + 1 \in Spaces(buf) /\ Spaces(buf) \in SUBSET Int
  BY DEF Spaces, Positions
<1>2. ASSUME NEW k \in Spaces(buf) PROVE n + 1 <= k
  <2>1. k \in 1..12 /\ buf[k] = SP
    BY DEF Spaces, Positions
  <2>2. k \notin 1..n
    BY <2>1, Sorts DEF Skip
  <2>3. QED
    BY <2>1, <2>2
<1>3. First(Spaces(buf)) = n + 1
  BY <1>1, <1>2, FirstIs
<1>4. AfterCount(buf, n + 1)
  <2>1. n + 1 - 1 = n /\ n + 1 + 1 = n + 2 /\ n + 1 < Len(buf)
    OBVIOUS
  <2>2. QED
    BY <2>1 DEF AfterCount
<1>5. QED
  BY <1>1, <1>3, <1>4, CountEndIs

LEMMA PassCounted ==
    ASSUME NEW buf \in Seq(Bytes), Skipped(buf) = buf, NEW n \in 1..11, CountEnd(buf) = n + 1,
           NEW m \in Seq(Bytes), Number(SubSeq(buf, 1, n)) = Len(m), NEW fr
    PROVE  Pass([frames |-> fr, rest |-> buf]) =
               IF Len(buf) < n + 1 + Len(m) THEN [frames |-> fr, rest |-> buf]
               ELSE [frames |-> Append(fr, SubSeq(buf, n + 2, n + 1 + Len(m))),
                     rest |-> SubSeq(buf, n + 2 + Len(m), Len(buf))]
<1> DEFINE s == [frames |-> fr, rest |-> buf]
           count == CountEnd(buf)
           end == count + Number(SubSeq(buf, 1, count - 1))
<1>1. s.frames = fr /\ s.rest = buf /\ Skipped(s.rest) = buf
  OBVIOUS
<1>2. count > 0 /\ count + 1 = n + 2 /\ count - 1 = n
  OBVIOUS
<1>3. end = n + 1 + Len(m) /\ end + 1 = n + 2 + Len(m)
  BY <1>2
<1>4. Pass(s) = IF Incomplete(buf, end) THEN [frames |-> fr, rest |-> buf]
                ELSE [frames |-> Append(fr, SubSeq(buf, count + 1, end)),
                      rest |-> SubSeq(buf, end + 1, Len(buf))]
  <2> HIDE DEF s
  <2>1. QED
    BY <1>1, <1>2 DEF Pass
<1>5. QED
  BY <1>2, <1>3, <1>4 DEF Incomplete

LEMMA PassDelimited ==
    ASSUME NEW buf \in Seq(Bytes), Skipped(buf) = buf, CountEnd(buf) = 0, NEW fr
    PROVE  Pass([frames |-> fr, rest |-> buf]) =
               IF Delimiters(buf) = {} THEN [frames |-> fr, rest |-> buf]
               ELSE [frames |-> Append(fr, Stripped(SubSeq(buf, 1, First(Delimiters(buf)) - 1))),
                     rest |-> SubSeq(buf, First(Delimiters(buf)) + 1, Len(buf))]
<1> DEFINE s == [frames |-> fr, rest |-> buf]
<1>1. s.frames = fr /\ s.rest = buf /\ Skipped(s.rest) = buf
  OBVIOUS
<1> HIDE DEF s
<1>2. ~(CountEnd(buf) > 0)
  OBVIOUS
<1>3. Pass(s) =
               IF Delimiters(buf) = {} THEN [frames |-> fr, rest |-> buf]
               ELSE [frames |-> Append(fr, Stripped(SubSeq(buf, 1, First(Delimiters(buf)) - 1))),
                     rest |-> SubSeq(buf, First(Delimiters(buf)) + 1, Len(buf))]
  BY <1>1, <1>2 DEF Pass
<1>4. QED
  BY <1>3 DEF s

LEMMA PassSkips ==
    ASSUME NEW a, NEW b, Skipped(a) = Skipped(b), NEW fr
    PROVE  Pass([frames |-> fr, rest |-> a]) = Pass([frames |-> fr, rest |-> b])
<1> DEFINE s == [frames |-> fr, rest |-> a]
           t == [frames |-> fr, rest |-> b]
<1>1. s.frames = t.frames /\ Skipped(s.rest) = Skipped(t.rest)
  OBVIOUS
<1> HIDE DEF s, t
<1>2. Pass(s) = Pass(t)
  BY <1>1 DEF Pass
<1>3. QED
  BY <1>2 DEF s, t

\* Passes keep to the bytes of the buffer.
LEMMA PassType == ASSUME NEW s, s.rest \in Seq(Bytes) PROVE Pass(s).rest \in Seq(Bytes)
<1> DEFINE buf == Skipped(s.rest)
           count == CountEnd(buf)
           end == count + Number(SubSeq(buf, 1, count - 1))
           delimiter == First(Delimiters(buf))
<1>1. buf \in Seq(Bytes)
  <2> DEFINE kept == {i \in DOMAIN s.rest : s.rest[i] \notin {NL, CR, NUL, SP}}
  <2>1. kept \in SUBSET (1..Len(s.rest)) /\ Len(s.rest) \in Nat
    OBVIOUS
  <2>2. buf = IF kept = {} THEN <<>> ELSE SubSeq(s.rest, First(kept), Len(s.rest))
    BY DEF Skipped
  <2> HIDE DEF kept, buf
  <2>3. kept # {} => First(kept) \in 1..Len(s.rest)
    <3>1. kept \in SUBSET Nat
      BY <2>1
    <3>2. QED
      BY <2>1, <3>1, FirstIn
  <2> DEFINE r == s.rest  first == First(kept)
  <2>4. r \in Seq(Bytes) /\ (kept # {} => first \in 1..Len(r))
    BY <2>3
  <2>5. buf = IF kept = {} THEN <<>> ELSE SubSeq(r, first, Len(r))
    BY <2>2
  <2> HIDE DEF r, first
  <2>6. QED
    BY <2>4, <2>5
<1>2. Pass(s).rest \in {buf, SubSeq(buf, end + 1, Len(buf)), SubSeq(buf, delimiter + 1, Len(buf))}
  BY DEF Pass
<1>3. count # 0 => Pass(s).rest \in {buf, SubSeq(buf, end + 1, Len(buf))}
  <2>1. CASE count > 0
    BY <2>1 DEF Pass
  <2>2. count \in Nat
    <3> HIDE DEF buf
    <3>1. Spaces(buf) \in SUBSET Nat
      BY DEF Spaces
    <3>2. QED
      BY <3>1, CountEndIs, FirstIn
  <2>3. QED
    BY <2>1, <2>2
<1> HIDE DEF buf
<1>4. CASE count # 0
  <2>1. count \in Spaces(buf) /\ AfterCount(buf, count)
    <3>1. Spaces(buf) \in SUBSET Nat
      BY DEF Spaces
    <3>2. QED
      BY <1>4, <3>1, CountEndIs, FirstIn
  <2>2. count \in 1..Len(buf) /\ \A i \in 1..(count - 1) : buf[i] \in Digit
    BY <1>1, <2>1 DEF Spaces, AfterCount, Positions
  <2> HIDE DEF count
  <2>3. SubSeq(buf, 1, count - 1) \in Seq(Digit)
    BY <1>1, <2>2
  <2>4. end \in Nat
    <3>1. Number(SubSeq(buf, 1, count - 1)) \in Nat
      BY ONLY <2>3, NumberType
    <3>2. count \in Nat
      BY <2>2
    <3>3. QED
      BY <3>1, <3>2
  <2> HIDE DEF end
  <2>5. SubSeq(buf, end + 1, Len(buf)) \in Seq(Bytes)
    BY <1>1, <2>4
  <2>6. QED
    BY <1>1, <1>3, <1>4, <2>5 DEF count, end
<1>5. CASE count = 0
  <2>1. Pass(s).rest = IF Delimiters(buf) = {} THEN buf ELSE SubSeq(buf, delimiter + 1, Len(buf))
    BY <1>5 DEF Pass, buf
  <2>2. Delimiters(buf) \in SUBSET Nat
    BY <1>1 DEF Delimiters, Positions
  <2>3. Delimiters(buf) # {} => delimiter \in Nat
    BY <2>2, FirstIn
  <2> HIDE DEF delimiter
  <2>4. QED
    BY <1>1, <2>1, <2>3
<1>6. QED
  BY <1>4, <1>5

LEMMA SplitType == ASSUME NEW buf \in Seq(Bytes) PROVE Split(buf).rest \in Seq(Bytes)
<1> DEFINE m == Len(buf)
           T == {n \in Nat : n <= m => Passes(buf)[n].rest \in Seq(Bytes)}
<1>1. m \in Nat
  OBVIOUS
<1>2. /\ Passes(buf)[0] = [frames |-> <<>>, rest |-> buf]
      /\ \A n \in 1..m : Passes(buf)[n] = Pass(Passes(buf)[n - 1])
  BY <1>1, PassesDefined
<1>3. Split(buf) = Passes(buf)[m]
  BY DEF Split
<1> HIDE DEF m
<1>4. 0 \in T
  BY <1>2
<1>5. ASSUME NEW n \in Nat, n \in T PROVE n + 1 \in T
  <2>1. SUFFICES ASSUME n + 1 <= m PROVE Passes(buf)[n + 1].rest \in Seq(Bytes)
    OBVIOUS
  <2>2. n + 1 \in 1..m /\ n + 1 - 1 = n /\ n <= m
    BY <1>1, <2>1
  <2>3. Passes(buf)[n + 1] = Pass(Passes(buf)[n])
    <3>1. ASSUME NEW i \in 1..m, i - 1 = n PROVE Passes(buf)[i] = Pass(Passes(buf)[n])
      BY <1>2, <3>1
    <3>2. QED
      BY <2>2, <3>1
  <2>4. Passes(buf)[n].rest \in Seq(Bytes)
    BY <1>5, <2>2
  <2>5. QED
    BY <2>3, <2>4, PassType
<1> HIDE DEF T
<1>6. Nat \subseteq T
  BY <1>4, <1>5, Induction
<1>7. QED
  BY <1>1, <1>3, <1>6 DEF T

LEMMA NoDelimiterIn ==
    ASSUME NEW m \in Seq(Bytes), Delimitable(m), NEW j \in 1..Len(m)
    PROVE  m[j] \notin {NL, NUL}
<1>1. m[j] \in ToSet(m)
  BY DEF ToSet
<1>2. ToSet(m) \cap {NL, NUL} = {}
  BY DEF Delimitable
<1>3. QED
  BY <1>1, <1>2

\* A buffer starts with the first f codes of x, and a pass takes them off it.
Starts(buf, x, f) ==
    /\ f <= Len(x.code)
    /\ f <= Len(buf)
    /\ \A j \in 1..f : buf[j] = x.code[j]

TakesFrame(fr, buf, x, f) ==
    Pass([frames |-> fr, rest |-> buf]) =
        [frames |-> Append(fr, x.message), rest |-> SubSeq(buf, f + 1, Len(buf))]

LEMMA FrameTaken ==
    ASSUME NEW x, NEW f, Framed(x, f), NEW buf \in Seq(Bytes), Starts(buf, x, f), NEW fr
    PROVE  TakesFrame(fr, buf, x, f)
<1> USE DEF Starts, TakesFrame
<1> DEFINE m == x.message
<1>1. f \in Nat /\ m \in Seq(Bytes) /\ m # <<>> /\ m[1] = "<" /\ Len(m) \in Nat \ {0}
  BY DEF Framed
<1>2. Len(buf) \in Nat
  OBVIOUS
<1>3. CASE WithCount(x, f)
  <2>1. PICK d \in Seq(Digit) :
          /\ Len(d) \in 1..11 /\ Number(d) = Len(m)
          /\ f = Len(d) + 1 + Len(m)
          /\ \A i \in 1..Len(d) : x.code[i] = d[i]
          /\ x.code[Len(d) + 1] = SP
          /\ \A j \in 1..Len(m) : x.code[Len(d) + 1 + j] = m[j]
    BY <1>3 DEF WithCount
  <2> DEFINE n == Len(d)
  <2>2. n \in 1..11 /\ f = n + 1 + Len(m)
    BY <2>1
  <2> HIDE DEF m, n
  <2>3. /\ \A i \in 1..n : buf[i] = d[i]
        /\ buf[n + 1] = SP
        /\ \A j \in 1..Len(m) : buf[n + 1 + j] = m[j]
    <3>1. /\ 1..n \subseteq 1..f /\ n + 1 \in 1..f
          /\ \A j \in 1..Len(m) : n + 1 + j \in 1..f
      BY <1>1, <2>2
    <3>2. QED
      BY <2>1, <3>1 DEF n
  <2>4. /\ n + 2 <= Len(buf) /\ buf[n + 2] = "<"
        /\ \A i \in 1..n : buf[i] \in Digit
    <3>1. 1 \in 1..Len(m) /\ n + 1 + 1 = n + 2 /\ n + 2 <= Len(buf)
      BY <1>1, <1>2, <2>2
    <3>2. \A i \in 1..n : d[i] \in Digit
      BY DEF n
    <3>3. QED
      BY <1>1, <2>3, <3>1, <3>2
  <2>5. CountEnd(buf) = n + 1
    BY <2>2, <2>3, <2>4, CountIs
  <2>6. Skipped(buf) = buf
    <3>1. buf[1] \in Digit
      BY <2>2, <2>4
    <3>2. QED
      BY <3>1, Sorts, NothingSkipped
  <2>7. SubSeq(buf, 1, n) = d
    <3>1. SubSeq(buf, 1, n) \in Seq(Bytes) /\ Len(SubSeq(buf, 1, n)) = n
      BY <2>2, <2>4
    <3>2. \A i \in 1..n : SubSeq(buf, 1, n)[i] = d[i]
      BY <2>2, <2>3, <2>4
    <3>3. d \in Seq(Bytes)
      <4>1. Digit \subseteq Bytes
        BY DEF Bytes
      <4>2. QED
        BY <4>1, SeqMonotonic
    <3>4. QED
      BY <3>1, <3>2, <3>3, SeqEqual DEF n
  <2>8. SubSeq(buf, n + 2, n + 1 + Len(m)) = m
    <3> DEFINE t == SubSeq(buf, n + 2, n + 1 + Len(m))
    <3>1. /\ t \in Seq(Bytes) /\ Len(t) = Len(m)
          /\ \A j \in 1..Len(m) : t[j] = buf[n + 1 + j]
      BY <1>1, <1>2, <2>2
    <3> HIDE DEF t
    <3>2. \A j \in 1..Len(m) : t[j] = m[j]
      BY <2>3, <3>1
    <3>3. t = m
      BY <1>1, <3>1, <3>2, SeqEqual
    <3>4. QED
      BY <3>3 DEF t
  <2>9. Number(SubSeq(buf, 1, n)) = Len(m)
    BY <2>1, <2>7 DEF n
  <2>10. Pass([frames |-> fr, rest |-> buf]) =
           IF Len(buf) < n + 1 + Len(m) THEN [frames |-> fr, rest |-> buf]
           ELSE [frames |-> Append(fr, SubSeq(buf, n + 2, n + 1 + Len(m))),
                 rest |-> SubSeq(buf, n + 2 + Len(m), Len(buf))]
    BY <1>1, <2>2, <2>5, <2>6, <2>9, PassCounted
  <2>11. ~(Len(buf) < n + 1 + Len(m)) /\ n + 2 + Len(m) = f + 1
    BY <1>1, <1>2, <2>2
  <2>12. QED
    BY <2>8, <2>10, <2>11 DEF m
<1>4. CASE WithDelimiter(x, f)
  <2>1. /\ Len(m) < f /\ Delimitable(m) /\ x.code[f] \in {NL, NUL}
        /\ \A j \in 1..Len(m) : x.code[j] = m[j]
        /\ \A k \in Len(m) + 1..f - 1 : x.code[k] = CR
    BY <1>4 DEF WithDelimiter
  <2> HIDE DEF m
  <2>2. /\ buf[f] \in {NL, NUL}
        /\ \A j \in 1..Len(m) : buf[j] = m[j]
        /\ \A k \in Len(m) + 1..f - 1 : buf[k] = CR
    BY <1>1, <2>1
  <2>3. \A j \in 1..Len(m) : m[j] \notin {NL, NUL}
    BY <1>1, <2>1, NoDelimiterIn
  <2>4. m[Len(m)] # CR
    BY <2>1 DEF Delimitable
  <2>5. First(Delimiters(buf)) = f
    <3>1. f \in Delimiters(buf) /\ Delimiters(buf) \in SUBSET Int
      BY <1>1, <1>2, <2>1, <2>2 DEF Delimiters, Positions
    <3>2. ASSUME NEW k \in Delimiters(buf) PROVE f <= k
      <4>1. k \in Nat \ {0} /\ buf[k] \in {NL, NUL}
        BY DEF Delimiters, Positions
      <4>2. k \notin 1..Len(m)
        BY <2>2, <2>3, <4>1
      <4>3. k \notin Len(m) + 1..f - 1
        BY <2>2, <4>1, Sorts
      <4>4. QED
        BY <1>1, <4>1, <4>2, <4>3
    <3>3. QED
      BY <3>1, <3>2, FirstIs
  <2>6. Delimiters(buf) # {}
    BY <1>1, <1>2, <2>1, <2>2 DEF Delimiters, Positions
  <2>7. buf[1] = "<"
    <3>1. 1 \in 1..Len(m)
      BY <1>1
    <3>2. QED
      BY <1>1, <2>2, <3>1
  <2>8. Skipped(buf) = buf /\ CountEnd(buf) = 0
    BY <2>7, Sorts, NothingSkipped, NoCountInFront
  <2>9. Stripped(SubSeq(buf, 1, f - 1)) = m
    <3> DEFINE t == SubSeq(buf, 1, f - 1)
    <3>1. /\ t \in Seq(Bytes) /\ Len(t) = f - 1 /\ Len(m) \in 1..Len(t)
          /\ \A j \in 1..f - 1 : t[j] = buf[j]
      BY <1>1, <1>2, <2>1
    <3> HIDE DEF t
    <3>2. t[Len(m)] # CR /\ \A k \in Len(m) + 1..Len(t) : t[k] = CR
      <4>1. Len(m) \in 1..Len(m) /\ Len(m) \in 1..f - 1
        BY <1>1, <2>1
      <4>2. \A k \in Len(m) + 1..Len(t) : k \in 1..f - 1
        BY <1>1, <3>1
      <4>3. QED
        BY <2>2, <2>4, <3>1, <4>1, <4>2
    <3>3. Stripped(t) = SubSeq(t, 1, Len(m))
      BY <3>1, <3>2, StrippedIs
    <3> DEFINE u == SubSeq(t, 1, Len(m))
    <3>4. /\ u \in Seq(Bytes) /\ Len(u) = Len(m)
          /\ \A j \in 1..Len(m) : u[j] = t[j]
      BY <1>1, <3>1
    <3> HIDE DEF u
    <3>5. \A j \in 1..Len(m) : u[j] = m[j]
      BY <1>1, <2>1, <2>2, <3>1, <3>4
    <3>6. u = m
      BY <1>1, <3>4, <3>5, SeqEqual
    <3>7. QED
      BY <3>3, <3>6 DEF t, u
  <2>10. QED
    BY <2>5, <2>6, <2>8, <2>9, PassDelimited DEF m
<1>5. CASE WithoutEnd(x, f)
  BY <1>1, <1>5 DEF WithoutEnd, Bare
<1>6. QED
  BY <1>3, <1>4, <1>5 DEF Framed

LEMMA FrameAwaited ==
    ASSUME NEW x, NEW f, Framed(x, f),
           NEW buf \in Seq(Bytes), Len(buf) < f, \A j \in 1..Len(buf) : buf[j] = x.code[j], NEW fr
    PROVE  Pass([frames |-> fr, rest |-> buf]) = [frames |-> fr, rest |-> buf]
<1> DEFINE m == x.message
<1>1. f \in Nat /\ m \in Seq(Bytes) /\ m # <<>> /\ m[1] = "<" /\ Len(m) \in Nat \ {0}
  BY DEF Framed
<1>2. Len(buf) \in Nat
  OBVIOUS
<1>3. CASE buf = <<>>
  <2>1. Delimiters(buf) = {}
    BY <1>3 DEF Delimiters, Positions
  <2>2. Skipped(buf) = buf /\ CountEnd(buf) = 0
    BY <1>3, NothingSkipped, NoCountInFront
  <2>3. QED
    BY <2>1, <2>2, PassDelimited
<1>4. CASE buf # <<>> /\ WithCount(x, f)
  <2>1. PICK d \in Seq(Digit) :
          /\ Len(d) \in 1..11 /\ Number(d) = Len(m)
          /\ f = Len(d) + 1 + Len(m)
          /\ \A i \in 1..Len(d) : x.code[i] = d[i]
          /\ x.code[Len(d) + 1] = SP
          /\ \A j \in 1..Len(m) : x.code[Len(d) + 1 + j] = m[j]
    BY <1>4 DEF WithCount
  <2> DEFINE n == Len(d)
  <2>2. n \in 1..11 /\ f = n + 1 + Len(m) /\ Len(buf) \in Nat \ {0}
    BY <1>4, <2>1
  <2>3. \A i \in 1..n : d[i] \in Digit
    OBVIOUS
  <2> HIDE DEF m, n
  <2>4. /\ \A i \in 1..n : i <= Len(buf) => buf[i] = d[i] /\ buf[i] \in Digit
        /\ n + 1 <= Len(buf) => buf[n + 1] = SP
        /\ \A j \in 1..Len(m) : n + 1 + j <= Len(buf) => buf[n + 1 + j] = m[j]
    <3>1. /\ \A i \in 1..n : i <= Len(buf) => i \in 1..Len(buf)
          /\ n + 1 <= Len(buf) => n + 1 \in 1..Len(buf)
          /\ \A j \in 1..Len(m) : n + 1 + j <= Len(buf) => n + 1 + j \in 1..Len(buf)
      BY <1>1, <1>2, <2>2
    <3>2. QED
      BY <2>1, <2>3, <3>1 DEF n
  <2>5. buf[1] \in Digit
    BY <2>2, <2>4
  <2>6. Skipped(buf) = buf
    BY <2>5, Sorts, NothingSkipped
  <2>7. CASE Len(buf) <= n + 1
    <3>1. ASSUME NEW i \in 1..Len(buf) PROVE buf[i] \in Digit \/ (i = Len(buf) /\ buf[i] = SP)
      <4>1. i \in 1..n \/ (i = n + 1 /\ i = Len(buf))
        BY <2>2, <2>7
      <4>2. i <= Len(buf)
        BY <2>2
      <4>3. CASE i \in 1..n
        BY <2>4, <4>2, <4>3
      <4>4. CASE i = n + 1 /\ i = Len(buf)
        BY <2>4, <4>2, <4>4
      <4>5. QED
        BY <4>1, <4>3, <4>4
    <3>2. Delimiters(buf) = {}
      BY <3>1, Sorts DEF Delimiters, Positions, Skip
    <3>3. ASSUME NEW s \in Spaces(buf) PROVE NotACount(buf, s)
      <4>1. s \in 1..Len(buf) /\ buf[s] = SP
        BY DEF Spaces, Positions
      <4>2. s = Len(buf)
        BY <3>1, <4>1, Sorts DEF Skip
      <4>3. QED
        BY <1>2, <4>2 DEF NotACount
    <3>4. CountEnd(buf) = 0
      BY <3>3, NoCount
    <3>5. QED
      BY <2>6, <3>2, <3>4, PassDelimited
  <2>8. CASE ~(Len(buf) <= n + 1)
    <3>1. n + 2 <= Len(buf) /\ n + 1 <= Len(buf) /\ \A i \in 1..n : i <= Len(buf)
      BY <1>2, <2>2, <2>8
    <3>2. buf[n + 1] = SP /\ \A i \in 1..n : buf[i] = d[i] /\ buf[i] \in Digit
      BY <2>4, <3>1
    <3>3. buf[n + 2] = "<"
      <4>1. 1 \in 1..Len(m) /\ n + 1 + 1 = n + 2
        BY <1>1, <2>2
      <4>2. QED
        BY <1>1, <2>4, <3>1, <4>1
    <3>4. CountEnd(buf) = n + 1
      BY <2>2, <3>1, <3>2, <3>3, CountIs
    <3>5. SubSeq(buf, 1, n) = d
      <4>1. SubSeq(buf, 1, n) \in Seq(Bytes) /\ Len(SubSeq(buf, 1, n)) = n
        BY <2>2, <3>1
      <4>2. \A i \in 1..n : SubSeq(buf, 1, n)[i] = d[i]
        BY <2>2, <3>1, <3>2
      <4>3. d \in Seq(Bytes)
        <5>1. Digit \subseteq Bytes
          BY DEF Bytes
        <5>2. QED
          BY <5>1, SeqMonotonic
      <4>4. QED
        BY <4>1, <4>2, <4>3, SeqEqual DEF n
    <3>6. Number(SubSeq(buf, 1, n)) = Len(m)
      BY <2>1, <3>5 DEF n
    <3>7. Pass([frames |-> fr, rest |-> buf]) =
             IF Len(buf) < n + 1 + Len(m) THEN [frames |-> fr, rest |-> buf]
             ELSE [frames |-> Append(fr, SubSeq(buf, n + 2, n + 1 + Len(m))),
                   rest |-> SubSeq(buf, n + 2 + Len(m), Len(buf))]
      BY <1>1, <2>2, <2>6, <3>4, <3>6, PassCounted
    <3>8. QED
      BY <2>2, <3>7
  <2>9. QED
    BY <2>7, <2>8
<1>5. CASE buf # <<>> /\ (WithDelimiter(x, f) \/ WithoutEnd(x, f))
  <2>1. /\ Delimitable(m) /\ \A j \in 1..Len(m) : x.code[j] = m[j]
        /\ \A k \in Len(m) + 1..f - 1 : x.code[k] = CR
    BY <1>1, <1>5 DEF WithDelimiter, WithoutEnd, Bare
  <2> HIDE DEF m
  <2>2. \A j \in 1..Len(m) : m[j] \notin {NL, NUL}
    BY <1>1, <2>1, NoDelimiterIn
  <2>3. ASSUME NEW i \in 1..Len(buf) PROVE buf[i] \notin {NL, NUL}
    <3>1. i \in 1..Len(m) \/ i \in Len(m) + 1..f - 1
      BY <1>1, <1>2
    <3>2. QED
      BY <2>1, <2>2, <3>1, Sorts
  <2>4. Delimiters(buf) = {}
    BY <2>3 DEF Delimiters, Positions
  <2>5. buf[1] = "<"
    <3>1. 1 \in 1..Len(m) /\ 1 \in 1..Len(buf)
      BY <1>1, <1>5
    <3>2. QED
      BY <1>1, <2>1, <3>1
  <2>6. Skipped(buf) = buf /\ CountEnd(buf) = 0
    BY <2>5, Sorts, NothingSkipped, NoCountInFront
  <2>7. QED
    BY <2>4, <2>6, PassDelimited
<1>6. QED
  BY <1>3, <1>4, <1>5 DEF Framed

-----------------------------------------------------------------------------
(* The stream.                                                             *)

LEMMA CodeOf ==
    ASSUME NEW x, NEW f, Framed(x, f)
    PROVE  /\ f \in 1..Len(x.code) + 1 /\ Len(x.code) \in Nat \ {0}
           /\ x.code[1] \notin Skip
           /\ \A q \in f + 1..Len(x.code) : x.code[q] \in Skip
           /\ f = Len(x.code) + 1 <=> Bare(x)
<1> DEFINE m == x.message
<1>1. f \in Nat /\ m \in Seq(Bytes) /\ x.code \in Seq(Bytes) /\ m # <<>> /\ m[1] = "<" /\ Len(m) \in Nat \ {0}
  BY DEF Framed
<1>2. Len(x.code) \in Nat
  BY <1>1
<1>3. CASE WithCount(x, f)
  <2>1. PICK d \in Seq(Digit) :
          /\ Len(d) \in 1..11 /\ f = Len(d) + 1 + Len(m)
          /\ \A i \in 1..Len(d) : x.code[i] = d[i]
          /\ Len(x.code) \in {f, f + 1}
          /\ Len(x.code) = f + 1 => x.code[f + 1] = NL
    BY <1>3 DEF WithCount
  <2>2. x.code[1] \in Digit
    BY <2>1
  <2> HIDE DEF m
  <2>3. ~Bare(x) /\ f # Len(x.code) + 1
    <3>1. x.code # m /\ f # Len(x.code) + 1
      BY <1>1, <2>1
    <3>2. QED
      BY <3>1 DEF Bare, m
  <2>4. f \in 1..Len(x.code) + 1 /\ Len(x.code) # 0
    BY <1>1, <1>2, <2>1
  <2>5. \A q \in f + 1..Len(x.code) : x.code[q] \in Skip
    <3>1. NL \in Skip /\ Len(x.code) \in Nat
      BY <1>1 DEF Skip
    <3>2. ASSUME NEW q \in f + 1..Len(x.code) PROVE q = f + 1 /\ Len(x.code) = f + 1
      <4>1. f \in Nat /\ (Len(x.code) = f \/ Len(x.code) = f + 1)
        BY <1>1, <2>1
      <4>2. q \in Int /\ f + 1 <= q /\ q <= Len(x.code)
        BY <3>1
      <4>3. QED
        BY <4>1, <4>2
    <3>3. QED
      BY <2>1, <3>1, <3>2
  <2>6. QED
    BY <1>2, <2>2, <2>3, <2>4, <2>5, Sorts DEF m
<1>4. CASE WithDelimiter(x, f)
  <2>1. f = Len(x.code) /\ Len(m) < f /\ \A j \in 1..Len(m) : x.code[j] = m[j]
    BY <1>4 DEF WithDelimiter
  <2>2. x.code[1] = "<"
    BY <1>1, <2>1
  <2>3. ~Bare(x) /\ f # Len(x.code) + 1 /\ f \in 1..Len(x.code) + 1 /\ Len(x.code) # 0
    BY <1>1, <2>1 DEF Bare
  <2>4. QED
    BY <1>2, <2>1, <2>2, <2>3, Sorts
<1>5. CASE WithoutEnd(x, f)
  <2>1. x.code = m /\ f = Len(x.code) + 1
    BY <1>5 DEF WithoutEnd, Bare
  <2>2. QED
    BY <1>1, <1>2, <2>1, Sorts DEF Bare
<1>6. QED
  BY <1>3, <1>4, <1>5 DEF Framed

\* The bytes of message i up to the end of its frame.
Taken(i) == CHOOSE f : Framed(sent[i], f)

\* What Init allows the sender.
SentOK ==
    /\ sent \in Seq([message : Seq(Bytes), code : Seq(Bytes)])
    /\ \A i \in 1..Len(sent) : \E f : Framed(sent[i], f)
    /\ \A i \in 1..(Len(sent) - 1) : ~Bare(sent[i])

LEMMA InitSent == Init => SentOK
<1> SUFFICES ASSUME Init PROVE SentOK
  OBVIOUS
<1> DEFINE R == [message : Seq(Bytes), code : Seq(Bytes)]
<1>1. PICK n \in 0..MaxMessages : sent \in Sequel(n)
  BY DEF Init
<1>2. n \in Nat
  BY BoundsAssumption
<1>3. sent \in [1..n -> Sendable] /\ \A i \in 1..(n - 1) : ~Bare(sent[i])
  BY <1>1 DEF Sequel
<1>4. ASSUME NEW x \in Sendable PROVE x \in R
  <2>1. PICK f : Framed(x, f)
    BY SendableFramed
  <2>2. PICK m, c : x = [message |-> m, code |-> c]
    BY DEF Sendable
  <2>3. x.message = m /\ x.code = c
    BY <2>2
  <2>4. QED
    BY <2>1, <2>2, <2>3 DEF Framed
<1> HIDE DEF R
<1>5. sent \in Seq(R) /\ Len(sent) = n
  <2>1. sent \in [1..n -> R]
    BY <1>3, <1>4
  <2>2. QED
    BY <1>2, <2>1
<1>6. \A i \in 1..n : \E f : Framed(sent[i], f)
  BY <1>3, SendableFramed
<1>7. QED
  BY <1>3, <1>5, <1>6 DEF SentOK, R

LEMMA CodeIs ==
    ASSUME SentOK
    PROVE  /\ Code \in Seq(Seq(Bytes)) /\ Len(Code) = Len(sent)
           /\ \A i \in 1..Len(sent) : Code[i] = sent[i].code
           /\ Messages \in Seq(Seq(Bytes)) /\ Len(Messages) = Len(sent)
           /\ \A i \in 1..Len(sent) : Messages[i] = sent[i].message
<1> DEFINE N == Len(sent)
<1>1. N \in Nat /\ DOMAIN sent = 1..N
  BY DEF SentOK
<1>2. \A i \in 1..N : sent[i].code \in Seq(Bytes) /\ sent[i].message \in Seq(Bytes)
  <2>1. \A i \in 1..N : sent[i] \in [message : Seq(Bytes), code : Seq(Bytes)]
    BY ElementOfSeq DEF SentOK
  <2>2. QED
    BY <2>1
<1>3. Code \in Seq(Seq(Bytes)) /\ Len(Code) = N /\ \A i \in 1..N : Code[i] = sent[i].code
  BY <1>1, <1>2 DEF Code
<1>4. Messages \in Seq(Seq(Bytes)) /\ Len(Messages) = N /\ \A i \in 1..N : Messages[i] = sent[i].message
  BY <1>1, <1>2 DEF Messages
<1>5. QED
  BY <1>3, <1>4

LEMMA StreamIs ==
    ASSUME SentOK
    PROVE  /\ Len(sent) \in Nat /\ DOMAIN sent = 1..Len(sent)
           /\ Stream \in Seq(Bytes) /\ Len(Stream) = EndOf(Len(sent))
           /\ EndOf(0) = 0 /\ \A i \in 0..Len(sent) : EndOf(i) \in Nat /\ EndOf(i) <= Len(Stream)
           /\ Messages \in Seq(Seq(Bytes)) /\ Len(Messages) = Len(sent)
           /\ \A i \in 1..Len(sent) :
                 /\ Messages[i] = sent[i].message
                 /\ EndOf(i) = EndOf(i - 1) + Len(sent[i].code)
                 /\ \A j \in 1..Len(sent[i].code) : Stream[EndOf(i - 1) + j] = sent[i].code[j]
<1> DEFINE N == Len(sent)
<1>1. N \in Nat /\ DOMAIN sent = 1..N
  BY DEF SentOK
<1>2. \A i \in 1..N : sent[i].code \in Seq(Bytes) /\ sent[i].message \in Seq(Bytes)
  <2>1. \A i \in 1..N : sent[i] \in [message : Seq(Bytes), code : Seq(Bytes)]
    BY ElementOfSeq DEF SentOK
  <2>2. QED
    BY <2>1
<1>3. Code \in Seq(Seq(Bytes)) /\ Len(Code) = N /\ \A i \in 1..N : Code[i] = sent[i].code
  BY CodeIs
<1>4. Messages \in Seq(Seq(Bytes)) /\ Len(Messages) = N /\ \A i \in 1..N : Messages[i] = sent[i].message
  BY CodeIs
<1>5. \A i : EndOf(i) = EndIn(Code, i)
  BY DEF EndOf, EndIn, Flat
<1>6. Stream = Flat(Code, N)
  <2>1. SubSeq(Code, 1, Len(Code)) = Code
    BY <1>3, SubSeqFull
  <2>2. QED
    BY <1>3, <2>1 DEF Flat, Stream
<1>7. EndOf(0) = 0
  <2>1. Flat(Code, 0) = <<>>
    BY <1>3, FlatStep
  <2>2. QED
    BY <1>5, <2>1 DEF EndIn
<1> HIDE DEF N
<1>8. N \in 0..Len(Code)
  BY <1>1, <1>3
<1>9. /\ Stream \in Seq(Bytes) /\ Len(Stream) = EndOf(N)
      /\ \A i \in 1..N : /\ EndIn(Code, i - 1) \in Nat
                        /\ EndIn(Code, i) = EndIn(Code, i - 1) + Len(Code[i])
                        /\ EndIn(Code, i) <= EndIn(Code, N)
                        /\ \A j \in 1..Len(Code[i]) : Stream[EndIn(Code, i - 1) + j] = Code[i][j]
  <2>1. /\ Flat(Code, N) \in Seq(Bytes)
        /\ \A i \in 1..N : /\ EndIn(Code, i - 1) \in Nat
                          /\ EndIn(Code, i) = EndIn(Code, i - 1) + Len(Code[i])
                          /\ EndIn(Code, i) <= EndIn(Code, N)
                          /\ \A j \in 1..Len(Code[i]) : Flat(Code, N)[EndIn(Code, i - 1) + j] = Code[i][j]
    <3>1. Parts(Bytes, Code, N)
      BY <1>3, <1>8, Flattened
    <3>2. QED
      BY <3>1, Zenon DEF Parts
  <2>2. Len(Stream) = EndOf(N)
    BY <1>5, <1>6 DEF EndIn
  <2>3. QED
    BY <1>6, <2>1, <2>2
<1>10. ASSUME NEW i \in 1..N
       PROVE  /\ EndOf(i - 1) \in Nat /\ EndOf(i) = EndOf(i - 1) + Len(sent[i].code)
              /\ EndOf(i) <= EndOf(N)
              /\ \A j \in 1..Len(sent[i].code) : Stream[EndOf(i - 1) + j] = sent[i].code[j]
  <2>1. EndOf(i - 1) = EndIn(Code, i - 1) /\ EndOf(i) = EndIn(Code, i) /\ EndOf(N) = EndIn(Code, N)
    BY <1>5
  <2>2. Code[i] = sent[i].code
    BY <1>3
  <2>3. /\ EndIn(Code, i - 1) \in Nat
        /\ EndIn(Code, i) = EndIn(Code, i - 1) + Len(Code[i])
        /\ EndIn(Code, i) <= EndIn(Code, N)
        /\ \A j \in 1..Len(Code[i]) : Stream[EndIn(Code, i - 1) + j] = Code[i][j]
    BY <1>9
  <2>4. QED
    BY <2>1, <2>2, <2>3
<1>11. ASSUME NEW i \in 0..N PROVE EndOf(i) \in Nat /\ EndOf(i) <= EndOf(N)
  <2>1. CASE i = 0
    <3>1. EndOf(N) \in Nat
      BY <1>9
    <3>2. QED
      BY <1>7, <2>1, <3>1
  <2>2. CASE i # 0
    <3>1. i \in 1..N /\ Len(sent[i].code) \in Nat
      BY <1>1, <1>2, <2>2
    <3>2. QED
      BY <1>10, <3>1
  <2>3. QED
    BY <2>1, <2>2
<1>12. QED
  BY <1>1, <1>4, <1>7, <1>9, <1>10, <1>11 DEF N

LEMMA TakenIs ==
    ASSUME SentOK, NEW i \in 1..Len(sent)
    PROVE  /\ Framed(sent[i], Taken(i))
           /\ Taken(i) \in 1..Len(sent[i].code) + 1
           /\ Len(sent[i].code) \in Nat \ {0}
           /\ sent[i].code[1] \notin Skip
           /\ \A q \in Taken(i) + 1..Len(sent[i].code) : sent[i].code[q] \in Skip
           /\ Taken(i) = Len(sent[i].code) + 1 <=> Bare(sent[i])
           /\ i < Len(sent) => Taken(i) <= Len(sent[i].code)
<1>1. Framed(sent[i], Taken(i))
  <2>1. \E f : Framed(sent[i], f)
    BY DEF SentOK
  <2>2. QED
    BY <2>1 DEF Taken
<1> DEFINE x == sent[i]
           f == Taken(i)
<1>2. Framed(x, f)
  BY <1>1
<1> HIDE DEF x, f
<1>3. /\ f \in 1..Len(x.code) + 1 /\ Len(x.code) \in Nat \ {0}
      /\ x.code[1] \notin Skip
      /\ \A q \in f + 1..Len(x.code) : x.code[q] \in Skip
      /\ f = Len(x.code) + 1 <=> Bare(x)
  BY <1>2, CodeOf
<1>4. i < Len(sent) => f <= Len(x.code)
  <2>1. SUFFICES ASSUME i < Len(sent) PROVE f # Len(x.code) + 1
    BY <1>3
  <2>2. i \in 1..(Len(sent) - 1)
    <3>1. Len(sent) \in Nat
      BY DEF SentOK
    <3>2. QED
      BY <2>1, <3>1
  <2>3. QED
    BY <1>3, <2>2 DEF SentOK, x
<1>5. QED
  BY <1>1, <1>3, <1>4 DEF x, f

LEMMA Order ==
    ASSUME SentOK, NEW j \in 0..Len(sent), NEW i \in 0..j
    PROVE  EndOf(i) \in Nat /\ EndOf(j) \in Nat /\ EndOf(i) <= EndOf(j) /\ EndOf(j) <= Len(Stream)
<1>1. /\ Len(sent) \in Nat /\ EndOf(0) = 0 /\ EndOf(i) \in Nat /\ EndOf(j) \in Nat
      /\ EndOf(j) <= Len(Stream)
  BY StreamIs
<1>2. CASE i = 0
  BY <1>1, <1>2
<1>3. CASE i # 0
  <2>1. \A k : EndOf(k) = EndIn(Code, k)
    BY DEF EndOf, EndIn, Flat
  <2>2. Code \in Seq(Seq(Bytes)) /\ Len(Code) = Len(sent)
    BY CodeIs
  <2>3. Parts(Bytes, Code, j)
    <3>1. j \in 0..Len(Code)
      BY <2>2
    <3>2. QED
      BY <2>2, <3>1, Flattened
  <2>4. i \in 1..j
    BY <1>1, <1>3
  <2>5. EndIn(Code, i) <= EndIn(Code, j)
    BY <2>3, <2>4, Zenon DEF Parts
  <2>6. QED
    BY <1>1, <2>1, <2>5
<1>4. QED
  BY <1>2, <1>3

-----------------------------------------------------------------------------
(* Pieces of the stream.                                                   *)

\* The bytes read after the first p, when r are.
From(p, r) == SubSeq(Stream, p + 1, r)

LEMMA FromIs ==
    ASSUME SentOK, NEW r \in 0..Len(Stream), NEW p \in 0..r
    PROVE  /\ From(p, r) \in Seq(Bytes) /\ Len(From(p, r)) = r - p
           /\ \A i \in 1..r - p : From(p, r)[i] = Stream[p + i]
           /\ \A c \in 0..r - p : SubSeq(From(p, r), c + 1, r - p) = From(p + c, r)
<1> DEFINE s == Stream
           a == From(p, r)
<1>1. s \in Seq(Bytes) /\ r \in 0..Len(s) /\ a = SubSeq(s, p + 1, r)
  BY StreamIs DEF From
<1>2. r \in Nat /\ Len(s) \in Nat /\ p \in Nat /\ p <= r /\ r <= Len(s)
  <2>1. Len(s) \in Nat
    BY <1>1
  <2>2. QED
    BY <2>1
<1> HIDE DEF s, a
<1>3. a \in Seq(Bytes) /\ Len(a) = r - p /\ \A i \in 1..r - p : a[i] = s[p + i]
  <2>1. a \in Seq(Bytes) /\ Len(a) = r - p
    BY <1>1, <1>2
  <2>2. ASSUME NEW i \in 1..r - p PROVE a[i] = s[p + i]
    <3>1. a[i] = s[p + 1 + i - 1] /\ p + 1 + i - 1 = p + i
      BY <1>1, <1>2
    <3>2. QED
      BY <3>1
  <2>3. QED
    BY <2>1, <2>2
<1>4. ASSUME NEW c \in 0..r - p PROVE SubSeq(a, c + 1, r - p) = SubSeq(s, p + c + 1, r)
  <2> DEFINE b == SubSeq(a, c + 1, r - p)
             d == SubSeq(s, p + c + 1, r)
  <2>1. b \in Seq(Bytes) /\ Len(b) = r - p - c
    BY <1>2, <1>3
  <2>2. d \in Seq(Bytes) /\ Len(d) = r - p - c
    BY <1>1, <1>2
  <2>3. ASSUME NEW i \in 1..r - p - c PROVE b[i] = d[i]
    <3>1. b[i] = a[c + i]
      BY <1>2, <1>3
    <3>2. c + i \in 1..r - p /\ p + (c + i) = p + c + i
      BY <1>2
    <3>3. a[c + i] = s[p + c + i]
      BY <1>3, <3>2
    <3>4. d[i] = s[p + c + i]
      BY <1>1, <1>2
    <3>5. QED
      BY <3>1, <3>3, <3>4
  <2> HIDE DEF b, d
  <2>4. b = d
    BY <2>1, <2>2, <2>3, SeqEqual
  <2>5. QED
    BY <2>4 DEF b, d
<1>5. QED
  BY <1>3, <1>4 DEF From, s, a

LEMMA FromNothing ==
    ASSUME SentOK, NEW r \in Int, NEW p \in Int, p >= r
    PROVE  From(p, r) = <<>>
BY SubSeqEmpty DEF From

LEMMA Joined ==
    ASSUME SentOK, NEW r \in 0..Len(Stream), NEW a \in 0..r, NEW p \in 0..a
    PROVE  From(p, a) \o SubSeq(Stream, a + 1, r) = From(p, r)
<1> DEFINE b == From(p, a)
           c == From(a, r)
           d == From(p, r)
<1>1. Len(Stream) \in Nat
  BY StreamIs
<1>2. a \in 0..Len(Stream) /\ p \in 0..r /\ a \in Nat /\ p \in Nat /\ r \in Nat /\ p <= a /\ a <= r
  BY <1>1
<1>3. b \in Seq(Bytes) /\ Len(b) = a - p /\ \A i \in 1..a - p : b[i] = Stream[p + i]
  BY <1>2, FromIs
<1>4. c \in Seq(Bytes) /\ Len(c) = r - a /\ \A i \in 1..r - a : c[i] = Stream[a + i]
  BY FromIs
<1>5. d \in Seq(Bytes) /\ Len(d) = r - p /\ \A i \in 1..r - p : d[i] = Stream[p + i]
  BY <1>2, FromIs
<1> HIDE DEF b, c, d
<1>6. /\ b \o c \in Seq(Bytes) /\ Len(b \o c) = r - p
      /\ \A i \in 1..r - p : (b \o c)[i] = IF i <= a - p THEN b[i] ELSE c[i - (a - p)]
  <2>1. /\ b \o c \in Seq(Bytes) /\ Len(b \o c) = Len(b) + Len(c)
        /\ \A i \in 1..Len(b) + Len(c) :
              (b \o c)[i] = IF i <= Len(b) THEN b[i] ELSE c[i - Len(b)]
    BY <1>3, <1>4, ConcatProperties
  <2>2. Len(b) + Len(c) = r - p
    BY <1>2, <1>3, <1>4
  <2>3. QED
    BY <1>3, <2>1, <2>2
<1>7. ASSUME NEW i \in 1..r - p PROVE (b \o c)[i] = d[i]
  <2>1. CASE i <= a - p
    <3>1. (b \o c)[i] = b[i] /\ i \in 1..a - p
      BY <1>2, <1>6, <2>1
    <3>2. QED
      BY <1>3, <1>5, <3>1
  <2>2. CASE ~(i <= a - p)
    <3>1. (b \o c)[i] = c[i - (a - p)] /\ i - (a - p) \in 1..r - a /\ a + (i - (a - p)) = p + i
      BY <1>2, <1>6, <2>2
    <3>2. QED
      BY <1>4, <1>5, <3>1
  <2>3. QED
    BY <2>1, <2>2
<1>8. b \o c = d
  BY <1>5, <1>6, <1>7, SeqEqual
<1>9. QED
  BY <1>8 DEF b, c, d, From

-----------------------------------------------------------------------------
(* Where the splitter is.                                                  *)

\* k messages are taken and p bytes read: what is left of message k is skipped.
At(k, p) ==
    /\ k \in 0..Len(sent) /\ p \in Nat /\ p <= EndOf(k)
    /\ k # 0 => p > EndOf(k - 1)
    /\ \A q \in p + 1..EndOf(k) : Stream[q] \in Skip

\* Message k + 1 cannot be taken, of r bytes.
Settled(k, r) == k < Len(sent) => r < EndOf(k) + Taken(k + 1)

LEMMA AtStart == SentOK => At(0, 0)
BY StreamIs DEF At

\* Message k + 1 in the stream.
LEMMA MessageAt ==
    ASSUME SentOK, NEW k \in 0..Len(sent), k < Len(sent)
    PROVE  LET x == sent[k + 1] IN
           /\ k + 1 \in 1..Len(sent) /\ EndOf(k) \in Nat
           /\ EndOf(k + 1) = EndOf(k) + Len(x.code) /\ EndOf(k + 1) <= Len(Stream)
           /\ \A j \in 1..Len(x.code) : Stream[EndOf(k) + j] = x.code[j]
           /\ Messages[k + 1] = x.message
<1>1. Len(sent) \in Nat
  BY StreamIs
<1>2. k + 1 \in 1..Len(sent) /\ k + 1 \in 0..Len(sent) /\ k + 1 - 1 = k
  BY <1>1
<1>3. ASSUME NEW i \in 1..Len(sent), i - 1 = k
      PROVE  /\ EndOf(i) = EndOf(k) + Len(sent[i].code)
             /\ \A j \in 1..Len(sent[i].code) : Stream[EndOf(k) + j] = sent[i].code[j]
             /\ Messages[i] = sent[i].message
  BY <1>3, StreamIs
<1>4. EndOf(k) \in Nat /\ EndOf(k + 1) <= Len(Stream)
  BY <1>2, StreamIs
<1>5. QED
  BY <1>2, <1>3, <1>4

LEMMA AtNext ==
    ASSUME SentOK, NEW k \in 0..Len(sent), k < Len(sent), Taken(k + 1) <= Len(sent[k + 1].code)
    PROVE  At(k + 1, EndOf(k) + Taken(k + 1))
<1> DEFINE x == sent[k + 1]
           f == Taken(k + 1)
           e == EndOf(k)
<1>1. /\ k + 1 \in 1..Len(sent) /\ e \in Nat /\ EndOf(k + 1) = e + Len(x.code)
      /\ \A j \in 1..Len(x.code) : Stream[e + j] = x.code[j]
  BY MessageAt
<1>2. /\ f \in 1..Len(x.code) + 1 /\ Len(x.code) \in Nat
      /\ \A q \in f + 1..Len(x.code) : x.code[q] \in Skip
  BY <1>1, TakenIs
<1>3. f <= Len(x.code)
  OBVIOUS
<1>4. k + 1 \in 0..Len(sent) /\ k + 1 - 1 = k
  BY <1>1
<1> HIDE DEF x, f
<1>5. ASSUME NEW q \in e + f + 1..e + Len(x.code) PROVE Stream[q] \in Skip
  <2> DEFINE c == Len(x.code)
  <2>1. e \in Nat /\ f \in 1..c + 1 /\ c \in Nat /\ q \in e + f + 1..e + c
    BY <1>1, <1>2
  <2> HIDE DEF c, e
  <2>2. q - e \in f + 1..c /\ q - e \in 1..c /\ e + (q - e) = q
    BY <2>1
  <2>3. QED
    BY <1>1, <1>2, <2>2 DEF c, e
<1>6. e + f \in Nat /\ e + f <= EndOf(k + 1) /\ e + f > e
  BY <1>1, <1>2, <1>3
<1>7. k + 1 # 0 => e + f > EndOf(k + 1 - 1)
  BY <1>4, <1>6
<1>8. \A q \in e + f + 1..EndOf(k + 1) : Stream[q] \in Skip
  BY <1>1, <1>5
<1>9. QED
  BY <1>4, <1>6, <1>7, <1>8 DEF At, f

\* The skipped bytes after message k that are not read yet are skipped later.
LEMMA AtRead ==
    ASSUME SentOK, NEW k, NEW p, At(k, p), NEW r \in 0..Len(Stream), p <= r
    PROVE  \E q \in 0..r : At(k, q) /\ q >= p /\ From(q, r) = From(EndOf(k), r)
<1> DEFINE e == EndOf(k)
           q == IF e <= r THEN e ELSE r
<1>1. e \in Nat /\ p \in Nat /\ p <= e /\ r \in Nat /\ Len(Stream) \in Nat
  BY StreamIs DEF At
<1>2. From(q, r) = From(e, r)
  <2>1. CASE e <= r
    BY <2>1
  <2>2. CASE ~(e <= r)
    <3>1. q = r /\ r >= r /\ e >= r
      BY <1>1, <2>2
    <3>2. From(r, r) = <<>> /\ From(e, r) = <<>>
      BY <1>1, <3>1, FromNothing
    <3>3. QED
      BY <3>1, <3>2
  <2>3. QED
    BY <2>1, <2>2
<1>3. q \in 0..r /\ q >= p /\ q <= e
  BY <1>1
<1> HIDE DEF q
<1>4. At(k, q)
  <2>1. ASSUME k # 0 PROVE q > EndOf(k - 1)
    <3>1. p > EndOf(k - 1) /\ EndOf(k - 1) \in Nat
      <4>1. k - 1 \in 0..Len(sent)
        BY <2>1, StreamIs DEF At
      <4>2. QED
        BY <2>1, <4>1, StreamIs DEF At
    <3>2. QED
      BY <1>1, <1>3, <3>1
  <2>2. \A i \in q + 1..e : Stream[i] \in Skip
    <3>1. ASSUME NEW i \in q + 1..e PROVE i \in p + 1..e
      BY <1>1, <1>3
    <3>2. QED
      BY <3>1 DEF At
  <2>3. QED
    BY <1>3, <2>1, <2>2 DEF At
<1>5. QED
  BY <1>2, <1>3, <1>4

LEMMA SkipTo ==
    ASSUME SentOK, NEW k, NEW p, At(k, p), NEW r \in 0..Len(Stream), p <= r
    PROVE  Skipped(From(p, r)) = From(EndOf(k), r)
<1>1. PICK q \in 0..r : At(k, q) /\ q >= p /\ From(q, r) = From(EndOf(k), r)
  BY AtRead
<1> DEFINE b == From(p, r)
           c == q - p
<1>2. p \in Nat /\ r \in Nat /\ p \in 0..r /\ c \in 0..r - p /\ p + c = q
  BY <1>1 DEF At
<1>3. /\ b \in Seq(Bytes) /\ Len(b) = r - p
      /\ \A i \in 1..r - p : b[i] = Stream[p + i]
      /\ \A d \in 0..r - p : SubSeq(b, d + 1, r - p) = From(p + d, r)
  BY <1>2, FromIs
<1>4. EndOf(k) \in Nat /\ q <= EndOf(k) /\ \A i \in p + 1..EndOf(k) : Stream[i] \in Skip
  BY <1>1, StreamIs DEF At
<1> HIDE DEF b, c
<1>5. \A i \in 1..c : b[i] \in Skip
  <2>1. ASSUME NEW i \in 1..c PROVE i \in 1..r - p /\ p + i \in p + 1..EndOf(k)
    BY <1>2, <1>4
  <2>2. QED
    BY <1>3, <1>4, <2>1
<1>6. ASSUME c < r - p PROVE b[c + 1] \notin Skip
  <2>1. q < r /\ c + 1 \in 1..r - p /\ p + (c + 1) = q + 1
    BY <1>1, <1>2, <1>6
  <2>2. q = EndOf(k)
    <3>1. CASE EndOf(k) <= r
      <4>1. Len(From(q, r)) = r - q /\ Len(From(EndOf(k), r)) = r - EndOf(k)
        BY <1>4, <3>1, FromIs
      <4>2. QED
        BY <1>1, <1>2, <1>4, <4>1
    <3>2. CASE ~(EndOf(k) <= r)
      <4>1. Len(From(q, r)) = r - q
        BY FromIs
      <4>2. From(EndOf(k), r) = <<>>
        BY <1>2, <1>4, <3>2, FromNothing
      <4>3. Len(<<>>) = 0
        OBVIOUS
      <4>4. QED
        BY <1>1, <1>2, <2>1, <4>1, <4>2, <4>3
    <3>3. QED
      BY <3>1, <3>2
  <2>3. k < Len(sent)
    <3>1. Len(sent) \in Nat /\ k \in 0..Len(sent) /\ Len(Stream) \in Nat /\ Len(Stream) = EndOf(Len(sent))
      BY StreamIs DEF At
    <3>2. k # Len(sent)
      BY <1>2, <2>1, <2>2, <3>1
    <3>3. QED
      BY <3>1, <3>2
  <2>4. sent[k + 1].code[1] \notin Skip /\ 1 \in 1..Len(sent[k + 1].code)
    BY <2>3, MessageAt, TakenIs DEF At
  <2>5. Stream[EndOf(k) + 1] = sent[k + 1].code[1]
    BY <2>3, <2>4, MessageAt DEF At
  <2>6. QED
    BY <1>3, <2>1, <2>2, <2>4, <2>5
<1>7. Skipped(b) = SubSeq(b, c + 1, r - p)
  BY <1>2, <1>3, <1>5, <1>6, SkippedIs
<1>8. SubSeq(b, c + 1, r - p) = From(q, r)
  BY <1>2, <1>3
<1>9. QED
  BY <1>1, <1>7, <1>8 DEF b

\* A pass over the bytes from p to r, which finds nothing, or message k + 1.
Waits(k, p, r, fr) ==
    Pass([frames |-> fr, rest |-> From(p, r)]) = [frames |-> fr, rest |-> From(EndOf(k), r)]

Takes(k, p, r, fr) ==
    /\ k < Len(sent)
    /\ At(k + 1, EndOf(k) + Taken(k + 1)) /\ EndOf(k) + Taken(k + 1) <= r
    /\ Pass([frames |-> fr, rest |-> From(p, r)]) =
           [frames |-> Append(fr, Messages[k + 1]), rest |-> From(EndOf(k) + Taken(k + 1), r)]

LEMMA PassAt ==
    ASSUME SentOK, NEW k, NEW p, At(k, p), NEW r \in 0..Len(Stream), p <= r, NEW fr
    PROVE  IF Settled(k, r) THEN Waits(k, p, r, fr) ELSE Takes(k, p, r, fr)
<1> DEFINE e == EndOf(k)
           b == From(e, r)
           s == [frames |-> fr, rest |-> b]
           x == sent[k + 1]
           f == Taken(k + 1)
<1>1. k \in 0..Len(sent) /\ Len(sent) \in Nat /\ e \in Nat /\ r \in Nat /\ Len(Stream) \in Nat
  BY StreamIs DEF At
<1>2. Pass([frames |-> fr, rest |-> From(p, r)]) = Pass(s) /\ Skipped(b) = b
  <2>1. Skipped(From(p, r)) = b
    BY SkipTo
  <2>2. PICK q \in 0..r : At(k, q) /\ From(q, r) = b
    BY AtRead
  <2>3. Skipped(b) = b
    <3>1. q <= r
      BY <1>1
    <3>2. QED
      BY <2>2, <3>1, SkipTo
  <2>4. QED
    BY <2>1, <2>3, PassSkips
<1>3. ASSUME e <= r
      PROVE  /\ b \in Seq(Bytes) /\ Len(b) = r - e
             /\ \A i \in 1..r - e : b[i] = Stream[e + i]
             /\ \A c \in 0..r - e : SubSeq(b, c + 1, r - e) = From(e + c, r)
  <2>1. e \in 0..r
    BY <1>1, <1>3
  <2> HIDE DEF e
  <2>2. QED
    BY <2>1, FromIs
<1>4. r <= e => b = <<>>
  BY <1>1, FromNothing
<1>5. ASSUME k < Len(sent)
      PROVE  /\ Framed(x, f) /\ f \in 1..Len(x.code) + 1 /\ Len(x.code) \in Nat
             /\ EndOf(k + 1) = e + Len(x.code) /\ EndOf(k + 1) <= Len(Stream)
             /\ \A j \in 1..Len(x.code) : Stream[e + j] = x.code[j]
             /\ Messages[k + 1] = x.message
             /\ k + 1 < Len(sent) => f <= Len(x.code)
  BY <1>1, <1>5, MessageAt, TakenIs
<1> HIDE DEF b, x, f
<1>6. ASSUME Settled(k, r) PROVE Pass(s) = s
  <2>1. CASE b = <<>>
    <3>1. b \in Seq(Bytes) /\ Spaces(b) = {} /\ Delimiters(b) = {}
      BY <2>1 DEF Spaces, Delimiters, Positions
    <3>2. CountEnd(b) = 0
      BY <3>1, NoCount
    <3>3. QED
      BY <1>2, <3>1, <3>2, PassDelimited
  <2>2. CASE b # <<>>
    <3>1. e < r
      BY <1>1, <1>4, <2>2
    <3>2. k < Len(sent)
      <4>1. k # Len(sent)
        BY <1>1, <3>1, StreamIs
      <4>2. QED
        BY <1>1, <4>1
    <3>3. r < e + f
      BY <1>6, <3>2 DEF Settled, f
    <3>4. /\ Framed(x, f) /\ f \in 1..Len(x.code) + 1 /\ Len(x.code) \in Nat
          /\ \A j \in 1..Len(x.code) : Stream[e + j] = x.code[j]
      BY <1>5, <3>2
    <3>5. b \in Seq(Bytes) /\ Len(b) = r - e /\ \A i \in 1..r - e : b[i] = Stream[e + i]
      BY <1>1, <1>3, <3>1
    <3>6. Len(b) < f
      BY <1>1, <3>3, <3>4, <3>5
    <3>7. \A j \in 1..Len(b) : b[j] = x.code[j]
      <4>1. ASSUME NEW j \in 1..Len(b) PROVE j \in 1..Len(x.code) /\ j \in 1..r - e
        BY <1>1, <3>4, <3>5, <3>6
      <4>2. QED
        BY <3>4, <3>5, <4>1
    <3>8. QED
      BY <3>4, <3>5, <3>6, <3>7, FrameAwaited
  <2>3. QED
    BY <2>1, <2>2
<1>7. ASSUME ~Settled(k, r)
      PROVE  /\ k < Len(sent)
             /\ At(k + 1, e + f) /\ e + f <= r
             /\ Pass(s) = [frames |-> Append(fr, Messages[k + 1]), rest |-> From(e + f, r)]
  <2>1. k < Len(sent) /\ ~(r < e + f)
    BY <1>7 DEF Settled, f
  <2>2. /\ Framed(x, f) /\ f \in 1..Len(x.code) + 1 /\ Len(x.code) \in Nat
        /\ EndOf(k + 1) = e + Len(x.code)
        /\ \A j \in 1..Len(x.code) : Stream[e + j] = x.code[j]
        /\ Messages[k + 1] = x.message
        /\ k + 1 < Len(sent) => f <= Len(x.code)
    BY <1>5, <2>1
  <2>3. e + f <= r
    BY <1>1, <2>1, <2>2
  <2>4. f <= Len(x.code)
    <3>1. CASE k + 1 = Len(sent)
      <4>1. Len(Stream) = e + Len(x.code) /\ r <= Len(Stream)
        BY <1>1, <2>2, <3>1, StreamIs
      <4>2. QED
        BY <1>1, <2>2, <2>3, <4>1
    <3>2. CASE k + 1 # Len(sent)
      BY <1>1, <2>1, <2>2, <3>2
    <3>3. QED
      BY <3>1, <3>2
  <2>5. At(k + 1, e + f)
    BY <1>1, <2>1, <2>4, AtNext DEF x, f
  <2>6. /\ b \in Seq(Bytes) /\ Len(b) = r - e /\ \A i \in 1..r - e : b[i] = Stream[e + i]
        /\ \A c \in 0..r - e : SubSeq(b, c + 1, r - e) = From(e + c, r)
    <3>1. e <= r
      BY <1>1, <2>2, <2>3
    <3>2. QED
      BY <1>3, <3>1
  <2>7. \A j \in 1..f : b[j] = x.code[j]
    <3>1. ASSUME NEW j \in 1..f PROVE j \in 1..r - e /\ j \in 1..Len(x.code)
      BY <1>1, <2>2, <2>3, <2>4
    <3>2. QED
      BY <2>2, <2>6, <3>1
  <2>8. f <= Len(b) /\ f \in 0..r - e
    BY <1>1, <2>2, <2>3, <2>6
  <2>9. Pass(s) = [frames |-> Append(fr, x.message), rest |-> SubSeq(b, f + 1, Len(b))]
    <3>1. Framed(x, f) /\ b \in Seq(Bytes)
      BY <2>2, <2>6
    <3>2. Starts(b, x, f)
      BY <2>4, <2>7, <2>8 DEF Starts
    <3>3. TakesFrame(fr, b, x, f)
      BY ONLY <3>1, <3>2, FrameTaken
    <3>4. QED
      BY ONLY <3>3 DEF TakesFrame, s
  <2>10. QED
    BY <2>1, <2>2, <2>3, <2>5, <2>6, <2>8, <2>9
<1>8. QED
  BY <1>2, <1>6, <1>7 DEF b, f, Waits, Takes

LEMMA AppendConcat ==
    ASSUME NEW S, NEW a \in Seq(S), NEW b \in Seq(S), NEW x \in S
    PROVE  a \o Append(b, x) = Append(a \o b, x)
BY ConcatProperties, AppendProperties, SeqEqual

LEMMA Halves ==
    ASSUME NEW S, NEW c \in Seq(S), NEW k \in 0..Len(c), NEW a \in 0..k
    PROVE  /\ SubSeq(c, 1, a) \o SubSeq(c, a + 1, k) = SubSeq(c, 1, k)
           /\ k < Len(c) => Append(SubSeq(c, a + 1, k), c[k + 1]) = SubSeq(c, a + 1, k + 1)
<1> DEFINE u == SubSeq(c, 1, a)
           v == SubSeq(c, a + 1, k)
           w == SubSeq(c, 1, k)
           y == SubSeq(c, a + 1, k + 1)
           n == Len(c)
<1>1. n \in Nat /\ a \in Nat /\ k \in Nat /\ a <= k /\ k <= n
  BY LenProperties
<1>2. u \in Seq(S) /\ Len(u) = a /\ \A i \in 1..a : u[i] = c[i]
  BY <1>1
<1>3. v \in Seq(S) /\ Len(v) = k - a /\ \A i \in 1..k - a : v[i] = c[a + i]
  BY <1>1
<1>4. w \in Seq(S) /\ Len(w) = k /\ \A i \in 1..k : w[i] = c[i]
  BY <1>1
<1>5. k < n => y \in Seq(S) /\ Len(y) = k + 1 - a /\ \A i \in 1..k + 1 - a : y[i] = c[a + i]
  BY <1>1
<1>6. k < n => c[k + 1] \in S
  <2>1. k < n => k + 1 \in 1..Len(c)
    BY <1>1
  <2>2. QED
    BY <2>1, ElementOfSeq
<1> DEFINE d == c[k + 1]
<1> HIDE DEF u, v, w, y, n
<1>7. u \o v = w
  <2>1. /\ u \o v \in Seq(S) /\ Len(u \o v) = Len(u) + Len(v)
        /\ \A i \in 1..Len(u) + Len(v) : (u \o v)[i] = IF i <= Len(u) THEN u[i] ELSE v[i - Len(u)]
    BY <1>2, <1>3, ConcatProperties
  <2>2. Len(u) + Len(v) = k
    BY <1>1, <1>2, <1>3
  <2>3. ASSUME NEW i \in 1..k PROVE (u \o v)[i] = w[i]
    <3>1. CASE i <= a
      <4>1. (u \o v)[i] = u[i] /\ i \in 1..a
        BY <1>1, <1>2, <2>1, <2>2, <3>1
      <4>2. QED
        BY <1>2, <1>4, <4>1
    <3>2. CASE ~(i <= a)
      <4>1. i - a \in 1..k - a /\ a + (i - a) = i
        BY <1>1, <3>2
      <4>2. (u \o v)[i] = v[i - a]
        BY <1>2, <2>1, <2>2, <3>2
      <4>3. QED
        BY <1>3, <1>4, <4>1, <4>2
    <3>3. QED
      BY <3>1, <3>2
  <2>4. QED
    BY <1>4, <2>1, <2>2, <2>3, SeqEqual
<1>8. ASSUME k < n PROVE Append(v, d) = y
  <2>1. /\ Append(v, d) \in Seq(S) /\ Len(Append(v, d)) = k + 1 - a
        /\ \A i \in 1..k - a : Append(v, d)[i] = v[i]
        /\ Append(v, d)[k - a + 1] = d
    <3>1. d \in S
      BY <1>6, <1>8
    <3>2. /\ Append(v, d) \in Seq(S) /\ Len(Append(v, d)) = Len(v) + 1
          /\ \A i \in 1..Len(v) : Append(v, d)[i] = v[i]
          /\ Append(v, d)[Len(v) + 1] = d
      BY <1>3, <3>1, AppendProperties
    <3>3. QED
      BY <1>1, <1>3, <3>2
  <2>2. ASSUME NEW i \in 1..k + 1 - a PROVE Append(v, d)[i] = y[i]
    <3>1. CASE i = k - a + 1
      <4>1. a + i = k + 1
        BY <1>1, <3>1
      <4>2. y[i] = c[k + 1]
        BY <1>5, <1>8, <4>1
      <4>3. QED
        BY <2>1, <3>1, <4>2
    <3>2. CASE i # k - a + 1
      <4>1. i \in 1..k - a
        BY <1>1, <3>2
      <4>2. QED
        BY <1>3, <1>5, <1>8, <2>1, <4>1
    <3>3. QED
      BY <3>1, <3>2
  <2>3. QED
    BY <1>5, <1>8, <2>1, <2>2, SeqEqual
<1>9. QED
  BY <1>7, <1>8 DEF u, v, w, y, n

\* What a split of the bytes from p to r yields: the messages after k up to n.
SplitTo(k, n, q, r, split) ==
    /\ At(n, q) /\ q <= r /\ k <= n /\ Settled(n, r)
    /\ split = [frames |-> SubSeq(Messages, k + 1, n), rest |-> From(EndOf(n), r)]

LEMMA SplitAt ==
    ASSUME SentOK, NEW k, NEW p, At(k, p), NEW r \in 0..Len(Stream), p <= r
    PROVE  \E n, q : SplitTo(k, n, q, r, Split(From(p, r)))
<1> DEFINE b == From(p, r)
           m == Len(b)
           M == Messages
           Reached(i, n, q) ==
               /\ At(n, q) /\ q <= r /\ k <= n /\ q >= p + i
               /\ Passes(b)[i] = [frames |-> SubSeq(M, k + 1, n), rest |-> From(q, r)]
           Good(i) == (\E n, q : Reached(i, n, q)) \/ (\E n, q : SplitTo(k, n, q, r, Passes(b)[i]))
           T == {i \in Nat : i <= m => Good(i)}
<1>1. /\ k \in 0..Len(sent) /\ Len(sent) \in Nat /\ p \in Nat /\ r \in Nat /\ p \in 0..r
      /\ M \in Seq(Seq(Bytes)) /\ Len(M) = Len(sent)
  BY StreamIs, CodeIs DEF At
<1>2. b \in Seq(Bytes) /\ m = r - p /\ m \in Nat
  <2>1. b \in Seq(Bytes) /\ m = r - p
    BY <1>1, FromIs
  <2>2. r - p \in Nat
    BY <1>1
  <2>3. QED
    BY <2>1, <2>2
<1>3. /\ Passes(b)[0] = [frames |-> <<>>, rest |-> b]
      /\ \A n \in 1..m : Passes(b)[n] = Pass(Passes(b)[n - 1])
  BY <1>2, PassesDefined
<1>4. Split(b) = Passes(b)[m]
  BY DEF Split
<1> HIDE DEF b, m, M
<1>5. 0 \in T
  <2>1. SubSeq(M, k + 1, k) = <<>>
    BY <1>1, SubSeqEmpty
  <2>2. Reached(0, k, p)
    BY <1>1, <1>3, <2>1 DEF b
  <2> HIDE DEF Reached
  <2>3. QED
    BY <2>2
<1>6. ASSUME NEW i \in Nat, i \in T PROVE i + 1 \in T
  <2> HIDE DEF Good
  <2>1. SUFFICES ASSUME i + 1 <= m PROVE Good(i + 1)
    OBVIOUS
  <2>2. i + 1 \in 1..m /\ i + 1 - 1 = i /\ i <= m
    BY <1>2, <2>1
  <2>3. Passes(b)[i + 1] = Pass(Passes(b)[i])
    <3>1. ASSUME NEW j \in 1..m, j - 1 = i PROVE Passes(b)[j] = Pass(Passes(b)[i])
      BY <1>3, <3>1
    <3>2. QED
      BY <2>2, <3>1
  <2>4. Good(i)
    BY <1>6, <2>2
  <2>5. ASSUME NEW n, NEW q, Reached(i, n, q) PROVE Good(i + 1)
    <3> DEFINE fr == SubSeq(M, k + 1, n)
               f == EndOf(n) + Taken(n + 1)
    <3>1. At(n, q) /\ q <= r /\ k <= n /\ q >= p + i /\ Passes(b)[i] = [frames |-> fr, rest |-> From(q, r)]
      BY <2>5
    <3>2. n \in 0..Len(sent) /\ q \in Nat /\ EndOf(n) \in Nat /\ q <= EndOf(n)
      BY <3>1, StreamIs DEF At
    <3>3. CASE Settled(n, r)
      <4>1. Passes(b)[i + 1] = [frames |-> fr, rest |-> From(EndOf(n), r)]
        <5> HIDE DEF fr
        <5>1. Pass([frames |-> fr, rest |-> From(q, r)]) = [frames |-> fr, rest |-> From(EndOf(n), r)]
          <6>1. Waits(n, q, r, fr)
            BY <3>1, <3>3, PassAt
          <6>2. QED
            BY <6>1 DEF Waits
        <5>2. QED
          BY <2>3, <3>1, <5>1
      <4>2. SplitTo(k, n, q, r, Passes(b)[i + 1])
        BY <3>1, <3>3, <4>1 DEF SplitTo, M
      <4>3. QED
        BY <4>2 DEF Good
    <3>4. CASE ~Settled(n, r)
      <4> HIDE DEF fr
      <4>1. /\ n < Len(sent) /\ At(n + 1, f) /\ f <= r
            /\ Passes(b)[i + 1] = [frames |-> Append(fr, M[n + 1]), rest |-> From(f, r)]
        <5>1. /\ n < Len(sent) /\ At(n + 1, f) /\ f <= r
              /\ Pass([frames |-> fr, rest |-> From(q, r)]) =
                    [frames |-> Append(fr, Messages[n + 1]), rest |-> From(f, r)]
          <6>1. Takes(n, q, r, fr)
            BY <3>1, <3>4, PassAt
          <6>2. QED
            BY <6>1 DEF Takes
        <5>2. QED
          BY <2>3, <3>1, <5>1 DEF M
      <4>2. Append(fr, M[n + 1]) = SubSeq(M, k + 1, n + 1)
        <5>1. n \in 0..Len(M) /\ k \in 0..n /\ n < Len(M)
          BY <1>1, <3>1, <3>2, <4>1
        <5>2. QED
          BY <1>1, <5>1, Halves DEF fr
      <4>3. f >= p + (i + 1) /\ k <= n + 1
        <5>1. Taken(n + 1) \in Nat /\ Taken(n + 1) >= 1
          <6>1. n + 1 \in 1..Len(sent)
            BY <1>1, <3>2, <4>1
          <6>2. Taken(n + 1) \in 1..Len(sent[n + 1].code) + 1 /\ Len(sent[n + 1].code) \in Nat
            BY <6>1, TakenIs
          <6>3. QED
            BY <6>2
        <5>2. QED
          BY <1>1, <3>1, <3>2, <5>1
      <4>4. Reached(i + 1, n + 1, f)
        BY <4>1, <4>2, <4>3
      <4> HIDE DEF Reached
      <4>5. QED
        BY <4>4 DEF Good
    <3>5. QED
      BY <3>3, <3>4
  <2>6. ASSUME NEW n, NEW q, SplitTo(k, n, q, r, Passes(b)[i]) PROVE Good(i + 1)
    <3> DEFINE fr == SubSeq(M, k + 1, n)
    <3>1. At(n, q) /\ q <= r /\ Settled(n, r) /\ Passes(b)[i] = [frames |-> fr, rest |-> From(EndOf(n), r)]
      BY <2>6 DEF SplitTo, M
    <3>2. PICK s \in 0..r : At(n, s) /\ From(s, r) = From(EndOf(n), r)
      BY <3>1, AtRead
    <3>3. Pass([frames |-> fr, rest |-> From(s, r)]) = [frames |-> fr, rest |-> From(EndOf(n), r)]
      <4> HIDE DEF fr
      <4>1. s <= r
        BY <1>1
      <4>2. Waits(n, s, r, fr)
        BY <3>1, <3>2, <4>1, PassAt
      <4>3. QED
        BY <4>2 DEF Waits
    <3>4. Passes(b)[i + 1] = Passes(b)[i]
      BY <2>3, <3>1, <3>2, <3>3
    <3>5. QED
      BY <2>6, <3>4 DEF Good
  <2> HIDE DEF Reached
  <2>7. QED
    BY <2>4, <2>5, <2>6 DEF Good
<1> HIDE DEF Good
<1>7. Good(m)
  <2> HIDE DEF T
  <2>1. Nat \subseteq T
    BY <1>5, <1>6, Induction
  <2>2. QED
    BY <1>2, <2>1 DEF T
<1>8. ASSUME NEW n, NEW q, Reached(m, n, q) PROVE SplitTo(k, n, q, r, Split(b))
  <2>1. /\ At(n, q) /\ q <= r /\ k <= n /\ q >= p + m
        /\ Passes(b)[m] = [frames |-> SubSeq(M, k + 1, n), rest |-> From(q, r)]
    BY <1>8
  <2>2. n \in 0..Len(sent) /\ q \in Nat /\ EndOf(n) \in Nat /\ q <= EndOf(n)
    BY <2>1, StreamIs DEF At
  <2>3. q = r /\ EndOf(n) >= r
    BY <1>1, <1>2, <2>1, <2>2
  <2>4. From(q, r) = From(EndOf(n), r)
    <3>1. From(q, r) = <<>> /\ From(EndOf(n), r) = <<>>
      BY <1>1, <2>2, <2>3, FromNothing
    <3>2. QED
      BY <3>1
  <2>5. Settled(n, r)
    <3>1. ASSUME n < Len(sent) PROVE r < EndOf(n) + Taken(n + 1)
      <4>1. n + 1 \in 1..Len(sent)
        BY <1>1, <2>2, <3>1
      <4>2. Taken(n + 1) \in 1..Len(sent[n + 1].code) + 1 /\ Len(sent[n + 1].code) \in Nat
        BY <4>1, TakenIs
      <4>3. QED
        BY <1>1, <2>2, <2>3, <4>2
    <3>2. QED
      BY <3>1 DEF Settled
  <2>6. QED
    BY <1>4, <2>1, <2>4, <2>5 DEF SplitTo, M
<1> HIDE DEF Reached
<1>9. QED
  BY <1>4, <1>7, <1>8 DEF Good, b

-----------------------------------------------------------------------------
(* The invariant.                                                          *)

\* k messages are queued, and the buffer holds what was read after them; once the
\* connection is closed it is queued as well.
Held(k, p) ==
    /\ SplitTo(0, k, p, read, [frames |-> SubSeq(Messages, 1, k), rest |-> buffer])
    /\ frames = IF connection = "closed" /\ ~Blank(buffer)
                THEN Append(SubSeq(Messages, 1, k), buffer) ELSE SubSeq(Messages, 1, k)

IInv ==
    /\ SentOK
    /\ read \in 0..Len(Stream)
    /\ buffer \in Seq(Bytes) /\ Len(buffer) <= MaxFrame
    /\ Fits => \E k, p : Held(k, p)

LEMMA InitIInv == Init => IInv
<1> SUFFICES ASSUME Init PROVE IInv
  OBVIOUS
<1>1. SentOK
  BY InitSent
<1>2. /\ Len(sent) \in Nat /\ EndOf(0) = 0 /\ Len(Stream) \in Nat
      /\ Messages \in Seq(Seq(Bytes)) /\ Len(Messages) = Len(sent)
  BY <1>1, StreamIs, LenProperties
<1>3. read = 0 /\ buffer = <<>> /\ frames = <<>> /\ connection = "open"
  BY DEF Init
<1>4. SubSeq(Messages, 1, 0) = <<>> /\ SubSeq(Messages, 0 + 1, 0) = <<>> /\ From(0, 0) = <<>>
  BY <1>1, <1>2, SubSeqEmpty, FromNothing
<1>5. Settled(0, 0)
  <2>1. ASSUME 0 < Len(sent) PROVE 0 < EndOf(0) + Taken(0 + 1)
    <3>1. 1 \in 1..Len(sent)
      BY <1>2, <2>1
    <3>2. Taken(1) \in 1..Len(sent[1].code) + 1 /\ Len(sent[1].code) \in Nat
      BY <1>1, <3>1, TakenIs
    <3>3. QED
      BY <1>2, <3>2
  <2>2. QED
    BY <2>1 DEF Settled
<1>6. SplitTo(0, 0, 0, read, [frames |-> SubSeq(Messages, 1, 0), rest |-> buffer])
  BY <1>1, <1>2, <1>3, <1>4, <1>5, AtStart DEF SplitTo
<1>7. Held(0, 0)
  BY <1>3, <1>4, <1>6 DEF Held
<1>8. buffer \in Seq(Bytes) /\ Len(buffer) <= MaxFrame /\ read \in 0..Len(Stream)
  BY <1>2, <1>3, BoundsAssumption
<1>9. QED
  BY <1>1, <1>7, <1>8 DEF IInv

\* What a chunk adds.
LEMMA Received ==
    ASSUME IInv, Fits, connection = "open", NEW r \in 0..Len(Stream), read <= r
    PROVE  LET split == Split(buffer \o SubSeq(Stream, read + 1, r)) IN
           /\ frames \in Seq(Seq(Bytes)) /\ split.frames \in Seq(Seq(Bytes))
           /\ \E k, p : SplitTo(0, k, p, r, [frames |-> frames \o split.frames, rest |-> split.rest])
<1> DEFINE b == buffer \o SubSeq(Stream, read + 1, r)
           M == Messages
<1>1. SentOK /\ read \in 0..Len(Stream) /\ Len(Stream) \in Nat
  <2>1. SentOK /\ read \in 0..Len(Stream)
    BY DEF IInv
  <2>2. QED
    BY <2>1, StreamIs, LenProperties
<1>2. PICK k, p : Held(k, p)
  BY DEF IInv
<1>3. At(k, p) /\ p <= read /\ buffer = From(EndOf(k), read) /\ frames = SubSeq(M, 1, k)
  BY <1>2 DEF Held, SplitTo
<1>4. PICK q \in 0..read : At(k, q) /\ From(q, read) = buffer
  BY <1>1, <1>3, AtRead
<1>5. b = From(q, r) /\ q <= r
  <2>1. read \in 0..r /\ q <= r
    BY <1>1
  <2>2. QED
    BY <1>1, <1>4, <2>1, Joined
<1>6. PICK n, s : SplitTo(k, n, s, r, Split(b))
  BY <1>1, <1>4, <1>5, SplitAt
<1>7. /\ At(n, s) /\ s <= r /\ k <= n /\ Settled(n, r)
      /\ Split(b) = [frames |-> SubSeq(M, k + 1, n), rest |-> From(EndOf(n), r)]
  BY <1>6 DEF SplitTo
<1>8. /\ k \in 0..Len(sent) /\ n \in 0..Len(sent) /\ Len(sent) \in Nat
      /\ M \in Seq(Seq(Bytes)) /\ Len(M) = Len(sent)
  BY <1>1, <1>3, <1>7, StreamIs DEF At
<1>9. frames \o SubSeq(M, k + 1, n) = SubSeq(M, 1, n)
  <2>1. n \in 0..Len(M) /\ k \in 0..n
    BY <1>7, <1>8
  <2> HIDE DEF M
  <2>2. QED
    BY <1>3, <1>8, <2>1, Halves
<1> HIDE DEF b
<1>10. Split(b).frames = SubSeq(M, k + 1, n) /\ Split(b).rest = From(EndOf(n), r)
  <2>1. \A a, c : [frames |-> a, rest |-> c].frames = a /\ [frames |-> a, rest |-> c].rest = c
    OBVIOUS
  <2> HIDE DEF M
  <2>2. Split(b) = [frames |-> SubSeq(M, k + 1, n), rest |-> From(EndOf(n), r)]
    BY <1>7
  <2>3. QED
    BY <2>1, <2>2, Zenon
<1>11. SplitTo(0, n, s, r, [frames |-> frames \o Split(b).frames, rest |-> Split(b).rest])
  <2>1. Split(b).frames = SubSeq(M, k + 1, n) /\ Split(b).rest = From(EndOf(n), r)
    BY <1>10
  <2>2. 0 <= n /\ 0 + 1 = 1
    BY <1>8
  <2>3. SubSeq(M, 0 + 1, n) = SubSeq(M, 1, n)
    BY <2>2
  <2> HIDE DEF M
  <2>4. QED
    BY <1>7, <1>9, <2>1, <2>2, <2>3 DEF SplitTo, M
<1>12. frames \in Seq(Seq(Bytes)) /\ Split(b).frames \in Seq(Seq(Bytes))
  <2> DEFINE W == Seq(Bytes)
  <2> HIDE DEF M, W
  <2>1. SubSeq(M, 1, k) \in Seq(W) /\ SubSeq(M, k + 1, n) \in Seq(W)
    <3>1. M \in Seq(W) /\ k \in 0..Len(M) /\ n \in 0..Len(M) /\ Len(M) \in Nat
      BY <1>8 DEF W
    <3>2. \A i \in 1..k : i \in 1..Len(M)
      BY ONLY <3>1
    <3>3. \A i \in k + 1..n : i \in 1..Len(M)
      BY ONLY <3>1
    <3>4. SubSeq(M, 1, k) \in Seq(W)
      BY ONLY <3>1, <3>2
    <3>5. SubSeq(M, k + 1, n) \in Seq(W)
      BY ONLY <3>1, <3>3
    <3>6. QED
      BY ONLY <3>4, <3>5
  <2>2. QED
    BY <1>3, <1>10, <2>1 DEF W
<1>13. QED
  BY <1>11, <1>12 DEF b

\* What is left over is too long only when it is the last message, sent bare.
LEMMA TooLongIs ==
    ASSUME SentOK, Fits, NEW r \in 0..Len(Stream), NEW k, NEW p, NEW s,
           SplitTo(0, k, p, r, s), TooLong(s.rest)
    PROVE  /\ k + 1 = Len(sent) /\ r = Len(Stream) /\ s.rest = Messages[k + 1]
           /\ SplitTo(0, k + 1, r, r, [frames |-> Append(s.frames, s.rest), rest |-> <<>>])
<1> DEFINE e == EndOf(k)
           x == sent[k + 1]
           f == Taken(k + 1)
           b == From(e, r)
           M == Messages
<1>1. /\ At(k, p) /\ p <= r /\ Settled(k, r) /\ s.rest = b /\ s.frames = SubSeq(M, 0 + 1, k)
  BY DEF SplitTo
<1>2. /\ k \in 0..Len(sent) /\ Len(sent) \in Nat /\ e \in Nat /\ r \in Nat /\ Len(Stream) \in Nat
      /\ Len(Stream) = EndOf(Len(sent)) /\ M \in Seq(Seq(Bytes)) /\ Len(M) = Len(sent)
  BY <1>1, StreamIs, LenProperties DEF At
<1>3. Len(b) > MaxFrame /\ MaxFrame \in Nat
  BY <1>1, BoundsAssumption DEF TooLong
<1>4. e < r
  <2>1. CASE r <= e
    <3>1. b = <<>>
      BY <1>2, <2>1, FromNothing
    <3>2. Len(<<>>) = 0
      OBVIOUS
    <3> HIDE DEF b
    <3>3. QED
      BY <1>3, <3>1, <3>2
  <2>2. QED
    BY <1>2, <2>1
<1>5. k < Len(sent)
  <2>1. k # Len(sent)
    BY <1>2, <1>4
  <2>2. QED
    BY <1>2, <2>1
<1>6. /\ k + 1 \in 1..Len(sent)
      /\ EndOf(k + 1) = e + Len(x.code) /\ EndOf(k + 1) <= Len(Stream)
      /\ \A j \in 1..Len(x.code) : Stream[e + j] = x.code[j]
      /\ M[k + 1] = x.message
  BY <1>2, <1>5, MessageAt
<1>7. /\ Framed(x, f) /\ f \in 1..Len(x.code) + 1 /\ Len(x.code) \in Nat \ {0}
      /\ f = Len(x.code) + 1 <=> Bare(x)
      /\ k + 1 < Len(sent) => f <= Len(x.code)
  BY <1>6, TakenIs
<1>8. Len(x.code) <= MaxFrame + 1
  <2>1. k + 1 \in DOMAIN sent
    BY <1>6 DEF SentOK
  <2>2. QED
    BY <2>1 DEF Fits
<1>9. r < e + f
  BY <1>1, <1>5 DEF Settled
<1>10. /\ b \in Seq(Bytes) /\ Len(b) = r - e /\ \A i \in 1..r - e : b[i] = Stream[e + i]
  <2>1. e \in 0..r
    BY <1>2, <1>4
  <2> HIDE DEF e
  <2>2. QED
    BY <2>1, FromIs
<1> HIDE DEF b, x, f, e, M
<1>11. r = e + Len(x.code) /\ f = Len(x.code) + 1
  <2> DEFINE c == Len(x.code)
  <2>1. c \in Nat /\ f \in 1..c + 1 /\ c <= MaxFrame + 1
    BY <1>7, <1>8
  <2>2. r - e > MaxFrame
    BY <1>3, <1>10
  <2> HIDE DEF c
  <2>3. r = e + c /\ f = c + 1
    BY <1>2, <1>3, <1>9, <2>1, <2>2
  <2>4. QED
    BY <2>3 DEF c
<1>12. Bare(x) /\ k + 1 = Len(sent)
  <2>1. ~(f <= Len(x.code))
    BY <1>7, <1>11
  <2>2. QED
    BY <1>2, <1>5, <1>7, <1>11, <2>1
<1>13. r = EndOf(k + 1) /\ r = Len(Stream)
  BY <1>2, <1>6, <1>11, <1>12
<1>14. b = x.message
  <2>1. x.code \in Seq(Bytes) /\ x.code = x.message
    BY <1>7, <1>12 DEF Framed, Bare
  <2>2. Len(b) = Len(x.code) /\ \A j \in 1..Len(b) : b[j] = x.code[j]
    BY <1>2, <1>6, <1>7, <1>10, <1>11
  <2>3. b = x.code
    BY <1>10, <2>1, <2>2, SeqEqual
  <2>4. QED
    BY <2>1, <2>3
<1>15. Append(s.frames, s.rest) = SubSeq(M, 0 + 1, k + 1)
  <2>1. k \in 0..Len(M) /\ 0 \in 0..k /\ k < Len(M)
    BY <1>2, <1>5
  <2>2. Append(SubSeq(M, 0 + 1, k), M[k + 1]) = SubSeq(M, 0 + 1, k + 1)
    BY <1>2, <2>1, Halves
  <2>3. QED
    BY <1>1, <1>6, <1>14, <2>2
<1>16. At(k + 1, r)
  <2>1. k + 1 \in 0..Len(sent) /\ k + 1 - 1 = k /\ r > e
    BY <1>2, <1>4, <1>6
  <2>2. r + 1..EndOf(k + 1) = {}
    BY <1>2, <1>13
  <2>3. EndOf(k + 1) = r
    BY <1>13
  <2>4. QED
    BY <1>2, <2>1, <2>2, <2>3 DEF At, e
<1>17. From(EndOf(k + 1), r) = <<>>
  BY <1>2, <1>13, FromNothing
<1>18. Settled(k + 1, r)
  BY <1>2, <1>12 DEF Settled
<1>19. SplitTo(0, k + 1, r, r, [frames |-> Append(s.frames, s.rest), rest |-> <<>>])
  <2>1. 0 <= k + 1 /\ r <= r
    BY <1>2
  <2>2. QED
    BY <1>15, <1>16, <1>17, <1>18, <2>1 DEF SplitTo, M
<1>20. QED
  BY <1>1, <1>6, <1>12, <1>13, <1>14, <1>19 DEF M

\* What the sender sends does not change.
LEMMA SameSent ==
    ASSUME sent' = sent
    PROVE  /\ SentOK' <=> SentOK
           /\ Fits' <=> Fits
           /\ Stream' = Stream /\ Messages' = Messages
           /\ \A k, p : At(k, p)' <=> At(k, p)
           /\ \A k, r : Settled(k, r)' <=> Settled(k, r)
           /\ \A p, r : From(p, r)' = From(p, r)
           /\ \A k : EndOf(k)' = EndOf(k)
<1>1. Code' = Code /\ Messages' = Messages
  BY DEF Code, Messages
<1>2. Stream' = Stream
  BY <1>1 DEF Stream
<1>3. \A k : EndOf(k)' = EndOf(k)
  BY <1>1 DEF EndOf
<1>4. \A k : Taken(k)' = Taken(k)
  BY DEF Taken
<1>5. \A k, p : At(k, p)' <=> At(k, p)
  BY <1>2, <1>3 DEF At
<1>6. \A k, r : Settled(k, r)' <=> Settled(k, r)
  BY <1>3, <1>4 DEF Settled
<1>7. \A p, r : From(p, r)' = From(p, r)
  BY <1>2 DEF From
<1>8. (SentOK' <=> SentOK) /\ (Fits' <=> Fits)
  BY DEF SentOK, Fits
<1>9. QED
  BY <1>1, <1>2, <1>3, <1>5, <1>6, <1>7, <1>8

LEMMA HeldNext ==
    ASSUME sent' = sent, NEW k, NEW p,
           SplitTo(0, k, p, read', [frames |-> SubSeq(Messages, 1, k), rest |-> buffer']),
           frames' = IF connection' = "closed" /\ ~Blank(buffer')
                     THEN Append(SubSeq(Messages, 1, k), buffer') ELSE SubSeq(Messages, 1, k)
    PROVE  Held(k, p)'
<1>1. Messages' = Messages
  BY SameSent
<1>2. SplitTo(0, k, p, read, [frames |-> SubSeq(Messages, 1, k), rest |-> buffer])'
  <2>1. /\ At(k, p) /\ p <= read' /\ 0 <= k /\ Settled(k, read')
        /\ [frames |-> SubSeq(Messages, 1, k), rest |-> buffer'] =
           [frames |-> SubSeq(Messages, 0 + 1, k), rest |-> From(EndOf(k), read')]
    BY DEF SplitTo
  <2>2. At(k, p)'
    BY <2>1, SameSent
  <2>3. Settled(k, read)'
    BY <2>1, SameSent DEF Settled
  <2>4. From(EndOf(k), read)' = From(EndOf(k), read')
    BY SameSent DEF From
  <2>5. QED
    BY <1>1, <2>1, <2>2, <2>3, <2>4 DEF SplitTo
<1>3. QED
  BY <1>1, <1>2 DEF Held

LEMMA StepIInv == IInv /\ [Next]_vars => IInv'
<1> SUFFICES ASSUME IInv, [Next]_vars PROVE IInv'
  OBVIOUS
<1>1. SentOK /\ read \in 0..Len(Stream) /\ buffer \in Seq(Bytes) /\ Len(buffer) <= MaxFrame
  BY DEF IInv
<1>2. Stream \in Seq(Bytes) /\ Len(Stream) \in Nat
  BY <1>1, StreamIs, LenProperties
<1>3. ASSUME UNCHANGED <<sent, read, buffer>>, Fits => \E k, p : Held(k, p)' PROVE IInv'
  BY <1>1, <1>3, SameSent DEF IInv
<1>4. ASSUME NEW n \in 1..(Len(Stream) - read), Receive(n) PROVE IInv'
  <2> DEFINE r == read + n
             b == buffer \o SubSeq(Stream, read + 1, r)
             t == Split(b)
  <2>1. /\ connection = "open" /\ r <= Len(Stream) /\ read' = r
        /\ IF TooLong(t.rest)
             THEN frames' = frames \o Append(t.frames, t.rest) /\ buffer' = <<>>
             ELSE frames' = frames \o t.frames /\ buffer' = t.rest
        /\ sent' = sent /\ connection' = connection
    BY <1>4 DEF Receive
  <2>2. r \in 0..Len(Stream) /\ read <= r
    BY <1>1, <1>2, <2>1
  <2>3. t.rest \in Seq(Bytes)
    <3>1. SubSeq(Stream, read + 1, r) \in Seq(Bytes)
      BY <1>1, <1>2, <2>2
    <3>2. b \in Seq(Bytes)
      BY <1>1, <3>1
    <3>3. QED
      BY <3>2, SplitType
  <2> HIDE DEF r, t
  <2>4. buffer' \in Seq(Bytes) /\ Len(buffer') <= MaxFrame
    <3>1. CASE TooLong(t.rest)
      BY <2>1, <3>1, BoundsAssumption
    <3>2. CASE ~TooLong(t.rest)
      <4>1. buffer' = t.rest /\ Len(t.rest) \in Nat /\ MaxFrame \in Nat
        BY <2>1, <2>3, <3>2, BoundsAssumption
      <4>2. QED
        BY <2>3, <3>2, <4>1 DEF TooLong
    <3>3. QED
      BY <3>1, <3>2
  <2>5. ASSUME Fits PROVE \E k, p : Held(k, p)'
    <3> DEFINE s == [frames |-> frames \o t.frames, rest |-> t.rest]
    <3>1. PICK k, p : SplitTo(0, k, p, r, s)
      BY <2>1, <2>2, <2>5, Received DEF t, r
    <3>2. frames \in Seq(Seq(Bytes)) /\ t.frames \in Seq(Seq(Bytes))
      BY <2>1, <2>2, <2>5, Received DEF t, r
    <3>3. s.frames = SubSeq(Messages, 0 + 1, k) /\ s.rest = From(EndOf(k), r)
      BY <3>1 DEF SplitTo
    <3>4. s.frames = frames \o t.frames /\ s.rest = t.rest /\ 0 + 1 = 1
      OBVIOUS
    <3> HIDE DEF s
    <3>5. CASE ~TooLong(t.rest)
      <4>1. s = [frames |-> SubSeq(Messages, 1, k), rest |-> buffer']
        BY <2>1, <3>3, <3>4, <3>5 DEF s
      <4>2. frames' = SubSeq(Messages, 1, k)
        BY <2>1, <3>3, <3>4, <3>5
      <4>3. Held(k, p)'
        BY <2>1, <3>1, <4>1, <4>2, HeldNext
      <4>4. QED
        BY <4>3
    <3>6. CASE TooLong(t.rest)
      <4>1. SplitTo(0, k + 1, r, r, [frames |-> Append(s.frames, s.rest), rest |-> <<>>])
        BY <1>1, <2>2, <2>5, <3>1, <3>4, <3>6, TooLongIs
      <4>2. Append(s.frames, s.rest) = SubSeq(Messages, 1, k + 1)
        BY <3>4, <4>1 DEF SplitTo
      <4>3. frames' = Append(s.frames, s.rest)
        <5>1. frames \o Append(t.frames, t.rest) = Append(frames \o t.frames, t.rest)
          <6> DEFINE W == Seq(Bytes)
          <6>1. frames \in Seq(W) /\ t.frames \in Seq(W) /\ t.rest \in W
            BY <2>3, <3>2
          <6> HIDE DEF W
          <6>2. QED
            BY <6>1, AppendConcat
        <5>2. QED
          BY <2>1, <3>4, <3>6, <5>1
      <4>4. \E q : Held(k + 1, q)'
        <5>1. SplitTo(0, k + 1, r, read', [frames |-> SubSeq(Messages, 1, k + 1), rest |-> buffer'])
          BY <2>1, <3>6, <4>1, <4>2
        <5>2. frames' = SubSeq(Messages, 1, k + 1) /\ connection' # "closed"
          BY <2>1, <4>2, <4>3
        <5> DEFINE m == k + 1
        <5>3. /\ SplitTo(0, m, r, read', [frames |-> SubSeq(Messages, 1, m), rest |-> buffer'])
              /\ frames' = SubSeq(Messages, 1, m)
          BY <5>1, <5>2
        <5> HIDE DEF m
        <5>4. frames' = IF connection' = "closed" /\ ~Blank(buffer')
                        THEN Append(SubSeq(Messages, 1, m), buffer') ELSE SubSeq(Messages, 1, m)
          BY <5>2, <5>3
        <5>5. PICK q : q = r
          OBVIOUS
        <5>6. sent' = sent /\ SplitTo(0, m, q, read', [frames |-> SubSeq(Messages, 1, m), rest |-> buffer'])
          BY <2>1, <5>3, <5>5
        <5>7. Held(m, q)'
          BY ONLY <5>4, <5>6, HeldNext
        <5>8. QED
          BY <5>7 DEF m
      <4>5. QED
        BY <4>4
    <3>7. QED
      BY <3>5, <3>6
  <2>6. QED
    BY <1>1, <2>1, <2>2, <2>4, <2>5, SameSent DEF IInv
<1>5. ASSUME connection = "open", UNCHANGED <<sent, read, buffer>>, Fits, NEW k, NEW p, Held(k, p),
             frames' = IF connection' = "closed" /\ ~Blank(buffer) THEN Append(frames, buffer)
                       ELSE frames
      PROVE  Held(k, p)'
  <2>1. frames = SubSeq(Messages, 1, k)
    BY <1>5 DEF Held
  <2>2. SplitTo(0, k, p, read', [frames |-> SubSeq(Messages, 1, k), rest |-> buffer'])
    BY <1>5 DEF Held
  <2>3. QED
    BY <1>5, <2>1, <2>2, HeldNext
<1>6. CASE Close
  <2>1. connection = "open" /\ UNCHANGED <<sent, read, buffer>>
    BY <1>6 DEF Close
  <2>2. frames' = IF connection' = "closed" /\ ~Blank(buffer) THEN Append(frames, buffer) ELSE frames
    BY <1>6 DEF Close
  <2>3. Fits => \E k, p : Held(k, p)'
    BY <1>5, <2>1, <2>2 DEF IInv
  <2>4. QED
    BY <1>3, <2>1, <2>3
<1>7. CASE Reset
  <2>1. connection = "open" /\ UNCHANGED <<sent, read, buffer>>
    BY <1>7 DEF Reset
  <2>2. frames' = IF connection' = "closed" /\ ~Blank(buffer) THEN Append(frames, buffer) ELSE frames
    BY <1>7 DEF Reset
  <2>3. Fits => \E k, p : Held(k, p)'
    BY <1>5, <2>1, <2>2 DEF IInv
  <2>4. QED
    BY <1>3, <2>1, <2>3
<1>8. CASE UNCHANGED vars
  <2>1. UNCHANGED <<sent, read, buffer, frames, connection>>
    BY <1>8 DEF vars
  <2>2. ASSUME NEW k, NEW p, Held(k, p) PROVE Held(k, p)'
    <3>1. SplitTo(0, k, p, read', [frames |-> SubSeq(Messages, 1, k), rest |-> buffer'])
      BY <2>1, <2>2 DEF Held
    <3>2. QED
      BY <2>1, <2>2, <3>1, HeldNext DEF Held
  <2>3. QED
    BY <1>3, <2>1, <2>2 DEF IInv
<1>9. QED
  BY <1>4, <1>6, <1>7, <1>8 DEF Next

-----------------------------------------------------------------------------
(* What the invariant means.                                               *)

\* The messages whose last byte is read, by the number of messages taken.
LEMMA ReadIs ==
    ASSUME SentOK, NEW r \in 0..Len(Stream), NEW k, NEW p, At(k, p), p <= r, Settled(k, r)
    PROVE  \A i \in 1..Len(sent) :
              /\ i < k => EndOf(i) <= r
              /\ i > k /\ EndOf(i) <= r => Bare(sent[i])
<1>1. /\ k \in 0..Len(sent) /\ Len(sent) \in Nat /\ r \in Nat /\ p \in Nat /\ Len(Stream) \in Nat
      /\ EndOf(k) \in Nat
  BY StreamIs, LenProperties DEF At
<1>2. ASSUME NEW i \in 1..Len(sent), i < k PROVE EndOf(i) <= r
  <2>1. k - 1 \in 0..Len(sent) /\ i \in 0..(k - 1) /\ k # 0
    BY <1>1, <1>2
  <2>2. EndOf(i) \in Nat /\ EndOf(k - 1) \in Nat /\ EndOf(i) <= EndOf(k - 1)
    BY <2>1, Order
  <2>3. p > EndOf(k - 1)
    BY <2>1 DEF At
  <2>4. QED
    BY <1>1, <2>2, <2>3
<1>3. ASSUME NEW i \in 1..Len(sent), i > k, EndOf(i) <= r PROVE Bare(sent[i])
  <2>1. k < Len(sent) /\ k + 1 \in 1..Len(sent) /\ i \in 0..Len(sent) /\ k + 1 \in 0..i
    BY <1>1, <1>3
  <2>2. EndOf(k + 1) \in Nat /\ EndOf(i) \in Nat /\ EndOf(k + 1) <= EndOf(i)
    BY <2>1, Order
  <2> DEFINE f == Taken(k + 1)
             c == Len(sent[k + 1].code)
  <2>3. /\ f \in 1..c + 1 /\ c \in Nat
        /\ f = c + 1 <=> Bare(sent[k + 1])
        /\ k + 1 < Len(sent) => f <= c
    BY <2>1, TakenIs
  <2>4. EndOf(k + 1) = EndOf(k) + c
    BY <1>1, <2>1, MessageAt
  <2>5. r < EndOf(k) + f
    BY <2>1 DEF Settled
  <2> HIDE DEF f, c
  <2>6. f = c + 1
    BY <1>1, <1>3, <2>2, <2>3, <2>4, <2>5
  <2>7. i = k + 1
    BY <1>1, <1>3, <2>1, <2>3, <2>6
  <2>8. QED
    BY <2>3, <2>6, <2>7
<1>4. QED
  BY <1>2, <1>3

LEMMA HeldMeans ==
    ASSUME IInv, NEW k, NEW p, Held(k, p)
    PROVE  /\ k \in 0..Len(sent) /\ Len(sent) \in Nat /\ DOMAIN sent = 1..Len(sent)
           /\ At(k, p) /\ p <= read /\ Settled(k, read) /\ buffer = From(EndOf(k), read)
           /\ SubSeq(Messages, 1, k) \in Seq(Seq(Bytes)) /\ Len(SubSeq(Messages, 1, k)) = k
           /\ Messages \in Seq(Seq(Bytes)) /\ Len(Messages) = Len(sent)
           /\ frames \in Seq(Seq(Bytes))
           /\ Len(frames) = IF connection = "closed" /\ ~Blank(buffer) THEN k + 1 ELSE k
<1> DEFINE M == Messages
           s == SubSeq(M, 1, k)
<1>1. SentOK /\ buffer \in Seq(Bytes)
  BY DEF IInv
<1>2. At(k, p) /\ p <= read /\ Settled(k, read) /\ buffer = From(EndOf(k), read)
  BY DEF Held, SplitTo
<1>3. /\ k \in 0..Len(sent) /\ Len(sent) \in Nat /\ DOMAIN sent = 1..Len(sent)
      /\ M \in Seq(Seq(Bytes)) /\ Len(M) = Len(sent)
  BY <1>1, <1>2, StreamIs DEF At
<1>4. s \in Seq(Seq(Bytes)) /\ Len(s) = k
  BY <1>3
<1>5. frames = IF connection = "closed" /\ ~Blank(buffer) THEN Append(s, buffer) ELSE s
  BY DEF Held
<1> HIDE DEF s, M
<1> DEFINE W == Seq(Bytes)
<1>6. s \in Seq(W) /\ buffer \in W
  BY <1>1, <1>4
<1> HIDE DEF W
<1>7. Append(s, buffer) \in Seq(W) /\ Len(Append(s, buffer)) = k + 1
  BY <1>4, <1>6, AppendProperties
<1>8. QED
  BY <1>2, <1>3, <1>4, <1>5, <1>6, <1>7 DEF s, M, W

LEMMA UpTo ==
    ASSUME NEW k \in Nat, NEW S, S \subseteq 1..k
    PROVE  Cardinality(S) <= k /\ Cardinality(S) \in Nat
<1>1. IsFiniteSet(1..k) /\ Cardinality(1..k) = k
  BY FS_Interval
<1>2. QED
  BY <1>1, FS_Subset, FS_CardinalityType

LEMMA AtLeast ==
    ASSUME NEW n \in Nat, NEW m \in Nat, NEW S, S \subseteq 1..n, 1..m \subseteq S
    PROVE  m <= Cardinality(S) /\ Cardinality(S) \in Nat
<1>1. IsFiniteSet(1..n) /\ Cardinality(1..m) = m
  BY FS_Interval
<1>2. IsFiniteSet(S)
  BY <1>1, FS_Subset
<1>3. QED
  BY <1>1, <1>2, FS_Subset, FS_CardinalityType

LEMMA WholeIn == IInv => OnlyWholeMessages
<1> SUFFICES ASSUME IInv PROVE OnlyWholeMessages
  OBVIOUS
<1>1. ASSUME Fits, connection # "closed" PROVE IsPrefix(frames, Messages)
  <2>1. PICK k, p : Held(k, p)
    BY <1>1 DEF IInv
  <2>2. frames = SubSeq(Messages, 1, k)
    BY <1>1, <2>1 DEF Held
  <2>3. Len(frames) = k /\ k <= Len(Messages) /\ frames \in Seq(Seq(Bytes))
    BY <1>1, <2>1, HeldMeans
  <2>4. SubSeq(frames, 1, Len(frames)) = frames
    BY <2>3, SubSeqFull
  <2>5. QED
    BY <2>2, <2>3, <2>4 DEF IsPrefix
<1>2. QED
  BY <1>1 DEF OnlyWholeMessages, IInv

LEMMA DeliveredIn == IInv => DeliveredAtOnce
<1> SUFFICES ASSUME IInv, Fits PROVE Len(frames) >= Cardinality(WholeRead \ Unterminated)
  BY DEF DeliveredAtOnce
<1>1. PICK k, p : Held(k, p)
  BY DEF IInv
<1>2. /\ k \in 0..Len(sent) /\ Len(sent) \in Nat /\ DOMAIN sent = 1..Len(sent)
      /\ At(k, p) /\ p <= read /\ Settled(k, read)
      /\ Len(frames) \in {k, k + 1}
  BY <1>1, HeldMeans
<1>3. \A i \in 1..Len(sent) : i > k /\ EndOf(i) <= read => Bare(sent[i])
  BY <1>2, ReadIs DEF IInv
<1>4. WholeRead \ Unterminated \subseteq 1..k
  <2>1. ASSUME NEW i \in WholeRead \ Unterminated PROVE i \in 1..k
    <3>1. i \in 1..Len(sent) /\ EndOf(i) <= read /\ ~Bare(sent[i])
      BY <1>2, <2>1 DEF WholeRead, Unterminated
    <3>2. ~(i > k)
      BY <1>3, <3>1
    <3>3. QED
      BY <1>2, <3>1, <3>2
  <2>2. QED
    BY <2>1
<1>5. Cardinality(WholeRead \ Unterminated) <= k /\ Cardinality(WholeRead \ Unterminated) \in Nat
  <2>1. k \in Nat
    BY <1>2
  <2>2. QED
    BY <1>4, <2>1, UpTo
<1>6. QED
  BY <1>2, <1>5

LEMMA CloseIn == IInv => CloseKeepsAll
<1> SUFFICES ASSUME IInv, Fits, connection = "closed"
             PROVE  /\ Len(frames) <= Cardinality(WholeRead) + 1
                    /\ read = Len(Stream) => frames = Messages
  BY DEF CloseKeepsAll
<1>1. PICK k, p : Held(k, p)
  BY DEF IInv
<1> DEFINE N == Len(sent)
           e == EndOf(k)
           M == Messages
<1>2. SentOK /\ read \in 0..Len(Stream)
  BY DEF IInv
<1>3. /\ k \in 0..N /\ N \in Nat /\ DOMAIN sent = 1..N
      /\ At(k, p) /\ p <= read /\ Settled(k, read) /\ buffer = From(e, read)
      /\ M \in Seq(Seq(Bytes)) /\ Len(M) = N
      /\ Len(frames) = IF connection = "closed" /\ ~Blank(buffer) THEN k + 1 ELSE k
      /\ frames = IF ~Blank(buffer) THEN Append(SubSeq(M, 1, k), buffer) ELSE SubSeq(M, 1, k)
  BY <1>1, HeldMeans DEF Held
<1>4. e \in Nat /\ Len(Stream) \in Nat /\ read \in Nat /\ Len(Stream) = EndOf(N)
  BY <1>2, <1>3, StreamIs, LenProperties
<1>5. read <= e => buffer = <<>> /\ Blank(buffer)
  <2>1. ASSUME read <= e PROVE buffer = <<>>
    BY <1>2, <1>3, <1>4, <2>1, FromNothing
  <2>2. Blank(<<>>)
    BY DEF Blank, ToSet
  <2>3. QED
    BY <2>1, <2>2
<1>6. Len(frames) <= Cardinality(WholeRead) + 1
  <2>1. \A i \in 1..N : i < k => EndOf(i) <= read
    BY <1>2, <1>3, ReadIs
  <2>2. WholeRead \subseteq 1..N
    BY <1>3 DEF WholeRead
  <2>3. CASE Blank(buffer)
    <3> DEFINE m == IF k = 0 THEN 0 ELSE k - 1
    <3>1. 1..m \subseteq WholeRead
      BY <1>3, <2>1 DEF WholeRead
    <3>2. m \in Nat /\ k <= m + 1
      BY <1>3
    <3> HIDE DEF m
    <3>3. m <= Cardinality(WholeRead) /\ Cardinality(WholeRead) \in Nat
      BY <1>3, <2>2, <3>1, <3>2, AtLeast
    <3>4. QED
      BY <1>3, <2>3, <3>2, <3>3
  <2>4. CASE ~Blank(buffer)
    <3>1. e <= read
      BY <1>4, <1>5, <2>4
    <3>2. 1..k \subseteq WholeRead
      <4>1. ASSUME NEW i \in 1..k PROVE i \in 1..N /\ EndOf(i) <= read
        <5>1. i \in 1..N
          BY <1>3
        <5>2. i < k \/ i = k
          BY <1>3
        <5>3. QED
          BY <2>1, <3>1, <5>1, <5>2
      <4>2. QED
        BY <1>3, <4>1 DEF WholeRead
    <3>3. k \in Nat
      BY <1>3
    <3>4. k <= Cardinality(WholeRead) /\ Cardinality(WholeRead) \in Nat
      BY <1>3, <2>2, <3>2, <3>3, AtLeast
    <3>5. Len(frames) \in {k, k + 1}
      BY <1>3
    <3>6. QED
      BY <3>3, <3>4, <3>5
  <2>5. QED
    BY <2>3, <2>4
<1>7. ASSUME read = Len(Stream) PROVE frames = M
  <2>1. SubSeq(M, 1, N) = M
    BY <1>3, SubSeqFull
  <2>2. CASE k = N
    <3>1. Blank(buffer)
      BY <1>4, <1>5, <1>7, <2>2
    <3>2. QED
      BY <1>3, <2>1, <2>2, <3>1
  <2>3. CASE k # N
    <3>1. k < N /\ k + 1 \in 1..N
      <4>1. k \in 0..N /\ N \in Nat
        BY <1>3
      <4> HIDE DEF N
      <4>2. QED
        BY <2>3, <4>1
    <3> DEFINE x == sent[k + 1]
               f == Taken(k + 1)
               c == Len(x.code)
    <3>2. /\ EndOf(k + 1) = e + c
          /\ \A j \in 1..c : Stream[e + j] = x.code[j]
          /\ M[k + 1] = x.message
      BY <1>2, <1>3, <3>1, MessageAt
    <3>3. /\ Framed(x, f) /\ f \in 1..c + 1 /\ c \in Nat \ {0}
          /\ f = c + 1 <=> Bare(x)
          /\ k + 1 < N => f <= c
      BY <1>2, <3>1, TakenIs
    <3>4. read < e + f
      BY <1>3, <3>1 DEF Settled
    <3>5. EndOf(k + 1) \in Nat /\ EndOf(k + 1) <= Len(Stream)
      <4>1. N \in 0..N /\ k + 1 \in 0..N
        BY <1>3, <3>1
      <4>2. QED
        BY <1>2, <1>4, <4>1, Order
    <3> HIDE DEF x, f, c
    <3>6. f = c + 1 /\ read = e + c
      BY <1>4, <1>7, <3>2, <3>3, <3>4, <3>5
    <3>7. k + 1 = N
      <4>1. k \in 0..N /\ N \in Nat /\ c \in Nat /\ k + 1 \in 1..N
        BY <1>3, <3>1, <3>3
      <4>2. k + 1 < N => f <= c
        BY <3>3
      <4> HIDE DEF N
      <4>3. QED
        BY <3>6, <4>1, <4>2
    <3>8. x.code \in Seq(Bytes) /\ x.code = x.message /\ x.message # <<>> /\ x.message[1] = "<"
      BY <3>3, <3>6 DEF Framed, Bare
    <3>9. buffer \in Seq(Bytes) /\ Len(buffer) = c /\ \A i \in 1..c : buffer[i] = Stream[e + i]
      <4>1. e \in 0..read /\ read - e = c
        BY <1>4, <3>3, <3>6
      <4> HIDE DEF e
      <4>2. QED
        BY <1>2, <1>3, <4>1, FromIs
    <3>10. buffer = x.code
      BY <3>2, <3>8, <3>9, SeqEqual DEF c
    <3>11. ~Blank(buffer)
      <4>1. 1 \in DOMAIN buffer /\ buffer[1] = "<"
        BY <3>3, <3>8, <3>9, <3>10
      <4>2. "<" \in ToSet(buffer)
        BY <4>1 DEF ToSet
      <4>3. QED
        BY <4>2, Sorts DEF Blank, Skip
    <3>12. frames = Append(SubSeq(M, 1, k), M[k + 1])
      BY <1>3, <3>2, <3>8, <3>10, <3>11
    <3>13. Append(SubSeq(M, 1, k), M[k + 1]) = SubSeq(M, 1, k + 1)
      <4>1. k \in 0..Len(M) /\ 0 \in 0..k /\ k < Len(M)
        BY <1>3, <3>1
      <4>2. Append(SubSeq(M, 0 + 1, k), M[k + 1]) = SubSeq(M, 0 + 1, k + 1)
        BY <1>3, <4>1, Halves
      <4>3. 0 + 1 = 1
        OBVIOUS
      <4>4. QED
        BY <4>2, <4>3
    <3>14. QED
      BY <2>1, <3>7, <3>12, <3>13
  <2>4. QED
    BY <2>2, <2>3
<1>8. QED
  BY <1>6, <1>7

-----------------------------------------------------------------------------
(* Theorems.                                                               *)

THEOREM Inductive == Spec => []IInv
<1>1. QED
  BY InitIInv, StepIInv, PTL DEF Spec

\* However a connection's bytes are cut, what is queued is a prefix of what was sent.
THEOREM OnlyWholeMessagesAlways == Spec => []OnlyWholeMessages
<1>1. QED
  BY Inductive, WholeIn, PTL

\* A message is queued with the chunk that holds its last byte.
THEOREM DeliveredAtOnceAlways == Spec => []DeliveredAtOnce
<1>1. QED
  BY Inductive, DeliveredIn, PTL

\* A sender that closes after its last byte loses nothing.
THEOREM CloseKeepsAllAlways == Spec => []CloseKeepsAll
<1>1. QED
  BY Inductive, CloseIn, PTL
=============================================================================

------------------------- MODULE ComputationsProofs -------------------------
(***************************************************************************)
(* Proofs about Computations, for every calendar, history, reading and     *)
(* answer: reports tile the time, the availability of a report is what     *)
(* counting seconds gives, a stored message has a time one can trust, a    *)
(* check that is up was answered, the figures of reports and charts agree  *)
(* with the samples, and rates add up.                                     *)
(***************************************************************************)
EXTENDS Computations, FiniteSetTheorems, FunctionTheorems, SequenceTheorems, WellFoundedInduction, TLAPS

-----------------------------------------------------------------------------
(* What each computation begins with, and goes on with, is its own.        *)

LEMMA Begins ==
    /\ BeginSchedule => topic = "schedule"
    /\ BeginHistory => topic = "history"
    /\ BeginSearch => topic = "search"
    /\ BeginFigures => topic = "figures"
    /\ BeginCounter => topic = "counter"
    /\ BeginPing => topic = "ping"
    /\ BeginGet => topic = "get"
    /\ BeginUrl => topic = "url"
    /\ BeginStamp => topic = "stamp"
<1>1. ASSUME BeginSchedule PROVE topic = "schedule"
  BY <1>1 DEF BeginSchedule, Begin
<1>2. ASSUME BeginHistory PROVE topic = "history"
  BY <1>2 DEF BeginHistory, Begin
<1>3. ASSUME BeginSearch PROVE topic = "search"
  BY <1>3 DEF BeginSearch, Begin
<1>4. ASSUME BeginFigures PROVE topic = "figures"
  BY <1>4 DEF BeginFigures, Begin
<1>5. ASSUME BeginCounter PROVE topic = "counter"
  BY <1>5 DEF BeginCounter, Begin
<1>6. ASSUME BeginPing PROVE topic = "ping"
  BY <1>6 DEF BeginPing, Begin
<1>7. ASSUME BeginGet PROVE topic = "get"
  BY <1>7 DEF BeginGet, Begin
<1>8. ASSUME BeginUrl PROVE topic = "url"
  BY <1>8 DEF BeginUrl, Begin
<1>9. ASSUME BeginStamp PROVE topic = "stamp"
  BY <1>9 DEF BeginStamp, Begin
<1>10. QED
  BY <1>1, <1>2, <1>3, <1>4, <1>5, <1>6, <1>7, <1>8, <1>9

LEMMA Continues ==
    /\ HourPasses => topic' = "schedule"
    /\ RecordOutage \/ PlanMaintenance => topic' = "history"
    /\ MessageArrives \/ ReadOn => topic' = "search"
    /\ RollUp \/ Retire \/ RetireFineRows => topic' = "figures"
    /\ ReadCounter \/ ReadNothing \/ ReadRestarted => topic' = "counter"
    /\ NextAttempt \/ PacketComes => topic' = "ping"
    /\ AskFor => topic' = "get"
    /\ AddOption => topic' = "url"
    /\ DayPasses => topic' = "stamp"
<1>1. ASSUME HourPasses PROVE topic' = "schedule"
  BY <1>1 DEF HourPasses, Continue
<1>2. ASSUME RecordOutage \/ PlanMaintenance PROVE topic' = "history"
  BY <1>2 DEF RecordOutage, PlanMaintenance, Continue
<1>3. ASSUME MessageArrives \/ ReadOn PROVE topic' = "search"
  BY <1>3 DEF MessageArrives, ReadOn, Continue
<1>4. ASSUME RollUp \/ Retire \/ RetireFineRows PROVE topic' = "figures"
  BY <1>4 DEF RollUp, Retire, RetireFineRows, Continue
<1>5. ASSUME ReadCounter \/ ReadNothing \/ ReadRestarted PROVE topic' = "counter"
  BY <1>5 DEF ReadCounter, ReadNothing, ReadRestarted, Continue
<1>6. ASSUME NextAttempt \/ PacketComes PROVE topic' = "ping"
  BY <1>6 DEF NextAttempt, PacketComes, Continue
<1>7. ASSUME AskFor PROVE topic' = "get"
  BY <1>7 DEF AskFor, Continue
<1>8. ASSUME AddOption PROVE topic' = "url"
  BY <1>8 DEF AddOption, Continue
<1>9. ASSUME DayPasses PROVE topic' = "stamp"
  BY <1>9 DEF DayPasses, Continue
<1>10. QED
  BY <1>1, <1>2, <1>3, <1>4, <1>5, <1>6, <1>7, <1>8, <1>9

-----------------------------------------------------------------------------
(* Recursion over the naturals.                                            *)

\* Induction over the naturals, for a set of them.
LEMMA Induction ==
    ASSUME NEW S, 0 \in S, \A n \in Nat : n \in S => n + 1 \in S
    PROVE  Nat \subseteq S
<1> DEFINE T == Nat \ S
           R == OpToRel(<, Nat)
<1>1. R = {ss \in Nat \X Nat : ss[1] < ss[2]}
  BY DEF OpToRel
<1>2. IsWellFoundedOn(R, Nat)
  BY NatLessThanWellFounded
<1> HIDE DEF R
<1>3. ASSUME T # {} PROVE FALSE
  <2>1. PICK m \in T : \A t \in T : ~(<<t, m>> \in R)
    BY <1>2, <1>3, WFMin
  <2>2. m \in Nat /\ m # 0
    OBVIOUS
  <2>3. m - 1 \in Nat /\ m - 1 < m /\ m - 1 + 1 = m
    BY <2>2
  <2>4. m - 1 \in T
    BY <2>2, <2>3
  <2>5. QED
    BY <1>1, <2>1, <2>3, <2>4
<1>4. QED
  BY <1>3

-----------------------------------------------------------------------------
(* Periods one after the other: months of days, years of days.             *)

\* Where each of n periods begins.
Follow(f, n, len) == f = [m \in 1..n |-> IF m = 1 THEN 0 ELSE f[m - 1] + len[m - 1]]

LEMMA FollowExist == ASSUME NEW len PROVE \A n \in Nat : \E f : Follow(f, n, len)
<1> DEFINE S == {n \in Nat : \E f : Follow(f, n, len)}
<1>1. 0 \in S
  <2> DEFINE f == [i \in 1..0 |-> 0]
  <2>1. Follow(f, 0, len)
    BY DEF Follow
  <2>2. QED
    BY <2>1
<1>2. ASSUME NEW n \in Nat, n \in S PROVE n + 1 \in S
  <2>1. PICK f : Follow(f, n, len)
    BY <1>2
  <2> DEFINE last == IF n = 0 THEN 0 ELSE f[n] + len[n]
             g == [m \in 1..n + 1 |-> IF m = n + 1 THEN last ELSE f[m]]
             h == [m \in 1..n + 1 |-> IF m = 1 THEN 0 ELSE g[m - 1] + len[m - 1]]
  <2>2. ASSUME NEW m \in 1..n + 1 PROVE g[m] = h[m]
    <3>1. CASE m = n + 1
      <4>1. g[m] = last
        BY <3>1
      <4>2. m # 1 => g[m - 1] = f[n]
        BY <3>1
      <4>3. QED
        BY <3>1, <4>1, <4>2
    <3>2. CASE m # n + 1
      <4>1. m \in 1..n /\ g[m] = f[m]
        BY <3>2
      <4>2. m # 1 => m - 1 \in 1..n /\ g[m - 1] = f[m - 1]
        BY <4>1
      <4>3. f[m] = IF m = 1 THEN 0 ELSE f[m - 1] + len[m - 1]
        BY <2>1, <4>1 DEF Follow
      <4>4. QED
        BY <4>1, <4>2, <4>3
    <3>3. QED
      BY <3>1, <3>2
  <2>3. g = h
    BY <2>2
  <2>4. Follow(g, n + 1, len)
    BY <2>3 DEF Follow
  <2>5. QED
    BY <2>4
<1> HIDE DEF S
<1>3. Nat \subseteq S
  BY <1>1, <1>2, Induction
<1>4. QED
  BY <1>3 DEF S

\* n periods, and what follows them.
Sequel(f, n, len) ==
    /\ n \in Nat /\ f[1] = 0
    /\ \A m \in 1..n : len[m] \in Nat /\ f[m + 1] = f[m] + len[m]

LEMMA FollowSequel ==
    ASSUME NEW n \in Nat, NEW len, \A m \in 1..n : len[m] \in Nat, NEW f, Follow(f, n + 1, len)
    PROVE  Sequel(f, n, len)
<1>1. \A m \in 1..n + 1 : f[m] = IF m = 1 THEN 0 ELSE f[m - 1] + len[m - 1]
  BY DEF Follow
<1>2. f[1] = 0
  BY <1>1
<1>3. ASSUME NEW m \in 1..n PROVE f[m + 1] = f[m] + len[m]
  <2>1. m + 1 \in 1..n + 1 /\ m + 1 # 1 /\ m + 1 - 1 = m
    OBVIOUS
  <2>2. QED
    BY <1>1, <2>1
<1>4. QED
  BY <1>2, <1>3 DEF Sequel

LEMMA SequelNat == ASSUME NEW n, NEW len, NEW f, Sequel(f, n, len) PROVE \A m \in 1..n + 1 : f[m] \in Nat
<1>1. n \in Nat /\ f[1] = 0 /\ \A m \in 1..n : len[m] \in Nat /\ f[m + 1] = f[m] + len[m]
  BY DEF Sequel
<1> DEFINE S == {i \in Nat : i + 1 \in 1..n + 1 => f[i + 1] \in Nat}
<1>2. 0 \in S
  BY <1>1
<1>3. ASSUME NEW i \in Nat, i \in S PROVE i + 1 \in S
  <2>1. SUFFICES ASSUME i + 1 + 1 \in 1..n + 1 PROVE f[i + 1 + 1] \in Nat
    OBVIOUS
  <2>2. i + 1 \in 1..n
    BY <1>1, <2>1
  <2>3. f[i + 1] \in Nat
    BY <1>1, <1>3, <2>2
  <2>4. len[i + 1] \in Nat /\ f[i + 1 + 1] = f[i + 1] + len[i + 1]
    BY <1>1, <2>2
  <2>5. QED
    BY <2>3, <2>4
<1> HIDE DEF S
<1>4. Nat \subseteq S
  BY <1>2, <1>3, Induction
<1>5. ASSUME NEW m \in 1..n + 1 PROVE f[m] \in Nat
  <2>1. m - 1 \in Nat /\ m - 1 + 1 = m
    BY <1>1
  <2>2. QED
    BY <1>4, <2>1 DEF S
<1>6. QED
  BY <1>5

\* A later period begins when one has passed.
LEMMA SequelAdvances ==
    ASSUME NEW n, NEW len, NEW f, Sequel(f, n, len), NEW m \in 1..n, NEW k \in 1..n + 1, m < k
    PROVE  f[m + 1] <= f[k]
<1>1. n \in Nat /\ \A i \in 1..n : len[i] \in Nat /\ f[i + 1] = f[i] + len[i]
  BY DEF Sequel
<1>2. \A i \in 1..n + 1 : f[i] \in Nat
  BY SequelNat
<1>3. ASSUME NEW i \in 1..n PROVE f[i] \in Nat /\ f[i + 1] \in Nat /\ f[i] <= f[i + 1]
  <2>1. i + 1 \in 1..n + 1 /\ i \in 1..n + 1
    BY <1>1
  <2>2. f[i] \in Nat /\ len[i] \in Nat /\ f[i + 1] = f[i] + len[i]
    BY <1>1, <1>2, <2>1
  <2>3. QED
    BY <2>2
<1> DEFINE S == {i \in Nat : m + 1 + i \in 1..n + 1 => f[m + 1] <= f[m + 1 + i]}
<1>4. 0 \in S
  <2>1. m + 1 \in 1..n + 1 /\ m + 1 + 0 = m + 1
    BY <1>1
  <2>2. f[m + 1] \in Nat
    BY <1>2, <2>1
  <2>3. QED
    BY <2>1, <2>2
<1>5. ASSUME NEW j \in Nat, j \in S PROVE j + 1 \in S
  <2> DEFINE i == m + 1 + j
  <2>1. SUFFICES ASSUME m + 1 + (j + 1) \in 1..n + 1 PROVE f[m + 1] <= f[m + 1 + (j + 1)]
    OBVIOUS
  <2>2. i \in 1..n /\ m + 1 + (j + 1) = i + 1 /\ i \in 1..n + 1
    BY <1>1, <2>1
  <2>3. f[m + 1] <= f[i]
    BY <1>5, <2>2
  <2> HIDE DEF i
  <2>4. f[i] \in Nat /\ f[i + 1] \in Nat /\ f[i] <= f[i + 1]
    BY <1>3, <2>2
  <2>5. f[m + 1] \in Nat
    BY <1>3
  <2>6. QED
    BY <2>2, <2>3, <2>4, <2>5
<1> HIDE DEF S
<1>6. Nat \subseteq S
  BY <1>4, <1>5, Induction
<1>7. k - (m + 1) \in Nat /\ m + 1 + (k - (m + 1)) = k
  BY <1>1
<1>8. QED
  BY <1>6, <1>7 DEF S

\* Every day has its period.
LEMMA SequelCovers ==
    ASSUME NEW n, NEW len, NEW f, Sequel(f, n, len), NEW day \in Nat, day < f[n + 1]
    PROVE  \E m \in 1..n : f[m] <= day /\ day < f[m + 1]
<1>1. n \in Nat /\ f[1] = 0
  BY DEF Sequel
<1>2. \A i \in 1..n + 1 : f[i] \in Nat
  BY SequelNat
<1> DEFINE S == {j \in Nat : j \in 1..n /\ day < f[j + 1] => \E m \in 1..n : f[m] <= day /\ day < f[m + 1]}
<1>3. 0 \in S
  OBVIOUS
<1>4. ASSUME NEW j \in Nat, j \in S PROVE j + 1 \in S
  <2>1. SUFFICES ASSUME j + 1 \in 1..n, day < f[j + 1 + 1]
                 PROVE  \E m \in 1..n : f[m] <= day /\ day < f[m + 1]
    OBVIOUS
  <2>2. f[j + 1] \in Nat
    BY <1>1, <1>2, <2>1
  <2>3. CASE f[j + 1] <= day
    BY <2>1, <2>3
  <2>4. CASE day < f[j + 1]
    <3>1. j # 0
      BY <1>1, <2>4
    <3>2. j \in 1..n
      BY <1>1, <2>1, <3>1
    <3>3. QED
      BY <1>4, <2>4, <3>2
  <2>5. QED
    BY <2>2, <2>3, <2>4
<1> HIDE DEF S
<1>5. Nat \subseteq S
  BY <1>3, <1>4, Induction
<1>6. n # 0
  BY <1>1
<1>7. n \in 1..n
  BY <1>1, <1>6
<1>8. QED
  BY <1>1, <1>5, <1>7 DEF S

\* It has one only.
LEMMA SequelApart ==
    ASSUME NEW n, NEW len, NEW f, Sequel(f, n, len), NEW day \in Int,
           NEW m \in 1..n, f[m] <= day, day < f[m + 1],
           NEW k \in 1..n, f[k] <= day, day < f[k + 1]
    PROVE  k = m
<1>1. n \in Nat
  BY DEF Sequel
<1>2. \A i \in 1..n + 1 : f[i] \in Nat
  BY SequelNat
<1>3. k + 1 \in 1..n + 1 /\ m + 1 \in 1..n + 1 /\ k \in 1..n + 1 /\ m \in 1..n + 1
  BY <1>1
<1>4. k < m => f[k + 1] <= f[m]
  BY <1>3, SequelAdvances
<1>5. m < k => f[m + 1] <= f[k]
  BY <1>3, SequelAdvances
<1>6. f[k] \in Nat /\ f[k + 1] \in Nat /\ f[m] \in Nat /\ f[m + 1] \in Nat
  BY <1>2, <1>3
<1>7. ~(k < m) /\ ~(m < k)
  BY <1>4, <1>5, <1>6
<1>8. QED
  BY <1>1, <1>7

-----------------------------------------------------------------------------
(* Folds and orders.                                                       *)

\* A finite set of integers has a least and a greatest member.
LEMMA Extremes ==
    ASSUME NEW S \in SUBSET Int, IsFiniteSet(S), S # {}
    PROVE  /\ Max(S) \in S /\ \A x \in S : x <= Max(S)
           /\ Min(S) \in S /\ \A x \in S : Min(S) <= x
<1> DEFINE Bounded(T) == (\E a \in T : \A x \in T : a >= x) /\ (\E a \in T : \A x \in T : a <= x)
           Good == {n \in Nat : \A T \in SUBSET Int :
                       IsFiniteSet(T) /\ Cardinality(T) = n /\ T # {} => Bounded(T)}
<1>1. 0 \in Good
  BY FS_EmptySet
<1>2. ASSUME NEW n \in Nat, n \in Good PROVE n + 1 \in Good
  <2> SUFFICES ASSUME NEW T \in SUBSET Int, IsFiniteSet(T), Cardinality(T) = n + 1, T # {}
               PROVE  Bounded(T)
    OBVIOUS
  <2>1. PICK z \in T : TRUE
    OBVIOUS
  <2> DEFINE U == T \ {z}
  <2>2. U \in SUBSET Int /\ IsFiniteSet(U) /\ Cardinality(U) = n
    <3>1. IsFiniteSet(U) /\ Cardinality(U) = Cardinality(T) - 1
      BY <2>1, FS_RemoveElement
    <3>2. QED
      BY <3>1
  <2>3. CASE U = {}
    <3>1. T = {z} /\ z \in Int
      BY <2>1, <2>3
    <3>2. QED
      BY <3>1
  <2>4. CASE U # {}
    <3>1. Bounded(U)
      BY <1>2, <2>2, <2>4
    <3>2. PICK a \in U : \A x \in U : a >= x
      BY <3>1
    <3>3. PICK b \in U : \A x \in U : b <= x
      BY <3>1
    <3>4. a \in Int /\ b \in Int /\ z \in Int /\ \A x \in T : x \in Int /\ (x = z \/ x \in U)
      BY <2>1
    <3> HIDE DEF U
    <3>5. \E c \in {a, z} : \A x \in T : c >= x
      BY <3>2, <3>4
    <3>6. \E c \in {b, z} : \A x \in T : c <= x
      BY <3>3, <3>4
    <3>7. a \in T /\ b \in T
      BY DEF U
    <3>8. QED
      BY <2>1, <3>5, <3>6, <3>7
  <2>5. QED
    BY <2>3, <2>4
<1> HIDE DEF Good
<1>3. Nat \subseteq Good
  BY <1>1, <1>2, Induction
<1>4. Cardinality(S) \in Good
  BY <1>3, FS_CardinalityType
<1>5. Bounded(S)
  BY <1>4 DEF Good
<1>6. (\E a \in S : \A x \in S : a >= x) /\ (\E a \in S : \A x \in S : a <= x) /\ \A x \in S : x \in Int
  BY <1>5
<1>7. Max(S) \in S /\ \A x \in S : Max(S) >= x
  BY <1>6 DEF Max
<1>8. Min(S) \in S /\ \A x \in S : Min(S) <= x
  BY <1>6 DEF Min
<1>9. QED
  BY <1>6, <1>7, <1>8

LEMMA ExtremesOfTwo ==
    ASSUME NEW a \in Int, NEW b \in Int
    PROVE  /\ Max({a, b}) = IF a >= b THEN a ELSE b
           /\ Min({a, b}) = IF a <= b THEN a ELSE b
<1>1. IsFiniteSet({a, b}) /\ {a, b} \in SUBSET Int /\ {a, b} # {}
  <2>1. IsFiniteSet({a} \cup {b})
    BY FS_Singleton, FS_AddElement
  <2>2. {a} \cup {b} = {a, b}
    OBVIOUS
  <2>3. QED
    BY <2>1, <2>2
<1> DEFINE S == {a, b}
<1>2. Max(S) \in S /\ (\A x \in S : x <= Max(S)) /\ Min(S) \in S /\ (\A x \in S : Min(S) <= x)
  BY <1>1, Extremes
<1>3. Max(S) \in {a, b} /\ a <= Max(S) /\ b <= Max(S) /\ Min(S) \in {a, b} /\ Min(S) <= a /\ Min(S) <= b
  BY <1>2
<1>4. QED
  BY <1>3

\* What FoldLeft goes through, for a step that is a function.
Folded(iter, n, base, step) ==
    iter = [s \in SUBSET (1..n) |-> IF s = {} THEN base ELSE step[Max(s)][iter[s \ {Max(s)}]]]

HasFold(V, n, base, step) == \E iter \in [SUBSET (1..n) -> V] : Folded(iter, n, base, step)

LEMMA FoldExists ==
    ASSUME NEW V, NEW base \in V, NEW n \in Nat, NEW step \in [1..n -> [V -> V]]
    PROVE  HasFold(V, n, base, step)
<1> DEFINE Good == {k \in Nat : k <= n => HasFold(V, k, base, step)}
<1>1. 0 \in Good
  <2> DEFINE iter == [s \in SUBSET (1..0) |-> base]
  <2>1. \A s \in SUBSET (1..0) : s = {}
    OBVIOUS
  <2>2. Folded(iter, 0, base, step) /\ iter \in [SUBSET (1..0) -> V]
    BY <2>1 DEF Folded
  <2>3. HasFold(V, 0, base, step)
    BY <2>2 DEF HasFold
  <2>4. QED
    BY <2>3
<1>2. ASSUME NEW k \in Nat, k \in Good PROVE k + 1 \in Good
  <2> SUFFICES ASSUME k + 1 <= n PROVE HasFold(V, k + 1, base, step)
    OBVIOUS
  <2>1. HasFold(V, k, base, step)
    BY <1>2
  <2>2. PICK old \in [SUBSET (1..k) -> V] : Folded(old, k, base, step)
    BY <2>1 DEF HasFold
  <2> DEFINE last(s) == step[k + 1][old[s \ {k + 1}]]
             iter == [s \in SUBSET (1..k + 1) |-> IF k + 1 \in s THEN last(s) ELSE old[s]]
  <2>3. k + 1 \in 1..n
    OBVIOUS
  <2>4. \A s \in SUBSET (1..k + 1) : s \ {k + 1} \in SUBSET (1..k) /\ (k + 1 \notin s => s \in SUBSET (1..k))
    OBVIOUS
  <2>5. iter \in [SUBSET (1..k + 1) -> V]
    <3>1. \A s \in SUBSET (1..k + 1) : old[s \ {k + 1}] \in V /\ (k + 1 \notin s => old[s] \in V)
      BY <2>2, <2>4
    <3>2. step[k + 1] \in [V -> V]
      BY <2>3
    <3>3. \A s \in SUBSET (1..k + 1) : last(s) \in V
      BY <3>1, <3>2
    <3> HIDE DEF last
    <3>4. QED
      BY <3>1, <3>3
  <2>6. ASSUME NEW s \in SUBSET (1..k + 1)
        PROVE  iter[s] = IF s = {} THEN base ELSE step[Max(s)][iter[s \ {Max(s)}]]
    <3>1. CASE k + 1 \in s
      <4>1. Max(s) = k + 1
        <5> DEFINE all == 1..k + 1
        <5>1. IsFiniteSet(all) /\ all \in SUBSET Int /\ s \in SUBSET all
          BY FS_Interval
        <5> HIDE DEF all
        <5>2. IsFiniteSet(s) /\ s \in SUBSET Int /\ s # {}
          BY <3>1, <5>1, FS_Subset
        <5>3. Max(s) \in 1..k + 1 /\ k + 1 <= Max(s)
          BY <3>1, <5>2, Extremes
        <5>4. QED
          BY <5>3
      <4>2. iter[s] = last(s)
        BY <3>1
      <4>3. iter[s \ {k + 1}] = old[s \ {k + 1}]
        BY <2>4
      <4> HIDE DEF iter
      <4>4. QED
        BY <3>1, <4>1, <4>2, <4>3
    <3>2. CASE k + 1 \notin s
      <4>1. s \in SUBSET (1..k)
        BY <2>4, <3>2
      <4>2. iter[s] = old[s] /\ iter[s \ {Max(s)}] = old[s \ {Max(s)}]
        BY <3>2
      <4>3. old[s] = IF s = {} THEN base ELSE step[Max(s)][old[s \ {Max(s)}]]
        BY <2>2, <4>1 DEF Folded
      <4> HIDE DEF iter
      <4>4. QED
        BY <4>2, <4>3
    <3>3. QED
      BY <3>1, <3>2
  <2>7. Folded(iter, k + 1, base, step)
    <3>1. iter = [s \in SUBSET (1..k + 1) |-> iter[s]]
      OBVIOUS
    <3> HIDE DEF iter
    <3>2. QED
      BY <2>6, <3>1 DEF Folded
  <2> HIDE DEF iter
  <2>8. QED
    BY <2>5, <2>7 DEF HasFold
<1> HIDE DEF Good
<1>3. Nat \subseteq Good
  BY <1>1, <1>2, Induction
<1>4. n \in Good
  BY <1>3
<1>5. QED
  BY <1>4 DEF Good

\* Through the prefixes of the sequence, one after the other.
Unfolds(f, V, n, base, step) ==
    /\ f[{}] = base
    /\ \A s \in SUBSET (1..n) : s # {} /\ f[s \ {Max(s)}] \in V => f[s] = step[Max(s)][f[s \ {Max(s)}]]

HasPrefixes(V, n, base, step, last) ==
    \E h \in [0..n -> V] : /\ h[0] = base /\ h[n] = last
                          /\ \A k \in 1..n : h[k] = step[k][h[k - 1]]

LEMMA FoldPrefixes ==
    ASSUME NEW V, NEW base \in V, NEW n \in Nat, NEW step \in [1..n -> [V -> V]], NEW f,
           Unfolds(f, V, n, base, step)
    PROVE  HasPrefixes(V, n, base, step, f[1..n])
<1>1. /\ f[{}] = base
      /\ \A s \in SUBSET (1..n) : s # {} /\ f[s \ {Max(s)}] \in V => f[s] = step[Max(s)][f[s \ {Max(s)}]]
  BY DEF Unfolds
<1> DEFINE Good == {k \in Nat : k <= n => f[1..k] \in V /\ (k # 0 => f[1..k] = step[k][f[1..k - 1]])}
<1>2. 0 \in Good
  <2>1. 1..0 = {}
    OBVIOUS
  <2>2. QED
    BY <1>1, <2>1
<1>3. ASSUME NEW k \in Nat, k \in Good PROVE k + 1 \in Good
  <2> SUFFICES ASSUME k + 1 <= n PROVE f[1..k + 1] \in V /\ f[1..k + 1] = step[k + 1][f[1..k]]
    <3>1. k + 1 \in Nat /\ k + 1 - 1 = k
      OBVIOUS
    <3>2. QED
      BY <3>1
  <2> DEFINE s == 1..k + 1
  <2>1. s \in SUBSET (1..n) /\ s # {} /\ k + 1 \in s /\ s \in SUBSET Int /\ k + 1 \in 1..n
    <3>1. k + 1 \in s /\ k + 1 \in 1..n
      OBVIOUS
    <3>2. \A x \in s : x \in 1..n /\ x \in Int
      OBVIOUS
    <3>3. QED
      BY <3>1, <3>2
  <2>2. Max(s) = k + 1
    <3>1. IsFiniteSet(s)
      BY FS_Interval
    <3>2. Max(s) \in s /\ k + 1 <= Max(s)
      BY <2>1, <3>1, Extremes
    <3>3. QED
      BY <3>2
  <2>3. s \ {k + 1} = 1..k
    OBVIOUS
  <2>4. f[1..k] \in V
    BY <1>3
  <2>5. step[k + 1] \in [V -> V]
    BY <2>1
  <2> HIDE DEF s
  <2>6. f[s] = step[k + 1][f[1..k]]
    BY <1>1, <2>1, <2>2, <2>3, <2>4
  <2>7. QED
    BY <2>4, <2>5, <2>6 DEF s
<1> HIDE DEF Good
<1>4. Nat \subseteq Good
  BY <1>2, <1>3, Induction
<1>5. \A k \in 0..n : f[1..k] \in V /\ (k # 0 => f[1..k] = step[k][f[1..k - 1]])
  BY <1>4 DEF Good
<1> DEFINE h == [k \in 0..n |-> f[1..k]]
<1>6. h \in [0..n -> V] /\ h[0] = base /\ h[n] = f[1..n]
  <2>1. 1..0 = {} /\ 0 \in 0..n /\ n \in 0..n
    OBVIOUS
  <2>2. QED
    BY <1>1, <1>5, <2>1
<1>7. \A k \in 1..n : h[k] = step[k][h[k - 1]]
  <2>1. \A k \in 1..n : k \in 0..n /\ k - 1 \in 0..n /\ k # 0
    OBVIOUS
  <2>2. QED
    BY <1>5, <2>1
<1> HIDE DEF h
<1>8. QED
  BY <1>6, <1>7 DEF HasPrefixes

\* The k-th of a finite set that B orders has k - 1 before it.
LEMMA Ranks ==
    ASSUME NEW S, IsFiniteSet(S), NEW B \in SUBSET (S \X S),
           \A x, y \in S : x # y => <<x, y>> \in B \/ <<y, x>> \in B,
           \A x \in S : <<x, x>> \notin B,
           \A x, y, z \in S : <<x, y>> \in B /\ <<y, z>> \in B => <<x, z>> \in B
    PROVE  LET rank(x) == Cardinality({y \in S : <<y, x>> \in B})
           IN  /\ \A k \in 1..Cardinality(S) : \E x \in S : rank(x) = k - 1
               /\ \A x \in S : rank(x) + 1 \in 1..Cardinality(S)
               /\ \A x, y \in S : rank(x) < rank(y) => <<x, y>> \in B
               /\ \A x, y \in S : rank(x) = rank(y) => x = y
<1> DEFINE before(x) == {y \in S : <<y, x>> \in B}
           rank(x) == Cardinality(before(x))
           n == Cardinality(S)
<1>1. n \in Nat /\ \A x \in S : rank(x) \in 0..n - 1
  <2>1. ASSUME NEW x \in S PROVE rank(x) \in 0..n - 1
    <3> DEFINE U == S \ {x}
    <3> DEFINE b == before(x)
    <3>1. b \in SUBSET U
      OBVIOUS
    <3>2. IsFiniteSet(U) /\ Cardinality(U) = n - 1
      BY FS_RemoveElement
    <3> HIDE DEF b, U
    <3>3. IsFiniteSet(b) /\ Cardinality(b) <= n - 1
      BY <3>1, <3>2, FS_Subset
    <3> USE DEF b
    <3>4. rank(x) \in Nat /\ n \in Nat
      BY <3>3, FS_CardinalityType
    <3>5. QED
      BY <3>3, <3>4
  <2>2. QED
    BY <2>1, FS_CardinalityType
<1>2. ASSUME NEW x \in S, NEW y \in S, <<x, y>> \in B PROVE rank(x) < rank(y)
  <2>1. before(x) \in SUBSET before(y) /\ x \in before(y) /\ x \notin before(x)
    BY <1>2
  <2>2. IsFiniteSet(before(y)) /\ IsFiniteSet(before(x))
    BY FS_Subset
  <2>3. rank(x) <= rank(y) /\ rank(x) # rank(y) /\ rank(x) \in Nat /\ rank(y) \in Nat
    BY <2>1, <2>2, FS_Subset, FS_CardinalityType
  <2>4. QED
    BY <2>3
<1>3. \A x, y \in S : rank(x) \in Int /\ rank(y) \in Int
  BY <1>1
<1>4. \A x, y \in S : rank(x) < rank(y) => <<x, y>> \in B
  <2>1. ASSUME NEW x \in S, NEW y \in S, rank(x) < rank(y) PROVE <<x, y>> \in B
    <3>1. ~(<<y, x>> \in B)
      <4>1. <<y, x>> \in B => rank(y) < rank(x)
        BY <1>2
      <4> HIDE DEF rank
      <4>2. QED
        BY <1>3, <2>1, <4>1
    <3>2. x # y
      <4>1. x = y => rank(x) = rank(y)
        OBVIOUS
      <4> HIDE DEF rank
      <4>2. QED
        BY <1>3, <2>1, <4>1
    <3>3. QED
      BY <3>1, <3>2
  <2>2. QED
    BY <2>1
<1>5. \A x, y \in S : rank(x) = rank(y) => x = y
  <2>1. ASSUME NEW x \in S, NEW y \in S, rank(x) = rank(y), x # y PROVE FALSE
    <3>1. rank(x) < rank(y) \/ rank(y) < rank(x)
      BY <1>2, <2>1
    <3> HIDE DEF rank
    <3>2. QED
      BY <1>3, <2>1, <3>1
  <2>2. QED
    BY <2>1
<1> DEFINE f == [x \in S |-> rank(x) + 1]
<1>6. \A x \in S : rank(x) + 1 \in 1..n
  <2> HIDE DEF rank, n
  <2>1. QED
    BY <1>1
<1>7. f \in Injection(S, 1..n)
  <2>1. f \in [S -> 1..n]
    BY <1>6
  <2>2. ASSUME NEW x \in S, NEW y \in S, f[x] = f[y] PROVE x = y
    <3>1. rank(x) + 1 = rank(y) + 1
      BY <2>2
    <3>2. rank(x) = rank(y)
      <4> HIDE DEF rank
      <4>1. QED
        BY <1>3, <3>1
    <3>3. QED
      BY <1>5, <3>2
  <2> HIDE DEF f
  <2>3. QED
    BY <2>1, <2>2 DEF Injection, IsInjective
<1>8. f \in Surjection(S, 1..n)
  <2>1. IsFiniteSet(1..n) /\ Cardinality(1..n) = n
    <3> HIDE DEF n
    <3>1. 1 \in Int /\ n \in Int /\ n >= 0
      BY <1>1
    <3>2. IsFiniteSet(1..n) /\ Cardinality(1..n) = IF 1 > n THEN 0 ELSE n - 1 + 1
      BY <3>1, FS_Interval
    <3>3. QED
      BY <3>1, <3>2
  <2> HIDE DEF f
  <2>2. QED
    BY <1>7, <2>1, FS_Injection
<1>9. \A k \in 1..n : \E x \in S : f[x] = k
  <2> HIDE DEF f, n
  <2>1. QED
    BY <1>8 DEF Surjection
<1>10. ASSUME NEW k \in 1..n PROVE \E x \in S : rank(x) = k - 1
  <2>1. PICK x \in S : f[x] = k
    BY <1>9
  <2>2. rank(x) + 1 = k
    BY <2>1
  <2>3. rank(x) = k - 1
    <3> HIDE DEF rank, n
    <3>1. QED
      BY <1>1, <2>2
  <2>4. QED
    BY <2>3
<1>11. QED
  BY <1>4, <1>5, <1>6, <1>10

-----------------------------------------------------------------------------
(* Days and months.                                                        *)

Months == Len(MonthLengths)

LEMMA Lengths ==
    /\ HoursPerDay \in Nat \ {0} /\ DaysPerWeek \in Nat \ {0} /\ LastMonthDay \in Nat \ {0}
    /\ Months \in Nat /\ Months >= 3 /\ DOMAIN MonthLengths = 1..Months
    /\ \A m \in 1..Months : MonthLengths[m] \in Nat /\ LastMonthDay <= MonthLengths[m]
  BY CalendarAssumption DEF Months

LEMMA MonthsFollow == Sequel(MonthStart, Months, MonthLengths)
<1>1. \E f : Follow(f, Months + 1, MonthLengths)
  <2>1. Months + 1 \in Nat
    BY Lengths
  <2>2. QED
    BY <2>1, FollowExist
<1>2. Follow(MonthStart, Months + 1, MonthLengths)
  BY <1>1 DEF MonthStart, Follow, Months
<1>3. QED
  BY <1>2, Lengths, FollowSequel

LEMMA MonthStarts ==
    /\ MonthStart[1] = 0
    /\ \A m \in 1..Months + 1 : MonthStart[m] \in Nat
    /\ \A m \in 1..Months : MonthStart[m + 1] = MonthStart[m] + MonthLengths[m]
  BY MonthsFollow, SequelNat DEF Sequel

\* The next month begins after the days that every month has.
LEMMA MonthsAdvance ==
    ASSUME NEW m \in 1..Months, NEW k \in 1..Months + 1, m < k
    PROVE  MonthStart[m] + LastMonthDay <= MonthStart[m + 1] /\ MonthStart[m + 1] <= MonthStart[k]
<1>1. MonthLengths[m] \in Nat /\ LastMonthDay <= MonthLengths[m] /\ LastMonthDay \in Nat /\ m \in 1..Months + 1
  BY Lengths
<1>2. MonthStart[m + 1] = MonthStart[m] + MonthLengths[m] /\ MonthStart[m] \in Nat
  BY <1>1, MonthStarts
<1>3. MonthStart[m] + LastMonthDay <= MonthStart[m + 1]
  BY <1>1, <1>2
<1>4. QED
  BY <1>3, MonthsFollow, SequelAdvances

\* Every day of the calendar has its month.
LEMMA MonthExists ==
    ASSUME NEW day \in Nat, day < MonthStart[Months + 1]
    PROVE  \E m \in 1..Months : MonthStart[m] <= day /\ day < MonthStart[m + 1]
  BY MonthsFollow, SequelCovers

\* It has one only.
LEMMA MonthIs ==
    ASSUME NEW day \in Int, NEW m \in 1..Months, MonthStart[m] <= day, day < MonthStart[m + 1]
    PROVE  MonthOf(day) = m
<1>1. DOMAIN MonthLengths = 1..Months
  BY Lengths
<1>2. \A k \in 1..Months : MonthStart[k] + MonthLengths[k] = MonthStart[k + 1]
  BY MonthStarts
<1>3. \A k \in 1..Months : MonthStart[k] <= day /\ day < MonthStart[k + 1] => k = m
  BY MonthsFollow, SequelApart
<1>4. MonthOf(day) = CHOOSE k \in 1..Months : MonthStart[k] <= day /\ day < MonthStart[k] + MonthLengths[k]
  BY <1>1 DEF MonthOf
<1>5. MonthStart[m] <= day /\ day < MonthStart[m] + MonthLengths[m]
  BY <1>2
<1>6. \A k \in 1..Months : MonthStart[k] <= day /\ day < MonthStart[k] + MonthLengths[k] => k = m
  BY <1>2, <1>3
<1>7. QED
  BY <1>4, <1>5, <1>6, Zenon

-----------------------------------------------------------------------------
(* Hours, days and weeks.                                                  *)

LEMMA Products ==
    ASSUME NEW p \in Nat \ {0}, NEW a \in Int, NEW b \in Int
    PROVE  /\ a * p \in Int /\ (a + 1) * p = a * p + p /\ (a - 1) * p = a * p - p
           /\ a < b => a * p + p <= b * p
<1>1. a * p \in Int /\ b * p \in Int /\ (a + 1) * p = a * p + p /\ (a - 1) * p = a * p - p
  OBVIOUS
<1>2. ASSUME a < b PROVE a * p + p <= b * p
  <2>1. (b - (a + 1)) * p >= 0
    BY <1>2
  <2>2. (b - (a + 1)) * p = b * p - (a * p + p)
    OBVIOUS
  <2> DEFINE x == a * p
             y == b * p
  <2>3. x \in Int /\ y \in Int
    BY <1>1
  <2> HIDE DEF x, y
  <2>4. y - (x + p) >= 0
    BY <2>1, <2>2 DEF x, y
  <2>5. x + p <= y
    BY <2>3, <2>4
  <2>6. QED
    BY <2>5 DEF x, y
<1>3. QED
  BY <1>1, <1>2

\* The days begin one after the other, and a time is in one of them.
LEMMA Days ==
    /\ \A d \in Int : DayStart(d) \in Int /\ DayStart(d + 1) = DayStart(d) + HoursPerDay
    /\ \A d \in Int, e \in Int : d < e => DayStart(d) + HoursPerDay <= DayStart(e)
<1>1. HoursPerDay \in Nat \ {0}
  BY Lengths
<1>2. QED
  BY <1>1, Products DEF DayStart

LEMMA DayOf ==
    ASSUME NEW t \in Int
    PROVE  /\ Day(t) \in Int /\ DayStart(Day(t)) <= t /\ t < DayStart(Day(t)) + HoursPerDay
           /\ t % HoursPerDay = t - DayStart(Day(t))
<1>1. HoursPerDay \in Nat \ {0}
  BY Lengths
<1> DEFINE p == HoursPerDay
           q == t \div p
<1>2. q \in Int /\ t = p * q + (t % p) /\ t % p \in 0..p - 1
  BY <1>1
<1> HIDE DEF p, q
<1>3. p * q = q * p /\ q * p \in Int /\ p \in Nat
  BY <1>1, <1>2 DEF p
<1>4. q * p <= t /\ t < q * p + p /\ t % p = t - q * p
  BY <1>2, <1>3
<1>5. QED
  BY <1>2, <1>4 DEF p, q, Day, DayStart

LEMMA DayIs ==
    ASSUME NEW t \in Int, NEW d \in Int, DayStart(d) <= t, t < DayStart(d) + HoursPerDay
    PROVE  Day(t) = d
<1> DEFINE e == Day(t)
           p == HoursPerDay
<1>1. e \in Int /\ DayStart(e) <= t /\ t < DayStart(e) + p /\ p \in Nat
  BY DayOf, Lengths
<1>2. DayStart(d) \in Int /\ DayStart(e) \in Int
  BY <1>1, Days
<1>3. (d < e => DayStart(d) + p <= DayStart(e)) /\ (e < d => DayStart(e) + p <= DayStart(d))
  BY <1>1, Days
<1> HIDE DEF e, p
<1>4. ~(d < e) /\ ~(e < d)
  BY <1>1, <1>2, <1>3 DEF p
<1>5. QED
  BY <1>1, <1>4 DEF e

\* An occurrence on a day is in the day, and later days have later ones.
LEMMA OccurrencesOn ==
    ASSUME NEW body \in Bodies, NEW d \in Int
    PROVE  /\ At(d, body) \in Int /\ DayStart(d) <= At(d, body) /\ At(d, body) < DayStart(d) + HoursPerDay
           /\ Day(At(d, body)) = d /\ At(d, body) % HoursPerDay = body.hour
           /\ \A e \in Int : d < e => At(d, body) < At(e, body)
           /\ \A t \in Int : t % HoursPerDay = body.hour /\ Day(t) = d => t = At(d, body)
<1> DEFINE p == HoursPerDay
           h == body.hour
<1>1. p \in Nat \ {0} /\ h \in Nat /\ h < p
  BY Lengths DEF Bodies
<1>2. \A e \in Int : At(e, body) = DayStart(e) + h /\ DayStart(e) \in Int
  BY Days DEF At, DayStart
<1> DEFINE a == At(d, body)
           s == DayStart(d)
<1>3. a = s + h /\ s \in Int
  BY <1>2
<1> HIDE DEF p, h, a, s
<1>4. a \in Int /\ s <= a /\ a < s + p
  BY <1>1, <1>3
<1>5. Day(a) = d
  BY <1>4, DayIs DEF s, p
<1>6. a % p = h
  <2>1. a % p = a - s
    BY <1>4, <1>5, DayOf DEF s, p
  <2>2. QED
    BY <1>1, <1>3, <2>1
<1>7. ASSUME NEW e \in Int, d < e PROVE a < At(e, body)
  <2>1. s + p <= DayStart(e)
    BY <1>7, Days DEF s, p
  <2>2. At(e, body) = DayStart(e) + h /\ DayStart(e) \in Int
    BY <1>2
  <2>3. QED
    BY <1>1, <1>3, <2>1, <2>2
<1>8. ASSUME NEW t \in Int, t % p = h, Day(t) = d PROVE t = a
  <2>1. t % p = t - s
    BY <1>8, DayOf DEF s, p
  <2>2. QED
    BY <1>1, <1>3, <1>8, <2>1
<1>9. QED
  BY <1>4, <1>5, <1>6, <1>7, <1>8 DEF a, s, p, h

LEMMA Remainder ==
    ASSUME NEW p \in Nat \ {0}, NEW q \in Int, NEW w \in 0..p - 1
    PROVE  (p * q + w) % p = w
<1> DEFINE x == p * q + w
           r == x \div p
           z == x % p
<1>1. p * q = q * p /\ q * p \in Int /\ x \in Int
  OBVIOUS
<1>2. r \in Int /\ x = p * r + z /\ z \in 0..p - 1 /\ p * r = r * p
  BY <1>1
<1> HIDE DEF r, z
<1> DEFINE a == q * p
           b == r * p
<1>3. /\ a \in Int /\ b \in Int
      /\ q < r => a + p <= b
      /\ r < q => b + p <= a
      /\ q = r => a = b
  BY <1>2, Products
<1>4. x = a + w /\ x = b + z
  BY <1>1, <1>2
<1> HIDE DEF x, a, b
<1>5. q = r
  BY <1>2, <1>3, <1>4
<1>6. z = w
  BY <1>2, <1>3, <1>4, <1>5
<1>7. QED
  BY <1>6 DEF x, z

LEMMA Distributes ==
    ASSUME NEW p \in Int, NEW i \in Int, NEW j \in Int
    PROVE  p * i \in Int /\ p * j \in Int /\ p * (i + j) = p * i + p * j
  OBVIOUS

\* The last day of a weekday up to d.
LEMMA WeekdayBefore ==
    ASSUME NEW body \in Bodies, NEW d \in Int
    PROVE  /\ SameWeek(d, body) \in Int /\ SameWeek(d, body) <= d
           /\ Weekday(SameWeek(d, body)) = body.weekday
           /\ d < SameWeek(d, body) + DaysPerWeek
<1> DEFINE W == DaysPerWeek
           w == body.weekday
           k == (Weekday(d) - w) % W
<1>1. W \in Nat \ {0} /\ w \in Nat /\ w < W /\ Weekday(d) \in Int
  BY Lengths DEF Bodies, Weekday
<1>2. k \in 0..W - 1
  BY <1>1
<1> DEFINE i == d \div W
           j == (Weekday(d) - w) \div W
<1>3. /\ d = W * i + Weekday(d) /\ i \in Int
      /\ Weekday(d) - w = W * j + k /\ j \in Int
  BY <1>1 DEF Weekday
<1>4. d - k = W * (i + j) + w
  <2>1. W * i \in Int /\ W * j \in Int /\ W * (i + j) = W * i + W * j
    <3> HIDE DEF i, j, W
    <3>1. QED
      BY <1>1, <1>3, Distributes
  <2> DEFINE x == W * i
             y == W * j
  <2>2. d = x + Weekday(d) /\ Weekday(d) - w = y + k /\ x \in Int /\ y \in Int
    BY <1>3, <2>1
  <2> HIDE DEF k, x, y
  <2>3. d - k = x + y + w
    BY <1>1, <1>2, <2>2
  <2>4. QED
    BY <2>1, <2>3 DEF x, y
<1> DEFINE q == i + j
<1>5. q \in Int
  BY <1>3
<1> HIDE DEF k, i, j, q
<1>6. d - k = W * q + w
  BY <1>4 DEF q
<1>7. (W * q + w) % W = w
  BY <1>1, <1>5, Remainder
<1>8. SameWeek(d, body) = d - k
  BY DEF SameWeek, k
<1>9. QED
  BY <1>1, <1>2, <1>6, <1>7, <1>8 DEF Weekday

\* Days of one weekday are a week apart, at least.
LEMMA WeekApart ==
    ASSUME NEW d \in Int, NEW e \in Int, d < e, Weekday(d) = Weekday(e)
    PROVE  d + DaysPerWeek <= e
<1> DEFINE W == DaysPerWeek
           i == d \div W
           j == e \div W
           w == Weekday(d)
<1>1. W \in Nat \ {0} /\ i \in Int /\ j \in Int
  BY Lengths
<1>2. d = W * i + w /\ e = W * j + w /\ w \in Int
  BY <1>1 DEF Weekday
<1>3. W * i = i * W /\ W * j = j * W /\ i * W \in Int /\ j * W \in Int
  BY <1>1
<1>4. (i < j => i * W + W <= j * W) /\ (j < i => j * W + W <= i * W)
  BY <1>1, Products
<1> DEFINE x == i * W
           y == j * W
<1>5. d = x + w /\ e = y + w /\ x \in Int /\ y \in Int
  BY <1>2, <1>3
<1> HIDE DEF i, j, x, y, W, w
<1>6. i < j => x + W <= y
  BY <1>4 DEF x, y
<1>7. ~(i < j) => y <= x
  <2>1. i = j => x = y
    BY DEF x, y
  <2>2. j < i => y + W <= x
    BY <1>4 DEF x, y
  <2>3. QED
    BY <1>1, <1>5, <2>1, <2>2 DEF W
<1>8. d + W <= e
  BY <1>1, <1>2, <1>5, <1>6, <1>7
<1>9. QED
  BY <1>8 DEF W

LEMMA WeekLater ==
    ASSUME NEW d \in Int
    PROVE  Weekday(d - DaysPerWeek) = Weekday(d) /\ Weekday(d) \in 0..DaysPerWeek - 1
<1> DEFINE W == DaysPerWeek
           i == d \div W
           w == Weekday(d)
<1>1. W \in Nat \ {0} /\ i \in Int
  BY Lengths
<1>2. d = W * i + w /\ w \in 0..W - 1
  BY <1>1 DEF Weekday
<1>3. W * (i - 1) = W * i - W /\ W * i \in Int
  BY <1>1
<1> HIDE DEF i, W, w
<1>4. d - W = W * (i - 1) + w
  BY <1>1, <1>2, <1>3
<1>5. (W * (i - 1) + w) % W = w
  BY <1>1, <1>2, Remainder
<1>6. QED
  BY <1>2, <1>4, <1>5 DEF Weekday, W, w

-----------------------------------------------------------------------------
(* Occurrences.                                                            *)

\* The days a schedule names.
NamedDay(body, d) ==
    /\ body.frequency = "weekly" => Weekday(d) = body.weekday
    /\ body.frequency = "monthly" => \E m \in 1..Months : d = MonthStart[m] + MonthDay(body) - 1

\* From the last hour of the first month on, to the end of the calendar.
InCalendar(t) == DayStart(MonthStart[2]) - 1 <= t /\ t < DayStart(MonthStart[Months + 1])

\* The occurrence on day d is the latest up to t.
LatestOn(d, body, t) ==
    /\ NamedDay(body, d) /\ At(d, body) <= t
    /\ \A e \in Int : NamedDay(body, e) /\ d < e => t < At(e, body)

LEMMA OtherDays ==
    ASSUME NEW body \in Bodies, NEW t \in Int, NEW d \in Int
    PROVE  (d < Day(t) => At(d, body) < t) /\ (Day(t) < d => t < At(d, body))
<1> DEFINE a == At(d, body)
           p == HoursPerDay
           q == Day(t)
           D == DayStart(d)
           Q == DayStart(q)
<1>1. p \in Nat /\ D \in Int /\ a \in Int /\ D <= a /\ a < D + p
  BY OccurrencesOn, Days, Lengths
<1>2. q \in Int /\ Q \in Int /\ Q <= t /\ t < Q + p
  BY DayOf, Days
<1>3. (d < q => D + p <= Q) /\ (q < d => Q + p <= D)
  BY <1>2, Days
<1> HIDE DEF a, p, q, D, Q
<1>4. (d < q => a < t) /\ (q < d => t < a)
  BY <1>1, <1>2, <1>3
<1>5. QED
  BY <1>4 DEF a, q

LEMMA MonthDays == ASSUME NEW body \in Bodies PROVE MonthDay(body) \in 1..LastMonthDay
  BY Lengths DEF MonthDay, Bodies

LEMMA NumberedMonths ==
    /\ Months \in Nat /\ 1 \in 1..Months /\ 2 \in 1..Months /\ Months + 1 \in 1..Months + 1
    /\ \A m \in 1..Months : m \in 1..Months + 1 /\ m + 1 \in 1..Months + 1
    /\ \A m \in 1..Months : m # 1 => m - 1 \in 1..Months
  BY Lengths

\* A day that a schedule names in a month is in that month.
LEMMA InMonth ==
    ASSUME NEW body \in Bodies, NEW m \in 1..Months
    PROVE  LET d == MonthStart[m] + MonthDay(body) - 1
           IN  d \in Nat /\ MonthStart[m] <= d /\ d < MonthStart[m + 1] /\ MonthOf(d) = m
                 /\ MonthStart[m + 1] \in Nat
<1> DEFINE d == MonthStart[m] + MonthDay(body) - 1
<1>1. MonthDay(body) \in 1..LastMonthDay /\ LastMonthDay \in Nat
  BY MonthDays, Lengths
<1>2. m \in 1..Months + 1 /\ m + 1 \in 1..Months + 1 /\ m < m + 1
  BY NumberedMonths
<1>3. MonthStart[m] \in Nat /\ MonthStart[m + 1] \in Nat
  BY <1>2, MonthStarts
<1>4. MonthStart[m] + LastMonthDay <= MonthStart[m + 1]
  BY <1>2, MonthsAdvance
<1>5. d \in Nat /\ MonthStart[m] <= d /\ d < MonthStart[m + 1]
  BY <1>1, <1>3, <1>4
<1> HIDE DEF d
<1>6. MonthOf(d) = m
  BY <1>5, MonthIs
<1>7. QED
  BY <1>3, <1>5, <1>6 DEF d

\* The days a schedule names in two months lie as the months do.
LEMMA MonthsApart ==
    ASSUME NEW body \in Bodies, NEW m \in 1..Months, NEW k \in 1..Months, m < k
    PROVE  MonthStart[m] + MonthDay(body) - 1 < MonthStart[k] /\ MonthStart[k] \in Nat
<1> DEFINE d == MonthStart[m] + MonthDay(body) - 1
<1>1. d \in Nat /\ d < MonthStart[m + 1] /\ MonthStart[m + 1] \in Nat
  BY InMonth
<1>2. k \in 1..Months + 1
  BY NumberedMonths
<1>3. MonthStart[m + 1] <= MonthStart[k] /\ MonthStart[k] \in Nat
  BY <1>2, MonthsAdvance, MonthStarts
<1> HIDE DEF d
<1>4. d < MonthStart[k]
  BY <1>1, <1>3
<1>5. QED
  BY <1>3, <1>4 DEF d

LEMMA DayOrder ==
    ASSUME NEW d \in Int, NEW e \in Int
    PROVE  /\ DayStart(d) \in Int /\ DayStart(e) \in Int
           /\ d < e => DayStart(d) + HoursPerDay <= DayStart(e)
  BY Days

LEMMA DaysWithin ==
    ASSUME NEW t \in Int, NEW first \in Nat \ {0}, NEW last \in Nat,
           DayStart(first) - 1 <= t, t < DayStart(last)
    PROVE  Day(t) \in Nat /\ Day(t) < last /\ first - 1 <= Day(t)
<1> DEFINE p == HoursPerDay
           q == Day(t)
           a == DayStart(first)
           b == DayStart(last)
           Q == DayStart(q)
<1>1. p \in Nat \ {0} /\ q \in Int /\ Q <= t /\ t < Q + p
  BY DayOf, Lengths
<1>2. a \in Int /\ b \in Int /\ Q \in Int
  BY <1>1, DayOrder
<1>3. last < q => b + p <= Q
  BY <1>1, DayOrder
<1>4. last = q => b = Q
  OBVIOUS
<1>5. DayStart(q + 1) = Q + p /\ q + 1 \in Int
  <2> HIDE DEF q
  <2>1. QED
    BY <1>1, Days
<1>6. q + 1 < first => Q + p + p <= a
  <2> HIDE DEF p, Q, a
  <2>1. q + 1 < first => DayStart(q + 1) + p <= a
    BY <1>5, DayOrder DEF p, a
  <2>2. QED
    BY <1>5, <2>1
<1> HIDE DEF p, q, a, b, Q
<1>7. a - 1 <= t /\ t < b
  BY DEF a, b
<1>8. ~(last <= q) /\ ~(q + 1 < first)
  BY <1>1, <1>2, <1>3, <1>4, <1>6, <1>7
<1>9. q \in Nat /\ q < last /\ first - 1 <= q
  BY <1>1, <1>8
<1>10. QED
  BY <1>9 DEF q

LEMMA DailyIs ==
    ASSUME NEW body \in Bodies, NEW t \in Int, body.frequency = "daily"
    PROVE  \E d \in Int : PreviousOccurrence(body, t) = At(d, body) /\ LatestOn(d, body, t)
<1> DEFINE q == Day(t)
<1>1. q \in Int /\ q - 1 \in Int
  BY DayOf
<1>2. PreviousOccurrence(body, t) = IF At(q, body) > t THEN At(q - 1, body) ELSE At(q, body)
  BY DEF PreviousOccurrence, Latest
<1>3. At(q, body) \in Int /\ At(q - 1, body) < t
  <2>1. q - 1 < q
    BY <1>1
  <2>2. QED
    BY <1>1, <2>1, OtherDays, OccurrencesOn
<1>4. ASSUME NEW e \in Int, q - 1 < e PROVE e = q \/ t < At(e, body)
  <2>1. e = q \/ q < e
    BY <1>1, <1>4
  <2>2. QED
    BY <2>1, OtherDays
<1> HIDE DEF q
<1>5. CASE At(q, body) > t
  <2>1. \A e \in Int : q - 1 < e => t < At(e, body)
    BY <1>4, <1>5
  <2>2. At(q - 1, body) <= t
    <3>1. At(q - 1, body) \in Int
      BY <1>1, OccurrencesOn
    <3>2. QED
      BY <1>3, <3>1
  <2>3. LatestOn(q - 1, body, t)
    BY <2>1, <2>2 DEF LatestOn, NamedDay
  <2>4. QED
    BY <1>1, <1>2, <1>5, <2>3
<1>6. CASE ~(At(q, body) > t)
  <2>1. \A e \in Int : q < e => t < At(e, body)
    BY OtherDays DEF q
  <2>2. LatestOn(q, body, t)
    BY <1>3, <1>6, <2>1 DEF LatestOn, NamedDay
  <2>3. QED
    BY <1>1, <1>2, <1>6, <2>2
<1>7. QED
  BY <1>5, <1>6

LEMMA WeeklyIs ==
    ASSUME NEW body \in Bodies, NEW t \in Int, body.frequency = "weekly"
    PROVE  \E d \in Int : PreviousOccurrence(body, t) = At(d, body) /\ LatestOn(d, body, t)
<1> DEFINE q == Day(t)
           s == SameWeek(q, body)
           W == DaysPerWeek
<1>1. q \in Int /\ s \in Int /\ s <= q /\ q < s + W /\ W \in Nat \ {0} /\ Weekday(s) = body.weekday
  BY DayOf, WeekdayBefore, Lengths
<1>2. s - W \in Int /\ Weekday(s - W) = body.weekday /\ s - W < q
  BY <1>1, WeekLater
<1>3. PreviousOccurrence(body, t) = IF At(s, body) > t THEN At(s - W, body) ELSE At(s, body)
  BY DEF PreviousOccurrence, Latest
<1>4. At(s, body) \in Int /\ At(s - W, body) \in Int /\ At(s - W, body) < t
  BY <1>1, <1>2, OtherDays, OccurrencesOn
<1> HIDE DEF s
<1>5. CASE At(s, body) > t
  <2>1. ASSUME NEW e \in Int, Weekday(e) = body.weekday, s - W < e PROVE t < At(e, body)
    <3>1. s - W + W <= e
      BY <1>2, <2>1, WeekApart
    <3>2. e = s \/ s < e
      BY <1>1, <3>1
    <3>3. s < e => At(s, body) < At(e, body)
      BY <1>1, OccurrencesOn
    <3>4. At(e, body) \in Int
      BY OccurrencesOn
    <3>5. QED
      BY <1>4, <1>5, <3>2, <3>3, <3>4
  <2>2. LatestOn(s - W, body, t)
    BY <1>2, <1>4, <2>1 DEF LatestOn, NamedDay
  <2>3. QED
    BY <1>2, <1>3, <1>5, <2>2
<1>6. CASE ~(At(s, body) > t)
  <2>1. ASSUME NEW e \in Int, Weekday(e) = body.weekday, s < e PROVE t < At(e, body)
    <3>1. s + W <= e
      BY <1>1, <2>1, WeekApart
    <3>2. q < e
      BY <1>1, <3>1
    <3>3. QED
      BY <3>2, OtherDays
  <2>2. LatestOn(s, body, t)
    BY <1>1, <1>4, <1>6, <2>1 DEF LatestOn, NamedDay
  <2>3. QED
    BY <1>1, <1>3, <1>6, <2>2
<1>7. QED
  BY <1>5, <1>6

LEMMA MonthlyIs ==
    ASSUME NEW body \in Bodies, NEW t \in Int, InCalendar(t), body.frequency = "monthly"
    PROVE  \E d \in Int : PreviousOccurrence(body, t) = At(d, body) /\ LatestOn(d, body, t)
<1> DEFINE q == Day(t)
           day(m) == MonthStart[m] + MonthDay(body) - 1
           last == MonthStart[Months + 1]
<1>1. q \in Int /\ DayStart(q) <= t /\ t < DayStart(q) + HoursPerDay /\ HoursPerDay \in Nat \ {0}
  BY DayOf, Lengths
<1>2. MonthStart[2] \in Nat /\ last \in Nat /\ MonthStart[2] \in Nat \ {0}
  <2>1. 2 \in 1..Months + 1 /\ 1 + 1 = 2 /\ 1 < 2
    BY NumberedMonths
  <2>2. MonthStart[1] + LastMonthDay <= MonthStart[1 + 1] /\ MonthStart[1] = 0
    BY <2>1, NumberedMonths, MonthsAdvance, MonthStarts
  <2>3. LastMonthDay \in Nat \ {0} /\ MonthStart[2] \in Nat /\ last \in Nat
    BY <2>1, NumberedMonths, Lengths, MonthStarts
  <2>4. QED
    BY <2>1, <2>2, <2>3
<1>3. q \in Nat /\ q < last /\ MonthStart[2] - 1 <= q
  <2>1. DayStart(MonthStart[2]) - 1 <= t /\ t < DayStart(last)
    BY DEF InCalendar
  <2> HIDE DEF last
  <2>2. QED
    BY <1>2, <2>1, DaysWithin
<1>4. PICK m \in 1..Months : MonthStart[m] <= q /\ q < MonthStart[m + 1]
  BY <1>3, MonthExists
<1>5. MonthOf(q) = m
  BY <1>1, <1>4, MonthIs
<1>6. PreviousOccurrence(body, t) = IF At(day(m), body) > t THEN At(day(m - 1), body) ELSE At(day(m), body)
  <2>1. body.frequency # "daily" /\ body.frequency # "weekly"
    OBVIOUS
  <2>2. QED
    BY <1>5, <2>1 DEF PreviousOccurrence, Latest
<1>7. \A k \in 1..Months : day(k) \in Nat /\ day(k) < MonthStart[k + 1] /\ NamedDay(body, day(k))
  BY InMonth DEF NamedDay
<1>8. ASSUME NEW e \in Int, NamedDay(body, e)
      PROVE  \E k \in 1..Months : e = day(k) /\ (k < m => e < MonthStart[m]) /\ (m < k => q < e)
  <2>1. PICK k \in 1..Months : e = day(k)
    BY <1>8 DEF NamedDay
  <2>2. k < m => e < MonthStart[m]
    BY <2>1, MonthsApart
  <2>3. m < k => q < e
    <3>1. ASSUME m < k PROVE q < e
      <4>1. k \in 1..Months + 1 /\ m + 1 \in 1..Months + 1
        BY NumberedMonths
      <4>2. MonthStart[m + 1] <= MonthStart[k] /\ MonthStart[k] \in Nat /\ MonthStart[m + 1] \in Nat
        BY <3>1, <4>1, MonthsAdvance, MonthStarts
      <4>3. MonthDay(body) \in 1..LastMonthDay
        BY MonthDays
      <4>4. QED
        BY <1>1, <1>4, <2>1, <4>2, <4>3
    <3>2. QED
      BY <3>1
  <2>4. QED
    BY <2>1, <2>2, <2>3
<1>9. MonthStart[m] \in Nat /\ MonthStart[m] <= day(m)
  BY InMonth, NumberedMonths, MonthStarts
<1> HIDE DEF q
<1>10. CASE At(day(m), body) <= t
  <2>1. ASSUME NEW e \in Int, NamedDay(body, e), day(m) < e PROVE t < At(e, body)
    <3>1. PICK k \in 1..Months : e = day(k) /\ (k < m => e < MonthStart[m]) /\ (m < k => q < e)
      BY <1>8, <2>1
    <3>2. ~(k < m)
      BY <1>7, <1>9, <2>1, <3>1
    <3>3. k # m
      BY <1>7, <2>1, <3>1
    <3>4. q < e
      BY <3>1, <3>2, <3>3
    <3>5. QED
      BY <3>4, OtherDays DEF q
  <2>2. LatestOn(day(m), body, t)
    BY <1>7, <1>10, <2>1 DEF LatestOn
  <2>3. At(day(m), body) \in Int /\ day(m) \in Int
    BY <1>7, OccurrencesOn
  <2>4. PreviousOccurrence(body, t) = At(day(m), body)
    BY <1>6, <1>10, <2>3
  <2>5. QED
    BY <2>2, <2>3, <2>4
<1>11. CASE ~(At(day(m), body) <= t)
  <2>1. day(m) \in Int /\ At(day(m), body) \in Int /\ At(day(m), body) > t
    BY <1>7, <1>11, OccurrencesOn
  <2>2. m # 1
    <3>1. ASSUME m = 1 PROVE FALSE
      <4>1. day(1) < MonthStart[2] /\ 1 + 1 = 2
        BY <3>1, InMonth
      <4>2. day(1) <= MonthStart[2] - 1 /\ MonthStart[2] - 1 \in Int /\ day(1) \in Int
        BY <1>2, <1>7, <3>1, <4>1
      <4>3. At(day(1), body) < DayStart(day(1)) + HoursPerDay /\ At(day(1), body) \in Int
        BY <4>2, OccurrencesOn
      <4> HIDE DEF day
      <4>4. day(1) < MonthStart[2] /\ MonthStart[2] \in Int
        BY <1>2, <4>1
      <4>5. /\ DayStart(day(1)) + HoursPerDay <= DayStart(MonthStart[2])
            /\ DayStart(day(1)) \in Int /\ DayStart(MonthStart[2]) \in Int
            /\ DayStart(MonthStart[2]) - 1 <= t
        BY <4>2, <4>4, DayOrder DEF InCalendar
      <4>6. At(day(1), body) <= t
        BY <1>1, <4>3, <4>5
      <4>7. QED
        BY <1>11, <3>1, <4>6
    <3>2. QED
      BY <3>1
  <2> DEFINE k == m - 1
  <2>3. k \in 1..Months /\ k + 1 = m /\ k < m
    BY <2>2, NumberedMonths
  <2> HIDE DEF k
  <2>4. day(k) \in Int /\ day(k) < MonthStart[m] /\ NamedDay(body, day(k))
    BY <1>7, <2>3
  <2>5. At(day(k), body) <= t
    <3>1. day(k) < q /\ At(day(k), body) \in Int
      BY <1>1, <1>4, <1>9, <2>4, OccurrencesOn
    <3>2. QED
      BY <2>4, <3>1, OtherDays DEF q
  <2>6. ASSUME NEW e \in Int, NamedDay(body, e), day(k) < e PROVE t < At(e, body)
    <3>1. PICK i \in 1..Months : e = day(i) /\ (i < m => e < MonthStart[m]) /\ (m < i => q < e)
      BY <1>8, <2>6
    <3>2. ~(i < k)
      <4>1. ASSUME i < k PROVE FALSE
        <5>1. e < MonthStart[k] /\ MonthStart[k] \in Nat
          BY <2>3, <3>1, <4>1, MonthsApart
        <5>2. MonthStart[k] <= day(k)
          BY <2>3, InMonth
        <5>3. QED
          BY <2>4, <2>6, <5>1, <5>2
      <4>2. QED
        BY <4>1
    <3>3. i # k
      BY <2>4, <2>6, <3>1
    <3>4. i = m \/ m < i
      BY <2>3, <3>2, <3>3
    <3>5. QED
      BY <2>1, <3>1, <3>4, OtherDays DEF q
  <2>7. LatestOn(day(k), body, t)
    BY <2>4, <2>5, <2>6 DEF LatestOn
  <2>8. PreviousOccurrence(body, t) = At(day(k), body)
    BY <1>6, <2>1 DEF k
  <2>9. QED
    BY <2>4, <2>7, <2>8
<1>12. QED
  BY <1>10, <1>11

LEMMA PreviousIs ==
    ASSUME NEW body \in Bodies, NEW t \in Int, InCalendar(t)
    PROVE  \E d \in Int : PreviousOccurrence(body, t) = At(d, body) /\ LatestOn(d, body, t)
<1>1. body.frequency \in {"daily", "weekly", "monthly"}
  BY DEF Bodies
<1>2. QED
  BY <1>1, DailyIs, WeeklyIs, MonthlyIs

-----------------------------------------------------------------------------
(* Reports of consecutive occurrences.                                     *)

\* Between consecutive occurrences of a schedule lies one of its periods.
LEMMA DailyTiles ==
    ASSUME NEW body \in Bodies, body.frequency = "daily", NEW d \in Int, NEW c \in Int,
           NEW t \in Int, Day(t) = d, NEW u \in Int, Day(u) = c,
           c < d, \A e \in Int : c < e => ~(e < d)
    PROVE  ResolveRange(Period(body), t)[1] = ResolveRange(Period(body), u)[2]
<1>1. c = d - 1
  <2>1. d - 1 \in Int /\ d - 1 < d
    OBVIOUS
  <2>2. ~(c < d - 1)
    BY <2>1
  <2>3. QED
    BY <2>2
<1>2. ResolveRange("yesterday", t) = <<DayStart(d - 1), DayStart(d)>>
  BY DEF ResolveRange
<1>3. ResolveRange("yesterday", u) = <<DayStart(c - 1), DayStart(c)>>
  BY DEF ResolveRange
<1>4. Period(body) = "yesterday"
  BY DEF Period
<1>5. QED
  BY <1>1, <1>2, <1>3, <1>4

LEMMA WeeklyTiles ==
    ASSUME NEW body \in Bodies, body.frequency = "weekly", NEW d \in Int, NEW c \in Int,
           NEW t \in Int, Day(t) = d, NEW u \in Int, Day(u) = c,
           Weekday(d) = body.weekday, Weekday(c) = body.weekday,
           c < d, \A e \in Int : Weekday(e) = body.weekday /\ c < e => ~(e < d)
    PROVE  ResolveRange(Period(body), t)[1] = ResolveRange(Period(body), u)[2]
<1> DEFINE W == DaysPerWeek
<1>1. W \in Nat \ {0} /\ c + W <= d
  BY WeekApart, Lengths
<1>2. d - W \in Int /\ Weekday(d - W) = body.weekday /\ d - W < d /\ Weekday(d) \in Int
  BY <1>1, WeekLater
<1>3. c = d - W
  <2>1. ~(c < d - W)
    BY <1>2
  <2>2. QED
    BY <1>1, <1>2, <2>1
<1>4. ResolveRange("last_week", t) = LastWeek(d)
  BY DEF ResolveRange
<1>5. ResolveRange("last_week", u) = LastWeek(c)
  BY DEF ResolveRange
<1>6. Period(body) = "last_week"
  BY DEF Period
<1>7. LastWeek(d)[1] = DayStart(d - Weekday(d) - W) /\ LastWeek(c)[2] = DayStart(c - Weekday(c))
  BY DEF LastWeek
<1>8. d - Weekday(d) - W = c - Weekday(c)
  BY <1>1, <1>2, <1>3
<1>9. QED
  BY <1>4, <1>5, <1>6, <1>7, <1>8

LEMMA MonthlyTiles ==
    ASSUME NEW body \in Bodies, body.frequency = "monthly", NEW d \in Int, NEW c \in Int,
           NEW t \in Int, Day(t) = d, NEW u \in Int, Day(u) = c,
           NamedDay(body, d), NamedDay(body, c), d >= MonthStart[2],
           c < d, \A e \in Int : NamedDay(body, e) /\ c < e => ~(e < d)
    PROVE  ResolveRange(Period(body), t)[1] = ResolveRange(Period(body), u)[2]
<1> DEFINE day(m) == MonthStart[m] + MonthDay(body) - 1
<1>1. PICK m \in 1..Months, k \in 1..Months : d = day(m) /\ c = day(k)
  BY DEF NamedDay
<1>2. \A i \in 1..Months : /\ day(i) \in Nat /\ MonthStart[i] <= day(i) /\ day(i) < MonthStart[i + 1]
                           /\ MonthOf(day(i)) = i /\ MonthStart[i + 1] \in Nat /\ NamedDay(body, day(i))
  BY InMonth DEF NamedDay
<1>3. \A i, j \in 1..Months : i < j => day(i) < MonthStart[j] /\ MonthStart[j] \in Nat
  BY MonthsApart
<1>4. m # 1
  <2>1. day(1) < MonthStart[1 + 1] /\ day(1) \in Nat /\ MonthStart[1 + 1] \in Nat /\ 1 + 1 = 2
    BY <1>2, NumberedMonths
  <2>2. QED
    BY <1>1, <2>1
<1> DEFINE n == m - 1
<1>5. n \in 1..Months /\ n + 1 = m /\ n < m
  BY <1>4, NumberedMonths
<1> HIDE DEF n
<1>6. k = n
  <2>1. ~(m <= k)
    <3>1. m < k => d < MonthStart[k] /\ MonthStart[k] <= c /\ MonthStart[k] \in Nat
      BY <1>1, <1>2, <1>3
    <3>2. QED
      BY <1>1, <3>1
  <2>2. ~(k < n)
    <3>1. ASSUME k < n PROVE FALSE
      <4>1. c < MonthStart[n] /\ MonthStart[n] \in Nat /\ MonthStart[n] <= day(n) /\ day(n) \in Nat
        BY <1>1, <1>2, <1>3, <1>5, <3>1
      <4>2. day(n) < d
        <5>1. day(n) < MonthStart[m] /\ MonthStart[m] \in Nat /\ MonthStart[m] <= d
          BY <1>1, <1>2, <1>3, <1>5
        <5>2. QED
          BY <4>1, <5>1
      <4>3. c < day(n) /\ NamedDay(body, day(n)) /\ day(n) \in Int
        BY <1>2, <1>5, <4>1
      <4>4. QED
        BY <4>2, <4>3
    <3>2. QED
      BY <3>1
  <2>3. QED
    BY <1>5, <2>1, <2>2
<1> DEFINE first == MonthStart[m]
<1>7. MonthOf(d) = m /\ MonthOf(c) = n
  BY <1>1, <1>2, <1>6
<1>8. MonthOf(first - 1) = n
  <2>1. first \in Nat /\ MonthStart[n] <= day(n) /\ day(n) < first /\ day(n) \in Nat /\ MonthStart[n] \in Nat
    <3>1. n \in 1..Months + 1
      BY <1>5, NumberedMonths
    <3>2. QED
      BY <1>2, <1>5, <3>1, MonthStarts
  <2> HIDE DEF first, day
  <2>2. first - 1 \in Int /\ MonthStart[n] <= first - 1 /\ first - 1 < first
    BY <2>1
  <2>3. MonthStart[n + 1] = first
    BY <1>5 DEF first
  <2>4. QED
    BY <1>5, <2>2, <2>3, MonthIs
<1>9. ResolveRange("last_month", t) = <<DayStart(MonthStart[MonthOf(first - 1)]), DayStart(first)>>
  BY <1>7 DEF ResolveRange
<1>10. ResolveRange("last_month", u) =
           <<DayStart(MonthStart[MonthOf(MonthStart[n] - 1)]), DayStart(MonthStart[n])>>
  BY <1>7 DEF ResolveRange
<1>11. Period(body) = "last_month"
  BY DEF Period
<1>12. QED
  BY <1>8, <1>9, <1>10, <1>11

LEMMA FirstDay ==
    /\ MonthStart[3] \in Nat /\ MonthStart[2] \in Nat \ {0} /\ MonthStart[Months + 1] \in Nat
    /\ MonthStart[2] < MonthStart[3] /\ MonthStart[3] < MonthStart[Months + 1]
    /\ FirstHour = DayStart(MonthStart[3])
<1> DEFINE p == HoursPerDay
           last == MonthStart[Months + 1]
<1>1. p \in Nat \ {0} /\ LastMonthDay \in Nat \ {0} /\ Months \in Nat /\ Months >= 3
  BY Lengths
<1>2. 1 \in 1..Months /\ 2 \in 1..Months /\ 3 \in 1..Months /\ 3 \in 1..Months + 1 /\ Months + 1 \in 1..Months + 1
      /\ 2 \in 1..Months + 1 /\ 3 < Months + 1 /\ 1 < 2 /\ 2 < 3 /\ 1 + 1 = 2 /\ 2 + 1 = 3 /\ 3 + 1 \in 1..Months + 1
  BY <1>1
<1>3. MonthStart[1] = 0 /\ MonthStart[2] \in Nat /\ MonthStart[3] \in Nat /\ last \in Nat /\ MonthStart[3 + 1] \in Nat
  BY <1>2, MonthStarts
<1>4. MonthStart[1] + LastMonthDay <= MonthStart[2] /\ MonthStart[2] + LastMonthDay <= MonthStart[3]
  BY <1>2, MonthsAdvance
<1>5. MonthStart[3] + LastMonthDay <= MonthStart[3 + 1] /\ MonthStart[3 + 1] <= last
  BY <1>2, MonthsAdvance
<1> HIDE DEF last
<1>6. FirstHour = DayStart(MonthStart[3])
  <2>1. p * MonthStart[3] = MonthStart[3] * p
    BY <1>1, <1>3
  <2>2. QED
    BY <2>1 DEF FirstHour, DayStart
<1>7. MonthStart[2] \in Nat \ {0} /\ MonthStart[2] < MonthStart[3] /\ MonthStart[3] < last
  BY <1>1, <1>3, <1>4, <1>5
<1>8. QED
  BY <1>3, <1>6, <1>7 DEF last

LEMMA LastMonth == ASSUME NEW m \in 1..Months
                   PROVE MonthStart[m + 1] <= MonthStart[Months + 1] /\ MonthStart[Months + 1] \in Nat
  BY MonthsAdvance, NumberedMonths, MonthStarts

LEMMA StartsBefore ==
    ASSUME NEW body \in Bodies, NEW e \in Int, NEW d \in Int, e <= d
    PROVE  DayStart(e) <= At(d, body) /\ DayStart(e) \in Int
<1>1. DayStart(e) \in Int /\ DayStart(d) \in Int /\ At(d, body) \in Int /\ DayStart(d) <= At(d, body)
  BY DayOrder, OccurrencesOn
<1>2. DayStart(e) <= DayStart(d)
  <2>1. CASE e < d
    BY <1>1, <2>1, DayOrder, Lengths
  <2>2. CASE e = d
    BY <1>1, <2>2
  <2>3. QED
    BY <2>1, <2>2
<1>3. QED
  BY <1>1, <1>2

LEMMA PreviousAny ==
    ASSUME NEW body \in Bodies, NEW t \in Int, body.frequency = "monthly" => InCalendar(t)
    PROVE  \E d \in Int : PreviousOccurrence(body, t) = At(d, body) /\ LatestOn(d, body, t)
<1>1. body.frequency \in {"daily", "weekly", "monthly"}
  BY DEF Bodies
<1>2. QED
  BY <1>1, DailyIs, WeeklyIs, MonthlyIs

\* An hour of a month that an instance reaches.
LEMMA HoursReached ==
    /\ FirstHour \in Nat /\ DayStart(MonthStart[2]) < FirstHour
    /\ FirstHour < DayStart(MonthStart[Months + 1]) /\ LastHour \in Int
    /\ LastHour < DayStart(MonthStart[Months + 1])
<1> DEFINE p == HoursPerDay
           last == MonthStart[Months + 1]
           third == MonthStart[3]
           second == MonthStart[2]
<1>1. p \in Nat \ {0} /\ second \in Nat /\ third \in Nat /\ last \in Nat /\ second < third /\ third < last
      /\ FirstHour = DayStart(third)
  BY Lengths, FirstDay
<1>2. LastHour \in Int /\ LastHour < p * last
  BY HoursAssumption DEF Months
<1> HIDE DEF last, third, second
<1>3. p * last = last * p /\ third * p \in Nat
  BY <1>1
<1>4. DayStart(third) \in Nat /\ LastHour < DayStart(last)
  BY <1>2, <1>3 DEF DayStart
<1>5. /\ DayStart(second) \in Int /\ DayStart(third) \in Int /\ DayStart(last) \in Int
      /\ DayStart(second) + p <= DayStart(third) /\ DayStart(third) + p <= DayStart(last)
  BY <1>1, DayOrder
<1> HIDE DEF p
<1>6. FirstHour \in Nat /\ DayStart(second) < FirstHour /\ FirstHour < DayStart(last)
  BY <1>1, <1>4, <1>5
<1>7. QED
  BY <1>2, <1>4, <1>6 DEF last, third, second

ScheduleInv ==
    topic = "schedule" => /\ input.body \in Bodies /\ input.now \in Int /\ FirstHour <= input.now
                          /\ input.now < DayStart(MonthStart[Months + 1])

LEMMA ScheduleInitially == Init => ScheduleInv
<1> SUFFICES ASSUME Init PROVE ScheduleInv
  OBVIOUS
<1>1. ASSUME BeginSchedule PROVE ScheduleInv
  BY <1>1, HoursReached DEF BeginSchedule, Begin, ScheduleInv
<1>2. topic = "schedule" => BeginSchedule
  BY Begins DEF Init
<1>3. QED
  BY <1>1, <1>2 DEF ScheduleInv

LEMMA SchedulePreserved == ScheduleInv /\ [Next]_vars => ScheduleInv'
<1> SUFFICES ASSUME ScheduleInv, [Next]_vars PROVE ScheduleInv'
  OBVIOUS
<1>1. CASE HourPasses
  <2>1. /\ topic = "schedule" /\ topic' = "schedule" /\ input' = [input EXCEPT !.now = @ + 1]
        /\ input.now < LastHour
    BY <1>1 DEF HourPasses, Continue
  <2>2. input.body \in Bodies /\ input.now \in Int /\ FirstHour <= input.now
    BY <2>1 DEF ScheduleInv
  <2>3. input'.now = input.now + 1 /\ input'.body = input.body
    BY <2>1
  <2> DEFINE end == DayStart(MonthStart[Months + 1])
  <2>4. FirstHour \in Nat /\ LastHour \in Int /\ LastHour < end /\ end \in Int
    BY FirstDay, HoursReached, DayOrder
  <2> HIDE DEF end
  <2>5. input'.now \in Int /\ FirstHour <= input'.now /\ input'.now < end
    BY <2>1, <2>2, <2>3, <2>4
  <2>6. QED
    BY <2>1, <2>2, <2>3, <2>5 DEF ScheduleInv, end
<1>2. topic' = "schedule" => HourPasses \/ UNCHANGED vars
  BY Continues DEF Next
<1>3. CASE UNCHANGED vars
  BY <1>3 DEF vars, ScheduleInv
<1>4. QED
  BY <1>1, <1>2, <1>3 DEF ScheduleInv

\* What a schedule names is what its days name.
LEMMA MatchesNames ==
    ASSUME NEW body \in Bodies, NEW t \in Int,
           body.frequency = "monthly" => 0 <= Day(t) /\ Day(t) < MonthStart[Months + 1]
    PROVE  Matches(body, t) <=> NamedDay(body, Day(t)) /\ t = At(Day(t), body)
<1> DEFINE q == Day(t)
<1>1. q \in Int
  BY DayOf
<1>2. t % HoursPerDay = body.hour <=> t = At(q, body)
  BY <1>1, OccurrencesOn
<1>3. body.frequency = "monthly" =>
         ((\E k \in 1..Months : q = MonthStart[k] + MonthDay(body) - 1)
            <=> q - MonthStart[MonthOf(q)] + 1 = MonthDay(body))
  <2> SUFFICES ASSUME body.frequency = "monthly"
               PROVE  (\E k \in 1..Months : q = MonthStart[k] + MonthDay(body) - 1)
                         <=> q - MonthStart[MonthOf(q)] + 1 = MonthDay(body)
    OBVIOUS
  <2>1. q \in Nat /\ q < MonthStart[Months + 1]
    BY <1>1
  <2> HIDE DEF q
  <2>2. PICK m \in 1..Months : MonthStart[m] <= q /\ q < MonthStart[m + 1]
    BY <2>1, MonthExists
  <2>3. MonthOf(q) = m /\ MonthStart[m] \in Nat
    BY <2>1, <2>2, MonthIs, NumberedMonths, MonthStarts
  <2>4. ASSUME NEW k \in 1..Months, q = MonthStart[k] + MonthDay(body) - 1 PROVE k = m
    BY <2>3, <2>4, InMonth
  <2>5. MonthDay(body) \in Int
    BY MonthDays, Lengths
  <2>6. QED
    BY <2>1, <2>3, <2>4, <2>5
<1>4. QED
  BY <1>2, <1>3 DEF Matches, NamedDay

LEMMA BeforeFirst ==
    ASSUME NEW body \in Bodies, NEW d \in Int, d < MonthStart[3]
    PROVE  At(d, body) < FirstHour
<1> DEFINE a == At(d, body)
           p == HoursPerDay
           s == MonthStart[3]
           S == DayStart(s)
           D == DayStart(d)
<1>1. p \in Nat /\ D \in Int /\ a \in Int /\ a < D + p
  BY OccurrencesOn, Days, Lengths
<1>2. s \in Nat /\ FirstHour = S
  BY FirstDay
<1>3. D + p <= S /\ S \in Int
  <2> HIDE DEF s
  <2>1. QED
    BY <1>2, DayOrder DEF s
<1> HIDE DEF a, p, S, D
<1>4. a < S
  BY <1>1, <1>3
<1>5. QED
  BY <1>2, <1>4 DEF a

\* From the first hour tried to the end of the calendar.
HourTried(t) == t \in Int /\ FirstHour <= t /\ t < DayStart(MonthStart[Months + 1])

LEMMA DaysTried ==
    ASSUME NEW t, HourTried(t)
    PROVE  t \in Int /\ InCalendar(t) /\ Day(t) \in Nat /\ MonthStart[3] <= Day(t) /\ Day(t) < MonthStart[Months + 1]
<1>1. MonthStart[3] \in Nat /\ MonthStart[Months + 1] \in Nat /\ t \in Int /\ FirstHour = DayStart(MonthStart[3])
  BY FirstDay DEF HourTried
<1> DEFINE last == MonthStart[Months + 1]
           third == MonthStart[3]
           q == Day(t)
<1>2. q \in Int /\ DayStart(q) <= t /\ t < DayStart(q) + HoursPerDay /\ HoursPerDay \in Nat
  BY <1>1, DayOf, Lengths
<1>3. DayStart(third) <= t /\ t < DayStart(last)
  BY <1>1 DEF HourTried
<1> HIDE DEF last, third, q
<1>4. DayStart(q) \in Int /\ DayStart(third) \in Int /\ DayStart(last) \in Int
      /\ (q < third => DayStart(q) + HoursPerDay <= DayStart(third))
      /\ (last < q => DayStart(last) + HoursPerDay <= DayStart(q))
  BY <1>1, <1>2, DayOrder DEF last, third
<1>5. ~(q < third) /\ ~(last < q) /\ q # last
  <2>1. ~(q < third)
    BY <1>1, <1>2, <1>3, <1>4
  <2>2. ~(last < q)
    BY <1>1, <1>2, <1>3, <1>4
  <2>3. q # last
    BY <1>1, <1>2, <1>3, <1>4
  <2>4. QED
    BY <2>1, <2>2, <2>3
<1>6. third <= q /\ q < last /\ q \in Nat
  BY <1>1, <1>2, <1>5 DEF last, third
<1>7. InCalendar(t)
  <2>1. DayStart(MonthStart[2]) < FirstHour /\ FirstHour \in Nat /\ DayStart(MonthStart[2]) \in Int
    BY HoursReached, FirstDay, DayOrder
  <2>2. QED
    BY <1>1, <1>3, <2>1 DEF InCalendar, last, HourTried
<1>8. QED
  BY <1>1, <1>6, <1>7 DEF last, third, q

\* The days of two consecutive occurrences.
LEMMA Consecutive ==
    ASSUME NEW body \in Bodies, NEW d \in Int, NEW c \in Int, NEW t \in Int, Day(t) = d, NEW u \in Int, Day(u) = c,
           NamedDay(body, d), LatestOn(c, body, At(d, body) - 1), MonthStart[2] <= d
    PROVE  ResolveRange(Period(body), t)[1] = ResolveRange(Period(body), u)[2]
<1>1. At(d, body) \in Int /\ At(c, body) \in Int /\ At(c, body) < At(d, body)
      /\ Day(At(d, body)) = d /\ Day(At(c, body)) = c
  <2>1. At(d, body) \in Int /\ At(c, body) \in Int /\ Day(At(d, body)) = d /\ Day(At(c, body)) = c
    BY OccurrencesOn
  <2>2. At(c, body) <= At(d, body) - 1
    BY DEF LatestOn
  <2>3. QED
    BY <2>1, <2>2
<1>2. c < d
  <2>1. ~(d < c)
    BY <1>1, OtherDays
  <2>2. c # d
    BY <1>1
  <2>3. QED
    BY <2>1, <2>2
<1>3. NamedDay(body, c) /\ \A e \in Int : NamedDay(body, e) /\ c < e => ~(e < d)
  <2>1. ASSUME NEW e \in Int, NamedDay(body, e), c < e, e < d PROVE FALSE
    <3>1. At(d, body) - 1 < At(e, body)
      BY <2>1 DEF LatestOn
    <3>2. At(e, body) < At(d, body) /\ At(e, body) \in Int
      BY <1>1, <2>1, OtherDays, OccurrencesOn
    <3>3. QED
      BY <1>1, <3>1, <3>2
  <2>2. QED
    BY <2>1 DEF LatestOn
<1>4. body.frequency \in {"daily", "weekly", "monthly"}
  BY DEF Bodies
<1>5. CASE body.frequency = "daily"
  <2>1. \A e \in Int : NamedDay(body, e)
    BY <1>5 DEF NamedDay
  <2>2. \A e \in Int : c < e => ~(e < d)
    BY <1>3, <2>1
  <2>3. QED
    BY <1>2, <1>5, <2>2, DailyTiles
<1>6. CASE body.frequency = "weekly"
  <2>1. \A e \in Int : NamedDay(body, e) <=> Weekday(e) = body.weekday
    BY <1>6 DEF NamedDay
  <2>2. \A e \in Int : Weekday(e) = body.weekday /\ c < e => ~(e < d)
    BY <1>3, <2>1
  <2>3. QED
    BY <1>2, <1>3, <1>6, <2>1, <2>2, WeeklyTiles
<1>7. CASE body.frequency = "monthly"
  BY <1>2, <1>3, <1>7, MonthlyTiles
<1>8. QED
  BY <1>4, <1>5, <1>6, <1>7

LEMMA LaterOn ==
    ASSUME NEW s \in Int, NEW t \in s..DayStart(Day(s) + 1) - 1
    PROVE  t \in Int /\ Day(t) = Day(s)
<1> DEFINE q == Day(s)
<1>1. q \in Int /\ DayStart(q) <= s /\ DayStart(q) \in Int /\ DayStart(q + 1) = DayStart(q) + HoursPerDay
      /\ HoursPerDay \in Nat
  BY DayOf, Days, Lengths
<1> DEFINE Q == DayStart(q)
<1>2. t \in Int /\ s <= t /\ t <= Q + HoursPerDay - 1
  BY <1>1
<1> HIDE DEF q, Q
<1>3. Q <= t /\ t < Q + HoursPerDay
  BY <1>1, <1>2 DEF Q
<1>4. Day(t) = q
  BY <1>1, <1>2, <1>3, DayIs DEF Q
<1>5. QED
  BY <1>2, <1>4 DEF q

LEMMA Tiles == ScheduleInv => ReportsTile
<1> SUFFICES ASSUME ScheduleInv, topic = "schedule" PROVE ReportsTile
  BY DEF ReportsTile
<1> DEFINE body == input.body
           now == input.now
           at == PreviousOccurrence(body, now)
           before == PreviousOccurrence(body, at - 1)
           later(t) == t..DayStart(Day(t) + 1) - 1
<1>1. body \in Bodies /\ HourTried(now)
  BY DEF ScheduleInv, HourTried
<1> HIDE DEF body, now
<1>2. InCalendar(now) /\ now \in Int /\ Day(now) < MonthStart[Months + 1]
      /\ MonthStart[2] \in Nat /\ MonthStart[3] \in Nat /\ MonthStart[2] < MonthStart[3]
  BY <1>1, DaysTried, FirstDay
<1>3. PICK d \in Int : at = At(d, body) /\ LatestOn(d, body, now)
  BY <1>1, <1>2, PreviousIs
<1> HIDE DEF at
<1>4. at \in Int /\ Day(at) = d /\ at <= now /\ NamedDay(body, d)
  BY <1>1, <1>3, OccurrencesOn DEF LatestOn
<1>5. body.frequency = "monthly" => MonthStart[2] <= d /\ d < MonthStart[Months + 1]
  <2> SUFFICES ASSUME body.frequency = "monthly" PROVE MonthStart[2] <= d /\ d < MonthStart[Months + 1]
    OBVIOUS
  <2>1. PICK m \in 1..Months : d = MonthStart[m] + MonthDay(body) - 1
    BY <1>4 DEF NamedDay
  <2>2. d < MonthStart[Months + 1]
    <3>1. d < MonthStart[m + 1] /\ d \in Nat /\ MonthStart[m + 1] \in Nat
      BY <1>1, <2>1, InMonth
    <3>2. MonthStart[m + 1] <= MonthStart[Months + 1] /\ MonthStart[Months + 1] \in Nat
      BY LastMonth
    <3>3. QED
      BY <3>1, <3>2
  <2>3. MonthStart[2] <= d
    <3> DEFINE e == MonthStart[2] + MonthDay(body) - 1
    <3>1. 2 \in 1..Months /\ 2 + 1 = 3
      BY NumberedMonths
    <3>2. NamedDay(body, e) /\ e \in Nat /\ MonthStart[2] <= e /\ e < MonthStart[3]
      BY <1>1, <3>1, InMonth DEF NamedDay
    <3> HIDE DEF e
    <3>3. ~(d < e)
      <4>1. ASSUME d < e PROVE FALSE
        <5>1. now < At(e, body)
          BY <1>3, <3>2, <4>1 DEF LatestOn
        <5>2. At(e, body) < FirstHour /\ At(e, body) \in Int
          BY <1>1, <3>2, BeforeFirst, OccurrencesOn
        <5>3. FirstHour <= now /\ FirstHour \in Nat
          BY <1>1, HoursReached DEF HourTried
        <5>4. QED
          BY <1>2, <5>1, <5>2, <5>3
      <4>2. QED
        BY <4>1
    <3>4. QED
      BY <1>2, <3>2, <3>3
  <2>4. QED
    BY <2>2, <2>3
<1>6. Matches(body, at)
  BY <1>1, <1>2, <1>3, <1>4, <1>5, MatchesNames
<1>7. ASSUME NEW u \in FirstHour..now, Matches(body, u) PROVE u <= at
  <2>1. HourTried(u)
    <3>1. FirstHour \in Nat /\ now < DayStart(MonthStart[Months + 1]) /\ DayStart(MonthStart[Months + 1]) \in Int
      BY <1>1, FirstDay, HoursReached, DayOrder DEF HourTried
    <3> DEFINE end == DayStart(MonthStart[Months + 1])
    <3> HIDE DEF end
    <3>2. u \in Int /\ FirstHour <= u /\ u < end
      BY <1>2, <1>7, <3>1 DEF end
    <3>3. QED
      BY <3>2 DEF HourTried, end
  <2>2. u \in Int /\ Day(u) \in Nat /\ Day(u) < MonthStart[Months + 1]
    BY <2>1, DaysTried
  <2>3. NamedDay(body, Day(u)) /\ u = At(Day(u), body)
    BY <1>1, <1>7, <2>2, MatchesNames
  <2>4. ~(d < Day(u))
    <3>1. ASSUME d < Day(u) PROVE FALSE
      <4>1. now < At(Day(u), body)
        BY <1>3, <2>2, <2>3, <3>1 DEF LatestOn
      <4>2. now < u /\ u <= now
        BY <2>3, <4>1
      <4>3. QED
        BY <1>2, <2>2, <4>2
    <3>2. QED
      BY <3>1
  <2>5. CASE Day(u) = d
    BY <1>3, <1>4, <2>3, <2>5
  <2>6. CASE Day(u) < d
    <3>1. At(Day(u), body) < at
      BY <1>1, <1>4, <2>2, <2>6, OtherDays
    <3>2. QED
      BY <1>4, <2>2, <2>3, <3>1
  <2>7. QED
    BY <2>2, <2>4, <2>5, <2>6
<1>8. ASSUME before >= FirstHour, NEW t \in later(at), NEW u \in later(before)
      PROVE  ResolveRange(Period(body), t)[1] = ResolveRange(Period(body), u)[2]
  <2>1. at - 1 \in Int /\ (body.frequency = "monthly" => InCalendar(at - 1))
    <3>1. at - 1 \in Int
      BY <1>4
    <3>2. ASSUME body.frequency = "monthly" PROVE InCalendar(at - 1)
      <4>1. MonthStart[2] <= d
        BY <1>5, <3>2
      <4>2. DayStart(MonthStart[2]) <= at /\ DayStart(MonthStart[2]) \in Int
        BY <1>1, <1>2, <1>3, <4>1, StartsBefore
      <4>3. now < DayStart(MonthStart[Months + 1]) /\ DayStart(MonthStart[Months + 1]) \in Int
        BY <1>1, FirstDay, DayOrder DEF HourTried
      <4>4. QED
        BY <1>2, <1>4, <4>2, <4>3 DEF InCalendar
    <3>3. QED
      BY <3>1, <3>2
  <2>2. PICK c \in Int : before = At(c, body) /\ LatestOn(c, body, at - 1)
    BY <1>1, <2>1, PreviousAny
  <2> HIDE DEF before
  <2>3. before \in Int /\ Day(before) = c /\ before <= at - 1
    BY <1>1, <2>2, OccurrencesOn DEF LatestOn
  <2>4. MonthStart[2] <= d
    <3>1. HourTried(at)
      <4>1. FirstHour <= at /\ FirstHour \in Nat
        BY <1>4, <1>8, <2>3, HoursReached
      <4>2. now < DayStart(MonthStart[Months + 1]) /\ DayStart(MonthStart[Months + 1]) \in Int
        BY <1>1, FirstDay, DayOrder DEF HourTried
      <4>3. QED
        BY <1>2, <1>4, <4>1, <4>2 DEF HourTried
    <3>2. MonthStart[3] <= d
      BY <1>4, <3>1, DaysTried
    <3>3. QED
      BY <1>2, <3>2
  <2>5. t \in Int /\ Day(t) = d /\ u \in Int /\ Day(u) = c
    BY <1>4, <1>8, <2>3, LaterOn
  <2>6. LatestOn(c, body, At(d, body) - 1)
    BY <1>3, <2>2
  <2>7. QED
    BY <1>1, <1>4, <2>4, <2>5, <2>6, Consecutive
<1>9. QED
  BY <1>4, <1>6, <1>7, <1>8 DEF ReportsTile, at, before, body, now

\* For every calendar and schedule, however long time goes on: previous_occurrence gives the latest
\* hour up to now that the schedule names, and the reports of consecutive occurrences are about
\* periods that meet, so that no time is in two of them or in none (scheduled.py, reporting.py).
THEOREM ReportsTileAlways == Spec => []ReportsTile
<1>1. Init => ScheduleInv
  BY ScheduleInitially
<1>2. ScheduleInv /\ [Next]_vars => ScheduleInv'
  BY SchedulePreserved
<1>3. ScheduleInv => ReportsTile
  BY Tiles
<1>4. QED
  BY <1>1, <1>2, <1>3, PTL DEF Spec

-----------------------------------------------------------------------------
(* The folds of the figures.                                               *)

Pairs == Int \X Int

LEMMA LastOf ==
    ASSUME NEW n \in Nat, NEW t \in SUBSET (1..n), t # {}
    PROVE  Max(t) \in 1..n /\ t \ {Max(t)} \in SUBSET (1..n)
<1> DEFINE all == 1..n
<1>1. IsFiniteSet(all) /\ all \in SUBSET Int /\ t \in SUBSET all
  BY FS_Interval
<1> HIDE DEF all
<1>2. IsFiniteSet(t) /\ t \in SUBSET Int
  BY <1>1, FS_Subset
<1>3. Max(t) \in t
  BY <1>2, Extremes
<1>4. QED
  BY <1>3

LEMMA TotalSteps ==
    ASSUME NEW s \in Seq(Pairs)
    PROVE  \E h \in [0..Len(s) -> Int] : /\ h[0] = 0 /\ h[Len(s)] = Total(s)
                                        /\ \A k \in 1..Len(s) : h[k] = h[k - 1] + s[k][2] - s[k][1]
<1> DEFINE n == Len(s)
           V == Int
           op(v, i) == v + i[2] - i[1]
           step == [k \in 1..n |-> [v \in V |-> op(v, s[k])]]
           Eq(f) == f = [t \in SUBSET (DOMAIN s) |-> IF t = {} THEN 0 ELSE op(f[t \ {Max(t)}], s[Max(t)])]
           F == CHOOSE f : Eq(f)
<1>1. n \in Nat /\ DOMAIN s = 1..n /\ (\A k \in 1..n : s[k] \in Pairs) /\ 0 \in V
  OBVIOUS
<1>2. step \in [1..n -> [V -> V]] /\ \A k \in 1..n : \A v \in V : step[k][v] = op(v, s[k])
  BY <1>1 DEF Pairs
<1>3. Total(s) = F[DOMAIN s]
  BY DEF Total, FoldLeft, MapThenFoldSet
<1> HIDE DEF n, op, step, V
<1>4. \E f : Eq(f)
  <2>1. HasFold(V, n, 0, step)
    BY <1>1, <1>2, FoldExists
  <2>2. PICK iter \in [SUBSET (1..n) -> V] : Folded(iter, n, 0, step)
    BY <2>1 DEF HasFold
  <2>3. \A t \in SUBSET (1..n) : t # {} => step[Max(t)][iter[t \ {Max(t)}]] = op(iter[t \ {Max(t)}], s[Max(t)])
    BY <1>1, <1>2, LastOf
  <2>4. Eq(iter)
    BY <1>1, <2>2, <2>3 DEF Folded
  <2>5. QED
    BY <2>4
<1>5. Eq(F)
  BY <1>4
<1> HIDE DEF F
<1>6. F[{}] = 0 /\ \A t \in SUBSET (1..n) : t # {} => F[t] = op(F[t \ {Max(t)}], s[Max(t)])
  BY <1>1, <1>5
<1>7. Unfolds(F, V, n, 0, step)
  BY <1>1, <1>2, <1>6, LastOf DEF Unfolds
<1>8. HasPrefixes(V, n, 0, step, F[1..n])
  BY <1>1, <1>2, <1>7, FoldPrefixes
<1>9. PICK h \in [0..n -> V] : h[0] = 0 /\ h[n] = F[1..n] /\ \A k \in 1..n : h[k] = step[k][h[k - 1]]
  BY <1>8 DEF HasPrefixes
<1>10. \A k \in 1..n : h[k] = op(h[k - 1], s[k])
  <2>1. \A k \in 1..n : h[k - 1] \in V
    BY <1>1
  <2>2. QED
    BY <1>2, <1>9, <2>1
<1>11. QED
  BY <1>1, <1>3, <1>9, <1>10 DEF op, n, V

MergeStep(out, i) ==
    IF out # <<>> /\ i[1] <= Last(out)[2]
      THEN [out EXCEPT ![Len(out)] = <<@[1], Max({@[2], i[2]})>>]
      ELSE Append(out, i)

LEMMA MergeStepType == ASSUME NEW out \in Seq(Pairs), NEW i \in Pairs PROVE MergeStep(out, i) \in Seq(Pairs)
<1>1. CASE out # <<>> /\ i[1] <= Last(out)[2]
  <2> DEFINE n == Len(out)
             m == Max({out[n][2], i[2]})
  <2>1. n \in 1..Len(out) /\ out[n] \in Pairs
    BY <1>1
  <2>2. m \in Int
    <3>1. out[n][2] \in Int /\ i[2] \in Int
      BY <2>1 DEF Pairs
    <3>2. QED
      BY <3>1, ExtremesOfTwo
  <2> HIDE DEF m
  <2>3. <<out[n][1], m>> \in Pairs
    BY <2>1, <2>2 DEF Pairs
  <2>4. [out EXCEPT ![n] = <<out[n][1], m>>] \in Seq(Pairs)
    BY <2>1, <2>3
  <2>5. MergeStep(out, i) = [out EXCEPT ![n] = <<out[n][1], m>>]
    BY <1>1 DEF MergeStep, m
  <2>6. QED
    BY <2>4, <2>5
<1>2. CASE ~(out # <<>> /\ i[1] <= Last(out)[2])
  BY <1>2 DEF MergeStep
<1>3. QED
  BY <1>1, <1>2

\* The intervals that are merged, in their order.
InOrder(intervals) == Sorted({i \in intervals : i[2] > i[1]}, Earlier)

LEMMA MergeSteps ==
    ASSUME NEW intervals, InOrder(intervals) \in Seq(Pairs)
    PROVE  LET s == InOrder(intervals)
           IN  \E h \in [0..Len(s) -> Seq(Pairs)] :
                   /\ h[0] = <<>> /\ h[Len(s)] = Merge(intervals)
                   /\ \A k \in 1..Len(s) : h[k] = MergeStep(h[k - 1], s[k])
<1> DEFINE s == InOrder(intervals)
           n == Len(s)
           V == Seq(Pairs)
           step == [k \in 1..n |-> [v \in V |-> MergeStep(v, s[k])]]
           Eq(f) == f = [t \in SUBSET (DOMAIN s) |-> IF t = {} THEN <<>> ELSE MergeStep(f[t \ {Max(t)}], s[Max(t)])]
           F == CHOOSE f : Eq(f)
<1>1. n \in Nat /\ DOMAIN s = 1..n /\ (\A k \in 1..n : s[k] \in Pairs) /\ <<>> \in V
  OBVIOUS
<1>2. Merge(intervals) = F[DOMAIN s]
  BY DEF Merge, InOrder, FoldLeft, MapThenFoldSet, MergeStep
<1> HIDE DEF s, n
<1>3. step \in [1..n -> [V -> V]] /\ \A k \in 1..n : \A v \in V : step[k][v] = MergeStep(v, s[k])
  BY <1>1, MergeStepType
<1> HIDE DEF step, V
<1>4. \E f : Eq(f)
  <2>1. PICK iter \in [SUBSET (1..n) -> V] : Folded(iter, n, <<>>, step)
    BY <1>1, <1>3, FoldExists DEF HasFold
  <2>2. \A t \in SUBSET (1..n) :
            t # {} => step[Max(t)][iter[t \ {Max(t)}]] = MergeStep(iter[t \ {Max(t)}], s[Max(t)])
    BY <1>1, <1>3, LastOf
  <2>3. Eq(iter)
    BY <1>1, <2>1, <2>2 DEF Folded
  <2>4. QED
    BY <2>3
<1>5. Eq(F)
  BY <1>4
<1> HIDE DEF F
<1>6. F[{}] = <<>> /\ \A t \in SUBSET (1..n) : t # {} => F[t] = MergeStep(F[t \ {Max(t)}], s[Max(t)])
  BY <1>1, <1>5
<1>7. Unfolds(F, V, n, <<>>, step)
  BY <1>1, <1>3, <1>6, LastOf DEF Unfolds
<1>8. HasPrefixes(V, n, <<>>, step, F[1..n])
  BY <1>1, <1>3, <1>7, FoldPrefixes
<1>9. PICK h \in [0..n -> V] : h[0] = <<>> /\ h[n] = F[1..n] /\ \A k \in 1..n : h[k] = step[k][h[k - 1]]
  BY <1>8 DEF HasPrefixes
<1>10. \A k \in 1..n : h[k] = MergeStep(h[k - 1], s[k])
  <2>1. \A k \in 1..n : h[k - 1] \in V
    BY <1>1
  <2>2. QED
    BY <1>3, <1>9, <2>1
<1>11. QED
  BY <1>1, <1>2, <1>9, <1>10 DEF n, s, V

CutStep(interval, acc, j) ==
    IF j[2] <= acc.cur \/ j[1] >= interval[2] THEN acc
    ELSE [cur |-> Max({acc.cur, j[2]}),
          out |-> IF j[1] > acc.cur THEN Append(acc.out, <<acc.cur, j[1]>>) ELSE acc.out]

Cuts == [cur : Int, out : Seq(Pairs)]

LEMMA CutStepType ==
    ASSUME NEW i \in Pairs, NEW acc \in Cuts, NEW j \in Pairs PROVE CutStep(i, acc, j) \in Cuts
<1>1. acc.cur \in Int /\ j[1] \in Int /\ j[2] \in Int /\ acc.out \in Seq(Pairs)
  BY DEF Cuts, Pairs
<1> DEFINE m == Max({acc.cur, j[2]})
<1>2. m \in Int
  BY <1>1, ExtremesOfTwo
<1>3. Append(acc.out, <<acc.cur, j[1]>>) \in Seq(Pairs)
  BY <1>1 DEF Pairs
<1> HIDE DEF m
<1>4. [cur |-> m, out |-> IF j[1] > acc.cur THEN Append(acc.out, <<acc.cur, j[1]>>) ELSE acc.out] \in Cuts
  BY <1>1, <1>2, <1>3 DEF Cuts
<1>5. QED
  BY <1>4 DEF CutStep, m

LEMMA CutSteps ==
    ASSUME NEW i \in Pairs, NEW s \in Seq(Pairs)
    PROVE  \E h \in [0..Len(s) -> Cuts] :
               /\ h[0] = [cur |-> i[1], out |-> <<>>]
               /\ \A k \in 1..Len(s) : h[k] = CutStep(i, h[k - 1], s[k])
               /\ Cut(i, s) = LET end == h[Len(s)]
                              IN  IF end.cur < i[2] THEN Append(end.out, <<end.cur, i[2]>>) ELSE end.out
<1> DEFINE n == Len(s)
           V == Cuts
           base == [cur |-> i[1], out |-> <<>>]
           step == [k \in 1..n |-> [v \in V |-> CutStep(i, v, s[k])]]
           Eq(f) == f = [t \in SUBSET (DOMAIN s) |-> IF t = {} THEN base ELSE CutStep(i, f[t \ {Max(t)}], s[Max(t)])]
           F == CHOOSE f : Eq(f)
           End(e) == IF e.cur < i[2] THEN Append(e.out, <<e.cur, i[2]>>) ELSE e.out
<1>1. n \in Nat /\ DOMAIN s = 1..n /\ (\A k \in 1..n : s[k] \in Pairs) /\ base \in V
  BY DEF Cuts, Pairs
<1>2. Cut(i, s) = End(F[DOMAIN s])
  BY DEF Cut, FoldLeft, MapThenFoldSet, CutStep
<1> HIDE DEF n, base, End
<1>3. step \in [1..n -> [V -> V]] /\ \A k \in 1..n : \A v \in V : step[k][v] = CutStep(i, v, s[k])
  BY <1>1, CutStepType
<1> HIDE DEF step, V
<1>4. \E f : Eq(f)
  <2>1. PICK iter \in [SUBSET (1..n) -> V] : Folded(iter, n, base, step)
    BY <1>1, <1>3, FoldExists DEF HasFold
  <2>2. \A t \in SUBSET (1..n) :
            t # {} => step[Max(t)][iter[t \ {Max(t)}]] = CutStep(i, iter[t \ {Max(t)}], s[Max(t)])
    BY <1>1, <1>3, LastOf
  <2>3. Eq(iter)
    BY <1>1, <2>1, <2>2 DEF Folded
  <2>4. QED
    BY <2>3
<1>5. Eq(F)
  BY <1>4
<1> HIDE DEF F
<1>6. F[{}] = base /\ \A t \in SUBSET (1..n) : t # {} => F[t] = CutStep(i, F[t \ {Max(t)}], s[Max(t)])
  BY <1>1, <1>5
<1>7. Unfolds(F, V, n, base, step)
  BY <1>1, <1>3, <1>6, LastOf DEF Unfolds
<1>8. HasPrefixes(V, n, base, step, F[1..n])
  BY <1>1, <1>3, <1>7, FoldPrefixes
<1>9. PICK h \in [0..n -> V] : h[0] = base /\ h[n] = F[1..n] /\ \A k \in 1..n : h[k] = step[k][h[k - 1]]
  BY <1>8 DEF HasPrefixes
<1>10. \A k \in 1..n : h[k] = CutStep(i, h[k - 1], s[k])
  <2>1. \A k \in 1..n : h[k - 1] \in V
    BY <1>1
  <2>2. QED
    BY <1>3, <1>9, <2>1
<1>11. Cut(i, s) = End(h[n])
  BY <1>1, <1>2, <1>9
<1>12. QED
  BY <1>9, <1>10, <1>11 DEF n, V, base, End

LEMMA FlattenSteps ==
    ASSUME NEW ss \in Seq(Seq(Pairs)), ss # <<>>
    PROVE  \E h \in [1..Len(ss) -> Seq(Pairs)] :
               /\ h[1] = ss[1] /\ h[Len(ss)] = FlattenSeq(ss)
               /\ \A k \in 2..Len(ss) : h[k] = h[k - 1] \o ss[k]
<1> DEFINE n == Len(ss)
           V == Seq(Pairs)
           step == [k \in 1..n |-> [v \in V |-> IF k = 1 THEN ss[1] ELSE v \o ss[k]]]
           Eq(f) == f = [k \in 1..n |-> IF k = 1 THEN ss[1] ELSE f[k - 1] \o ss[k]]
           F == CHOOSE f : Eq(f)
<1>1. n \in Nat /\ n # 0 /\ (\A k \in 1..n : ss[k] \in V) /\ <<>> \in V
  OBVIOUS
<1>2. FlattenSeq(ss) = F[n]
  BY <1>1 DEF FlattenSeq
<1>3. step \in [1..n -> [V -> V]] /\ \A k \in 1..n : \A v \in V : step[k][v] = IF k = 1 THEN ss[1] ELSE v \o ss[k]
  <2>1. \A v, w \in V : v \o w \in V
    OBVIOUS
  <2>2. 1 \in 1..n
    BY <1>1
  <2>3. ss[1] \in V
    BY <1>1, <2>2
  <2> HIDE DEF n, V
  <2>4. \A k \in 1..n : \A v \in V : (IF k = 1 THEN ss[1] ELSE v \o ss[k]) \in V
    BY <1>1, <2>1, <2>3
  <2>5. QED
    BY <2>4
<1> HIDE DEF n, V, step
<1>4. PICK iter \in [SUBSET (1..n) -> V] : Folded(iter, n, <<>>, step)
  BY <1>1, <1>3, FoldExists DEF HasFold
<1>5. HasPrefixes(V, n, <<>>, step, iter[1..n])
  <2>1. Unfolds(iter, V, n, <<>>, step)
    BY <1>4 DEF Folded, Unfolds
  <2>2. QED
    BY <1>1, <1>3, <2>1, FoldPrefixes
<1>6. PICK g \in [0..n -> V] : g[0] = <<>> /\ \A k \in 1..n : g[k] = step[k][g[k - 1]]
  BY <1>5 DEF HasPrefixes
<1> DEFINE f == [k \in 1..n |-> g[k]]
<1>7. Eq(f) /\ f \in [1..n -> V]
  <2>1. \A k \in 1..n : k \in 0..n /\ k - 1 \in 0..n /\ (k # 1 => k - 1 \in 1..n)
    BY <1>1
  <2>2. \A k \in 1..n : g[k] = IF k = 1 THEN ss[1] ELSE g[k - 1] \o ss[k]
    BY <1>3, <1>6, <2>1
  <2>3. \A k \in 1..n : f[k] = IF k = 1 THEN ss[1] ELSE f[k - 1] \o ss[k]
    BY <2>1, <2>2
  <2>4. f = [k \in 1..n |-> f[k]] /\ f \in [1..n -> V]
    BY <2>1
  <2> HIDE DEF f
  <2>5. QED
    BY <2>3, <2>4
<1> HIDE DEF f
<1>8. Eq(F)
  BY <1>7
<1> HIDE DEF F
<1> DEFINE Good == {k \in Nat : k \in 1..n => F[k] = f[k]}
<1>9. 0 \in Good
  OBVIOUS
<1>10. ASSUME NEW k \in Nat, k \in Good PROVE k + 1 \in Good
  <2> SUFFICES ASSUME k + 1 \in 1..n PROVE F[k + 1] = f[k + 1]
    OBVIOUS
  <2>1. k + 1 # 1 => k \in 1..n /\ k + 1 - 1 = k
    BY <1>1
  <2>2. k + 1 # 1 => F[k] = f[k]
    BY <1>10, <2>1
  <2>3. F[k + 1] = IF k + 1 = 1 THEN ss[1] ELSE F[k + 1 - 1] \o ss[k + 1]
    <3>1. \A i \in 1..n : F[i] = IF i = 1 THEN ss[1] ELSE F[i - 1] \o ss[i]
      BY <1>8
    <3>2. QED
      BY <3>1
  <2>4. f[k + 1] = IF k + 1 = 1 THEN ss[1] ELSE f[k + 1 - 1] \o ss[k + 1]
    <3>1. \A i \in 1..n : f[i] = IF i = 1 THEN ss[1] ELSE f[i - 1] \o ss[i]
      BY <1>7
    <3>2. QED
      BY <3>1
  <2>5. QED
    BY <2>1, <2>2, <2>3, <2>4
<1> HIDE DEF Good
<1>11. Nat \subseteq Good
  BY <1>9, <1>10, Induction
<1>12. F = f
  <2>1. \A k \in 1..n : F[k] = f[k]
    BY <1>1, <1>11 DEF Good
  <2>2. F = [k \in 1..n |-> F[k]] /\ f = [k \in 1..n |-> f[k]]
    BY <1>7, <1>8
  <2>3. QED
    BY <2>1, <2>2
<1>13. f[1] = ss[1] /\ \A k \in 2..n : f[k] = f[k - 1] \o ss[k]
  <2>1. 1 \in 1..n /\ \A k \in 2..n : k \in 1..n /\ k # 1
    BY <1>1
  <2>2. \A k \in 1..n : f[k] = IF k = 1 THEN ss[1] ELSE f[k - 1] \o ss[k]
    BY <1>7
  <2>3. QED
    BY <2>1, <2>2
<1>14. QED
  BY <1>2, <1>7, <1>12, <1>13 DEF n, V

-----------------------------------------------------------------------------
(* The seconds of intervals.                                               *)

Inside(x, i) == i[1] <= x /\ x < i[2]

Covered(s) == {x \in Int : \E k \in 1..Len(s) : Inside(x, s[k])}

Ascending(s) ==
    /\ s \in Seq(Pairs)
    /\ \A k \in 1..Len(s) : s[k][1] < s[k][2]
    /\ \A k, l \in 1..Len(s) : k < l => s[k][2] <= s[l][1]

LEMMA PairParts == ASSUME NEW i \in Pairs PROVE i[1] \in Int /\ i[2] \in Int /\ i = <<i[1], i[2]>>
  BY DEF Pairs

LEMMA ItemParts ==
    ASSUME NEW s \in Seq(Pairs), NEW k \in 1..Len(s)
    PROVE  s[k] \in Pairs /\ s[k][1] \in Int /\ s[k][2] \in Int
  BY PairParts

LEMMA AppendAscending ==
    ASSUME NEW s, Ascending(s), NEW i \in Pairs, i[1] < i[2], \A k \in 1..Len(s) : s[k][2] <= i[1]
    PROVE  /\ Ascending(Append(s, i))
           /\ Covered(Append(s, i)) = Covered(s) \cup {x \in Int : Inside(x, i)}
<1> DEFINE n == Len(s)
           t == Append(s, i)
<1>1. s \in Seq(Pairs) /\ n \in Nat
  BY DEF Ascending
<1>2. t \in Seq(Pairs) /\ Len(t) = n + 1 /\ t[n + 1] = i /\ \A k \in 1..n : t[k] = s[k]
  BY <1>1
<1>3. \A k \in 1..n + 1 : k \in 1..n \/ k = n + 1
  BY <1>1
<1>4. n + 1 \in 1..n + 1 /\ \A k \in 1..n : k \in 1..n + 1 /\ k < n + 1
  BY <1>1
<1>5. (\A k \in 1..n : s[k][1] < s[k][2]) /\ \A k, l \in 1..n : k < l => s[k][2] <= s[l][1]
  BY DEF Ascending
<1> HIDE DEF t, n
<1>6. \A k \in 1..n + 1 : t[k][1] < t[k][2]
  BY <1>2, <1>3, <1>5
<1>7. \A k, l \in 1..n + 1 : k < l => t[k][2] <= t[l][1]
  <2>1. ASSUME NEW k \in 1..n + 1, NEW l \in 1..n + 1, k < l PROVE t[k][2] <= t[l][1]
    <3>1. k # n + 1
      BY <1>1, <2>1
    <3>2. k \in 1..n /\ (l \in 1..n \/ l = n + 1)
      BY <1>3, <3>1
    <3>3. QED
      BY <1>2, <1>5, <2>1, <3>2 DEF n
  <2>2. QED
    BY <2>1
<1>8. Ascending(t)
  BY <1>2, <1>6, <1>7 DEF Ascending
<1>9. Covered(t) = Covered(s) \cup {x \in Int : Inside(x, i)}
  <2>1. \A x \in Int : (\E k \in 1..n + 1 : Inside(x, t[k])) <=> (\E k \in 1..n : Inside(x, s[k])) \/ Inside(x, i)
    BY <1>2, <1>3, <1>4
  <2>2. QED
    BY <1>2, <2>1 DEF Covered, n
<1>10. QED
  BY <1>8, <1>9 DEF t

LEMMA NothingCovered == Ascending(<<>>) /\ Covered(<<>>) = {}
<1>1. <<>> \in Seq(Pairs) /\ Len(<<>>) = 0 /\ 1..0 = {}
  OBVIOUS
<1>2. QED
  BY <1>1 DEF Ascending, Covered

LEMMA Seconds1 ==
    ASSUME NEW i \in Pairs, i[1] <= i[2]
    PROVE  IsFiniteSet({x \in Int : Inside(x, i)}) /\ Cardinality({x \in Int : Inside(x, i)}) = i[2] - i[1]
<1> DEFINE a == i[1]
           b == i[2]
<1>1. a \in Int /\ b \in Int /\ a <= b /\ b - 1 \in Int
  BY PairParts
<1> HIDE DEF a, b
<1>2. {x \in Int : a <= x /\ x < b} = a..b - 1
  BY <1>1
<1>3. IsFiniteSet(a..b - 1) /\ Cardinality(a..b - 1) = IF a > b - 1 THEN 0 ELSE b - 1 - a + 1
  BY <1>1, FS_Interval
<1>4. IsFiniteSet(a..b - 1) /\ Cardinality(a..b - 1) = b - a
  BY <1>1, <1>3
<1>5. {x \in Int : Inside(x, i)} = {x \in Int : a <= x /\ x < b}
  BY DEF Inside, a, b
<1>6. IsFiniteSet({x \in Int : Inside(x, i)}) /\ Cardinality({x \in Int : Inside(x, i)}) = b - a
  BY <1>2, <1>4, <1>5
<1>7. QED
  BY <1>6 DEF a, b

\* The length of intervals that do not overlap is the number of their seconds.
LEMMA TotalIs ==
    ASSUME NEW s, Ascending(s)
    PROVE  IsFiniteSet(Covered(s)) /\ Total(s) = Cardinality(Covered(s))
<1> DEFINE n == Len(s)
           C(k) == {x \in Int : \E j \in 1..k : Inside(x, s[j])}
<1>1. s \in Seq(Pairs) /\ n \in Nat /\ (\A k \in 1..n : s[k][1] < s[k][2])
      /\ \A k, l \in 1..n : k < l => s[k][2] <= s[l][1]
  BY DEF Ascending
<1>2. PICK h \in [0..n -> Int] : h[0] = 0 /\ h[n] = Total(s) /\ \A k \in 1..n : h[k] = h[k - 1] + s[k][2] - s[k][1]
  BY <1>1, TotalSteps
<1>3. \A k \in 1..n : s[k] \in Pairs /\ s[k][1] \in Int /\ s[k][2] \in Int
  BY <1>1, ItemParts
<1>4. n = Len(s)
  OBVIOUS
<1> HIDE DEF n
<1> DEFINE Good == {k \in Nat : k <= n => IsFiniteSet(C(k)) /\ h[k] = Cardinality(C(k))}
<1>5. 0 \in Good
  <2>1. C(0) = {}
    OBVIOUS
  <2>2. QED
    BY <1>2, <2>1, FS_EmptySet
<1>6. ASSUME NEW k \in Nat, k \in Good PROVE k + 1 \in Good
  <2> SUFFICES ASSUME k + 1 <= n PROVE IsFiniteSet(C(k + 1)) /\ h[k + 1] = Cardinality(C(k + 1))
    OBVIOUS
  <2> DEFINE old == C(k)
             new == {x \in Int : Inside(x, s[k + 1])}
  <2>1. k + 1 \in 1..n /\ k + 1 - 1 = k /\ k \in 0..n /\ \A j \in 1..k : j \in 1..n /\ j < k + 1
    BY <1>1
  <2>2. IsFiniteSet(old) /\ h[k] = Cardinality(old)
    BY <1>1, <1>6
  <2>3. s[k + 1] \in Pairs /\ s[k + 1][1] <= s[k + 1][2] /\ s[k + 1][1] \in Int /\ s[k + 1][2] \in Int
    BY <1>1, <1>3, <2>1
  <2>4. IsFiniteSet(new) /\ Cardinality(new) = s[k + 1][2] - s[k + 1][1]
    BY <2>3, Seconds1
  <2>5. C(k + 1) = old \cup new
    <3>1. \A j \in 1..k + 1 : j \in 1..k \/ j = k + 1
      OBVIOUS
    <3>2. k + 1 \in 1..k + 1 /\ \A j \in 1..k : j \in 1..k + 1
      OBVIOUS
    <3>3. QED
      BY <3>1, <3>2
  <2>6. old \cap new = {}
    <3>1. ASSUME NEW x \in Int, NEW j \in 1..k, Inside(x, s[j]), Inside(x, s[k + 1]) PROVE FALSE
      <4>1. s[j][2] <= s[k + 1][1] /\ s[j][2] \in Int
        BY <1>1, <1>3, <2>1
      <4>2. QED
        BY <2>3, <3>1, <4>1 DEF Inside
    <3>2. QED
      BY <3>1
  <2> HIDE DEF old, new
  <2>7. IsFiniteSet(old \cup new) /\ Cardinality(old \cup new) = Cardinality(old) + Cardinality(new) - 0
    BY <2>2, <2>4, <2>6, FS_Union, FS_EmptySet
  <2>8. h[k + 1] = h[k] + s[k + 1][2] - s[k + 1][1] /\ h[k] \in Int
    BY <1>2, <2>1
  <2>9. h[k + 1] = Cardinality(old \cup new)
    BY <2>2, <2>3, <2>4, <2>7, <2>8
  <2>10. QED
    BY <2>5, <2>7, <2>9
<1> HIDE DEF Good
<1>7. Nat \subseteq Good
  BY <1>5, <1>6, Induction
<1>8. n \in Good
  BY <1>1, <1>7
<1>9. IsFiniteSet(C(n)) /\ h[n] = Cardinality(C(n))
  <2>1. n <= n
    BY <1>1
  <2>2. n \in {k \in Nat : k <= n => IsFiniteSet(C(k)) /\ h[k] = Cardinality(C(k))}
    BY <1>8 DEF Good
  <2> HIDE DEF C, n
  <2>3. QED
    BY <2>1, <2>2
<1>10. Covered(s) = C(n)
  BY <1>4 DEF Covered
<1>11. QED
  BY <1>2, <1>9, <1>10

\* sorted.
InOrderOf(s, intervals) ==
    /\ s \in Seq(Pairs)
    /\ \A k \in 1..Len(s) : s[k] \in intervals /\ s[k][1] < s[k][2]
    /\ \A i \in intervals : i[1] < i[2] => \E k \in 1..Len(s) : s[k] = i
    /\ \A k, l \in 1..Len(s) : k < l => s[k][1] <= s[l][1]

LEMMA OrderIs ==
    ASSUME NEW intervals \in SUBSET Pairs, IsFiniteSet(intervals)
    PROVE  InOrderOf(InOrder(intervals), intervals)
<1> DEFINE S == {i \in intervals : i[2] > i[1]}
           B == {p \in S \X S : Earlier(p[1], p[2])}
           before(x) == {y \in S : Earlier(y, x)}
           n == Cardinality(S)
           s == InOrder(intervals)
<1>1. IsFiniteSet(S) /\ S \in SUBSET Pairs
  <2>1. S \in SUBSET intervals
    OBVIOUS
  <2> HIDE DEF S
  <2>2. QED
    BY <2>1, FS_Subset
<1>2. \A x \in S : x[1] \in Int /\ x[2] \in Int /\ x = <<x[1], x[2]>>
  BY <1>1, PairParts
<1>3. B \in SUBSET (S \X S) /\ \A x, y \in S : <<x, y>> \in B <=> Earlier(x, y)
  OBVIOUS
<1>4. s = [k \in 1..n |-> CHOOSE x \in S : Cardinality(before(x)) = k - 1]
  BY DEF InOrder, Sorted
<1>5. \A x \in S : x \in intervals /\ x[1] < x[2]
  BY <1>2
<1>6. \A i \in intervals : i[1] < i[2] => i \in S
  BY PairParts
<1> HIDE DEF S, B
<1>7. \A x, y \in S : x # y => <<x, y>> \in B \/ <<y, x>> \in B
  BY <1>2, <1>3 DEF Earlier
<1>8. \A x \in S : <<x, x>> \notin B
  BY <1>2, <1>3 DEF Earlier
<1>9. \A x, y, z \in S : <<x, y>> \in B /\ <<y, z>> \in B => <<x, z>> \in B
  BY <1>2, <1>3 DEF Earlier
<1>10. \A x \in S : {y \in S : <<y, x>> \in B} = before(x)
  BY <1>3
<1> DEFINE rank(x) == Cardinality({y \in S : <<y, x>> \in B})
<1>11. /\ \A k \in 1..n : \E x \in S : rank(x) = k - 1
       /\ \A x \in S : rank(x) + 1 \in 1..n
       /\ \A x, y \in S : rank(x) < rank(y) => <<x, y>> \in B
       /\ \A x, y \in S : rank(x) = rank(y) => x = y
  BY <1>1, <1>3, <1>7, <1>8, <1>9, Ranks
<1>12. \A x \in S : rank(x) = Cardinality(before(x))
  BY <1>10
<1>13. n \in Nat
  BY <1>1, FS_CardinalityType
<1> HIDE DEF rank, before, n
<1>14. \A k \in 1..n : s[k] \in S /\ rank(s[k]) = k - 1
  <2>1. ASSUME NEW k \in 1..n PROVE s[k] \in S /\ rank(s[k]) = k - 1
    <3>1. \E x \in S : Cardinality(before(x)) = k - 1
      BY <1>11, <1>12
    <3>2. s[k] = CHOOSE x \in S : Cardinality(before(x)) = k - 1
      BY <1>4
    <3>3. s[k] \in S /\ Cardinality(before(s[k])) = k - 1
      BY <3>1, <3>2
    <3>4. QED
      BY <1>12, <3>3
  <2>2. QED
    BY <2>1
<1>15. s \in Seq(Pairs) /\ Len(s) = n
  <2>1. \A k \in 1..n : s[k] \in Pairs
    BY <1>1, <1>14
  <2>2. s = [k \in 1..n |-> s[k]]
    BY <1>4
  <2> HIDE DEF s
  <2>3. s \in [1..n -> Pairs]
    BY <2>1, <2>2
  <2>4. QED
    BY <1>13, <2>3
<1> HIDE DEF s
<1>16. \A i \in intervals : i[1] < i[2] => \E k \in 1..n : s[k] = i
  <2>1. ASSUME NEW i \in intervals, i[1] < i[2] PROVE \E k \in 1..n : s[k] = i
    <3>1. i \in S /\ rank(i) + 1 \in 1..n
      BY <1>6, <1>11, <2>1
    <3> DEFINE k == rank(i) + 1
    <3>2. k \in 1..n /\ s[k] \in S /\ rank(s[k]) = k - 1
      BY <1>14, <3>1
    <3>3. k - 1 = rank(i)
      <4>1. \A r : r + 1 \in 1..n /\ r \in Int => r + 1 - 1 = r
        OBVIOUS
      <4>2. rank(i) \in Int
        <5>1. IsFiniteSet(before(i))
          <6>1. before(i) \in SUBSET S
            BY DEF before
          <6>2. QED
            BY <1>1, <6>1, FS_Subset
        <5>2. QED
          BY <1>12, <3>1, <5>1, FS_CardinalityType
      <4>3. QED
        BY <3>1, <4>1, <4>2
    <3>4. s[k] = i
      BY <1>11, <3>1, <3>2, <3>3
    <3>5. QED
      BY <3>2, <3>4
  <2>2. QED
    BY <2>1
<1>17. \A k, l \in 1..n : k < l => s[k][1] <= s[l][1]
  <2>1. ASSUME NEW k \in 1..n, NEW l \in 1..n, k < l PROVE s[k][1] <= s[l][1]
    <3>1. s[k] \in S /\ s[l] \in S /\ rank(s[k]) < rank(s[l])
      BY <1>14, <2>1
    <3>2. Earlier(s[k], s[l])
      BY <1>3, <1>11, <3>1
    <3>3. QED
      BY <1>2, <3>1, <3>2 DEF Earlier
  <2>2. QED
    BY <2>1
<1> HIDE DEF s, n
<1>18. \A k \in 1..n : s[k] \in intervals /\ s[k][1] < s[k][2]
  BY <1>5, <1>14
<1> HIDE DEF S, rank, before
<1>19. /\ s \in Seq(Pairs)
       /\ \A k \in 1..Len(s) : s[k] \in intervals /\ s[k][1] < s[k][2]
       /\ \A i \in intervals : i[1] < i[2] => \E k \in 1..Len(s) : s[k] = i
       /\ \A k, l \in 1..Len(s) : k < l => s[k][1] <= s[l][1]
  <2>1. 1..Len(s) = 1..n
    BY <1>15
  <2> DEFINE I == 1..Len(s)
  <2>2. \A k \in I : s[k] \in intervals /\ s[k][1] < s[k][2]
    BY <1>18, <2>1
  <2>3. \A i \in intervals : i[1] < i[2] => \E k \in I : s[k] = i
    BY <1>16, <2>1
  <2>4. \A k, l \in I : k < l => s[k][1] <= s[l][1]
    BY <1>17, <2>1
  <2>5. QED
    BY <1>15, <2>2, <2>3, <2>4
<1>20. InOrderOf(s, intervals)
  BY <1>19 DEF InOrderOf
<1>21. QED
  BY <1>20 DEF s

\* merge: the intervals it gives lie one after the other, and cover what it was given.
LEMMA MergeIs ==
    ASSUME NEW intervals \in SUBSET Pairs, IsFiniteSet(intervals)
    PROVE  /\ Ascending(Merge(intervals))
           /\ Covered(Merge(intervals)) = {x \in Int : \E i \in intervals : Inside(x, i)}
<1> DEFINE s == InOrder(intervals)
           n == Len(s)
           C(k) == {x \in Int : \E j \in 1..k : Inside(x, s[j])}
<1>1. /\ s \in Seq(Pairs) /\ n \in Nat
      /\ \A k \in 1..n : s[k] \in intervals /\ s[k][1] < s[k][2]
      /\ \A i \in intervals : i[1] < i[2] => \E k \in 1..n : s[k] = i
      /\ \A k, l \in 1..n : k < l => s[k][1] <= s[l][1]
  <2>1. InOrderOf(s, intervals)
    BY OrderIs
  <2> HIDE DEF s
  <2>2. s \in Seq(Pairs) => n \in Nat
    OBVIOUS
  <2>3. QED
    BY <2>1, <2>2 DEF InOrderOf
<1>2. \A k \in 1..n : s[k] \in Pairs /\ s[k][1] \in Int /\ s[k][2] \in Int
  BY <1>1, ItemParts
<1>3. PICK h \in [0..n -> Seq(Pairs)] : /\ h[0] = <<>> /\ h[n] = Merge(intervals)
                                        /\ \A k \in 1..n : h[k] = MergeStep(h[k - 1], s[k])
  BY <1>1, MergeSteps
<1> HIDE DEF n, s
<1> DEFINE Right(k) == /\ Ascending(h[k]) /\ Covered(h[k]) = C(k)
                       /\ h[k] # <<>> => k \in 1..n /\ Last(h[k])[1] <= s[k][1]
           Good == {k \in Nat : k <= n => Right(k)}
<1>4. 0 \in Good
  <2>1. C(0) = {}
    OBVIOUS
  <2>2. QED
    BY <1>3, <2>1, NothingCovered
<1>5. ASSUME NEW k \in Nat, k \in Good PROVE k + 1 \in Good
  <2> SUFFICES ASSUME k + 1 <= n PROVE Right(k + 1)
    OBVIOUS
  <2> DEFINE out == h[k]
             i == s[k + 1]
             m == Len(out)
             new == {x \in Int : Inside(x, i)}
  <2>1. k + 1 \in 1..n /\ k + 1 - 1 = k /\ k \in 0..n /\ (k \in 1..n => k < k + 1)
    BY <1>1
  <2>2. Ascending(out) /\ Covered(out) = C(k) /\ (out # <<>> => Last(out)[1] <= i[1])
    <3>1. Right(k)
      BY <1>1, <1>5
    <3>2. out # <<>> => Last(out)[1] <= s[k][1] /\ s[k][1] <= i[1] /\ k \in 1..n
      BY <1>1, <2>1, <3>1
    <3>3. out # <<>> => Last(out) \in Pairs
      BY <3>1 DEF Ascending, Last
    <3>4. out # <<>> => Last(out)[1] \in Int /\ s[k][1] \in Int /\ i[1] \in Int
      BY <1>2, <2>1, <3>2, <3>3, PairParts
    <3>5. QED
      BY <3>1, <3>2, <3>4
  <2>3. i \in Pairs /\ i[1] \in Int /\ i[2] \in Int /\ i[1] < i[2]
    BY <1>1, <1>2, <2>1
  <2>4. h[k + 1] = MergeStep(out, i)
    BY <1>3, <2>1
  <2>5. C(k + 1) = Covered(out) \cup new
    <3>1. \A j \in 1..k + 1 : j \in 1..k \/ j = k + 1
      OBVIOUS
    <3>2. k + 1 \in 1..k + 1 /\ \A j \in 1..k : j \in 1..k + 1
      OBVIOUS
    <3>3. QED
      BY <2>2, <3>1, <3>2
  <2>6. out \in Seq(Pairs) /\ m \in Nat /\ (out # <<>> => m \in 1..m /\ Last(out) = out[m])
        /\ \A j \in 1..m : out[j] \in Pairs /\ out[j][1] \in Int /\ out[j][2] \in Int
    <3>1. out \in Seq(Pairs)
      BY <2>2 DEF Ascending
    <3>2. QED
      BY <3>1, ItemParts DEF Last
  <2>7. (\A j \in 1..m : out[j][1] < out[j][2]) /\ \A j, l \in 1..m : j < l => out[j][2] <= out[l][1]
    BY <2>2 DEF Ascending
  <2>8. ASSUME Ascending(h[k + 1]), Covered(h[k + 1]) = Covered(out) \cup new, Last(h[k + 1])[1] <= i[1]
        PROVE  Right(k + 1)
    BY <2>1, <2>5, <2>8
  <2>9. CASE out # <<>> /\ i[1] <= Last(out)[2]
    <3> DEFINE top == Max({out[m][2], i[2]})
               t == [out EXCEPT ![m] = <<out[m][1], top>>]
    <3>1. h[k + 1] = t
      BY <2>4, <2>6, <2>9 DEF MergeStep
    <3>2. m \in 1..m /\ out[m][1] \in Int /\ out[m][2] \in Int /\ out[m][1] < out[m][2]
          /\ out[m][1] <= i[1] /\ i[1] <= out[m][2]
      BY <2>2, <2>6, <2>7, <2>9
    <3>3. top \in Int /\ top >= out[m][2] /\ top >= i[2] /\ (top = out[m][2] \/ top = i[2])
      <4> DEFINE p == out[m][2]
                 q == i[2]
      <4>1. p \in Int /\ q \in Int /\ top = Max({p, q})
        BY <2>3, <3>2
      <4> HIDE DEF p, q, top
      <4>2. top \in Int /\ top >= p /\ top >= q /\ (top = p \/ top = q)
        BY <4>1, ExtremesOfTwo
      <4>3. QED
        BY <4>2 DEF p, q
    <3> HIDE DEF top
    <3>4. <<out[m][1], top>> \in Pairs
      BY <3>2, <3>3 DEF Pairs
    <3>5. t \in Seq(Pairs) /\ Len(t) = m /\ t[m] = <<out[m][1], top>> /\ \A j \in 1..m : j # m => t[j] = out[j]
      BY <2>6, <3>2, <3>4
    <3> HIDE DEF t, m, out, i
    <3>6. t[m][1] = out[m][1] /\ t[m][2] = top
      BY <3>5
    <3>7. \A j \in 1..m : t[j][1] = out[j][1]
      BY <3>5, <3>6
    <3>8. \A j, l \in 1..m : j < l => t[j][2] = out[j][2]
      <4>1. ASSUME NEW j \in 1..m, NEW l \in 1..m, j < l PROVE t[j][2] = out[j][2]
        <5>1. j # m
          BY <2>6, <4>1
        <5>2. QED
          BY <3>5, <5>1
      <4>2. QED
        BY <4>1
    <3>9. Ascending(t)
      <4>1. \A j \in 1..m : t[j][1] < t[j][2]
        <5>1. t[m][1] < t[m][2]
          BY <3>2, <3>3, <3>6
        <5>2. QED
          BY <2>7, <3>5, <5>1
      <4>2. \A j, l \in 1..m : j < l => t[j][2] <= t[l][1]
        BY <2>7, <3>7, <3>8
      <4>3. QED
        BY <3>5, <4>1, <4>2 DEF Ascending
    <3>10. Covered(t) = Covered(out) \cup new
      <4>1. \A x \in Int : Inside(x, t[m]) <=> Inside(x, out[m]) \/ Inside(x, i)
        BY <2>3, <3>2, <3>3, <3>6 DEF Inside
      <4>2. \A x \in Int : (\E j \in 1..m : Inside(x, t[j])) <=> (\E j \in 1..m : Inside(x, out[j])) \/ Inside(x, i)
        BY <3>2, <3>5, <4>1
      <4>3. QED
        BY <3>5, <4>2 DEF Covered, m
    <3>11. Last(t)[1] <= i[1]
      BY <3>2, <3>5, <3>6 DEF Last
    <3>12. QED
      BY <2>8, <3>1, <3>9, <3>10, <3>11
  <2>10. CASE ~(out # <<>> /\ i[1] <= Last(out)[2])
    <3>1. h[k + 1] = Append(out, i)
      BY <2>4, <2>10 DEF MergeStep
    <3>2. \A j \in 1..m : out[j][2] <= i[1]
      <4>1. ASSUME NEW j \in 1..m PROVE out[j][2] <= i[1]
        <5>1. out # <<>> /\ m \in 1..m /\ out[m][2] < i[1] /\ out[m][1] < out[m][2]
          <6>1. out # <<>>
            BY <2>6, <4>1
          <6>2. ~(i[1] <= out[m][2]) /\ m \in 1..m
            BY <2>6, <2>10, <6>1
          <6> HIDE DEF out, i, m
          <6>3. QED
            BY <2>3, <2>6, <2>7, <6>1, <6>2
        <5> HIDE DEF out, i, m
        <5>2. j = m \/ (j < m /\ out[j][2] <= out[m][1])
          BY <2>6, <2>7, <5>1
        <5>3. QED
          BY <2>3, <2>6, <5>1, <5>2
      <4>2. QED
        BY <4>1
    <3>3. Ascending(Append(out, i)) /\ Covered(Append(out, i)) = Covered(out) \cup new
      BY <2>2, <2>3, <3>2, AppendAscending
    <3>4. Last(Append(out, i)) = i
      BY <2>6 DEF Last
    <3>5. QED
      BY <2>3, <2>8, <3>1, <3>3, <3>4
  <2>11. QED
    BY <2>9, <2>10
<1> HIDE DEF Good
<1>6. Nat \subseteq Good
  BY <1>4, <1>5, Induction
<1>7. Right(n)
  BY <1>1, <1>6 DEF Good
<1>8. C(n) = {x \in Int : \E i \in intervals : Inside(x, i)}
  <2>1. ASSUME NEW x \in Int, NEW i \in intervals, Inside(x, i) PROVE \E j \in 1..n : Inside(x, s[j])
    <3>1. i[1] < i[2]
      BY <2>1, PairParts DEF Inside
    <3>2. QED
      BY <1>1, <2>1, <3>1
  <2>2. QED
    BY <1>1, <2>1
<1>9. QED
  BY <1>3, <1>7, <1>8

LEMMA ConcatAscending ==
    ASSUME NEW s, Ascending(s), NEW t, Ascending(t),
           \A k \in 1..Len(s), l \in 1..Len(t) : s[k][2] <= t[l][1]
    PROVE  Ascending(s \o t) /\ Covered(s \o t) = Covered(s) \cup Covered(t)
<1> DEFINE m == Len(s)
           n == Len(t)
           u == s \o t
<1>1. /\ s \in Seq(Pairs) /\ t \in Seq(Pairs) /\ m \in Nat /\ n \in Nat
      /\ (\A k \in 1..m : s[k][1] < s[k][2]) /\ (\A k, l \in 1..m : k < l => s[k][2] <= s[l][1])
      /\ (\A k \in 1..n : t[k][1] < t[k][2]) /\ (\A k, l \in 1..n : k < l => t[k][2] <= t[l][1])
      /\ \A k \in 1..m, l \in 1..n : s[k][2] <= t[l][1]
  BY DEF Ascending
<1>2. /\ u \in Seq(Pairs) /\ Len(u) = m + n
      /\ \A k \in 1..m : u[k] = s[k]
      /\ \A k \in 1..n : u[m + k] = t[k]
  BY <1>1
<1>3. \A k \in 1..m + n : k \in 1..m \/ (k - m \in 1..n /\ m + (k - m) = k)
  BY <1>1
<1>4. (\A k \in 1..m : k \in 1..m + n) /\ \A k \in 1..n : m + k \in 1..m + n
  BY <1>1
<1> HIDE DEF u, m, n
<1>5. \A k \in 1..m + n : (k \in 1..m /\ u[k] = s[k]) \/ (k - m \in 1..n /\ u[k] = t[k - m])
  <2>1. ASSUME NEW k \in 1..m + n, k \notin 1..m PROVE k - m \in 1..n /\ u[k] = t[k - m]
    <3>1. k - m \in 1..n /\ m + (k - m) = k
      BY <1>3, <2>1
    <3>2. u[m + (k - m)] = t[k - m]
      BY <1>2, <3>1
    <3>3. QED
      BY <3>1, <3>2
  <2>2. QED
    BY <1>2, <2>1
<1>6. \A k \in 1..m + n : u[k][1] < u[k][2]
  BY <1>1, <1>5
<1>7. \A k, l \in 1..m + n : k < l => u[k][2] <= u[l][1]
  <2>1. ASSUME NEW k \in 1..m + n, NEW l \in 1..m + n, k < l PROVE u[k][2] <= u[l][1]
    <3>1. CASE k \in 1..m /\ u[k] = s[k] /\ l \in 1..m /\ u[l] = s[l]
      BY <1>1, <2>1, <3>1
    <3>2. CASE k \in 1..m /\ u[k] = s[k] /\ l - m \in 1..n /\ u[l] = t[l - m]
      BY <1>1, <3>2
    <3>3. CASE k - m \in 1..n /\ u[k] = t[k - m] /\ l \in 1..m
      BY <1>1, <2>1, <3>3
    <3>4. CASE k - m \in 1..n /\ u[k] = t[k - m] /\ l - m \in 1..n /\ u[l] = t[l - m]
      <4>1. k - m < l - m
        BY <1>1, <2>1
      <4>2. QED
        BY <1>1, <3>4, <4>1
    <3>5. QED
      BY <1>5, <3>1, <3>2, <3>3, <3>4
  <2>2. QED
    BY <2>1
<1>8. Ascending(u)
  BY <1>2, <1>6, <1>7 DEF Ascending
<1>9. \A x \in Int : (\E k \in 1..m + n : Inside(x, u[k]))
                        <=> (\E k \in 1..m : Inside(x, s[k])) \/ (\E k \in 1..n : Inside(x, t[k]))
  <2>1. ASSUME NEW x \in Int, NEW k \in 1..m + n, Inside(x, u[k])
        PROVE  (\E j \in 1..m : Inside(x, s[j])) \/ (\E j \in 1..n : Inside(x, t[j]))
    BY <1>5, <2>1
  <2>2. QED
    BY <1>2, <1>4, <2>1
<1>10. Covered(u) = Covered(s) \cup Covered(t)
  BY <1>2, <1>9 DEF Covered, m, n
<1>11. QED
  BY <1>8, <1>10 DEF u

\* What is left of an interval after the first k of s.
Left(i, s, k, acc) ==
    /\ acc \in Cuts /\ i[1] <= acc.cur /\ Ascending(acc.out)
    /\ \A j \in 1..Len(acc.out) : /\ i[1] <= acc.out[j][1]
                                 /\ acc.out[j][2] <= acc.cur /\ acc.out[j][2] <= i[2]
    /\ Covered(acc.out) = {x \in Int : Inside(x, i) /\ x < acc.cur /\ ~\E j \in 1..k : Inside(x, s[j])}
    /\ \A j \in 1..k : s[j][2] <= acc.cur \/ s[j][1] >= i[2]
    /\ acc.cur = i[1] \/ \E j \in 1..k : acc.cur = s[j][2]

LEMMA LeftStep ==
    ASSUME NEW i \in Pairs, NEW s, Ascending(s), NEW k \in Nat, k + 1 <= Len(s), NEW acc, Left(i, s, k, acc)
    PROVE  Left(i, s, k + 1, CutStep(i, acc, s[k + 1]))
<1> DEFINE b == s[k + 1]
           cur == acc.cur
           out == acc.out
           a == i[1]
           e == i[2]
           p == b[1]
           q == b[2]
<1>1. a \in Int /\ e \in Int
  BY PairParts
<1>2. s \in Seq(Pairs) /\ k + 1 \in 1..Len(s) /\ \A j \in 1..k : j \in 1..Len(s) /\ j < k + 1
  BY DEF Ascending
<1>3. b \in Pairs /\ p \in Int /\ q \in Int /\ p < q
  BY <1>2, ItemParts DEF Ascending
<1>4. \A j \in 1..k : s[j][1] \in Int /\ s[j][2] \in Int /\ s[j][2] <= p
  BY <1>2, ItemParts DEF Ascending
<1>5. acc \in Cuts /\ cur \in Int /\ out \in Seq(Pairs) /\ acc = [cur |-> cur, out |-> out]
  BY DEF Left, Cuts
<1>6. /\ a <= cur /\ Ascending(out)
      /\ \A j \in 1..Len(out) : a <= out[j][1] /\ out[j][2] <= cur /\ out[j][2] <= e
      /\ Covered(out) = {x \in Int : Inside(x, i) /\ x < cur /\ ~\E j \in 1..k : Inside(x, s[j])}
      /\ \A j \in 1..k : s[j][2] <= cur \/ s[j][1] >= e
      /\ cur = a \/ \E j \in 1..k : cur = s[j][2]
  BY DEF Left
<1>7. (\A j \in 1..k + 1 : j \in 1..k \/ j = k + 1) /\ k + 1 \in 1..k + 1 /\ \A j \in 1..k : j \in 1..k + 1
  OBVIOUS
<1>8. \A x : (\E j \in 1..k + 1 : Inside(x, s[j])) <=> (\E j \in 1..k : Inside(x, s[j])) \/ Inside(x, b)
  BY <1>7
<1>9. \A x : (Inside(x, i) <=> a <= x /\ x < e) /\ (Inside(x, b) <=> p <= x /\ x < q)
  BY DEF Inside
<1>10. \A x \in Int : x \in Covered(out) <=> a <= x /\ x < e /\ x < cur /\ ~\E j \in 1..k : Inside(x, s[j])
  BY <1>6, <1>9
<1> HIDE DEF b, cur, out, a, e, p, q
<1>11. ASSUME NEW c \in Int, NEW o, a <= c, Ascending(o),
              \A j \in 1..Len(o) : a <= o[j][1] /\ o[j][2] <= c /\ o[j][2] <= e,
              \A x \in Int : x \in Covered(o) <=> /\ a <= x /\ x < e /\ x < c
                                                  /\ ~(\E j \in 1..k : Inside(x, s[j])) /\ ~(p <= x /\ x < q),
              \A j \in 1..k : s[j][2] <= c \/ s[j][1] >= e, q <= c \/ p >= e,
              c = a \/ c = q \/ \E j \in 1..k : c = s[j][2]
       PROVE  Left(i, s, k + 1, [cur |-> c, out |-> o])
  <2>1. [cur |-> c, out |-> o] \in Cuts
    BY <1>11 DEF Cuts, Ascending
  <2>2. Covered(o) = {x \in Int : Inside(x, i) /\ x < c /\ ~\E j \in 1..k + 1 : Inside(x, s[j])}
    <3>1. Covered(o) \subseteq Int
      BY DEF Covered
    <3>2. \A x \in Int : x \in Covered(o) <=> Inside(x, i) /\ x < c /\ ~\E j \in 1..k + 1 : Inside(x, s[j])
      BY <1>8, <1>9, <1>11
    <3>3. QED
      BY <3>1, <3>2
  <2>3. \A j \in 1..k + 1 : s[j][2] <= c \/ s[j][1] >= e
    BY <1>7, <1>11 DEF b, p, q
  <2>4. c = a \/ \E j \in 1..k + 1 : c = s[j][2]
    BY <1>7, <1>11 DEF b, q
  <2>5. QED
    BY <1>11, <2>1, <2>2, <2>3, <2>4 DEF Left, a, e
<1>12. CASE q <= cur
  <2>1. CutStep(i, acc, b) = acc
    BY <1>12 DEF CutStep, q, cur
  <2>2. cur = a
    <3>1. ASSUME NEW j \in 1..k, cur = s[j][2] PROVE FALSE
      BY <1>3, <1>4, <1>5, <1>12, <3>1
    <3>2. QED
      BY <1>6, <3>1
  <2>3. \A x \in Int : ~(a <= x /\ x < cur)
    BY <1>1, <2>2
  <2>4. \A x \in Int : x \in Covered(out) <=> /\ a <= x /\ x < e /\ x < cur
                                              /\ ~(\E j \in 1..k : Inside(x, s[j])) /\ ~(p <= x /\ x < q)
    BY <1>10, <2>3
  <2>5. Left(i, s, k + 1, [cur |-> cur, out |-> out])
    BY <1>5, <1>6, <1>11, <1>12, <2>4
  <2>6. QED
    BY <1>5, <2>1, <2>5 DEF b
<1>13. CASE p >= e
  <2>1. CutStep(i, acc, b) = acc
    BY <1>13 DEF CutStep, p, e
  <2>2. \A x \in Int : x < e => ~(p <= x /\ x < q)
    BY <1>1, <1>3, <1>13
  <2>3. \A x \in Int : x \in Covered(out) <=> /\ a <= x /\ x < e /\ x < cur
                                              /\ ~(\E j \in 1..k : Inside(x, s[j])) /\ ~(p <= x /\ x < q)
    BY <1>10, <2>2
  <2>4. Left(i, s, k + 1, [cur |-> cur, out |-> out])
    BY <1>5, <1>6, <1>11, <1>13, <2>3
  <2>5. QED
    BY <1>5, <2>1, <2>4 DEF b
<1>14. CASE ~(q <= cur) /\ ~(p >= e)
  <2>1. Max({cur, q}) = q /\ cur < q /\ p < e
    BY <1>1, <1>3, <1>5, <1>14, ExtremesOfTwo
  <2> DEFINE o == IF p > cur THEN Append(out, <<cur, p>>) ELSE out
  <2>2. CutStep(i, acc, b) = [cur |-> q, out |-> o]
    BY <1>14, <2>1 DEF CutStep, q, p, e, cur, out
  <2>3. \A x \in Int : cur <= x /\ x < e => ~\E j \in 1..k : Inside(x, s[j])
    <3>1. ASSUME NEW x \in Int, NEW j \in 1..k, cur <= x, x < e, Inside(x, s[j]) PROVE FALSE
      <4>1. s[j][2] <= cur \/ s[j][1] >= e
        BY <1>6
      <4>2. s[j][1] <= x /\ x < s[j][2]
        BY <3>1 DEF Inside
      <4>3. s[j][1] \in Int /\ s[j][2] \in Int
        BY <1>4
      <4>4. QED
        BY <1>1, <1>5, <3>1, <4>1, <4>2, <4>3
    <3>2. QED
      BY <3>1
  <2>4. /\ Ascending(o) /\ \A j \in 1..Len(o) : a <= o[j][1] /\ o[j][2] <= q /\ o[j][2] <= e
        /\ \A x \in Int : x \in Covered(o) <=> /\ a <= x /\ x < e /\ x < q
                                               /\ ~(\E j \in 1..k : Inside(x, s[j])) /\ ~(p <= x /\ x < q)
    <3>1. \A j \in 1..Len(out) : out[j] \in Pairs /\ out[j][1] \in Int /\ out[j][2] \in Int
      BY <1>5, ItemParts
    <3>2. CASE p > cur
      <4> DEFINE new == <<cur, p>>
                 n == Len(out)
      <4>1. new \in Pairs /\ new[1] = cur /\ new[2] = p /\ new[1] < new[2] /\ o = Append(out, new)
        BY <1>3, <1>5, <3>2 DEF Pairs
      <4> HIDE DEF new
      <4>2. Ascending(o) /\ Covered(o) = Covered(out) \cup {x \in Int : Inside(x, new)}
        BY <1>6, <4>1, AppendAscending
      <4>3. \A j \in 1..Len(o) : o[j] = new \/ (j \in 1..n /\ o[j] = out[j])
        BY <1>5, <4>1
      <4>4. \A j \in 1..Len(o) : a <= o[j][1] /\ o[j][2] <= q /\ o[j][2] <= e
        <5>1. a <= new[1] /\ new[2] <= q /\ new[2] <= e
          BY <1>1, <1>3, <1>5, <1>6, <2>1, <4>1
        <5>2. \A j \in 1..n : a <= out[j][1] /\ out[j][2] <= q /\ out[j][2] <= e
          BY <1>3, <1>5, <1>6, <2>1, <3>1
        <5> HIDE DEF n, o
        <5>3. QED
          BY <4>3, <5>1, <5>2
      <4>5. ASSUME NEW x \in Int
            PROVE  x \in Covered(o) <=> /\ a <= x /\ x < e /\ x < q
                                        /\ ~(\E j \in 1..k : Inside(x, s[j])) /\ ~(p <= x /\ x < q)
        <5>1. x \in Covered(o) <=> x \in Covered(out) \/ (cur <= x /\ x < p)
          BY <4>1, <4>2 DEF Inside
        <5> DEFINE in == \E j \in 1..k : Inside(x, s[j])
        <5>2. x \in Covered(out) <=> a <= x /\ x < e /\ x < cur /\ ~in
          BY <1>10
        <5>3. cur <= x /\ x < e => ~in
          BY <2>3
        <5> HIDE DEF in, o
        <5>4. CASE x < cur
          <6>1. x < p /\ x < q /\ ~(cur <= x)
            BY <1>3, <1>5, <2>1, <3>2, <5>4
          <6>2. ~(p <= x)
            BY <1>3, <6>1
          <6>3. QED
            BY <5>1, <5>2, <5>4, <6>1, <6>2 DEF in
        <5>5. CASE ~(x < cur)
          <6>1. cur <= x /\ a <= x
            BY <1>1, <1>5, <1>6, <5>5
          <6>2. (x < p => x < e /\ x < q /\ ~(p <= x)) /\ (x < q /\ ~(p <= x) => x < p)
            BY <1>1, <1>3, <2>1
          <6>3. QED
            BY <5>1, <5>2, <5>3, <5>5, <6>1, <6>2 DEF in
        <5>6. QED
          BY <5>4, <5>5
      <4>6. QED
        BY <4>2, <4>4, <4>5
    <3>3. CASE ~(p > cur)
      <4>1. o = out
        BY <3>3
      <4>2. \A j \in 1..Len(out) : a <= out[j][1] /\ out[j][2] <= q /\ out[j][2] <= e
        BY <1>3, <1>5, <1>6, <2>1, <3>1
      <4>3. ASSUME NEW x \in Int
            PROVE  (x < cur => (x < q /\ ~(p <= x /\ x < q)) \/ (p <= x /\ x < q)) /\ (x < q /\ ~(p <= x /\ x < q) => x < cur)
        BY <1>3, <1>5, <2>1, <3>3
      <4>4. ASSUME NEW x \in Int, x \in Covered(out) PROVE ~(p <= x /\ x < q) /\ x < q
        <5>1. a <= x /\ x < cur
          BY <1>10, <4>4
        <5>2. PICK j \in 1..k : cur = s[j][2]
          BY <1>1, <1>5, <1>6, <5>1
        <5>3. cur <= p
          BY <1>4, <5>2
        <5>4. QED
          BY <1>3, <1>5, <5>1, <5>3
      <4>5. QED
        BY <1>6, <1>10, <4>1, <4>2, <4>3, <4>4
    <3>4. QED
      BY <3>2, <3>3
  <2> HIDE DEF o
  <2>5. Left(i, s, k + 1, [cur |-> q, out |-> o])
    <3>1. a <= q /\ q <= q
      BY <1>1, <1>3, <1>5, <1>6, <2>1
    <3>2. \A j \in 1..k : s[j][2] <= q \/ s[j][1] >= e
      BY <1>3, <1>4, <1>5, <1>6, <2>1
    <3>3. QED
      BY <1>3, <1>11, <2>4, <3>1, <3>2
  <2>6. QED
    BY <2>2, <2>5 DEF b
<1>15. QED
  BY <1>12, <1>13, <1>14

LEMMA CutIs ==
    ASSUME NEW i \in Pairs, NEW s, Ascending(s)
    PROVE  /\ Ascending(Cut(i, s))
           /\ Covered(Cut(i, s)) = {x \in Int : Inside(x, i) /\ x \notin Covered(s)}
           /\ \A j \in 1..Len(Cut(i, s)) : i[1] <= Cut(i, s)[j][1] /\ Cut(i, s)[j][2] <= i[2]
<1> DEFINE n == Len(s)
<1>1. s \in Seq(Pairs) /\ n \in Nat /\ i[1] \in Int /\ i[2] \in Int /\ i = <<i[1], i[2]>>
  BY PairParts DEF Ascending
<1>2. PICK h \in [0..n -> Cuts] :
          /\ h[0] = [cur |-> i[1], out |-> <<>>]
          /\ \A k \in 1..n : h[k] = CutStep(i, h[k - 1], s[k])
          /\ Cut(i, s) = LET end == h[n] IN IF end.cur < i[2] THEN Append(end.out, <<end.cur, i[2]>>) ELSE end.out
  BY <1>1, CutSteps
<1> DEFINE Good == {k \in Nat : k <= n => Left(i, s, k, h[k])}
<1>3. 0 \in Good
  <2>1. h[0] \in Cuts /\ h[0].cur = i[1] /\ h[0].out = <<>>
    BY <1>1, <1>2
  <2>2. Ascending(<<>>) /\ Covered(<<>>) = {} /\ Len(<<>>) = 0 /\ 1..0 = {}
    BY NothingCovered
  <2>3. \A x \in Int : ~(Inside(x, i) /\ x < i[1])
    BY <1>1 DEF Inside
  <2>4. Left(i, s, 0, h[0])
    BY <1>1, <2>1, <2>2, <2>3 DEF Left
  <2>5. QED
    BY <2>4
<1>4. ASSUME NEW k \in Nat, k \in Good PROVE k + 1 \in Good
  <2> SUFFICES ASSUME k + 1 <= n PROVE Left(i, s, k + 1, h[k + 1])
    OBVIOUS
  <2>1. Left(i, s, k, h[k])
    BY <1>1, <1>4
  <2>2. h[k + 1] = CutStep(i, h[k], s[k + 1])
    <3>1. k + 1 \in 1..n /\ k + 1 - 1 = k
      BY <1>1
    <3>2. QED
      BY <1>2, <3>1
  <2>3. QED
    BY <2>1, <2>2, LeftStep
<1> HIDE DEF Good
<1>5. Nat \subseteq Good
  BY <1>3, <1>4, Induction
<1>6. Left(i, s, n, h[n])
  BY <1>1, <1>5 DEF Good
<1> DEFINE cur == h[n].cur
           out == h[n].out
           c == Cut(i, s)
<1>7. /\ cur \in Int /\ i[1] <= cur /\ Ascending(out)
      /\ \A j \in 1..Len(out) : i[1] <= out[j][1] /\ out[j][2] <= cur /\ out[j][2] <= i[2]
      /\ Covered(out) = {x \in Int : Inside(x, i) /\ x < cur /\ ~\E j \in 1..n : Inside(x, s[j])}
      /\ \A j \in 1..n : s[j][2] <= cur \/ s[j][1] >= i[2]
  BY <1>6 DEF Left, Cuts
<1>8. \A j \in 1..n : s[j][1] \in Int /\ s[j][2] \in Int
  BY <1>1, ItemParts
<1>9. Covered(s) = {x \in Int : \E j \in 1..n : Inside(x, s[j])}
  BY DEF Covered
<1>10. c = IF cur < i[2] THEN Append(out, <<cur, i[2]>>) ELSE out
  BY <1>2
<1> HIDE DEF cur, out, c, n
<1>11. CASE cur < i[2]
  <2> DEFINE new == <<cur, i[2]>>
  <2>1. new \in Pairs /\ new[1] = cur /\ new[2] = i[2] /\ new[1] < new[2] /\ c = Append(out, new)
    BY <1>1, <1>7, <1>10, <1>11 DEF Pairs
  <2> HIDE DEF new
  <2>2. Ascending(c) /\ Covered(c) = Covered(out) \cup {x \in Int : Inside(x, new)}
    BY <1>7, <2>1, AppendAscending
  <2>3. \A j \in 1..Len(c) : i[1] <= c[j][1] /\ c[j][2] <= i[2]
    <3>1. \A j \in 1..Len(c) : c[j] = new \/ (j \in 1..Len(out) /\ c[j] = out[j])
      <4>1. out \in Seq(Pairs)
        BY <1>7 DEF Ascending
      <4>2. QED
        BY <2>1, <4>1
    <3>2. i[1] <= new[1] /\ new[2] <= i[2]
      BY <1>1, <1>7, <2>1
    <3>3. QED
      BY <1>7, <3>1, <3>2
  <2>4. ASSUME NEW x \in Int PROVE x \in Covered(c) <=> Inside(x, i) /\ x \notin Covered(s)
    <3>1. x \in Covered(c) <=> x \in Covered(out) \/ (cur <= x /\ x < i[2])
      BY <2>1, <2>2 DEF Inside
    <3>2. x \in Covered(out) <=> Inside(x, i) /\ x < cur /\ x \notin Covered(s)
      BY <1>7, <1>9
    <3>3. cur <= x /\ x < i[2] => Inside(x, i) /\ x \notin Covered(s)
      <4>1. ASSUME cur <= x, x < i[2], NEW j \in 1..n, Inside(x, s[j]) PROVE FALSE
        <5>1. s[j][2] <= cur \/ s[j][1] >= i[2]
          BY <1>7
        <5>2. s[j][1] <= x /\ x < s[j][2]
          BY <4>1 DEF Inside
        <5>3. QED
          BY <1>1, <1>7, <1>8, <4>1, <5>1, <5>2
      <4>2. ASSUME cur <= x, x < i[2] PROVE Inside(x, i)
        BY <1>1, <1>7, <4>2 DEF Inside
      <4>3. QED
        BY <1>9, <4>1, <4>2
    <3>4. Inside(x, i) /\ ~(x < cur) => cur <= x /\ x < i[2]
      BY <1>1, <1>7 DEF Inside
    <3>5. QED
      BY <3>1, <3>2, <3>3, <3>4
  <2>5. Covered(c) = {x \in Int : Inside(x, i) /\ x \notin Covered(s)}
    <3>1. Covered(c) \subseteq Int
      BY DEF Covered
    <3>2. QED
      BY <2>4, <3>1
  <2>6. QED
    BY <2>2, <2>3, <2>5 DEF c
<1>12. CASE ~(cur < i[2])
  <2>1. c = out
    BY <1>10, <1>12
  <2>2. \A x \in Int : Inside(x, i) => x < cur
    BY <1>1, <1>7, <1>12 DEF Inside
  <2>3. Covered(out) = {x \in Int : Inside(x, i) /\ x \notin Covered(s)}
    BY <1>7, <1>9, <2>2
  <2>4. QED
    BY <1>7, <2>1, <2>3 DEF c
<1>13. QED
  BY <1>11, <1>12

\* subtract: what the intervals of a cover and those of b do not.
LEMMA SubtractIs ==
    ASSUME NEW a \in SUBSET Pairs, IsFiniteSet(a), NEW b \in SUBSET Pairs, IsFiniteSet(b)
    PROVE  /\ Ascending(Subtract(a, b))
           /\ Covered(Subtract(a, b)) = {x \in Int : (\E i \in a : Inside(x, i)) /\ ~\E j \in b : Inside(x, j)}
<1> DEFINE m == Merge(a)
           s == Merge(b)
           n == Len(m)
           ss == [k \in DOMAIN m |-> Cut(m[k], s)]
           C(k) == {x \in Int : (\E j \in 1..k : Inside(x, m[j])) /\ x \notin Covered(s)}
<1>1. Ascending(m) /\ Covered(m) = {x \in Int : \E i \in a : Inside(x, i)}
      /\ Ascending(s) /\ Covered(s) = {x \in Int : \E i \in b : Inside(x, i)}
  BY MergeIs
<1>2. Subtract(a, b) = FlattenSeq(ss)
  BY DEF Subtract
<1> HIDE DEF m, s
<1>3. m \in Seq(Pairs) /\ n \in Nat /\ DOMAIN m = 1..n /\ Covered(m) = {x \in Int : \E k \in 1..n : Inside(x, m[k])}
  BY <1>1 DEF Ascending, Covered
<1>4. /\ \A k \in 1..n : m[k] \in Pairs /\ m[k][1] \in Int /\ m[k][2] \in Int
      /\ \A k, l \in 1..n : k < l => m[k][2] <= m[l][1]
  BY <1>1, <1>3, ItemParts DEF Ascending
<1>5. \A k \in 1..n : /\ ss[k] = Cut(m[k], s) /\ Ascending(ss[k])
                      /\ Covered(ss[k]) = {x \in Int : Inside(x, m[k]) /\ x \notin Covered(s)}
                      /\ \A j \in 1..Len(ss[k]) : m[k][1] <= ss[k][j][1] /\ ss[k][j][2] <= m[k][2]
  BY <1>1, <1>3, <1>4, CutIs
<1>6. ss \in Seq(Seq(Pairs)) /\ Len(ss) = n
  <2>1. \A k \in 1..n : ss[k] \in Seq(Pairs)
    BY <1>5 DEF Ascending
  <2>2. ss = [k \in 1..n |-> ss[k]]
    BY <1>3
  <2> HIDE DEF ss
  <2>3. ss \in [1..n -> Seq(Pairs)]
    BY <2>1, <2>2
  <2>4. QED
    BY <1>3, <2>3
<1>7. {x \in Int : (\E i \in a : Inside(x, i)) /\ ~\E j \in b : Inside(x, j)} = C(n)
  BY <1>1, <1>3
<1> HIDE DEF ss, n
<1>8. CASE n = 0
  <2>1. FlattenSeq(ss) = <<>>
    BY <1>6, <1>8 DEF FlattenSeq
  <2>2. C(n) = {}
    BY <1>8
  <2>3. QED
    BY <1>2, <1>7, <2>1, <2>2, NothingCovered
<1>9. CASE n # 0
  <2>1. PICK h \in [1..n -> Seq(Pairs)] : /\ h[1] = ss[1] /\ h[n] = FlattenSeq(ss)
                                          /\ \A k \in 2..n : h[k] = h[k - 1] \o ss[k]
    <3>1. ss # <<>>
      BY <1>6, <1>9
    <3>2. QED
      BY <1>6, <3>1, FlattenSteps
  <2> DEFINE Right(k) == /\ Ascending(h[k]) /\ Covered(h[k]) = C(k)
                         /\ \A j \in 1..Len(h[k]) : h[k][j][2] <= m[k][2]
             Good == {k \in Nat : k \in 1..n => Right(k)}
  <2>2. 0 \in Good
    OBVIOUS
  <2>3. ASSUME NEW k \in Nat, k \in Good PROVE k + 1 \in Good
    <3> SUFFICES ASSUME k + 1 \in 1..n PROVE Right(k + 1)
      OBVIOUS
    <3>1. CASE k = 0
      <4>1. 1 \in 1..n /\ h[1] = ss[1] /\ k + 1 = 1
        BY <1>3, <1>9, <2>1, <3>1
      <4>2. Covered(ss[1]) = C(1)
        <5>1. \A x \in Int : (\E j \in 1..1 : Inside(x, m[j])) <=> Inside(x, m[1])
          OBVIOUS
        <5>2. QED
          BY <1>5, <4>1, <5>1
      <4>3. Ascending(ss[1]) /\ \A j \in 1..Len(ss[1]) : ss[1][j][2] <= m[1][2]
        BY <1>5, <4>1
      <4>4. QED
        BY <4>1, <4>2, <4>3
    <3>2. CASE k # 0
      <4> DEFINE old == h[k]
                 new == ss[k + 1]
      <4>1. k \in 1..n /\ k + 1 \in 2..n /\ k + 1 - 1 = k
        BY <1>3, <3>2
      <4>2. Right(k) /\ h[k + 1] = old \o new
        <5> HIDE DEF Right
        <5>1. Right(k)
          BY <2>3, <4>1
        <5> DEFINE l == k + 1
        <5>2. l \in 2..n /\ l - 1 = k
          BY <4>1
        <5> HIDE DEF l
        <5>3. h[l] = h[l - 1] \o ss[l]
          BY <2>1, <5>2
        <5>4. QED
          BY <5>1, <5>2, <5>3 DEF l
      <4>3. /\ Ascending(new) /\ Covered(new) = {x \in Int : Inside(x, m[k + 1]) /\ x \notin Covered(s)}
            /\ \A j \in 1..Len(new) : m[k + 1][1] <= new[j][1] /\ new[j][2] <= m[k + 1][2]
        BY <1>5
      <4>4. m[k][2] \in Int /\ m[k + 1][1] \in Int /\ m[k + 1][2] \in Int /\ m[k][2] <= m[k + 1][1]
            /\ m[k + 1][1] < m[k + 1][2]
        BY <1>1, <1>4, <4>1 DEF Ascending, n
      <4>5. /\ \A j \in 1..Len(old) : old[j] \in Pairs /\ old[j][1] \in Int /\ old[j][2] \in Int
            /\ \A j \in 1..Len(new) : new[j] \in Pairs /\ new[j][1] \in Int /\ new[j][2] \in Int
            /\ old \in Seq(Pairs) /\ new \in Seq(Pairs)
        BY <4>2, <4>3, ItemParts DEF Ascending
      <4>6. \A j \in 1..Len(old) : old[j][2] <= m[k][2]
        BY <4>2
      <4> HIDE DEF old, new
      <4>7. \A j \in 1..Len(old), l \in 1..Len(new) : old[j][2] <= new[l][1]
        <5>1. ASSUME NEW j \in 1..Len(old), NEW l \in 1..Len(new) PROVE old[j][2] <= new[l][1]
          <6>1. old[j][2] <= m[k][2] /\ m[k + 1][1] <= new[l][1] /\ old[j][2] \in Int /\ new[l][1] \in Int
            BY <4>3, <4>5, <4>6
          <6> DEFINE p == m[k][2]
                     q == m[k + 1][1]
                     v == old[j][2]
                     w == new[l][1]
          <6>2. p \in Int /\ q \in Int /\ p <= q /\ v <= p /\ q <= w /\ v \in Int /\ w \in Int
            BY <4>4, <6>1
          <6> HIDE DEF p, q, v, w
          <6>3. v <= w
            BY <6>2
          <6>4. QED
            BY <6>3 DEF v, w
        <5>2. QED
          BY <5>1
      <4>8. Ascending(old \o new) /\ Covered(old \o new) = Covered(old) \cup Covered(new)
        BY <4>2, <4>3, <4>7, ConcatAscending DEF old
      <4>9. C(k + 1) = C(k) \cup Covered(new)
        <5>1. (\A j \in 1..k + 1 : j \in 1..k \/ j = k + 1) /\ k + 1 \in 1..k + 1 /\ \A j \in 1..k : j \in 1..k + 1
          OBVIOUS
        <5>2. \A x : (\E j \in 1..k + 1 : Inside(x, m[j])) <=> (\E j \in 1..k : Inside(x, m[j])) \/ Inside(x, m[k + 1])
          BY <5>1
        <5>3. QED
          BY <4>3, <5>2
      <4>10. \A j \in 1..Len(old \o new) : (old \o new)[j][2] <= m[k + 1][2]
        <5>1. ASSUME NEW j \in 1..Len(old \o new) PROVE (old \o new)[j][2] <= m[k + 1][2]
          <6>1. (j \in 1..Len(old) /\ (old \o new)[j] = old[j])
                  \/ (j - Len(old) \in 1..Len(new) /\ (old \o new)[j] = new[j - Len(old)])
            BY <4>5
          <6>2. CASE j \in 1..Len(old) /\ (old \o new)[j] = old[j]
            <7>1. old[j][2] <= m[k][2] /\ old[j][2] \in Int
              BY <4>5, <4>6, <6>2
            <7>2. QED
              BY <4>4, <6>2, <7>1
          <6>3. CASE j - Len(old) \in 1..Len(new) /\ (old \o new)[j] = new[j - Len(old)]
            BY <4>3, <6>3
          <6>4. QED
            BY <6>1, <6>2, <6>3
        <5>2. QED
          BY <5>1
      <4>11. Covered(old) = C(k)
        BY <4>2 DEF old
      <4>12. QED
        BY <4>2, <4>8, <4>9, <4>10, <4>11
    <3>3. QED
      BY <3>1, <3>2
  <2> HIDE DEF Good
  <2>4. Nat \subseteq Good
    BY <2>2, <2>3, Induction
  <2>5. Right(n)
    <3>1. n \in Nat /\ n \in 1..n
      BY <1>3, <1>9
    <3>2. QED
      BY <2>4, <3>1 DEF Good
  <2>6. QED
    BY <1>2, <1>7, <2>1, <2>5
<1>10. QED
  BY <1>8, <1>9

-----------------------------------------------------------------------------
(* The figures of a history.                                               *)

History(h) ==
    /\ IsFiniteSet(h.beats) /\ h.beats # {} /\ \A b \in h.beats : b.ts \in Int
    /\ IsFiniteSet(h.outages) /\ \A o \in h.outages : o.start \in Int /\ o.end \in Int
    /\ IsFiniteSet(h.maintenance) /\ \A w \in h.maintenance : w.from \in Int /\ w.to \in Int

Known(h) == {b.ts : b \in h.beats} \cup {o.start : o \in h.outages}
From(h, start) == Max({start, Min(Known(h))})
Window(h, start, end) == {x \in Int : From(h, start) <= x /\ x < end}

LEMMA ImageFinite ==
    ASSUME NEW S, IsFiniteSet(S), NEW f, DOMAIN f = S, f = [x \in S |-> f[x]]
    PROVE  IsFiniteSet({f[x] : x \in S})
<1> DEFINE T == {f[x] : x \in S}
<1>1. f \in [S -> T]
  OBVIOUS
<1>2. \A t \in T : \E x \in S : f[x] = t
  OBVIOUS
<1> HIDE DEF T
<1>3. f \in Surjection(S, T)
  BY <1>1, <1>2 DEF Surjection
<1>4. IsFiniteSet(T)
  BY <1>3, FS_Surjection
<1>5. QED
  BY <1>4 DEF T

LEMMA KnownIs ==
    ASSUME NEW h, History(h)
    PROVE  Known(h) \in SUBSET Int /\ Known(h) # {} /\ Min(Known(h)) \in Int
<1> DEFINE f == [b \in h.beats |-> b.ts]
           g == [o \in h.outages |-> o.start]
           F == {f[b] : b \in h.beats}
           G == {g[o] : o \in h.outages}
<1>1. IsFiniteSet(h.beats) /\ IsFiniteSet(h.outages)
  BY DEF History
<1>2. IsFiniteSet(F)
  <2>1. DOMAIN f = h.beats /\ f = [b \in h.beats |-> f[b]]
    OBVIOUS
  <2> HIDE DEF f
  <2>2. QED
    BY <1>1, <2>1, ImageFinite
<1>3. IsFiniteSet(G)
  <2>1. DOMAIN g = h.outages /\ g = [o \in h.outages |-> g[o]]
    OBVIOUS
  <2> HIDE DEF g
  <2>2. QED
    BY <1>1, <2>1, ImageFinite
<1>4. Known(h) = F \cup G
  BY DEF Known
<1>5. F # {} /\ F \in SUBSET Int /\ G \in SUBSET Int
  BY DEF History
<1> HIDE DEF F, G
<1>6. IsFiniteSet(F \cup G)
  BY <1>2, <1>3, FS_Union
<1>7. Known(h) \in SUBSET Int /\ Known(h) # {} /\ IsFiniteSet(Known(h))
  BY <1>4, <1>5, <1>6
<1>8. Min(Known(h)) \in Known(h)
  BY <1>7, Extremes
<1>9. QED
  BY <1>7, <1>8

LEMMA FromIs ==
    ASSUME NEW h, History(h), NEW start \in Int
    PROVE  /\ From(h, start) \in Int /\ Min(Known(h)) \in Int
           /\ From(h, start) = IF start >= Min(Known(h)) THEN start ELSE Min(Known(h))
  BY KnownIs, ExtremesOfTwo DEF From

LEMMA ClipIs ==
    ASSUME NEW S \in SUBSET Pairs, IsFiniteSet(S), NEW start \in Int, NEW end \in Int
    PROVE  /\ Clip(S, start, end) \in SUBSET Pairs /\ IsFiniteSet(Clip(S, start, end))
           /\ \A x \in Int : (\E i \in Clip(S, start, end) : Inside(x, i))
                                <=> start <= x /\ x < end /\ \E i \in S : Inside(x, i)
<1> DEFINE T == {j \in S : j[2] > start /\ j[1] < end}
           c(i) == <<Max({i[1], start}), Min({i[2], end})>>
           f == [i \in T |-> c(i)]
           C == {f[i] : i \in T}
<1>1. Clip(S, start, end) = C
  BY DEF Clip
<1>2. T \in SUBSET S
  OBVIOUS
<1>3. IsFiniteSet(T)
  <2> HIDE DEF T
  <2>1. QED
    BY <1>2, FS_Subset
<1>4. IsFiniteSet(C)
  <2>1. DOMAIN f = T /\ f = [i \in T |-> f[i]]
    OBVIOUS
  <2> HIDE DEF f, T
  <2>2. QED
    BY <1>3, <2>1, ImageFinite
<1>5. \A i \in T : i \in S /\ i[1] \in Int /\ i[2] \in Int /\ i[2] > start /\ i[1] < end
  BY PairParts
<1>6. ASSUME NEW i \in T
      PROVE  /\ f[i] \in Pairs
             /\ \A x \in Int : Inside(x, f[i]) <=> start <= x /\ x < end /\ Inside(x, i)
  <2>1. f[i] = <<Max({i[1], start}), Min({i[2], end})>>
    OBVIOUS
  <2>2. i[1] \in Int /\ i[2] \in Int
    BY <1>5
  <2> DEFINE p == i[1]
             q == i[2]
             a == Max({p, start})
             b == Min({q, end})
  <2>3. p \in Int /\ q \in Int
    BY <2>2
  <2> HIDE DEF p, q
  <2>4. a = (IF p >= start THEN p ELSE start) /\ b = (IF q <= end THEN q ELSE end)
    BY <2>3, ExtremesOfTwo
  <2>5. f[i] = <<a, b>>
    BY <2>1 DEF p, q
  <2> HIDE DEF a, b, f
  <2>6. f[i] \in Pairs /\ f[i][1] = a /\ f[i][2] = b
    BY <2>3, <2>4, <2>5 DEF Pairs
  <2>7. \A x \in Int : a <= x /\ x < b <=> start <= x /\ x < end /\ p <= x /\ x < q
    BY <2>3, <2>4
  <2>8. QED
    BY <2>6, <2>7 DEF Inside, p, q
<1> HIDE DEF f
<1>7. C \in SUBSET Pairs
  BY <1>6
<1>8. ASSUME NEW x \in Int
      PROVE  (\E i \in C : Inside(x, i)) <=> start <= x /\ x < end /\ \E i \in S : Inside(x, i)
  <2>1. (\E i \in C : Inside(x, i)) <=> \E i \in T : Inside(x, f[i])
    OBVIOUS
  <2>2. ASSUME NEW i \in S, start <= x, x < end, Inside(x, i) PROVE i \in T
    <3>1. i[1] \in Int /\ i[2] \in Int
      BY PairParts
    <3>2. i[1] <= x /\ x < i[2]
      BY <2>2 DEF Inside
    <3>3. i[2] > start /\ i[1] < end
      BY <2>2, <3>1, <3>2
    <3>4. QED
      BY <3>3
  <2> HIDE DEF C, T
  <2>3. QED
    BY <1>2, <1>6, <2>1, <2>2
<1>9. QED
  BY <1>1, <1>4, <1>7, <1>8

LEMMA MaintenanceIs ==
    ASSUME NEW h, History(h), NEW start \in Int, NEW end \in Int
    PROVE  LET m == MaintenanceWindows(h, start, end)
           IN  /\ Ascending(m)
               /\ Covered(m) = {x \in Int : start <= x /\ x < end /\ InMaintenance(h, x)}
<1> DEFINE rows == {w \in h.maintenance : w.to > start /\ w.from < end /\ Covers(w, h)}
           f == [w \in rows |-> <<w.from, w.to>>]
           S == {f[w] : w \in rows}
           C == Clip(S, start, end)
           m == MaintenanceWindows(h, start, end)
<1>1. m = Merge(C)
  BY DEF MaintenanceWindows
<1>2. rows \in SUBSET h.maintenance /\ IsFiniteSet(h.maintenance)
      /\ \A w \in h.maintenance : w.from \in Int /\ w.to \in Int
  BY DEF History
<1>3. IsFiniteSet(rows)
  <2> HIDE DEF rows
  <2>1. QED
    BY <1>2, FS_Subset
<1>4. IsFiniteSet(S) /\ S \in SUBSET Pairs
  <2>1. DOMAIN f = rows /\ f = [w \in rows |-> f[w]]
    OBVIOUS
  <2>2. \A w \in rows : f[w] \in Pairs
    BY <1>2 DEF Pairs
  <2> HIDE DEF f, rows
  <2>3. QED
    BY <1>3, <2>1, <2>2, ImageFinite
<1>5. ASSUME NEW x \in Int, start <= x, x < end PROVE (\E i \in S : Inside(x, i)) <=> InMaintenance(h, x)
  <2>1. (\E i \in S : Inside(x, i)) <=> \E w \in rows : w.from <= x /\ x < w.to
    <3>1. \A w \in rows : Inside(x, f[w]) <=> w.from <= x /\ x < w.to
      BY DEF Inside
    <3> HIDE DEF f
    <3>2. QED
      BY <3>1
  <2>2. ASSUME NEW w \in h.maintenance, w.from <= x, x < w.to PROVE w.to > start /\ w.from < end
    BY <1>2, <1>5, <2>2
  <2>3. QED
    BY <2>1, <2>2 DEF InMaintenance
<1> HIDE DEF S, rows, m
<1>6. /\ C \in SUBSET Pairs /\ IsFiniteSet(C)
      /\ \A x \in Int : (\E i \in C : Inside(x, i)) <=> start <= x /\ x < end /\ \E i \in S : Inside(x, i)
  BY <1>4, ClipIs
<1> HIDE DEF C
<1>7. Ascending(m) /\ Covered(m) = {x \in Int : \E i \in C : Inside(x, i)}
  BY <1>1, <1>6, MergeIs
<1>8. Covered(m) = {x \in Int : start <= x /\ x < end /\ InMaintenance(h, x)}
  BY <1>5, <1>6, <1>7
<1>9. QED
  BY <1>7, <1>8 DEF m

\* What is left of the outages.
Lost(h, start, end, now, b) ==
    Subtract(Clip({<<o.start, o.end>> : o \in OutageIntervals(h, start, end, now)}, start, end), b)

\* The seconds of outages, in a window that ends by now.
LEMMA DownIs ==
    ASSUME NEW h, History(h), NEW start \in Int, NEW end \in Int, NEW now \in Int, end <= now,
           NEW b \in SUBSET Pairs, IsFiniteSet(b)
    PROVE  LET s == Lost(h, start, end, now, b)
           IN  /\ Ascending(s)
               /\ Covered(s) = {x \in Int : /\ start <= x /\ x < end /\ InOutage(h, x)
                                            /\ ~\E i \in b : Inside(x, i)}
<1> DEFINE until(o) == IF o.end = Open THEN now ELSE o.end
           rows == {p \in h.outages : p.start < end /\ until(p) > start}
           f == [o \in rows |-> <<o.start, until(o)>>]
           S == {f[o] : o \in rows}
           A == OutageIntervals(h, start, end, now)
           C == Clip(S, start, end)
<1>1. {<<o.start, o.end>> : o \in A} = S
  <2> DEFINE g == [o \in rows |-> [start |-> o.start, end |-> until(o), closed |-> o.end # Open]]
  <2>1. A = {g[o] : o \in rows}
    BY DEF OutageIntervals
  <2>2. \A o \in rows : <<g[o].start, g[o].end>> = f[o]
    OBVIOUS
  <2> HIDE DEF g, f, A, rows
  <2>3. QED
    BY <2>1, <2>2
<1>2. rows \in SUBSET h.outages /\ IsFiniteSet(h.outages)
      /\ \A o \in h.outages : o.start \in Int /\ o.end \in Int /\ until(o) \in Int
  BY DEF History
<1> HIDE DEF A
<1>3. IsFiniteSet(rows)
  <2> HIDE DEF rows
  <2>1. QED
    BY <1>2, FS_Subset
<1>4. IsFiniteSet(S) /\ S \in SUBSET Pairs
  <2>1. DOMAIN f = rows /\ f = [o \in rows |-> f[o]]
    OBVIOUS
  <2>2. \A o \in rows : f[o] \in Pairs
    <3> HIDE DEF until
    <3>1. QED
      BY <1>2 DEF Pairs
  <2> HIDE DEF f, rows
  <2>3. QED
    BY <1>3, <2>1, <2>2, ImageFinite
<1>5. ASSUME NEW x \in Int, start <= x, x < end PROVE (\E i \in S : Inside(x, i)) <=> InOutage(h, x)
  <2>1. (\E i \in S : Inside(x, i)) <=> \E o \in rows : o.start <= x /\ x < until(o)
    <3> HIDE DEF until
    <3>1. \A o \in rows : Inside(x, f[o]) <=> o.start <= x /\ x < until(o)
      BY DEF Inside
    <3> HIDE DEF f
    <3>2. QED
      BY <3>1
  <2>2. ASSUME NEW o \in h.outages PROVE x < until(o) <=> (o.end = Open \/ x < o.end)
    BY <1>2, <1>5
  <2> HIDE DEF until
  <2>3. ASSUME NEW o \in h.outages, o.start <= x, x < until(o) PROVE until(o) > start /\ o.start < end
    BY <1>2, <1>5, <2>3
  <2>4. QED
    BY <2>1, <2>2, <2>3 DEF InOutage
<1> HIDE DEF S, rows
<1>6. /\ C \in SUBSET Pairs /\ IsFiniteSet(C)
      /\ \A x \in Int : (\E i \in C : Inside(x, i)) <=> start <= x /\ x < end /\ \E i \in S : Inside(x, i)
  BY <1>4, ClipIs
<1> HIDE DEF C
<1> DEFINE s == Subtract(C, b)
<1>7. Ascending(s) /\ Covered(s) = {x \in Int : (\E i \in C : Inside(x, i)) /\ ~\E j \in b : Inside(x, j)}
  BY <1>6, SubtractIs
<1>8. Covered(s) = {x \in Int : start <= x /\ x < end /\ InOutage(h, x) /\ ~\E i \in b : Inside(x, i)}
  BY <1>5, <1>6, <1>7
<1>9. QED
  BY <1>1, <1>7, <1>8 DEF C, A, Lost

\* The end of a window, and the figures of it: seconds counted one by one.
EndOf(until, now) == Min({until, now})

LEMMA Interval ==
    ASSUME NEW a \in Int, NEW b \in Int
    PROVE  {x \in Int : a <= x /\ x < b} = a..b - 1
  OBVIOUS

LEMMA EndIs ==
    ASSUME NEW until \in Int, NEW now \in Int
    PROVE  /\ EndOf(until, now) \in Int /\ EndOf(until, now) <= now
           /\ EndOf(until, now) = IF until <= now THEN until ELSE now
<1>1. Min({until, now}) = IF until <= now THEN until ELSE now
  BY ExtremesOfTwo
<1>2. EndOf(until, now) = Min({until, now})
  BY DEF EndOf
<1> DEFINE m == Min({until, now})
<1> HIDE DEF m
<1>3. m = (IF until <= now THEN until ELSE now) => m \in Int /\ m <= now
  OBVIOUS
<1>4. QED
  BY <1>1, <1>2, <1>3 DEF m

Figures(h, start, until, now) ==
    LET a == AvailabilityOf(h, start, until, now)
        W == Window(h, start, EndOf(until, now))
    IN  /\ a.start = start /\ a.end = EndOf(until, now) /\ IsFiniteSet(W)
        /\ a.monitored = Cardinality({x \in W : ~InMaintenance(h, x)})
        /\ a.downtime = Cardinality({x \in W : InOutage(h, x) /\ ~InMaintenance(h, x)})
        /\ a.maintenance = Cardinality({x \in W : InMaintenance(h, x)})
        /\ a.run = Cardinality({b \in h.beats : From(h, start) <= b.ts /\ b.ts < EndOf(until, now)})
        /\ ~a.measured => W = {}
        /\ a.measured => a.uptime = IF a.monitored <= 0 THEN <<1, 1>>
                                    ELSE <<Max({0, a.monitored - a.downtime}), a.monitored>>

LEMMA FiguresAre ==
    ASSUME NEW h, History(h), NEW start \in Int, NEW until \in Int, NEW now \in Int
    PROVE  Figures(h, start, until, now)
<1> DEFINE a == AvailabilityOf(h, start, until, now)
           end == EndOf(until, now)
           from == From(h, start)
           W == Window(h, start, end)
           maint == MaintenanceWindows(h, from, end)
           lost == Lost(h, from, end, now, Range(maint))
           ran == {b \in h.beats : from <= b.ts /\ b.ts < end}
           N == {x \in W : ~InMaintenance(h, x)}
           D == {x \in W : InOutage(h, x) /\ ~InMaintenance(h, x)}
           M == {x \in W : InMaintenance(h, x)}
<1>1. end \in Int /\ end <= now /\ from \in Int /\ Known(h) # {}
  BY FromIs, KnownIs, EndIs
<1>2. W = from..end - 1 /\ W = {x \in Int : from <= x /\ x < end}
  <2> HIDE DEF end
  <2>1. W = {x \in Int : from <= x /\ x < end}
    BY DEF Window
  <2> HIDE DEF W, from
  <2>2. QED
    BY <1>1, <2>1
<1>3. IsFiniteSet(W) /\ Cardinality(W) = IF from > end - 1 THEN 0 ELSE end - 1 - from + 1
  <2> HIDE DEF end, from, W
  <2>1. QED
    BY <1>1, <1>2, FS_Interval
<1>4. a = IF from >= end THEN Empty(start, end)
          ELSE [start |-> start, end |-> end, monitored |-> (end - from) - Total(maint), downtime |-> Total(lost),
                maintenance |-> Total(maint), measured |-> TRUE,
                uptime |-> IF (end - from) - Total(maint) <= 0 THEN <<1, 1>>
                           ELSE <<Max({0, (end - from) - Total(maint) - Total(lost)}), (end - from) - Total(maint)>>,
                outages |-> a.outages, longest |-> a.longest, mttr |-> a.mttr, mtbf |-> a.mtbf,
                run |-> Cardinality(ran), ok |-> a.ok]
  BY <1>1 DEF AvailabilityOf, EndOf, From, Known, Lost
<1> HIDE DEF a, end, from, W
<1>5. Ascending(maint) /\ Covered(maint) = M
  <2>1. Covered(maint) = {x \in Int : from <= x /\ x < end /\ InMaintenance(h, x)} /\ Ascending(maint)
    BY <1>1, MaintenanceIs
  <2>2. QED
    BY <1>2, <2>1
<1> HIDE DEF maint
<1>6. Total(maint) = Cardinality(M)
  BY <1>5, TotalIs
<1>7. Range(maint) \in SUBSET Pairs /\ IsFiniteSet(Range(maint))
      /\ \A x \in Int : (\E i \in Range(maint) : Inside(x, i)) <=> x \in Covered(maint)
  <2>1. maint \in Seq(Pairs) /\ DOMAIN maint = 1..Len(maint) /\ Len(maint) \in Nat
    BY <1>5 DEF Ascending
  <2>2. Range(maint) = {maint[k] : k \in 1..Len(maint)}
    BY <2>1 DEF Range
  <2>3. IsFiniteSet(1..Len(maint)) /\ maint = [k \in 1..Len(maint) |-> maint[k]]
    <3>1. IsFiniteSet(1..Len(maint))
      BY <2>1, FS_Interval
    <3>2. maint = [k \in 1..Len(maint) |-> maint[k]]
      BY <2>1
    <3>3. QED
      BY <3>1, <3>2
  <2>4. IsFiniteSet(Range(maint))
    BY <2>1, <2>2, <2>3, ImageFinite
  <2>5. QED
    BY <2>1, <2>2, <2>4 DEF Covered
<1>8. Ascending(lost) /\ Covered(lost) = D
  <2>1. Covered(lost) = {x \in Int : from <= x /\ x < end /\ InOutage(h, x) /\ ~\E i \in Range(maint) : Inside(x, i)}
        /\ Ascending(lost)
    BY <1>1, <1>7, DownIs
  <2>2. \A x \in Int : from <= x /\ x < end => (x \in Covered(maint) <=> InMaintenance(h, x))
    BY <1>2, <1>5
  <2>3. QED
    BY <1>2, <1>7, <2>1, <2>2
<1> HIDE DEF lost
<1>9. Total(lost) = Cardinality(D)
  BY <1>8, TotalIs
<1>10. IsFiniteSet(N) /\ IsFiniteSet(D) /\ IsFiniteSet(M) /\ Cardinality(N) = Cardinality(W) - Cardinality(M)
       /\ Cardinality(M) \in Nat /\ Cardinality(D) \in Nat
  <2>1. M \in SUBSET W /\ D \in SUBSET W /\ N = W \ M /\ W \cap M = M
    OBVIOUS
  <2> HIDE DEF M, D, N
  <2>2. IsFiniteSet(M) /\ IsFiniteSet(D)
    BY <1>3, <2>1, FS_Subset
  <2>3. IsFiniteSet(N) /\ Cardinality(N) = Cardinality(W) - Cardinality(W \cap M)
    BY <1>3, <2>1, FS_Difference
  <2>4. QED
    BY <2>1, <2>2, <2>3, FS_CardinalityType
<1>11. CASE from >= end
  <2>1. W = {}
    BY <1>1, <1>2, <1>11
  <2>2. N = {} /\ D = {} /\ M = {} /\ Cardinality({}) = 0
    BY <2>1, FS_EmptySet
  <2>3. ran = {}
    <3>1. \A b \in h.beats : b.ts \in Int
      BY DEF History
    <3>2. QED
      BY <1>1, <1>11, <3>1
  <2>4. a = Empty(start, end)
    BY <1>4, <1>11
  <2>5. a.start = start /\ a.end = end /\ a.monitored = 0 /\ a.downtime = 0 /\ a.maintenance = 0 /\ a.run = 0
        /\ a.measured = FALSE
    BY <2>4 DEF Empty
  <2>6. QED
    BY <1>3, <2>1, <2>2, <2>3, <2>5 DEF Figures, a, W, end, from
<1>12. CASE ~(from >= end)
  <2> DEFINE m == (end - from) - Total(maint)
             d == Total(lost)
  <2>1. m = Cardinality(N) /\ d = Cardinality(D)
    <3>1. Cardinality(W) = end - from
      BY <1>1, <1>3, <1>12
    <3> HIDE DEF N, D, M
    <3>2. QED
      BY <1>1, <1>6, <1>9, <1>10, <3>1
  <2>2. /\ a.start = start /\ a.end = end /\ a.monitored = m /\ a.downtime = d /\ a.maintenance = Total(maint)
        /\ a.run = Cardinality(ran) /\ a.measured = TRUE
        /\ a.uptime = IF m <= 0 THEN <<1, 1>> ELSE <<Max({0, m - d}), m>>
    BY <1>4, <1>12
  <2> HIDE DEF m, d, N, D, M, ran
  <2>3. /\ a.monitored = Cardinality(N) /\ a.downtime = Cardinality(D) /\ a.maintenance = Cardinality(M)
        /\ a.uptime = IF a.monitored <= 0 THEN <<1, 1>> ELSE <<Max({0, a.monitored - a.downtime}), a.monitored>>
    BY <1>6, <2>1, <2>2
  <2>4. QED
    BY <1>3, <2>2, <2>3 DEF Figures, a, W, end, from, N, D, M, ran
<1>13. QED
  BY <1>11, <1>12

LEMMA SecondsIn ==
    ASSUME NEW h, History(h), NEW start \in Int, NEW until \in Int, NEW now \in Int
    PROVE  LET a == AvailabilityOf(h, start, until, now)
               W == Window(h, start, EndOf(until, now))
           IN  /\ a.monitored \in Nat /\ a.downtime \in Nat /\ a.downtime <= a.monitored /\ a.maintenance \in Nat
               /\ ~a.measured => a.monitored = 0
<1> DEFINE a == AvailabilityOf(h, start, until, now)
           W == Window(h, start, EndOf(until, now))
           N == {x \in W : ~InMaintenance(h, x)}
           D == {x \in W : InOutage(h, x) /\ ~InMaintenance(h, x)}
           M == {x \in W : InMaintenance(h, x)}
<1>1. IsFiniteSet(W) /\ a.monitored = Cardinality(N) /\ a.downtime = Cardinality(D)
      /\ a.maintenance = Cardinality(M) /\ (~a.measured => W = {})
  BY FiguresAre DEF Figures
<1>2. N \in SUBSET W /\ D \in SUBSET N /\ M \in SUBSET W /\ (W = {} => N = {})
  OBVIOUS
<1> HIDE DEF a, W, N, D, M
<1>3. IsFiniteSet(N) /\ IsFiniteSet(M)
  BY <1>1, <1>2, FS_Subset
<1>4. IsFiniteSet(D) /\ Cardinality(D) <= Cardinality(N)
  BY <1>2, <1>3, FS_Subset
<1>5. Cardinality(N) \in Nat /\ Cardinality(D) \in Nat /\ Cardinality(M) \in Nat /\ Cardinality({}) = 0
  BY <1>3, <1>4, FS_CardinalityType, FS_EmptySet
<1>6. QED
  BY <1>1, <1>2, <1>4, <1>5 DEF a

LEMMA BySecond ==
    ASSUME NEW h, History(h), NEW start \in Int, NEW until \in Int
    PROVE  CountedBySecond(h, start, until)
<1> DEFINE now == LastSecond
           a == AvailabilityOf(h, start, until, now)
           W == Window(h, start, EndOf(until, now))
           from == From(h, start)
           S == from..a.end - 1
<1>1. now \in Int
  BY SecondsAssumption
<1>2. /\ a.end = EndOf(until, now)
      /\ a.monitored = Cardinality({x \in W : ~InMaintenance(h, x)})
      /\ a.downtime = Cardinality({x \in W : InOutage(h, x) /\ ~InMaintenance(h, x)})
      /\ a.maintenance = Cardinality({x \in W : InMaintenance(h, x)})
      /\ a.measured => a.uptime = IF a.monitored <= 0 THEN <<1, 1>>
                                  ELSE <<Max({0, a.monitored - a.downtime}), a.monitored>>
  <2>1. Figures(h, start, until, now)
    BY <1>1, FiguresAre
  <2>2. QED
    BY <2>1 DEF Figures
<1>3. a.monitored \in Nat /\ a.downtime \in Nat /\ a.downtime <= a.monitored
  BY <1>1, SecondsIn
<1>4. from \in Int /\ a.end \in Int
  <2> HIDE DEF now, a
  <2>1. from \in Int
    BY FromIs
  <2>2. EndOf(until, now) \in Int
    BY <1>1, EndIs
  <2>3. QED
    BY <1>2, <2>1, <2>2
<1>5. from = Max({start, Min({b.ts : b \in h.beats} \cup {o.start : o \in h.outages})})
  BY DEF From, Known
<1>6. W = S
  <2>1. W = {x \in Int : from <= x /\ x < a.end}
    BY <1>2 DEF Window
  <2> DEFINE end == a.end
  <2> HIDE DEF W, end, from
  <2>2. from \in Int /\ end \in Int
    BY <1>4 DEF end
  <2>3. W = {x \in Int : from <= x /\ x < end}
    BY <2>1 DEF end
  <2>4. {x \in Int : from <= x /\ x < end} = from..end - 1
    BY <2>2, Interval
  <2>5. QED
    BY <2>3, <2>4 DEF end
<1>7. a.measured => 0 <= a.uptime[1] /\ a.uptime[1] <= a.uptime[2]
  <2> DEFINE m == a.monitored
             d == a.downtime
  <2> HIDE DEF m, d
  <2>1. m \in Nat /\ d \in Nat /\ d <= m /\ m - d \in Int
    BY <1>3 DEF m, d
  <2>2. Max({0, m - d}) = m - d
    BY <2>1, ExtremesOfTwo
  <2>3. a.measured => a.uptime = IF m <= 0 THEN <<1, 1>> ELSE <<Max({0, m - d}), m>>
    BY <1>2 DEF m, d
  <2> HIDE DEF a
  <2>4. QED
    BY <2>1, <2>2, <2>3
<1> HIDE DEF a, W, from, now
<1>8. QED
  BY <1>2, <1>5, <1>6, <1>7 DEF CountedBySecond, Seconds, a, now

\* The days of a check's bars.
LEMMA ThreeParts ==
    ASSUME NEW S, IsFiniteSet(S), NEW A, NEW B, NEW C, A \cup B \cup C = S,
           A \cap B = {}, (A \cup B) \cap C = {}
    PROVE  Cardinality(A) + Cardinality(B) + Cardinality(C) = Cardinality(S)
<1>1. A \in SUBSET S /\ B \in SUBSET S /\ C \in SUBSET S
  OBVIOUS
<1>2. IsFiniteSet(A) /\ IsFiniteSet(B) /\ IsFiniteSet(C)
  BY <1>1, FS_Subset
<1> DEFINE D == A \cup B
<1>3. IsFiniteSet(D) /\ Cardinality(D) = Cardinality(A) + Cardinality(B) - Cardinality(A \cap B)
  BY <1>2, FS_Union
<1>4. D \cup C = S /\ D \cap C = {} /\ A \cap B = {}
  OBVIOUS
<1> HIDE DEF D
<1>5. Cardinality(D \cup C) = Cardinality(D) + Cardinality(C) - Cardinality(D \cap C)
  BY <1>2, <1>3, FS_Union
<1>6. Cardinality(A) \in Nat /\ Cardinality(B) \in Nat /\ Cardinality(C) \in Nat
  BY <1>2, FS_CardinalityType
<1>7. Cardinality({}) = 0
  BY FS_EmptySet
<1> DEFINE a == Cardinality(A)
           b == Cardinality(B)
           c == Cardinality(C)
           d == Cardinality(D)
           s == Cardinality(S)
<1>8. d = a + b - 0
  BY <1>3, <1>4, <1>7
<1>9. s = d + c - 0
  BY <1>4, <1>5, <1>7
<1>10. a \in Nat /\ b \in Nat /\ c \in Nat
  BY <1>6
<1> HIDE DEF a, b, c, d, s
<1>11. a + b + c = s
  BY <1>8, <1>9, <1>10
<1>12. QED
  BY <1>11 DEF a, b, c, s

LEMMA DaysAre ==
    ASSUME NEW h, History(h), NEW now \in Int, NEW s1 \in Int, NEW s2 \in Int, NEW s3 \in Int,
           s2 = s1 + 2, s3 = s2 + 2, s3 <= now, now < s3 + 2
    PROVE  LET W(s, u) == Window(h, s, EndOf(u, now))
               in(x, s, u) == From(h, s) <= x /\ x < EndOf(u, now)
           IN  \A x \in Int : /\ in(x, s1, now) <=> in(x, s1, s2) \/ in(x, s2, s3) \/ in(x, s3, s3 + 2)
                              /\ ~(in(x, s1, s2) /\ in(x, s2, s3))
                              /\ ~((in(x, s1, s2) \/ in(x, s2, s3)) /\ in(x, s3, s3 + 2))
<1> DEFINE e1 == EndOf(s2, now)
           e2 == EndOf(s3, now)
           e3 == EndOf(s3 + 2, now)
           e == EndOf(now, now)
           f1 == From(h, s1)
           f2 == From(h, s2)
           f3 == From(h, s3)
           m == Min(Known(h))
<1>1. e1 = s2 /\ e2 = s3 /\ e3 = now /\ e = now
  <2>1. /\ e1 = (IF s2 <= now THEN s2 ELSE now) /\ e2 = (IF s3 <= now THEN s3 ELSE now)
        /\ e = (IF now <= now THEN now ELSE now)
    BY EndIs
  <2>2. s3 + 2 \in Int
    OBVIOUS
  <2>3. e3 = IF s3 + 2 <= now THEN s3 + 2 ELSE now
    BY <2>2, EndIs
  <2> HIDE DEF e1, e2, e3, e
  <2>4. QED
    BY <2>1, <2>3
<1>2. /\ m \in Int /\ f1 = (IF s1 >= m THEN s1 ELSE m) /\ f2 = (IF s2 >= m THEN s2 ELSE m)
      /\ f3 = (IF s3 >= m THEN s3 ELSE m)
  BY FromIs
<1> HIDE DEF e1, e2, e3, e, f1, f2, f3, m
<1>3. ASSUME NEW x \in Int
      PROVE  /\ f1 <= x /\ x < e <=> (f1 <= x /\ x < e1) \/ (f2 <= x /\ x < e2) \/ (f3 <= x /\ x < e3)
             /\ ~((f1 <= x /\ x < e1) /\ (f2 <= x /\ x < e2))
             /\ ~(((f1 <= x /\ x < e1) \/ (f2 <= x /\ x < e2)) /\ (f3 <= x /\ x < e3))
  BY <1>1, <1>2
<1>4. QED
  BY <1>3 DEF e1, e2, e3, e, f1, f2, f3

LEMMA DaysSum ==
    ASSUME NEW h, History(h)
    PROVE  DaysAddUp(h)
<1> DEFINE now == LastSecond
           today == now - (now % 2)
           days == DailyBars(h, 3, 2, now)
           s1 == today - 4
           s2 == today - 2
           s3 == today
           a1 == AvailabilityOf(h, s1, s2, now)
           a2 == AvailabilityOf(h, s2, s3, now)
           a3 == AvailabilityOf(h, s3, s3 + 2, now)
           all == AvailabilityOf(h, s1, now, now)
<1>1. now \in Int /\ today \in Int /\ today <= now /\ now < today + 2
  <2> HIDE DEF now
  <2>1. now \in Int
    BY SecondsAssumption DEF now
  <2>2. QED
    BY <2>1
<1>2. days[1] = a1 /\ days[2] = a2 /\ days[3] = a3
  <2> DEFINE start(k) == today - (3 - k) * 2
  <2>1. days = [k \in 1..3 |-> AvailabilityOf(h, start(k), start(k) + 2, now)]
    BY DEF DailyBars
  <2> HIDE DEF today, now
  <2>2. /\ start(1) = s1 /\ start(1) + 2 = s2 /\ start(2) = s2 /\ start(2) + 2 = s3 /\ start(3) = s3
        /\ start(3) + 2 = s3 + 2
    BY <1>1
  <2> HIDE DEF start, s1, s2, s3
  <2>3. /\ days[1] = AvailabilityOf(h, start(1), start(1) + 2, now)
        /\ days[2] = AvailabilityOf(h, start(2), start(2) + 2, now)
        /\ days[3] = AvailabilityOf(h, start(3), start(3) + 2, now)
    BY <2>1
  <2>4. QED
    BY <2>2, <2>3
<1> HIDE DEF today, now
<1>3. s1 \in Int /\ s2 \in Int /\ s3 \in Int /\ s3 + 2 \in Int /\ s2 = s1 + 2 /\ s3 = s2 + 2 /\ s3 <= now /\ now < s3 + 2
  BY <1>1
<1> HIDE DEF s1, s2, s3
<1> DEFINE e1 == EndOf(s2, now)
           e2 == EndOf(s3, now)
           e3 == EndOf(s3 + 2, now)
           e == EndOf(now, now)
           in1(x) == From(h, s1) <= x /\ x < e1
           in2(x) == From(h, s2) <= x /\ x < e2
           in3(x) == From(h, s3) <= x /\ x < e3
           in(x) == From(h, s1) <= x /\ x < e
<1>4. \A x \in Int : /\ in(x) <=> in1(x) \/ in2(x) \/ in3(x)
                     /\ ~(in1(x) /\ in2(x))
                     /\ ~((in1(x) \/ in2(x)) /\ in3(x))
  BY <1>1, <1>3, DaysAre
<1> DEFINE W1 == Window(h, s1, e1)
           W2 == Window(h, s2, e2)
           W3 == Window(h, s3, e3)
           W == Window(h, s1, e)
<1>5. /\ W1 = {x \in Int : in1(x)} /\ W2 = {x \in Int : in2(x)}
      /\ W3 = {x \in Int : in3(x)} /\ W = {x \in Int : in(x)}
  BY DEF Window
<1>6. /\ IsFiniteSet(W) /\ all.monitored = Cardinality({x \in W : ~InMaintenance(h, x)})
      /\ all.downtime = Cardinality({x \in W : InOutage(h, x) /\ ~InMaintenance(h, x)})
      /\ all.run = Cardinality({b \in h.beats : in(b.ts)})
  <2>1. Figures(h, s1, now, now)
    BY <1>1, <1>3, FiguresAre
  <2>2. QED
    BY <2>1 DEF Figures
<1>7. /\ a1.start = s1 /\ a1.monitored = Cardinality({x \in W1 : ~InMaintenance(h, x)})
      /\ a1.downtime = Cardinality({x \in W1 : InOutage(h, x) /\ ~InMaintenance(h, x)})
      /\ a1.run = Cardinality({b \in h.beats : in1(b.ts)})
  <2>1. Figures(h, s1, s2, now)
    BY <1>1, <1>3, FiguresAre
  <2>2. QED
    BY <2>1 DEF Figures
<1>8. /\ a2.monitored = Cardinality({x \in W2 : ~InMaintenance(h, x)})
      /\ a2.downtime = Cardinality({x \in W2 : InOutage(h, x) /\ ~InMaintenance(h, x)})
      /\ a2.run = Cardinality({b \in h.beats : in2(b.ts)})
  <2>1. Figures(h, s2, s3, now)
    BY <1>1, <1>3, FiguresAre
  <2>2. QED
    BY <2>1 DEF Figures
<1>9. /\ a3.monitored = Cardinality({x \in W3 : ~InMaintenance(h, x)})
      /\ a3.downtime = Cardinality({x \in W3 : InOutage(h, x) /\ ~InMaintenance(h, x)})
      /\ a3.run = Cardinality({b \in h.beats : in3(b.ts)})
  <2>1. Figures(h, s3, s3 + 2, now)
    BY <1>1, <1>3, FiguresAre
  <2>2. QED
    BY <2>1 DEF Figures
<1> HIDE DEF a1, a2, a3, all, W, W1, W2, W3, in, in1, in2, in3
<1>10. W1 \cup W2 \cup W3 = W /\ W1 \cap W2 = {} /\ (W1 \cup W2) \cap W3 = {}
  BY <1>4, <1>5
<1>11. a1.monitored + a2.monitored + a3.monitored = all.monitored
  <2> DEFINE P(V) == {x \in V : ~InMaintenance(h, x)}
  <2>1. P(W1) \cup P(W2) \cup P(W3) = P(W) /\ P(W1) \cap P(W2) = {} /\ (P(W1) \cup P(W2)) \cap P(W3) = {}
        /\ P(W) \in SUBSET W
    BY <1>10
  <2>2. IsFiniteSet(P(W))
    <3> DEFINE U == P(W)
    <3>1. U \in SUBSET W
      OBVIOUS
    <3> HIDE DEF U
    <3>2. IsFiniteSet(U)
      BY <1>6, <3>1, FS_Subset
    <3>3. QED
      BY <3>2 DEF U
  <2>3. /\ all.monitored = Cardinality(P(W)) /\ a1.monitored = Cardinality(P(W1))
        /\ a2.monitored = Cardinality(P(W2)) /\ a3.monitored = Cardinality(P(W3))
    BY <1>6, <1>7, <1>8, <1>9
  <2> HIDE DEF P
  <2>4. QED
    BY <2>1, <2>2, <2>3, ThreeParts
<1>12. a1.downtime + a2.downtime + a3.downtime = all.downtime
  <2> DEFINE P(V) == {x \in V : InOutage(h, x) /\ ~InMaintenance(h, x)}
  <2>1. P(W1) \cup P(W2) \cup P(W3) = P(W) /\ P(W1) \cap P(W2) = {} /\ (P(W1) \cup P(W2)) \cap P(W3) = {}
        /\ P(W) \in SUBSET W
    BY <1>10
  <2>2. IsFiniteSet(P(W))
    <3> DEFINE U == P(W)
    <3>1. U \in SUBSET W
      OBVIOUS
    <3> HIDE DEF U
    <3>2. IsFiniteSet(U)
      BY <1>6, <3>1, FS_Subset
    <3>3. QED
      BY <3>2 DEF U
  <2>3. /\ all.downtime = Cardinality(P(W)) /\ a1.downtime = Cardinality(P(W1))
        /\ a2.downtime = Cardinality(P(W2)) /\ a3.downtime = Cardinality(P(W3))
    BY <1>6, <1>7, <1>8, <1>9
  <2> HIDE DEF P
  <2>4. QED
    BY <2>1, <2>2, <2>3, ThreeParts
<1>13. a1.run + a2.run + a3.run = all.run
  <2> DEFINE B == {b \in h.beats : in(b.ts)}
             B1 == {b \in h.beats : in1(b.ts)}
             B2 == {b \in h.beats : in2(b.ts)}
             B3 == {b \in h.beats : in3(b.ts)}
  <2>1. IsFiniteSet(h.beats) /\ \A b \in h.beats : b.ts \in Int
    BY DEF History
  <2>2. B1 \cup B2 \cup B3 = B /\ B1 \cap B2 = {} /\ (B1 \cup B2) \cap B3 = {} /\ B \in SUBSET h.beats
    BY <1>4, <2>1
  <2>3. /\ all.run = Cardinality(B) /\ a1.run = Cardinality(B1)
        /\ a2.run = Cardinality(B2) /\ a3.run = Cardinality(B3)
    BY <1>6, <1>7, <1>8, <1>9
  <2> HIDE DEF B, B1, B2, B3
  <2>4. IsFiniteSet(B)
    BY <2>1, <2>2, FS_Subset
  <2>5. QED
    BY <2>2, <2>3, <2>4, ThreeParts
<1>14. QED
  BY <1>2, <1>7, <1>11, <1>12, <1>13 DEF DaysAddUp, all, now

\* Sums over the rows of a report, of which there are two.
PickOf(s) == CHOOSE x \in s : TRUE

Adds(f, S, g) == f = [s \in SUBSET S |-> IF s = {} THEN 0 ELSE g[PickOf(s)] + f[s \ {PickOf(s)}]]

Share(S, g, x) == IF x \in S THEN g[x] ELSE 0

LEMMA ShareIs == ASSUME NEW S, NEW g, NEW x, g[x] \in Int PROVE Share(S, g, x) \in Int
  BY DEF Share

LEMMA Picked == ASSUME NEW s, s # {} PROVE PickOf(s) \in s
  BY DEF PickOf

LEMMA AddsStep ==
    ASSUME NEW x, NEW y, x # y, NEW g, g[x] \in Int, g[y] \in Int, NEW s \in SUBSET {x, y}, s # {}
    PROVE  LET p == PickOf(s) IN Share(s, g, x) + Share(s, g, y) = g[p] + (Share(s \ {p}, g, x) + Share(s \ {p}, g, y))
<1> DEFINE p == PickOf(s)
           a == g[x]
           b == g[y]
<1>1. p \in s
  BY Picked
<1> HIDE DEF p
<1>2. CASE p = x
  <2>1. /\ Share(s, g, x) = a /\ Share(s \ {p}, g, x) = 0 /\ Share(s \ {p}, g, y) = Share(s, g, y)
    BY <1>1, <1>2 DEF Share
  <2>2. a \in Int /\ g[p] = a /\ Share(s, g, y) \in Int
    BY <1>2, ShareIs
  <2> DEFINE c == Share(s, g, y)
  <2> HIDE DEF a, c
  <2>3. a + c = a + (0 + c)
    BY <2>2 DEF c
  <2>4. QED
    BY <2>1, <2>2, <2>3 DEF c, p
<1>3. CASE p = y
  <2>1. /\ Share(s, g, y) = b /\ Share(s \ {p}, g, y) = 0 /\ Share(s \ {p}, g, x) = Share(s, g, x)
    BY <1>1, <1>3 DEF Share
  <2>2. b \in Int /\ g[p] = b /\ Share(s, g, x) \in Int
    BY <1>3, ShareIs
  <2> DEFINE c == Share(s, g, x)
  <2> HIDE DEF b, c
  <2>3. c + b = b + (c + 0)
    BY <2>2 DEF c
  <2>4. QED
    BY <2>1, <2>2, <2>3 DEF c, p
<1>4. QED
  BY <1>1, <1>2, <1>3

LEMMA AddsExists ==
    ASSUME NEW x, NEW y, x # y, NEW g, g[x] \in Int, g[y] \in Int, NEW S \in SUBSET {x, y}
    PROVE  \E f : Adds(f, S, g)
<1> DEFINE f == [s \in SUBSET S |-> Share(s, g, x) + Share(s, g, y)]
<1>1. ASSUME NEW s \in SUBSET S
      PROVE  f[s] = IF s = {} THEN 0 ELSE g[PickOf(s)] + f[s \ {PickOf(s)}]
  <2>1. CASE s = {}
    <3>1. Share(s, g, x) = 0 /\ Share(s, g, y) = 0
      BY <2>1 DEF Share
    <3>2. f[s] = 0
      BY <3>1
    <3>3. QED
      BY <2>1, <3>2
  <2>2. CASE s # {}
    <3> DEFINE r == s \ {PickOf(s)}
    <3>1. r \in SUBSET S /\ s \in SUBSET {x, y}
      OBVIOUS
    <3> HIDE DEF r
    <3>2. f[s] = Share(s, g, x) + Share(s, g, y) /\ f[r] = Share(r, g, x) + Share(r, g, y)
      BY <3>1
    <3>3. Share(s, g, x) + Share(s, g, y) = g[PickOf(s)] + (Share(r, g, x) + Share(r, g, y))
      BY <2>2, <3>1, AddsStep DEF r
    <3> HIDE DEF f
    <3>4. QED
      BY <2>2, <3>2, <3>3 DEF r
  <2>3. QED
    BY <2>1, <2>2
<1>2. f = [s \in SUBSET S |-> f[s]]
  OBVIOUS
<1> HIDE DEF f
<1>3. Adds(f, S, g)
  BY <1>1, <1>2 DEF Adds
<1>4. QED
  BY <1>3

LEMMA AddsIs ==
    ASSUME NEW x, NEW y, x # y, NEW g, g[x] \in Int, g[y] \in Int, NEW S \in SUBSET {x, y}, NEW f, Adds(f, S, g)
    PROVE  f[S] = Share(S, g, x) + Share(S, g, y)
<1>1. \A s \in SUBSET S : f[s] = IF s = {} THEN 0 ELSE g[PickOf(s)] + f[s \ {PickOf(s)}]
  BY DEF Adds
<1>2. f[{}] = 0
  BY <1>1
<1>3. ASSUME NEW z \in {x, y}, {z} \in SUBSET S PROVE f[{z}] = g[z]
  <2>1. PickOf({z}) = z
    BY Picked
  <2>2. {z} \ {PickOf({z})} = {} /\ {z} # {}
    BY <2>1
  <2>3. f[{z}] = g[z] + f[{}]
    BY <1>1, <1>3, <2>1, <2>2
  <2>4. QED
    BY <1>2, <2>3
<1>4. CASE S = {}
  BY <1>2, <1>4 DEF Share
<1>5. CASE S = {x}
  <2>1. f[S] = g[x]
    BY <1>3, <1>5
  <2>2. Share(S, g, x) = g[x] /\ Share(S, g, y) = 0
    BY <1>5 DEF Share
  <2> DEFINE a == g[x]
  <2> HIDE DEF a
  <2>3. a + 0 = a
    BY DEF a
  <2>4. QED
    BY <2>1, <2>2, <2>3 DEF a
<1>6. CASE S = {y}
  <2>1. f[S] = g[y]
    BY <1>3, <1>6
  <2>2. Share(S, g, y) = g[y] /\ Share(S, g, x) = 0
    BY <1>6 DEF Share
  <2> DEFINE b == g[y]
  <2> HIDE DEF b
  <2>3. 0 + b = b
    BY DEF b
  <2>4. QED
    BY <2>1, <2>2, <2>3 DEF b
<1>7. CASE S = {x, y}
  <2> DEFINE p == PickOf(S)
             q == IF p = x THEN y ELSE x
             a == g[x]
             b == g[y]
  <2>1. p \in {x, y} /\ S # {} /\ S \in SUBSET S
    BY <1>7, Picked
  <2> HIDE DEF p
  <2>2. S \ {p} = {q} /\ q \in {x, y} /\ {q} \in SUBSET S
    BY <1>7, <2>1
  <2>3. f[S] = g[p] + f[{q}]
    BY <1>1, <2>1, <2>2 DEF p
  <2>4. f[{q}] = g[q]
    BY <1>3, <2>2
  <2>5. Share(S, g, x) = a /\ Share(S, g, y) = b
    BY <1>7 DEF Share
  <2>6. g[p] + g[q] = a + b
    <3>1. a \in Int /\ b \in Int
      OBVIOUS
    <3>2. (g[p] = a /\ g[q] = b) \/ (g[p] = b /\ g[q] = a)
      BY <2>1
    <3> HIDE DEF a, b
    <3>3. QED
      BY <3>1, <3>2
  <2>7. QED
    BY <2>3, <2>4, <2>5, <2>6
<1>8. QED
  BY <1>4, <1>5, <1>6, <1>7

\* The rows of check 1 and of another check that is never down.
Other(h) == [h EXCEPT !.check = 2, !.device = 2, !.outages = {}]

Numbered(h) ==
    /\ History(h)
    /\ h = [check |-> 1, device |-> 1, beats |-> h.beats, outages |-> h.outages, maintenance |-> h.maintenance]

LEMMA OtherIs == ASSUME NEW h, Numbered(h) PROVE History(Other(h)) /\ Other(h) # h
<1> DEFINE o == [check |-> 2, device |-> 2, beats |-> h.beats, outages |-> {}, maintenance |-> h.maintenance]
<1>1. Other(h) = o
  <2> DEFINE b == h.beats
             p == h.outages
             m == h.maintenance
             e == [check |-> 1, device |-> 1, beats |-> b, outages |-> p, maintenance |-> m]
  <2>1. h = e
    BY DEF Numbered
  <2>2. o = [check |-> 2, device |-> 2, beats |-> b, outages |-> {}, maintenance |-> m]
    OBVIOUS
  <2> HIDE DEF b, p, m, o
  <2>3. [e EXCEPT !.check = 2, !.device = 2, !.outages = {}] = o
    <3> DEFINE e1 == [check |-> 2, device |-> 1, beats |-> b, outages |-> p, maintenance |-> m]
               e2 == [check |-> 2, device |-> 2, beats |-> b, outages |-> p, maintenance |-> m]
               e3 == [check |-> 2, device |-> 2, beats |-> b, outages |-> {}, maintenance |-> m]
    <3>1. [e EXCEPT !.check = 2] = e1
      OBVIOUS
    <3>2. [e1 EXCEPT !.device = 2] = e2
      OBVIOUS
    <3>3. [e2 EXCEPT !.outages = {}] = e3
      OBVIOUS
    <3>4. e3 = o
      BY <2>2
    <3> HIDE DEF e, e1, e2, e3
    <3>5. QED
      BY <3>1, <3>2, <3>3, <3>4
  <2> HIDE DEF e
  <2>4. QED
    BY <2>1, <2>3 DEF Other
<1>2. o.check = 2 /\ h.check = 1 /\ o.beats = h.beats /\ o.outages = {} /\ o.maintenance = h.maintenance
  BY DEF Numbered
<1>3. IsFiniteSet({})
  BY FS_EmptySet
<1> HIDE DEF o
<1>4. History(o)
  BY <1>2, <1>3 DEF History, Numbered
<1>5. QED
  BY <1>1, <1>2, <1>4

UpOf(r) == IF r.a.monitored = 0 THEN 0 ELSE r.a.uptime[1]
Weights(S) == [r \in S |-> r.a.monitored]
Downs(S) == [r \in S |-> r.a.downtime]
Ups(S) == [r \in S |-> UpOf(r)]

LEMMA SumOfTwo ==
    ASSUME NEW x, NEW y, x # y, NEW S \in SUBSET {x, y},
           UpOf(x) \in Int, UpOf(y) \in Int,
           x.a.monitored \in Int, x.a.downtime \in Int, y.a.monitored \in Int, y.a.downtime \in Int
    PROVE  /\ MapThenSumSet(LAMBDA r : r.a.monitored, S) = Share(S, Weights({x, y}), x) + Share(S, Weights({x, y}), y)
           /\ MapThenSumSet(LAMBDA r : r.a.downtime, S) = Share(S, Downs({x, y}), x) + Share(S, Downs({x, y}), y)
           /\ MapThenSumSet(UpOf, S) = Share(S, Ups({x, y}), x) + Share(S, Ups({x, y}), y)
<1> DEFINE W(f) == f = [s \in SUBSET S |-> IF s = {} THEN 0 ELSE (CHOOSE r \in s : TRUE).a.monitored
                                                                   + f[s \ {CHOOSE r \in s : TRUE}]]
           D(f) == f = [s \in SUBSET S |-> IF s = {} THEN 0 ELSE (CHOOSE r \in s : TRUE).a.downtime
                                                                   + f[s \ {CHOOSE r \in s : TRUE}]]
           U(f) == f = [s \in SUBSET S |-> IF s = {} THEN 0 ELSE UpOf(CHOOSE r \in s : TRUE)
                                                                   + f[s \ {CHOOSE r \in s : TRUE}]]
           w == Weights({x, y})
           d == Downs({x, y})
           u == Ups({x, y})
<1>1. MapThenSumSet(LAMBDA r : r.a.monitored, S) = (CHOOSE f : W(f))[S]
  BY DEF MapThenSumSet, MapThenFoldSet
<1>2. MapThenSumSet(LAMBDA r : r.a.downtime, S) = (CHOOSE f : D(f))[S]
  BY DEF MapThenSumSet, MapThenFoldSet
<1>3. MapThenSumSet(UpOf, S) = (CHOOSE f : U(f))[S]
  BY DEF MapThenSumSet, MapThenFoldSet
<1>4. /\ w[x] \in Int /\ w[y] \in Int /\ d[x] \in Int /\ d[y] \in Int /\ u[x] \in Int /\ u[y] \in Int
      /\ \A s \in SUBSET S : s # {} => /\ w[PickOf(s)] = PickOf(s).a.monitored
                                       /\ d[PickOf(s)] = PickOf(s).a.downtime
                                       /\ u[PickOf(s)] = UpOf(PickOf(s))
  <2>1. \A s \in SUBSET S : s # {} => PickOf(s) \in {x, y}
    BY Picked
  <2>2. QED
    BY <2>1 DEF Weights, Downs, Ups
<1>5. \A f : (W(f) <=> Adds(f, S, w)) /\ (D(f) <=> Adds(f, S, d)) /\ (U(f) <=> Adds(f, S, u))
  <2> HIDE DEF w, d, u
  <2> TAKE f
  <2>1. W(f) <=> Adds(f, S, w)
    BY <1>4 DEF Adds, PickOf
  <2>2. D(f) <=> Adds(f, S, d)
    BY <1>4 DEF Adds, PickOf
  <2>3. U(f) <=> Adds(f, S, u)
    <3>1. \A s \in SUBSET S : s # {} => u[PickOf(s)] = UpOf(PickOf(s))
      BY <1>4
    <3>2. QED
      BY <3>1 DEF Adds, PickOf
  <2>4. QED
    BY <2>1, <2>2, <2>3
<1> HIDE DEF w, d, u, W, D, U
<1>6. (\E f : W(f)) /\ (\E f : D(f)) /\ (\E f : U(f))
  <2>1. (\E f : Adds(f, S, w)) /\ (\E f : Adds(f, S, d)) /\ (\E f : Adds(f, S, u))
    BY <1>4, AddsExists
  <2>2. QED
    BY <1>5, <2>1
<1>7. W(CHOOSE f : W(f)) /\ D(CHOOSE f : D(f)) /\ U(CHOOSE f : U(f))
  BY <1>6
<1>8. /\ Adds(CHOOSE f : W(f), S, w) /\ Adds(CHOOSE f : D(f), S, d) /\ Adds(CHOOSE f : U(f), S, u)
  BY <1>5, <1>7
<1> DEFINE fw == CHOOSE f : W(f)
           fd == CHOOSE f : D(f)
           fu == CHOOSE f : U(f)
<1>9. Adds(fw, S, w) /\ Adds(fd, S, d) /\ Adds(fu, S, u)
  BY <1>8
<1> HIDE DEF fw, fd, fu
<1>10. fw[S] = Share(S, w, x) + Share(S, w, y)
  BY <1>4, <1>9, AddsIs
<1>11. fd[S] = Share(S, d, x) + Share(S, d, y)
  BY <1>4, <1>9, AddsIs
<1>12. fu[S] = Share(S, u, x) + Share(S, u, y)
  BY <1>4, <1>9, AddsIs
<1>13. QED
  BY <1>1, <1>2, <1>3, <1>10, <1>11, <1>12 DEF w, d, u, fw, fd, fu

RowOf(h, start, end, now) == [h |-> h, a |-> AvailabilityOf(h, start, end, now)]

Weighs(r) ==
    /\ r.a.monitored \in Nat /\ r.a.downtime \in Nat
    /\ ~r.a.measured => r.a.monitored = 0 /\ r.a.downtime = 0
    /\ r.a.measured => UpOf(r) = r.a.monitored - r.a.downtime

LEMMA RowIs ==
    ASSUME NEW h, History(h), NEW start \in Int, NEW end \in Int, NEW now \in Int
    PROVE  Weighs(RowOf(h, start, end, now))
<1> DEFINE a == AvailabilityOf(h, start, end, now)
           r == RowOf(h, start, end, now)
           m == a.monitored
           d == a.downtime
<1>1. r.a = a
  BY DEF RowOf
<1>2. m \in Nat /\ d \in Nat /\ d <= m /\ (~a.measured => m = 0)
  BY SecondsIn
<1>3. a.measured => a.uptime = IF m <= 0 THEN <<1, 1>> ELSE <<Max({0, m - d}), m>>
  <2>1. Figures(h, start, end, now)
    BY FiguresAre
  <2>2. QED
    BY <2>1 DEF Figures
<1> HIDE DEF r, a
<1>4. UpOf(r) = IF m = 0 THEN 0 ELSE a.uptime[1]
  BY <1>1 DEF UpOf
<1> HIDE DEF m, d
<1>5. m - d \in Int /\ Max({0, m - d}) = m - d
  <2>1. m - d \in Int /\ m - d >= 0
    BY <1>2
  <2> DEFINE e == m - d
  <2> HIDE DEF e
  <2>2. e \in Int /\ e >= 0
    BY <2>1 DEF e
  <2>3. Max({0, e}) = e
    BY <2>2, ExtremesOfTwo
  <2>4. QED
    BY <2>1, <2>3 DEF e
<1>6. a.measured => UpOf(r) = m - d
  BY <1>2, <1>3, <1>4, <1>5
<1>7. ~a.measured => m = 0 /\ d = 0
  BY <1>2
<1>8. QED
  BY <1>1, <1>2, <1>6, <1>7 DEF m, d, r, Weighs

LEMMA RowsAre ==
    ASSUME NEW h, NEW g, NEW start, NEW end, NEW now
    PROVE  UptimeRows({h, g}, {}, AnyDevice, start, end, now) = {RowOf(h, start, end, now), RowOf(g, start, end, now)}
  BY DEF UptimeRows, RowOf

LEMMA AveragesAre ==
    ASSUME NEW h, Numbered(h)
    PROVE  AverageIsShare(h)
<1> DEFINE now == LastSecond
           g == Other(h)
           x == RowOf(h, 1, now, now)
           y == RowOf(g, 1, now, now)
           rows == UptimeRows({h, g}, {}, AnyDevice, 1, now, now)
           S == {r \in rows : r.a.measured}
           average == SlaSummary(rows).average
           weight == MapThenSumSet(LAMBDA r : r.a.monitored, rows)
           down == MapThenSumSet(LAMBDA r : r.a.downtime, rows)
           weighed == MapThenSumSet(LAMBDA r : r.a.monitored, S)
           up == MapThenSumSet(UpOf, S)
           mx == x.a.monitored
           my == y.a.monitored
           dx == x.a.downtime
           dy == y.a.downtime
<1>1. now \in Int
  BY SecondsAssumption
<1>2. History(h) /\ History(g) /\ g # h
  BY OtherIs DEF Numbered
<1>3. x # y /\ rows = {x, y}
  <2>1. rows = {x, y}
    BY RowsAre
  <2>2. x.h = h /\ y.h = g
    BY DEF RowOf
  <2>3. QED
    BY <1>2, <2>1, <2>2
<1>4. average # None => average = <<up, IF weighed = 0 THEN 1 ELSE weighed>>
  <2> HIDE DEF rows
  <2>1. QED
    BY DEF SlaSummary, UpOf
<1> HIDE DEF now, g
<1>5. /\ mx \in Nat /\ dx \in Nat
      /\ ~x.a.measured => mx = 0 /\ dx = 0
      /\ x.a.measured => UpOf(x) = mx - dx
  <2>1. Weighs(x)
    BY <1>1, <1>2, RowIs
  <2>2. QED
    BY <2>1 DEF Weighs
<1>6. /\ my \in Nat /\ dy \in Nat
      /\ ~y.a.measured => my = 0 /\ dy = 0
      /\ y.a.measured => UpOf(y) = my - dy
  <2>1. Weighs(y)
    BY <1>1, <1>2, RowIs
  <2>2. QED
    BY <2>1 DEF Weighs
<1>7. UpOf(x) = mx - dx /\ UpOf(y) = my - dy
  <2>1. mx = 0 => UpOf(x) = 0
    BY DEF UpOf
  <2>2. my = 0 => UpOf(y) = 0
    BY DEF UpOf
  <2> HIDE DEF mx, my, dx, dy
  <2>3. QED
    BY <1>5, <1>6, <2>1, <2>2
<1> DEFINE wx == Share(S, Weights({x, y}), x)
           wy == Share(S, Weights({x, y}), y)
           ux == Share(S, Ups({x, y}), x)
           uy == Share(S, Ups({x, y}), y)
<1>8. S \in SUBSET {x, y} /\ rows \in SUBSET {x, y} /\ (x \in S <=> x.a.measured) /\ (y \in S <=> y.a.measured)
      /\ x \in rows /\ y \in rows
  <2> HIDE DEF rows, x, y
  <2>1. QED
    BY <1>3
<1> HIDE DEF S, rows
<1>9. /\ Weights({x, y})[x] = mx /\ Weights({x, y})[y] = my /\ Downs({x, y})[x] = dx /\ Downs({x, y})[y] = dy
      /\ Ups({x, y})[x] = UpOf(x) /\ Ups({x, y})[y] = UpOf(y)
  BY DEF Weights, Downs, Ups
<1>10. /\ UpOf(x) \in Int /\ UpOf(y) \in Int /\ x.a.monitored \in Int /\ x.a.downtime \in Int
       /\ y.a.monitored \in Int /\ y.a.downtime \in Int
  <2>1. mx \in Int /\ dx \in Int /\ my \in Int /\ dy \in Int
    BY <1>5, <1>6
  <2>2. mx - dx \in Int /\ my - dy \in Int
    <3> HIDE DEF mx, my, dx, dy
    <3>1. QED
      BY <2>1
  <2>3. QED
    BY <1>7, <2>1, <2>2
<1>11. /\ weight = Share(rows, Weights({x, y}), x) + Share(rows, Weights({x, y}), y)
       /\ down = Share(rows, Downs({x, y}), x) + Share(rows, Downs({x, y}), y)
  BY <1>3, <1>8, <1>10, SumOfTwo
<1>12. weighed = wx + wy /\ up = ux + uy
  BY <1>3, <1>8, <1>10, SumOfTwo
<1>13. weight = mx + my /\ down = dx + dy
  BY <1>8, <1>9, <1>11 DEF Share
<1>14. /\ wx = (IF x.a.measured THEN mx ELSE 0) /\ wy = (IF y.a.measured THEN my ELSE 0)
       /\ ux = (IF x.a.measured THEN mx - dx ELSE 0) /\ uy = (IF y.a.measured THEN my - dy ELSE 0)
  BY <1>7, <1>8, <1>9 DEF Share
<1> HIDE DEF mx, my, dx, dy, wx, wy, ux, uy, weight, down, weighed, up
<1>15. wx = mx /\ wy = my /\ ux = mx - dx /\ uy = my - dy
  BY <1>5, <1>6, <1>14
<1>16. weighed = weight /\ up = weight - down /\ weight \in Nat
  BY <1>5, <1>6, <1>12, <1>13, <1>15
<1>17. (IF weighed = 0 THEN 1 ELSE weighed) = Max({1, weight})
  BY <1>16, ExtremesOfTwo
<1>18. average # None => average[1] = weight - down /\ average[2] = Max({1, weight})
  <2> HIDE DEF average
  <2>1. QED
    BY <1>4, <1>16, <1>17
<1>19. QED
  BY <1>18 DEF AverageIsShare, average, weight, down, rows, now, g, Other

HistoryInv == topic = "history" => Numbered(input)

LEMMA HistoryInitially == Init => HistoryInv
<1> SUFFICES ASSUME Init, topic = "history" PROVE Numbered(input)
  BY DEF HistoryInv
<1>1. BeginHistory
  BY Begins DEF Init
<1>2. PICK first \in {0, 2} : input = [check |-> 1, device |-> 1, beats |-> {[ts |-> first, ok |-> TRUE]},
                                       outages |-> {}, maintenance |-> {}]
  BY <1>1 DEF BeginHistory, Begin
<1> DEFINE b == {[ts |-> first, ok |-> TRUE]}
<1>3. IsFiniteSet(b) /\ IsFiniteSet({}) /\ b # {} /\ \A x \in b : x.ts \in Int
  <2> DEFINE r == [ts |-> first, ok |-> TRUE]
  <2>1. r.ts \in Int
    OBVIOUS
  <2> HIDE DEF r
  <2>2. IsFiniteSet({r}) /\ IsFiniteSet({})
    BY FS_Singleton, FS_EmptySet
  <2>3. \A x \in {r} : x.ts \in Int
    BY <2>1
  <2>4. b = {r}
    BY DEF r
  <2> HIDE DEF b
  <2>5. QED
    BY <2>2, <2>3, <2>4
<1> HIDE DEF b
<1>4. input = [check |-> 1, device |-> 1, beats |-> b, outages |-> {}, maintenance |-> {}]
  BY <1>2 DEF b
<1>5. input.beats = b /\ input.outages = {} /\ input.maintenance = {}
  BY <1>4
<1>6. History(input)
  BY <1>3, <1>5 DEF History
<1>7. QED
  BY <1>4, <1>5, <1>6 DEF Numbered

LEMMA HistoryGrows ==
    ASSUME NEW h, Numbered(h), NEW o, o.start \in Int, o.end \in Int, NEW w, w.from \in Int, w.to \in Int
    PROVE  /\ Numbered([h EXCEPT !.outages = @ \cup {o}])
           /\ Numbered([h EXCEPT !.maintenance = @ \cup {w}])
<1> DEFINE b == h.beats
           p == h.outages
           m == h.maintenance
           po == p \cup {o}
           mw == m \cup {w}
           e == [check |-> 1, device |-> 1, beats |-> b, outages |-> p, maintenance |-> m]
           e1 == [check |-> 1, device |-> 1, beats |-> b, outages |-> po, maintenance |-> m]
           e2 == [check |-> 1, device |-> 1, beats |-> b, outages |-> p, maintenance |-> mw]
<1>1. h = e
  BY DEF Numbered
<1>2. [h EXCEPT !.outages = @ \cup {o}] = e1
  <2>1. [e EXCEPT !.outages = @ \cup {o}] = e1
    <3> HIDE DEF b, p, m
    <3>1. QED
      OBVIOUS
  <2> HIDE DEF e, e1
  <2>2. QED
    BY <1>1, <2>1
<1>3. [h EXCEPT !.maintenance = @ \cup {w}] = e2
  <2>1. [e EXCEPT !.maintenance = @ \cup {w}] = e2
    <3> HIDE DEF b, p, m
    <3>1. QED
      OBVIOUS
  <2> HIDE DEF e, e2
  <2>2. QED
    BY <1>1, <2>1
<1>4. /\ IsFiniteSet(b) /\ b # {} /\ \A x \in b : x.ts \in Int
      /\ IsFiniteSet(p) /\ \A x \in p : x.start \in Int /\ x.end \in Int
      /\ IsFiniteSet(m) /\ \A x \in m : x.from \in Int /\ x.to \in Int
  BY DEF Numbered, History
<1> HIDE DEF b, p, m
<1>5. IsFiniteSet(po) /\ IsFiniteSet(mw)
  BY <1>4, FS_AddElement
<1>6. (\A x \in po : x.start \in Int /\ x.end \in Int) /\ (\A x \in mw : x.from \in Int /\ x.to \in Int)
  BY <1>4
<1> HIDE DEF po, mw
<1>7. /\ e1.beats = b /\ e1.outages = po /\ e1.maintenance = m
      /\ e2.beats = b /\ e2.outages = p /\ e2.maintenance = mw
  OBVIOUS
<1>8. e1 = [check |-> 1, device |-> 1, beats |-> e1.beats, outages |-> e1.outages, maintenance |-> e1.maintenance]
      /\ e2 = [check |-> 1, device |-> 1, beats |-> e2.beats, outages |-> e2.outages, maintenance |-> e2.maintenance]
  BY <1>7
<1> HIDE DEF e1, e2
<1>9. History(e1) /\ History(e2)
  BY <1>4, <1>5, <1>6, <1>7 DEF History
<1>10. QED
  BY <1>2, <1>3, <1>8, <1>9 DEF Numbered

LEMMA HistoryKept == HistoryInv /\ [Next]_vars => HistoryInv'
<1> SUFFICES ASSUME HistoryInv, [Next]_vars, topic' = "history" PROVE Numbered(input')
  BY DEF HistoryInv
<1>1. CASE UNCHANGED vars
  BY <1>1 DEF vars, HistoryInv
<1>2. CASE Next
  <2>1. RecordOutage \/ PlanMaintenance
    BY <1>2, Continues DEF Next
  <2>2. CASE RecordOutage
    <3>1. PICK s \in 0..LastSecond - 1 : \E e \in s + 1..LastSecond \cup {Open} :
              /\ topic = "history"
              /\ input' = [input EXCEPT !.outages = @ \cup {[start |-> s, end |-> e]}]
      BY <2>2 DEF RecordOutage, Continue
    <3>2. PICK e \in s + 1..LastSecond \cup {Open} :
              /\ topic = "history"
              /\ input' = [input EXCEPT !.outages = @ \cup {[start |-> s, end |-> e]}]
      BY <3>1
    <3> DEFINE o == [start |-> s, end |-> e]
               w == [from |-> 0, to |-> 0]
    <3>3. o.start \in Int /\ o.end \in Int /\ w.from \in Int /\ w.to \in Int
      BY SecondsAssumption DEF Open
    <3>4. Numbered(input)
      BY <3>2 DEF HistoryInv
    <3>5. PICK h : h = input
      OBVIOUS
    <3> HIDE DEF o, w
    <3>6. Numbered(h)
      BY <3>4, <3>5
    <3>7. Numbered([h EXCEPT !.outages = @ \cup {o}])
      BY <3>3, <3>6, HistoryGrows
    <3>8. input' = [h EXCEPT !.outages = @ \cup {o}]
      BY <3>2, <3>5 DEF o
    <3>9. QED
      BY <3>7, <3>8
  <2>3. CASE PlanMaintenance
    <3>1. PICK s \in 0..LastSecond - 1, target \in {<<0, 0>>, <<1, 0>>, <<0, 1>>, <<2, 0>>} :
            \E e \in s + 1..LastSecond :
              /\ topic = "history"
              /\ input' = [input EXCEPT !.maintenance =
                     @ \cup {[from |-> s, to |-> e, device |-> target[1], check |-> target[2]]}]
      BY <2>3 DEF PlanMaintenance, Continue
    <3>2. PICK e \in s + 1..LastSecond :
              /\ topic = "history"
              /\ input' = [input EXCEPT !.maintenance =
                     @ \cup {[from |-> s, to |-> e, device |-> target[1], check |-> target[2]]}]
      BY <3>1
    <3> DEFINE w == [from |-> s, to |-> e, device |-> target[1], check |-> target[2]]
               o == [start |-> 0, end |-> 0]
    <3>3. o.start \in Int /\ o.end \in Int /\ w.from \in Int /\ w.to \in Int
      BY SecondsAssumption
    <3>4. Numbered(input)
      BY <3>2 DEF HistoryInv
    <3>5. PICK h : h = input
      OBVIOUS
    <3> HIDE DEF o, w
    <3>6. Numbered(h)
      BY <3>4, <3>5
    <3>7. Numbered([h EXCEPT !.maintenance = @ \cup {w}])
      BY <3>3, <3>6, HistoryGrows
    <3>8. input' = [h EXCEPT !.maintenance = @ \cup {w}]
      BY <3>2, <3>5 DEF w
    <3>9. QED
      BY <3>7, <3>8
  <2>4. QED
    BY <2>1, <2>2, <2>3
<1>3. QED
  BY <1>1, <1>2

LEMMA HistoriesCounted == HistoryInv => UptimeBySecond
<1> SUFFICES ASSUME HistoryInv, topic = "history"
             PROVE  /\ \A start \in 0..LastSecond : \A until \in start + 1..LastSecond + 1 :
                           CountedBySecond(input, start, until)
                    /\ DaysAddUp(input) /\ AverageIsShare(input)
  BY DEF UptimeBySecond
<1>1. PICK h : h = input
  OBVIOUS
<1>2. Numbered(h) /\ History(h)
  BY <1>1 DEF HistoryInv, Numbered
<1>3. \A start, until \in Int : CountedBySecond(h, start, until)
  BY <1>2, BySecond
<1>4. DaysAddUp(h) /\ AverageIsShare(h)
  BY <1>2, DaysSum, AveragesAre
<1>5. QED
  BY <1>1, <1>3, <1>4, SecondsAssumption

\* The figures of an uptime report are those of counting second by second, the days of its bars add
\* up, and the average of an SLA report is the share of the monitored seconds that were up, whatever
\* outages and maintenance windows have been recorded (reports.py).
THEOREM UptimeBySecondAlways == Spec => []UptimeBySecond
<1>1. Spec => []HistoryInv
  BY HistoryInitially, HistoryKept, PTL DEF Spec
<1>2. QED
  BY <1>1, HistoriesCounted, PTL

-----------------------------------------------------------------------------
(* Syslog messages and their stamps.                                       *)

LastYear == Cardinality(Years)
YearLengths == [y \in 1..LastYear |-> DaysOf(y)]
\* Where the years begin, and where the last one ends.
YearBounds == [y \in 1..LastYear + 1 |-> IF y = LastYear + 1 THEN YearStart[LastYear] + DaysOf(LastYear)
                                         ELSE YearStart[y]]

LEMMA YearsAre ==
    /\ LastYear \in Nat /\ LastYear >= 2 /\ Years = 1..LastYear
    /\ Dates \in Nat /\ LeapDate \in 1..Dates /\ SkewLimit \in 0..2
    /\ SkewLimit + 4 < Dates /\ LeapDate + SkewLimit <= Dates
<1>1. LastYear \in Nat
  BY YearsAssumption, FS_CardinalityType DEF LastYear
<1>2. Years = 1..LastYear /\ 2 \in 1..LastYear
  BY YearsAssumption DEF LastYear
<1>3. QED
  BY <1>1, <1>2, YearsAssumption, DatesAssumption

LEMMA YearsLast ==
    \A y \in 1..LastYear : /\ DaysOf(y) \in Nat /\ DaysOf(y) > SkewLimit + 3
                           /\ DaysOf(y) = IF y \in LeapYears THEN Dates ELSE Dates - 1
  BY YearsAre DEF DaysOf

LEMMA YearStartIs == \A y \in 1..LastYear : YearStart[y] = IF y = 1 THEN 0 ELSE YearStart[y - 1] + DaysOf(y - 1)
<1> DEFINE n == LastYear
           Eq(f) == f = [year \in Years |-> IF \A y \in Years : y >= year THEN 0 ELSE f[year - 1] + DaysOf(year - 1)]
<1>1. n \in Nat /\ n >= 2 /\ Years = 1..n
  BY YearsAre
<1>2. ASSUME NEW year \in 1..n PROVE (\A y \in Years : y >= year) <=> year = 1
  <2>1. 1 \in Years
    BY <1>1
  <2>2. year # 1 => ~(1 >= year)
    BY <1>1
  <2>3. \A y \in Years : y >= 1
    BY <1>1
  <2>4. QED
    BY <2>1, <2>2, <2>3
<1>3. PICK g : Follow(g, n, YearLengths)
  BY <1>1, FollowExist
<1> HIDE DEF n
<1>4. \A year \in 1..n : g[year] = IF year = 1 THEN 0 ELSE g[year - 1] + DaysOf(year - 1)
  <2>1. \A year \in 1..n : g[year] = IF year = 1 THEN 0 ELSE g[year - 1] + YearLengths[year - 1]
    BY <1>3 DEF Follow
  <2>2. \A year \in 1..n : year # 1 => YearLengths[year - 1] = DaysOf(year - 1)
    <3>1. \A k \in 1..n : YearLengths[k] = DaysOf(k)
      BY DEF YearLengths, n
    <3>2. \A year \in 1..n : year # 1 => year - 1 \in 1..n
      BY <1>1
    <3>3. QED
      BY <3>1, <3>2
  <2>3. QED
    BY <2>1, <2>2
<1>5. g = [year \in Years |-> g[year]]
  BY <1>1, <1>3 DEF Follow
<1>6. Eq(g)
  BY <1>1, <1>2, <1>4, <1>5
<1>7. Eq(YearStart)
  BY <1>6 DEF YearStart
<1>8. \A year \in 1..n : YearStart[year] = IF \A y \in Years : y >= year THEN 0
                                           ELSE YearStart[year - 1] + DaysOf(year - 1)
  BY <1>1, <1>7
<1>9. QED
  BY <1>2, <1>8 DEF n

LEMMA YearsFollow ==
    /\ Sequel(YearBounds, LastYear, YearLengths)
    /\ \A y \in 1..LastYear : YearBounds[y] = YearStart[y] /\ YearBounds[y + 1] = YearStart[y] + DaysOf(y)
<1> DEFINE n == LastYear
           f == YearBounds
<1>1. n \in Nat /\ n >= 2
  BY YearsAre
<1>2. \A y \in 1..n : f[y] = YearStart[y]
  BY <1>1 DEF YearBounds
<1>3. f[n + 1] = YearStart[n] + DaysOf(n)
  BY <1>1 DEF YearBounds
<1> HIDE DEF f
<1>4. ASSUME NEW y \in 1..n PROVE f[y + 1] = YearStart[y] + DaysOf(y)
  <2>1. CASE y = n
    BY <1>3, <2>1
  <2>2. CASE y # n
    <3>1. y + 1 \in 1..n /\ y + 1 # 1 /\ y + 1 - 1 = y
      BY <1>1, <2>2
    <3>2. YearStart[y + 1] = YearStart[y] + DaysOf(y)
      BY <3>1, YearStartIs
    <3>3. QED
      BY <1>2, <3>1, <3>2
  <2>3. QED
    BY <2>1, <2>2
<1>5. f[1] = 0
  <2>1. 1 \in 1..n
    BY <1>1
  <2>2. QED
    BY <1>2, <2>1, YearStartIs
<1>6. \A y \in 1..n : YearLengths[y] = DaysOf(y) /\ DaysOf(y) \in Nat
  BY YearsLast DEF YearLengths
<1>7. Sequel(f, n, YearLengths)
  BY <1>1, <1>2, <1>4, <1>5, <1>6 DEF Sequel
<1>8. QED
  BY <1>2, <1>4, <1>7 DEF f

LEMMA LastDayIs == LastDay = YearBounds[LastYear + 1] - 1 /\ LastDay \in Nat /\ LastDay >= 1
<1>1. LastYear \in Nat /\ LastYear >= 2 /\ Years = 1..LastYear
  BY YearsAre
<1>2. Max(Years) = LastYear
  <2> DEFINE all == 1..LastYear
             top == Max(all)
  <2>1. IsFiniteSet(all) /\ LastYear \in all
    BY <1>1, FS_Interval
  <2>2. all \in SUBSET Int /\ IsFiniteSet(all) /\ all # {} /\ LastYear \in all
    BY <2>1
  <2> HIDE DEF all
  <2>3. top \in all /\ \A x \in all : x <= top
    BY <2>2, Extremes
  <2> HIDE DEF top
  <2>4. top \in Int /\ top <= LastYear /\ LastYear <= top
    BY <1>1, <2>2, <2>3 DEF all
  <2>5. top = LastYear
    BY <1>1, <2>4
  <2>6. QED
    BY <1>1, <2>5 DEF all, top
<1> DEFINE b == YearBounds[LastYear + 1]
<1>3. LastDay = b - 1
  <2>1. LastYear \in 1..LastYear
    BY <1>1
  <2>2. b = YearStart[LastYear] + DaysOf(LastYear)
    BY <2>1, YearsFollow
  <2>3. LastDay = YearStart[LastYear] + DaysOf(LastYear) - 1
    BY <1>2, Zenon DEF LastDay
  <2> DEFINE x == YearStart[LastYear]
             d == DaysOf(LastYear)
  <2>4. x \in Nat /\ d \in Nat
    <3>1. LastYear \in 1..LastYear + 1 /\ YearBounds[LastYear] = x
      BY <1>1, <2>1, YearsFollow
    <3>2. QED
      BY <2>1, <3>1, YearsFollow, SequelNat, YearsLast
  <2>5. LastDay = x + (d - 1) /\ b = x + d
    BY <2>2, <2>3, Zenon
  <2> HIDE DEF b, x, d
  <2>6. QED
    BY <2>4, <2>5
<1>4. b \in Nat /\ b >= 4
  <2>1. 1 \in 1..LastYear /\ LastYear + 1 \in 1..LastYear + 1 /\ 1 < LastYear + 1 /\ 2 \in 1..LastYear + 1
    BY <1>1
  <2>2. YearBounds[1 + 1] <= b
    BY <2>1, YearsFollow, SequelAdvances
  <2>3. YearBounds[1 + 1] = YearStart[1] + DaysOf(1) /\ YearStart[1] = 0
    BY <2>1, YearsFollow, YearStartIs
  <2>4. DaysOf(1) \in Nat /\ DaysOf(1) > SkewLimit + 3 /\ SkewLimit \in 0..2
    BY <2>1, YearsLast, YearsAre
  <2>5. b \in Nat
    BY <2>1, YearsFollow, SequelNat
  <2> HIDE DEF b
  <2>6. QED
    BY <2>2, <2>3, <2>4, <2>5
<1> HIDE DEF b
<1>5. QED
  BY <1>3, <1>4 DEF b

LEMMA YearIs ==
    ASSUME NEW t \in 0..LastDay
    PROVE  /\ YearOf(t) \in 1..LastYear
           /\ YearStart[YearOf(t)] <= t /\ t < YearStart[YearOf(t)] + DaysOf(YearOf(t))
<1>1. t \in Nat /\ t < YearBounds[LastYear + 1]
  <2>1. LastDay = YearBounds[LastYear + 1] - 1 /\ LastDay \in Nat
    BY LastDayIs
  <2> DEFINE b == YearBounds[LastYear + 1]
  <2>2. b \in Nat
    <3>1. LastYear + 1 \in 1..LastYear + 1
      BY YearsAre
    <3>2. QED
      BY <3>1, YearsFollow, SequelNat
  <2>3. LastDay = b - 1
    BY <2>1
  <2> HIDE DEF b
  <2>4. t \in Nat /\ t < b
    BY <2>1, <2>2, <2>3
  <2>5. QED
    BY <2>4 DEF b
<1>2. PICK y \in 1..LastYear : YearBounds[y] <= t /\ t < YearBounds[y + 1]
  BY <1>1, YearsFollow, SequelCovers
<1>3. y \in Years /\ YearStart[y] <= t /\ t < YearStart[y] + DaysOf(y)
  BY <1>2, YearsFollow, YearsAre
<1>4. YearOf(t) \in Years /\ YearStart[YearOf(t)] <= t /\ t < YearStart[YearOf(t)] + DaysOf(YearOf(t))
  BY <1>3 DEF YearOf
<1>5. QED
  BY <1>4, YearsAre

LEMMA StampsAreInts ==
    ASSUME NEW y \in 1..LastYear, NEW date \in 1..Dates
    PROVE  Timestamp(y, date) \in Int /\ YearStart[y] \in Nat
<1>1. YearStart[y] \in Nat
  <2>1. y \in 1..LastYear + 1 /\ YearBounds[y] = YearStart[y]
    BY YearsFollow, YearsAre
  <2>2. QED
    BY <2>1, YearsFollow, SequelNat
<1> DEFINE s == YearStart[y]
           back == IF y \notin LeapYears /\ date > LeapDate THEN 2 ELSE 1
<1>2. Timestamp(y, date) = s + (date - back) /\ back \in {1, 2} /\ date \in Int
  BY YearsAre DEF Timestamp
<1>3. s + (date - back) \in Int
  <2> HIDE DEF s, back
  <2>1. s \in Nat
    BY <1>1 DEF s
  <2>2. QED
    BY <1>2, <2>1
<1>4. QED
  BY <1>1, <1>2, <1>3

\* A time shortly before a year is of the year before, which has its date if the year has it not.
LEMMA YearBefore ==
    ASSUME NEW t \in 0..LastDay, NEW r \in 0..LastDay, r - t <= SkewLimit, YearOf(t) < YearOf(r)
    PROVE  /\ YearOf(r) = YearOf(t) + 1
           /\ YearStart[YearOf(r)] = YearStart[YearOf(t)] + DaysOf(YearOf(t)) /\ t < YearStart[YearOf(r)]
<1> DEFINE y == YearOf(t)
           z == YearOf(r)
           n == LastYear
           e == YearStart[z]
<1>1. y \in 1..n /\ z \in 1..n /\ t < YearStart[y] + DaysOf(y) /\ YearStart[z] <= r /\ n \in Nat
  BY YearIs, YearsAre
<1>2. t \in Nat /\ r \in Nat /\ y < z
  BY LastDayIs
<1> HIDE DEF y, z, n
<1>3. y + 1 \in 1..n + 1 /\ z \in 1..n + 1
  BY <1>1, <1>2
<1>4. YearBounds[y + 1] = YearStart[y] + DaysOf(y) /\ YearBounds[z] = YearStart[z]
  BY <1>1, YearsFollow DEF n
<1>5. YearBounds[y + 1] <= YearBounds[z]
  BY <1>1, <1>2, <1>3, YearsFollow, SequelAdvances DEF n
<1>6. YearBounds[y + 1] \in Nat /\ YearBounds[z] \in Nat
  BY <1>3, YearsFollow, SequelNat DEF n
<1>7. z = y + 1
  <2> SUFFICES ASSUME z # y + 1 PROVE FALSE
    OBVIOUS
  <2> DEFINE w == y + 1
             a == YearBounds[w]
             b == YearBounds[w + 1]
             c == YearBounds[z]
  <2>1. w \in 1..n /\ w < z /\ w + 1 \in 1..n + 1
    BY <1>1, <1>2
  <2> HIDE DEF w
  <2>2. b = YearStart[w] + DaysOf(w) /\ a = YearStart[w]
    BY <2>1, YearsFollow DEF n
  <2>3. b <= c
    BY <1>1, <2>1, <1>3, YearsFollow, SequelAdvances DEF n
  <2>4. DaysOf(w) \in Nat /\ DaysOf(w) > SkewLimit + 3 /\ SkewLimit \in Nat
    BY <2>1, YearsLast, YearsAre DEF n
  <2>5. a \in Nat /\ b \in Nat /\ c \in Nat
    BY <1>6, <2>1, YearsFollow, SequelNat DEF n, w
  <2> DEFINE d == DaysOf(w)
  <2>6. b = a + d /\ d \in Nat /\ d > SkewLimit + 3 /\ t < a /\ c <= r
    <3>1. t < a
      BY <1>1, <1>4 DEF w
    <3>2. c <= r
      BY <1>1, <1>4
    <3>3. QED
      BY <2>2, <2>4, <3>1, <3>2
  <2> HIDE DEF a, b, c, d
  <2>7. r - t <= SkewLimit /\ r \in Nat /\ t \in Nat
    BY <1>2
  <2>8. QED
    BY <2>3, <2>4, <2>5, <2>6, <2>7
<1>8. YearBounds[y + 1] = YearBounds[z]
  BY <1>7
<1>9. QED
  BY <1>1, <1>4, <1>7, <1>8 DEF y, z

LEMMA Apart ==
    ASSUME NEW t \in Int, NEW u \in Int
    PROVE  Distance(t, u) \in Nat /\ (t <= u => Distance(t, u) = u - t) /\ (u <= t => Distance(t, u) = t - u)
  BY DEF Distance

LEMMA Trusted ==
    ASSUME NEW ts \in Int, NEW r \in Int
    PROVE  /\ Trust(ts, r) \in Int /\ Distance(Trust(ts, r), r) <= SkewLimit
           /\ ts # NoStamp /\ Distance(ts, r) <= SkewLimit => Trust(ts, r) = ts
<1>1. SkewLimit \in Nat
  BY YearsAre
<1>2. Distance(ts, r) \in Nat /\ Distance(r, r) = 0
  BY Apart
<1> DEFINE d == Distance(ts, r)
<1> HIDE DEF d
<1>3. d \in Nat
  BY <1>2 DEF d
<1>4. Trust(ts, r) = IF ts = NoStamp \/ d > SkewLimit THEN r ELSE ts
  BY DEF Trust, d
<1>5. CASE ts = NoStamp \/ d > SkewLimit
  <2>1. Trust(ts, r) = r
    BY <1>4, <1>5
  <2>2. ~(ts # NoStamp /\ d <= SkewLimit)
    BY <1>1, <1>3, <1>5
  <2>3. QED
    BY <1>1, <1>2, <2>1, <2>2 DEF d
<1>6. CASE ~(ts = NoStamp \/ d > SkewLimit)
  <2>1. Trust(ts, r) = ts /\ d <= SkewLimit
    BY <1>1, <1>3, <1>4, <1>6
  <2>2. QED
    BY <2>1 DEF d
<1>7. QED
  BY <1>5, <1>6

LEMMA TrueStamps ==
    ASSUME NEW r \in 0..LastDay, NEW date \in 1..Dates, NEW t \in 0..LastDay,
           Exists(YearOf(t), date), Timestamp(YearOf(t), date) = t,
           Distance(t, r) <= SkewLimit, YearOf(t) <= YearOf(r)
    PROVE  ParseBsdTs(date, NoStamp, r) = t
<1> DEFINE y == YearOf(t)
           z == YearOf(r)
           s == YearStart[y]
           e == YearStart[z]
           l == DaysOf(y)
           ts == Timestamp(z, date)
<1>1. y \in 1..LastYear /\ z \in 1..LastYear /\ LastYear \in Nat /\ Years = 1..LastYear /\ s <= t /\ t < s + l /\ e <= r
  BY YearIs, YearsAre
<1>2. t \in Nat /\ r \in Nat /\ date \in Nat /\ LeapDate \in Nat /\ date >= 1 /\ LeapDate >= 1
      /\ SkewLimit \in 0..2 /\ Dates \in Nat
      /\ SkewLimit + 4 < Dates /\ LeapDate + SkewLimit <= Dates
  BY LastDayIs, YearsAre
<1>3. ts \in Int /\ s \in Nat /\ e \in Nat
  BY <1>1, StampsAreInts
<1>4. ParseBsdTs(date, NoStamp, r) =
        IF ~Exists(z, date) THEN NoStamp
        ELSE IF ts - r > 2 /\ z - 1 \in Years /\ Exists(z - 1, date) THEN Timestamp(z - 1, date) ELSE ts
  BY DEF ParseBsdTs
<1>5. t <= r => r - t <= SkewLimit
  BY <1>2, Apart
<1>6. r <= t => t - r <= SkewLimit
  BY <1>2, Apart
<1>7. CASE y = z
  <2>1. ts = t /\ Exists(z, date)
    BY <1>7
  <2>2. ~(ts - r > 2)
    <3> HIDE DEF ts
    <3>1. QED
      BY <1>2, <1>6, <2>1
  <2>3. QED
    BY <1>4, <2>1, <2>2
<1>8. CASE y < z
  <2>1. e <= r /\ t < s + l /\ l \in Nat
    BY <1>1, YearsLast
  <2>2. r - t <= SkewLimit
    <3> HIDE DEF s, e, l, y, z, ts
    <3>1. SkewLimit \in Nat
      BY <1>2
    <3>2. r <= t \/ t <= r
      BY <1>2
    <3>3. QED
      BY <1>2, <1>5, <1>6, <3>1, <3>2
  <2>3. z = y + 1 /\ e = s + l /\ t < e
    BY <1>8, <2>2, YearBefore
  <2>4. z - 1 = y /\ z - 1 \in Years
    BY <1>1, <2>3
  <2>5. /\ l = (IF y \in LeapYears THEN Dates ELSE Dates - 1)
        /\ t = s + (date - (IF y \notin LeapYears /\ date > LeapDate THEN 2 ELSE 1))
        /\ ts = e + (date - (IF z \notin LeapYears /\ date > LeapDate THEN 2 ELSE 1))
        /\ (y \in LeapYears \/ date # LeapDate)
    BY <1>1, YearsLast DEF Timestamp, Exists
  <2> HIDE DEF s, e, l, ts, y, z
  <2>6. Exists(z, date)
    <3> SUFFICES ASSUME z \notin LeapYears, date = LeapDate PROVE FALSE
      BY DEF Exists
    <3>1. y \in LeapYears /\ l = Dates
      BY <2>5
    <3>2. t = s + (date - 1)
      BY <2>5, <3>1
    <3>3. QED
      BY <1>2, <1>3, <2>1, <2>2, <2>3, <3>1, <3>2
  <2>7. ts - r > 2
    <3>1. ts >= t + (Dates - 2)
      <4>1. l >= Dates - 1
        BY <1>2, <2>5
      <4>2. ts >= e + (date - 2) /\ t <= s + (date - 1)
        BY <1>2, <1>3, <2>5
      <4>3. QED
        BY <1>2, <1>3, <2>1, <2>3, <4>1, <4>2
    <3>2. QED
      BY <1>2, <1>3, <2>2, <3>1
  <2>8. Exists(z - 1, date) /\ Timestamp(z - 1, date) = t
    BY <2>4 DEF y
  <2>9. QED
    BY <1>4, <2>4, <2>6, <2>7, <2>8
<1>9. QED
  BY <1>1, <1>7, <1>8 DEF y, z

\* The messages that are received.
Stamped == [form: {"5424", "bsd"}, pri: {165, NoStamp}, stamp: {NoStamp, 15}, host: {Absent, "h"}, app: {"app"},
            sd: {"bad", "-"}, rest: {"rest"}, seq: BOOLEAN, seqHost: {Absent, "c"}, star: BOOLEAN,
            stampForm: {"bsd", "iso", "none"}, stampColon: BOOLEAN, date: 1..Dates, year: {2, NoStamp},
            label: {Absent, "l"}, cisco: BOOLEAN]

\* Only the old form has a sequenced host or a label.
FormHolds(m) == m.form = "5424" => m.seqHost = Absent /\ m.label = Absent

StampInv == topic = "stamp" => /\ input.received \in 0..LastDay
                               /\ input.m \in Stamped /\ FormHolds(input.m)

LEMMA StampInitially == Init => StampInv
<1> SUFFICES ASSUME Init, topic = "stamp"
             PROVE  input.received \in 0..LastDay /\ input.m \in Stamped /\ FormHolds(input.m)
  BY DEF StampInv
<1>1. BeginStamp
  BY Begins DEF Init
<1>2. 1 \in 0..LastDay
  BY LastDayIs
<1> HIDE DEF LastDay
<1> DEFINE Message(date, year, form, stampForm, star, seq, cisco, stampColon, stamp, host, seqHost, label) ==
             [form |-> form, pri |-> IF seq THEN 165 ELSE NoStamp, stamp |-> stamp, host |-> host,
              app |-> "app", sd |-> IF stamp = NoStamp THEN "bad" ELSE "-", rest |-> "rest", seq |-> seq,
              seqHost |-> seqHost, star |-> star, stampForm |-> stampForm, stampColon |-> stampColon,
              date |-> date, year |-> year, label |-> label, cisco |-> cisco]
<1>3. PICK date \in 1..Dates, year \in {2, NoStamp}, form \in {"5424", "bsd"}, stampForm \in {"bsd", "iso", "none"},
           star, seq, cisco, stampColon \in BOOLEAN, stamp \in {NoStamp, 15}, host \in {Absent, "h"},
           seqHost \in {Absent, "c"}, label \in {Absent, "l"} :
        /\ stampForm = "bsd" => stamp = NoStamp
        /\ stampForm # "bsd" => date = 1 /\ year = NoStamp
        /\ form = "5424" => ~star /\ ~seq /\ ~cisco /\ seqHost = Absent /\ label = Absent /\ stampForm = "iso"
        /\ stampColon => form = "bsd" /\ stampForm = "iso"
        /\ seqHost # Absent => seq
        /\ seq /\ cisco /\ stampForm = "none" /\ ~star /\ host = Absent /\ label # Absent => seqHost # Absent
        /\ Begin("stamp", [received |-> 1,
               m |-> [form |-> form, pri |-> IF seq THEN 165 ELSE NoStamp, stamp |-> stamp, host |-> host,
                      app |-> "app", sd |-> IF stamp = NoStamp THEN "bad" ELSE "-", rest |-> "rest", seq |-> seq,
                      seqHost |-> seqHost, star |-> star, stampForm |-> stampForm, stampColon |-> stampColon,
                      date |-> date, year |-> year, label |-> label, cisco |-> cisco]])
  BY <1>1, ZenonT(60) DEF BeginStamp
<1> DEFINE m == Message(date, year, form, stampForm, star, seq, cisco, stampColon, stamp, host, seqHost, label)
<1>4. input = [received |-> 1, m |-> m]
  BY <1>3 DEF Begin
<1>5. FormHolds(m)
  BY <1>3 DEF FormHolds
<1> HIDE DEF Message
<1>6. m \in Stamped
  <2>1. /\ date \in 1..Dates /\ year \in {2, NoStamp} /\ form \in {"5424", "bsd"}
        /\ stampForm \in {"bsd", "iso", "none"} /\ star \in BOOLEAN /\ seq \in BOOLEAN
        /\ cisco \in BOOLEAN /\ stampColon \in BOOLEAN /\ stamp \in {NoStamp, 15}
        /\ host \in {Absent, "h"} /\ seqHost \in {Absent, "c"} /\ label \in {Absent, "l"}
    OBVIOUS
  <2> DEFINE pri == IF seq THEN 165 ELSE NoStamp
             sd == IF stamp = NoStamp THEN "bad" ELSE "-"
  <2>2. pri \in {165, NoStamp} /\ sd \in {"bad", "-"}
    OBVIOUS
  <2> HIDE DEF pri, sd
  <2>3. [form |-> form, pri |-> pri, stamp |-> stamp, host |-> host,
         app |-> "app", sd |-> sd, rest |-> "rest", seq |-> seq,
         seqHost |-> seqHost, star |-> star, stampForm |-> stampForm, stampColon |-> stampColon,
         date |-> date, year |-> year, label |-> label, cisco |-> cisco] \in Stamped
    BY <2>1, <2>2 DEF Stamped
  <2>4. QED
    BY <2>3 DEF pri, sd, m, Message
<1> HIDE DEF m
<1>7. QED
  BY <1>5, <1>2, <1>4, <1>6

LEMMA StampKept == StampInv /\ [Next]_vars => StampInv'
<1> SUFFICES ASSUME StampInv, [Next]_vars, topic' = "stamp"
             PROVE  /\ input'.received \in 0..LastDay
                    /\ input'.m \in Stamped /\ FormHolds(input'.m)
  BY DEF StampInv, Stamped, FormHolds, LastDay
<1>1. CASE UNCHANGED vars
  BY <1>1 DEF vars, StampInv
<1>2. CASE Next
  <2>1. DayPasses
    BY <1>2, Continues DEF Next
  <2>2. topic = "stamp" /\ input.received < LastDay /\ input' = [input EXCEPT !.received = @ + 1]
    BY <2>1 DEF DayPasses, Continue
  <2>3. input.received \in 0..LastDay /\ input.m \in Stamped /\ FormHolds(input.m)
    BY <2>2 DEF StampInv
  <2>4. input'.m = input.m
    BY <2>2
  <2>5. input'.received = input.received + 1 \/ input'.received = input.received
    BY <2>2
  <2> DEFINE r == input.received
  <2>6. r \in 0..LastDay /\ r < LastDay /\ LastDay \in Nat
    BY <2>2, <2>3, LastDayIs
  <2> HIDE DEF r
  <2>7. r \in 0..LastDay /\ r + 1 \in 0..LastDay
    BY <2>6
  <2>8. QED
    BY <2>3, <2>4, <2>5, <2>7 DEF r
<1>3. QED
  BY <1>1, <1>2

\* What is not taken for host or application stays in the text, but before a Cisco tag.
Keeps(m, out) ==
    /\ LostParts(m, out) \subseteq {m.seqHost, m.host, m.label}
    /\ LostParts(m, out) # {} => m.cisco /\ out.app = m.app

LEMMA Texts123 ==
    ASSUME NEW a, NEW b, NEW c
    PROVE  /\ Range(<<a>>) = {a} /\ Range(<<a, b>>) = {a, b} /\ Range(<<a>> \o <<b, c>>) = {a, b, c}
<1>1. <<a>> \o <<b, c>> = <<a, b, c>>
  <2> DEFINE s == {a, b, c}
             x == <<a>>
             y == <<b, c>>
             z == <<a, b, c>>
  <2>1. x \in Seq(s) /\ y \in Seq(s) /\ z \in Seq(s)
    OBVIOUS
  <2>2. Len(x) = 1 /\ Len(y) = 2 /\ Len(z) = 3
    OBVIOUS
  <2>3. x[1] = a /\ y[1] = b /\ y[2] = c /\ z[1] = a /\ z[2] = b /\ z[3] = c
    OBVIOUS
  <2> HIDE DEF s, x, y, z
  <2>4. /\ x \o y \in Seq(s) /\ Len(x \o y) = Len(x) + Len(y)
        /\ \A i \in 1..Len(x) + Len(y) : (x \o y)[i] = IF i <= Len(x) THEN x[i] ELSE y[i - Len(x)]
    BY <2>1, ConcatProperties
  <2> DEFINE xy == x \o y
  <2> HIDE DEF xy
  <2>5. xy \in Seq(s) /\ Len(xy) = 3 /\ \A i \in 1..3 : xy[i] = IF i <= 1 THEN x[i] ELSE y[i - 1]
    BY <2>2, <2>4 DEF xy
  <2>6. xy[1] = a /\ xy[2] = b /\ xy[3] = c
    BY <2>3, <2>5
  <2>7. \A i \in 1..3 : xy[i] = z[i]
    <3>1. \A i \in 1..3 : i = 1 \/ i = 2 \/ i = 3
      OBVIOUS
    <3>2. QED
      BY <2>3, <2>6, <3>1
  <2>8. xy = z
    BY <2>1, <2>2, <2>5, <2>7
  <2>9. QED
    BY <2>8 DEF x, y, z, xy
<1>2. Range(<<a>>) = {a}
  BY DEF Range
<1>3. Range(<<a, b>>) = {a, b}
  <2>1. DOMAIN <<a, b>> = {1, 2} /\ <<a, b>>[1] = a /\ <<a, b>>[2] = b
    OBVIOUS
  <2>2. QED
    BY <2>1 DEF Range
<1>4. Range(<<a, b, c>>) = {a, b, c}
  <2>1. DOMAIN <<a, b, c>> = {1, 2, 3} /\ <<a, b, c>>[1] = a /\ <<a, b, c>>[2] = b /\ <<a, b, c>>[3] = c
    OBVIOUS
  <2>2. QED
    BY <2>1 DEF Range
<1>5. QED
  BY <1>1, <1>2, <1>3, <1>4

LEMMA Pieces ==
    ASSUME NEW S, NEW part, part \in S \/ part = Absent
    PROVE  /\ Piece(part) \in Seq(S)
           /\ Range(Piece(part)) = {part} \ {Absent}
           /\ <<>> \in Seq(S) /\ Range(<<>>) = {}
<1>1. <<>> \in Seq(S) /\ Range(<<>>) = {}
  BY DEF Range
<1>2. CASE part = Absent
  BY <1>1, <1>2 DEF Piece
<1>3. CASE part # Absent
  <2>1. Piece(part) = <<part>> /\ <<part>> \in Seq(S)
    BY <1>3 DEF Piece
  <2>2. Range(<<part>>) = {part}
    BY Texts123
  <2>3. QED
    BY <1>1, <1>3, <2>1, <2>2
<1>4. QED
  BY <1>2, <1>3

LEMMA HeadAndRest ==
    ASSUME NEW S, NEW s \in Seq(S), s # <<>>
    PROVE  Tail(s) \in Seq(S) /\ Range(s) \subseteq {Head(s)} \cup Range(Tail(s))
<1>1. Tail(s) \in Seq(S) /\ Len(Tail(s)) = Len(s) - 1 /\ \A i \in 1..Len(Tail(s)) : Tail(s)[i] = s[i + 1]
  BY HeadTailProperties
<1>2. Head(s) = s[1] /\ Len(s) \in Nat /\ DOMAIN s = 1..Len(s)
  OBVIOUS
<1> DEFINE t == Tail(s)
<1>3. t \in Seq(S) /\ Len(t) = Len(s) - 1 /\ \A i \in 1..Len(t) : t[i] = s[i + 1]
  BY <1>1
<1> HIDE DEF t
<1>4. ASSUME NEW i \in 1..Len(s) PROVE s[i] = Head(s) \/ s[i] \in Range(t)
  <2>1. CASE i = 1
    BY <1>2, <2>1
  <2>2. CASE i # 1
    <3> DEFINE k == i - 1
    <3>1. k \in 1..Len(t) /\ k + 1 = i
      BY <1>2, <1>3, <2>2
    <3>2. t[k] = s[i]
      BY <1>3, <3>1
    <3>3. DOMAIN t = 1..Len(t)
      BY <1>3
    <3> HIDE DEF k
    <3>4. QED
      BY <3>1, <3>2, <3>3 DEF Range
  <2>3. QED
    BY <2>1, <2>2
<1>5. Range(s) \subseteq {Head(s)} \cup Range(t)
  BY <1>2, <1>4 DEF Range
<1>6. QED
  BY <1>1, <1>5 DEF t

LEMMA NothingIsLost ==
    ASSUME NEW m \in Stamped, FormHolds(m), NEW r
    PROVE  Keeps(m, Parse(m, "source", r))
<1> DEFINE out == Parse(m, "source", r)
           S == {"c", "h", "l", "app", "rest", StampText}
<1>1. /\ m.host \in {Absent, "h"} /\ m.app = "app" /\ m.rest = "rest"
      /\ m.seqHost \in {Absent, "c"} /\ m.label \in {Absent, "l"}
      /\ m.form \in {"5424", "bsd"}
      /\ "h" # Absent /\ "app" # Absent /\ "rest" # Absent /\ "c" # Absent /\ "l" # Absent
      /\ StampText # Absent /\ StampText \in S
  BY DEF Stamped, Absent, StampText
<1>2. CASE m.form = "5424"
  <2> DEFINE b == Parse5424(m, r)
  <2>1. out.host = (IF b.host = Absent THEN "source" ELSE b.host) /\ out.app = b.app /\ out.text = b.text
    BY <1>2 DEF Parse
  <2>2. b.host = m.host /\ b.app = m.app /\ (b.text = <<m.sd, m.rest>> \/ b.text = <<m.rest>>)
    BY <1>1 DEF Parse5424, Nil, Absent
  <2>3. m.rest \in Range(b.text)
    <3>1. Range(<<m.rest>>) = {m.rest}
      BY Texts123
    <3>2. Range(<<m.sd, m.rest>>) = {m.sd, m.rest}
      BY Texts123
    <3> HIDE DEF b
    <3>3. QED
      BY <2>2, <3>1, <3>2
  <2>4. m.seqHost = Absent /\ m.label = Absent
    BY <1>2 DEF FormHolds
  <2> HIDE DEF out, b
  <2>5. LostParts(m, out) = {}
    BY <1>1, <2>1, <2>2, <2>3, <2>4 DEF LostParts
  <2>6. QED
    BY <2>5 DEF Keeps, out
<1>3. CASE m.form # "5424"
  <2> DEFINE b == ParseBsd(m, r)
             sequenced == SequencedHost(m)
             behind == m.seqHost # Absent /\ sequenced = Absent
             ts == CASE behind                          -> NoStamp
                     [] ~behind /\ m.stampForm = "bsd"  -> ParseBsdTs(m.date, m.year, r)
                     [] ~behind /\ m.stampForm = "iso"  -> m.stamp
                     [] ~behind /\ m.stampForm = "none" -> NoStamp
             named == sequenced = Absent /\ ts # NoStamp
             p == IF behind THEN Piece(m.seqHost) ELSE <<>>
             q == IF behind /\ m.stampForm = "iso" THEN <<StampText>> ELSE <<>>
             u == IF named THEN <<>> ELSE Piece(m.host)
             v == Piece(m.label)
             left == p \o q \o u \o v
             found == left = <<>> \/ (m.cisco /\ EndsInColon(m, left[Len(left)]))
             mistaken == ~found /\ EndsInColon(m, Head(left))
             kept == IF mistaken THEN Tail(left) ELSE left
  <2>1. out.host = (IF b.host = Absent THEN "source" ELSE b.host) /\ out.app = b.app /\ out.text = b.text
    BY <1>3 DEF Parse
  <2>2. /\ b.host = IF named THEN m.host ELSE sequenced
        /\ b.app = IF found THEN m.app ELSE IF mistaken THEN Head(left) ELSE Absent
        /\ b.text = IF found THEN <<m.rest>> ELSE kept \o <<m.app, m.rest>>
    BY DEF ParseBsd
  <2>3. sequenced \in {m.seqHost, Absent}
    BY DEF SequencedHost
  <2> HIDE DEF b, sequenced, ts, out
  <2>4. /\ p \in Seq(S) /\ (behind => m.seqHost \in Range(p) \cup {Absent})
        /\ q \in Seq(S)
        /\ u \in Seq(S) /\ (~named => m.host \in Range(u) \cup {Absent})
        /\ v \in Seq(S) /\ m.label \in Range(v) \cup {Absent}
    <3>1. Piece(m.seqHost) \in Seq(S) /\ Range(Piece(m.seqHost)) = {m.seqHost} \ {Absent} /\ <<>> \in Seq(S)
      BY <1>1, Pieces
    <3>2. Piece(m.host) \in Seq(S) /\ Range(Piece(m.host)) = {m.host} \ {Absent}
      BY <1>1, Pieces
    <3>3. Piece(m.label) \in Seq(S) /\ Range(Piece(m.label)) = {m.label} \ {Absent}
      BY <1>1, Pieces
    <3>4. <<StampText>> \in Seq(S)
      BY <1>1
    <3> HIDE DEF S
    <3>5. QED
      BY <3>1, <3>2, <3>3, <3>4
  <2> HIDE DEF S, p, q, u, v
  <2>5. left \in Seq(S) /\ Range(left) = Range(p) \cup Range(q) \cup Range(u) \cup Range(v)
    <3>1. p \o q \in Seq(S) /\ Range(p \o q) = Range(p) \cup Range(q)
      BY <2>4, ConcatProperties, RangeConcatenation
    <3> DEFINE pq == p \o q
    <3> HIDE DEF pq
    <3>2. pq \in Seq(S)
      BY <3>1 DEF pq
    <3>3. pq \o u \in Seq(S) /\ Range(pq \o u) = Range(pq) \cup Range(u)
      BY <2>4, <3>2, ConcatProperties, RangeConcatenation
    <3> DEFINE pqu == pq \o u
    <3> HIDE DEF pqu
    <3>4. pqu \in Seq(S)
      BY <3>3 DEF pqu
    <3>5. pqu \o v \in Seq(S) /\ Range(pqu \o v) = Range(pqu) \cup Range(v)
      BY <2>4, <3>4, ConcatProperties, RangeConcatenation
    <3>6. QED
      BY <3>1, <3>3, <3>5 DEF pq, pqu
  <2> HIDE DEF left
  <2>6. \* Each part is the host that is stored, or left before the tag.
        /\ m.seqHost \in {Absent, out.host} \cup Range(left)
        /\ m.host \in {Absent, out.host} \cup Range(left)
        /\ m.label \in {Absent} \cup Range(left)
    <3>1. m.label \in {Absent} \cup Range(left)
      BY <2>4, <2>5
    <3>2. m.host \in {Absent, out.host} \cup Range(left)
      <4>1. CASE named
        BY <2>1, <2>2, <4>1
      <4>2. CASE ~named
        BY <2>4, <2>5, <4>2
      <4>3. QED
        BY <4>1, <4>2
    <3>3. m.seqHost \in {Absent, out.host} \cup Range(left)
      <4>1. CASE behind
        BY <2>4, <2>5, <4>1
      <4>2. CASE ~behind
        BY <2>1, <2>2, <2>3, <4>2
      <4>3. QED
        BY <4>1, <4>2
    <3>4. QED
      BY <3>1, <3>2, <3>3
  <2>7. CASE found
    <3>1. out.app = m.app /\ Range(out.text) = {m.rest}
      BY <2>1, <2>2, <2>7, Texts123
    <3>2. LostParts(m, out) \subseteq {m.seqHost, m.host, m.label}
      BY <3>1 DEF LostParts
    <3>3. CASE left = <<>>
      <4>1. Range(left) = {}
        BY <3>3 DEF Range
      <4>2. LostParts(m, out) = {}
        BY <2>6, <3>1, <4>1 DEF LostParts
      <4>3. QED
        BY <4>2 DEF Keeps, out
    <3>4. CASE left # <<>>
      BY <2>7, <3>1, <3>2, <3>4 DEF Keeps, out
    <3>5. QED
      BY <3>3, <3>4
  <2>8. CASE ~found
    <3>1. left # <<>>
      BY <2>8
    <3>2. kept \in Seq(S) /\ (Range(left) \subseteq {b.app} \cup Range(kept))
      <4>1. CASE mistaken
        BY <2>2, <2>5, <2>8, <3>1, <4>1, HeadAndRest
      <4>2. CASE ~mistaken
        BY <2>5, <4>2
      <4>3. QED
        BY <4>1, <4>2
    <3> DEFINE e == <<m.app, m.rest>>
    <3>3. e \in Seq(S) /\ Range(e) = {m.app, m.rest}
      <4>1. m.app \in S /\ m.rest \in S
        BY <1>1 DEF S
      <4>2. QED
        <5>1. e \in Seq(S)
          BY <4>1
        <5> DEFINE app == m.app
                   rest == m.rest
        <5> HIDE DEF app, rest
        <5>2. Range(<<app, rest>>) = {app, rest}
          BY Texts123
        <5>3. QED
          BY <5>1, <5>2 DEF app, rest
    <3>4. out.text = kept \o e
      BY <2>1, <2>2, <2>8
    <3> HIDE DEF kept, e, found, mistaken
    <3>5. Range(out.text) = Range(kept) \cup {m.app, m.rest}
      BY <3>2, <3>3, <3>4, RangeConcatenation
    <3>6. LostParts(m, out) = {}
      BY <2>1, <2>6, <3>2, <3>5 DEF LostParts
    <3>7. QED
      BY <3>6 DEF Keeps, out
  <2>9. QED
    BY <2>7, <2>8
<1>4. QED
  BY <1>2, <1>3

\* The time a message is given.
LEMMA TimesAre ==
    ASSUME NEW m \in Stamped, NEW r \in 0..LastDay
    PROVE  LET ts == Parse(m, "source", r).ts
           IN  /\ Distance(ts, r) <= SkewLimit
               /\ m.form = "bsd" /\ m.stampForm = "bsd" /\ m.year = NoStamp /\ ~m.star =>
                    ts = Trust(ParseBsdTs(m.date, NoStamp, r), r)
<1> DEFINE ts == Parse(m, "source", r).ts
<1>1. m.stamp \in Int /\ r \in Int /\ m.date \in 1..Dates /\ m.year \in {2, NoStamp} /\ SkewLimit \in Nat
      /\ m.form \in {"5424", "bsd"} /\ m.stampForm \in {"bsd", "iso", "none"} /\ NoStamp \in Int
  BY LastDayIs, YearsAre DEF Stamped, NoStamp
<1>2. Distance(r, r) <= SkewLimit
  BY <1>1, Apart
<1>3. CASE m.form = "5424"
  <2>1. ts = Trust(m.stamp, r)
    BY <1>3 DEF Parse, Parse5424
  <2>2. QED
    BY <1>1, <1>3, <2>1, Trusted
<1>4. CASE m.form = "bsd"
  <2> DEFINE behind == m.seqHost # Absent /\ SequencedHost(m) = Absent
             stamp == CASE behind                          -> NoStamp
                        [] ~behind /\ m.stampForm = "bsd"  -> ParseBsdTs(m.date, m.year, r)
                        [] ~behind /\ m.stampForm = "iso"  -> m.stamp
                        [] ~behind /\ m.stampForm = "none" -> NoStamp
  <2>1. ts = IF m.star THEN r ELSE Trust(stamp, r)
    BY <1>4 DEF Parse, ParseBsd
  <2>2. ParseBsdTs(m.date, m.year, r) \in Int
    <3> DEFINE of == IF m.year # NoStamp THEN m.year ELSE YearOf(r)
               date == m.date
    <3>1. of \in 1..LastYear
      BY <1>1, YearIs, YearsAre DEF NoStamp
    <3>2. of - 1 \in Years => of - 1 \in 1..LastYear
      BY YearsAre
    <3>3. ParseBsdTs(date, m.year, r) \in {NoStamp, Timestamp(of, date)}
            \/ (of - 1 \in Years /\ ParseBsdTs(date, m.year, r) = Timestamp(of - 1, date))
      BY DEF ParseBsdTs
    <3> DEFINE before == of - 1
    <3>4. Timestamp(of, date) \in Int
      BY <1>1, <3>1, StampsAreInts
    <3> HIDE DEF of, date
    <3>5. before \in Years => Timestamp(before, date) \in Int
      <4> HIDE DEF before
      <4>1. before \in Years => before \in 1..LastYear
        BY YearsAre
      <4>2. QED
        BY <1>1, <4>1, StampsAreInts DEF date
    <3>6. QED
      BY <1>1, <3>3, <3>4, <3>5 DEF date
  <2>3. stamp \in Int
    BY <1>1, <2>2
  <2>4. m.stampForm = "bsd" => stamp = ParseBsdTs(m.date, m.year, r)
    <3>1. m.stampForm = "bsd" => ~behind
      BY DEF SequencedHost
    <3> HIDE DEF behind
    <3>2. QED
      BY <3>1
  <2> HIDE DEF stamp
  <2>5. Distance(Trust(stamp, r), r) <= SkewLimit
    BY <1>1, <2>3, Trusted
  <2>6. QED
    BY <1>2, <2>1, <2>4, <2>5
<1>5. QED
  BY <1>1, <1>3, <1>4

LEMMA StampsTrusted == StampInv => StampsAreTrusted
<1> SUFFICES ASSUME StampInv, topic = "stamp" PROVE StampsAreTrusted
  BY DEF StampsAreTrusted
<1>1. PICK m, r : m = input.m /\ r = input.received
  OBVIOUS
<1>2. m \in Stamped /\ FormHolds(m) /\ r \in 0..LastDay
  BY <1>1 DEF StampInv
<1> DEFINE out == Parse(m, "source", r)
           sent == {t \in 0..LastDay : /\ Exists(YearOf(t), m.date) /\ Timestamp(YearOf(t), m.date) = t
                                       /\ Distance(t, r) <= SkewLimit
                                       /\ YearOf(t) <= YearOf(r)}
<1>3. Distance(out.ts, r) <= SkewLimit
  BY <1>2, TimesAre
<1>4. ASSUME m.form = "bsd", m.stampForm = "bsd", m.year = NoStamp, ~m.star, NEW t \in sent PROVE out.ts = t
  <2>1. out.ts = Trust(ParseBsdTs(m.date, NoStamp, r), r)
    BY <1>2, <1>4, TimesAre
  <2>2. m.date \in 1..Dates
    BY <1>2 DEF Stamped
  <2>3. /\ t \in 0..LastDay /\ Exists(YearOf(t), m.date) /\ Timestamp(YearOf(t), m.date) = t
        /\ Distance(t, r) <= SkewLimit /\ YearOf(t) <= YearOf(r)
    OBVIOUS
  <2> HIDE DEF out, sent
  <2>4. ParseBsdTs(m.date, NoStamp, r) = t
    BY <1>2, <2>2, <2>3, TrueStamps
  <2>5. t \in Int /\ r \in Int /\ t # NoStamp
    BY <1>2, <2>3, LastDayIs DEF NoStamp
  <2>6. Trust(t, r) = t
    BY <2>3, <2>5, Trusted
  <2>7. QED
    BY <2>1, <2>4, <2>6
<1>5. Keeps(m, out)
  BY <1>2, NothingIsLost
<1> HIDE DEF out
<1>6. QED
  BY <1>1, <1>3, <1>4, <1>5 DEF StampsAreTrusted, Keeps, out

\* A stored message is timed within a day of its reception; a true stamp without a year is taken for
\* the time it was, at the turn of a year and on a leap day too; and of its text nothing is lost but a
\* host or a label before a Cisco tag, for every calendar whose years are longer than that day by
\* more than four (parser.py).
THEOREM StampsAreTrustedAlways == Spec => []StampsAreTrusted
<1>1. Spec => []StampInv
  BY StampInitially, StampKept, PTL DEF Spec
<1>2. QED
  BY <1>1, StampsTrusted, PTL

-----------------------------------------------------------------------------
(* Probes: URLs.                                                           *)

UrlParts == [lo: 200..399, hi: 200..399]
UrlOptions == [expected: SUBSET UrlParts, keyword: {NoKeyword, "present", "absent"}, https: BOOLEAN, certDays: {0, 7}]
UrlResponses == [fails: BOOLEAN, status: {200, 204, 302, 500}, keyword: BOOLEAN, days: {Unknown, 3, 30}]

UrlInv == topic = "url" => input \in [r: UrlResponses, o: UrlOptions]

LEMMA UrlInitially == Init => UrlInv
<1> SUFFICES ASSUME Init, topic = "url" PROVE input \in [r: UrlResponses, o: UrlOptions]
  BY DEF UrlInv
<1>1. BeginUrl
  BY Begins DEF Init
<1>2. PICK fails \in BOOLEAN, status \in {200, 204, 302, 500}, keyword \in BOOLEAN, days \in {Unknown, 3, 30} :
        Begin("url", [r |-> [fails |-> fails, status |-> status, keyword |-> keyword, days |-> days],
                      o |-> [expected |-> {[lo |-> 200, hi |-> 399]}, keyword |-> NoKeyword,
                             https |-> days # Unknown, certDays |-> 0]])
  BY <1>1 DEF BeginUrl
<1> DEFINE secure == days # Unknown
           r == [fails |-> fails, status |-> status, keyword |-> keyword, days |-> days]
           o == [expected |-> {[lo |-> 200, hi |-> 399]}, keyword |-> NoKeyword, https |-> secure, certDays |-> 0]
<1>3. input = [r |-> r, o |-> o]
  BY <1>2 DEF Begin
<1>4. secure \in BOOLEAN /\ [lo |-> 200, hi |-> 399] \in UrlParts
  BY DEF UrlParts
<1>5. r \in UrlResponses
  BY DEF UrlResponses
<1> HIDE DEF secure
<1>6. o \in UrlOptions
  BY <1>4 DEF UrlOptions
<1> HIDE DEF r, o
<1>7. QED
  BY <1>3, <1>5, <1>6

LEMMA UrlOptionAdded ==
    ASSUME NEW o \in UrlOptions
    PROVE  /\ \A k \in {"present", "absent"} : [o EXCEPT !.keyword = k] \in UrlOptions
           /\ \A n \in {0, 7} : [o EXCEPT !.certDays = n] \in UrlOptions
           /\ \A part \in UrlParts : [o EXCEPT !.expected = {part}] \in UrlOptions
<1>1. ASSUME NEW k \in {"present", "absent"} PROVE [o EXCEPT !.keyword = k] \in UrlOptions
  BY DEF UrlOptions
<1>2. ASSUME NEW n \in {0, 7} PROVE [o EXCEPT !.certDays = n] \in UrlOptions
  BY DEF UrlOptions
<1>3. ASSUME NEW part \in UrlParts PROVE [o EXCEPT !.expected = {part}] \in UrlOptions
  BY DEF UrlOptions
<1>4. QED
  BY <1>1, <1>2, <1>3

LEMMA UrlKept == UrlInv /\ [Next]_vars => UrlInv'
<1> SUFFICES ASSUME UrlInv, [Next]_vars, topic' = "url" PROVE input' \in [r: UrlResponses, o: UrlOptions]
  BY DEF UrlInv, UrlResponses, UrlOptions, UrlParts, NoKeyword, Unknown
<1>1. CASE UNCHANGED vars
  BY <1>1 DEF vars, UrlInv
<1>2. CASE Next
  <2>1. AddOption
    BY <1>2, Continues DEF Next
  <2>2. topic = "url" /\ input \in [r: UrlResponses, o: UrlOptions]
    BY <2>1 DEF AddOption, UrlInv
  <2>3. PICK r \in UrlResponses, o \in UrlOptions : input = [r |-> r, o |-> o]
    BY <2>2
  <2>4. \E p \in UrlOptions : input' = [r |-> r, o |-> p]
    <3>1. CASE \E k \in {"present", "absent"} : input' = [input EXCEPT !.o.keyword = k]
      <4>1. PICK k \in {"present", "absent"} : input' = [r |-> r, o |-> [o EXCEPT !.keyword = k]]
        BY <2>3, <3>1
      <4>2. QED
        BY <4>1, UrlOptionAdded
    <3>2. CASE input' = [input EXCEPT !.o.certDays = 7]
      <4>1. input' = [r |-> r, o |-> [o EXCEPT !.certDays = 7]]
        BY <2>3, <3>2
      <4>2. QED
        BY <4>1, UrlOptionAdded
    <3>3. CASE \E part \in {[lo |-> 200, hi |-> 299], [lo |-> 204, hi |-> 204]} :
                   input' = [input EXCEPT !.o.expected = {part}]
      <4>1. PICK part \in {[lo |-> 200, hi |-> 299], [lo |-> 204, hi |-> 204]} :
              input' = [r |-> r, o |-> [o EXCEPT !.expected = {part}]]
        BY <2>3, <3>3
      <4>2. part \in UrlParts
        BY DEF UrlParts
      <4>3. QED
        BY <4>1, <4>2, UrlOptionAdded
    <3>4. QED
      BY <2>1, <3>1, <3>2, <3>3 DEF AddOption, Continue
  <2>5. QED
    BY <2>4
<1>3. QED
  BY <1>1, <1>2

LEMMA UrlsRefused == UrlInv /\ topic = "url" => OptionsOnlyRefuse
<1> SUFFICES ASSUME UrlInv, topic = "url" PROVE OptionsOnlyRefuse
  OBVIOUS
<1>1. PICK r \in UrlResponses, o \in UrlOptions : input = [r |-> r, o |-> o]
  BY DEF UrlInv
<1> DEFINE whole == {[lo |-> 200, hi |-> 399]}
           bare == [expected |-> whole, keyword |-> NoKeyword, https |-> FALSE, certDays |-> 0]
           less == [o EXCEPT !.certDays = 0]
<1>2. /\ r.fails \in BOOLEAN /\ r.status \in {200, 204, 302, 500} /\ r.keyword \in BOOLEAN /\ r.days \in Int
      /\ o.expected \in SUBSET UrlParts /\ o.keyword \in {NoKeyword, "present", "absent"}
  BY DEF UrlResponses, UrlOptions, Unknown
<1>3. StatusMatches(r.status, o.expected) => StatusMatches(r.status, whole)
  <2>1. SUFFICES ASSUME NEW part \in o.expected, part.lo <= r.status, r.status <= part.hi
                 PROVE  200 <= r.status /\ r.status <= 399
    BY DEF StatusMatches
  <2>2. part.lo \in 200..399 /\ part.hi \in 200..399
    BY <1>2 DEF UrlParts
  <2>3. QED
    BY <1>2, <2>1, <2>2
<1>4. HttpCheck(r, o).ok => HttpCheck(r, bare).ok
  <2>1. /\ bare.expected = whole /\ bare.keyword = NoKeyword /\ bare.https = FALSE
    OBVIOUS
  <2> HIDE DEF bare, whole
  <2>2. QED
    BY <1>3, <2>1 DEF HttpCheck, Up, Down
<1>5. r.days = Unknown => HttpCheck(r, o) = HttpCheck(r, less)
  <2>1. less.expected = o.expected /\ less.keyword = o.keyword /\ less.https = o.https
    BY DEF UrlOptions
  <2> HIDE DEF less
  <2>2. QED
    BY <2>1 DEF HttpCheck
<1>6. QED
  BY <1>1, <1>4, <1>5 DEF OptionsOnlyRefuse

-----------------------------------------------------------------------------
(* Probes: pings.                                                          *)

Sockets == {"raw", "dgram"}
Modes == Sockets \cup {"exec", "tcp"}

\* What a socket is sent; a datagram socket, by the target alone.
PacketsOf(mode) == {p \in Packets : mode = "dgram" => p.target}
AttemptsOf(mode) == [error: {"", "unreachable", "denied"}, packets: Seq(PacketsOf(mode)), run: Runs, ports: Ports]

Pinged(i) ==
    /\ i.mode \in Modes /\ i.hasPing \in BOOLEAN /\ i.v6 \in BOOLEAN
    /\ i.attempts \in Seq(AttemptsOf(i.mode))

LEMMA PacketIs ==
    ASSUME NEW mode, NEW p \in PacketsOf(mode)
    PROVE  /\ p.type \in {"reply", "unreachable", "other"} /\ (p.type # "other" => p.full = TRUE)
           /\ p.ours \in BOOLEAN /\ p.target \in BOOLEAN /\ (p.ours => p.target) /\ (mode = "dgram" => p.target)
<1> DEFINE other == [Packet("other", FALSE, TRUE) EXCEPT !.full = FALSE]
<1>1. other.type = "other" /\ other.ours = FALSE /\ other.target = TRUE
  BY DEF Packet
<1>2. \/ \E ours, target \in BOOLEAN : (ours => target) /\ p = Packet("reply", ours, target)
      \/ \E target \in BOOLEAN : p = Packet("unreachable", FALSE, target)
      \/ p = other
  BY DEF PacketsOf, Packets
<1>3. mode = "dgram" => p.target
  BY DEF PacketsOf
<1>4. ASSUME NEW ours \in BOOLEAN, NEW target \in BOOLEAN, ours => target, p = Packet("reply", ours, target)
      PROVE  p.type = "reply" /\ p.full = TRUE /\ p.ours \in BOOLEAN /\ p.target \in BOOLEAN /\ (p.ours => p.target)
  BY <1>4 DEF Packet
<1>5. ASSUME NEW target \in BOOLEAN, p = Packet("unreachable", FALSE, target)
      PROVE  p.type = "unreachable" /\ p.full = TRUE /\ p.ours = FALSE /\ p.target \in BOOLEAN
  BY <1>5 DEF Packet
<1> HIDE DEF other
<1>6. QED
  BY <1>1, <1>2, <1>3, <1>4, <1>5

\* Whys of results.
Reasons == {"echo reply", "unreachable", "TTL exceeded", "timeout", "timed out", "host reachable", "no response",
            "ICMP error", "no reply"}
Results == [ok: BOOLEAN, why: Reasons]

LEMMA ResultIs ==
    ASSUME NEW why \in Reasons
    PROVE  Up(why) \in Results /\ Up(why).ok = TRUE /\ Down(why) \in Results /\ Down(why).ok = FALSE
<1>1. TRUE \in BOOLEAN /\ FALSE \in BOOLEAN
  OBVIOUS
<1>2. Up(why) \in Results /\ Down(why) \in Results
  BY <1>1, Zenon DEF Up, Down, Results
<1>3. QED
  BY <1>2 DEF Up, Down

\* The first of a sequence of which P holds.
LEMMA FirstIs ==
    ASSUME NEW n \in Nat, NEW I \in SUBSET (1..n), I # {}
    PROVE  Min(I) \in I /\ \A i \in I : Min(I) <= i
<1> DEFINE all == 1..n
<1>1. IsFiniteSet(all) /\ all \in SUBSET Int /\ I \in SUBSET all
  BY FS_Interval
<1> HIDE DEF all
<1>2. IsFiniteSet(I) /\ I \in SUBSET Int
  BY <1>1, FS_Subset
<1>3. QED
  BY <1>2, Extremes

Decides(p, raw) == Seen(p, raw) /\ (p.type = "reply" => p.ours) /\ p.type # "other"

FirstDeciding(packets, raw, else) == FirstWhere(packets, LAMBDA p : Decides(p, raw), else)

LEMMA FirstDecides ==
    ASSUME NEW T, NEW packets \in Seq(T), NEW raw, NEW else
    PROVE  \/ /\ ~\E i \in 1..Len(packets) : Decides(packets[i], raw)
              /\ FirstDeciding(packets, raw, else) = else
           \/ \E f \in 1..Len(packets) :
                 Decides(packets[f], raw) /\ (\A i \in 1..f - 1 : ~Decides(packets[i], raw))
                 /\ FirstDeciding(packets, raw, else) = packets[f]
<1> DEFINE I == {i \in 1..Len(packets) : Decides(packets[i], raw)}
           first == FirstDeciding(packets, raw, else)
<1>1. DOMAIN packets = 1..Len(packets) /\ Len(packets) \in Nat
  OBVIOUS
<1>2. CASE I = {}
  <2>1. first = else
    BY <1>1, <1>2 DEF FirstWhere, FirstDeciding
  <2>2. QED
    BY <1>2, <2>1
<1>3. CASE I # {}
  <2>1. first = packets[Min(I)]
    BY <1>1, <1>3 DEF FirstWhere, FirstDeciding, SelectInSeq
  <2>2. Min(I) \in I /\ \A i \in I : Min(I) <= i
    BY <1>1, <1>3, FirstIs
  <2> DEFINE f == Min(I)
  <2>3. f \in 1..Len(packets) /\ Decides(packets[f], raw)
    BY <2>2
  <2>4. \A i \in 1..Len(packets) : Decides(packets[i], raw) => f <= i
    BY <2>2
  <2> HIDE DEF f, I, first
  <2>5. \A i \in 1..f - 1 : i \in 1..Len(packets) /\ ~(f <= i)
    BY <1>1, <2>3
  <2>6. QED
    BY <2>1, <2>3, <2>4, <2>5 DEF f, first
<1>4. QED
  BY <1>2, <1>3

\* A packet that is this attempt's reply, before any error from the target.
Clear(packets) ==
    \E n \in DOMAIN packets :
        /\ packets[n].type = "reply" /\ packets[n].ours
        /\ \A i \in 1..n - 1 : packets[i].target /\ packets[i].full => packets[i].type \notin {"unreachable", "ttl"}

Replied(packets) == \E p \in Range(packets) : p.type = "reply" /\ p.ours /\ p.target

LEMMA SocketIs ==
    ASSUME NEW mode \in Sockets, NEW packets \in Seq(PacketsOf(mode))
    PROVE  LET ok == PingSocket(packets, mode = "raw").ok
           IN  PingSocket(packets, mode = "raw") \in Results /\ (ok => Replied(packets)) /\ (Clear(packets) => ok)
<1> DEFINE raw == mode = "raw"
           else == [type |-> "none"]
           first == FirstDeciding(packets, raw, else)
           ok == PingSocket(packets, raw).ok
<1>1. DOMAIN packets = 1..Len(packets) /\ Len(packets) \in Nat /\ \A i \in 1..Len(packets) : packets[i] \in PacketsOf(mode)
  OBVIOUS
<1>2. PingSocket(packets, raw) = CASE first.type = "reply"       -> Up("echo reply")
                                   [] first.type = "unreachable" -> Down("unreachable")
                                   [] first.type = "ttl"         -> Down("TTL exceeded")
                                   [] OTHER                      -> Down("timeout")
  BY DEF PingSocket, Decides, FirstDeciding
<1>3. PingSocket(packets, raw) \in Results /\ (ok <=> first.type = "reply")
  <2> DEFINE result == PingSocket(packets, raw)
             bad == {"unreachable", "TTL exceeded", "timeout"}
  <2>1. ok = result.ok
    OBVIOUS
  <2>2. CASE first.type = "reply"
    <3>1. result = Up("echo reply") /\ "echo reply" \in Reasons
      BY <1>2, <2>2 DEF Reasons
    <3>2. Up("echo reply") \in Results /\ Up("echo reply").ok = TRUE
      BY <3>1, ResultIs
    <3> HIDE DEF result, ok
    <3>3. result \in Results /\ ok = TRUE
      BY <2>1, <3>1, <3>2
    <3>4. QED
      BY <2>2, <3>3 DEF result
  <2>3. CASE first.type # "reply"
    <3>1. PICK why \in bad : result = Down(why)
      <4> HIDE DEF first, result
      <4>1. QED
        BY <1>2, <2>3 DEF result
    <3>2. why \in Reasons
      BY DEF Reasons
    <3>3. Down(why) \in Results /\ Down(why).ok = FALSE
      BY <3>2, ResultIs
    <3> HIDE DEF result, ok
    <3>4. result \in Results /\ ok = FALSE
      BY <2>1, <3>1, <3>3
    <3>5. QED
      BY <2>3, <3>4 DEF result
  <2>4. QED
    BY <2>2, <2>3
<1>4. else.type = "none" /\ raw \in BOOLEAN
  OBVIOUS
<1> HIDE DEF ok
<1>5. CASE (~\E i \in 1..Len(packets) : Decides(packets[i], raw)) /\ first = else
  <2>1. ~ok
    BY <1>3, <1>4, <1>5
  <2>2. ~Clear(packets)
    <3>1. SUFFICES ASSUME NEW n \in 1..Len(packets), packets[n].type = "reply", packets[n].ours PROVE FALSE
      BY <1>1 DEF Clear
    <3>2. Decides(packets[n], raw)
      BY <1>1, <3>1, PacketIs DEF Decides, Seen
    <3>3. QED
      BY <1>5, <3>2
  <2>3. QED
    BY <1>3, <2>1, <2>2 DEF ok
<1>6. CASE \E f \in 1..Len(packets) : Decides(packets[f], raw) /\ (\A i \in 1..f - 1 : ~Decides(packets[i], raw))
                                     /\ first = packets[f]
  <2>1. PICK f \in 1..Len(packets) : Decides(packets[f], raw) /\ (\A i \in 1..f - 1 : ~Decides(packets[i], raw))
                                     /\ first = packets[f]
    BY <1>6
  <2> HIDE DEF first
  <2>2. ok => Replied(packets)
    <3>1. SUFFICES ASSUME packets[f].type = "reply" PROVE Replied(packets)
      BY <1>3, <2>1
    <3>2. packets[f].ours /\ packets[f].target
      BY <1>1, <2>1, <3>1, PacketIs DEF Decides
    <3>3. QED
      BY <1>1, <3>1, <3>2 DEF Replied, Range
  <2>3. Clear(packets) => ok
    <3>1. SUFFICES ASSUME NEW n \in 1..Len(packets), packets[n].type = "reply", packets[n].ours,
                          \A i \in 1..n - 1 : packets[i].target /\ packets[i].full =>
                                                packets[i].type \notin {"unreachable", "ttl"}
                   PROVE  packets[f].type = "reply"
      BY <1>1, <1>3, <2>1 DEF Clear
    <3>2. Decides(packets[n], raw)
      BY <1>1, <3>1, PacketIs DEF Decides, Seen
    <3>3. f \in Int /\ n \in Int /\ 1 <= f /\ 1 <= n
      BY <1>1
    <3>4. ~(n < f)
      BY <2>1, <3>2, <3>3
    <3>5. CASE f = n
      BY <3>1, <3>5
    <3>6. CASE f < n
      <4>1. f \in 1..n - 1
        BY <3>3, <3>6
      <4>2. packets[f].target /\ packets[f].full /\ packets[f].type # "other"
        <5>1. Seen(packets[f], raw) /\ packets[f].type # "other"
          BY <2>1 DEF Decides
        <5>2. QED
          BY <1>1, <5>1, PacketIs DEF Seen, Sockets
      <4>3. packets[f].type \in {"reply", "unreachable", "other"}
        BY <1>1, PacketIs
      <4>4. QED
        BY <3>1, <4>1, <4>2, <4>3
    <3>7. QED
      BY <3>3, <3>4, <3>5, <3>6
  <2>4. QED
    BY <1>3, <2>2, <2>3 DEF ok
<1> HIDE DEF first
<1>7. QED
  <2>1. \/ (~\E i \in 1..Len(packets) : Decides(packets[i], raw)) /\ first = else
        \/ \E f \in 1..Len(packets) : Decides(packets[f], raw) /\ (\A i \in 1..f - 1 : ~Decides(packets[i], raw))
                                       /\ first = packets[f]
    BY <1>1, FirstDecides DEF first
  <2>2. QED
    BY <1>5, <1>6, <2>1

Connected(ports) == Range(ports) \cap {"open", "refused"} # {}

LEMMA TcpPingIs ==
    ASSUME NEW ports \in Ports
    PROVE  TcpPing(ports) \in Results /\ (TcpPing(ports).ok => Connected(ports))
<1> DEFINE any == \E i \in DOMAIN ports : TcpCheck(ports[i], TRUE).ok
<1>1. any => Connected(ports)
  <2>1. SUFFICES ASSUME NEW i \in DOMAIN ports, TcpCheck(ports[i], TRUE).ok PROVE Connected(ports)
    OBVIOUS
  <2>2. ports[i] \in {"open", "refused"}
    BY <2>1 DEF TcpCheck, Up, Down
  <2>3. ports[i] \in Range(ports)
    BY DEF Range
  <2>4. QED
    BY <2>2, <2>3 DEF Connected
<1>2. TcpPing(ports) = IF any THEN Up("host reachable") ELSE Down("no response")
  BY DEF TcpPing
<1>3. "host reachable" \in Reasons /\ "no response" \in Reasons
  BY DEF Reasons
<1>4. /\ Up("host reachable") \in Results /\ Down("no response") \in Results
      /\ Down("no response").ok = FALSE
  BY <1>3, ResultIs
<1> DEFINE r == TcpPing(ports)
<1> HIDE DEF any, r
<1>5. CASE any
  BY <1>1, <1>2, <1>4, <1>5
<1>6. CASE ~any
  <2>1. r \in Results /\ r.ok = FALSE
    BY <1>2, <1>4, <1>6 DEF r
  <2>2. QED
    BY <2>1 DEF r
<1>7. QED
  BY <1>5, <1>6

Responded(run) == run.ends /\ run.code = 0 /\ run.says \in {"time", "ttl"}

LEMMA PingExecIs ==
    ASSUME NEW run \in Runs, NEW ports \in Ports
    PROVE  PingExec(run, ports) \in Results /\ (PingExec(run, ports).ok => Responded(run) \/ Connected(ports))
<1> DEFINE r == PingExec(run, ports)
<1>1. CASE ~run.starts
  <2>1. r = TcpPing(ports)
    BY <1>1 DEF PingExec
  <2> HIDE DEF r
  <2>2. QED
    BY <2>1, TcpPingIs DEF r
<1>2. CASE run.starts /\ ~run.ends
  <2>1. r = Down("timeout") /\ "timeout" \in Reasons
    BY <1>2 DEF PingExec, Reasons
  <2> HIDE DEF r
  <2>2. r \in Results /\ r.ok = FALSE
    BY <2>1, ResultIs
  <2>3. QED
    BY <2>2 DEF r
<1>3. CASE run.starts /\ run.ends
  <2>1. r = ParsePingOutput(run.says, run.code)
    BY <1>3 DEF PingExec
  <2> HIDE DEF r
  <2>2. CASE run.code = 0 /\ run.says \in {"time", "ttl"}
    <3>1. r = Up("echo reply") /\ "echo reply" \in Reasons
      BY <2>1, <2>2 DEF ParsePingOutput, Reasons
    <3>2. r \in Results
      BY <3>1, ResultIs
    <3>3. QED
      BY <1>3, <2>2, <3>2 DEF r, Responded
  <2>3. CASE ~(run.code = 0 /\ run.says \in {"time", "ttl"})
    <3>1. \E why \in {"unreachable", "timed out"} : r = Down(why)
      BY <2>1, <2>3 DEF ParsePingOutput
    <3>2. \E why \in Reasons : r = Down(why)
      BY <3>1 DEF Reasons
    <3>3. r \in Results /\ r.ok = FALSE
      BY <3>2, ResultIs
    <3>4. QED
      BY <3>3 DEF r
  <2>4. QED
    BY <2>2, <2>3
<1>4. QED
  BY <1>1, <1>2, <1>3

\* By the command or a connection.
OtherwiseAnswered(a) == Responded(a.run) \/ Connected(a.ports)

\* What an attempt gives, in a mode m of a ping whose own mode was own.
AttemptGives(t, m, a) ==
    /\ t.result \in Results /\ t.mode \in Modes 
    /\ m \notin Sockets \/ a.error = "denied" => t.mode \notin Sockets
    /\ t.switched => m \in Sockets /\ a.error = "denied" /\ t.mode \notin Sockets
    /\ m \in Sockets /\ a.error # "denied" => t.mode = m
    /\ t.result.ok => OtherwiseAnswered(a) \/ (m \in Sockets /\ Replied(a.packets))
    /\ m \in Sockets /\ a.error = "" /\ Clear(a.packets) => t.result.ok

LEMMA AttemptIs ==
    ASSUME NEW m \in Modes, NEW hasPing \in BOOLEAN, NEW a \in AttemptsOf(m)
    PROVE  AttemptGives(Attempt(m, hasPing, a), m, a)
<1> DEFINE command == IF hasPing THEN "exec" ELSE "tcp"
           t == Attempt(m, hasPing, a)
           with(n) == IF n = "exec" THEN PingExec(a.run, a.ports) ELSE TcpPing(a.ports)
<1>1. /\ a.run \in Runs /\ a.ports \in Ports /\ a.packets \in Seq(PacketsOf(m))
      /\ a.error \in {"", "unreachable", "denied"} /\ command \in {"exec", "tcp"} /\ command \in Modes \ Sockets
  BY DEF AttemptsOf, Modes, Sockets
<1>2. ASSUME NEW n PROVE with(n) \in Results /\ (with(n).ok => OtherwiseAnswered(a))
  BY <1>1, PingExecIs, TcpPingIs DEF OtherwiseAnswered
<1>3. /\ m \notin Sockets => t = [result |-> with(m), mode |-> m, switched |-> FALSE]
      /\ m \in Sockets /\ a.error = "" => t = [result |-> PingSocket(a.packets, m = "raw"), mode |-> m, switched |-> FALSE]
      /\ m \in Sockets /\ a.error = "unreachable" => t = [result |-> Down("ICMP error"), mode |-> m, switched |-> FALSE]
      /\ m \in Sockets /\ a.error = "denied" => t = [result |-> with(command), mode |-> command, switched |-> TRUE]
  BY DEF Attempt, Sockets
<1>4. CASE m \notin Sockets
  <2>1. t.result = with(m) /\ t.mode = m /\ ~t.switched
    <3>1. t = [result |-> with(m), mode |-> m, switched |-> FALSE]
      BY <1>3, <1>4
    <3> HIDE DEF t, with
    <3>2. QED
      BY <3>1
  <2>2. with(m) \in Results /\ (with(m).ok => OtherwiseAnswered(a))
    BY <1>2
  <2> HIDE DEF t, with
  <2>3. QED
    BY <1>4, <2>1, <2>2 DEF AttemptGives, t
<1>5. CASE m \in Sockets /\ a.error = ""
  <2> DEFINE r == PingSocket(a.packets, m = "raw")
  <2>1. t.result = r /\ t.mode = m /\ ~t.switched
    <3>1. t = [result |-> r, mode |-> m, switched |-> FALSE]
      BY <1>3, <1>5
    <3> HIDE DEF t, r
    <3>2. QED
      BY <3>1
  <2>2. r \in Results /\ (r.ok => Replied(a.packets)) /\ (Clear(a.packets) => r.ok)
    <3>1. m \in Sockets /\ a.packets \in Seq(PacketsOf(m))
      BY <1>1, <1>5
    <3>2. QED
      BY <3>1, SocketIs
  <2> HIDE DEF t, r
  <2>3. QED
    BY <1>5, <2>1, <2>2 DEF AttemptGives, t
<1>6. CASE m \in Sockets /\ a.error = "unreachable"
  <2>1. t.result = Down("ICMP error") /\ t.mode = m /\ ~t.switched
    <3>1. t = [result |-> Down("ICMP error"), mode |-> m, switched |-> FALSE]
      BY <1>3, <1>6
    <3> HIDE DEF t
    <3>2. QED
      BY <3>1
  <2> HIDE DEF t
  <2>2. "ICMP error" \in Reasons
    BY DEF Reasons
  <2>3. t.result \in Results /\ t.result.ok = FALSE
    BY <2>1, <2>2, ResultIs
  <2>4. QED
    BY <1>6, <2>1, <2>3 DEF AttemptGives, t
<1>7. CASE m \in Sockets /\ a.error = "denied"
  <2>1. t.result = with(command) /\ t.mode = command /\ t.switched
    <3> HIDE DEF t, with
    <3>1. QED
      BY <1>3, <1>7
  <2>2. with(command) \in Results /\ (with(command).ok => OtherwiseAnswered(a))
    BY <1>2
  <2> HIDE DEF t, with, command
  <2>3. QED
    BY <1>1, <1>7, <2>1, <2>2 DEF AttemptGives, t
<1>8. QED
  BY <1>1, <1>4, <1>5, <1>6, <1>7

\* A ping goes on from one attempt to the next.
PingStep(hasPing, acc, a) ==
    IF acc.result.ok THEN acc
    ELSE LET t == Attempt(acc.mode, hasPing, a)
         IN  [result |-> t.result, mode |-> t.mode, by |-> a, shared |-> IF t.switched THEN t.mode ELSE acc.shared]

OwnMode(i) == IF i.v6 /\ i.mode \in Sockets THEN IF i.hasPing THEN "exec" ELSE "tcp" ELSE i.mode

PingsOf(i) == {acc \in [result: Results, mode: Modes, by: AttemptsOf(i.mode) \cup {<<>>}, shared: Modes] :
                  acc.mode \in Sockets => acc.mode = OwnMode(i)}

PingBegan(i) == [result |-> Down("no reply"), mode |-> OwnMode(i), by |-> <<>>, shared |-> i.mode]

LEMMA OwnIs == ASSUME NEW i, Pinged(i) PROVE OwnMode(i) \in Modes /\ (OwnMode(i) \in Sockets => OwnMode(i) = i.mode /\ ~i.v6)
                                          /\ (i.mode \in Sockets /\ ~i.v6 => OwnMode(i) \in Sockets)
  BY DEF OwnMode, Pinged, Modes, Sockets

LEMMA PingBegins == ASSUME NEW i, Pinged(i) PROVE PingBegan(i) \in PingsOf(i) /\ ~PingBegan(i).result.ok
<1>1. "no reply" \in Reasons
  BY DEF Reasons
<1>2. Down("no reply") \in Results /\ Down("no reply").ok = FALSE
  BY <1>1, ResultIs
<1>3. i.mode \in Modes /\ OwnMode(i) \in Modes
  BY OwnIs DEF Pinged
<1> DEFINE b == PingBegan(i)
<1>4. b = [result |-> Down("no reply"), mode |-> OwnMode(i), by |-> <<>>, shared |-> i.mode]
  BY DEF PingBegan
<1> HIDE DEF b
<1>5. b \in PingsOf(i)
  BY <1>2, <1>3, <1>4 DEF PingsOf
<1>6. b.result.ok = FALSE
  BY <1>2, <1>4
<1>7. QED
  BY <1>5, <1>6 DEF b

\* What an attempt gives to the ping it is of.
LEMMA AttemptOfPing ==
    ASSUME NEW i, Pinged(i), NEW acc \in PingsOf(i), NEW a \in AttemptsOf(i.mode)
    PROVE  AttemptGives(Attempt(acc.mode, i.hasPing, a), acc.mode, a)
<1>1. acc.mode \in Modes /\ (acc.mode \in Sockets => acc.mode = i.mode) /\ i.hasPing \in BOOLEAN
  BY OwnIs DEF PingsOf, Pinged
<1>2. a \in AttemptsOf(acc.mode)
  <2>1. CASE acc.mode \in Sockets
    BY <1>1, <2>1
  <2>2. CASE acc.mode \notin Sockets
    <3>1. PacketsOf(i.mode) \subseteq PacketsOf(acc.mode)
      BY <2>2 DEF PacketsOf, Sockets
    <3>2. a.packets \in Seq(PacketsOf(i.mode))
      BY DEF AttemptsOf
    <3>3. a.packets \in Seq(PacketsOf(acc.mode))
      BY <3>1, <3>2
    <3>4. QED
      BY <3>3 DEF AttemptsOf
  <2>3. QED
    BY <2>1, <2>2
<1>3. QED
  BY <1>1, <1>2, AttemptIs

LEMMA PingStepType ==
    ASSUME NEW i, Pinged(i), NEW acc \in PingsOf(i), NEW a \in AttemptsOf(i.mode)
    PROVE  PingStep(i.hasPing, acc, a) \in PingsOf(i)
<1> DEFINE t == Attempt(acc.mode, i.hasPing, a)
<1>1. AttemptGives(t, acc.mode, a)
  BY AttemptOfPing
<1>2. PingStep(i.hasPing, acc, a) = IF acc.result.ok THEN acc
        ELSE [result |-> t.result, mode |-> t.mode, by |-> a, shared |-> IF t.switched THEN t.mode ELSE acc.shared]
  BY DEF PingStep
<1>3. acc.mode \in Sockets => acc.mode = OwnMode(i)
  BY DEF PingsOf
<1>4. acc.shared \in Modes
  BY DEF PingsOf
<1> HIDE DEF t
<1>5. t.result \in Results /\ t.mode \in Modes /\ (t.mode \in Sockets => t.mode = OwnMode(i))
  BY <1>1, <1>3 DEF AttemptGives
<1> DEFINE shared == IF t.switched THEN t.mode ELSE acc.shared
<1>6. shared \in Modes
  BY <1>4, <1>5
<1> HIDE DEF shared
<1>7. [result |-> t.result, mode |-> t.mode, by |-> a, shared |-> shared] \in PingsOf(i)
  BY <1>5, <1>6 DEF PingsOf
<1>8. QED
  BY <1>2, <1>7 DEF shared

\* The states a ping goes through.
PingRun(i, h) ==
    /\ h \in [0..Len(i.attempts) -> PingsOf(i)] /\ h[0] = PingBegan(i)
    /\ \A k \in 1..Len(i.attempts) : h[k] = PingStep(i.hasPing, h[k - 1], i.attempts[k])
    /\ h[Len(i.attempts)] = Ping(TRUE, i.v6, i.mode, i.hasPing, i.attempts)

LEMMA PingSteps == ASSUME NEW i, Pinged(i) PROVE \E h : PingRun(i, h)
<1> DEFINE s == i.attempts
           n == Len(s)
           V == PingsOf(i)
           base == PingBegan(i)
           step == [k \in 1..n |-> [v \in V |-> PingStep(i.hasPing, v, s[k])]]
           Eq(f) == f = [t \in SUBSET (DOMAIN s) |-> IF t = {} THEN base
                                                     ELSE PingStep(i.hasPing, f[t \ {Max(t)}], s[Max(t)])]
           F == CHOOSE f : Eq(f)
<1>1. n \in Nat /\ DOMAIN s = 1..n /\ (\A k \in 1..n : s[k] \in AttemptsOf(i.mode)) /\ base \in V
  BY PingBegins DEF Pinged
<1>2. Ping(TRUE, i.v6, i.mode, i.hasPing, s) = F[DOMAIN s]
  BY DEF Ping, FoldLeft, MapThenFoldSet, PingStep, PingBegan, OwnMode, Sockets
<1> HIDE DEF n, base
<1>3. step \in [1..n -> [V -> V]] /\ \A k \in 1..n : \A v \in V : step[k][v] = PingStep(i.hasPing, v, s[k])
  BY <1>1, PingStepType
<1> HIDE DEF step, V, s
<1>4. \E f : Eq(f)
  <2>1. PICK iter \in [SUBSET (1..n) -> V] : Folded(iter, n, base, step)
    BY <1>1, <1>3, FoldExists DEF HasFold
  <2>2. \A t \in SUBSET (1..n) :
            t # {} => step[Max(t)][iter[t \ {Max(t)}]] = PingStep(i.hasPing, iter[t \ {Max(t)}], s[Max(t)])
    BY <1>1, <1>3, LastOf
  <2>3. Eq(iter)
    BY <1>1, <2>1, <2>2 DEF Folded
  <2>4. QED
    BY <2>3
<1>5. Eq(F)
  BY <1>4
<1> HIDE DEF F
<1>6. F[{}] = base /\ \A t \in SUBSET (1..n) : t # {} => F[t] = PingStep(i.hasPing, F[t \ {Max(t)}], s[Max(t)])
  BY <1>1, <1>5
<1>7. Unfolds(F, V, n, base, step)
  BY <1>1, <1>3, <1>6, LastOf DEF Unfolds
<1>8. HasPrefixes(V, n, base, step, F[1..n])
  BY <1>1, <1>3, <1>7, FoldPrefixes
<1>9. PICK h \in [0..n -> V] : h[0] = base /\ h[n] = F[1..n] /\ \A k \in 1..n : h[k] = step[k][h[k - 1]]
  BY <1>8 DEF HasPrefixes
<1>10. \A k \in 1..n : h[k] = PingStep(i.hasPing, h[k - 1], s[k])
  <2>1. \A k \in 1..n : h[k - 1] \in V
    BY <1>1
  <2>2. QED
    BY <1>3, <1>9, <2>1
<1>11. h[n] = Ping(TRUE, i.v6, i.mode, i.hasPing, s)
  BY <1>1, <1>2, <1>9
<1>12. PingRun(i, h)
  BY <1>9, <1>10, <1>11 DEF PingRun, n, V, base, s
<1>13. QED
  BY <1>12

\* What has been heard after k attempts.
Heard(i, acc, k) ==
    /\ acc.result.ok => \E j \in 1..k : \/ OtherwiseAnswered(i.attempts[j])
                                        \/ OwnMode(i) \in Sockets /\ Replied(i.attempts[j].packets)
    /\ acc.shared # i.mode => /\ OwnMode(i) \in Sockets /\ acc.shared \notin Sockets
                              /\ \E j \in 1..k : i.attempts[j].error = "denied"
    /\ OwnMode(i) \in Sockets /\ (\A j \in 1..k : i.attempts[j].error = "") =>
         /\ ~acc.result.ok => acc.mode = OwnMode(i)
         /\ \A j \in 1..k : Clear(i.attempts[j].packets) => acc.result.ok

LEMMA HeardStep ==
    ASSUME NEW i, Pinged(i), NEW k \in 1..Len(i.attempts), NEW acc \in PingsOf(i), Heard(i, acc, k - 1)
    PROVE  Heard(i, PingStep(i.hasPing, acc, i.attempts[k]), k)
<1> DEFINE a == i.attempts[k]
           own == OwnMode(i)
           next == PingStep(i.hasPing, acc, a)
           t == Attempt(acc.mode, i.hasPing, a)
<1>1. a \in AttemptsOf(i.mode) /\ k \in Int /\ k - 1 \in Int
  BY DEF Pinged
<1>2. \A j \in 1..k : j \in 1..k - 1 \/ j = k
  OBVIOUS
<1>3. 1..k - 1 \subseteq 1..k /\ k \in 1..k
  OBVIOUS
<1>4. acc.mode \in Sockets => acc.mode = own
  BY DEF PingsOf
<1> HIDE DEF own
<1>5. CASE acc.result.ok
  <2>1. next = acc
    BY <1>5 DEF PingStep
  <2>2. Heard(i, acc, k)
    BY <1>2, <1>3, <1>5 DEF Heard
  <2>3. QED
    BY <2>1, <2>2
<1>6. CASE ~acc.result.ok
  <2>1. AttemptGives(t, acc.mode, a)
    BY <1>1, AttemptOfPing
  <2>2. next = [result |-> t.result, mode |-> t.mode, by |-> a, shared |-> IF t.switched THEN t.mode ELSE acc.shared]
    BY <1>6 DEF PingStep
  <2> HIDE DEF t, next
  <2>3. next.result = t.result /\ next.mode = t.mode /\ next.shared = IF t.switched THEN t.mode ELSE acc.shared
    BY <2>2
  <2>4. next.result.ok => \E j \in 1..k : OtherwiseAnswered(i.attempts[j]) \/ (own \in Sockets /\ Replied(i.attempts[j].packets))
    BY <1>3, <1>4, <2>1, <2>3 DEF AttemptGives
  <2>5. next.shared # i.mode => /\ own \in Sockets /\ next.shared \notin Sockets
                                /\ \E j \in 1..k : i.attempts[j].error = "denied"
    <3>1. CASE t.switched
      BY <1>3, <1>4, <2>1, <2>3, <3>1 DEF AttemptGives
    <3>2. CASE ~t.switched
      BY <1>3, <2>3, <3>2 DEF Heard, own
    <3>3. QED
      BY <3>1, <3>2
  <2>6. ASSUME own \in Sockets, \A j \in 1..k : i.attempts[j].error = ""
        PROVE  /\ next.mode = own
               /\ \A j \in 1..k : Clear(i.attempts[j].packets) => next.result.ok
    <3>1. acc.mode = own /\ \A j \in 1..k - 1 : ~Clear(i.attempts[j].packets)
      BY <1>3, <1>6, <2>6 DEF Heard, own
    <3>2. a.error = ""
      BY <1>3, <2>6
    <3>3. next.mode = own /\ (Clear(a.packets) => next.result.ok)
      BY <2>1, <2>3, <2>6, <3>1, <3>2 DEF AttemptGives
    <3>4. QED
      BY <1>2, <3>1, <3>3
  <2>7. Heard(i, next, k)
    BY <2>4, <2>5, <2>6 DEF Heard, own
  <2>8. QED
    BY <2>7 DEF next
<1>7. QED
  BY <1>5, <1>6

LEMMA PingHears ==
    ASSUME NEW i, Pinged(i)
    PROVE  Heard(i, Ping(TRUE, i.v6, i.mode, i.hasPing, i.attempts), Len(i.attempts))
<1> DEFINE n == Len(i.attempts)
<1>1. n \in Nat
  BY DEF Pinged
<1>2. PICK h : PingRun(i, h)
  BY PingSteps
<1>3. \A k \in 0..n : h[k] \in PingsOf(i)
  BY <1>2 DEF PingRun
<1> DEFINE Good == {k \in Nat : k <= n => Heard(i, h[k], k)}
<1>4. 0 \in Good
  <2>1. h[0] = PingBegan(i)
    BY <1>2 DEF PingRun
  <2> DEFINE b == PingBegan(i)
  <2>2. ~b.result.ok /\ b.shared = i.mode /\ b.mode = OwnMode(i)
    BY PingBegins DEF PingBegan
  <2> HIDE DEF b
  <2>3. 1..0 = {}
    OBVIOUS
  <2>4. Heard(i, b, 0)
    BY <2>2, <2>3 DEF Heard
  <2>5. QED
    BY <2>1, <2>4 DEF b
<1>5. ASSUME NEW k \in Nat, k \in Good PROVE k + 1 \in Good
  <2> SUFFICES ASSUME k + 1 <= n PROVE Heard(i, h[k + 1], k + 1)
    OBVIOUS
  <2>1. k + 1 \in 1..n /\ k + 1 - 1 = k /\ k \in 0..n /\ Heard(i, h[k], k)
    BY <1>1, <1>5
  <2>2. h[k + 1] = PingStep(i.hasPing, h[k], i.attempts[k + 1])
    BY <1>2, <2>1 DEF PingRun
  <2>3. QED
    BY <1>3, <2>1, <2>2, HeardStep
<1> HIDE DEF Good
<1>6. Nat \subseteq Good
  BY <1>4, <1>5, Induction
<1>7. Heard(i, h[n], n)
  BY <1>1, <1>6 DEF Good
<1>8. QED
  BY <1>2, <1>7 DEF PingRun

Asked(mode, hasPing, v6, attempts) == [mode |-> mode, hasPing |-> hasPing, v6 |-> v6, attempts |-> attempts]

PingInv ==
    topic = "ping" => \E mode \in Modes, hasPing \in BOOLEAN, v6 \in BOOLEAN :
                         \E attempts \in Seq(AttemptsOf(mode)) : input = Asked(mode, hasPing, v6, attempts)

LEMMA PingsAnswered == PingInv /\ topic = "ping" => PingNeedsAnAnswer
<1> SUFFICES ASSUME PingInv, topic = "ping" PROVE PingNeedsAnAnswer
  OBVIOUS
<1>1. PICK mode \in Modes, hasPing \in BOOLEAN, v6 \in BOOLEAN :
        \E attempts \in Seq(AttemptsOf(mode)) : input = Asked(mode, hasPing, v6, attempts)
  BY DEF PingInv
<1>2. PICK attempts \in Seq(AttemptsOf(mode)) : input = Asked(mode, hasPing, v6, attempts)
  BY <1>1
<1>3. PICK i : i = input
  OBVIOUS
<1>4. Pinged(i)
  <2>1. i.mode = mode /\ i.hasPing = hasPing /\ i.v6 = v6 /\ i.attempts = attempts
    BY <1>2, <1>3 DEF Asked
  <2>2. QED
    BY <2>1 DEF Pinged
<1> DEFINE n == Len(i.attempts)
           ping == Ping(TRUE, i.v6, i.mode, i.hasPing, i.attempts)
           socket == i.mode \in {"raw", "dgram"}
<1>5. DOMAIN i.attempts = 1..n /\ Range(i.attempts) = {i.attempts[j] : j \in 1..n}
  BY <1>4 DEF Pinged, Range
<1>6. Heard(i, ping, n)
  BY <1>4, PingHears
<1>7. (OwnMode(i) \in Sockets <=> socket /\ ~i.v6) /\ (OwnMode(i) \in Sockets => socket)
  BY <1>4, OwnIs DEF Sockets
<1>8. ~Ping(FALSE, i.v6, i.mode, i.hasPing, i.attempts).result.ok
  BY DEF Ping, Down
<1> HIDE DEF ping, n
<1>9. ping.result.ok => \E a \in Range(i.attempts) : Answered(a, socket /\ ~i.v6)
  BY <1>5, <1>6, <1>7 DEF Heard, Answered, OtherwiseAnswered, Responded, Connected, Replied
<1>10. socket /\ ~i.v6 /\ (\A a \in Range(i.attempts) : a.error = "") /\ (\E a \in Range(i.attempts) : Clear(a.packets))
        => ping.result.ok
  <2>1. SUFFICES ASSUME OwnMode(i) \in Sockets, \A a \in Range(i.attempts) : a.error = "",
                        NEW a \in Range(i.attempts), Clear(a.packets)
                 PROVE  ping.result.ok
    BY <1>7
  <2>2. \A j \in 1..n : i.attempts[j].error = ""
    BY <1>5, <2>1
  <2>3. QED
    BY <1>5, <1>6, <2>1, <2>2 DEF Heard
<1>11. ping.shared # i.mode => /\ socket /\ ping.shared \notin {"raw", "dgram"}
                              /\ \E a \in Range(i.attempts) : a.error = "denied"
  BY <1>5, <1>6, <1>7 DEF Heard, Sockets
<1>12. QED
  BY <1>3, <1>8, <1>9, <1>10, <1>11 DEF PingNeedsAnAnswer, Clear, ping

LEMMA PingInitially == Init => PingInv
<1> SUFFICES ASSUME Init, topic = "ping"
             PROVE  \E mode \in Modes, hasPing \in BOOLEAN, v6 \in BOOLEAN :
                       \E attempts \in Seq(AttemptsOf(mode)) : input = Asked(mode, hasPing, v6, attempts)
  BY DEF PingInv
<1>1. BeginPing
  BY Begins DEF Init
<1>2. PICK forced \in {"", "tcp"}, raw, dgram, hasPing, v6 \in BOOLEAN :
        Begin("ping", [mode |-> DetectMode(forced, [windows |-> FALSE, raw |-> raw, dgram |-> dgram], hasPing),
                       hasPing |-> hasPing, v6 |-> v6, attempts |-> <<>>])
  BY <1>1 DEF BeginPing
<1> DEFINE mode == DetectMode(forced, [windows |-> FALSE, raw |-> raw, dgram |-> dgram], hasPing)
<1>3. mode \in Modes
  BY DEF DetectMode, Modes, Sockets
<1>4. input = Asked(mode, hasPing, v6, <<>>)
  BY <1>2 DEF Begin, Asked
<1> HIDE DEF mode
<1>5. <<>> \in Seq(AttemptsOf(mode))
  BY EmptySeq
<1>6. QED
  BY <1>3, <1>4, <1>5

LEMMA PingKept == PingInv /\ [Next]_vars => PingInv'
<1> SUFFICES ASSUME PingInv, [Next]_vars, topic' = "ping"
             PROVE  \E mode \in Modes, hasPing \in BOOLEAN, v6 \in BOOLEAN :
                       \E attempts \in Seq(AttemptsOf(mode)) : input' = Asked(mode, hasPing, v6, attempts)
  BY DEF PingInv, Asked, AttemptsOf, PacketsOf, Packets, Packet, Runs, Ports, Modes, Sockets
<1>1. CASE UNCHANGED vars
  BY <1>1 DEF vars, PingInv
<1>2. CASE Next
  <2>1. NextAttempt \/ PacketComes
    BY <1>2, Continues DEF Next
  <2>2. topic = "ping"
    BY <2>1 DEF NextAttempt, PacketComes
  <2>3. PICK mode \in Modes, hasPing \in BOOLEAN, v6 \in BOOLEAN :
          \E attempts \in Seq(AttemptsOf(mode)) : input = Asked(mode, hasPing, v6, attempts)
    BY <2>2 DEF PingInv
  <2>4. PICK attempts \in Seq(AttemptsOf(mode)) : input = Asked(mode, hasPing, v6, attempts)
    BY <2>3
  <2>5. input.mode = mode /\ input.attempts = attempts
    BY <2>4 DEF Asked
  <2>6. \E more \in Seq(AttemptsOf(mode)) : input' = Asked(mode, hasPing, v6, more)
    <3>1. CASE NextAttempt
      <4>1. PICK error \in {"", "unreachable", "denied"}, run \in Runs, ports \in Ports :
              input' = [input EXCEPT !.attempts = Append(@, [error |-> error, packets |-> <<>>, run |-> run, ports |-> ports])]
        BY <3>1 DEF NextAttempt, Continue
      <4> DEFINE a == [error |-> error, packets |-> <<>>, run |-> run, ports |-> ports]
      <4>2. a \in AttemptsOf(mode)
        <5>1. <<>> \in Seq(PacketsOf(mode))
          BY EmptySeq
        <5>2. QED
          BY <5>1 DEF AttemptsOf
      <4> HIDE DEF a
      <4>3. input' = Asked(mode, hasPing, v6, Append(attempts, a))
        BY <2>4, <4>1 DEF Asked, a
      <4>4. Append(attempts, a) \in Seq(AttemptsOf(mode))
        BY <4>2, AppendProperties
      <4>5. QED
        BY <4>3, <4>4
    <3>2. CASE PacketComes
      <4> DEFINE n == Len(attempts)
      <4>1. PICK p \in Packets : /\ n > 0 /\ (mode = "dgram" => p.target)
                                 /\ input' = [input EXCEPT !.attempts[n].packets = Append(@, p)]
        BY <2>5, <3>2 DEF PacketComes, Continue
      <4>2. p \in PacketsOf(mode)
        BY <4>1 DEF PacketsOf
      <4>3. n \in 1..Len(attempts) /\ attempts[n] \in AttemptsOf(mode)
        BY <4>1
      <4> HIDE DEF n
      <4> DEFINE a == [attempts[n] EXCEPT !.packets = Append(@, p)]
                 more == [attempts EXCEPT ![n] = a]
      <4>4. a \in AttemptsOf(mode)
        <5>1. attempts[n].packets \in Seq(PacketsOf(mode))
          BY <4>3 DEF AttemptsOf
        <5>2. Append(attempts[n].packets, p) \in Seq(PacketsOf(mode))
          BY <4>2, <5>1, AppendProperties
        <5> DEFINE heard == Append(attempts[n].packets, p)
        <5>3. a = [attempts[n] EXCEPT !.packets = heard]
          OBVIOUS
        <5> HIDE DEF heard, a
        <5>4. QED
          BY <4>3, <5>2, <5>3 DEF AttemptsOf, heard
      <4>5. input' = Asked(mode, hasPing, v6, more)
        BY <2>4, <4>1, <4>3 DEF Asked
      <4> HIDE DEF a
      <4>6. more \in Seq(AttemptsOf(mode))
        BY <4>3, <4>4
      <4> HIDE DEF more
      <4>7. QED
        BY <4>5, <4>6
    <3>3. QED
      BY <2>1, <3>1, <3>2
  <2>7. QED
    BY <2>6
<1>3. QED
  BY <1>1, <1>2

-----------------------------------------------------------------------------
(* Probes: SNMP.                                                           *)

Types == {"Null", "Counter32"}
Kinds == {Nothing, "int"}

AgentOf(agent) ==
    /\ agent.refuses \in SUBSET Range(Objects) /\ agent.dies \in Nat
    /\ \A o \in DOMAIN agent.holds : agent.holds[o] \in Types

Holds(agent, o) == o \in DOMAIN agent.holds /\ Converted(agent.holds[o]) # Nothing

LEMMA ValueIs ==
    ASSUME NEW agent, AgentOf(agent), NEW o
    PROVE  /\ Value(agent, o) \in Kinds
           /\ Value(agent, o) = Nothing => ~Holds(agent, o)
           /\ Value(agent, o) # Nothing => Holds(agent, o) /\ Value(agent, o) = Converted(agent.holds[o])
<1>1. CASE o \in DOMAIN agent.holds
  <2>1. agent.holds[o] \in Types /\ Value(agent, o) = Converted(agent.holds[o])
    BY <1>1 DEF AgentOf, Value
  <2>2. Converted(agent.holds[o]) \in Kinds
    BY <2>1 DEF Converted, Types, Kinds, Nothing
  <2>3. QED
    BY <1>1, <2>1, <2>2 DEF Holds
<1>2. CASE o \notin DOMAIN agent.holds
  BY <1>2 DEF Value, Converted, Holds, Kinds
<1>3. QED
  BY <1>1, <1>2

LEMMA AnswerIs ==
    ASSUME NEW agent, AgentOf(agent), NEW chunk, NEW n \in Nat
    PROVE  LET a == Answer(agent, chunk, n)
           IN  /\ a \in {"timeout", "genErr", "noSuchName", "values"}
               /\ a = "timeout" => agent.dies < n
               /\ a = "genErr" => \E o \in Range(chunk) : o \in agent.refuses
               /\ a = "noSuchName" => \E o \in Range(chunk) : o \notin DOMAIN agent.holds
               /\ a = "values" => n <= agent.dies /\ \A o \in Range(chunk) : o \notin agent.refuses
  BY DEF Answer, AgentOf

LEMMA RangeOfOne == ASSUME NEW o PROVE Range(<<o>>) = {o} /\ Len(<<o>>) = 1
  BY DEF Range

\* A value that a call with that many PDUs may give.
Fits(agent, o, v, sent) ==
    IF v = Nothing THEN ~Holds(agent, o) \/ o \in agent.refuses \/ agent.dies < sent
    ELSE /\ Holds(agent, o) /\ v = Converted(agent.holds[o])
         /\ o \notin agent.refuses /\ agent.dies > 0

LEMMA FitsLater ==
    ASSUME NEW agent, AgentOf(agent), NEW o, NEW v, NEW sent \in Nat, NEW later \in Nat, sent <= later,
           Fits(agent, o, v, sent)
    PROVE  Fits(agent, o, v, later)
  BY DEF Fits, AgentOf

LEMMA GetOneIs ==
    ASSUME NEW agent, AgentOf(agent), NEW o, NEW n \in Nat \ {0}
    PROVE  GetOne(agent, o, n).value \in Kinds /\ Fits(agent, o, GetOne(agent, o, n).value, n)
<1> DEFINE a == Answer(agent, <<o>>, n)
           got == GetOne(agent, o, n)
<1>1. Range(<<o>>) = {o}
  BY RangeOfOne
<1>2. /\ a \in {"timeout", "genErr", "noSuchName", "values"}
      /\ a = "timeout" => agent.dies < n
      /\ a = "genErr" => o \in agent.refuses
      /\ a = "noSuchName" => o \notin DOMAIN agent.holds
      /\ a = "values" => n <= agent.dies /\ o \notin agent.refuses
  BY <1>1, AnswerIs
<1>3. got.value = IF a = "values" THEN Value(agent, o) ELSE Nothing
  BY DEF GetOne
<1>4. agent.dies \in Nat
  BY DEF AgentOf
<1> HIDE DEF a, got
<1>5. CASE a = "values"
  <2>1. got.value = Value(agent, o)
    BY <1>3, <1>5
  <2>2. got.value \in Kinds
    BY <2>1, ValueIs
  <2>3. n <= agent.dies /\ o \notin agent.refuses /\ agent.dies > 0
    BY <1>2, <1>4, <1>5
  <2>4. Fits(agent, o, got.value, n)
    BY <2>1, <2>3, ValueIs DEF Fits
  <2>5. QED
    BY <2>2, <2>4 DEF got
<1>6. CASE a # "values"
  <2>1. got.value = Nothing
    BY <1>3, <1>6
  <2>2. Fits(agent, o, got.value, n)
    BY <1>2, <1>6, <2>1 DEF Fits, Holds
  <2>3. QED
    BY <2>1, <2>2 DEF got, Kinds
<1>7. QED
  BY <1>5, <1>6

\* The states of a call.
Calls == [values: UNION {[D -> Kinds] : D \in SUBSET Range(Objects)}, sent: Nat, raised: BOOLEAN]

LEMMA CallIs ==
    ASSUME NEW acc \in Calls
    PROVE  /\ acc = [values |-> acc.values, sent |-> acc.sent, raised |-> acc.raised]
           /\ DOMAIN acc.values \in SUBSET Range(Objects)
           /\ acc.values \in [DOMAIN acc.values -> Kinds] /\ acc.sent \in Nat /\ acc.raised \in BOOLEAN
<1>1. acc.values \in UNION {[D -> Kinds] : D \in SUBSET Range(Objects)} /\ acc.sent \in Nat /\ acc.raised \in BOOLEAN
      /\ acc = [values |-> acc.values, sent |-> acc.sent, raised |-> acc.raised]
  BY DEF Calls
<1>2. PICK D \in SUBSET Range(Objects) : acc.values \in [D -> Kinds]
  BY <1>1
<1>3. DOMAIN acc.values = D
  BY <1>2
<1>4. QED
  BY <1>1, <1>2, <1>3

LEMMA CallMade ==
    ASSUME NEW D \in SUBSET Range(Objects), NEW values \in [D -> Kinds], NEW sent \in Nat, NEW raised \in BOOLEAN
    PROVE  [values |-> values, sent |-> sent, raised |-> raised] \in Calls
<1>1. values \in UNION {[E -> Kinds] : E \in SUBSET Range(Objects)}
  OBVIOUS
<1>2. QED
  BY <1>1 DEF Calls

LEMMA ExtendedIs ==
    ASSUME NEW acc \in Calls, NEW E \in SUBSET Range(Objects), NEW more \in [E -> Kinds]
    PROVE  /\ Extended(acc, more) \in [DOMAIN acc.values \cup E -> Kinds]
           /\ \A o \in DOMAIN acc.values \cup E :
                 Extended(acc, more)[o] = IF o \in E THEN more[o] ELSE acc.values[o]
<1>1. acc.values \in [DOMAIN acc.values -> Kinds] /\ DOMAIN more = E
  BY CallIs
<1> DEFINE D == DOMAIN acc.values
           f == [o \in D \cup E |-> IF o \in E THEN more[o] ELSE acc.values[o]]
<1>2. Extended(acc, more) = f
  BY <1>1 DEF Extended
<1>3. \A o \in D \cup E : f[o] = IF o \in E THEN more[o] ELSE acc.values[o]
  OBVIOUS
<1>4. \A o \in D \cup E : (IF o \in E THEN more[o] ELSE acc.values[o]) \in Kinds
  BY <1>1
<1>5. f \in [D \cup E -> Kinds]
  BY <1>4
<1> HIDE DEF f
<1>6. QED
  BY <1>2, <1>3, <1>5

\* What a call owes when the objects done have been asked for.
Owes(agent, acc, done) ==
    /\ acc.raised => agent.dies < acc.sent \/ agent.refuses # {}
    /\ ~acc.raised => /\ DOMAIN acc.values = done
                      /\ \A o \in done : Fits(agent, o, acc.values[o], acc.sent)

LEMMA OwesMore ==
    ASSUME NEW agent, AgentOf(agent), NEW acc \in Calls, NEW done, Owes(agent, acc, done), ~acc.raised,
           NEW E \in SUBSET Range(Objects), NEW more \in [E -> Kinds], NEW sent \in Nat, acc.sent <= sent,
           \A o \in E : Fits(agent, o, more[o], sent)
    PROVE  LET next == [values |-> Extended(acc, more), sent |-> sent, raised |-> FALSE]
           IN  next \in Calls /\ Owes(agent, next, done \cup E)
<1> DEFINE f == Extended(acc, more)
           next == [values |-> f, sent |-> sent, raised |-> FALSE]
<1>1. DOMAIN acc.values = done /\ done \in SUBSET Range(Objects) /\ acc.sent \in Nat
      /\ \A o \in done : Fits(agent, o, acc.values[o], acc.sent)
  BY CallIs DEF Owes
<1>2. f \in [done \cup E -> Kinds] /\ \A o \in done \cup E : f[o] = IF o \in E THEN more[o] ELSE acc.values[o]
  BY <1>1, ExtendedIs
<1> HIDE DEF f
<1>3. next \in Calls
  BY <1>1, <1>2, CallMade
<1>4. \A o \in done \cup E : Fits(agent, o, f[o], sent)
  BY <1>1, <1>2, FitsLater
<1>5. next.values = f /\ next.sent = sent /\ next.raised = FALSE /\ DOMAIN f = done \cup E
  BY <1>2
<1> HIDE DEF next
<1>6. Owes(agent, next, done \cup E)
  BY <1>4, <1>5 DEF Owes
<1>7. QED
  BY <1>3, <1>6 DEF next, f

OneStep(agent, a, o) ==
    [a EXCEPT !.sent = @ + 1, !.values = Extended(a, [x \in {o} |-> GetOne(agent, o, a.sent + 1).value])]

LEMMA OneStepIs ==
    ASSUME NEW agent, AgentOf(agent), NEW a \in Calls, NEW o \in Range(Objects)
    PROVE  /\ OneStep(agent, a, o) \in Calls
           /\ \A done : ~a.raised /\ Owes(agent, a, done) =>
                 ~OneStep(agent, a, o).raised /\ Owes(agent, OneStep(agent, a, o), done \cup {o})
<1> DEFINE v == GetOne(agent, o, a.sent + 1).value
           more == [x \in {o} |-> v]
           f == Extended(a, more)
           sent == a.sent + 1
           next == [values |-> f, sent |-> sent, raised |-> a.raised]
<1>1. a.sent \in Nat /\ a.raised \in BOOLEAN /\ sent \in Nat \ {0} /\ a.sent <= sent
      /\ DOMAIN a.values \in SUBSET Range(Objects)
  BY CallIs
<1>2. v \in Kinds /\ Fits(agent, o, v, sent)
  BY <1>1, GetOneIs
<1>3. OneStep(agent, a, o) = next
  <2>1. OneStep(agent, a, o) = [a EXCEPT !.sent = @ + 1, !.values = f]
    BY DEF OneStep
  <2>2. a = [values |-> a.values, sent |-> a.sent, raised |-> a.raised]
    BY CallIs
  <2> HIDE DEF f
  <2>3. QED
    BY <2>1, <2>2
<1> HIDE DEF v
<1>4. more \in [{o} -> Kinds] /\ {o} \in SUBSET Range(Objects) /\ more[o] = v
  BY <1>2
<1> HIDE DEF more, sent
<1>5. next \in Calls
  <2>1. f \in [DOMAIN a.values \cup {o} -> Kinds]
    BY <1>4, ExtendedIs
  <2>2. DOMAIN a.values \cup {o} \in SUBSET Range(Objects)
    BY <1>1
  <2> HIDE DEF f
  <2>3. QED
    BY <1>1, <2>1, <2>2, CallMade
<1>6. ASSUME NEW done, ~a.raised, Owes(agent, a, done)
      PROVE  ~next.raised /\ Owes(agent, next, done \cup {o})
  <2>1. \A x \in {o} : Fits(agent, x, more[x], sent)
    BY <1>2, <1>4
  <2> DEFINE said == [values |-> f, sent |-> sent, raised |-> FALSE]
  <2>2. Owes(agent, said, done \cup {o})
    BY <1>1, <1>4, <1>6, <2>1, OwesMore
  <2>3. a.raised = FALSE
    BY <1>1, <1>6
  <2>4. next = said /\ next.raised = FALSE
    BY <2>3
  <2>5. QED
    BY <2>2, <2>4
<1> HIDE DEF next
<1>7. QED
  BY <1>3, <1>5, <1>6

\* A retry object by object.
LEMMA OneByOneSteps ==
    ASSUME NEW agent, AgentOf(agent), NEW s \in Seq(Range(Objects)), NEW base \in Calls
    PROVE  \E h \in [0..Len(s) -> Calls] : /\ h[0] = base /\ h[Len(s)] = OneByOne(agent, s, base)
                                          /\ \A k \in 1..Len(s) : h[k] = OneStep(agent, h[k - 1], s[k])
<1> DEFINE n == Len(s)
           V == Calls
           step == [k \in 1..n |-> [v \in V |-> OneStep(agent, v, s[k])]]
           Eq(f) == f = [t \in SUBSET (DOMAIN s) |-> IF t = {} THEN base
                                                     ELSE OneStep(agent, f[t \ {Max(t)}], s[Max(t)])]
           F == CHOOSE f : Eq(f)
<1>1. n \in Nat /\ DOMAIN s = 1..n /\ (\A k \in 1..n : s[k] \in Range(Objects)) /\ base \in V
  OBVIOUS
<1>2. OneByOne(agent, s, base) = F[DOMAIN s]
  BY DEF OneByOne, FoldLeft, MapThenFoldSet, OneStep
<1> HIDE DEF n
<1>3. step \in [1..n -> [V -> V]] /\ \A k \in 1..n : \A v \in V : step[k][v] = OneStep(agent, v, s[k])
  BY <1>1, OneStepIs
<1> HIDE DEF step, V
<1>4. \E f : Eq(f)
  <2>1. PICK iter \in [SUBSET (1..n) -> V] : Folded(iter, n, base, step)
    BY <1>1, <1>3, FoldExists DEF HasFold
  <2>2. \A t \in SUBSET (1..n) :
            t # {} => step[Max(t)][iter[t \ {Max(t)}]] = OneStep(agent, iter[t \ {Max(t)}], s[Max(t)])
    BY <1>1, <1>3, LastOf
  <2>3. Eq(iter)
    BY <1>1, <2>1, <2>2 DEF Folded
  <2>4. QED
    BY <2>3
<1>5. Eq(F)
  BY <1>4
<1> HIDE DEF F
<1>6. F[{}] = base /\ \A t \in SUBSET (1..n) : t # {} => F[t] = OneStep(agent, F[t \ {Max(t)}], s[Max(t)])
  BY <1>1, <1>5
<1>7. Unfolds(F, V, n, base, step)
  BY <1>1, <1>3, <1>6, LastOf DEF Unfolds
<1>8. HasPrefixes(V, n, base, step, F[1..n])
  BY <1>1, <1>3, <1>7, FoldPrefixes
<1>9. PICK h \in [0..n -> V] : h[0] = base /\ h[n] = F[1..n] /\ \A k \in 1..n : h[k] = step[k][h[k - 1]]
  BY <1>8 DEF HasPrefixes
<1>10. \A k \in 1..n : h[k] = OneStep(agent, h[k - 1], s[k])
  <2>1. \A k \in 1..n : h[k - 1] \in V
    BY <1>1
  <2>2. QED
    BY <1>3, <1>9, <2>1
<1>11. h[n] = OneByOne(agent, s, base)
  BY <1>1, <1>2, <1>9
<1>12. QED
  BY <1>9, <1>10, <1>11 DEF n, V

LEMMA OneByOneIs ==
    ASSUME NEW agent, AgentOf(agent), NEW s \in Seq(Range(Objects)), NEW base \in Calls
    PROVE  /\ OneByOne(agent, s, base) \in Calls
           /\ \A done : ~base.raised /\ Owes(agent, base, done) =>
                 Owes(agent, OneByOne(agent, s, base), done \cup Range(s))
<1> DEFINE n == Len(s)
           All == OneByOne(agent, s, base)
<1>1. PICK h \in [0..n -> Calls] : h[0] = base /\ h[n] = All /\ \A k \in 1..n : h[k] = OneStep(agent, h[k - 1], s[k])
  BY OneByOneSteps
<1>2. n \in Nat /\ DOMAIN s = 1..n /\ \A k \in 1..n : s[k] \in Range(Objects)
  OBVIOUS
<1> HIDE DEF n, All
<1>3. \A k \in 0..n : h[k] \in Calls
  OBVIOUS
<1>4. ASSUME NEW done, ~base.raised, Owes(agent, base, done) PROVE Owes(agent, All, done \cup Range(s))
  <2> DEFINE some(k) == done \cup {s[j] : j \in 1..k}
             Good == {k \in Nat : k <= n => ~h[k].raised /\ Owes(agent, h[k], some(k))}
  <2>1. 0 \in Good
    <3>1. some(0) = done
      OBVIOUS
    <3> HIDE DEF some
    <3>2. QED
      BY <1>1, <1>4, <3>1
  <2>2. ASSUME NEW k \in Nat, k \in Good PROVE k + 1 \in Good
    <3> SUFFICES ASSUME k + 1 <= n PROVE ~h[k + 1].raised /\ Owes(agent, h[k + 1], some(k + 1))
      OBVIOUS
    <3>1. k + 1 \in 1..n /\ k + 1 - 1 = k /\ k \in 0..n
      BY <1>2
    <3>2. h[k + 1] = OneStep(agent, h[k], s[k + 1]) /\ h[k] \in Calls /\ s[k + 1] \in Range(Objects)
      BY <1>1, <1>2, <1>3, <3>1
    <3>3. ~h[k].raised /\ Owes(agent, h[k], some(k))
      BY <2>2, <3>1
    <3>4. some(k + 1) = some(k) \cup {s[k + 1]}
      <4>1. \A j : j \in 1..k + 1 <=> j \in 1..k \/ j = k + 1
        OBVIOUS
      <4>2. QED
        BY <4>1
    <3> DEFINE d == some(k)
    <3>5. ~h[k].raised /\ Owes(agent, h[k], d) /\ some(k + 1) = d \cup {s[k + 1]}
      BY <3>3, <3>4
    <3> HIDE DEF d, some
    <3>6. ~OneStep(agent, h[k], s[k + 1]).raised /\ Owes(agent, OneStep(agent, h[k], s[k + 1]), d \cup {s[k + 1]})
      BY <3>2, <3>5, OneStepIs
    <3>7. QED
      BY <3>2, <3>5, <3>6
  <2> HIDE DEF Good
  <2>3. Nat \subseteq Good
    BY <2>1, <2>2, Induction
  <2>4. Owes(agent, h[n], some(n))
    BY <1>2, <2>3 DEF Good
  <2>5. some(n) = done \cup Range(s)
    BY <1>2 DEF Range
  <2>6. QED
    BY <1>1, <2>4, <2>5
<1>5. All \in Calls
  BY <1>1, <1>2, <1>3
<1>6. QED
  BY <1>4, <1>5 DEF All

LEMMA GetChunkIs ==
    ASSUME NEW agent, AgentOf(agent), NEW acc \in Calls, NEW chunk \in Seq(Range(Objects))
    PROVE  /\ GetChunk(agent, acc, chunk) \in Calls
           /\ \A done \in SUBSET Range(Objects) : Owes(agent, acc, done) =>
                 Owes(agent, GetChunk(agent, acc, chunk), done \cup Range(chunk))
<1> DEFINE n == acc.sent + 1
           sent == [acc EXCEPT !.sent = @ + 1]
           answer == Answer(agent, chunk, n)
           next == GetChunk(agent, acc, chunk)
           E == Range(chunk)
<1>1. acc = [values |-> acc.values, sent |-> acc.sent, raised |-> acc.raised] /\ acc.sent \in Nat /\ n \in Nat /\ n > 0
      /\ acc.sent <= n /\ DOMAIN acc.values \in SUBSET Range(Objects) /\ acc.values \in [DOMAIN acc.values -> Kinds]
      /\ acc.raised \in BOOLEAN
  BY CallIs
<1>2. /\ answer \in {"timeout", "genErr", "noSuchName", "values"}
      /\ answer = "timeout" => agent.dies < n
      /\ answer = "genErr" => \E o \in E : o \in agent.refuses
      /\ answer = "noSuchName" => \E o \in E : o \notin DOMAIN agent.holds
      /\ answer = "values" => n <= agent.dies /\ \A o \in E : o \notin agent.refuses
  BY <1>1, AnswerIs
<1>3. E \in SUBSET Range(Objects)
  BY DEF Range
<1>4. sent = [values |-> acc.values, sent |-> n, raised |-> acc.raised] /\ sent.sent = n
  BY <1>1
<1> DEFINE raised == [values |-> acc.values, sent |-> n, raised |-> TRUE]
           gives(f) == [values |-> f, sent |-> n, raised |-> acc.raised]
           nothing == [x \in E |-> Nothing]
           values == Values(agent, chunk)
<1> HIDE DEF sent, n
<1>5. /\ [sent EXCEPT !.raised = TRUE] = raised
      /\ [sent EXCEPT !.values = Extended(acc, values)] = gives(Extended(acc, values))
      /\ [sent EXCEPT !.values = Extended(acc, nothing)] = gives(Extended(acc, nothing))
  <2>1. sent = [values |-> acc.values, sent |-> n, raised |-> acc.raised]
    BY <1>4
  <2>2. ASSUME NEW f PROVE [sent EXCEPT !.values = f] = gives(f)
    BY <2>1
  <2>3. ASSUME NEW b PROVE [sent EXCEPT !.raised = b] = [values |-> acc.values, sent |-> n, raised |-> b]
    BY <2>1
  <2>4. [sent EXCEPT !.raised = TRUE] = raised
    BY <2>3
  <2> HIDE DEF gives, values, nothing, raised
  <2>5. QED
    BY <2>2, <2>4
<1>6. agent.dies < n \/ agent.refuses # {} => \A done : Owes(agent, raised, done)
  <2>1. raised.raised = TRUE /\ raised.sent = n
    OBVIOUS
  <2> HIDE DEF raised, n
  <2>2. QED
    BY <2>1 DEF Owes
<1>7. raised \in Calls /\ sent \in Calls
  BY <1>1, <1>4, CallMade
<1> DEFINE l == Len(chunk)
<1>8. next = IF acc.raised THEN acc
              ELSE CASE answer = "timeout" -> [sent EXCEPT !.raised = TRUE]
                     [] answer = "values"  -> [sent EXCEPT !.values = Extended(acc, values)]
                     [] answer \in {"genErr", "noSuchName"} /\ l > 1 -> OneByOne(agent, chunk, sent)
                     [] answer = "noSuchName" /\ l = 1 -> [sent EXCEPT !.values = Extended(acc, nothing)]
                     [] OTHER -> [sent EXCEPT !.raised = TRUE]
  BY <1>4 DEF GetChunk, sent
<1>9. l \in Nat /\ (l = 0 => E = {}) /\ (l = 1 => E = {chunk[1]})
  BY DEF Range
<1> HIDE DEF next, answer, l
<1>10. CASE acc.raised
  <2>1. next = acc
    BY <1>10, <1>8
  <2>2. QED
    BY <1>10, <2>1 DEF Owes, next
<1>11. CASE ~acc.raised
  <2>1. CASE answer = "timeout"
    <3>1. next = raised
      BY <1>5, <1>11, <1>8, <2>1
    <3>2. QED
      BY <1>2, <1>6, <1>7, <2>1, <3>1 DEF next
  <2>2. CASE answer = "values"
    <3>1. next = gives(Extended(acc, values))
      BY <1>5, <1>11, <1>8, <2>2
    <3>2. values \in [E -> Kinds] /\ \A o \in E : values[o] = Value(agent, o)
      BY ValueIs DEF Values
    <3>3. \A o \in E : Fits(agent, o, values[o], n)
      <4>1. n <= agent.dies /\ agent.dies > 0 /\ \A o \in E : o \notin agent.refuses
        BY <1>1, <1>2, <2>2 DEF AgentOf
      <4>2. QED
        BY <3>2, <4>1, ValueIs DEF Fits
    <3>4. acc.raised = FALSE
      BY <1>1, <1>11
    <3> HIDE DEF values, E
    <3>5. next = [values |-> Extended(acc, values), sent |-> n, raised |-> FALSE]
      BY <3>1, <3>4
    <3>6. ASSUME NEW done \in SUBSET Range(Objects), Owes(agent, acc, done)
          PROVE  Owes(agent, next, done \cup E)
      BY <1>1, <1>3, <1>11, <3>2, <3>3, <3>5, <3>6, OwesMore
    <3>7. next \in Calls
      <4>1. Extended(acc, values) \in [DOMAIN acc.values \cup E -> Kinds]
        BY <1>3, <3>2, ExtendedIs
      <4>2. QED
        BY <1>1, <1>3, <3>5, <4>1, CallMade
    <3>8. QED
      BY <3>6, <3>7 DEF next, E
  <2>3. CASE answer \in {"genErr", "noSuchName"} /\ l > 1
    <3>1. next = OneByOne(agent, chunk, sent)
      BY <1>11, <1>8, <2>3
    <3>2. ASSUME NEW done \in SUBSET Range(Objects), Owes(agent, acc, done) PROVE ~sent.raised /\ Owes(agent, sent, done)
      <4>1. sent.values = acc.values /\ sent.raised = acc.raised
        BY <1>4
      <4> HIDE DEF sent, n
      <4>2. DOMAIN acc.values = done /\ \A o \in done : Fits(agent, o, acc.values[o], n)
        BY <1>1, <1>11, <3>2, FitsLater DEF Owes
      <4>3. QED
        BY <1>4, <1>11, <4>1, <4>2 DEF Owes
    <3> HIDE DEF sent
    <3>3. QED
      BY <1>7, <3>1, <3>2, OneByOneIs DEF next
  <2>4. CASE answer = "noSuchName" /\ l = 1
    <3>1. next = gives(Extended(acc, nothing))
      BY <1>5, <1>11, <1>8, <2>4
    <3>2. nothing \in [E -> Kinds] /\ \A o \in E : nothing[o] = Nothing
      BY DEF Kinds
    <3>3. \A o \in E : Fits(agent, o, nothing[o], n)
      <4>1. E = {chunk[1]}
        BY <1>9, <2>4
      <4>2. \A o \in E : o \notin DOMAIN agent.holds
        BY <1>2, <2>4, <4>1
      <4>3. QED
        BY <3>2, <4>2 DEF Fits, Holds
    <3>4. acc.raised = FALSE
      BY <1>1, <1>11
    <3> HIDE DEF nothing, E
    <3>5. next = [values |-> Extended(acc, nothing), sent |-> n, raised |-> FALSE]
      BY <3>1, <3>4
    <3>6. ASSUME NEW done \in SUBSET Range(Objects), Owes(agent, acc, done)
          PROVE  Owes(agent, next, done \cup E)
      BY <1>1, <1>3, <1>11, <3>2, <3>3, <3>5, <3>6, OwesMore
    <3>7. next \in Calls
      <4>1. Extended(acc, nothing) \in [DOMAIN acc.values \cup E -> Kinds]
        BY <1>3, <3>2, ExtendedIs
      <4>2. QED
        BY <1>1, <1>3, <3>5, <4>1, CallMade
    <3>8. QED
      BY <3>6, <3>7 DEF next, E
  <2>5. CASE answer \notin {"timeout", "values"} /\ ~(l > 1) /\ ~(answer = "noSuchName" /\ l = 1)
    <3>1. next = raised
      BY <1>5, <1>11, <1>8, <2>5
    <3>2. answer = "genErr"
      <4> HIDE DEF E
      <4>1. answer = "noSuchName" => l = 0
        BY <1>9, <2>5
      <4>2. answer # "noSuchName"
        BY <1>2, <1>9, <4>1
      <4>3. QED
        BY <1>2, <2>5, <4>2
    <3>3. agent.refuses # {}
      BY <1>2, <3>2
    <3>4. QED
      BY <1>6, <1>7, <3>1, <3>3 DEF next
  <2>6. QED
    BY <1>2, <2>1, <2>2, <2>3, <2>4, <2>5
<1>12. QED
  BY <1>10, <1>11

LEMMA Quotients ==
    ASSUME NEW p \in Nat \ {0}, NEW t \in Int
    PROVE  t \div p \in Int /\ (t \div p) * p <= t /\ t < (t \div p) * p + p /\ (t >= 0 => t \div p >= 0)
<1> DEFINE q == t \div p
<1>1. q \in Int /\ t = p * q + (t % p) /\ t % p \in 0..p - 1
  OBVIOUS
<1> HIDE DEF q
<1>2. p * q = q * p /\ q * p \in Int
  BY <1>1
<1> DEFINE x == q * p
<1>3. q < 0 => x + p <= 0
  <2>1. 0 * p = 0
    OBVIOUS
  <2>2. q < 0 => q * p + p <= 0 * p
    BY <1>1, Products
  <2>3. QED
    BY <2>1, <2>2
<1>4. x \in Int /\ x <= t /\ t < x + p
  BY <1>1, <1>2
<1> HIDE DEF x
<1>5. t >= 0 => q >= 0
  BY <1>1, <1>3, <1>4
<1>6. QED
  BY <1>1, <1>4, <1>5 DEF q, x

\* The PDUs of a call hold what it is asked for.
LEMMA ChunksAre ==
    ASSUME NEW oids \in Seq(Range(Objects))
    PROVE  LET c == Chunks(oids)
           IN  /\ c \in Seq(Seq(Range(Objects)))
               /\ Range(oids) = UNION {Range(c[k]) : k \in 1..Len(c)}
<1> DEFINE L == Len(oids)
           p == GetBatch
           m == (L + p - 1) \div p
           hi(k) == IF k * p < L THEN k * p ELSE L
           chunk(k) == SubSeq(oids, ((k - 1) * p) + 1, hi(k))
           c == Chunks(oids)
<1>1. p \in Nat \ {0} /\ L \in Nat /\ DOMAIN oids = 1..L /\ \A i \in 1..L : oids[i] \in Range(Objects)
  BY BatchAssumption
<1>2. c = [k \in 1..m |-> chunk(k)]
  BY DEF Chunks
<1> HIDE DEF L, p, c
<1>3. m \in Int /\ m * p \in Int /\ m * p <= L + p - 1 /\ L + p - 1 < m * p + p /\ m >= 0
  <2>1. L + p - 1 \in Int /\ L + p - 1 >= 0
    BY <1>1
  <2>2. m \in Int /\ m * p <= L + p - 1 /\ L + p - 1 < m * p + p /\ m >= 0
    BY <1>1, <2>1, Quotients
  <2>3. m * p \in Int
    BY <1>1, <2>2
  <2>4. QED
    BY <2>2, <2>3
<1> HIDE DEF m
<1>4. ASSUME NEW k \in 1..m
      PROVE  /\ chunk(k) \in Seq(Range(Objects))
             /\ Range(chunk(k)) = {oids[i] : i \in ((k - 1) * p) + 1..hi(k)}
             /\ ((k - 1) * p) + 1 >= 1 /\ hi(k) <= L /\ hi(k) \in Int
  <2> DEFINE x == k * p
             y == (k - 1) * p
             first == y + 1
             last == hi(k)
  <2>1. x \in Int /\ y \in Int /\ y = x - p /\ y >= 0 /\ y < L
    <3>1. k \in Int /\ x \in Int /\ y = x - p
      BY <1>1, <1>3, Products
    <3>2. k # m => x + p <= m * p
      BY <1>1, <1>3, <3>1, Products
    <3>3. k # 1 => 1 * p + p <= x
      BY <1>1, <1>3, <3>1, Products
    <3>4. 1 * p = p /\ (k = 1 => x = p)
      BY <1>1
    <3>5. k = m => x = m * p
      OBVIOUS
    <3> HIDE DEF x, y
    <3> DEFINE z == m * p
    <3>6. x <= z
      <4>1. z \in Int /\ (k # m => x + p <= z) /\ (k = m => x = z)
        BY <1>3, <3>2, <3>5
      <4> HIDE DEF z
      <4>2. QED
        BY <1>1, <3>1, <4>1
    <3>7. p <= x
      BY <1>1, <3>1, <3>3, <3>4
    <3>8. z \in Int /\ z <= L + p - 1
      BY <1>3
    <3> HIDE DEF z
    <3>9. QED
      BY <1>1, <3>1, <3>6, <3>7, <3>8
  <2>2. last = IF x < L THEN x ELSE L
    OBVIOUS
  <2>3. chunk(k) = SubSeq(oids, first, last)
    OBVIOUS
  <2> HIDE DEF x, y, hi
  <2>4. first \in Int /\ last \in Int /\ first >= 1 /\ last <= L /\ first <= last
    BY <1>1, <2>1, <2>2
  <2> HIDE DEF first, last, chunk
  <2>5. \A i \in first..last : i \in 1..L /\ oids[i] \in Range(Objects)
    BY <1>1, <2>4
  <2> DEFINE s == chunk(k)
  <2>6. /\ s \in Seq(Range(Objects)) /\ Len(s) = last - first + 1
        /\ \A i \in 1..last - first + 1 : s[i] = oids[first + i - 1]
    BY <2>3, <2>4, <2>5, SubSeqProperties
  <2> HIDE DEF s
  <2>7. Range(s) = {oids[i] : i \in first..last}
    <3>1. DOMAIN s = 1..last - first + 1
      BY <2>6
    <3>2. \A i \in 1..last - first + 1 : first + i - 1 \in first..last
      BY <2>4
    <3>3. \A i \in first..last : i - first + 1 \in 1..last - first + 1 /\ first + (i - first + 1) - 1 = i
      BY <2>4
    <3>4. \A i \in first..last : s[i - first + 1] = oids[i]
      BY <2>6, <3>3
    <3>5. Range(s) = {s[i] : i \in 1..last - first + 1}
      BY <3>1 DEF Range
    <3>6. \A o \in Range(s) : o \in {oids[i] : i \in first..last}
      BY <2>6, <3>2, <3>5
    <3>7. \A i \in first..last : oids[i] \in Range(s)
      BY <3>3, <3>4, <3>5
    <3>8. QED
      BY <3>6, <3>7
  <2>8. QED
    BY <2>4, <2>6, <2>7 DEF s, first, y, last
<1>5. c \in Seq(Seq(Range(Objects))) /\ Len(c) = m
  <2> HIDE DEF chunk
  <2>1. c \in [1..m -> Seq(Range(Objects))]
    BY <1>2, <1>4
  <2>2. QED
    BY <1>3, <2>1
<1>6. ASSUME NEW k \in 1..m PROVE c[k] = chunk(k)
  BY <1>2
<1>7. ASSUME NEW i \in 1..L PROVE \E k \in 1..m : i \in ((k - 1) * p) + 1..hi(k)
  <2> DEFINE q == (i - 1) \div p
             k == q + 1
             x == k * p
             y == q * p
             z == m * p
  <2>1. q \in Int /\ q >= 0 /\ y <= i - 1 /\ i - 1 < y + p
    BY <1>1, Quotients
  <2> HIDE DEF q
  <2>2. y \in Int /\ x = y + p /\ x \in Int /\ (k - 1) * p = y
    <3>1. q * p \in Int /\ (q + 1) * p = q * p + p /\ k - 1 = q
      BY <1>1, <2>1, Products
    <3>2. QED
      BY <1>1, <3>1
  <2>3. z \in Int /\ L + p - 1 < z + p
    BY <1>3
  <2>4. q >= m => z <= y
    <3>1. m < q => z + p <= y
      BY <1>1, <1>3, <2>1, Products
    <3>2. m = q => z = y
      OBVIOUS
    <3> HIDE DEF z, y
    <3>3. QED
      BY <1>1, <1>3, <2>1, <2>2, <2>3, <3>1, <3>2
  <2> HIDE DEF x, y, z
  <2>5. q < m
    BY <1>1, <1>3, <2>1, <2>2, <2>3, <2>4
  <2>6. k \in 1..m
    BY <1>3, <2>1, <2>5
  <2>7. hi(k) = IF x < L THEN x ELSE L
    BY DEF x
  <2> HIDE DEF hi, k
  <2>8. i \in y + 1..hi(k)
    BY <1>1, <2>1, <2>2, <2>7
  <2>9. QED
    BY <2>2, <2>6, <2>8
<1>8. Range(oids) = UNION {Range(c[k]) : k \in 1..m}
  <2>1. Range(oids) = {oids[i] : i \in 1..L}
    BY <1>1 DEF Range
  <2>2. ASSUME NEW k \in 1..m, NEW o \in Range(c[k]) PROVE o \in Range(oids)
    <3> DEFINE first == ((k - 1) * p) + 1
               last == hi(k)
    <3>1. o \in {oids[i] : i \in first..last} /\ first >= 1 /\ last <= L /\ last \in Int
      BY <1>4, <1>6, <2>2
    <3>2. first \in Int
      BY <1>1, <1>3, Products
    <3> HIDE DEF first, last
    <3>3. PICK i \in first..last : o = oids[i]
      BY <3>1
    <3>4. i \in 1..L
      BY <1>1, <3>1, <3>2
    <3>5. QED
      BY <2>1, <3>3, <3>4
  <2>3. ASSUME NEW i \in 1..L PROVE \E k \in 1..m : oids[i] \in Range(c[k])
    <3>1. PICK k \in 1..m : i \in ((k - 1) * p) + 1..hi(k)
      BY <1>7
    <3>2. Range(c[k]) = {oids[j] : j \in ((k - 1) * p) + 1..hi(k)}
      BY <1>4, <1>6
    <3> HIDE DEF hi
    <3>3. QED
      BY <3>1, <3>2
  <2>4. \A o \in Range(oids) : o \in UNION {Range(c[k]) : k \in 1..m}
    BY <2>1, <2>3
  <2>5. \A o \in UNION {Range(c[k]) : k \in 1..m} : o \in Range(oids)
    BY <2>2
  <2>6. QED
    BY <2>4, <2>5
<1>9. QED
  BY <1>5, <1>8 DEF c

\* A call, PDU by PDU.
LEMMA GetSteps ==
    ASSUME NEW agent, AgentOf(agent), NEW oids \in Seq(Range(Objects))
    PROVE  LET s == Chunks(oids)
           IN  \E h \in [0..Len(s) -> Calls] : /\ h[0] = Began /\ h[Len(s)] = Get(agent, oids)
                                              /\ \A k \in 1..Len(s) : h[k] = GetChunk(agent, h[k - 1], s[k])
<1> DEFINE s == Chunks(oids)
           n == Len(s)
           V == Calls
           base == Began
           step == [k \in 1..n |-> [v \in V |-> GetChunk(agent, v, s[k])]]
           Eq(f) == f = [t \in SUBSET (DOMAIN s) |-> IF t = {} THEN base
                                                     ELSE GetChunk(agent, f[t \ {Max(t)}], s[Max(t)])]
           F == CHOOSE f : Eq(f)
<1>1. n \in Nat /\ DOMAIN s = 1..n /\ (\A k \in 1..n : s[k] \in Seq(Range(Objects)))
  BY ChunksAre
<1>2. base \in V
  <2>1. [o \in {} |-> Nothing] \in [{} -> Kinds] /\ {} \in SUBSET Range(Objects) /\ 0 \in Nat /\ FALSE \in BOOLEAN
    OBVIOUS
  <2>2. QED
    BY <2>1, CallMade DEF Began
<1>3. Get(agent, oids) = F[DOMAIN s]
  BY DEF Get, FoldLeft, MapThenFoldSet
<1> HIDE DEF n, s
<1>4. step \in [1..n -> [V -> V]] /\ \A k \in 1..n : \A v \in V : step[k][v] = GetChunk(agent, v, s[k])
  BY <1>1, GetChunkIs
<1> HIDE DEF step, V, base
<1>5. \E f : Eq(f)
  <2>1. PICK iter \in [SUBSET (1..n) -> V] : Folded(iter, n, base, step)
    BY <1>1, <1>2, <1>4, FoldExists DEF HasFold
  <2>2. \A t \in SUBSET (1..n) :
            t # {} => step[Max(t)][iter[t \ {Max(t)}]] = GetChunk(agent, iter[t \ {Max(t)}], s[Max(t)])
    BY <1>1, <1>4, LastOf
  <2>3. Eq(iter)
    BY <1>1, <2>1, <2>2 DEF Folded
  <2>4. QED
    BY <2>3
<1>6. Eq(F)
  BY <1>5
<1> HIDE DEF F
<1>7. F[{}] = base /\ \A t \in SUBSET (1..n) : t # {} => F[t] = GetChunk(agent, F[t \ {Max(t)}], s[Max(t)])
  BY <1>1, <1>6
<1>8. Unfolds(F, V, n, base, step)
  BY <1>1, <1>4, <1>7, LastOf DEF Unfolds
<1>9. HasPrefixes(V, n, base, step, F[1..n])
  BY <1>1, <1>2, <1>4, <1>8, FoldPrefixes
<1>10. PICK h \in [0..n -> V] : h[0] = base /\ h[n] = F[1..n] /\ \A k \in 1..n : h[k] = step[k][h[k - 1]]
  BY <1>9 DEF HasPrefixes
<1>11. \A k \in 1..n : h[k] = GetChunk(agent, h[k - 1], s[k])
  <2>1. \A k \in 1..n : h[k - 1] \in V
    BY <1>1
  <2>2. QED
    BY <1>4, <1>10, <2>1
<1>12. h[n] = Get(agent, oids)
  BY <1>1, <1>3, <1>10
<1>13. QED
  BY <1>10, <1>11, <1>12 DEF n, V, s, base

LEMMA GetIs ==
    ASSUME NEW agent, AgentOf(agent), NEW oids \in Seq(Range(Objects))
    PROVE  Get(agent, oids) \in Calls /\ Owes(agent, Get(agent, oids), Range(oids))
<1> DEFINE s == Chunks(oids)
           n == Len(s)
           got == Get(agent, oids)
<1>1. PICK h \in [0..n -> Calls] : h[0] = Began /\ h[n] = got /\ \A k \in 1..n : h[k] = GetChunk(agent, h[k - 1], s[k])
  BY GetSteps
<1>2. n \in Nat /\ (\A k \in 1..n : s[k] \in Seq(Range(Objects))) /\ Range(oids) = UNION {Range(s[k]) : k \in 1..n}
  BY ChunksAre
<1> HIDE DEF n, s, got
<1>3. \A k \in 0..n : h[k] \in Calls
  OBVIOUS
<1> DEFINE some(k) == UNION {Range(s[j]) : j \in 1..k}
           Good == {k \in Nat : k <= n => Owes(agent, h[k], some(k))}
<1>4. 0 \in Good
  <2>1. some(0) = {}
    OBVIOUS
  <2> DEFINE b == Began
  <2>2. b.raised = FALSE /\ b.values = [o \in {} |-> Nothing]
    BY DEF Began
  <2> HIDE DEF b
  <2>3. DOMAIN b.values = {}
    BY <2>2
  <2>4. Owes(agent, b, {})
    BY <2>2, <2>3 DEF Owes
  <2> HIDE DEF some
  <2>5. QED
    BY <1>1, <2>1, <2>4 DEF b
<1>5. ASSUME NEW k \in Nat, k \in Good PROVE k + 1 \in Good
  <2> SUFFICES ASSUME k + 1 <= n PROVE Owes(agent, h[k + 1], some(k + 1))
    OBVIOUS
  <2>1. k + 1 \in 1..n /\ k + 1 - 1 = k /\ k \in 0..n
    BY <1>2
  <2>2. h[k + 1] = GetChunk(agent, h[k], s[k + 1]) /\ h[k] \in Calls /\ s[k + 1] \in Seq(Range(Objects))
    BY <1>1, <1>2, <1>3, <2>1
  <2> DEFINE d == some(k)
  <2>3. Owes(agent, h[k], d)
    BY <1>5, <2>1
  <2>4. some(k + 1) = d \cup Range(s[k + 1])
    <3>1. \A j : j \in 1..k + 1 <=> j \in 1..k \/ j = k + 1
      OBVIOUS
    <3>2. QED
      BY <3>1
  <2>5. d \in SUBSET Range(Objects)
    <3>1. \A j \in 1..k : j \in 1..n
      BY <1>2, <2>1
    <3>2. \A j \in 1..n : \A o \in Range(s[j]) : o \in Range(Objects)
      BY <1>2, RangeOfSeq
    <3>3. QED
      BY <3>1, <3>2
  <2> HIDE DEF d, some
  <2>6. Owes(agent, GetChunk(agent, h[k], s[k + 1]), d \cup Range(s[k + 1]))
    BY <2>2, <2>3, <2>5, GetChunkIs
  <2>7. QED
    BY <2>2, <2>4, <2>6
<1> HIDE DEF Good
<1>6. Nat \subseteq Good
  BY <1>4, <1>5, Induction
<1>7. Owes(agent, h[n], some(n))
  <2>1. n \in Good /\ n <= n
    BY <1>2, <1>6
  <2> HIDE DEF some
  <2>2. QED
    BY <2>1 DEF Good
<1>8. some(n) = Range(oids)
  BY <1>2
<1>9. n \in 0..n
  BY <1>2
<1> HIDE DEF some
<1>10. QED
  BY <1>1, <1>3, <1>7, <1>8, <1>9 DEF got

LEMMA LenIs ==
    ASSUME NEW n \in Nat, NEW t, t = [k \in 1..n |-> t[k]]
    PROVE  Len(t) = n /\ DOMAIN t = 1..n /\ \A T : (\A k \in 1..n : t[k] \in T) => t \in Seq(T)
<1>1. ASSUME NEW T, \A k \in 1..n : t[k] \in T PROVE t \in Seq(T) /\ Len(t) = n
  <2>1. t \in [1..n -> T]
    BY <1>1
  <2>2. QED
    BY <2>1
<1>2. Len(t) = n
  <2> DEFINE T == {t[k] : k \in 1..n}
  <2>1. \A k \in 1..n : t[k] \in T
    OBVIOUS
  <2> HIDE DEF T
  <2>2. QED
    BY <1>1, <2>1
<1>3. DOMAIN t = 1..n
  OBVIOUS
<1>4. QED
  BY <1>1, <1>2, <1>3

\* The rows of the table of what is asked for.
LEMMA TableIs ==
    ASSUME NEW agent, NEW oids \in Seq(Range(Objects))
    PROVE  LET t == Table(agent, oids)
           IN  /\ t = [k \in 1..Len(t) |-> t[k]] /\ Len(t) \in Nat
               /\ \A k \in 1..Len(t) : \E o \in Range(oids) \cap DOMAIN agent.holds :
                     t[k] = [oid |-> o, under |-> TRUE, error |-> "", type |-> agent.holds[o]]
               /\ \A o \in Range(oids) \cap DOMAIN agent.holds : \E k \in 1..Len(t) : t[k].oid = o
<1> DEFINE S == {k \in DOMAIN oids : oids[k] \in DOMAIN agent.holds}
           B == {p \in S \X S : p[1] < p[2]}
           before(x) == {y \in S : y < x}
           n == Cardinality(S)
           places == [k \in 1..n |-> CHOOSE x \in S : Cardinality(before(x)) = k - 1]
           row(o) == [oid |-> o, under |-> TRUE, error |-> "", type |-> agent.holds[o]]
           t == Table(agent, oids)
<1>1. DOMAIN oids = 1..Len(oids) /\ Len(oids) \in Nat
  OBVIOUS
<1>2. IsFiniteSet(S) /\ S \in SUBSET Nat
  <2> DEFINE all == 1..Len(oids)
  <2>1. S \in SUBSET all
    BY <1>1
  <2>2. IsFiniteSet(all) /\ all \in SUBSET Nat
    BY <1>1, FS_Interval
  <2> HIDE DEF all, S
  <2>3. QED
    BY <2>1, <2>2, FS_Subset
<1>3. t = [k \in DOMAIN places |-> [oid |-> oids[places[k]], under |-> TRUE, error |-> "", type |-> agent.holds[oids[places[k]]]]]
  BY DEF Table, Sorted
<1>4. B \in SUBSET (S \X S) /\ \A x, y \in S : <<x, y>> \in B <=> x < y
  OBVIOUS
<1>5. \A x \in S : x \in DOMAIN oids /\ oids[x] \in Range(oids) /\ oids[x] \in DOMAIN agent.holds
  BY DEF Range
<1>6. \A o \in Range(oids) : o \in DOMAIN agent.holds => \E x \in S : oids[x] = o
  BY DEF Range
<1> HIDE DEF S, B
<1>7. \A x, y \in S : x # y => <<x, y>> \in B \/ <<y, x>> \in B
  BY <1>2, <1>4
<1>8. \A x \in S : <<x, x>> \notin B
  BY <1>2, <1>4
<1>9. \A x, y, z \in S : <<x, y>> \in B /\ <<y, z>> \in B => <<x, z>> \in B
  BY <1>2, <1>4
<1>10. \A x \in S : {y \in S : <<y, x>> \in B} = before(x)
  BY <1>4
<1> DEFINE rank(x) == Cardinality({y \in S : <<y, x>> \in B})
<1>11. /\ \A k \in 1..n : \E x \in S : rank(x) = k - 1
       /\ \A x \in S : rank(x) + 1 \in 1..n
       /\ \A x, y \in S : rank(x) < rank(y) => <<x, y>> \in B
       /\ \A x, y \in S : rank(x) = rank(y) => x = y
  BY <1>2, <1>4, <1>7, <1>8, <1>9, Ranks
<1>12. \A x \in S : rank(x) = Cardinality(before(x)) /\ rank(x) \in Nat
  <2>1. ASSUME NEW x \in S PROVE Cardinality(before(x)) \in Nat
    <3>1. before(x) \in SUBSET S
      OBVIOUS
    <3> HIDE DEF before
    <3>2. QED
      BY <1>2, <3>1, FS_Subset, FS_CardinalityType
  <2>2. QED
    BY <1>10, <2>1
<1>13. n \in Nat
  BY <1>2, FS_CardinalityType
<1> HIDE DEF n
<1>14. DOMAIN places = 1..n /\ \A k \in 1..n : places[k] = CHOOSE x \in S : Cardinality(before(x)) = k - 1
  OBVIOUS
<1> HIDE DEF rank, before, places
<1>15. \A k \in 1..n : places[k] \in S /\ rank(places[k]) = k - 1
  <2>1. ASSUME NEW k \in 1..n PROVE places[k] \in S /\ rank(places[k]) = k - 1
    <3>1. \E x \in S : Cardinality(before(x)) = k - 1
      BY <1>11, <1>12
    <3>2. places[k] \in S /\ Cardinality(before(places[k])) = k - 1
      BY <1>14, <3>1
    <3>3. QED
      BY <1>12, <3>2
  <2>2. QED
    BY <2>1
<1>16. ASSUME NEW x \in S PROVE \E k \in 1..n : places[k] = x
  <2> DEFINE k == rank(x) + 1
  <2>1. k \in 1..n /\ k - 1 = rank(x)
    BY <1>11, <1>12
  <2>2. places[k] \in S /\ rank(places[k]) = rank(x)
    BY <1>15, <2>1
  <2>3. QED
    BY <1>11, <2>1, <2>2
<1>17. t = [k \in 1..n |-> row(oids[places[k]])]
  BY <1>3, <1>14
<1> DEFINE object(k) == oids[places[k]]
<1>18. /\ \A k \in 1..n : object(k) \in Range(oids) \cap DOMAIN agent.holds
       /\ \A o \in Range(oids) \cap DOMAIN agent.holds : \E k \in 1..n : object(k) = o
  BY <1>5, <1>6, <1>15, <1>16
<1>19. \A o : row(o).oid = o
  OBVIOUS
<1>20. Len(t) = n
  <2>1. \A k \in 1..n : t[k] = row(oids[places[k]])
    BY <1>17
  <2> HIDE DEF t, row
  <2>2. t = [k \in 1..n |-> t[k]]
    BY <1>17
  <2>3. QED
    BY <1>13, <2>2, LenIs
<1>21. t = [k \in 1..n |-> row(object(k))]
  BY <1>17
<1> HIDE DEF t, object, row
<1>22. \A k \in 1..n : t[k] = row(object(k))
  BY <1>21
<1>23. /\ t = [k \in 1..n |-> t[k]]
       /\ \A k \in 1..n : \E o \in Range(oids) \cap DOMAIN agent.holds : t[k] = row(o)
       /\ \A o \in Range(oids) \cap DOMAIN agent.holds : \E k \in 1..n : t[k].oid = o
  BY <1>18, <1>19, <1>21, <1>22
<1>24. QED
  BY <1>13, <1>20, <1>23 DEF t, row

\* A walk of the table gives what the agent has.
EndRow(version) ==
    IF version = 1 THEN [oid |-> "end", under |-> FALSE, type |-> "Null", error |-> "noSuchName"]
    ELSE [oid |-> "end", under |-> FALSE, type |-> "EndOfMibView", error |-> ""]

LEMMA WalkIs ==
    ASSUME NEW agent, AgentOf(agent), NEW oids \in Seq(Range(Objects)), NEW version
    PROVE  LET walk == Walk(Append(Table(agent, oids), EndRow(version)))
           IN  /\ ~walk.raised
               /\ DOMAIN walk.values = Range(oids) \cap DOMAIN agent.holds
               /\ \A o \in DOMAIN walk.values : walk.values[o] = Converted(agent.holds[o])
<1> DEFINE t == Table(agent, oids)
           n == Len(t)
           end == EndRow(version)
           rows == Append(t, end)
           walk == Walk(rows)
           has == Range(oids) \cap DOMAIN agent.holds
           I == {i \in 1..Len(rows) : rows[i].error # ""}
           stop == IF I # {} THEN Min(I) ELSE Len(rows) + 1
           kept == {i \in 1..stop - 1 : rows[i].under /\ rows[i].type # "EndOfMibView"}
<1>1. /\ t = [k \in 1..n |-> t[k]] /\ n \in Nat
      /\ \A k \in 1..n : \E o \in has : t[k] = [oid |-> o, under |-> TRUE, error |-> "", type |-> agent.holds[o]]
      /\ \A o \in has : \E k \in 1..n : t[k].oid = o
  BY TableIs
<1> HIDE DEF t, n
<1>2. Len(rows) = n + 1 /\ rows[n + 1] = end /\ DOMAIN rows = 1..n + 1 /\ \A k \in 1..n : rows[k] = t[k]
  <2> DEFINE T == {t[k] : k \in 1..n} \cup {end}
  <2>1. end \in T /\ \A k \in 1..n : t[k] \in T
    OBVIOUS
  <2> HIDE DEF T, end
  <2>2. t \in Seq(T) /\ Len(t) = n
    BY <1>1, <2>1, LenIs
  <2>3. /\ rows \in Seq(T) /\ Len(rows) = n + 1 /\ rows[n + 1] = end
        /\ \A k \in 1..n : rows[k] = t[k]
    BY <2>1, <2>2, AppendProperties
  <2> HIDE DEF rows
  <2>4. QED
    BY <2>3
<1>3. end.under = FALSE /\ (end.error # "" => end.error = "noSuchName")
  BY DEF EndRow
<1>4. \A k \in 1..n : /\ rows[k].error = "" /\ rows[k].under = TRUE /\ rows[k].oid \in has
                      /\ rows[k].type = agent.holds[rows[k].oid] /\ rows[k].type # "EndOfMibView"
  <2>1. \A o \in has : agent.holds[o] # "EndOfMibView"
    BY DEF AgentOf, Types
  <2> HIDE DEF rows, has
  <2>2. SUFFICES ASSUME NEW k \in 1..n
                 PROVE  /\ rows[k].error = "" /\ rows[k].under = TRUE /\ rows[k].oid \in has
                        /\ rows[k].type = agent.holds[rows[k].oid] /\ rows[k].type # "EndOfMibView"
    OBVIOUS
  <2>3. PICK o \in has : t[k] = [oid |-> o, under |-> TRUE, error |-> "", type |-> agent.holds[o]]
    BY <1>1
  <2>4. rows[k] = t[k]
    BY <1>2
  <2> DEFINE r == [oid |-> o, under |-> TRUE, error |-> "", type |-> agent.holds[o]]
  <2>5. r.error = "" /\ r.under = TRUE /\ r.oid = o /\ r.type = agent.holds[o]
    OBVIOUS
  <2>6. rows[k] = r
    BY <2>3, <2>4
  <2> HIDE DEF r
  <2>7. QED
    BY <2>1, <2>5, <2>6
<1>5. n \in Nat
  BY <1>1
<1>6. Len(rows) = n + 1 /\ rows[n + 1] = end /\ DOMAIN rows = 1..Len(rows) /\ \A i \in 1..n + 1 : i \in 1..n \/ i = n + 1
  BY <1>2, <1>5
<1>7. walk = [raised |-> stop <= Len(rows) /\ rows[stop].error # "noSuchName",
              values |-> [o \in {rows[i].oid : i \in kept} |->
                             Converted(rows[CHOOSE i \in kept : rows[i].oid = o].type)]]
  <2> HIDE DEF rows
  <2> DEFINE first == IF \E i \in DOMAIN rows : rows[i].error # "" THEN IF I # {} THEN Min(I) ELSE 0
                      ELSE Len(rows) + 1
             those == {i \in 1..first - 1 : rows[i].under /\ rows[i].type # "EndOfMibView"}
  <2>1. first = stop
    BY <1>6
  <2>2. walk = [raised |-> first <= Len(rows) /\ rows[first].error # "noSuchName",
                values |-> [o \in {rows[i].oid : i \in those} |->
                               Converted(rows[CHOOSE i \in those : rows[i].oid = o].type)]]
    BY DEF Walk, SelectInSeq
  <2>3. those = kept
    BY <2>1
  <2> HIDE DEF first, those, stop, kept, walk
  <2>4. QED
    BY <2>1, <2>2, <2>3
<1> HIDE DEF rows, end, has
<1>8. (end.error # "" => stop = n + 1) /\ (end.error = "" => stop = n + 1 + 1)
  <2>1. CASE end.error # ""
    <3>1. I = {n + 1}
      <4>1. n + 1 \in I
        <5>1. rows[n + 1].error # ""
          BY <1>6, <2>1
        <5>2. n + 1 \in 1..Len(rows)
          BY <1>5, <1>6
        <5>3. QED
          BY <5>1, <5>2
      <4>2. \A i \in I : i = n + 1
        BY <1>4, <1>6
      <4>3. QED
        BY <4>1, <4>2
    <3>2. Min({n + 1, n + 1}) = n + 1
      <4>1. n + 1 \in Int
        BY <1>5
      <4>2. QED
        BY <4>1, ExtremesOfTwo
    <3>3. QED
      BY <2>1, <3>1, <3>2
  <2>2. CASE end.error = ""
    <3>1. I = {}
      BY <1>4, <1>6, <2>2
    <3>2. stop = n + 1 + 1
      BY <1>6, <3>1
    <3>3. QED
      BY <2>2, <3>2
  <2>3. QED
    BY <2>1, <2>2
<1>9. stop \in Nat /\ n + 1 <= stop /\ stop <= n + 1 + 1 /\ (stop = n + 1 \/ ~(stop <= n + 1))
  <2>1. \A x : x = n + 1 \/ x = n + 1 + 1 => x \in Nat /\ n + 1 <= x /\ x <= n + 1 + 1 /\ (x = n + 1 \/ ~(x <= n + 1))
    BY <1>5
  <2> HIDE DEF stop
  <2>2. stop = n + 1 \/ stop = n + 1 + 1
    BY <1>8
  <2>3. QED
    BY <2>1, <2>2
<1> HIDE DEF stop
<1>10. kept = 1..n
  <2>1. \A i \in 1..stop - 1 : i \in 1..n \/ (i = n + 1 /\ rows[i].under = FALSE)
    <3>1. \A i \in 1..stop - 1 : i \in 1..n \/ i = n + 1
      BY <1>5, <1>9
    <3>2. rows[n + 1].under = FALSE
      BY <1>3, <1>6
    <3>3. QED
      BY <3>1, <3>2
  <2>2. 1..n \subseteq 1..stop - 1
    BY <1>5, <1>9
  <2>3. \A i \in kept : i \in 1..n
    BY <2>1
  <2>4. \A i \in 1..n : i \in kept
    BY <1>4, <2>2
  <2>5. QED
    BY <2>3, <2>4
<1>11. ~(stop <= Len(rows) /\ rows[stop].error # "noSuchName")
  <2>1. CASE stop = n + 1
    <3>1. rows[n + 1].error = "" \/ rows[n + 1].error = "noSuchName"
      BY <1>3, <1>6
    <3>2. end.error # "" \/ stop = n + 1 + 1
      BY <1>8
    <3>3. n + 1 # n + 1 + 1
      BY <1>5
    <3>4. rows[stop].error = "noSuchName"
      BY <1>6, <2>1, <3>1, <3>2, <3>3
    <3>5. QED
      BY <3>4
  <2>2. CASE ~(stop <= n + 1)
    BY <1>6, <2>2
  <2>3. QED
    BY <1>9, <2>1, <2>2
<1> HIDE DEF kept
<1> DEFINE named == {rows[i].oid : i \in kept}
<1>12. named = has
  <2>1. \A o \in has : \E k \in 1..n : rows[k].oid = o
    BY <1>1, <1>2
  <2>2. QED
    BY <1>4, <1>10, <2>1
<1>13. ASSUME NEW o \in has PROVE rows[CHOOSE i \in kept : rows[i].oid = o].type = agent.holds[o]
  <2> DEFINE i == CHOOSE i \in kept : rows[i].oid = o
  <2>1. i \in kept /\ rows[i].oid = o
    BY <1>12
  <2> HIDE DEF i
  <2>2. QED
    BY <1>4, <1>10, <2>1 DEF i
<1> HIDE DEF walk
<1>14. ~walk.raised /\ walk.values = [o \in named |-> Converted(rows[CHOOSE i \in kept : rows[i].oid = o].type)]
  BY <1>7, <1>11
<1>15. DOMAIN walk.values = has /\ \A o \in has : walk.values[o] = Converted(agent.holds[o])
  <2> HIDE DEF named
  <2>1. QED
    BY <1>12, <1>13, <1>14
<1>16. QED
  BY <1>14, <1>15 DEF walk, rows, t, end, has

Call(version, refuses, dies, holds, oids) ==
    [agent |-> [version |-> version, refuses |-> refuses, dies |-> dies, holds |-> holds], oids |-> oids]

GetInv ==
    topic = "get" =>
        \E version \in {1, 2}, refuses \in SUBSET Range(Objects), dies \in 0..5, has \in SUBSET Range(Objects) :
            \E holds \in [has -> Types], oids \in Seq(Range(Objects)) :
                input = Call(version, refuses, dies, holds, oids)

LEMMA GetsAnswered == GetInv /\ topic = "get" => GetAnswersForAll
<1> SUFFICES ASSUME GetInv, topic = "get" PROVE GetAnswersForAll
  OBVIOUS
<1>1. PICK version \in {1, 2}, refuses \in SUBSET Range(Objects), dies \in 0..5, has \in SUBSET Range(Objects) :
        \E holds \in [has -> Types], oids \in Seq(Range(Objects)) :
            input = Call(version, refuses, dies, holds, oids)
  BY DEF GetInv
<1>2. PICK holds \in [has -> Types], oids \in Seq(Range(Objects)) :
        input = Call(version, refuses, dies, holds, oids)
  BY <1>1
<1> DEFINE agent == [version |-> version, refuses |-> refuses, dies |-> dies, holds |-> holds]
<1>3. input.agent = agent /\ input.oids = oids
  BY <1>2 DEF Call
<1>4. agent.holds = holds /\ agent.refuses = refuses /\ agent.dies = dies
  OBVIOUS
<1> HIDE DEF agent
<1>5. AgentOf(agent)
  BY <1>4 DEF AgentOf
<1> DEFINE got == Get(agent, oids)
           silent == agent.dies < got.sent
           held(o) == o \in DOMAIN agent.holds /\ Converted(agent.holds[o]) # Nothing
           walk == Walk(Append(Table(agent, oids), EndRow(agent.version)))
<1>6. got \in Calls /\ Owes(agent, got, Range(oids))
  BY <1>5, GetIs
<1>7. /\ ~walk.raised
      /\ DOMAIN walk.values = Range(oids) \cap DOMAIN agent.holds
      /\ \A o \in DOMAIN walk.values : walk.values[o] = Converted(agent.holds[o])
  BY <1>5, WalkIs
<1> HIDE DEF got, walk
<1>8. got.raised => silent \/ agent.refuses # {}
  BY <1>6 DEF Owes
<1>9. ASSUME ~got.raised
      PROVE  /\ DOMAIN got.values = Range(oids)
             /\ \A o \in DOMAIN got.values :
                    IF got.values[o] = Nothing THEN ~held(o) \/ o \in agent.refuses \/ silent
                    ELSE held(o) /\ got.values[o] = Converted(agent.holds[o])
             /\ ~walk.raised
             /\ ~silent /\ agent.refuses = {} =>
                    \A o \in DOMAIN got.values :
                        IF o \in DOMAIN walk.values THEN walk.values[o] = got.values[o] ELSE o \notin DOMAIN agent.holds
  <2>1. DOMAIN got.values = Range(oids)
    BY <1>6, <1>9 DEF Owes
  <2>2. ASSUME NEW o \in Range(oids)
        PROVE  IF got.values[o] = Nothing THEN ~held(o) \/ o \in agent.refuses \/ silent
               ELSE held(o) /\ got.values[o] = Converted(agent.holds[o])
    BY <1>6, <1>9 DEF Owes, Fits, Holds
  <2>3. ASSUME ~silent, agent.refuses = {}, NEW o \in Range(oids)
        PROVE  IF o \in DOMAIN walk.values THEN walk.values[o] = got.values[o] ELSE o \notin DOMAIN agent.holds
    <3>1. IF got.values[o] = Nothing THEN ~held(o) ELSE held(o) /\ got.values[o] = Converted(agent.holds[o])
      BY <2>2, <2>3
    <3>2. o \in DOMAIN agent.holds => got.values[o] = Converted(agent.holds[o])
      BY <3>1
    <3> HIDE DEF held, silent
    <3>3. QED
      BY <1>7, <3>2
  <2> HIDE DEF held, silent
  <2>4. QED
    BY <1>7, <2>1, <2>2, <2>3
<1>10. ASSUME oids # <<>>, SnmpCheck(agent, oids[1])
       PROVE  agent.dies > 0 /\ held(oids[1]) /\ oids[1] \notin agent.refuses
  <2> DEFINE o == oids[1]
             one == Get(agent, <<o>>)
  <2>1. o \in Range(Objects)
    BY <1>10
  <2> HIDE DEF o
  <2>2. <<o>> \in Seq(Range(Objects)) /\ Range(<<o>>) = {o}
    BY <2>1, RangeOfOne
  <2>3. Owes(agent, one, {o})
    BY <1>5, <2>2, GetIs
  <2>4. ~one.raised /\ one.values[o] # Nothing
    BY <1>10 DEF SnmpCheck, o
  <2> HIDE DEF one
  <2>5. Fits(agent, o, one.values[o], one.sent)
    BY <2>3, <2>4 DEF Owes
  <2>6. QED
    BY <2>4, <2>5 DEF Fits, Holds, o
<1>11. walk = Walk(Append(Table(agent, oids),
                IF agent.version = 1 THEN [oid |-> "end", under |-> FALSE, type |-> "Null", error |-> "noSuchName"]
                ELSE [oid |-> "end", under |-> FALSE, type |-> "EndOfMibView", error |-> ""]))
  BY DEF walk, EndRow
<1> HIDE DEF silent, held
<1>12. QED
  BY <1>3, <1>8, <1>9, <1>10, <1>11 DEF GetAnswersForAll, got, silent, held

LEMMA GetInitially == Init => GetInv
<1> SUFFICES ASSUME Init, topic = "get" PROVE GetInv
  BY DEF GetInv
<1>1. BeginGet
  BY Begins DEF Init
<1>2. PICK version \in {1, 2}, has \in SUBSET Range(Objects), refuses \in SUBSET Range(Objects), dies \in 0..5 :
        Begin("get", [agent |-> [version |-> version, refuses |-> refuses, dies |-> dies,
                                 holds |-> [o \in has |-> IF o = Objects[1] THEN "Null" ELSE "Counter32"]],
                      oids |-> <<>>])
  BY <1>1 DEF BeginGet
<1> DEFINE holds == [o \in has |-> IF o = Objects[1] THEN "Null" ELSE "Counter32"]
<1>3. holds \in [has -> Types]
  BY DEF Types
<1>4. input = Call(version, refuses, dies, holds, <<>>)
  BY <1>2 DEF Begin, Call
<1> HIDE DEF holds
<1>5. <<>> \in Seq(Range(Objects))
  BY EmptySeq
<1>6. QED
  BY <1>3, <1>4, <1>5 DEF GetInv

LEMMA GetKept == GetInv /\ [Next]_vars => GetInv'
<1> SUFFICES ASSUME GetInv, [Next]_vars, topic' = "get"
             PROVE  \E version \in {1, 2}, refuses \in SUBSET Range(Objects), dies \in 0..5, has \in SUBSET Range(Objects) :
                        \E holds \in [has -> Types], oids \in Seq(Range(Objects)) :
                            input' = Call(version, refuses, dies, holds, oids)
  BY DEF GetInv, Call, Types
<1>1. CASE UNCHANGED vars
  BY <1>1 DEF vars, GetInv
<1>2. CASE Next
  <2>1. AskFor
    BY <1>2, Continues DEF Next
  <2>2. topic = "get"
    BY <2>1 DEF AskFor
  <2>3. PICK version \in {1, 2}, refuses \in SUBSET Range(Objects), dies \in 0..5, has \in SUBSET Range(Objects) :
          \E holds \in [has -> Types], oids \in Seq(Range(Objects)) :
              input = Call(version, refuses, dies, holds, oids)
    BY <2>2 DEF GetInv
  <2>4. PICK holds \in [has -> Types], oids \in Seq(Range(Objects)) :
          input = Call(version, refuses, dies, holds, oids)
    BY <2>3
  <2>5. input.oids = oids
    BY <2>4 DEF Call
  <2> DEFINE o == Objects[Len(oids) + 1]
             more == Append(oids, o)
  <2>6. input' = [input EXCEPT !.oids = more] /\ Len(oids) < Len(Objects)
    BY <2>1, <2>5 DEF AskFor, Continue
  <2>7. o \in Range(Objects)
    <3>1. Objects \in Seq(Range(Objects)) /\ Len(oids) + 1 \in 1..Len(Objects)
      BY <2>6, ObjectsAssumption
    <3>2. QED
      BY <3>1
  <2> HIDE DEF o
  <2>8. more \in Seq(Range(Objects))
    BY <2>7, AppendProperties
  <2> HIDE DEF more
  <2>9. input' = Call(version, refuses, dies, holds, more)
    BY <2>4, <2>6 DEF Call
  <2>10. QED
    BY <2>8, <2>9
<1>3. QED
  BY <1>1, <1>2

\* Whatever an agent has, refuses and lives through, whatever packets and runs a ping meets and
\* whatever is asked of a URL, no probe takes silence, or somebody else's answer, for the answer
\* of its target, and no object is left without an answer (probes.py; client.py, get and walk).
THEOREM ProbesNeedAnAnswerAlways == Spec => []ProbesNeedAnAnswer
<1> DEFINE Inv == UrlInv /\ PingInv /\ GetInv
<1>1. Init => Inv
  BY UrlInitially, PingInitially, GetInitially
<1>2. Inv /\ [Next]_vars => Inv'
  BY UrlKept, PingKept, GetKept
<1>3. Inv => ProbesNeedAnAnswer
  BY UrlsRefused, PingsAnswered, GetsAnswered DEF ProbesNeedAnAnswer
<1> HIDE DEF Inv
<1>4. QED
  BY <1>1, <1>2, <1>3, PTL DEF Spec

-----------------------------------------------------------------------------
(* Figures: buckets and rows.                                              *)

Multiple(b, p) == \E q \in Int : b = q * p

LEMMA MultiplesApart ==
    ASSUME NEW p \in Nat \ {0}, NEW a, NEW b, Multiple(a, p), Multiple(b, p)
    PROVE  a \in Int /\ b \in Int /\ (a < b => a + p <= b)
<1>1. PICK q \in Int : a = q * p
  BY DEF Multiple
<1>2. PICK r \in Int : b = r * p
  BY DEF Multiple
<1>3. q * p \in Int /\ r * p \in Int /\ (q < r => q * p + p <= r * p) /\ (r < q => r * p + p <= q * p)
      /\ (q = r => q * p = r * p)
  BY Products
<1> DEFINE x == q * p
           y == r * p
<1>4. a = x /\ b = y
  BY <1>1, <1>2
<1>5. x \in Int /\ y \in Int /\ (q < r => x + p <= y) /\ (r < q => y + p <= x) /\ (q = r => x = y)
  BY <1>3
<1> HIDE DEF x, y
<1>6. QED
  BY <1>4, <1>5

LEMMA MultiplesAre ==
    ASSUME NEW p \in Nat \ {0}
    PROVE  Multiple(0, p) /\ Multiple(p, p) /\ \A s \in Int : s % p = 0 => Multiple(s, p)
<1>1. 0 = 0 * p /\ p = 1 * p
  OBVIOUS
<1>2. ASSUME NEW s \in Int, s % p = 0 PROVE Multiple(s, p)
  <2>1. s \div p \in Int /\ s = p * (s \div p) + (s % p)
    OBVIOUS
  <2> DEFINE q == s \div p
  <2>2. q \in Int /\ s = p * q + (s % p)
    BY <2>1
  <2> HIDE DEF q
  <2>3. p * q = q * p /\ p * q \in Int
    BY <2>2
  <2>4. s = q * p
    BY <1>2, <2>2, <2>3
  <2>5. QED
    BY <2>2, <2>4 DEF Multiple
<1>3. Multiple(0, p) /\ Multiple(p, p)
  BY <1>1 DEF Multiple
<1>4. QED
  BY <1>2, <1>3

LEMMA MultiplesOf ==
    ASSUME NEW p \in Nat \ {0}, NEW s \in Int, Multiple(s, p), NEW b, Multiple(b, s)
    PROVE  Multiple(b, p)
<1>1. PICK q \in Int : s = q * p
  BY DEF Multiple
<1>2. PICK r \in Int : b = r * s
  BY DEF Multiple
<1>3. b = (r * q) * p /\ r * q \in Int
  BY <1>1, <1>2
<1>4. QED
  BY <1>3 DEF Multiple

LEMMA BucketOf ==
    ASSUME NEW p \in Nat \ {0}, NEW t \in Int
    PROVE  /\ Bucket(t, p) \in Int /\ Bucket(t, p) <= t /\ t < Bucket(t, p) + p /\ Multiple(Bucket(t, p), p)
           /\ \A b : Multiple(b, p) /\ b <= t => b <= Bucket(t, p)
           /\ t >= 0 => Bucket(t, p) >= 0
<1> DEFINE q == t \div p
           x == q * p
<1>1. q \in Int /\ x <= t /\ t < x + p
  BY Quotients
<1>2. Bucket(t, p) = x
  BY DEF Bucket
<1> HIDE DEF q
<1>3. Multiple(x, p)
  BY <1>1 DEF Multiple
<1> HIDE DEF x
<1>4. x \in Int
  BY <1>3, MultiplesApart
<1>5. ASSUME NEW b, Multiple(b, p), b <= t PROVE b <= x
  <2>1. b \in Int /\ (x < b => x + p <= b)
    BY <1>3, <1>5, MultiplesApart
  <2>2. QED
    BY <1>1, <1>4, <1>5, <2>1
<1>6. t >= 0 => x >= 0
  <2>1. Multiple(0, p)
    BY MultiplesAre
  <2>2. 0 <= t => 0 <= x
    BY <1>5, <2>1
  <2>3. QED
    BY <1>4, <2>2
<1>7. QED
  BY <1>1, <1>2, <1>3, <1>4, <1>5, <1>6

LEMMA BucketIs ==
    ASSUME NEW p \in Nat \ {0}, NEW t \in Int, NEW b, Multiple(b, p), b <= t, t < b + p
    PROVE  Bucket(t, p) = b
<1> DEFINE x == Bucket(t, p)
<1>1. x \in Int /\ x <= t /\ t < x + p /\ Multiple(x, p) /\ b <= x
  BY BucketOf
<1> HIDE DEF x
<1>2. b \in Int /\ (b < x => b + p <= x)
  BY <1>1, MultiplesApart
<1>3. b = x
  BY <1>1, <1>2
<1>4. QED
  BY <1>3 DEF x

LEMMA BucketsGrow ==
    ASSUME NEW p \in Nat \ {0}, NEW t \in Int, NEW u \in Int, t <= u
    PROVE  Bucket(t, p) <= Bucket(u, p)
<1>1. Bucket(t, p) \in Int /\ Bucket(t, p) <= t /\ Multiple(Bucket(t, p), p)
  BY BucketOf
<1>2. Bucket(t, p) <= u
  BY <1>1
<1>3. QED
  BY <1>1, <1>2, BucketOf

\* A time between another and the begin of its bucket has the same bucket.
LEMMA BucketBetween ==
    ASSUME NEW p \in Nat \ {0}, NEW t \in Int, NEW u \in Int, Bucket(u, p) <= t, t <= u
    PROVE  Bucket(t, p) = Bucket(u, p)
<1>1. Bucket(u, p) \in Int /\ u < Bucket(u, p) + p /\ Multiple(Bucket(u, p), p)
  BY BucketOf
<1>2. t < Bucket(u, p) + p
  BY <1>1
<1>3. QED
  BY <1>1, <1>2, BucketIs

\* A bucket lies in one of a period that is a multiple of its own.
LEMMA BucketsNest ==
    ASSUME NEW p \in Nat \ {0}, NEW s \in Nat \ {0}, Multiple(s, p), NEW t \in Int
    PROVE  Bucket(t, s) <= Bucket(t, p) /\ Bucket(Bucket(t, p), s) = Bucket(t, s)
<1> DEFINE b == Bucket(t, p)
           c == Bucket(t, s)
<1>1. b \in Int /\ b <= t /\ \A x : Multiple(x, p) /\ x <= t => x <= b
  BY BucketOf
<1>2. c \in Int /\ c <= t /\ t < c + s /\ Multiple(c, s)
  BY BucketOf
<1>3. Multiple(c, p)
  BY <1>2, MultiplesOf
<1>4. c <= b
  BY <1>1, <1>2, <1>3
<1> HIDE DEF b, c
<1>5. b < c + s
  BY <1>1, <1>2
<1>6. Bucket(b, s) = c
  BY <1>1, <1>2, <1>4, <1>5, BucketIs
<1>7. QED
  BY <1>4, <1>6 DEF b, c

\* The rows a metric's samples before until are rolled up to, those of the buckets that are kept.
RollupRow(r, of, p) ==
    /\ r = [bucket |-> r.bucket, of |-> r.of] /\ r.of \in SUBSET of /\ r.of # {}
    /\ r.bucket \in Int /\ Multiple(r.bucket, p) /\ \A t \in r.of : Bucket(t, p) = r.bucket

RowsOf(rows, of, p, until, kept) ==
    /\ IsFiniteSet(rows) /\ \A r \in rows : RollupRow(r, of, p)
    /\ \A r, q \in rows : r.bucket = q.bucket => r = q
    /\ \A t \in of : t < until /\ Bucket(t, p) \in kept => \E r \in rows : t \in r.of

LEMMA GroupedIs ==
    ASSUME NEW p \in Nat \ {0}, NEW of \in SUBSET Int, IsFiniteSet(of), NEW until, NEW kept
    PROVE  /\ RowsOf({r \in Grouped({t \in of : t < until}, p) : r.bucket \in kept}, of, p, until, kept)
           /\ \A r \in Grouped({t \in of : t < until}, p) : r.bucket \in Int
<1> DEFINE some == {t \in of : t < until}
           B == {Bucket(t, p) : t \in some}
           those(b) == {t \in some : Bucket(t, p) = b}
           row(b) == [bucket |-> b, of |-> those(b)]
           all == Grouped(some, p)
           rows == {r \in all : r.bucket \in kept}
<1>1. some \in SUBSET of /\ some \in SUBSET Int /\ IsFiniteSet(some)
  <2>1. some \in SUBSET of
    OBVIOUS
  <2> HIDE DEF some
  <2>2. QED
    BY <2>1, FS_Subset
<1>2. \A t \in of : t \in some <=> t < until
  OBVIOUS
<1> HIDE DEF some
<1>3. \A b \in B : b \in Int /\ Multiple(b, p) /\ those(b) # {}
  BY <1>1, BucketOf
<1>4. all = {Row(p, those(b)) : b \in B}
  BY DEF Grouped
<1>5. ASSUME NEW b \in B PROVE Row(p, those(b)) = row(b)
  <2> DEFINE t == CHOOSE t \in those(b) : TRUE
  <2>1. t \in those(b)
    BY <1>3
  <2>2. Bucket(t, p) = b
    BY <2>1
  <2>3. Row(p, those(b)) = [bucket |-> Bucket(t, p), of |-> those(b)]
    BY DEF Row
  <2> HIDE DEF t, those
  <2>4. QED
    BY <2>2, <2>3
<1>6. all = {row(b) : b \in B}
  BY <1>4, <1>5
<1>7. IsFiniteSet(all)
  <2> DEFINE g == [t \in some |-> row(Bucket(t, p))]
  <2>1. \A r \in all : \E t \in some : r = g[t]
    BY <1>6
  <2>2. DOMAIN g = some /\ g = [t \in some |-> g[t]]
    OBVIOUS
  <2> HIDE DEF g, all
  <2>3. all \in SUBSET {g[t] : t \in some}
    BY <2>1
  <2>4. IsFiniteSet({g[t] : t \in some})
    BY <1>1, <2>2, ImageFinite
  <2>5. QED
    BY <2>3, <2>4, FS_Subset
<1>8. \A b : row(b).bucket = b /\ row(b).of = those(b)
  OBVIOUS
<1>9. \A b : \A t \in those(b) : t \in some /\ Bucket(t, p) = b
  OBVIOUS
<1>10. \A t \in some : Bucket(t, p) \in B /\ t \in those(Bucket(t, p))
  OBVIOUS
<1> HIDE DEF those, B, all
<1>11. ASSUME NEW r \in all PROVE RollupRow(r, of, p)
  <2>1. PICK b \in B : r = row(b)
    BY <1>6
  <2>2. r.bucket = b /\ r.of = those(b)
    BY <1>8, <2>1
  <2> HIDE DEF row
  <2>3. r = [bucket |-> r.bucket, of |-> r.of]
    BY <2>1, <2>2 DEF row
  <2>4. QED
    BY <1>1, <1>3, <1>9, <2>2, <2>3 DEF RollupRow
<1>12. ASSUME NEW r \in all, NEW q \in all, r.bucket = q.bucket PROVE r = q
  <2>1. PICK b \in B : r = row(b)
    BY <1>6
  <2>2. PICK c \in B : q = row(c)
    BY <1>6
  <2>3. b = c
    BY <1>8, <1>12, <2>1, <2>2
  <2>4. QED
    BY <2>1, <2>2, <2>3
<1>13. ASSUME NEW t \in of, t < until, Bucket(t, p) \in kept PROVE \E r \in rows : t \in r.of
  <2> DEFINE b == Bucket(t, p)
  <2>1. t \in some
    BY <1>2, <1>13
  <2>2. b \in B /\ t \in those(b)
    BY <1>10, <2>1
  <2>3. row(b) \in all /\ row(b).bucket \in kept
    BY <1>6, <1>8, <1>13, <2>2
  <2>4. t \in row(b).of
    BY <1>8, <2>2
  <2> HIDE DEF row, b
  <2>5. QED
    BY <2>3, <2>4
<1>14. IsFiniteSet(rows) /\ \A r \in rows : r \in all
  <2>1. rows \in SUBSET all
    OBVIOUS
  <2> HIDE DEF rows
  <2>2. QED
    BY <1>7, <2>1, FS_Subset
<1> HIDE DEF rows
<1>15. RowsOf(rows, of, p, until, kept)
  BY <1>11, <1>12, <1>13, <1>14 DEF RowsOf
<1>16. \A r \in all : r.bucket \in Int
  BY <1>11 DEF RollupRow
<1>17. QED
  BY <1>15, <1>16 DEF rows, all, some

\* Some member of a set of integers that is bounded is the least, or the greatest.
LEMMA LeastIs ==
    ASSUME NEW S \in SUBSET Int, S # {}, NEW m \in Int, \A x \in S : m <= x
    PROVE  Min(S) \in S /\ Min(S) \in Int /\ \A y \in S : Min(S) <= y
<1> DEFINE T == {n \in Nat : m + n \in S}
           R == OpToRel(<, Nat)
<1>1. R = {ss \in Nat \X Nat : ss[1] < ss[2]} /\ IsWellFoundedOn(R, Nat)
  BY NatLessThanWellFounded DEF OpToRel
<1>2. ASSUME NEW x \in S PROVE x - m \in T /\ x = m + (x - m)
  <2>1. x \in Int /\ m <= x
    OBVIOUS
  <2> DEFINE n == x - m
  <2>2. n \in Nat /\ m + n = x
    BY <2>1
  <2> HIDE DEF n
  <2>3. n \in T /\ x = m + n
    BY <2>2
  <2>4. QED
    BY <2>3 DEF n
<1>3. T # {} /\ T \in SUBSET Nat
  BY <1>2
<1> HIDE DEF R
<1>4. PICK n \in T : \A t \in T : ~(<<t, n>> \in R)
  BY <1>1, <1>3, WFMin
<1>5. n \in Nat /\ m + n \in S
  OBVIOUS
<1>6. \A y \in S : m + n <= y
  <2> TAKE y \in S
  <2>1. y - m \in T /\ y - m \in Nat /\ y = m + (y - m)
    BY <1>2
  <2>2. ~(y - m < n)
    BY <1>1, <1>4, <1>5, <2>1
  <2>3. QED
    BY <1>5, <2>1, <2>2
<1>7. \E x \in S : \A y \in S : x =< y
  BY <1>5, <1>6
<1>8. QED
  BY <1>7 DEF Min

LEMMA GreatestIs ==
    ASSUME NEW S \in SUBSET Int, S # {}, NEW m \in Int, \A x \in S : x <= m
    PROVE  Max(S) \in S /\ Max(S) \in Int /\ \A y \in S : y <= Max(S)
<1> DEFINE T == {-x : x \in S}
           z == -Min(T)
<1>1. \A t : t \in T <=> \E x \in S : t = -x
  OBVIOUS
<1>2. T \in SUBSET Int /\ T # {} /\ -m \in Int /\ \A t \in T : -m <= t
  <2>1. \A x \in S : x \in Int /\ x <= m /\ -x \in Int /\ -m <= -x
    OBVIOUS
  <2> HIDE DEF T
  <2>2. PICK x \in S : TRUE
    OBVIOUS
  <2>3. -x \in T /\ -m \in Int
    BY <1>1, <2>2
  <2>4. QED
    BY <1>1, <2>1, <2>3
<1> HIDE DEF T
<1>3. Min(T) \in T /\ Min(T) \in Int /\ \A t \in T : Min(T) <= t
  BY <1>2, LeastIs
<1> DEFINE l == Min(T)
<1>4. PICK x \in S : l = -x
  BY <1>1, <1>3
<1> HIDE DEF l
<1>5. \A y \in S : y <= x
  <2> TAKE y \in S
  <2>1. l <= -y
    BY <1>1, <1>3 DEF l
  <2>2. QED
    BY <1>4, <2>1
<1>6. \E u \in S : \A y \in S : u >= y
  BY <1>5
<1>7. Max(S) \in S /\ \A y \in S : Max(S) >= y
  BY <1>6 DEF Max
<1>8. \A u \in Int, v \in Int : u >= v <=> v <= u
  OBVIOUS
<1>9. QED
  BY <1>7, <1>8

\* The sum over a finite set of integers is an integer.
AddsTo(f, S, g, n) ==
    /\ f \in [{s \in SUBSET S : Cardinality(s) <= n} -> Int]
    /\ \A s \in SUBSET S : Cardinality(s) <= n => f[s] = IF s = {} THEN 0 ELSE g[PickOf(s)] + f[s \ {PickOf(s)}]

LEMMA AddsUpTo ==
    ASSUME NEW S, IsFiniteSet(S), NEW g, \A x \in S : g[x] \in Int, NEW k \in Nat
    PROVE  \E f : AddsTo(f, S, g, k)
<1> DEFINE D(n) == {s \in SUBSET S : Cardinality(s) <= n}
           N == {n \in Nat : \E f : AddsTo(f, S, g, n)}
<1>1. \A s \in SUBSET S : IsFiniteSet(s) /\ Cardinality(s) \in Nat
  BY FS_Subset, FS_CardinalityType
<1>2. \A s \in SUBSET S : Cardinality(s) = 0 <=> s = {}
  BY <1>1, FS_EmptySet
<1>3. \A s \in SUBSET S : s # {} => /\ PickOf(s) \in s /\ s \ {PickOf(s)} \in SUBSET S
                                    /\ Cardinality(s \ {PickOf(s)}) = Cardinality(s) - 1
  <2> TAKE s \in SUBSET S
  <2> HAVE s # {}
  <2>1. PickOf(s) \in s
    BY Picked
  <2>2. Cardinality(s \ {PickOf(s)}) = Cardinality(s) - 1
    BY <1>1, <2>1, FS_RemoveElement
  <2>3. QED
    BY <2>1, <2>2
<1>4. 0 \in N
  <2> DEFINE f == [s \in D(0) |-> 0]
  <2>1. f \in [D(0) -> Int]
    OBVIOUS
  <2>2. \A s \in SUBSET S : Cardinality(s) <= 0 => s = {} /\ f[s] = 0
    BY <1>1, <1>2
  <2> HIDE DEF f
  <2>3. AddsTo(f, S, g, 0)
    BY <2>1, <2>2 DEF AddsTo
  <2>4. QED
    BY <2>3
<1>5. ASSUME NEW n \in Nat, n \in N PROVE n + 1 \in N
  <2>1. PICK f : AddsTo(f, S, g, n)
    BY <1>5
  <2>2. /\ f \in [D(n) -> Int]
        /\ \A s \in SUBSET S : Cardinality(s) <= n => f[s] = IF s = {} THEN 0 ELSE g[PickOf(s)] + f[s \ {PickOf(s)}]
    BY <2>1 DEF AddsTo
  <2> DEFINE next(s) == IF s = {} THEN 0 ELSE g[PickOf(s)] + f[s \ {PickOf(s)}]
             h == [s \in D(n + 1) |-> next(s)]
  <2>3. ASSUME NEW s \in SUBSET S, Cardinality(s) <= n + 1, s # {}
        PROVE  s \ {PickOf(s)} \in D(n)
    <3>1. Cardinality(s) \in Nat /\ Cardinality(s \ {PickOf(s)}) = Cardinality(s) - 1
      BY <1>1, <1>3, <2>3
    <3>2. QED
      BY <1>3, <2>3, <3>1
  <2>4. ASSUME NEW s \in D(n + 1) PROVE next(s) \in Int
    <3>1. s # {} => f[s \ {PickOf(s)}] \in Int /\ g[PickOf(s)] \in Int
      BY <1>3, <2>2, <2>3
    <3> DEFINE a == g[PickOf(s)]
               b == f[s \ {PickOf(s)}]
    <3> HIDE DEF a, b
    <3>2. s # {} => a + b \in Int
      BY <3>1 DEF a, b
    <3>3. QED
      BY <3>2 DEF a, b
  <2>5. h \in [D(n + 1) -> Int]
    BY <2>4
  <2>6. ASSUME NEW s \in SUBSET S, Cardinality(s) <= n PROVE s \in D(n + 1) /\ h[s] = f[s]
    <3>1. Cardinality(s) <= n + 1
      BY <1>1, <2>6
    <3>2. s \in D(n + 1)
      BY <3>1
    <3>3. h[s] = next(s)
      BY <3>2
    <3>4. f[s] = next(s)
      BY <2>2, <2>6
    <3>5. QED
      BY <3>2, <3>3, <3>4
  <2>7. ASSUME NEW s \in SUBSET S, Cardinality(s) <= n + 1
        PROVE  h[s] = IF s = {} THEN 0 ELSE g[PickOf(s)] + h[s \ {PickOf(s)}]
    <3>1. h[s] = next(s)
      BY <2>7
    <3>2. s # {} => h[s \ {PickOf(s)}] = f[s \ {PickOf(s)}]
      BY <2>3, <2>6, <2>7
    <3> HIDE DEF h
    <3>3. QED
      BY <3>1, <3>2
  <2> HIDE DEF h
  <2>8. AddsTo(h, S, g, n + 1) /\ n + 1 \in Nat
    BY <2>5, <2>7 DEF AddsTo
  <2>9. QED
    BY <2>8
<1> HIDE DEF N
<1>6. Nat \subseteq N
  BY <1>4, <1>5, Induction
<1>7. QED
  BY <1>6 DEF N

SumOf(g, S) == MapThenSumSet(LAMBDA x : g[x], S)

LEMMA SumIs ==
    ASSUME NEW S, IsFiniteSet(S), NEW g, \A x \in S : g[x] \in Int
    PROVE  SumOf(g, S) \in Int
<1> DEFINE F(f) == f = [s \in SUBSET S |-> IF s = {} THEN 0 ELSE g[CHOOSE x \in s : TRUE]
                                                                   + f[s \ {CHOOSE x \in s : TRUE}]]
           n == Cardinality(S)
<1>1. SumOf(g, S) = (CHOOSE f : F(f))[S]
  BY DEF SumOf, MapThenSumSet, MapThenFoldSet
<1>2. n \in Nat /\ \A s \in SUBSET S : Cardinality(s) <= n
  BY FS_CardinalityType, FS_Subset
<1> HIDE DEF n
<1>3. PICK f : AddsTo(f, S, g, n)
  BY <1>2, AddsUpTo
<1>4. f \in [SUBSET S -> Int]
  <2>1. {s \in SUBSET S : Cardinality(s) <= n} = SUBSET S
    BY <1>2
  <2>2. QED
    BY <1>3, <2>1 DEF AddsTo
<1>5. \A s \in SUBSET S : f[s] = IF s = {} THEN 0 ELSE g[PickOf(s)] + f[s \ {PickOf(s)}]
  BY <1>2, <1>3 DEF AddsTo
<1>6. F(f)
  BY <1>4, <1>5 DEF PickOf
<1>7. \E e : F(e)
  BY <1>6
<1>8. F(CHOOSE e : F(e))
  BY <1>7
<1> DEFINE c == CHOOSE e : F(e)
<1>9. \A s \in SUBSET S : c[s] = IF s = {} THEN 0 ELSE g[PickOf(s)] + c[s \ {PickOf(s)}]
  BY <1>8 DEF PickOf
<1> HIDE DEF c, F
<1> DEFINE N == {m \in Nat : \A s \in SUBSET S : Cardinality(s) = m => c[s] \in Int}
<1>10. 0 \in N
  <2>1. \A s \in SUBSET S : Cardinality(s) = 0 => s = {}
    BY FS_Subset, FS_EmptySet
  <2>2. c[{}] = 0
    BY <1>9
  <2>3. \A s \in SUBSET S : Cardinality(s) = 0 => c[s] \in Int
    BY <2>1, <2>2
  <2>4. QED
    BY <2>3
<1>11. ASSUME NEW m \in Nat, m \in N PROVE m + 1 \in N
  <2>1. ASSUME NEW s \in SUBSET S, Cardinality(s) = m + 1 PROVE c[s] \in Int
    <3>1. IsFiniteSet(s) /\ s # {}
      <4>1. IsFiniteSet(s) /\ Cardinality({}) = 0 /\ m + 1 # 0
        BY FS_Subset, FS_EmptySet
      <4>2. QED
        BY <2>1, <4>1
    <3>2. PickOf(s) \in s
      BY <3>1, Picked
    <3> DEFINE r == s \ {PickOf(s)}
               a == g[PickOf(s)]
               b == c[r]
    <3>3. r \in SUBSET S /\ Cardinality(r) = m
      <4>1. Cardinality(r) = Cardinality(s) - 1
        BY <3>1, <3>2, FS_RemoveElement
      <4>2. (m + 1) - 1 = m
        OBVIOUS
      <4>3. QED
        BY <2>1, <4>1, <4>2
    <3>4. b \in Int /\ a \in Int /\ c[s] = a + b
      BY <1>9, <1>11, <3>1, <3>2, <3>3
    <3> HIDE DEF a, b
    <3>5. QED
      BY <3>4
  <2>2. QED
    BY <2>1
<1> HIDE DEF N
<1>12. Nat \subseteq N
  BY <1>10, <1>11, Induction
<1>13. c[S] \in Int
  BY <1>2, <1>12 DEF N, n
<1>14. QED
  BY <1>1, <1>13 DEF c

-----------------------------------------------------------------------------
(* Figures: percentiles.                                                   *)

\* An average, as the pair of a sum and a count that is not 0.
IsAverage(a) == a[1] \in Int /\ a[2] \in Nat \ {0}

LEMMA BelowIsStrict == ASSUME NEW a, IsAverage(a) PROVE ~Below(a, a)
<1> DEFINE x == a[1] * a[2]
<1>1. x \in Int
  BY DEF IsAverage
<1> HIDE DEF x
<1>2. ~(x < x)
  BY <1>1
<1>3. QED
  BY <1>2 DEF Below, x

LEMMA ScaledLess ==
    ASSUME NEW x \in Int, NEW y \in Int, NEW p \in Nat \ {0}
    PROVE  x < y <=> x * p < y * p
<1>1. x * p \in Int /\ y * p \in Int /\ (x < y => x * p + p <= y * p) /\ (y < x => y * p + p <= x * p)
      /\ (x = y => x * p = y * p)
  BY Products
<1> DEFINE a == x * p
           b == y * p
<1> HIDE DEF a, b
<1>2. a \in Int /\ b \in Int /\ (x < y => a + p <= b) /\ (y < x => b + p <= a) /\ (x = y => a = b)
  BY <1>1 DEF a, b
<1>3. x < y <=> a < b
  BY <1>2
<1>4. QED
  BY <1>3 DEF a, b

LEMMA BelowGoesOn ==
    ASSUME NEW a, NEW b, NEW c, IsAverage(a), IsAverage(b), IsAverage(c), Below(a, b), Below(b, c)
    PROVE  Below(a, c)
<1> DEFINE x == a[1]
           y == b[1]
           z == c[1]
           p == a[2]
           q == b[2]
           r == c[2]
<1>1. x \in Int /\ y \in Int /\ z \in Int /\ p \in Nat \ {0} /\ q \in Nat \ {0} /\ r \in Nat \ {0}
  BY DEF IsAverage
<1>2. x * q < y * p /\ y * r < z * q
  BY DEF Below
<1> HIDE DEF x, y, z, p, q, r
<1>3. (x * q) * r < (y * p) * r
  <2>1. x * q \in Int /\ y * p \in Int
    BY <1>1
  <2>2. QED
    BY <1>1, <1>2, <2>1, ScaledLess
<1>4. (y * r) * p < (z * q) * p
  <2>1. y * r \in Int /\ z * q \in Int
    BY <1>1
  <2>2. QED
    BY <1>1, <1>2, <2>1, ScaledLess
<1>5. (x * q) * r = (x * r) * q /\ (y * p) * r = (y * r) * p /\ (z * q) * p = (z * p) * q
  BY <1>1
<1>6. x * r \in Int /\ z * p \in Int /\ (x * r) * q \in Int /\ (z * p) * q \in Int /\ (y * r) * p \in Int
  BY <1>1
<1>7. (x * r) * q < (z * p) * q
  <2> DEFINE u == (x * r) * q
             v == (y * r) * p
             t == (z * p) * q
  <2>1. u < v /\ v < t /\ u \in Int /\ v \in Int /\ t \in Int
    BY <1>3, <1>4, <1>5, <1>6
  <2> HIDE DEF u, v, t
  <2>2. u < t
    BY <2>1
  <2>3. QED
    BY <2>2 DEF u, t
<1>8. x * r < z * p
  BY <1>1, <1>6, <1>7, ScaledLess
<1>9. QED
  BY <1>8 DEF Below, x, z, p, r

\* Of n averages, one has no more than k below it and fewer than n - k above.
Lower(v, r) == {q \in DOMAIN v : Below(v[q], v[r])}
Higher(v, r) == {q \in DOMAIN v : Below(v[r], v[q])}

LEMMA LowerGrows ==
    ASSUME NEW v, IsFiniteSet(DOMAIN v), \A r \in DOMAIN v : IsAverage(v[r]),
           NEW q \in DOMAIN v, NEW r \in DOMAIN v, Below(v[q], v[r])
    PROVE  Cardinality(Lower(v, q)) < Cardinality(Lower(v, r))
<1>1. \A p \in Lower(v, q) : p \in Lower(v, r)
  BY BelowGoesOn DEF Lower
<1>2. q \in Lower(v, r) /\ q \notin Lower(v, q)
  BY BelowIsStrict DEF Lower
<1>3. Lower(v, r) \in SUBSET DOMAIN v /\ Lower(v, q) \in SUBSET Lower(v, r)
  BY <1>1 DEF Lower
<1>4. IsFiniteSet(Lower(v, r)) /\ Cardinality(Lower(v, r)) \in Nat
  BY <1>3, FS_Subset, FS_CardinalityType
<1>5. IsFiniteSet(Lower(v, q)) /\ Cardinality(Lower(v, q)) \in Nat
  BY <1>3, <1>4, FS_Subset, FS_CardinalityType
<1>6. Cardinality(Lower(v, q)) <= Cardinality(Lower(v, r))
  BY <1>3, <1>4, FS_Subset
<1>7. Cardinality(Lower(v, r)) = Cardinality(Lower(v, q)) => Lower(v, r) = Lower(v, q)
  BY <1>3, <1>4, FS_Subset
<1>8. QED
  BY <1>2, <1>4, <1>5, <1>6, <1>7

LEMMA AtOffsetIs ==
    ASSUME NEW v, IsFiniteSet(DOMAIN v), \A r \in DOMAIN v : IsAverage(v[r]),
           NEW k \in Nat, k < Cardinality(DOMAIN v)
    PROVE  LET r == AtOffset(v, k)
           IN  r \in DOMAIN v /\ Cardinality(Higher(v, r)) < Cardinality(DOMAIN v) - k
<1> DEFINE S == DOMAIN v
           n == Cardinality(S)
           low(r) == Cardinality(Lower(v, r))
           lows == {low(r) : r \in S}
           few == {r \in S : low(r) <= k}
<1>1. n \in Nat /\ S # {} /\ k < n
  BY FS_CardinalityType, FS_EmptySet
<1>2. \A r \in S : IsFiniteSet(Lower(v, r)) /\ IsFiniteSet(Higher(v, r)) /\ low(r) \in Nat
                   /\ Cardinality(Higher(v, r)) \in Nat /\ low(r) <= n
  <2> TAKE r \in S
  <2>1. Lower(v, r) \in SUBSET S /\ Higher(v, r) \in SUBSET S
    BY DEF Lower, Higher
  <2>2. IsFiniteSet(Lower(v, r)) /\ IsFiniteSet(Higher(v, r)) /\ low(r) <= n
    BY <2>1, FS_Subset
  <2>3. QED
    BY <2>2, FS_CardinalityType
<1>3. \A q, r \in S : Below(v[q], v[r]) => low(q) < low(r)
  BY LowerGrows
<1>4. \A p \in SUBSET S : p # {} => \E r \in p : \A q \in p : low(r) <= low(q)
  <2> TAKE p \in SUBSET S
  <2> HAVE p # {}
  <2> DEFINE T == {low(r) : r \in p}
  <2>1. T \in SUBSET Int /\ T # {} /\ \A x \in T : 0 <= x
    BY <1>2
  <2>2. \A x \in T : \E r \in p : x = low(r)
    OBVIOUS
  <2>3. \A r \in p : low(r) \in T
    OBVIOUS
  <2> HIDE DEF T, low
  <2>4. Min(T) \in T /\ \A y \in T : Min(T) <= y
    BY <2>1, LeastIs
  <2>5. QED
    BY <2>2, <2>3, <2>4
<1> HIDE DEF S, n
<1>5. few # {}
  <2>1. PICK r \in S : \A q \in S : low(r) <= low(q)
    BY <1>1, <1>4
  <2>2. \A q \in S : ~Below(v[q], v[r])
    BY <1>2, <1>3, <2>1
  <2>3. Lower(v, r) = {}
    BY <2>2 DEF Lower, S
  <2>4. low(r) = 0
    BY <2>3, FS_EmptySet
  <2>5. QED
    BY <2>4
<1>6. PICK r \in few : \A q \in few : low(q) <= low(r)
  <2> DEFINE T == {low(r) : r \in few}
  <2>1. T \in SUBSET Int /\ T # {} /\ \A x \in T : x <= n
    BY <1>2, <1>5
  <2>2. \A x \in T : \E r \in few : x = low(r)
    OBVIOUS
  <2>3. \A r \in few : low(r) \in T
    OBVIOUS
  <2> HIDE DEF T, low, few
  <2>4. Max(T) \in T /\ \A y \in T : y <= Max(T)
    BY <1>1, <2>1, GreatestIs
  <2>5. QED
    BY <2>2, <2>3, <2>4
<1>7. Cardinality(Higher(v, r)) < n - k
  <2> DEFINE G == Higher(v, r)
  <2>1. G \in SUBSET S /\ r \in S /\ low(r) <= k
    BY DEF Higher, S
  <2>2. SUFFICES ASSUME Cardinality(G) >= n - k PROVE FALSE
    BY <1>1, <1>2, <2>1
  <2>3. G # {}
    BY <1>1, <2>2, FS_EmptySet
  <2>4. PICK q \in G : \A p \in G : low(q) <= low(p)
    BY <1>4, <2>1, <2>3
  <2>5. q \in S /\ Below(v[r], v[q]) /\ low(r) < low(q)
    BY <1>3, <2>1 DEF Higher
  <2>6. low(q) > k
    BY <1>1, <1>2, <1>6, <2>1, <2>5
  <2>7. \A p \in Lower(v, q) : p \in S \ G
    <3> TAKE p \in Lower(v, q)
    <3>1. p \in S /\ low(p) < low(q)
      BY <1>3, <2>5 DEF Lower, S
    <3>2. QED
      BY <1>2, <2>4, <2>5, <3>1
  <2>8. IsFiniteSet(S) /\ IsFiniteSet(G) /\ IsFiniteSet(S \ G) /\ Cardinality(S \ G) = n - Cardinality(G)
    <3>1. IsFiniteSet(S) /\ G \cap S = G /\ IsFiniteSet(G)
      BY <2>1, FS_Subset DEF S
    <3>2. IsFiniteSet(S \ G) /\ Cardinality(S \ G) = Cardinality(S) - Cardinality(S \cap G)
      BY <3>1, FS_Difference
    <3>3. S \cap G = G
      BY <2>1
    <3>4. QED
      BY <3>1, <3>2, <3>3 DEF n
  <2>9. low(q) <= n - Cardinality(G)
    <3>1. Lower(v, q) \in SUBSET (S \ G)
      BY <2>7
    <3>2. QED
      BY <2>8, <3>1, FS_Subset
  <2>10. Cardinality(G) \in Nat
    BY <2>8, FS_CardinalityType
  <2>11. QED
    BY <1>1, <1>2, <2>2, <2>5, <2>6, <2>9, <2>10
<1>8. r \in S /\ low(r) <= k
  OBVIOUS
<1>9. \E q \in S : low(q) <= k /\ Cardinality(Higher(v, q)) < n - k
  BY <1>7, <1>8
<1>10. AtOffset(v, k) = CHOOSE q \in S : low(q) <= k /\ Cardinality(Higher(v, q)) < n - k
  BY DEF AtOffset, Lower, Higher, S, n
<1> HIDE DEF low
<1>11. AtOffset(v, k) \in S /\ Cardinality(Higher(v, AtOffset(v, k))) < n - k
  BY <1>9, <1>10
<1>12. QED
  BY <1>11 DEF S, n

\* The 95th of a hundred averages is in its place in a list of n, and at most a twentieth is behind it.
LEMMA RankIs ==
    ASSUME NEW n \in Nat \ {0}
    PROVE  Rank95(n) \in Nat /\ Rank95(n) < n /\ \A m \in Nat : m < n - Rank95(n) => 20 * m <= n
<1> DEFINE c == CeilDiv(n * 95, 100)
<1>1. c \in Int /\ c * 100 <= n * 95 + 99 /\ n * 95 + 99 < c * 100 + 100
  <2> DEFINE t == n * 95 + 100 - 1
  <2>1. t \in Int /\ t = n * 95 + 99
    OBVIOUS
  <2> HIDE DEF t
  <2>2. t \div 100 \in Int /\ (t \div 100) * 100 <= t /\ t < (t \div 100) * 100 + 100
    BY <2>1, Quotients
  <2>3. c = t \div 100
    BY DEF CeilDiv, t
  <2> HIDE DEF c
  <2>4. QED
    BY <2>1, <2>2, <2>3
<1>2. Rank95(n) = IF 0 >= c - 1 THEN 0 ELSE c - 1
  <2>1. Rank95(n) = Max({0, c - 1})
    BY DEF Rank95
  <2> HIDE DEF c
  <2>2. c - 1 \in Int
    BY <1>1
  <2>3. QED
    BY <2>1, <2>2, ExtremesOfTwo
<1> HIDE DEF c
<1>3. c <= n
  BY <1>1
<1>4. QED
  BY <1>1, <1>2, <1>3


-----------------------------------------------------------------------------
(* Figures: what is stored of a metric.                                    *)

KeptBuckets(p, fineCut) == {b \in Int : p = Fine => b >= fineCut}

\* The store s of the samples of, of which those from cut on are raw and the rows from fineCut on fine.
Stored(s, of, cut, fineCut) ==
    /\ of \in SUBSET Times /\ s.value = Measure /\ s.raw = {t \in of : t >= cut}
    /\ cut \in Int /\ fineCut \in Int /\ Multiple(fineCut, Fine)
    /\ \A p \in {Fine, Hour} :
           /\ s.watermark[p] \in Nat \cup {NoTime}
           /\ cut = FirstTime \/ (s.watermark[p] # NoTime /\ cut <= s.watermark[p])
           /\ RowsOf(s.rolled[p], of, p, s.watermark[p], KeptBuckets(p, fineCut))

LEMMA PeriodsAre ==
    /\ Fine \in Nat \ {0} /\ Hour \in Nat \ {0} /\ Fine # Hour /\ DaySteps \in Nat \ {0}
    /\ Multiple(Hour, Fine) /\ Multiple(DaySteps, Hour) /\ Multiple(Hour, Hour) /\ Multiple(Fine, Fine)
<1>1. Fine \in Nat \ {0} /\ Hour \in Nat \ {0} /\ Fine # Hour /\ DaySteps \in Nat \ {0}
      /\ Hour % Fine = 0 /\ DaySteps % Hour = 0
  BY PeriodsAssumption
<1>2. QED
  BY <1>1, MultiplesAre

LEMMA SamplesAre == ASSUME NEW of \in SUBSET Times PROVE IsFiniteSet(of) /\ \A t \in of : t \in Nat /\ FirstTime <= t /\ t <= LastTime
<1>1. Times \in SUBSET Nat /\ IsFiniteSet(Times) /\ \A t \in Times : FirstTime <= t /\ t <= LastTime
  BY TimesAssumption, FS_Interval DEF Times
<1>2. IsFiniteSet(of)
  BY <1>1, FS_Subset
<1>3. QED
  BY <1>1, <1>2

\* A row of a metric holds some of its samples, all of the row's bucket.
LEMMA RollupIs ==
    ASSUME NEW s, NEW of, NEW cut, NEW fineCut, Stored(s, of, cut, fineCut), NEW p \in {Fine, Hour},
           NEW r \in s.rolled[p]
    PROVE  /\ r = [bucket |-> r.bucket, of |-> r.of] /\ r.bucket \in Nat /\ Multiple(r.bucket, p) /\ r.bucket <= LastTime
           /\ r.of \in SUBSET of /\ r.of # {} /\ IsFiniteSet(r.of)
           /\ \A t \in r.of : t \in Nat /\ t \in Times /\ Bucket(t, p) = r.bucket /\ r.bucket <= t
<1>1. RollupRow(r, of, p)
  BY DEF Stored, RowsOf
<1>2. p \in Nat \ {0} /\ of \in SUBSET Times
  BY PeriodsAre DEF Stored
<1>3. r.of \in SUBSET of /\ r.of # {} /\ r.bucket \in Int /\ Multiple(r.bucket, p)
      /\ r = [bucket |-> r.bucket, of |-> r.of] /\ \A t \in r.of : Bucket(t, p) = r.bucket
  BY <1>1 DEF RollupRow
<1>4. IsFiniteSet(r.of) /\ \A t \in r.of : t \in Nat /\ t <= LastTime
  BY <1>2, <1>3, SamplesAre
<1>5. \A t \in r.of : r.bucket <= t /\ 0 <= r.bucket
  <2> TAKE t \in r.of
  <2>1. t \in Int /\ t >= 0
    BY <1>4
  <2>2. Bucket(t, p) <= t /\ Bucket(t, p) >= 0 /\ Bucket(t, p) \in Int
    BY <1>2, <2>1, BucketOf
  <2>3. QED
    BY <1>3, <2>2
<1>6. PICK t \in r.of : TRUE
  BY <1>3
<1>7. r.bucket <= t /\ t <= LastTime /\ 0 <= r.bucket /\ t \in Nat
  BY <1>4, <1>5
<1>8. r.bucket \in Nat /\ r.bucket <= LastTime
  BY <1>3, <1>7, TimesAssumption
<1>9. QED
  BY <1>2, <1>3, <1>4, <1>5, <1>8

LEMMA RowsApart ==
    ASSUME NEW s, NEW of, NEW cut, NEW fineCut, Stored(s, of, cut, fineCut), NEW p \in {Fine, Hour},
           NEW r \in s.rolled[p], NEW q \in s.rolled[p]
    PROVE  r = q \/ r.bucket + p <= q.bucket \/ q.bucket + p <= r.bucket
<1>1. r.bucket = q.bucket => r = q
  BY DEF Stored, RowsOf
<1>2. p \in Nat \ {0} /\ r.bucket \in Nat /\ q.bucket \in Nat /\ Multiple(r.bucket, p) /\ Multiple(q.bucket, p)
  BY RollupIs, PeriodsAre
<1>3. (r.bucket < q.bucket => r.bucket + p <= q.bucket) /\ (q.bucket < r.bucket => q.bucket + p <= r.bucket)
  BY <1>2, MultiplesApart
<1>4. QED
  BY <1>1, <1>2, <1>3

\* What is rolled up and not retired is in a row.
LEMMA RowThere ==
    ASSUME NEW s, NEW of, NEW cut, NEW fineCut, Stored(s, of, cut, fineCut), NEW p \in {Fine, Hour},
           NEW t \in of, t < s.watermark[p], p = Fine => Bucket(t, Fine) >= fineCut
    PROVE  \E r \in s.rolled[p] : t \in r.of /\ r.bucket = Bucket(t, p)
<1>1. t \in Int /\ p \in Nat \ {0}
  BY SamplesAre, PeriodsAre DEF Stored
<1>2. Bucket(t, p) \in KeptBuckets(p, fineCut)
  BY <1>1, BucketOf DEF KeptBuckets
<1>3. \E r \in s.rolled[p] : t \in r.of
  BY <1>2 DEF Stored, RowsOf
<1>4. QED
  BY <1>3, RollupIs

\* What the raw samples are.
LEMMA RawIs ==
    ASSUME NEW s, NEW of, NEW cut, NEW fineCut, Stored(s, of, cut, fineCut), NEW a \in Int, NEW b \in Int
    PROVE  \A t : t \in RawIn(s, a, b) <=> t \in of /\ t \in Nat /\ cut <= t /\ a <= t /\ t <= b
<1>1. s.raw = {t \in of : t >= cut} /\ of \in SUBSET Times /\ cut \in Int
  BY DEF Stored
<1>2. \A t \in of : t \in Nat
  BY <1>1, SamplesAre
<1>3. \A t : t \in RawIn(s, a, b) <=> t \in s.raw /\ a <= t /\ t <= b
  BY DEF RawIn
<1>4. \A t \in of : t >= cut <=> cut <= t
  BY <1>1, <1>2
<1>5. QED
  BY <1>1, <1>2, <1>3, <1>4


-----------------------------------------------------------------------------
(* Figures: the volume of a window.                                        *)

LEMMA VolumeIs ==
    ASSUME NEW s, NEW of, NEW cut, NEW fineCut, Stored(s, of, cut, fineCut), NEW a \in Int, NEW b \in Int, a <= b
    PROVE  LET pieces == VolumePieces(s, a, b)
           IN  /\ \A p \in pieces : a <= p.from /\ p.to <= b
               /\ \A p, q \in pieces : p = q \/ p.to <= q.from \/ q.to <= p.from
<1> DEFINE five == FineRows(s, a, b)
           fives == {r.bucket : r \in five}
           olderUntil == IF five = {} THEN b ELSE Min(fives)
           hours == {r \in s.rolled[Hour] : r.bucket >= a /\ r.bucket + Hour <= olderUntil}
           tops == {r.bucket : r \in hours}
           newerFrom == IF five # {} THEN Max(fives) + Fine
                        ELSE IF hours # {} THEN Max(tops) + Hour ELSE a
           raw == RawIn(s, newerFrom, b)
           later(t) == {u \in raw : u > t}
           piece(r, p) == [from |-> r.bucket, to |-> r.bucket + p, of |-> r.of]
           ends(t) == [from |-> t, to |-> Min(later(t)), of |-> {t}]
           last == {u \in raw : later(u) # {}}
           A == {piece(r, Fine) : r \in five}
           B == {piece(r, Hour) : r \in hours}
           C == {ends(t) : t \in last}
           Disjoint(p, q) == p.to <= q.from \/ q.to <= p.from
<1>1. VolumePieces(s, a, b) = A \cup B \cup C
  BY DEF VolumePieces
<1>2. Fine \in Nat \ {0} /\ Hour \in Nat \ {0}
  BY PeriodsAre
<1>3. \A r \in five : r \in s.rolled[Fine] /\ r.bucket \in Nat /\ a <= r.bucket /\ r.bucket + Fine <= b
  <2>1. \A r \in five : r \in s.rolled[Fine] /\ r.bucket >= a /\ r.bucket + Fine <= b
    BY DEF FineRows
  <2>2. \A r \in five : r.bucket \in Nat
    BY <2>1, RollupIs
  <2>3. QED
    BY <2>1, <2>2
<1> HIDE DEF five
<1>4. five # {} => /\ Min(fives) \in fives /\ Max(fives) \in fives
                   /\ \A r \in five : Min(fives) <= r.bucket /\ r.bucket <= Max(fives)
  <2> SUFFICES ASSUME five # {} PROVE /\ Min(fives) \in fives /\ Max(fives) \in fives
                                      /\ \A r \in five : Min(fives) <= r.bucket /\ r.bucket <= Max(fives)
    OBVIOUS
  <2>1. fives \in SUBSET Int /\ fives # {} /\ \A x \in fives : a <= x /\ x <= b
    BY <1>2, <1>3
  <2>2. \A r \in five : r.bucket \in fives
    OBVIOUS
  <2> HIDE DEF fives
  <2>3. Min(fives) \in fives /\ \A y \in fives : Min(fives) <= y
    BY <2>1, LeastIs
  <2>4. Max(fives) \in fives /\ \A y \in fives : y <= Max(fives)
    BY <2>1, GreatestIs
  <2>5. QED
    BY <2>2, <2>3, <2>4
<1>5. \A x \in fives : x \in Nat /\ a <= x /\ x + Fine <= b
  BY <1>3
<1> HIDE DEF fives
<1>6. olderUntil \in Int /\ olderUntil <= b /\ \A r \in five : olderUntil <= r.bucket
  BY <1>2, <1>4, <1>5
<1>7. \A r \in hours : r \in s.rolled[Hour] /\ r.bucket \in Nat /\ a <= r.bucket /\ r.bucket + Hour <= olderUntil
  <2>1. \A r \in hours : r \in s.rolled[Hour] /\ r.bucket >= a /\ r.bucket + Hour <= olderUntil
    OBVIOUS
  <2> HIDE DEF olderUntil, hours
  <2>2. \A r \in hours : r.bucket \in Nat
    BY <2>1, RollupIs
  <2>3. QED
    BY <2>1, <2>2
<1> HIDE DEF hours
<1>8. hours # {} => Max(tops) \in tops /\ \A r \in hours : r.bucket <= Max(tops)
  <2> SUFFICES ASSUME hours # {} PROVE Max(tops) \in tops /\ \A r \in hours : r.bucket <= Max(tops)
    OBVIOUS
  <2> HIDE DEF olderUntil
  <2>1. tops \in SUBSET Int /\ tops # {} /\ \A x \in tops : x <= b
    BY <1>2, <1>6, <1>7
  <2>2. \A r \in hours : r.bucket \in tops
    OBVIOUS
  <2> HIDE DEF tops
  <2>3. Max(tops) \in tops /\ \A y \in tops : y <= Max(tops)
    BY <2>1, GreatestIs
  <2>4. QED
    BY <2>2, <2>3
<1>9. \A x \in tops : x \in Nat /\ a <= x
  BY <1>7
<1> HIDE DEF tops
<1>10. newerFrom \in Int /\ a <= newerFrom /\ \A r \in five : r.bucket + Fine <= newerFrom
  <2>1. CASE five # {}
    BY <1>2, <1>3, <1>4, <1>5, <2>1
  <2>2. CASE five = {}
    BY <1>2, <1>8, <1>9, <2>2
  <2>3. QED
    BY <2>1, <2>2
<1>11. \A r \in hours : r.bucket + Hour <= newerFrom
  <2> TAKE r \in hours
  <2>1. CASE five # {}
    <3>1. PICK x \in five : TRUE
      BY <2>1
    <3>2. r.bucket + Hour <= olderUntil /\ olderUntil <= x.bucket /\ x.bucket + Fine <= newerFrom
      BY <1>6, <1>7, <1>10
    <3> HIDE DEF olderUntil, newerFrom
    <3>3. QED
      BY <1>2, <1>3, <1>6, <1>7, <1>10, <3>2
  <2>2. CASE five = {}
    <3>1. newerFrom = Max(tops) + Hour /\ r.bucket <= Max(tops) /\ Max(tops) \in Nat
      BY <1>8, <1>9, <2>2
    <3> HIDE DEF newerFrom
    <3>2. QED
      BY <1>2, <1>7, <3>1
  <2>3. QED
    BY <2>1, <2>2
<1> HIDE DEF olderUntil, newerFrom
<1>12. \A t \in raw : t \in Nat /\ newerFrom <= t /\ t <= b
  BY <1>10, RawIs
<1> HIDE DEF raw
<1>13. ASSUME NEW t \in last
       PROVE  t \in raw /\ Min(later(t)) \in Nat /\ Min(later(t)) <= b /\ \A u \in raw : u > t => Min(later(t)) <= u
  <2> DEFINE l == later(t)
  <2>1. t \in raw /\ l # {}
    BY <1>13
  <2>2. l \in SUBSET Int /\ \A u \in l : 0 <= u /\ u \in Nat /\ u <= b
    BY <1>12
  <2>3. \A u \in raw : u > t => u \in l
    OBVIOUS
  <2> HIDE DEF l, later, last
  <2>4. Min(l) \in l /\ \A y \in l : Min(l) <= y
    <3>1. l \in SUBSET Int /\ l # {} /\ 0 \in Int /\ \A y \in l : 0 <= y
      BY <2>1, <2>2
    <3>2. QED
      BY <3>1, LeastIs
  <2>5. Min(l) \in Nat /\ Min(l) <= b /\ \A u \in raw : u > t => Min(l) <= u
    BY <2>2, <2>3, <2>4
  <2>6. QED
    BY <2>1, <2>5 DEF l
<1>14. ASSUME NEW p \in A
       PROVE  \E r \in five : p = piece(r, Fine) /\ p.from = r.bucket /\ p.to = r.bucket + Fine
  BY <1>14
<1>15. ASSUME NEW p \in B
       PROVE  \E r \in hours : p = piece(r, Hour) /\ p.from = r.bucket /\ p.to = r.bucket + Hour
  BY <1>15
<1> HIDE DEF later, last
<1>16. ASSUME NEW p \in C
       PROVE  \E t \in last : p = ends(t) /\ p.from = t /\ p.to = Min(later(t))
  BY <1>16
<1> HIDE DEF A, B, C, piece, ends
<1>17. ASSUME NEW p \in A \cup B \cup C PROVE a <= p.from /\ p.to <= b
  <2>1. CASE p \in A
    BY <1>3, <1>14, <2>1
  <2>2. CASE p \in B
    <3>1. PICK r \in hours : p.from = r.bucket /\ p.to = r.bucket + Hour
      BY <1>15, <2>2
    <3>2. QED
      BY <1>2, <1>6, <1>7, <3>1
  <2>3. CASE p \in C
    <3>1. PICK t \in last : p.from = t /\ p.to = Min(later(t))
      BY <1>16, <2>3
    <3>2. QED
      BY <1>10, <1>12, <1>13, <3>1
  <2>4. QED
    BY <2>1, <2>2, <2>3
<1>18. ASSUME NEW p \in A, NEW q \in A PROVE p = q \/ Disjoint(p, q)
  <2>1. PICK r \in five : p = piece(r, Fine) /\ p.from = r.bucket /\ p.to = r.bucket + Fine
    BY <1>14
  <2>2. PICK x \in five : q = piece(x, Fine) /\ q.from = x.bucket /\ q.to = x.bucket + Fine
    BY <1>14
  <2>3. r = x \/ r.bucket + Fine <= x.bucket \/ x.bucket + Fine <= r.bucket
    BY <1>3, RowsApart
  <2>4. QED
    BY <2>1, <2>2, <2>3
<1>19. ASSUME NEW p \in B, NEW q \in B PROVE p = q \/ Disjoint(p, q)
  <2>1. PICK r \in hours : p = piece(r, Hour) /\ p.from = r.bucket /\ p.to = r.bucket + Hour
    BY <1>15
  <2>2. PICK x \in hours : q = piece(x, Hour) /\ q.from = x.bucket /\ q.to = x.bucket + Hour
    BY <1>15
  <2>3. r = x \/ r.bucket + Hour <= x.bucket \/ x.bucket + Hour <= r.bucket
    BY <1>7, RowsApart
  <2>4. QED
    BY <2>1, <2>2, <2>3
<1>20. ASSUME NEW p \in C, NEW q \in C PROVE p = q \/ Disjoint(p, q)
  <2>1. PICK t \in last : p = ends(t) /\ p.from = t /\ p.to = Min(later(t))
    BY <1>16
  <2>2. PICK u \in last : q = ends(u) /\ q.from = u /\ q.to = Min(later(u))
    BY <1>16
  <2>3. t \in raw /\ u \in raw /\ t \in Nat /\ u \in Nat
    BY <1>12, <1>13
  <2>4. t = u \/ u > t \/ t > u
    BY <2>3
  <2>5. (u > t => p.to <= q.from) /\ (t > u => q.to <= p.from)
    BY <1>13, <2>1, <2>2, <2>3
  <2>6. QED
    BY <2>1, <2>2, <2>4, <2>5
<1>21. ASSUME NEW p \in A, NEW q \in B PROVE q.to <= p.from
  <2>1. PICK r \in five : p.from = r.bucket
    BY <1>14
  <2>2. PICK x \in hours : q.to = x.bucket + Hour
    BY <1>15
  <2>3. QED
    BY <1>2, <1>3, <1>6, <1>7, <2>1, <2>2
<1>22. ASSUME NEW p \in A \cup B, NEW q \in C PROVE p.to <= q.from
  <2>1. PICK t \in last : q.from = t
    BY <1>16
  <2>2. t \in Nat /\ newerFrom <= t
    BY <1>12, <1>13
  <2>3. p.to \in Int /\ p.to <= newerFrom
    <3>1. CASE p \in A
      BY <1>2, <1>3, <1>10, <1>14, <3>1
    <3>2. CASE p \in B
      BY <1>2, <1>7, <1>11, <1>15, <3>2
    <3>3. QED
      BY <3>1, <3>2
  <2>4. QED
    BY <1>10, <2>1, <2>2, <2>3
<1>23. ASSUME NEW p \in A \cup B \cup C, NEW q \in A \cup B \cup C PROVE p = q \/ Disjoint(p, q)
  <2>1. CASE p \in A
    BY <1>18, <1>21, <1>22, <2>1
  <2>2. CASE p \in B
    BY <1>19, <1>21, <1>22, <2>2
  <2>3. CASE p \in C
    BY <1>20, <1>22, <2>3
  <2>4. QED
    BY <2>1, <2>2, <2>3
<1>24. QED
  BY <1>1, <1>17, <1>23


-----------------------------------------------------------------------------
(* Figures: averages and maxima.                                           *)

LEMMA StatsAre ==
    ASSUME NEW stores, NEW ofs, NEW cut, NEW fineCut, \A k \in 1..2 : Stored(stores[k], ofs[k], cut, fineCut),
           NEW k \in 1..2, NEW a \in Int, NEW b \in Int, a <= b
    PROVE  LET oldest == OldestRaw(stores, b)
               stats == MetricStats(stores, k, a, b)
           IN  /\ \A t \in stats.rolled \cap stats.raw : Bucket(t, Hour) = Bucket(oldest, Hour)
               /\ \A t \in ofs[k] \ (stats.rolled \cup stats.raw) :
                      a <= t /\ t <= b => \/ Bucket(t, Hour) < a \/ t = b
                                          \/ stores[k].watermark[Hour] <= t /\ t < oldest
<1> DEFINE s == stores[k]
           of == ofs[k]
           first == stores[1].raw
           oldest == OldestRaw(stores, b)
           rows == RowsIn(s, Hour, a, oldest)
           rolled == IF a < oldest THEN UNION {r.of : r \in rows} ELSE {}
           from == Max({a, oldest})
           raw == RawIn(s, from, b)
           stats == MetricStats(stores, k, a, b)
           w == s.watermark[Hour]
<1>1. stats.rolled = rolled /\ stats.raw = raw
  BY DEF MetricStats
<1>2. Stored(s, of, cut, fineCut) /\ Stored(stores[1], ofs[1], cut, fineCut)
  OBVIOUS
<1>3. first = {t \in ofs[1] : t >= cut} /\ cut \in Int /\ ofs[1] \in SUBSET Times /\ of \in SUBSET Times
      /\ w \in Nat \cup {NoTime} /\ Hour \in {Fine, Hour}
  BY <1>2 DEF Stored
<1>4. \A t \in first : t \in Int /\ cut <= t
  BY <1>3, SamplesAre
<1>5. oldest = IF first = {} THEN b ELSE Min(first)
  BY DEF OldestRaw
<1> HIDE DEF first, oldest
<1>6. oldest \in Int /\ (oldest = b \/ cut <= oldest)
  <2>1. CASE first = {}
    BY <1>5, <2>1
  <2>2. CASE first # {}
    <3>1. first \in SUBSET Int /\ cut \in Int /\ \A x \in first : cut <= x
      BY <1>3, <1>4
    <3>2. Min(first) \in first
      BY <2>2, <3>1, LeastIs
    <3>3. QED
      BY <1>4, <1>5, <2>2, <3>2
  <2>3. QED
    BY <2>1, <2>2
<1>7. from \in Int /\ a <= from /\ oldest <= from /\ (from = a \/ from = oldest)
  BY <1>6, ExtremesOfTwo
<1> HIDE DEF s, of, from, w
<1>8. \A t : t \in raw <=> t \in of /\ t \in Nat /\ cut <= t /\ from <= t /\ t <= b
  BY <1>2, <1>7, RawIs
<1> HIDE DEF raw
<1>9. \A r : r \in rows <=> r \in s.rolled[Hour] /\ a <= r.bucket /\ r.bucket < oldest
  BY DEF RowsIn
<1> HIDE DEF rows
<1>10. \A r \in rows : r \in s.rolled[Hour] /\ r.bucket \in Nat /\ a <= r.bucket /\ r.bucket < oldest
                       /\ \A t \in r.of : t \in Nat /\ Bucket(t, Hour) = r.bucket
  BY <1>2, <1>9, RollupIs
<1>11. Hour \in Nat \ {0}
  BY PeriodsAre
<1>12. ASSUME NEW t \in rolled \cap raw PROVE Bucket(t, Hour) = Bucket(oldest, Hour)
  <2>1. PICK r \in rows : t \in r.of
    BY <1>12
  <2>2. t \in Nat /\ Bucket(t, Hour) = r.bucket /\ r.bucket < oldest /\ r.bucket \in Nat
    BY <1>10, <2>1
  <2>3. from <= t
    BY <1>8, <1>12
  <2>4. Bucket(t, Hour) <= oldest /\ oldest <= t
    BY <1>6, <1>7, <2>2, <2>3
  <2>5. Bucket(oldest, Hour) = Bucket(t, Hour)
    BY <1>6, <1>11, <2>2, <2>4, BucketBetween
  <2>6. QED
    BY <2>5
<1>13. ASSUME NEW t \in of, t \notin rolled, t \notin raw, a <= t, t <= b, ~(Bucket(t, Hour) < a), t # b
       PROVE  w <= t /\ t < oldest
  <2>1. t \in Nat /\ Bucket(t, Hour) \in Int /\ Bucket(t, Hour) <= t
    <3>1. t \in Nat
      BY <1>3, SamplesAre
    <3>2. t \in Int
      BY <3>1
    <3>3. Bucket(t, Hour) \in Int /\ Bucket(t, Hour) <= t
      BY <1>11, <3>2, BucketOf
    <3>4. QED
      BY <3>1, <3>3
  <2>2. t < oldest
    <3>1. SUFFICES ASSUME oldest <= t PROVE FALSE
      BY <1>6, <2>1
    <3>2. from <= t
      BY <1>7, <1>13, <3>1
    <3>3. ~(cut <= t)
      BY <1>8, <1>13, <2>1, <3>2
    <3>4. oldest # b
      BY <1>13, <2>1, <3>1
    <3>5. QED
      BY <1>3, <1>6, <2>1, <3>1, <3>3, <3>4
  <2>3. w <= t
    <3>1. SUFFICES ASSUME t < w PROVE FALSE
      BY <1>3, <2>1 DEF NoTime
    <3>2. PICK r \in s.rolled[Hour] : t \in r.of /\ r.bucket = Bucket(t, Hour)
      <4>1. Hour # Fine
        BY PeriodsAre
      <4>2. QED
        BY <1>2, <1>3, <3>1, <4>1, RowThere DEF w
    <3>3. r \in rows
      BY <1>6, <1>9, <1>13, <2>1, <2>2, <3>2
    <3>4. a < oldest
      BY <1>6, <1>13, <2>1, <2>2
    <3>5. t \in rolled
      BY <3>2, <3>3, <3>4
    <3>6. QED
      BY <1>13, <3>5
  <2>4. QED
    BY <2>2, <2>3
<1> HIDE DEF rolled
<1>14. \A t \in of \ (rolled \cup raw) : a <= t /\ t <= b => Bucket(t, Hour) < a \/ t = b \/ (w <= t /\ t < oldest)
  BY <1>13
<1> HIDE DEF stats
<1>15. /\ \A t \in stats.rolled \cap stats.raw : Bucket(t, Hour) = Bucket(oldest, Hour)
       /\ \A t \in of \ (stats.rolled \cup stats.raw) :
              a <= t /\ t <= b => Bucket(t, Hour) < a \/ t = b \/ (w <= t /\ t < oldest)
  BY <1>1, <1>12, <1>14
<1>16. QED
  BY <1>15 DEF stats, of, w, s, oldest

-----------------------------------------------------------------------------
(* Figures: the percentile of a window, and the summary of a metric.       *)

LEMMA RowAverages ==
    ASSUME NEW s, NEW of, NEW cut, NEW fineCut, Stored(s, of, cut, fineCut), NEW p \in {Fine, Hour},
           NEW r \in s.rolled[p]
    PROVE  IsAverage(Average(s, r.of))
<1> DEFINE x == r.of
<1>1. IsFiniteSet(x) /\ x # {} /\ \A t \in x : t \in Times /\ t \in Nat
  BY RollupIs
<1>2. \A t \in x : s.value[t] \in Int
  <2>1. s.value = Measure
    BY DEF Stored
  <2>2. \A t \in Times : Measure[t] = (3 * t) % 5
    BY DEF Measure
  <2>3. \A t \in Nat : (3 * t) % 5 \in Int
    OBVIOUS
  <2>4. QED
    BY <1>1, <2>1, <2>2, <2>3
<1> HIDE DEF x
<1>3. SumOf(s.value, x) \in Int
  BY <1>1, <1>2, SumIs
<1>4. Cardinality(x) \in Nat \ {0}
  BY <1>1, FS_CardinalityType, FS_EmptySet
<1>5. Average(s, x) = <<SumOf(s.value, x), Cardinality(x)>>
  BY DEF Average, SumOf
<1> DEFINE m == SumOf(s.value, x)
           n == Cardinality(x)
<1>6. Average(s, x) = <<m, n>> /\ m \in Int /\ n \in Nat \ {0}
  BY <1>3, <1>4, <1>5
<1> HIDE DEF m, n
<1>7. IsAverage(Average(s, x))
  BY <1>6 DEF IsAverage
<1>8. QED
  BY <1>7 DEF x

\* Of some rows of a metric, the average in the place of the percentile.
LEMMA RankedIs ==
    ASSUME NEW s, NEW rows, IsFiniteSet(rows), rows # {}, \A r \in rows : IsAverage(Average(s, r.of))
    PROVE  LET v == Averages(s, rows)
               at == v[AtOffset(v, Rank95(Cardinality(DOMAIN v)))]
           IN  20 * Cardinality({r \in rows : Below(at, Average(s, r.of))}) <= Cardinality(rows)
<1> DEFINE v == Averages(s, rows)
           n == Cardinality(rows)
           k == Rank95(n)
           r == AtOffset(v, k)
           above == {q \in rows : Below(v[r], Average(s, q.of))}
<1>1. DOMAIN v = rows /\ \A q \in rows : v[q] = Average(s, q.of)
  BY DEF Averages
<1> HIDE DEF v
<1>2. n \in Nat \ {0}
  BY FS_CardinalityType, FS_EmptySet
<1> HIDE DEF n
<1>3. k \in Nat /\ k < n /\ \A m \in Nat : m < n - k => 20 * m <= n
  BY <1>2, RankIs
<1> HIDE DEF k
<1>4. IsFiniteSet(DOMAIN v) /\ k < Cardinality(DOMAIN v) /\ \A q \in DOMAIN v : IsAverage(v[q])
  BY <1>1, <1>3 DEF n
<1>5. r \in DOMAIN v /\ Cardinality(Higher(v, r)) < Cardinality(DOMAIN v) - k
  BY <1>3, <1>4, AtOffsetIs
<1>6. above = Higher(v, r)
  BY <1>1 DEF Higher
<1>7. IsFiniteSet(above)
  <2>1. above \in SUBSET rows
    OBVIOUS
  <2> HIDE DEF above
  <2>2. QED
    BY <2>1, FS_Subset
<1>8. Cardinality(above) \in Nat
  BY <1>7, FS_CardinalityType
<1>9. Cardinality(above) < n - k
  BY <1>1, <1>5, <1>6 DEF n
<1>10. 20 * Cardinality(above) <= n
  BY <1>3, <1>8, <1>9
<1>11. QED
  BY <1>1, <1>10 DEF v, k, n


LEMMA PercentileIs ==
    ASSUME NEW s, NEW of, NEW cut, NEW fineCut, Stored(s, of, cut, fineCut), NEW a \in Int, NEW b \in Int, a <= b
    PROVE  LET p == Percentile95(s, a, b)
               rows == RowsIn(s, p.basis, a, b)
               above == {r \in rows : Below(p.p95, Average(s, r.of))}
           IN  /\ p.basis \in {Fine, Hour} => 20 * Cardinality(above) <= Cardinality(rows)
               /\ p.basis = NoTime => \A t \in s.raw : ~(a <= t /\ t <= b)
<1> DEFINE p == Percentile95(s, a, b)
           rows(q) == RowsIn(s, q, a, b)
           raw == RawIn(s, a, b)
           at95(v) == v[AtOffset(v, Rank95(Cardinality(DOMAIN v)))]
           top(q) == at95(Averages(s, rows(q)))
           above == {r \in rows(p.basis) : Below(p.p95, Average(s, r.of))}
<1>1. ASSUME NEW q \in {Fine, Hour}, p = [basis |-> q, p95 |-> top(q)]
      PROVE  20 * Cardinality(above) <= Cardinality(rows(q)) /\ p.basis = q
  <2> DEFINE R == rows(q)
             at == top(q)
  <2>1. p.basis = q /\ p.p95 = at
    BY <1>1
  <2>2. \A r \in R : r \in s.rolled[q]
    BY DEF RowsIn
  <2>3. IsFiniteSet(s.rolled[q]) /\ R \in SUBSET s.rolled[q]
    BY <2>2 DEF Stored, RowsOf
  <2>4. IsFiniteSet(R) /\ \A r \in R : IsAverage(Average(s, r.of))
    BY <2>2, <2>3, FS_Subset, RowAverages
  <2>5. above = {r \in R : Below(at, Average(s, r.of))}
    BY <2>1
  <2>6. at = Averages(s, R)[AtOffset(Averages(s, R), Rank95(Cardinality(DOMAIN Averages(s, R))))]
    OBVIOUS
  <2> HIDE DEF R, at
  <2>7. CASE R = {}
    <3>1. above = {}
      BY <2>5, <2>7
    <3> HIDE DEF above
    <3>2. Cardinality(above) = 0 /\ Cardinality(R) = 0
      BY <2>7, <3>1, FS_EmptySet
    <3>3. QED
      BY <2>1, <3>2 DEF R
  <2>8. CASE R # {}
    <3>1. 20 * Cardinality({r \in R : Below(at, Average(s, r.of))}) <= Cardinality(R)
      BY <2>4, <2>6, <2>8, RankedIs
    <3>2. QED
      BY <2>1, <2>5, <3>1 DEF R
  <2>9. QED
    BY <2>7, <2>8
<1>2. \/ p = [basis |-> Fine, p95 |-> top(Fine)]
      \/ p = [basis |-> Hour, p95 |-> top(Hour)]
      \/ raw = {} /\ p = [basis |-> NoTime, p95 |-> <<>>]
      \/ \E x : p = [basis |-> 0, p95 |-> x]
  BY DEF Percentile95
<1>3. Fine # NoTime /\ Hour # NoTime /\ 0 # NoTime /\ 0 \notin {Fine, Hour} /\ NoTime \notin {Fine, Hour}
  BY PeriodsAre DEF NoTime
<1> HIDE DEF top, at95
<1>4. raw = {} => \A t \in s.raw : ~(a <= t /\ t <= b)
  BY DEF RawIn
<1> HIDE DEF p, raw
<1>5. (p.basis \in {Fine, Hour} => 20 * Cardinality(above) <= Cardinality(rows(p.basis)))
      /\ (p.basis = NoTime => \A t \in s.raw : ~(a <= t /\ t <= b))
  <2>1. CASE p = [basis |-> Fine, p95 |-> top(Fine)]
    BY <1>1, <1>3, <2>1
  <2>2. CASE p = [basis |-> Hour, p95 |-> top(Hour)]
    BY <1>1, <1>3, <2>2
  <2>3. CASE raw = {} /\ p = [basis |-> NoTime, p95 |-> <<>>]
    <3>1. p.basis = NoTime
      BY <2>3
    <3>2. QED
      BY <1>3, <1>4, <2>3, <3>1
  <2>4. CASE \E x : p = [basis |-> 0, p95 |-> x]
    <3>1. p.basis = 0
      BY <2>4
    <3>2. QED
      BY <1>3, <3>1
  <2>5. QED
    BY <1>2, <2>1, <2>2, <2>3, <2>4
<1>6. QED
  BY <1>5 DEF p

LEMMA SummaryIs ==
    ASSUME NEW s, NEW of, NEW cut, NEW fineCut, Stored(s, of, cut, fineCut), NEW a \in Int, NEW b \in Int, a <= b
    PROVE  LET summary == MetricSummary(s, a, b)
           IN  \A t \in of \ summary.of : a <= t /\ t <= b =>
                   t < cut /\ (summary.of = {} => Bucket(t, Hour) < a)
<1> DEFINE raw == RawIn(s, a, b)
           rows == RowsIn(s, Hour, a, b + 1)
           rolled == UNION {r.of : r \in rows}
           found == IF raw # {} THEN raw ELSE rolled
<1>1. MetricSummary(s, a, b).of = found
  BY DEF MetricSummary
<1>2. \A t : t \in raw <=> t \in of /\ t \in Nat /\ cut <= t /\ a <= t /\ t <= b
  BY RawIs
<1>3. of \in SUBSET Times /\ cut \in Int /\ Hour \in Nat \ {0} /\ Hour # Fine /\ Hour \in {Fine, Hour}
  BY PeriodsAre DEF Stored
<1>4. ASSUME NEW t \in of, t \notin found, a <= t, t <= b PROVE t < cut /\ (found = {} => Bucket(t, Hour) < a)
  <2>1. t \in Nat /\ FirstTime <= t /\ FirstTime \in Nat
    BY <1>3, SamplesAre, TimesAssumption
  <2>2. t \notin raw
    BY <1>4
  <2>3. t < cut
    BY <1>2, <1>3, <1>4, <2>1, <2>2
  <2>4. ASSUME found = {} PROVE Bucket(t, Hour) < a
    <3>1. Bucket(t, Hour) \in Int /\ Bucket(t, Hour) <= t
      BY <1>3, <2>1, BucketOf
    <3>2. SUFFICES ASSUME a <= Bucket(t, Hour) PROVE FALSE
      BY <3>1
    <3>3. t < s.watermark[Hour]
      <4>1. cut # FirstTime
        BY <1>3, <2>1, <2>3
      <4>2. s.watermark[Hour] # NoTime /\ cut <= s.watermark[Hour] /\ s.watermark[Hour] \in Nat \cup {NoTime}
        BY <1>3, <4>1 DEF Stored
      <4>3. QED
        BY <1>3, <2>1, <2>3, <4>2
    <3>4. PICK r \in s.rolled[Hour] : t \in r.of /\ r.bucket = Bucket(t, Hour)
      BY <1>3, <3>3, RowThere
    <3>5. r \in rows
      BY <1>4, <2>1, <3>1, <3>2, <3>4 DEF RowsIn
    <3>6. t \in rolled
      BY <3>4, <3>5
    <3>7. raw = {} /\ rolled = {}
      BY <2>4
    <3>8. QED
      BY <3>6, <3>7
  <2>5. QED
    BY <2>3, <2>4
<1> HIDE DEF found
<1>5. QED
  BY <1>1, <1>4

-----------------------------------------------------------------------------
(* Figures: charts.                                                        *)

\* A step is a multiple of each period it is not below.
LEMMA StepIs ==
    ASSUME NEW span \in Nat, NEW points \in Nat \ {0}
    PROVE  LET step == NiceStep(span, 1, points)
           IN  step \in Nat \ {0} /\ \A p \in {Fine, Hour} : step >= p => Multiple(step, p)
<1> DEFINE per == CeilDiv(span, Max({1, points}))
           want == Max({1, per})
           enough == {i \in DOMAIN NiceSteps : NiceSteps[i] >= want}
           days == CeilDiv(want, DaySteps)
           step == NiceStep(span, 1, points)
<1>1. step = IF enough # {} THEN NiceSteps[Min(enough)] ELSE days * DaySteps
  BY DEF NiceStep
<1>2. per \in Int
  <2> DEFINE m == Max({1, points})
  <2>1. m \in Nat \ {0}
    <3>1. m = IF 1 >= points THEN 1 ELSE points
      BY ExtremesOfTwo
    <3>2. QED
      BY <3>1
  <2>2. per = (span + m - 1) \div m
    BY DEF CeilDiv
  <2> HIDE DEF m, per
  <2>3. span + m - 1 \in Int
    BY <2>1
  <2>4. QED
    BY <2>1, <2>2, <2>3
<1> HIDE DEF per
<1>3. want \in Int /\ want >= 1
  <2>1. want = IF 1 >= per THEN 1 ELSE per
    BY <1>2, ExtremesOfTwo
  <2> HIDE DEF want
  <2>2. QED
    BY <1>2, <2>1
<1> HIDE DEF want
<1>4. Fine \in Nat \ {0} /\ Hour \in Nat \ {0} /\ DaySteps \in Nat \ {0} /\ Multiple(Hour, Fine) /\ Multiple(DaySteps, Hour)
  BY PeriodsAre
<1>5. CASE enough # {}
  <2> DEFINE i == Min(enough)
             x == NiceSteps[i]
  <2>1. DOMAIN NiceSteps = 1..Len(NiceSteps) /\ Len(NiceSteps) \in Nat /\ \A j \in DOMAIN NiceSteps : NiceSteps[j] \in Nat
    BY PeriodsAssumption
  <2>2. enough \in SUBSET Int /\ \A j \in enough : 1 <= j
    BY <2>1
  <2>3. i \in enough
    <3> HIDE DEF enough
    <3>1. enough \in SUBSET Int /\ enough # {} /\ 1 \in Int /\ \A j \in enough : 1 <= j
      BY <1>5, <2>2
    <3>2. QED
      BY <3>1, LeastIs
  <2>4. i \in DOMAIN NiceSteps /\ x >= want /\ x \in Nat
    BY <2>1, <2>3
  <2>5. (x >= Fine => x % Fine = 0) /\ (x >= Hour => x % Hour = 0)
    BY <2>4, PeriodsAssumption
  <2> HIDE DEF i
  <2>6. step = x
    BY <1>1, <1>5 DEF i
  <2> HIDE DEF x, step, enough
  <2>7. (x >= Fine => Multiple(x, Fine)) /\ (x >= Hour => Multiple(x, Hour))
    BY <1>4, <2>4, <2>5, MultiplesAre
  <2>8. step \in Nat \ {0} /\ \A p \in {Fine, Hour} : step >= p => Multiple(step, p)
    BY <1>3, <2>4, <2>6, <2>7
  <2>9. QED
    BY <2>8 DEF step
<1>6. CASE enough = {}
  <2>1. step = days * DaySteps
    BY <1>1, <1>6
  <2>2. days \in Int /\ days >= 1
    <3> DEFINE t == want + DaySteps - 1
    <3>1. t \in Int /\ t >= DaySteps
      BY <1>3, <1>4
    <3> HIDE DEF t
    <3>2. days = t \div DaySteps
      BY DEF CeilDiv, t
    <3>3. t \div DaySteps \in Int /\ t < (t \div DaySteps) * DaySteps + DaySteps
      BY <1>4, <3>1, Quotients
    <3> HIDE DEF days
    <3>4. days < 1 => days * DaySteps + DaySteps <= 1 * DaySteps
      BY <1>4, <3>2, <3>3, Products
    <3> DEFINE y == days * DaySteps
    <3>5. y \in Int /\ 1 * DaySteps = DaySteps
      BY <1>4, <3>2, <3>3
    <3>6. t < y + DaySteps /\ (days < 1 => y + DaySteps <= DaySteps)
      BY <3>2, <3>3, <3>4, <3>5
    <3> HIDE DEF y
    <3>7. QED
      BY <1>4, <3>1, <3>2, <3>3, <3>5, <3>6
  <2> HIDE DEF days, step
  <2>3. step \in Nat \ {0}
    BY <1>4, <2>1, <2>2
  <2>4. Multiple(step, DaySteps)
    BY <2>1, <2>2 DEF Multiple
  <2>5. Multiple(step, Hour)
    BY <1>4, <2>4, MultiplesOf
  <2>6. Multiple(step, Fine)
    BY <1>4, <2>5, MultiplesOf
  <2>7. QED
    BY <2>3, <2>5, <2>6 DEF step
<1>7. QED
  BY <1>5, <1>6


Charted(s, of, cut, fineCut, a, b, step) ==
    LET chart == Bucketed(s, a, b, step)
        in(c) == UNION chart[c]
        long == step >= Fine /\ b - a > RawSpan
        period == IF step >= Hour THEN Hour ELSE Fine
    IN  /\ \A c \in DOMAIN chart : in(c) # {} /\ \A t \in in(c) : Bucket(t, step) = c
        /\ \A t \in of : a <= t /\ t <= b =>
               \/ Bucket(t, step) \in DOMAIN chart /\ t \in in(Bucket(t, step))
               \/ Bucket(t, period) < a
               \/ long /\ period = Fine /\ t < fineCut
               \/ long /\ Bucket(t, step) = Bucket(Min({b, s.watermark[period]}), step)
               \/ ~long /\ t < cut

LEMMA ChartIs ==
    ASSUME NEW s, NEW of, NEW cut, NEW fineCut, Stored(s, of, cut, fineCut),
           NEW a \in Int, NEW b \in Int, a <= b, NEW step \in Nat \ {0},
           \A p \in {Fine, Hour} : step >= p => Multiple(step, p)
    PROVE  Charted(s, of, cut, fineCut, a, b, step)
<1> DEFINE long == step >= Fine /\ b - a > RawSpan
           period == IF step >= Hour THEN Hour ELSE Fine
           w == s.watermark[period]
           rollEnd == IF w = NoTime THEN a ELSE Min({b, w})
           rows == IF long THEN RowsIn(s, period, a, rollEnd) ELSE {}
           from == IF long THEN Max({a, rollEnd}) ELSE a
           raw == RawIn(s, from, b)
           fresh(c) == {t \in raw : Bucket(t, step) = c}
           old(c) == {r.of : r \in {q \in rows : Bucket(q.bucket, step) = c}}
           at(c) == IF fresh(c) # {} THEN {fresh(c)} ELSE old(c)
           places == {Bucket(t, step) : t \in raw} \cup {Bucket(r.bucket, step) : r \in rows}
           chart == Bucketed(s, a, b, step)
<1>1. chart = [c \in places |-> at(c)]
  BY DEF Bucketed
<1> HIDE DEF at, places, chart, fresh, old
<1>2. DOMAIN chart = places /\ \A c \in places : chart[c] = at(c)
  BY <1>1
<1>3. Fine \in Nat \ {0} /\ Hour \in Nat \ {0} /\ Multiple(Hour, Fine)
  BY PeriodsAre
<1>4. period \in {Fine, Hour} /\ (long => Multiple(step, period))
  BY <1>3
<1> HIDE DEF period, long
<1>5. of \in SUBSET Times /\ cut \in Int /\ fineCut \in Int /\ Multiple(fineCut, Fine) /\ w \in Nat \cup {NoTime}
      /\ (cut = FirstTime \/ (w # NoTime /\ cut <= w))
  BY <1>4 DEF Stored
<1>6. period \in Nat \ {0}
  BY <1>3, <1>4
<1> HIDE DEF w
<1>7. rollEnd \in Int /\ (w = NoTime => rollEnd = a) /\ (w # NoTime => rollEnd = Min({b, w}) /\ rollEnd <= b /\ rollEnd <= w
          /\ (rollEnd = b \/ rollEnd = w))
  <2>1. CASE w = NoTime
    BY <2>1
  <2>2. CASE w # NoTime
    <3>1. w \in Int
      BY <1>5, <2>2
    <3>2. Min({b, w}) = IF b <= w THEN b ELSE w
      BY <3>1, ExtremesOfTwo
    <3>3. rollEnd = Min({b, w})
      BY <2>2
    <3> HIDE DEF rollEnd
    <3>4. QED
      BY <2>2, <3>1, <3>2, <3>3
  <2>3. QED
    BY <2>1, <2>2
<1> HIDE DEF rollEnd
<1>8. from \in Int /\ a <= from /\ (long => rollEnd <= from) /\ (~long => from = a) /\ (from = a \/ from = rollEnd)
  <2>1. Max({a, rollEnd}) = IF a >= rollEnd THEN a ELSE rollEnd
    BY <1>7, ExtremesOfTwo
  <2> DEFINE m == Max({a, rollEnd})
  <2>2. m \in Int /\ a <= m /\ rollEnd <= m /\ (m = a \/ m = rollEnd)
    BY <1>7, <2>1
  <2> HIDE DEF m
  <2>3. from = IF long THEN m ELSE a
    BY DEF m
  <2> HIDE DEF from
  <2>4. QED
    BY <2>2, <2>3
<1> HIDE DEF from
<1>9. \A t : t \in raw <=> t \in of /\ t \in Nat /\ cut <= t /\ from <= t /\ t <= b
  BY <1>8, RawIs
<1> HIDE DEF raw
<1>10. \A r : r \in rows <=> long /\ r \in s.rolled[period] /\ a <= r.bucket /\ r.bucket < rollEnd
  BY DEF RowsIn
<1> HIDE DEF rows
<1>11. ASSUME NEW r \in rows
       PROVE  r.of # {} /\ r.bucket \in Nat /\ \A t \in r.of : Bucket(t, step) = Bucket(r.bucket, step)
  <2>1. r \in s.rolled[period] /\ Multiple(step, period)
    BY <1>4, <1>10
  <2>2. r.of # {} /\ r.bucket \in Nat /\ \A t \in r.of : t \in Nat /\ Bucket(t, period) = r.bucket
    BY <1>4, <2>1, RollupIs
  <2>3. \A t \in r.of : Bucket(Bucket(t, period), step) = Bucket(t, step)
    <3> TAKE t \in r.of
    <3>1. t \in Int
      BY <2>2
    <3>2. QED
      BY <1>6, <2>1, <3>1, BucketsNest
  <2>4. QED
    BY <2>2, <2>3
<1>12. \A c : \A t : t \in fresh(c) <=> t \in raw /\ Bucket(t, step) = c
  BY DEF fresh
<1>13. \A c : \A o : o \in old(c) <=> \E r \in rows : o = r.of /\ Bucket(r.bucket, step) = c
  BY DEF old
<1>14. \A c : c \in places <=> (\E t \in raw : c = Bucket(t, step)) \/ (\E r \in rows : c = Bucket(r.bucket, step))
  BY DEF places
<1>15. \A c : (fresh(c) # {} => UNION at(c) = fresh(c)) /\ (fresh(c) = {} => at(c) = old(c))
  BY DEF at
<1>16. ASSUME NEW c \in places PROVE UNION at(c) # {} /\ \A t \in UNION at(c) : Bucket(t, step) = c
  <2>1. CASE fresh(c) # {}
    BY <1>12, <1>15, <2>1
  <2>2. CASE fresh(c) = {}
    <3>1. PICK r \in rows : c = Bucket(r.bucket, step)
      BY <1>12, <1>14, <2>2
    <3>2. r.of \in at(c) /\ r.of # {}
      BY <1>11, <1>13, <1>15, <2>2, <3>1
    <3>3. ASSUME NEW t \in UNION at(c) PROVE Bucket(t, step) = c
      <4>1. PICK o \in old(c) : t \in o
        BY <1>15, <2>2
      <4>2. PICK q \in rows : o = q.of /\ Bucket(q.bucket, step) = c
        BY <1>13
      <4>3. QED
        BY <1>11, <4>1, <4>2
    <3>4. QED
      BY <3>2, <3>3
  <2>3. QED
    BY <2>1, <2>2
<1>17. ASSUME NEW t \in of, a <= t, t <= b, ~(Bucket(t, period) < a), ~(long /\ period = Fine /\ t < fineCut),
              ~(long /\ Bucket(t, step) = Bucket(Min({b, w}), step)), ~(~long /\ t < cut)
       PROVE  Bucket(t, step) \in places /\ t \in UNION at(Bucket(t, step))
  <2> DEFINE c == Bucket(t, step)
  <2>1. t \in Nat /\ FirstTime <= t /\ FirstTime \in Nat /\ t \in Int
    BY <1>5, SamplesAre, TimesAssumption
  <2>2. ASSUME t \in raw PROVE c \in places /\ t \in UNION at(c)
    <3>1. t \in fresh(c)
      BY <1>12, <2>2
    <3>2. QED
      BY <1>14, <1>15, <2>2, <3>1
  <2>3. Bucket(t, period) \in Int /\ Bucket(t, period) <= t
    BY <1>6, <2>1, BucketOf
  <2>4. CASE ~long
    <3>1. t \in raw
      BY <1>5, <1>8, <1>9, <1>17, <2>1, <2>4
    <3>2. QED
      BY <2>2, <3>1
  <2>5. CASE long /\ rollEnd <= t
    <3>1. cut <= t
      <4>1. CASE w = NoTime
        BY <1>5, <2>1, <4>1
      <4>2. CASE w # NoTime
        <5>1. rollEnd # b
          <6>1. rollEnd # t
            BY <1>7, <1>17, <2>5, <4>2
          <6>2. QED
            BY <1>7, <1>17, <2>1, <2>5, <6>1
        <5>2. w <= t
          BY <1>7, <2>5, <4>2, <5>1
        <5>3. QED
          BY <1>5, <2>1, <4>2, <5>2
      <4>3. QED
        BY <4>1, <4>2
    <3>2. from <= t
      BY <1>8, <1>17, <2>1, <2>5
    <3>3. t \in raw
      BY <1>9, <1>17, <2>1, <3>1, <3>2
    <3>4. QED
      BY <2>2, <3>3
  <2>6. CASE long /\ t < rollEnd
    <3>1. w # NoTime /\ t < w
      BY <1>5, <1>7, <1>17, <2>1, <2>6
    <3>2. period = Fine => Bucket(t, Fine) >= fineCut
      <4> SUFFICES ASSUME period = Fine PROVE Bucket(t, Fine) >= fineCut
        OBVIOUS
      <4>1. fineCut <= t
        BY <1>5, <1>17, <2>1, <2>6
      <4>2. fineCut <= Bucket(t, Fine)
        BY <1>3, <1>5, <2>1, <4>1, BucketOf
      <4>3. QED
        BY <1>5, <2>3, <4>2
    <3>3. PICK r \in s.rolled[period] : t \in r.of /\ r.bucket = Bucket(t, period)
      BY <1>4, <3>1, <3>2, RowThere DEF w
    <3>4. r \in rows
      BY <1>7, <1>10, <1>17, <2>1, <2>3, <2>6, <3>3
    <3>5. Bucket(r.bucket, step) = c
      BY <1>11, <3>3, <3>4
    <3>6. fresh(c) = {}
      <4>1. SUFFICES ASSUME NEW u \in fresh(c) PROVE FALSE
        OBVIOUS
      <4>2. u \in Nat /\ from <= u /\ Bucket(u, step) = c
        BY <1>9, <1>12
      <4>3. rollEnd <= u /\ u \in Int
        BY <1>7, <1>8, <2>6, <4>2
      <4>4. c \in Int /\ c <= t
        BY <2>1, BucketOf
      <4>5. Bucket(u, step) <= rollEnd
        BY <1>7, <2>1, <2>6, <4>2, <4>4
      <4>6. Bucket(rollEnd, step) = Bucket(u, step)
        BY <1>7, <4>3, <4>5, BucketBetween
      <4>7. rollEnd = Min({b, w})
        BY <1>7, <3>1
      <4>8. QED
        BY <1>17, <2>6, <4>2, <4>6, <4>7
    <3>7. r.of \in at(c)
      BY <1>13, <1>15, <3>4, <3>5, <3>6
    <3>8. c \in places
      BY <1>14, <3>4, <3>5
    <3>9. QED
      BY <3>3, <3>7, <3>8
  <2>7. QED
    BY <1>7, <2>1, <2>4, <2>5, <2>6
<1>18. \A c \in DOMAIN chart : UNION chart[c] # {} /\ \A t \in UNION chart[c] : Bucket(t, step) = c
  BY <1>2, <1>16
<1>19. \A t \in of : a <= t /\ t <= b =>
           \/ Bucket(t, step) \in DOMAIN chart /\ t \in UNION chart[Bucket(t, step)]
           \/ Bucket(t, period) < a
           \/ long /\ period = Fine /\ t < fineCut
           \/ long /\ Bucket(t, step) = Bucket(Min({b, w}), step)
           \/ ~long /\ t < cut
  BY <1>2, <1>17
<1>20. QED
  BY <1>18, <1>19 DEF Charted, chart, long, period, w


-----------------------------------------------------------------------------
(* Figures: what is stored at any time, and the theorem.                   *)

FigureInv ==
    topic = "figures" =>
        /\ input = [samples |-> input.samples, rolledAt |-> input.rolledAt, cut |-> input.cut, fineCut |-> input.fineCut]
        /\ input.samples \in [1..2 -> SUBSET Times]
        /\ input.rolledAt \in Nat \cup {NoTime} /\ input.cut \in Int
        /\ input.fineCut \in Int /\ Multiple(input.fineCut, Fine)
        /\ input.cut = FirstTime \/ (input.rolledAt # NoTime /\ input.cut <= Bucket(input.rolledAt, Hour))

\* With the invariant, each metric's store is one of the lemmas.
LEMMA StoreIs ==
    ASSUME FigureInv, topic = "figures", NEW k \in 1..2
    PROVE  Stored(Store(k), input.samples[k], input.cut, input.fineCut)
<1> DEFINE of == input.samples[k]
           cut == input.cut
           fineCut == input.fineCut
           now == input.rolledAt
           until(p) == Watermark(p)
           rows(p) == {r \in Grouped({t \in of : t < until(p)}, p) : p = Fine => r.bucket >= fineCut}
           s == Store(k)
<1>1. of \in SUBSET Times /\ now \in Nat \cup {NoTime} /\ cut \in Int /\ fineCut \in Int /\ Multiple(fineCut, Fine)
      /\ (cut = FirstTime \/ (now # NoTime /\ cut <= Bucket(now, Hour)))
  BY DEF FigureInv
<1>2. s.raw = {t \in of : t >= cut} /\ s.value = Measure
      /\ \A p \in {Fine, Hour} : s.rolled[p] = rows(p) /\ s.watermark[p] = until(p)
  BY DEF Store
<1>3. \A p : until(p) = IF now = NoTime THEN NoTime ELSE Bucket(now, p)
  BY DEF Watermark
<1> HIDE DEF s, cut, fineCut, now, until
<1>4. ASSUME NEW p \in {Fine, Hour}
      PROVE  until(p) \in Nat \cup {NoTime} /\ (cut = FirstTime \/ (until(p) # NoTime /\ cut <= until(p)))
  <2>1. p \in Nat \ {0} /\ Multiple(Hour, p) /\ Hour \in Nat \ {0}
    BY PeriodsAre
  <2>2. CASE now = NoTime
    BY <1>1, <1>3, <2>2
  <2>3. CASE now # NoTime
    <3>1. now \in Int /\ now >= 0 /\ until(p) = Bucket(now, p)
      BY <1>1, <1>3, <2>3
    <3>2. until(p) \in Int /\ until(p) >= 0 /\ Bucket(now, Hour) \in Int
      BY <2>1, <3>1, BucketOf
    <3>3. Bucket(now, Hour) <= until(p)
      BY <2>1, <3>1, BucketsNest
    <3>4. until(p) # NoTime /\ until(p) \in Nat
      BY <3>2 DEF NoTime
    <3>5. QED
      BY <1>1, <3>2, <3>3, <3>4
  <2>4. QED
    BY <2>2, <2>3
<1>5. ASSUME NEW p \in {Fine, Hour} PROVE RowsOf(rows(p), of, p, until(p), KeptBuckets(p, fineCut))
  <2> DEFINE all == Grouped({t \in of : t < until(p)}, p)
             some == {r \in all : r.bucket \in KeptBuckets(p, fineCut)}
  <2>1. p \in Nat \ {0}
    BY PeriodsAre
  <2>2. of \in SUBSET Int /\ IsFiniteSet(of)
    BY <1>1, SamplesAre
  <2> HIDE DEF of
  <2>3. RowsOf(some, of, p, until(p), KeptBuckets(p, fineCut)) /\ \A r \in all : r.bucket \in Int
    BY <2>1, <2>2, GroupedIs
  <2> HIDE DEF all
  <2>4. rows(p) = some
    BY <2>3 DEF KeptBuckets, all
  <2>5. QED
    BY <2>3, <2>4
<1> HIDE DEF rows
<1>6. Stored(s, of, cut, fineCut)
  BY <1>1, <1>2, <1>4, <1>5 DEF Stored
<1>7. QED
  BY <1>6 DEF s, of, cut, fineCut

LEMMA FiguresInitially == Init => FigureInv
<1>1. CASE BeginFigures
  <2>1. PICK gap \in Times \cup {NoTime}, from \in {FirstTime, LastTime - 2, LastTime + 1} :
          input = [samples |-> <<{t \in Times : from <= t /\ t # gap}, Times>>, rolledAt |-> NoTime,
                   cut |-> FirstTime, fineCut |-> FirstTime]
    BY <1>1 DEF BeginFigures, Begin
  <2> DEFINE of == <<{t \in Times : from <= t /\ t # gap}, Times>>
  <2>2. of \in [1..2 -> SUBSET Times]
    OBVIOUS
  <2>3. FirstTime \in Int /\ Multiple(FirstTime, Fine)
    BY TimesAssumption, PeriodsAre, MultiplesAre
  <2> HIDE DEF of
  <2>4. input = [samples |-> of, rolledAt |-> NoTime, cut |-> FirstTime, fineCut |-> FirstTime]
    BY <2>1 DEF of
  <2>5. input.samples = of /\ input.rolledAt = NoTime /\ input.cut = FirstTime /\ input.fineCut = FirstTime
    BY <2>4
  <2>6. QED
    BY <2>2, <2>3, <2>4, <2>5 DEF FigureInv
<1>2. CASE ~BeginFigures
  BY <1>2, Begins DEF Init, FigureInv
<1>3. QED
  BY <1>1, <1>2

LEMMA RollUpKeeps ==
    ASSUME FigureInv, RollUp
    PROVE  FigureInv'
<1>1. PICK now \in {t \in Times \cup {LastTime + 1} : t % Fine = 0} :
        topic = "figures" /\ now > input.rolledAt /\ topic' = topic /\ input' = [input EXCEPT !.rolledAt = now]
  BY DEF RollUp, Continue
<1> DEFINE of == input.samples
           at == input.rolledAt
           cut == input.cut
           fineCut == input.fineCut
<1>2. input = [samples |-> of, rolledAt |-> at, cut |-> cut, fineCut |-> fineCut]
      /\ of \in [1..2 -> SUBSET Times] /\ at \in Nat \cup {NoTime} /\ cut \in Int /\ fineCut \in Int
      /\ Multiple(fineCut, Fine) /\ (cut = FirstTime \/ (at # NoTime /\ cut <= Bucket(at, Hour)))
  BY <1>1 DEF FigureInv
<1>3. now \in Nat /\ now > at
  <2>1. \A t \in Times : t \in Nat
    BY SamplesAre
  <2>2. LastTime + 1 \in Nat
    BY TimesAssumption
  <2>3. QED
    BY <1>1, <2>1, <2>2
<1> HIDE DEF of, at, cut, fineCut
<1>4. input' = [samples |-> of, rolledAt |-> now, cut |-> cut, fineCut |-> fineCut]
  BY <1>1, <1>2
<1>5. input'.samples = of /\ input'.rolledAt = now /\ input'.cut = cut /\ input'.fineCut = fineCut
  BY <1>4
<1>6. now # NoTime
  BY <1>3 DEF NoTime
<1>7. cut = FirstTime \/ cut <= Bucket(now, Hour)
  <2> SUFFICES ASSUME cut # FirstTime PROVE cut <= Bucket(now, Hour)
    OBVIOUS
  <2>1. at \in Int /\ now \in Int /\ at <= now /\ cut <= Bucket(at, Hour) /\ Hour \in Nat \ {0}
    BY <1>2, <1>3, PeriodsAre
  <2>2. Bucket(at, Hour) <= Bucket(now, Hour)
    BY <2>1, BucketsGrow
  <2>3. Bucket(at, Hour) \in Int /\ Bucket(now, Hour) \in Int
    BY <2>1, BucketOf
  <2>4. QED
    BY <1>2, <2>1, <2>2, <2>3
<1>8. QED
  BY <1>2, <1>3, <1>4, <1>5, <1>6, <1>7 DEF FigureInv

LEMMA RetireKeeps ==
    ASSUME FigureInv, Retire \/ RetireFineRows
    PROVE  FigureInv'
<1> DEFINE of == input.samples
           at == input.rolledAt
           cut == input.cut
           fineCut == input.fineCut
<1>1. topic = "figures" /\ topic' = topic
  BY DEF Retire, RetireFineRows, Continue
<1>2. input = [samples |-> of, rolledAt |-> at, cut |-> cut, fineCut |-> fineCut]
      /\ of \in [1..2 -> SUBSET Times] /\ at \in Nat \cup {NoTime} /\ cut \in Int /\ fineCut \in Int
      /\ Multiple(fineCut, Fine) /\ (cut = FirstTime \/ (at # NoTime /\ cut <= Bucket(at, Hour)))
  BY <1>1 DEF FigureInv
<1>3. \A t \in Times : t \in Int
  BY SamplesAre
<1>4. CASE Retire
  <2>1. PICK c \in Times : at # NoTime /\ c <= Bucket(at, Hour) /\ input' = [input EXCEPT !.cut = c]
    BY <1>4 DEF Retire, Continue
  <2> HIDE DEF of, at, cut, fineCut
  <2>2. input' = [samples |-> of, rolledAt |-> at, cut |-> c, fineCut |-> fineCut]
    BY <1>2, <2>1
  <2>3. input'.samples = of /\ input'.rolledAt = at /\ input'.cut = c /\ input'.fineCut = fineCut
    BY <2>2
  <2>4. QED
    BY <1>2, <1>3, <2>1, <2>2, <2>3 DEF FigureInv
<1>5. CASE RetireFineRows
  <2>1. PICK c \in {t \in Times : t % Fine = 0} : input' = [input EXCEPT !.fineCut = c]
    BY <1>5 DEF RetireFineRows, Continue
  <2>2. c \in Int /\ Multiple(c, Fine)
    BY <1>3, PeriodsAre, MultiplesAre
  <2> HIDE DEF of, at, cut, fineCut
  <2>3. input' = [samples |-> of, rolledAt |-> at, cut |-> cut, fineCut |-> c]
    BY <1>2, <2>1
  <2>4. input'.samples = of /\ input'.rolledAt = at /\ input'.cut = cut /\ input'.fineCut = c
    BY <2>3
  <2>5. QED
    BY <1>2, <2>2, <2>3, <2>4 DEF FigureInv
<1>6. QED
  BY <1>4, <1>5

LEMMA FiguresPreserved == FigureInv /\ [Next]_vars => FigureInv'
<1> SUFFICES ASSUME FigureInv, [Next]_vars PROVE FigureInv'
  OBVIOUS
<1>1. CASE RollUp
  BY <1>1, RollUpKeeps
<1>2. CASE Retire \/ RetireFineRows
  BY <1>2, RetireKeeps
<1>3. CASE UNCHANGED vars
  BY <1>3 DEF vars, FigureInv
<1>4. CASE Next /\ ~RollUp /\ ~Retire /\ ~RetireFineRows
  BY <1>4, Continues DEF Next, FigureInv
<1>5. QED
  BY <1>1, <1>2, <1>3, <1>4

LEMMA FiguresHold ==
    ASSUME FigureInv, topic = "figures", NEW w \in Windows, NEW k \in 1..2
    PROVE  /\ StatsMeet(w, k) /\ VolumeOnce(w, k) /\ PercentileHolds(w, k)
           /\ \A points \in {2, 4} : ChartIsComplete(w, k, points)
<1> DEFINE a == w[1]
           b == w[2]
           cut == input.cut
           fineCut == input.fineCut
           ofs == input.samples
           of == ofs[k]
           s == Store(k)
           stores == <<Store(1), Store(2)>>
<1>1. a \in Int /\ b \in Int /\ a <= b /\ b - a \in Nat
  <2>1. w \in Times \X Times /\ w[1] <= w[2]
    BY DEF Windows
  <2>2. \A t \in Times : t \in Int
    BY SamplesAre
  <2>3. a \in Int /\ b \in Int /\ a <= b
    BY <2>1, <2>2
  <2> HIDE DEF a, b
  <2>4. QED
    BY <2>3
<1>2. Stored(s, of, cut, fineCut) /\ stores[k] = s /\ \A j \in 1..2 : Stored(stores[j], ofs[j], cut, fineCut)
  <2>1. \A j \in 1..2 : Stored(Store(j), input.samples[j], input.cut, input.fineCut)
    BY StoreIs
  <2>2. \A j \in 1..2 : stores[j] = Store(j)
    OBVIOUS
  <2> HIDE DEF stores
  <2>3. QED
    BY <2>1, <2>2
<1>3. \A t : t \in of \cap Within(w) => t \in of /\ a <= t /\ t <= b
  BY DEF Within
<1>4. s.watermark[Hour] = Watermark(Hour) /\ s.watermark[Fine] = Watermark(Fine) /\ s.raw = {t \in of : t >= cut}
  BY DEF Store
<1> HIDE DEF s, stores, of, a, b, cut, fineCut, ofs
<1>5. StatsMeet(w, k)
  <2> DEFINE oldest == OldestRaw(stores, b)
             stats == MetricStats(stores, k, a, b)
  <2>1. /\ \A t \in stats.rolled \cap stats.raw : Bucket(t, Hour) = Bucket(oldest, Hour)
        /\ \A t \in ofs[k] \ (stats.rolled \cup stats.raw) :
               a <= t /\ t <= b => \/ Bucket(t, Hour) < a \/ t = b
                                   \/ stores[k].watermark[Hour] <= t /\ t < oldest
    BY <1>1, <1>2, StatsAre
  <2> HIDE DEF oldest, stats
  <2>2. \A t \in (of \cap Within(w)) \ (stats.rolled \cup stats.raw) :
           Bucket(t, Hour) < a \/ t = b \/ (Watermark(Hour) <= t /\ t < oldest)
    BY <1>2, <1>3, <1>4, <2>1 DEF of
  <2>3. QED
    BY <2>1, <2>2 DEF StatsMeet, oldest, stats, stores, of, ofs, a, b
<1>6. VolumeOnce(w, k)
  <2>1. LET pieces == VolumePieces(s, a, b)
        IN  /\ \A p \in pieces : a <= p.from /\ p.to <= b
            /\ \A p, q \in pieces : p = q \/ p.to <= q.from \/ q.to <= p.from
    BY <1>1, <1>2, VolumeIs
  <2>2. QED
    BY <2>1 DEF VolumeOnce, s, a, b
<1>7. PercentileHolds(w, k)
  <2> DEFINE p == Percentile95(s, a, b)
             rows == RowsIn(s, p.basis, a, b)
             above == {r \in rows : Below(p.p95, Average(s, r.of))}
             summary == MetricSummary(s, a, b)
  <2>1. /\ p.basis \in {Fine, Hour} => 20 * Cardinality(above) <= Cardinality(rows)
        /\ p.basis = NoTime => \A t \in s.raw : ~(a <= t /\ t <= b)
    BY <1>1, <1>2, PercentileIs
  <2>2. \A t \in of \ summary.of : a <= t /\ t <= b => t < cut /\ (summary.of = {} => Bucket(t, Hour) < a)
    BY <1>1, <1>2, SummaryIs
  <2>3. p.basis = NoTime => s.raw \cap Within(w) = {}
    BY <2>1 DEF Within, a, b
  <2>4. \A t \in (of \cap Within(w)) \ summary.of : t < cut /\ (summary.of = {} => Bucket(t, Hour) < a)
    <3> HIDE DEF summary
    <3>1. QED
      BY <1>3, <2>2
  <2>5. QED
    BY <2>1, <2>3, <2>4 DEF PercentileHolds, s, a, b, of, ofs, cut
<1>8. ASSUME NEW points \in {2, 4} PROVE ChartIsComplete(w, k, points)
  <2> DEFINE step == NiceStep(b - a, 1, points)
             chart == Bucketed(s, a, b, step)
             in(c) == UNION chart[c]
             long == step >= Fine /\ b - a > RawSpan
             period == IF step >= Hour THEN Hour ELSE Fine
  <2>1. step \in Nat \ {0} /\ \A p \in {Fine, Hour} : step >= p => Multiple(step, p)
    BY <1>1, StepIs
  <2> HIDE DEF step
  <2>2. /\ \A c \in DOMAIN chart : in(c) # {} /\ \A t \in in(c) : Bucket(t, step) = c
        /\ \A t \in of : a <= t /\ t <= b =>
               \/ Bucket(t, step) \in DOMAIN chart /\ t \in in(Bucket(t, step))
               \/ Bucket(t, period) < a
               \/ long /\ period = Fine /\ t < fineCut
               \/ long /\ Bucket(t, step) = Bucket(Min({b, s.watermark[period]}), step)
               \/ ~long /\ t < cut
    <3>1. Charted(s, of, cut, fineCut, a, b, step)
      BY <1>1, <1>2, <2>1, ChartIs
    <3>2. QED
      BY <3>1 DEF Charted
  <2>3. s.watermark[period] = Watermark(period)
    BY <1>4
  <2> HIDE DEF chart, long, period
  <2>4. \A t \in of \cap Within(w) :
               \/ Bucket(t, step) \in DOMAIN chart /\ t \in in(Bucket(t, step))
               \/ Bucket(t, period) < a
               \/ long /\ period = Fine /\ t < fineCut
               \/ long /\ Bucket(t, step) = Bucket(Min({b, Watermark(period)}), step)
               \/ ~long /\ t < cut
    BY <1>3, <2>2, <2>3
  <2>5. QED
    BY <2>2, <2>4 DEF ChartIsComplete, chart, long, period, step, s, a, b, of, ofs, cut, fineCut
<1>9. QED
  BY <1>5, <1>6, <1>7, <1>8

\* Whatever has been rolled up and deleted, the figures of every window agree with the samples
\* (reporting.py, storage.py, dashboards.py).
THEOREM FiguresAgreeAlways == Spec => []FiguresAgree
<1>1. FigureInv => FiguresAgree
  BY FiguresHold DEF FiguresAgree
<1>2. QED
  BY FiguresInitially, FiguresPreserved, <1>1, PTL DEF Spec

-----------------------------------------------------------------------------
(* Readings.                                                               *)

LEMMA Ranges == ASSUME NEW bits PROVE RangeOf(bits) \in Nat \ {0}
  BY RangeAssumption DEF RangeOf

LEMMA Turns ==
    ASSUME NEW R \in Nat \ {0}, NEW i \in Int, NEW j \in Int, i < j
    PROVE  R * i + R <= R * j
<1>1. (j - (i + 1)) * R >= 0
  OBVIOUS
<1>2. QED
  BY <1>1

\* Two readings of a counter less than a turn apart.
LEMMA LessThanATurn ==
    ASSUME NEW R \in Nat \ {0}, NEW a \in Int, NEW b \in Int, a <= b, b - a < R
    PROVE  /\ a % R \in Nat /\ b % R \in Nat /\ a % R < R
           /\ b % R >= a % R => (b % R) - (a % R) = b - a
           /\ b % R < a % R => R - (a % R) + (b % R) = b - a
<1> DEFINE i == a \div R
           j == b \div R
<1>1. /\ a = R * i + (a % R) /\ 0 <= a % R /\ a % R < R /\ i \in Int /\ a % R \in Int
      /\ b = R * j + (b % R) /\ 0 <= b % R /\ b % R < R /\ j \in Int /\ b % R \in Int
  OBVIOUS
<1> DEFINE x == a % R
           y == b % R
           Ri == R * i
           Rj == R * j
<1>2. Ri \in Int /\ Rj \in Int
  BY <1>1
<1>3. j < i => Rj + R <= Ri
  BY <1>1, Turns
<1>4. i + 1 < j => Ri + R + R <= Rj
  <2>1. i < i + 1 /\ i + 1 \in Int /\ i \in Int /\ j \in Int
    BY <1>1
  <2>2. R * (i + 1) = Ri + R
    BY <1>1
  <2>3. i + 1 < j => R * (i + 1) + R <= Rj
    BY <2>1, Turns
  <2>4. QED
    BY <2>2, <2>3
<1>5. /\ a = Ri + x /\ 0 <= x /\ x < R /\ i \in Int /\ x \in Int
      /\ b = Rj + y /\ 0 <= y /\ y < R /\ j \in Int /\ y \in Int
  BY <1>1
<1>6. j = i => Rj = Ri
  OBVIOUS
<1>7. j = i + 1 => Rj = Ri + R
  BY <1>1
<1> HIDE DEF i, j, x, y, Ri, Rj
<1>8. ~(j < i) /\ ~(i + 1 < j)
  BY <1>2, <1>3, <1>4, <1>5
<1>9. j = i \/ j = i + 1
  BY <1>5, <1>8
<1>10. (y >= x => y - x = b - a) /\ (y < x => R - x + y = b - a)
  BY <1>2, <1>5, <1>6, <1>7, <1>9
<1>11. QED
  BY <1>5, <1>10 DEF x, y

CounterMetric == [raw: Nat \cup {NoReading}, ts: Int, bits: {32, 64}]

\* A reading, and the first one after a restart.
ReadValue(m, cur, now) == ComputeCounter(m, cur, now, FALSE)
Rebased(m, cur, now) == [m EXCEPT !.raw = cur, !.ts = now]
ReadAnew(m, cur, now) == ComputeCounter(m, cur, now, TRUE)

LEMMA Fields ==
    ASSUME NEW v, NEW c, NEW got, got = [value |-> v, m |-> c]
    PROVE  got.value = v /\ got.m = c
  OBVIOUS

\* What a reading does: it is too early to tell, it rebases the counter, or it makes a rate.
LEMMA Outcomes ==
    ASSUME NEW m \in CounterMetric, NEW cur \in Nat, NEW now \in Int
    PROVE  \/ /\ ReadValue(m, cur, now).value.delta = NoDelta /\ ReadValue(m, cur, now).m = m
              /\ m.raw # NoReading
           \/ /\ ReadValue(m, cur, now).value.delta = NoDelta
              /\ ReadValue(m, cur, now).m = Rebased(m, cur, now)
              /\ m.raw = NoReading \/ now - m.ts <= 0 \/ CounterDelta(m.raw, cur, m.bits) = NoDelta
           \/ /\ ReadValue(m, cur, now).value.delta = CounterDelta(m.raw, cur, m.bits)
              /\ ReadValue(m, cur, now).m = Rebased(m, cur, now)
              /\ m.raw # NoReading /\ CounterDelta(m.raw, cur, m.bits) # NoDelta
<1> DEFINE got == ReadValue(m, cur, now)
           delta == CounterDelta(m.raw, cur, m.bits)
           rebased == Rebased(m, cur, now)
           none == [delta |-> NoDelta, dt |-> 0]
           dt == now - m.ts
<1>1. cur # NoReading
  BY DEF NoReading
<1>2. got = IF m.raw = NoReading \/ FALSE \/ dt <= 0 \/ delta = NoDelta
              THEN [value |-> none, m |-> rebased]
            ELSE IF delta = 0 /\ dt < MinRateWindow THEN [value |-> none, m |-> m]
            ELSE [value |-> [delta |-> delta, dt |-> dt], m |-> rebased]
  BY <1>1 DEF ReadValue, ComputeCounter, Rebased
<1> DEFINE rate == [delta |-> delta, dt |-> dt]
<1>3. none.delta = NoDelta /\ rate.delta = delta
  OBVIOUS
<1> HIDE DEF none, rate, dt, got, delta, rebased
<1>4. CASE m.raw = NoReading \/ dt <= 0 \/ delta = NoDelta
  <2>1. got = [value |-> none, m |-> rebased]
    BY <1>2, <1>4
  <2>2. got.value = none /\ got.m = rebased
    BY <2>1, Fields
  <2>3. QED
    BY <1>3, <1>4, <2>2 DEF dt, got, delta, rebased
<1>5. CASE ~(m.raw = NoReading \/ dt <= 0 \/ delta = NoDelta)
  <2>1. got = [value |-> none, m |-> m] \/ got = [value |-> rate, m |-> rebased]
    BY <1>2, <1>5 DEF rate
  <2>2. (got.value = none /\ got.m = m) \/ (got.value = rate /\ got.m = rebased)
    BY <2>1, Fields
  <2>3. QED
    BY <1>3, <1>5, <2>2 DEF dt, got, delta, rebased
<1>6. QED
  BY <1>4, <1>5 DEF got, delta, rebased

\* The difference of two readings is what was counted between them, or unknown; that only if
\* it is half a turn or more.
LEMMA Differences ==
    ASSUME NEW bits, NEW a \in Int, NEW b \in Int, a <= b, b - a < RangeOf(bits)
    PROVE  LET delta == CounterDelta(a % RangeOf(bits), b % RangeOf(bits), bits)
           IN  \/ delta = b - a
               \/ delta = NoDelta /\ 2 * (b - a) >= RangeOf(bits)
<1> DEFINE R == RangeOf(bits)
           x == a % R
           y == b % R
<1>1. R \in Nat \ {0}
  BY Ranges
<1>2. /\ x \in Nat /\ y \in Nat /\ x < R
      /\ y >= x => y - x = b - a
      /\ y < x => R - x + y = b - a
  <2> HIDE DEF R
  <2>1. b - a < R
    BY DEF R
  <2>2. QED
    BY <1>1, <2>1, LessThanATurn
<1>3. CounterDelta(x, y, bits) = IF y >= x THEN y - x
                                 ELSE IF x < R /\ 2 * (R - x + y) < R THEN R - x + y ELSE NoDelta
  BY DEF CounterDelta
<1> HIDE DEF R, x, y
<1>4. CounterDelta(x, y, bits) = b - a \/ (CounterDelta(x, y, bits) = NoDelta /\ 2 * (b - a) >= R)
  <2>1. CASE y >= x
    BY <1>2, <1>3, <2>1
  <2>2. CASE y < x /\ 2 * (b - a) < R
    BY <1>1, <1>2, <1>3, <2>2
  <2>3. CASE y < x /\ 2 * (b - a) >= R
    BY <1>1, <1>2, <1>3, <2>3
  <2>4. QED
    BY <1>1, <1>2, <2>1, <2>2, <2>3
<1>5. QED
  BY <1>4 DEF R, x, y

-----------------------------------------------------------------------------
(* The invariant.                                                          *)

CounterInput == [m: CounterMetric, now: Int, n: Nat, total: Int, first: Int, base: Int,
                 counted: Int, lost: Int]

\* The agent is less than a turn ahead of the baseline, which is the latest reading that counted.
Accounted(i) ==
    /\ i \in CounterInput
    /\ i.base <= i.total /\ i.total - i.base < RangeOf(i.m.bits)
    /\ IF i.m.raw = NoReading
         THEN i.counted = 0 /\ i.lost = 0
         ELSE i.counted + i.lost = i.base - i.first /\ i.m.raw = i.base % RangeOf(i.m.bits)

CounterInv == topic = "counter" => Accounted(input)

LEMMA CounterInitially == Init => CounterInv
<1>1. CASE BeginCounter
  <2>1. PICK bits \in {32, 64}, total \in {0, RangeOf(32) - 2} :
          input = [m |-> [raw |-> NoReading, ts |-> 0, bits |-> bits], now |-> 0, n |-> 0,
                   total |-> total, first |-> total, base |-> total, counted |-> 0, lost |-> 0]
    BY <1>1 DEF BeginCounter, Begin
  <2>2. RangeOf(32) \in Nat \ {0} /\ RangeOf(bits) \in Nat \ {0}
    BY Ranges
  <2>3. total \in Int
    BY <2>2
  <2>4. input \in CounterInput
    BY <2>1, <2>3 DEF CounterInput, CounterMetric
  <2>5. QED
    BY <2>1, <2>2, <2>3, <2>4 DEF CounterInv, Accounted
<1>2. CASE BeginSchedule \/ BeginHistory \/ BeginSearch \/ BeginFigures
           \/ BeginPing \/ BeginGet \/ BeginUrl \/ BeginStamp
  BY <1>2 DEF BeginSchedule, BeginHistory, BeginSearch, BeginFigures, BeginPing, BeginGet, BeginUrl,
              BeginStamp, Begin, CounterInv
<1>3. QED
  BY <1>1, <1>2 DEF Init

LEMMA ReadKeeps ==
    ASSUME CounterInv, ReadCounter
    PROVE  CounterInv'
<1>1. PICK advance \in Advances, later \in {0, 1, 2} :
        LET i == input
            total == i.total + advance
            now == i.now + later
            got == ComputeCounter(i.m, total % RangeOf(i.m.bits), now, FALSE)
            valued == got.value.delta # NoDelta
            given == ~valued /\ got.m # i.m
        IN  /\ topic = "counter" /\ i.n < MaxReadings /\ Counts(i, advance)
            /\ Continue("counter", [i EXCEPT
                   !.m = got.m, !.now = now, !.n = @ + 1, !.total = total,
                   !.first = IF i.m.raw = NoReading THEN total ELSE @,
                   !.base = IF valued \/ given THEN total ELSE @,
                   !.counted = IF valued THEN @ + got.value.delta ELSE @,
                   !.lost = IF given /\ i.m.raw # NoReading /\ Reason(i, advance, now - i.m.ts)
                              THEN @ + total - i.base ELSE @])
  BY DEF ReadCounter
<1> DEFINE i == input
           R == RangeOf(i.m.bits)
           total == i.total + advance
           now == i.now + later
           got == ReadValue(i.m, total % R, now)
           delta == CounterDelta(i.m.raw, total % R, i.m.bits)
           rebased == Rebased(i.m, total % R, now)
           valued == got.value.delta # NoDelta
           given == ~valued /\ got.m # i.m
<1>2. /\ topic = "counter" /\ i.total + advance - i.base < R
      /\ input' = [i EXCEPT
             !.m = got.m, !.now = now, !.n = @ + 1, !.total = total,
             !.first = IF i.m.raw = NoReading THEN total ELSE @,
             !.base = IF valued \/ given THEN total ELSE @,
             !.counted = IF valued THEN @ + got.value.delta ELSE @,
             !.lost = IF given /\ i.m.raw # NoReading /\ Reason(i, advance, now - i.m.ts)
                        THEN @ + total - i.base ELSE @]
  BY <1>1 DEF Counts, Continue, ReadValue
<1>3. /\ i \in CounterInput /\ i.base <= i.total
      /\ i.m.raw = NoReading => i.counted = 0 /\ i.lost = 0
      /\ i.m.raw # NoReading => i.counted + i.lost = i.base - i.first /\ i.m.raw = i.base % R
  BY <1>2 DEF CounterInv, Accounted
<1>4. /\ i.m \in CounterMetric /\ i.now \in Int /\ i.n \in Nat /\ i.total \in Int /\ i.first \in Int
      /\ i.base \in Int /\ i.counted \in Int /\ i.lost \in Int /\ i.m.ts \in Int
  BY <1>3 DEF CounterInput, CounterMetric
<1>5. advance \in Nat /\ later \in Nat /\ R \in Nat \ {0}
  BY AdvancesAssumption, Ranges
<1>6. /\ total \in Int /\ now \in Int /\ i.base <= total /\ total - i.base < R
  BY <1>2, <1>3, <1>4, <1>5
<1>7. total % R \in Nat
  BY <1>5, <1>6
<1>8. \/ got.value.delta = NoDelta /\ got.m = i.m /\ i.m.raw # NoReading
      \/ /\ got.value.delta = NoDelta /\ got.m = rebased
         /\ i.m.raw = NoReading \/ now - i.m.ts <= 0 \/ delta = NoDelta
      \/ got.value.delta = delta /\ got.m = rebased /\ i.m.raw # NoReading /\ delta # NoDelta
  BY <1>4, <1>6, <1>7, Outcomes
<1>9. i.m.raw # NoReading => delta = total - i.base \/ (delta = NoDelta /\ 2 * (total - i.base) >= R)
  BY <1>3, <1>4, <1>6, Differences
<1>10. /\ input'.m = got.m /\ input'.now = now /\ input'.n = i.n + 1 /\ input'.total = total
       /\ input'.first = (IF i.m.raw = NoReading THEN total ELSE i.first)
       /\ input'.base = (IF valued \/ given THEN total ELSE i.base)
       /\ input'.counted = (IF valued THEN i.counted + got.value.delta ELSE i.counted)
       /\ input'.lost = (IF given /\ i.m.raw # NoReading /\ Reason(i, advance, now - i.m.ts)
                           THEN i.lost + total - i.base ELSE i.lost)
  BY <1>2, <1>3 DEF CounterInput
<1>11. Reason(i, advance, now - i.m.ts) <=> now - i.m.ts <= 0 \/ 2 * (total - i.base) >= R
  BY <1>4, <1>5 DEF Reason
<1>12. /\ rebased \in CounterMetric /\ rebased.raw = total % R /\ rebased.bits = i.m.bits
       /\ rebased.raw # NoReading
  <2> DEFINE cur == total % R
  <2>1. cur \in Nat /\ cur # NoReading
    BY <1>7 DEF NoReading
  <2>2. rebased = [i.m EXCEPT !.raw = cur, !.ts = now]
    BY DEF Rebased
  <2> HIDE DEF cur, rebased, now, i
  <2>3. rebased \in CounterMetric /\ rebased.raw = cur /\ rebased.bits = i.m.bits
    BY <1>4, <1>6, <2>1, <2>2 DEF CounterMetric
  <2>4. QED
    BY <2>1, <2>3 DEF cur
<1>13. input' \in CounterInput
  <2>1. got.m \in CounterMetric /\ (valued => got.value.delta \in Int)
    BY <1>4, <1>6, <1>8, <1>9, <1>12
  <2>2. i.n + 1 \in Nat /\ total - i.base \in Int /\ i.lost + total - i.base \in Int
    BY <1>4, <1>6
  <2> DEFINE f == IF i.m.raw = NoReading THEN total ELSE i.first
             b == IF valued \/ given THEN total ELSE i.base
             c == IF valued THEN i.counted + got.value.delta ELSE i.counted
             l == IF given /\ i.m.raw # NoReading /\ Reason(i, advance, now - i.m.ts)
                    THEN i.lost + total - i.base ELSE i.lost
             n == i.n + 1
  <2>3. input' = [i EXCEPT !.m = got.m, !.now = now, !.n = n, !.total = total, !.first = f,
                           !.base = b, !.counted = c, !.lost = l]
    BY <1>2
  <2> HIDE DEF got, valued, given, total, now, i
  <2>4. n \in Nat /\ f \in Int /\ b \in Int /\ c \in Int /\ l \in Int
    BY <1>4, <1>6, <2>1, <2>2
  <2> HIDE DEF f, b, c, l, n
  <2>5. QED
    BY <1>3, <1>6, <2>1, <2>3, <2>4 DEF CounterInput
<1> HIDE DEF i, R, total, now, got, delta, rebased
<1>14. CASE got.value.delta = NoDelta /\ got.m = i.m
  <2>1. ~valued /\ ~given
    BY <1>14
  <2>2. /\ input'.m = i.m /\ input'.base = i.base /\ input'.total = total
        /\ input'.counted = i.counted /\ input'.lost = i.lost
        /\ i.m.raw # NoReading => input'.first = i.first
    BY <1>10, <1>14, <2>1
  <2>3. RangeOf(input'.m.bits) = R
    BY <2>2 DEF R
  <2>4. input'.base <= input'.total /\ input'.total - input'.base < RangeOf(input'.m.bits)
    BY <1>6, <2>2, <2>3
  <2>5. CASE i.m.raw = NoReading
    BY <1>3, <1>13, <2>2, <2>4, <2>5 DEF CounterInv, Accounted
  <2>6. CASE i.m.raw # NoReading
    <3>1. input'.counted + input'.lost = input'.base - input'.first
      BY <1>3, <2>2, <2>6
    <3>2. input'.m.raw = input'.base % RangeOf(input'.m.bits)
      BY <1>3, <2>2, <2>3, <2>6
    <3>3. input'.m.raw # NoReading
      BY <2>2, <2>6
    <3>4. Accounted(input')
      BY <1>13, <2>4, <3>1, <3>2, <3>3 DEF Accounted
    <3>5. QED
      BY <3>4 DEF CounterInv, Accounted
  <2>7. QED
    BY <2>5, <2>6
<1>15. CASE got.value.delta = NoDelta /\ got.m # i.m
  <2>1. got.m = rebased /\ (i.m.raw = NoReading \/ now - i.m.ts <= 0 \/ delta = NoDelta)
    BY <1>8, <1>15
  <2>2. i.m.raw # NoReading => Reason(i, advance, now - i.m.ts)
    BY <1>4, <1>5, <1>6, <1>9, <1>11, <2>1 DEF NoDelta
  <2>3. /\ input'.m = rebased /\ input'.base = total /\ input'.total = total
        /\ input'.counted = i.counted
        /\ input'.first = (IF i.m.raw = NoReading THEN total ELSE i.first)
        /\ input'.lost = (IF i.m.raw # NoReading THEN i.lost + total - i.base ELSE i.lost)
    BY <1>10, <1>15, <2>1, <2>2
  <2>4. /\ input'.m.raw # NoReading /\ RangeOf(input'.m.bits) = R
        /\ input'.m.raw = input'.base % R
    BY <1>12, <2>3 DEF R
  <2>5. input'.base <= input'.total /\ input'.total - input'.base < R
    BY <1>5, <1>6, <2>3
  <2>6. input'.counted + input'.lost = input'.base - input'.first
    BY <1>3, <1>4, <1>6, <2>3
  <2>7. Accounted(input')
    BY <1>13, <2>4, <2>5, <2>6 DEF Accounted
  <2>8. QED
    BY <2>7 DEF CounterInv
<1>16. CASE got.value.delta # NoDelta
  <2>1. got.m = rebased /\ i.m.raw # NoReading /\ got.value.delta = total - i.base
    BY <1>8, <1>9, <1>16
  <2>2. QED
    BY <1>3, <1>4, <1>5, <1>6, <1>10, <1>12, <1>13, <1>16, <2>1 DEF CounterInv, Accounted, R
<1>17. QED
  BY <1>14, <1>15, <1>16

LEMMA NothingKeeps ==
    ASSUME CounterInv, ReadNothing
    PROVE  CounterInv'
<1> DEFINE i == input
<1>1. PICK advance \in Advances :
        /\ topic = "counter" /\ Counts(i, advance)
        /\ input' = [i EXCEPT !.m = i.m, !.now = @ + 1, !.n = @ + 1, !.total = @ + advance]
  BY DEF ReadNothing, Continue, ComputeCounter
<1>2. /\ i \in CounterInput /\ i.base <= i.total
      /\ i.m.raw = NoReading => i.counted = 0 /\ i.lost = 0
      /\ i.m.raw # NoReading => i.counted + i.lost = i.base - i.first
                               /\ i.m.raw = i.base % RangeOf(i.m.bits)
  BY <1>1 DEF CounterInv, Accounted
<1>3. advance \in Nat
  BY AdvancesAssumption
<1> HIDE DEF i
<1> DEFINE now == i.now + 1
           n == i.n + 1
           total == i.total + advance
<1>4. i.total \in Int /\ i.base \in Int /\ i.now \in Int /\ i.n \in Nat /\ i.m \in CounterMetric
  BY <1>2 DEF CounterInput
<1>5. now \in Int /\ n \in Nat /\ total \in Int
  BY <1>3, <1>4
<1>6. input' = [i EXCEPT !.m = i.m, !.now = now, !.n = n, !.total = total]
  BY <1>1
<1> HIDE DEF now, n, total
<1>7. /\ input' \in CounterInput /\ input'.m = i.m /\ input'.total = total
      /\ input'.first = i.first /\ input'.base = i.base /\ input'.counted = i.counted
      /\ input'.lost = i.lost
  BY <1>2, <1>4, <1>5, <1>6 DEF CounterInput
<1>8. input'.base <= input'.total /\ input'.total - input'.base < RangeOf(i.m.bits)
  BY <1>1, <1>2, <1>3, <1>7, <1>4 DEF Counts, total
<1>9. QED
  BY <1>2, <1>7, <1>8 DEF CounterInv, Accounted, total

LEMMA RestartKeeps ==
    ASSUME CounterInv, ReadRestarted
    PROVE  CounterInv'
<1> DEFINE i == input
           R == RangeOf(i.m.bits)
<1>1. PICK advance \in Advances :
        /\ topic = "counter"
        /\ input' = [i EXCEPT !.m = ReadAnew(i.m, advance % R, i.now + 1).m, !.now = @ + 1, !.n = @ + 1,
                             !.total = advance, !.first = advance, !.base = advance,
                             !.counted = 0, !.lost = 0]
  BY DEF ReadRestarted, Continue, ReadAnew
<1>2. i \in CounterInput /\ i.m \in CounterMetric /\ i.now \in Int
  BY <1>1 DEF CounterInv, Accounted, CounterInput
<1>3. advance \in Nat /\ R \in Nat \ {0}
  BY AdvancesAssumption, Ranges
<1> DEFINE cur == advance % R
           m == ReadAnew(i.m, cur, i.now + 1).m
<1>4. cur \in Nat /\ cur # NoReading
  BY <1>3 DEF NoReading
<1>5. m = Rebased(i.m, cur, i.now + 1)
  BY <1>4 DEF ReadAnew, ComputeCounter, Rebased
<1> DEFINE now == i.now + 1
           n == i.n + 1
<1>6. /\ input' = [i EXCEPT !.m = m, !.now = now, !.n = n, !.total = advance, !.first = advance,
                           !.base = advance, !.counted = 0, !.lost = 0]
      /\ now \in Int /\ n \in Nat /\ advance \in Int
  BY <1>1, <1>2, <1>3 DEF CounterInput
<1>7. m = [i.m EXCEPT !.raw = cur, !.ts = now]
  BY <1>5 DEF Rebased
<1> HIDE DEF i, m, cur, now, n
<1>8. m \in CounterMetric /\ m.raw = cur /\ m.bits = i.m.bits
  BY <1>2, <1>4, <1>6, <1>7 DEF CounterMetric
<1>9. /\ input' \in CounterInput /\ input'.m = m /\ input'.total = advance
      /\ input'.first = advance /\ input'.base = advance /\ input'.counted = 0
      /\ input'.lost = 0
  <2>1. input' = [m |-> m, now |-> now, n |-> n, total |-> advance, first |-> advance,
                  base |-> advance, counted |-> 0, lost |-> 0]
    BY <1>2, <1>6 DEF CounterInput
  <2>2. QED
    BY <1>6, <1>8, <2>1 DEF CounterInput
<1>10. QED
  BY <1>3, <1>4, <1>8, <1>9 DEF CounterInv, Accounted, cur

LEMMA CounterPreserved == CounterInv /\ [Next]_vars => CounterInv'
<1> SUFFICES ASSUME CounterInv, [Next]_vars PROVE CounterInv'
  OBVIOUS
<1>1. CASE HourPasses \/ RecordOutage \/ PlanMaintenance \/ MessageArrives \/ ReadOn
  BY <1>1 DEF HourPasses, RecordOutage, PlanMaintenance, MessageArrives, ReadOn, Continue, CounterInv
<1>2. CASE RollUp \/ Retire \/ RetireFineRows
  BY <1>2 DEF RollUp, Retire, RetireFineRows, Continue, CounterInv
<1>3. CASE NextAttempt \/ PacketComes \/ AskFor \/ AddOption \/ DayPasses
  BY <1>3 DEF NextAttempt, PacketComes, AskFor, AddOption, DayPasses, Continue, CounterInv
<1>4. CASE ReadCounter
  BY <1>4, ReadKeeps
<1>5. CASE ReadNothing
  BY <1>5, NothingKeeps
<1>6. CASE ReadRestarted
  BY <1>6, RestartKeeps
<1>7. CASE UNCHANGED vars
  BY <1>7 DEF vars, CounterInv
<1>8. QED
  BY <1>1, <1>2, <1>3, <1>4, <1>5, <1>6, <1>7 DEF Next

\* Whatever is read in whatever order, and however wide the counter, every event is in exactly one
\* rate or given up with a reason (counter_delta, compute_value).
THEOREM CountersAddUpAlways == Spec => []CountersAddUp
<1>1. CounterInv => CountersAddUp
  BY DEF CounterInv, Accounted, CountersAddUp
<1>2. QED
  BY CounterInitially, CounterPreserved, <1>1, PTL DEF Spec
=============================================================================

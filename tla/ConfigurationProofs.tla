------------------------ MODULE ConfigurationProofs ------------------------
(***************************************************************************)
(* Proofs about Configuration, for any names, hosts, secrets and numbers   *)
(* of rows: what an export and an import of it keep, and that secrets      *)
(* change only when they are sent.                                         *)
(***************************************************************************)
EXTENDS Configuration, FiniteSetTheorems, TLAPS

-----------------------------------------------------------------------------
(* Ids in their order.                                                     *)

Rank(ids, id) == Cardinality({k \in ids : k <= id})

LEMMA RankType ==
    ASSUME NEW ids \in SUBSET Nat, IsFiniteSet(ids), NEW id \in ids
    PROVE  Rank(ids, id) \in 1..Cardinality(ids) /\ IsFiniteSet({k \in ids : k <= id})
<1> DEFINE below == {k \in ids : k <= id}
<1>1. IsFiniteSet(below) /\ Cardinality(below) <= Cardinality(ids)
  BY FS_Subset
<1>2. id \in below
  OBVIOUS
<1>3. Cardinality(below) \in Nat /\ Cardinality(ids) \in Nat /\ Cardinality(below) # 0
  BY <1>1, <1>2, FS_CardinalityType, FS_EmptySet
<1>4. QED
  BY <1>1, <1>3 DEF Rank

LEMMA RankGrows ==
    ASSUME NEW ids \in SUBSET Nat, IsFiniteSet(ids), NEW a \in ids, NEW b \in ids, a < b
    PROVE  Rank(ids, a) # Rank(ids, b)
<1> DEFINE S == {k \in ids : k <= b}
           T == {k \in ids : k <= a}
<1>1. T \in SUBSET S /\ b \in S /\ b \notin T
  <2>1. a \in Nat /\ b \in Nat /\ \A k \in ids : k \in Nat
    OBVIOUS
  <2>2. ~(b <= a) /\ b <= b /\ \A k \in ids : k <= a => k <= b
    BY <2>1
  <2>3. QED
    BY <2>2
<1>2. IsFiniteSet(S)
  BY RankType
<1>3. Cardinality(S) = Cardinality(T) => S = T
  BY <1>1, <1>2, FS_Subset
<1>4. QED
  BY <1>1, <1>3 DEF Rank

\* There is a smallest id, a second one, and so on to the last.
LEMMA RankIsOnto ==
    ASSUME NEW ids \in SUBSET Nat, IsFiniteSet(ids)
    PROVE  \A i \in 1..Cardinality(ids) : \E id \in ids : Rank(ids, id) = i
<1> DEFINE n == Cardinality(ids)
           f == [id \in ids |-> Rank(ids, id)]
<1>1. n \in Nat
  BY FS_CardinalityType
<1>2. IsFiniteSet(1..n) /\ Cardinality(1..n) = n
  BY <1>1, FS_Interval
<1>3. f \in [ids -> 1..n]
  BY RankType
<1>4. \A a, b \in ids : f[a] = f[b] => a = b
  <2>1. \A a, b \in ids : a # b => a < b \/ b < a
    OBVIOUS
  <2>2. QED
    BY <2>1, RankGrows
<1>5. f \in Injection(ids, 1..n)
  BY <1>3, <1>4 DEF Injection, IsInjective
<1>6. f \in Surjection(ids, 1..n)
  BY <1>2, <1>5, FS_Injection
<1>7. QED
  BY <1>6 DEF Surjection

LEMMA NthIs ==
    ASSUME NEW ids \in SUBSET Nat, IsFiniteSet(ids)
    PROVE  /\ \A i \in 1..Cardinality(ids) : Nth(ids, i) \in ids /\ Rank(ids, Nth(ids, i)) = i
           /\ \A id \in ids : Nth(ids, Rank(ids, id)) = id
<1>1. \A i \in 1..Cardinality(ids) : Nth(ids, i) \in ids /\ Rank(ids, Nth(ids, i)) = i
  BY RankIsOnto DEF Nth, Rank
<1>2. \A a, b \in ids : Rank(ids, a) = Rank(ids, b) => a = b
  <2>1. \A a, b \in ids : a # b => a < b \/ b < a
    OBVIOUS
  <2>2. QED
    BY <2>1, RankGrows
<1>3. \A id \in ids : Rank(ids, id) \in 1..Cardinality(ids)
  BY RankType
<1>4. QED
  BY <1>1, <1>2, <1>3

LEMMA NthOfAll ==
    ASSUME NEW n \in Nat, NEW i \in 1..n
    PROVE  Nth(1..n, i) = i
<1>1. 1..n \in SUBSET Nat /\ IsFiniteSet(1..n)
  BY FS_Interval
<1>2. {k \in 1..n : k <= i} = 1..i
  OBVIOUS
<1>3. Cardinality(1..i) = i
  BY FS_Interval
<1>4. Rank(1..n, i) = i
  BY <1>2, <1>3 DEF Rank
<1>5. QED
  BY <1>1, <1>4, NthIs

LEMMA LargestId ==
    ASSUME NEW ids \in SUBSET Nat, IsFiniteSet(ids)
    PROVE  Max(ids \cup {0}) \in Nat /\ \A id \in ids : id <= Max(ids \cup {0})
<1> DEFINE S == ids \cup {0}
           n == Cardinality(S)
           top == Nth(S, n)
<1>1. IsFiniteSet(S) /\ S \in SUBSET Nat
  BY FS_AddElement
<1>2. n \in Nat /\ n # 0
  BY <1>1, FS_CardinalityType, FS_EmptySet
<1>3. top \in S /\ Cardinality({k \in S : k <= top}) = n
  BY <1>1, <1>2, NthIs DEF Rank
<1>4. {k \in S : k <= top} = S
  BY <1>1, <1>3, FS_Subset
<1>5. \E x \in S : \A y \in S : x >= y
  <2>1. \A y \in S : top >= y
    BY <1>1, <1>3, <1>4
  <2>2. QED
    BY <1>3, <2>1
<1>6. Max(S) \in S /\ \A y \in S : Max(S) >= y
  BY <1>5 DEF Max
<1>7. QED
  BY <1>1, <1>6

-----------------------------------------------------------------------------
(* Tables, and rows listed in the order of their ids.                      *)

Ids == Nat \ {0}

\* The tables with rows of some set.
TableOf(R) == {t \in UNION {[ids -> R] : ids \in SUBSET Ids} : IsFiniteSet(DOMAIN t)}

LEMMA TableIs ==
    ASSUME NEW R, NEW t
    PROVE  t \in TableOf(R) <=> /\ t \in [DOMAIN t -> R]
                                /\ DOMAIN t \in SUBSET Ids /\ IsFiniteSet(DOMAIN t)
  BY DEF TableOf

LEMMA EmptyTable == ASSUME NEW R PROVE NoTable \in TableOf(R) /\ DOMAIN NoTable = {}
<1>1. DOMAIN NoTable = {} /\ NoTable \in [{} -> R]
  BY DEF NoTable
<1>2. QED
  BY <1>1, TableIs, FS_EmptySet

LEMMA RowChanged ==
    ASSUME NEW R, NEW t \in TableOf(R), NEW id \in DOMAIN t, NEW row \in R
    PROVE  [t EXCEPT ![id] = row] \in TableOf(R) /\ DOMAIN [t EXCEPT ![id] = row] = DOMAIN t
<1>1. t \in [DOMAIN t -> R] /\ DOMAIN t \in SUBSET Ids /\ IsFiniteSet(DOMAIN t)
  BY TableIs
<1>2. DOMAIN [t EXCEPT ![id] = row] = DOMAIN t /\ [t EXCEPT ![id] = row] \in [DOMAIN t -> R]
  BY <1>1
<1>3. QED
  BY <1>1, <1>2, TableIs

LEMMA RowsLeft ==
    ASSUME NEW t, NEW ids
    PROVE  /\ DOMAIN Without(t, ids) = DOMAIN t \ ids
           /\ \A id \in DOMAIN t \ ids : Without(t, ids)[id] = t[id]
  BY DEF Without

LEMMA RowsWithout ==
    ASSUME NEW R, NEW t \in TableOf(R), NEW ids
    PROVE  Without(t, ids) \in TableOf(R)
<1>1. t \in [DOMAIN t -> R] /\ DOMAIN t \in SUBSET Ids /\ IsFiniteSet(DOMAIN t)
  BY TableIs
<1>2. /\ DOMAIN Without(t, ids) = DOMAIN t \ ids
      /\ Without(t, ids) \in [DOMAIN t \ ids -> R]
  BY <1>1 DEF Without
<1>3. IsFiniteSet(DOMAIN t \ ids)
  BY <1>1, FS_Subset
<1>4. QED
  BY <1>1, <1>2, <1>3, TableIs

\* What a listing holds: the rows at these ids, and no other.
LEMMA ListedRange ==
    ASSUME NEW f, NEW ids \in SUBSET Nat, IsFiniteSet(ids)
    PROVE  /\ DOMAIN Listed(f, ids) = 1..Cardinality(ids)
           /\ \A i \in 1..Cardinality(ids) : Nth(ids, i) \in ids /\ Listed(f, ids)[i] = f[Nth(ids, i)]
           /\ \A id \in ids : f[id] \in Range(Listed(f, ids))
           /\ \A x \in Range(Listed(f, ids)) : \E id \in ids : x = f[id]
<1> DEFINE n == Cardinality(ids)
           list == Listed(f, ids)
<1>1. \A i \in 1..n : Nth(ids, i) \in ids
  BY NthIs
<1>2. list = [i \in 1..n |-> f[Nth(ids, i)]]
  BY DEF Listed
<1>3. \A id \in ids : \E i \in 1..n : Nth(ids, i) = id
  BY RankType, NthIs
<1>4. \A x \in Range(list) : \E id \in ids : x = f[id]
  BY <1>1, <1>2 DEF Range
<1>5. \A id \in ids : f[id] \in Range(list)
  BY <1>2, <1>3 DEF Range
<1>6. QED
  BY <1>1, <1>2, <1>4, <1>5

LEMMA ListedRows ==
    ASSUME NEW R, NEW f, NEW ids \in SUBSET Nat, IsFiniteSet(ids), \A id \in ids : f[id] \in R
    PROVE  Listed(f, ids) \in Seq(R) /\ Len(Listed(f, ids)) = Cardinality(ids)
<1> DEFINE n == Cardinality(ids)
           list == Listed(f, ids)
<1>1. n \in Nat
  BY FS_CardinalityType
<1>2. \A i \in 1..n : Nth(ids, i) \in ids
  BY NthIs
<1>3. list = [i \in 1..n |-> f[Nth(ids, i)]]
  BY DEF Listed
<1>4. list \in [1..n -> R]
  BY <1>2, <1>3
<1>5. QED
  BY <1>1, <1>4

\* Everything listed is the list itself.
LEMMA ListedAll ==
    ASSUME NEW R, NEW rows \in Seq(R)
    PROVE  Listed(rows, DOMAIN rows) = rows
<1>1. DOMAIN rows = 1..Len(rows) /\ Len(rows) \in Nat /\ Cardinality(1..Len(rows)) = Len(rows)
  <2>1. DOMAIN rows = 1..Len(rows) /\ Len(rows) \in Nat
    OBVIOUS
  <2>2. \A n \in Nat : Cardinality(1..n) = n
    BY FS_Interval
  <2>3. QED
    BY <2>1, <2>2
<1>2. rows = [i \in 1..Len(rows) |-> rows[i]]
  OBVIOUS
<1>3. \A i \in 1..Len(rows) : Nth(1..Len(rows), i) = i
  BY <1>1, NthOfAll
<1>4. Listed(rows, DOMAIN rows) = [i \in 1..Len(rows) |-> rows[Nth(1..Len(rows), i)]]
  BY <1>1 DEF Listed
<1>5. QED
  BY <1>2, <1>3, <1>4

LEMMA SeqIs == ASSUME NEW R, NEW n \in Nat, NEW f \in [1..n -> R] PROVE f \in Seq(R)
  OBVIOUS

LEMMA ListedNone == ASSUME NEW f PROVE Listed(f, {}) = <<>>
<1>1. Listed(f, {}) = [i \in 1..0 |-> f[Nth({}, i)]]
  BY FS_EmptySet DEF Listed
<1>2. QED
  BY <1>1

LEMMA OrderedRows ==
    ASSUME NEW R, NEW t \in TableOf(R)
    PROVE  InOrder(t) \in Seq(R) /\ Range(InOrder(t)) = Rows(t)
<1>1. t \in [DOMAIN t -> R] /\ DOMAIN t \in SUBSET Ids /\ IsFiniteSet(DOMAIN t)
  BY TableIs
<1>2. DOMAIN t \in SUBSET Nat /\ \A id \in DOMAIN t : t[id] \in R
  BY <1>1 DEF Ids
<1>3. Listed(t, DOMAIN t) \in Seq(R)
  BY <1>1, <1>2, ListedRows
<1>4. /\ \A id \in DOMAIN t : t[id] \in Range(Listed(t, DOMAIN t))
      /\ \A x \in Range(Listed(t, DOMAIN t)) : \E id \in DOMAIN t : x = t[id]
  BY <1>1, <1>2, ListedRange
<1>5. QED
  BY <1>3, <1>4 DEF InOrder, Rows

-----------------------------------------------------------------------------
(* Insertions.                                                             *)

LEMMA FreshIds ==
    ASSUME NEW R, NEW t \in TableOf(R)
    PROVE  FreshId(t) \in Ids /\ FreshId(t) - 1 \in Nat /\ \A id \in DOMAIN t : id <= FreshId(t) - 1
<1> DEFINE max == Max(DOMAIN t \cup {0})
<1>1. DOMAIN t \in SUBSET Nat /\ IsFiniteSet(DOMAIN t)
  BY TableIs DEF Ids
<1>2. max \in Nat /\ \A id \in DOMAIN t : id <= max
  BY <1>1, LargestId
<1>3. FreshId(t) = max + 1
  BY DEF FreshId
<1> HIDE DEF max
<1>4. FreshId(t) - 1 = max /\ FreshId(t) \in Ids
  BY <1>2, <1>3 DEF Ids
<1>5. QED
  BY <1>2, <1>4

LEMMA AddedRows ==
    ASSUME NEW R, NEW t \in TableOf(R), NEW rows \in Seq(R)
    PROVE  /\ Added(t, rows) \in TableOf(R)
           /\ DOMAIN t \subseteq DOMAIN Added(t, rows)
           /\ \A id \in DOMAIN t : Added(t, rows)[id] = t[id]
           /\ \A id \in DOMAIN Added(t, rows) \ DOMAIN t :
                 \E i \in DOMAIN rows : Added(t, rows)[id] = rows[i]
           /\ Rows(Added(t, rows)) = Rows(t) \cup Range(rows)
<1> DEFINE m == FreshId(t) - 1
           n == Len(rows)
           new == m + 1..m + n
           a == Added(t, rows)
<1>1. t \in [DOMAIN t -> R] /\ DOMAIN t \in SUBSET Ids /\ IsFiniteSet(DOMAIN t)
  BY TableIs
<1>2. m \in Nat /\ n \in Nat /\ DOMAIN rows = 1..n /\ \A id \in DOMAIN t : id <= m
  BY FreshIds
<1>3. a = [id \in DOMAIN t \cup new |-> IF id \in DOMAIN t THEN t[id] ELSE rows[id - m]]
  BY DEF Added
<1> HIDE DEF m, a
<1>4. \A id \in new : id - m \in 1..n /\ id \in Ids /\ id \notin DOMAIN t
  BY <1>1, <1>2 DEF Ids
<1>5. \A i \in 1..n : m + i \in new /\ (m + i) - m = i
  BY <1>2
<1>6. \A i \in 1..n : rows[i] \in R
  BY <1>2
<1> HIDE DEF n
<1>7. DOMAIN a = DOMAIN t \cup new /\ a \in [DOMAIN a -> R]
  BY <1>1, <1>3, <1>4, <1>6
<1>8. IsFiniteSet(DOMAIN t \cup new)
  <2>1. m + 1 \in Int /\ m + n \in Int
    BY <1>2
  <2>2. IsFiniteSet(new)
    BY <2>1, FS_Interval
  <2>3. QED
    BY <1>1, <2>2, FS_Union
<1>9. \A id \in DOMAIN t : a[id] = t[id]
  BY <1>3
<1>10. \A id \in new : a[id] = rows[id - m]
  BY <1>3, <1>4
<1>11. a \in TableOf(R)
  BY <1>1, <1>4, <1>7, <1>8, TableIs
<1>12. Rows(a) = Rows(t) \cup Range(rows)
  <2>1. ASSUME NEW id \in DOMAIN a PROVE a[id] \in Rows(t) \cup Range(rows)
    BY <1>2, <1>4, <1>7, <1>9, <1>10 DEF Rows, Range
  <2>2. ASSUME NEW id \in DOMAIN t PROVE t[id] \in Rows(a)
    BY <1>7, <1>9 DEF Rows
  <2>3. ASSUME NEW i \in 1..n PROVE rows[i] \in Rows(a)
    <3>1. m + i \in DOMAIN a /\ a[m + i] = rows[i]
      BY <1>5, <1>7, <1>10
    <3>2. QED
      BY <3>1 DEF Rows
  <2>4. QED
    BY <1>2, <2>1, <2>2, <2>3 DEF Rows, Range
<1>13. \A id \in DOMAIN a \ DOMAIN t : \E i \in DOMAIN rows : a[id] = rows[i]
  BY <1>2, <1>4, <1>7, <1>10
<1>14. QED
  BY <1>7, <1>9, <1>11, <1>12, <1>13 DEF a

LEMMA AddedNone ==
    ASSUME NEW R, NEW t \in TableOf(R)
    PROVE  Added(t, <<>>) = t
<1> DEFINE m == FreshId(t) - 1
<1>1. t = [id \in DOMAIN t |-> t[id]]
  BY TableIs
<1>2. m \in Nat
  BY FreshIds
<1>3. Added(t, <<>>) = [id \in DOMAIN t \cup m + 1..m + Len(<<>>) |->
                           IF id \in DOMAIN t THEN t[id] ELSE (<<>>)[id - m]]
  BY DEF Added
<1> HIDE DEF m
<1>4. m + 1..m + Len(<<>>) = {}
  BY <1>2
<1>5. QED
  BY <1>1, <1>3, <1>4

\* What is inserted into an empty table is the table.
LEMMA AddedToNone ==
    ASSUME NEW R, NEW rows \in Seq(R)
    PROVE  Added(NoTable, rows) = rows
<1>1. DOMAIN NoTable = {}
  BY DEF NoTable
<1>2. FreshId(NoTable) = 1
  <2>1. Max({} \cup {0}) = 0
    BY DEF Max
  <2>2. QED
    BY <1>1, <2>1 DEF FreshId
<1>3. Added(NoTable, rows) =
        [id \in {} \cup 0 + 1..0 + Len(rows) |-> IF id \in {} THEN NoTable[id] ELSE rows[id - 0]]
  BY <1>1, <1>2 DEF Added
<1>4. /\ {} \cup 0 + 1..0 + Len(rows) = 1..Len(rows)
      /\ \A i \in 1..Len(rows) : i - 0 = i
  OBVIOUS
<1>5. rows = [i \in 1..Len(rows) |-> rows[i]]
  OBVIOUS
<1>6. QED
  BY <1>3, <1>4, <1>5

\* Some rows of a list, in their order.
LEMMA SomeRows ==
    ASSUME NEW R, NEW rows \in Seq(R), NEW positions \in SUBSET DOMAIN rows
    PROVE  /\ Listed(rows, positions) \in Seq(R)
           /\ \A i \in positions : rows[i] \in Range(Listed(rows, positions))
           /\ \A x \in Range(Listed(rows, positions)) : \E i \in positions : x = rows[i]
<1>1. DOMAIN rows = 1..Len(rows) /\ Len(rows) \in Nat
  OBVIOUS
<1>2. IsFiniteSet(positions) /\ positions \in SUBSET Nat
  <2>1. IsFiniteSet(1..Len(rows)) /\ positions \in SUBSET (1..Len(rows))
    BY <1>1, FS_Interval
  <2>2. IsFiniteSet(positions)
    BY <2>1, FS_Subset
  <2>3. QED
    BY <1>1, <2>1, <2>2
<1>3. \A i \in positions : rows[i] \in R
  BY <1>1
<1>4. Listed(rows, positions) \in Seq(R)
  BY <1>2, <1>3, ListedRows
<1>5. QED
  BY <1>2, <1>4, ListedRange

-----------------------------------------------------------------------------
(* Types.                                                                  *)

DeviceNames == Names \cup {Blank}
AnyHost == Hosts \cup {Blank}
Keys == Secrets \cup {Blank}

DeviceRow == [name: DeviceNames, host: AnyHost, key: Keys, custom: SUBSET Metrics,
              off: SUBSET Metrics]
CheckRow(refs) == [device: refs, name: CheckNames \cup {<<OfPing, n>> : n \in Names},
                   target: AnyHost, type: {"icmp", "tcp"}, port: BOOLEAN]
ChannelRow == [name: Names \cup {Blank, Log}, key: Keys]
RuleRow(refs) == [name: RuleNames \cup {Blank, DefaultRule}, device: refs, channels: SUBSET Nat]

Db == [devices: TableOf(DeviceRow), checks: TableOf(CheckRow(Nat)),
       channels: TableOf(ChannelRow), rules: TableOf(RuleRow(Nat))]

\* A document refers to devices by name.
Refs == DeviceNames \cup {NULL}
Doc == [devices: Seq(DeviceRow), checks: Seq(CheckRow(Refs)),
        channels: Seq(ChannelRow), rules: Seq(RuleRow(Refs))]

\* Checks and rules belong to devices that there are, or to none.
References(d) ==
    /\ \A c \in DOMAIN d.checks : d.checks[c].device \in DOMAIN d.devices \cup {NULL}
    /\ \A r \in DOMAIN d.rules : d.rules[r].device \in DOMAIN d.devices \cup {NULL}

LEMMA RowIn == ASSUME NEW R, NEW t \in TableOf(R), NEW id \in DOMAIN t
               PROVE  t[id] \in R /\ id \in Nat \ {0}
  BY TableIs DEF Ids

LEMMA DbRows ==
    ASSUME NEW d \in Db
    PROVE  /\ \A id \in DOMAIN d.devices : d.devices[id] \in DeviceRow /\ id \in Nat \ {0}
           /\ \A id \in DOMAIN d.checks : d.checks[id] \in CheckRow(Nat) /\ id \in Nat \ {0}
           /\ \A id \in DOMAIN d.channels : d.channels[id] \in ChannelRow /\ id \in Nat \ {0}
           /\ \A id \in DOMAIN d.rules : d.rules[id] \in RuleRow(Nat) /\ id \in Nat \ {0}
<1>1. /\ d.devices \in TableOf(DeviceRow) /\ d.checks \in TableOf(CheckRow(Nat))
      /\ d.channels \in TableOf(ChannelRow) /\ d.rules \in TableOf(RuleRow(Nat))
  BY DEF Db
<1>2. QED
  BY <1>1, RowIn

\* What insertions do to a database.
LEMMA InsertedDevices ==
    ASSUME NEW d \in Db, NEW rows \in Seq(DeviceRow)
    PROVE  LET e == InsertAll(d, "devices", rows)
           IN  /\ e \in Db /\ e.devices = Added(d.devices, rows)
               /\ e.checks = d.checks /\ e.channels = d.channels /\ e.rules = d.rules
<1>1. d.devices \in TableOf(DeviceRow)
  BY DEF Db
<1>2. Added(d.devices, rows) \in TableOf(DeviceRow)
  BY <1>1, AddedRows
<1>3. QED
  BY <1>2 DEF InsertAll, Db

LEMMA InsertedChecks ==
    ASSUME NEW d \in Db, NEW rows \in Seq(CheckRow(Nat))
    PROVE  LET e == InsertAll(d, "checks", rows)
           IN  /\ e \in Db /\ e.checks = Added(d.checks, rows)
               /\ e.devices = d.devices /\ e.channels = d.channels /\ e.rules = d.rules
<1>1. d.checks \in TableOf(CheckRow(Nat))
  BY DEF Db
<1>2. Added(d.checks, rows) \in TableOf(CheckRow(Nat))
  BY <1>1, AddedRows
<1>3. QED
  BY <1>2 DEF InsertAll, Db

LEMMA InsertedChannels ==
    ASSUME NEW d \in Db, NEW rows \in Seq(ChannelRow)
    PROVE  LET e == InsertAll(d, "channels", rows)
           IN  /\ e \in Db /\ e.channels = Added(d.channels, rows)
               /\ e.devices = d.devices /\ e.checks = d.checks /\ e.rules = d.rules
<1>1. d.channels \in TableOf(ChannelRow)
  BY DEF Db
<1>2. Added(d.channels, rows) \in TableOf(ChannelRow)
  BY <1>1, AddedRows
<1>3. QED
  BY <1>2 DEF InsertAll, Db

LEMMA InsertedRules ==
    ASSUME NEW d \in Db, NEW rows \in Seq(RuleRow(Nat))
    PROVE  LET e == InsertAll(d, "rules", rows)
           IN  /\ e \in Db /\ e.rules = Added(d.rules, rows)
               /\ e.devices = d.devices /\ e.checks = d.checks /\ e.channels = d.channels
<1>1. d.rules \in TableOf(RuleRow(Nat))
  BY DEF Db
<1>2. Added(d.rules, rows) \in TableOf(RuleRow(Nat))
  BY <1>1, AddedRows
<1>3. QED
  BY <1>2 DEF InsertAll, Db

-----------------------------------------------------------------------------
(* Export.                                                                 *)

NamedRows(d, rows) == [i \in DOMAIN rows |-> ByName(d, rows[i])]

LEMMA NameIs ==
    ASSUME NEW d \in Db, NEW id \in DOMAIN d.devices \cup {NULL}
    PROVE  NameOf(d, id) \in Refs
  BY DbRows DEF NameOf, Refs, DeviceRow, NULL

LEMMA CheckNamed ==
    ASSUME NEW d \in Db, NEW row \in CheckRow(DOMAIN d.devices \cup {NULL})
    PROVE  /\ ByName(d, row) \in CheckRow(Refs) /\ Key(ByName(d, row)) = Key(row)
           /\ ByName(d, row).device = NameOf(d, row.device)
           /\ CheckAccepted(ByName(d, row)) <=> CheckAccepted(row)
<1>1. NameOf(d, row.device) \in Refs
  BY NameIs DEF CheckRow
<1>2. ByName(d, row) = [row EXCEPT !.device = NameOf(d, row.device)]
  BY DEF ByName
<1>3. QED
  BY <1>1, <1>2 DEF CheckRow, Key, CheckAccepted

LEMMA RuleNamed ==
    ASSUME NEW d \in Db, NEW row \in RuleRow(DOMAIN d.devices \cup {NULL})
    PROVE  /\ ByName(d, row) \in RuleRow(Refs) /\ ByName(d, row).name = row.name
           /\ ByName(d, row).device = NameOf(d, row.device)
           /\ RuleAccepted(ByName(d, row)) <=> RuleAccepted(row)
<1>1. NameOf(d, row.device) \in Refs
  BY NameIs DEF RuleRow
<1>2. ByName(d, row) = [row EXCEPT !.device = NameOf(d, row.device)]
  BY DEF ByName
<1>3. QED
  BY <1>1, <1>2 DEF RuleRow, RuleAccepted

LEMMA RefsTable ==
    ASSUME NEW d \in Db, References(d)
    PROVE  /\ d.checks \in TableOf(CheckRow(DOMAIN d.devices \cup {NULL}))
           /\ d.rules \in TableOf(RuleRow(DOMAIN d.devices \cup {NULL}))
<1> DEFINE refs == DOMAIN d.devices \cup {NULL}
<1>1. /\ \A id \in DOMAIN d.checks : d.checks[id] \in CheckRow(refs)
      /\ \A id \in DOMAIN d.rules : d.rules[id] \in RuleRow(refs)
  BY DbRows DEF References, CheckRow, RuleRow
<1>2. /\ d.checks \in TableOf(CheckRow(Nat)) /\ d.rules \in TableOf(RuleRow(Nat))
  BY DEF Db
<1>3. \A R, T, t : t \in TableOf(T) /\ (\A id \in DOMAIN t : t[id] \in R) => t \in TableOf(R)
  BY TableIs
<1>4. QED
  BY <1>1, <1>2, <1>3

\* Devices with their custom metrics enabled are the same but for that.
LEMMA EnabledRows ==
    ASSUME NEW rows \in Seq(DeviceRow)
    PROVE  /\ Enabled(rows) \in Seq(DeviceRow) /\ DOMAIN Enabled(rows) = DOMAIN rows
           /\ \A i \in DOMAIN rows : Enabled(rows)[i].name = rows[i].name
           /\ \A i \in DOMAIN rows : Enabled(rows)[i].host = rows[i].host
<1> DEFINE list == Enabled(rows)
<1>1. DOMAIN rows = 1..Len(rows) /\ Len(rows) \in Nat /\ \A i \in 1..Len(rows) : rows[i] \in DeviceRow
  OBVIOUS
<1>2. \A row \in DeviceRow : /\ [row EXCEPT !.off = {}] \in DeviceRow
                            /\ [row EXCEPT !.off = {}].name = row.name
                            /\ [row EXCEPT !.off = {}].host = row.host
                            /\ [[row EXCEPT !.off = {}] EXCEPT !.off = {}] = [row EXCEPT !.off = {}]
  BY DEF DeviceRow
<1>3. list = [i \in DOMAIN rows |-> [rows[i] EXCEPT !.off = {}]]
  BY DEF Enabled
<1> HIDE DEF list
<1>4. DOMAIN list = DOMAIN rows /\ \A i \in DOMAIN rows : list[i] = [rows[i] EXCEPT !.off = {}]
  BY <1>3
<1>5. list \in [1..Len(rows) -> DeviceRow]
  BY <1>1, <1>2, <1>3
<1>6. list \in Seq(DeviceRow)
  BY <1>1, <1>5, SeqIs
<1>7. \A i \in DOMAIN rows : list[i].name = rows[i].name /\ list[i].host = rows[i].host
  BY <1>1, <1>2, <1>4
<1>8. QED
  BY <1>4, <1>6, <1>7 DEF list

LEMMA EnabledTwice ==
    ASSUME NEW rows \in Seq(DeviceRow)
    PROVE  Enabled(Enabled(rows)) = Enabled(rows)
<1> DEFINE list == [i \in DOMAIN rows |-> [rows[i] EXCEPT !.off = {}]]
<1>1. \A i \in DOMAIN rows : rows[i] \in DeviceRow
  OBVIOUS
<1>2. \A row \in DeviceRow : [[row EXCEPT !.off = {}] EXCEPT !.off = {}] = [row EXCEPT !.off = {}]
  BY DEF DeviceRow
<1>3. DOMAIN list = DOMAIN rows /\ \A i \in DOMAIN rows : list[i] = [rows[i] EXCEPT !.off = {}]
  OBVIOUS
<1>4. list = [i \in DOMAIN rows |-> list[i]]
  OBVIOUS
<1> HIDE DEF list
<1>5. \A i \in DOMAIN rows : [list[i] EXCEPT !.off = {}] = list[i]
  BY <1>1, <1>2, <1>3
<1>6. [i \in DOMAIN list |-> [list[i] EXCEPT !.off = {}]] = list
  BY <1>3, <1>4, <1>5
<1>7. QED
  BY <1>6 DEF Enabled, list

\* A document says what the tables hold, in the order of their ids.
LEMMA ExportIs ==
    ASSUME NEW d \in Db, References(d)
    PROVE  /\ Export(d) \in Doc
           /\ Export(d) = [devices |-> Enabled(InOrder(d.devices)),
                           checks |-> NamedRows(d, InOrder(d.checks)),
                           channels |-> InOrder(d.channels), rules |-> NamedRows(d, InOrder(d.rules))]
<1> DEFINE refs == DOMAIN d.devices \cup {NULL}
           ds == InOrder(d.devices)
           cs == InOrder(d.checks)
           chs == InOrder(d.channels)
           rs == InOrder(d.rules)
<1>1. ds \in Seq(DeviceRow) /\ chs \in Seq(ChannelRow)
  BY OrderedRows DEF Db
<1>2. Enabled(ds) \in Seq(DeviceRow)
  BY <1>1, EnabledRows
<1>3. cs \in Seq(CheckRow(refs)) /\ rs \in Seq(RuleRow(refs))
  BY RefsTable, OrderedRows
<1> HIDE DEF cs, rs, ds, chs
<1>4. NamedRows(d, cs) \in Seq(CheckRow(Refs))
  <2>1. DOMAIN cs = 1..Len(cs) /\ Len(cs) \in Nat /\ \A i \in DOMAIN cs : cs[i] \in CheckRow(refs)
    BY <1>3
  <2>2. \A i \in 1..Len(cs) : ByName(d, cs[i]) \in CheckRow(Refs)
    BY <2>1, CheckNamed
  <2>3. NamedRows(d, cs) \in [1..Len(cs) -> CheckRow(Refs)]
    BY <2>1, <2>2 DEF NamedRows
  <2>4. QED
    BY <2>1, <2>3
<1>5. NamedRows(d, rs) \in Seq(RuleRow(Refs))
  <2>1. DOMAIN rs = 1..Len(rs) /\ Len(rs) \in Nat /\ \A i \in DOMAIN rs : rs[i] \in RuleRow(refs)
    BY <1>3
  <2>2. \A i \in 1..Len(rs) : ByName(d, rs[i]) \in RuleRow(Refs)
    BY <2>1, RuleNamed
  <2>3. NamedRows(d, rs) \in [1..Len(rs) -> RuleRow(Refs)]
    BY <2>1, <2>2 DEF NamedRows
  <2>4. QED
    BY <2>1, <2>3
<1>6. Export(d) = [devices |-> Enabled(ds), checks |-> NamedRows(d, cs), channels |-> chs, rules |-> NamedRows(d, rs)]
  BY DEF Export, NamedRows, ds, cs, chs, rs
<1>7. QED
  BY <1>2, <1>1, <1>4, <1>5, <1>6 DEF Doc, ds, cs, chs, rs

-----------------------------------------------------------------------------
(* Import.                                                                 *)

ResolvedRows(d, rows) == [i \in DOMAIN rows |-> Resolved(d, rows[i])]

\* A name stands for a device of that name, if there is one.
DeviceNamed(d, name) ==
    IF name \in Taken(d.devices) THEN CHOOSE id \in DOMAIN d.devices : d.devices[id].name = name ELSE NULL

LEMMA NamedDevice ==
    ASSUME NEW d \in Db, NEW name
    PROVE  /\ DeviceNamed(d, name) \in DOMAIN d.devices \cup {NULL}
           /\ name \in Taken(d.devices) => /\ DeviceNamed(d, name) \in DOMAIN d.devices
                                           /\ d.devices[DeviceNamed(d, name)].name = name
<1>1. name \in Taken(d.devices) => \E id \in DOMAIN d.devices : d.devices[id].name = name
  BY DEF Taken, Rows
<1>2. QED
  BY <1>1 DEF DeviceNamed

LEMMA CheckResolved ==
    ASSUME NEW d \in Db, NEW row \in CheckRow(Refs)
    PROVE  /\ Resolved(d, row) \in CheckRow(DOMAIN d.devices \cup {NULL})
           /\ Key(Resolved(d, row)) = Key(row)
           /\ Resolved(d, row) = [row EXCEPT !.device = DeviceNamed(d, row.device)]
<1>1. DeviceNamed(d, row.device) \in DOMAIN d.devices \cup {NULL}
  BY NamedDevice
<1>2. Resolved(d, row) = [row EXCEPT !.device = DeviceNamed(d, row.device)]
  BY DEF Resolved, DeviceNamed
<1>3. QED
  BY <1>1, <1>2 DEF CheckRow, Key

LEMMA RuleResolved ==
    ASSUME NEW d \in Db, NEW row \in RuleRow(Refs)
    PROVE  /\ Resolved(d, row) \in RuleRow(DOMAIN d.devices \cup {NULL})
           /\ Resolved(d, row).name = row.name
           /\ Resolved(d, row) = [row EXCEPT !.device = DeviceNamed(d, row.device)]
<1>1. DeviceNamed(d, row.device) \in DOMAIN d.devices \cup {NULL}
  BY NamedDevice
<1>2. Resolved(d, row) = [row EXCEPT !.device = DeviceNamed(d, row.device)]
  BY DEF Resolved, DeviceNamed
<1>3. QED
  BY <1>1, <1>2 DEF RuleRow

LEMMA ChecksResolved ==
    ASSUME NEW d \in Db, NEW rows \in Seq(CheckRow(Refs))
    PROVE  /\ ResolvedRows(d, rows) \in Seq(CheckRow(DOMAIN d.devices \cup {NULL}))
           /\ ResolvedRows(d, rows) \in Seq(CheckRow(Nat))
           /\ DOMAIN ResolvedRows(d, rows) = DOMAIN rows
           /\ \A i \in DOMAIN rows : ResolvedRows(d, rows)[i] = Resolved(d, rows[i])
<1> DEFINE refs == DOMAIN d.devices \cup {NULL}
           list == ResolvedRows(d, rows)
<1>1. DOMAIN rows = 1..Len(rows) /\ Len(rows) \in Nat /\ \A i \in 1..Len(rows) : rows[i] \in CheckRow(Refs)
  OBVIOUS
<1>2. \A i \in 1..Len(rows) : Resolved(d, rows[i]) \in CheckRow(refs)
  BY <1>1, CheckResolved
<1>3. CheckRow(refs) \subseteq CheckRow(Nat)
  BY DbRows DEF CheckRow, NULL
<1>4. list = [i \in 1..Len(rows) |-> Resolved(d, rows[i])]
  BY <1>1 DEF ResolvedRows
<1>5. list \in [1..Len(rows) -> CheckRow(refs)] /\ list \in [1..Len(rows) -> CheckRow(Nat)]
  BY <1>2, <1>3, <1>4
<1>6. DOMAIN list = DOMAIN rows /\ \A i \in DOMAIN rows : list[i] = Resolved(d, rows[i])
  BY <1>1, <1>4
<1> HIDE DEF list
<1>7. list \in Seq(CheckRow(refs)) /\ list \in Seq(CheckRow(Nat))
  BY <1>1, <1>5, SeqIs
<1>8. QED
  BY <1>6, <1>7 DEF list

LEMMA RulesResolved ==
    ASSUME NEW d \in Db, NEW rows \in Seq(RuleRow(Refs))
    PROVE  /\ ResolvedRows(d, rows) \in Seq(RuleRow(DOMAIN d.devices \cup {NULL}))
           /\ ResolvedRows(d, rows) \in Seq(RuleRow(Nat))
           /\ DOMAIN ResolvedRows(d, rows) = DOMAIN rows
           /\ \A i \in DOMAIN rows : ResolvedRows(d, rows)[i] = Resolved(d, rows[i])
<1> DEFINE refs == DOMAIN d.devices \cup {NULL}
           list == ResolvedRows(d, rows)
<1>1. DOMAIN rows = 1..Len(rows) /\ Len(rows) \in Nat /\ \A i \in 1..Len(rows) : rows[i] \in RuleRow(Refs)
  OBVIOUS
<1>2. \A i \in 1..Len(rows) : Resolved(d, rows[i]) \in RuleRow(refs)
  BY <1>1, RuleResolved
<1>3. RuleRow(refs) \subseteq RuleRow(Nat)
  BY DbRows DEF RuleRow, NULL
<1>4. list = [i \in 1..Len(rows) |-> Resolved(d, rows[i])]
  BY <1>1 DEF ResolvedRows
<1>5. list \in [1..Len(rows) -> RuleRow(refs)] /\ list \in [1..Len(rows) -> RuleRow(Nat)]
  BY <1>2, <1>3, <1>4
<1>6. DOMAIN list = DOMAIN rows /\ \A i \in DOMAIN rows : list[i] = Resolved(d, rows[i])
  BY <1>1, <1>4
<1> HIDE DEF list
<1>7. list \in Seq(RuleRow(refs)) /\ list \in Seq(RuleRow(Nat))
  BY <1>1, <1>5, SeqIs
<1>8. QED
  BY <1>6, <1>7 DEF list

\* The rows of a document that are new to a table are rows of the document, and the others are in
\* the table already.
LEMMA NewRows ==
    ASSUME NEW R, NEW rows \in Seq(R), NEW t
    PROVE  /\ NewByName(t, rows) \in Seq(R)
           /\ \A i \in DOMAIN rows : rows[i].name \in Taken(t) \/ rows[i] \in Range(NewByName(t, rows))
<1> DEFINE positions == {i \in DOMAIN rows : rows[i].name \notin Taken(t)}
<1>1. positions \in SUBSET DOMAIN rows
  OBVIOUS
<1>2. /\ Listed(rows, positions) \in Seq(R)
      /\ \A i \in positions : rows[i] \in Range(Listed(rows, positions))
  BY <1>1, SomeRows
<1>3. QED
  BY <1>2 DEF NewByName

LEMMA NewCheckRows ==
    ASSUME NEW R, NEW rows \in Seq(R), NEW t
    PROVE  /\ NewChecks(t, rows) \in Seq(R)
           /\ \A i \in DOMAIN rows : \/ Key(rows[i]) \in {Key(c) : c \in Rows(t)}
                                     \/ rows[i] \in Range(NewChecks(t, rows))
<1> DEFINE positions == {i \in DOMAIN rows : Key(rows[i]) \notin {Key(c) : c \in Rows(t)}}
<1>1. positions \in SUBSET DOMAIN rows
  OBVIOUS
<1>2. /\ Listed(rows, positions) \in Seq(R)
      /\ \A i \in positions : rows[i] \in Range(Listed(rows, positions))
  BY <1>1, SomeRows
<1>3. QED
  BY <1>2 DEF NewChecks

\* An import that is not rolled back adds the new rows, with the ids that names stand for in what
\* it makes of the devices.
ImportsAll(d, doc, e) ==
    /\ e.devices = Added(d.devices, NewByName(d.devices, doc.devices))
    /\ e.checks = Added(d.checks, ResolvedRows(e, NewChecks(d.checks, doc.checks)))
    /\ e.channels = Added(d.channels, NewByName(d.channels, doc.channels))
    /\ e.rules = Added(d.rules, ResolvedRows(e, NewByName(d.rules, doc.rules)))

LEMMA ImportIs ==
    ASSUME NEW d \in Db, NEW doc \in Doc
    PROVE  /\ Import(d, doc) \in Db
           /\ Rejected(d, doc) => Import(d, doc) = d
           /\ ~Rejected(d, doc) => ImportsAll(d, doc, Import(d, doc))
<1> DEFINE nd == NewByName(d.devices, doc.devices)
           nc == NewChecks(d.checks, doc.checks)
           nch == NewByName(d.channels, doc.channels)
           nr == NewByName(d.rules, doc.rules)
           w1 == InsertAll(d, "devices", nd)
           rc == ResolvedRows(w1, nc)
           rr == ResolvedRows(w1, nr)
           w2 == InsertAll(w1, "checks", rc)
           w3 == InsertAll(w2, "channels", nch)
           w4 == InsertAll(w3, "rules", rr)
<1>1. /\ doc.devices \in Seq(DeviceRow) /\ doc.checks \in Seq(CheckRow(Refs))
      /\ doc.channels \in Seq(ChannelRow) /\ doc.rules \in Seq(RuleRow(Refs))
  BY DEF Doc
<1>2. /\ nd \in Seq(DeviceRow) /\ nc \in Seq(CheckRow(Refs))
      /\ nch \in Seq(ChannelRow) /\ nr \in Seq(RuleRow(Refs))
  BY <1>1, NewRows, NewCheckRows
<1>3. Import(d, doc) = IF Rejected(d, doc) THEN d ELSE w4
  BY DEF Import, ResolvedRows
<1> HIDE DEF nd, nc, nch, nr
<1>4. /\ w1 \in Db /\ w1.devices = Added(d.devices, nd)
      /\ w1.checks = d.checks /\ w1.channels = d.channels /\ w1.rules = d.rules
  BY <1>2, InsertedDevices
<1> HIDE DEF w1
<1>5. rc \in Seq(CheckRow(Nat)) /\ rr \in Seq(RuleRow(Nat))
  BY <1>2, <1>4, ChecksResolved, RulesResolved
<1> HIDE DEF rc, rr
<1>6. /\ w2 \in Db /\ w2.checks = Added(w1.checks, rc)
      /\ w2.devices = w1.devices /\ w2.channels = w1.channels /\ w2.rules = w1.rules
  BY <1>4, <1>5, InsertedChecks
<1> HIDE DEF w2
<1>7. /\ w3 \in Db /\ w3.channels = Added(w2.channels, nch)
      /\ w3.devices = w2.devices /\ w3.checks = w2.checks /\ w3.rules = w2.rules
  BY <1>2, <1>6, InsertedChannels
<1> HIDE DEF w3
<1>8. /\ w4 \in Db /\ w4.rules = Added(w3.rules, rr)
      /\ w4.devices = w3.devices /\ w4.checks = w3.checks /\ w4.channels = w3.channels
  BY <1>5, <1>7, InsertedRules
<1> HIDE DEF w4
<1>9. \A row : Resolved(w4, row) = Resolved(w1, row)
  BY <1>6, <1>7, <1>8 DEF Resolved
<1>10. ResolvedRows(w4, nc) = rc /\ ResolvedRows(w4, nr) = rr
  BY <1>9 DEF ResolvedRows, rc, rr
<1>11. ImportsAll(d, doc, w4)
  BY <1>4, <1>6, <1>7, <1>8, <1>10 DEF ImportsAll, nd, nc, nch, nr
<1>12. QED
  BY <1>3, <1>8, <1>11

\* What an import adds to.
LEMMA ImportKeeps ==
    ASSUME NEW d \in Db, NEW doc \in Doc
    PROVE  LET e == Import(d, doc)
           IN  /\ DOMAIN d.devices \subseteq DOMAIN e.devices
               /\ \A id \in DOMAIN d.devices : e.devices[id] = d.devices[id]
               /\ \A id \in DOMAIN d.checks : e.checks[id] = d.checks[id]
               /\ \A id \in DOMAIN d.channels : e.channels[id] = d.channels[id]
               /\ \A id \in DOMAIN d.rules : e.rules[id] = d.rules[id]
<1> DEFINE e == Import(d, doc)
<1>1. /\ d.devices \in TableOf(DeviceRow) /\ d.checks \in TableOf(CheckRow(Nat))
      /\ d.channels \in TableOf(ChannelRow) /\ d.rules \in TableOf(RuleRow(Nat))
      /\ doc.devices \in Seq(DeviceRow) /\ doc.checks \in Seq(CheckRow(Refs))
      /\ doc.channels \in Seq(ChannelRow) /\ doc.rules \in Seq(RuleRow(Refs))
  BY DEF Doc, Db
<1>2. e \in Db /\ (Rejected(d, doc) => e = d) /\ (~Rejected(d, doc) => ImportsAll(d, doc, e))
  BY ImportIs
<1> HIDE DEF e
<1>3. CASE Rejected(d, doc)
  BY <1>2, <1>3 DEF e
<1>4. CASE ~Rejected(d, doc)
  <2>1. ImportsAll(d, doc, e)
    BY <1>2, <1>4
  <2>2. /\ NewByName(d.devices, doc.devices) \in Seq(DeviceRow)
        /\ NewByName(d.channels, doc.channels) \in Seq(ChannelRow)
    BY <1>1, NewRows
  <2>3. /\ ResolvedRows(e, NewChecks(d.checks, doc.checks)) \in Seq(CheckRow(Nat))
        /\ ResolvedRows(e, NewByName(d.rules, doc.rules)) \in Seq(RuleRow(Nat))
    BY <1>1, <1>2, NewRows, NewCheckRows, ChecksResolved, RulesResolved
  <2>4. /\ DOMAIN d.devices \subseteq DOMAIN e.devices
        /\ \A id \in DOMAIN d.devices : e.devices[id] = d.devices[id]
    BY <1>1, <2>1, <2>2, AddedRows DEF ImportsAll
  <2>5. \A id \in DOMAIN d.checks : e.checks[id] = d.checks[id]
    BY <1>1, <2>1, <2>3, AddedRows DEF ImportsAll
  <2>6. \A id \in DOMAIN d.channels : e.channels[id] = d.channels[id]
    BY <1>1, <2>1, <2>2, AddedRows DEF ImportsAll
  <2>7. \A id \in DOMAIN d.rules : e.rules[id] = d.rules[id]
    BY <1>1, <2>1, <2>3, AddedRows DEF ImportsAll
  <2>8. QED
    BY <2>4, <2>5, <2>6, <2>7 DEF e
<1>5. QED
  BY <1>3, <1>4

LEMMA ImportRefers ==
    ASSUME NEW d \in Db, NEW doc \in Doc, References(d)
    PROVE  References(Import(d, doc))
<1> DEFINE e == Import(d, doc)
           refs == DOMAIN e.devices \cup {NULL}
           newChecks == ResolvedRows(e, NewChecks(d.checks, doc.checks))
           newRules == ResolvedRows(e, NewByName(d.rules, doc.rules))
<1>1. /\ d.checks \in TableOf(CheckRow(Nat)) /\ d.rules \in TableOf(RuleRow(Nat))
      /\ doc.checks \in Seq(CheckRow(Refs)) /\ doc.rules \in Seq(RuleRow(Refs))
  BY DEF Doc, Db
<1>2. e \in Db /\ (Rejected(d, doc) => e = d) /\ (~Rejected(d, doc) => ImportsAll(d, doc, e))
  BY ImportIs
<1>3. /\ DOMAIN d.devices \subseteq DOMAIN e.devices
      /\ \A id \in DOMAIN d.checks : e.checks[id] = d.checks[id]
      /\ \A id \in DOMAIN d.rules : e.rules[id] = d.rules[id]
  BY ImportKeeps
<1> HIDE DEF e
<1>4. CASE Rejected(d, doc)
  BY <1>2, <1>4 DEF e
<1>5. CASE ~Rejected(d, doc)
  <2>1. /\ e.checks = Added(d.checks, newChecks)
        /\ e.rules = Added(d.rules, newRules)
    BY <1>2, <1>5 DEF ImportsAll
  <2>2. NewChecks(d.checks, doc.checks) \in Seq(CheckRow(Refs)) /\ NewByName(d.rules, doc.rules) \in Seq(RuleRow(Refs))
    BY <1>1, NewRows, NewCheckRows
  <2>3. newChecks \in Seq(CheckRow(Nat)) /\ newChecks \in Seq(CheckRow(refs))
    BY <1>2, <2>2, ChecksResolved
  <2>4. newRules \in Seq(RuleRow(Nat)) /\ newRules \in Seq(RuleRow(refs))
    BY <1>2, <2>2, RulesResolved
  <2> HIDE DEF newChecks, newRules
  <2>5. \A c \in DOMAIN e.checks : e.checks[c].device \in refs
    <3>1. \A c \in DOMAIN e.checks \ DOMAIN d.checks : \E i \in DOMAIN newChecks : e.checks[c] = newChecks[i]
      BY <1>1, <2>1, <2>3, AddedRows
    <3>2. \A i \in DOMAIN newChecks : newChecks[i] \in CheckRow(refs)
      BY <2>3
    <3>3. \A c \in DOMAIN d.checks : e.checks[c].device \in refs
      BY <1>3 DEF References
    <3>4. QED
      BY <3>1, <3>2, <3>3 DEF CheckRow
  <2>6. \A r \in DOMAIN e.rules : e.rules[r].device \in refs
    <3>1. \A r \in DOMAIN e.rules \ DOMAIN d.rules : \E i \in DOMAIN newRules : e.rules[r] = newRules[i]
      BY <1>1, <2>1, <2>4, AddedRows
    <3>2. \A i \in DOMAIN newRules : newRules[i] \in RuleRow(refs)
      BY <2>4
    <3>3. \A r \in DOMAIN d.rules : e.rules[r].device \in refs
      BY <1>3 DEF References
    <3>4. QED
      BY <3>1, <3>2, <3>3 DEF RuleRow
  <2>7. QED
    BY <2>5, <2>6 DEF References, e
<1>6. QED
  BY <1>4, <1>5

\* Nothing in the document that the database does not have.
HasAll(d, doc) ==
    /\ \A i \in DOMAIN doc.devices : doc.devices[i].name \in Taken(d.devices)
    /\ \A i \in DOMAIN doc.checks : Key(doc.checks[i]) \in {Key(c) : c \in Rows(d.checks)}
    /\ \A i \in DOMAIN doc.channels : doc.channels[i].name \in Taken(d.channels)
    /\ \A i \in DOMAIN doc.rules : doc.rules[i].name \in Taken(d.rules)

LEMMA ImportOfNothing ==
    ASSUME NEW d \in Db, NEW doc \in Doc, HasAll(d, doc)
    PROVE  Import(d, doc) = d
<1> DEFINE e == Import(d, doc)
<1>1. /\ d.devices \in TableOf(DeviceRow) /\ d.checks \in TableOf(CheckRow(Nat))
      /\ d.channels \in TableOf(ChannelRow) /\ d.rules \in TableOf(RuleRow(Nat))
  BY DEF Db
<1>2. /\ NewByName(d.devices, doc.devices) = <<>>
      /\ NewChecks(d.checks, doc.checks) = <<>>
      /\ NewByName(d.channels, doc.channels) = <<>>
      /\ NewByName(d.rules, doc.rules) = <<>>
  <2>1. /\ {i \in DOMAIN doc.devices : doc.devices[i].name \notin Taken(d.devices)} = {}
        /\ {i \in DOMAIN doc.checks : Key(doc.checks[i]) \notin {Key(c) : c \in Rows(d.checks)}} = {}
        /\ {i \in DOMAIN doc.channels : doc.channels[i].name \notin Taken(d.channels)} = {}
        /\ {i \in DOMAIN doc.rules : doc.rules[i].name \notin Taken(d.rules)} = {}
    BY DEF HasAll
  <2>2. QED
    BY <2>1, ListedNone DEF NewByName, NewChecks
<1>3. e \in Db /\ (Rejected(d, doc) => e = d) /\ (~Rejected(d, doc) => ImportsAll(d, doc, e))
  BY ImportIs
<1>4. ResolvedRows(e, <<>>) = <<>>
  BY DEF ResolvedRows
<1> HIDE DEF e
<1>5. CASE ImportsAll(d, doc, e)
  <2>1. /\ e.devices = Added(d.devices, <<>>) /\ e.checks = Added(d.checks, <<>>)
        /\ e.channels = Added(d.channels, <<>>) /\ e.rules = Added(d.rules, <<>>)
    BY <1>2, <1>4, <1>5 DEF ImportsAll
  <2>2. e.devices = d.devices /\ e.checks = d.checks /\ e.channels = d.channels /\ e.rules = d.rules
    BY <1>1, <2>1, AddedNone
  <2>3. QED
    BY <1>3, <2>2 DEF Db, e
<1>6. QED
  BY <1>3, <1>5 DEF e

\* After an import, whatever the document names is there.
LEMMA ImportHasAll ==
    ASSUME NEW d \in Db, NEW doc \in Doc, ~Rejected(d, doc)
    PROVE  HasAll(Import(d, doc), doc)
<1> DEFINE e == Import(d, doc)
           nd == NewByName(d.devices, doc.devices)
           nc == NewChecks(d.checks, doc.checks)
           nch == NewByName(d.channels, doc.channels)
           nr == NewByName(d.rules, doc.rules)
           rc == ResolvedRows(e, nc)
           rr == ResolvedRows(e, nr)
<1>1. /\ d.devices \in TableOf(DeviceRow) /\ d.checks \in TableOf(CheckRow(Nat))
      /\ d.channels \in TableOf(ChannelRow) /\ d.rules \in TableOf(RuleRow(Nat))
      /\ doc.devices \in Seq(DeviceRow) /\ doc.checks \in Seq(CheckRow(Refs))
      /\ doc.channels \in Seq(ChannelRow) /\ doc.rules \in Seq(RuleRow(Refs))
  BY DEF Doc, Db
<1>2. e \in Db /\ ImportsAll(d, doc, e)
  BY ImportIs
<1>3. /\ nd \in Seq(DeviceRow) /\ nc \in Seq(CheckRow(Refs))
      /\ nch \in Seq(ChannelRow) /\ nr \in Seq(RuleRow(Refs))
  BY <1>1, NewRows, NewCheckRows
<1>4. /\ \A i \in DOMAIN doc.devices : doc.devices[i].name \in Taken(d.devices) \/ doc.devices[i] \in Range(nd)
      /\ \A i \in DOMAIN doc.channels : doc.channels[i].name \in Taken(d.channels) \/ doc.channels[i] \in Range(nch)
      /\ \A i \in DOMAIN doc.rules : doc.rules[i].name \in Taken(d.rules) \/ doc.rules[i] \in Range(nr)
  BY <1>1, NewRows
<1>5. \A i \in DOMAIN doc.checks : \/ Key(doc.checks[i]) \in {Key(c) : c \in Rows(d.checks)}
                                   \/ doc.checks[i] \in Range(nc)
  BY <1>1, NewCheckRows
<1> HIDE DEF e, nd, nc, nch, nr
<1>6. rc \in Seq(CheckRow(Nat)) /\ \A x \in Range(nc) : \E y \in Range(rc) : Key(y) = Key(x)
  <2>1. /\ rc \in Seq(CheckRow(Nat)) /\ DOMAIN rc = DOMAIN nc
        /\ \A i \in DOMAIN nc : rc[i] = Resolved(e, nc[i])
    BY <1>2, <1>3, ChecksResolved
  <2>2. \A i \in DOMAIN nc : nc[i] \in CheckRow(Refs)
    BY <1>3
  <2>3. \A i \in DOMAIN nc : Key(Resolved(e, nc[i])) = Key(nc[i])
    BY <1>2, <2>2, CheckResolved
  <2>4. QED
    BY <2>1, <2>3 DEF Range
<1>7. rr \in Seq(RuleRow(Nat)) /\ \A x \in Range(nr) : \E y \in Range(rr) : y.name = x.name
  <2>1. /\ rr \in Seq(RuleRow(Nat)) /\ DOMAIN rr = DOMAIN nr
        /\ \A i \in DOMAIN nr : rr[i] = Resolved(e, nr[i])
    BY <1>2, <1>3, RulesResolved
  <2>2. \A i \in DOMAIN nr : nr[i] \in RuleRow(Refs)
    BY <1>3
  <2>3. \A i \in DOMAIN nr : Resolved(e, nr[i]).name = nr[i].name
    BY <1>2, <2>2, RuleResolved
  <2>4. QED
    BY <2>1, <2>3 DEF Range
<1> HIDE DEF rc, rr
<1>8. /\ Rows(e.devices) = Rows(d.devices) \cup Range(nd)
      /\ Rows(e.checks) = Rows(d.checks) \cup Range(rc)
      /\ Rows(e.channels) = Rows(d.channels) \cup Range(nch)
      /\ Rows(e.rules) = Rows(d.rules) \cup Range(rr)
  <2>1. /\ e.devices = Added(d.devices, nd) /\ e.checks = Added(d.checks, rc)
        /\ e.channels = Added(d.channels, nch) /\ e.rules = Added(d.rules, rr)
    BY <1>2 DEF ImportsAll, nd, nc, nch, nr, rc, rr
  <2>2. QED
    BY <1>1, <1>3, <1>6, <1>7, <2>1, AddedRows
<1>9. \A i \in DOMAIN doc.devices : doc.devices[i].name \in Taken(e.devices)
  BY <1>4, <1>8 DEF Taken
<1>10. \A i \in DOMAIN doc.checks : Key(doc.checks[i]) \in {Key(c) : c \in Rows(e.checks)}
  BY <1>5, <1>6, <1>8
<1>11. \A i \in DOMAIN doc.channels : doc.channels[i].name \in Taken(e.channels)
  BY <1>4, <1>8 DEF Taken
<1>12. \A i \in DOMAIN doc.rules : doc.rules[i].name \in Taken(e.rules)
  BY <1>4, <1>7, <1>8 DEF Taken
<1>13. QED
  BY <1>9, <1>10, <1>11, <1>12 DEF HasAll, e

\* A database has all that it exports.
LEMMA ExportHasAll ==
    ASSUME NEW d \in Db, References(d)
    PROVE  HasAll(d, Export(d))
<1> DEFINE ds == InOrder(d.devices)
           cs == InOrder(d.checks)
           chs == InOrder(d.channels)
           rs == InOrder(d.rules)
           refs == DOMAIN d.devices \cup {NULL}
<1>1. Export(d) = [devices |-> Enabled(ds), checks |-> NamedRows(d, cs), channels |-> chs, rules |-> NamedRows(d, rs)]
  BY ExportIs
<1>2. /\ ds \in Seq(DeviceRow) /\ Range(ds) = Rows(d.devices)
      /\ chs \in Seq(ChannelRow) /\ Range(chs) = Rows(d.channels)
  BY OrderedRows DEF Db
<1>3. /\ cs \in Seq(CheckRow(refs)) /\ Range(cs) = Rows(d.checks)
      /\ rs \in Seq(RuleRow(refs)) /\ Range(rs) = Rows(d.rules)
  BY RefsTable, OrderedRows
<1> HIDE DEF ds, cs, chs, rs
<1>4. \A i \in DOMAIN Enabled(ds) : Enabled(ds)[i].name \in Taken(d.devices)
  <2>1. \A i \in DOMAIN ds : ds[i].name \in Taken(d.devices)
    BY <1>2 DEF Taken, Range
  <2>2. QED
    BY <1>2, <2>1, EnabledRows
<1>5. \A i \in DOMAIN chs : chs[i].name \in Taken(d.channels)
  BY <1>2 DEF Taken, Range
<1>6. \A i \in DOMAIN cs : Key(ByName(d, cs[i])) \in {Key(c) : c \in Rows(d.checks)}
  <2>1. \A i \in DOMAIN cs : cs[i] \in CheckRow(refs) /\ cs[i] \in Rows(d.checks)
    BY <1>3 DEF Range
  <2>2. \A i \in DOMAIN cs : Key(ByName(d, cs[i])) = Key(cs[i])
    BY <2>1, CheckNamed
  <2>3. QED
    BY <2>1, <2>2
<1>7. \A i \in DOMAIN rs : ByName(d, rs[i]).name \in Taken(d.rules)
  <2>1. \A i \in DOMAIN rs : rs[i] \in RuleRow(refs) /\ rs[i] \in Rows(d.rules)
    BY <1>3 DEF Range
  <2>2. \A i \in DOMAIN rs : ByName(d, rs[i]).name = rs[i].name
    BY <2>1, RuleNamed
  <2>3. QED
    BY <2>1, <2>2 DEF Taken
<1>8. QED
  BY <1>1, <1>4, <1>5, <1>6, <1>7 DEF HasAll, NamedRows

-----------------------------------------------------------------------------
(* The invariant, and what the requests do to the tables.                  *)

\* What a page shows of a secret: nothing of that of a device, and whether a channel has one.
Forms == {f \in [table: {"devices", "channels"}, id: Nat, key: {Blank, Mask}] :
            f.table = "devices" => f.key = Blank}

Inv ==
    /\ db \in Db /\ References(db)
    /\ backup \in Doc
    /\ form \in Forms \cup {NoForm}

\* The secrets of d that are others in e are among these.
SecretsAmong(d, e, keys) ==
    \A t \in {"devices", "channels"} : \A id \in DOMAIN d[t] \cap DOMAIN e[t] :
        e[t][id].key = d[t][id].key \/ e[t][id].key \in keys

\* A legal successor of d that a request with these secrets may lead to.
Follows(d, e, keys) == e \in Db /\ References(e) /\ SecretsAmong(d, e, keys)

LEMMA FollowsItself == ASSUME NEW d \in Db, References(d), NEW keys PROVE Follows(d, d, keys)
  BY DEF Follows, SecretsAmong

LEMMA DeviceChanged ==
    ASSUME NEW d \in Db, References(d), NEW id \in DOMAIN d.devices, NEW row \in DeviceRow,
           NEW keys, row.key \in {d.devices[id].key} \cup keys
    PROVE  Follows(d, [d EXCEPT !.devices = [d.devices EXCEPT ![id] = row]], keys)
<1> DEFINE t == [d.devices EXCEPT ![id] = row]
           e == [d EXCEPT !.devices = t]
<1>1. d.devices \in TableOf(DeviceRow)
  BY DEF Db
<1>2. t \in TableOf(DeviceRow) /\ DOMAIN t = DOMAIN d.devices
  BY <1>1, RowChanged
<1>3. t[id] = row /\ \A k \in DOMAIN t : k # id => t[k] = d.devices[k]
  BY <1>1, TableIs
<1> HIDE DEF t
<1>4. e \in Db /\ e.devices = t /\ e.checks = d.checks /\ e.channels = d.channels /\ e.rules = d.rules
  BY <1>2 DEF Db
<1> HIDE DEF e
<1>5. SecretsAmong(d, e, keys)
  BY <1>2, <1>3, <1>4 DEF SecretsAmong
<1>6. References(e)
  BY <1>2, <1>4 DEF References
<1>7. QED
  BY <1>4, <1>5, <1>6 DEF Follows, e, t

LEMMA ChannelChanged ==
    ASSUME NEW d \in Db, References(d), NEW id \in DOMAIN d.channels, NEW row \in ChannelRow,
           NEW keys, row.key \in {d.channels[id].key} \cup keys
    PROVE  Follows(d, [d EXCEPT !.channels = [d.channels EXCEPT ![id] = row]], keys)
<1> DEFINE t == [d.channels EXCEPT ![id] = row]
           e == [d EXCEPT !.channels = t]
<1>1. d.channels \in TableOf(ChannelRow)
  BY DEF Db
<1>2. t \in TableOf(ChannelRow) /\ DOMAIN t = DOMAIN d.channels
  BY <1>1, RowChanged
<1>3. t[id] = row /\ \A k \in DOMAIN t : k # id => t[k] = d.channels[k]
  BY <1>1, TableIs
<1> HIDE DEF t
<1>4. e \in Db /\ e.channels = t /\ e.checks = d.checks /\ e.devices = d.devices /\ e.rules = d.rules
  BY <1>2 DEF Db
<1> HIDE DEF e
<1>5. SecretsAmong(d, e, keys)
  BY <1>2, <1>3, <1>4 DEF SecretsAmong
<1>6. References(e)
  BY <1>4 DEF References
<1>7. QED
  BY <1>4, <1>5, <1>6 DEF Follows, e, t

\* Other checks or rules, of devices there are.
LEMMA ChecksChanged ==
    ASSUME NEW d \in Db, References(d), NEW t \in TableOf(CheckRow(Nat)), NEW keys,
           \A c \in DOMAIN t : t[c].device \in DOMAIN d.devices \cup {NULL}
    PROVE  Follows(d, [d EXCEPT !.checks = t], keys)
<1> DEFINE e == [d EXCEPT !.checks = t]
<1>1. e \in Db /\ e.devices = d.devices /\ e.checks = t /\ e.channels = d.channels /\ e.rules = d.rules
  BY DEF Db
<1> HIDE DEF e
<1>2. References(e) /\ SecretsAmong(d, e, keys)
  BY <1>1 DEF References, SecretsAmong
<1>3. QED
  BY <1>1, <1>2 DEF Follows, e

LEMMA RulesChanged ==
    ASSUME NEW d \in Db, References(d), NEW t \in TableOf(RuleRow(Nat)), NEW keys,
           \A r \in DOMAIN t : t[r].device \in DOMAIN d.devices \cup {NULL}
    PROVE  Follows(d, [d EXCEPT !.rules = t], keys)
<1> DEFINE e == [d EXCEPT !.rules = t]
<1>1. e \in Db /\ e.devices = d.devices /\ e.rules = t /\ e.channels = d.channels /\ e.checks = d.checks
  BY DEF Db
<1> HIDE DEF e
<1>2. References(e) /\ SecretsAmong(d, e, keys)
  BY <1>1 DEF References, SecretsAmong
<1>3. QED
  BY <1>1, <1>2 DEF Follows, e

\* One row more.
LEMMA RowAdded ==
    ASSUME NEW R, NEW t \in TableOf(R), NEW row \in R
    PROVE  /\ Added(t, <<row>>) \in TableOf(R)
           /\ DOMAIN t \subseteq DOMAIN Added(t, <<row>>)
           /\ \A id \in DOMAIN t : Added(t, <<row>>)[id] = t[id]
           /\ \A id \in DOMAIN Added(t, <<row>>) \ DOMAIN t : Added(t, <<row>>)[id] = row
           /\ FreshId(t) \in DOMAIN Added(t, <<row>>)
<1>1. <<row>> \in Seq(R) /\ DOMAIN <<row>> = {1} /\ (<<row>>)[1] = row /\ Len(<<row>>) = 1
  OBVIOUS
<1>2. \A id \in DOMAIN Added(t, <<row>>) \ DOMAIN t : Added(t, <<row>>)[id] = row
  <2>1. \A id \in DOMAIN Added(t, <<row>>) \ DOMAIN t :
            \E i \in DOMAIN <<row>> : Added(t, <<row>>)[id] = (<<row>>)[i]
    BY <1>1, AddedRows
  <2>2. QED
    BY <1>1, <2>1
<1>3. FreshId(t) \in DOMAIN Added(t, <<row>>)
  <2> DEFINE m == FreshId(t) - 1
  <2>1. DOMAIN Added(t, <<row>>) = DOMAIN t \cup m + 1..m + Len(<<row>>)
    BY DEF Added
  <2>2. FreshId(t) \in Nat
    BY FreshIds DEF Ids
  <2>3. FreshId(t) \in m + 1..m + Len(<<row>>)
    BY <1>1, <2>2
  <2>4. QED
    BY <2>1, <2>3
<1>4. QED
  BY <1>1, <1>2, <1>3, AddedRows

LEMMA ChannelInserted ==
    ASSUME NEW d \in Db, References(d), NEW row \in ChannelRow, NEW keys
    PROVE  Follows(d, Insert(d, "channels", row), keys)
<1> DEFINE e == Insert(d, "channels", row)
<1>1. d.channels \in TableOf(ChannelRow) /\ <<row>> \in Seq(ChannelRow)
  BY DEF Db
<1>2. /\ e \in Db /\ e.channels = Added(d.channels, <<row>>)
      /\ e.devices = d.devices /\ e.checks = d.checks /\ e.rules = d.rules
  BY <1>1, InsertedChannels DEF Insert
<1>3. \A id \in DOMAIN d.channels : e.channels[id] = d.channels[id]
  BY <1>1, <1>2, RowAdded
<1> HIDE DEF e
<1>4. References(e) /\ SecretsAmong(d, e, keys)
  BY <1>2, <1>3 DEF References, SecretsAmong
<1>5. QED
  BY <1>2, <1>4 DEF Follows, e

LEMMA DeviceInserted ==
    ASSUME NEW d \in Db, References(d), NEW row \in DeviceRow, NEW keys
    PROVE  /\ Follows(d, Insert(d, "devices", row), keys)
           /\ FreshId(d.devices) \in DOMAIN Insert(d, "devices", row).devices
           /\ FreshId(d.devices) \in Nat
           /\ Insert(d, "devices", row).channels = d.channels
<1> DEFINE e == Insert(d, "devices", row)
<1>1. d.devices \in TableOf(DeviceRow) /\ <<row>> \in Seq(DeviceRow)
  BY DEF Db
<1>2. /\ e \in Db /\ e.devices = Added(d.devices, <<row>>)
      /\ e.channels = d.channels /\ e.checks = d.checks /\ e.rules = d.rules
  BY <1>1, InsertedDevices DEF Insert
<1>3. /\ DOMAIN d.devices \subseteq DOMAIN e.devices
      /\ \A id \in DOMAIN d.devices : e.devices[id] = d.devices[id]
      /\ FreshId(d.devices) \in DOMAIN e.devices
  BY <1>1, <1>2, RowAdded
<1>4. FreshId(d.devices) \in Nat
  BY <1>1, FreshIds DEF Ids
<1> HIDE DEF e
<1>5. References(e) /\ SecretsAmong(d, e, keys)
  BY <1>2, <1>3 DEF References, SecretsAmong
<1>6. QED
  BY <1>2, <1>3, <1>4, <1>5 DEF Follows, e

LEMMA CheckInserted ==
    ASSUME NEW d \in Db, References(d), NEW row \in CheckRow(Nat), NEW keys,
           row.device \in DOMAIN d.devices \cup {NULL}
    PROVE  Follows(d, Insert(d, "checks", row), keys)
<1> DEFINE t == Added(d.checks, <<row>>)
<1>1. d.checks \in TableOf(CheckRow(Nat))
  BY DEF Db
<1>2. /\ t \in TableOf(CheckRow(Nat))
      /\ \A id \in DOMAIN d.checks : t[id] = d.checks[id]
      /\ \A id \in DOMAIN t \ DOMAIN d.checks : t[id] = row
  BY <1>1, RowAdded
<1> HIDE DEF t
<1>3. \A c \in DOMAIN t : t[c].device \in DOMAIN d.devices \cup {NULL}
  BY <1>2 DEF References
<1>4. Follows(d, [d EXCEPT !.checks = t], keys)
  BY <1>2, <1>3, ChecksChanged
<1>5. QED
  BY <1>4 DEF Insert, InsertAll, t

LEMMA RuleInserted ==
    ASSUME NEW d \in Db, References(d), NEW row \in RuleRow(Nat), NEW keys,
           row.device \in DOMAIN d.devices \cup {NULL}
    PROVE  Follows(d, Insert(d, "rules", row), keys) /\ Insert(d, "rules", row).channels = d.channels
<1> DEFINE t == Added(d.rules, <<row>>)
<1>1. d.rules \in TableOf(RuleRow(Nat))
  BY DEF Db
<1>2. /\ t \in TableOf(RuleRow(Nat))
      /\ \A id \in DOMAIN d.rules : t[id] = d.rules[id]
      /\ \A id \in DOMAIN t \ DOMAIN d.rules : t[id] = row
  BY <1>1, RowAdded
<1> HIDE DEF t
<1>3. \A r \in DOMAIN t : t[r].device \in DOMAIN d.devices \cup {NULL}
  BY <1>2 DEF References
<1>4. Follows(d, [d EXCEPT !.rules = t], keys)
  BY <1>2, <1>3, RulesChanged
<1>5. [d EXCEPT !.rules = t].channels = d.channels
  BY DEF Db
<1>6. QED
  BY <1>4, <1>5 DEF Insert, InsertAll, t

\* A deletion takes the checks and the rules of a device along.
LEMMA DeviceGone ==
    ASSUME NEW d \in Db, References(d), NEW id, NEW keys, NEW gone, NEW lost,
           \A c \in DOMAIN d.checks : c \in gone <=> d.checks[c].device = id,
           \A r \in DOMAIN d.rules : r \in lost <=> d.rules[r].device = id
    PROVE  Follows(d, [devices |-> Without(d.devices, {id}), checks |-> Without(d.checks, gone),
                       channels |-> d.channels, rules |-> Without(d.rules, lost)], keys)
<1> DEFINE ds == Without(d.devices, {id})
           cs == Without(d.checks, gone)
           rs == Without(d.rules, lost)
           e == [devices |-> ds, checks |-> cs, channels |-> d.channels, rules |-> rs]
<1>1. /\ d.devices \in TableOf(DeviceRow) /\ d.checks \in TableOf(CheckRow(Nat))
      /\ d.channels \in TableOf(ChannelRow) /\ d.rules \in TableOf(RuleRow(Nat))
  BY DEF Db
<1>2. /\ ds \in TableOf(DeviceRow) /\ DOMAIN ds = DOMAIN d.devices \ {id}
      /\ \A k \in DOMAIN d.devices \ {id} : ds[k] = d.devices[k]
  BY <1>1, RowsWithout, RowsLeft
<1>3. /\ cs \in TableOf(CheckRow(Nat)) /\ DOMAIN cs = DOMAIN d.checks \ gone
      /\ \A k \in DOMAIN d.checks \ gone : cs[k] = d.checks[k]
  BY <1>1, RowsWithout, RowsLeft
<1>4. /\ rs \in TableOf(RuleRow(Nat)) /\ DOMAIN rs = DOMAIN d.rules \ lost
      /\ \A k \in DOMAIN d.rules \ lost : rs[k] = d.rules[k]
  BY <1>1, RowsWithout, RowsLeft
<1> HIDE DEF ds, cs, rs
<1>5. e \in Db
  BY <1>1, <1>2, <1>3, <1>4 DEF Db
<1>6. \A c \in DOMAIN cs : cs[c].device \in DOMAIN ds \cup {NULL}
  BY <1>2, <1>3 DEF References
<1>7. \A r \in DOMAIN rs : rs[r].device \in DOMAIN ds \cup {NULL}
  BY <1>2, <1>4 DEF References
<1>8. References(e)
  BY <1>6, <1>7 DEF References
<1>9. SecretsAmong(d, e, keys)
  BY <1>2 DEF SecretsAmong
<1>10. QED
  BY <1>5, <1>8, <1>9 DEF Follows, ds, cs, rs

LEMMA DeviceDeleted ==
    ASSUME NEW d \in Db, References(d), NEW id, NEW keys, NEW e,
           e = [d EXCEPT !.devices = Without(@, {id}),
                         !.checks = Without(@, {c \in DOMAIN @ : @[c].device = id}),
                         !.rules = Without(@, {r \in DOMAIN @ : @[r].device = id})]
    PROVE  Follows(d, e, keys)
<1> DEFINE gone == {c \in DOMAIN d.checks : d.checks[c].device = id}
           lost == {r \in DOMAIN d.rules : d.rules[r].device = id}
<1>1. e = [devices |-> Without(d.devices, {id}), checks |-> Without(d.checks, gone),
           channels |-> d.channels, rules |-> Without(d.rules, lost)]
  BY DEF Db
<1>2. /\ \A c \in DOMAIN d.checks : c \in gone <=> d.checks[c].device = id
      /\ \A r \in DOMAIN d.rules : r \in lost <=> d.rules[r].device = id
  OBVIOUS
<1> HIDE DEF gone, lost
<1>3. Follows(d, [devices |-> Without(d.devices, {id}), checks |-> Without(d.checks, gone),
                  channels |-> d.channels, rules |-> Without(d.rules, lost)], keys)
  BY <1>2, DeviceGone
<1>4. QED
  BY <1>1, <1>3

LEMMA ChannelDeleted ==
    ASSUME NEW d \in Db, References(d), NEW id, NEW keys
    PROVE  Follows(d, [d EXCEPT !.channels = Without(@, {id})], keys)
<1> DEFINE t == Without(d.channels, {id})
           e == [d EXCEPT !.channels = t]
<1>1. d.channels \in TableOf(ChannelRow)
  BY DEF Db
<1>2. /\ t \in TableOf(ChannelRow) /\ DOMAIN t = DOMAIN d.channels \ {id}
      /\ \A k \in DOMAIN d.channels \ {id} : t[k] = d.channels[k]
  BY <1>1, RowsWithout, RowsLeft
<1> HIDE DEF t
<1>3. e \in Db /\ e.devices = d.devices /\ e.checks = d.checks /\ e.channels = t /\ e.rules = d.rules
  BY <1>2 DEF Db
<1>4. References(e) /\ SecretsAmong(d, e, keys)
  BY <1>2, <1>3 DEF References, SecretsAmong
<1>5. QED
  BY <1>3, <1>4 DEF Follows, e, t

-----------------------------------------------------------------------------
(* The requests, one by one.                                               *)

LEMMA MaskIsNotBlank == Blank # Mask
<1>1. Blank = Mask => {Blank, Mask} = {Blank}
  OBVIOUS
<1>2. Cardinality({Blank}) = 1
  BY FS_Singleton
<1>3. QED
  BY <1>1, <1>2, NamesAssumption

LEMMA StartFollows == ASSUME Inv, Start PROVE Follows(db, db', sent')
<1> DEFINE rule == [name |-> DefaultRule, device |-> NULL, channels |-> {}]
           channel == [name |-> Log, key |-> Blank]
           d == IF db.rules = NoTable THEN Insert(db, "rules", rule) ELSE db
<1>1. db \in Db /\ References(db)
  BY DEF Inv
<1>2. rule \in RuleRow(Nat) /\ channel \in ChannelRow /\ rule.device = NULL
  BY DEF RuleRow, ChannelRow, NULL, Keys
<1> HIDE DEF rule, channel
<1>3. Follows(db, d, sent') /\ d.channels = db.channels
  BY <1>1, <1>2, RuleInserted, FollowsItself
<1>4. d.devices = db.devices
  <2>1. Insert(db, "rules", rule).devices = db.devices
    BY <1>1 DEF Insert, InsertAll, Db
  <2>2. QED
    BY <2>1
<1>5. db' = IF db.channels = NoTable THEN Insert(d, "channels", channel) ELSE d
  BY DEF Start, rule, channel
<1> HIDE DEF d
<1>6. d \in Db /\ References(d)
  BY <1>3 DEF Follows
<1>7. Follows(d, db', sent')
  <2>1. Follows(d, Insert(d, "channels", channel), sent')
    BY <1>2, <1>6, ChannelInserted
  <2>2. Follows(d, d, sent')
    BY <1>6, FollowsItself
  <2>3. QED
    BY <1>5, <2>1, <2>2
<1>8. SecretsAmong(db, db', sent')
  BY <1>3, <1>4, <1>7 DEF Follows, SecretsAmong
<1>9. QED
  BY <1>7, <1>8 DEF Follows

LEMMA CreateDeviceFollows ==
    ASSUME Inv, NEW name \in Names, NEW host \in Hosts, NEW ping \in BOOLEAN, CreateDevice(name, host, ping)
    PROVE  Follows(db, db', sent')
<1> DEFINE row == [name |-> name, host |-> host, key |-> Blank, custom |-> {}, off |-> {}]
           check == [device |-> FreshId(db.devices), name |-> <<OfPing, name>>, target |-> host,
                     type |-> "icmp", port |-> FALSE]
           d == Insert(db, "devices", row)
<1>1. db \in Db /\ References(db)
  BY DEF Inv
<1>2. row \in DeviceRow
  BY DEF DeviceRow, DeviceNames, AnyHost, Keys
<1>3. db' = IF ping THEN Insert(d, "checks", check) ELSE d
  BY DEF CreateDevice, Becomes
<1> HIDE DEF row
<1>4. /\ Follows(db, d, sent') /\ FreshId(db.devices) \in DOMAIN d.devices
      /\ FreshId(db.devices) \in Nat /\ d.channels = db.channels
  BY <1>1, <1>2, DeviceInserted
<1> HIDE DEF d
<1>5. check \in CheckRow(Nat) /\ check.device \in DOMAIN d.devices
  BY <1>4 DEF CheckRow, AnyHost
<1> HIDE DEF check
<1>6. d \in Db /\ References(d)
  BY <1>4 DEF Follows
<1>7. CASE ~ping
  BY <1>3, <1>4, <1>7
<1>8. CASE ping
  <2>1. Follows(d, db', sent')
    BY <1>3, <1>5, <1>6, <1>8, CheckInserted
  <2>2. db'.devices = d.devices /\ db'.channels = d.channels
    BY <1>3, <1>6, <1>8 DEF Insert, InsertAll, Db
  <2>3. SecretsAmong(db, db', sent')
    BY <1>4, <2>2 DEF Follows, SecretsAmong
  <2>4. QED
    BY <2>1, <2>3 DEF Follows
<1>9. QED
  BY <1>7, <1>8

LEMMA RenameDeviceFollows ==
    ASSUME Inv, NEW id \in DOMAIN db.devices, NEW name \in Names \cup {Blank}, RenameDevice(id, name)
    PROVE  Follows(db, db', sent')
<1> DEFINE row == [db.devices[id] EXCEPT !.name = name]
<1>1. db \in Db /\ References(db) /\ db.devices[id] \in DeviceRow
  BY DbRows DEF Inv
<1>2. row \in DeviceRow /\ row.key = db.devices[id].key
  BY <1>1 DEF DeviceRow, DeviceNames
<1>3. db' = [db EXCEPT !.devices = [db.devices EXCEPT ![id] = row]]
  BY DEF RenameDevice, Becomes
<1> HIDE DEF row
<1>4. QED
  BY <1>1, <1>2, <1>3, DeviceChanged

LEMMA RekeyDeviceFollows ==
    ASSUME Inv, NEW id \in DOMAIN db.devices, NEW key \in Secrets \cup {Blank}, RekeyDevice(id, key)
    PROVE  Follows(db, db', sent')
<1> DEFINE row == [db.devices[id] EXCEPT !.key = Kept(key, db.devices[id].key)]
<1>1. db \in Db /\ References(db) /\ db.devices[id] \in DeviceRow
  BY DbRows DEF Inv
<1>2. sent' = {key} \ {Blank}
  BY DEF RekeyDevice, Becomes, Request
<1>3. row \in DeviceRow /\ row.key \in {db.devices[id].key} \cup sent'
  BY <1>1, <1>2 DEF DeviceRow, Keys, Kept
<1>4. db' = [db EXCEPT !.devices = [db.devices EXCEPT ![id] = row]]
  BY DEF RekeyDevice, Becomes
<1> HIDE DEF row
<1>5. QED
  BY <1>1, <1>3, <1>4, DeviceChanged

LEMMA MetricFollows ==
    ASSUME Inv, NEW id \in DOMAIN db.devices, NEW metric \in Metrics,
           \/ AddCustomMetric(id, metric) \/ DeleteMetric(id, metric)
           \/ \E enabled \in BOOLEAN : ToggleMetric(id, metric, enabled)
    PROVE  Follows(db, db', sent')
<1> DEFINE row(metrics, off) == [db.devices[id] EXCEPT !.custom = metrics, !.off = off]
           becomes(metrics, off) == db' = [db EXCEPT !.devices = [db.devices EXCEPT ![id] = row(metrics, off)]]
           custom == db.devices[id].custom
           disabled == db.devices[id].off
<1>1. db \in Db /\ References(db) /\ db.devices[id] \in DeviceRow
  BY DbRows DEF Inv
<1>2. \A metrics, off \in SUBSET Metrics :
        row(metrics, off) \in DeviceRow /\ row(metrics, off).key = db.devices[id].key
  BY <1>1 DEF DeviceRow
<1>3. custom \in SUBSET Metrics /\ disabled \in SUBSET Metrics
  BY <1>1 DEF DeviceRow
<1>4. CASE AddCustomMetric(id, metric)
  <2>1. becomes(custom \cup {metric}, disabled)
    BY <1>1, <1>4 DEF AddCustomMetric, Becomes, Db, DeviceRow
  <2>2. QED
    BY <1>1, <1>2, <1>3, <2>1, DeviceChanged
<1>5. CASE DeleteMetric(id, metric)
  <2>1. becomes(custom \ {metric}, disabled \ {metric})
    BY <1>1, <1>5 DEF DeleteMetric, Becomes, Db, DeviceRow
  <2>2. QED
    BY <1>1, <1>2, <1>3, <2>1, DeviceChanged
<1>6. ASSUME NEW enabled \in BOOLEAN, ToggleMetric(id, metric, enabled)
      PROVE  Follows(db, db', sent')
  <2>1. becomes(custom, IF enabled THEN disabled \ {metric} ELSE disabled \cup {metric})
    BY <1>1, <1>6 DEF ToggleMetric, Becomes, Db, DeviceRow
  <2>2. QED
    BY <1>1, <1>2, <1>3, <2>1, DeviceChanged
<1>7. QED
  BY <1>4, <1>5, <1>6

\* The device moves, and with it the checks that pointed at it.
LEMMA MoveDeviceFollows ==
    ASSUME Inv, NEW id \in DOMAIN db.devices, NEW host \in Hosts \cup {Blank}, MoveDevice(id, host)
    PROVE  Follows(db, db', sent')
<1> DEFINE old == db.devices[id].host
           follows(check) == check.device = id /\ check.target = old
           row == [db.devices[id] EXCEPT !.host = host]
           checks == [c \in DOMAIN db.checks |->
                         IF follows(db.checks[c]) THEN [db.checks[c] EXCEPT !.target = host]
                         ELSE db.checks[c]]
           d == [db EXCEPT !.devices = [db.devices EXCEPT ![id] = row]]
<1>1. db \in Db /\ References(db) /\ db.devices[id] \in DeviceRow
  BY DbRows DEF Inv
<1>2. row \in DeviceRow /\ row.key = db.devices[id].key
  BY <1>1 DEF DeviceRow, AnyHost
<1>3. db' = [d EXCEPT !.checks = checks]
  BY <1>1 DEF MoveDevice, Becomes, Db
<1>4. /\ \A c \in DOMAIN db.checks : /\ checks[c] \in CheckRow(Nat)
                                     /\ checks[c].device = db.checks[c].device
      /\ DOMAIN checks = DOMAIN db.checks
  <2>1. \A c \in DOMAIN db.checks : db.checks[c] \in CheckRow(Nat)
    BY <1>1, DbRows
  <2>2. \A check \in CheckRow(Nat) : /\ [check EXCEPT !.target = host] \in CheckRow(Nat)
                                     /\ [check EXCEPT !.target = host].device = check.device
    BY DEF CheckRow, AnyHost
  <2>3. QED
    BY <2>1, <2>2
<1> HIDE DEF row, checks
<1>5. Follows(db, d, sent')
  BY <1>1, <1>2, DeviceChanged
<1>6. d.checks = db.checks /\ d.channels = db.channels
  BY <1>1 DEF Db
<1> HIDE DEF d
<1>7. d \in Db /\ References(d)
  BY <1>5 DEF Follows
<1>8. checks \in TableOf(CheckRow(Nat))
  <2>1. checks \in [DOMAIN db.checks -> CheckRow(Nat)]
    BY <1>4 DEF checks
  <2>2. db.checks \in TableOf(CheckRow(Nat))
    BY <1>1 DEF Db
  <2>3. DOMAIN db.checks \in SUBSET Ids /\ IsFiniteSet(DOMAIN db.checks)
    BY <2>2, TableIs
  <2>4. QED
    BY <1>4, <2>1, <2>3, TableIs
<1>9. \A c \in DOMAIN checks : checks[c].device \in DOMAIN d.devices \cup {NULL}
  BY <1>4, <1>6, <1>7 DEF References
<1>10. Follows(d, db', sent')
  BY <1>3, <1>7, <1>8, <1>9, ChecksChanged
<1>11. db'.devices = d.devices /\ db'.channels = d.channels
  BY <1>3, <1>7 DEF Db
<1>12. SecretsAmong(db, db', sent')
  BY <1>5, <1>11 DEF Follows, SecretsAmong
<1>13. QED
  BY <1>10, <1>12 DEF Follows

LEMMA DeleteDeviceFollows ==
    ASSUME Inv, NEW id \in DOMAIN db.devices, DeleteDevice(id)
    PROVE  Follows(db, db', sent')
<1>1. db \in Db /\ References(db)
  BY DEF Inv
<1>2. db' = [db EXCEPT !.devices = Without(@, {id}),
                       !.checks = Without(@, {c \in DOMAIN @ : @[c].device = id}),
                       !.rules = Without(@, {r \in DOMAIN @ : @[r].device = id})]
  BY DEF DeleteDevice, Becomes
<1>3. QED
  BY <1>1, <1>2, DeviceDeleted

LEMMA DeviceRequestFollows == ASSUME Inv, DeviceRequest PROVE Follows(db, db', sent')
<1>1. CASE \E name \in Names, host \in Hosts, ping \in BOOLEAN : CreateDevice(name, host, ping)
  BY <1>1, CreateDeviceFollows
<1>2. ASSUME NEW id \in DOMAIN db.devices,
             \/ \E name \in Patched \cap (Names \cup {Blank}) : RenameDevice(id, name)
             \/ \E host \in Patched \cap (Hosts \cup {Blank}) : MoveDevice(id, host)
             \/ \E key \in Secrets \cup {Blank} : RekeyDevice(id, key)
             \/ DeleteDevice(id)
             \/ \E metric \in Metrics :
                   \/ AddCustomMetric(id, metric) \/ DeleteMetric(id, metric)
                   \/ \E enabled \in BOOLEAN : ToggleMetric(id, metric, enabled)
      PROVE  Follows(db, db', sent')
  BY <1>2, RenameDeviceFollows, MoveDeviceFollows, RekeyDeviceFollows, DeleteDeviceFollows, MetricFollows
<1>3. QED
  BY <1>1, <1>2 DEF DeviceRequest

LEMMA CheckRequestFollows == ASSUME Inv, CheckRequest PROVE Follows(db, db', sent')
<1>1. db \in Db /\ References(db) /\ db.checks \in TableOf(CheckRow(Nat))
  BY DEF Inv, Db
<1>2. CASE \E device \in DOMAIN db.devices \cup {NULL}, name \in CheckNames, host \in Hosts, tcp \in BOOLEAN :
              CreateCheck([device |-> device, name |-> name, target |-> host,
                           type |-> IF tcp THEN "tcp" ELSE "icmp", port |-> tcp])
  <2>1. PICK device \in DOMAIN db.devices \cup {NULL}, name \in CheckNames, host \in Hosts, tcp \in BOOLEAN :
              CreateCheck([device |-> device, name |-> name, target |-> host,
                           type |-> IF tcp THEN "tcp" ELSE "icmp", port |-> tcp])
    BY <1>2
  <2> DEFINE row == [device |-> device, name |-> name, target |-> host,
                     type |-> IF tcp THEN "tcp" ELSE "icmp", port |-> tcp]
  <2>2. device \in Nat
    BY <1>1, DbRows DEF NULL
  <2>3. row \in CheckRow(Nat) /\ row.device \in DOMAIN db.devices \cup {NULL}
    BY <2>2 DEF CheckRow, AnyHost
  <2>4. db' = Insert(db, "checks", row)
    BY <2>1 DEF CreateCheck, Becomes
  <2> HIDE DEF row
  <2>5. QED
    BY <1>1, <2>3, <2>4, CheckInserted
<1>3. ASSUME NEW id \in DOMAIN db.checks, NEW row \in CheckRow(Nat), row.device = db.checks[id].device,
             db' = [db EXCEPT !.checks = [db.checks EXCEPT ![id] = row]]
      PROVE  Follows(db, db', sent')
  <2> DEFINE t == [db.checks EXCEPT ![id] = row]
  <2>1. t \in TableOf(CheckRow(Nat)) /\ DOMAIN t = DOMAIN db.checks
    BY <1>1, RowChanged
  <2>2. \A c \in DOMAIN db.checks : t[c].device = db.checks[c].device
    BY <1>1, <1>3, TableIs
  <2>3. db' = [db EXCEPT !.checks = t]
    BY <1>3
  <2> HIDE DEF t
  <2>4. \A c \in DOMAIN t : t[c].device \in DOMAIN db.devices \cup {NULL}
    BY <1>1, <2>1, <2>2 DEF References
  <2>5. QED
    BY <1>1, <2>1, <2>3, <2>4, ChecksChanged
<1>4. ASSUME NEW id \in DOMAIN db.checks, NEW host \in Hosts \cup {Blank}, RetargetCheck(id, host)
      PROVE  Follows(db, db', sent')
  <2> DEFINE row == [db.checks[id] EXCEPT !.target = host]
  <2>1. row \in CheckRow(Nat) /\ row.device = db.checks[id].device
    BY <1>1, DbRows DEF CheckRow, AnyHost
  <2>2. db' = [db EXCEPT !.checks = [db.checks EXCEPT ![id] = row]]
    BY <1>4 DEF RetargetCheck, Becomes
  <2> HIDE DEF row
  <2>3. QED
    BY <1>3, <2>1, <2>2
<1>5. ASSUME NEW id \in DOMAIN db.checks, UnsetPort(id) PROVE Follows(db, db', sent')
  <2> DEFINE row == [db.checks[id] EXCEPT !.port = FALSE]
  <2>1. row \in CheckRow(Nat) /\ row.device = db.checks[id].device
    BY <1>1, DbRows DEF CheckRow
  <2>2. db' = [db EXCEPT !.checks = [db.checks EXCEPT ![id] = row]]
    BY <1>5 DEF UnsetPort, Becomes
  <2> HIDE DEF row
  <2>3. QED
    BY <1>3, <2>1, <2>2
<1>6. ASSUME NEW id \in DOMAIN db.checks, DeleteCheck(id) PROVE Follows(db, db', sent')
  <2> DEFINE t == Without(db.checks, {id})
  <2>1. t \in TableOf(CheckRow(Nat))
    BY <1>1, RowsWithout
  <2>2. DOMAIN t = DOMAIN db.checks \ {id} /\ \A c \in DOMAIN db.checks \ {id} : t[c] = db.checks[c]
    BY RowsLeft
  <2>3. db' = [db EXCEPT !.checks = t]
    BY <1>6 DEF DeleteCheck, Becomes
  <2> HIDE DEF t
  <2>4. QED
    BY <1>1, <2>1, <2>2, <2>3, ChecksChanged DEF References
<1>7. QED
  BY <1>2, <1>4, <1>5, <1>6 DEF CheckRequest

LEMMA RuleRequestFollows ==
    ASSUME Inv,
           \/ \E device \in DOMAIN db.devices \cup {NULL}, name \in RuleNames, channels \in SUBSET DOMAIN db.channels :
                 CreateRule([name |-> name, device |-> device, channels |-> channels])
           \/ \E id \in DOMAIN db.rules :
                 \/ \E name \in Patched \cap (RuleNames \cup {Blank}) : RenameRule(id, name)
                 \/ \E channels \in SUBSET DOMAIN db.channels : DirectRule(id, channels)
                 \/ DeleteRule(id)
    PROVE  Follows(db, db', sent')
<1>1. db \in Db /\ References(db) /\ db.rules \in TableOf(RuleRow(Nat))
  BY DEF Inv, Db
<1>2. \A channels \in SUBSET DOMAIN db.channels : channels \in SUBSET Nat
  BY <1>1, DbRows
<1>3. ASSUME NEW device \in DOMAIN db.devices \cup {NULL}, NEW name \in RuleNames,
             NEW channels \in SUBSET DOMAIN db.channels,
             CreateRule([name |-> name, device |-> device, channels |-> channels])
      PROVE  Follows(db, db', sent')
  <2> DEFINE row == [name |-> name, device |-> device, channels |-> channels]
  <2>1. device \in Nat
    BY <1>1, DbRows DEF NULL
  <2>2. row \in RuleRow(Nat) /\ row.device \in DOMAIN db.devices \cup {NULL}
    BY <1>2, <2>1 DEF RuleRow
  <2>3. db' = Insert(db, "rules", row)
    BY <1>3 DEF CreateRule, Becomes
  <2> HIDE DEF row
  <2>4. QED
    BY <1>1, <2>2, <2>3, RuleInserted
<1>4. ASSUME NEW id \in DOMAIN db.rules, NEW row \in RuleRow(Nat), row.device = db.rules[id].device,
             db' = [db EXCEPT !.rules = [db.rules EXCEPT ![id] = row]]
      PROVE  Follows(db, db', sent')
  <2> DEFINE t == [db.rules EXCEPT ![id] = row]
  <2>1. t \in TableOf(RuleRow(Nat)) /\ DOMAIN t = DOMAIN db.rules
    BY <1>1, RowChanged
  <2>2. \A c \in DOMAIN db.rules : t[c].device = db.rules[c].device
    BY <1>1, <1>4, TableIs
  <2>3. db' = [db EXCEPT !.rules = t]
    BY <1>4
  <2> HIDE DEF t
  <2>4. \A c \in DOMAIN t : t[c].device \in DOMAIN db.devices \cup {NULL}
    BY <1>1, <2>1, <2>2 DEF References
  <2>5. QED
    BY <1>1, <2>1, <2>3, <2>4, RulesChanged
<1>5. ASSUME NEW id \in DOMAIN db.rules, NEW name \in RuleNames \cup {Blank}, RenameRule(id, name)
      PROVE  Follows(db, db', sent')
  <2> DEFINE row == [db.rules[id] EXCEPT !.name = name]
  <2>1. row \in RuleRow(Nat) /\ row.device = db.rules[id].device
    BY <1>1, DbRows DEF RuleRow
  <2>2. db' = [db EXCEPT !.rules = [db.rules EXCEPT ![id] = row]]
    BY <1>5 DEF RenameRule, Becomes
  <2> HIDE DEF row
  <2>3. QED
    BY <1>4, <2>1, <2>2
<1>6. ASSUME NEW id \in DOMAIN db.rules, NEW channels \in SUBSET DOMAIN db.channels, DirectRule(id, channels)
      PROVE  Follows(db, db', sent')
  <2> DEFINE row == [db.rules[id] EXCEPT !.channels = channels]
  <2>1. row \in RuleRow(Nat) /\ row.device = db.rules[id].device
    BY <1>1, <1>2, DbRows DEF RuleRow
  <2>2. db' = [db EXCEPT !.rules = [db.rules EXCEPT ![id] = row]]
    BY <1>6 DEF DirectRule, Becomes
  <2> HIDE DEF row
  <2>3. QED
    BY <1>4, <2>1, <2>2
<1>7. ASSUME NEW id \in DOMAIN db.rules, DeleteRule(id) PROVE Follows(db, db', sent')
  <2> DEFINE t == Without(db.rules, {id})
  <2>1. t \in TableOf(RuleRow(Nat))
    BY <1>1, RowsWithout
  <2>2. DOMAIN t = DOMAIN db.rules \ {id} /\ \A c \in DOMAIN db.rules \ {id} : t[c] = db.rules[c]
    BY RowsLeft
  <2>3. db' = [db EXCEPT !.rules = t]
    BY <1>7 DEF DeleteRule, Becomes
  <2> HIDE DEF t
  <2>4. QED
    BY <1>1, <2>1, <2>2, <2>3, RulesChanged DEF References
<1>8. QED
  BY <1>3, <1>5, <1>6, <1>7

LEMMA ChannelRequestFollows ==
    ASSUME Inv,
           \/ \E name \in Names, key \in Secrets \cup {Blank} : CreateChannel(name, key)
           \/ \E id \in DOMAIN db.channels :
                 \/ \E name \in Patched \cap (Names \cup {Blank}) : RenameChannel(id, name)
                 \/ \E key \in Secrets \cup {Blank} : RekeyChannel(id, key)
                 \/ DeleteChannel(id)
    PROVE  Follows(db, db', sent')
<1>1. db \in Db /\ References(db)
  BY DEF Inv
<1>2. ASSUME NEW name \in Names, NEW key \in Secrets \cup {Blank}, CreateChannel(name, key)
      PROVE  Follows(db, db', sent')
  <2>1. [name |-> name, key |-> key] \in ChannelRow
    BY DEF ChannelRow, Keys
  <2>2. db' = Insert(db, "channels", [name |-> name, key |-> key])
    BY <1>2 DEF CreateChannel, Becomes
  <2>3. QED
    BY <1>1, <2>1, <2>2, ChannelInserted
<1>3. ASSUME NEW id \in DOMAIN db.channels, NEW name \in Names \cup {Blank}, RenameChannel(id, name)
      PROVE  Follows(db, db', sent')
  <2> DEFINE row == [db.channels[id] EXCEPT !.name = name]
  <2>1. row \in ChannelRow /\ row.key = db.channels[id].key
    BY <1>1, DbRows DEF ChannelRow
  <2>2. db' = [db EXCEPT !.channels = [db.channels EXCEPT ![id] = row]]
    BY <1>3 DEF RenameChannel, Becomes
  <2> HIDE DEF row
  <2>3. QED
    BY <1>1, <2>1, <2>2, ChannelChanged
<1>4. ASSUME NEW id \in DOMAIN db.channels, NEW key \in Secrets \cup {Blank}, RekeyChannel(id, key)
      PROVE  Follows(db, db', sent')
  <2> DEFINE row == [db.channels[id] EXCEPT !.key = Unmasked(key, db.channels[id].key)]
  <2>1. sent' = {key}
    BY <1>4 DEF RekeyChannel, Becomes, Request
  <2>2. row \in ChannelRow /\ row.key \in {db.channels[id].key} \cup sent'
    BY <1>1, <2>1, DbRows DEF ChannelRow, Keys, Unmasked
  <2>3. db' = [db EXCEPT !.channels = [db.channels EXCEPT ![id] = row]]
    BY <1>4 DEF RekeyChannel, Becomes
  <2> HIDE DEF row
  <2>4. QED
    BY <1>1, <2>2, <2>3, ChannelChanged
<1>5. ASSUME NEW id \in DOMAIN db.channels, DeleteChannel(id) PROVE Follows(db, db', sent')
  <2>1. db' = [db EXCEPT !.channels = Without(@, {id})]
    BY <1>5 DEF DeleteChannel, Becomes
  <2>2. QED
    BY <1>1, <2>1, ChannelDeleted
<1>6. QED
  BY <1>2, <1>3, <1>4, <1>5

\* A form that is sent back changes no secret, but that of a channel which showed none: it goes.
LEMMA SubmitFormFollows == ASSUME Inv, SubmitForm PROVE Follows(db, db', {Blank})
<1>1. db \in Db /\ References(db)
  BY DEF Inv
<1>2. form \in Forms /\ form.table \in {"devices", "channels"} /\ form.key \in {Blank, Mask}
  BY DEF Inv, SubmitForm, Forms
<1>3. CASE form.id \notin DOMAIN db[form.table]
  BY <1>1, <1>3, FollowsItself DEF SubmitForm
<1>4. CASE form.id \in DOMAIN db[form.table] /\ form.table = "devices"
  <2> DEFINE row == [db.devices[form.id] EXCEPT !.key = Kept(form.key, db.devices[form.id].key)]
  <2>1. form.key = Blank
    BY <1>2, <1>4 DEF Forms
  <2>2. row \in DeviceRow /\ row.key = db.devices[form.id].key
    BY <1>1, <1>4, <2>1, DbRows DEF DeviceRow, Kept
  <2>3. db' = [db EXCEPT !.devices = [db.devices EXCEPT ![form.id] = row]]
    BY <1>1, <1>4 DEF SubmitForm, Db
  <2> HIDE DEF row
  <2>4. QED
    BY <1>1, <1>4, <2>2, <2>3, DeviceChanged
<1>5. CASE form.id \in DOMAIN db[form.table] /\ form.table = "channels"
  <2> DEFINE row == [db.channels[form.id] EXCEPT !.key = Unmasked(form.key, db.channels[form.id].key)]
  <2>1. form.key = Blank \/ form.key = Mask
    BY <1>2
  <2>2. row \in ChannelRow /\ row.key \in {db.channels[form.id].key} \cup {Blank}
    BY <1>1, <1>5, <2>1, DbRows, MaskIsNotBlank DEF ChannelRow, Keys, Unmasked
  <2>3. db' = [db EXCEPT !.channels = [db.channels EXCEPT ![form.id] = row]]
    BY <1>1, <1>5, <1>2 DEF SubmitForm, Db
  <2> HIDE DEF row
  <2>4. QED
    BY <1>1, <1>5, <2>2, <2>3, ChannelChanged
<1>6. QED
  BY <1>2, <1>3, <1>4, <1>5

LEMMA SubmitFormSecrets ==
    ASSUME Inv, SubmitForm, NEW t \in {"devices", "channels"}, NEW id \in DOMAIN db[t] \cap DOMAIN db'[t]
    PROVE  \/ db'[t][id].key = db[t][id].key
           \/ SavesWithoutSecret(t, id) /\ db'[t][id].key = Blank
<1>1. db \in Db
  BY DEF Inv
<1>2. form \in Forms /\ form # NoForm /\ form' = NoForm
  BY DEF Inv, SubmitForm
<1>3. /\ form.table \in {"devices", "channels"} /\ form.key \in {Blank, Mask}
      /\ form.table = "devices" => form.key = Blank
  BY <1>2 DEF Forms
<1> DEFINE rows == db[form.table]
           new == IF form.table = "devices" THEN Kept(form.key, rows[form.id].key)
                  ELSE Unmasked(form.key, rows[form.id].key)
<1>4. CASE form.id \notin DOMAIN rows
  BY <1>4 DEF SubmitForm
<1>5. CASE form.id \in DOMAIN rows
  <2>1. db' = [db EXCEPT ![form.table] = [rows EXCEPT ![form.id] = [rows[form.id] EXCEPT !.key = new]]]
    BY <1>1, <1>3, <1>5 DEF SubmitForm, Db
  <2>2. CASE t # form.table
    <3>1. db'[t] = db[t]
      BY <1>1, <2>1, <2>2 DEF Db
    <3>2. QED
      BY <3>1
  <2>3. CASE t = form.table
    <3>1. db'[t] = [rows EXCEPT ![form.id] = [rows[form.id] EXCEPT !.key = new]]
      BY <1>1, <2>1, <2>3 DEF Db
    <3>2. CASE id # form.id
      BY <2>3, <3>1, <3>2
    <3>3. CASE id = form.id
      <4>1. rows[form.id] \in DeviceRow \/ rows[form.id] \in ChannelRow
        BY <1>1, <1>3, <1>5, DbRows
      <4>2. [rows[form.id] EXCEPT !.key = new].key = new
        BY <4>1 DEF DeviceRow, ChannelRow
      <4>3. db'[t][id].key = new
        BY <1>5, <3>1, <3>3, <4>2
      <4>4. CASE form.key = Mask
        BY <1>3, <2>3, <3>3, <4>3, <4>4, MaskIsNotBlank DEF Unmasked
      <4>5. CASE form.key = Blank /\ form.table = "devices"
        BY <2>3, <3>3, <4>3, <4>5 DEF Kept
      <4>6. CASE form.key = Blank /\ form.table = "channels"
        BY <1>2, <2>3, <3>3, <4>3, <4>6, MaskIsNotBlank DEF Unmasked, SavesWithoutSecret
      <4>7. QED
        BY <1>3, <4>4, <4>5, <4>6
    <3>4. QED
      BY <3>2, <3>3
  <2>4. QED
    BY <2>2, <2>3
<1>6. QED
  BY <1>4, <1>5

\* An import adds rows, and changes none.
LEMMA ImportFollows == ASSUME Inv PROVE Follows(db, Import(db, backup), sent')
<1> DEFINE e == Import(db, backup)
<1>1. db \in Db /\ References(db) /\ backup \in Doc
  BY DEF Inv
<1>2. e \in Db /\ References(e)
  BY <1>1, ImportIs, ImportRefers
<1>3. /\ \A id \in DOMAIN db.devices : e.devices[id] = db.devices[id]
      /\ \A id \in DOMAIN db.channels : e.channels[id] = db.channels[id]
  BY <1>1, ImportKeeps
<1> HIDE DEF e
<1>4. SecretsAmong(db, e, sent')
  BY <1>3 DEF SecretsAmong
<1>5. QED
  BY <1>2, <1>4 DEF Follows, e

LEMMA StepFollows ==
    ASSUME Inv, Next
    PROVE  Follows(db, db', sent') \/ (SubmitForm /\ Follows(db, db', {Blank}))
<1>1. CASE Start
  BY <1>1, StartFollows
<1>2. CASE DeviceRequest
  BY <1>2, DeviceRequestFollows
<1>3. CASE CheckRequest
  BY <1>3, CheckRequestFollows
<1>4. CASE AlertingRequest
  BY <1>4, RuleRequestFollows, ChannelRequestFollows DEF AlertingRequest
<1>5. CASE FormRequest
  <2>1. db \in Db /\ References(db)
    BY DEF Inv
  <2>2. ASSUME NEW t \in {"devices", "channels"}, NEW id \in DOMAIN db[t], OpenForm(t, id)
        PROVE  Follows(db, db', sent')
    BY <2>1, <2>2, FollowsItself DEF OpenForm
  <2>3. QED
    BY <1>5, <2>2, SubmitFormFollows DEF FormRequest
<1>6. CASE TakeBackup
  BY <1>6, FollowsItself DEF TakeBackup, Inv
<1>7. CASE ImportBackup
  BY <1>7, ImportFollows DEF ImportBackup, Becomes
<1>8. QED
  BY <1>1, <1>2, <1>3, <1>4, <1>5, <1>6, <1>7 DEF Next

\* The backup, and what a page shows.
LEMMA OthersStep ==
    ASSUME Inv, Next
    PROVE  backup' \in Doc /\ form' \in Forms \cup {NoForm}
<1>1. db \in Db /\ References(db) /\ backup \in Doc /\ form \in Forms \cup {NoForm}
  BY DEF Inv
<1>2. \/ UNCHANGED <<backup, form>> \/ TakeBackup
      \/ \E t \in {"devices", "channels"} : \E id \in DOMAIN db[t] : OpenForm(t, id)
      \/ form' = NoForm /\ UNCHANGED backup
  <2>1. DeviceRequest => UNCHANGED <<backup, form>>
    BY DEF DeviceRequest, CreateDevice, RenameDevice, MoveDevice, RekeyDevice, DeleteDevice,
           AddCustomMetric, DeleteMetric, ToggleMetric, Becomes
  <2>2. CheckRequest => UNCHANGED <<backup, form>>
    BY DEF CheckRequest, CreateCheck, RetargetCheck, UnsetPort, DeleteCheck, Becomes
  <2>3. AlertingRequest => UNCHANGED <<backup, form>>
    BY DEF AlertingRequest, CreateRule, RenameRule, DirectRule, DeleteRule,
           CreateChannel, RenameChannel, RekeyChannel, DeleteChannel, Becomes
  <2>4. Start \/ ImportBackup => UNCHANGED <<backup, form>>
    BY DEF Start, ImportBackup, Becomes
  <2>5. SubmitForm => form' = NoForm /\ UNCHANGED backup
    BY DEF SubmitForm
  <2>6. QED
    BY <2>1, <2>2, <2>3, <2>4, <2>5 DEF Next, FormRequest
<1>3. CASE TakeBackup
  BY <1>1, <1>3, ExportIs DEF TakeBackup
<1>4. ASSUME NEW t \in {"devices", "channels"}, NEW id \in DOMAIN db[t], OpenForm(t, id)
      PROVE  backup' \in Doc /\ form' \in Forms
  <2>1. id \in Nat
    BY <1>1, DbRows
  <2>2. QED
    BY <1>1, <1>4, <2>1 DEF OpenForm, Forms
<1>5. QED
  BY <1>1, <1>2, <1>3, <1>4

LEMMA EmptyDbIs == EmptyDb \in Db /\ References(EmptyDb)
<1>1. DOMAIN NoTable = {} /\ \A R : NoTable \in TableOf(R)
  BY EmptyTable
<1>2. QED
  BY <1>1 DEF EmptyDb, Db, References

LEMMA InitInv == Init => Inv
  BY EmptyDbIs, ExportIs DEF Init, Inv

LEMMA InvStep == ASSUME Inv, [Next]_vars PROVE Inv'
<1>1. CASE Next
  BY <1>1, StepFollows, OthersStep DEF Inv, Follows
<1>2. CASE UNCHANGED vars
  BY <1>2 DEF Inv, vars
<1>3. QED
  BY <1>1, <1>2

\* The tables hold rows of their columns' types, with every check and rule belonging to a device
\* that there is or to none (the foreign keys, db.py), the backup is a document an export wrote,
\* and a page shows no secret.
THEOREM Invariance == Spec => []Inv
<1>1. Init => Inv
  BY InitInv
<1>2. Inv /\ [Next]_vars => Inv'
  BY InvStep
<1>3. QED
  BY <1>1, <1>2, PTL DEF Spec

\* Secrets change only in a request that carries the new one, whatever pages were opened before,
\* or when the page of a channel that showed none is saved, for all names, rows and requests.
THEOREM SecretsChangeOnlyWhenSentAlways == Spec => SecretsChangeOnlyWhenSent
<1> DEFINE A == \A t \in {"devices", "channels"} : \A id \in DOMAIN db[t] \cap DOMAIN db'[t] :
                   \/ db'[t][id].key = db[t][id].key \/ db'[t][id].key \in sent'
                   \/ SavesWithoutSecret(t, id) /\ db'[t][id].key = Blank
<1>1. Inv /\ [Next]_vars => [A]_vars
  <2> SUFFICES ASSUME Inv, Next PROVE A
    OBVIOUS
  <2>1. CASE Follows(db, db', sent')
    BY <2>1 DEF Follows, SecretsAmong
  <2>2. CASE SubmitForm
    BY <2>2, SubmitFormSecrets
  <2>3. QED
    BY <2>1, <2>2, StepFollows
<1>2. Spec => []Inv
  BY Invariance
<1>3. QED
  BY <1>1, <1>2, PTL DEF Spec, SecretsChangeOnlyWhenSent

\* An import is idempotent and keeps every row there is, whatever was created, renamed or deleted
\* since the export.
THEOREM ImportIsIdempotentAlways == Spec => []ImportIsIdempotent
<1>1. Inv => ImportIsIdempotent
  <2> SUFFICES ASSUME Inv PROVE ImportIsIdempotent
    OBVIOUS
  <2> DEFINE once == Import(db, backup)
  <2>1. db \in Db /\ References(db) /\ backup \in Doc
    BY DEF Inv
  <2>2. Import(once, backup) = once
    <3>1. CASE Rejected(db, backup)
      BY <2>1, <3>1, ImportIs
    <3>2. CASE ~Rejected(db, backup)
      BY <2>1, <3>2, ImportIs, ImportHasAll, ImportOfNothing
    <3>3. QED
      BY <3>1, <3>2
  <2>3. Import(db, Export(db)) = db
    BY <2>1, ExportIs, ExportHasAll, ImportOfNothing
  <2>4. /\ \A id \in DOMAIN db.devices : once.devices[id] = db.devices[id]
        /\ \A id \in DOMAIN db.checks : once.checks[id] = db.checks[id]
        /\ \A id \in DOMAIN db.channels : once.channels[id] = db.channels[id]
        /\ \A id \in DOMAIN db.rules : once.rules[id] = db.rules[id]
    BY <2>1, ImportKeeps
  <2> HIDE DEF once
  <2>5. Tables = {"devices", "checks", "channels", "rules"}
    BY DEF Tables, EmptyDb
  <2>6. \A t \in Tables : \A id \in DOMAIN db[t] : once[t][id] = db[t][id]
    BY <2>4, <2>5
  <2>7. QED
    BY <2>2, <2>3, <2>6 DEF ImportIsIdempotent, once
<1>2. QED
  BY <1>1, Invariance, PTL

-----------------------------------------------------------------------------
(* A restore into an empty database.                                       *)

LEMMA AllAreNew ==
    ASSUME NEW R, NEW rows \in Seq(R)
    PROVE  NewByName(NoTable, rows) = rows /\ NewChecks(NoTable, rows) = rows
<1>1. Rows(NoTable) = {} /\ Taken(NoTable) = {}
  BY DEF NoTable, Rows, Taken
<1>2. /\ {i \in DOMAIN rows : rows[i].name \notin Taken(NoTable)} = DOMAIN rows
      /\ {i \in DOMAIN rows : Key(rows[i]) \notin {Key(c) : c \in Rows(NoTable)}} = DOMAIN rows
  BY <1>1
<1>3. QED
  BY <1>2, ListedAll DEF NewByName, NewChecks

\* What an export of d holds, by table.
LEMMA ExportHolds ==
    ASSUME NEW d \in Db, References(d)
    PROVE  LET doc == Export(d)
           IN  /\ {row.name : row \in Range(doc.devices)} = Taken(d.devices)
               /\ (\E row \in Range(doc.devices) : ~DeviceAccepted(row))
                     <=> \E row \in Rows(d.devices) : ~DeviceAccepted(row)
               /\ Range(doc.channels) = Rows(d.channels)
               /\ Range(doc.checks) = {ByName(d, row) : row \in Rows(d.checks)}
               /\ Range(doc.rules) = {ByName(d, row) : row \in Rows(d.rules)}
<1> DEFINE ds == InOrder(d.devices)
           cs == InOrder(d.checks)
           chs == InOrder(d.channels)
           rs == InOrder(d.rules)
<1>1. Export(d) = [devices |-> Enabled(ds), checks |-> NamedRows(d, cs), channels |-> chs, rules |-> NamedRows(d, rs)]
  BY ExportIs
<1>2. /\ Range(ds) = Rows(d.devices) /\ Range(chs) = Rows(d.channels)
      /\ Range(cs) = Rows(d.checks) /\ Range(rs) = Rows(d.rules)
  BY OrderedRows DEF Db
<1>3. ASSUME NEW list PROVE Range(NamedRows(d, list)) = {ByName(d, row) : row \in Range(list)}
  BY DEF NamedRows, Range
<1>4. ds \in Seq(DeviceRow)
  BY OrderedRows DEF Db
<1> HIDE DEF ds, cs, chs, rs
<1>5. /\ DOMAIN Enabled(ds) = DOMAIN ds
      /\ \A i \in DOMAIN ds : Enabled(ds)[i].name = ds[i].name
      /\ \A i \in DOMAIN ds : Enabled(ds)[i].host = ds[i].host
  BY <1>4, EnabledRows
<1>6. {row.name : row \in Range(Enabled(ds))} = {row.name : row \in Range(ds)}
  BY <1>5 DEF Range
<1>7. (\E row \in Range(Enabled(ds)) : ~DeviceAccepted(row)) <=> \E row \in Range(ds) : ~DeviceAccepted(row)
  BY <1>5 DEF Range, DeviceAccepted
<1>8. Export(d).devices = Enabled(ds) /\ Range(ds) = Rows(d.devices)
  BY <1>1, <1>2
<1>9. /\ {row.name : row \in Range(Export(d).devices)} = Taken(d.devices)
      /\ (\E row \in Range(Export(d).devices) : ~DeviceAccepted(row))
            <=> \E row \in Rows(d.devices) : ~DeviceAccepted(row)
  BY <1>6, <1>7, <1>8 DEF Taken
<1>10. QED
  BY <1>1, <1>2, <1>3, <1>9

LEMMA RejectedIs ==
    ASSUME NEW d \in Db, References(d)
    PROVE  Rejected(EmptyDb, Export(d)) <=> Blanked(d)
<1> DEFINE doc == Export(d)
           refs == DOMAIN d.devices \cup {NULL}
<1>1. /\ doc.devices \in Seq(DeviceRow) /\ doc.checks \in Seq(CheckRow(Refs))
      /\ doc.channels \in Seq(ChannelRow) /\ doc.rules \in Seq(RuleRow(Refs))
  BY ExportIs DEF Doc
<1>2. /\ (\E row \in Range(doc.devices) : ~DeviceAccepted(row))
           <=> \E row \in Rows(d.devices) : ~DeviceAccepted(row)
      /\ Range(doc.channels) = Rows(d.channels)
      /\ Range(doc.checks) = {ByName(d, row) : row \in Rows(d.checks)}
      /\ Range(doc.rules) = {ByName(d, row) : row \in Rows(d.rules)}
  BY ExportHolds
<1>3. \A row \in Rows(d.checks) : CheckAccepted(ByName(d, row)) <=> CheckAccepted(row)
  <2>1. \A row \in Rows(d.checks) : row \in CheckRow(refs)
    BY RefsTable, RowIn DEF Rows
  <2>2. QED
    BY <2>1, CheckNamed
<1>4. \A row \in Rows(d.rules) : RuleAccepted(ByName(d, row)) <=> RuleAccepted(row)
  <2>1. \A row \in Rows(d.rules) : row \in RuleRow(refs)
    BY RefsTable, RowIn DEF Rows
  <2>2. QED
    BY <2>1, RuleNamed
<1> HIDE DEF doc
<1>5. /\ NewByName(EmptyDb.devices, doc.devices) = doc.devices
      /\ NewChecks(EmptyDb.checks, doc.checks) = doc.checks
      /\ NewByName(EmptyDb.channels, doc.channels) = doc.channels
      /\ NewByName(EmptyDb.rules, doc.rules) = doc.rules
  BY <1>1, AllAreNew DEF EmptyDb
<1>6. Rejected(EmptyDb, doc) <=>
        \/ \E row \in Rows(d.devices) : ~DeviceAccepted(row)
        \/ \E row \in {ByName(d, c) : c \in Rows(d.checks)} : ~CheckAccepted(row)
        \/ \E row \in Rows(d.channels) : ~ChannelAccepted(row)
        \/ \E row \in {ByName(d, r) : r \in Rows(d.rules)} : ~RuleAccepted(row)
  BY <1>2, <1>5 DEF Rejected
<1>7. (\E row \in {ByName(d, c) : c \in Rows(d.checks)} : ~CheckAccepted(row))
        <=> \E row \in Rows(d.checks) : ~CheckAccepted(row)
  BY <1>3
<1>8. (\E row \in {ByName(d, r) : r \in Rows(d.rules)} : ~RuleAccepted(row))
        <=> \E row \in Rows(d.rules) : row.name = Blank
  BY <1>4 DEF RuleAccepted
<1>9. (\E row \in Rows(d.channels) : ~ChannelAccepted(row)) <=> \E row \in Rows(d.channels) : row.name = Blank
  BY DEF ChannelAccepted
<1>10. QED
  BY <1>6, <1>7, <1>8, <1>9 DEF Blanked, doc

\* The tables of a restored database are the lists of the document, references resolved.
LEMMA RestoredIs ==
    ASSUME NEW doc \in Doc, ~Rejected(EmptyDb, doc)
    PROVE  LET e == Import(EmptyDb, doc)
           IN  /\ e \in Db /\ References(e)
               /\ e.devices = doc.devices /\ e.checks = ResolvedRows(e, doc.checks)
               /\ e.channels = doc.channels /\ e.rules = ResolvedRows(e, doc.rules)
<1> DEFINE e == Import(EmptyDb, doc)
<1>1. /\ doc.devices \in Seq(DeviceRow) /\ doc.checks \in Seq(CheckRow(Refs))
      /\ doc.channels \in Seq(ChannelRow) /\ doc.rules \in Seq(RuleRow(Refs))
  BY DEF Doc
<1>2. e \in Db /\ References(e) /\ ImportsAll(EmptyDb, doc, e)
  BY EmptyDbIs, ImportIs, ImportRefers
<1> HIDE DEF e
<1>3. /\ NewByName(EmptyDb.devices, doc.devices) = doc.devices
      /\ NewChecks(EmptyDb.checks, doc.checks) = doc.checks
      /\ NewByName(EmptyDb.channels, doc.channels) = doc.channels
      /\ NewByName(EmptyDb.rules, doc.rules) = doc.rules
  BY <1>1, AllAreNew DEF EmptyDb
<1>4. /\ e.devices = Added(NoTable, doc.devices)
      /\ e.checks = Added(NoTable, ResolvedRows(e, doc.checks))
      /\ e.channels = Added(NoTable, doc.channels)
      /\ e.rules = Added(NoTable, ResolvedRows(e, doc.rules))
  BY <1>2, <1>3 DEF ImportsAll, EmptyDb
<1>5. /\ ResolvedRows(e, doc.checks) \in Seq(CheckRow(Nat))
      /\ ResolvedRows(e, doc.rules) \in Seq(RuleRow(Nat))
  BY <1>1, <1>2, ChecksResolved, RulesResolved
<1>6. /\ e.devices = doc.devices /\ e.checks = ResolvedRows(e, doc.checks)
      /\ e.channels = doc.channels /\ e.rules = ResolvedRows(e, doc.rules)
  BY <1>1, <1>4, <1>5, AddedToNone
<1>7. QED
  BY <1>2, <1>6 DEF e

\* A name that stands for a device is that device's name.
LEMMA NameComesBack ==
    ASSUME NEW d \in Db, NEW name \in Taken(d.devices) \cup {NULL}
    PROVE  NameOf(d, DeviceNamed(d, name)) = name
<1>1. CASE name = NULL
  <2>1. Taken(d.devices) \subseteq DeviceNames
    BY DbRows DEF Taken, Rows, DeviceRow
  <2>2. NULL \notin Taken(d.devices)
    BY <2>1, NamesAssumption DEF DeviceNames, NULL
  <2>3. QED
    BY <1>1, <2>2 DEF DeviceNamed, NameOf
<1>2. CASE name \in Taken(d.devices)
  <2>1. DeviceNamed(d, name) \in DOMAIN d.devices /\ d.devices[DeviceNamed(d, name)].name = name
    BY <1>2, NamedDevice
  <2>2. DeviceNamed(d, name) # NULL
    BY <2>1, DbRows DEF NULL
  <2>3. QED
    BY <2>1, <2>2 DEF NameOf
<1>3. QED
  BY <1>1, <1>2

LEMMA NamesComeBack ==
    ASSUME NEW d \in Db, NEW R, NEW rows \in Seq(R),
           \A i \in DOMAIN rows : /\ rows[i] \in CheckRow(Refs) \/ rows[i] \in RuleRow(Refs)
                                  /\ rows[i].device \in Taken(d.devices) \cup {NULL}
    PROVE  NamedRows(d, ResolvedRows(d, rows)) = rows
<1>1. ASSUME NEW i \in DOMAIN rows PROVE ByName(d, Resolved(d, rows[i])) = rows[i]
  <2> DEFINE row == rows[i]
             id == DeviceNamed(d, row.device)
  <2>1. NameOf(d, id) = row.device
    BY NameComesBack
  <2>2. Resolved(d, row) = [row EXCEPT !.device = id]
    BY DEF Resolved, DeviceNamed
  <2>3. row \in CheckRow(Refs) \/ row \in RuleRow(Refs)
    OBVIOUS
  <2> HIDE DEF row, id
  <2>4. [row EXCEPT !.device = id].device = id
    BY <2>3 DEF CheckRow, RuleRow
  <2>5. [[row EXCEPT !.device = id] EXCEPT !.device = row.device] = row
    BY <2>3 DEF CheckRow, RuleRow
  <2>6. ByName(d, Resolved(d, row)) = row
    BY <2>1, <2>2, <2>4, <2>5 DEF ByName
  <2>7. QED
    BY <2>6 DEF row
<1>2. DOMAIN ResolvedRows(d, rows) = DOMAIN rows /\ \A i \in DOMAIN rows : ResolvedRows(d, rows)[i] = Resolved(d, rows[i])
  BY DEF ResolvedRows
<1>3. NamedRows(d, ResolvedRows(d, rows)) = [i \in DOMAIN rows |-> ByName(d, ResolvedRows(d, rows)[i])]
  BY <1>2 DEF NamedRows
<1>4. rows = [i \in DOMAIN rows |-> rows[i]]
  OBVIOUS
<1>5. QED
  BY <1>1, <1>2, <1>3, <1>4

\* An export restored is exported the same.
LEMMA ExportComesBack ==
    ASSUME NEW d \in Db, References(d), ~Blanked(d)
    PROVE  Export(Import(EmptyDb, Export(d))) = Export(d)
<1> DEFINE doc == Export(d)
           e == Import(EmptyDb, doc)
           refs == DOMAIN d.devices \cup {NULL}
<1>1. doc \in Doc
  BY ExportIs
<1>2. /\ {row.name : row \in Range(doc.devices)} = Taken(d.devices)
      /\ Range(doc.checks) = {ByName(d, row) : row \in Rows(d.checks)}
      /\ Range(doc.rules) = {ByName(d, row) : row \in Rows(d.rules)}
  BY ExportHolds
<1>3. ~Rejected(EmptyDb, doc)
  BY RejectedIs
<1> HIDE DEF doc
<1>4. /\ e \in Db /\ References(e)
      /\ e.devices = doc.devices /\ e.checks = ResolvedRows(e, doc.checks)
      /\ e.channels = doc.channels /\ e.rules = ResolvedRows(e, doc.rules)
  BY <1>1, <1>3, RestoredIs
<1>5. Export(e) = [devices |-> Enabled(InOrder(e.devices)), checks |-> NamedRows(e, InOrder(e.checks)),
                   channels |-> InOrder(e.channels), rules |-> NamedRows(e, InOrder(e.rules))]
  BY <1>4, ExportIs
<1> HIDE DEF e
<1>6. /\ doc.devices \in Seq(DeviceRow) /\ doc.checks \in Seq(CheckRow(Refs))
      /\ doc.channels \in Seq(ChannelRow) /\ doc.rules \in Seq(RuleRow(Refs))
  BY <1>1 DEF Doc
<1>7. e.checks \in Seq(CheckRow(Nat)) /\ e.rules \in Seq(RuleRow(Nat))
  <2>1. ResolvedRows(e, doc.checks) \in Seq(CheckRow(Nat))
    BY <1>4, <1>6, ChecksResolved
  <2>2. ResolvedRows(e, doc.rules) \in Seq(RuleRow(Nat))
    BY <1>4, <1>6, RulesResolved
  <2>3. QED
    BY <1>4, <2>1, <2>2
<1>8. Enabled(doc.devices) = doc.devices
  <2>1. InOrder(d.devices) \in Seq(DeviceRow)
    BY OrderedRows DEF Db
  <2>2. doc.devices = Enabled(InOrder(d.devices))
    BY ExportIs DEF doc
  <2>3. QED
    BY <2>1, <2>2, EnabledTwice
<1>9. /\ InOrder(e.devices) = doc.devices /\ InOrder(e.channels) = doc.channels
      /\ InOrder(e.checks) = e.checks /\ InOrder(e.rules) = e.rules
  BY <1>4, <1>6, <1>7, ListedAll DEF InOrder
<1>10. Taken(e.devices) = Taken(d.devices)
  <2>1. Rows(e.devices) = Range(doc.devices)
    BY <1>4 DEF Rows, Range
  <2>2. QED
    BY <1>2, <2>1 DEF Taken
<1>11. \A id \in refs : NameOf(d, id) \in Taken(e.devices) \cup {NULL}
  BY <1>10 DEF NameOf, Taken, Rows
<1>12. NamedRows(e, ResolvedRows(e, doc.checks)) = doc.checks
  <2>1. \A row \in Rows(d.checks) : ByName(d, row).device \in Taken(e.devices) \cup {NULL}
    <3>1. \A row \in Rows(d.checks) : row \in CheckRow(refs)
      BY RefsTable, RowIn DEF Rows
    <3>2. \A row \in CheckRow(refs) : row.device \in refs /\ ByName(d, row).device = NameOf(d, row.device)
      BY CheckNamed DEF CheckRow
    <3>3. QED
      BY <1>11, <3>1, <3>2
  <2>2. \A i \in DOMAIN doc.checks : doc.checks[i] \in Range(doc.checks) /\ doc.checks[i] \in CheckRow(Refs)
    BY <1>6 DEF Range
  <2>3. \A i \in DOMAIN doc.checks : doc.checks[i].device \in Taken(e.devices) \cup {NULL}
    BY <1>2, <2>1, <2>2
  <2>4. QED
    BY <1>4, <1>6, <2>2, <2>3, NamesComeBack
<1>13. NamedRows(e, ResolvedRows(e, doc.rules)) = doc.rules
  <2>1. \A row \in Rows(d.rules) : ByName(d, row).device \in Taken(e.devices) \cup {NULL}
    <3>1. \A row \in Rows(d.rules) : row \in RuleRow(refs)
      BY RefsTable, RowIn DEF Rows
    <3>2. \A row \in RuleRow(refs) : row.device \in refs /\ ByName(d, row).device = NameOf(d, row.device)
      BY RuleNamed DEF RuleRow
    <3>3. QED
      BY <1>11, <3>1, <3>2
  <2>2. \A i \in DOMAIN doc.rules : doc.rules[i] \in Range(doc.rules) /\ doc.rules[i] \in RuleRow(Refs)
    BY <1>6 DEF Range
  <2>3. \A i \in DOMAIN doc.rules : doc.rules[i].device \in Taken(e.devices) \cup {NULL}
    BY <1>2, <2>1, <2>2
  <2>4. QED
    BY <1>4, <1>6, <2>2, <2>3, NamesComeBack
<1>14. Export(e) = [devices |-> doc.devices, checks |-> doc.checks, channels |-> doc.channels, rules |-> doc.rules]
  BY <1>8, <1>4, <1>5, <1>9, <1>12, <1>13
<1>15. doc = [devices |-> doc.devices, checks |-> doc.checks, channels |-> doc.channels, rules |-> doc.rules]
  BY <1>1 DEF Doc
<1>16. QED
  BY <1>14, <1>15 DEF e, doc

\* Ids without gaps stay as they are.
LEMMA ChannelsComeBack ==
    ASSUME NEW R, NEW t \in TableOf(R), NoGaps(t)
    PROVE  InOrder(t) = t
<1> DEFINE n == Cardinality(DOMAIN t)
<1>1. t \in [DOMAIN t -> R] /\ IsFiniteSet(DOMAIN t) /\ DOMAIN t = 1..n
  BY TableIs DEF NoGaps
<1>2. n \in Nat
  BY <1>1, FS_CardinalityType
<1> HIDE DEF n
<1>3. t \in Seq(R)
  BY <1>1, <1>2, SeqIs
<1>4. QED
  BY <1>3, ListedAll DEF InOrder

\* An export restored into an empty database is the configuration it was taken of, with every
\* custom metric enabled, or, when a PATCH emptied a field that a POST would refuse, nothing at all.
THEOREM RestoreRebuildsAlways == Spec => []RestoreRebuilds
<1>1. Inv => RestoreRebuilds
  <2> SUFFICES ASSUME Inv PROVE RestoreRebuilds
    OBVIOUS
  <2> DEFINE doc == Export(db)
             e == Import(EmptyDb, doc)
             told(d, rule) == {d.channels[id].name : id \in rule.channels \cap DOMAIN d.channels}
             rules(d) == [i \in DOMAIN doc.rules |-> [doc.rules[i] EXCEPT !.channels = told(d, doc.rules[i])]]
             silent(x) == [x EXCEPT !.rules = [i \in DOMAIN @ |-> [@[i] EXCEPT !.channels = {}]]]
             expected == [Named(db) EXCEPT !.devices = Enabled(@)]
  <2>1. db \in Db /\ References(db)
    BY DEF Inv
  <2>2. doc \in Doc /\ EmptyDb \in Db
    BY <2>1, ExportIs, EmptyDbIs
  <2>3. Rejected(EmptyDb, doc) <=> Blanked(db)
    BY <2>1, RejectedIs
  <2>4. Blanked(db) => e = EmptyDb
    BY <2>2, <2>3, ImportIs
  <2>5. ASSUME ~Blanked(db) PROVE Export(e) = doc /\ e.devices = doc.devices /\ e.channels = doc.channels
    BY <2>1, <2>2, <2>3, <2>5, ExportComesBack, RestoredIs
  <2>6. ASSUME NEW d, Export(d) = doc
        PROVE  Named(d) = [[doc EXCEPT !.devices = InOrder(d.devices)] EXCEPT !.rules = rules(d)]
    BY <2>2, <2>6 DEF Named, Doc
  <2>7. doc.devices = Enabled(InOrder(db.devices)) /\ doc.channels = InOrder(db.channels)
    BY <2>1, ExportIs
  <2>8. expected = [doc EXCEPT !.rules = rules(db)]
    <3> DEFINE ds == InOrder(db.devices)
    <3>1. Named(db) = [[doc EXCEPT !.devices = ds] EXCEPT !.rules = rules(db)]
      BY <2>6
    <3> HIDE DEF doc, rules, ds
    <3>2. Named(db).devices = ds
      BY <2>2, <3>1 DEF Doc
    <3>3. expected = [Named(db) EXCEPT !.devices = doc.devices]
      BY <2>7, <3>2 DEF ds
    <3>4. [doc EXCEPT !.devices = doc.devices] = doc
      BY <2>2 DEF Doc
    <3>5. \A x : [[[doc EXCEPT !.devices = ds] EXCEPT !.rules = x] EXCEPT !.devices = doc.devices] = [doc EXCEPT !.rules = x]
      BY <2>2 DEF Doc
    <3>6. QED
      BY <3>1, <3>3, <3>5
  <2>9. ASSUME ~Blanked(db) PROVE Named(e) = [doc EXCEPT !.rules = rules(e)]
    <3>1. InOrder(e.devices) = doc.devices
      BY <2>2, <2>5, <2>9, ListedAll DEF InOrder, Doc
    <3>2. [doc EXCEPT !.devices = doc.devices] = doc
      BY <2>2 DEF Doc
    <3>3. Export(e) = doc
      BY <2>5, <2>9
    <3> HIDE DEF doc, rules, e
    <3>4. Named(e) = [[doc EXCEPT !.devices = doc.devices] EXCEPT !.rules = rules(e)]
      BY <2>6, <3>1, <3>3
    <3>5. QED
      BY <3>2, <3>4
  <2>10. ASSUME NEW d
         PROVE  silent([doc EXCEPT !.rules = rules(d)]) = [doc EXCEPT !.rules =
                    [i \in DOMAIN doc.rules |-> [doc.rules[i] EXCEPT !.channels = {}]]]
    <3> DEFINE list == rules(d)
    <3>1. [doc EXCEPT !.rules = list].rules = list
      BY <2>2 DEF Doc
    <3>2. \A i \in DOMAIN doc.rules : [list[i] EXCEPT !.channels = {}] = [doc.rules[i] EXCEPT !.channels = {}]
      OBVIOUS
    <3>3. DOMAIN list = DOMAIN doc.rules
      OBVIOUS
    <3> HIDE DEF list, doc
    <3>4. silent([doc EXCEPT !.rules = list]) = [[doc EXCEPT !.rules = list] EXCEPT !.rules =
                                [i \in DOMAIN list |-> [list[i] EXCEPT !.channels = {}]]]
      BY <3>1
    <3>5. [i \in DOMAIN list |-> [list[i] EXCEPT !.channels = {}]]
            = [i \in DOMAIN doc.rules |-> [doc.rules[i] EXCEPT !.channels = {}]]
      BY <3>2, <3>3
    <3>6. \A x : [[doc EXCEPT !.rules = list] EXCEPT !.rules = x] = [doc EXCEPT !.rules = x]
      OBVIOUS
    <3>7. silent([doc EXCEPT !.rules = list]) = [doc EXCEPT !.rules =
                    [i \in DOMAIN doc.rules |-> [doc.rules[i] EXCEPT !.channels = {}]]]
      BY <3>4, <3>5, <3>6
    <3>8. QED
      BY <3>7 DEF list
  <2>11. ASSUME ~Blanked(db) PROVE silent(Named(e)) = silent(expected)
    <3> HIDE DEF silent, rules, expected, doc, e
    <3>1. QED
      BY <2>8, <2>9, <2>10, <2>11
  <2>12. ASSUME ~Blanked(db), NoGaps(db.channels) PROVE Named(e) = expected
    <3>1. InOrder(db.channels) = db.channels
      BY <2>1, <2>12, ChannelsComeBack DEF Db
    <3>2. e.channels = db.channels
      BY <2>5, <2>7, <2>12, <3>1
    <3>3. rules(e) = rules(db)
      BY <3>2
    <3> HIDE DEF rules, expected, doc, e
    <3>4. QED
      BY <2>8, <2>9, <2>12, <3>3
  <2>13. QED
    BY <2>4, <2>11, <2>12 DEF RestoreRebuilds
<1>2. QED
  BY <1>1, Invariance, PTL
=============================================================================

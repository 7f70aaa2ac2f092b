-------------------------- MODULE CheckRunnerProofs --------------------------
(***************************************************************************)
(* Proofs about CheckRunner, for every set of checks and jobs and every    *)
(* bound: types, the open outage of a check that is down, and that the     *)
(* history of outages is kept, with manual runs and deletions.             *)
(* With neither, CheckRunner keeps a check's outages right and implements  *)
(* CheckLifecycle: the key in Monitor._inflight lets at most one job per   *)
(* check run, so nothing but that job writes the state machine's columns   *)
(* while it awaits its probe, and its snapshot is still the row when it    *)
(* writes.                                                                 *)
(***************************************************************************)
EXTENDS CheckRunner, TLAPS, SequenceTheorems, FiniteSetTheorems

HasEarliest(times) == times # {} => \E t \in times : \A u \in times : t <= u

\* Heartbeats are stamped in the past, and the failures since the last success,
\* if there are any, have an earliest one.
BeatsPast ==
    \A c \in CheckIds :
        /\ okBeats[c] \subseteq 1..clock
        /\ failBeats[c] \subseteq 1..clock
        /\ HasEarliest(FailsSinceOk(c))

TypeInv == TypeOK /\ BeatsPast

-----------------------------------------------------------------------------
(* The earliest element of a set of times.                                 *)

LEMMA EarliestIsFirst ==
    ASSUME NEW S \in SUBSET Nat, NEW t \in S, \A u \in S : t <= u
    PROVE  Earliest(S) = t
<1>1. \A x \in S : (\A u \in S : x <= u) => x = t
  OBVIOUS
<1>2. Earliest(S) \in S /\ \A u \in S : Earliest(S) <= u
  BY DEF Earliest
<1>3. QED
  BY <1>1, <1>2

\* A later time changes the earliest one of a set only if the set was empty.
LEMMA EarliestWithLater ==
    ASSUME NEW S \in SUBSET Nat, HasEarliest(S),
           NEW now \in Nat, \A u \in S : u < now
    PROVE  /\ HasEarliest(S \cup {now})
           /\ Earliest(S \cup {now}) \in S \cup {now}
           /\ \A u \in S \cup {now} : Earliest(S \cup {now}) <= u
           /\ S = {} => Earliest(S \cup {now}) = now
           /\ S # {} => Earliest(S \cup {now}) = Earliest(S)
<1> DEFINE T == S \cup {now}
<1>1. CASE S = {}
  <2>1. now \in T /\ \A u \in T : now <= u
    BY <1>1
  <2>2. Earliest(T) = now
    BY <2>1, EarliestIsFirst
  <2>3. QED
    BY <1>1, <2>1, <2>2 DEF HasEarliest
<1>2. CASE S # {}
  <2>1. PICK t \in S : \A u \in S : t <= u
    BY <1>2 DEF HasEarliest
  <2>2. t \in T /\ \A u \in T : t <= u
    BY <2>1
  <2>3. Earliest(T) = t
    BY <2>2, EarliestIsFirst
  <2>4. Earliest(S) = t
    BY <2>1, EarliestIsFirst
  <2>5. QED
    BY <1>2, <2>2, <2>3, <2>4 DEF HasEarliest
<1>3. QED
  BY <1>1, <1>2

-----------------------------------------------------------------------------
(* What recording a result does to the failures since the last success.    *)

LEMMA StreakAfterOk ==
    ASSUME TypeInv, NEW jb \in jobs, RecordOk(jb)
    PROVE  /\ FailsSinceOk(jb.check)' = {}
           /\ \A c \in CheckIds \ {jb.check} : FailsSinceOk(c)' = FailsSinceOk(c)
<1>1. jb.check \in CheckIds /\ clock \in Nat
  BY DEF TypeInv, TypeOK, Job
<1>2. failBeats[jb.check] \subseteq 1..clock
  BY <1>1 DEF TypeInv, BeatsPast
<1>3. failBeats' = failBeats /\ NextClock \in okBeats'[jb.check]
  BY <1>1 DEF RecordOk, TypeInv, TypeOK
<1>4. \A c \in CheckIds \ {jb.check} : okBeats'[c] = okBeats[c]
  BY DEF RecordOk, TypeInv, TypeOK
<1>5. \A t \in failBeats[jb.check] : ~(NextClock < t)
  BY <1>1, <1>2 DEF NextClock
<1>6. \A t \in failBeats[jb.check] : t \in Nat /\ t < NextClock
  BY <1>1, <1>2 DEF NextClock
<1>7. QED
  BY <1>3, <1>4, <1>5, <1>6 DEF FailsSinceOk

LEMMA StreakAfterFail ==
    ASSUME TypeInv, NEW jb \in jobs, RecordFail(jb)
    PROVE  /\ FailsSinceOk(jb.check)' = FailsSinceOk(jb.check) \cup {NextClock}
           /\ \A c \in CheckIds \ {jb.check} : FailsSinceOk(c)' = FailsSinceOk(c)
<1>1. jb.check \in CheckIds /\ clock \in Nat
  BY DEF TypeInv, TypeOK, Job
<1>2. okBeats[jb.check] \subseteq 1..clock
  BY <1>1 DEF TypeInv, BeatsPast
<1>3. okBeats' = okBeats /\ failBeats'[jb.check] = failBeats[jb.check] \cup {NextClock}
  BY <1>1 DEF RecordFail, TypeInv, TypeOK
<1>4. \A c \in CheckIds \ {jb.check} : failBeats'[c] = failBeats[c]
  BY DEF RecordFail, TypeInv, TypeOK
<1>5. \A u \in okBeats[jb.check] : u < NextClock
  BY <1>1, <1>2 DEF NextClock
<1>6. QED
  BY <1>3, <1>4, <1>5 DEF FailsSinceOk

\* The start of an outage opened now: the first of the failures, this one
\* included, since the last success.
LEMMA FirstFailType ==
    ASSUME TypeInv, NEW c \in CheckIds
    PROVE  /\ FirstFail(c, NextClock) \in FailsSinceOk(c) \cup {NextClock}
           /\ FirstFail(c, NextClock) \in 1..NextClock
           /\ HasEarliest(FailsSinceOk(c) \cup {NextClock})
           /\ \A u \in FailsSinceOk(c) \cup {NextClock} : FirstFail(c, NextClock) <= u
           /\ FailsSinceOk(c) = {} => FirstFail(c, NextClock) = NextClock
           /\ FailsSinceOk(c) # {} => FirstFail(c, NextClock) = Earliest(FailsSinceOk(c))
<1>1. clock \in Nat /\ NextClock = clock + 1
  BY DEF TypeInv, TypeOK, NextClock
<1>2. FailsSinceOk(c) \subseteq 1..clock /\ HasEarliest(FailsSinceOk(c))
  BY DEF TypeInv, BeatsPast, FailsSinceOk
<1>3. FailsSinceOk(c) \in SUBSET Nat /\ NextClock \in Nat /\ \A u \in FailsSinceOk(c) : u < NextClock
  BY <1>1, <1>2
<1>4. /\ FirstFail(c, NextClock) \in FailsSinceOk(c) \cup {NextClock}
      /\ HasEarliest(FailsSinceOk(c) \cup {NextClock})
      /\ \A u \in FailsSinceOk(c) \cup {NextClock} : FirstFail(c, NextClock) <= u
      /\ FailsSinceOk(c) = {} => FirstFail(c, NextClock) = NextClock
      /\ FailsSinceOk(c) # {} => FirstFail(c, NextClock) = Earliest(FailsSinceOk(c))
  BY <1>2, <1>3, EarliestWithLater DEF FirstFail
<1>5. FailsSinceOk(c) \cup {NextClock} \subseteq 1..NextClock
  BY <1>1, <1>2
<1>6. QED
  BY <1>4, <1>5

-----------------------------------------------------------------------------
(* Types.                                                                  *)

\* Closing an outage keeps the list an outage list of the same length.
LEMMA ClosedType ==
    ASSUME NEW os \in Seq(Outage), NEW ts \in Nat, NEW after \in Closed(os, ts)
    PROVE  /\ after \in Seq(Outage)
           /\ Len(after) = Len(os)
<1>1. CASE OpenAt(os) = {}
  BY <1>1 DEF Closed
<1>2. CASE OpenAt(os) # {}
  <2>1. PICK i \in OpenAt(os) : after = [os EXCEPT ![i].to = ts]
    BY <1>2 DEF Closed
  <2>2. i \in 1..Len(os) /\ os[i] \in Outage
    BY ElementOfSeq DEF OpenAt
  <2>3. [os[i] EXCEPT !.to = ts] \in Outage
    BY <2>2 DEF Outage
  <2>4. after = [os EXCEPT ![i] = [os[i] EXCEPT !.to = ts]]
    BY <2>1
  <2>5. QED
    BY <2>2, <2>3, <2>4, ExceptSeq
<1>3. QED
  BY <1>1, <1>2

LEMMA RowTypes ==
    ASSUME NEW row \in Row, NEW snap \in Snapshot, NEW ts \in Nat
    PROVE  RowAfterOk(row, snap, ts) \in Row /\ RowAfterFail(row, snap, ts) \in Row
<1>1. RowAfterOk(row, snap, ts) \in Row
  BY DEF RowAfterOk, Row, States
<1>2. snap.failCount + 1 \in Nat
  BY DEF Snapshot
<1>3. RowAfterFail(row, snap, ts) \in Row
  BY <1>2 DEF RowAfterFail, Row, States
<1>4. QED
  BY <1>1, <1>3

LEMMA NewRowType ==
    ASSUME NEW retries \in RetryValues
    PROVE  NewRow(retries) \in Row
  BY DEF NewRow, Row, States

LEMMA NoRowType == NoRow \in Row
<1>1. (CHOOSE r \in RetryValues : TRUE) \in RetryValues
  BY RetriesAssumption
<1>2. QED
  BY <1>1, NewRowType DEF NoRow

LEMMA InitTypeInv == Init => TypeInv
<1> SUFFICES ASSUME Init PROVE TypeInv
  OBVIOUS
<1>1. TypeOK
  BY NoRowType, EmptySeq DEF Init, TypeOK
<1>2. BeatsPast
  BY DEF Init, BeatsPast, FailsSinceOk, HasEarliest
<1>3. QED
  BY <1>1, <1>2 DEF TypeInv

\* Each action preserves the types and keeps the heartbeats in the past.
LEMMA StartJobTypeInv ==
    ASSUME TypeInv, NEW c \in CheckIds, NEW j \in JobIds, StartJob(c, j)
    PROVE  TypeInv'
<1>1. SnapshotOf(c) \in Snapshot
  BY DEF SnapshotOf, Snapshot, Row, TypeInv, TypeOK
<1>2. jobs' \subseteq Job /\ inflight' \subseteq CheckIds
  BY <1>1 DEF StartJob, Job, TypeInv, TypeOK
<1>3. QED
  BY <1>2 DEF StartJob, TypeInv, TypeOK, BeatsPast, FailsSinceOk

LEMMA RecordOkTypeInv ==
    ASSUME TypeInv, NEW jb \in jobs, RecordOk(jb)
    PROVE  TypeInv'
<1> DEFINE c == jb.check
<1>1. c \in CheckIds /\ jb.snap \in Snapshot /\ clock \in Nat /\ NextClock = clock + 1
  BY DEF TypeInv, TypeOK, Job, NextClock
<1>2. check' \in [CheckIds -> Row]
  <2>1. check[c] \in Row
    BY <1>1 DEF TypeInv, TypeOK
  <2>2. RowAfterOk(check[c], jb.snap, NextClock) \in Row
    BY <1>1, <2>1, RowTypes
  <2>3. QED
    BY <2>2 DEF RecordOk, UpdateRow, TypeInv, TypeOK
<1>3. outages' \in [CheckIds -> Seq(Outage)]
  <2>1. outages[c] \in Seq(Outage)
    BY <1>1 DEF TypeInv, TypeOK
  <2>2. \A os \in Closed(outages[c], NextClock) : os \in Seq(Outage)
    BY <1>1, <2>1, ClosedType
  <2>3. QED
    BY <2>2 DEF RecordOk, TypeInv, TypeOK
<1>4. okBeats' = [okBeats EXCEPT ![c] = @ \cup {NextClock}] /\ failBeats' = failBeats /\ clock' = NextClock
  BY DEF RecordOk
<1>5. okBeats' \in [CheckIds -> SUBSET Nat] /\ failBeats' \in [CheckIds -> SUBSET Nat]
  BY <1>1, <1>4 DEF TypeInv, TypeOK
<1>6. rows' \subseteq CheckIds /\ jobs' \subseteq Job /\ inflight' \subseteq CheckIds /\ clock' \in Nat
  BY <1>1 DEF RecordOk, FinishJob, TypeInv, TypeOK
<1>7. BeatsPast'
  <2> SUFFICES ASSUME NEW d \in CheckIds
               PROVE  /\ okBeats'[d] \subseteq 1..clock'
                      /\ failBeats'[d] \subseteq 1..clock'
                      /\ HasEarliest(FailsSinceOk(d)')
    BY DEF BeatsPast, HasEarliest
  <2>1. okBeats[d] \subseteq 1..clock /\ failBeats[d] \subseteq 1..clock /\ HasEarliest(FailsSinceOk(d))
    BY DEF TypeInv, BeatsPast
  <2>2. okBeats'[d] \subseteq okBeats[d] \cup {NextClock}
    BY <1>4 DEF TypeInv, TypeOK
  <2>3. okBeats'[d] \subseteq 1..clock' /\ failBeats'[d] \subseteq 1..clock'
    BY <1>1, <1>4, <2>1, <2>2
  <2>4. HasEarliest(FailsSinceOk(d)')
    BY <2>1, StreakAfterOk DEF HasEarliest
  <2>5. QED
    BY <2>3, <2>4
<1>8. QED
  BY <1>2, <1>3, <1>5, <1>6, <1>7 DEF TypeInv, TypeOK

LEMMA RecordFailTypeInv ==
    ASSUME TypeInv, NEW jb \in jobs, RecordFail(jb)
    PROVE  TypeInv'
<1> DEFINE c == jb.check
           first == FirstFail(c, NextClock)
<1>1. c \in CheckIds /\ jb.snap \in Snapshot /\ clock \in Nat /\ NextClock = clock + 1
  BY DEF TypeInv, TypeOK, Job, NextClock
<1>2. first \in Nat
  <2>1. first \in 1..NextClock
    BY <1>1, FirstFailType
  <2>2. QED
    BY <1>1, <2>1
<1>3. check' \in [CheckIds -> Row]
  <2>1. check[c] \in Row
    BY <1>1 DEF TypeInv, TypeOK
  <2>2. RowAfterFail(check[c], jb.snap, first) \in Row
    BY <1>1, <1>2, <2>1, RowTypes
  <2>3. QED
    BY <2>2 DEF RecordFail, UpdateRow, TypeInv, TypeOK
<1>4. outages' \in [CheckIds -> Seq(Outage)]
  <2>1. outages[c] \in Seq(Outage)
    BY <1>1 DEF TypeInv, TypeOK
  <2>2. [from |-> first, to |-> Open] \in Outage
    BY <1>2 DEF Outage, Open
  <2>3. Append(outages[c], [from |-> first, to |-> Open]) \in Seq(Outage)
    BY <2>1, <2>2, AppendProperties
  <2>4. QED
    BY <2>3 DEF RecordFail, TypeInv, TypeOK
<1>5. failBeats' = [failBeats EXCEPT ![c] = @ \cup {NextClock}] /\ okBeats' = okBeats /\ clock' = NextClock
  BY DEF RecordFail
<1>6. okBeats' \in [CheckIds -> SUBSET Nat] /\ failBeats' \in [CheckIds -> SUBSET Nat]
  BY <1>1, <1>5 DEF TypeInv, TypeOK
<1>7. rows' \subseteq CheckIds /\ jobs' \subseteq Job /\ inflight' \subseteq CheckIds /\ clock' \in Nat
  BY <1>1 DEF RecordFail, FinishJob, TypeInv, TypeOK
<1>8. BeatsPast'
  <2> SUFFICES ASSUME NEW d \in CheckIds
               PROVE  /\ okBeats'[d] \subseteq 1..clock'
                      /\ failBeats'[d] \subseteq 1..clock'
                      /\ HasEarliest(FailsSinceOk(d)')
    BY DEF BeatsPast, HasEarliest
  <2>1. okBeats[d] \subseteq 1..clock /\ failBeats[d] \subseteq 1..clock /\ HasEarliest(FailsSinceOk(d))
    BY DEF TypeInv, BeatsPast
  <2>2. failBeats'[d] \subseteq failBeats[d] \cup {NextClock}
    BY <1>5 DEF TypeInv, TypeOK
  <2>3. okBeats'[d] \subseteq 1..clock' /\ failBeats'[d] \subseteq 1..clock'
    BY <1>1, <1>5, <2>1, <2>2
  <2>4. HasEarliest(FailsSinceOk(d)')
    BY <1>1, <2>1, StreakAfterFail, FirstFailType
  <2>5. QED
    BY <2>3, <2>4
<1>9. QED
  BY <1>3, <1>4, <1>6, <1>7, <1>8 DEF TypeInv, TypeOK

LEMMA DeleteTypeInv ==
    ASSUME TypeInv, NEW cs \in SUBSET rows, DeleteChecks(cs)
    PROVE  TypeInv'
<1>1. TypeOK'
  BY NoRowType, EmptySeq DEF DeleteChecks, TypeInv, TypeOK
<1>2. BeatsPast'
  BY DEF DeleteChecks, TypeInv, BeatsPast, FailsSinceOk, HasEarliest
<1>3. QED
  BY <1>1, <1>2 DEF TypeInv

LEMMA EditTypeInv ==
    ASSUME TypeInv, NEW retries \in RetryValues,
           \/ CreateCheck(retries)
           \/ \E c \in CheckIds, enabled \in {0, 1} : UpdateCheck(c, retries, enabled)
    PROVE  TypeInv'
<1>1. check' \in [CheckIds -> Row]
  <2>1. CASE CreateCheck(retries)
    BY <2>1, NewRowType DEF CreateCheck, TypeInv, TypeOK
  <2>2. ASSUME NEW c \in CheckIds, NEW enabled \in {0, 1}, UpdateCheck(c, retries, enabled)
        PROVE  check' \in [CheckIds -> Row]
    <3>1. check[c] \in Row
      BY DEF TypeInv, TypeOK
    <3>2. [check[c] EXCEPT !.retries = retries, !.enabled = enabled] \in Row
      BY <3>1 DEF Row
    <3>3. check' = [check EXCEPT ![c] = [check[c] EXCEPT !.retries = retries, !.enabled = enabled]]
      BY <2>2 DEF UpdateCheck, TypeInv, TypeOK
    <3>4. QED
      BY <3>2, <3>3 DEF TypeInv, TypeOK
  <2>3. QED
    BY <2>1, <2>2
<1>2. rows' \subseteq CheckIds
  BY DEF CreateCheck, UpdateCheck, TypeInv, TypeOK
<1>3. UNCHANGED <<okBeats, failBeats, outages, jobs, inflight, clock>>
  BY DEF CreateCheck, UpdateCheck
<1>4. QED
  BY <1>1, <1>2, <1>3 DEF TypeInv, TypeOK, BeatsPast, FailsSinceOk

\* Steps of jobs that record nothing, and restarts.
LEMMA SilentTypeInv ==
    ASSUME TypeInv,
           \/ \E jb \in jobs : AcquireSlot(jb) \/ RecordRolledBack(jb) \/ ProbeCrash(jb)
           \/ Restart
           \/ UNCHANGED vars
    PROVE  TypeInv'
<1>1. UNCHANGED <<rows, check, okBeats, failBeats, outages, clock>>
  BY DEF AcquireSlot, RecordRolledBack, ProbeCrash, Restart, vars
<1>2. jobs' \subseteq Job
  <2>1. \A jb \in jobs : [jb EXCEPT !.phase = "probing"] \in Job
    BY DEF TypeInv, TypeOK, Job
  <2>2. jobs \subseteq Job
    BY DEF TypeInv, TypeOK
  <2>3. QED
    BY <2>1, <2>2 DEF AcquireSlot, RecordRolledBack, ProbeCrash, FinishJob, Restart, vars
<1>3. inflight' \subseteq CheckIds
  BY DEF AcquireSlot, RecordRolledBack, ProbeCrash, FinishJob, Restart, vars, TypeInv, TypeOK
<1>4. QED
  BY <1>1, <1>2, <1>3 DEF TypeInv, TypeOK, BeatsPast, FailsSinceOk

LEMMA NextTypeInv == TypeInv /\ [Next]_vars => TypeInv'
<1> SUFFICES ASSUME TypeInv, [Next]_vars PROVE TypeInv'
  OBVIOUS
<1>1. CASE \E c \in CheckIds, j \in JobIds : ScheduleCheck(c, j) \/ RunCheckNow(c, j)
  BY <1>1, StartJobTypeInv DEF ScheduleCheck, RunCheckNow
<1>2. CASE JobStep
  BY <1>2, RecordOkTypeInv, RecordFailTypeInv, SilentTypeInv DEF JobStep
<1>3. CASE Restart
  BY <1>3, SilentTypeInv
<1>4. CASE \E retries \in RetryValues : CreateCheck(retries)
  BY <1>4, EditTypeInv
<1>5. CASE \E c \in CheckIds, retries \in RetryValues, enabled \in {0, 1} : UpdateCheck(c, retries, enabled)
  BY <1>5, EditTypeInv
<1>6. CASE \E cs \in SUBSET rows : DeleteChecks(cs)
  BY <1>6, DeleteTypeInv
<1>7. CASE UNCHANGED vars
  BY <1>7, SilentTypeInv
<1>8. QED
  BY <1>1, <1>2, <1>3, <1>4, <1>5, <1>6, <1>7 DEF Next

\* Every variable of the runner keeps its type, and heartbeats are stamped in
\* the past, whatever the operator does.
THEOREM TypeInvariant == Spec => []TypeInv
<1>1. QED
  BY InitTypeInv, NextTypeInv, PTL DEF Spec

THEOREM TypeCorrect == Spec => []TypeOK
<1>1. TypeInv => TypeOK
  BY DEF TypeInv
<1>2. QED
  BY <1>1, TypeInvariant, PTL

-----------------------------------------------------------------------------
(* A check that is down has an open outage, also when jobs of one check    *)
(* overlap or outlive it: "down" is only ever written together with a new  *)
(* outage, and an outage is only ever closed together with "up".           *)

LEMMA AppendOpens ==
    ASSUME NEW os \in Seq(Outage), NEW from \in Nat
    PROVE  OpenAt(Append(os, [from |-> from, to |-> Open])) # {}
<1> DEFINE o == [from |-> from, to |-> Open]
<1>1. o \in Outage
  BY DEF Outage, Open
<1>2. /\ Append(os, o) \in Seq(Outage)
      /\ Len(Append(os, o)) = Len(os) + 1
      /\ Append(os, o)[Len(os) + 1] = o
  BY <1>1, AppendProperties
<1>3. Len(os) + 1 \in DOMAIN Append(os, o)
  BY <1>2
<1>4. Len(os) + 1 \in OpenAt(Append(os, o))
  BY <1>2, <1>3 DEF OpenAt
<1>5. QED
  BY <1>4

LEMMA RecordOkDown ==
    ASSUME TypeInv, DownHasOpenOutage, NEW jb \in jobs, RecordOk(jb)
    PROVE  DownHasOpenOutage'
<1> SUFFICES ASSUME NEW d \in rows', check'[d].state = "down"
             PROVE  OpenAt(outages'[d]) # {}
  BY DEF DownHasOpenOutage, OpenAt
<1>1. d \in rows /\ d \in CheckIds /\ check[d] \in Row
  BY DEF RecordOk, TypeInv, TypeOK
<1>2. CASE d = jb.check /\ jb.snap.state # "up"
  <2>1. check'[d] = RowAfterOk(check[d], jb.snap, NextClock)
    BY <1>1, <1>2 DEF RecordOk, UpdateRow, TypeInv, TypeOK
  <2>2. check'[d].state = "up"
    BY <1>1, <1>2, <2>1 DEF RowAfterOk, Row
  <2>3. QED
    BY <2>2
<1>3. CASE d = jb.check /\ jb.snap.state = "up"
  <2>1. check'[d] = RowAfterOk(check[d], jb.snap, NextClock) /\ outages' = outages
    BY <1>1, <1>3 DEF RecordOk, UpdateRow, TypeInv, TypeOK
  <2>2. check'[d].state = check[d].state
    BY <1>1, <1>3, <2>1 DEF RowAfterOk, Row
  <2>3. QED
    BY <1>1, <2>1, <2>2 DEF DownHasOpenOutage
<1>4. CASE d # jb.check
  <2>1. check'[d] = check[d] /\ outages'[d] = outages[d]
    BY <1>1, <1>4 DEF RecordOk, UpdateRow, TypeInv, TypeOK
  <2>2. QED
    BY <1>1, <2>1 DEF DownHasOpenOutage
<1>5. QED
  BY <1>2, <1>3, <1>4

LEMMA RecordFailDown ==
    ASSUME TypeInv, DownHasOpenOutage, NEW jb \in jobs, RecordFail(jb)
    PROVE  DownHasOpenOutage'
<1> SUFFICES ASSUME NEW d \in rows', check'[d].state = "down"
             PROVE  OpenAt(outages'[d]) # {}
  BY DEF DownHasOpenOutage, OpenAt
<1>1. d \in rows /\ d \in CheckIds /\ check[d] \in Row /\ outages[d] \in Seq(Outage)
  BY DEF RecordFail, TypeInv, TypeOK
<1>2. CASE d = jb.check /\ GoesDown(jb.snap)
  <2>1. FirstFail(d, NextClock) \in Nat
    <3>1. FirstFail(d, NextClock) \in 1..NextClock
      BY <1>1, FirstFailType
    <3>2. NextClock \in Nat
      BY DEF NextClock, TypeInv, TypeOK
    <3>3. QED
      BY <3>1, <3>2
  <2>2. outages'[d] = Append(outages[d], [from |-> FirstFail(d, NextClock), to |-> Open])
    BY <1>1, <1>2 DEF RecordFail, TypeInv, TypeOK
  <2>3. QED
    BY <1>1, <2>1, <2>2, AppendOpens
<1>3. CASE d = jb.check /\ ~GoesDown(jb.snap)
  <2>1. /\ check'[d] = RowAfterFail(check[d], jb.snap, FirstFail(d, NextClock))
        /\ outages' = outages
    BY <1>1, <1>3 DEF RecordFail, UpdateRow, TypeInv, TypeOK
  <2>2. check'[d].state = check[d].state
    BY <1>1, <1>3, <2>1 DEF RowAfterFail, Row
  <2>3. QED
    BY <1>1, <2>1, <2>2 DEF DownHasOpenOutage
<1>4. CASE d # jb.check
  <2>1. check'[d] = check[d] /\ outages'[d] = outages[d]
    BY <1>1, <1>4 DEF RecordFail, UpdateRow, TypeInv, TypeOK
  <2>2. QED
    BY <1>1, <2>1 DEF DownHasOpenOutage
<1>5. QED
  BY <1>2, <1>3, <1>4

LEMMA EditDown ==
    ASSUME TypeInv, DownHasOpenOutage, NEW retries \in RetryValues,
           \/ CreateCheck(retries)
           \/ \E c \in CheckIds, enabled \in {0, 1} : UpdateCheck(c, retries, enabled)
           \/ \E cs \in SUBSET rows : DeleteChecks(cs)
    PROVE  DownHasOpenOutage'
<1>1. CASE CreateCheck(retries)
  <2>1. \A d \in rows' : \/ d \in rows /\ check'[d] = check[d] /\ outages'[d] = outages[d]
                         \/ check'[d].state = "unknown"
    BY <1>1 DEF CreateCheck, NewRow, TypeInv, TypeOK
  <2>2. QED
    BY <2>1 DEF DownHasOpenOutage, OpenAt
<1>2. ASSUME NEW c \in CheckIds, NEW enabled \in {0, 1}, UpdateCheck(c, retries, enabled)
      PROVE  DownHasOpenOutage'
  <2>1. rows' = rows /\ outages' = outages
    BY <1>2 DEF UpdateCheck
  <2>2. check' = [check EXCEPT ![c] = [check[c] EXCEPT !.retries = retries, !.enabled = enabled]]
    BY <1>2 DEF UpdateCheck, TypeInv, TypeOK
  <2>3. \A d \in CheckIds : check[d] \in Row
    BY DEF TypeInv, TypeOK
  <2>4. \A d \in CheckIds : check'[d].state = check[d].state
    BY <2>2, <2>3 DEF Row, TypeInv, TypeOK
  <2>5. rows \subseteq CheckIds
    BY DEF TypeInv, TypeOK
  <2>6. QED
    BY <2>1, <2>4, <2>5 DEF DownHasOpenOutage, OpenAt
<1>3. ASSUME NEW cs \in SUBSET rows, DeleteChecks(cs)
      PROVE  DownHasOpenOutage'
  <2>1. \A d \in rows' : d \in rows /\ check'[d] = check[d] /\ outages'[d] = outages[d]
    BY <1>3 DEF DeleteChecks, TypeInv, TypeOK
  <2>2. QED
    BY <2>1 DEF DownHasOpenOutage, OpenAt
<1>4. QED
  BY <1>1, <1>2, <1>3

\* A check shown as down has an open outage, for all checks, jobs and bounds,
\* with manual runs and deletions.
THEOREM DownHasOpenOutageAlways == Spec => []DownHasOpenOutage
<1>1. Init => DownHasOpenOutage
  BY DEF Init, DownHasOpenOutage
<1>2. TypeInv /\ DownHasOpenOutage /\ [Next]_vars => DownHasOpenOutage'
  <2> SUFFICES ASSUME TypeInv, DownHasOpenOutage, [Next]_vars
               PROVE  DownHasOpenOutage'
    OBVIOUS
  <2>1. CASE UNCHANGED <<rows, check, outages>>
    BY <2>1 DEF DownHasOpenOutage, OpenAt
  <2>2. CASE \E c \in CheckIds, j \in JobIds : ScheduleCheck(c, j) \/ RunCheckNow(c, j)
    BY <2>1, <2>2 DEF ScheduleCheck, RunCheckNow, StartJob
  <2>3. CASE JobStep
    <3>1. PICK jb \in jobs : \/ AcquireSlot(jb) \/ RecordRolledBack(jb) \/ ProbeCrash(jb)
                            \/ RecordOk(jb) \/ RecordFail(jb)
      BY <2>3 DEF JobStep
    <3>2. CASE AcquireSlot(jb) \/ RecordRolledBack(jb) \/ ProbeCrash(jb)
      BY <2>1, <3>2 DEF AcquireSlot, RecordRolledBack, ProbeCrash
    <3>3. CASE RecordOk(jb)
      BY <3>3, RecordOkDown
    <3>4. CASE RecordFail(jb)
      BY <3>4, RecordFailDown
    <3>5. QED
      BY <3>1, <3>2, <3>3, <3>4
  <2>4. CASE \/ \E retries \in RetryValues : CreateCheck(retries)
             \/ \E c \in CheckIds, retries \in RetryValues, enabled \in {0, 1} :
                   UpdateCheck(c, retries, enabled)
             \/ \E cs \in SUBSET rows : DeleteChecks(cs)
    BY <2>4, EditDown, RetriesAssumption
  <2>5. CASE Restart \/ UNCHANGED vars
    BY <2>1, <2>5 DEF Restart, vars
  <2>6. QED
    BY <2>2, <2>3, <2>4, <2>5 DEF Next
<1>3. QED
  BY <1>1, <1>2, TypeInvariant, PTL DEF Spec

-----------------------------------------------------------------------------
(* The outage table only grows at its end, but for the ends of outages.    *)

NoOrphans == \A c \in CheckIds \ rows : outages[c] = <<>>

\* What the outages os of an id may become, with the successes oks.
Extends(os, after, oks) ==
    /\ Len(after) >= Len(os)
    /\ \A i \in DOMAIN os :
          after[i] # os[i] =>
              /\ os[i].to = Open
              /\ after[i].from = os[i].from
              /\ after[i].to \in oks

LEMMA ExtendsSelf ==
    ASSUME NEW os \in Seq(Outage), NEW oks
    PROVE  Extends(os, os, oks)
<1>1. Len(os) \in Nat
  OBVIOUS
<1>2. QED
  BY <1>1 DEF Extends

LEMMA ExtendsClosed ==
    ASSUME NEW os \in Seq(Outage), NEW ts \in Nat, NEW after \in Closed(os, ts), NEW oks, ts \in oks
    PROVE  Extends(os, after, oks) /\ (os = <<>> => after = <<>>)
<1>1. CASE OpenAt(os) = {}
  <2>1. after = os
    BY <1>1 DEF Closed
  <2>2. QED
    BY <2>1, ExtendsSelf
<1>2. CASE OpenAt(os) # {}
  <2>1. PICK i \in OpenAt(os) : after = [os EXCEPT ![i].to = ts]
    BY <1>2 DEF Closed
  <2>2. i \in 1..Len(os) /\ os[i] \in Outage /\ os[i].to = Open
    BY <2>1, ElementOfSeq DEF OpenAt
  <2>3. Len(after) = Len(os) /\ Len(os) \in Nat /\ Len(os) >= 1
    BY <2>2, ClosedType
  <2>4. \A k \in DOMAIN os : k # i => after[k] = os[k]
    BY <2>1
  <2>5. after[i] = [os[i] EXCEPT !.to = ts]
    BY <2>1, <2>2
  <2>6. after[i].from = os[i].from /\ after[i].to = ts
    BY <2>2, <2>5 DEF Outage
  <2>7. os # <<>>
    BY <2>3
  <2>8. QED
    BY <2>2, <2>3, <2>4, <2>6, <2>7 DEF Extends
<1>3. QED
  BY <1>1, <1>2

LEMMA ExtendsAppend ==
    ASSUME NEW os \in Seq(Outage), NEW o \in Outage, NEW oks
    PROVE  Extends(os, Append(os, o), oks)
<1>1. /\ Len(Append(os, o)) = Len(os) + 1 /\ Len(os) \in Nat
      /\ \A i \in 1..Len(os) : Append(os, o)[i] = os[i]
      /\ DOMAIN os = 1..Len(os)
  BY AppendProperties
<1>2. QED
  BY <1>1 DEF Extends

\* Every step keeps history, and leaves no outage without its check.
LEMMA HistoryStep ==
    ASSUME TypeInv, NoOrphans, [Next]_vars
    PROVE  /\ NoOrphans'
           /\ \A c \in CheckIds :
                 /\ c \notin rows => outages'[c] = <<>>
                 /\ c \in rows \cap rows' => Extends(outages[c], outages'[c], okBeats'[c])
<1>1. clock \in Nat /\ \A c \in CheckIds : outages[c] \in Seq(Outage)
  BY DEF TypeInv, TypeOK
<1>2. CASE outages' = outages /\ rows \subseteq rows'
  BY <1>1, <1>2, ExtendsSelf DEF NoOrphans
<1>3. ASSUME NEW cs \in SUBSET rows, DeleteChecks(cs)
      PROVE  /\ NoOrphans'
             /\ \A c \in CheckIds :
                   /\ c \notin rows => outages'[c] = <<>>
                   /\ c \in rows \cap rows' => Extends(outages[c], outages'[c], okBeats'[c])
  <2>1. /\ rows' = rows \ cs
        /\ \A c \in CheckIds : outages'[c] = IF c \in cs THEN <<>> ELSE outages[c]
    BY <1>3 DEF DeleteChecks
  <2>2. \A c \in rows \cap rows' : c \in CheckIds => outages'[c] = outages[c]
    BY <2>1
  <2>3. QED
    BY <1>1, <2>1, <2>2, ExtendsSelf DEF NoOrphans
<1>4. ASSUME NEW jb \in jobs, RecordOk(jb) \/ RecordFail(jb)
      PROVE  /\ NoOrphans'
             /\ \A c \in CheckIds :
                   /\ c \notin rows => outages'[c] = <<>>
                   /\ c \in rows \cap rows' => Extends(outages[c], outages'[c], okBeats'[c])
  <2> DEFINE d == jb.check
  <2>1. d \in CheckIds /\ rows' = rows
    BY <1>4 DEF RecordOk, RecordFail, TypeInv, TypeOK, Job
  <2>2. \A c \in CheckIds \ {d} : outages'[c] = outages[c]
    BY <1>4, <2>1 DEF RecordOk, RecordFail, TypeInv, TypeOK
  <2>3. /\ d \notin rows => outages'[d] = <<>>
        /\ d \in rows => Extends(outages[d], outages'[d], okBeats'[d])
    <3>1. CASE outages' = outages
      BY <1>1, <2>1, <3>1, ExtendsSelf DEF NoOrphans
    <3>2. CASE RecordOk(jb) /\ jb.snap.state # "up"
      <4>1. outages'[d] \in Closed(outages[d], NextClock)
        BY <2>1, <3>2 DEF RecordOk, TypeInv, TypeOK
      <4>2. NextClock \in okBeats'[d] /\ NextClock \in Nat
        BY <1>1, <2>1, <3>2 DEF RecordOk, NextClock, TypeInv, TypeOK
      <4>3. QED
        BY <1>1, <2>1, <4>1, <4>2, ExtendsClosed DEF NoOrphans
    <3>3. CASE RecordFail(jb) /\ GoesDown(jb.snap)
      <4> DEFINE o == [from |-> FirstFail(d, NextClock), to |-> Open]
      <4>1. d \in rows /\ outages'[d] = Append(outages[d], o)
        BY <2>1, <3>3 DEF RecordFail, TypeInv, TypeOK
      <4>2. o \in Outage
        <5>1. FirstFail(d, NextClock) \in 1..NextClock
          BY <2>1, FirstFailType
        <5>2. NextClock \in Nat
          BY <1>1 DEF NextClock
        <5>3. QED
          BY <5>1, <5>2 DEF Outage, Open
      <4> HIDE DEF o
      <4>3. QED
        BY <1>1, <2>1, <4>1, <4>2, ExtendsAppend
    <3>4. QED
      BY <1>4, <3>1, <3>2, <3>3 DEF RecordOk, RecordFail
  <2>4. \A c \in rows \cap rows' : c \in CheckIds \ {d} => Extends(outages[c], outages'[c], okBeats'[c])
    BY <1>1, <2>2, ExtendsSelf
  <2>5. QED
    BY <2>1, <2>2, <2>3, <2>4 DEF NoOrphans
<1>5. CASE \E c \in CheckIds, j \in JobIds : ScheduleCheck(c, j) \/ RunCheckNow(c, j)
  BY <1>2, <1>5 DEF ScheduleCheck, RunCheckNow, StartJob
<1>6. CASE JobStep
  <2>1. PICK jb \in jobs : \/ AcquireSlot(jb) \/ RecordRolledBack(jb) \/ ProbeCrash(jb)
                          \/ RecordOk(jb) \/ RecordFail(jb)
    BY <1>6 DEF JobStep
  <2>2. CASE AcquireSlot(jb) \/ RecordRolledBack(jb) \/ ProbeCrash(jb)
    BY <1>2, <2>2 DEF AcquireSlot, RecordRolledBack, ProbeCrash
  <2>3. CASE RecordOk(jb) \/ RecordFail(jb)
    BY <1>4, <2>3
  <2>4. QED
    BY <2>1, <2>2, <2>3
<1>7. CASE \/ Restart \/ UNCHANGED vars
           \/ \E retries \in RetryValues : CreateCheck(retries)
           \/ \E c \in CheckIds, retries \in RetryValues, enabled \in {0, 1} :
                 UpdateCheck(c, retries, enabled)
  BY <1>2, <1>7 DEF Restart, vars, CreateCheck, UpdateCheck
<1>8. CASE \E cs \in SUBSET rows : DeleteChecks(cs)
  BY <1>3, <1>8
<1>9. QED
  BY <1>5, <1>6, <1>7, <1>8 DEF Next

\* A job that outlives its check leaves no outage behind, and nothing but the success that ends
\* an outage changes one that is in the table, for all checks, jobs and bounds, with manual runs
\* and deletions (record_result, the cascade of delete_check).
THEOREM OutageHistoryKeptAlways == Spec => OutageHistoryKept
<1>1. Init => NoOrphans
  BY DEF Init, NoOrphans
<1>2. TypeInv /\ NoOrphans /\ [Next]_vars => NoOrphans'
  BY HistoryStep
<1>3. TypeInv /\ NoOrphans /\ [Next]_vars =>
          [\A c \in CheckIds :
             /\ c \notin rows => outages'[c] = <<>>
             /\ c \in rows \cap rows' =>
                   /\ Len(outages'[c]) >= Len(outages[c])
                   /\ \A i \in DOMAIN outages[c] :
                         outages'[c][i] # outages[c][i] =>
                             /\ outages[c][i].to = Open
                             /\ outages'[c][i].from = outages[c][i].from
                             /\ outages'[c][i].to \in okBeats'[c]]_vars
  BY HistoryStep DEF Extends
<1>4. QED
  BY <1>1, <1>2, <1>3, TypeInvariant, PTL DEF Spec, OutageHistoryKept

-----------------------------------------------------------------------------
(* Scheduled runs only.                                                    *)


ScheduledOnly == ~ManualRuns /\ ~Deletes

\* At most one job per check, whose snapshot agrees with the row.
SnapshotsFresh ==
    /\ \A jb \in jobs :
          /\ jb.check \in rows \cap inflight
          /\ jb.snap.state = check[jb.check].state
          /\ jb.snap.failCount = check[jb.check].failCount
    /\ \A jb, kb \in jobs : jb.check = kb.check => jb = kb

\* An id that no row has yet has left no trace, and some row has the largest id.
UnusedIds ==
    /\ \A c \in CheckIds \ rows : check[c] = NoRow /\ outages[c] = <<>>
    /\ \A c \in CheckIds \ rows : okBeats[c] = {} /\ failBeats[c] = {}
    /\ rows # {} => \E c \in rows : \A d \in rows : d <= c

\* fail_count is the number of failures since the last success.
StreakCounted ==
    \A c \in CheckIds :
        /\ IsFiniteSet(FailsSinceOk(c))
        /\ check[c].failCount = Cardinality(FailsSinceOk(c))

\* The outages os of a check in the given state.
Settled(os, oks, state, since, now) ==
    /\ \A i \in 1..Len(os) :
          /\ os[i].from \in 1..now
          /\ os[i].to # Open => os[i].to \in oks /\ os[i].from < os[i].to
    /\ \A i, k \in 1..Len(os) : i < k => os[i].to # Open /\ os[i].to < os[k].from
    /\ IF state = "down"
         THEN /\ Len(os) > 0
              /\ os[Len(os)].to = Open
              /\ os[Len(os)].from = since
         ELSE \A i \in 1..Len(os) : os[i].to # Open

OutagesSettled ==
    \A c \in CheckIds :
        Settled(outages[c], okBeats[c], check[c].state, check[c].since, clock)

SerialInv == TypeInv /\ SnapshotsFresh /\ UnusedIds /\ StreakCounted /\ OutagesSettled

-----------------------------------------------------------------------------
(* What the invariant says of the outages.                                 *)

LEMMA SettledOpen ==
    ASSUME NEW os \in Seq(Outage), NEW oks, NEW state, NEW since, NEW now,
           Settled(os, oks, state, since, now)
    PROVE  IF state = "down"
             THEN OpenAt(os) = {Len(os)} /\ Len(os) \in 1..Len(os) /\ os[Len(os)].from = since
             ELSE OpenAt(os) = {}
<1>1. DOMAIN os = 1..Len(os) /\ Len(os) \in Nat
  OBVIOUS
<1>2. CASE state = "down"
  <2>1. /\ Len(os) \in 1..Len(os)
        /\ os[Len(os)].to = Open
        /\ os[Len(os)].from = since
    BY <1>1, <1>2 DEF Settled
  <2>2. \A i \in 1..Len(os) : i # Len(os) => os[i].to # Open
    <3>1. \A i, k \in 1..Len(os) : i < k => os[i].to # Open
      BY DEF Settled
    <3>2. \A i \in 1..Len(os) : i # Len(os) => i < Len(os)
      <4>1. Len(os) \in Nat
        OBVIOUS
      <4>2. \A i, m \in Nat : i \in 1..m /\ i # m => i < m
        OBVIOUS
      <4>3. QED
        BY <4>1, <4>2
    <3>3. QED
      BY <2>1, <3>1, <3>2
  <2>3. OpenAt(os) = {Len(os)}
    BY <1>1, <2>1, <2>2 DEF OpenAt
  <2>4. QED
    BY <1>2, <2>1, <2>3
<1>3. CASE state # "down"
  BY <1>1, <1>3 DEF Settled, OpenAt
<1>4. QED
  BY <1>2, <1>3

\* Time passes and heartbeats arrive: nothing changes for the outages, unless
\* the state goes between "down" and another one.
LEMMA SettledLater ==
    ASSUME NEW os \in Seq(Outage), NEW oks, NEW state, NEW since, NEW now \in Nat,
           Settled(os, oks, state, since, now),
           NEW oks2, oks \subseteq oks2, NEW state2, NEW since2, NEW now2 \in Nat, now <= now2,
           IF state = "down" THEN state2 = "down" /\ since2 = since ELSE state2 # "down"
    PROVE  Settled(os, oks2, state2, since2, now2)
<1>1. \A i \in 1..Len(os) : os[i].from \in 1..now2
  BY DEF Settled
<1>2. QED
  BY <1>1 DEF Settled

\* A success closes the open outage.
LEMMA SettledClosed ==
    ASSUME NEW os \in Seq(Outage), NEW oks, NEW since, NEW now \in Nat,
           Settled(os, oks, "down", since, now),
           NEW after \in Closed(os, now + 1), NEW since2
    PROVE  /\ after = [os EXCEPT ![Len(os)].to = now + 1]
           /\ Settled(after, oks \cup {now + 1}, "up", since2, now + 1)
<1> DEFINE n == Len(os)
<1>1. OpenAt(os) = {n} /\ n \in 1..n
  BY SettledOpen
<1>2. after = [os EXCEPT ![n].to = now + 1]
  BY <1>1 DEF Closed
<1>3. after \in Seq(Outage) /\ Len(after) = n
  BY ClosedType
<1>4. \A i \in 1..n : os[i] \in Outage /\ os[i].from \in Nat /\ os[i].to \in Nat
  <2>1. \A i \in 1..n : os[i] \in Outage
    BY ElementOfSeq
  <2>2. QED
    BY <2>1 DEF Outage
<1>5. after[n].to = now + 1 /\ after[n].from = os[n].from
  <2>1. after[n] = [os[n] EXCEPT !.to = now + 1]
    BY <1>1, <1>2
  <2>2. os[n] \in Outage
    BY <1>1, <1>4
  <2>3. QED
    BY <2>1, <2>2 DEF Outage
<1>6. \A i \in 1..n : i # n => after[i] = os[i]
  BY <1>1, <1>2
<1>7. \A i \in 1..n : i # n => i < n
  BY <1>1
<1>8. \A i \in 1..n : after[i].from = os[i].from /\ after[i].from \in 1..now
  BY <1>5, <1>6 DEF Settled
<1>9. \A i \in 1..n : i # n => after[i].to = os[i].to /\ os[i].to # Open
  BY <1>1, <1>6, <1>7 DEF Settled
<1>10. \A i \in 1..n : /\ after[i].from \in 1..(now + 1)
                       /\ after[i].to # Open
                       /\ after[i].to \in oks \cup {now + 1}
                       /\ after[i].from < after[i].to
  <2>1. ASSUME NEW i \in 1..n, i # n
        PROVE  after[i].to \in oks /\ after[i].to # Open /\ after[i].from < after[i].to
    BY <1>8, <1>9, <2>1 DEF Settled
  <2>2. now + 1 # Open /\ os[n].from < now + 1 /\ os[n].from \in Nat
    BY <1>1, <1>8 DEF Open
  <2>3. QED
    BY <1>5, <1>8, <2>1, <2>2
<1>11. \A i, k \in 1..n : i < k => after[i].to # Open /\ after[i].to < after[k].from
  <2>1. ASSUME NEW i \in 1..n, NEW k \in 1..n, i < k
        PROVE  after[i].to # Open /\ after[i].to < after[k].from
    <3>1. i # n
      BY <1>1, <2>1
    <3>2. os[i].to < os[k].from
      BY <2>1 DEF Settled
    <3>3. QED
      BY <1>8, <1>9, <3>1, <3>2
  <2>2. QED
    BY <2>1
<1>12. QED
  BY <1>2, <1>3, <1>10, <1>11 DEF Settled

\* A failure opens one, later than every success.
LEMMA SettledOpened ==
    ASSUME NEW os \in Seq(Outage), NEW oks \in SUBSET Nat, NEW state, NEW since, NEW now \in Nat,
           Settled(os, oks, state, since, now), state # "down",
           NEW first \in 1..(now + 1), \A u \in oks : u < first
    PROVE  Settled(Append(os, [from |-> first, to |-> Open]), oks, "down", first, now + 1)
<1> DEFINE n == Len(os)
           o == [from |-> first, to |-> Open]
           after == Append(os, o)
<1>1. o \in Outage /\ o.from = first /\ o.to = Open
  BY DEF Outage, Open
<1>2. /\ after \in Seq(Outage)
      /\ Len(after) = n + 1
      /\ \A i \in 1..n : after[i] = os[i]
      /\ after[n + 1] = o
      /\ n \in Nat
  BY <1>1, AppendProperties
<1> HIDE DEF o, after, n
<1>3. \A i \in 1..(n + 1) : i # n + 1 => i \in 1..n
  BY <1>2
<1>4. \A i \in 1..n : /\ os[i].from \in 1..now /\ os[i].to # Open
                      /\ os[i].to \in oks /\ os[i].from < os[i].to
  BY DEF Settled, n
<1>5. \A i \in 1..(n + 1) : /\ after[i].from \in 1..(now + 1)
                            /\ after[i].to # Open => /\ after[i].to \in oks
                                                     /\ after[i].from < after[i].to
  <2>1. ASSUME NEW i \in 1..(n + 1), i # n + 1
        PROVE  /\ after[i].from \in 1..(now + 1)
               /\ after[i].to \in oks
               /\ after[i].from < after[i].to
    <3>1. i \in 1..n
      BY <1>3, <2>1
    <3>2. QED
      BY <1>2, <1>4, <3>1
  <2>2. QED
    BY <1>1, <1>2, <2>1
<1>6. ASSUME NEW i \in 1..(n + 1), NEW k \in 1..(n + 1), i < k
      PROVE  after[i].to # Open /\ after[i].to < after[k].from
  <2>1. i \in 1..n /\ after[i] = os[i]
    BY <1>2, <1>3, <1>6
  <2>2. CASE k = n + 1
    BY <1>1, <1>2, <1>4, <2>1, <2>2
  <2>3. CASE k # n + 1
    <3>1. k \in 1..n /\ after[k] = os[k]
      BY <1>2, <1>3, <2>3
    <3>2. QED
      BY <1>6, <2>1, <3>1 DEF Settled, n
  <2>4. QED
    BY <2>2, <2>3
<1>7. Len(after) > 0 /\ after[Len(after)].to = Open /\ after[Len(after)].from = first
  BY <1>1, <1>2
<1>8. Settled(after, oks, "down", first, now + 1)
  BY <1>2, <1>5, <1>6, <1>7 DEF Settled
<1>9. QED
  BY <1>8 DEF after, o

-----------------------------------------------------------------------------
(* The steps.                                                              *)

LEMMA InitSerial == Init => SerialInv
<1> SUFFICES ASSUME Init PROVE SerialInv
  OBVIOUS
<1>1. TypeInv
  BY InitTypeInv
<1>2. SnapshotsFresh
  BY DEF Init, SnapshotsFresh
<1>3. UnusedIds
  BY DEF Init, UnusedIds
<1>4. StreakCounted
  <2>1. \A c \in CheckIds : FailsSinceOk(c) = {} /\ check[c].failCount = 0
    BY DEF Init, FailsSinceOk, NoRow, NewRow
  <2>2. QED
    BY <2>1, FS_EmptySet DEF StreakCounted
<1>5. OutagesSettled
  <2>1. \A c \in CheckIds : outages[c] = <<>> /\ check[c].state = "unknown"
    BY DEF Init, NoRow, NewRow
  <2>2. Len(<<>>) = 0 /\ 1..0 = {}
    BY EmptySeq
  <2>3. QED
    BY <2>1, <2>2 DEF OutagesSettled, Settled
<1>6. QED
  BY <1>1, <1>2, <1>3, <1>4, <1>5 DEF SerialInv

\* The loop starts a job only for a check that has none.
LEMMA ScheduleSerial ==
    ASSUME SerialInv, NEW c \in CheckIds, NEW j \in JobIds, ScheduleCheck(c, j)
    PROVE  SerialInv'
<1>1. TypeInv'
  BY StartJobTypeInv DEF SerialInv, ScheduleCheck
<1>2. UNCHANGED <<rows, check, okBeats, failBeats, outages, clock>>
  BY DEF ScheduleCheck, StartJob
<1>3. SnapshotsFresh'
  <2> DEFINE new == [id |-> j, check |-> c, snap |-> SnapshotOf(c), phase |-> "queued"]
  <2>1. jobs' = jobs \cup {new} /\ inflight' = inflight \cup {c} /\ c \in rows /\ c \notin inflight
    BY DEF ScheduleCheck, StartJob
  <2>2. new.check = c /\ new.snap.state = check[c].state /\ new.snap.failCount = check[c].failCount
    BY DEF SnapshotOf
  <2>3. \A jb \in jobs : jb.check # c
    BY <2>1 DEF SerialInv, SnapshotsFresh
  <2> HIDE DEF new
  <2>4. QED
    BY <1>2, <2>1, <2>2, <2>3 DEF SerialInv, SnapshotsFresh
<1>4. UnusedIds' /\ StreakCounted' /\ OutagesSettled'
  BY <1>2 DEF SerialInv, UnusedIds, StreakCounted, OutagesSettled, FailsSinceOk
<1>5. QED
  BY <1>1, <1>3, <1>4 DEF SerialInv

LEMMA SilentSerial ==
    ASSUME SerialInv,
           \/ \E jb \in jobs : AcquireSlot(jb) \/ RecordRolledBack(jb) \/ ProbeCrash(jb)
           \/ Restart
           \/ UNCHANGED vars
    PROVE  SerialInv'
<1>1. TypeInv'
  BY SilentTypeInv DEF SerialInv
<1>2. UNCHANGED <<rows, check, okBeats, failBeats, outages, clock>>
  BY DEF AcquireSlot, RecordRolledBack, ProbeCrash, Restart, vars
<1>3. SnapshotsFresh'
  <2>1. ASSUME NEW jb \in jobs, AcquireSlot(jb)
        PROVE  SnapshotsFresh'
    <3> DEFINE kb == [jb EXCEPT !.phase = "probing"]
    <3>1. jobs' = (jobs \ {jb}) \cup {kb} /\ inflight' = inflight
      BY <2>1 DEF AcquireSlot
    <3>2. kb.check = jb.check /\ kb.snap = jb.snap
      BY DEF SerialInv, TypeInv, TypeOK, Job
    <3> HIDE DEF kb
    <3>3. QED
      BY <1>2, <3>1, <3>2 DEF SerialInv, SnapshotsFresh
  <2>2. ASSUME NEW jb \in jobs, FinishJob(jb)
        PROVE  SnapshotsFresh'
    BY <1>2, <2>2 DEF FinishJob, SerialInv, SnapshotsFresh
  <2>3. CASE Restart
    BY <2>3 DEF Restart, SnapshotsFresh
  <2>4. CASE UNCHANGED vars
    BY <2>4 DEF vars, SerialInv, SnapshotsFresh
  <2>5. QED
    BY <2>1, <2>2, <2>3, <2>4 DEF RecordRolledBack, ProbeCrash
<1>4. UnusedIds' /\ StreakCounted' /\ OutagesSettled'
  BY <1>2 DEF SerialInv, UnusedIds, StreakCounted, OutagesSettled, FailsSinceOk
<1>5. QED
  BY <1>1, <1>3, <1>4 DEF SerialInv

\* What a recording step leaves alone: the other checks, and the other jobs.
LEMMA RecordOthers ==
    ASSUME SerialInv, NEW jb \in jobs, RecordOk(jb) \/ RecordFail(jb)
    PROVE  /\ jb.check \in rows /\ jb.check \in CheckIds
           /\ rows' = rows
           /\ \A d \in CheckIds \ {jb.check} :
                 /\ check'[d] = check[d] /\ outages'[d] = outages[d]
                 /\ okBeats'[d] = okBeats[d] /\ failBeats'[d] = failBeats[d]
                 /\ FailsSinceOk(d)' = FailsSinceOk(d)
           /\ SnapshotsFresh'
           /\ UnusedIds'
<1>1. jb.check \in rows /\ jb.check \in CheckIds
  BY DEF SerialInv, SnapshotsFresh, TypeInv, TypeOK
<1>2. rows' = rows /\ jobs' = jobs \ {jb} /\ inflight' = inflight \ {jb.check}
  BY DEF RecordOk, RecordFail, FinishJob
<1>3. \A d \in CheckIds \ {jb.check} :
         /\ check'[d] = check[d]
         /\ outages'[d] = outages[d]
         /\ okBeats'[d] = okBeats[d] /\ failBeats'[d] = failBeats[d]
  <2>1. CASE RecordOk(jb)
    BY <2>1 DEF RecordOk, UpdateRow, SerialInv, TypeInv, TypeOK
  <2>2. CASE RecordFail(jb)
    BY <2>2 DEF RecordFail, UpdateRow, SerialInv, TypeInv, TypeOK
  <2>3. QED
    BY <2>1, <2>2
<1>4. \A kb \in jobs \ {jb} : kb.check # jb.check /\ kb.check \in CheckIds
  BY DEF SerialInv, SnapshotsFresh, TypeInv, TypeOK, Job
<1>5. SnapshotsFresh'
  BY <1>2, <1>3, <1>4 DEF SerialInv, SnapshotsFresh
<1>6. UnusedIds'
  BY <1>1, <1>2, <1>3 DEF SerialInv, UnusedIds
<1>7. QED
  BY <1>1, <1>2, <1>3, <1>5, <1>6 DEF FailsSinceOk

\* The new state of a check whose probe succeeded: as if nothing had happened
\* between the snapshot and the write.
LEMMA RecordOkEffect ==
    ASSUME SerialInv, NEW jb \in jobs, RecordOk(jb)
    PROVE  LET c == jb.check IN
           /\ check'[c].state = "up" /\ check'[c].failCount = 0
           /\ check[c].state # "down" => outages'[c] = outages[c]
           /\ check[c].state = "down" =>
                 outages'[c] = [outages[c] EXCEPT ![Len(outages[c])].to = NextClock]
           /\ Settled(outages'[c], okBeats'[c], "up", check'[c].since, NextClock)
<1> DEFINE c == jb.check
<1>1. /\ c \in CheckIds /\ c \in rows /\ check[c] \in Row /\ outages[c] \in Seq(Outage)
      /\ clock \in Nat /\ NextClock = clock + 1
      /\ jb.snap.state = check[c].state
  BY RecordOthers DEF SerialInv, SnapshotsFresh, TypeInv, TypeOK, NextClock
<1>2. check'[c] = RowAfterOk(check[c], jb.snap, NextClock)
  BY <1>1 DEF RecordOk, UpdateRow, SerialInv, TypeInv, TypeOK
<1>3. check'[c].state = "up" /\ check'[c].failCount = 0
  BY <1>1, <1>2 DEF RowAfterOk, Row
<1>4. okBeats'[c] = okBeats[c] \cup {NextClock}
  BY <1>1 DEF RecordOk, SerialInv, TypeInv, TypeOK
<1>5. Settled(outages[c], okBeats[c], check[c].state, check[c].since, clock)
  BY <1>1 DEF SerialInv, OutagesSettled
<1>6. CASE check[c].state # "down"
  <2>1. outages'[c] = outages[c]
    <3>1. OpenAt(outages[c]) = {}
      BY <1>1, <1>5, <1>6, SettledOpen
    <3>2. Closed(outages[c], NextClock) = {outages[c]}
      BY <3>1 DEF Closed
    <3>3. QED
      BY <1>1, <3>2 DEF RecordOk, SerialInv, TypeInv, TypeOK
  <2>2. Settled(outages[c], okBeats'[c], "up", check'[c].since, NextClock)
    BY <1>1, <1>4, <1>5, <1>6, SettledLater
  <2>3. QED
    BY <1>3, <1>6, <2>1, <2>2
<1>7. CASE check[c].state = "down"
  <2>1. outages'[c] \in Closed(outages[c], clock + 1)
    BY <1>1, <1>7 DEF RecordOk, SerialInv, TypeInv, TypeOK
  <2>2. Settled(outages[c], okBeats[c], "down", check[c].since, clock)
    BY <1>5, <1>7
  <2>3. /\ outages'[c] = [outages[c] EXCEPT ![Len(outages[c])].to = clock + 1]
        /\ Settled(outages'[c], okBeats[c] \cup {clock + 1}, "up", check'[c].since, clock + 1)
    BY <1>1, <2>1, <2>2, SettledClosed
  <2>4. QED
    BY <1>1, <1>3, <1>4, <1>7, <2>3
<1>8. QED
  BY <1>6, <1>7

\* The new state of a check whose probe failed.
LEMMA RecordFailEffect ==
    ASSUME SerialInv, NEW jb \in jobs, RecordFail(jb)
    PROVE  LET c == jb.check
               goesDown == check[c].state # "down" /\ check[c].failCount + 1 > jb.snap.retries
           IN
           /\ check'[c].failCount = check[c].failCount + 1
           /\ check'[c].state = IF goesDown THEN "down" ELSE check[c].state
           /\ outages'[c] = IF goesDown
                              THEN Append(outages[c], [from |-> FirstFail(c, NextClock), to |-> Open])
                              ELSE outages[c]
           /\ Settled(outages'[c], okBeats'[c], check'[c].state, check'[c].since, NextClock)
<1> DEFINE c == jb.check
           first == FirstFail(c, NextClock)
<1>1. /\ c \in CheckIds /\ c \in rows /\ check[c] \in Row /\ outages[c] \in Seq(Outage)
      /\ clock \in Nat /\ NextClock = clock + 1
      /\ jb.snap.state = check[c].state /\ jb.snap.failCount = check[c].failCount
  BY RecordOthers DEF SerialInv, SnapshotsFresh, TypeInv, TypeOK, NextClock
<1>2. check'[c] = RowAfterFail(check[c], jb.snap, first)
  BY <1>1 DEF RecordFail, UpdateRow, SerialInv, TypeInv, TypeOK
<1>3. okBeats' = okBeats
  BY DEF RecordFail
<1>4. Settled(outages[c], okBeats[c], check[c].state, check[c].since, clock)
  BY <1>1 DEF SerialInv, OutagesSettled
<1>5. CASE GoesDown(jb.snap)
  <2>1. /\ check'[c].failCount = check[c].failCount + 1
        /\ check'[c].state = "down"
        /\ check'[c].since = first
    BY <1>1, <1>2, <1>5 DEF RowAfterFail, Row
  <2>2. outages'[c] = Append(outages[c], [from |-> first, to |-> Open])
    BY <1>1, <1>5 DEF RecordFail, SerialInv, TypeInv, TypeOK
  <2>3. check[c].state # "down" /\ check[c].failCount + 1 > jb.snap.retries
    BY <1>1, <1>5 DEF GoesDown
  <2>4. first \in 1..(clock + 1) /\ first \in FailsSinceOk(c) \cup {clock + 1}
    BY <1>1, FirstFailType DEF SerialInv
  <2>5. okBeats[c] \subseteq 1..clock
    BY <1>1 DEF SerialInv, TypeInv, BeatsPast
  <2>6. \A u \in okBeats[c] : u < first
    <3>1. CASE first = clock + 1
      BY <1>1, <2>5, <3>1
    <3>2. CASE first \in FailsSinceOk(c)
      BY <3>2 DEF FailsSinceOk
    <3>3. QED
      BY <2>4, <3>1, <3>2
  <2>7. okBeats[c] \in SUBSET Nat
    BY <1>1 DEF SerialInv, TypeInv, TypeOK
  <2>8. Settled(Append(outages[c], [from |-> first, to |-> Open]), okBeats[c], "down", first, clock + 1)
    <3> HIDE DEF first, c
    <3>1. QED
      BY <1>1, <1>4, <2>3, <2>4, <2>6, <2>7, SettledOpened
  <2>9. QED
    BY <1>1, <1>3, <2>1, <2>2, <2>3, <2>8
<1>6. CASE ~GoesDown(jb.snap)
  <2>1. /\ check'[c].failCount = check[c].failCount + 1
        /\ check'[c].state = check[c].state
        /\ check'[c].since = check[c].since
    BY <1>1, <1>2, <1>6 DEF RowAfterFail, Row
  <2>2. outages'[c] = outages[c]
    BY <1>6 DEF RecordFail
  <2>3. ~(check[c].state # "down" /\ check[c].failCount + 1 > jb.snap.retries)
    BY <1>1, <1>6 DEF GoesDown
  <2>4. Settled(outages[c], okBeats[c], check[c].state, check[c].since, clock + 1)
    BY <1>1, <1>4, SettledLater
  <2>5. QED
    BY <1>1, <1>3, <2>1, <2>2, <2>3, <2>4
<1>7. QED
  BY <1>5, <1>6

LEMMA RecordSerial ==
    ASSUME SerialInv, NEW jb \in jobs, RecordOk(jb) \/ RecordFail(jb)
    PROVE  SerialInv'
<1> DEFINE c == jb.check
<1>1. TypeInv'
  BY RecordOkTypeInv, RecordFailTypeInv DEF SerialInv
<1>2. SnapshotsFresh' /\ UnusedIds' /\ c \in CheckIds
  BY RecordOthers
<1>3. clock \in Nat /\ clock' = NextClock /\ NextClock = clock + 1
  BY DEF RecordOk, RecordFail, SerialInv, TypeInv, TypeOK, NextClock
<1>4. \A d \in CheckIds \ {c} :
         /\ check'[d] = check[d] /\ outages'[d] = outages[d] /\ okBeats'[d] = okBeats[d]
         /\ FailsSinceOk(d)' = FailsSinceOk(d)
  BY RecordOthers
<1>5. StreakCounted'
  <2>1. IsFiniteSet(FailsSinceOk(c)) /\ check[c].failCount = Cardinality(FailsSinceOk(c))
    BY <1>2 DEF SerialInv, StreakCounted
  <2>2. CASE RecordOk(jb)
    <3>1. FailsSinceOk(c)' = {} /\ check'[c].failCount = 0
      BY <2>2, StreakAfterOk, RecordOkEffect DEF SerialInv
    <3>2. IsFiniteSet(FailsSinceOk(c)') /\ check'[c].failCount = Cardinality(FailsSinceOk(c)')
      BY <3>1, FS_EmptySet
    <3>3. QED
      BY <1>4, <3>2 DEF SerialInv, StreakCounted
  <2>3. CASE RecordFail(jb)
    <3>1. FailsSinceOk(c)' = FailsSinceOk(c) \cup {NextClock}
      BY <2>3, StreakAfterFail DEF SerialInv
    <3>2. check'[c].failCount = check[c].failCount + 1
      BY <2>3, RecordFailEffect
    <3>3. NextClock \notin FailsSinceOk(c)
      <4>1. FailsSinceOk(c) \subseteq 1..clock
        BY <1>2 DEF SerialInv, TypeInv, BeatsPast, FailsSinceOk
      <4>2. QED
        BY <1>3, <4>1
    <3>4. /\ IsFiniteSet(FailsSinceOk(c)')
          /\ Cardinality(FailsSinceOk(c)') = Cardinality(FailsSinceOk(c)) + 1
      BY <2>1, <3>1, <3>3, FS_AddElement
    <3>5. IsFiniteSet(FailsSinceOk(c)') /\ check'[c].failCount = Cardinality(FailsSinceOk(c)')
      BY <2>1, <3>2, <3>4
    <3>6. QED
      BY <1>4, <3>5 DEF SerialInv, StreakCounted
  <2>4. QED
    BY <2>2, <2>3
<1>6. OutagesSettled'
  <2>1. Settled(outages'[c], okBeats'[c], check'[c].state, check'[c].since, clock')
    <3>1. CASE RecordOk(jb)
      <4>1. /\ Settled(outages'[c], okBeats'[c], "up", check'[c].since, NextClock)
            /\ check'[c].state = "up"
        BY <3>1, RecordOkEffect
      <4>2. QED
        BY <1>3, <4>1
    <3>2. CASE RecordFail(jb)
      <4>1. Settled(outages'[c], okBeats'[c], check'[c].state, check'[c].since, NextClock)
        BY <3>2, RecordFailEffect
      <4>2. QED
        BY <1>3, <4>1
    <3>3. QED
      BY <3>1, <3>2
  <2>2. ASSUME NEW d \in CheckIds \ {c}
        PROVE  Settled(outages'[d], okBeats'[d], check'[d].state, check'[d].since, clock')
    <3>1. Settled(outages[d], okBeats[d], check[d].state, check[d].since, clock)
      BY DEF SerialInv, OutagesSettled
    <3>2. outages[d] \in Seq(Outage) /\ clock <= clock' /\ clock' \in Nat
      BY <1>3 DEF SerialInv, TypeInv, TypeOK
    <3>3. Settled(outages[d], okBeats[d], check[d].state, check[d].since, clock')
      BY <1>3, <3>1, <3>2, SettledLater
    <3>4. QED
      BY <1>4, <3>3
  <2>3. QED
    BY <2>1, <2>2 DEF OutagesSettled, Settled
<1>7. QED
  BY <1>1, <1>2, <1>5, <1>6 DEF SerialInv

\* Creating a check takes an id no heartbeat or outage refers to; editing one
\* touches no column of the state machine.
LEMMA CreateSerial ==
    ASSUME SerialInv, NEW retries \in RetryValues, CreateCheck(retries)
    PROVE  /\ SerialInv'
           /\ \A d \in CheckIds : /\ check'[d].state = check[d].state
                                 /\ check'[d].failCount = check[d].failCount
<1>1. FreshId \in CheckIds \ rows /\ \A d \in rows : d <= FreshId
  <2>1. FreshId \in CheckIds /\ rows \subseteq CheckIds /\ CheckIds \subseteq Nat
    BY CheckIdsAssumption DEF CreateCheck, SerialInv, TypeInv, TypeOK
  <2>2. CASE rows = {}
    BY <2>1, <2>2
  <2>3. CASE rows # {}
    <3> DEFINE m == CHOOSE c \in rows : \A d \in rows : d <= c
    <3>1. \E c \in rows : \A d \in rows : d <= c
      BY <2>3 DEF SerialInv, UnusedIds
    <3>2. m \in rows /\ \A d \in rows : d <= m
      BY <3>1
    <3>3. FreshId = 1 + m
      BY <2>3 DEF FreshId
    <3> HIDE DEF m
    <3>4. QED
      BY <2>1, <3>2, <3>3
  <2>4. QED
    BY <2>2, <2>3
<1>2. /\ rows' = rows \cup {FreshId}
      /\ check' = [check EXCEPT ![FreshId] = NewRow(retries)]
      /\ UNCHANGED <<okBeats, failBeats, outages, jobs, inflight, clock>>
  BY DEF CreateCheck
<1>3. check[FreshId] = NoRow /\ outages[FreshId] = <<>>
  BY <1>1 DEF SerialInv, UnusedIds
<1>4. \A d \in CheckIds : /\ check'[d].state = check[d].state
                        /\ check'[d].failCount = check[d].failCount
                        /\ check'[d].since = check[d].since
  BY <1>2, <1>3 DEF NoRow, NewRow, SerialInv, TypeInv, TypeOK
<1>5. TypeInv'
  BY EditTypeInv DEF SerialInv
<1>6. SnapshotsFresh'
  BY <1>2, <1>4 DEF SerialInv, SnapshotsFresh, TypeInv, TypeOK
<1>7. UnusedIds'
  <2>1. \E c \in rows' : \A d \in rows' : d <= c
    <3>1. FreshId <= FreshId
      BY <1>1, CheckIdsAssumption
    <3>2. QED
      BY <1>1, <1>2, <3>1
  <2>2. \A c \in CheckIds \ rows' : c \in CheckIds \ rows /\ check'[c] = check[c]
    BY <1>2 DEF SerialInv, TypeInv, TypeOK
  <2>3. QED
    BY <1>2, <2>1, <2>2 DEF SerialInv, UnusedIds
<1>8. StreakCounted' /\ OutagesSettled'
  BY <1>2, <1>4 DEF SerialInv, StreakCounted, OutagesSettled, FailsSinceOk
<1>9. QED
  BY <1>4, <1>5, <1>6, <1>7, <1>8 DEF SerialInv

LEMMA UpdateSerial ==
    ASSUME SerialInv, NEW retries \in RetryValues, NEW c \in CheckIds, NEW enabled \in {0, 1},
           UpdateCheck(c, retries, enabled)
    PROVE  /\ SerialInv'
           /\ \A d \in CheckIds : /\ check'[d].state = check[d].state
                                 /\ check'[d].failCount = check[d].failCount
<1>1. /\ c \in rows
      /\ check' = [check EXCEPT ![c] = [check[c] EXCEPT !.retries = retries, !.enabled = enabled]]
      /\ UNCHANGED <<rows, okBeats, failBeats, outages, jobs, inflight, clock>>
  BY DEF UpdateCheck, SerialInv, TypeInv, TypeOK
<1>2. \A d \in CheckIds : check[d] \in Row
  BY DEF SerialInv, TypeInv, TypeOK
<1>3. \A d \in CheckIds : /\ check'[d].state = check[d].state
                        /\ check'[d].failCount = check[d].failCount
                        /\ check'[d].since = check[d].since
  BY <1>1, <1>2 DEF Row, SerialInv, TypeInv, TypeOK
<1>4. TypeInv'
  BY EditTypeInv DEF SerialInv
<1>5. SnapshotsFresh'
  BY <1>1, <1>3 DEF SerialInv, SnapshotsFresh, TypeInv, TypeOK
<1>6. UnusedIds'
  BY <1>1 DEF SerialInv, UnusedIds, TypeInv, TypeOK
<1>7. StreakCounted' /\ OutagesSettled'
  BY <1>1, <1>3 DEF SerialInv, StreakCounted, OutagesSettled, FailsSinceOk
<1>8. QED
  BY <1>3, <1>4, <1>5, <1>6, <1>7 DEF SerialInv

\* The inductive invariant.
LEMMA SerialInvariant ==
    ASSUME ScheduledOnly
    PROVE  Spec => []SerialInv
<1>1. SerialInv /\ [Next]_vars => SerialInv'
  <2> SUFFICES ASSUME SerialInv, [Next]_vars PROVE SerialInv'
    OBVIOUS
  <2>1. CASE \E c \in CheckIds, j \in JobIds : ScheduleCheck(c, j) \/ RunCheckNow(c, j)
    BY <2>1, ScheduleSerial DEF RunCheckNow, ScheduledOnly
  <2>2. CASE JobStep
    BY <2>2, RecordSerial, SilentSerial DEF JobStep
  <2>3. CASE Restart \/ UNCHANGED vars
    BY <2>3, SilentSerial
  <2>4. CASE \E retries \in RetryValues : CreateCheck(retries)
    BY <2>4, CreateSerial
  <2>5. CASE \E c \in CheckIds, retries \in RetryValues, enabled \in {0, 1} : UpdateCheck(c, retries, enabled)
    BY <2>5, UpdateSerial
  <2>6. CASE \E cs \in SUBSET rows : DeleteChecks(cs)
    BY <2>6 DEF DeleteChecks, ScheduledOnly
  <2>7. QED
    BY <2>1, <2>2, <2>3, <2>4, <2>5, <2>6 DEF Next
<1>2. QED
  BY <1>1, InitSerial, PTL DEF Spec

-----------------------------------------------------------------------------
(* The theorems.                                                           *)

\* State column and outage table agree: a check that is down has one open
\* outage, its latest, and any other check has none.
THEOREM OutageMatchesStateAlways ==
    ASSUME ScheduledOnly
    PROVE  Spec => []OutageMatchesState
<1>1. SerialInv => OutageMatchesState
  <2> SUFFICES ASSUME SerialInv, NEW c \in rows
               PROVE  IF check[c].state = "down"
                        THEN /\ OpenAt(outages[c]) = {Len(outages[c])}
                             /\ outages[c][Len(outages[c])].from = check[c].since
                        ELSE OpenAt(outages[c]) = {}
    BY DEF OutageMatchesState
  <2>1. c \in CheckIds /\ outages[c] \in Seq(Outage)
    BY DEF SerialInv, TypeInv, TypeOK
  <2>2. Settled(outages[c], okBeats[c], check[c].state, check[c].since, clock)
    BY <2>1 DEF SerialInv, OutagesSettled
  <2>3. QED
    BY <2>1, <2>2, SettledOpen
<1>2. QED
  BY <1>1, SerialInvariant, PTL

\* The backdated outages of a check never touch one another.
THEOREM OutagesDisjointAlways ==
    ASSUME ScheduledOnly
    PROVE  Spec => []OutagesDisjoint
<1>1. SerialInv => OutagesDisjoint
  <2> SUFFICES ASSUME SerialInv, NEW c \in CheckIds,
                      NEW i \in DOMAIN outages[c], NEW k \in DOMAIN outages[c], i < k
               PROVE  /\ outages[c][i].from < outages[c][i].to
                      /\ outages[c][i].to < outages[c][k].from
    BY DEF OutagesDisjoint
  <2>1. i \in 1..Len(outages[c]) /\ k \in 1..Len(outages[c])
    BY DEF SerialInv, TypeInv, TypeOK
  <2>2. Settled(outages[c], okBeats[c], check[c].state, check[c].since, clock)
    BY DEF SerialInv, OutagesSettled
  <2>3. QED
    BY <2>1, <2>2 DEF Settled
<1>2. QED
  BY <1>1, SerialInvariant, PTL

\* fail_count counts the failures since the last success.
THEOREM FailCountIsStreakAlways ==
    ASSUME ScheduledOnly
    PROVE  Spec => []FailCountIsStreak
<1>1. SerialInv => FailCountIsStreak
  BY DEF SerialInv, StreakCounted, FailCountIsStreak, TypeInv, TypeOK
<1>2. QED
  BY <1>1, SerialInvariant, PTL

-----------------------------------------------------------------------------
(* Outages and heartbeats.                                                 *)

\* What the invariant adds about a check: its heartbeats, and where outages os begin.
RunsOf(os, oks, fails) ==
    /\ oks \cap fails = {}
    /\ \A i \in 1..Len(os) :
          /\ os[i].from \in fails
          /\ \A t \in oks : t < os[i].from \/ (os[i].to # Open /\ os[i].to <= t)
          /\ \A t \in fails : t < os[i].from => \E u \in oks : t < u /\ u < os[i].from

MaximalRuns == \A c \in CheckIds : RunsOf(outages[c], okBeats[c], failBeats[c])

\* A later success leaves them where they are, and may end the one that is open.
LEMMA RunsAfterOk ==
    ASSUME NEW os \in Seq(Outage), NEW oks \in SUBSET Nat, NEW fails \in SUBSET Nat, NEW now \in Nat,
           RunsOf(os, oks, fails), oks \subseteq 1..now, fails \subseteq 1..now,
           NEW after \in Seq(Outage), Len(after) = Len(os),
           \A i \in 1..Len(os) :
               /\ os[i].from \in 1..now
               /\ after[i].from = os[i].from
               /\ after[i].to # Open
               /\ \/ after[i].to = os[i].to /\ os[i].to \in 1..now
                  \/ after[i].to = now + 1 /\ os[i].to = Open
    PROVE  RunsOf(after, oks \cup {now + 1}, fails)
<1>1. (oks \cup {now + 1}) \cap fails = {}
  BY DEF RunsOf
<1>2. ASSUME NEW i \in 1..Len(os), NEW t \in oks \cup {now + 1}
      PROVE  t < after[i].from \/ (after[i].to # Open /\ after[i].to <= t)
  <2>1. CASE t = now + 1
    BY <2>1
  <2>2. CASE t \in oks
    <3>1. t < os[i].from \/ (os[i].to # Open /\ os[i].to <= t)
      BY <2>2 DEF RunsOf
    <3>2. QED
      BY <3>1
  <2>3. QED
    BY <1>2, <2>1, <2>2
<1>3. QED
  BY <1>1, <1>2 DEF RunsOf

\* A later failure is in none of their beginnings.
LEMMA RunsAfterFail ==
    ASSUME NEW os \in Seq(Outage), NEW oks \in SUBSET Nat, NEW fails \in SUBSET Nat, NEW now \in Nat,
           RunsOf(os, oks, fails), oks \subseteq 1..now, fails \subseteq 1..now,
           \A i \in 1..Len(os) : os[i].from \in 1..now
    PROVE  RunsOf(os, oks, fails \cup {now + 1})
<1>1. oks \cap (fails \cup {now + 1}) = {}
  <2>1. now + 1 \notin 1..now
    OBVIOUS
  <2>2. QED
    BY <2>1 DEF RunsOf
<1>2. ASSUME NEW i \in 1..Len(os), NEW t \in fails \cup {now + 1}, t < os[i].from
      PROVE  \E u \in oks : t < u /\ u < os[i].from
  <2>1. t \in fails
    BY <1>2
  <2>2. QED
    BY <1>2, <2>1 DEF RunsOf
<1>3. QED
  BY <1>1, <1>2 DEF RunsOf

\* An outage is opened at the first failure that no success follows.
LEMMA RunsOpened ==
    ASSUME NEW os \in Seq(Outage), NEW oks \in SUBSET Nat, NEW fails \in SUBSET Nat,
           RunsOf(os, oks, fails),
           NEW first \in fails, \A u \in oks : u < first,
           \A t \in fails : t < first => \E u \in oks : ~(u < t)
    PROVE  RunsOf(Append(os, [from |-> first, to |-> Open]), oks, fails)
<1> DEFINE n == Len(os)
           o == [from |-> first, to |-> Open]
           after == Append(os, o)
<1>1. o \in Outage /\ o.from = first /\ o.to = Open
  BY DEF Outage, Open
<1>2. /\ Len(after) = n + 1 /\ n \in Nat
      /\ \A i \in 1..n : after[i] = os[i]
      /\ after[n + 1] = o
  BY <1>1, AppendProperties
<1>3. ASSUME NEW t \in fails, t < first
      PROVE  \E u \in oks : t < u /\ u < first
  <2>1. PICK u \in oks : ~(u < t)
    BY <1>3
  <2>2. u # t
    BY DEF RunsOf
  <2>3. t < u /\ u < first
    BY <2>1, <2>2
  <2>4. QED
    BY <2>3
<1> HIDE DEF o, after, n
<1>4. ASSUME NEW i \in 1..(n + 1)
      PROVE  /\ after[i].from \in fails
             /\ \A t \in oks : t < after[i].from \/ (after[i].to # Open /\ after[i].to <= t)
             /\ \A t \in fails : t < after[i].from => \E u \in oks : t < u /\ u < after[i].from
  <2>1. CASE i = n + 1
    BY <1>1, <1>2, <1>3, <2>1
  <2>2. CASE i # n + 1
    <3>1. i \in 1..n /\ after[i] = os[i]
      BY <1>2, <2>2
    <3>2. QED
      BY <3>1 DEF RunsOf, n
  <2>3. QED
    BY <2>1, <2>2
<1>5. RunsOf(after, oks, fails)
  BY <1>2, <1>4 DEF RunsOf
<1>6. QED
  BY <1>5 DEF after, o

LEMMA RecordRuns ==
    ASSUME SerialInv, MaximalRuns, NEW jb \in jobs, RecordOk(jb) \/ RecordFail(jb)
    PROVE  MaximalRuns'
<1> DEFINE c == jb.check
           os == outages[c]
           n == Len(os)
           after == outages'[c]
<1>1. /\ c \in CheckIds /\ os \in Seq(Outage) /\ after \in Seq(Outage) /\ clock \in Nat
      /\ okBeats[c] \in SUBSET Nat /\ failBeats[c] \in SUBSET Nat /\ failBeats'[c] \in SUBSET Nat
      /\ NextClock = clock + 1 /\ n \in Nat
  <2>1. TypeInv'
    BY RecordOkTypeInv, RecordFailTypeInv DEF SerialInv
  <2>2. QED
    BY <2>1, RecordOthers DEF SerialInv, TypeInv, TypeOK, NextClock
<1>2. /\ okBeats[c] \subseteq 1..clock /\ failBeats[c] \subseteq 1..clock
      /\ RunsOf(os, okBeats[c], failBeats[c])
      /\ Settled(os, okBeats[c], check[c].state, check[c].since, clock)
  BY <1>1 DEF SerialInv, TypeInv, BeatsPast, MaximalRuns, OutagesSettled
<1>3. \A i \in 1..n : os[i].from \in 1..clock
  BY <1>2 DEF Settled
<1>4. CASE RecordOk(jb)
  <2>1. okBeats'[c] = okBeats[c] \cup {clock + 1} /\ failBeats'[c] = failBeats[c]
    BY <1>1, <1>4 DEF RecordOk, SerialInv, TypeInv, TypeOK
  <2>2. ASSUME check[c].state # "down"
        PROVE  RunsOf(after, okBeats'[c], failBeats'[c])
    <3>1. after = os
      BY <1>4, <2>2, RecordOkEffect
    <3>2. \A i \in 1..n : os[i].to # Open /\ os[i].to \in 1..clock
      BY <1>2, <2>2 DEF Settled
    <3> HIDE DEF c, os, after, n
    <3>3. RunsOf(after, okBeats[c] \cup {clock + 1}, failBeats[c])
      BY <1>1, <1>2, <1>3, <3>1, <3>2, RunsAfterOk DEF n
    <3>4. QED
      BY <2>1, <3>3
  <2>3. ASSUME check[c].state = "down"
        PROVE  RunsOf(after, okBeats'[c], failBeats'[c])
    <3>1. /\ after = [os EXCEPT ![n].to = clock + 1]
          /\ OpenAt(os) = {n} /\ n \in 1..n
      BY <1>1, <1>2, <1>4, <2>3, RecordOkEffect, SettledOpen
    <3>2. os[n] \in Outage /\ os[n].to = Open /\ DOMAIN os = 1..n
      BY <1>1, <3>1, ElementOfSeq DEF OpenAt
    <3>3. \A i \in 1..n : i # n => after[i] = os[i] /\ os[i].to # Open /\ os[i].to \in 1..clock
      <4>1. \A i \in 1..n : i # n => after[i] = os[i]
        BY <3>1, <3>2
      <4>2. \A i \in 1..n : i # n => os[i].to # Open
        BY <3>1, <3>2 DEF OpenAt
      <4>3. QED
        BY <1>2, <4>1, <4>2 DEF Settled
    <3>4. after[n].from = os[n].from /\ after[n].to = clock + 1 /\ clock + 1 # Open
      <4>1. after[n] = [os[n] EXCEPT !.to = clock + 1]
        BY <3>1, <3>2
      <4>2. QED
        BY <1>1, <3>2, <4>1 DEF Outage, Open
    <3>5. Len(after) = n
      BY <1>1, <3>1
    <3> HIDE DEF c, os, after, n
    <3>6. \A i \in 1..n :
             /\ after[i].from = os[i].from
             /\ after[i].to # Open
             /\ \/ after[i].to = os[i].to /\ os[i].to \in 1..clock
                \/ after[i].to = clock + 1 /\ os[i].to = Open
      BY <3>2, <3>3, <3>4
    <3>7. RunsOf(after, okBeats[c] \cup {clock + 1}, failBeats[c])
      BY <1>1, <1>2, <1>3, <3>5, <3>6, RunsAfterOk DEF n
    <3>8. QED
      BY <2>1, <3>7
  <2>4. RunsOf(after, okBeats'[c], failBeats'[c])
    BY <2>2, <2>3, <2>1
  <2>5. QED
    BY <1>4, <2>4, RecordOthers DEF MaximalRuns, RunsOf
<1>5. CASE RecordFail(jb)
  <2>1. okBeats'[c] = okBeats[c] /\ failBeats'[c] = failBeats[c] \cup {clock + 1}
    BY <1>1, <1>5 DEF RecordFail, SerialInv, TypeInv, TypeOK
  <2>2. RunsOf(os, okBeats[c], failBeats'[c])
    <3>1. \A i \in 1..Len(os) : os[i].from \in 1..clock
      BY <1>3
    <3>2. okBeats[c] \in SUBSET Nat /\ failBeats[c] \in SUBSET Nat
      BY <1>1
    <3> HIDE DEF c, os, n
    <3>3. RunsOf(os, okBeats[c], failBeats[c] \cup {clock + 1})
      BY <1>1, <1>2, <3>1, <3>2, RunsAfterFail
    <3>4. QED
      BY <2>1, <3>3
  <2>3. \/ after = os
        \/ after = Append(os, [from |-> FirstFail(c, NextClock), to |-> Open])
    BY <1>5, RecordFailEffect
  <2> DEFINE first == FirstFail(c, NextClock)
  <2>4. /\ first \in FailsSinceOk(c) \cup {clock + 1}
        /\ \A u \in FailsSinceOk(c) \cup {clock + 1} : first <= u
        /\ first \in 1..(clock + 1)
    BY <1>1, FirstFailType DEF SerialInv
  <2>5. first \in failBeats'[c]
    BY <2>1, <2>4 DEF FailsSinceOk
  <2>6. \A u \in okBeats[c] : u < first
    <3>1. CASE first = clock + 1
      BY <1>1, <1>2, <3>1
    <3>2. CASE first \in FailsSinceOk(c)
      BY <3>2 DEF FailsSinceOk
    <3>3. QED
      BY <2>4, <3>1, <3>2
  <2>7. \A t \in failBeats'[c] : t < first => \E u \in okBeats[c] : ~(u < t)
    <3>1. \A t \in failBeats'[c] : t < first => t \in failBeats[c] /\ t \notin FailsSinceOk(c)
      <4> SUFFICES ASSUME NEW t \in failBeats'[c], t < first
                   PROVE  t \in failBeats[c] /\ t \notin FailsSinceOk(c)
        OBVIOUS
      <4>1. t \notin FailsSinceOk(c) \cup {clock + 1}
        <5>1. t \in Nat /\ first \in Nat
          BY <1>1, <2>4
        <5> HIDE DEF first
        <5>2. ~(first <= t)
          BY <5>1
        <5>3. QED
          BY <2>4, <5>2
      <4>2. QED
        BY <2>1, <4>1
    <3>2. QED
      BY <3>1 DEF FailsSinceOk
  <2>8. RunsOf(after, okBeats'[c], failBeats'[c])
    <3>1. CASE after = os
      BY <2>1, <2>2, <3>1
    <3>2. CASE after = Append(os, [from |-> first, to |-> Open])
      <4> HIDE DEF c, os, after, n, first
      <4>1. RunsOf(Append(os, [from |-> first, to |-> Open]), okBeats[c], failBeats'[c])
        BY <1>1, <2>2, <2>5, <2>6, <2>7, RunsOpened
      <4>2. QED
        BY <2>1, <3>2, <4>1
    <3>3. QED
      BY <2>3, <3>1, <3>2
  <2>9. QED
    BY <1>5, <2>8, RecordOthers DEF MaximalRuns, RunsOf
<1>6. QED
  BY <1>4, <1>5

\* An outage covers exactly a run of failed probes between two successes: what is backdated
\* starts at the first failure after a success, and no success lies inside (record_result).
THEOREM OutageIsMaximalFailureRunAlways ==
    ASSUME ScheduledOnly
    PROVE  Spec => []OutageIsMaximalFailureRun
<1>1. Init => MaximalRuns
  <2>1. Len(<<>>) = 0 /\ 1..0 = {}
    BY EmptySeq
  <2>2. QED
    BY <2>1 DEF Init, MaximalRuns, RunsOf
<1>2. SerialInv /\ MaximalRuns /\ [Next]_vars => MaximalRuns'
  <2> SUFFICES ASSUME SerialInv, MaximalRuns, [Next]_vars PROVE MaximalRuns'
    OBVIOUS
  <2>1. CASE UNCHANGED <<okBeats, failBeats, outages>>
    BY <2>1 DEF MaximalRuns, RunsOf
  <2>2. CASE \E c \in CheckIds, j \in JobIds : ScheduleCheck(c, j) \/ RunCheckNow(c, j)
    BY <2>1, <2>2 DEF ScheduleCheck, RunCheckNow, StartJob
  <2>3. CASE JobStep
    BY <2>1, <2>3, RecordRuns DEF JobStep, AcquireSlot, RecordRolledBack, ProbeCrash
  <2>4. CASE \/ Restart \/ UNCHANGED vars
             \/ \E retries \in RetryValues : CreateCheck(retries)
             \/ \E c \in CheckIds, retries \in RetryValues, enabled \in {0, 1} :
                   UpdateCheck(c, retries, enabled)
    BY <2>1, <2>4 DEF Restart, vars, CreateCheck, UpdateCheck
  <2>5. CASE \E cs \in SUBSET rows : DeleteChecks(cs)
    BY <2>5 DEF DeleteChecks, ScheduledOnly
  <2>6. QED
    BY <2>2, <2>3, <2>4, <2>5 DEF Next
<1>3. SerialInv /\ MaximalRuns => OutageIsMaximalFailureRun
  <2> SUFFICES ASSUME SerialInv, MaximalRuns, NEW c \in CheckIds, NEW i \in DOMAIN outages[c]
               PROVE  /\ outages[c][i].from \in failBeats[c]
                      /\ outages[c][i].to # Open => outages[c][i].to \in okBeats[c]
                      /\ \A t \in okBeats[c] :
                            ~(t >= outages[c][i].from /\ (outages[c][i].to = Open \/ t < outages[c][i].to))
                      /\ \A t \in failBeats[c] :
                            t < outages[c][i].from =>
                                \E u \in okBeats[c] : t < u /\ u < outages[c][i].from
    BY DEF OutageIsMaximalFailureRun
  <2>1. i \in 1..Len(outages[c]) /\ outages[c][i] \in Outage /\ okBeats[c] \in SUBSET Nat
    BY ElementOfSeq DEF SerialInv, TypeInv, TypeOK
  <2>2. /\ Settled(outages[c], okBeats[c], check[c].state, check[c].since, clock)
        /\ RunsOf(outages[c], okBeats[c], failBeats[c])
    BY DEF SerialInv, OutagesSettled, MaximalRuns
  <2>3. outages[c][i].to # Open => outages[c][i].to \in okBeats[c]
    BY <2>1, <2>2 DEF Settled
  <2>4. outages[c][i].from \in Nat /\ outages[c][i].to \in Nat
    BY <2>1 DEF Outage
  <2>5. QED
    BY <2>1, <2>2, <2>3, <2>4 DEF RunsOf
<1>4. QED
  BY <1>1, <1>2, <1>3, SerialInvariant, PTL DEF Spec

\* A check goes down only with one failure more since its last success than the retries
\* it was scheduled with, for all retries and whatever edits and restarts come between
\* (record_result).
THEOREM DownOnlyAfterRetriesAlways ==
    ASSUME ScheduledOnly
    PROVE  Spec => DownOnlyAfterRetries
<1>1. SerialInv /\ SerialInv' /\ [Next]_vars =>
          [\A c \in CheckIds :
             check[c].state # "down" /\ check'[c].state = "down" =>
                 \E jb \in jobs \ jobs' :
                     jb.check = c /\ Cardinality(FailsSinceOk(c)') > jb.snap.retries]_vars
  <2> SUFFICES ASSUME SerialInv, SerialInv', [Next]_vars, NEW c \in CheckIds,
                      check[c].state # "down", check'[c].state = "down"
               PROVE  \E jb \in jobs \ jobs' :
                          jb.check = c /\ Cardinality(FailsSinceOk(c)') > jb.snap.retries
    OBVIOUS
  <2>1. check'[c] # check[c]
    OBVIOUS
  <2>2. PICK jb \in jobs : RecordOk(jb) \/ RecordFail(jb)
    <3>1. CASE \E d \in CheckIds, j \in JobIds : ScheduleCheck(d, j) \/ RunCheckNow(d, j)
      BY <2>1, <3>1 DEF ScheduleCheck, RunCheckNow, StartJob
    <3>2. CASE JobStep
      BY <2>1, <3>2 DEF JobStep, AcquireSlot, RecordRolledBack, ProbeCrash
    <3>3. CASE Restart \/ UNCHANGED vars
      BY <2>1, <3>3 DEF Restart, vars
    <3>4. CASE \E retries \in RetryValues : CreateCheck(retries)
      BY <3>4, CreateSerial
    <3>5. CASE \E d \in CheckIds, retries \in RetryValues, enabled \in {0, 1} :
                  UpdateCheck(d, retries, enabled)
      BY <3>5, UpdateSerial
    <3>6. CASE \E cs \in SUBSET rows : DeleteChecks(cs)
      BY <3>6 DEF DeleteChecks, ScheduledOnly
    <3>7. QED
      BY <3>1, <3>2, <3>3, <3>4, <3>5, <3>6 DEF Next
  <2>3. jb.check = c
    BY <2>1, <2>2, RecordOthers
  <2>4. ~RecordOk(jb)
    BY <2>3, RecordOkEffect
  <2>5. RecordFail(jb)
    BY <2>2, <2>4
  <2>6. check[c].failCount + 1 > jb.snap.retries /\ check'[c].failCount = check[c].failCount + 1
    BY <2>3, <2>5, RecordFailEffect
  <2>7. Cardinality(FailsSinceOk(c)') > jb.snap.retries
    BY <2>6 DEF SerialInv, StreakCounted
  <2>8. jb \in jobs \ jobs'
    BY <2>5 DEF RecordFail, FinishJob
  <2>9. QED
    BY <2>3, <2>7, <2>8
<1>2. QED
  BY <1>1, SerialInvariant, PTL DEF Spec, DownOnlyAfterRetries

-----------------------------------------------------------------------------
(* With neither manual runs nor deletions, CheckRunner implements          *)
(* CheckLifecycle: record_result is a step of the lifecycle, and nothing   *)
(* else is visible there.                                                  *)

\* The four functions of the refinement mapping that are not variables.
Status == [c \in CheckIds |-> check[c].state]
Streak == [c \in CheckIds |-> check[c].failCount]
Start == [c \in CheckIds |-> StreakStart(c)]

-----------------------------------------------------------------------------
(* The earliest failure of the streak.                                     *)

\* The count is zero exactly when there is no failure since the last success.
LEMMA NoStreak ==
    ASSUME SerialInv, NEW c \in CheckIds
    PROVE  check[c].failCount = 0 <=> FailsSinceOk(c) = {}
<1>1. IsFiniteSet(FailsSinceOk(c)) /\ check[c].failCount = Cardinality(FailsSinceOk(c))
  BY DEF SerialInv, StreakCounted
<1>2. QED
  BY <1>1, FS_EmptySet

\* One more failure does not move the start of a streak, or is it.
LEMMA StartAfterFail ==
    ASSUME SerialInv, NEW c \in CheckIds
    PROVE  FirstFail(c, NextClock) = IF check[c].failCount = 0 THEN clock + 1 ELSE StreakStart(c)
<1>1. NextClock = clock + 1 /\ clock \in Nat
  BY DEF NextClock, SerialInv, TypeInv, TypeOK
<1>2. CASE FailsSinceOk(c) = {}
  <2>1. FirstFail(c, NextClock) = NextClock
    BY <1>2, FirstFailType DEF SerialInv
  <2>2. QED
    BY <1>1, <1>2, <2>1, NoStreak
<1>3. CASE FailsSinceOk(c) # {}
  <2> DEFINE S == FailsSinceOk(c)
             first == FirstFail(c, NextClock)
  <2>1. S \in SUBSET Nat /\ S \subseteq 1..clock
    BY DEF FailsSinceOk, SerialInv, TypeInv, TypeOK, BeatsPast
  <2>2. PICK t \in S : \A u \in S : t <= u
    <3>1. HasEarliest(S)
      BY DEF SerialInv, TypeInv, BeatsPast
    <3>2. QED
      BY <1>3, <3>1 DEF HasEarliest
  <2>3. Earliest(S) = t
    <3> HIDE DEF S
    <3>1. QED
      BY <2>1, <2>2, EarliestIsFirst
  <2>4. first \in S \cup {NextClock} /\ \A u \in S \cup {NextClock} : first <= u
    BY FirstFailType DEF SerialInv
  <2>5. first = t
    <3> HIDE DEF first, S
    <3>1. first <= t /\ t \in Nat /\ t <= clock /\ first \in Nat
      BY <1>1, <2>1, <2>2, <2>4
    <3>2. first # NextClock
      BY <1>1, <3>1
    <3>3. first \in S /\ t <= first
      BY <2>2, <2>4, <3>2
    <3>4. QED
      BY <3>1, <3>3
  <2>6. StreakStart(c) = t
    <3> HIDE DEF S
    <3>1. S # {}
      BY <1>3 DEF S
    <3>2. StreakStart(c) = Earliest(S)
      BY <3>1 DEF StreakStart, S
    <3>3. QED
      BY <2>3, <3>2
  <2>7. check[c].failCount # 0
    BY <1>3, NoStreak
  <2>8. QED
    BY <2>5, <2>6, <2>7
<1>4. QED
  BY <1>2, <1>3

-----------------------------------------------------------------------------
(* The steps.                                                              *)

\* What no recording step does not change is no change of the lifecycle.
LEMMA Stutter ==
    ASSUME SerialInv,
           UNCHANGED <<okBeats, failBeats, outages, clock>>,
           \A c \in CheckIds : /\ check'[c].state = check[c].state
                               /\ check'[c].failCount = check[c].failCount
    PROVE  UNCHANGED Lifecycle!lifecycleVars
<1>1. \A c \in CheckIds : StreakStart(c)' = StreakStart(c)
  BY DEF StreakStart, FailsSinceOk
<1>2. QED
  BY <1>1 DEF Lifecycle!lifecycleVars

LEMMA OkIsSuccess ==
    ASSUME SerialInv, NEW jb \in jobs, RecordOk(jb)
    PROVE  \E c \in CheckIds : Lifecycle!Success(c)
<1> DEFINE c == jb.check
<1>1. c \in CheckIds
  BY RecordOthers
<1>2. \A d \in CheckIds \ {c} :
         /\ check'[d] = check[d] /\ outages'[d] = outages[d]
         /\ FailsSinceOk(d)' = FailsSinceOk(d)
  BY RecordOthers
<1>3. /\ check'[c].state = "up" /\ check'[c].failCount = 0
      /\ check[c].state # "down" => outages'[c] = outages[c]
      /\ check[c].state = "down" =>
            outages'[c] = [outages[c] EXCEPT ![Len(outages[c])].to = NextClock]
  BY RecordOkEffect
<1>4. FailsSinceOk(c)' = {}
  BY StreakAfterOk DEF SerialInv
<1>5. clock' = clock + 1 /\ NextClock = clock + 1
  BY DEF RecordOk, NextClock
<1>6. outages \in [CheckIds -> Seq(Outage)] /\ outages' \in [CheckIds -> Seq(Outage)]
  BY RecordOkTypeInv DEF SerialInv, TypeInv, TypeOK
<1>7. Status' = [Status EXCEPT ![c] = "up"]
  BY <1>1, <1>2, <1>3 DEF Status
<1>8. Streak' = [Streak EXCEPT ![c] = 0]
  BY <1>1, <1>2, <1>3 DEF Streak
<1>9. Start' = [Start EXCEPT ![c] = 0]
  <2>1. StreakStart(c)' = 0
    BY <1>4 DEF StreakStart
  <2>2. \A d \in CheckIds \ {c} : StreakStart(d)' = StreakStart(d)
    BY <1>2 DEF StreakStart
  <2>3. QED
    BY <1>1, <2>1, <2>2 DEF Start
<1>10. outages' = IF Status[c] = "down"
                    THEN [outages EXCEPT ![c] = [outages[c] EXCEPT ![Len(outages[c])].to = clock']]
                    ELSE outages
  <2>1. Status[c] = check[c].state
    BY <1>1 DEF Status
  <2> HIDE DEF c
  <2>2. CASE check[c].state = "down"
    BY <1>1, <1>2, <1>3, <1>5, <1>6, <2>1, <2>2
  <2>3. CASE check[c].state # "down"
    BY <1>1, <1>2, <1>3, <1>6, <2>1, <2>3
  <2>4. QED
    BY <2>2, <2>3
<1>11. Lifecycle!Success(c)
  BY <1>5, <1>7, <1>8, <1>9, <1>10 DEF Lifecycle!Success, Status, Streak, Start
<1>12. QED
  BY <1>1, <1>11

LEMMA FailIsFailure ==
    ASSUME SerialInv, NEW jb \in jobs, RecordFail(jb)
    PROVE  \E c \in CheckIds, retries \in RetryValues :
              Lifecycle!FailureOpensOutage(c, retries) \/ Lifecycle!FailureTolerated(c, retries)
<1> DEFINE c == jb.check
           goesDown == check[c].state # "down" /\ check[c].failCount + 1 > jb.snap.retries
           first == FirstFail(c, NextClock)
<1>1. /\ c \in CheckIds /\ jb.snap.retries \in RetryValues /\ check[c] \in Row
      /\ check[c].failCount \in Nat /\ jb.snap.retries \in Nat
  <2>1. c \in CheckIds /\ jb.snap.retries \in RetryValues /\ check[c] \in Row
    BY DEF SerialInv, TypeInv, TypeOK, Job, Snapshot
  <2>2. QED
    BY <2>1, RetriesAssumption DEF Row
<1>2. \A d \in CheckIds \ {c} :
         /\ check'[d] = check[d] /\ outages'[d] = outages[d]
         /\ FailsSinceOk(d)' = FailsSinceOk(d)
  BY RecordOthers
<1>3. /\ check'[c].failCount = check[c].failCount + 1
      /\ check'[c].state = IF goesDown THEN "down" ELSE check[c].state
      /\ outages'[c] = IF goesDown
                         THEN Append(outages[c], [from |-> first, to |-> Open])
                         ELSE outages[c]
  BY RecordFailEffect
<1>4. FailsSinceOk(c)' = FailsSinceOk(c) \cup {NextClock}
  BY StreakAfterFail DEF SerialInv
<1>5. clock' = clock + 1 /\ NextClock = clock + 1
  BY DEF RecordFail, NextClock
<1>6. outages \in [CheckIds -> Seq(Outage)] /\ outages' \in [CheckIds -> Seq(Outage)]
  BY RecordFailTypeInv DEF SerialInv, TypeInv, TypeOK
<1>7. first = IF Streak[c] = 0 THEN clock' ELSE Start[c]
  BY <1>1, <1>5, StartAfterFail DEF Streak, Start
<1>8. StreakStart(c)' = first
  <2>1. FailsSinceOk(c)' = FailsSinceOk(c) \cup {NextClock} /\ FailsSinceOk(c)' # {}
    BY <1>4
  <2>2. QED
    BY <2>1 DEF StreakStart, FirstFail
<1> HIDE DEF first
<1>9. Streak' = [Streak EXCEPT ![c] = Streak[c] + 1]
  BY <1>1, <1>2, <1>3 DEF Streak
<1>10. Start' = [Start EXCEPT ![c] = first]
  <2>1. \A d \in CheckIds \ {c} : StreakStart(d)' = StreakStart(d)
    BY <1>2 DEF StreakStart
  <2>2. QED
    BY <1>1, <1>8, <2>1 DEF Start
<1>11. Lifecycle!Failing(c)
  BY <1>5, <1>7, <1>9, <1>10 DEF Lifecycle!Failing, Streak, Start
<1>12. Start'[c] = first /\ Status[c] = check[c].state /\ Streak[c] = check[c].failCount
  BY <1>1, <1>8 DEF Start, Status, Streak
<1>13. CASE goesDown
  <2>1. Status' = [Status EXCEPT ![c] = "down"]
    BY <1>1, <1>2, <1>3, <1>13 DEF Status
  <2>2. outages' = [outages EXCEPT ![c] = Append(outages[c], [from |-> Start'[c], to |-> Open])]
    <3> HIDE DEF c
    <3>1. QED
      BY <1>1, <1>2, <1>3, <1>6, <1>12, <1>13
  <2>3. Status[c] # "down" /\ Streak[c] + 1 > jb.snap.retries
    BY <1>12, <1>13
  <2>4. Lifecycle!FailureOpensOutage(c, jb.snap.retries)
    BY <1>11, <2>1, <2>2, <2>3
    DEF Lifecycle!FailureOpensOutage, Lifecycle!Ongoing, Open, Status, Streak, Start
  <2>5. QED
    BY <1>1, <2>4
<1>14. CASE ~goesDown
  <2>1. Status' = Status
    BY <1>1, <1>2, <1>3, <1>14 DEF Status
  <2>2. outages' = outages
    BY <1>1, <1>2, <1>3, <1>6, <1>14
  <2>3. Status[c] = "down" \/ Streak[c] + 1 <= jb.snap.retries
    BY <1>1, <1>12, <1>14
  <2>4. Lifecycle!FailureTolerated(c, jb.snap.retries)
    BY <1>11, <2>1, <2>2, <2>3 DEF Lifecycle!FailureTolerated, Status, Streak, Start
  <2>5. QED
    BY <1>1, <2>4
<1>15. QED
  BY <1>13, <1>14

-----------------------------------------------------------------------------
\* The runner, with its jobs, snapshots and heartbeat queries, implements the
\* serial lifecycle of a check as long as its only jobs are those of the loop
\* and no check is deleted.
THEOREM RunnerImplementsLifecycle ==
    ASSUME ScheduledOnly
    PROVE  Spec => ImplementsLifecycle
<1>1. Init => Lifecycle!LifecycleInit
  <2> SUFFICES ASSUME Init PROVE Lifecycle!LifecycleInit
    OBVIOUS
  <2>1. \A c \in CheckIds : /\ check[c].state = "unknown" /\ check[c].failCount = 0
                            /\ StreakStart(c) = 0
    BY DEF Init, NoRow, NewRow, StreakStart, FailsSinceOk
  <2>2. outages = [c \in CheckIds |-> <<>>] /\ clock = 0
    BY DEF Init
  <2>3. QED
    BY <2>1, <2>2 DEF Lifecycle!LifecycleInit
<1>2. SerialInv /\ [Next]_vars => [Lifecycle!LifecycleNext]_(Lifecycle!lifecycleVars)
  <2> SUFFICES ASSUME SerialInv, [Next]_vars
               PROVE  Lifecycle!LifecycleNext \/ UNCHANGED Lifecycle!lifecycleVars
    OBVIOUS
  <2>1. ASSUME NEW jb \in jobs, RecordOk(jb)
        PROVE  Lifecycle!LifecycleNext
    BY <2>1, OkIsSuccess DEF Lifecycle!LifecycleNext
  <2>2. ASSUME NEW jb \in jobs, RecordFail(jb)
        PROVE  Lifecycle!LifecycleNext
    BY <2>2, FailIsFailure DEF Lifecycle!LifecycleNext
  <2>3. ASSUME UNCHANGED <<check, okBeats, failBeats, outages, clock>>
        PROVE  UNCHANGED Lifecycle!lifecycleVars
    BY <2>3, Stutter
  <2>4. CASE \E c \in CheckIds, j \in JobIds : ScheduleCheck(c, j) \/ RunCheckNow(c, j)
    BY <2>3, <2>4 DEF ScheduleCheck, RunCheckNow, StartJob
  <2>5. CASE JobStep
    <3>1. CASE \E jb \in jobs : AcquireSlot(jb) \/ RecordRolledBack(jb) \/ ProbeCrash(jb)
      BY <2>3, <3>1 DEF AcquireSlot, RecordRolledBack, ProbeCrash
    <3>2. QED
      BY <2>1, <2>2, <2>5, <3>1 DEF JobStep
  <2>6. CASE Restart \/ UNCHANGED vars
    BY <2>3, <2>6 DEF Restart, vars
  <2>7. CASE \E retries \in RetryValues : CreateCheck(retries)
    <3>1. PICK retries \in RetryValues : CreateCheck(retries)
      BY <2>7
    <3>2. UNCHANGED <<okBeats, failBeats, outages, clock>>
      BY <3>1 DEF CreateCheck
    <3>3. QED
      BY <3>1, <3>2, CreateSerial, Stutter
  <2>8. CASE \E c \in CheckIds, retries \in RetryValues, enabled \in {0, 1} : UpdateCheck(c, retries, enabled)
    <3>1. PICK c \in CheckIds, retries \in RetryValues, enabled \in {0, 1} :
             UpdateCheck(c, retries, enabled)
      BY <2>8
    <3>2. UNCHANGED <<okBeats, failBeats, outages, clock>>
      BY <3>1 DEF UpdateCheck
    <3>3. QED
      BY <3>1, <3>2, UpdateSerial, Stutter
  <2>9. CASE \E cs \in SUBSET rows : DeleteChecks(cs)
    BY <2>9 DEF DeleteChecks, ScheduledOnly
  <2>10. QED
    BY <2>4, <2>5, <2>6, <2>7, <2>8, <2>9 DEF Next
<1>3. QED
  BY <1>1, <1>2, SerialInvariant, PTL DEF Spec, ImplementsLifecycle, Lifecycle!LifecycleSpec
=============================================================================

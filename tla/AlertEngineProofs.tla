-------------------------- MODULE AlertEngineProofs --------------------------
(***************************************************************************)
(* Type correctness of AlertEngine, at most one open alert per             *)
(* fingerprint, and maintenance windows: for any rules, subjects, callers  *)
(* and channels, with every disturbance of the module.                     *)
(***************************************************************************)
EXTENDS AlertEngine, TLAPS

LEMMA NoRuleType == NoRule \in RuleRow
  BY AgesAssumption, ChannelsAssumption DEF NoRule, RuleRow

LEMMA LoopIsCaller == "loop" \in Callers
  BY DEF Callers

\* An age stays an age.
LEMMA OlderType == ASSUME NEW age \in Age PROVE Older(age) \in Age
  BY AgesAssumption DEF Older, Age

\* What an evaluation is made of.
LEMMA EvalType ==
    ASSUME TypeOK, ~Quiet
    PROVE  eval \in Evaluation
  BY DEF TypeOK, Quiet

\* A message is an item of an outbox.
LEMMA MessageType ==
    ASSUME TypeOK, ~Quiet, NEW a \in Alert, NEW event \in {"firing", "resolved"}
    PROVE  Message(event, a) \in Item
<1>1. eval.lists[a.fp.rule] \in ChannelLists
  BY EvalType DEF Evaluation, Alert, Fingerprint
<1>2. QED
  BY <1>1 DEF Message, Item, Alert

\* An UPDATE of state keeps the rows rows, and the evaluation that dealt with a match one.
LEMMA SetStateType ==
    ASSUME TypeOK, NEW a \in Alert, NEW state \in {"pending", "firing", "resolved"}
    PROVE  SetState(a, state) \subseteq Alert
<1>1. \A b \in Alert : [b EXCEPT !.state = state] \in Alert
  BY DEF Alert
<1>2. QED
  BY <1>1 DEF TypeOK, SetState

LEMMA MatchedType ==
    ASSUME TypeOK, ~Quiet, NEW fp \in Fingerprint, NEW items \in Seq(Item)
    PROVE  Matched(fp, items) \in Evaluation
<1>1. eval \in Evaluation
  BY EvalType
<1>2. eval.out \o items \in Seq(Item)
  BY <1>1 DEF Evaluation
<1>3. eval.matches \ {fp} \subseteq Fingerprint /\ {a \in eval.active : a.fp # fp} \subseteq Alert
  BY <1>1 DEF Evaluation
<1> DEFINE out == eval.out \o items
           matches == eval.matches \ {fp}
           active == {a \in eval.active : a.fp # fp}
<1>4. Matched(fp, items) = [eval EXCEPT !.matches = matches, !.active = active, !.out = out]
  BY DEF Matched
<1> HIDE DEF out, matches, active
<1>5. QED
  BY <1>1, <1>2, <1>3, <1>4 DEF Evaluation, out, matches, active

-----------------------------------------------------------------------------
(* Types.                                                                  *)

LEMMA StartType ==
    ASSUME TypeOK, NEW who \in Callers, StartEvaluation(who)
    PROVE  TypeOK'
<1>1. {[id |-> r, for |-> rule[r].for] : r \in EnabledRules} \subseteq RuleRead
  BY DEF TypeOK, EnabledRules, RuleRead, RuleRow
<1>2. OpenAlerts(alerts) \subseteq Alert
  BY DEF OpenAlerts, TypeOK
<1>3. NoRule.for \in ForValues
  BY NoRuleType DEF RuleRow
<1>4. [fp \in Fingerprint |-> 0] \in [Fingerprint -> Age]
  BY AgesAssumption DEF Age
<1>5. Lists \in [RuleIds -> ChannelLists]
  BY DEF Lists, TypeOK, RuleRow
<1>6. eval' \in Evaluation
  BY <1>1, <1>2, <1>3, <1>4, <1>5 DEF StartEvaluation, Evaluation, TypeOK
<1>7. QED
  BY <1>6 DEF StartEvaluation, TypeOK, tables, conditions, addresses

LEMMA ReadRuleType ==
    ASSUME TypeOK, ~Quiet, NEW r \in eval.todo, ReadRule(r)
    PROVE  TypeOK'
<1>1. eval \in Evaluation /\ r \in RuleRead
  BY EvalType DEF Evaluation
<1>2. StartedAgo \in [Fingerprint -> Age]
  BY AgesAssumption DEF StartedAgo, TypeOK, Age
<1>3. eval' \in Evaluation
  BY <1>1, <1>2 DEF ReadRule, Evaluation, RuleRead, TypeOK
<1>4. vouched' \in [Fingerprint -> Age]
  BY <1>2, AgesAssumption DEF ReadRule, TypeOK, Age
<1>5. QED
  BY <1>3, <1>4 DEF ReadRule, TypeOK, tables, conditions, addresses

LEMMA RuleFailsType ==
    ASSUME TypeOK, ~Quiet, NEW r \in eval.todo, RuleFails(r)
    PROVE  TypeOK'
<1>1. eval \in Evaluation
  BY EvalType
<1>2. eval' \in Evaluation
  BY <1>1 DEF RuleFails, Evaluation
<1>3. QED
  BY <1>2 DEF RuleFails, TypeOK, tables, conditions, history, addresses

LEMMA MatchType ==
    ASSUME TypeOK, ~Quiet, NEW fp \in eval.matches, EvaluateMatch(fp)
    PROVE  TypeOK'
<1>1. eval \in Evaluation /\ fp \in Fingerprint
  BY EvalType DEF Evaluation
<1>2. alerts' \subseteq Alert /\ eval' \in Evaluation
  <2>1. CASE MatchHeld(fp)
    <3>1. <<>> \in Seq(Item)
      OBVIOUS
    <3>2. QED
      BY <1>1, <2>1, <3>1, MatchedType DEF MatchHeld, TypeOK
  <2>2. CASE MatchNew(fp)
    <3>1. PICK id \in AlertIds :
            LET a == [id |-> id, fp |-> fp, state |-> FirstState(fp, eval.for), age |-> eval.ages[fp]]
            IN  /\ alerts' = alerts \cup {a}
                /\ eval' = Matched(fp, IF a.state = "firing" THEN <<Message("firing", a)>> ELSE <<>>)
      BY <2>2 DEF MatchNew
    <3> DEFINE a == [id |-> id, fp |-> fp, state |-> FirstState(fp, eval.for), age |-> eval.ages[fp]]
    <3>2. eval.ages[fp] \in Age
      BY <1>1 DEF Evaluation
    <3>3. a \in Alert
      BY <1>1, <3>2 DEF Alert, FirstState
    <3>4. Message("firing", a) \in Item
      BY <3>3, MessageType
    <3>5. (IF a.state = "firing" THEN <<Message("firing", a)>> ELSE <<>>) \in Seq(Item)
      BY <3>4
    <3>6. QED
      BY <1>1, <3>1, <3>3, <3>5, MatchedType DEF TypeOK
  <2>3. CASE MatchAgain(fp)
    <3>1. PICK a \in eval.active :
            IF a.state = "pending" /\ Ripe(a.age, eval.for)
              THEN /\ alerts' = SetState(a, "firing")
                   /\ eval' = Matched(fp, <<Message("firing", a)>>)
              ELSE /\ eval' = Matched(fp, <<>>)
                   /\ UNCHANGED alerts
      BY <2>3 DEF MatchAgain
    <3>2. a \in Alert
      BY <1>1 DEF Evaluation
    <3>3. <<Message("firing", a)>> \in Seq(Item) /\ <<>> \in Seq(Item)
      BY <3>2, MessageType
    <3>4. QED
      BY <1>1, <3>1, <3>2, <3>3, MatchedType, SetStateType DEF TypeOK
  <2>4. QED
    BY <2>1, <2>2, <2>3 DEF EvaluateMatch
<1>3. QED
  BY <1>2 DEF EvaluateMatch, TypeOK, conditions, history, addresses

LEMMA LeftoverType ==
    ASSUME TypeOK, ~Quiet, NEW a \in eval.active, Leftover(a)
    PROVE  TypeOK'
<1>1. eval \in Evaluation /\ a \in Alert
  BY EvalType DEF Evaluation
<1>2. alerts' \subseteq Alert
  BY <1>1, SetStateType DEF Leftover, LeftoverSettled, TypeOK
<1>3. eval' \in Evaluation
  <2>1. Append(eval.out, Message("resolved", a)) \in Seq(Item)
    BY <1>1, MessageType DEF Evaluation
  <2>2. eval.active \ {a} \subseteq Alert
    BY <1>1 DEF Evaluation
  <2> DEFINE rest == eval.active \ {a}
             more == Append(eval.out, Message("resolved", a))
  <2>3. \/ eval' = [eval EXCEPT !.active = rest]
        \/ eval' = [eval EXCEPT !.active = rest, !.out = more]
        \/ eval' = [eval EXCEPT !.active = rest, !.out = eval.out]
    BY <1>1 DEF Leftover, LeftoverSettled, Evaluation
  <2> HIDE DEF rest, more
  <2>4. QED
    BY <1>1, <2>1, <2>2, <2>3 DEF Evaluation, rest, more
<1>4. QED
  BY <1>2, <1>3 DEF Leftover, TypeOK, conditions, history, addresses

LEMMA EvalStepType ==
    ASSUME TypeOK, ~Quiet, EvalStep
    PROVE  TypeOK'
<1>1. eval \in Evaluation
  BY EvalType
<1>2. ASSUME NEW fp \in eval.matches, EvaluationFails(fp) PROVE TypeOK'
  BY <1>2 DEF EvaluationFails, Return, TypeOK, tables, conditions, history, addresses
<1>3. CASE ReadLeftovers
  <2>1. eval' \in Evaluation
    BY <1>1, <1>3 DEF ReadLeftovers, EnabledRules, Lists, Evaluation, TypeOK, RuleRow
  <2>2. QED
    BY <1>3, <2>1 DEF ReadLeftovers, TypeOK, tables, conditions, history, addresses
<1>4. CASE FinishEvaluation
  <2>1. eval.who \in Callers /\ eval.out \in Seq(Item)
    BY <1>1 DEF Evaluation
  <2>2. outbox' \in [Callers -> Seq(Item)]
    BY <1>4, <2>1 DEF FinishEvaluation, TypeOK
  <2>3. QED
    BY <1>4, <2>2 DEF FinishEvaluation, Return, TypeOK, tables, conditions, history, addresses
<1>5. QED
  BY <1>2, <1>3, <1>4, ReadRuleType, RuleFailsType, MatchType, LeftoverType DEF EvalStep

LEMMA SendType ==
    ASSUME TypeOK, NEW who \in Callers, NEW ch \in Channels, Send(who, ch)
    PROVE  TypeOK'
<1> DEFINE items == outbox[who]
<1>1. items \in Seq(Item) /\ items # <<>>
  BY DEF Send, TypeOK
<1>2. Head(items) \in Item /\ Tail(items) \in Seq(Item)
  BY <1>1
<1>3. \A rest \in SUBSET Channels : [Head(items) EXCEPT !.to = rest] \in Item
  BY <1>2 DEF Item
<1>4. Head(items).to \in SUBSET Channels
  BY <1>2 DEF Item
<1> DEFINE later == Tail(items)
<1> HIDE DEF later
<1>5. AfterSend(items, ch) \in Seq(Item)
  <2>1. \A item \in Item : <<item>> \o later \in Seq(Item)
    BY <1>2 DEF later
  <2>2. \A ids \in {Head(items).to \ {ch}, {}} : ids \in SUBSET Channels
    BY <1>4
  <2>3. QED
    BY <1>2, <1>3, <2>1, <2>2 DEF AfterSend, later
<1>6. outbox' \in [Callers -> Seq(Item)]
  BY <1>5 DEF Send, TypeOK
<1>7. told' \in [Fingerprint -> [Channels -> {"nothing", "firing", "resolved"}]]
  BY <1>2 DEF Send, TypeOK, Item
<1>8. readdressed' \subseteq Fingerprint \X Channels
  BY <1>2 DEF Send, ToldSo, TypeOK, Item
<1>9. QED
  BY <1>6, <1>7, <1>8 DEF Send, Return, TypeOK, tables, conditions, history

LEMMA LookUpType ==
    ASSUME TypeOK, NEW who \in Callers, LookUp(who)
    PROVE  TypeOK'
<1> DEFINE items == outbox[who]
           to == Addressees(Head(items).channels)
           found == [Head(items) EXCEPT !.lookedUp = TRUE, !.to = to]
<1>1. items \in Seq(Item) /\ items # <<>>
  BY DEF LookUp, TypeOK
<1>2. Head(items) \in Item /\ Tail(items) \in Seq(Item)
  BY <1>1
<1>3. to \in SUBSET Channels
  BY DEF Addressees
<1>4. found \in Item
  BY <1>2, <1>3 DEF Item
<1>5. (IF to = {} THEN <<>> ELSE <<found>>) \o Tail(items) \in Seq(Item)
  BY <1>2, <1>4
<1>6. outbox' \in [Callers -> Seq(Item)]
  BY <1>5 DEF LookUp, TypeOK
<1>7. QED
  BY <1>6 DEF LookUp, Return, TypeOK, tables, conditions, history, addresses

LEMMA FreshRuleType ==
    ASSUME NEW for \in ForValues, NEW list \in ChannelLists, TypeOK, CreateRule(for, list)
    PROVE  TypeOK'
  BY DEF CreateRule, TypeOK, RuleRow, conditions, history, addresses

LEMMA OutsideType ==
    ASSUME TypeOK, NEW fp \in Fingerprint, NEW age \in Age,
           StateChange(fp, age) \/ SilentChange(fp, age)
    PROVE  TypeOK'
  BY DEF StateChange, SilentChange, Turn, TypeOK, tables, history, addresses

LEMMA TickType ==
    ASSUME TypeOK, Tick
    PROVE  TypeOK'
<1>1. \A a \in alerts : [a EXCEPT !.age = Older(@)] \in Alert
  BY OlderType DEF TypeOK, Alert
<1>2. alerts' \subseteq Alert
  BY <1>1 DEF Tick
<1>3. since' \in [Fingerprint -> Age] /\ vouched' \in [Fingerprint -> Age]
  BY OlderType DEF Tick, TypeOK
<1>4. QED
  BY <1>2, <1>3 DEF Tick, TypeOK, addresses

LEMMA RequestsType ==
    ASSUME TypeOK
    PROVE  /\ \A r \in RuleIds, row \in RuleRow : UpdateRule(r, row) => TypeOK'
           /\ \A r \in RuleIds : DeleteRule(r) => TypeOK'
           /\ \A subject \in Subjects, scoped \in SUBSET ruleRows :
                 DeleteSubject(subject, scoped) => TypeOK'
           /\ \A subjects \in SUBSET Subjects : SetMaintenance(subjects) => TypeOK'
           /\ \A a \in alerts : ExpireAlert(a) => TypeOK'
           /\ \A ch \in Channels, state \in {"none", "off", "on"} : SetChannel(ch, state) => TypeOK'
<1>1. \A r \in RuleIds, row \in RuleRow : UpdateRule(r, row) => TypeOK'
  BY DEF UpdateRule, Readdress, TypeOK, conditions, history
<1>2. \A r \in RuleIds : DeleteRule(r) => TypeOK'
  BY NoRuleType DEF DeleteRule, TypeOK, conditions, history, addresses
<1>3. \A subject \in Subjects, scoped \in SUBSET ruleRows : DeleteSubject(subject, scoped) => TypeOK'
  BY NoRuleType DEF DeleteSubject, TypeOK, history, addresses
<1>4. \A subjects \in SUBSET Subjects : SetMaintenance(subjects) => TypeOK'
  BY DEF SetMaintenance, TypeOK, conditions, history, addresses
<1>5. \A a \in alerts : ExpireAlert(a) => TypeOK'
  BY DEF ExpireAlert, TypeOK, conditions, history, addresses
<1>6. \A ch \in Channels, state \in {"none", "off", "on"} : SetChannel(ch, state) => TypeOK'
  BY DEF SetChannel, Readdress, TypeOK, tables, conditions, history
<1>7. QED
  BY <1>1, <1>2, <1>3, <1>4, <1>5, <1>6

LEMMA TypeInit == Init => TypeOK
<1> SUFFICES ASSUME Init PROVE TypeOK
  OBVIOUS
<1>1. rule \in [RuleIds -> RuleRow]
  BY NoRuleType DEF Init
<1>2. 0 \in Age /\ MaxAge \in Age
  BY AgesAssumption DEF Age
<1>3. outbox \in [Callers -> Seq(Item)]
  BY DEF Init
<1>4. QED
  BY <1>1, <1>2, <1>3 DEF Init, TypeOK

LEMMA TypeStep == TypeOK /\ [Next]_vars => TypeOK'
<1> SUFFICES ASSUME TypeOK, [Next]_vars PROVE TypeOK'
  OBVIOUS
<1>1. CASE PollWakes
  BY <1>1 DEF PollWakes, TypeOK, tables, conditions, history, addresses
<1>2. CASE LoopWakes \/ LoopTimesOut
  BY <1>2 DEF LoopWakes, LoopTimesOut, TypeOK, tables, conditions, history, addresses
<1>3. CASE Restart
  <2>1. outbox' \in [Callers -> Seq(Item)]
    BY <1>3 DEF Restart
  <2>2. QED
    BY <1>3, <2>1 DEF Restart, TypeOK, tables, conditions, history, addresses
<1>4. CASE UNCHANGED vars
  BY <1>4 DEF vars, TypeOK, tables, conditions, history, addresses
<1>5. QED
  BY <1>1, <1>2, <1>3, <1>4, OutsideType, TickType, StartType, EvalStepType, LookUpType, SendType,
     FreshRuleType, RequestsType DEF Next

\* Every variable has its type, whatever runs, edits, deletes and restarts.
THEOREM TypeCorrect == Spec => []TypeOK
  BY TypeInit, TypeStep, PTL DEF Spec
-----------------------------------------------------------------------------
(* One open alert per fingerprint, and maintenance windows.                *)

\* The evaluation has still to deal with the condition of fp.
Ahead(fp) == fp \in eval.matches \/ \E t \in eval.todo : t.id = fp.rule

\* Ids tell rows apart.
IdsDiffer == \A a, b \in alerts : a.id = b.id => a = b

\* A rule is read once, and not while its matches are being dealt with.
RulesOnce ==
    /\ \A s, t \in eval.todo : s.id = t.id => s = t
    /\ \A fp \in eval.matches, t \in eval.todo : t.id # fp.rule

\* What is open, of a fingerprint that is still ahead, the evaluation knows of.
OpenIsKnown ==
    \A a \in alerts : a.state # "resolved" /\ Ahead(a.fp) => \E b \in eval.active : b.fp = a.fp

\* The row with the id of an alert the evaluation knows of is open while rules are read; it is
\* that alert, or one inserted since under the id of a deleted row, then not in maintenance.
RowsOfKnown ==
    \A a \in eval.active, b \in alerts : a.id = b.id =>
        /\ eval.phase = "rules" => b.state # "resolved"
        /\ a.fp = b.fp \/ ~InMaintenance(b.fp)

EvalInv ==
    ~Quiet => RulesOnce /\ RowsOfKnown /\ (eval.phase = "rules" => OpenIsKnown)

OpenInv == TypeOK /\ IdsDiffer /\ OneOpenAlert /\ EvalInv

\* Rows that go, or stay as they are, while no statement of an evaluation runs.
LEMMA RowsGo ==
    ASSUME OpenInv, alerts' \subseteq alerts, UNCHANGED eval
    PROVE  IdsDiffer' /\ OneOpenAlert' /\ EvalInv'
  BY DEF OpenInv, IdsDiffer, OneOpenAlert, EvalInv, RulesOnce, RowsOfKnown, OpenIsKnown, Ahead, InMaintenance, Quiet

\* The evaluation ends: nothing is left to say about it.
LEMMA EvaluationEnds ==
    ASSUME OpenInv, UNCHANGED alerts, eval' = Idle
    PROVE  IdsDiffer' /\ OneOpenAlert' /\ EvalInv'
  BY DEF OpenInv, IdsDiffer, OneOpenAlert, EvalInv, Quiet

LEMMA TickOpen ==
    ASSUME OpenInv, Tick
    PROVE  IdsDiffer' /\ OneOpenAlert' /\ EvalInv'
<1> DEFINE aged(a) == [a EXCEPT !.age = Older(@)]
<1>1. \A x \in alerts' : \E a \in alerts : x = aged(a)
  BY DEF Tick
<1>2. \A a \in alerts : aged(a).id = a.id /\ aged(a).fp = a.fp /\ aged(a).state = a.state
  BY DEF OpenInv, TypeOK, Alert
<1>3. IdsDiffer' /\ OneOpenAlert'
  <2> HIDE DEF aged
  <2>1. IdsDiffer'
    BY <1>1, <1>2 DEF OpenInv, IdsDiffer
  <2>2. OneOpenAlert'
    BY <1>1, <1>2 DEF OpenInv, OneOpenAlert
  <2>3. QED
    BY <2>1, <2>2
<1>4. QED
  BY <1>3 DEF Tick, EvalInv, Quiet, Free

LEMMA StartOpen ==
    ASSUME OpenInv, NEW who \in Callers, StartEvaluation(who)
    PROVE  IdsDiffer' /\ OneOpenAlert' /\ EvalInv'
<1>1. alerts' = alerts
  BY DEF StartEvaluation, tables, addresses
<1>2. /\ eval'.phase = "rules" /\ eval'.active = OpenAlerts(alerts) /\ eval'.matches = {}
      /\ eval'.todo = {[id |-> r, for |-> rule[r].for] : r \in EnabledRules}
  BY DEF StartEvaluation
<1>3. RulesOnce'
  BY <1>2 DEF RulesOnce
<1>4. RowsOfKnown'
  BY <1>1, <1>2 DEF RowsOfKnown, OpenAlerts, OpenInv, IdsDiffer
<1>5. OpenIsKnown'
  BY <1>1, <1>2 DEF OpenIsKnown, OpenAlerts, OpenInv, TypeOK, Alert
<1>6. QED
  BY <1>1, <1>3, <1>4, <1>5 DEF OpenInv, IdsDiffer, OneOpenAlert, EvalInv

LEMMA ReadRuleOpen ==
    ASSUME OpenInv, ~Quiet, NEW r \in eval.todo, ReadRule(r)
    PROVE  IdsDiffer' /\ OneOpenAlert' /\ EvalInv'
<1>1. eval \in Evaluation /\ alerts' = alerts
  BY EvalType DEF OpenInv, ReadRule, tables, addresses
<1>2. /\ eval'.phase = "rules" /\ eval'.active = eval.active /\ eval'.windows = eval.windows
      /\ eval'.todo = eval.todo \ {r} /\ eval'.matches = matching \cap OfRule(r.id)
      /\ eval.phase = "rules"
  BY <1>1 DEF ReadRule, Evaluation
<1>3. RulesOnce /\ RowsOfKnown /\ OpenIsKnown
  BY <1>2 DEF OpenInv, EvalInv
<1>4. RulesOnce'
  BY <1>2, <1>3 DEF RulesOnce, OfRule
<1>5. RowsOfKnown'
  BY <1>1, <1>2, <1>3 DEF RowsOfKnown, InMaintenance
<1>6. \A fp \in Fingerprint : Ahead(fp)' => Ahead(fp)
  BY <1>2 DEF Ahead, OfRule
<1>7. OpenIsKnown'
  BY <1>1, <1>2, <1>3, <1>6 DEF OpenIsKnown, OpenInv, TypeOK, Alert
<1>8. QED
  BY <1>1, <1>4, <1>5, <1>7 DEF OpenInv, IdsDiffer, OneOpenAlert, EvalInv

LEMMA RuleFailsOpen ==
    ASSUME OpenInv, ~Quiet, NEW r \in eval.todo, RuleFails(r)
    PROVE  IdsDiffer' /\ OneOpenAlert' /\ EvalInv'
<1>1. eval \in Evaluation /\ alerts' = alerts
  BY EvalType DEF OpenInv, RuleFails, tables, addresses
<1>2. /\ eval'.phase = "rules" /\ eval'.active = {a \in eval.active : a.fp.rule # r.id}
      /\ eval'.windows = eval.windows /\ eval'.todo = eval.todo \ {r}
      /\ eval'.matches = {} /\ eval.matches = {} /\ eval.phase = "rules"
  BY <1>1 DEF RuleFails, Evaluation
<1>3. RulesOnce /\ RowsOfKnown /\ OpenIsKnown
  BY <1>2 DEF OpenInv, EvalInv
<1>4. RulesOnce'
  BY <1>2, <1>3 DEF RulesOnce
<1>5. RowsOfKnown'
  BY <1>1, <1>2, <1>3 DEF RowsOfKnown, InMaintenance
<1>6. \A fp \in Fingerprint : Ahead(fp)' => Ahead(fp) /\ fp.rule # r.id
  BY <1>2, <1>3 DEF Ahead, RulesOnce
<1>7. OpenIsKnown'
  BY <1>1, <1>2, <1>3, <1>6 DEF OpenIsKnown, OpenInv, TypeOK, Alert
<1>8. QED
  BY <1>1, <1>4, <1>5, <1>7 DEF OpenInv, IdsDiffer, OneOpenAlert, EvalInv

\* What is left of an evaluation when the match of fp has been dealt with.
LEMMA MatchedLeaves ==
    ASSUME TypeOK, ~Quiet, RulesOnce, NEW fp \in eval.matches, NEW items, eval' = Matched(fp, items)
    PROVE  /\ eval'.phase = eval.phase /\ eval'.windows = eval.windows /\ eval'.todo = eval.todo
           /\ eval'.matches = eval.matches \ {fp}
           /\ eval'.active = {a \in eval.active : a.fp # fp}
           /\ RulesOnce'
           /\ \A g \in Fingerprint : Ahead(g)' => Ahead(g) /\ g # fp
<1>1. eval \in Evaluation
  BY EvalType
<1>2. /\ eval'.phase = eval.phase /\ eval'.windows = eval.windows /\ eval'.todo = eval.todo
      /\ eval'.matches = eval.matches \ {fp}
      /\ eval'.active = {a \in eval.active : a.fp # fp}
  BY <1>1 DEF Matched, Evaluation
<1>3. QED
  BY <1>2 DEF RulesOnce, Ahead

LEMMA MatchHeldOpen ==
    ASSUME OpenInv, ~Quiet, eval.phase = "rules", NEW fp \in eval.matches, MatchHeld(fp)
    PROVE  IdsDiffer' /\ OneOpenAlert' /\ EvalInv'
<1>1. RulesOnce /\ RowsOfKnown /\ OpenIsKnown /\ TypeOK
  BY DEF OpenInv, EvalInv
<1>2. /\ eval'.phase = eval.phase /\ eval'.windows = eval.windows
      /\ eval'.active = {a \in eval.active : a.fp # fp}
      /\ RulesOnce'
      /\ \A g \in Fingerprint : Ahead(g)' => Ahead(g) /\ g # fp
  BY <1>1, MatchedLeaves DEF MatchHeld
<1>3. alerts' = alerts
  BY DEF MatchHeld
<1>4. RowsOfKnown'
  BY <1>1, <1>2, <1>3 DEF RowsOfKnown, InMaintenance
<1>5. OpenIsKnown'
  BY <1>1, <1>2, <1>3 DEF OpenIsKnown, TypeOK, Alert
<1>6. QED
  BY <1>2, <1>3, <1>4, <1>5 DEF OpenInv, IdsDiffer, OneOpenAlert, EvalInv

LEMMA MatchNewOpen ==
    ASSUME OpenInv, ~Quiet, eval.phase = "rules", NEW fp \in eval.matches, MatchNew(fp)
    PROVE  IdsDiffer' /\ OneOpenAlert' /\ EvalInv'
<1>1. RulesOnce /\ RowsOfKnown /\ OpenIsKnown /\ TypeOK
  BY DEF OpenInv, EvalInv
<1>2. PICK x : /\ x.fp = fp /\ x.state \in {"pending", "firing"}
               /\ \A b \in alerts : b.id # x.id
               /\ alerts' = alerts \cup {x}
               /\ \E items : eval' = Matched(fp, items)
  BY DEF MatchNew, FirstState
<1>3. /\ eval'.phase = eval.phase /\ eval'.windows = eval.windows
      /\ eval'.active = {a \in eval.active : a.fp # fp}
      /\ RulesOnce'
      /\ \A g \in Fingerprint : Ahead(g)' => Ahead(g) /\ g # fp
  BY <1>1, <1>2, MatchedLeaves
<1>4. ~InMaintenance(fp) /\ (\A a \in eval.active : a.fp # fp)
  BY DEF MatchNew
<1>5. \A a \in alerts : a.fp = fp => a.state = "resolved"
  BY <1>1, <1>4 DEF OpenIsKnown, Ahead
<1>6. IdsDiffer' /\ OneOpenAlert'
  BY <1>2, <1>5 DEF OpenInv, IdsDiffer, OneOpenAlert
<1>7. RowsOfKnown'
  BY <1>1, <1>2, <1>3, <1>4 DEF RowsOfKnown, InMaintenance
<1>8. fp \in Fingerprint
  BY <1>1, EvalType DEF Evaluation
<1>9. OpenIsKnown'
  BY <1>1, <1>2, <1>3, <1>8 DEF OpenIsKnown, TypeOK, Alert
<1>10. QED
  BY <1>3, <1>6, <1>7, <1>9 DEF EvalInv

\* An UPDATE of state: each row keeps its id and fingerprint.
LEMMA SetStateRows ==
    ASSUME TypeOK, NEW a, NEW state, alerts' = SetState(a, state)
    PROVE  \A x \in alerts' : \E b \in alerts :
               /\ x = IF b.id = a.id THEN [b EXCEPT !.state = state] ELSE b
               /\ x.id = b.id /\ x.fp = b.fp /\ x.age = b.age
               /\ x.state = IF b.id = a.id THEN state ELSE b.state
<1> DEFINE set(b) == IF b.id = a.id THEN [b EXCEPT !.state = state] ELSE b
<1>1. \A b \in alerts : /\ set(b).id = b.id /\ set(b).fp = b.fp /\ set(b).age = b.age
                        /\ set(b).state = IF b.id = a.id THEN state ELSE b.state
  BY DEF TypeOK, Alert
<1>2. \A x \in alerts' : \E b \in alerts : x = set(b)
  BY DEF SetState
<1>3. \A b \in alerts : set(b) = IF b.id = a.id THEN [b EXCEPT !.state = state] ELSE b
  OBVIOUS
<1> HIDE DEF set
<1>4. QED
  BY <1>1, <1>2, <1>3

LEMMA MatchAgainOpen ==
    ASSUME OpenInv, ~Quiet, eval.phase = "rules", NEW fp \in eval.matches, MatchAgain(fp)
    PROVE  IdsDiffer' /\ OneOpenAlert' /\ EvalInv'
<1>1. RulesOnce /\ RowsOfKnown /\ OpenIsKnown /\ TypeOK
  BY DEF OpenInv, EvalInv
<1>2. PICK a \in eval.active :
        /\ alerts' = SetState(a, "firing") \/ alerts' = alerts
        /\ \E items : eval' = Matched(fp, items)
  BY DEF MatchAgain
<1>3. /\ eval'.phase = eval.phase /\ eval'.windows = eval.windows
      /\ eval'.active = {b \in eval.active : b.fp # fp}
      /\ RulesOnce'
      /\ \A g \in Fingerprint : Ahead(g)' => Ahead(g) /\ g # fp
  BY <1>1, <1>2, MatchedLeaves
<1>4. \A x \in alerts' : \E b \in alerts :
        /\ x = IF b.id = a.id /\ alerts' # alerts THEN [b EXCEPT !.state = "firing"] ELSE b
        /\ x.id = b.id /\ x.fp = b.fp
        /\ x.state # "resolved" => b.state # "resolved"
        /\ b.state # "resolved" => x.state # "resolved"
  <2>1. CASE alerts' = alerts
    BY <2>1
  <2>2. CASE alerts' = SetState(a, "firing") /\ alerts' # alerts
    <3>1. \A b \in alerts : b.id = a.id => b.state # "resolved"
      BY <1>1 DEF RowsOfKnown
    <3>2. QED
      BY <1>1, <2>2, <3>1, SetStateRows
  <2>3. QED
    BY <1>2, <2>1, <2>2
<1>5. IdsDiffer' /\ OneOpenAlert'
  BY <1>4 DEF OpenInv, IdsDiffer, OneOpenAlert
<1>6. RowsOfKnown'
  BY <1>1, <1>3, <1>4 DEF RowsOfKnown, InMaintenance
<1>7. OpenIsKnown'
  BY <1>1, <1>3, <1>4 DEF OpenIsKnown, TypeOK, Alert
<1>8. QED
  BY <1>3, <1>5, <1>6, <1>7 DEF EvalInv

LEMMA LeftoverOpen ==
    ASSUME OpenInv, ~Quiet, NEW a \in eval.active, Leftover(a)
    PROVE  IdsDiffer' /\ OneOpenAlert' /\ EvalInv'
<1>1. RulesOnce /\ RowsOfKnown /\ TypeOK /\ eval \in Evaluation
  BY EvalType DEF OpenInv, EvalInv
<1>2. /\ eval.phase = "leftovers" /\ eval'.phase = "leftovers" /\ eval'.windows = eval.windows
      /\ eval'.todo = eval.todo /\ eval'.matches = eval.matches
      /\ eval'.active = eval.active \ {a}
  BY <1>1 DEF Leftover, LeftoverSettled, Evaluation
<1>3. \A x \in alerts' : \E b \in alerts :
        /\ x = b \/ x.state = "resolved"
        /\ x.id = b.id /\ x.fp = b.fp
  <2>1. CASE alerts' \subseteq alerts
    BY <2>1
  <2>2. CASE alerts' = SetState(a, "resolved")
    BY <1>1, <2>2, SetStateRows
  <2>3. QED
    BY <2>1, <2>2 DEF Leftover, LeftoverSettled
<1>4. IdsDiffer' /\ OneOpenAlert'
  <2>1. IdsDiffer'
    <3>1. CASE alerts' \subseteq alerts
      BY <3>1 DEF OpenInv, IdsDiffer
    <3>2. CASE alerts' = SetState(a, "resolved")
      BY <1>1, <3>2, SetStateRows DEF OpenInv, IdsDiffer
    <3>3. QED
      BY <3>1, <3>2 DEF Leftover, LeftoverSettled
  <2>2. OneOpenAlert'
    BY <1>3 DEF OpenInv, OneOpenAlert
  <2>3. QED
    BY <2>1, <2>2
<1>5. RulesOnce'
  BY <1>1, <1>2 DEF RulesOnce
<1>6. RowsOfKnown'
  BY <1>1, <1>2, <1>3 DEF RowsOfKnown, InMaintenance
<1>7. QED
  BY <1>2, <1>4, <1>5, <1>6 DEF EvalInv

LEMMA EvalStepOpen ==
    ASSUME OpenInv, ~Quiet, EvalStep
    PROVE  IdsDiffer' /\ OneOpenAlert' /\ EvalInv'
<1>1. ASSUME NEW fp \in eval.matches, EvaluateMatch(fp)
      PROVE  IdsDiffer' /\ OneOpenAlert' /\ EvalInv'
  BY <1>1, MatchHeldOpen, MatchNewOpen, MatchAgainOpen DEF EvaluateMatch
<1>2. ASSUME NEW fp \in eval.matches, EvaluationFails(fp)
      PROVE  IdsDiffer' /\ OneOpenAlert' /\ EvalInv'
  BY <1>2, EvaluationEnds DEF EvaluationFails, tables, addresses
<1>3. CASE ReadLeftovers
  <2>1. eval \in Evaluation /\ alerts' = alerts
    BY <1>3, EvalType DEF OpenInv, ReadLeftovers, tables, addresses
  <2>2. /\ eval'.phase = "leftovers" /\ eval'.windows = eval.windows /\ eval'.active = eval.active
        /\ eval'.todo = eval.todo /\ eval'.matches = eval.matches
    BY <1>3, <2>1 DEF ReadLeftovers, Evaluation
  <2>3. RulesOnce' /\ RowsOfKnown'
    BY <2>1, <2>2 DEF OpenInv, EvalInv, RulesOnce, RowsOfKnown, InMaintenance
  <2>4. QED
    BY <2>1, <2>2, <2>3 DEF OpenInv, IdsDiffer, OneOpenAlert, EvalInv
<1>4. CASE FinishEvaluation
  BY <1>4, EvaluationEnds DEF FinishEvaluation, tables, addresses
<1>5. QED
  BY <1>1, <1>2, <1>3, <1>4, ReadRuleOpen, RuleFailsOpen, LeftoverOpen DEF EvalStep

LEMMA OpenStep == OpenInv /\ [Next]_vars => OpenInv'
<1> SUFFICES ASSUME OpenInv, [Next]_vars PROVE OpenInv'
  OBVIOUS
<1>1. TypeOK'
  BY TypeStep DEF OpenInv
<1>2. IdsDiffer' /\ OneOpenAlert' /\ EvalInv'
  <2>1. ASSUME NEW fp \in Fingerprint, NEW age \in Age, StateChange(fp, age) \/ SilentChange(fp, age)
        PROVE  UNCHANGED <<alerts, eval>>
    BY <2>1 DEF StateChange, SilentChange, tables, addresses
  <2>2. CASE PollWakes \/ LoopWakes \/ LoopTimesOut \/ UNCHANGED vars
    <3>1. UNCHANGED <<alerts, eval>>
      BY <2>2 DEF PollWakes, LoopWakes, LoopTimesOut, vars, tables, addresses
    <3>2. QED
      BY <3>1, RowsGo
  <2>3. CASE Restart
    BY <2>3, EvaluationEnds DEF Restart, tables, addresses
  <2>4. ASSUME NEW who \in Callers, NEW ch \in Channels, Send(who, ch)
        PROVE  UNCHANGED <<alerts, eval>>
    BY <2>4 DEF Send, tables
  <2>5. ASSUME \/ \E who \in Callers : LookUp(who)
               \/ \E for \in ForValues, list \in ChannelLists : CreateRule(for, list)
               \/ \E r \in RuleIds, row \in RuleRow : UpdateRule(r, row)
               \/ \E ch \in Channels, state \in {"none", "off", "on"} : SetChannel(ch, state)
               \/ \E r \in RuleIds : DeleteRule(r)
               \/ \E subject \in Subjects, scoped \in SUBSET ruleRows : DeleteSubject(subject, scoped)
               \/ \E subjects \in SUBSET Subjects : SetMaintenance(subjects)
               \/ \E a \in alerts : ExpireAlert(a)
        PROVE  alerts' \subseteq alerts /\ UNCHANGED eval
    BY <2>5 DEF LookUp, CreateRule, UpdateRule, SetChannel, DeleteRule, DeleteSubject, SetMaintenance,
                ExpireAlert, tables
  <2>6. QED
    BY <2>1, <2>2, <2>3, <2>4, <2>5, RowsGo, TickOpen, StartOpen, EvalStepOpen DEF Next
<1>3. QED
  BY <1>1, <1>2 DEF OpenInv

LEMMA OpenInit == Init => OpenInv
  BY TypeInit DEF Init, OpenInv, IdsDiffer, OneOpenAlert, EvalInv, Quiet

\* At most one alert of a fingerprint is open, although no key says so, two evaluations may
\* be under way, and rules and subjects are deleted between the statements of one.
THEOREM OneOpenAlertAlways == Spec => []OneOpenAlert
<1>1. OpenInv => OneOpenAlert
  BY DEF OpenInv
<1>2. QED
  BY <1>1, OpenInit, OpenStep, PTL DEF Spec

-----------------------------------------------------------------------------
(* Maintenance.                                                            *)

\* What MaintenanceHolds says of one step.
Holds ==
    ~Quiet /\ eval' # eval =>
         \A fp \in Fingerprint :
             /\ fp.subject \in eval.windows
             /\ eval.phase = "leftovers" => fp.rule \in eval.enabled
             => {a \in OpenAlerts(alerts') : a.fp = fp} = {a \in OpenAlerts(alerts) : a.fp = fp}

\* An UPDATE through a copy the evaluation holds leaves the rows of other fingerprints alone, or
\* those not in maintenance.
LEMMA UpdateHolds ==
    ASSUME OpenInv, ~Quiet, NEW a \in eval.active, NEW state,
           alerts' = SetState(a, state) \/ alerts' = {b \in alerts : b.id # a.id},
           NEW fp \in Fingerprint, fp # a.fp, fp.subject \in eval.windows
    PROVE  \A x : x.fp = fp => (x \in alerts <=> x \in alerts')
<1>1. RowsOfKnown /\ TypeOK
  BY DEF OpenInv, EvalInv
<1>2. \A b \in alerts : b.fp = fp => b.id # a.id
  BY <1>1 DEF RowsOfKnown, InMaintenance
<1>3. CASE alerts' = {b \in alerts : b.id # a.id}
  BY <1>2, <1>3
<1>4. CASE alerts' = SetState(a, state)
  <2>1. \A b \in alerts : b.fp = fp => b \in alerts'
    BY <1>2, <1>4 DEF SetState
  <2>2. ASSUME NEW x \in alerts', x.fp = fp PROVE x \in alerts
    <3>1. PICK b \in alerts : /\ x = IF b.id = a.id THEN [b EXCEPT !.state = state] ELSE b
                             /\ x.fp = b.fp
      BY <1>1, <1>4, SetStateRows
    <3>2. QED
      BY <1>2, <2>2, <3>1
  <2>3. QED
    BY <2>1, <2>2
<1>5. QED
  BY <1>3, <1>4

LEMMA HoldsStep == OpenInv /\ [Next]_vars => Holds
<1> SUFFICES ASSUME OpenInv, [Next]_vars, ~Quiet, eval' # eval,
                    NEW fp \in Fingerprint, fp.subject \in eval.windows,
                    eval.phase = "leftovers" => fp.rule \in eval.enabled
             PROVE  {a \in OpenAlerts(alerts') : a.fp = fp} = {a \in OpenAlerts(alerts) : a.fp = fp}
  BY DEF Holds
<1>1. SUFFICES \A x : x.fp = fp => (x \in alerts <=> x \in alerts')
  BY DEF OpenAlerts
<1>2. ASSUME NEW g \in eval.matches, EvaluateMatch(g)
      PROVE  \A x : x.fp = fp => (x \in alerts <=> x \in alerts')
  <2>1. CASE MatchHeld(g)
    BY <2>1 DEF MatchHeld
  <2>2. CASE MatchNew(g)
    <3>1. g # fp
      BY <2>2 DEF MatchNew, InMaintenance
    <3>2. \E y : y.fp = g /\ alerts' = alerts \cup {y}
      BY <2>2 DEF MatchNew
    <3>3. QED
      BY <3>1, <3>2
  <2>3. CASE MatchAgain(g)
    <3>1. g # fp
      BY <2>3 DEF MatchAgain, InMaintenance
    <3>2. PICK a \in eval.active : a.fp = g /\ (alerts' = SetState(a, "firing") \/ alerts' = alerts)
      BY <2>3 DEF MatchAgain
    <3>3. QED
      BY <3>1, <3>2, UpdateHolds
  <2>4. QED
    BY <1>2, <2>1, <2>2, <2>3 DEF EvaluateMatch
<1>3. ASSUME NEW a \in eval.active, Leftover(a)
      PROVE  \A x : x.fp = fp => (x \in alerts <=> x \in alerts')
  <2>1. CASE Kept(a)
    BY <1>3, <2>1 DEF Leftover
  <2>2. CASE ~Kept(a)
    <3>1. a.fp # fp
      BY <1>3, <2>2 DEF Leftover, Kept, InMaintenance
    <3>2. alerts' = SetState(a, "resolved") \/ alerts' = {b \in alerts : b.id # a.id}
      BY <1>3, <2>2 DEF Leftover, LeftoverSettled
    <3>3. QED
      BY <3>1, <3>2, UpdateHolds
  <2>3. QED
    BY <2>1, <2>2
<1>4. CASE UNCHANGED alerts
  BY <1>4
<1>5. ASSUME ~\E g \in eval.matches : EvaluateMatch(g), ~\E a \in eval.active : Leftover(a)
      PROVE  UNCHANGED alerts
  <2>1. ASSUME EvalStep PROVE UNCHANGED alerts
    BY <1>5, <2>1 DEF EvalStep, ReadRule, RuleFails, EvaluationFails, ReadLeftovers, FinishEvaluation, tables, addresses
  <2>2. ASSUME ~EvalStep, ~Restart PROVE FALSE
    BY <2>2 DEF Next, StateChange, SilentChange, PollWakes, Tick, StartEvaluation, LookUp, Send, LoopWakes,
                LoopTimesOut, CreateRule, UpdateRule, SetChannel, DeleteRule, DeleteSubject, SetMaintenance,
                ExpireAlert, vars, Free
  <2>3. QED
    BY <2>1, <2>2 DEF Restart, tables, addresses
<1>6. QED
  BY <1>2, <1>3, <1>4, <1>5

\* An evaluation neither opens, fires nor settles an alert under a window of maintenance that was
\* in force when it began, as long as its rule is enabled; not even through the id of a row that
\* was deleted, and used again, since the evaluation read it.
THEOREM MaintenanceHoldsAlways == Spec => MaintenanceHolds
<1>1. OpenInv /\ [Next]_vars => [Holds]_vars
  BY HoldsStep
<1>2. QED
  BY <1>1, OpenInit, OpenStep, PTL DEF Spec, MaintenanceHolds, Holds

-----------------------------------------------------------------------------
(* An alert fires when its condition has held: without deletions, which     *)
(* give the id of one row to another, and restarts, after which an alert    *)
(* may outlive an evaluation that found its condition false.                *)

NothingVanishes == Disturbances \cap {"delete", "restart"} = {}

\* The evaluation knows rows and rules as they are.
Current ==
    /\ eval.active \subseteq alerts
    /\ \A t \in eval.todo : t.id \in ruleRows
    /\ \A fp \in eval.matches : fp.rule \in ruleRows

\* What it read of a match is vouched for.
MatchesVouched ==
    \A fp \in eval.matches : ~InMaintenance(fp) => eval.ages[fp] <= vouched[fp]

\* A pending alert that the evaluation will delete: its condition was read, and false.
Doomed(a) == ~Quiet /\ a \in eval.active /\ ~Ahead(a.fp) /\ ~InMaintenance(a.fp)

PendingVouched == \A a \in alerts : a.state = "pending" => a.age <= vouched[a.fp] \/ Doomed(a)

HeldInv == OpenInv /\ PendingVouched /\ (~Quiet => Current /\ MatchesVouched)

\* A step outside evaluations that leaves rows alone, or deletes a resolved one.
LEMMA OutsideHeld ==
    ASSUME HeldInv, UNCHANGED <<eval, vouched>>, ruleRows \subseteq ruleRows',
           alerts' \subseteq alerts, Quiet \/ alerts' = alerts
    PROVE  PendingVouched' /\ (~Quiet' => Current' /\ MatchesVouched')
<1>1. PendingVouched'
  BY DEF HeldInv, PendingVouched, Doomed, Quiet, Ahead, InMaintenance
<1>2. ASSUME ~Quiet PROVE Current' /\ MatchesVouched'
  BY <1>2 DEF HeldInv, Current, MatchesVouched, InMaintenance
<1>3. QED
  BY <1>1, <1>2 DEF Quiet

LEMMA TickHeld ==
    ASSUME HeldInv, Tick
    PROVE  PendingVouched' /\ (~Quiet' => Current' /\ MatchesVouched')
<1>1. Quiet /\ Quiet' /\ TypeOK
  BY DEF Tick, Quiet, HeldInv, OpenInv, Free
<1>2. ASSUME NEW x \in alerts', x.state = "pending" PROVE x.age <= vouched'[x.fp]
  <2>1. PICK a \in alerts : x = [a EXCEPT !.age = Older(@)]
    BY <1>2 DEF Tick, Free
  <2>2. a \in Alert /\ a.fp \in Fingerprint /\ a.age \in Age
    BY <1>1 DEF TypeOK, Alert
  <2>3. x.state = a.state /\ x.fp = a.fp /\ x.age = Older(a.age)
    BY <2>1, <2>2 DEF Alert
  <2>4. vouched'[a.fp] = Older(vouched[a.fp]) /\ vouched[a.fp] \in Age
    BY <1>1, <2>2 DEF Tick, TypeOK, Free
  <2>5. a.age <= vouched[a.fp]
    BY <1>1, <1>2, <2>3 DEF HeldInv, PendingVouched, Doomed
  <2>6. Older(a.age) <= Older(vouched[a.fp])
    BY <2>2, <2>4, <2>5, AgesAssumption DEF Older, Age
  <2>7. QED
    BY <2>3, <2>4, <2>6
<1>3. QED
  BY <1>1, <1>2 DEF PendingVouched

LEMMA StartHeld ==
    ASSUME HeldInv, NEW who \in Callers, StartEvaluation(who)
    PROVE  PendingVouched' /\ (~Quiet' => Current' /\ MatchesVouched')
<1>1. Quiet /\ UNCHANGED <<alerts, ruleRows, vouched>>
  BY DEF StartEvaluation, tables, addresses, Free
<1>2. /\ eval'.active = OpenAlerts(alerts) /\ eval'.matches = {}
      /\ eval'.todo = {[id |-> r, for |-> rule[r].for] : r \in EnabledRules}
  BY DEF StartEvaluation, Free
<1>3. PendingVouched'
  BY <1>1 DEF HeldInv, PendingVouched, Doomed
<1>4. Current'
  BY <1>1, <1>2 DEF Current, OpenAlerts, EnabledRules
<1>5. MatchesVouched'
  BY <1>2 DEF MatchesVouched
<1>6. QED
  BY <1>3, <1>4, <1>5

LEMMA ReadRuleHeld ==
    ASSUME HeldInv, ~Quiet, NEW r \in eval.todo, ReadRule(r)
    PROVE  PendingVouched' /\ (~Quiet' => Current' /\ MatchesVouched')
<1>1. eval \in Evaluation /\ UNCHANGED <<alerts, ruleRows>> /\ TypeOK /\ r.id \in RuleIds
  BY EvalType DEF HeldInv, OpenInv, ReadRule, tables, Evaluation, RuleRead, addresses
<1>2. /\ eval'.phase = "rules" /\ eval'.active = eval.active /\ eval'.windows = eval.windows
      /\ eval'.todo = eval.todo \ {r} /\ eval'.matches = matching \cap OfRule(r.id)
      /\ eval'.ages = StartedAgo /\ eval.phase = "rules" /\ eval.matches = {} /\ eval' # Idle
  BY <1>1 DEF ReadRule, Evaluation, Idle
<1>3. Current /\ RulesOnce /\ OpenIsKnown
  BY <1>2 DEF HeldInv, OpenInv, EvalInv
<1>4. StartedAgo \in [Fingerprint -> Age] /\ vouched \in [Fingerprint -> Age]
  BY <1>1, AgesAssumption DEF StartedAgo, TypeOK, Age
<1>5. \A fp \in Fingerprint :
         /\ fp \notin OfRule(r.id) \/ InMaintenance(fp) => vouched'[fp] = vouched[fp]
         /\ fp \in matching \cap OfRule(r.id) /\ ~InMaintenance(fp)
               => vouched[fp] <= vouched'[fp] /\ StartedAgo[fp] <= vouched'[fp]
  BY <1>4 DEF ReadRule, Age
<1>6. Current'
  BY <1>1, <1>2, <1>3 DEF Current, OfRule
<1>7. MatchesVouched'
  BY <1>2, <1>5 DEF MatchesVouched, InMaintenance, OfRule
<1>8. PendingVouched'
  <2>1. SUFFICES ASSUME NEW a \in alerts, a.state = "pending" PROVE a.age <= vouched'[a.fp] \/ Doomed(a)'
    BY <1>1 DEF PendingVouched
  <2>2. a.fp \in Fingerprint /\ a.age \in Age
    BY <1>1 DEF TypeOK, Alert
  <2>3. a.age <= vouched[a.fp] \/ Doomed(a)
    BY <2>1 DEF HeldInv, PendingVouched
  <2>4. CASE Doomed(a)
    <3>1. a.fp.rule # r.id
      BY <2>4 DEF Doomed, Ahead
    <3>2. ~Ahead(a.fp)'
      BY <1>2, <2>4, <3>1 DEF Doomed, Ahead, OfRule
    <3>3. QED
      BY <1>2, <2>4, <3>2 DEF Doomed, Quiet, InMaintenance
  <2>5. CASE a.age <= vouched[a.fp]
    <3>1. CASE a.fp \notin OfRule(r.id) \/ InMaintenance(a.fp)
      BY <1>5, <2>2, <2>5, <3>1
    <3>2. CASE a.fp \in matching \cap OfRule(r.id) /\ ~InMaintenance(a.fp)
      <4>1. vouched[a.fp] <= vouched'[a.fp]
        BY <1>5, <2>2, <3>2
      <4>2. vouched[a.fp] \in Nat /\ vouched'[a.fp] \in Nat /\ a.age \in Nat
        <5>1. vouched' \in [Fingerprint -> Age]
          BY <1>4, AgesAssumption DEF ReadRule, Age
        <5>2. QED
          BY <1>4, <2>2, <5>1 DEF Age
      <4>3. QED
        BY <2>5, <4>1, <4>2
    <3>3. CASE a.fp \in OfRule(r.id) \ matching /\ ~InMaintenance(a.fp)
      <4>1. a.fp.rule = r.id /\ Ahead(a.fp)
        BY <3>3 DEF OfRule, Ahead
      <4>2. PICK b \in eval.active : b.fp = a.fp
        BY <2>1, <4>1, <1>3 DEF OpenIsKnown
      <4>3. b \in alerts /\ b.state # "resolved"
        BY <1>2, <1>3, <4>2 DEF Current, HeldInv, OpenInv, EvalInv, RowsOfKnown
      <4>4. a = b
        BY <2>1, <4>2, <4>3 DEF HeldInv, OpenInv, OneOpenAlert
      <4>5. ~Ahead(a.fp)'
        BY <1>2, <1>3, <3>3, <4>1 DEF Ahead, RulesOnce
      <4>6. QED
        BY <1>2, <3>3, <4>2, <4>4, <4>5 DEF Doomed, Quiet, InMaintenance
    <3>4. QED
      BY <2>2, <3>1, <3>2, <3>3
  <2>6. QED
    BY <2>3, <2>4, <2>5
<1>9. QED
  BY <1>6, <1>7, <1>8

LEMMA RuleFailsHeld ==
    ASSUME HeldInv, ~Quiet, NEW r \in eval.todo, RuleFails(r)
    PROVE  PendingVouched' /\ (~Quiet' => Current' /\ MatchesVouched')
<1>1. eval \in Evaluation /\ UNCHANGED <<alerts, ruleRows, vouched>> /\ TypeOK
  BY EvalType DEF HeldInv, OpenInv, RuleFails, tables, history, addresses
<1>2. /\ eval'.active = {a \in eval.active : a.fp.rule # r.id} /\ eval'.windows = eval.windows
      /\ eval'.todo = eval.todo \ {r} /\ eval'.matches = {} /\ eval.matches = {} /\ eval' # Idle
  BY <1>1 DEF RuleFails, Evaluation, Idle
<1>3. Current' /\ MatchesVouched'
  BY <1>1, <1>2 DEF HeldInv, Current, MatchesVouched
<1>4. PendingVouched'
  <2>1. ASSUME NEW a, Doomed(a) PROVE Doomed(a)'
    BY <1>2, <2>1 DEF Doomed, Ahead, Quiet, InMaintenance
  <2>2. QED
    BY <1>1, <2>1 DEF HeldInv, PendingVouched
<1>5. QED
  BY <1>3, <1>4

\* A doomed alert stays doomed when a match is dealt with.
LEMMA MatchedDooms ==
    ASSUME TypeOK, ~Quiet, RulesOnce, NEW fp \in eval.matches, NEW items, eval' = Matched(fp, items)
    PROVE  /\ \A a \in Alert : Doomed(a) => Doomed(a)'
           /\ eval'.ages = eval.ages /\ eval'.windows = eval.windows /\ eval' # Idle
           /\ eval'.matches \subseteq eval.matches /\ eval'.todo = eval.todo
           /\ eval'.active = {a \in eval.active : a.fp # fp}
<1>1. eval \in Evaluation
  BY EvalType
<1>2. /\ eval'.ages = eval.ages /\ eval'.phase = eval.phase
      /\ eval.phase \in {"rules", "leftovers"}
  BY <1>1 DEF Matched, Evaluation
<1>3. /\ eval'.windows = eval.windows /\ eval'.todo = eval.todo
      /\ eval'.matches = eval.matches \ {fp}
      /\ eval'.active = {a \in eval.active : a.fp # fp}
      /\ \A g \in Fingerprint : Ahead(g)' => Ahead(g) /\ g # fp
  BY MatchedLeaves
<1>4. eval' # Idle
  BY <1>2 DEF Idle
<1>5. ASSUME NEW a \in Alert, Doomed(a) PROVE Doomed(a)'
  <2>1. a.fp \in Fingerprint /\ a.fp # fp
    BY <1>5 DEF Doomed, Ahead, Alert
  <2>2. QED
    BY <1>3, <1>4, <1>5, <2>1 DEF Doomed, Quiet, InMaintenance
<1>6. QED
  BY <1>2, <1>3, <1>4, <1>5

LEMMA MatchHeldHeld ==
    ASSUME HeldInv, ~Quiet, eval.phase = "rules", NEW fp \in eval.matches, EvaluateMatch(fp),
           MatchHeld(fp)
    PROVE  PendingVouched' /\ (~Quiet' => Current' /\ MatchesVouched')
<1>1. TypeOK /\ RulesOnce /\ Current /\ MatchesVouched /\ UNCHANGED <<alerts, ruleRows, vouched>>
  BY DEF HeldInv, OpenInv, EvalInv, EvaluateMatch, MatchHeld, history, addresses
<1>2. /\ \A a \in Alert : Doomed(a) => Doomed(a)'
      /\ eval'.ages = eval.ages /\ eval'.windows = eval.windows
      /\ eval'.matches \subseteq eval.matches /\ eval'.todo = eval.todo
      /\ eval'.active = {a \in eval.active : a.fp # fp}
  BY <1>1, MatchedDooms DEF MatchHeld
<1>3. PendingVouched'
  BY <1>1, <1>2 DEF HeldInv, PendingVouched, TypeOK
<1>4. Current' /\ MatchesVouched'
  BY <1>1, <1>2 DEF Current, MatchesVouched, InMaintenance
<1>5. QED
  BY <1>3, <1>4

LEMMA MatchNewHeld ==
    ASSUME HeldInv, ~Quiet, eval.phase = "rules", NEW fp \in eval.matches, EvaluateMatch(fp),
           MatchNew(fp)
    PROVE  PendingVouched' /\ (~Quiet' => Current' /\ MatchesVouched')
<1>1. TypeOK /\ RulesOnce /\ Current /\ MatchesVouched /\ UNCHANGED <<ruleRows, vouched>>
  BY DEF HeldInv, OpenInv, EvalInv, EvaluateMatch, history, addresses
<1>2. PICK x : /\ x.fp = fp /\ x.age = eval.ages[fp]
               /\ alerts' = alerts \cup {x}
               /\ \E items : eval' = Matched(fp, items)
  BY DEF MatchNew
<1>3. /\ \A a \in Alert : Doomed(a) => Doomed(a)'
      /\ eval'.ages = eval.ages /\ eval'.windows = eval.windows
      /\ eval'.matches \subseteq eval.matches /\ eval'.todo = eval.todo
      /\ eval'.active = {a \in eval.active : a.fp # fp}
  BY <1>1, <1>2, MatchedDooms
<1>4. x.age <= vouched[x.fp]
  BY <1>1, <1>2 DEF MatchesVouched, MatchNew
<1>5. PendingVouched'
  BY <1>1, <1>2, <1>3, <1>4 DEF HeldInv, PendingVouched, TypeOK
<1>6. Current' /\ MatchesVouched'
  BY <1>1, <1>2, <1>3 DEF Current, MatchesVouched, InMaintenance
<1>7. QED
  BY <1>5, <1>6

LEMMA MatchAgainHeld ==
    ASSUME HeldInv, ~Quiet, eval.phase = "rules", NEW fp \in eval.matches, EvaluateMatch(fp),
           MatchAgain(fp)
    PROVE  PendingVouched' /\ (~Quiet' => Current' /\ MatchesVouched')
<1>1. TypeOK /\ RulesOnce /\ Current /\ MatchesVouched /\ UNCHANGED <<ruleRows, vouched>>
  BY DEF HeldInv, OpenInv, EvalInv, EvaluateMatch, history, addresses
<1>2. PICK c \in eval.active :
        /\ c.fp = fp
        /\ alerts' = SetState(c, "firing") \/ alerts' = alerts
        /\ \E items : eval' = Matched(fp, items)
  BY DEF MatchAgain
<1>3. /\ \A a \in Alert : Doomed(a) => Doomed(a)'
      /\ eval'.ages = eval.ages /\ eval'.windows = eval.windows
      /\ eval'.matches \subseteq eval.matches /\ eval'.todo = eval.todo
      /\ eval'.active = {a \in eval.active : a.fp # fp}
  BY <1>1, <1>2, MatchedDooms
<1>4. \A x \in alerts' : x \in alerts \/ x.state = "firing"
  BY <1>1, <1>2, SetStateRows
<1>5. eval'.active \subseteq alerts'
  <2>1. ASSUME NEW a \in eval'.active PROVE a \in alerts /\ a.id # c.id
    BY <1>1, <1>2, <1>3 DEF Current, HeldInv, OpenInv, IdsDiffer
  <2>2. QED
    BY <1>2, <2>1 DEF SetState
<1>6. PendingVouched'
  BY <1>1, <1>3, <1>4 DEF HeldInv, PendingVouched, TypeOK
<1>7. Current' /\ MatchesVouched'
  BY <1>1, <1>3, <1>5 DEF Current, MatchesVouched, InMaintenance
<1>8. QED
  BY <1>6, <1>7

LEMMA LeftoverHeld ==
    ASSUME HeldInv, ~Quiet, NEW a \in eval.active, Leftover(a)
    PROVE  PendingVouched' /\ (~Quiet' => Current' /\ MatchesVouched')
<1>1. /\ TypeOK /\ Current /\ MatchesVouched /\ eval \in Evaluation
      /\ UNCHANGED <<ruleRows, vouched>>
  BY EvalType DEF HeldInv, OpenInv, EvalInv, Leftover, history, addresses
<1>2. /\ eval'.windows = eval.windows /\ eval'.ages = eval.ages /\ eval' # Idle
      /\ eval'.todo = eval.todo /\ eval'.matches = eval.matches
      /\ eval'.active = eval.active \ {a}
  BY <1>1 DEF Leftover, LeftoverSettled, Evaluation, Idle
<1>3. \A b \in eval'.active : b \in alerts /\ b.id # a.id
  BY <1>1, <1>2 DEF Current, HeldInv, OpenInv, IdsDiffer
<1>4. Current'
  <2>1. \/ alerts' = alerts
        \/ alerts' = SetState(a, "resolved")
        \/ alerts' = {b \in alerts : b.id # a.id}
    BY DEF Leftover, LeftoverSettled
  <2>2. \A b \in alerts : b.id # a.id => b \in alerts'
    BY <2>1 DEF SetState
  <2>3. QED
    BY <1>1, <1>2, <1>3, <2>2 DEF Current
<1>5. MatchesVouched'
  BY <1>1, <1>2 DEF MatchesVouched, InMaintenance
<1>6. PendingVouched'
  <2>1. SUFFICES ASSUME NEW x \in alerts', x.state = "pending"
                 PROVE  x.age <= vouched[x.fp] \/ Doomed(x)'
    BY <1>1 DEF PendingVouched
  <2>2. x \in alerts
    <3>1. CASE alerts' = SetState(a, "resolved")
      BY <1>1, <2>1, <3>1, SetStateRows
    <3>2. QED
      BY <3>1 DEF Leftover, LeftoverSettled
  <2>3. CASE Doomed(x)
    <3>1. x # a
      <4>1. SUFFICES ASSUME x = a PROVE FALSE
        OBVIOUS
      <4>2. ~Kept(a) /\ a.state = "pending"
        BY <2>1, <2>3, <4>1 DEF Doomed, Kept
      <4>3. alerts' = {b \in alerts : b.id # a.id}
        BY <4>2 DEF Leftover, LeftoverSettled
      <4>4. QED
        BY <4>1, <4>3
    <3>2. QED
      BY <1>2, <2>3, <3>1 DEF Doomed, Ahead, Quiet, InMaintenance
  <2>4. QED
    BY <2>1, <2>2, <2>3 DEF HeldInv, PendingVouched
<1>7. QED
  BY <1>4, <1>5, <1>6

LEMMA EvalStepHeld ==
    ASSUME NothingVanishes, HeldInv, ~Quiet, EvalStep
    PROVE  PendingVouched' /\ (~Quiet' => Current' /\ MatchesVouched')
<1>1. ASSUME NEW fp \in eval.matches, EvaluateMatch(fp)
      PROVE  PendingVouched' /\ (~Quiet' => Current' /\ MatchesVouched')
  BY <1>1, MatchHeldHeld, MatchNewHeld, MatchAgainHeld DEF EvaluateMatch
<1>2. ASSUME NEW fp \in eval.matches, EvaluationFails(fp) PROVE FALSE
  BY <1>2 DEF EvaluationFails, HeldInv, Current
<1>3. CASE ReadLeftovers
  <2>1. eval \in Evaluation /\ UNCHANGED <<alerts, ruleRows, vouched>>
    BY <1>3, EvalType DEF HeldInv, OpenInv, ReadLeftovers, tables, history, addresses
  <2>2. /\ eval'.windows = eval.windows /\ eval'.active = eval.active /\ eval'.ages = eval.ages
        /\ eval'.todo = eval.todo /\ eval'.matches = eval.matches /\ eval' # Idle
    BY <1>3, <2>1 DEF ReadLeftovers, Evaluation, Idle
  <2>3. Current' /\ MatchesVouched'
    BY <2>1, <2>2 DEF HeldInv, Current, MatchesVouched, InMaintenance
  <2>4. PendingVouched'
    BY <2>1, <2>2 DEF HeldInv, PendingVouched, Doomed, Ahead, Quiet, InMaintenance
  <2>5. QED
    BY <2>3, <2>4
<1>4. CASE FinishEvaluation
  <2>1. eval.active = {} /\ eval' = Idle /\ UNCHANGED <<alerts, vouched>>
    BY <1>4 DEF FinishEvaluation, tables, history, addresses
  <2>2. PendingVouched'
    BY <2>1 DEF HeldInv, PendingVouched, Doomed
  <2>3. QED
    BY <2>1, <2>2 DEF Quiet
<1>5. QED
  BY <1>1, <1>2, <1>3, <1>4, ReadRuleHeld, RuleFailsHeld, LeftoverHeld DEF EvalStep

LEMMA HeldStep ==
    ASSUME NothingVanishes, HeldInv, [Next]_vars
    PROVE  HeldInv'
<1>1. OpenInv'
  BY OpenStep DEF HeldInv
<1>2. PendingVouched' /\ (~Quiet' => Current' /\ MatchesVouched')
  <2>1. ASSUME NEW fp \in Fingerprint, NEW age \in Age, StateChange(fp, age) \/ SilentChange(fp, age)
        PROVE  UNCHANGED <<alerts, eval, vouched, ruleRows>>
    BY <2>1 DEF StateChange, SilentChange, tables, history, addresses, Free
  <2>2. CASE PollWakes \/ LoopWakes \/ LoopTimesOut \/ UNCHANGED vars
    <3>1. UNCHANGED <<alerts, eval, vouched, ruleRows>>
      BY <2>2 DEF PollWakes, LoopWakes, LoopTimesOut, vars, tables, history, addresses, Free
    <3>2. QED
      BY <3>1, OutsideHeld
  <2>3. ~Restart
    BY DEF Restart, NothingVanishes
  <2>4. ASSUME NEW who \in Callers, NEW ch \in Channels, Send(who, ch)
        PROVE  UNCHANGED <<alerts, eval, vouched, ruleRows>>
    BY <2>4 DEF Send, tables, history, Free
  <2>5. ASSUME \/ \E who \in Callers : LookUp(who)
               \/ \E for \in ForValues, list \in ChannelLists : CreateRule(for, list)
               \/ \E r \in RuleIds, row \in RuleRow : UpdateRule(r, row)
               \/ \E ch \in Channels, state \in {"none", "off", "on"} : SetChannel(ch, state)
               \/ \E subjects \in SUBSET Subjects : SetMaintenance(subjects)
               \/ \E a \in alerts : ExpireAlert(a)
        PROVE  /\ UNCHANGED <<eval, vouched>> /\ ruleRows \subseteq ruleRows'
               /\ alerts' \subseteq alerts /\ (Quiet \/ alerts' = alerts)
    BY <2>5 DEF LookUp, CreateRule, UpdateRule, SetChannel, SetMaintenance, ExpireAlert, tables, history, Free
  <2>6. /\ ~\E r \in RuleIds : DeleteRule(r)
        /\ ~\E subject \in Subjects, scoped \in SUBSET ruleRows : DeleteSubject(subject, scoped)
    BY DEF DeleteRule, DeleteSubject, NothingVanishes
  <2>7. QED
    BY <2>1, <2>2, <2>3, <2>4, <2>5, <2>6, OutsideHeld, TickHeld, StartHeld, EvalStepHeld DEF Next
<1>3. QED
  BY <1>1, <1>2 DEF HeldInv

LEMMA HeldInit == Init => HeldInv
  BY OpenInit DEF Init, HeldInv, PendingVouched, Quiet

\* What FiringHasHeld says of one step.
FiresVouched ==
    \A a \in alerts' :
        /\ a.state = "firing"
        /\ \A b \in alerts : b.id = a.id => b.state # "firing"
        => vouched[a.fp] >= eval.for

LEMMA FiresStep ==
    ASSUME NothingVanishes, HeldInv, [Next]_vars
    PROVE  [FiresVouched]_vars
<1> SUFFICES ASSUME NEW x \in alerts', x.state = "firing",
                    \A b \in alerts : b.id = x.id => b.state # "firing"
             PROVE  vouched[x.fp] >= eval.for
  BY DEF FiresVouched
<1>1. TypeOK
  BY DEF HeldInv, OpenInv
<1>2. ASSUME NEW fp \in eval.matches, EvaluateMatch(fp), ~Quiet PROVE vouched[x.fp] >= eval.for
  <2>1. eval \in Evaluation /\ eval.phase = "rules"
    BY <1>1, <1>2, EvalType DEF EvaluateMatch
  <2>2. fp \in Fingerprint /\ eval.for \in Nat /\ eval.ages[fp] \in Nat /\ vouched[fp] \in Nat
    <3>1. eval.matches \subseteq Fingerprint /\ eval.for \in ForValues
          /\ eval.ages \in [Fingerprint -> Age]
      BY <2>1 DEF Evaluation
    <3>2. vouched \in [Fingerprint -> Age]
      BY <1>1 DEF TypeOK
    <3>3. Age \subseteq Nat /\ ForValues \subseteq Age
      BY AgesAssumption DEF Age
    <3>4. QED
      BY <3>1, <3>2, <3>3
  <2>3. CASE MatchHeld(fp)
    BY <2>3 DEF MatchHeld
  <2>4. CASE MatchNew(fp)
    <3>1. PICK y : /\ y.fp = fp /\ y.state = FirstState(fp, eval.for)
                   /\ alerts' = alerts \cup {y}
      BY <2>4 DEF MatchNew
    <3>2. x = y
      BY <3>1
    <3>3. eval.ages[fp] >= eval.for
      BY <3>1, <3>2 DEF FirstState, Ripe
    <3>4. eval.ages[fp] <= vouched[fp]
      BY <1>2, <2>4 DEF HeldInv, MatchesVouched, MatchNew
    <3>5. QED
      BY <2>2, <3>1, <3>2, <3>3, <3>4
  <2>5. CASE MatchAgain(fp)
    <3>1. PICK c \in eval.active :
            /\ c.fp = fp
            /\ \/ alerts' = SetState(c, "firing") /\ c.state = "pending" /\ Ripe(c.age, eval.for)
               \/ alerts' = alerts
      BY <2>5 DEF MatchAgain
    <3>2. alerts' = SetState(c, "firing") /\ c.state = "pending" /\ c.age >= eval.for
      BY <3>1 DEF Ripe
    <3>3. PICK b \in alerts : x.id = b.id /\ x.fp = b.fp /\ (b.id # c.id => x.state = b.state)
      BY <1>1, <3>2, SetStateRows
    <3>4. b = c
      BY <1>2, <3>3 DEF HeldInv, Current, OpenInv, IdsDiffer
    <3>5. c.age <= vouched[c.fp]
      BY <1>2, <3>1, <3>2, <3>3, <3>4 DEF HeldInv, PendingVouched, Doomed, Ahead
    <3>6. c.age \in Nat
      BY <1>1, <3>3, <3>4 DEF TypeOK, Alert, Age
    <3>7. QED
      BY <2>2, <3>1, <3>2, <3>3, <3>4, <3>5, <3>6
  <2>6. QED
    BY <1>2, <2>3, <2>4, <2>5 DEF EvaluateMatch
<1>3. ASSUME NEW a \in eval.active, Leftover(a) PROVE FALSE
  <2>1. CASE alerts' = SetState(a, "resolved")
    BY <1>1, <2>1, SetStateRows
  <2>2. QED
    BY <1>3, <2>1 DEF Leftover, LeftoverSettled
<1>4. CASE Tick
  <2>1. PICK b \in alerts : x = [b EXCEPT !.age = Older(@)]
    BY <1>4 DEF Tick, Free
  <2>2. x.id = b.id /\ x.state = b.state
    BY <1>1, <2>1 DEF TypeOK, Alert
  <2>3. QED
    BY <2>2
<1>5. CASE alerts' \subseteq alerts
  BY <1>5
<1>6. CASE ~Quiet /\ EvalStep
  <2>1. CASE (\E fp \in eval.matches : EvaluateMatch(fp)) \/ \E a \in eval.active : Leftover(a)
    BY <1>2, <1>3, <1>6, <2>1
  <2>2. QED
    BY <2>1, <1>5, <1>6 DEF EvalStep, ReadRule, RuleFails, EvaluationFails, ReadLeftovers, FinishEvaluation, tables, addresses
<1>7. ASSUME ~(~Quiet /\ EvalStep), ~Tick PROVE alerts' \subseteq alerts
  BY <1>7 DEF Next, StateChange, SilentChange, PollWakes, StartEvaluation, LookUp, Send, LoopWakes, LoopTimesOut,
              Restart, CreateRule, UpdateRule, SetChannel, DeleteRule, DeleteSubject, SetMaintenance, ExpireAlert,
              vars, tables, Free
<1>8. QED
  BY <1>4, <1>5, <1>6, <1>7

\* No alert fires but for a condition that evaluations vouch for as long as for_seconds: one
\* that finds it false deletes the
\* pending alert, whatever is edited, fails or is under maintenance meanwhile, and whoever asks
\* for evaluations.
THEOREM FiringHasHeldAlways ==
    ASSUME NothingVanishes
    PROVE  Spec => FiringHasHeld
<1>1. HeldInv /\ [Next]_vars => [FiresVouched]_vars
  BY FiresStep
<1>2. HeldInv /\ [Next]_vars => HeldInv'
  BY HeldStep
<1>3. QED
  BY <1>1, <1>2, HeldInit, PTL DEF Spec, FiringHasHeld, FiresVouched

-----------------------------------------------------------------------------
(* The pager and the table agree: without deletions and restarts, which     *)
(* tell nobody, and for the loop alone, whose messages nothing overtakes.   *)

FiringIn(rows, fp) == \E a \in rows : a.fp = fp /\ a.state = "firing"

\* What a message says is what the table holds, and its row is still there.
Says(m, rows) ==
    /\ \E a \in rows : a.id = m.id /\ a.fp = m.fp /\ a.state = m.event
    /\ m.event = "firing" <=> FiringIn(rows, m.fp)

\* One message per fingerprint, so that their order does not matter, and each is true.
Messages(s, rows) ==
    /\ \A i, j \in DOMAIN s : s[i].fp = s[j].fp => i = j
    /\ \A i \in DOMAIN s : Says(s[i], rows)

\* A message goes to the channels that were looked up, before that to those of its list.
Reaches(m, ch) == IF m.lookedUp THEN ch \in m.to ELSE Names(m.channels, ch)

\* What a channel of these pairs was told is what the table holds, unless a message to it will
\* correct that.
ToldOrUnsent(s, rows, said, pairs) ==
    \A fp \in Fingerprint, ch \in Channels :
        <<fp, ch>> \in pairs =>
            \/ said[fp][ch] = "firing" <=> FiringIn(rows, fp)
            \/ \E i \in DOMAIN s : s[i].fp = fp /\ Reaches(s[i], ch)

\* The channels that are addressed, and no edit added them since they were told of the fingerprint.
Followed ==
    {pair \in Fingerprint \X Channels : pair \notin readdressed /\ pair[2] \in Addressed(pair[1].rule)}

\* No channel is deleted, a rule that does not exist has no list, who believes in an alert is
\* addressed still or was dropped by an edit, and the evaluation read of every channel it may owe.
AddressInv ==
    /\ \A ch \in Channels : channels[ch] # "none"
    /\ \A r \in RuleIds \ ruleRows : rule[r].channels = {} /\ (~Quiet => eval.lists[r] = {})
    /\ \A fp \in Fingerprint, ch \in Channels :
          told[fp][ch] = "firing" /\ <<fp, ch>> \notin readdressed => ch \in Addressed(fp.rule)
    /\ ~Quiet => \A fp \in Fingerprint, ch \in Channels :
                    <<fp, ch>> \in Followed => Names(eval.lists[fp.rule], ch)

\* What the loop has still to send, of the evaluation under way or of the last one.
Unsent == IF Quiet THEN outbox["loop"] ELSE eval.out

\* The evaluation is the loop's; it knows alerts as they were, open, and of rules that exist; and
\* it is done with the fingerprints it has messages about.
LoopEval ==
    /\ eval.who = "loop" /\ outbox["loop"] = <<>>
    /\ \A a \in eval.active : a.state # "resolved"
    /\ eval.phase = "leftovers" => /\ eval.todo = {} /\ eval.matches = {}
                                  /\ \A a \in eval.active : a.fp.rule \in eval.known
    /\ \A i \in DOMAIN eval.out :
          ~Ahead(eval.out[i].fp) /\ \A a \in eval.active : a.fp # eval.out[i].fp

AgreeInv ==
    /\ \A a \in alerts : a.fp.rule \in ruleRows
    /\ ~Quiet => LoopEval
    /\ Messages(Unsent, alerts)
    /\ ToldOrUnsent(Unsent, alerts, told, Followed)

LEMMA FollowedPairs ==
    ASSUME NEW fp \in Fingerprint, NEW ch \in Channels
    PROVE  <<fp, ch>> \in Followed <=> <<fp, ch>> \notin readdressed /\ ch \in Addressed(fp.rule)
  BY DEF Followed

LEMMA FollowedNext ==
    ASSUME NEW fp \in Fingerprint, NEW ch \in Channels
    PROVE  <<fp, ch>> \in Followed' <=> <<fp, ch>> \notin readdressed' /\ ch \in Addressed(fp.rule)'
  BY DEF Followed

\* Nobody edits rules or channels.
LEMMA AddressesStay ==
    ASSUME UNCHANGED <<addresses, ruleRows, rule>>
    PROVE  Followed' = Followed /\ \A r \in RuleIds : Addressed(r)' = Addressed(r)
<1>1. \A r \in RuleIds : Addressed(r)' = Addressed(r)
  BY DEF addresses, Addressed, Addressees
<1>2. QED
  BY <1>1 DEF Followed, addresses, Fingerprint

\* Rows of one fingerprint change, and nothing is said of it: neither does whether it fires.
LEMMA SilentAgrees ==
    ASSUME NEW s \in Seq(Item), NEW rows, NEW later, NEW said, NEW pairs, NEW fp,
           Messages(s, rows), ToldOrUnsent(s, rows, said, pairs),
           \A x : x.fp # fp => (x \in rows <=> x \in later),
           \A i \in DOMAIN s : s[i].fp # fp,
           FiringIn(rows, fp) <=> FiringIn(later, fp)
    PROVE  Messages(s, later) /\ ToldOrUnsent(s, later, said, pairs)
<1>1. \A g : FiringIn(rows, g) <=> FiringIn(later, g)
  BY DEF FiringIn
<1>2. \A i \in DOMAIN s : Says(s[i], later)
  BY <1>1 DEF Messages, Says
<1>3. QED
  BY <1>1, <1>2 DEF Messages, ToldOrUnsent

\* Rows of one fingerprint change, and a message to each of its channels says how.
LEMMA MessageAgrees ==
    ASSUME NEW s \in Seq(Item), NEW rows, NEW later, NEW said, NEW pairs, NEW m \in Item,
           \A ch \in Channels : <<m.fp, ch>> \in pairs => Reaches(m, ch),
           Messages(s, rows), ToldOrUnsent(s, rows, said, pairs),
           \A x : x.fp # m.fp => (x \in rows <=> x \in later),
           \A i \in DOMAIN s : s[i].fp # m.fp,
           Says(m, later)
    PROVE  Messages(Append(s, m), later) /\ ToldOrUnsent(Append(s, m), later, said, pairs)
<1>1. \A g : g # m.fp => (FiringIn(rows, g) <=> FiringIn(later, g))
  BY DEF FiringIn
<1>2. \A i \in DOMAIN s : Says(s[i], later)
  BY <1>1 DEF Messages, Says
<1> DEFINE t == Append(s, m)
<1>3. /\ DOMAIN t = 1..(Len(s) + 1) /\ DOMAIN s = 1..Len(s) /\ Len(s) \in Nat
      /\ \A i \in DOMAIN s : t[i] = s[i]
      /\ t[Len(s) + 1] = m
  OBVIOUS
<1> HIDE DEF t
<1>4. \A i \in DOMAIN t : i \in DOMAIN s \/ i = Len(s) + 1
  BY <1>3
<1>5. DOMAIN s \subseteq DOMAIN t /\ Len(s) + 1 \in DOMAIN t
  BY <1>3
<1>6. \A i, j \in DOMAIN t : t[i].fp = t[j].fp => i = j
  BY <1>3, <1>4 DEF Messages
<1>7. \A i \in DOMAIN t : Says(t[i], later)
  BY <1>2, <1>3, <1>4
<1>8. ToldOrUnsent(t, later, said, pairs)
  <2>1. ASSUME NEW fp \in Fingerprint, NEW ch \in Channels, <<fp, ch>> \in pairs
        PROVE  \/ said[fp][ch] = "firing" <=> FiringIn(later, fp)
               \/ \E i \in DOMAIN t : t[i].fp = fp /\ Reaches(t[i], ch)
    <3>1. CASE fp = m.fp
      BY <1>3, <1>5, <2>1, <3>1
    <3>2. CASE fp # m.fp /\ \E i \in DOMAIN s : s[i].fp = fp /\ Reaches(s[i], ch)
      BY <1>3, <1>5, <3>2
    <3>3. CASE fp # m.fp /\ (said[fp][ch] = "firing" <=> FiringIn(rows, fp))
      BY <1>1, <3>3
    <3>4. QED
      BY <2>1, <3>1, <3>2, <3>3 DEF ToldOrUnsent
  <2>2. QED
    BY <2>1 DEF ToldOrUnsent
<1>9. QED
  BY <1>6, <1>7, <1>8 DEF Messages, t

LEMMA Tails ==
    ASSUME NEW S, NEW s \in Seq(S), s # <<>>
    PROVE  /\ DOMAIN Tail(s) = 1..(Len(s) - 1)
           /\ \A i \in DOMAIN Tail(s) : i + 1 \in DOMAIN s /\ Tail(s)[i] = s[i + 1]
           /\ \A i \in DOMAIN s : i # 1 => i - 1 \in DOMAIN Tail(s) /\ Tail(s)[i - 1] = s[i]
<1>1. Tail(s) \in Seq(S) /\ Len(Tail(s)) = Len(s) - 1 /\ Len(s) \in Nat \ {0} /\ DOMAIN s = 1..Len(s)
  OBVIOUS
<1>2. DOMAIN Tail(s) = 1..(Len(s) - 1)
  BY <1>1
<1>3. \A i \in 1..(Len(s) - 1) : Tail(s)[i] = s[i + 1]
  OBVIOUS
<1>4. \A i \in 1..Len(s) : i # 1 => i - 1 \in 1..(Len(s) - 1) /\ (i - 1) + 1 = i
  BY <1>1
<1>5. \A i \in 1..(Len(s) - 1) : i + 1 \in 1..Len(s)
  BY <1>1
<1>6. QED
  BY <1>1, <1>2, <1>3, <1>4, <1>5

LEMMA Replaced ==
    ASSUME NEW S, NEW s \in Seq(S), s # <<>>, NEW x \in S
    PROVE  /\ DOMAIN (<<x>> \o Tail(s)) = DOMAIN s
           /\ (<<x>> \o Tail(s))[1] = x
           /\ \A i \in DOMAIN s : i # 1 => (<<x>> \o Tail(s))[i] = s[i]
<1> DEFINE later == <<x>> \o Tail(s)
<1>1. Tail(s) \in Seq(S) /\ Len(Tail(s)) = Len(s) - 1 /\ <<x>> \in Seq(S) /\ Len(<<x>>) = 1
  OBVIOUS
<1>2. Len(s) \in Nat \ {0} /\ DOMAIN s = 1..Len(s)
  OBVIOUS
<1>3. later \in Seq(S) /\ Len(later) = 1 + (Len(s) - 1)
  BY <1>1
<1>4. DOMAIN later = DOMAIN s
  <2>1. DOMAIN later = 1..Len(later)
    BY <1>3
  <2>2. QED
    BY <1>2, <1>3, <2>1
<1>5. \A i \in 1..Len(s) : later[i] = IF i <= 1 THEN <<x>>[i] ELSE Tail(s)[i - 1]
  BY <1>1, <1>2
<1>6. \A i \in 1..Len(s) : i # 1 => i - 1 \in 1..(Len(s) - 1) /\ (i - 1) + 1 = i
  BY <1>2
<1>7. \A i \in 1..Len(s) : i # 1 => Tail(s)[i - 1] = s[i]
  BY <1>2, <1>6, Tails
<1>8. \A i \in 1..Len(s) : i # 1 => later[i] = s[i]
  BY <1>2, <1>5, <1>7
<1>9. later[1] = x
  BY <1>2, <1>5
<1>10. QED
  BY <1>2, <1>4, <1>8, <1>9

\* What the messages after the first one are still needed for.
LEMMA OthersOwe ==
    ASSUME NEW s \in Seq(Item), s # <<>>, NEW rows, NEW said, NEW pairs,
           ToldOrUnsent(s, rows, said, pairs),
           NEW fp \in Fingerprint, NEW ch \in Channels, <<fp, ch>> \in pairs, fp # Head(s).fp
    PROVE  \/ said[fp][ch] = "firing" <=> FiringIn(rows, fp)
           \/ \E i \in DOMAIN s : i # 1 /\ s[i].fp = fp /\ Reaches(s[i], ch)
<1>1. \/ said[fp][ch] = "firing" <=> FiringIn(rows, fp)
      \/ \E i \in DOMAIN s : s[i].fp = fp /\ Reaches(s[i], ch)
  BY DEF ToldOrUnsent
<1>2. \A i \in DOMAIN s : s[i].fp = fp => i # 1
  OBVIOUS
<1>3. QED
  BY <1>1, <1>2

\* The first message goes, when nobody needs it any more.
LEMMA HeadGoes ==
    ASSUME NEW s \in Seq(Item), s # <<>>, NEW rows, NEW said, NEW now, NEW pairs, NEW others,
           Messages(s, rows), ToldOrUnsent(s, rows, said, pairs),
           \A fp \in Fingerprint, ch \in Channels :
              <<fp, ch>> \in others /\ fp # Head(s).fp => <<fp, ch>> \in pairs /\ now[fp][ch] = said[fp][ch],
           \A fp \in Fingerprint, ch \in Channels :
              <<fp, ch>> \in others /\ fp = Head(s).fp => (now[fp][ch] = "firing" <=> FiringIn(rows, fp))
    PROVE  Messages(Tail(s), rows) /\ ToldOrUnsent(Tail(s), rows, now, others)
<1> DEFINE later == Tail(s)
<1>1. /\ \A i \in DOMAIN later : i + 1 \in DOMAIN s /\ later[i] = s[i + 1]
      /\ \A i \in DOMAIN s : i # 1 => i - 1 \in DOMAIN later /\ later[i - 1] = s[i]
      /\ DOMAIN later \subseteq Nat
  <2>1. Len(s) \in Nat
    OBVIOUS
  <2>2. QED
    BY <2>1, Tails
<1> HIDE DEF later
<1>2. \A i, j \in DOMAIN later : later[i].fp = later[j].fp => i = j
  <2>1. SUFFICES ASSUME NEW i \in DOMAIN later, NEW j \in DOMAIN later, later[i].fp = later[j].fp
                 PROVE  i = j
    OBVIOUS
  <2>2. i + 1 = j + 1
    BY <1>1, <2>1 DEF Messages
  <2>3. i \in Nat /\ j \in Nat
    BY <1>1
  <2>4. QED
    BY <2>2, <2>3
<1>3. \A i \in DOMAIN later : Says(later[i], rows)
  BY <1>1 DEF Messages
<1>4. ASSUME NEW fp \in Fingerprint, NEW ch \in Channels, <<fp, ch>> \in others
      PROVE  \/ now[fp][ch] = "firing" <=> FiringIn(rows, fp)
             \/ \E i \in DOMAIN later : later[i].fp = fp /\ Reaches(later[i], ch)
  <2>1. CASE fp = Head(s).fp
    BY <1>4, <2>1
  <2>2. CASE fp # Head(s).fp
    <3>1. ASSUME NEW i \in DOMAIN s, i # 1, s[i].fp = fp, Reaches(s[i], ch)
          PROVE  \E k \in DOMAIN later : later[k].fp = fp /\ Reaches(later[k], ch)
      BY <1>1, <3>1
    <3>2. <<fp, ch>> \in pairs /\ now[fp][ch] = said[fp][ch]
      BY <1>4, <2>2
    <3>3. \/ said[fp][ch] = "firing" <=> FiringIn(rows, fp)
          \/ \E i \in DOMAIN s : i # 1 /\ s[i].fp = fp /\ Reaches(s[i], ch)
      BY <2>2, <3>2, OthersOwe
    <3>4. QED
      BY <3>1, <3>2, <3>3
  <2>3. QED
    BY <2>1, <2>2
<1>5. QED
  BY <1>2, <1>3, <1>4 DEF Messages, ToldOrUnsent, later

\* The first message changes in whom it reaches.
LEMMA HeadChanges ==
    ASSUME NEW s \in Seq(Item), s # <<>>, NEW rows, NEW said, NEW now, NEW pairs, NEW others,
           Messages(s, rows), ToldOrUnsent(s, rows, said, pairs),
           \A fp \in Fingerprint, ch \in Channels :
              <<fp, ch>> \in others /\ fp # Head(s).fp => <<fp, ch>> \in pairs /\ now[fp][ch] = said[fp][ch],
           NEW x \in Item, x.fp = Head(s).fp, x.id = Head(s).id, x.event = Head(s).event,
           \A fp \in Fingerprint, ch \in Channels :
              <<fp, ch>> \in others /\ fp = Head(s).fp =>
                  (now[fp][ch] = "firing" <=> FiringIn(rows, fp)) \/ Reaches(x, ch)
    PROVE  Messages(<<x>> \o Tail(s), rows) /\ ToldOrUnsent(<<x>> \o Tail(s), rows, now, others)
<1> DEFINE later == <<x>> \o Tail(s)
           m == Head(s)
<1>1. m = s[1] /\ 1 \in DOMAIN s
  OBVIOUS
<1>2. /\ DOMAIN later = DOMAIN s /\ later[1] = x
      /\ \A i \in DOMAIN s : i # 1 => later[i] = s[i]
  BY Replaced
<1>3. x.fp = m.fp /\ x.id = m.id /\ x.event = m.event
  OBVIOUS
<1> HIDE DEF later, m
<1>4. \A i \in DOMAIN s : later[i].fp = s[i].fp
  BY <1>1, <1>2, <1>3
<1>5. \A i \in DOMAIN s : Says(later[i], rows)
  <2>1. Says(m, rows)
    BY <1>1 DEF Messages
  <2>2. Says(x, rows)
    BY <1>3, <2>1 DEF Says
  <2>3. QED
    BY <1>2, <2>2 DEF Messages
<1>6. ASSUME NEW fp \in Fingerprint, NEW ch \in Channels, <<fp, ch>> \in others
      PROVE  \/ now[fp][ch] = "firing" <=> FiringIn(rows, fp)
             \/ \E i \in DOMAIN later : later[i].fp = fp /\ Reaches(later[i], ch)
  <2>1. CASE fp = m.fp
    <3>1. (now[fp][ch] = "firing" <=> FiringIn(rows, fp)) \/ Reaches(x, ch)
      BY <1>6, <2>1 DEF m
    <3>2. QED
      BY <1>1, <1>2, <1>3, <2>1, <3>1
  <2>2. CASE fp # m.fp
    <3>1. ASSUME NEW i \in DOMAIN s, i # 1, s[i].fp = fp, Reaches(s[i], ch)
          PROVE  \E k \in DOMAIN later : later[k].fp = fp /\ Reaches(later[k], ch)
      BY <1>2, <3>1
    <3>2. <<fp, ch>> \in pairs /\ now[fp][ch] = said[fp][ch]
      BY <1>6, <2>2 DEF m
    <3>3. \/ said[fp][ch] = "firing" <=> FiringIn(rows, fp)
          \/ \E i \in DOMAIN s : i # 1 /\ s[i].fp = fp /\ Reaches(s[i], ch)
      BY <2>2, <3>2, OthersOwe DEF m
    <3>4. QED
      BY <3>1, <3>2, <3>3
  <2>3. QED
    BY <2>1, <2>2
<1>7. \A i, j \in DOMAIN later : later[i].fp = later[j].fp => i = j
  BY <1>2, <1>4 DEF Messages
<1>8. QED
  BY <1>2, <1>5, <1>6, <1>7 DEF Messages, ToldOrUnsent, later

\* What the first message is still needed for.
LEMMA HeadOwes ==
    ASSUME NEW s \in Seq(Item), s # <<>>, NEW rows, NEW said, NEW pairs,
           Messages(s, rows), ToldOrUnsent(s, rows, said, pairs),
           NEW fp \in Fingerprint, NEW ch \in Channels, <<fp, ch>> \in pairs, fp = Head(s).fp
    PROVE  (said[fp][ch] = "firing" <=> FiringIn(rows, fp)) \/ Reaches(Head(s), ch)
<1>1. Head(s) = s[1] /\ 1 \in DOMAIN s
  OBVIOUS
<1>2. \A i \in DOMAIN s : s[i].fp = fp => i = 1
  BY <1>1 DEF Messages
<1>3. QED
  BY <1>1, <1>2 DEF ToldOrUnsent

LEMMA UnsentType == ASSUME TypeOK PROVE Unsent \in Seq(Item)
<1>1. outbox["loop"] \in Seq(Item)
  BY LoopIsCaller DEF TypeOK
<1>2. ASSUME ~Quiet PROVE eval.out \in Seq(Item)
  BY <1>2, EvalType DEF Evaluation
<1>3. QED
  BY <1>1, <1>2 DEF Unsent

\* A statement on one row leaves the rows of other fingerprints as they are.
LEMMA OneRow ==
    ASSUME OpenInv, NEW a \in alerts, NEW state,
           alerts' = SetState(a, state) \/ alerts' = {b \in alerts : b.id # a.id}
    PROVE  \A x : x.fp # a.fp => (x \in alerts <=> x \in alerts')
<1>1. TypeOK /\ \A b \in alerts : b.fp # a.fp => b.id # a.id
  BY DEF OpenInv, IdsDiffer
<1>2. CASE alerts' = {b \in alerts : b.id # a.id}
  BY <1>1, <1>2
<1>3. CASE alerts' = SetState(a, state)
  <2>1. \A b \in alerts : b.fp # a.fp => b \in alerts'
    BY <1>1, <1>3 DEF SetState
  <2>2. ASSUME NEW x \in alerts', x.fp # a.fp PROVE x \in alerts
    <3>1. PICK b \in alerts : /\ x = IF b.id = a.id THEN [b EXCEPT !.state = state] ELSE b
                             /\ x.fp = b.fp
      BY <1>1, <1>3, SetStateRows
    <3>2. QED
      BY <1>1, <2>2, <3>1
  <2>3. QED
    BY <2>1, <2>2
<1>4. QED
  BY <1>2, <1>3

\* The message about an UPDATE of an open alert says what it wrote.
LEMMA UpdateSays ==
    ASSUME OpenInv, NEW a \in alerts, a.state # "resolved", NEW state \in {"firing", "resolved"},
           alerts' = SetState(a, state)
    PROVE  Says(Message(state, a), alerts')
<1>1. TypeOK /\ a \in Alert
  BY DEF OpenInv, TypeOK
<1> DEFINE row == [a EXCEPT !.state = state]
           m == Message(state, a)
<1>2. row.id = a.id /\ row.fp = a.fp /\ row.state = state /\ row \in alerts'
  BY <1>1 DEF Alert, SetState
<1>3. m.id = a.id /\ m.fp = a.fp /\ m.event = state
  BY DEF Message
<1> HIDE DEF row, m
<1>4. \A x \in alerts' : x.fp = a.fp /\ x.state = "firing" => state = "firing"
  <2>1. SUFFICES ASSUME NEW x \in alerts', x.fp = a.fp, x.state = "firing", state = "resolved"
                 PROVE  FALSE
    OBVIOUS
  <2>2. PICK b \in alerts : /\ x.fp = b.fp
                            /\ x.state = IF b.id = a.id THEN state ELSE b.state
    BY <1>1, <2>1, SetStateRows
  <2>3. QED
    BY <2>1, <2>2 DEF OpenInv, OneOpenAlert
<1>5. QED
  BY <1>2, <1>3, <1>4 DEF Says, FiringIn, m

LEMMA MessageItem ==
    ASSUME TypeOK, AddressInv, ~Quiet, NEW a \in Alert, NEW event \in {"firing", "resolved"}
    PROVE  /\ Message(event, a) \in Item /\ Message(event, a).fp = a.fp
           /\ \A ch \in Channels : <<a.fp, ch>> \in Followed => Reaches(Message(event, a), ch)
<1>1. a.fp \in Fingerprint
  BY DEF Alert
<1>2. QED
  BY <1>1, MessageType DEF Message, Reaches, AddressInv

\* The evaluation deals with the fingerprint g, and may say something of it.
LEMMA LoopEvalGoes ==
    ASSUME TypeOK, ~Quiet, LoopEval, NEW g \in Fingerprint, UNCHANGED outbox,
           eval'.who = eval.who, eval'.phase = eval.phase, eval'.known = eval.known,
           eval'.active \subseteq eval.active, eval'.todo \subseteq eval.todo,
           eval'.matches \subseteq eval.matches,
           ~Ahead(g)', \A a \in eval'.active : a.fp # g,
           \/ eval'.out = eval.out
           \/ \E m \in Item : m.fp = g /\ eval'.out = Append(eval.out, m)
    PROVE  LoopEval'
<1>1. eval.out \in Seq(Item)
  BY EvalType DEF Evaluation
<1>2. \A i \in DOMAIN eval.out : eval.out[i].fp \in Fingerprint
  <2>1. \A i \in DOMAIN eval.out : eval.out[i] \in Item
    BY <1>1
  <2>2. QED
    BY <2>1 DEF Item
<1>3. \A i \in DOMAIN eval'.out :
         \/ i \in DOMAIN eval.out /\ eval'.out[i] = eval.out[i]
         \/ eval'.out[i].fp = g
  <2>1. CASE eval'.out = eval.out
    BY <2>1
  <2>2. ASSUME NEW m \in Item, m.fp = g, eval'.out = Append(eval.out, m)
        PROVE  \A i \in DOMAIN eval'.out :
                 \/ i \in DOMAIN eval.out /\ eval'.out[i] = eval.out[i]
                 \/ eval'.out[i].fp = g
    BY <1>1, <2>2
  <2>3. QED
    BY <2>1, <2>2
<1>4. \A i \in DOMAIN eval'.out :
         (~Ahead(eval.out[i].fp))' /\ \A a \in eval'.active : a.fp # eval'.out[i].fp
  <2>1. ASSUME NEW i \in DOMAIN eval'.out
        PROVE  (~Ahead(eval.out[i].fp))' /\ \A a \in eval'.active : a.fp # eval'.out[i].fp
    <3>1. CASE eval'.out[i].fp = g
      BY <3>1 DEF Ahead
    <3>2. CASE i \in DOMAIN eval.out /\ eval'.out[i] = eval.out[i]
      <4>1. ~Ahead(eval.out[i].fp) /\ \A a \in eval.active : a.fp # eval.out[i].fp
        BY <3>2 DEF LoopEval
      <4>2. \A h \in Fingerprint : h = eval.out[i].fp => (~Ahead(h))'
        BY <4>1 DEF Ahead
      <4>3. QED
        BY <1>2, <3>2, <4>1, <4>2 DEF Ahead
    <3>3. QED
      BY <1>3, <3>1, <3>2
  <2>2. QED
    BY <2>1
<1>5. QED
  BY <1>4 DEF LoopEval

LEMMA StartAgrees ==
    ASSUME AgreeInv, TypeOK, StartEvaluation("loop")
    PROVE  AgreeInv'
<1>1. /\ eval'.who = "loop" /\ eval'.phase = "rules" /\ eval'.active = OpenAlerts(alerts)
      /\ eval'.out = <<>> /\ eval' # Idle
  BY DEF StartEvaluation, Idle, Free
<1>2. /\ outbox["loop"] = <<>> /\ Quiet
      /\ UNCHANGED <<alerts, ruleRows, rule, addresses, outbox, told>>
  BY DEF StartEvaluation, tables, Free
<1>3. Unsent = <<>> /\ Unsent' = <<>>
  BY <1>1, <1>2 DEF Unsent, Quiet
<1>4. LoopEval'
  <2>1. \A i \in DOMAIN eval'.out : FALSE
    BY <1>1
  <2>2. QED
    BY <1>1, <1>2, <2>1 DEF LoopEval, OpenAlerts
<1>5. Followed' = Followed
  BY <1>2, AddressesStay
<1>6. QED
  BY <1>2, <1>3, <1>4, <1>5 DEF AgreeInv

\* A step of the evaluation that writes no table and says nothing.
LEMMA ReadAgrees ==
    ASSUME TypeOK, AgreeInv, ~Quiet, eval' # Idle,
           UNCHANGED <<alerts, ruleRows, rule, addresses, outbox, told>>,
           eval'.out = eval.out, LoopEval'
    PROVE  AgreeInv'
<1>1. Unsent' = Unsent /\ Followed' = Followed
  BY AddressesStay DEF Unsent, Quiet
<1>2. QED
  BY <1>1 DEF AgreeInv, Quiet

LEMMA ReadsAgree ==
    ASSUME HeldInv, AgreeInv, ~Quiet,
           (\E r \in eval.todo : ReadRule(r) \/ RuleFails(r)) \/ ReadLeftovers
    PROVE  AgreeInv'
<1>1. TypeOK /\ eval \in Evaluation /\ LoopEval /\ Current
  BY EvalType DEF HeldInv, OpenInv, AgreeInv
<1>2. UNCHANGED <<alerts, ruleRows, rule, addresses, outbox, told>>
  BY DEF ReadRule, RuleFails, ReadLeftovers, tables
<1>3. /\ eval'.out = eval.out /\ eval'.who = eval.who /\ eval' # Idle
      /\ eval'.active \subseteq eval.active
      /\ eval'.phase = "leftovers" => /\ eval'.known = ruleRows
                                     /\ eval'.todo = {} /\ eval'.matches = {}
      /\ \A h \in Fingerprint : Ahead(h)' => Ahead(h)
  <2>1. ASSUME NEW r \in eval.todo, ReadRule(r)
        PROVE  /\ eval'.out = eval.out /\ eval'.who = eval.who /\ eval'.active = eval.active
               /\ eval'.phase = "rules" /\ eval'.todo = eval.todo \ {r}
               /\ eval'.matches = matching \cap OfRule(r.id)
    BY <1>1, <2>1 DEF ReadRule, Evaluation
  <2>2. ASSUME NEW r \in eval.todo, RuleFails(r)
        PROVE  /\ eval'.out = eval.out /\ eval'.who = eval.who
               /\ eval'.active = {a \in eval.active : a.fp.rule # r.id}
               /\ eval'.phase = "rules" /\ eval'.todo = eval.todo \ {r}
               /\ eval'.matches = eval.matches
    BY <1>1, <2>2 DEF RuleFails, Evaluation
  <2>3. ASSUME ReadLeftovers
        PROVE  /\ eval'.out = eval.out /\ eval'.who = eval.who /\ eval'.active = eval.active
               /\ eval'.phase = "leftovers" /\ eval'.todo = eval.todo
               /\ eval'.matches = eval.matches /\ eval'.known = ruleRows
               /\ eval.todo = {} /\ eval.matches = {}
    BY <1>1, <2>3 DEF ReadLeftovers, Evaluation
  <2>4. eval'.phase \in {"rules", "leftovers"} => eval' # Idle
    BY DEF Idle
  <2>5. QED
    BY <2>1, <2>2, <2>3, <2>4 DEF Ahead, OfRule
<1>4. \A i \in DOMAIN eval.out : eval.out[i].fp \in Fingerprint
  <2>1. \A i \in DOMAIN eval.out : eval.out[i] \in Item
    BY <1>1 DEF Evaluation
  <2>2. QED
    BY <2>1 DEF Item
<1>5. LoopEval'
  BY <1>1, <1>2, <1>3, <1>4 DEF LoopEval, Current, AgreeInv
<1>6. QED
  BY <1>1, <1>2, <1>3, <1>5, ReadAgrees

\* What a step that deals with one fingerprint does to the messages.
LEMMA DealtAgrees ==
    ASSUME TypeOK, AgreeInv, ~Quiet, eval' # Idle, LoopEval',
           UNCHANGED <<told, addresses, ruleRows, rule>>,
           \A a \in alerts' : a.fp.rule \in ruleRows',
           NEW g, \A x : x.fp # g => (x \in alerts <=> x \in alerts'),
           \A i \in DOMAIN eval.out : eval.out[i].fp # g,
           \/ eval'.out = eval.out /\ (FiringIn(alerts, g) <=> FiringIn(alerts', g))
           \/ \E m \in Item : /\ m.fp = g /\ Says(m, alerts')
                              /\ \A ch \in Channels : <<g, ch>> \in Followed => Reaches(m, ch)
                              /\ eval'.out = Append(eval.out, m)
    PROVE  AgreeInv'
<1>1. Unsent = eval.out /\ Unsent' = eval'.out /\ eval.out \in Seq(Item) /\ Followed' = Followed
  BY EvalType, AddressesStay DEF Unsent, Quiet, Evaluation
<1>2. Messages(eval.out, alerts) /\ ToldOrUnsent(eval.out, alerts, told, Followed)
  BY <1>1 DEF AgreeInv
<1>3. CASE eval'.out = eval.out /\ (FiringIn(alerts, g) <=> FiringIn(alerts', g))
  <2>1. Messages(eval.out, alerts') /\ ToldOrUnsent(eval.out, alerts', told, Followed)
    BY <1>1, <1>2, <1>3, SilentAgrees
  <2>2. QED
    BY <1>1, <1>3, <2>1 DEF AgreeInv
<1>4. ASSUME NEW m \in Item, m.fp = g, Says(m, alerts'),
             \A ch \in Channels : <<g, ch>> \in Followed => Reaches(m, ch),
             eval'.out = Append(eval.out, m)
      PROVE  AgreeInv'
  <2>1. /\ Messages(Append(eval.out, m), alerts')
        /\ ToldOrUnsent(Append(eval.out, m), alerts', told, Followed)
    BY <1>1, <1>2, <1>4, MessageAgrees
  <2>2. QED
    BY <1>1, <1>4, <2>1 DEF AgreeInv
<1>5. QED
  BY <1>3, <1>4

LEMMA SilentNote == \A s \in Seq(Item) : s \o <<>> = s
  OBVIOUS

LEMMA OneNote == \A s \in Seq(Item), m \in Item : s \o <<m>> = Append(s, m)
  OBVIOUS

\* What is left of the evaluation, and what it says, when the match of fp has been dealt with.
LEMMA MatchedAgrees ==
    ASSUME HeldInv, AgreeInv, ~Quiet, eval.phase = "rules", NEW fp \in eval.matches,
           EvaluateMatch(fp), NEW items \in {<<>>} \cup {<<m>> : m \in {x \in Item : x.fp = fp}},
           eval' = Matched(fp, items)
    PROVE  LoopEval' /\ eval' # Idle /\ eval'.out = eval.out \o items /\ fp \in Fingerprint
           /\ \A i \in DOMAIN eval.out : eval.out[i].fp # fp
<1>1. TypeOK /\ eval \in Evaluation /\ LoopEval /\ RulesOnce /\ UNCHANGED outbox
  BY EvalType DEF HeldInv, OpenInv, EvalInv, AgreeInv, EvaluateMatch
<1>2. /\ eval'.out = eval.out \o items /\ eval'.who = eval.who /\ eval'.known = eval.known
      /\ eval'.phase = eval.phase
  BY <1>1 DEF Matched, Evaluation
<1>3. /\ eval'.todo = eval.todo
      /\ eval'.matches = eval.matches \ {fp}
      /\ eval'.active = {a \in eval.active : a.fp # fp}
      /\ \A h \in Fingerprint : Ahead(h)' => Ahead(h) /\ h # fp
  BY <1>1, MatchedLeaves
<1>4. eval' # Idle
  <2>1. eval'.phase = "rules"
    BY <1>2
  <2>2. QED
    BY <2>1 DEF Idle
<1>5. fp \in Fingerprint /\ eval.out \in Seq(Item)
  BY <1>1 DEF Evaluation
<1>6. eval'.out = eval.out \/ \E m \in Item : m.fp = fp /\ eval'.out = Append(eval.out, m)
  BY <1>2, <1>5, SilentNote, OneNote
<1>7. LoopEval'
  <2>1. ~Ahead(fp)'
    BY <1>3, <1>5
  <2>2. QED
    BY <1>1, <1>2, <1>3, <1>5, <1>6, <2>1, LoopEvalGoes
<1>8. \A i \in DOMAIN eval.out : eval.out[i].fp # fp
  BY <1>1 DEF LoopEval, Ahead
<1>9. QED
  BY <1>2, <1>4, <1>5, <1>7, <1>8

LEMMA MatchHeldAgrees ==
    ASSUME HeldInv, AgreeInv, ~Quiet, eval.phase = "rules", NEW fp \in eval.matches,
           EvaluateMatch(fp), MatchHeld(fp)
    PROVE  AgreeInv'
<1>1. TypeOK /\ eval \in Evaluation /\ UNCHANGED <<alerts, ruleRows, rule, addresses, told>>
  BY EvalType DEF HeldInv, OpenInv, EvaluateMatch, MatchHeld
<1>2. /\ LoopEval' /\ eval' # Idle /\ eval'.out = eval.out \o <<>>
      /\ \A i \in DOMAIN eval.out : eval.out[i].fp # fp
  BY MatchedAgrees DEF MatchHeld
<1>3. eval'.out = eval.out
  BY <1>1, <1>2, SilentNote DEF Evaluation
<1>4. \A a \in alerts' : a.fp.rule \in ruleRows'
  BY <1>1 DEF AgreeInv
<1>5. QED
  BY <1>1, <1>2, <1>3, <1>4, DealtAgrees

LEMMA MatchNewAgrees ==
    ASSUME HeldInv, AddressInv, AgreeInv, ~Quiet, eval.phase = "rules", NEW fp \in eval.matches,
           EvaluateMatch(fp), MatchNew(fp)
    PROVE  AgreeInv'
<1>1. TypeOK /\ eval \in Evaluation /\ UNCHANGED <<ruleRows, rule, addresses, told>> /\ OpenIsKnown
  BY EvalType DEF HeldInv, OpenInv, EvalInv, EvaluateMatch
<1>2. PICK id \in AlertIds :
        LET a == [id |-> id, fp |-> fp, state |-> FirstState(fp, eval.for), age |-> eval.ages[fp]]
        IN  /\ alerts' = alerts \cup {a}
            /\ eval' = Matched(fp, IF a.state = "firing" THEN <<Message("firing", a)>> ELSE <<>>)
  BY DEF MatchNew
<1> DEFINE a == [id |-> id, fp |-> fp, state |-> FirstState(fp, eval.for), age |-> eval.ages[fp]]
           items == IF a.state = "firing" THEN <<Message("firing", a)>> ELSE <<>>
<1>3. alerts' = alerts \cup {a} /\ eval' = Matched(fp, items)
  BY <1>2
<1>4. /\ a.id = id /\ a.fp = fp /\ a.state \in {"pending", "firing"}
      /\ fp \in Fingerprint /\ eval.ages[fp] \in Age
  BY <1>1 DEF FirstState, Evaluation
<1>5. a \in Alert
  BY <1>4 DEF Alert
<1>6. fp.rule \in ruleRows /\ \A b \in eval.active : b.fp # fp
  BY DEF MatchNew
<1> HIDE DEF a
<1>7. ~FiringIn(alerts, fp)
  BY <1>1, <1>6 DEF FiringIn, OpenIsKnown, Ahead
<1>8. /\ Message("firing", a) \in Item /\ Message("firing", a).fp = fp
      /\ \A ch \in Channels : <<fp, ch>> \in Followed => Reaches(Message("firing", a), ch)
  BY <1>1, <1>4, <1>5, MessageItem
<1>9. items \in {<<>>} \cup {<<m>> : m \in {x \in Item : x.fp = fp}}
  BY <1>8
<1> HIDE DEF items
<1>10. /\ LoopEval' /\ eval' # Idle /\ eval'.out = eval.out \o items
       /\ \A i \in DOMAIN eval.out : eval.out[i].fp # fp
  BY <1>3, <1>9, MatchedAgrees
<1>11. \A b \in alerts' : b.fp.rule \in ruleRows'
  BY <1>1, <1>3, <1>4, <1>6 DEF AgreeInv
<1>12. \A x : x.fp # fp => (x \in alerts <=> x \in alerts')
  BY <1>3, <1>4
<1>13. eval.out \in Seq(Item)
  BY <1>1 DEF Evaluation
<1>14. CASE a.state = "pending"
  <2>1. eval'.out = eval.out
    BY <1>10, <1>13, <1>14, SilentNote DEF items
  <2>2. ~FiringIn(alerts', fp)
    BY <1>3, <1>7, <1>14 DEF FiringIn
  <2>3. QED
    BY <1>1, <1>7, <1>10, <1>11, <1>12, <2>1, <2>2, DealtAgrees
<1>15. CASE a.state = "firing"
  <2>1. eval'.out = Append(eval.out, Message("firing", a))
    BY <1>8, <1>10, <1>13, <1>15, OneNote DEF items
  <2>2. Says(Message("firing", a), alerts')
    BY <1>3, <1>4, <1>15 DEF Says, Message, FiringIn
  <2>3. QED
    BY <1>1, <1>8, <1>10, <1>11, <1>12, <2>1, <2>2, DealtAgrees
<1>16. QED
  BY <1>4, <1>14, <1>15

LEMMA MatchAgainAgrees ==
    ASSUME HeldInv, AddressInv, AgreeInv, ~Quiet, eval.phase = "rules", NEW fp \in eval.matches,
           EvaluateMatch(fp), MatchAgain(fp)
    PROVE  AgreeInv'
<1>1. TypeOK /\ eval \in Evaluation /\ UNCHANGED <<ruleRows, rule, addresses, told>> /\ OpenInv /\ Current
  BY EvalType DEF HeldInv, OpenInv, EvaluateMatch
<1>2. eval.out \in Seq(Item)
  BY <1>1 DEF Evaluation
<1>3. PICK a \in eval.active :
          /\ a.fp = fp
          /\ \/ /\ a.state = "pending"
                /\ alerts' = SetState(a, "firing")
                /\ eval' = Matched(fp, <<Message("firing", a)>>)
             \/ /\ eval' = Matched(fp, <<>>)
                /\ UNCHANGED alerts
  BY DEF MatchAgain
<1>4. a \in alerts /\ a \in Alert
  BY <1>1 DEF Current, TypeOK
<1>5. CASE eval' = Matched(fp, <<>>) /\ UNCHANGED alerts
  <2>1. /\ LoopEval' /\ eval' # Idle /\ eval'.out = eval.out \o <<>>
        /\ \A i \in DOMAIN eval.out : eval.out[i].fp # fp
    BY <1>5, MatchedAgrees
  <2>2. eval'.out = eval.out
    BY <1>2, <2>1, SilentNote
  <2>3. \A b \in alerts' : b.fp.rule \in ruleRows'
    BY <1>1, <1>5 DEF AgreeInv
  <2>4. QED
    BY <1>1, <1>5, <2>1, <2>2, <2>3, DealtAgrees
<1>6. CASE /\ a.state = "pending"
           /\ alerts' = SetState(a, "firing")
           /\ eval' = Matched(fp, <<Message("firing", a)>>)
  <2>1. /\ Message("firing", a) \in Item /\ Message("firing", a).fp = fp
        /\ \A ch \in Channels : <<fp, ch>> \in Followed => Reaches(Message("firing", a), ch)
    BY <1>1, <1>3, <1>4, MessageItem
  <2>2. /\ LoopEval' /\ eval' # Idle /\ eval'.out = eval.out \o <<Message("firing", a)>>
        /\ \A i \in DOMAIN eval.out : eval.out[i].fp # fp
    BY <1>6, <2>1, MatchedAgrees
  <2>3. eval'.out = Append(eval.out, Message("firing", a))
    BY <1>2, <2>1, <2>2, OneNote
  <2>4. \A b \in alerts' : b.fp.rule \in ruleRows'
    BY <1>1, <1>6, SetStateRows DEF AgreeInv
  <2>5. Says(Message("firing", a), alerts')
    BY <1>1, <1>4, <1>6, UpdateSays
  <2>6. \A x : x.fp # fp => (x \in alerts <=> x \in alerts')
    BY <1>1, <1>3, <1>4, <1>6, OneRow
  <2>7. QED
    BY <1>1, <2>1, <2>2, <2>3, <2>4, <2>5, <2>6, DealtAgrees
<1>7. QED
  BY <1>3, <1>5, <1>6

LEMMA LeftoverAgrees ==
    ASSUME HeldInv, AddressInv, AgreeInv, ~Quiet, NEW a \in eval.active, Leftover(a)
    PROVE  AgreeInv'
<1>1. /\ TypeOK /\ eval \in Evaluation /\ UNCHANGED <<ruleRows, rule, addresses, told, outbox>>
      /\ OpenInv /\ Current /\ LoopEval /\ eval.phase = "leftovers"
  BY EvalType DEF HeldInv, OpenInv, Leftover, AgreeInv
<1>2. eval.out \in Seq(Item) /\ a \in alerts /\ a \in Alert /\ a.fp \in Fingerprint
      /\ a.state # "resolved" /\ a.fp.rule \in eval.known
  BY <1>1 DEF Evaluation, Current, TypeOK, LoopEval, Alert
<1> DEFINE m == Message("resolved", a)
<1>3. m \in Item /\ m.fp = a.fp /\ \A ch \in Channels : <<a.fp, ch>> \in Followed => Reaches(m, ch)
  BY <1>1, <1>2, MessageItem
<1> HIDE DEF m
<1>4. \/ eval' = [eval EXCEPT !.active = @ \ {a}] /\ alerts' = alerts
      \/ /\ a.state = "pending" /\ alerts' = {b \in alerts : b.id # a.id}
         /\ eval' = [eval EXCEPT !.active = @ \ {a}, !.out = @]
      \/ /\ a.state = "firing" /\ alerts' = SetState(a, "resolved")
         /\ eval' = [eval EXCEPT !.active = @ \ {a}, !.out = Append(@, m)]
  <2>1. a.state \in {"pending", "firing"}
    BY <1>2 DEF Alert
  <2>2. QED
    BY <1>2, <2>1 DEF Leftover, LeftoverSettled, m
<1>5. /\ eval'.who = eval.who /\ eval'.phase = eval.phase /\ eval'.known = eval.known
      /\ eval'.todo = eval.todo /\ eval'.matches = eval.matches
      /\ eval'.active = eval.active \ {a}
  BY <1>1, <1>4 DEF Evaluation
<1>6. \/ eval'.out = eval.out /\ alerts' = alerts
      \/ /\ eval'.out = eval.out /\ a.state = "pending"
         /\ alerts' = {b \in alerts : b.id # a.id}
      \/ eval'.out = Append(eval.out, m) /\ a.state = "firing" /\ alerts' = SetState(a, "resolved")
  BY <1>1, <1>4 DEF Evaluation
<1>7. eval' # Idle
  <2>1. eval'.phase = "leftovers"
    BY <1>1, <1>5
  <2>2. QED
    BY <2>1 DEF Idle
<1>8. LoopEval'
  <2>1. \A b \in eval'.active : b.fp # a.fp
    BY <1>1, <1>2, <1>5 DEF Current, LoopEval, OpenInv, OneOpenAlert
  <2>2. ~Ahead(a.fp)
    BY <1>1 DEF LoopEval, Ahead
  <2>3. ~Ahead(a.fp)'
    BY <1>5, <2>2 DEF Ahead
  <2>4. eval'.out = eval.out \/ \E x \in Item : x.fp = a.fp /\ eval'.out = Append(eval.out, x)
    BY <1>3, <1>6
  <2>5. QED
    BY <1>1, <1>2, <1>5, <2>1, <2>2, <2>3, <2>4, LoopEvalGoes
<1>9. \A i \in DOMAIN eval.out : eval.out[i].fp # a.fp
  BY <1>1 DEF LoopEval
<1>10. \A x : x.fp # a.fp => (x \in alerts <=> x \in alerts')
  BY <1>1, <1>2, <1>6, OneRow
<1>11. \A b \in alerts' : b.fp.rule \in ruleRows'
  <2>1. CASE alerts' = SetState(a, "resolved")
    BY <1>1, <2>1, SetStateRows DEF AgreeInv
  <2>2. CASE alerts' \subseteq alerts
    BY <1>1, <2>2 DEF AgreeInv
  <2>3. QED
    BY <1>6, <2>1, <2>2
<1>12. \/ eval'.out = eval.out /\ (FiringIn(alerts, a.fp) <=> FiringIn(alerts', a.fp))
       \/ eval'.out = Append(eval.out, m) /\ Says(m, alerts')
  <2>1. CASE eval'.out = eval.out /\ alerts' = alerts
    BY <2>1
  <2>2. CASE eval'.out = eval.out /\ a.state = "pending" /\ alerts' = {b \in alerts : b.id # a.id}
    <3>1. \A b \in alerts : b.fp = a.fp => b.state # "firing"
      BY <1>1, <1>2, <2>2 DEF OpenInv, OneOpenAlert
    <3>2. QED
      BY <2>2, <3>1 DEF FiringIn
  <2>3. CASE eval'.out = Append(eval.out, m) /\ a.state = "firing" /\ alerts' = SetState(a, "resolved")
    BY <1>1, <1>2, <2>3, UpdateSays DEF m
  <2>4. QED
    BY <1>6, <2>1, <2>2, <2>3
<1>13. QED
  BY <1>1, <1>3, <1>7, <1>8, <1>9, <1>10, <1>11, <1>12, DealtAgrees

LEMMA FinishAgrees ==
    ASSUME TypeOK, AgreeInv, ~Quiet, FinishEvaluation
    PROVE  AgreeInv'
<1>1. LoopEval /\ UNCHANGED <<alerts, ruleRows, rule, addresses, told>> /\ Quiet'
  BY DEF AgreeInv, FinishEvaluation, tables, Quiet
<1>2. outbox'["loop"] = eval.out
  BY <1>1, LoopIsCaller DEF FinishEvaluation, TypeOK, LoopEval
<1>3. Unsent' = Unsent /\ Followed' = Followed
  BY <1>1, <1>2, AddressesStay DEF Unsent
<1>4. QED
  BY <1>1, <1>3 DEF AgreeInv

LEMMA EvalStepAgrees ==
    ASSUME HeldInv, AddressInv, AgreeInv, ~Quiet, EvalStep
    PROVE  AgreeInv'
<1>1. ASSUME NEW fp \in eval.matches, EvaluateMatch(fp) PROVE AgreeInv'
  BY <1>1, MatchHeldAgrees, MatchNewAgrees, MatchAgainAgrees DEF EvaluateMatch
<1>2. ASSUME NEW fp \in eval.matches, EvaluationFails(fp) PROVE FALSE
  BY <1>2 DEF EvaluationFails, HeldInv, Current
<1>3. TypeOK
  BY DEF HeldInv, OpenInv
<1>4. QED
  BY <1>1, <1>2, <1>3, ReadsAgree, LeftoverAgrees, FinishAgrees DEF EvalStep

LEMMA SentAgrees ==
    ASSUME TypeOK, AddressInv, AgreeInv, NEW ch \in Channels, Send("loop", ch)
    PROVE  AgreeInv'
<1> DEFINE s == outbox["loop"]
           m == Head(s)
           rest == m.to \ {ch}
           later == AfterSend(s, ch)
<1>1. s \in Seq(Item) /\ s # <<>> /\ ch \in m.to /\ m.lookedUp
  BY LoopIsCaller DEF Send, TypeOK, Free
<1>2. m \in Item /\ m = s[1] /\ 1 \in DOMAIN s
  BY <1>1
<1>3. Quiet /\ Quiet' /\ UNCHANGED <<alerts, ruleRows, rule, channels>>
  BY DEF Send, tables, Quiet, Free
<1>4. outbox'["loop"] = later /\ told' = [told EXCEPT ![m.fp][ch] = m.event]
  BY LoopIsCaller DEF Send, TypeOK
<1>5. Unsent = s /\ Unsent' = later
  BY <1>3, <1>4 DEF Unsent
<1>6. Messages(s, alerts) /\ ToldOrUnsent(s, alerts, told, Followed)
  BY <1>5 DEF AgreeInv
<1>7. (\E a \in alerts : a.id = m.id) /\ (m.event = "firing" <=> FiringIn(alerts, m.fp))
  BY <1>2, <1>6 DEF Messages, Says
<1>8. later = IF rest = {} THEN Tail(s) ELSE <<[m EXCEPT !.to = rest]>> \o Tail(s)
  BY <1>7 DEF AfterSend, AddressInv
<1>9. \A fp \in Fingerprint, c \in Channels :
         told'[fp][c] = IF fp = m.fp /\ c = ch THEN m.event ELSE told[fp][c]
  BY <1>2, <1>4 DEF TypeOK, Item
<1>10. ASSUME NEW fp \in Fingerprint, NEW c \in Channels, <<fp, c>> \in Followed', fp # m.fp \/ c # ch
       PROVE  <<fp, c>> \in Followed
  <2>1. <<fp, c>> \notin readdressed' /\ c \in Addressed(fp.rule)'
    BY <1>10, FollowedNext
  <2>2. readdressed \ {<<m.fp, ch>>} \subseteq readdressed'
    BY LoopIsCaller DEF Send, ToldSo
  <2>3. Addressed(fp.rule)' = Addressed(fp.rule)
    BY <1>3 DEF Addressed, Addressees
  <2>4. QED
    BY <1>10, <2>1, <2>2, <2>3, FollowedPairs
<1> HIDE DEF s, m, rest, later
<1>11. ASSUME NEW fp \in Fingerprint, NEW c \in Channels, <<fp, c>> \in Followed', fp = m.fp
       PROVE  (told'[fp][c] = "firing" <=> FiringIn(alerts, fp)) \/ c \in rest
  <2>1. CASE c = ch
    BY <1>7, <1>9, <1>11, <2>1
  <2>2. CASE c # ch
    <3>1. <<fp, c>> \in Followed /\ told'[fp][c] = told[fp][c]
      BY <1>9, <1>10, <1>11, <2>2
    <3>2. (told[fp][c] = "firing" <=> FiringIn(alerts, fp)) \/ Reaches(m, c)
      BY <1>1, <1>6, <1>11, <3>1, HeadOwes DEF m
    <3>3. QED
      BY <1>1, <2>2, <3>1, <3>2 DEF Reaches, rest
  <2>3. QED
    BY <2>1, <2>2
<1>12. \A fp \in Fingerprint, c \in Channels :
          <<fp, c>> \in Followed' /\ fp # m.fp => <<fp, c>> \in Followed /\ told'[fp][c] = told[fp][c]
  BY <1>9, <1>10
<1>13. Messages(later, alerts) /\ ToldOrUnsent(later, alerts, told', Followed')
  <2>1. CASE rest = {}
    <3>1. later = Tail(s)
      BY <1>8, <2>1
    <3>2. \A fp \in Fingerprint, c \in Channels :
             <<fp, c>> \in Followed' /\ fp = m.fp => (told'[fp][c] = "firing" <=> FiringIn(alerts, fp))
      BY <1>11, <2>1
    <3>3. Messages(Tail(s), alerts) /\ ToldOrUnsent(Tail(s), alerts, told', Followed')
      BY <1>1, <1>6, <1>12, <3>2, HeadGoes DEF m
    <3>4. QED
      BY <3>1, <3>3
  <2>2. CASE rest # {}
    <3> DEFINE x == [m EXCEPT !.to = rest]
    <3>1. later = <<x>> \o Tail(s)
      BY <1>8, <2>2
    <3>2. x \in Item /\ x.fp = m.fp /\ x.id = m.id /\ x.event = m.event /\ x.to = rest /\ x.lookedUp
      BY <1>1, <1>2 DEF Item, rest
    <3> HIDE DEF x
    <3>3. \A fp \in Fingerprint, c \in Channels :
             <<fp, c>> \in Followed' /\ fp = m.fp =>
                 (told'[fp][c] = "firing" <=> FiringIn(alerts, fp)) \/ Reaches(x, c)
      BY <1>11, <3>2 DEF Reaches
    <3>4. /\ Messages(<<x>> \o Tail(s), alerts)
          /\ ToldOrUnsent(<<x>> \o Tail(s), alerts, told', Followed')
      BY <1>1, <1>6, <1>12, <3>2, <3>3, HeadChanges DEF m
    <3>5. QED
      BY <3>1, <3>4
  <2>3. QED
    BY <2>1, <2>2
<1>14. QED
  BY <1>3, <1>5, <1>13 DEF AgreeInv

\* The channels that are looked up are all that the message is still needed for.
LEMMA LookUpAgrees ==
    ASSUME TypeOK, AgreeInv, LookUp("loop")
    PROVE  AgreeInv'
<1> DEFINE s == outbox["loop"]
           m == Head(s)
           to == Addressees(m.channels)
           later == outbox'["loop"]
<1>1. s \in Seq(Item) /\ s # <<>> /\ ~m.lookedUp
  BY LoopIsCaller DEF LookUp, TypeOK
<1>2. m \in Item
  BY <1>1
<1>3. Quiet /\ Quiet' /\ UNCHANGED <<alerts, ruleRows, rule, addresses, told>>
  BY DEF LookUp, tables, Quiet
<1>4. Followed' = Followed
  BY <1>3, AddressesStay
<1>5. Unsent = s /\ Unsent' = later
  BY <1>3 DEF Unsent
<1>6. Messages(s, alerts) /\ ToldOrUnsent(s, alerts, told, Followed)
  BY <1>5 DEF AgreeInv
<1>7. Tail(s) \in Seq(Item) /\ <<>> \o Tail(s) = Tail(s)
  BY <1>1
<1>8. later = IF to = {} THEN Tail(s) ELSE <<[m EXCEPT !.lookedUp = TRUE, !.to = to]>> \o Tail(s)
  BY <1>7, LoopIsCaller DEF LookUp, TypeOK
<1> HIDE DEF s, m, later
<1>9. ASSUME NEW fp \in Fingerprint, NEW c \in Channels, <<fp, c>> \in Followed, fp = m.fp
      PROVE  (told[fp][c] = "firing" <=> FiringIn(alerts, fp)) \/ c \in to
  <2>1. (told[fp][c] = "firing" <=> FiringIn(alerts, fp)) \/ Reaches(m, c)
    BY <1>1, <1>6, <1>9, HeadOwes DEF m
  <2>2. channels[c] = "on"
    BY <1>9, FollowedPairs DEF Addressed, Addressees
  <2>3. QED
    BY <1>1, <2>1, <2>2 DEF Reaches, Addressees
<1> HIDE DEF to
<1>10. to \in SUBSET Channels
  BY DEF to, Addressees
<1>11. Messages(later, alerts) /\ ToldOrUnsent(later, alerts, told, Followed)
  <2>1. CASE to = {}
    <3>1. later = Tail(s)
      BY <1>8, <2>1
    <3>2. \A fp \in Fingerprint, c \in Channels :
             <<fp, c>> \in Followed /\ fp = m.fp => (told[fp][c] = "firing" <=> FiringIn(alerts, fp))
      BY <1>9, <2>1
    <3>3. Messages(Tail(s), alerts) /\ ToldOrUnsent(Tail(s), alerts, told, Followed)
      BY <1>1, <1>6, <3>2, HeadGoes DEF m
    <3>4. QED
      BY <3>1, <3>3
  <2>2. CASE to # {}
    <3> DEFINE x == [m EXCEPT !.lookedUp = TRUE, !.to = to]
    <3>1. later = <<x>> \o Tail(s)
      BY <1>8, <2>2
    <3>2. x \in Item /\ x.fp = m.fp /\ x.id = m.id /\ x.event = m.event /\ x.to = to /\ x.lookedUp
      BY <1>2, <1>10 DEF Item
    <3> HIDE DEF x
    <3>3. \A fp \in Fingerprint, c \in Channels :
             <<fp, c>> \in Followed /\ fp = m.fp =>
                 (told[fp][c] = "firing" <=> FiringIn(alerts, fp)) \/ Reaches(x, c)
      BY <1>9, <3>2 DEF Reaches
    <3>4. /\ Messages(<<x>> \o Tail(s), alerts)
          /\ ToldOrUnsent(<<x>> \o Tail(s), alerts, told, Followed)
      BY <1>1, <1>6, <3>2, <3>3, HeadChanges DEF m
    <3>5. QED
      BY <3>1, <3>4
  <2>3. QED
    BY <2>1, <2>2
<1>12. QED
  BY <1>3, <1>4, <1>5, <1>11 DEF AgreeInv

\* Rows that change, while nothing is evaluated or sent, but not in what fires, nor under a
\* message still to be sent.
LEMMA RowsAgree ==
    ASSUME AgreeInv, Quiet, UNCHANGED <<eval, outbox, told, ruleRows, rule, addresses>>,
           \A x \in alerts' : \E a \in alerts : x.id = a.id /\ x.fp = a.fp /\ x.state = a.state,
           \A a \in alerts :
              a.state = "firing" \/ (\E i \in DOMAIN outbox["loop"] : outbox["loop"][i].id = a.id)
              => \E x \in alerts' : x.id = a.id /\ x.fp = a.fp /\ x.state = a.state
    PROVE  AgreeInv'
<1>1. Unsent = outbox["loop"] /\ Unsent' = Unsent /\ Quiet' /\ Followed' = Followed
  BY AddressesStay DEF Unsent, Quiet
<1>2. \A fp : FiringIn(alerts', fp) <=> FiringIn(alerts, fp)
  <2>1. ASSUME NEW fp, FiringIn(alerts, fp) PROVE FiringIn(alerts', fp)
    BY <2>1 DEF FiringIn
  <2>2. ASSUME NEW fp, FiringIn(alerts', fp) PROVE FiringIn(alerts, fp)
    BY <2>2 DEF FiringIn
  <2>3. QED
    BY <2>1, <2>2
<1>3. \A i \in DOMAIN Unsent : Says(Unsent[i], alerts')
  BY <1>1, <1>2 DEF AgreeInv, Messages, Says
<1>4. Messages(Unsent, alerts') /\ ToldOrUnsent(Unsent, alerts', told, Followed)
  BY <1>2, <1>3 DEF AgreeInv, Messages, ToldOrUnsent
<1>5. \A x \in alerts' : x.fp.rule \in ruleRows
  BY DEF AgreeInv
<1>6. QED
  BY <1>1, <1>4, <1>5 DEF AgreeInv

LEMMA TickAgrees ==
    ASSUME TypeOK, AgreeInv, Tick
    PROVE  AgreeInv'
<1>1. Quiet /\ UNCHANGED <<eval, outbox, told, ruleRows, rule, addresses>>
  BY DEF Tick, Free
<1>2. \A a \in alerts : LET x == [a EXCEPT !.age = Older(@)]
                        IN  x.id = a.id /\ x.fp = a.fp /\ x.state = a.state /\ x \in alerts'
  BY DEF TypeOK, Alert, Tick, Free
<1>3. \A x \in alerts' : \E a \in alerts : x = [a EXCEPT !.age = Older(@)]
  BY DEF Tick, Free
<1>4. QED
  BY <1>1, <1>2, <1>3, RowsAgree

LEMMA ExpireAgrees ==
    ASSUME AgreeInv, NEW a \in alerts, ExpireAlert(a)
    PROVE  AgreeInv'
<1>1. /\ Quiet /\ alerts' = alerts \ {a}
      /\ UNCHANGED <<eval, outbox, told, ruleRows, rule, addresses>>
  BY DEF ExpireAlert, Free
<1>2. a.state = "resolved" /\ \A i \in DOMAIN outbox["loop"] : outbox["loop"][i].id # a.id
  BY LoopIsCaller DEF ExpireAlert, Free
<1>3. QED
  BY <1>1, <1>2, RowsAgree

\* A step that leaves the alerts and their messages alone, and adds no channel to follow but
\* those of a new rule.
LEMMA OutsideAgrees ==
    ASSUME TypeOK, AddressInv, AgreeInv, UNCHANGED <<alerts, eval, outbox, told>>, ruleRows \subseteq ruleRows',
           \A fp \in Fingerprint, ch \in Channels :
              <<fp, ch>> \in Followed' => <<fp, ch>> \in Followed \/ (fp.rule \notin ruleRows /\ readdressed' = readdressed)
    PROVE  AgreeInv'
<1>1. Unsent' = Unsent /\ (Quiet' <=> Quiet) /\ (LoopEval => LoopEval')
  BY DEF Unsent, Quiet, LoopEval, Ahead
<1>2. ASSUME NEW fp \in Fingerprint, NEW ch \in Channels, <<fp, ch>> \in Followed', fp.rule \notin ruleRows,
             readdressed' = readdressed
      PROVE  told[fp][ch] # "firing" /\ ~FiringIn(alerts, fp)
  <2>1. <<fp, ch>> \notin readdressed
    BY <1>2, FollowedNext
  <2>2. ch \notin Addressed(fp.rule)
    BY <1>2 DEF Addressed
  <2>3. QED
    BY <1>2, <2>1, <2>2 DEF AddressInv, AgreeInv, FiringIn
<1>3. ToldOrUnsent(Unsent, alerts, told, Followed')
  BY <1>2 DEF AgreeInv, ToldOrUnsent
<1>4. QED
  BY <1>1, <1>3 DEF AgreeInv

\* A new rule, which had no list, and of which nobody was told.
LEMMA CreateRuleFollows ==
    ASSUME TypeOK, AddressInv, NEW for \in ForValues, NEW list \in ChannelLists, CreateRule(for, list)
    PROVE  /\ AddressInv'
           /\ \A fp \in Fingerprint, ch \in Channels :
                <<fp, ch>> \in Followed' => <<fp, ch>> \in Followed \/ fp.rule \notin ruleRows
<1>1. /\ UNCHANGED <<eval, told, channels, readdressed>> /\ ruleRows \subseteq ruleRows'
      /\ \A r \in RuleIds : r # FreshRuleId => rule'[r] = rule[r]
      /\ FreshRuleId \in ruleRows' \ ruleRows /\ ruleRows' = ruleRows \cup {FreshRuleId}
  BY DEF CreateRule, TypeOK, addresses
<1>2. \A r \in RuleIds : r # FreshRuleId => Addressed(r)' = Addressed(r)
  BY <1>1 DEF Addressed, Addressees
<1>3. Addressed(FreshRuleId) = {}
  BY <1>1 DEF Addressed
<1>4. \A fp \in Fingerprint, ch \in Channels :
         <<fp, ch>> \in Followed' => <<fp, ch>> \in Followed \/ fp.rule \notin ruleRows
  BY <1>1, <1>2, FollowedPairs, FollowedNext DEF Fingerprint
<1>5. \A fp \in Fingerprint, ch \in Channels :
         told'[fp][ch] = "firing" /\ <<fp, ch>> \notin readdressed' => ch \in Addressed(fp.rule)'
  BY <1>1, <1>2, <1>3 DEF AddressInv, Fingerprint
<1>6. ~Quiet' => \A fp \in Fingerprint, ch \in Channels :
                   <<fp, ch>> \in Followed' => Names(eval'.lists[fp.rule], ch)
  BY <1>1, <1>4 DEF AddressInv, Quiet, Fingerprint, Names
<1>7. \A r \in RuleIds \ ruleRows' : rule'[r].channels = {} /\ (~Quiet' => eval'.lists[r] = {})
  BY <1>1 DEF AddressInv, Quiet
<1>8. QED
  BY <1>1, <1>4, <1>5, <1>6, <1>7 DEF AddressInv, Fingerprint

\* An edit of a rule or a channel: the channels it adds or removes are followed no more.
LEMMA EditFollows ==
    ASSUME TypeOK, AddressInv, Readdress, UNCHANGED <<eval, told, ruleRows>>,
           \A ch \in Channels : channels'[ch] # "none",
           \A r \in RuleIds \ ruleRows : rule'[r] = rule[r]
    PROVE  AddressInv' /\ \A fp \in Fingerprint, ch \in Channels : <<fp, ch>> \in Followed' => <<fp, ch>> \in Followed
<1>1. ASSUME NEW fp \in Fingerprint, NEW ch \in Channels, <<fp, ch>> \notin readdressed'
      PROVE  <<fp, ch>> \notin readdressed /\ (ch \in Addressed(fp.rule) <=> ch \in Addressed(fp.rule)')
  <2>1. <<fp, ch>> \in Fingerprint \X Channels /\ <<fp, ch>>[1] = fp /\ <<fp, ch>>[2] = ch
    OBVIOUS
  <2> DEFINE pair == <<fp, ch>>
  <2>2. pair \notin readdressed /\ ((pair[2] \in Addressed(pair[1].rule)) <=> (pair[2] \in Addressed(pair[1].rule)'))
    BY <1>1, <2>1 DEF Readdress
  <2>3. QED
    BY <2>2
<1>2. \A fp \in Fingerprint, ch \in Channels : <<fp, ch>> \in Followed' => <<fp, ch>> \in Followed
  BY <1>1, FollowedPairs, FollowedNext
<1>3. \A fp \in Fingerprint, ch \in Channels :
         told'[fp][ch] = "firing" /\ <<fp, ch>> \notin readdressed' => ch \in Addressed(fp.rule)'
  BY <1>1 DEF AddressInv
<1>4. ~Quiet' => \A fp \in Fingerprint, ch \in Channels :
                   <<fp, ch>> \in Followed' => Names(eval'.lists[fp.rule], ch)
  BY <1>2 DEF AddressInv, Quiet
<1>5. QED
  BY <1>2, <1>3, <1>4 DEF AddressInv, Quiet

\* Nobody edits rules or channels, or is told anything.
LEMMA AddressesKept ==
    ASSUME TypeOK, AddressInv, UNCHANGED <<addresses, ruleRows, rule, told>>,
           \/ eval' = Idle
           \/ ~Quiet /\ eval'.lists = eval.lists
           \/ eval' = eval
           \/ eval'.lists = Lists
    PROVE  AddressInv'
<1>1. Followed' = Followed /\ \A r \in RuleIds : Addressed(r)' = Addressed(r)
  BY AddressesStay
<1>2. CASE eval' = Idle \/ (~Quiet /\ eval'.lists = eval.lists) \/ eval' = eval
  BY <1>1, <1>2 DEF AddressInv, addresses, Quiet, Fingerprint
<1>3. CASE eval'.lists = Lists
  <2>1. \A r \in RuleIds : eval'.lists[r] = rule[r].channels
    BY <1>3 DEF Lists
  <2>2. \A fp \in Fingerprint, ch \in Channels : <<fp, ch>> \in Followed => Names(rule[fp.rule].channels, ch)
    BY FollowedPairs DEF Addressed, Addressees
  <2>3. QED
    BY <1>1, <2>1, <2>2 DEF AddressInv, addresses, Fingerprint
<1>4. QED
  BY <1>2, <1>3

LEMMA SendFollows ==
    ASSUME TypeOK, AddressInv, NEW who \in Callers, NEW ch \in Channels, Send(who, ch)
    PROVE  AddressInv'
<1> DEFINE m == Head(outbox[who])
<1>1. Quiet /\ Quiet' /\ UNCHANGED <<ruleRows, rule, channels>>
  BY DEF Send, Free, Quiet, tables
<1>2. outbox[who] \in Seq(Item) /\ outbox[who] # <<>>
  BY DEF Send, TypeOK
<1>3. m \in Item
  BY <1>2
<1>4. \A fp \in Fingerprint, c \in Channels :
         told'[fp][c] = IF fp = m.fp /\ c = ch THEN m.event ELSE told[fp][c]
  BY <1>3 DEF Send, TypeOK, Item
<1>5. \A r \in RuleIds : Addressed(r)' = Addressed(r)
  BY <1>1 DEF Addressed, Addressees
<1>6. /\ readdressed \ {<<m.fp, ch>>} \subseteq readdressed'
      /\ m.event = "resolved" \/ ch \in Addressed(m.fp.rule) \/ <<m.fp, ch>> \in readdressed'
  BY DEF Send, ToldSo
<1> HIDE DEF m
<1>7. \A fp \in Fingerprint, c \in Channels :
         told'[fp][c] = "firing" /\ <<fp, c>> \notin readdressed' => c \in Addressed(fp.rule)'
  BY <1>4, <1>5, <1>6 DEF AddressInv, Fingerprint
<1>8. QED
  BY <1>1, <1>7 DEF AddressInv

LEMMA AddressStep ==
    ASSUME NothingVanishes, TypeOK, AddressInv, [Next]_vars
    PROVE  AddressInv'
<1>1. ASSUME \/ \E fp \in Fingerprint, age \in Age : StateChange(fp, age) \/ SilentChange(fp, age)
             \/ PollWakes \/ Tick \/ LoopWakes \/ LoopTimesOut \/ UNCHANGED vars
             \/ \E who \in Callers : LookUp(who)
             \/ \E subjects \in SUBSET Subjects : SetMaintenance(subjects)
             \/ \E a \in alerts : ExpireAlert(a)
      PROVE  AddressInv'
  <2>1. UNCHANGED <<addresses, ruleRows, rule, told, eval>>
    BY <1>1 DEF StateChange, SilentChange, PollWakes, Tick, LoopWakes, LoopTimesOut, vars, LookUp,
                SetMaintenance, ExpireAlert, tables
  <2>2. QED
    BY <2>1, AddressesKept
<1>2. ASSUME NEW who \in Callers, StartEvaluation(who) PROVE AddressInv'
  <2>1. UNCHANGED <<addresses, ruleRows, rule, told>> /\ eval'.lists = Lists
    BY <1>2 DEF StartEvaluation, tables
  <2>2. QED
    BY <2>1, AddressesKept
<1>3. CASE ~Quiet /\ EvalStep
  <2>1. eval \in Evaluation
    BY <1>3, EvalType
  <2>2. UNCHANGED <<addresses, ruleRows, rule, told>>
    BY <1>3 DEF EvalStep, ReadRule, RuleFails, EvaluateMatch, EvaluationFails, ReadLeftovers, Leftover,
                FinishEvaluation, tables
  <2>3. \A fp, items : Matched(fp, items).lists = eval.lists
    BY <2>1 DEF Matched, Evaluation
  <2>4. ASSUME NEW fp, EvaluateMatch(fp) PROVE eval'.lists = eval.lists
    BY <2>3, <2>4 DEF EvaluateMatch, MatchHeld, MatchNew, MatchAgain
  <2>5. ASSUME NEW a, Leftover(a) PROVE eval'.lists = eval.lists
    BY <2>1, <2>5 DEF Leftover, LeftoverSettled, Evaluation
  <2>6. ASSUME NEW r, ReadRule(r) \/ RuleFails(r) PROVE eval'.lists = eval.lists
    BY <2>1, <2>6 DEF ReadRule, RuleFails, Evaluation
  <2>7. ASSUME ReadLeftovers PROVE eval'.lists = Lists
    BY <2>1, <2>7 DEF ReadLeftovers, Evaluation
  <2>8. eval' = Idle \/ eval'.lists = eval.lists \/ eval'.lists = Lists
    BY <1>3, <2>4, <2>5, <2>6, <2>7 DEF EvalStep, EvaluationFails, FinishEvaluation
  <2>9. QED
    BY <1>3, <2>2, <2>8, AddressesKept
<1>4. ASSUME NEW r \in RuleIds, NEW row \in RuleRow, UpdateRule(r, row) PROVE AddressInv'
  <2>1. /\ Readdress /\ UNCHANGED <<eval, told, ruleRows, channels>>
        /\ \A q \in RuleIds \ ruleRows : rule'[q] = rule[q]
    BY <1>4 DEF UpdateRule, TypeOK
  <2>2. QED
    BY <2>1, EditFollows DEF AddressInv
<1>5. ASSUME NEW ch \in Channels, NEW state \in {"none", "off", "on"}, SetChannel(ch, state) PROVE AddressInv'
  <2>1. /\ Readdress /\ UNCHANGED <<eval, told, ruleRows, rule>>
        /\ \A c \in Channels : channels'[c] # "none"
    BY <1>5 DEF SetChannel, TypeOK, tables, AddressInv, NothingVanishes
  <2>2. QED
    BY <2>1, EditFollows
<1>6. /\ ~Restart
      /\ ~\E r \in RuleIds : DeleteRule(r)
      /\ ~\E subject \in Subjects, scoped \in SUBSET ruleRows : DeleteSubject(subject, scoped)
  BY DEF Restart, DeleteRule, DeleteSubject, NothingVanishes
<1>7. QED
  BY <1>1, <1>2, <1>3, <1>4, <1>5, <1>6, SendFollows, CreateRuleFollows DEF Next

LEMMA AgreeStep ==
    ASSUME NothingVanishes, Requests = {}, HeldInv, AddressInv, AgreeInv, [Next]_vars
    PROVE  AgreeInv'
<1>1. TypeOK /\ Callers = {"loop"}
  BY DEF HeldInv, OpenInv, Callers
<1>2. ASSUME \/ \E fp \in Fingerprint, age \in Age : StateChange(fp, age) \/ SilentChange(fp, age)
             \/ PollWakes \/ LoopWakes \/ LoopTimesOut \/ UNCHANGED vars
             \/ \E subjects \in SUBSET Subjects : SetMaintenance(subjects)
      PROVE  AgreeInv'
  <2>1. UNCHANGED <<alerts, eval, outbox, told, ruleRows, rule, addresses>>
    BY <1>2 DEF StateChange, SilentChange, PollWakes, LoopWakes, LoopTimesOut, vars, SetMaintenance, tables
  <2>2. Followed' = Followed
    BY <2>1, AddressesStay
  <2>3. \A fp \in Fingerprint, ch \in Channels :
           <<fp, ch>> \in Followed' => <<fp, ch>> \in Followed \/ (fp.rule \notin ruleRows /\ readdressed' = readdressed)
    BY <2>2
  <2>4. QED
    BY <1>1, <2>1, <2>3, OutsideAgrees
<1>3. ASSUME NEW for \in ForValues, NEW list \in ChannelLists, CreateRule(for, list) PROVE AgreeInv'
  <2>1. /\ UNCHANGED <<alerts, eval, outbox, told, readdressed>> /\ ruleRows \subseteq ruleRows'
    BY <1>3 DEF CreateRule, addresses
  <2>2. \A fp \in Fingerprint, ch \in Channels :
           <<fp, ch>> \in Followed' => <<fp, ch>> \in Followed \/ fp.rule \notin ruleRows
    BY <1>1, <1>3, CreateRuleFollows
  <2>3. QED
    BY <1>1, <2>1, <2>2, OutsideAgrees
<1>4. ASSUME \/ \E r \in RuleIds, row \in RuleRow : UpdateRule(r, row)
             \/ \E ch \in Channels, state \in {"none", "off", "on"} : SetChannel(ch, state)
      PROVE  AgreeInv'
  <2>1. /\ Readdress /\ UNCHANGED <<alerts, eval, outbox, told, ruleRows>>
        /\ \A c \in Channels : channels'[c] # "none"
        /\ \A q \in RuleIds \ ruleRows : rule'[q] = rule[q]
    BY <1>1, <1>4 DEF UpdateRule, SetChannel, TypeOK, tables, AddressInv, NothingVanishes
  <2>2. \A fp \in Fingerprint, ch \in Channels : <<fp, ch>> \in Followed' => <<fp, ch>> \in Followed
    BY <1>1, <2>1, EditFollows
  <2>3. \A fp \in Fingerprint, ch \in Channels :
           <<fp, ch>> \in Followed' => <<fp, ch>> \in Followed \/ (fp.rule \notin ruleRows /\ readdressed' = readdressed)
    BY <2>2
  <2>4. QED
    BY <1>1, <2>1, <2>3, OutsideAgrees
<1>5. /\ ~Restart
      /\ ~\E r \in RuleIds : DeleteRule(r)
      /\ ~\E subject \in Subjects, scoped \in SUBSET ruleRows : DeleteSubject(subject, scoped)
  BY DEF Restart, DeleteRule, DeleteSubject, NothingVanishes
<1>6. QED
  BY <1>1, <1>2, <1>3, <1>4, <1>5, TickAgrees, StartAgrees, EvalStepAgrees,
     LookUpAgrees, SentAgrees, ExpireAgrees DEF Next

LEMMA AgreeInit == Init => AddressInv /\ AgreeInv
<1> SUFFICES ASSUME Init PROVE AddressInv /\ AgreeInv
  OBVIOUS
<1>1. Quiet /\ Unsent = <<>> /\ alerts = {}
  BY LoopIsCaller DEF Init, Quiet, Unsent
<1>2. \A i \in DOMAIN Unsent : FALSE
  BY <1>1
<1>3. \A fp \in Fingerprint, ch \in Channels : told[fp][ch] # "firing"
  BY DEF Init
<1>4. AddressInv
  BY <1>1, <1>3 DEF AddressInv, Init, NoRule
<1>5. QED
  BY <1>1, <1>2, <1>3, <1>4 DEF AgreeInv, Messages, ToldOrUnsent, FiringIn

\* When nothing is under way, a channel was last told "firing" for exactly the fingerprints of
\* rules that address it that have a firing alert, unless an edit added it to the rule or removed
\* it since it was last told: however rules and channels are edited, fail or are under maintenance
\* meanwhile, and however many rules, channels and alerts there are.
THEOREM ChannelsAgreeAlways ==
    ASSUME NothingVanishes, Requests = {}
    PROVE  Spec => []ChannelsAgree
<1>1. Init => HeldInv /\ AddressInv /\ AgreeInv
  BY HeldInit, AgreeInit
<1>2. HeldInv /\ AddressInv /\ AgreeInv /\ [Next]_vars => HeldInv' /\ AddressInv' /\ AgreeInv'
  BY HeldStep, AddressStep, AgreeStep DEF HeldInv, OpenInv
<1>3. AddressInv /\ AgreeInv => ChannelsAgree
  <2>1. SUFFICES ASSUME AddressInv, AgreeInv, Quiet, \A who \in Callers : outbox[who] = <<>>,
                        NEW fp \in Fingerprint, NEW ch \in Channels, <<fp, ch>> \notin readdressed
                 PROVE  told[fp][ch] = "firing" <=> Firing(fp) /\ ch \in Addressed(fp.rule)
    BY DEF ChannelsAgree
  <2>2. Unsent = <<>>
    BY <2>1, LoopIsCaller DEF Unsent
  <2>3. \A i \in DOMAIN Unsent : FALSE
    BY <2>2
  <2>4. CASE ch \in Addressed(fp.rule)
    <3>1. <<fp, ch>> \in Followed
      BY <2>1, <2>4, FollowedPairs
    <3>2. told[fp][ch] = "firing" <=> FiringIn(alerts, fp)
      BY <2>1, <2>3, <3>1 DEF AgreeInv, ToldOrUnsent
    <3>3. QED
      BY <2>4, <3>2 DEF Firing, FiringIn
  <2>5. CASE ch \notin Addressed(fp.rule)
    BY <2>1, <2>5 DEF AddressInv
  <2>6. QED
    BY <2>4, <2>5
<1>4. QED
  BY <1>1, <1>2, <1>3, PTL DEF Spec
=============================================================================

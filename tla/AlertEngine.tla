----------------------------- MODULE AlertEngine -----------------------------
(***************************************************************************)
(* Alert rules: AlertEngine.evaluate, the dispatch of its notifications,   *)
(* and the callers of evaluate, which are Monitor._alert_loop and          *)
(* POST /alerts/evaluate.                                                  *)
(*                                                                         *)
(* evaluate awaits nothing until its tables are written, so no other       *)
(* coroutine runs before its outbox is complete: there is one "eval".  It  *)
(* is not a transaction either: API handlers run in worker threads between *)
(* its statements.  Then it awaits the notifier once per item, and         *)
(* everything else goes on, a second evaluation included.                  *)
(*                                                                         *)
(* What a rule matches is data here: a fingerprint is a rule and a subject *)
(* (a metric, check, device or host), and its condition begins and ends as *)
(* it likes.  Times are ages, which stop growing at MaxAge, beyond every   *)
(* for_seconds.                                                            *)
(***************************************************************************)
EXTENDS Naturals, Sequences, FiniteSets

CONSTANTS RuleIds,       \* ids of alert_rules rows, 1..n
          StateRules,    \* those of kind "check" or "device": a match has a "since"
          Subjects,      \* what a rule can match
          AlertIds,      \* ids of alerts rows
          ForValues,     \* values of the for_seconds column
          MaxAge,        \* bound: the age at which clocks stop
          Channels,      \* ids of channels rows
          ChannelLists,  \* values of the channels column of a rule
          Requests,      \* clients of POST /alerts/evaluate
          Disturbances   \* what else may happen

ASSUME RulesAssumption == RuleIds \subseteq Nat \ {0} /\ StateRules \subseteq RuleIds
ASSUME AgesAssumption == MaxAge \in Nat /\ ForValues \subseteq 0..MaxAge /\ ForValues # {}
ASSUME CallersAssumption == "loop" \notin Requests
\* A list may name a channel that is deleted; the empty list is for all channels.
ASSUME ChannelsAssumption == Channels # {} /\ {} \in ChannelLists /\ ChannelLists \subseteq SUBSET Channels
ASSUME DisturbancesAssumption ==
    Disturbances \subseteq {"edit", "channels", "delete", "maintenance", "restart", "error"}

VARIABLES ruleRows,    \* ids present in table alert_rules
          rule,        \* columns enabled, for_seconds and channels
          channels,    \* table channels: "none" has no row, "off" is not enabled
          matching,    \* fingerprints whose condition is true
          since,       \*   and how long it has been, by the match's "since"
          windows,     \* subjects under a maintenance window in force
          alerts,      \* table alerts; a row's age is the time since started_at
          eval,        \* the evaluation between its first and its last statement
          outbox,      \* per caller, the notifications its evaluation still sends
          told,        \* the last event sent to a channel for a fingerprint
          loop,        \* where _alert_loop is
          wakeup,      \* Monitor._alert_wakeup
          readdressed, \* history: whose place among the channels of a fingerprint's rule
                       \*   changed since they were told of it
          unseen,      \* history: state changes that no evaluation has looked at
          vouched      \* history: how long evaluations outside maintenance can vouch
                       \*   for a condition: since the last one that found no match,
                       \*   or as long as a later one read that it lasts

tables == <<ruleRows, rule, windows, alerts>>
addresses == <<channels, readdressed>>
conditions == <<matching, since>>
history == <<unseen, vouched>>
vars == <<tables, addresses, conditions, eval, outbox, told, loop, wakeup, history>>

Fingerprint == [rule: RuleIds, subject: Subjects]
Callers == {"loop"} \cup Requests
Age == 0..MaxAge

RuleRow == [enabled: {0, 1}, for: ForValues, channels: ChannelLists]
Alert == [id: AlertIds, fp: Fingerprint, state: {"pending", "firing", "resolved"}, age: Age]
\* Before dispatch has looked up the channels, an item has only its rule's list.
Item == [event: {"firing", "resolved"}, id: AlertIds, fp: Fingerprint, channels: ChannelLists,
         lookedUp: BOOLEAN, to: SUBSET Channels]
RuleRead == [id: RuleIds, for: ForValues]

NoRule == [enabled |-> 0, for |-> CHOOSE f \in ForValues : TRUE, channels |-> {}]
Idle == [phase |-> "idle"]
Evaluation == [phase: {"rules", "leftovers"}, who: Callers, windows: SUBSET Subjects,
               active: SUBSET Alert, todo: SUBSET RuleRead, rule: RuleIds \cup {0}, for: ForValues,
               matches: SUBSET Fingerprint, ages: [Fingerprint -> Age], known: SUBSET RuleIds,
               enabled: SUBSET RuleIds, lists: [RuleIds -> ChannelLists], out: Seq(Item)]

TypeOK ==
    /\ ruleRows \subseteq RuleIds
    /\ rule \in [RuleIds -> RuleRow]
    /\ matching \subseteq Fingerprint
    /\ since \in [Fingerprint -> Age]
    /\ windows \subseteq Subjects
    /\ alerts \subseteq Alert
    /\ eval \in {Idle} \cup Evaluation
    /\ outbox \in [Callers -> Seq(Item)]
    /\ channels \in [Channels -> {"none", "off", "on"}]
    /\ readdressed \subseteq Fingerprint \X Channels
    /\ told \in [Fingerprint -> [Channels -> {"nothing", "firing", "resolved"}]]
    /\ loop \in {"start", "busy", "wait"}
    /\ wakeup \in BOOLEAN
    /\ unseen \subseteq Fingerprint
    /\ vouched \in [Fingerprint -> Age]

-----------------------------------------------------------------------------
(* The conditions, which the rest of the program changes.                  *)

Quiet == eval = Idle      \* the event loop is not inside evaluate

\* Nor on its way from there, or from the end of an item, to the next item's channels.
Free == Quiet /\ \A who \in Callers : outbox[who] # <<>> => Head(outbox[who]).lookedUp

\* The condition of fp turns true (by its "since", some time ago) or false.
Turn(fp, age) ==
    /\ IF fp \in matching
         THEN matching' = matching \ {fp} /\ age = 0
         ELSE matching' = matching \cup {fp}
    /\ since' = [since EXCEPT ![fp] = age]

\* A check or device changes state, and its job sets the wakeup.
StateChange(fp, age) ==
    /\ Free
    /\ fp.rule \in StateRules
    /\ Turn(fp, age)
    /\ wakeup' = TRUE
    /\ unseen' = unseen \cup {fp}
    /\ UNCHANGED <<tables, eval, outbox, told, addresses, loop, vouched>>

\* A metric's sample, syslog messages, or the edit of a device or check.
SilentChange(fp, age) ==
    /\ Turn(fp, age)
    /\ UNCHANGED <<tables, eval, outbox, told, addresses, loop, wakeup, history>>

\* A poll that fails once more, or reports events, sets the wakeup too.
PollWakes ==
    /\ Free
    /\ ~wakeup
    /\ wakeup' = TRUE
    /\ UNCHANGED <<tables, conditions, eval, outbox, told, addresses, loop, history>>

Older(age) == IF age < MaxAge THEN age + 1 ELSE MaxAge

\* Time passes; an evaluation takes its "now" once, at its start.
Tick ==
    /\ Free
    /\ since' = [fp \in Fingerprint |-> Older(since[fp])]
    /\ vouched' = [fp \in Fingerprint |-> Older(vouched[fp])]
    /\ alerts' = {[a EXCEPT !.age = Older(@)] : a \in alerts}
    /\ UNCHANGED <<ruleRows, rule, windows, matching, eval, outbox, told, addresses, loop, wakeup, unseen>>

-----------------------------------------------------------------------------
(* AlertEngine.evaluate, up to its first await.                            *)

\* Mutant of OpenAlerts: the query forgets the pending ones.
FiringAlerts(rows) == {a \in rows : a.state = "firing"}

\* SELECT * FROM alerts WHERE state IN ('pending', 'firing').
OpenAlerts(rows) == {a \in rows : a.state \in {"pending", "firing"}}

\* Mutant of Ripe: a pending alert fires a little early.
RipeEarly(age, for) == age + 1 >= for

\* The condition has held for for_seconds.
Ripe(age, for) == age >= for

\* Bound: an evaluation begins when an id is free for each alert it may insert.
RoomForAlerts == Cardinality(alerts) + Cardinality(Fingerprint) <= Cardinality(AlertIds)

\* A list addresses a channel when it names it, or is empty.
Names(list, ch) == list = {} \/ ch \in list

\* The enabled channels of a list.
Addressees(list) == {ch \in Channels : channels[ch] = "on" /\ Names(list, ch)}

\* The channels that a rule addresses.
Addressed(r) == IF r \in ruleRows THEN Addressees(rule[r].channels) ELSE {}

\* Which channels an edit adds to rules or removes from them.
Readdress ==
    readdressed' = readdressed \cup
        {pair \in Fingerprint \X Channels :
             (pair[2] \in Addressed(pair[1].rule)) # (pair[2] \in Addressed(pair[1].rule)')}

EnabledRules == {r \in ruleRows : rule[r].enabled = 1}

Lists == [r \in RuleIds |-> rule[r].channels]

\* The loop's turn, or a request: the windows, the open alerts and the enabled
\* rules are read.
StartEvaluation(who) ==
    /\ Free /\ RoomForAlerts
    /\ outbox[who] = <<>>
    /\ who = "loop" => loop = "start"
    /\ loop' = IF who = "loop" THEN "busy" ELSE loop
    /\ eval' = [phase |-> "rules", who |-> who, windows |-> windows, active |-> OpenAlerts(alerts),
                todo |-> {[id |-> r, for |-> rule[r].for] : r \in EnabledRules},
                rule |-> 0, for |-> NoRule.for, matches |-> {}, ages |-> [fp \in Fingerprint |-> 0],
                known |-> {}, enabled |-> {}, lists |-> Lists, out |-> <<>>]
    /\ unseen' = {}
    /\ UNCHANGED <<tables, conditions, outbox, told, addresses, wakeup, vouched>>

\* Mutant of InMaintenance: windows are ignored.
NeverInMaintenance(fp) == FALSE

InMaintenance(fp) == fp.subject \in eval.windows

OfRule(r) == {fp \in Fingerprint : fp.rule = r}

\* How long ago each condition began, as far as its match says.
StartedAgo == [fp \in Fingerprint |-> IF fp.rule \in StateRules THEN since[fp] ELSE 0]

\* evaluate_rule returns the matches of the next rule, each with its "since".
ReadRule(r) ==
    /\ eval.phase = "rules" /\ eval.matches = {}
    /\ r \in eval.todo
    /\ eval' = [eval EXCEPT !.todo = @ \ {r}, !.rule = r.id, !.for = r.for,
                            !.matches = matching \cap OfRule(r.id), !.ages = StartedAgo]
    /\ vouched' = [fp \in Fingerprint |->
                      IF fp \notin OfRule(r.id) \/ InMaintenance(fp) THEN vouched[fp]
                      ELSE IF fp \in matching /\ StartedAgo[fp] > vouched[fp] THEN StartedAgo[fp]
                      ELSE IF fp \in matching THEN vouched[fp]
                      ELSE 0]
    /\ UNCHANGED <<tables, conditions, outbox, told, addresses, loop, wakeup, unseen>>

\* evaluate_rule raises: the rule's alerts are left as they are.
RuleFails(r) ==
    /\ "error" \in Disturbances
    /\ eval.phase = "rules" /\ eval.matches = {}
    /\ r \in eval.todo
    /\ eval' = [eval EXCEPT !.todo = @ \ {r},
                            !.active = {a \in @ : a.fp.rule # r.id}]
    /\ UNCHANGED <<tables, conditions, outbox, told, addresses, loop, wakeup, history>>

\* The evaluation with the match of fp dealt with, and what it adds to the outbox.
Matched(fp, items) ==
    [eval EXCEPT !.matches = @ \ {fp}, !.active = {a \in @ : a.fp # fp}, !.out = @ \o items]

\* An item of the outbox: an event, the alert, and its rule's row as it was read.
Message(event, a) ==
    [event |-> event, id |-> a.id, fp |-> a.fp, channels |-> eval.lists[a.fp.rule], lookedUp |-> FALSE, to |-> {}]

\* UPDATE alerts ... WHERE id = a.id.
SetState(a, state) == {IF b.id = a.id THEN [b EXCEPT !.state = state] ELSE b : b \in alerts}

\* A match under maintenance: its alert, if any, is neither created nor touched.
MatchHeld(fp) ==
    /\ InMaintenance(fp)
    /\ eval' = Matched(fp, <<>>)
    /\ UNCHANGED alerts

\* An alert is inserted as pending, and fires at once if its start is old enough.
FirstState(fp, for) == IF Ripe(eval.ages[fp], for) THEN "firing" ELSE "pending"

\* A match without an alert.  SQLite gives the row an id that no row has.
MatchNew(fp) ==
    /\ ~InMaintenance(fp)
    /\ \A a \in eval.active : a.fp # fp
    /\ fp.rule \in ruleRows
    /\ \E id \in AlertIds :
          LET a == [id |-> id, fp |-> fp, state |-> FirstState(fp, eval.for), age |-> eval.ages[fp]]
          IN  /\ \A b \in alerts : b.id # id
              /\ alerts' = alerts \cup {a}
              /\ eval' = Matched(fp, IF a.state = "firing" THEN <<Message("firing", a)>> ELSE <<>>)

\* A match whose alert was open when the evaluation began.
MatchAgain(fp) ==
    /\ ~InMaintenance(fp)
    /\ \E a \in eval.active :
          /\ a.fp = fp
          /\ IF a.state = "pending" /\ Ripe(a.age, eval.for)
               THEN /\ alerts' = SetState(a, "firing")
                    /\ eval' = Matched(fp, <<Message("firing", a)>>)
               ELSE /\ eval' = Matched(fp, <<>>)
                    /\ UNCHANGED alerts

EvaluateMatch(fp) ==
    /\ eval.phase = "rules" /\ fp \in eval.matches
    /\ MatchHeld(fp) \/ MatchNew(fp) \/ MatchAgain(fp)
    /\ UNCHANGED <<ruleRows, rule, windows, conditions, outbox, told, addresses, loop, wakeup, history>>

\* The caller is done: the loop clears its wakeup and waits.
Return(who) ==
    IF who = "loop" THEN loop' = "wait" /\ wakeup' = FALSE ELSE UNCHANGED <<loop, wakeup>>

\* The rule of a new match was deleted meanwhile: the insert breaks a foreign
\* key, the exception leaves evaluate, and the outbox is forgotten.
EvaluationFails(fp) ==
    /\ eval.phase = "rules" /\ fp \in eval.matches
    /\ ~InMaintenance(fp)
    /\ \A a \in eval.active : a.fp # fp
    /\ fp.rule \notin ruleRows
    /\ eval' = Idle
    /\ Return(eval.who)
    /\ UNCHANGED <<tables, conditions, outbox, told, addresses, history>>

\* The rules are read again, for the open alerts that nothing matched.
ReadLeftovers ==
    /\ eval.phase = "rules" /\ eval.todo = {} /\ eval.matches = {}
    /\ eval' = [eval EXCEPT !.phase = "leftovers", !.known = ruleRows, !.enabled = EnabledRules, !.lists = Lists]
    /\ UNCHANGED <<tables, conditions, outbox, told, addresses, loop, wakeup, history>>

\* Mutant of LeftoverSettled: the message is sent only while the rule is enabled.
SettledIfEnabled(a) ==
    /\ alerts' = IF a.state = "pending" THEN {b \in alerts : b.id # a.id} ELSE SetState(a, "resolved")
    /\ eval' = [eval EXCEPT
                  !.active = @ \ {a},
                  !.out = IF a.state = "firing" /\ a.fp.rule \in eval.enabled
                            THEN Append(@, Message("resolved", a)) ELSE @]

\* A pending alert leaves no trace; a firing one is resolved, and that is said
\* if its rule still exists.
LeftoverSettled(a) ==
    /\ alerts' = IF a.state = "pending" THEN {b \in alerts : b.id # a.id} ELSE SetState(a, "resolved")
    /\ eval' = [eval EXCEPT
                  !.active = @ \ {a},
                  !.out = IF a.state = "firing" /\ a.fp.rule \in eval.known
                            THEN Append(@, Message("resolved", a)) ELSE @]

\* Mutant of Kept: an alert stays open as long as its rule is enabled.
KeptWhileEnabled(a) == a.fp.rule \in eval.enabled

\* An alert is kept while in maintenance, unless its rule is disabled or gone.
Kept(a) == a.fp.rule \in eval.enabled /\ InMaintenance(a.fp)

\* An open alert that nothing matched.
Leftover(a) ==
    /\ eval.phase = "leftovers" /\ a \in eval.active
    /\ IF Kept(a)
         THEN eval' = [eval EXCEPT !.active = @ \ {a}] /\ UNCHANGED alerts
         ELSE LeftoverSettled(a)
    /\ UNCHANGED <<ruleRows, rule, windows, conditions, outbox, told, addresses, loop, wakeup, history>>

\* The first await: the event loop is free again.
FinishEvaluation ==
    /\ eval.phase = "leftovers" /\ eval.active = {}
    /\ eval' = Idle
    /\ outbox' = [outbox EXCEPT ![eval.who] = eval.out]
    /\ IF eval.out = <<>> THEN Return(eval.who) ELSE UNCHANGED <<loop, wakeup>>
    /\ UNCHANGED <<tables, conditions, told, addresses, history>>

EvalStep ==
    \/ \E r \in eval.todo : ReadRule(r) \/ RuleFails(r)
    \/ \E fp \in eval.matches : EvaluateMatch(fp) \/ EvaluationFails(fp)
    \/ ReadLeftovers
    \/ \E a \in eval.active : Leftover(a)
    \/ FinishEvaluation

-----------------------------------------------------------------------------
(* dispatch, for the caller's items one after the other.                   *)

\* The enabled channels of the first item's rule are selected, before anything else.
LookUp(who) ==
    /\ Quiet
    /\ outbox[who] # <<>> /\ ~Head(outbox[who]).lookedUp
    /\ LET to == Addressees(Head(outbox[who]).channels)
       IN  outbox' = [outbox EXCEPT ![who] =
                        (IF to = {} THEN <<>> ELSE <<[Head(@) EXCEPT !.lookedUp = TRUE, !.to = to]>>) \o Tail(@)]
    /\ IF outbox'[who] = <<>> THEN Return(who) ELSE UNCHANGED <<loop, wakeup>>
    /\ UNCHANGED <<tables, conditions, eval, told, addresses, history>>

\* Mutant of AfterSend: a channel that fails ends the item's dispatch.
AfterSendFails(items, ch) == Tail(items)

\* What is left after a channel has been sent the first item.  The insert in
\* table notifications needs the rows of the alert and the channel; without them the
\* exception ends this item's dispatch.
AfterSend(items, ch) ==
    LET item == Head(items)
        recorded == channels[ch] # "none" /\ \E a \in alerts : a.id = item.id
        rest == IF recorded THEN item.to \ {ch} ELSE {}
    IN  IF rest = {} THEN Tail(items) ELSE <<[item EXCEPT !.to = rest]>> \o Tail(items)

\* A channel that the rule addresses, or that hears of the end, is told what is so.
ToldSo(item, ch) ==
    IF item.event = "resolved" \/ ch \in Addressed(item.fp.rule)
      THEN readdressed' = readdressed \ {<<item.fp, ch>>}
      ELSE readdressed' = readdressed \cup {<<item.fp, ch>>}

\* A channel is sent the first item, successfully or not.
Send(who, ch) ==
    /\ Free
    /\ outbox[who] # <<>>
    /\ ch \in Head(outbox[who]).to
    /\ told' = [told EXCEPT ![Head(outbox[who]).fp][ch] = Head(outbox[who]).event]
    /\ ToldSo(Head(outbox[who]), ch)
    /\ outbox' = [outbox EXCEPT ![who] = AfterSend(@, ch)]
    /\ IF outbox'[who] = <<>> THEN Return(who) ELSE UNCHANGED <<loop, wakeup>>
    /\ UNCHANGED <<tables, conditions, channels, eval, history>>

-----------------------------------------------------------------------------
(* _alert_loop, and the end of the process.                                *)

\* Event.wait returns; half a second later the loop evaluates.
LoopWakes ==
    /\ Free
    /\ loop = "wait" /\ wakeup
    /\ loop' = "start"
    /\ UNCHANGED <<tables, conditions, eval, outbox, told, addresses, wakeup, history>>

\* Mutant of LoopTimesOut: the loop waits for its event alone.
LoopNeverTimesOut ==
    /\ Free
    /\ loop = "wait" /\ wakeup
    /\ loop' = "start"
    /\ UNCHANGED <<tables, conditions, eval, outbox, told, addresses, wakeup, history>>

\* alert_eval_interval is over.
LoopTimesOut ==
    /\ Free
    /\ loop = "wait" /\ ~wakeup
    /\ loop' = "start"
    /\ UNCHANGED <<tables, conditions, eval, outbox, told, addresses, wakeup, history>>

\* The process stops, inside an evaluation or a dispatch, and starts again.
Restart ==
    /\ "restart" \in Disturbances
    /\ eval' = Idle
    /\ outbox' = [who \in Callers |-> <<>>]
    /\ loop' = "start"
    /\ wakeup' = FALSE
    /\ UNCHANGED <<tables, conditions, told, addresses, history>>

-----------------------------------------------------------------------------
(* The API, in worker threads, and retention.                              *)

FreshRuleId == IF ruleRows = {} THEN 1 ELSE 1 + CHOOSE r \in ruleRows : \A q \in ruleRows : q <= r

CreateRule(for, list) ==
    /\ FreshRuleId \in RuleIds \ ruleRows
    /\ ruleRows' = ruleRows \cup {FreshRuleId}
    /\ rule' = [rule EXCEPT ![FreshRuleId] = [enabled |-> 1, for |-> for, channels |-> list]]
    /\ UNCHANGED <<windows, alerts, conditions, eval, outbox, told, addresses, loop, wakeup, history>>

UpdateRule(r, row) ==
    /\ "edit" \in Disturbances
    /\ r \in ruleRows
    /\ rule' = [rule EXCEPT ![r] = row]
    /\ UNCHANGED <<ruleRows, windows, alerts, channels, conditions, eval, outbox, told, loop, wakeup, history>>
    /\ Readdress

\* The rule's alerts go with it, by the cascade.
DeleteRule(r) ==
    /\ "delete" \in Disturbances
    /\ r \in ruleRows
    /\ ruleRows' = ruleRows \ {r}
    /\ rule' = [rule EXCEPT ![r] = NoRule]
    /\ alerts' = {a \in alerts : a.fp.rule # r}
    /\ UNCHANGED <<windows, conditions, eval, outbox, told, addresses, loop, wakeup, history>>

\* A check or device is deleted: its alerts by hand, its maintenance windows and the
\* rules scoped to it, with their alerts, by the cascade.  Nobody is told.
DeleteSubject(subject, scoped) ==
    /\ "delete" \in Disturbances
    /\ matching' = {fp \in matching : fp.subject # subject}
    /\ ruleRows' = ruleRows \ scoped
    /\ rule' = [r \in RuleIds |-> IF r \in scoped THEN NoRule ELSE rule[r]]
    /\ alerts' = {a \in alerts : a.fp.subject # subject /\ a.fp.rule \notin scoped}
    /\ windows' \in {windows, windows \ {subject}}     \* a global window stays
    /\ UNCHANGED <<since, eval, outbox, told, addresses, loop, wakeup, history>>

\* POST, PATCH and DELETE of a channel.  An id may come back, for one that was told nothing.
SetChannel(ch, state) ==
    /\ "channels" \in Disturbances
    /\ state # channels[ch]
    /\ state = "none" => "delete" \in Disturbances
    /\ channels' = [channels EXCEPT ![ch] = state]
    /\ told' = IF channels[ch] = "none" THEN [fp \in Fingerprint |-> [told[fp] EXCEPT ![ch] = "nothing"]] ELSE told
    /\ UNCHANGED <<tables, conditions, eval, outbox, loop, wakeup, history>>
    /\ Readdress

\* A window is created or deleted, or its time comes or is over.
SetMaintenance(subjects) ==
    /\ "maintenance" \in Disturbances
    /\ subjects # windows
    /\ windows' = subjects
    /\ UNCHANGED <<ruleRows, rule, alerts, conditions, eval, outbox, told, addresses, loop, wakeup, history>>

\* apply_retention deletes a resolved alert, days after it was dispatched.
ExpireAlert(a) ==
    /\ Free
    /\ a.state = "resolved"
    /\ \A who \in Callers : \A i \in DOMAIN outbox[who] : outbox[who][i].id # a.id
    /\ alerts' = alerts \ {a}
    /\ UNCHANGED <<ruleRows, rule, windows, conditions, eval, outbox, told, addresses, loop, wakeup, history>>

-----------------------------------------------------------------------------
Init ==
    /\ ruleRows = {}
    /\ rule = [r \in RuleIds |-> NoRule]
    /\ matching = {}
    /\ since = [fp \in Fingerprint |-> 0]
    /\ windows = {}
    /\ channels = [ch \in Channels |-> "on"]
    /\ readdressed = {}
    /\ alerts = {}
    /\ eval = Idle
    /\ outbox = [who \in Callers |-> <<>>]
    /\ told = [fp \in Fingerprint |-> [ch \in Channels |-> "nothing"]]
    /\ loop = "start"
    /\ wakeup = FALSE
    /\ unseen = {}
    /\ vouched = [fp \in Fingerprint |-> MaxAge]

Next ==
    \/ \E fp \in Fingerprint, age \in Age : StateChange(fp, age) \/ SilentChange(fp, age)
    \/ PollWakes
    \/ Tick
    \/ \E who \in Callers : StartEvaluation(who)
    \/ ~Quiet /\ EvalStep
    \/ \E who \in Callers : LookUp(who)
    \/ \E who \in Callers, ch \in Channels : Send(who, ch)
    \/ LoopWakes
    \/ LoopTimesOut
    \/ Restart
    \/ \E for \in ForValues, list \in ChannelLists : CreateRule(for, list)
    \/ \E r \in RuleIds, row \in RuleRow : UpdateRule(r, row)
    \/ \E r \in RuleIds : DeleteRule(r)
    \/ \E subject \in Subjects, scoped \in SUBSET ruleRows : DeleteSubject(subject, scoped)
    \/ \E ch \in Channels, state \in {"none", "off", "on"} : SetChannel(ch, state)
    \/ \E subjects \in SUBSET Subjects : SetMaintenance(subjects)
    \/ \E a \in alerts : ExpireAlert(a)

Spec == Init /\ [][Next]_vars

\* The event loop goes on with a coroutine that can go on, its timers go off, time
\* passes between evaluations (the loop sleeps half a second before each),
\* a channel answers or times out (10 s), and housekeeping runs.
Fairness ==
    /\ WF_vars(StartEvaluation("loop"))
    /\ WF_vars(~Quiet /\ EvalStep)
    /\ \A who \in Callers : WF_vars(LookUp(who)) /\ WF_vars(\E ch \in Channels : Send(who, ch))
    /\ WF_vars(LoopWakes)
    /\ WF_vars(LoopTimesOut)
    /\ SF_vars(Tick)
    /\ WF_vars(\E a \in alerts : ExpireAlert(a))

FairSpec == Spec /\ Fairness

-----------------------------------------------------------------------------
(* Properties.                                                             *)

\* "At most one open alert exists per fingerprint": although two evaluations
\* can be under way, rules change under them and no key says so.
OneOpenAlert ==
    \A a, b \in alerts :
        a.fp = b.fp /\ a.state # "resolved" /\ b.state # "resolved" => a = b

Firing(fp) == \E a \in alerts : a.fp = fp /\ a.state = "firing"

\* When nothing is under way, a channel was last told "firing" for exactly the
\* fingerprints of the rules that address it that have a firing alert: the pager
\* and the table agree.  Excepted is a channel that an edit added to the rule or
\* removed from it, until it is told again: what it then believes nobody corrects.
ChannelsAgree ==
    Quiet /\ (\A who \in Callers : outbox[who] = <<>>) =>
        \A fp \in Fingerprint, ch \in Channels :
            <<fp, ch>> \notin readdressed =>
                (told[fp][ch] = "firing" <=> Firing(fp) /\ ch \in Addressed(fp.rule))

\* An alert fires only for a condition that evaluations vouch for as long as
\* for_seconds: none of them found it false in that time, but under a maintenance
\* window, which holds a pending alert; or a later one read that it lasts as long.
FiringHasHeld ==
    [][\A a \in alerts' :
         /\ a.state = "firing"
         /\ \A b \in alerts : b.id = a.id => b.state # "firing"
         => vouched[a.fp] >= eval.for]_vars

\* "An alert is pending until its condition has held for for_seconds": when the alert
\* of a check or device fires, that is how long the check or device is down.  False: the
\* start is read with the first match, and not again.
FiringIsDownAsLong ==
    [][\A a \in alerts' :
         /\ a.state = "firing" /\ a.fp.rule \in StateRules
         /\ \A b \in alerts : b.id = a.id => b.state # "firing"
         => eval.ages[a.fp] >= eval.for]_vars

\* "Maintenance window = neither resolve nor notify": an evaluation changes the
\* state of no alert whose subject was under a window when it began, as long
\* as its rule is enabled.
MaintenanceHolds ==
    [][~Quiet /\ eval' # eval =>
         \A fp \in Fingerprint :
             /\ fp.subject \in eval.windows
             /\ eval.phase = "leftovers" => fp.rule \in eval.enabled
             => {a \in OpenAlerts(alerts') : a.fp = fp} = {a \in OpenAlerts(alerts) : a.fp = fp}]_vars

\* "Immediately after a state change": a change that no evaluation has looked at
\* yet keeps the loop from waiting for its interval.  False: see TrueIsReported for what holds.
ChangesAreSeenAtOnce ==
    unseen # {} => wakeup \/ loop # "wait"

\* A condition that stays true, under an enabled rule and no maintenance, is reported
\* for good to every channel that the rule goes on addressing; even when the wakeup
\* was lost.  A channel that is added while the alert fires waits for the next one.
TrueIsReported ==
    \A fp \in Fingerprint, ch \in Channels :
        <>[](/\ fp \in matching /\ fp.rule \in EnabledRules /\ fp.subject \notin windows
             /\ ch \in Addressed(fp.rule) /\ <<fp, ch>> \notin readdressed)
            => <>[](told[fp][ch] = "firing")

\* A condition that stays false, with no maintenance, ends with no open alert, and no
\* channel believes in one, but those that edits took from the rule before they were told.
FalseIsReported ==
    \A fp \in Fingerprint, ch \in Channels :
        <>[](fp \notin matching /\ fp.subject \notin windows)
            => <>[](/\ \A a \in OpenAlerts(alerts) : a.fp # fp
                    /\ told[fp][ch] = "firing" => <<fp, ch>> \in readdressed)
=============================================================================

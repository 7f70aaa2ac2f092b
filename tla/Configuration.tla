--------------------------- MODULE Configuration ---------------------------
(***************************************************************************)
(* The configuration tables and the requests that change them              *)
(* (services.py, and the handlers of api.py that call it): devices with    *)
(* their custom metrics, checks, notification channels and alert rules;    *)
(* seeding; export and import.                                             *)
(*                                                                         *)
(* A table is a function from ids to rows, and a database the four of      *)
(* them, so that export_config and import_config are operators on          *)
(* databases.  A request is one step.  A name, a host or a secret is a     *)
(* model value; the empty string, where a field may be left empty, is      *)
(* Blank.  A form is what a page was given by a GET some time ago and      *)
(* sends back with a PATCH.                                                *)
(***************************************************************************)
EXTENDS Integers, Sequences, FiniteSets, SequencesExt

CONSTANTS Names,         \* names of devices and channels
          RuleNames, CheckNames,
          Hosts,         \* hostnames, targets of checks
          Secrets,       \* v3 keys of devices, smtp_password or routing_key of channels
          Patched,       \* names and hosts a PATCH sets: DevicePatch and its like have no min_length
          Blank, Mask,   \* "" and "********"
          Log, DefaultRule, OfPing,  \* names the program gives: the seeded channel and rule, a ping check
          MaxRows,       \* bound: rows of a table
          MaxRequests    \* bound: requests

ASSUME NamesAssumption ==
    /\ Cardinality({Blank, Mask}) = 2 /\ {Blank, Mask} \cap (Names \cup RuleNames \cup CheckNames \cup Hosts \cup Secrets) = {}
    /\ Patched \subseteq Names \cup RuleNames \cup Hosts \cup {Blank}
    /\ Cardinality({Log, DefaultRule, OfPing}) = 3
    /\ 0 \notin Names \cup {Blank}      \* no name is NULL

VARIABLES db,            \* the tables
          seeded,        \* meta seeded
          backup,        \* a document export_config returned
          form,          \* what an open page shows
          sent,          \* history: the secrets the last request carried
          requests       \* how many requests there were

vars == <<db, seeded, backup, form, sent, requests>>

NoTable == [id \in {} |-> {}]
EmptyDb == [devices |-> NoTable, checks |-> NoTable, channels |-> NoTable, rules |-> NoTable]
Tables == DOMAIN EmptyDb
NoForm == [table |-> "none"]
NULL == 0                \* a reference to no device

-----------------------------------------------------------------------------
(* Tables.                                                                 *)

\* INTEGER PRIMARY KEY without AUTOINCREMENT: one more than the largest in use.
FreshId(table) == Max(DOMAIN table \cup {0}) + 1

\* The rows inserted one after the other: their ids follow each other.
Added(table, rows) ==
    LET before == FreshId(table) - 1
    IN  [id \in DOMAIN table \cup before + 1..before + Len(rows) |->
            IF id \in DOMAIN table THEN table[id] ELSE rows[id - before]]

InsertAll(d, t, rows) == [d EXCEPT ![t] = Added(@, rows)]

Insert(d, t, row) == InsertAll(d, t, <<row>>)

Without(table, ids) == [id \in DOMAIN table \ ids |-> table[id]]

\* The i-th smallest of some ids, or positions.
Nth(ids, i) == CHOOSE id \in ids : Cardinality({k \in ids : k <= id}) = i

Listed(table, ids) == [i \in 1..Cardinality(ids) |-> table[Nth(ids, i)]]

\* ORDER BY id
InOrder(table) == Listed(table, DOMAIN table)

Rows(table) == {table[id] : id \in DOMAIN table}
Taken(table) == {row.name : row \in Rows(table)}

Metrics == {"custom"}

\* What create_device, create_check, create_channel and create_rule insist on.
DeviceAccepted(row) == row.name # Blank /\ row.host # Blank
CheckAccepted(row) == row.target # Blank /\ (row.type = "tcp" => row.port)
ChannelAccepted(row) == row.name # Blank
RuleAccepted(row) == row.name # Blank

-----------------------------------------------------------------------------
(* export_config and import_config.                                        *)

NameOf(d, id) == IF id = NULL THEN NULL ELSE d.devices[id].name

ByName(d, row) == [row EXCEPT !.device = NameOf(d, @)]

\* metrics.enabled is not among the fields of a custom metric that are exported, and
\* add_custom_metric inserts it enabled.
Enabled(rows) == [i \in DOMAIN rows |-> [rows[i] EXCEPT !.off = {}]]

Export(d) ==
    LET named(rows) == [i \in DOMAIN rows |-> ByName(d, rows[i])]
    IN  [devices |-> Enabled(InOrder(d.devices)), checks |-> named(InOrder(d.checks)),
         channels |-> InOrder(d.channels), rules |-> named(InOrder(d.rules))]

\* names.get(row["device"])
Resolved(d, row) ==
    [row EXCEPT !.device = IF @ \in Taken(d.devices)
                           THEN CHOOSE id \in DOMAIN d.devices : d.devices[id].name = row.device
                           ELSE NULL]

Key(check) == <<check.name, check.target>>

\* The rows of the document that the database does not have yet, by name.
NewByName(table, rows) == Listed(rows, {i \in DOMAIN rows : rows[i].name \notin Taken(table)})

NewChecks(table, rows) ==
    Listed(rows, {i \in DOMAIN rows : Key(rows[i]) \notin {Key(c) : c \in Rows(table)}})

\* A row that create_* refuses: the whole import is rolled back.
Rejected(d, doc) ==
    \/ \E row \in Range(NewByName(d.devices, doc.devices)) : ~DeviceAccepted(row)
    \/ \E row \in Range(NewChecks(d.checks, doc.checks)) : ~CheckAccepted(row)
    \/ \E row \in Range(NewByName(d.channels, doc.channels)) : ~ChannelAccepted(row)
    \/ \E row \in Range(NewByName(d.rules, doc.rules)) : ~RuleAccepted(row)

\* Mutant of Import: rules that are there already are inserted again.
ImportRulesAgain(d, doc) ==
    LET withDevices == InsertAll(d, "devices", NewByName(d.devices, doc.devices))
        resolved(rows) == [i \in DOMAIN rows |-> Resolved(withDevices, rows[i])]
        withChecks == InsertAll(withDevices, "checks", resolved(NewChecks(d.checks, doc.checks)))
        withChannels == InsertAll(withChecks, "channels", NewByName(d.channels, doc.channels))
    IN  IF Rejected(d, doc) THEN d
        ELSE InsertAll(withChannels, "rules", resolved(doc.rules))

\* Mutant of Import: devices are looked up as they were before the import.
ImportResolvesEarly(d, doc) ==
    LET withDevices == InsertAll(d, "devices", NewByName(d.devices, doc.devices))
        resolved(rows) == [i \in DOMAIN rows |-> Resolved(d, rows[i])]
        withChecks == InsertAll(withDevices, "checks", resolved(NewChecks(d.checks, doc.checks)))
        withChannels == InsertAll(withChecks, "channels", NewByName(d.channels, doc.channels))
    IN  IF Rejected(d, doc) THEN d
        ELSE InsertAll(withChannels, "rules", resolved(NewByName(d.rules, doc.rules)))

Import(d, doc) ==
    LET withDevices == InsertAll(d, "devices", NewByName(d.devices, doc.devices))
        resolved(rows) == [i \in DOMAIN rows |-> Resolved(withDevices, rows[i])]
        withChecks == InsertAll(withDevices, "checks", resolved(NewChecks(d.checks, doc.checks)))
        withChannels == InsertAll(withChecks, "channels", NewByName(d.channels, doc.channels))
    IN  IF Rejected(d, doc) THEN d
        ELSE InsertAll(withChannels, "rules", resolved(NewByName(d.rules, doc.rules)))

-----------------------------------------------------------------------------
(* Requests.                                                               *)

Request(carried) ==
    /\ requests < MaxRequests
    /\ requests' = requests + 1
    /\ sent' = carried

Room(t) == Cardinality(DOMAIN db[t]) < MaxRows

\* db after a request that touches nothing else.
Becomes(d, carried) == Request(carried) /\ db' = d /\ UNCHANGED <<seeded, backup, form>>

Init ==
    /\ db = EmptyDb /\ seeded = FALSE
    /\ backup = Export(EmptyDb)
    /\ form = NoForm
    /\ sent = {} /\ requests = 0

\* seed_defaults, when the program starts.
Start ==
    LET withRules == IF db.rules = NoTable
                     THEN Insert(db, "rules", [name |-> DefaultRule, device |-> NULL, channels |-> {}])
                     ELSE db
    IN  /\ ~seeded /\ seeded' = TRUE
        /\ db' = IF db.channels = NoTable
                 THEN Insert(withRules, "channels", [name |-> Log, key |-> Blank])
                 ELSE withRules
        /\ sent' = {}
        /\ UNCHANGED <<backup, form, requests>>

\* create_device, with its ping check or without; a key comes with a PATCH.
CreateDevice(name, host, ping) ==
    LET row == [name |-> name, host |-> host, key |-> Blank, custom |-> {}, off |-> {}]
        check == [device |-> FreshId(db.devices), name |-> <<OfPing, name>>, target |-> host,
                  type |-> "icmp", port |-> FALSE]
        d == Insert(db, "devices", row)
    IN  /\ Room("devices") /\ (ping => Room("checks"))
        /\ DeviceAccepted(row) /\ name \notin Taken(db.devices)
        /\ Becomes(IF ping THEN Insert(d, "checks", check) ELSE d, {})

\* update_device: a new name.
RenameDevice(id, name) ==
    /\ name \notin Taken(db.devices)
    /\ Becomes([db EXCEPT !.devices[id].name = name], {})

\* update_device: a new hostname, which the checks of the device that point at the old one follow.
MoveDevice(id, host) ==
    LET old == db.devices[id].host
        follows(check) == check.device = id /\ check.target = old
    IN  /\ host # old
        /\ Becomes([db EXCEPT !.devices[id].host = host,
                              !.checks = [c \in DOMAIN @ |->
                                             IF follows(@[c]) THEN [@[c] EXCEPT !.target = host] ELSE @[c]]],
                   {})

\* Secrets are write-only: empty means unchanged.
Kept(key, old) == IF key = Blank THEN old ELSE key

RekeyDevice(id, key) ==
    Becomes([db EXCEPT !.devices[id].key = Kept(key, @)], {key} \ {Blank})

\* delete_device: checks and rules follow by ON DELETE CASCADE.
DeleteDevice(id) ==
    Becomes([db EXCEPT !.devices = Without(@, {id}),
                       !.checks = Without(@, {c \in DOMAIN @ : @[c].device = id}),
                       !.rules = Without(@, {r \in DOMAIN @ : @[r].device = id})], {})

\* add_custom_metric refuses a key the device has; delete_metric.
AddCustomMetric(id, metric) ==
    /\ metric \notin db.devices[id].custom
    /\ Becomes([db EXCEPT !.devices[id].custom = @ \cup {metric}], {})

DeleteMetric(id, metric) ==
    /\ metric \in db.devices[id].custom
    /\ Becomes([db EXCEPT !.devices[id].custom = @ \ {metric}, !.devices[id].off = @ \ {metric}], {})

\* toggle_metric: ?enabled=true or false.
ToggleMetric(id, metric, enabled) ==
    /\ metric \in db.devices[id].custom
    /\ Becomes([db EXCEPT !.devices[id].off = IF enabled THEN @ \ {metric} ELSE @ \cup {metric}], {})

CreateCheck(row) ==
    /\ Room("checks") /\ CheckAccepted(row)
    /\ Becomes(Insert(db, "checks", row), {})

\* update_check: validate_check looks at what the PATCH holds, not at the row.
RetargetCheck(id, target) ==
    Becomes([db EXCEPT !.checks[id].target = target], {})

UnsetPort(id) ==
    /\ Blank \in Patched
    /\ Becomes([db EXCEPT !.checks[id].port = FALSE], {})

DeleteCheck(id) == Becomes([db EXCEPT !.checks = Without(@, {id})], {})

CreateRule(row) ==
    /\ Room("rules") /\ RuleAccepted(row)
    /\ Becomes(Insert(db, "rules", row), {})

RenameRule(id, name) == Becomes([db EXCEPT !.rules[id].name = name], {})

DirectRule(id, channels) == Becomes([db EXCEPT !.rules[id].channels = channels], {})

DeleteRule(id) == Becomes([db EXCEPT !.rules = Without(@, {id})], {})

CreateChannel(name, key) ==
    /\ Room("channels") /\ name \notin Taken(db.channels)
    /\ Becomes(Insert(db, "channels", [name |-> name, key |-> key]), {key})

\* update_channel: the UNIQUE index refuses a name that is taken.
RenameChannel(id, name) ==
    /\ name \notin Taken(db.channels)
    /\ Becomes([db EXCEPT !.channels[id].name = name], {})

\* Mutant of Unmasked: the mask of the form is stored.
MaskStored(key, old) == key

Unmasked(key, old) == IF key = Mask THEN old ELSE key

RekeyChannel(id, key) ==
    Becomes([db EXCEPT !.channels[id].key = Unmasked(key, @)], {key})

\* Rules go on naming the id.
DeleteChannel(id) == Becomes([db EXCEPT !.channels = Without(@, {id})], {})

\* public_device, public_channel: what a page is given, the secret left out.
OpenForm(t, id) ==
    LET shown == IF t = "devices" THEN Blank
                 ELSE IF db[t][id].key = Blank THEN Blank ELSE Mask
    IN  /\ form = NoForm
        /\ Request({})
        /\ form' = [table |-> t, id |-> id, key |-> shown]
        /\ UNCHANGED <<db, seeded, backup>>

\* A PATCH with the fields as they were given.  A row that is gone is 404.  A page without the
\* secret sends none: a device keeps the one it has, but the config of a channel is replaced by
\* one that has no secret.
SubmitForm ==
    LET rows == db[form.table]
        stored(old) == IF form.table = "devices" THEN Kept(form.key, old) ELSE Unmasked(form.key, old)
    IN  /\ form # NoForm
        /\ Request({form.key} \ {Mask, Blank})
        /\ db' = IF form.id \in DOMAIN rows
                 THEN [db EXCEPT ![form.table][form.id].key = stored(@)] ELSE db
        /\ form' = NoForm
        /\ UNCHANGED <<seeded, backup>>

\* Bound: one backup is taken.
TakeBackup ==
    /\ backup = Export(EmptyDb) /\ db # EmptyDb
    /\ backup' = Export(db)
    /\ sent' = {} /\ UNCHANGED <<db, seeded, form, requests>>

ImportBackup ==
    /\ \A t \in Tables : Cardinality(DOMAIN Import(db, backup)[t]) <= MaxRows + 1
    /\ Becomes(Import(db, backup), {})

DeviceRequest ==
    \/ \E name \in Names, host \in Hosts, ping \in BOOLEAN : CreateDevice(name, host, ping)
    \/ \E id \in DOMAIN db.devices :
          \/ \E name \in Patched \cap (Names \cup {Blank}) : RenameDevice(id, name)
          \/ \E host \in Patched \cap (Hosts \cup {Blank}) : MoveDevice(id, host)
          \/ \E key \in Secrets \cup {Blank} : RekeyDevice(id, key)
          \/ DeleteDevice(id)
          \/ \E metric \in Metrics :
                \/ AddCustomMetric(id, metric) \/ DeleteMetric(id, metric)
                \/ \E enabled \in BOOLEAN : ToggleMetric(id, metric, enabled)

CheckRequest ==
    \/ \E device \in DOMAIN db.devices \cup {NULL}, name \in CheckNames, host \in Hosts, tcp \in BOOLEAN :
          CreateCheck([device |-> device, name |-> name, target |-> host,
                       type |-> IF tcp THEN "tcp" ELSE "icmp", port |-> tcp])
    \/ \E id \in DOMAIN db.checks :
          \/ \E host \in Patched \cap (Hosts \cup {Blank}) : RetargetCheck(id, host)
          \/ UnsetPort(id) \/ DeleteCheck(id)

AlertingRequest ==
    \/ \E device \in DOMAIN db.devices \cup {NULL}, name \in RuleNames, channels \in SUBSET DOMAIN db.channels :
          CreateRule([name |-> name, device |-> device, channels |-> channels])
    \/ \E id \in DOMAIN db.rules :
          \/ \E name \in Patched \cap (RuleNames \cup {Blank}) : RenameRule(id, name)
          \/ \E channels \in SUBSET DOMAIN db.channels : DirectRule(id, channels)
          \/ DeleteRule(id)
    \/ \E name \in Names, key \in Secrets \cup {Blank} : CreateChannel(name, key)
    \/ \E id \in DOMAIN db.channels :
          \/ \E name \in Patched \cap (Names \cup {Blank}) : RenameChannel(id, name)
          \/ \E key \in Secrets \cup {Blank} : RekeyChannel(id, key)
          \/ DeleteChannel(id)

FormRequest ==
    \/ \E t \in {"devices", "channels"} : \E id \in DOMAIN db[t] : OpenForm(t, id)
    \/ SubmitForm

Next == Start \/ DeviceRequest \/ CheckRequest \/ AlertingRequest \/ FormRequest \/ TakeBackup \/ ImportBackup

Spec == Init /\ [][Next]_vars

-----------------------------------------------------------------------------
(* Properties.                                                             *)

\* What a configuration says, by names: the devices of checks and rules, the channels of rules.
Named(d) ==
    LET doc == Export(d)
        told(rule) == {d.channels[id].name : id \in rule.channels \cap DOMAIN d.channels}
    IN  [doc EXCEPT !.devices = InOrder(d.devices),
                    !.rules = [i \in DOMAIN @ |-> [@[i] EXCEPT !.channels = told(doc.rules[i])]]]

\* Something in the tables that create_* would not take, which PATCH let in.
Blanked(d) ==
    \/ \E row \in Rows(d.devices) : ~DeviceAccepted(row)
    \/ \E row \in Rows(d.checks) : ~CheckAccepted(row)
    \/ \E row \in Rows(d.channels) \cup Rows(d.rules) : row.name = Blank

NoGaps(table) == DOMAIN table = 1..Cardinality(DOMAIN table)

\* An export restored into an empty database (services.py:304-361) is the configuration it was
\* taken of: every device, check, channel and rule with its fields, and with the device it
\* belonged to although ids differ - but a custom metric that was disabled is enabled again.
\* The rules notify the same channels provided that no channel was ever deleted below another
\* one, because their ids are exported as they are; and a field that PATCH emptied and POST would
\* refuse makes the whole restore fail.
RestoreRebuilds ==
    LET restored == Import(EmptyDb, Export(db))
        expected == [Named(db) EXCEPT !.devices = Enabled(@)]
        silent(doc) == [doc EXCEPT !.rules = [i \in DOMAIN @ |-> [@[i] EXCEPT !.channels = {}]]]
    IN  /\ ~Blanked(db) => silent(Named(restored)) = silent(expected)
        /\ ~Blanked(db) /\ NoGaps(db.channels) => Named(restored) = expected
        /\ Blanked(db) => restored = EmptyDb

\* Importing (services.py:332-361) is idempotent whatever was created, renamed or deleted since
\* the export: a second import of a document changes nothing, nor does that of a fresh export,
\* and an import keeps every row there is.
ImportIsIdempotent ==
    LET once == Import(db, backup)
    IN  /\ Import(once, backup) = once
        /\ Import(db, Export(db)) = db
        /\ \A t \in Tables : \A id \in DOMAIN db[t] : once[t][id] = db[t][id]

\* The page of a channel that is saved now showed it without a secret when it was opened.
SavesWithoutSecret(t, id) ==
    /\ form # NoForm /\ form' = NoForm
    /\ t = "channels" /\ form.table = t /\ form.id = id /\ form.key = Blank

\* The secret of a device or a channel changes only in a request that carries the new one
\* (services.py:77-80, 256-262): a page that was opened at any time and shows the mask, or is the
\* page of a device, can be saved after others changed the secret, or after the id went to another
\* row, and keeps it.  But the page of a channel that had no secret when it was opened wipes the
\* one that was set since.
SecretsChangeOnlyWhenSent ==
    [][\A t \in {"devices", "channels"} : \A id \in DOMAIN db[t] \cap DOMAIN db'[t] :
          \/ db'[t][id].key = db[t][id].key \/ db'[t][id].key \in sent'
          \/ SavesWithoutSecret(t, id) /\ db'[t][id].key = Blank]_vars
=============================================================================

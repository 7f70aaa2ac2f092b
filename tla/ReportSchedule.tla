--------------------------- MODULE ReportSchedule ---------------------------
(***************************************************************************)
(* The schedule of a report (scheduled.py): whether it is due, and the     *)
(* requests that edit it.                                                  *)
(***************************************************************************)
EXTENDS Calendar

CONSTANTS Schedules      \* bodies of requests to create and to edit a schedule
ASSUME SchedulesAssumption == Schedules \subseteq Bodies

VARIABLES schedule       \* the row of table report_schedules

Never == 0               \* last_run is NULL

NoSchedule == [exists |-> FALSE]
Schedule == [exists: {TRUE}, body: Schedules, created: Nat, lastRun: Nat]

\* Mutant of IsDue: a report sent at the hour of its occurrence is due again.
IsDueAgain(row, now) ==
    LET occurrence == PreviousOccurrence(row.body, now)
    IN  row.body.enabled /\ occurrence >= row.created /\ row.lastRun <= occurrence

IsDue(row, now) ==
    LET occurrence == PreviousOccurrence(row.body, now)
    IN  row.body.enabled /\ occurrence >= row.created /\ row.lastRun < occurrence

-----------------------------------------------------------------------------
(* Requests.                                                               *)

CreateSchedule(body, now) ==
    /\ ~schedule.exists
    /\ schedule' = [exists |-> TRUE, body |-> body, created |-> now, lastRun |-> Never]

PatchSchedule(body) ==
    /\ schedule.exists /\ body # schedule.body
    /\ schedule' = [schedule EXCEPT !.body = body]

DeleteSchedule == schedule.exists /\ schedule' = NoSchedule

\* UPDATE ... WHERE id = ?: nothing when the row is gone.
RecordRun(t) == schedule' = IF schedule.exists THEN [schedule EXCEPT !.lastRun = t] ELSE schedule
=============================================================================

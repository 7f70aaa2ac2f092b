--------------------------- MODULE MCHousekeeping ---------------------------
(* Instances of Housekeeping for TLC. *)
EXTENDS Housekeeping, TLC

\* A calendar of short months, in which weeks and months drift apart.
MCMonthLengths == <<1, 2, 2, 2>>
MCRollupKeep == (2 :> 6)
Daily(hour, on) == [enabled |-> on, frequency |-> "daily", hour |-> hour, weekday |-> 0, monthday |-> 1]
MCSchedules == {Daily(0, TRUE), Daily(1, TRUE)}
=============================================================================

--------------------------- MODULE CheckLifecycle ---------------------------
(***************************************************************************)
(* What the availability checks promise, with no jobs, snapshots or        *)
(* heartbeat table: probe results of a check are applied one after the     *)
(* other to the check's own state.  A check remembers the length of its    *)
(* current run of failures and when that run began; it goes down when the  *)
(* run is longer than the allowed retries, and one success ends the run    *)
(* and the outage.  CheckRunner is the program that has to implement this. *)
(***************************************************************************)
EXTENDS Naturals, Sequences

CONSTANTS CheckIds,      \* ids a check row can have
          RetryValues    \* values of the "retries" column

VARIABLES status,        \* [CheckIds -> {"unknown", "up", "down"}]
          streak,        \* consecutive failures so far
          streakStart,   \* time of the first failure of the streak, 0 if none
          log,           \* outages in the order they were opened
          now            \* time of the latest result

lifecycleVars == <<status, streak, streakStart, log, now>>

Ongoing == 0             \* the end of an outage that has not ended

LifecycleInit ==
    /\ status = [c \in CheckIds |-> "unknown"]
    /\ streak = [c \in CheckIds |-> 0]
    /\ streakStart = [c \in CheckIds |-> 0]
    /\ log = [c \in CheckIds |-> <<>>]
    /\ now = 0

\* A success: the run of failures is over, and so is the outage.
Success(c) ==
    /\ now' = now + 1
    /\ status' = [status EXCEPT ![c] = "up"]
    /\ streak' = [streak EXCEPT ![c] = 0]
    /\ streakStart' = [streakStart EXCEPT ![c] = 0]
    /\ log' = IF status[c] = "down"
                THEN [log EXCEPT ![c][Len(log[c])].to = now']
                ELSE log

\* A failure that lengthens the run.
Failing(c) ==
    /\ now' = now + 1
    /\ streak' = [streak EXCEPT ![c] = @ + 1]
    /\ streakStart' = [streakStart EXCEPT ![c] = IF streak[c] = 0 THEN now' ELSE @]

\* The run is longer than the retries allow: an outage, from its first failure.
FailureOpensOutage(c, retries) ==
    /\ Failing(c)
    /\ status[c] # "down"
    /\ streak[c] + 1 > retries
    /\ status' = [status EXCEPT ![c] = "down"]
    /\ log' = [log EXCEPT ![c] = Append(@, [from |-> streakStart'[c], to |-> Ongoing])]

\* The run is within the retries, or the check is down already.
FailureTolerated(c, retries) ==
    /\ Failing(c)
    /\ status[c] = "down" \/ streak[c] + 1 <= retries
    /\ UNCHANGED <<status, log>>

LifecycleNext ==
    \E c \in CheckIds :
        \/ Success(c)
        \/ \E retries \in RetryValues :
              FailureOpensOutage(c, retries) \/ FailureTolerated(c, retries)

LifecycleSpec == LifecycleInit /\ [][LifecycleNext]_lifecycleVars
=============================================================================

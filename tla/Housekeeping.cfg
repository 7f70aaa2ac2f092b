\* One period of two hours, days of two hours, a schedule edited between two hours.
SPECIFICATION FairSpec
CONSTANTS
    Periods = {2}
    RawKeep = 4
    RollupKeep <- MCRollupKeep
    HoursPerDay = 2
    DaysPerWeek = 3
    MonthLengths <- MCMonthLengths
    LastMonthDay = 1
    Schedules <- MCSchedules
    Horizon = 7
    MaxEvents = 3
    MaxFaults = 1
    PassTime = 1
    RetentionInterval = 2
INVARIANTS
    RollupsComplete
    ChartsNeverStale
PROPERTIES
    OncePerOccurrence
    DueIsSettled
CHECK_DEADLOCK FALSE

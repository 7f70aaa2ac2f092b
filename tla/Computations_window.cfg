\* Days of two hours; buckets of two and four; counters of three and four bits; years of eleven or
\* twelve days, the third of them the leap day.
SPECIFICATION Spec
CONSTANTS
    HoursPerDay = 2
    DaysPerWeek = 3
    MonthLengths <- MCMonthLengths
    LastMonthDay = 3
    LastHour = 42
    LastSecond = 4
    MaxEntries = 3
    MaxMessages = 3
    Texts <- MCTexts
    Queries <- MCQueries
    DefaultSpan = 2
    Fine = 2
    Hour = 4
    EnoughRows = 2
    RawSpan = 3
    NiceSteps <- MCNiceSteps
    DaySteps = 8
    FirstTime = 4
    LastTime = 13
    Max32 = 8
    Max64 = 16
    MinRateWindow = 2
    MaxReadings = 4
    Advances = {0, 1, 3}
    MaxAttempts = 2
    GetBatch = 2
    Objects <- MCObjects
    Dates = 12
    LeapDate = 3
    Years = {1, 2, 3}
    LeapYears = {2}
    SkewLimit = 1
INVARIANT StatsStayInWindow
CHECK_DEADLOCK FALSE

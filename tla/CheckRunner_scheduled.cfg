\* The check loop alone, with edits and restarts.
SPECIFICATION Spec
CONSTANTS
    CheckIds = {1, 2}
    JobIds = {j1, j2}
    RetryValues = {0, 1}
    Concurrency = 1
    MaxClock = 4
    ManualRuns = FALSE
    Deletes = FALSE
INVARIANTS
    OutageMatchesState
    OutagesDisjoint
    OutageIsMaximalFailureRun
    FailCountIsStreak
PROPERTIES
    DownOnlyAfterRetries
    ImplementsLifecycle

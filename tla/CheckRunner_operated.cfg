\* Checks run by hand while the loop runs them, and deleted under their jobs.
SPECIFICATION Spec
CONSTANTS
    CheckIds = {1}
    JobIds = {j1, j2, j3}
    RetryValues = {0, 1}
    Concurrency = 2
    MaxClock = 4
    ManualRuns = TRUE
    Deletes = TRUE
SYMMETRY JobSymmetry
INVARIANTS
    DownHasOpenOutage
PROPERTIES
    OutageHistoryKept

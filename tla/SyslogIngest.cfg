\* Four messages, a queue and batches of two, failing inserts, and stop().
\* A behaviour ends when every message has arrived.
SPECIFICATION FairSpec
CONSTANTS
    Messages = {m1, m2, m3, m4}
    Datagrams = {m1, m2}
    Unparsable = {m1}
    QueueSize = 2
    BatchSize = 2
    InsertFails = TRUE
    Stops = TRUE
INVARIANTS
    StoredOnceInOrder
    LossesAreCounted
    StopLosesOneBatchAtMost
PROPERTIES
    QueuedIsSettled
    StopReturnsUnlessSwallowed
CHECK_DEADLOCK FALSE

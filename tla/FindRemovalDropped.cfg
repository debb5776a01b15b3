\* A removal is taken for a duplicate.
SPECIFICATION Spec
CONSTANTS
    Logs = {l1}
    Handlers = {h1}
    Monitors = {m}
    Backfills = {}
    WithRedis = {m}
    StartBlock = 1
    ConfirmationDepth = 1
    BatchSize = 2
    MaxBatchesPerPoll = 1
    MaxRetries = 2
    MaxHead = 3
    MaxReorgDepth = 1
    MaxReorgs = 1
    MaxFaults = 0
    MaxExpiries = 0
INVARIANTS RemovalApplied

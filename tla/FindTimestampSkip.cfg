\* One failed timestamp request.
SPECIFICATION Spec
CONSTANTS
    Logs = {l1}
    Handlers = {}
    Monitors = {m}
    Backfills = {}
    WithRedis = {m}
    StartBlock = 1
    ConfirmationDepth = 1
    BatchSize = 2
    MaxBatchesPerPoll = 1
    MaxRetries = 2
    MaxHead = 3
    MaxReorgDepth = 1
    MaxReorgs = 0
    MaxFaults = 1
    MaxExpiries = 0
INVARIANTS CheckpointedIsSaved

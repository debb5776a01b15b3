\* Two pollers index the escrow stream at once, as when a deployment overlaps.
SPECIFICATION Spec
CONSTANTS
    Logs = {l1, l2}
    Handlers = {}
    Monitors = {m}
    Backfills = {b}
    WithRedis = {m}
    StartBlock = 0
    ConfirmationDepth = 1
    BatchSize = 2
    MaxBatchesPerPoll = 1
    MaxRetries = 2
    MaxHead = 4
    MaxReorgDepth = 1
    MaxReorgs = 1
    MaxFaults = 1
    MaxExpiries = 0
SYMMETRY Symmetry
INVARIANTS PollersInv
PROPERTIES CheckpointIsFinal

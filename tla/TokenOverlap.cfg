\* A monitor and a backfill overlap.
SPECIFICATION Spec
CONSTANTS
    Txs <- TwoTxs
    Emits <- BothThenTransfer
    t1 = t1
    t2 = t2
    t3 = t3
    Monitors = {m}
    Backfills = {b}
    WorkerCount = 2
    StartBlock = 1
    ConfirmationDepth = 1
    BatchSize = 2
    MaxBatchesPerPoll = 2
    MaxRetries = 2
    MaxHead = 3
    MaxFaults = 2
INVARIANTS TablesCoverCheckpoint EventsHaveTransactions CollectorIsAnswered

\* Three transactions, two workers that may fail, a fair monitor.
SPECIFICATION FairSpec
CONSTANTS
    Txs <- ThreeTxs
    Emits <- BothThenTransfer
    t1 = t1
    t2 = t2
    t3 = t3
    Monitors = {m}
    Backfills = {}
    WorkerCount = 2
    StartBlock = 1
    ConfirmationDepth = 1
    BatchSize = 2
    MaxBatchesPerPoll = 1
    MaxRetries = 2
    MaxHead = 4
    MaxFaults = 2
INVARIANTS TypeOK TablesMatchCheckpoint
PROPERTIES ImplementsStream ConfirmedIsIndexed

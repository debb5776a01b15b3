\* A fair live monitor beside two handlers that take redelivered notifications of one
\* log, whose key may expire; faults and reorganisations within the depth end.
SPECIFICATION FairSpec
CONSTANTS
    Logs = {l1}
    Handlers = {h1, h2}
    Monitors = {m}
    Backfills = {}
    WithRedis = {m}
    StartBlock = 1
    ConfirmationDepth = 1
    BatchSize = 1
    MaxBatchesPerPoll = 2
    MaxRetries = 2
    MaxHead = 3
    MaxReorgDepth = 1
    MaxReorgs = 1
    MaxFaults = 2
    MaxExpiries = 1
INVARIANTS TypeOK CheckpointCovers PollerAnnouncesFinal HookAnnouncesOnce RowsComeFromChain
PROPERTIES CheckpointMonotonic ImplementsStream FinalLogIsCheckpointed

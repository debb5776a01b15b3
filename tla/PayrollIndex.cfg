\* A fair monitor over every history of three events, with two faults.
SPECIFICATION FairSpec
CONSTANTS
    Employers = {e1}
    Employees = {w1}
    ZeroAddress = zero
    Kinds <- AllKinds
    Monitors = {m}
    Backfills = {}
    StartBlock = 1
    MaxBlock = 3
    BatchSize = 2
    MaxBatchesPerPoll = 2
    MaxRetries = 2
    MaxFaults = 2
INVARIANTS TypeOK StoredUpToCheckpoint ProjectionConverges
PROPERTIES ImplementsStream EveryBlockIsCheckpointed

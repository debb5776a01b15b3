\* The payroll and token streams, two migrations, a crash and a failed call.
SPECIFICATION FairSpec
CONSTANTS
    Services <- LongRunning
    FileCount = 2
    CheckpointFile = 2
    MaxStops = 1
    Configured <- BothStreams
    PayrollAddress = payroll
    TokenAddress = token
    NoAddress = none
    BatchSize = 1
    MaxBatchesPerPoll = 2
    StartBlock = 1
    ConfirmationDepth = 1
    MaxHead = 3
    MaxClears = 1
    MaxFaults = 1
INVARIANTS TypeOK MigratedOnce MonitorNeedsSchema CheckpointsCover LagIsSound
PROPERTIES HealthyStreamsCatchUp

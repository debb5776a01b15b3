\* The operator's tool beside a running deployment.
SPECIFICATION Spec
CONSTANTS
    Services <- LongRunning
    FileCount = 2
    CheckpointFile = 2
    MaxStops = 0
    Configured <- BothStreams
    PayrollAddress = payroll
    TokenAddress = token
    NoAddress = none
    BatchSize = 1
    MaxBatchesPerPoll = 2
    StartBlock = 1
    ConfirmationDepth = 1
    MaxHead = 2
    MaxClears = 1
    MaxFaults = 0
PROPERTIES ClearingStartsAfresh

\* A backfill that overlaps the live monitor and dies.
SPECIFICATION Spec
CONSTANTS
    Employers = {e1}
    Employees = {w1}
    ZeroAddress = zero
    Kinds <- Membership
    Monitors = {m}
    Backfills = {b}
    StartBlock = 1
    MaxBlock = 2
    BatchSize = 2
    MaxBatchesPerPoll = 2
    MaxRetries = 2
    MaxFaults = 1
INVARIANTS ReplayIsSafe

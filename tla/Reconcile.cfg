\* A fair recent-window loop and a sweep audit a table that is being filled.
SPECIFICATION FairSpec
CONSTANTS
    Logs = {l1}
    Fields <- Columns
    Reconcilers = {window, sweep}
    Sweepers = {sweep}
    Window = 1
    BatchSize = 1
    StartBlock = 1
    ConfirmationDepth = 2
    MaxHead = 4
    MaxDrift = 2
    MaxFaults = 1
INVARIANTS TypeOK NoFalseAlarm OpenAtMostOncePerReconciler
PROPERTIES ExceptionsSettle

\* A fair recent-window loop and a sweep audit balances and states while two indexers work.
SPECIFICATION FairSpec
CONSTANTS
    zero = zero
    payroll = payroll
    Wallets = {zero, payroll}
    Zero = zero
    Contract = payroll
    Transfers = {fund}
    Sender <- FromZero
    Receiver <- ToPayroll
    Fundings = {}
    Employers = {}
    Employees = {alice}
    Loops = {window}
    Sweepers = {sweep}
    Auditors = {}
    Window = 1
    BatchSize = 1
    StartBlock = 1
    ConfirmationDepth = 0
    MaxHead = 3
    MaxEvents = 1
    MaxFaults = 1
INVARIANTS TypeOK BalanceAlarmsAreReal SweptIsIndexed OpenAtMostOncePerReconciler
PROPERTIES ExceptionsSettle

\* A bill, a repair ticket and two threads that flush at the same time, with
\* retries and a crash.
SPECIFICATION FairSpec
CONSTANTS
    NumSales = 1
    Repairs = {r1}
    Flushers = {f1}
    Scheduler = sched
    PortalEnabled = TRUE
    PageSize = 1
    BatchSize = 2
    MaxRetries = 2
    Changing = {r1}
    MaxVersion = 1
    MaxFailures = 1
INVARIANTS
    TypeOK
    SyncedWasAccepted
    NeverStuck
PROPERTIES
    BillsSettle

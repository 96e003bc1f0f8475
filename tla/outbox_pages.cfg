\* Two bills, one to a page; the first may change.  Only the minute job
\* flushes.
SPECIFICATION FairSpec
CONSTANTS
    NumSales = 2
    Repairs = {}
    Flushers = {}
    Scheduler = sched
    PortalEnabled = TRUE
    PageSize = 1
    BatchSize = 2
    MaxRetries = 1
    Changing = {1}
    MaxVersion = 2
    MaxFailures = 1
PROPERTIES
    BillsSettle

SPECIFICATION FairSpec
INVARIANTS
    TypeOK
    MainExclusive
    TableQuiet
    TeardownQuiet
PROPERTIES
    MainServes
    RxServes
    ShutdownCompletes
CONSTANTS
    Irqs = {irq1}
    MainWork = main_work_item
    Closer = closer
    HighRx = 1
    LowRx = 1
    MaxPkts = 2
    MaxJobs = 1
    MaxEvents = 1
    Paths = {"remove", "switch_mode"}
CHECK_DEADLOCK FALSE

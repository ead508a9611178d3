SPECIFICATION FairSpec
CONSTANTS
    Procs = {p1, p2}
    Faults = {"die", "api", "webhook"}
    MaxFaults = 2
INVARIANTS
    TypeOK
    DeliveredOnce
    StatusIsTrue
    WorkIsDone
PROPERTIES
    PaidIsNoticed
CHECK_DEADLOCK FALSE

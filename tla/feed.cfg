SPECIFICATION FairSpec
CONSTANTS
    Unset = Unset
    Now = Now
    BufSize = 2
    NowGap = FALSE
    RowsWhole = TRUE
    ErrorsFirst = TRUE
    Faults = {"feed", "scan", "crash", "stop", "stopscan"}
    MaxChanges = 4
    MaxFaults = 3
INVARIANTS TypeOK NothingSkipped NoOrphan
PROPERTIES ImplementsDelivery
CHECK_DEADLOCK FALSE

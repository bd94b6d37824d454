SPECIFICATION FairSpec
CONSTANTS
    c1 = c1
    c2 = c2
    Content = {c1, c2}
    Empty = Empty
    Absent = Absent
    DelMark = DelMark
    NoHash = NoHash
    NumPeers = 3
    Group <- OneGroup3
    HomeGroup <- HomeAll
    Writable = {c1, c2}
    UserOps = {"write", "delete", "touch"}
    Editing = "serial"
    Author = 1
    Faults = {"crash"}
    MaxEdits = 2
    MaxFaults = 1
    WindowsApart = FALSE
    MaxOverlap = 1
INVARIANTS SyncAtRest CrashSafe
PROPERTIES ImplementsSyncGroup EventuallyQuiet
CHECK_DEADLOCK FALSE

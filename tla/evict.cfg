SPECIFICATION FairSpec
CONSTANTS
    c1 = c1
    c2 = c2
    Content = {c1, c2}
    Empty = Empty
    Absent = Absent
    DelMark = DelMark
    NoHash = NoHash
    NumPeers = 2
    Group <- OneGroup2
    HomeGroup <- HomeAll
    Writable = {c1, c2}
    UserOps = {"write", "delete", "touch"}
    Editing = "serial"
    Author = 1
    Faults = {"crash", "evict"}
    MaxEdits = 3
    MaxFaults = 2
    WindowsApart = FALSE
    MaxOverlap = 2
INVARIANTS SyncAtRest CrashSafe
PROPERTIES EventuallyQuiet
CHECK_DEADLOCK FALSE

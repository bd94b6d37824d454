SPECIFICATION Spec
CONSTANTS
    c1 = c1
    c2 = c2
    Content = {c1, c2}
    Empty = Empty
    Absent = Absent
    DelMark = DelMark
    NoHash = NoHash
    NumPeers = 4
    Group <- ThreeAndOne
    HomeGroup <- HomeSplit
    Writable = {c1, c2}
    UserOps = {"write", "delete"}
    Editing = "serial"
    Author = 1
    Faults = {"fail", "crash"}
    MaxEdits = 3
    MaxFaults = 1
    WindowsApart = FALSE
    MaxOverlap = 1
INVARIANTS TypeOK GroupIsolation CrashSafe FailureContained
PROPERTIES FollowsRegister
CHECK_DEADLOCK FALSE

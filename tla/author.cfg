SPECIFICATION Spec
CONSTANTS
    c1 = c1
    c2 = c2
    Content = {c1, c2}
    Empty = Empty
    Absent = Absent
    DelMark = DelMark
    NoHash = NoHash
    NumPeers = 3
    Group <- OneGroup3
    HomeGroup <- HomeAll
    Writable = {c1, c2}
    UserOps = {"write", "touch"}
    Editing = "author"
    Author = 1
    Faults = {}
    MaxEdits = 3
    MaxFaults = 0
    WindowsApart = TRUE
    MaxOverlap = 1
INVARIANTS AuthorUndisturbed SyncAtRest
CHECK_DEADLOCK FALSE

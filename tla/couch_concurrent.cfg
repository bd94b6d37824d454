SPECIFICATION FairSpec
CONSTANTS
    c1 = c1
    c2 = c2
    Content = {c1, c2}
    Empty = Empty
    Absent = Absent
    DelMark = DelMark
    NoHash = NoHash
    Unset = Unset
    Now = Now
    Writable = {c1, c2}
    Editors = {"user", "remote"}
    Deletes = TRUE
    Editing = "up"
    Strategy = "timestamp-wins"
    BaseDirSet = FALSE
    NowGap = FALSE
    Faults = {"fail", "reread"}
    FeedPrompt = TRUE
    MaxAttempts = 2
    MaxEdits = 4
    MaxRev = 16
    MaxFaults = 1
INVARIANTS TypeOK
PROPERTIES EventuallyQuiet
CHECK_DEADLOCK FALSE

SPECIFICATION FairSpec
CONSTANTS
    c1 = c1
    c2 = c2
    Content = {c1, c2}
    Empty = Empty
    Absent = Absent
    DelMark = DelMark
    NoHash = NoHash
    Unset = Unset
    Now = Now
    Writable = {c1, c2}
    Editors = {"user"}
    Deletes = FALSE
    Editing = "up"
    Strategy = "timestamp-wins"
    BaseDirSet = FALSE
    NowGap = FALSE
    Faults = {"restart", "disconnect"}
    FeedPrompt = TRUE
    MaxAttempts = 4
    MaxEdits = 8
    MaxRev = 16
    MaxFaults = 2
INVARIANTS EditorUndisturbed SyncAtRest
CHECK_DEADLOCK FALSE

SPECIFICATION FairSpec
CONSTANTS
    c1 = c1
    c2 = c2
    Content = {c1, c2}
    Empty = Empty
    Absent = Absent
    DelMark = DelMark
    NoHash = NoHash
    Unset = Unset
    Now = Now
    Writable = {c1, c2}
    Editors = {"user", "remote"}
    Deletes = TRUE
    Editing = "serial"
    Strategy = "timestamp-wins"
    BaseDirSet = FALSE
    NowGap = FALSE
    Faults = {"restart", "disconnect"}
    FeedPrompt = FALSE
    MaxAttempts = 4
    MaxEdits = 4
    MaxRev = 16
    MaxFaults = 2
INVARIANTS SyncAtRest UserEditSafe
PROPERTIES ImplementsSyncGroup EventuallyQuiet
CHECK_DEADLOCK FALSE

SPECIFICATION Spec
CONSTANTS
    c1 = c1
    c2 = c2
    c3 = c3
    w1 = w1
    w2 = w2
    Content = {c1, c2}
    Empty = Empty
    Absent = Absent
    DelMark = DelMark
    NoHash = NoHash
    Parts <- ThreeSizes
    MaxParts = 2
    Writers = {w1}
    Feed = feed
    Ops = {"put"}
    Strategy = "timestamp-wins"
    Faults = {}
    MaxAttempts = 2
    MaxCalls = 1
    MaxFaults = 0
INVARIANTS LastSaved
CHECK_DEADLOCK FALSE

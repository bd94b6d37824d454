SPECIFICATION Spec
CONSTANTS
    c1 = c1
    c2 = c2
    c3 = c3
    w1 = w1
    w2 = w2
    Content = {c1, c2, c3}
    Empty = Empty
    Absent = Absent
    DelMark = DelMark
    NoHash = NoHash
    Parts <- ThreeSizes
    MaxParts = 2
    Writers = {w1, w2}
    Feed = feed
    Ops = {"put", "delete"}
    Strategy = "timestamp-wins"
    Faults = {"crash", "fail"}
    MaxAttempts = 2
    MaxCalls = 4
    MaxFaults = 1
SYMMETRY AnyWriter
INVARIANTS TypeOK PutRepairs ListedExist
CHECK_DEADLOCK FALSE

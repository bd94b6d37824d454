SPECIFICATION Spec
CONSTANTS
    c1 = c1
    c2 = c2
    x = x
    y = y
    Content = {c1, c2}
    Empty = Empty
    Absent = Absent
    DelMark = DelMark
    NoHash = NoHash
    Top = top
    Leaf = {x, y}
    Scanner = scanner
    Caller = {hub}
    Prompt = TRUE
    UserWaits = TRUE
    FreshBytes = TRUE
    LooksWhole = TRUE
    MaxEdits = 2
    MaxCalls = 2
    MaxCrashes = 1
SYMMETRY SwapLeaves
INVARIANTS TypeOK TreeInSync NothingToRescan StatsHaveFiles WatchKept
CHECK_DEADLOCK FALSE

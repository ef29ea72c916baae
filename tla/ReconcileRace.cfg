\* Two processes, two calls of two users, of which one has an active binding.
SPECIFICATION Spec
CONSTANTS
    w1 = w1
    w2 = w2
    r1 = r1
    r2 = r2
    u1 = u1
    u2 = u2
    Workers = {w1, w2}
    NoOne = NoOne
    FirstHolder = w1
    Requests = {r1, r2}
    Users = {u1, u2}
    Owner <- OwnerOfCall
    Bound = {u1}
    NoTime = NoTime
    Mixes <- MixesOfCalls
    OldLog <- OldEntry
    Slice = 2
    Overlap = 1
    Lookback = 0
    MinSlice = 1
    PageSize = 2
    PageLimit = 1
    MaxSlices = 4
    Delay = 1
    MaxTime = 2
    MaxFaults = 1
INVARIANTS
    NothingLeftBehind
    ReadLeavesTrace
    VerdictFitsRow
PROPERTIES
    SettledIsCompared
\* Processes may be dead and the log may be complete.
CHECK_DEADLOCK FALSE

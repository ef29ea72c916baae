\* One process, nothing fails: two old entries, more than a slice can list,
\* and passes of two slices of twice the least width.
SPECIFICATION Spec
CONSTANTS
    w1 = w1
    w2 = w2
    r1 = r1
    r2 = r2
    u1 = u1
    u2 = u2
    Workers = {w1}
    NoOne = NoOne
    FirstHolder = w1
    Requests = {r1, r2}
    Users = {u1, u2}
    Owner <- OwnerOfCall
    Bound = {u1}
    NoTime = NoTime
    Mixes <- OthersOnly
    OldLog <- OldEntries
    Slice = 2
    Overlap = 2
    Lookback = 1
    MinSlice = 1
    PageSize = 1
    PageLimit = 1
    MaxSlices = 2
    Delay = 0
    MaxTime = 3
    MaxFaults = 0
PROPERTY CatchesUp
CHECK_DEADLOCK FALSE

\* The sweeper closes the request of a task that New API then completes.
SPECIFICATION ImageSpec
CONSTANTS
    u1 = u1
    r1 = r1
    r2 = r2
    o1 = o1
    p1 = p1
    p2 = p2
    Users = {u1}
    Requests = {r1}
    Owner <- OneOwner
    RequestIds = {i1}
    NoId = NoId
    Nothing = Nothing
    RiskLimit = 1
    MaxCharge = 1
    FreezeThreshold = 1
    LegacyRows = {}
    PerCall = {r1}
    MaxInflight = 1
    Orders = {o1}
    Payer <- PaidByFirst
    RechargeAmount = 1
    AdjustmentKeys = {}
    AdjustmentAmounts = {}
    MaxDebit = 0
    MaxCrashes = 1
    Polls = {p1, p2}
    MaxFaults = 2
PROPERTIES
    CompletionsReported
\* Clients may stop submitting: the system is then at rest.
CHECK_DEADLOCK FALSE

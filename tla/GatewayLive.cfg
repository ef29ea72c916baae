\* Slots, liveness and the refinement of RequestBilling: two requests, an old
\* pending row that holds a risk slot already, and one crash.
SPECIFICATION GatewaySpec
CONSTANTS
    u1 = u1
    r1 = r1
    r2 = r2
    r3 = r3
    o1 = o1
    Users = {u1}
    Requests = {r1, r2, r3}
    Owner <- OneOwner
    RequestIds = {i1}
    NoId = NoId
    Nothing = Nothing
    RiskLimit = 2
    MaxCharge = 1
    FreezeThreshold = 1
    LegacyRows = {r3}
    PerCall = {r2}
    MaxInflight = 1
    Orders = {o1}
    Payer <- PaidByFirst
    RechargeAmount = 1
    AdjustmentKeys = {}
    AdjustmentAmounts = {}
    MaxDebit = 0
    MaxCrashes = 1
INVARIANTS
    RiskSlotsBounded
    InflightExact
PROPERTIES
    RowsConverge
    SlotsReleased
    ImplementsBilling

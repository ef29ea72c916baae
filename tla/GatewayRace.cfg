\* Two requests of one user whose wallet starts empty: every interleaving of
\* their handlers, the workers, a recharge, a debit, freezes and one crash.
SPECIFICATION GatewaySafetySpec
CONSTANTS
    u1 = u1
    r1 = r1
    r2 = r2
    r3 = r3
    o1 = o1
    Users = {u1}
    Requests = {r1, r2}
    Owner <- OneOwner
    RequestIds = {i1, i2}
    NoId = NoId
    Nothing = Nothing
    RiskLimit = 1
    MaxCharge = 2
    FreezeThreshold = 1
    LegacyRows = {}
    PerCall = {r2}
    MaxInflight = 1
    Orders = {o1}
    Payer <- PaidByFirst
    RechargeAmount = 1
    AdjustmentKeys = {k1}
    AdjustmentAmounts <- OneDebit
    MaxDebit = 2
    MaxCrashes = 1
INVARIANTS
    WalletConserved
    SettledIffCharged
    OneRowPerUpstreamCall
    OverdraftBounded
PROPERTIES
    TerminalIsFinal
    OverdraftFreezes

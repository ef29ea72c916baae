\* One of four: the credential worker, one more call of the bridge, a disable,
\* one refusal, rotation or edit and one fault, for a user with or without an
\* e-mail address; three adjustments of the quota at New API, two of them under
\* one key, with failures, crashes and lost or late requests everywhere; three
\* calls that create, disable or delete keys; two passes over the quota that
\* provision, watch or replenish it.
SPECIFICATION MCSpec
CONSTANTS
    Calls = {w, a}
    Worker = w
    Groups = {g1}
    MaxDisables = 1
    MaxFaults = 1
    MaxUpsets = 1
    MaxTokens = 3
    a1 = a1
    a2 = a2
    a3 = a3
    k1 = k1
    k2 = k2
    Adjusters = {a1, a2, a3}
    Debits = {a3}
    KeyOfAdjuster <- KeyOfQuotaCall
    NoEntry = NoEntry
    n1 = n1
    n2 = n2
    old = old
    c1 = c1
    c2 = c2
    c3 = c3
    KeyCalls = {c1, c2, c3}
    ApiKeys = {n1, n2, old}
    LegacyKeys = {old}
    NameOfKey <- NameOfApiKey
    p1 = p1
    p2 = p2
    Passes = {p1, p2}
    LowMark = 1
    Target = 2
    MaxPool = 3
INVARIANTS
    NoRetiredTokenInUse
    ClosedIsTrue
    KeyLandsOnce
    RevokedStaysRevoked
    PoolOnlyRaised
PROPERTIES
    WorkerNeverRevives
    RetirementsEnd
    PendingEnds
    AdjustedWhenKnown

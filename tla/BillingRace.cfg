\* Two requests of one model, two edits of its listing and its profile; or one
\* answer, a stream, a body or an image body, under token and image prices.
SPECIFICATION MCSpec
CONSTANTS
    r1 = r1
    r2 = r2
    p1 = p1
    g1 = g1
    g2 = g2
    Requests = {r1, r2}
    Profiles = {p1}
    Contents <- MCContents
    RequiredMeters = {"input", "output"}
    NewapiGroups = {g1, g2}
    Discounts = {10000, 4000}
    Listings <- MCListings
    Facts = {"large", "small", "huge"}
    Sizes = {1, 3}
    Usages <- MCUsages
    Quantities = {2}
    None = None
    Unmapped = Unmapped
    FirstListings <- ListedOrNot
    FirstProfiles <- AllByToken
    MaxEdits = 2
    Absent = Absent
    Answers <- MCAnswers
    MaxBuffer = 14
    MaxSafe = 70
    Million = 2
INVARIANTS
    SnapshotsPaired
    ChargedAsQuoted
    ExtractionIsFaithful
    TokensConserved
    ChargedExactly
    ReconciliationAgrees
PROPERTIES
    RequestsEnd
\* Every request may be done and the edits used up, and a call reconciled.
CHECK_DEADLOCK FALSE

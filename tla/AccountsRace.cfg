\* Two orders, one of a product without credits, with notifications and
\* callbacks of both handled by two requests at once and two faults; or four
\* calls of two administrators, one key used for two adjustments and one charge
\* reversed twice, with the charge and locked databases in between.
SPECIFICATION MCSpec
CONSTANTS
    u1 = u1
    o1 = o1
    o2 = o2
    c1 = c1
    c2 = c2
    c3 = c3
    c4 = c4
    k1 = k1
    q1 = q1
    root = root
    staff = staff
    Users = {u1}
    FreezeThreshold = 0
    Orders = {o1, o2}
    Payer <- PaidByOne
    OrderAmount <- AmountOne
    Uncredited = {o2}
    Deliveries = {d1, d2}
    MaxFaults = 2
    Calls = {c1, c2, c3, c4}
    Keys = {k1}
    Charges = {q1}
    KeyOf <- KeyOfCall
    Wanted <- WantedBy
    Operator <- OperatorOfCall
    Nobody = Nobody
    MaxAttempts = 2
    ChargedUser <- ChargedToOne
    ChargeAmount <- ChargeOne
INVARIANTS
    PaidIffRecharged
    OnlyFullPaymentsCredit
    AnswersAreTrue
    ReversedOnce
PROPERTIES
    AnnouncedIsCredited
\* Buyers and administrators may stop calling: the system is then at rest.
CHECK_DEADLOCK FALSE

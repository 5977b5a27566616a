\* A settlement above amount_total makes a concurrent request's refund fail.
SPECIFICATION Spec
CONSTANTS
    r1 = r1
    r2 = r2
    r3 = r3
    Requests = {r1, r2}
    Kinds <- MCKindsSub
    Subs = {1}
    Total <- MCTotal4
    OverflowSubs = {1}
    Wallet0 = 3
    Token0 = 4
    TrustQuota = 2
    Actuals = {6}
    ReserveTargets = {}
    MaxReserves = 0
    FeeQuota = 0
    MaxResets = 0
    RefundAttempts = 3
    Unreliable = {}
    FaultKinds = {}
INVARIANTS RefundReturnsReservation
CHECK_DEADLOCK FALSE

\* Writes of one request fail or lose their acknowledgement at any step, refunds are rejected.
SPECIFICATION Spec
CONSTANTS
    r1 = r1
    r2 = r2
    r3 = r3
    Requests = {r1, r2}
    Kinds <- MCKindsFaults
    Subs = {1}
    Total <- MCTotal4
    OverflowSubs = {1}
    Wallet0 = 4
    Token0 = 4
    TrustQuota = 9
    Actuals = {0, 5}
    ReserveTargets = {}
    MaxReserves = 0
    FeeQuota = 1
    MaxResets = 0
    RefundAttempts = 3
    Unreliable = {r1}
    FaultKinds = {"err", "lost"}
INVARIANTS NeverPaysOut
PROPERTIES ReservationResolved
CHECK_DEADLOCK FALSE

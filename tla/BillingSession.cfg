\* Two requests of every kind compete for one wallet, one token and two
\* subscriptions, one of which forbids wallet overflow; each may raise its reservation once.
SPECIFICATION Spec
CONSTANTS
    r1 = r1
    r2 = r2
    r3 = r3
    Requests = {r1, r2}
    Kinds <- MCKindsAll
    Subs = {1, 2}
    Total <- MCTotal
    OverflowSubs = {1}
    Wallet0 = 3
    Token0 = 4
    TrustQuota = 2
    Actuals = {0, 3}
    ReserveTargets = {2, 3}
    MaxReserves = 1
    FeeQuota = 1
    MaxResets = 1
    RefundAttempts = 3
    Unreliable = {}
    FaultKinds = {}
INVARIANTS SettledBooks ReturnedBooks UsageExplained
PROPERTIES AdmissionIsStrict
SYMMETRY MCSymmetry
CHECK_DEADLOCK FALSE

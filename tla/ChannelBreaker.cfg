\* A selected and a pinned request; the channel recovers at 3.
SPECIFICATION Spec
CONSTANTS
    r1 = r1
    p1 = p1
    Requests = {r1, p1}
    Pinned = {p1}
    Buckets = 2
    BucketDur = 2
    MinSamples = 3
    TripScorePct = 50
    ConsecFatal = 2
    Cooldown = 2
    MaxCooldown = 3
    HalfOpenProbes = 2
    HealthyFrom = 3
    MaxTime = 7
    MaxLag = 1
    MaxPinned = 2
    MaxPerBucket = 2
    MaxResets = 1
INVARIANTS WindowExact
PROPERTIES ShieldHolds BackoffDoubles Recovers

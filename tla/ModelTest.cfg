\* Two channels with three models, tested two at a time.
SPECIFICATION Spec
CONSTANTS
    c1 = c1
    c2 = c2
    Channels = {c1, c2}
    NoChannel = NoChannel
    N = 3
    Matches = {{1, 2, 3}, {2}}
    Limit = 2
    MaxBatches = 2
    MaxOpens = 2
    MaxSingles = 1
INVARIANTS LimitHolds QuietIsIdle CountsAgree
PROPERTIES StopObeyed BatchEnds
CHECK_DEADLOCK FALSE

\* Two master nodes poll a video task that may fail, time out or meet failing writes.
SPECIFICATION Spec
CONSTANTS
    p1 = p1
    p2 = p2
    Tasks = {1}
    Suno = {}
    Fetchable = {}
    PerCall = {}
    Legacy = {}
    NoToken = {}
    Pollers = {p1, p2}
    QueryLimit = 2
    SweepLimit = 2
    Quota = 2
    Actuals = {0, 1, 3}
    Timeouts = TRUE
    ChannelMayVanish = FALSE
    MaxFetches = 0
    MaxCrashes = 1
    FaultyTasks = {1}
    FaultKinds = {"err", "lost"}
INVARIANTS TypeOK RefundedOnce FailedTasksRefunded
PROPERTIES EndIsFinal
SYMMETRY MCSymmetry

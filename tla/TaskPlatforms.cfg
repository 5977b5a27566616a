\* One master node polls a Suno task, a legacy video task and one billed per call.
SPECIFICATION Spec
CONSTANTS
    p1 = p1
    p2 = p2
    Tasks = {1, 2, 3}
    Suno = {1}
    Fetchable = {}
    PerCall = {3}
    Legacy = {2}
    NoToken = {3}
    Pollers = {p1}
    QueryLimit = 2
    SweepLimit = 1
    Quota = 2
    Actuals = {0, 3}
    Timeouts = TRUE
    ChannelMayVanish = FALSE
    MaxFetches = 0
    MaxCrashes = 0
    FaultyTasks = {}
    FaultKinds = {}
INVARIANTS ChargeFitsStatus
PROPERTIES OutcomeSpec

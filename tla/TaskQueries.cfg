\* A user queries a Gemini or Vertex video while a master node polls two tasks one at a
\* time; the channel may be deleted.
SPECIFICATION Spec
CONSTANTS
    p1 = p1
    p2 = p2
    Tasks = {1, 2}
    Suno = {1}
    Fetchable = {2}
    PerCall = {}
    Legacy = {}
    NoToken = {}
    Pollers = {p1}
    QueryLimit = 1
    SweepLimit = 1
    Quota = 2
    Actuals = {0, 3}
    Timeouts = TRUE
    ChannelMayVanish = TRUE
    MaxFetches = 1
    MaxCrashes = 0
    FaultyTasks = {}
    FaultKinds = {}
INVARIANTS NeverOvercharged
PROPERTIES EveryTaskCloses

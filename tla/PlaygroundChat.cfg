\* Two requests, the second one with a custom body; at any time at most two of: a reload, an
\* edit, deletion or role change, the delayed sends that wait, a write that was refused, an
\* answer that ended silently.
SPECIFICATION Spec
CONSTANTS
    MaxRequests = 2
    MaxChunks = 1
    MaxLoads = 1
    MaxOps = 1
    MaxSaves = 1
    MaxResends = 2
    CustomModes <- MCCustomModes
CONSTRAINT MCBudget
INVARIANTS OwnWords SpinnerIsLast 
CHECK_DEADLOCK FALSE

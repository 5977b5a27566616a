\* Two changes, a reader, a profile save and a restart, with batching and failing statements.
SPECIFICATION Spec
CONSTANTS
    c1 = c1
    c2 = c2
    r1 = r1
    Changes = {c1, c2}
    Amount <- MCAmount
    Readers = {r1}
    Quota0 = 2
    Batch = TRUE
    Failures = TRUE
    SaveKinds = {"update", "edit"}
    MaxSaves = 1
    Overrides = {5}
    MaxOverrides = 1
    MaxCrashes = 1
INVARIANTS Books DriftBounded
PROPERTIES DriftHeals
CHECK_DEADLOCK FALSE

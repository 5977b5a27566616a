\* Three windows, the probes of four attempts.
SPECIFICATION ShellSpec
CONSTANTS
    MaxRetries = 4
    Windows = {1, 2, 3}
INVARIANTS NoOrphan ProbesBounded HiddenReachable
PROPERTIES StartDecides QuitCompletes
CHECK_DEADLOCK FALSE

SPECIFICATION Spec
CONSTANTS
    MaxChanges = 1
    MaxStarts = 2
    MaxCrashes = 1
    MaxFailures = 0
INVARIANTS RestartLoads
CHECK_DEADLOCK FALSE

SPECIFICATION Spec
CONSTANTS
    NCells = 2
    Quota = 2
    Earlier = 2
    MaxLaunches = 2
    MaxFaults = 2
INVARIANTS TypeOK DoneHasQuota NeverOverrun Isolated
CHECK_DEADLOCK FALSE

SPECIFICATION Spec
CONSTANTS
    NCells = 1
    Quota = 2
    Earlier = 0
    MaxLaunches = 1
    MaxFaults = 0
INVARIANTS DoneIsWhole
CHECK_DEADLOCK FALSE

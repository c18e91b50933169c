SPECIFICATION Spec
CONSTANTS
    Sessions = {s}
    Legacy = {l}
    Loose = {x}
    Foreign = {f}
    MaxTurns = 2
    MaxSchema = 2
    MaxFaults = 1
INVARIANTS TypeOK ImportedKept OneShape EachRowOnce FreshOrMissed
CHECK_DEADLOCK FALSE

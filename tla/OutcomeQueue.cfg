CONSTANTS
  Clients = {c1, c2, c3}
  Depth = 2
  MaxBrews = 3
  MaxReseeds = 1
SPECIFICATION Spec
SYMMETRY Symmetry
INVARIANTS TypeOK Replays
PROPERTY RefusedOnlyInACrowd
CHECK_DEADLOCK FALSE

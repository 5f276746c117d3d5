SPECIFICATION Spec
CONSTANTS
  Dists = {10, 20, 40}
  MaxTET = 30
CHECK_DEADLOCK FALSE
INVARIANTS InfiniteOnlyWhenStill

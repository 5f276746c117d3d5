SPECIFICATION FairSpec
CONSTANTS
  MAX_speed = 2
  Low = 1
  Power = 2
  BRAKE_DISTANCE = 1
  Safes = {3}
  Dists = {0, 2, 3}
  Presses = {0, 2}
  MaxSlices = 1
INVARIANTS SeenInRange
PROPERTIES KeepsDistance ReachesTarget HeldPedalEndsCruise

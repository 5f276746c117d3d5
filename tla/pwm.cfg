SPECIFICATION FairSpec
CONSTANTS
  Offsets = {50, 100, 150}
  Waits = 2
  Speeds = {0, 100, 200}
INVARIANTS PulsesWhenOut StaleDriveAtMostOnce
PROPERTIES MainGoesOn MotorFollows

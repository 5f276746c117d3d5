SPECIFICATION Spec
CONSTANTS
  MaxSpeed = 2
  McbBrake = 1
  Light = 1
  HoldTicks = 2
  QueueLen = 1
  Mailboxes = 1
  Pressures <- MCPressures
  Frames <- MCAsk
  CruiseSpeeds <- MCCruiseSpeeds
  Keys = {}
CHECK_DEADLOCK FALSE
PROPERTIES StopGivesPedals

SPECIFICATION FairSpec
CONSTANTS
  MaxSpeed = 2
  McbBrake = 1
  Light = 1
  HoldTicks = 2
  QueueLen = 1
  Mailboxes = 1
  Pressures <- MCPressures
  Frames <- MCAll
  CruiseSpeeds <- MCCruiseSpeeds
  Keys = {"q"}
CHECK_DEADLOCK FALSE
INVARIANTS TypeOK RaisedAtMostOnce
PROPERTIES KeepsStopPromise EngagementEnds CrashEngages StopFrameSent

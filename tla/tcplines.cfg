SPECIFICATION FairSpec
CONSTANTS
  Value <- Value1
  Line <- Lines1
  Cap = 6
  LineCap = 4
  MaxChunk = 6
  MaxSent = 4
  MaxLosses = 2
CHECK_DEADLOCK FALSE
INVARIANTS ObeyedAtMostAsked InOrder
PROPERTIES Resync EachIsTaken

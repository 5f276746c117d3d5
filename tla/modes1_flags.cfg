SPECIFICATION Spec
CONSTANTS
  Drives <- Controls
  Lanes <- LostOrLeft
  Presses = {TRUE,FALSE}
  Shocks = TRUE
INVARIANTS SccFollowsFlag LkaOffByFlag RememberedOnlyWhileSignalling ParkedCentered

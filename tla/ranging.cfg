SPECIFICATION UssFairSpec
CONSTANTS
  Phases = {1, 2}
  Echoes = {1, 2}
  Mutes = TRUE
  Sticks = TRUE
  Patience = 4
  Samples = 3
  Wrap = 16
  MaxLate = 1
PROPERTIES FaultsAreHidden MuteIsNeverFar AlwaysPublishes

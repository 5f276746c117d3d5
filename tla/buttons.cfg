SPECIFICATION FairSpec
CONSTANTS
  Button = {1,2}
  SMP = TRUE
  DEBOUNCE_TIME = 4
  SENSOR_SEND_INTERVAL = 4
  POLL_TIMEOUT = 2
  Starts = {8, 13}
  Wrap = 16
  Horizon = 19
  MaxPresses = 3
CHECK_DEADLOCK FALSE
INVARIANTS NeverBlocksInRead EachReportTakesAPress SampledInTime
PROPERTIES Debounced PressFetched

SPECIFICATION FairSpec
CONSTANTS
  Keys = {"1","2","3","5","q"}
  Anytime = {"1","5","q"}
  MaxKeys = 3
  Presses = {FALSE}
INVARIANTS WdtGuarded
PROPERTIES KeepsStopPromise WdtKicked McbRequestServed

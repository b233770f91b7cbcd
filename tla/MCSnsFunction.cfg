SPECIFICATION FairSpec
CONSTANTS
  Workers = {w1, w2}
  Callback = Callback
  NoThread = NoThread
  PageLen = 2
  MaxPages = 3
  Spurious = TRUE
CHECK_DEADLOCK FALSE
INVARIANTS
  TypeOK
  ReturnsWholePage
PROPERTIES
  NotifiedIsFresh
  WokenReturns

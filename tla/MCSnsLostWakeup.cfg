SPECIFICATION FairSpec
CONSTANTS
  Workers = {w1, w2}
  Callback = Callback
  NoThread = NoThread
  PageLen = 2
  MaxPages = 1
  Spurious = FALSE
CHECK_DEADLOCK FALSE
PROPERTIES
  SyncSnsReturns

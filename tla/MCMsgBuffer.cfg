SPECIFICATION Spec
CONSTANTS
  Hooks = {h1, h2}
  Workers = {w1, w2}
  NoThread = NoThread
  Cap = 3
  Batch = 2
  MaxPushed = 6
INVARIANTS
  TypeOK
  NewestRun
PROPERTIES
  ImplementsQueue

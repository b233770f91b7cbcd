SPECIFICATION Spec
CONSTANTS
  Hooks = {h1, h2}
  Clients = {}
  Members = {alice, bob}
  text = text
  link = link
  card = card
  image = image
  system = system
  Inbox <- MCNoInbox
  Cap = 3
  Batch = 2
  MaxChanges = 3
  MaxDetails = 2
SYMMETRY MCSymmetry
CHECK_DEADLOCK FALSE
INVARIANTS
  NoJoinMissed
  JoinsAreReal
  LeavesReported

SPECIFICATION FairSpec
CONSTANTS
  Hooks = {h1}
  Clients = {c1, c2}
  Members = {}
  text = text
  link = link
  card = card
  image = image
  system = system
  Inbox <- MCInbox
  Cap = 3
  Batch = 2
  MaxChanges = 0
  MaxDetails = 0
INVARIANTS
  TypeOK
  Accounted
  DeliveredOnceInOrder
PROPERTIES
  EventuallySettled

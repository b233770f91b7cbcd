SPECIFICATION Spec
CONSTANTS
  Workers = {w1, w2}
  Users = {alice, bob}
  NoUser = NoUser
  Torn = Torn
  Images = {qr1, qr2}
  NoImage = NoImage
  Partial = Partial
  Window = Window
  NoThread = NoThread
  MaxLogins = 2
CHECK_DEADLOCK FALSE
INVARIANTS
  TypeOK
  AgreesWithSession
  NoWaiterLeftBehind
  QRCodeWhole

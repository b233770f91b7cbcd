SPECIFICATION FairSpec
CONSTANTS
  w1 = w1
  w2 = w2
  c1 = c1
  c2 = c2
  c3 = c3
  Workers = {w1, w2}
  Conns = {c1, c2, c3}
  NoConn = NoConn
  NoRequest = NoRequest
  Routes = {"getLoginQRCode", "waitForLogin", "syncSns"}
  KeepAliveMax = 2
INVARIANTS
  TypeOK
  NoIdleHands
  OnePlace
PROPERTIES
  TakenUnlessAllBlocked
  ListenReturnsUnlessBlocked

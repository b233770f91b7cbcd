SPECIFICATION Spec
CONSTANTS
  alice = alice
  bob = bob
  carol = carol
  hello = hello
  empty = empty
  everyone = everyone
  everybody = everybody
  nick = nick
  Values <- MCValues
  Empty = empty
  Everyone = everyone
  EveryoneName = everybody
  Contacts <- MCContacts
  Bodies <- MCGrowing
  Freed = Freed
  FirstCap = 2
  Images <- MCImages
  Requests <- MCTextOnly
  BodyLen = 2
  KeepAliveMax = 1
  MaxRequests = 1
CHECK_DEADLOCK FALSE
INVARIANTS
  ListOwnsItsStrings

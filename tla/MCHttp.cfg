SPECIFICATION FairSpec
CONSTANTS
  alice = alice
  bob = bob
  carol = carol
  hello = hello
  empty = empty
  everyone = everyone
  everybody = everybody
  nick = nick
  Values <- MCValues
  Empty = empty
  Everyone = everyone
  EveryoneName = everybody
  Contacts <- MCContacts
  Bodies <- MCBodies
  Freed = Freed
  FirstCap = 2
  Images <- MCImages
  Requests <- MCRequests
  BodyLen = 2
  KeepAliveMax = 3
  MaxRequests = 3
CHECK_DEADLOCK FALSE
INVARIANTS
  TypeOK
  AnswersMatch
  HandledWhole
  SendsWhatWasAsked
  StringsFreed
  EncodesRight
PROPERTIES
  ConnectionEnds
  ImplementsServe

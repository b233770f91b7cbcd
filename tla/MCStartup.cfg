SPECIFICATION FairSpec
CONSTANTS
  p1 = p1
  p2 = p2
  Procs = {p1, p2}
  Ports = {5000, 1234}
  DefaultPort = 5000
INVARIANTS
  TypeOK
  NoRunWhilePatching
  ServesWhole
PROPERTIES
  LoaderLeavesNoneSuspended
  ServesOrExits

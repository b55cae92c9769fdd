SPECIFICATION LockFairSpec
CONSTANTS
  Proc = {p1, p2, p3}
  Mortal = {p1}
  NoFile = NoFile
INVARIANTS
  SoleUnevictedHolder
PROPERTIES
  StaleLockReclaimed

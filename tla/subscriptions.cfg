SPECIFICATION Spec
CONSTANTS
  None = None
  Subscriber = {s1, s2}
  Caller = {c1, c2}
  Stream = {n1, n2}
  MaxFaults = 1
SYMMETRY MCSymmetry
INVARIANTS
  TypeOK
  WatcherIsLive
  NoStreamLeaks
  NoIdleStream
  ResolvedIsServed
PROPERTIES
  NoSilentLoss

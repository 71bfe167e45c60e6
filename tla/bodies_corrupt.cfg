SPECIFICATION ServiceSpec
CONSTANTS
  m1 = m1
  a1 = a1
  None = None
  Message = {m1}
  Proc = {p1, p2}
  Sudo = {}
  Address = {a1}
  SudoOf <- MCSudoOf
  AddressOf <- MCAddressOf
  Bytes <- MCBytes
  Threshold = 1
  Limit = {2}
  InitialLimit = 2
  MaxTime = 0
  MaxFaults = 1
  MaxCrashes = 0
SYMMETRY MCProcs
INVARIANTS
  CacheNeverBreaksRetrieval

SPECIFICATION Spec
CONSTANTS
  m1 = m1
  m2 = m2
  m3 = m3
  s1 = s1
  a1 = a1
  a2 = a2
  None = None
  Message = {m1, m2, m3}
  Proc = {p1}
  Sudo = {s1}
  Address = {a1, a2}
  SudoOf <- MCSudoOf
  AddressOf <- MCAddressOf
  Bytes <- MCBytes
  Threshold = 1
  Limit = {0, 1, 3}
  InitialLimit = 3
  MaxTime = 2
  MaxFaults = 0
  MaxCrashes = 0
INVARIANTS
  EvictsLeastRecent
PROPERTIES
  KeepsPromise

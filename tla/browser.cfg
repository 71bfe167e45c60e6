SPECIFICATION Spec
CONSTANTS
  m1 = m1
  m2 = m2
  Page = {p1, p2}
  Message = {m1, m2}
  Bytes <- MCBytes
  Flush <- MCFlush
  Limit = {0, 2, 3}
  InitialLimit = 3
  None = None
  MaxSaves = 1
  MaxFaults = 1
SYMMETRY MCPages
INVARIANTS
  ReloadsAsLeft
PROPERTIES
  PageKeepsPromise

SPECIFICATION FairServiceSpec
CONSTANTS
  m1 = m1
  a1 = a1
  None = None
  Message = {m1, m2}
  Proc = {p1}
  Sudo = {}
  Address = {a1}
  SudoOf <- MCSudoOf
  AddressOf <- MCAddressOf
  Bytes <- MCBytes
  Threshold = 1
  Limit = {2}
  InitialLimit = 2
  MaxTime = 0
  MaxFaults = 1
  MaxCrashes = 1
INVARIANTS
  OneFailureTolerated
PROPERTIES
  ReadsEnd
  OperationsEnd

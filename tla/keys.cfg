CONSTANTS
  Call = {p1, p2, p3}
  NoKey = NoKey
  MaxFaults = 1
SPECIFICATION Spec
SYMMETRY MCSymmetry
VIEW MCView
INVARIANTS
  TypeOK
  LockIsPassedOn
  RecordsAreReadable
  FailedMeansErased
  OneSingleton
PROPERTY
  RefusedOnlyWithoutKey

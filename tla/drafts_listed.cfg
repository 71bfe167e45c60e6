SPECIFICATION Spec
CONSTANTS
  Draft = {d1, d2}
  Mask = {m1}
  SymKey = {k1, k2}
  Caller = {c1, c2}
  None = None
  PageLimit = 2
  MetadataLimit = 2
  MaxCancels = 1
SYMMETRY Symmetry
INVARIANTS
  ListsAll

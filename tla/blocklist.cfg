SPECIFICATION Spec
CONSTANTS
  Written <- MCWritten
  Normal <- MCNormal
  DomainOf <- MCDomainOf
  WellFormed <- MCWellFormed
  Batch <- MCBatch
  Inbox = {i}
  Owner = owner
  Key = {k1, k2}
  None = None
SYMMETRY MCSymmetry
INVARIANTS
  TypeOK
  NamesDistinct
  UnblockedIsGone

SPECIFICATION Spec
CONSTANTS
  Requests = {r1, r2}
  Fileables = {c1, c2}
  Names = {n1, n2, n3, n4}
  OwnerLimit = 2
  OwnerBatch = 2
  Limit <- MCLimit
  MaxBatch <- MCMaxBatch
  NoName = NoName
  NoOwner = NoOwner
INVARIANTS
  FileLimit

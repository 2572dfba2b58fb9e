SPECIFICATION HealthySpec
CONSTANTS
  Requests = {r1, r2}
  Users = {a}
  Admins = {a}
  Managers = {}
  Role <- MCRole
  Verified = {a}
  Invited = {a}
  Projects = {p1}
  Tasks = {t1}
  Comments = {c1, c2}
  Names = {n1, n2}
  OwnerLimit = 2
  OwnerBatch = 1
  Limit <- MCLimit
  MaxBatch <- MCMaxBatch
  NoName = NoName
  NoOwner = NoOwner
  NoUser = NoUser
  NoRow = NoRow
SYMMETRY Symmetric
INVARIANTS
  CleansUp

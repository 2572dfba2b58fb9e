SPECIFICATION FairSpec
CONSTANTS
  Requests = {r1, r2}
  Users = {a, w}
  Admins = {}
  Managers = {a}
  Role <- MCRole
  Verified = {a, w}
  Invited = {w}
  Projects = {p1}
  Tasks = {t1}
  Comments = {c1}
  Names = {}
  OwnerLimit = 2
  OwnerBatch = 1
  Limit <- MCLimit
  MaxBatch <- MCMaxBatch
  NoName = NoName
  NoOwner = NoOwner
  NoUser = NoUser
  NoRow = NoRow
PROPERTIES
  TakePartAsMembers
  CommentsAreTheirAuthors
  RequestsEnd

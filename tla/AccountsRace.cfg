SPECIFICATION Spec
CONSTANTS
  Requests = {r1, r2}
  Users = {u}
  Passwords = {p1}
  Tokens = {t1, t2}
  NoUser = NoUser
  NoPassword = NoPassword
  NoToken = NoToken
SYMMETRY Symmetric
INVARIANTS
  OneLiveToken

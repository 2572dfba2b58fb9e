SPECIFICATION Spec
CONSTANTS
  Requests = {r1, r2}
  Users = {u1, u2}
  Passwords = {p1, p2}
  Tokens = {t1, t2}
  NoUser = NoUser
  NoPassword = NoPassword
  NoToken = NoToken
SYMMETRY Symmetric
INVARIANTS
  TypeOK
  RedeemedOnce
  VerifiedByMail
PROPERTIES
  PasswordProven
  WasteNeedsFailure
  RegisteringMails
  TokensRefine

SPECIFICATION Spec
CONSTANTS
  Requests = {r1}
  Users = {u1, u2}
  Bouncing = {u2}
  Notes = {n1, n2}
  NoNote = NoNote
  NoUser = NoUser
INVARIANTS
  TypeOK
  NothingLostUnread
  OnlyVerifiedMailed
PROPERTIES
  NoSecondMail
  NobodySkipped
  MailedOnceHealthy

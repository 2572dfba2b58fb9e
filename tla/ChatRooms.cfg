SPECIFICATION Spec
CONSTANTS
  Requests = {r1}
  Handlers = {h1, h2}
  Users = {u1, u2}
  Sockets = {s1, s2}
  Chats = {c1, c2}
  Messages = {m1, m2}
  PageSize = 1
  NoUser = NoUser
  NoSocket = NoSocket
  NoChat = NoChat
  NoMessage = NoMessage
SYMMETRY Symmetric
INVARIANTS
  TypeOK
  OneRoom
  DeliveredToMembers
  NoGap

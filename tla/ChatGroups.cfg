SPECIFICATION Spec
CONSTANTS
  Requests = {r1, r2}
  Handlers = {}
  Users = {u1, u2, u3}
  Sockets = {}
  Chats = {c1, c2, c3, c4}
  Messages = {}
  PageSize = 1
  NoUser = NoUser
  NoSocket = NoSocket
  NoChat = NoChat
  NoMessage = NoMessage
SYMMETRY Symmetric
INVARIANTS
  FindsExactly
  ChatsAsAsked
  DuplicatesBounded

-------------------------------- MODULE Chat --------------------------------
(***************************************************************************)
(* ChatService behind ChatController and ChatGateway: group chats found or *)
(* created by their set of users, and the messages that sockets send to    *)
(* the chat they are in.                                                   *)
(*                                                                         *)
(* A chat never loses or gains a member, so the awaited membership checks  *)
(* matter only for what happens while they are awaited.  Joining leaves    *)
(* and enters rooms of the in-memory adapter in one synchronous step.      *)
(***************************************************************************)
EXTENDS Naturals, Sequences, FiniteSets

CONSTANTS
  Requests,     \* POST /chat requests that may be in flight together
  Handlers,     \* websocket handlers that may be in flight together
  Users, Sockets,
  Chats,        \* chat ids (bounds a run)
  Messages,     \* message ids (bounds a run)
  PageSize,     \* how many messages GET /chat/:id/messages returns
  NoUser, NoSocket, NoChat, NoMessage

ASSUME RequestsAssumption == IsFiniteSet(Requests)
ASSUME PageAssumption == PageSize \in Nat \ {0}
ASSUME UsersAssumption == IsFiniteSet(Users) /\ NoUser \notin Users
ASSUME NullAssumption ==
  NoSocket \notin Sockets /\ NoChat \notin Chats /\ NoMessage \notin Messages

VARIABLES
  verified,     \* the users with emailVerified
  members,      \* ChatUser: the users of every chat, {} where there is none
  request,      \* the state of every POST /chat in flight
  socket,       \* every socket: its user, its chat rooms, what its client has
  log,          \* Message: the messages of every chat, oldest first
  lost,         \* those whose insert was never answered (for the properties)
  handler       \* the state of every websocket handler in flight

rest == <<verified, members, request>>
wire == <<socket, log, lost, handler>>
vars == <<rest, wire>>

Request == [pc : {"idle", "find", "check", "create", "done"},
            users : SUBSET Users, left : SUBSET Users, chat : Chats \cup {NoChat}]

\* first..last are the messages of the page the client fetched after it
\* entered its room, got those it was sent since it connected.
Socket == [user : Users \cup {NoUser}, rooms : SUBSET Chats,
           fetched : BOOLEAN, first : Nat, last : Nat, got : SUBSET Messages]

Handler == [pc : {"idle", "guard", "access", "insert", "emit"},
            user : Users \cup {NoUser}, socket : Sockets \cup {NoSocket},
            chat : Chats \cup {NoChat}, msg : Messages \cup {NoMessage}]

NoRequest == [pc |-> "idle", users |-> {}, left |-> {}, chat |-> NoChat]

Offline == [user |-> NoUser, rooms |-> {}, fetched |-> FALSE,
            first |-> 0, last |-> 0, got |-> {}]

NoHandler == [pc |-> "idle", user |-> NoUser, socket |-> NoSocket,
              chat |-> NoChat, msg |-> NoMessage]

TypeOK ==
  /\ verified \subseteq Users
  /\ members \in [Chats -> SUBSET Users]
  /\ request \in [Requests -> Request]
  /\ socket \in [Sockets -> Socket]
  /\ log \in [Chats -> Seq(Messages)]
  /\ lost \subseteq Messages
  /\ handler \in [Handlers -> Handler]

Init ==
  /\ verified = {} /\ lost = {}
  /\ members = [c \in Chats |-> {}]
  /\ request = [r \in Requests |-> NoRequest]
  /\ socket = [s \in Sockets |-> Offline]
  /\ log = [c \in Chats |-> <<>>]
  /\ handler = [h \in Handlers |-> NoHandler]

-----------------------------------------------------------------------------
(* getOrCreateChat *)

Fresh == {c \in Chats : members[c] = {}}

\* Mutant: the outer count is missing, so a larger group matches too.
ChatsByUsers_Subset(users) ==
  {c \in Chats : Cardinality(members[c] \cap users) = Cardinality(users)}

\* What getChatByUsers' query selects: the chats with as many rows for one of
\* the users as there are users, joined to all their rows, again as many.
ChatsByUsers(users) ==
  {c \in Chats : /\ Cardinality(members[c] \cap users) = Cardinality(users)
                 /\ Cardinality(members[c]) = Cardinality(users)}

SetRequest(r, v) == request' = [request EXCEPT ![r] = v]

\* The requester is one of the users.  AuthGuard lets verified users in.
\* Bound: ids are left for all requests.
PostChat(r, u, users) ==
  /\ request[r].pc = "idle" /\ u \in verified
  /\ Cardinality(Fresh) >= Cardinality(Requests)
  /\ SetRequest(r, [NoRequest EXCEPT !.pc = "find", !.users = users \cup {u}])
  /\ UNCHANGED <<verified, members, wire>>

\* Mutant: no chat is ever found.
FindChat_Never(r) ==
  /\ request[r].pc = "find"
  /\ SetRequest(r, [request[r] EXCEPT !.pc = "check", !.left = request[r].users])
  /\ UNCHANGED <<verified, members, wire>>

FindChat(r) ==
  /\ request[r].pc = "find"
  /\ LET found == ChatsByUsers(request[r].users)
     IN  \/ /\ found = {}
            /\ SetRequest(r, [request[r] EXCEPT !.pc = "check", !.left = request[r].users])
         \/ \E c \in found : SetRequest(r, [request[r] EXCEPT !.pc = "done", !.chat = c])
  /\ UNCHANGED <<verified, members, wire>>

\* Mutant: the loop breaks after the first user.
CheckUser_FirstOnly(r) ==
  /\ request[r].pc = "check"
  /\ \E u \in request[r].left :
       IF u \in verified
         THEN SetRequest(r, [request[r] EXCEPT !.pc = "create", !.left = {}])
         ELSE SetRequest(r, NoRequest)
  /\ UNCHANGED <<verified, members, wire>>

\* One turn of createChat's loop, in the order of the request's array.
CheckUser(r) ==
  /\ request[r].pc = "check"
  /\ \E u \in request[r].left :
       LET left == request[r].left \ {u}
       IN  IF u \in verified
             THEN SetRequest(r, [request[r] EXCEPT
                       !.left = left, !.pc = IF left = {} THEN "create" ELSE "check"])
             ELSE SetRequest(r, NoRequest)
  /\ UNCHANGED <<verified, members, wire>>

\* The nested create writes the chat and its ChatUser rows in one statement.
CreateChat(r) ==
  /\ request[r].pc = "create"
  /\ \E c \in Fresh :
       /\ members' = [members EXCEPT ![c] = request[r].users]
       /\ SetRequest(r, [request[r] EXCEPT !.pc = "done", !.chat = c])
  /\ UNCHANGED <<verified, wire>>

Answer(r) ==
  /\ request[r].pc = "done"
  /\ SetRequest(r, NoRequest)
  /\ UNCHANGED <<verified, members, wire>>

\* A query rejects; a create may have taken effect.
RequestFails(r) ==
  /\ request[r].pc # "idle"
  /\ SetRequest(r, NoRequest)
  /\ \/ UNCHANGED members
     \/ /\ request[r].pc = "create"
        /\ \E c \in Fresh : members' = [members EXCEPT ![c] = request[r].users]
  /\ UNCHANGED <<verified, wire>>

ActivateUser(u) ==
  /\ verified' = verified \cup {u}
  /\ UNCHANGED <<members, request, wire>>

-----------------------------------------------------------------------------
(* SessionIoAdapter, join_chat and the client's first page *)

SetSocket(s, v) == socket' = [socket EXCEPT ![s] = v]
SetHandler(h, v) == handler' = [handler EXCEPT ![h] = v]

\* Any logged-in user; the adapter does not ask whether they are verified.
Connect(s, u) ==
  /\ socket[s] = Offline
  /\ SetSocket(s, [Offline EXCEPT !.user = u])
  /\ UNCHANGED <<rest, log, lost, handler>>

\* Handlers of a closed socket run on, but no longer reach it.
Disconnect(s) ==
  /\ socket[s] # Offline
  /\ SetSocket(s, Offline)
  /\ handler' = [h \in Handlers |-> IF handler[h].socket = s
                                      THEN [handler[h] EXCEPT !.socket = NoSocket]
                                      ELSE handler[h]]
  /\ UNCHANGED <<rest, log, lost>>

JoinChat(h, s, c) ==
  /\ handler[h].pc = "idle" /\ socket[s] # Offline
  /\ SetHandler(h, [NoHandler EXCEPT !.pc = "guard", !.user = socket[s].user,
                                     !.socket = s, !.chat = c])
  /\ UNCHANGED <<rest, socket, log, lost>>

CheckAccess(h) == handler[h].user \in members[handler[h].chat]

Entered(s, rooms) ==
  [Offline EXCEPT !.user = socket[s].user, !.rooms = rooms, !.got = socket[s].got]

\* Mutant: the other rooms are not left.
Enter_KeepsRooms(h) ==
  /\ handler[h].pc = "guard"
  /\ LET s == handler[h].socket
     IN  IF CheckAccess(h) /\ s # NoSocket
           THEN SetSocket(s, Entered(s, socket[s].rooms \cup {handler[h].chat}))
           ELSE UNCHANGED socket
  /\ SetHandler(h, NoHandler)
  /\ UNCHANGED <<rest, log, lost>>

\* ChatAccessWsGuard answers; the socket leaves its room and enters the
\* chat's.  join does nothing on a closed socket.
Enter(h) ==
  /\ handler[h].pc = "guard"
  /\ LET s == handler[h].socket
     IN  IF CheckAccess(h) /\ s # NoSocket
           THEN SetSocket(s, Entered(s, {handler[h].chat}))
           ELSE UNCHANGED socket
  /\ SetHandler(h, NoHandler)
  /\ UNCHANGED <<rest, log, lost>>

\* Mutant: the start of the page is one too far back and not clamped.
FetchMessages_Unclamped(s) ==
  /\ \E c \in socket[s].rooms :
       LET n == Len(log[c])
       IN  SetSocket(s, [socket[s] EXCEPT !.fetched = TRUE, !.last = n,
                                          !.first = n - PageSize])
  /\ UNCHANGED <<rest, log, lost, handler>>

\* GET /chat/:id/messages for the chat the client is in: the newest page.
FetchMessages(s) ==
  /\ \E c \in socket[s].rooms :
       LET n == Len(log[c])
       IN  SetSocket(s, [socket[s] EXCEPT !.fetched = TRUE, !.last = n,
                  !.first = IF n > PageSize THEN n - PageSize + 1 ELSE 1])
  /\ UNCHANGED <<rest, log, lost, handler>>

-----------------------------------------------------------------------------
(* send_message *)

Logged == {m \in Messages : \E c \in Chats : \E i \in 1..Len(log[c]) : log[c][i] = m}

\* Ids are drawn when the handler starts.  Bound: one is left.
SendMessage(h, s) ==
  /\ handler[h].pc = "idle"
  /\ Cardinality(socket[s].rooms) = 1
  /\ \E c \in socket[s].rooms :
       \E m \in Messages \ (Logged \cup {handler[g].msg : g \in Handlers}) :
         SetHandler(h, [pc |-> "access", user |-> socket[s].user, socket |-> s,
                        chat |-> c, msg |-> m])
  /\ UNCHANGED <<rest, socket, log, lost>>

Access(h) ==
  /\ handler[h].pc = "access"
  /\ SetHandler(h, IF CheckAccess(h) THEN [handler[h] EXCEPT !.pc = "insert"] ELSE NoHandler)
  /\ UNCHANGED <<rest, socket, log, lost>>

Insert(h) == log' = [log EXCEPT ![handler[h].chat] = Append(@, handler[h].msg)]

InsertMessage(h) ==
  /\ handler[h].pc = "insert"
  /\ Insert(h)
  /\ SetHandler(h, [handler[h] EXCEPT !.pc = "emit"])
  /\ UNCHANGED <<rest, socket, lost>>

\* The room's sockets get the message m.
Deliver(c, m) ==
  socket' = [s \in Sockets |-> IF c \in socket[s].rooms
                                 THEN [socket[s] EXCEPT !.got = @ \cup {m}]
                                 ELSE socket[s]]

\* Mutants: the room is looked up again after the awaits; only the others in
\* the room are told, as socket.to would.
Emit_CurrentRoom(h) ==
  /\ handler[h].pc = "emit" /\ handler[h].socket # NoSocket
  /\ \E c \in socket[handler[h].socket].rooms : Deliver(c, handler[h].msg)
  /\ SetHandler(h, NoHandler)
  /\ UNCHANGED <<rest, log, lost>>

Emit_ToOthers(h) ==
  /\ handler[h].pc = "emit"
  /\ socket' = [s \in Sockets |->
                  IF handler[h].chat \in socket[s].rooms /\ s # handler[h].socket
                    THEN [socket[s] EXCEPT !.got = @ \cup {handler[h].msg}]
                    ELSE socket[s]]
  /\ SetHandler(h, NoHandler)
  /\ UNCHANGED <<rest, log, lost>>

\* The message goes to whoever is now in the room read before the awaits.
Emit(h) ==
  /\ handler[h].pc = "emit"
  /\ Deliver(handler[h].chat, handler[h].msg)
  /\ SetHandler(h, NoHandler)
  /\ UNCHANGED <<rest, log, lost>>

\* A query rejects; an insert may have taken effect.
HandlerFails(h) ==
  /\ handler[h].pc \in {"guard", "access", "insert"}
  /\ SetHandler(h, NoHandler)
  /\ \/ UNCHANGED <<log, lost>>
     \/ /\ handler[h].pc = "insert"
        /\ Insert(h)
        /\ lost' = lost \cup {handler[h].msg}
  /\ UNCHANGED <<rest, socket>>

\* Every connection is gone, with its rooms and its handlers.
Crash ==
  /\ request' = [r \in Requests |-> NoRequest]
  /\ socket' = [s \in Sockets |-> Offline]
  /\ handler' = [h \in Handlers |-> NoHandler]
  /\ UNCHANGED <<verified, members, log, lost>>

-----------------------------------------------------------------------------
Rest(r) ==
  \/ \E u \in Users, users \in (SUBSET Users) \ {{}} : PostChat(r, u, users)
  \/ FindChat(r) \/ CheckUser(r) \/ CreateChat(r) \/ Answer(r) \/ RequestFails(r)

Wire(h) ==
  \/ \E s \in Sockets : SendMessage(h, s) \/ \E c \in Chats \ Fresh : JoinChat(h, s, c)
  \/ Enter(h) \/ Access(h) \/ InsertMessage(h) \/ Emit(h) \/ HandlerFails(h)

Client(s) ==
  \/ \E u \in Users : Connect(s, u)
  \/ Disconnect(s)
  \/ FetchMessages(s)

Next ==
  \/ \E r \in Requests : Rest(r)
  \/ \E h \in Handlers : Wire(h)
  \/ \E s \in Sockets : Client(s)
  \/ \E u \in Users : ActivateUser(u)
  \/ Crash

Spec == Init /\ [][Next]_vars

-----------------------------------------------------------------------------
\* The two counts of getChatByUsers' query select the chats of exactly these
\* users.
FindsExactly ==
  \A users \in (SUBSET Users) \ {{}} :
    ChatsByUsers(users) = {c \in Chats : members[c] = users}

\* POST /chat answers with a chat of the users it was asked for, and all
\* members of a chat are verified.
ChatsAsAsked ==
  /\ \A r \in Requests : request[r].pc = "done" => members[request[r].chat] = request[r].users
  /\ \A c \in Chats : members[c] \subseteq verified

\* Requests that overlap between their search for a chat and its creation may
\* each create it; one that searches once the chat is there does not.
DuplicatesBounded ==
  \A users \in (SUBSET Users) \ {{}} :
    Cardinality({c \in Chats : members[c] = users}) <= Cardinality(Requests)

\* A socket is in one chat at most, although join_chat awaits its guard: the
\* 'multiple chats' error of send_message cannot happen.
OneRoom == \A s \in Sockets : Cardinality(socket[s].rooms) <= 1

\* Whoever is sent a message is a member of the chat it was saved to, even if
\* sender or receiver changed rooms while it was being saved.
DeliveredToMembers ==
  \A s \in Sockets : \A m \in socket[s].got :
    \E c \in Chats :
      /\ socket[s].user \in members[c]
      /\ \E i \in 1..Len(log[c]) : log[c][i] = m

\* A client that enters a chat and then fetches its newest page misses no
\* later message: each is on the page, was sent to it or is about to be.
\* The exception is an insert whose answer the server never got.
NoGap ==
  \A s \in Sockets : \A c \in socket[s].rooms :
    socket[s].fetched =>
      \A i \in socket[s].first..Len(log[c]) :
        \/ i <= socket[s].last
        \/ log[c][i] \in socket[s].got \cup lost \cup {handler[h].msg : h \in Handlers}
=============================================================================

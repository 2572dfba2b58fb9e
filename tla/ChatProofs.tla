---------------------------- MODULE ChatProofs ----------------------------
(***************************************************************************)
(* What Chat guarantees for any number of users, requests, sockets and     *)
(* handlers: POST /chat finds exactly the chat it is asked for, and the    *)
(* gateway delivers a message to members of its chat only.                 *)
(***************************************************************************)
EXTENDS Chat, FiniteSetTheorems, TLAPS

USE UsersAssumption, NullAssumption

\* A request in the loop has found everyone verified whom it no longer has to
\* look up; one that is done holds a chat of its users.
RequestOK(q, who, chats) ==
  /\ q.pc # "idle" => q.users # {}
  /\ q.pc = "check" => q.users \ q.left \subseteq who
  /\ q.pc = "create" => q.users \subseteq who
  /\ q.pc = "done" => q.chat \in Chats /\ chats[q.chat] = q.users

RequestsOK == \A r \in Requests : RequestOK(request[r], verified, members)

\* All members of a chat are verified.
MembersOK == \A c \in Chats : members[c] \subseteq verified

\* The message m is among messages.
Saved(m, messages) == \E i \in 1..Len(messages) : messages[i] = m

\* A handler acts for the user of its socket, in a chat the guard names and,
\* once it emits, with a message that is saved there.
HandlerOK(g, sockets, logs) ==
  /\ g.pc # "idle" => g.chat \in Chats /\ g.user \in Users
  /\ g.pc \in {"access", "insert", "emit"} => g.msg \in Messages
  /\ g.pc = "idle" => g.socket = NoSocket
  /\ g.socket \in Sockets => sockets[g.socket].user = g.user
  /\ g.pc = "emit" => Saved(g.msg, logs[g.chat])

HandlersOK == \A h \in Handlers : HandlerOK(handler[h], socket, log)

\* A socket is in one chat at most, of which its user is a member, and got
\* messages of such chats only.
SocketOK(x, chats, logs) ==
  /\ IsFiniteSet(x.rooms) /\ Cardinality(x.rooms) <= 1
  /\ x.user = NoUser => x = Offline
  /\ \A c \in x.rooms : x.user \in chats[c]
  /\ \A m \in x.got : \E c \in Chats : x.user \in chats[c] /\ Saved(m, logs[c])

SocketsOK == \A s \in Sockets : SocketOK(socket[s], members, log)

IInv == TypeOK /\ RequestsOK /\ MembersOK /\ HandlersOK /\ SocketsOK

-----------------------------------------------------------------------------
\* A set with as many elements as a finite set, all of them in it, is that set.
LEMMA SameCount ==
  ASSUME NEW S \in SUBSET Users, NEW T \in SUBSET Users
  PROVE  /\ Cardinality(S \cap T) = Cardinality(T) /\ Cardinality(S) = Cardinality(T) => S = T
         /\ S = T => Cardinality(S \cap T) = Cardinality(T) /\ Cardinality(S) = Cardinality(T)
<1>1. IsFiniteSet(S) /\ IsFiniteSet(T)
  BY FS_Subset
<1>2. S \cap T \in SUBSET S /\ S \cap T \in SUBSET T
  OBVIOUS
<1>3. /\ Cardinality(T) = Cardinality(S \cap T) => T = S \cap T
      /\ Cardinality(S) = Cardinality(S \cap T) => S = S \cap T
  BY <1>1, <1>2, FS_Subset
<1>4. S = T => S \cap T = T
  OBVIOUS
<1> QED BY <1>3, <1>4

\* The rooms of a socket that joined a chat.
LEMMA AtMostOne == \A c : IsFiniteSet({c}) /\ Cardinality({c}) <= 1
<1> TAKE c
<1>1. IsFiniteSet({c}) /\ Cardinality({c}) = 1
  BY FS_Singleton
<1>2. 1 <= 1
  OBVIOUS
<1> QED BY <1>1, <1>2

\* Whatever chats there are, the counts select the chats of these users.
LEMMA Counts == TypeOK => FindsExactly
<1> SUFFICES ASSUME TypeOK, NEW users \in (SUBSET Users) \ {{}}
             PROVE  ChatsByUsers(users) = {c \in Chats : members[c] = users}
  BY DEF FindsExactly
<1>1. ASSUME NEW c \in Chats
      PROVE  /\ Cardinality(members[c] \cap users) = Cardinality(users)
             /\ Cardinality(members[c]) = Cardinality(users)
             <=> members[c] = users
  BY SameCount DEF TypeOK
<1> QED BY <1>1 DEF ChatsByUsers

\* The strengthened invariant holds before the first request.
LEMMA InitIInv == Init => IInv
<1> SUFFICES ASSUME Init PROVE IInv
  OBVIOUS
<1> USE DEF Init, NoRequest, NoHandler, Offline
<1>1. TypeOK
  BY DEF TypeOK, Request, Socket, Handler
<1>2. RequestsOK /\ MembersOK /\ HandlersOK
  BY DEF RequestsOK, RequestOK, MembersOK, HandlersOK, HandlerOK
<1>3. IsFiniteSet({}) /\ Cardinality({}) <= 1
  BY FS_EmptySet
<1>4. \A s \in Sockets : socket[s] = Offline /\ socket[s].rooms = {} /\ socket[s].got = {}
  OBVIOUS
<1>5. SocketsOK
  BY <1>3, <1>4 DEF SocketsOK, SocketOK
<1> QED BY <1>1, <1>2, <1>5 DEF IInv

-----------------------------------------------------------------------------
(* getOrCreateChat *)

\* A step that leaves the sockets, the handlers and the logs alone, and the
\* chats that have members, keeps what they promise.
LEMMA WireKeeps ==
  ASSUME IInv, UNCHANGED wire,
         \A c \in Chats : members[c] # {} => members'[c] = members[c]
  PROVE  HandlersOK' /\ SocketsOK'
<1> USE DEF IInv, wire
<1>1. HandlersOK'
  BY DEF HandlersOK
<1>2. \A c \in Chats : \A u : u \in members[c] => u \in members'[c]
  OBVIOUS
<1>3. SocketsOK'
  BY <1>2 DEF SocketsOK, SocketOK, TypeOK, Socket
<1> QED BY <1>1, <1>3

\* The request that moves on to q leaves the others as they are.
LEMMA RequestMoves ==
  ASSUME TypeOK, RequestsOK, verified \subseteq verified',
         \A c \in Chats : members[c] # {} => members'[c] = members[c],
         NEW r \in Requests, NEW q \in Request, SetRequest(r, q), RequestOK(q, verified', members')
  PROVE  request' \in [Requests -> Request] /\ RequestsOK'
<1>1. request' \in [Requests -> Request] /\ request'[r] = q
  BY DEF TypeOK, SetRequest
<1>2. ASSUME NEW x \in Requests, x # r PROVE RequestOK(request'[x], verified', members')
  <2>1. request'[x] = request[x] /\ request[x] \in Request /\ RequestOK(request[x], verified, members)
    BY <1>2 DEF TypeOK, SetRequest, RequestsOK
  <2> QED BY <2>1 DEF RequestOK, Request
<1> QED BY <1>1, <1>2 DEF RequestsOK

\* Every step of a POST /chat request.
LEMMA RestStep ==
  ASSUME IInv, NEW r \in Requests, Rest(r)
  PROVE  IInv'
<1> USE DEF IInv
<1> DEFINE q0 == request[r]
           Grows == \A c \in Chats : members[c] # {} => members'[c] = members[c]
<1>1. UNCHANGED <<verified, wire>>
  BY DEF Rest, PostChat, FindChat, CheckUser, CreateChat, Answer, RequestFails
<1>2. q0 \in Request /\ RequestOK(q0, verified, members)
  BY DEF TypeOK, RequestsOK
<1>3. \E q \in Request : SetRequest(r, q) /\ RequestOK(q, verified', members')
  <2> USE <1>1, <1>2 DEF RequestOK, Request
  <2>1. ASSUME NEW u \in Users, NEW users \in (SUBSET Users) \ {{}}, PostChat(r, u, users)
        PROVE  <1>3!:
    <3> DEFINE q == [NoRequest EXCEPT !.pc = "find", !.users = users \cup {u}]
    <3>1. q.pc = "find" /\ q.users = users \cup {u} /\ q \in Request
      BY DEF NoRequest
    <3>2. q \in Request /\ RequestOK(q, verified', members')
      BY <3>1
    <3> QED BY <2>1, <3>2 DEF PostChat
  <2>2. CASE FindChat(r)
    <3>1. q0.users \in (SUBSET Users) \ {{}} /\ UNCHANGED members
      BY <2>2 DEF FindChat
    <3>2. ChatsByUsers(q0.users) = {c \in Chats : members[c] = q0.users}
      BY <3>1, Counts DEF FindsExactly
    <3>3. CASE SetRequest(r, [q0 EXCEPT !.pc = "check", !.left = q0.users])
      <4> DEFINE q == [q0 EXCEPT !.pc = "check", !.left = q0.users]
      <4>1. q.pc = "check" /\ q.users = q0.users /\ q.left = q0.users /\ q \in Request
        OBVIOUS
      <4>2. q \in Request /\ RequestOK(q, verified', members')
        BY <3>1, <4>1
      <4> QED BY <3>3, <4>2
    <3>4. ASSUME NEW c \in Chats, members[c] = q0.users,
                 SetRequest(r, [q0 EXCEPT !.pc = "done", !.chat = c])
          PROVE  <1>3!:
      <4> DEFINE q == [q0 EXCEPT !.pc = "done", !.chat = c]
      <4>1. q.pc = "done" /\ q.users = q0.users /\ q.chat = c /\ q \in Request
        OBVIOUS
      <4>2. q \in Request /\ RequestOK(q, verified', members')
        BY <3>1, <3>4, <4>1
      <4> QED BY <3>4, <4>2
    <3> QED BY <2>2, <3>2, <3>3, <3>4 DEF FindChat
  <2>3. CASE CheckUser(r)
    <3>1. PICK u \in q0.left :
             LET left == q0.left \ {u}
             IN  IF u \in verified
                   THEN SetRequest(r, [q0 EXCEPT
                          !.left = left, !.pc = IF left = {} THEN "create" ELSE "check"])
                   ELSE SetRequest(r, NoRequest)
      BY <2>3 DEF CheckUser
    <3>2. q0.pc = "check" /\ UNCHANGED members
      BY <2>3 DEF CheckUser
    <3> DEFINE q == [q0 EXCEPT !.left = q0.left \ {u},
                       !.pc = IF q0.left \ {u} = {} THEN "create" ELSE "check"]
    <3>3. u \in verified => q \in Request /\ RequestOK(q, verified', members')
      BY <3>2
    <3>4. NoRequest \in Request /\ RequestOK(NoRequest, verified', members')
      BY DEF NoRequest
    <3> QED BY <3>1, <3>3, <3>4
  <2>4. CASE CreateChat(r)
    <3>1. PICK c \in Fresh :
             /\ members' = [members EXCEPT ![c] = q0.users]
             /\ SetRequest(r, [q0 EXCEPT !.pc = "done", !.chat = c])
      BY <2>4 DEF CreateChat
    <3> DEFINE q == [q0 EXCEPT !.pc = "done", !.chat = c]
    <3>2. q \in Request /\ RequestOK(q, verified', members')
      BY <2>4, <3>1 DEF TypeOK, Fresh, CreateChat
    <3> QED BY <3>1, <3>2
  <2>5. CASE Answer(r) \/ RequestFails(r)
    <3>1. NoRequest \in Request /\ RequestOK(NoRequest, verified', members')
      BY DEF NoRequest
    <3> QED BY <2>5, <3>1 DEF Answer, RequestFails
  <2> QED BY <2>1, <2>2, <2>3, <2>4, <2>5 DEF Rest
<1>4. members' \in [Chats -> SUBSET Users] /\ MembersOK' /\ Grows
  <2>1. CASE UNCHANGED members
    BY <1>1, <2>1 DEF TypeOK, MembersOK
  <2>2. ASSUME NEW c \in Fresh, q0.pc = "create", members' = [members EXCEPT ![c] = q0.users]
        PROVE  <1>4!:
    BY <1>1, <1>2, <2>2 DEF TypeOK, MembersOK, Fresh, RequestOK, Request
  <2> QED BY <2>1, <2>2
          DEF Rest, PostChat, FindChat, CheckUser, CreateChat, Answer, RequestFails
<1>5. request' \in [Requests -> Request] /\ RequestsOK'
  BY <1>1, <1>3, <1>4, RequestMoves
<1>6. HandlersOK' /\ SocketsOK'
  BY <1>1, <1>4, WireKeeps
<1>7. TypeOK'
  BY <1>1, <1>4, <1>5 DEF TypeOK, wire
<1> QED BY <1>4, <1>5, <1>6, <1>7
-----------------------------------------------------------------------------
(* Sockets and their handlers *)

\* A step of the gateway that keeps each socket and each handler in order.
LEMMA WireMoves ==
  ASSUME IInv, UNCHANGED rest,
         socket' \in [Sockets -> Socket], handler' \in [Handlers -> Handler],
         log' \in [Chats -> Seq(Messages)], lost' \subseteq Messages,
         \A s \in Sockets : SocketOK(socket'[s], members, log'),
         \A h \in Handlers : HandlerOK(handler'[h], socket', log')
  PROVE  IInv'
<1> USE DEF IInv, rest
<1>1. TypeOK' /\ RequestsOK' /\ MembersOK'
  BY DEF TypeOK, RequestsOK, MembersOK
<1>2. SocketsOK' /\ HandlersOK'
  BY DEF SocketsOK, HandlersOK
<1> QED BY <1>1, <1>2

\* A message that is appended keeps those before it.
LEMMA AppendSaves ==
  ASSUME NEW S, NEW l \in Seq(S), NEW m \in S
  PROVE  /\ Saved(m, Append(l, m))
         /\ \A x : Saved(x, l) => Saved(x, Append(l, m))
<1>1. Len(Append(l, m)) = Len(l) + 1 /\ Append(l, m)[Len(l) + 1] = m /\ Len(l) \in Nat
  OBVIOUS
<1>2. \A i \in 1..Len(l) : Append(l, m)[i] = l[i]
  OBVIOUS
<1> QED BY <1>1, <1>2 DEF Saved

\* One handler moves on, and one log may have grown.
LEMMA HandlerMoves ==
  ASSUME IInv, UNCHANGED <<rest, socket>>, lost' \subseteq Messages,
         log' \in [Chats -> Seq(Messages)],
         \A c \in Chats : \A m : Saved(m, log[c]) => Saved(m, log'[c]),
         NEW h \in Handlers, NEW g \in Handler, SetHandler(h, g), HandlerOK(g, socket, log')
  PROVE  IInv'
<1> USE DEF IInv
<1>1. handler' \in [Handlers -> Handler] /\ handler'[h] = g
  BY DEF TypeOK, SetHandler
<1>2. \A s \in Sockets : SocketOK(socket'[s], members, log')
  BY DEF SocketsOK, SocketOK
<1>3. ASSUME NEW x \in Handlers, x # h PROVE HandlerOK(handler'[x], socket', log')
  <2>1. handler'[x] = handler[x] /\ handler[x] \in Handler /\ HandlerOK(handler[x], socket, log)
    BY <1>3 DEF TypeOK, SetHandler, HandlersOK
  <2> QED BY <2>1 DEF HandlerOK
<1>4. socket' \in [Sockets -> Socket]
  BY DEF TypeOK
<1> QED BY <1>1, <1>2, <1>3, <1>4, WireMoves

\* One socket changes its rooms and keeps its user.
LEMMA SocketMoves ==
  ASSUME IInv, UNCHANGED <<rest, log, lost>>,
         NEW s \in Sockets, NEW x \in Socket, SetSocket(s, x), x.user = socket[s].user,
         SocketOK(x, members, log), UNCHANGED handler \/ \E h \in Handlers : SetHandler(h, NoHandler)
  PROVE  IInv'
<1> USE DEF IInv
<1>1. NoHandler \in Handler /\ HandlerOK(NoHandler, socket', log')
  BY DEF NoHandler, Handler, HandlerOK
<1>2. socket' \in [Sockets -> Socket] /\ \A y \in Sockets : socket'[y].user = socket[y].user
  BY DEF TypeOK, SetSocket
<1>3. \A y \in Sockets : SocketOK(socket'[y], members, log')
  BY DEF TypeOK, SetSocket, SocketsOK
<1>4. \A h \in Handlers : handler'[h] \in {handler[h], NoHandler}
  BY DEF TypeOK, SetHandler
<1>5. handler' \in [Handlers -> Handler]
  BY <1>1 DEF TypeOK, SetHandler
<1>6. \A h \in Handlers : HandlerOK(handler[h], socket', log')
  BY <1>2 DEF HandlersOK, HandlerOK
<1>7. log' \in [Chats -> Seq(Messages)] /\ lost' \subseteq Messages
  BY DEF TypeOK
<1> QED BY <1>1, <1>2, <1>3, <1>4, <1>5, <1>6, <1>7, WireMoves

\* Every step of a websocket handler.
LEMMA WireStep ==
  ASSUME IInv, NEW h \in Handlers, Wire(h)
  PROVE  IInv'
<1> USE DEF IInv
<1> DEFINE g0 == handler[h]
<1>1. g0 \in Handler /\ HandlerOK(g0, socket, log)
  BY DEF TypeOK, HandlersOK
<1>2. NoHandler \in Handler /\ HandlerOK(NoHandler, socket, log) /\ HandlerOK(NoHandler, socket, log')
  BY DEF NoHandler, Handler, HandlerOK
<1>3. ASSUME NEW s \in Sockets, socket[s] # Offline PROVE socket[s].user \in Users
  BY <1>3 DEF TypeOK, Socket, SocketsOK, SocketOK
<1>4. UNCHANGED log => \A c \in Chats : \A m : Saved(m, log[c]) => Saved(m, log'[c])
  OBVIOUS
<1>5. UNCHANGED <<log, lost>> => log' \in [Chats -> Seq(Messages)] /\ lost' \subseteq Messages
  BY DEF TypeOK
<1>6. ASSUME NEW s \in Sockets, NEW c \in Chats \ Fresh, JoinChat(h, s, c) PROVE IInv'
  <2> DEFINE g == [NoHandler EXCEPT !.pc = "guard", !.user = socket[s].user,
                                    !.socket = s, !.chat = c]
  <2>1. g.pc = "guard" /\ g.user = socket[s].user /\ g.socket = s /\ g.chat = c /\ g.msg = NoMessage
    BY DEF NoHandler
  <2>2. socket[s].user \in Users
    BY <1>3, <1>6 DEF JoinChat
  <2>3. g \in Handler
    BY <2>2 DEF NoHandler, Handler
  <2>4. HandlerOK(g, socket, log')
    BY <2>1, <2>2 DEF HandlerOK
  <2> QED BY <1>4, <1>5, <1>6, <2>3, <2>4, HandlerMoves DEF JoinChat, rest
<1>7. ASSUME NEW s \in Sockets, SendMessage(h, s) PROVE IInv'
  <2>1. PICK c \in socket[s].rooms, m \in Messages :
          SetHandler(h, [pc |-> "access", user |-> socket[s].user, socket |-> s,
                         chat |-> c, msg |-> m])
    BY <1>7 DEF SendMessage
  <2>2. c \in Chats /\ socket[s].user \in Users
    BY DEF TypeOK, Socket, SocketsOK, SocketOK
  <2> DEFINE g == [pc |-> "access", user |-> socket[s].user, socket |-> s,
                   chat |-> c, msg |-> m]
  <2>3. g \in Handler /\ HandlerOK(g, socket, log')
    BY <2>2 DEF Handler, HandlerOK
  <2> QED BY <1>4, <1>5, <1>7, <2>1, <2>3, HandlerMoves DEF SendMessage
<1>8. CASE Enter(h)
  <2> USE <1>8 DEF Enter
  <2>1. g0.chat \in Chats /\ g0.user \in Users
    BY <1>1 DEF HandlerOK
  <2>2. CASE CheckAccess(h) /\ g0.socket # NoSocket
    <3> DEFINE s == g0.socket
               x == Entered(s, {g0.chat})
    <3>1. s \in Sockets /\ socket[s].user = g0.user /\ g0.user \in members[g0.chat]
      BY <1>1, <2>2 DEF Handler, HandlerOK, CheckAccess
    <3>2. SocketOK(socket[s], members, log) /\ socket[s] \in Socket
      BY <3>1 DEF SocketsOK, TypeOK
    <3>3. x \in Socket /\ x.user = socket[s].user /\ x.rooms = {g0.chat} /\ x.got = socket[s].got
      BY <2>1, <3>2 DEF Entered, Offline, Socket
    <3>4. IsFiniteSet({g0.chat}) /\ Cardinality({g0.chat}) <= 1
      BY AtMostOne
    <3>5. SocketOK(x, members, log)
      BY <2>1, <3>1, <3>2, <3>3, <3>4 DEF SocketOK
    <3>6. SetSocket(s, x) /\ SetHandler(h, NoHandler) /\ UNCHANGED <<rest, log, lost>>
      BY <2>2
    <3> HIDE DEF x
    <3> QED BY <3>1, <3>3, <3>5, <3>6, SocketMoves
  <2>3. CASE ~(CheckAccess(h) /\ g0.socket # NoSocket)
    BY <1>2, <1>4, <1>5, <2>3, HandlerMoves
  <2> QED BY <2>2, <2>3
<1>9. CASE Access(h)
  <2> DEFINE g == [g0 EXCEPT !.pc = "insert"]
  <2>1. g \in Handler /\ HandlerOK(g, socket, log')
    BY <1>1, <1>9 DEF Access, Handler, HandlerOK
  <2> QED BY <1>2, <1>4, <1>5, <1>9, <2>1, HandlerMoves DEF Access
<1>10. ASSUME g0.pc = "insert", Insert(h)
       PROVE  /\ log' \in [Chats -> Seq(Messages)]
              /\ \A c \in Chats : \A m : Saved(m, log[c]) => Saved(m, log'[c])
              /\ g0.msg \in Messages /\ g0.chat \in Chats /\ Saved(g0.msg, log'[g0.chat])
  <2>1. g0.msg \in Messages /\ g0.chat \in Chats
    BY <1>1, <1>10 DEF HandlerOK
  <2>2. log' = [log EXCEPT ![g0.chat] = Append(log[g0.chat], g0.msg)]
    BY <1>10 DEF Insert
  <2>3. \A c \in Chats : log[c] \in Seq(Messages)
    BY DEF TypeOK
  <2>4. log' \in [Chats -> Seq(Messages)]
    BY <2>1, <2>2, <2>3 DEF TypeOK
  <2>5. /\ log'[g0.chat] = Append(log[g0.chat], g0.msg)
        /\ \A c \in Chats : c # g0.chat => log'[c] = log[c]
    BY <2>1, <2>2 DEF TypeOK
  <2>6. /\ Saved(g0.msg, log'[g0.chat])
        /\ \A m : Saved(m, log[g0.chat]) => Saved(m, log'[g0.chat])
    BY <2>1, <2>3, <2>5, AppendSaves
  <2> QED BY <2>1, <2>4, <2>5, <2>6
<1>11. CASE InsertMessage(h)
  <2> DEFINE g == [g0 EXCEPT !.pc = "emit"]
  <2>1. g0.pc = "insert" /\ Insert(h)
    BY <1>11 DEF InsertMessage
  <2>2. g \in Handler /\ HandlerOK(g, socket, log')
    BY <1>1, <1>10, <2>1 DEF Handler, HandlerOK
  <2>3. lost' \subseteq Messages
    BY <1>11 DEF InsertMessage, TypeOK
  <2> QED BY <1>10, <1>11, <2>1, <2>2, <2>3, HandlerMoves DEF InsertMessage
<1>12. CASE Emit(h)
  <2> DEFINE c0 == g0.chat
             m0 == g0.msg
  <2>1. c0 \in Chats /\ m0 \in Messages /\ Saved(m0, log[c0])
    BY <1>1, <1>12 DEF HandlerOK, Emit
  <2>2. /\ Deliver(c0, m0) /\ SetHandler(h, NoHandler) /\ UNCHANGED <<rest, log, lost>>
    BY <1>12 DEF Emit
  <2>3. ASSUME NEW s \in Sockets
        PROVE  /\ socket'[s] \in Socket /\ socket'[s].user = socket[s].user
               /\ SocketOK(socket'[s], members, log')
    <3>1. socket[s] \in Socket /\ SocketOK(socket[s], members, log)
      BY DEF TypeOK, SocketsOK
    <3>2. CASE c0 \notin socket[s].rooms
      BY <2>2, <3>1, <3>2 DEF Deliver
    <3>3. CASE c0 \in socket[s].rooms
      <4> DEFINE x == [socket[s] EXCEPT !.got = @ \cup {m0}]
      <4>1. socket'[s] = x /\ log' = log
        BY <2>2, <3>3 DEF Deliver
      <4>2. /\ x \in Socket /\ x.user = socket[s].user /\ x.rooms = socket[s].rooms
            /\ x.got = socket[s].got \cup {m0}
        BY <2>1, <3>1 DEF Socket
      <4>3. socket[s].user \in members[c0] /\ socket[s].user \in Users
        BY <2>1, <3>1, <3>3 DEF SocketOK, TypeOK
      <4> HIDE DEF x
      <4>4. SocketOK(x, members, log)
        BY <2>1, <3>1, <4>2, <4>3 DEF SocketOK
      <4> QED BY <4>1, <4>2, <4>4
    <3> QED BY <3>2, <3>3
  <2>4. socket' \in [Sockets -> Socket]
    BY <2>2, <2>3 DEF Deliver
  <2>5. handler' \in [Handlers -> Handler] /\ \A k \in Handlers : handler'[k] \in {handler[k], NoHandler}
    BY <1>2, <2>2 DEF TypeOK, SetHandler
  <2>6. \A k \in Handlers : HandlerOK(handler'[k], socket', log')
    BY <1>2, <2>2, <2>3, <2>5 DEF HandlersOK, HandlerOK, NoHandler
  <2>7. log' \in [Chats -> Seq(Messages)] /\ lost' \subseteq Messages
    BY <1>5, <2>2
  <2> QED BY <2>2, <2>3, <2>4, <2>5, <2>6, <2>7, WireMoves
<1>13. CASE HandlerFails(h)
  <2>1. CASE UNCHANGED <<log, lost>>
    BY <1>2, <1>4, <1>5, <1>13, <2>1, HandlerMoves DEF HandlerFails, rest
  <2>2. CASE g0.pc = "insert" /\ Insert(h) /\ lost' = lost \cup {g0.msg}
    <3>1. lost' \subseteq Messages
      BY <1>10, <2>2 DEF TypeOK
    <3> QED BY <1>2, <1>10, <1>13, <2>2, <3>1, HandlerMoves DEF HandlerFails
  <2> QED BY <1>13, <2>1, <2>2 DEF HandlerFails
<1> QED BY <1>6, <1>7, <1>8, <1>9, <1>11, <1>12, <1>13 DEF Wire

\* Sockets that connect, close and fetch.
LEMMA ClientStep ==
  ASSUME IInv, NEW s \in Sockets, Client(s)
  PROVE  IInv'
<1> USE DEF IInv
<1>1. Offline \in Socket /\ SocketOK(Offline, members, log)
  BY FS_EmptySet DEF Offline, Socket, SocketOK
<1>2. UNCHANGED <<log, lost>> => log' \in [Chats -> Seq(Messages)] /\ lost' \subseteq Messages
  BY DEF TypeOK
<1>3. ASSUME NEW u \in Users, Connect(s, u) PROVE IInv'
  <2> DEFINE x == [Offline EXCEPT !.user = u]
  <2>1. x \in Socket /\ SocketOK(x, members, log)
    BY <1>1 DEF Offline, Socket, SocketOK
  <2>2. socket' \in [Sockets -> Socket] /\ \A y \in Sockets : SocketOK(socket'[y], members, log')
    BY <1>3, <2>1 DEF Connect, SetSocket, TypeOK, SocketsOK
  <2>3. ASSUME NEW h \in Handlers PROVE HandlerOK(handler'[h], socket', log')
    <3>1. HandlerOK(handler[h], socket, log) /\ handler[h] \in Handler
      BY DEF HandlersOK, TypeOK
    <3>2. handler[h].socket # s
      BY <1>3, <3>1 DEF Connect, Offline, HandlerOK, Handler
    <3> QED BY <1>3, <3>1, <3>2 DEF Connect, SetSocket, HandlerOK, TypeOK
  <2>4. handler' \in [Handlers -> Handler]
    BY <1>3 DEF Connect, TypeOK
  <2> QED BY <1>2, <1>3, <2>2, <2>3, <2>4, WireMoves DEF Connect
<1>4. CASE Disconnect(s)
  <2>1. socket' \in [Sockets -> Socket] /\ \A y \in Sockets : SocketOK(socket'[y], members, log')
    BY <1>1, <1>4 DEF Disconnect, SetSocket, TypeOK, SocketsOK
  <2>2. ASSUME NEW h \in Handlers
        PROVE  handler'[h] \in Handler /\ HandlerOK(handler'[h], socket', log')
    <3>1. HandlerOK(handler[h], socket, log) /\ handler[h] \in Handler
      BY DEF HandlersOK, TypeOK
    <3>2. CASE handler[h].socket = s
      <4> DEFINE g == [handler[h] EXCEPT !.socket = NoSocket]
      <4>1. handler'[h] = g /\ log' = log
        BY <1>4, <3>2 DEF Disconnect
      <4>2. /\ g \in Handler /\ g.pc = handler[h].pc /\ g.user = handler[h].user
            /\ g.chat = handler[h].chat /\ g.msg = handler[h].msg /\ g.socket = NoSocket
        BY <3>1 DEF Handler
      <4> QED BY <3>1, <4>1, <4>2 DEF HandlerOK
    <3>3. CASE handler[h].socket # s
      BY <1>4, <3>1, <3>3 DEF Disconnect, SetSocket, HandlerOK, TypeOK
    <3> QED BY <3>2, <3>3
  <2>3. handler' \in [Handlers -> Handler]
    BY <1>4, <2>2 DEF Disconnect
  <2> QED BY <1>2, <1>4, <2>1, <2>2, <2>3, WireMoves DEF Disconnect
<1>5. CASE FetchMessages(s)
  <2>1. PICK c \in socket[s].rooms :
          SetSocket(s, [socket[s] EXCEPT !.fetched = TRUE, !.last = Len(log[c]),
             !.first = IF Len(log[c]) > PageSize THEN Len(log[c]) - PageSize + 1 ELSE 1])
    BY <1>5 DEF FetchMessages
  <2> DEFINE x == [socket[s] EXCEPT !.fetched = TRUE, !.last = Len(log[c]),
             !.first = IF Len(log[c]) > PageSize THEN Len(log[c]) - PageSize + 1 ELSE 1]
  <2>2. socket[s] \in Socket /\ SocketOK(socket[s], members, log)
    BY DEF TypeOK, SocketsOK
  <2>3. c \in Chats /\ Len(log[c]) \in Nat
    BY <2>2 DEF Socket, TypeOK
  <2>4. (IF Len(log[c]) > PageSize THEN Len(log[c]) - PageSize + 1 ELSE 1) \in Nat
    BY <2>3, PageAssumption
  <2>5. /\ x \in Socket /\ x.user = socket[s].user /\ x.rooms = socket[s].rooms
        /\ x.got = socket[s].got
    BY <2>2, <2>3, <2>4 DEF Socket
  <2>6. socket[s].user # NoUser
    BY <2>2, <2>3 DEF SocketOK, TypeOK
  <2> HIDE DEF x
  <2>7. SocketOK(x, members, log)
    BY <2>2, <2>5, <2>6 DEF SocketOK
  <2>8. SetSocket(s, x)
    BY <2>1 DEF x
  <2> QED BY <1>5, <2>5, <2>7, <2>8, SocketMoves DEF FetchMessages
<1> QED BY <1>3, <1>4, <1>5 DEF Client

\* Every step of the system preserves the strengthened invariant.
LEMMA NextIInv == IInv /\ [Next]_vars => IInv'
<1> SUFFICES ASSUME IInv, [Next]_vars PROVE IInv'
  OBVIOUS
<1> USE DEF IInv
<1>1. ASSUME NEW u \in Users, ActivateUser(u) PROVE IInv'
  <2>1. HandlersOK' /\ SocketsOK'
    BY <1>1, WireKeeps DEF ActivateUser
  <2>2. RequestsOK' /\ MembersOK'
    BY <1>1 DEF ActivateUser, RequestsOK, RequestOK, MembersOK
  <2>3. TypeOK'
    BY <1>1 DEF ActivateUser, wire, TypeOK
  <2> QED BY <2>1, <2>2, <2>3
<1>2. CASE Crash
  <2>1. NoHandler \in Handler /\ NoRequest \in Request /\ Offline \in Socket
    BY DEF NoHandler, Handler, NoRequest, Request, Offline, Socket
  <2>2. TypeOK' /\ MembersOK'
    BY <1>2, <2>1 DEF Crash, TypeOK, MembersOK
  <2>3. RequestsOK' /\ HandlersOK'
    BY <1>2 DEF Crash, RequestsOK, RequestOK, NoRequest, HandlersOK, HandlerOK, NoHandler
  <2>4. SocketOK(Offline, members, log)
    BY FS_EmptySet DEF Offline, SocketOK
  <2>5. SocketsOK'
    BY <1>2, <2>4 DEF Crash, SocketsOK
  <2> QED BY <2>2, <2>3, <2>5
<1>3. CASE UNCHANGED vars
  BY <1>3 DEF vars, rest, wire, TypeOK, RequestsOK, MembersOK, HandlersOK, SocketsOK
<1> QED BY <1>1, <1>2, <1>3, RestStep, WireStep, ClientStep DEF Next

\* IInv is an invariant of the specification.
THEOREM Invariance == Spec => []IInv
<1> QED BY InitIInv, NextIInv, PTL DEF Spec

-----------------------------------------------------------------------------
\* Chats, requests, sockets, handlers and logs always have their types.
THEOREM ChatTypeCorrect == Spec => []TypeOK
<1>1. IInv => TypeOK
  BY DEF IInv
<1> QED BY <1>1, Invariance, PTL

\* The two counts of getChatByUsers' query select the chats of exactly the
\* users that were asked for, for any number of users and chats.
THEOREM QueryFindsExactly == Spec => []FindsExactly
<1> QED BY Counts, ChatTypeCorrect, PTL

\* Whatever requests are in flight, POST /chat answers with a chat of exactly
\* the users it was asked for, and only verified users become members.
THEOREM AnswersAsAsked == Spec => []ChatsAsAsked
<1>1. IInv => ChatsAsAsked
  BY DEF IInv, RequestsOK, RequestOK, MembersOK, ChatsAsAsked
<1> QED BY <1>1, Invariance, PTL

\* However many join_chat handlers await their guards, a socket is in one
\* chat at most.
THEOREM OneRoomHolds == Spec => []OneRoom
<1>1. IInv => OneRoom
  BY DEF IInv, SocketsOK, SocketOK, OneRoom
<1> QED BY <1>1, Invariance, PTL

\* A message reaches members of the chat it was saved to only, although the
\* room is read before the membership check and the insert are awaited.
THEOREM DeliveryIsPrivate == Spec => []DeliveredToMembers
<1>1. IInv => DeliveredToMembers
  BY DEF IInv, SocketsOK, SocketOK, Saved, DeliveredToMembers
<1> QED BY <1>1, Invariance, PTL

-----------------------------------------------------------------------------
(* How many chats the same users can end up with.  A request that did not  *)
(* find one and has still to create it counts as well.                     *)

ChatsOf(users) == {c \in Chats : members[c] = users}
Waiting(users) ==
  {r \in Requests : request[r].users = users /\ request[r].pc \in {"check", "create"}}

AtMost(users) ==
  /\ IsFiniteSet(ChatsOf(users))
  /\ Cardinality(ChatsOf(users)) + Cardinality(Waiting(users)) <= Cardinality(Requests)

Bounded == \A users \in (SUBSET Users) \ {{}} : AtMost(users)

\* Everything that is counted is finite.
LEMMA WaitingIs ==
  ASSUME NEW users
  PROVE  /\ IsFiniteSet(Waiting(users)) /\ Cardinality(Waiting(users)) \in Nat
         /\ Cardinality(Waiting(users)) <= Cardinality(Requests)
         /\ Cardinality(Requests) \in Nat
<1>1. Waiting(users) \subseteq Requests
  BY DEF Waiting
<1> QED BY <1>1, RequestsAssumption, FS_Subset, FS_CardinalityType

\* No chat is added for these users, and nobody begins to wait for one.
LEMMA NoMoreChats ==
  ASSUME NEW users, AtMost(users),
         ChatsOf(users)' = ChatsOf(users), Waiting(users)' \subseteq Waiting(users)
  PROVE  AtMost(users)'
<1>1. Cardinality(Waiting(users)') <= Cardinality(Waiting(users))
      /\ Cardinality(Waiting(users)') \in Nat
  BY WaitingIs, FS_Subset, FS_CardinalityType
<1>2. Cardinality(ChatsOf(users)) \in Nat
  BY FS_CardinalityType DEF AtMost
<1> QED BY <1>1, <1>2, WaitingIs DEF AtMost

\* A chat is created by a request that waited.
LEMMA OneMoreChat ==
  ASSUME IInv, Bounded, NEW r \in Requests, request[r].pc = "create",
         NEW c \in Fresh, members' = [members EXCEPT ![c] = request[r].users],
         \A x \in Requests \ {r} : request'[x] = request[x],
         request'[r].pc \notin {"check", "create"}
  PROVE  Bounded'
<1>0. PICK mine : mine = request[r].users
  OBVIOUS
<1>1. /\ members \in [Chats -> SUBSET Users] /\ c \in Chats /\ members[c] = {}
      /\ mine \in (SUBSET Users) \ {{}}
  BY <1>0 DEF IInv, TypeOK, Request, RequestsOK, RequestOK, Fresh
<1>2. \A users \in (SUBSET Users) \ {{}} : Waiting(users)' \subseteq Waiting(users) \ {r}
  BY DEF Waiting
<1>3. ASSUME NEW users \in (SUBSET Users) \ {{}}, users # mine PROVE AtMost(users)'
  <2>1. ChatsOf(users)' = ChatsOf(users)
    BY <1>0, <1>1, <1>3 DEF ChatsOf
  <2> QED BY <1>2, <2>1, NoMoreChats DEF Bounded
<1>4. AtMost(mine)'
  <2>1. ChatsOf(mine)' = ChatsOf(mine) \cup {c} /\ c \notin ChatsOf(mine)
    BY <1>0, <1>1 DEF ChatsOf
  <2>2. AtMost(mine)
    BY <1>1 DEF Bounded
  <2>3. /\ IsFiniteSet(ChatsOf(mine)') /\ Cardinality(ChatsOf(mine)) \in Nat
        /\ Cardinality(ChatsOf(mine)') = Cardinality(ChatsOf(mine)) + 1
    BY <2>1, <2>2, FS_AddElement, FS_CardinalityType DEF AtMost
  <2>4. r \in Waiting(mine)
    BY <1>0 DEF Waiting
  <2>5. /\ IsFiniteSet(Waiting(mine) \ {r})
        /\ Cardinality(Waiting(mine) \ {r}) = Cardinality(Waiting(mine)) - 1
    BY <2>4, WaitingIs, FS_RemoveElement
  <2>6. Cardinality(Waiting(mine)') <= Cardinality(Waiting(mine)) - 1
        /\ Cardinality(Waiting(mine)') \in Nat
    BY <1>1, <1>2, <2>5, FS_Subset, FS_CardinalityType
  <2> QED BY <2>2, <2>3, <2>6, WaitingIs DEF AtMost
<1> QED BY <1>3, <1>4 DEF Bounded

\* A request that found no chat begins to wait: there is none yet.
LEMMA FirstToWait ==
  ASSUME IInv, Bounded, NEW r \in Requests, UNCHANGED members,
         ChatsByUsers(request[r].users) = {}, request[r].pc = "find",
         \A x \in Requests \ {r} : request'[x] = request[x],
         request'[r].users = request[r].users
  PROVE  Bounded'
<1>0. PICK mine : mine = request[r].users
  OBVIOUS
<1>1. mine \in (SUBSET Users) \ {{}}
  BY <1>0 DEF IInv, TypeOK, Request, RequestsOK, RequestOK
<1>2. \A users : ChatsOf(users)' = ChatsOf(users)
  BY DEF ChatsOf
<1>3. ASSUME NEW users \in (SUBSET Users) \ {{}}, users # mine PROVE AtMost(users)'
  <2>1. Waiting(users)' \subseteq Waiting(users)
    BY <1>0, <1>3 DEF Waiting
  <2> QED BY <1>2, <2>1, NoMoreChats DEF Bounded
<1>4. AtMost(mine)'
  <2>1. ChatsOf(mine) = {}
    BY <1>0, <1>1, Counts DEF IInv, FindsExactly, ChatsOf
  <2>2. Waiting(mine)' \subseteq Requests
    BY DEF Waiting
  <2>3. IsFiniteSet(Waiting(mine)') /\ Cardinality(Waiting(mine)') <= Cardinality(Requests)
    BY <2>2, RequestsAssumption, FS_Subset
  <2>4. Cardinality(Waiting(mine)') \in Nat /\ Cardinality(Requests) \in Nat
    BY <2>3, RequestsAssumption, FS_CardinalityType
  <2>5. IsFiniteSet({}) /\ Cardinality({}) = 0
    BY FS_EmptySet
  <2> QED BY <1>2, <2>1, <2>3, <2>4, <2>5 DEF AtMost
<1> QED BY <1>3, <1>4 DEF Bounded

\* Every step keeps the count within the number of requests.
LEMMA NextBounded == IInv /\ Bounded /\ [Next]_vars => Bounded'
<1> SUFFICES ASSUME IInv, Bounded, [Next]_vars PROVE Bounded'
  OBVIOUS
<1>0. request \in [Requests -> Request] /\ NoRequest.pc = "idle"
  BY DEF IInv, TypeOK, NoRequest
<1>1. ASSUME UNCHANGED members,
             \A x \in Requests : request'[x].pc \in {"check", "create"} =>
               request[x].pc \in {"check", "create"} /\ request'[x].users = request[x].users
      PROVE  Bounded'
  <2>1. \A users : ChatsOf(users)' = ChatsOf(users) /\ Waiting(users)' \subseteq Waiting(users)
    BY <1>1 DEF ChatsOf, Waiting
  <2> QED BY <2>1, NoMoreChats DEF Bounded
<1>2. ASSUME NEW r \in Requests, NEW q, SetRequest(r, q)
      PROVE  request'[r] = q /\ \A x \in Requests \ {r} : request'[x] = request[x]
  BY <1>0, <1>2 DEF SetRequest
<1>3. ASSUME NEW r \in Requests, NEW u, NEW users, PostChat(r, u, users) PROVE Bounded'
  <2> DEFINE q == [NoRequest EXCEPT !.pc = "find", !.users = users \cup {u}]
  <2>1. q.pc = "find" /\ SetRequest(r, q) /\ UNCHANGED members
    BY <1>3 DEF NoRequest, PostChat
  <2> HIDE DEF q
  <2> QED BY <1>1, <1>2, <2>1
<1>4. ASSUME NEW r \in Requests, FindChat(r) PROVE Bounded'
  <2>1. request[r].pc = "find" /\ UNCHANGED members /\ request[r] \in Request
    BY <1>0, <1>4 DEF FindChat
  <2>2. ASSUME NEW c, SetRequest(r, [request[r] EXCEPT !.pc = "done", !.chat = c])
        PROVE  Bounded'
    <3> DEFINE q == [request[r] EXCEPT !.pc = "done", !.chat = c]
    <3>1. q.pc = "done" /\ SetRequest(r, q)
      BY <2>1, <2>2 DEF Request
    <3> HIDE DEF q
    <3> QED BY <1>1, <1>2, <2>1, <3>1
  <2>3. ASSUME ChatsByUsers(request[r].users) = {},
               SetRequest(r, [request[r] EXCEPT !.pc = "check", !.left = request[r].users])
        PROVE  Bounded'
    <3> DEFINE q == [request[r] EXCEPT !.pc = "check", !.left = request[r].users]
    <3>1. q.users = request[r].users /\ SetRequest(r, q)
      BY <2>1, <2>3 DEF Request
    <3> HIDE DEF q
    <3> QED BY <1>2, <2>1, <2>3, <3>1, FirstToWait
  <2> QED BY <1>4, <2>2, <2>3 DEF FindChat
<1>5. ASSUME NEW r \in Requests, CheckUser(r) PROVE Bounded'
  <2>1. request[r].pc = "check" /\ UNCHANGED members /\ request[r] \in Request
    BY <1>0, <1>5 DEF CheckUser
  <2>2. \E l, pc : SetRequest(r, NoRequest)
                     \/ SetRequest(r, [request[r] EXCEPT !.left = l, !.pc = pc])
    BY <1>5 DEF CheckUser
  <2>3. CASE SetRequest(r, NoRequest)
    BY <1>0, <1>1, <1>2, <2>1, <2>3
  <2>4. ASSUME NEW l, NEW pc, SetRequest(r, [request[r] EXCEPT !.left = l, !.pc = pc])
        PROVE  Bounded'
    <3> DEFINE q == [request[r] EXCEPT !.left = l, !.pc = pc]
    <3>1. q.users = request[r].users /\ SetRequest(r, q)
      BY <2>1, <2>4 DEF Request
    <3> HIDE DEF q
    <3> QED BY <1>1, <1>2, <2>1, <3>1
  <2> QED BY <2>2, <2>3, <2>4
<1>6. ASSUME NEW r \in Requests, CreateChat(r) PROVE Bounded'
  <2>1. PICK c \in Fresh : /\ members' = [members EXCEPT ![c] = request[r].users]
                           /\ SetRequest(r, [request[r] EXCEPT !.pc = "done", !.chat = c])
    BY <1>6 DEF CreateChat
  <2> DEFINE q == [request[r] EXCEPT !.pc = "done", !.chat = c]
  <2>2. q.pc = "done" /\ SetRequest(r, q) /\ request[r].pc = "create"
    BY <1>0, <1>6, <2>1 DEF CreateChat, Request
  <2> HIDE DEF q
  <2> QED BY <1>2, <2>1, <2>2, OneMoreChat
<1>7. ASSUME NEW r \in Requests, Answer(r) \/ RequestFails(r) PROVE Bounded'
  <2>1. SetRequest(r, NoRequest)
    BY <1>7 DEF Answer, RequestFails
  <2>2. CASE UNCHANGED members
    BY <1>0, <1>1, <1>2, <2>1, <2>2
  <2>3. ASSUME request[r].pc = "create", NEW c \in Fresh,
               members' = [members EXCEPT ![c] = request[r].users]
        PROVE  Bounded'
    BY <1>0, <1>2, <2>1, <2>3, OneMoreChat
  <2> QED BY <1>7, <2>2, <2>3 DEF Answer, RequestFails
<1>8. CASE Crash
  BY <1>0, <1>1, <1>8 DEF Crash
<1>9. CASE UNCHANGED <<members, request>>
  BY <1>1, <1>9
<1>10. ASSUME NEW h, Wire(h) PROVE UNCHANGED <<members, request>>
  BY <1>10 DEF Wire, SendMessage, JoinChat, Enter, Access, InsertMessage, Emit, HandlerFails, rest
<1>11. ASSUME NEW s, Client(s) PROVE UNCHANGED <<members, request>>
  BY <1>11 DEF Client, Connect, Disconnect, FetchMessages, rest
<1> QED BY <1>3, <1>4, <1>5, <1>6, <1>7, <1>8, <1>9, <1>10, <1>11
        DEF Next, Rest, ActivateUser, vars, rest

\* Requests for the same users that are in flight together may each create a
\* chat, but together they create no more than there are requests, ever.
THEOREM DuplicatesAreBounded == Spec => []DuplicatesBounded
<1>1. Init => Bounded
  <2> SUFFICES ASSUME Init, NEW users \in (SUBSET Users) \ {{}} PROVE AtMost(users)
    BY DEF Bounded
  <2>1. ChatsOf(users) = {} /\ Waiting(users) = {}
    BY DEF Init, ChatsOf, Waiting, NoRequest
  <2>2. IsFiniteSet({}) /\ Cardinality({}) = 0
    BY FS_EmptySet
  <2> QED BY <2>1, <2>2, WaitingIs DEF AtMost
<1>2. Bounded => DuplicatesBounded
  <2> SUFFICES ASSUME Bounded, NEW users \in (SUBSET Users) \ {{}}
               PROVE  Cardinality(ChatsOf(users)) <= Cardinality(Requests)
    BY DEF DuplicatesBounded, ChatsOf
  <2>1. AtMost(users)
    BY DEF Bounded
  <2>2. Cardinality(ChatsOf(users)) \in Nat
    BY <2>1, FS_CardinalityType DEF AtMost
  <2> QED BY <2>1, <2>2, WaitingIs DEF AtMost
<1> QED BY <1>1, <1>2, NextBounded, Invariance, PTL DEF Spec

-----------------------------------------------------------------------------
(* No client misses a message.  A message is in the hands of one handler,  *)
(* and nowhere in the logs until this one inserts it into its chat.        *)

Own(g, logs) ==
  /\ g.pc \in {"idle", "guard"} => g.msg = NoMessage
  /\ g.pc # "emit" => \A c \in Chats : ~Saved(g.msg, logs[c])
  /\ g.pc = "emit" => \A c \in Chats : Saved(g.msg, logs[c]) => c = g.chat

Apart ==
  /\ \A g, h \in Handlers : handler[g].msg = handler[h].msg /\ handler[g].msg # NoMessage => g = h
  /\ \A h \in Handlers : Own(handler[h], log)

\* What nobody has to have got: it is about to be sent or its insert was lost.
Flying == lost \cup {handler[h].msg : h \in Handlers}

GapOK(x, logs, flying) ==
  x.fetched =>
    /\ x.first >= 1
    /\ \A c \in x.rooms : \A i \in x.first..Len(logs[c]) :
         i <= x.last \/ logs[c][i] \in x.got \cup flying

GapInv == Apart /\ \A s \in Sockets : GapOK(socket[s], log, Flying)

\* A log holds messages only.
LEMMA SavedAreMessages ==
  ASSUME TypeOK, NEW c \in Chats, NEW m, Saved(m, log[c])
  PROVE  m \in Messages /\ m # NoMessage
<1>1. log[c] \in Seq(Messages)
  BY DEF TypeOK
<1> QED BY <1>1 DEF Saved

\* The messages of a log that is appended to, and where they are.
LEMMA AppendIs ==
  ASSUME NEW S, NEW l \in Seq(S), NEW m \in S
  PROVE  /\ \A x : Saved(x, Append(l, m)) <=> Saved(x, l) \/ x = m
         /\ Len(Append(l, m)) = Len(l) + 1 /\ Len(l) \in Nat
         /\ \A i \in 1..Len(l) : Append(l, m)[i] = l[i]
         /\ Append(l, m)[Len(l) + 1] = m
<1>1. Len(Append(l, m)) = Len(l) + 1 /\ Append(l, m)[Len(l) + 1] = m /\ Len(l) \in Nat
  OBVIOUS
<1>2. \A i \in 1..Len(l) : Append(l, m)[i] = l[i]
  OBVIOUS
<1> QED BY <1>1, <1>2 DEF Saved

\* A handler that has not inserted its message moves on, drops it or starts
\* with one that is nobody's.
LEMMA QuietGap ==
  ASSUME IInv, GapInv, UNCHANGED <<socket, log, lost>>,
         NEW h \in Handlers, NEW g, SetHandler(h, g), handler[h].pc # "emit", Own(g, log),
         \/ g.msg \in {handler[h].msg, NoMessage}
         \/ \A k \in Handlers : handler[k].msg # g.msg
  PROVE  GapInv'
<1>1. handler'[h] = g /\ \A k \in Handlers \ {h} : handler'[k] = handler[k]
  BY DEF IInv, TypeOK, SetHandler
<1>2. Apart'
  <2>1. \A k \in Handlers : Own(handler'[k], log')
    BY <1>1 DEF GapInv, Apart
  <2>2. ASSUME NEW j \in Handlers, NEW k \in Handlers, handler'[j].msg = handler'[k].msg,
               handler'[j].msg # NoMessage
        PROVE  j = k
    BY <1>1, <2>2 DEF GapInv, Apart
  <2> QED BY <2>1, <2>2 DEF Apart
<1>3. \A m \in Flying : m \in Flying' \/ m = handler[h].msg
  BY <1>1 DEF Flying
<1>4. ASSUME NEW s \in Sockets PROVE GapOK(socket'[s], log', Flying')
  <2> DEFINE x == socket[s]
  <2>1. GapOK(x, log, Flying) /\ x \in Socket
    BY DEF GapInv, IInv, TypeOK
  <2>2. ASSUME x.fetched, NEW c \in x.rooms, NEW i \in x.first..Len(log[c])
        PROVE  i <= x.last \/ log[c][i] \in x.got \cup Flying'
    <3>1. c \in Chats /\ log[c] \in Seq(Messages) /\ x.first \in Nat /\ x.first >= 1
      BY <2>1, <2>2 DEF Socket, IInv, TypeOK, GapOK
    <3>2. i \in 1..Len(log[c])
      BY <3>1
    <3>3. Saved(log[c][i], log[c])
      BY <3>2 DEF Saved
    <3>4. log[c][i] # handler[h].msg
      BY <3>1, <3>3 DEF GapInv, Apart, Own
    <3> QED BY <1>3, <2>1, <2>2, <3>4 DEF GapOK
  <2> QED BY <2>1, <2>2 DEF GapOK
<1> QED BY <1>2, <1>4 DEF GapInv

\* A message is inserted: it is about to be sent, or lost.
LEMMA InsertGap ==
  ASSUME IInv, GapInv, UNCHANGED socket, NEW h \in Handlers, handler[h].pc = "insert", Insert(h),
         NEW g, SetHandler(h, g),
         \/ g = [handler[h] EXCEPT !.pc = "emit"] /\ lost' = lost
         \/ g = NoHandler /\ lost' = lost \cup {handler[h].msg}
  PROVE  GapInv'
<1> DEFINE c0 == handler[h].chat
           m0 == handler[h].msg
<1>0. handler[h] \in Handler /\ HandlerOK(handler[h], socket, log)
      /\ log \in [Chats -> Seq(Messages)]
  BY DEF IInv, TypeOK, HandlersOK
<1>1. /\ c0 \in Chats /\ m0 \in Messages /\ m0 # NoMessage
      /\ \A c \in Chats : ~Saved(m0, log[c])
  BY <1>0 DEF HandlerOK, GapInv, Apart, Own
<1>2. handler'[h] = g /\ \A k \in Handlers \ {h} : handler'[k] = handler[k]
  BY DEF IInv, TypeOK, SetHandler
<1>3. /\ log'[c0] = Append(log[c0], m0)
      /\ \A c \in Chats \ {c0} : log'[c] = log[c]
  BY <1>0, <1>1 DEF Insert
<1>4. /\ \A x : Saved(x, log'[c0]) <=> Saved(x, log[c0]) \/ x = m0
      /\ Len(log'[c0]) = Len(log[c0]) + 1 /\ Len(log[c0]) \in Nat
      /\ \A i \in 1..Len(log[c0]) : log'[c0][i] = log[c0][i]
      /\ log'[c0][Len(log[c0]) + 1] = m0
  <2>1. log[c0] \in Seq(Messages)
    BY <1>0, <1>1
  <2> QED BY <1>1, <1>3, <2>1, AppendIs
<1>5. \/ g.pc = "emit" /\ g.msg = m0 /\ g.chat = c0 /\ lost' = lost
      \/ g.pc = "idle" /\ g.msg = NoMessage /\ lost' = lost \cup {m0}
  BY <1>0 DEF Handler, NoHandler
<1>6. ASSUME NEW m, m # m0, NEW c \in Chats PROVE Saved(m, log'[c]) <=> Saved(m, log[c])
  BY <1>3, <1>4, <1>6
<1>7. Apart'
  <2>1. ASSUME NEW k \in Handlers, k # h PROVE Own(handler'[k], log')
    <3>1. handler'[k] = handler[k] /\ Own(handler[k], log) /\ handler[k].msg # m0
      BY <1>1, <1>2, <2>1 DEF GapInv, Apart
    <3> QED BY <1>6, <3>1 DEF Own
  <2>2. Own(g, log')
    <3>1. CASE g.pc = "emit"
      BY <1>1, <1>3, <1>5, <3>1 DEF Own
    <3>2. CASE g.pc = "idle"
      <4>1. \A c \in Chats : ~Saved(NoMessage, log'[c])
        BY <1>1, <1>6, SavedAreMessages DEF IInv
      <4> QED BY <1>5, <3>2, <4>1 DEF Own
    <3> QED BY <1>5, <3>1, <3>2
  <2>3. ASSUME NEW j \in Handlers, NEW k \in Handlers, handler'[j].msg = handler'[k].msg,
               handler'[j].msg # NoMessage
        PROVE  j = k
    <3>1. handler'[j].msg = handler[j].msg /\ handler'[k].msg = handler[k].msg
      BY <1>2, <1>5, <2>3
    <3> QED BY <2>3, <3>1 DEF GapInv, Apart
  <2> QED BY <1>2, <2>1, <2>2, <2>3 DEF Apart
<1>8. Flying \cup {m0} \subseteq Flying'
  BY <1>2, <1>5 DEF Flying
<1> HIDE DEF c0, m0
<1>9. ASSUME NEW s \in Sockets PROVE GapOK(socket'[s], log', Flying')
  <2> DEFINE x == socket[s]
  <2>1. GapOK(x, log, Flying) /\ x \in Socket
    BY DEF GapInv, IInv, TypeOK
  <2>2. ASSUME x.fetched, NEW c \in x.rooms, NEW i \in x.first..Len(log'[c])
        PROVE  i <= x.last \/ log'[c][i] \in x.got \cup Flying'
    <3>1. c \in Chats /\ x.first \in Nat /\ x.first >= 1 /\ Len(log[c]) \in Nat
      BY <1>0, <2>1, <2>2 DEF Socket, GapOK
    <3>2. CASE c = c0
      <4>1. i \in x.first..Len(log[c]) \/ i = Len(log[c]) + 1
        BY <1>4, <3>1, <3>2
      <4>2. CASE i \in x.first..Len(log[c])
        <5>1. log'[c][i] = log[c][i]
          BY <1>4, <3>1, <3>2, <4>2
        <5> QED BY <1>8, <2>1, <2>2, <4>2, <5>1 DEF GapOK
      <4>3. CASE i = Len(log[c]) + 1
        BY <1>4, <1>8, <3>2, <4>3
      <4> QED BY <4>1, <4>2, <4>3
    <3>3. CASE c # c0
      <4>1. log'[c] = log[c]
        BY <1>3, <3>1, <3>3
      <4> QED BY <1>8, <2>1, <2>2, <4>1 DEF GapOK
    <3> QED BY <3>2, <3>3
  <2>3. x.fetched => x.first >= 1
    BY <2>1 DEF GapOK
  <2> QED BY <2>2, <2>3 DEF GapOK
<1> QED BY <1>7, <1>9 DEF GapInv

\* Everybody in the room of the chat gets the message that is in its log.
LEMMA EmitGap ==
  ASSUME IInv, GapInv, NEW h \in Handlers, Emit(h)
  PROVE  GapInv'
<1> DEFINE c0 == handler[h].chat
           m0 == handler[h].msg
<1>0. /\ handler[h].pc = "emit" /\ log' = log /\ lost' = lost
      /\ handler'[h] = NoHandler /\ \A k \in Handlers \ {h} : handler'[k] = handler[k]
  BY DEF Emit, IInv, TypeOK, SetHandler
<1>1. \A c \in Chats : Saved(m0, log[c]) => c = c0
  BY <1>0 DEF GapInv, Apart, Own
<1>2. ASSUME NEW s \in Sockets
      PROVE  /\ socket'[s].rooms = socket[s].rooms /\ socket'[s].fetched = socket[s].fetched
             /\ socket'[s].first = socket[s].first /\ socket'[s].last = socket[s].last
             /\ socket[s].got \subseteq socket'[s].got
             /\ c0 \in socket[s].rooms => m0 \in socket'[s].got
  <2>1. socket[s] \in Socket
    BY DEF IInv, TypeOK
  <2> DEFINE x == [socket[s] EXCEPT !.got = @ \cup {m0}]
  <2>2. /\ x.rooms = socket[s].rooms /\ x.fetched = socket[s].fetched /\ x.first = socket[s].first
        /\ x.last = socket[s].last /\ x.got = socket[s].got \cup {m0}
    BY <2>1 DEF Socket
  <2>3. socket'[s] = IF c0 \in socket[s].rooms THEN x ELSE socket[s]
    BY DEF Emit, Deliver
  <2> HIDE DEF x
  <2> QED BY <2>2, <2>3
<1>3. Apart'
  <2>1. Own(NoHandler, log)
    BY SavedAreMessages DEF Own, NoHandler, IInv
  <2>2. \A k \in Handlers : Own(handler'[k], log')
    BY <1>0, <2>1 DEF GapInv, Apart
  <2>3. ASSUME NEW j \in Handlers, NEW k \in Handlers, handler'[j].msg = handler'[k].msg,
               handler'[j].msg # NoMessage
        PROVE  j = k
    BY <1>0, <2>3 DEF GapInv, Apart, NoHandler
  <2> QED BY <2>2, <2>3 DEF Apart
<1>4. \A m \in Flying : m \in Flying' \/ m = m0
  BY <1>0 DEF Flying
<1>5. ASSUME NEW s \in Sockets PROVE GapOK(socket'[s], log', Flying')
  <2> DEFINE x == socket[s]
  <2>1. GapOK(x, log, Flying) /\ x \in Socket
    BY DEF GapInv, IInv, TypeOK
  <2>2. ASSUME x.fetched, NEW c \in x.rooms, NEW i \in x.first..Len(log[c])
        PROVE  i <= x.last \/ log[c][i] \in socket'[s].got \cup Flying'
    <3>1. c \in Chats /\ log[c] \in Seq(Messages) /\ x.first \in Nat /\ x.first >= 1
      BY <2>1, <2>2 DEF Socket, IInv, TypeOK, GapOK
    <3>2. Saved(log[c][i], log[c])
      <4>1. i \in 1..Len(log[c])
        BY <3>1
      <4> QED BY <4>1 DEF Saved
    <3>3. i <= x.last \/ log[c][i] \in x.got \cup Flying
      BY <2>1, <2>2 DEF GapOK
    <3>4. CASE log[c][i] = m0
      BY <1>1, <1>2, <2>2, <3>1, <3>2, <3>4
    <3>5. CASE log[c][i] # m0
      BY <1>2, <1>4, <3>3, <3>5
    <3> QED BY <3>4, <3>5
  <2> QED BY <1>0, <1>2, <2>1, <2>2 DEF GapOK
<1> QED BY <1>3, <1>5 DEF GapInv

\* Sockets that start anew or fetch have missed nothing.
LEMMA SocketGap ==
  ASSUME IInv, GapInv, UNCHANGED <<log, lost>>,
         \A s \in Sockets : socket'[s] = socket[s] \/ GapOK(socket'[s], log, {}),
         \A h \in Handlers : /\ handler'[h].msg = handler[h].msg
                             /\ handler'[h].chat = handler[h].chat \/ handler[h].pc = "guard"
                             /\ \/ handler'[h].pc = handler[h].pc
                                \/ handler'[h].pc = "idle" /\ handler[h].pc = "guard"
  PROVE  GapInv'
<1>1. Apart'
  <2>1. \A h \in Handlers : Own(handler'[h], log')
    BY DEF GapInv, Apart, Own
  <2> QED BY <2>1 DEF GapInv, Apart
<1>2. Flying' = Flying
  BY DEF Flying
<1>3. \A s \in Sockets : GapOK(socket'[s], log', Flying')
  BY <1>2 DEF GapInv, GapOK
<1> QED BY <1>1, <1>3 DEF GapInv

\* The process dies: nobody is connected any more.
LEMMA CrashGap ==
  ASSUME IInv, GapInv, Crash
  PROVE  GapInv'
<1>1. \A h \in Handlers : handler'[h] = NoHandler
  BY DEF Crash
<1>2. Own(NoHandler, log) /\ log' = log
  BY SavedAreMessages DEF Own, NoHandler, IInv, Crash
<1>3. Apart'
  BY <1>1, <1>2 DEF Apart, NoHandler
<1>4. \A s \in Sockets : GapOK(socket'[s], log', Flying')
  BY DEF Crash, GapOK, Offline
<1> QED BY <1>3, <1>4 DEF GapInv

\* Every step keeps the clients' view complete.
LEMMA NextGap == IInv /\ GapInv /\ [Next]_vars => GapInv'
<1> SUFFICES ASSUME IInv, GapInv, [Next]_vars PROVE GapInv'
  OBVIOUS
<1>0. /\ handler \in [Handlers -> Handler] /\ socket \in [Sockets -> Socket]
      /\ log \in [Chats -> Seq(Messages)]
  BY DEF IInv, TypeOK
<1>1. Own(NoHandler, log) /\ NoHandler.msg = NoMessage
  BY SavedAreMessages DEF Own, NoHandler, IInv
<1>2. CASE UNCHANGED wire
  BY <1>2 DEF wire, GapInv, Apart, Flying
<1>3. ASSUME NEW h \in Handlers, NEW s, NEW c, JoinChat(h, s, c) PROVE GapInv'
  <2> DEFINE g == [NoHandler EXCEPT !.pc = "guard", !.user = socket[s].user,
                                    !.socket = s, !.chat = c]
  <2>1. g.pc = "guard" /\ g.msg = NoMessage
    BY DEF NoHandler
  <2>2. Own(g, log)
    BY <1>1, <2>1 DEF Own, NoHandler
  <2>3. SetHandler(h, g) /\ handler[h].pc = "idle" /\ UNCHANGED <<socket, log, lost>>
    BY <1>3 DEF JoinChat
  <2> HIDE DEF g
  <2> QED BY <2>1, <2>2, <2>3, QuietGap
<1>4. ASSUME NEW h \in Handlers, NEW s, SendMessage(h, s) PROVE GapInv'
  <2>1. PICK c \in socket[s].rooms, m \in Messages \ (Logged \cup {handler[k].msg : k \in Handlers}) :
          SetHandler(h, [pc |-> "access", user |-> socket[s].user, socket |-> s,
                         chat |-> c, msg |-> m])
    BY <1>4 DEF SendMessage
  <2> DEFINE g == [pc |-> "access", user |-> socket[s].user, socket |-> s, chat |-> c, msg |-> m]
  <2>2. g.pc = "access" /\ g.msg = m
    OBVIOUS
  <2>3. Own(g, log)
    BY <2>2 DEF Own, Saved, Logged
  <2>4. SetHandler(h, g) /\ handler[h].pc = "idle" /\ UNCHANGED <<socket, log, lost>>
    BY <1>4, <2>1 DEF SendMessage
  <2> HIDE DEF g
  <2> QED BY <2>1, <2>2, <2>3, <2>4, QuietGap
<1>5. ASSUME NEW h \in Handlers, Enter(h) PROVE GapInv'
  <2>0. /\ handler[h].pc = "guard" /\ handler'[h] = NoHandler /\ handler[h].msg = NoMessage
        /\ UNCHANGED <<log, lost>> /\ \A k \in Handlers \ {h} : handler'[k] = handler[k]
    BY <1>0, <1>5 DEF Enter, SetHandler, GapInv, Apart, Own
  <2>1. ASSUME NEW s \in Sockets PROVE socket'[s] = socket[s] \/ socket'[s].fetched = FALSE
    <3>1. CASE UNCHANGED socket
      BY <3>1
    <3>2. ASSUME NEW x, SetSocket(handler[h].socket, x), x.fetched = FALSE
          PROVE  socket'[s] = socket[s] \/ socket'[s].fetched = FALSE
      BY <1>0, <3>2 DEF SetSocket
    <3>3. \A y, rooms : Entered(y, rooms).fetched = FALSE
      BY DEF Entered, Offline
    <3> QED BY <1>5, <3>1, <3>2, <3>3 DEF Enter
  <2>2. \A s \in Sockets : socket'[s] = socket[s] \/ GapOK(socket'[s], log, {})
    BY <2>1 DEF GapOK
  <2>3. \A k \in Handlers : /\ handler'[k].msg = handler[k].msg
                            /\ handler'[k].chat = handler[k].chat \/ handler[k].pc = "guard"
                            /\ \/ handler'[k].pc = handler[k].pc
                               \/ handler'[k].pc = "idle" /\ handler[k].pc = "guard"
    BY <2>0 DEF NoHandler
  <2> QED BY <2>0, <2>2, <2>3, SocketGap
<1>6. ASSUME NEW h \in Handlers, Access(h) PROVE GapInv'
  <2> DEFINE g == [handler[h] EXCEPT !.pc = "insert"]
  <2>1. /\ handler[h].pc = "access" /\ UNCHANGED <<socket, log, lost>>
        /\ SetHandler(h, g) \/ SetHandler(h, NoHandler)
    BY <1>6 DEF Access
  <2>2. g.pc = "insert" /\ g.msg = handler[h].msg
    BY <1>0 DEF Handler
  <2> HIDE DEF g
  <2>3. Own(g, log)
    BY <2>1, <2>2 DEF GapInv, Apart, Own
  <2> QED BY <1>1, <2>1, <2>2, <2>3, QuietGap
<1>7. ASSUME NEW h \in Handlers, InsertMessage(h) PROVE GapInv'
  BY <1>7, InsertGap DEF InsertMessage
<1>8. ASSUME NEW h \in Handlers, HandlerFails(h) PROVE GapInv'
  <2>1. CASE UNCHANGED <<log, lost>>
    <3>1. SetHandler(h, NoHandler) /\ handler[h].pc # "emit" /\ UNCHANGED socket
      BY <1>8 DEF HandlerFails
    <3> QED BY <1>1, <2>1, <3>1, QuietGap
  <2>2. CASE ~UNCHANGED <<log, lost>>
    BY <1>8, <2>2, InsertGap DEF HandlerFails
  <2> QED BY <2>1, <2>2
<1>9. ASSUME NEW s \in Sockets, NEW u, Connect(s, u) PROVE GapInv'
  <2>1. GapOK([Offline EXCEPT !.user = u], log, {})
    BY DEF GapOK, Offline
  <2> QED BY <1>0, <1>9, <2>1, SocketGap DEF Connect, SetSocket
<1>10. ASSUME NEW s \in Sockets, Disconnect(s) PROVE GapInv'
  <2>1. GapOK(Offline, log, {})
    BY DEF GapOK, Offline
  <2>2. \A y \in Sockets : socket'[y] = socket[y] \/ GapOK(socket'[y], log, {})
    BY <1>0, <1>10, <2>1 DEF Disconnect, SetSocket
  <2>3. ASSUME NEW k \in Handlers
        PROVE  /\ handler'[k].msg = handler[k].msg /\ handler'[k].chat = handler[k].chat
               /\ handler'[k].pc = handler[k].pc
    <3> DEFINE g == [handler[k] EXCEPT !.socket = NoSocket]
    <3>1. g.msg = handler[k].msg /\ g.chat = handler[k].chat /\ g.pc = handler[k].pc
      BY <1>0 DEF Handler
    <3>2. handler'[k] \in {g, handler[k]}
      BY <1>10 DEF Disconnect
    <3> HIDE DEF g
    <3> QED BY <3>1, <3>2
  <2> QED BY <1>10, <2>2, <2>3, SocketGap DEF Disconnect
<1>11. ASSUME NEW s \in Sockets, FetchMessages(s) PROVE GapInv'
  <2>1. PICK c \in socket[s].rooms :
          SetSocket(s, [socket[s] EXCEPT !.fetched = TRUE, !.last = Len(log[c]),
             !.first = IF Len(log[c]) > PageSize THEN Len(log[c]) - PageSize + 1 ELSE 1])
    BY <1>11 DEF FetchMessages
  <2> DEFINE from == IF Len(log[c]) > PageSize THEN Len(log[c]) - PageSize + 1 ELSE 1
             x == [socket[s] EXCEPT !.fetched = TRUE, !.last = Len(log[c]), !.first = from]
  <2>2. c \in Chats /\ Len(log[c]) \in Nat
    BY <1>0 DEF Socket
  <2>3. from \in Nat /\ from >= 1
    BY <2>2, PageAssumption
  <2>4. /\ SetSocket(s, x) /\ x.rooms = socket[s].rooms /\ x.last = Len(log[c])
        /\ x.first = from
    BY <1>0, <2>1 DEF Socket
  <2>5. \A d \in socket[s].rooms : d = c
    <3>1. IsFiniteSet(socket[s].rooms) /\ Cardinality(socket[s].rooms) <= 1
      BY DEF IInv, SocketsOK, SocketOK
    <3>2. Cardinality(socket[s].rooms \ {c}) = Cardinality(socket[s].rooms) - 1
          /\ IsFiniteSet(socket[s].rooms \ {c})
      BY <3>1, FS_RemoveElement
    <3>3. Cardinality(socket[s].rooms \ {c}) = 0
      BY <3>1, <3>2, FS_CardinalityType
    <3>4. socket[s].rooms \ {c} = {}
      BY <3>2, <3>3, FS_EmptySet
    <3> QED BY <3>4
  <2> HIDE DEF x, from
  <2>6. GapOK(x, log, {})
    BY <2>2, <2>3, <2>4, <2>5 DEF GapOK
  <2>7. UNCHANGED <<log, lost, handler>>
    BY <1>11 DEF FetchMessages
  <2> QED BY <1>0, <2>4, <2>6, <2>7, SocketGap DEF SetSocket
<1>12. ASSUME NEW r, Rest(r) PROVE UNCHANGED wire
  BY <1>12 DEF Rest, PostChat, FindChat, CheckUser, CreateChat, Answer, RequestFails
<1> QED BY <1>2, <1>3, <1>4, <1>5, <1>6, <1>7, <1>8, <1>9, <1>10, <1>11, <1>12,
           EmitGap, CrashGap
        DEF Next, Wire, Client, ActivateUser, vars

\* A client that enters a chat, fetches the newest page and stays gets every
\* message that is saved from then on, whatever handlers run meanwhile.
THEOREM NoMessageIsMissed == Spec => []NoGap
<1>1. Init => GapInv
  <2> SUFFICES ASSUME Init PROVE GapInv
    OBVIOUS
  <2>1. \A c \in Chats : \A m : ~Saved(m, log[c])
    BY DEF Init, Saved
  <2>2. Apart
    BY <2>1 DEF Init, Apart, Own, NoHandler
  <2>3. \A s \in Sockets : GapOK(socket[s], log, Flying)
    BY DEF Init, GapOK, Offline
  <2> QED BY <2>2, <2>3 DEF GapInv
<1>2. GapInv => NoGap
  BY DEF GapInv, GapOK, NoGap, Flying
<1> QED BY <1>1, <1>2, NextGap, Invariance, PTL DEF Spec
=============================================================================

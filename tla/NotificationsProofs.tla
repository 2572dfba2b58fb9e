------------------------ MODULE NotificationsProofs ------------------------
(***************************************************************************)
(* What Notifications guarantees for any number of users, requests and     *)
(* notifications: the sweep mails verified addresses only and nothing      *)
(* twice that the database was told of, nothing is cleared away unread and *)
(* unmailed before its time, and nobody a change concerns is skipped.      *)
(***************************************************************************)
EXTENDS Notifications, FiniteSetTheorems, FunctionTheorems, SequenceTheorems, TLAPS

USE NullAssumption

Born == Notes \ Unborn

\* A note that is not born is nobody's, and nothing was done with it.
BornOK ==
  /\ \A n \in Unborn : note[n].to = NoUser
  /\ \A n \in Notes : note[n].sent => n \in mailed
  /\ mailed \subseteq Born

\* What the sweep has before it was there when the sweep began, for recipients
\* whose addresses were verified if it was let through.
SweepOK ==
  /\ sweep.batch \subseteq Born \ {sweep.hand}
  /\ sweep.known \subseteq verified
  /\ sweep.hand # NoNote => /\ sweep.hand \in Born
                            /\ note[sweep.hand].to \in sweep.known
  /\ sweep.pc = "mark" => sweep.hand \in mailed

InMark(n) == sweep.pc = "mark" /\ sweep.hand = n

\* What was mailed is marked or gone, unless the database never heard of it.
Heard ==
  \A n \in mailed : n \in lapsed \/ note[n].sent \/ note[n].at = "gone" \/ InMark(n)

\* So only that is mailed again.
Again ==
  \A n \in sweep.batch \cup {sweep.hand} :
    n \in mailed /\ ~InMark(n) => n \in lapsed

\* What Due counts is finite.
Countable == IsFiniteSet(Born) /\ IsFiniteSet(Pending)

IInv == /\ TypeOK /\ BornOK /\ SweepOK /\ Heard /\ Again /\ Countable
        /\ NothingLostUnread /\ OnlyVerifiedMailed

-----------------------------------------------------------------------------
\* Nobody was notified, the sweep has not begun.
LEMMA InitIInv == Init => IInv
<1> SUFFICES ASSUME Init PROVE IInv
  OBVIOUS
<1>1. Unborn = Notes /\ Born = {} /\ Pending = {}
  <2>1. \A r \in Requests : Len(call[r]) = 0
    BY DEF Init
  <2> QED BY <2>1 DEF Init, Unborn, Born, Pending
<1>2. TypeOK
  BY DEF Init, TypeOK, Note, Sweep, NoSweep
<1>3. BornOK /\ SweepOK /\ Heard /\ Again
  BY <1>1 DEF Init, BornOK, SweepOK, Heard, Again, InMark, NoSweep
<1>4. Countable
  BY <1>1, FS_EmptySet DEF Countable
<1>5. NothingLostUnread /\ OnlyVerifiedMailed
  BY DEF Init, NothingLostUnread, OnlyVerifiedMailed
<1> QED BY <1>2, <1>3, <1>4, <1>5 DEF IInv

\* Reading, expiring and clearing away what is done with: the recipient and
\* what was sent stay.
LEMMA ChangeIInv ==
  ASSUME IInv, UNCHANGED <<verified, call, sweep, mailed, lapsed>>, note' \in [Notes -> Note],
         \A n \in Notes :
           /\ note'[n].to = note[n].to /\ note'[n].sent = note[n].sent
           /\ \/ /\ note'[n].at = note[n].at
                 /\ note[n].read => note'[n].read
                 /\ note[n].old => note'[n].old
              \/ /\ n \in Here /\ Done(n) /\ note'[n].at = "gone"
                 /\ note'[n].read = note[n].read /\ note'[n].old = note[n].old
  PROVE  IInv'
<1> USE DEF IInv
<1>1. Unborn' = Unborn /\ Born' = Born /\ Pending' = Pending
  BY DEF Unborn, Born, Here, Pending
<1>2. TypeOK'
  <2>1. \A n \in Notes : note'[n].at # "unborn" => note'[n].to \in Users
    BY DEF TypeOK, Here
  <2>2. (sweep.pc \in {"mail", "mark"} <=> sweep.hand # NoNote)'
    BY DEF TypeOK
  <2> QED BY <2>1, <2>2 DEF TypeOK
<1>3. BornOK' /\ SweepOK'
  <2>1. BornOK'
    BY <1>1 DEF BornOK, Unborn
  <2>2. SweepOK'
    BY <1>1 DEF SweepOK, Born
  <2> QED BY <2>1, <2>2
<1>4. Heard' /\ Again' /\ Countable'
  BY <1>1 DEF Heard, Again, Countable, InMark, TypeOK, Here
<1>5. NothingLostUnread' /\ OnlyVerifiedMailed'
  BY <1>1 DEF NothingLostUnread, OnlyVerifiedMailed, Done, BornOK, TypeOK, Here
<1> QED BY <1>2, <1>3, <1>4, <1>5

\* A user who reads, one or all, changes the marks of own notifications only.
LEMMA ReadsIInv ==
  ASSUME IInv, NEW u \in Users,
         ReadAllNotifications(u) \/ \E n \in Notes : ReadNotification(n, u)
  PROVE  IInv'
<1>1. note \in [Notes -> Note]
  BY DEF IInv, TypeOK
<1>2. CASE ReadAllNotifications(u)
  <2>1. note' \in [Notes -> Note]
    BY <1>1, <1>2 DEF ReadAllNotifications, Change, Note
  <2>2. \A n \in Notes : /\ note'[n].to = note[n].to /\ note'[n].sent = note[n].sent
                         /\ note'[n].at = note[n].at /\ note'[n].old = note[n].old
                         /\ note[n].read => note'[n].read
    BY <1>1, <1>2 DEF ReadAllNotifications, Change, Note
  <2> QED BY <1>2, <2>1, <2>2, ChangeIInv DEF ReadAllNotifications, Change
<1>3. ASSUME NEW m \in Notes, ReadNotification(m, u) PROVE IInv'
  <2> DEFINE row == [note[m] EXCEPT !.read = TRUE]
  <2>0. /\ row \in Note /\ row.to = note[m].to /\ row.sent = note[m].sent /\ row.read
        /\ row.at = note[m].at /\ row.old = note[m].old
    BY <1>1 DEF Note
  <2>3. note' = [note EXCEPT ![m] = row]
    BY <1>3 DEF ReadNotification, Change
  <2> HIDE DEF row
  <2>1. note' \in [Notes -> Note]
    BY <1>1, <2>0, <2>3
  <2>2. \A n \in Notes : /\ note'[n].to = note[n].to /\ note'[n].sent = note[n].sent
                         /\ note'[n].at = note[n].at /\ note'[n].old = note[n].old
                         /\ note[n].read => note'[n].read
    BY <1>1, <2>0, <2>3
  <2> QED BY <1>3, <2>1, <2>2, ChangeIInv DEF ReadNotification, Change
<1> QED BY <1>2, <1>3

\* Time passing and the weekly removal disturb no one who is still to be heard.
LEMMA TimeIInv ==
  ASSUME IInv, RemoveNotifications \/ \E n \in Notes : Expire(n)
  PROVE  IInv'
<1>1. note \in [Notes -> Note]
  BY DEF IInv, TypeOK
<1>2. CASE RemoveNotifications
  <2>1. note' \in [Notes -> Note]
    BY <1>1, <1>2 DEF RemoveNotifications, Change, Note
  <2>2. \A n \in Notes : /\ note'[n].to = note[n].to /\ note'[n].sent = note[n].sent
                         /\ note'[n].read = note[n].read /\ note'[n].old = note[n].old
                         /\ \/ note'[n].at = note[n].at
                            \/ n \in Here /\ Done(n) /\ note'[n].at = "gone"
    BY <1>1, <1>2 DEF RemoveNotifications, Change, Note
  <2> QED BY <1>2, <2>1, <2>2, ChangeIInv DEF RemoveNotifications, Change
<1>3. ASSUME NEW m \in Notes, Expire(m) PROVE IInv'
  <2>1. note' \in [Notes -> Note]
    BY <1>1, <1>3 DEF Expire, Change, Note
  <2>2. \A n \in Notes : /\ note'[n].to = note[n].to /\ note'[n].sent = note[n].sent
                         /\ note'[n].at = note[n].at /\ note'[n].read = note[n].read
                         /\ note[n].old => note'[n].old
    BY <1>1, <1>3 DEF Expire, Change, Note
  <2> QED BY <1>3, <2>1, <2>2, ChangeIInv DEF Expire, Change
<1> QED BY <1>2, <1>3

-----------------------------------------------------------------------------
\* The recipients still to be notified, as pairs of a request and a place in its list.
LEMMA PendingIs ==
  \A x : x \in Pending <=> /\ x \in Requests \X Nat /\ x = <<x[1], x[2]>>
                           /\ x[2] \in 1..Len(call[x[1]])
BY DEF Pending

\* A request that has a recipient less to notify.
LEMMA TailShorter ==
  ASSUME IInv, NEW r \in Requests, call[r] # <<>>
  PROVE  /\ Head(call[r]) \in Users /\ Tail(call[r]) \in Seq(Users)
         /\ Len(Tail(call[r])) = Len(call[r]) - 1 /\ Len(call[r]) \in Nat \ {0}
         /\ call[r][1] = Head(call[r])
         /\ \A i \in 1..Len(Tail(call[r])) : Tail(call[r])[i] = call[r][i + 1]
<1>1. call[r] \in Seq(Users)
  BY DEF IInv, TypeOK
<1> QED BY <1>1

\* As long as requests go on with less, what is pending stays finite.
LEMMA PendingShrinks ==
  ASSUME IInv, \A r \in Requests : Len(call'[r]) <= Len(call[r]),
         call' \in [Requests -> Seq(Users)]
  PROVE  IsFiniteSet(Pending')
<1>1. call \in [Requests -> Seq(Users)] /\ IsFiniteSet(Pending)
  BY DEF IInv, TypeOK, Countable
<1>2. \A r \in Requests : Len(call'[r]) \in Nat /\ Len(call[r]) \in Nat
  BY <1>1
<1>3. Pending' \subseteq Pending
  BY <1>2 DEF Pending
<1> QED BY <1>1, <1>3, FS_Subset

\* A notification is inserted, for a user.
LEMMA InsertIInv ==
  ASSUME IInv, NEW n \in Unborn, NEW u \in Users, Insert(n, u),
         UNCHANGED <<verified, sweep, mailed, lapsed>>,
         call' \in [Requests -> Seq(Users)], \A r \in Requests : Len(call'[r]) <= Len(call[r])
  PROVE  IInv'
<1> DEFINE row == [note[n] EXCEPT !.to = u, !.at = "here"]
<1> USE DEF IInv
<1>1. n \in Notes /\ note[n] \in Note /\ note \in [Notes -> Note] /\ note[n].at = "unborn"
  BY DEF TypeOK, Unborn
<1>2. /\ row \in Note /\ row.to = u /\ row.at = "here" /\ row.sent = note[n].sent
      /\ row.read = note[n].read /\ row.old = note[n].old
  BY <1>1 DEF Note
<1>3. note' = [note EXCEPT ![n] = row]
  BY DEF Insert
<1> HIDE DEF row
<1>4. /\ note' \in [Notes -> Note] /\ note'[n] = row
      /\ \A m \in Notes \ {n} : note'[m] = note[m]
  BY <1>1, <1>2, <1>3
<1>5. Unborn' = Unborn \ {n} /\ Born' = Born \cup {n} /\ n \notin Born
  BY <1>1, <1>2, <1>4 DEF Unborn, Born
<1>6. n \notin mailed /\ n \notin sweep.batch /\ n # sweep.hand
  BY <1>1, <1>5 DEF BornOK, SweepOK
<1>7. TypeOK'
  <2>1. \A m \in Notes : note'[m].at # "unborn" => note'[m].to \in Users
    BY <1>2, <1>4 DEF TypeOK
  <2>2. (sweep.pc \in {"mail", "mark"} <=> sweep.hand # NoNote)'
    BY DEF TypeOK
  <2> QED BY <1>4, <2>1, <2>2 DEF TypeOK
<1>8. BornOK'
  <2>1. \A m \in Notes : note'[m].sent => m \in mailed'
    BY <1>1, <1>2, <1>4 DEF BornOK
  <2>2. \A m \in Unborn' : note'[m].to = NoUser
    BY <1>4, <1>5 DEF BornOK, Unborn
  <2> QED BY <1>5, <2>1, <2>2 DEF BornOK
<1>9. SweepOK'
  BY <1>4, <1>5, <1>6 DEF SweepOK, Born
<1>10. Heard' /\ Again'
  <2>1. mailed \subseteq Notes \ {n}
    BY <1>6 DEF TypeOK
  <2> QED BY <1>4, <2>1 DEF Heard, Again, InMark
<1>11. Countable'
  BY <1>5, FS_AddElement, PendingShrinks DEF Countable
<1>12. NothingLostUnread' /\ OnlyVerifiedMailed'
  <2>1. mailed \subseteq Notes \ {n}
    BY <1>6 DEF TypeOK
  <2> QED BY <1>2, <1>4, <2>1 DEF NothingLostUnread, OnlyVerifiedMailed
<1> QED BY <1>7, <1>8, <1>9, <1>10, <1>11, <1>12

\* createNotifications is called with the ids of users.
LEMMA NewsTells ==
  ASSUME IInv, NEW r \in Requests, News(r)
  PROVE  \E s \in Seq(Users) : Tell(r, s)
<1>1. ASSUME NEW S \in SUBSET Users, NEW s \in Orders(S) PROVE s \in Seq(Users)
  <2>1. Cardinality(S) \in Nat
    BY UsersAssumption, FS_Subset, FS_CardinalityType
  <2> QED BY <2>1 DEF Orders
<1>2. \A u, author \in Users : But(u, author) \in Seq(Users)
  BY DEF But
<1>3. \A s, t \in Seq(Users) : s \o t \in Seq(Users)
  OBVIOUS
<1>4. CASE TellMembers(r)
  <2>1. PICK S \in SUBSET Users : \E s \in Orders(S) : Tell(r, s)
    BY <1>4 DEF TellMembers
  <2> QED BY <1>1, <2>1
<1>5. CASE TellChange(r)
  <2>1. PICK c, a, by \in Users, over \in BOOLEAN :
          Tell(r, But(c, by) \o (IF over THEN <<>> ELSE But(a, by)))
    BY <1>5 DEF TellChange
  <2>2. But(c, by) \o (IF over THEN <<>> ELSE But(a, by)) \in Seq(Users)
    BY <1>2, <1>3
  <2> QED BY <2>1, <2>2
<1>6. CASE TellComment(r)
  <2>1. PICK c, a, by \in Users :
          Tell(r, (IF c = a THEN <<>> ELSE But(a, by)) \o But(c, by))
    BY <1>6 DEF TellComment
  <2>2. (IF c = a THEN <<>> ELSE But(a, by)) \o But(c, by) \in Seq(Users)
    BY <1>2, <1>3
  <2> QED BY <2>1, <2>2
<1>7. CASE TellAssigned(r)
  <2>1. PICK u \in Users : Tell(r, <<u>>)
    BY <1>7 DEF TellAssigned
  <2>2. <<u>> \in Seq(Users)
    OBVIOUS
  <2> QED BY <2>1, <2>2
<1> QED BY <1>4, <1>5, <1>6, <1>7 DEF News

\* A request that lists the recipients of its news keeps the invariant.
LEMMA TellIInv ==
  ASSUME IInv, NEW r \in Requests, NEW s \in Seq(Users), Tell(r, s)
  PROVE  IInv'
<1> USE DEF IInv
<1>1. call' = [call EXCEPT ![r] = s] /\ call[r] = <<>>
      /\ UNCHANGED <<note, verified, sweep, mailed, lapsed>>
  BY DEF Tell
<1>2. TypeOK'
  BY <1>1 DEF TypeOK
<1>3. Unborn' = Unborn /\ Born' = Born
  BY <1>1 DEF Unborn, Born
<1>4. IsFiniteSet(Pending')
  <2>1. Pending' \subseteq Pending \cup ({r} \X (1..Len(s)))
    BY <1>1 DEF Pending, TypeOK
  <2>2. IsFiniteSet({r}) /\ IsFiniteSet(1..Len(s))
    <3>1. 1 \in Int /\ Len(s) \in Int
      OBVIOUS
    <3>2. IsFiniteSet(1..Len(s))
      BY ONLY <3>1, FS_Interval
    <3> QED BY <3>2, FS_Singleton
  <2>3. IsFiniteSet(Pending \cup ({r} \X (1..Len(s))))
    BY <2>2, FS_Product, FS_Union DEF Countable
  <2> QED BY <2>1, <2>3, FS_Subset
<1> QED BY <1>1, <1>2, <1>3, <1>4
        DEF BornOK, SweepOK, Heard, Again, InMark, Countable, NothingLostUnread, OnlyVerifiedMailed

-----------------------------------------------------------------------------
(* The sweep. *)

\* What any step of the sweep that leaves the rows alone has to show.
LEMMA SweepIInv ==
  ASSUME IInv, UNCHANGED <<note, verified>>,
         call' = call \/ call' = [r \in Requests |-> <<>>],
         sweep' \in Sweep, (sweep.pc \in {"mail", "mark"} <=> sweep.hand # NoNote)',
         mailed' = mailed \/ (sweep.hand # NoNote /\ mailed' = mailed \cup {sweep.hand}),
         lapsed \subseteq lapsed', lapsed' \subseteq mailed',
         SweepOK', Heard', Again'
  PROVE  IInv'
<1> USE DEF IInv
<1>1. Unborn' = Unborn /\ Born' = Born /\ Born \subseteq Notes
  BY DEF Unborn, Born
<1>2. mailed \subseteq mailed' /\ mailed' \subseteq Born
  BY DEF SweepOK, BornOK
<1>3. TypeOK'
  <2>1. call' \in [Requests -> Seq(Users)]
    <3>1. call \in [Requests -> Seq(Users)]
      BY DEF TypeOK
    <3>2. [r \in Requests |-> <<>>] \in [Requests -> Seq(Users)]
      BY EmptySeq
    <3> QED BY <3>1, <3>2
  <2>2. (\A n \in Notes : note[n].at # "unborn" => note[n].to \in Users)'
    BY DEF TypeOK
  <2> QED BY <1>1, <1>2, <2>1, <2>2 DEF TypeOK
<1>4. BornOK'
  BY <1>1, <1>2 DEF BornOK
<1>5. IsFiniteSet(Pending')
  <2>1. CASE call' = call
    BY <2>1 DEF Pending, Countable
  <2>2. CASE call' = [r \in Requests |-> <<>>]
    <3>1. \A r \in Requests : Len(call'[r]) = 0
      BY <2>2
    <3>2. Pending' = {}
      BY <3>1 DEF Pending
    <3> QED BY <3>2, FS_EmptySet
  <2> QED BY <2>1, <2>2
<1>6. Countable'
  BY <1>1, <1>5 DEF Countable
<1>7. NothingLostUnread'
  BY <1>2 DEF NothingLostUnread
<1>8. OnlyVerifiedMailed'
  BY DEF OnlyVerifiedMailed, SweepOK
<1> QED BY <1>3, <1>4, <1>6, <1>7, <1>8

\* The sweep goes on to the rest of its snapshot, or is over.
LEMMA OnwardIs ==
  ASSUME IInv, NEW n, sweep' = Onward(n)
  PROVE  /\ sweep' \in Sweep /\ sweep'.pc \in {"idle", "next"} /\ sweep'.hand = NoNote
         /\ sweep'.batch \subseteq sweep.batch \ {n} /\ sweep'.known \subseteq sweep.known
<1>1. sweep \in Sweep
  BY DEF IInv, TypeOK
<1>2. CASE sweep.batch \ {n} = {}
  BY <1>1, <1>2 DEF Onward, NoSweep, Sweep
<1>3. CASE sweep.batch \ {n} # {}
  <2> DEFINE s == [sweep EXCEPT !.pc = "next", !.batch = @ \ {n}, !.hand = NoNote]
  <2>1. /\ s \in Sweep /\ s.pc = "next" /\ s.hand = NoNote
        /\ s.batch = sweep.batch \ {n} /\ s.known = sweep.known
    BY <1>1 DEF Sweep
  <2>2. sweep' = s
    BY <1>3 DEF Onward
  <2> QED BY <2>1, <2>2
<1> QED BY <1>2, <1>3

\* A sweep begins with unsent notifications and with users who are verified.
LEMMA BeginIInv ==
  ASSUME IInv, SendEmailNotifications
  PROVE  IInv'
<1> USE DEF SendEmailNotifications
<1>1. /\ Unsent \subseteq Born \cap Notes /\ NoNote \notin Unsent
      /\ verified \subseteq Users /\ sweep.pc = "idle"
  BY DEF Unsent, Here, Born, Unborn, IInv, TypeOK
<1>2. sweep' \in Sweep /\ sweep'.pc = "next" /\ sweep'.hand = NoNote
      /\ sweep'.batch = Unsent /\ sweep'.known = verified
  BY <1>1 DEF Sweep
<1>3. Born' = Born
  BY DEF Born, Unborn
<1>4. SweepOK'
  BY <1>1, <1>2, <1>3 DEF SweepOK
<1>5. Heard'
  BY <1>1 DEF IInv, Heard, InMark
<1>6. Again'
  <2>1. \A n \in Unsent : n \in mailed => n \in lapsed
    BY <1>1 DEF IInv, Heard, InMark, Unsent, Here, TypeOK
  <2>2. NoNote \notin mailed
    BY DEF IInv, TypeOK
  <2> QED BY <1>2, <2>1, <2>2 DEF Again
<1>7. lapsed \subseteq mailed
  BY DEF IInv, TypeOK
<1> QED BY <1>2, <1>4, <1>5, <1>6, <1>7, SweepIInv

\* A sweep that passes over a user without a verified email marks nobody as heard.
LEMMA SkipIInv ==
  ASSUME IInv, SkipUnverified
  PROVE  IInv'
<1> USE DEF SkipUnverified
<1>0. PICK n \in sweep.batch : sweep' = Onward(n)
  OBVIOUS
<1>1. /\ sweep' \in Sweep /\ sweep'.pc \in {"idle", "next"} /\ sweep'.hand = NoNote
      /\ sweep'.batch \subseteq sweep.batch /\ sweep'.known \subseteq sweep.known
  BY <1>0, OnwardIs
<1>2. /\ sweep.pc = "next" /\ sweep.batch \subseteq Born /\ sweep.known \subseteq verified
      /\ NoNote \notin Born /\ Born' = Born /\ lapsed \subseteq mailed /\ NoNote \notin mailed
  BY DEF IInv, SweepOK, Born, Unborn, TypeOK
<1>3. SweepOK'
  BY <1>1, <1>2 DEF SweepOK
<1>4. Heard' /\ Again'
  BY <1>1, <1>2 DEF IInv, Heard, Again, InMark
<1> QED BY <1>1, <1>2, <1>3, <1>4, SweepIInv

\* A sweep takes in hand only a notification of its own batch.
LEMMA TakeIInv ==
  ASSUME IInv, TakeNext
  PROVE  IInv'
<1> USE DEF TakeNext
<1>0. PICK n \in sweep.batch :
        /\ note[n].to \in sweep.known
        /\ sweep' = [sweep EXCEPT !.pc = "mail", !.batch = @ \ {n}, !.hand = n]
  OBVIOUS
<1>1. /\ sweep.pc = "next" /\ sweep.batch \subseteq Born /\ sweep.known \subseteq verified
      /\ Born \subseteq Notes /\ NoNote \notin Notes /\ Born' = Born /\ lapsed \subseteq mailed
      /\ sweep \in Sweep
  BY DEF IInv, SweepOK, Born, Unborn, TypeOK
<1>2. /\ sweep' \in Sweep /\ sweep'.pc = "mail" /\ sweep'.hand = n
      /\ sweep'.batch = sweep.batch \ {n} /\ sweep'.known = sweep.known
  <2> DEFINE s == [sweep EXCEPT !.pc = "mail", !.batch = @ \ {n}, !.hand = n]
  <2>1. /\ s \in Sweep /\ s.pc = "mail" /\ s.hand = n
        /\ s.batch = sweep.batch \ {n} /\ s.known = sweep.known
    BY <1>1 DEF Sweep
  <2> QED BY <1>0, <2>1
<1>3. SweepOK'
  BY <1>0, <1>1, <1>2 DEF SweepOK
<1>4. Heard' /\ Again'
  BY <1>1, <1>2 DEF IInv, Heard, Again, InMark
<1> QED BY <1>1, <1>2, <1>3, <1>4, SweepIInv

\* A mail goes out for the notification in hand, whose user was verified.
LEMMA MailIInv ==
  ASSUME IInv, SendMail
  PROVE  IInv'
<1> USE DEF SendMail, Deliver
<1>1. /\ sweep.pc = "mail" /\ sweep.hand # NoNote /\ sweep \in Sweep
      /\ Born' = Born /\ lapsed \subseteq mailed
  BY DEF IInv, Born, Unborn, TypeOK
<1>2. /\ sweep' \in Sweep /\ sweep'.pc = "mark" /\ sweep'.hand = sweep.hand
      /\ sweep'.batch = sweep.batch /\ sweep'.known = sweep.known
  BY <1>1 DEF Sweep
<1>3. SweepOK'
  BY <1>1, <1>2 DEF IInv, SweepOK
<1>4. Heard' /\ Again'
  BY <1>1, <1>2 DEF IInv, Heard, Again, InMark, SweepOK
<1> QED BY <1>1, <1>2, <1>3, <1>4, SweepIInv

\* The sweep hangs in a mail, or the process ends: what was in the mail or not
\* marked yet has lapsed.
LEMMA EndIInv ==
  ASSUME IInv, MailRefused \/ MailFails \/ Crash
  PROVE  IInv'
<1>1. /\ sweep' = NoSweep
      /\ call' = call \/ call' = [r \in Requests |-> <<>>]
      /\ UNCHANGED <<note, verified>>
  BY DEF MailRefused, MailFails, Crash, Hang
<1>2. /\ mailed' = mailed \/ (sweep.hand # NoNote /\ mailed' = mailed \cup {sweep.hand})
      /\ lapsed \subseteq lapsed' /\ lapsed' \subseteq mailed'
      /\ mailed' \ mailed \subseteq lapsed'
      /\ \A n \in Notes : InMark(n) => n \in lapsed'
  BY DEF MailRefused, MailFails, Hang, Crash, IInv, TypeOK, SweepOK, Deliver, InMark
<1>3. sweep' \in Sweep /\ sweep'.pc = "idle" /\ sweep'.batch = {} /\ sweep'.hand = NoNote
      /\ sweep'.known = {}
  BY <1>1 DEF NoSweep, Sweep
<1>4. SweepOK'
  BY <1>3 DEF SweepOK
<1>5. mailed \subseteq Notes /\ mailed' \subseteq Notes
  BY <1>2 DEF IInv, TypeOK, Sweep
<1>6. Heard'
  <2> SUFFICES ASSUME NEW n \in mailed'
               PROVE  n \in lapsed' \/ note[n].sent \/ note[n].at = "gone"
    BY <1>1 DEF Heard
  <2>1. CASE n \in mailed
    BY <1>2, <1>5, <2>1 DEF IInv, Heard
  <2>2. CASE n \notin mailed
    BY <1>2, <2>2
  <2> QED BY <2>1, <2>2
<1>7. Again'
  BY <1>3, <1>5 DEF Again
<1> QED BY <1>1, <1>2, <1>3, <1>4, <1>6, <1>7, SweepIInv

\* The update that marks what was mailed: it is marked, gone or has lapsed.
LEMMA MarkIInv ==
  ASSUME IInv, MarkSent \/ MarkFails
  PROVE  IInv'
<1> USE DEF IInv
<1> DEFINE h == sweep.hand
<1>1. /\ sweep.pc = "mark" /\ note' \in {note, Marked} /\ UNCHANGED <<verified, call, mailed>>
      /\ lapsed' = lapsed \cup {h} \/ (lapsed' = lapsed /\ note' = Marked)
      /\ sweep' = Onward(h)
  BY DEF MarkSent, MarkFails
<1>2. /\ sweep' \in Sweep /\ sweep'.pc \in {"idle", "next"} /\ sweep'.hand = NoNote
      /\ sweep'.batch \subseteq sweep.batch \ {h} /\ sweep'.known \subseteq sweep.known
  BY <1>1, OnwardIs
<1>3. /\ h \in Notes /\ h \in mailed /\ h \in Born /\ h # NoNote /\ NoNote \notin mailed
      /\ note \in [Notes -> Note] /\ mailed \subseteq Notes /\ lapsed \subseteq mailed
  BY <1>1 DEF TypeOK, SweepOK, Born
<1>4. /\ note' \in [Notes -> Note]
      /\ \A n \in Notes : /\ note'[n].to = note[n].to /\ note'[n].at = note[n].at
                          /\ note'[n].read = note[n].read /\ note'[n].old = note[n].old
                          /\ note[n].sent => note'[n].sent
                          /\ n # h => note'[n] = note[n]
      /\ note' = Marked => note'[h].sent \/ note[h].at = "gone"
  <2> DEFINE row == [note[h] EXCEPT !.sent = TRUE]
  <2>1. /\ row \in Note /\ row.to = note[h].to /\ row.at = note[h].at /\ row.sent
        /\ row.read = note[h].read /\ row.old = note[h].old
    BY <1>3 DEF Note
  <2>2. Marked = [note EXCEPT ![h] = row] \/ (Marked = note /\ note[h].at = "gone")
    <3>1. note[h].at \in {"here", "gone"}
      BY <1>3 DEF Born, Unborn, Note
    <3> QED BY <1>3, <3>1 DEF Marked, Here
  <2> HIDE DEF row, h
  <2> QED BY <1>1, <1>3, <2>1, <2>2
<1> HIDE DEF h
<1>5. Unborn' = Unborn /\ Born' = Born
  BY <1>4 DEF Unborn, Born
<1>6. TypeOK'
  <2>1. \A n \in Notes : note'[n].at # "unborn" => note'[n].to \in Users
    BY <1>4 DEF TypeOK
  <2>2. lapsed' \subseteq mailed
    BY <1>1, <1>3
  <2> QED BY <1>1, <1>2, <1>4, <2>1, <2>2 DEF TypeOK
<1>7. BornOK'
  BY <1>1, <1>3, <1>4, <1>5 DEF BornOK, Unborn
<1>8. SweepOK'
  <2>1. sweep.batch \subseteq Born /\ sweep.known \subseteq verified /\ NoNote \notin Born
    BY DEF SweepOK, Born
  <2> QED BY <1>1, <1>2, <1>5, <2>1 DEF SweepOK
<1>9. Heard'
  <2> SUFFICES ASSUME NEW n \in mailed
               PROVE  n \in lapsed' \/ note'[n].sent \/ note'[n].at = "gone"
    BY <1>1 DEF Heard
  <2>1. CASE n = h
    BY <1>1, <1>3, <1>4, <2>1
  <2>2. CASE n # h
    BY <1>1, <1>3, <1>4, <2>2 DEF Heard, InMark, h
  <2> QED BY <2>1, <2>2
<1>10. Again'
  <2> SUFFICES ASSUME NEW n \in sweep.batch \ {h}, n \in mailed
               PROVE  n \in lapsed'
    BY <1>1, <1>2, <1>3 DEF Again
  <2> QED BY <1>1 DEF Again, InMark, h
<1>11. Countable'
  BY <1>1, <1>5 DEF Countable, Pending
<1>12. NothingLostUnread' /\ OnlyVerifiedMailed'
  BY <1>1, <1>3, <1>4 DEF NothingLostUnread, OnlyVerifiedMailed
<1> QED BY <1>6, <1>7, <1>8, <1>9, <1>10, <1>11, <1>12

-----------------------------------------------------------------------------
\* createNotifications: an insert, or one that fails and gives up.
LEMMA CreateIInv ==
  ASSUME IInv, NEW r \in Requests, CreateNotification(r) \/ CreateFails(r)
  PROVE  IInv'
<1>1. /\ call[r] # <<>> /\ UNCHANGED <<verified, sweep, mailed, lapsed>>
      /\ UNCHANGED note \/ \E n \in Unborn : Insert(n, Head(call[r]))
  BY DEF CreateNotification, CreateFails
<1>2. /\ Head(call[r]) \in Users /\ Tail(call[r]) \in Seq(Users)
      /\ Len(Tail(call[r])) <= Len(call[r]) /\ Len(<<>>) <= Len(call[r])
      /\ call \in [Requests -> Seq(Users)] /\ <<>> \in Seq(Users)
  BY <1>1, TailShorter, EmptySeq DEF IInv, TypeOK
<1>3. PICK s \in Seq(Users) : s \in {<<>>, Tail(call[r])} /\ call' = [call EXCEPT ![r] = s]
  BY <1>2 DEF CreateNotification, CreateFails
<1>4. call' \in [Requests -> Seq(Users)]
  BY <1>2, <1>3
<1>5. \A q \in Requests : Len(call'[q]) <= Len(call[q])
  <2>1. \A q \in Requests : call[q] \in Seq(Users) /\ Len(call[q]) \in Nat
    BY <1>2
  <2>2. Len(s) <= Len(call[r])
    BY <1>2, <1>3
  <2> QED BY <1>2, <1>3, <2>1, <2>2
<1>6. CASE \E n \in Unborn : Insert(n, Head(call[r]))
  BY <1>1, <1>2, <1>4, <1>5, <1>6, InsertIInv
<1>7. CASE UNCHANGED note
  <2>1. Unborn' = Unborn /\ Born' = Born
    BY <1>7 DEF Unborn, Born
  <2>2. IsFiniteSet(Pending')
    BY <1>4, <1>5, PendingShrinks
  <2>3. TypeOK'
    BY <1>1, <1>4, <1>7 DEF IInv, TypeOK
  <2> QED BY <1>1, <1>7, <2>1, <2>2, <2>3
          DEF IInv, BornOK, SweepOK, Heard, Again, InMark, Countable, NothingLostUnread,
              OnlyVerifiedMailed
<1> QED BY <1>1, <1>6, <1>7

\* Verification only adds to those who may be mailed.
LEMMA ActivateIInv ==
  ASSUME IInv, NEW u \in Users, ActivateUser(u)
  PROVE  IInv'
<1> USE DEF IInv, ActivateUser
<1>1. Unborn' = Unborn /\ Born' = Born /\ Pending' = Pending
  BY DEF Unborn, Born, Pending
<1>2. TypeOK'
  BY DEF TypeOK
<1> QED BY <1>1, <1>2 DEF BornOK, SweepOK, Heard, Again, InMark, Countable, NothingLostUnread,
                          OnlyVerifiedMailed

\* A step that changes nothing keeps the invariant.
LEMMA StutterIInv == IInv /\ UNCHANGED vars => IInv'
<1> SUFFICES ASSUME IInv, UNCHANGED vars PROVE IInv'
  OBVIOUS
<1> USE DEF IInv, vars
<1>1. Unborn' = Unborn /\ Born' = Born /\ Pending' = Pending
  BY DEF Unborn, Born, Pending
<1>2. TypeOK'
  BY DEF TypeOK
<1> QED BY <1>1, <1>2 DEF BornOK, SweepOK, Heard, Again, InMark, Countable, NothingLostUnread,
                          OnlyVerifiedMailed

\* Every step keeps the invariant.
LEMMA NextIInv == IInv /\ [Next]_vars => IInv'
<1> SUFFICES ASSUME IInv, Next PROVE IInv'
  BY StutterIInv
<1>1. ASSUME NEW r \in Requests, News(r) PROVE IInv'
  BY <1>1, NewsTells, TellIInv
<1>2. ASSUME NEW r \in Requests, CreateNotification(r) \/ CreateFails(r) PROVE IInv'
  BY <1>2, CreateIInv
<1>3. ASSUME NEW u \in Users, ReadAllNotifications(u) \/ \E n \in Notes : ReadNotification(n, u)
      PROVE  IInv'
  BY <1>3, ReadsIInv
<1>4. ASSUME NEW u \in Users, ActivateUser(u) PROVE IInv'
  BY <1>4, ActivateIInv
<1>5. CASE RemoveNotifications \/ \E n \in Notes : Expire(n)
  BY <1>5, TimeIInv
<1>6. CASE SendEmailNotifications
  BY <1>6, BeginIInv
<1>7. CASE Loop \/ MarkFails
  BY <1>7, SkipIInv, TakeIInv, MailIInv, MarkIInv, EndIInv DEF Loop
<1>8. CASE MailFails \/ Crash
  BY <1>8, EndIInv
<1> QED BY <1>1, <1>2, <1>3, <1>4, <1>5, <1>6, <1>7, <1>8 DEF Next, HealthyNext, Fault

\* The invariant holds in every behaviour.
THEOREM Invariance == Spec => []IInv
BY InitIInv, NextIInv, PTL DEF Spec

\* Every variable has its type; the sweep has a notification in hand exactly
\* while it mails or marks it.
THEOREM TypeCorrect == Spec => []TypeOK
<1>1. IInv => TypeOK
  BY DEF IInv
<1> QED BY <1>1, Invariance, PTL

\* removeNotifications clears away nothing unread and unmailed within its
\* seven days, however it interleaves with the sweep and with crashes.
THEOREM NothingIsLostUnread == Spec => []NothingLostUnread
<1>1. IInv => NothingLostUnread
  BY DEF IInv
<1> QED BY <1>1, Invariance, PTL

\* sendEmailNotifications delivers to verified addresses only.
THEOREM OnlyVerifiedAreMailed == Spec => []OnlyVerifiedMailed
<1>1. IInv => OnlyVerifiedMailed
  BY DEF IInv
<1> QED BY <1>1, Invariance, PTL

\* Whatever is mailed again had been mailed without the database hearing of it.
THEOREM NoMailTwice == Spec => NoSecondMail
<1>1. IInv /\ [Next]_vars
        => [sweep.pc = "mail" /\ sweep'.pc = "mark" /\ sweep.hand \in mailed
              => sweep.hand \in lapsed]_vars
  BY DEF IInv, Again, InMark
<1> QED BY <1>1, Invariance, PTL DEF Spec, NoSecondMail

-----------------------------------------------------------------------------
(* Nobody is skipped. *)

NotesOf(u) == {n \in Notes : note[n].to = u}
PendingFor(u) == {x \in Pending : call[x[1]][x[2]] = u}

\* Due adds up two finite sets.
LEMMA DueIs ==
  ASSUME IInv, NEW u \in Users
  PROVE  /\ Due(u) = Cardinality(NotesOf(u)) + Cardinality(PendingFor(u))
         /\ IsFiniteSet(NotesOf(u)) /\ IsFiniteSet(PendingFor(u))
         /\ Cardinality(NotesOf(u)) \in Nat /\ Cardinality(PendingFor(u)) \in Nat
<1>1. NotesOf(u) \subseteq Born /\ PendingFor(u) \subseteq Pending
  BY DEF IInv, BornOK, Born, NotesOf, PendingFor
<1>2. IsFiniteSet(NotesOf(u)) /\ IsFiniteSet(PendingFor(u))
  BY <1>1, FS_Subset DEF IInv, Countable
<1> QED BY <1>2, FS_CardinalityType DEF Due, NotesOf, PendingFor

\* It falls only if one of the sets shrinks.
LEMMA DueGrows ==
  ASSUME IInv, IInv', NEW u \in Users,
         NotesOf(u) \subseteq NotesOf(u)', PendingFor(u) \subseteq PendingFor(u)'
  PROVE  Due(u)' >= Due(u)
<1>1. /\ Due(u)' = Cardinality(NotesOf(u)') + Cardinality(PendingFor(u)')
      /\ IsFiniteSet(NotesOf(u)') /\ IsFiniteSet(PendingFor(u)')
      /\ Cardinality(NotesOf(u)') \in Nat /\ Cardinality(PendingFor(u)') \in Nat
  <2>1. /\ NotesOf(u)' \subseteq Born' /\ PendingFor(u)' \subseteq Pending'
    BY DEF IInv, BornOK, Born, NotesOf, PendingFor
  <2>2. IsFiniteSet(NotesOf(u)') /\ IsFiniteSet(PendingFor(u)')
    BY <2>1, FS_Subset DEF IInv, Countable
  <2> QED BY <2>2, FS_CardinalityType DEF Due, NotesOf, PendingFor
<1>2. /\ Cardinality(NotesOf(u)) <= Cardinality(NotesOf(u)')
      /\ Cardinality(PendingFor(u)) <= Cardinality(PendingFor(u)')
  BY <1>1, FS_Subset
<1> QED BY <1>1, <1>2, DueIs

\* A turn of the loop of createNotifications: what its first recipient is no
\* longer due from the request is a notification now, and the others move up.
LEMMA CreateDue ==
  ASSUME IInv, IInv', NEW r \in Requests, CreateNotification(r), NEW u \in Users
  PROVE  Due(u)' >= Due(u)
<1> DEFINE P == PendingFor(u) \ {<<r, 1>>}
           first == IF Head(call[r]) = u THEN 1 ELSE 0
<1>1. call[r] # <<>> /\ call' = [call EXCEPT ![r] = Tail(call[r])]
  BY DEF CreateNotification
<1>2. PICK n \in Unborn : Insert(n, Head(call[r]))
  BY DEF CreateNotification
<1>3. /\ Head(call[r]) \in Users /\ Tail(call[r]) \in Seq(Users)
      /\ Len(Tail(call[r])) = Len(call[r]) - 1 /\ Len(call[r]) \in Nat \ {0}
      /\ call[r][1] = Head(call[r])
      /\ \A i \in 1..Len(Tail(call[r])) : Tail(call[r])[i] = call[r][i + 1]
  BY <1>1, TailShorter
<1>4. /\ call \in [Requests -> Seq(Users)] /\ note \in [Notes -> Note]
      /\ n \in Notes /\ note[n].to = NoUser
  BY DEF IInv, TypeOK, BornOK, Unborn
<1>5. Cardinality(NotesOf(u)') = Cardinality(NotesOf(u)) + first
  <2>1. /\ note'[n].to = Head(call[r])
        /\ \A m \in Notes \ {n} : note'[m] = note[m]
    <3> DEFINE row == [note[n] EXCEPT !.to = Head(call[r]), !.at = "here"]
    <3>1. row.to = Head(call[r])
      BY <1>4 DEF Note
    <3>2. note' = [note EXCEPT ![n] = row]
      BY <1>2 DEF Insert
    <3> HIDE DEF row
    <3> QED BY <1>4, <3>1, <3>2
  <2>2. n \notin NotesOf(u)
    BY <1>4 DEF NotesOf
  <2>3. NotesOf(u)' = IF Head(call[r]) = u THEN NotesOf(u) \cup {n} ELSE NotesOf(u)
    BY <1>4, <2>1, <2>2 DEF NotesOf
  <2>4. Cardinality(NotesOf(u) \cup {n}) = Cardinality(NotesOf(u)) + 1
    BY <2>2, DueIs, FS_AddElement
  <2> HIDE DEF first
  <2>5. CASE Head(call[r]) = u
    BY <2>3, <2>4, <2>5 DEF first
  <2>6. CASE Head(call[r]) # u
    <3>1. first = 0 /\ Cardinality(NotesOf(u)) \in Nat
      BY <2>6, DueIs DEF first
    <3> QED BY <2>3, <2>6, <3>1
  <2> QED BY <2>5, <2>6
<1>6. Cardinality(P) = Cardinality(PendingFor(u)) - first
  <2>1. <<r, 1>> \in Pending
    BY <1>3 DEF Pending
  <2>2. <<r, 1>> \in PendingFor(u) <=> Head(call[r]) = u
    BY <1>3, <2>1 DEF PendingFor
  <2>3. IsFiniteSet(PendingFor(u)) /\ Cardinality(PendingFor(u)) \in Nat
    BY DueIs
  <2>4. Cardinality(P) = IF <<r, 1>> \in PendingFor(u) THEN Cardinality(PendingFor(u)) - 1
                                                      ELSE Cardinality(PendingFor(u))
    BY ONLY <2>3, FS_RemoveElement
  <2> HIDE DEF P
  <2> QED BY <2>2, <2>3, <2>4
<1>7. IsFiniteSet(PendingFor(u)') /\ Cardinality(PendingFor(u)') \in Nat
  <2>1. PendingFor(u)' \subseteq Pending'
    BY DEF PendingFor
  <2> QED BY <2>1, FS_Subset, FS_CardinalityType DEF IInv, Countable
<1>8. Cardinality(P) <= Cardinality(PendingFor(u)')
  <2> DEFINE f == [x \in P |-> IF x[1] = r THEN <<r, x[2] - 1>> ELSE x]
  <2>1. \A x \in P : /\ x = <<x[1], x[2]>> /\ x[1] \in Requests /\ x[2] \in Nat
                     /\ x[2] \in 1..Len(call[x[1]]) /\ call[x[1]][x[2]] = u
                     /\ x[1] = r => x[2] > 1
    BY <1>3 DEF PendingFor, Pending
  <2>2. ASSUME NEW x \in P PROVE f[x] \in PendingFor(u)'
    <3>1. CASE x[1] = r
      <4>1. x[2] - 1 \in 1..Len(Tail(call[r])) /\ Tail(call[r])[x[2] - 1] = u
        BY <1>3, <2>1, <3>1
      <4>2. call'[r] = Tail(call[r])
        BY <1>1, <1>4
      <4>3. <<r, x[2] - 1>> \in {r} \X (1..Len(call'[r]))
        BY <4>1, <4>2
      <4>4. <<r, x[2] - 1>> \in Pending'
        BY <4>3 DEF Pending
      <4>5. <<r, x[2] - 1>> \in PendingFor(u)'
        BY <4>1, <4>2, <4>4 DEF PendingFor
      <4> QED BY <3>1, <4>5
    <3>2. CASE x[1] # r
      <4>1. call'[x[1]] = call[x[1]]
        BY <1>1, <1>4, <2>1, <3>2
      <4>2. <<x[1], x[2]>> \in PendingFor(u)'
        BY <2>1, <4>1 DEF PendingFor, Pending
      <4> QED BY <2>1, <3>2, <4>2
    <3> QED BY <3>1, <3>2
  <2>3. f \in [P -> PendingFor(u)']
    BY <2>2
  <2>4. \A x, y \in P : f[x] = f[y] => x = y
    BY <2>1
  <2> HIDE DEF f, P
  <2>5. f \in Injection(P, PendingFor(u)')
    BY <2>3, <2>4, Fun_IsInj
  <2> QED BY <1>7, <2>5, FS_Injection
<1>9. Due(u)' = Cardinality(NotesOf(u)') + Cardinality(PendingFor(u)')
  BY DEF Due, NotesOf, PendingFor
<1> HIDE DEF P
<1> QED BY <1>5, <1>6, <1>7, <1>8, <1>9, DueIs

\* The steps that leave the recipients and the requests alone.
LEMMA SameDue ==
  ASSUME IInv, IInv', NEW u \in Users, UNCHANGED call,
         \A n \in Notes : note'[n].to = note[n].to
  PROVE  Due(u)' >= Due(u)
<1>1. NotesOf(u)' = NotesOf(u)
  BY DEF NotesOf
<1>2. PendingFor(u)' = PendingFor(u)
  BY DEF PendingFor, Pending
<1> QED BY <1>1, <1>2, DueGrows

\* A request that begins to notify has nothing in flight before.
LEMMA TellDue ==
  ASSUME IInv, IInv', NEW u \in Users, NEW r \in Requests, NEW s \in Seq(Users), Tell(r, s)
  PROVE  Due(u)' >= Due(u)
<1>1. /\ call[r] = <<>> /\ call' = [call EXCEPT ![r] = s] /\ note' = note
      /\ call \in [Requests -> Seq(Users)]
  BY DEF Tell, IInv, TypeOK
<1>2. NotesOf(u)' = NotesOf(u)
  BY <1>1 DEF NotesOf
<1>3. ASSUME NEW x \in PendingFor(u) PROVE x \in PendingFor(u)'
  <2>1. x = <<x[1], x[2]>> /\ x[1] \in Requests /\ x[2] \in 1..Len(call[x[1]])
        /\ call[x[1]][x[2]] = u
    BY DEF PendingFor, Pending
  <2>2. x[1] # r
    BY <1>1, <2>1
  <2>3. call'[x[1]] = call[x[1]]
    BY <1>1, <2>1, <2>2
  <2>4. <<x[1], x[2]>> \in PendingFor(u)'
    BY <2>1, <2>3 DEF PendingFor, Pending
  <2> QED BY <2>1, <2>4
<1> QED BY <1>2, <1>3, DueGrows

\* A request gives up after a failing insert: those it leaves out aside, all
\* that others are due stays.
LEMMA FailDue ==
  ASSUME IInv, IInv', NEW u \in Users, NEW r \in Requests, CreateFails(r), ~LeavesOut(r, u)
  PROVE  Due(u)' >= Due(u)
<1>1. /\ call[r] # <<>> /\ call' = [call EXCEPT ![r] = <<>>]
      /\ call \in [Requests -> Seq(Users)] /\ note \in [Notes -> Note]
  BY DEF CreateFails, IInv, TypeOK
<1>2. ASSUME NEW n \in NotesOf(u) PROVE n \in NotesOf(u)'
  <2>1. CASE UNCHANGED note
    BY <2>1 DEF NotesOf
  <2>2. ASSUME NEW m \in Unborn, Insert(m, Head(call[r])) PROVE n \in NotesOf(u)'
    <3>1. n \in Notes /\ note[n].to = u
      BY DEF NotesOf
    <3>2. m # n
      BY <3>1, NullAssumption DEF IInv, BornOK
    <3>3. note'[n] = note[n]
      BY <1>1, <2>2, <3>1, <3>2 DEF Insert
    <3> QED BY <3>1, <3>3 DEF NotesOf
  <2> QED BY <2>1, <2>2 DEF CreateFails
<1>3. ASSUME NEW x \in PendingFor(u) PROVE x \in PendingFor(u)'
  <2>1. x = <<x[1], x[2]>> /\ x[1] \in Requests /\ x[2] \in 1..Len(call[x[1]])
        /\ call[x[1]][x[2]] = u
    BY DEF PendingFor, Pending
  <2>2. x[1] # r
    <3> SUFFICES ASSUME x[1] = r PROVE FALSE
      OBVIOUS
    <3>1. call[r] \in Seq(Users) /\ x[2] \in 1..Len(call[r]) /\ call[r][x[2]] = u
      BY <1>1, <2>1
    <3>2. x[2] \in DOMAIN call[r]
      BY <3>1
    <3> QED BY <3>1, <3>2 DEF LeavesOut
  <2>3. call'[x[1]] = call[x[1]]
    BY <1>1, <2>1, <2>2
  <2>4. <<x[1], x[2]>> \in PendingFor(u)'
    BY <2>1, <2>3 DEF PendingFor, Pending
  <2> QED BY <2>1, <2>4
<1> QED BY <1>2, <1>3, DueGrows

\* createNotifications reaches all its recipients.  A failing insert costs the
\* recipient and those behind in the same loop their notification, the end of
\* the process all of them; nothing else does, whatever the other requests, the
\* readers, the crons and a sweep that hangs do meanwhile.
THEOREM NobodyIsSkipped == Spec => NobodySkipped
<1> DEFINE A == \A u \in Users :
                  \/ Due(u)' >= Due(u)
                  \/ ~HealthyNext /\ (Crash \/ \E r \in Requests : LeavesOut(r, u))
<1>1. ASSUME IInv, IInv', Next, NEW u \in Users
      PROVE  \/ Due(u)' >= Due(u)
             \/ ~HealthyNext /\ (Crash \/ \E r \in Requests : LeavesOut(r, u))
  <2>0. note \in [Notes -> Note]
    BY <1>1 DEF IInv, TypeOK
  <2>1. ASSUME NEW r \in Requests, News(r) PROVE Due(u)' >= Due(u)
    BY <1>1, <2>1, NewsTells, TellDue
  <2>2. ASSUME NEW r \in Requests, CreateNotification(r) PROVE Due(u)' >= Due(u)
    BY <1>1, <2>2, CreateDue
  <2>3. ASSUME \/ \E v \in Users : \/ ReadAllNotifications(v)
                                 \/ \E n \in Notes : ReadNotification(n, v)
               \/ RemoveNotifications \/ \E n \in Notes : Expire(n)
        PROVE  Due(u)' >= Due(u)
    <3>1. UNCHANGED call
      BY <2>3 DEF ReadAllNotifications, ReadNotification, RemoveNotifications, Expire, Change
    <3>2. \A n \in Notes : note'[n].to = note[n].to
      BY <2>0, <2>3
         DEF ReadAllNotifications, ReadNotification, RemoveNotifications, Expire, Change, Note
    <3> QED BY <1>1, <3>1, <3>2, SameDue
  <2>4. ASSUME SendEmailNotifications \/ SkipUnverified \/ TakeNext \/ SendMail
               \/ MailRefused \/ MailFails \/ \E v \in Users : ActivateUser(v)
        PROVE  Due(u)' >= Due(u)
    <3>1. UNCHANGED <<note, call>>
      BY <2>4 DEF SendEmailNotifications, SkipUnverified, TakeNext, SendMail, ActivateUser,
                  MailRefused, MailFails, Hang
    <3> QED BY <1>1, <3>1, SameDue
  <2>5. ASSUME MarkSent \/ MarkFails PROVE Due(u)' >= Due(u)
    <3>1. UNCHANGED call /\ note' \in {note, Marked}
      BY <2>5 DEF MarkSent, MarkFails
    <3>2. \A n \in Notes : note'[n].to = note[n].to
      BY <2>0, <3>1 DEF Marked, Here, Note
    <3> QED BY <1>1, <3>1, <3>2, SameDue
  <2>6. ASSUME NEW r \in Requests, CreateFails(r)
        PROVE  Due(u)' >= Due(u) \/ LeavesOut(r, u)
    BY <1>1, <2>6, FailDue
  <2>7. HealthyNext => Due(u)' >= Due(u)
    BY <2>1, <2>2, <2>3, <2>4, <2>5 DEF HealthyNext, Loop
  <2>8. Fault => Due(u)' >= Due(u) \/ Crash \/ \E r \in Requests : LeavesOut(r, u)
    BY <2>4, <2>5, <2>6 DEF Fault
  <2> QED BY <1>1, <2>7, <2>8 DEF Next
<1>2. IInv /\ IInv' /\ [Next]_vars => [A]_vars
  BY <1>1
<1> QED BY <1>2, Invariance, PTL DEF Spec, NobodySkipped
=============================================================================

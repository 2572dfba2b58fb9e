--------------------------- MODULE Notifications ---------------------------
(***************************************************************************)
(* NotificationService and EmailService: the Notification table, the calls *)
(* that fill it after a change to a project or task, and the two crons     *)
(* that mail what nobody read and clear what is done with.                 *)
(*                                                                         *)
(* The mailing sweep reads its notifications once and then works through   *)
(* that snapshot, awaiting a mail and an update for each, while users read *)
(* and the other cron deletes the same rows.                               *)
(***************************************************************************)
EXTENDS Naturals, Sequences, FiniteSets

CONSTANTS
  Requests,     \* requests that notify others
  Users,
  Bouncing,     \* the users whose mail the SMTP server refuses
  Notes,        \* notification ids (bounds a run)
  NoNote, NoUser

ASSUME UsersAssumption == IsFiniteSet(Users) /\ Bouncing \subseteq Users
ASSUME NullAssumption == NoNote \notin Notes /\ NoUser \notin Users

VARIABLES
  note,         \* every notification: its row and whether it is there
  verified,     \* the users with emailVerified
  call,         \* the recipients createNotifications has still to reach
  sweep,        \* the run of sendEmailNotifications
  mailed,       \* the notifications a mail was delivered for
  lapsed        \* those mailed but not marked (for the properties)

vars == <<note, verified, call, sweep, mailed, lapsed>>

Note == [to : Users \cup {NoUser}, at : {"unborn", "here", "gone"},
         read : BOOLEAN, sent : BOOLEAN, old : BOOLEAN]

\* known: the recipients the snapshot saw as verified.
Sweep == [pc : {"idle", "next", "mail", "mark"},
          batch : SUBSET Notes, known : SUBSET Users, hand : Notes \cup {NoNote}]

NoSweep == [pc |-> "idle", batch |-> {}, known |-> {}, hand |-> NoNote]

TypeOK ==
  /\ note \in [Notes -> Note]
  /\ \A n \in Notes : note[n].at # "unborn" => note[n].to \in Users
  /\ verified \subseteq Users
  /\ call \in [Requests -> Seq(Users)]
  /\ sweep \in Sweep
  /\ sweep.pc \in {"mail", "mark"} <=> sweep.hand # NoNote
  /\ mailed \subseteq Notes /\ lapsed \subseteq mailed

Init ==
  /\ note = [n \in Notes |-> [to |-> NoUser, at |-> "unborn",
                              read |-> FALSE, sent |-> FALSE, old |-> FALSE]]
  /\ verified = {}
  /\ call = [r \in Requests |-> <<>>]
  /\ sweep = NoSweep
  /\ mailed = {} /\ lapsed = {}

Unborn == {n \in Notes : note[n].at = "unborn"}
Here == {n \in Notes : note[n].at = "here"}

-----------------------------------------------------------------------------
(* Who is told: the calls of ProjectService, TaskService, CommentService.  *)

\* Who made the change is filtered out.
But(u, author) == IF u = author THEN <<>> ELSE <<u>>

\* The orders in which findMany may return the users.
Orders(users) ==
  {s \in [1..Cardinality(users) -> users] : {s[i] : i \in DOMAIN s} = users}

Pending == UNION {{r} \X (1..Len(call[r])) : r \in Requests}

\* createNotifications.  Bound: only if the ids of the run last.
Tell(r, recipients) ==
  /\ call[r] = <<>>
  /\ Cardinality(Unborn) >= Cardinality(Pending) + Len(recipients)
  /\ call' = [call EXCEPT ![r] = recipients]
  /\ UNCHANGED <<note, verified, sweep, mailed, lapsed>>

\* editProject, or a comment on the project: the members but the author, in
\* the order the database returns them.
TellMembers(r) ==
  \E members \in SUBSET Users : \E author \in Users :
    \E s \in Orders(members \ {author}) : Tell(r, s)

\* editTask: the creator and, unless the task is handed over, the assignee,
\* who may be the same person twice.
TellChange(r) ==
  \E creator, assignee, author \in Users : \E handedOver \in BOOLEAN :
    Tell(r, But(creator, author) \o (IF handedOver THEN <<>> ELSE But(assignee, author)))

\* A comment on a task.
TellComment(r) ==
  \E creator, assignee, author \in Users :
    Tell(r, (IF creator = assignee THEN <<>> ELSE But(assignee, author)) \o But(creator, author))

\* Being added to a project or assigned a task by somebody else.
TellAssigned(r) ==
  \E u, by \in Users : u # by /\ Tell(r, <<u>>)

\* One turn of the loop of createNotifications; an answer may be lost.
Insert(n, u) == note' = [note EXCEPT ![n] = [@ EXCEPT !.to = u, !.at = "here"]]

\* Mutant: the loop returns its first insert instead of awaiting each.
CreateNotification_ReturnsFirst(r) ==
  /\ call[r] # <<>>
  /\ \E n \in Unborn : Insert(n, Head(call[r]))
  /\ call' = [call EXCEPT ![r] = <<>>]
  /\ UNCHANGED <<verified, sweep, mailed, lapsed>>

CreateNotification(r) ==
  /\ call[r] # <<>>
  /\ \E n \in Unborn : Insert(n, Head(call[r]))
  /\ call' = [call EXCEPT ![r] = Tail(@)]
  /\ UNCHANGED <<verified, sweep, mailed, lapsed>>

\* The request that notifies throws: the later recipients are not told.
CreateFails(r) ==
  /\ call[r] # <<>>
  /\ UNCHANGED note \/ \E n \in Unborn : Insert(n, Head(call[r]))
  /\ call' = [call EXCEPT ![r] = <<>>]
  /\ UNCHANGED <<verified, sweep, mailed, lapsed>>

-----------------------------------------------------------------------------
(* NotificationController, Accounts' activateUser, the clock and a cron. *)

Change(f) == note' = f /\ UNCHANGED <<verified, call, sweep, mailed, lapsed>>

\* Somebody else's notification, or one that is gone, answers 404.
ReadNotification(n, u) ==
  n \in Here /\ note[n].to = u /\ Change([note EXCEPT ![n].read = TRUE])

ReadAllNotifications(u) ==
  Change([n \in Notes |-> IF n \in Here /\ note[n].to = u
                            THEN [note[n] EXCEPT !.read = TRUE] ELSE note[n]])

\* Seven days pass.
Expire(n) == n \in Here /\ Change([note EXCEPT ![n].old = TRUE])

ActivateUser(u) ==
  /\ verified' = verified \cup {u}
  /\ UNCHANGED <<note, call, sweep, mailed, lapsed>>

Done(n) == note[n].read \/ note[n].sent \/ note[n].old

RemoveNotifications ==
  Change([n \in Notes |-> IF n \in Here /\ Done(n)
                            THEN [note[n] EXCEPT !.at = "gone"] ELSE note[n]])

-----------------------------------------------------------------------------
(* sendEmailNotifications *)

Unsent == {n \in Here : ~note[n].sent /\ ~note[n].read}

\* Mutants: the query forgets emailSent; all are marked before any is mailed.
SendEmailNotifications_IgnoresSent ==
  LET batch == {n \in Here : ~note[n].read}
  IN  /\ sweep.pc = "idle" /\ batch # {}
      /\ sweep' = [pc |-> "next", batch |-> batch, known |-> verified, hand |-> NoNote]
      /\ UNCHANGED <<note, verified, call, mailed, lapsed>>

SendEmailNotifications_MarksFirst ==
  /\ sweep.pc = "idle" /\ Unsent # {}
  /\ sweep' = [pc |-> "next", batch |-> Unsent, known |-> verified, hand |-> NoNote]
  /\ note' = [n \in Notes |-> IF n \in Unsent THEN [note[n] EXCEPT !.sent = TRUE] ELSE note[n]]
  /\ UNCHANGED <<verified, call, mailed, lapsed>>

\* The snapshot holds the rows and their recipients as they are now.
SendEmailNotifications ==
  /\ sweep.pc = "idle" /\ Unsent # {}
  /\ sweep' = [pc |-> "next", batch |-> Unsent, known |-> verified, hand |-> NoNote]
  /\ UNCHANGED <<note, verified, call, mailed, lapsed>>

\* The loop goes on after n, which is handled or whose exception is caught.
Onward(n) ==
  IF sweep.batch \ {n} = {} THEN NoSweep
  ELSE [sweep EXCEPT !.pc = "next", !.batch = @ \ {n}, !.hand = NoNote]

\* Mutant: nothing catches the exception, so it ends the sweep.
SkipUnverified_Aborts ==
  /\ sweep.pc = "next"
  /\ \E n \in sweep.batch : note[n].to \notin sweep.known /\ sweep' = NoSweep
  /\ UNCHANGED <<note, verified, call, mailed, lapsed>>

\* sendEmailNotification throws UserNotVerifiedException.
SkipUnverified ==
  /\ sweep.pc = "next"
  /\ \E n \in sweep.batch : note[n].to \notin sweep.known /\ sweep' = Onward(n)
  /\ UNCHANGED <<note, verified, call, mailed, lapsed>>

\* Mutant: the recipient's address need not be verified.
TakeNext_Anyone ==
  /\ sweep.pc = "next"
  /\ \E n \in sweep.batch :
       sweep' = [sweep EXCEPT !.pc = "mail", !.batch = @ \ {n}, !.hand = n]
  /\ UNCHANGED <<note, verified, call, mailed, lapsed>>

\* findMany has no orderBy: any order.
TakeNext ==
  /\ sweep.pc = "next"
  /\ \E n \in sweep.batch :
       /\ note[n].to \in sweep.known
       /\ sweep' = [sweep EXCEPT !.pc = "mail", !.batch = @ \ {n}, !.hand = n]
  /\ UNCHANGED <<note, verified, call, mailed, lapsed>>

Deliver == mailed' = mailed \cup {sweep.hand}

SendMail ==
  /\ sweep.pc = "mail" /\ note[sweep.hand].to \notin Bouncing
  /\ Deliver
  /\ sweep' = [sweep EXCEPT !.pc = "mark"]
  /\ UNCHANGED <<note, verified, call, lapsed>>

\* Mutant: the loop forgets to put the notification down.
MarkSent_KeepsHand ==
  /\ sweep.pc = "mark"
  /\ sweep' = [sweep EXCEPT !.pc = IF sweep.batch = {} THEN "idle" ELSE "next"]
  /\ note' = [note EXCEPT ![sweep.hand].sent = TRUE]
  /\ UNCHANGED <<verified, call, mailed, lapsed>>

Marked == IF sweep.hand \in Here THEN [note EXCEPT ![sweep.hand].sent = TRUE] ELSE note

\* A row the other cron deleted meanwhile is P2025, caught and logged.
MarkSent ==
  /\ sweep.pc = "mark"
  /\ note' = Marked
  /\ sweep' = Onward(sweep.hand)
  /\ UNCHANGED <<verified, call, mailed, lapsed>>

\* The update rejects, before it took effect or after; the catch logs it and
\* the loop goes on.
MarkFails ==
  /\ sweep.pc = "mark"
  /\ note' \in {note, Marked}
  /\ lapsed' = lapsed \cup {sweep.hand}
  /\ sweep' = Onward(sweep.hand)
  /\ UNCHANGED <<verified, call, mailed>>

\* sendMail throws in the callback it gave the transporter, which is pooled:
\* the pool catches what a callback throws and logs it.  So nobody rejects or
\* resolves the promise the sweep awaits, and this run of the sweep never goes
\* on.  The cron starts another one the next day.
Hang ==
  /\ sweep.pc = "mail"
  /\ sweep' = NoSweep
  /\ UNCHANGED <<note, verified, call>>

MailRefused ==
  /\ Hang
  /\ note[sweep.hand].to \in Bouncing
  /\ UNCHANGED <<mailed, lapsed>>

\* The connection to the SMTP server breaks, before or after delivery.
MailFails ==
  /\ Hang
  /\ \/ UNCHANGED <<mailed, lapsed>>
     \/ Deliver /\ lapsed' = lapsed \cup {sweep.hand}

\* The process ends: requests and the sweep are gone.
Crash ==
  /\ call' = [r \in Requests |-> <<>>]
  /\ sweep' = NoSweep
  /\ lapsed' = lapsed \cup (IF sweep.pc = "mark" THEN {sweep.hand} ELSE {})
  /\ UNCHANGED <<note, verified, mailed>>

-----------------------------------------------------------------------------
News(r) == TellMembers(r) \/ TellChange(r) \/ TellComment(r) \/ TellAssigned(r)

Loop == SkipUnverified \/ TakeNext \/ SendMail \/ MarkSent \/ MailRefused

HealthyNext ==
  \/ \E r \in Requests : News(r) \/ CreateNotification(r)
  \/ \E u \in Users :
       \/ ReadAllNotifications(u) \/ ActivateUser(u)
       \/ \E n \in Notes : ReadNotification(n, u)
  \/ \E n \in Notes : Expire(n)
  \/ RemoveNotifications
  \/ SendEmailNotifications
  \/ Loop

Fault == MarkFails \/ MailFails \/ Crash \/ \E r \in Requests : CreateFails(r)

Next == HealthyNext \/ Fault

\* The scheduler starts the sweep every day and Node resumes it.
Fair == WF_vars(SendEmailNotifications) /\ WF_vars(Loop)

Spec == Init /\ [][Next]_vars /\ Fair

\* No query, no connection and no process fails; mail may still be refused, as
\* it may be by any mail server that works.
HealthySpec == Init /\ [][HealthyNext]_vars /\ Fair

-----------------------------------------------------------------------------
\* A notification is mailed a second time only after a mail that the database
\* never heard of: the update that marks it failed, the answer of the mail
\* server was lost, or the process died.
NoSecondMail ==
  [][sweep.pc = "mail" /\ sweep'.pc = "mark" /\ sweep.hand \in mailed
       => sweep.hand \in lapsed]_vars

\* How often u has been notified or still will be by a request in flight.
Due(u) ==
  Cardinality({n \in Notes : note[n].to = u}) + Cardinality({x \in Pending : call[x[1]][x[2]] = u})

\* A failing insert of r leaves u out: u is its recipient or one behind it.
LeavesOut(r, u) == CreateFails(r) /\ \E i \in DOMAIN call[r] : call[r][i] = u

\* Whoever a change concerns is notified of it: createNotifications reaches all
\* its recipients, in whatever order, while every insert succeeds.  A failing
\* one costs those behind it in the same loop their notification and nobody
\* else, whatever becomes of other requests and of the sweep; only the end of
\* the process costs more.
NobodySkipped ==
  [][\A u \in Users :
       \/ Due(u)' >= Due(u)
       \/ ~HealthyNext /\ (Crash \/ \E r \in Requests : LeavesOut(r, u))]_vars

\* What is cleared away unread within its seven days was mailed before.
NothingLostUnread ==
  \A n \in Notes : note[n].at = "gone" /\ ~note[n].read /\ ~note[n].old => n \in mailed

\* Only verified addresses get mail.
OnlyVerifiedMailed == \A n \in mailed : note[n].to \in verified

\* Once nothing fails any more and no mail is refused, every notification of a
\* verified user is mailed, unless it is read or expires first.
MailedOnceHealthy ==
  <>[][HealthyNext /\ ~MailRefused]_vars =>
    \A n \in Notes :
      (n \in Here /\ note[n].to \in verified)
        ~> (n \in mailed \/ note[n].read \/ note[n].old)

\* Whatever a sweep has found for a user who is verified and whose mail server
\* accepts mail is mailed: one whose mail fails does not hold up the others
\* (notification.service.spec.ts, 'logs errors and continues on failure').
SweepContinues ==
  \A n \in Notes :
    (n \in sweep.batch /\ note[n].to \in sweep.known \ Bouncing) ~> n \in mailed
=============================================================================

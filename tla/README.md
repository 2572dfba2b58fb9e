# CollabFlow: specification, model checking and proofs

TLA+ modules of the CollabFlow backend (NestJS, Prisma on PostgreSQL, S3,
socket.io), the TLC runs that check small instances of them, and TLAPS proofs
of theorems that hold for every instance. Everything is translated from the
source under `src/src`; `PROJECT.json` maps each definition to its lines.

CollabFlow has no transactions around its services, no locks and no queues.
Every `await` is a point at which another request, socket event or cron job of
the same Node process may run. What is hard about it is
therefore what happens *between* the awaits, and after an exception between two
of them. That is what the modules keep; the wording of rows and answers is what
they leave out.

## 1. The system

| part | state it keeps | operations that change it |
|---|---|---|
| Files: `FileService`, `StorageService` | `File` table, S3 bucket | `createFiles`, `deleteFile`, `deleteFiles` |
| Workspace: `ProjectService`, `TaskService`, `CommentService`, their controllers and guards | `Project`, `ProjectUser`, `Task`, `Comment` | creating, editing and deleting projects, tasks and comments; membership; assignment; uploads to each of them |
| Accounts: `AuthService`, `VerificationService`, `UserService` | `User`, `VerificationToken`, sessions | register, login, logout, send token, verify, forgot, reset and change password; a cron clears expired tokens |
| Notifications: `NotificationService`, `EmailService` | `Notification` | creation by the workspace, reading, the mailing cron, the clearing cron |
| Chat: `ChatService`, `ChatController`, `ChatGateway`, `SessionIoAdapter` | `Chat`, `ChatUser`, `Message`, the rooms of the sockets | `POST /chat`, `join_chat`, `send_message`, connecting, disconnecting |
| Seed: `SeedService`, `seed.ts` | all tables but chat, tokens and notifications; the bucket | one script, run by hand on a database nothing else uses |
| Filters, guards of reads, DTOs, mappers, health, logging, throttling | none | none |

How they interact:

- The workspace calls `FileService` to store the uploads of a task, comment or
  project and to delete their files when the owner is deleted. It awaits these
  calls, so they are part of its own sequence of steps.
- The workspace calls `NotificationService.createNotifications` after a change.
- Accounts and notifications send mail through `EmailService`, which wraps
  `transporter.sendMail` in a promise and *throws* in the callback when a mail
  fails. The transporter is pooled (`pool: true`), and nodemailer's pool catches
  and logs what a callback throws: nobody rejects the promise, so whoever awaits
  it, a request or the mailing cron, hangs for good while the process goes on.
- `Comment` and `File` name their owner by a type and an id without a foreign
  key, so only the order of the deletes in the services keeps a comment from
  outliving its task. `Task` and `ProjectUser` do have foreign keys to `Project`.
- A guard (`AuthGuard`, `RoleGuard`, the read- and modify-access guards) is
  awaited before the handler it protects, so what it saw may have changed.

What makes each part correct, and what could break it:

- **Files.** Every row has its object; nothing leaks an object but a failure;
  a deletion that succeeds is complete; the number of files is bounded. Threats:
  two systems (table, bucket) without a common transaction, the count taken
  before the uploads, a list read before the loop over it.
- **Workspace.** No orphaned comment or file; only members take part; comments
  and files are deleted by those who may; every request ends. Threats:
  cascades that stop midway, guards awaited before the write, requests that
  delete each other's rows.
- **Accounts.** A token has one effect; an address is verified, a password
  changed, only with proof; nothing but a failure uses a token up for nothing.
  Threats: find-then-create, find-then-delete, compare-then-update, tokens that
  expire in between.
- **Notifications.** Nothing unread is cleared away unmailed, nothing is mailed
  twice, everybody is mailed in the end. Threats: a sweep over a list read at
  its start, beside readers and a second cron; a crash between mail and mark; a
  mail that is refused, or whose answer is lost, and leaves the sweep hanging.
- **Seed.** A run that ends has linked every row it inserted, and none of those
  that were there before; a run that is cut short leaves rows that are linked or
  recognisable as placeholders, and one stray object at most. Threats: an
  exception or a crash at any of its awaits, a second start, ids that sequences
  have burnt, an empty choice.
- **Chat.** Messages reach members only; a socket is in one chat; a client
  misses nothing; one chat per group. Threats: handlers of one socket that
  overlap, a room read before the awaits, find-then-create, a raw query.

`PROJECT.json` lists the hazards one by one, each at its line, with the
properties that cover it.

## 2. The modules

| component | instance for TLC | proofs |
|---|---|---|
| `FileStore` | `MCFileStore` | `FileStoreProofs` |
| `Workspace` (INSTANCE `FileStore`) | `MCWorkspace` | `WorkspaceProofs` (INSTANCE `FileStoreProofs`), extended by `WorkspaceAgendaProofs`, extended by `WorkspaceDeletionProofs` |
| `Accounts` (INSTANCE `Redemption`) | `MCAccounts` | `AccountsProofs` |
| `Notifications` | `MCNotifications` | `NotificationsProofs` |
| `Chat` | `MCChat` | `ChatProofs` |
| `Seed` | `MCSeed` | `SeedProofs` |

`Workspace` performs its file calls by the actions of `FileStore`. `Redemption` is
the abstract specification that the tokens of `Accounts` implement, under a
refinement mapping that is computed from requests and tokens.

The `MC` modules add the symmetry sets and the functions a `.cfg` cannot write.
A definition with a suffix after an underscore, such as `Erase_FirstOnly`, is
the form a named definition would take if the code had a certain bug; nothing
uses it but the check that the property beside it in `PROJECT.json` notices
that bug. A variable "for the properties" (`saw`, `had`, `mailed`,
`effective`, `lapsed`, `lost`, `died`) records history the code does not keep; no guard
reads it, with the bound of `ChangePassword` and the enumeration of mailed
tokens as the exceptions.

### FileStore

`file` is the `File` table (name to owner), `bucket` the S3 objects, `minted`
the names `randomUUID` has returned, and `call` the state of each call in
flight. `createFiles` is `CreateFiles` (count and compare), then `Upload` and
`Record` once per file. `deleteFile` and `deleteFiles` are `StartRemoving` (the
`findMany`, or the id), then `Remove` (the row) and `Erase` (the object) once
per file. Each has a `...Fails` twin in which the query or command rejects,
before or after it took effect; `RemoveMissing` is Prisma's P2025. `Crash` ends
every call. `Workspace` is built on these actions.

### Workspace

A request is an *agenda*: the list of awaited operations it still has to do.
`PostTask`, `DeleteProject` and the other endpoint actions put the initial
agenda of a handler, guards included; `Guard`, `Read` and `Write` perform the
operation at its head and may put others in front (a task's deletion expands to
its files, its comments and the next task). `Refuse` is a guard or a query that
answers with an exception, `LostRace` a loop that meets a row somebody else
deleted; both drop the rest of the agenda, as an exception does. `CallFiles`,
`AwaitFiles` and `SettleFiles` hand over to the actions of `FileStore` and take
the result back. `Write(r, FALSE)` is a write whose answer is lost.

Ids are drawn at the start of a request instead of at the insert. Nobody else
can name an id before the row is there (`Start` lets requests name ids that are
issued, but until the row exists they are refused like any other unknown id).
The unique constraint and the foreign keys of `ProjectUser` and `Task`, P2003 and
P2025 are in `May`: PostgreSQL sees to them, so no property is about them.
Reads that cannot change the outcome are left out, and so are the notifications,
with one exception: reading the recipients of a comment on a task (`notify`)
throws if the task has gone, and then the comment's files are not stored. Edits
of text are steps (`edit`) with their guards, their P2025 and their lost
answers; the text is not kept. `saw` collects the `ProjectUser` rows that were
there at any step of a request: `TakePartAsMembers` compares the writes with it,
and `FilesAreTheirOwners` the deletions of files. `MayDeleteFilesOf` is what the
modify guards ask, of the owner as it is when the row goes; a membership may be
as old as the request.

### Accounts

`token` holds every token with its user, type and age. `"edge"` is the instant
`expiresAt` itself: `verifyToken` still accepts the token, `getOrCreateToken`
no longer reuses it and the cron does not clear it yet. `Register`,
`ForgotPassword` and `SendVerificationToken` go through `Find`, `Mint` and
`Mail`; `Verify` and `ResetPassword` through `Lookup`, `Redeem` and `Apply`;
`Login` and `ChangePassword` through `Compare` and `Apply`. As in the code,
`verifyToken` does not look at the type of the token it is given, and the
password is compared with a hash read earlier. Hashing is abstracted: a hash is
as good as the password. `NoPassword` as a guess stands for a password that no
account ever has.

`Redemption` says what a token is worth whatever happens: issued once, for one
account, claimed by one request, then used or void, both for good. `Ticket(t)`
is the refinement mapping: a token is *claimed* while a request stands between
`verifyToken`'s delete and its own write, *issued* as long as its row exists
(also when it has expired and the cron has not come by), *used* if the write
took place and *void* if it was swept or the write never came.

### Notifications

`note` is the `Notification` table. `TellMembers`, `TellChange`, `TellComment`
and `TellAssigned` are the four ways the services compute recipients;
`CreateNotification` is one turn of the loop over them. `sweep` is the run of
`sendEmailNotifications`: the snapshot, and for each of its rows `SkipUnverified`
or `TakeNext`, `SendMail` and `MarkSent`. `RemoveNotifications` is the other
cron. `MailRefused` and `MailFails` are a mail whose callback throws: the sweep
hangs (`Hang`) on a promise that never settles and does nothing any more, and
the cron starts the next one the day after. Requests go on. `MarkFails` rejects
where the loop's `catch` does; only `Crash` ends the process. What nodemailer
does with a connection that closes under it, trying the mail again on another,
is within one `SendMail` or `MailFails`.

### Seed

`run` is the script in progress: the statement it awaits next (`pc`), the rows
its loop has still before it, the files it has still to insert. `Follow` is the
order of `SeedService.run`. `SeedUsers` to `Record` are the inserts, with the
placeholders of the code (project 1, user 1, task 1, comment 1); the `Link...`
actions are one turn of a loop each, which draws an owner among the latest rows
(`Latest`, `getLatestIds`) and a user among the members of its project. `serial`
holds the sequences, which a refused insert advances as well: that decides
whether the placeholders exist. `Violates` is the unique email of the admin or a
placeholder without a row, `NobodyToDraw` faker's exception for an empty range,
`Breaks` and `Write(FALSE)` a failing statement or process. `at` orders rows by
`createdAt`. The rows that were there before (`Init`) are none or one of each
table, deleted again or not.

### Chat

`members` is the `ChatUser` table, `request` the calls of `POST /chat` in
flight, `socket` the connections with their rooms and what they were sent, and
`handler` the websocket handlers in flight, each with the user, socket and chat
it read before its first `await`. `ChatsByUsers` is the raw SQL query with its
two counts. `Enter` is `join_chat` after its guard, `Access`, `InsertMessage`
and `Emit` are `send_message`. `FetchMessages` is the client that reads the
newest page of the chat it has joined.

## 3. The runs

| run | property | what it says |
|---|---|---|
| `file_store` | `RowHasObject` | a listed file can be downloaded, whatever failed |
| | `DeleteComplete` | a deletion that returned normally left neither row nor object |
| | `OvershootBounded` | overlapping uploads exceed the limit by one batch per further request at most |
| | `NoSilentLeak` | an object is leaked by a failure only, never by calls that work |
| `file_limit_race` | `FileLimit` (violated) | the documented limit is exceeded by two overlapping uploads |
| `workspace_faults` | `StrandedByThrowOrLateRow` | orphans nobody will delete come from exceptions or late inserts only, never from a cascade that runs through |
| | `FilesAreTheirOwners` | a file goes by somebody who may change its owner, or after its owner |
| `workspace_healthy` | `TakePartAsMembers` | assignees, and team members who comment, were members while the request that wrote so was served |
| | `CommentsAreTheirAuthors` | comments are deleted by their author, an ADMIN or a cascade |
| | `RequestsEnd` | every request ends although others shorten the lists it walks |
| `workspace_cleanup` | `CleansUp` (violated) | a comment inserted after its task was deleted stays for good |
| `accounts` | `RedeemedOnce` | of several requests with one token one gets through |
| | `VerifiedByMail` | a verified address had a token mailed to it redeemed |
| | `PasswordProven` | a password is replaced with a token mailed to the address or a password the account had |
| | `WasteNeedsFailure` | only a failure of its own request or a crash uses a token up without effect, no race and no expiry |
| | `RegisteringMails` | whoever registers is mailed a token, unless that very registration fails or the process does |
| | `TokensRefine` | the tokens are a behaviour of `Redemption` |
| `accounts_race` | `OneLiveToken` (violated) | two overlapping requests create two live tokens |
| `notifications` | `NothingLostUnread` | what is cleared unread within seven days was mailed |
| | `OnlyVerifiedMailed` | unverified addresses get no mail |
| | `NoSecondMail` | a second mail needs a failed mark, a lost answer or a crash |
| | `NobodySkipped` | a failing insert leaves out those behind it in the same loop and nobody else, even when the sweep hangs |
| | `MailedOnceHealthy` | once failures and refusals stop, every verified recipient is mailed |
| `notifications_bounce` | `SweepContinues` (violated) | one refusing mail server keeps those behind it in the sweep from being mailed |
| `chat_groups` | `FindsExactly` | the raw query finds the chats of exactly these users |
| | `ChatsAsAsked` | the answer is a chat of the users asked for, all verified |
| | `DuplicatesBounded` | a group has at most as many chats as requests overlapped |
| `chat_rooms` | `OneRoom` | a socket is in one chat, however its `join_chat`s overlap |
| | `DeliveredToMembers` | messages reach members only, whoever changes rooms meanwhile |
| | `NoGap` | a client that joins and then fetches misses nothing |
| `seed` | `LinkedOrPlaceholder` | wherever a run stops, no row is half linked or loses its link |
| | `FinishedIsLinked` | a run that ends has linked all its rows to people of their projects |
| | `OnceOnly` | whatever failed, only one run ever gets past the admin's account |
| | `OneLeakPerRun` | a run that dies leaves one object without a row at most |
| | `OthersKept` | rows from before a run are not linked anew |
| | `Completes` | past the placeholders, with a member in every project, only a failure stops a run |

Each module also has a `TypeOK`, checked in one of its runs. The four runs with
a violated property are findings, quoted with the sentence of the repository
they disagree with in `PROJECT.json`.

`StrandedByThrowOrLateRow`, `NoSilentLeak`, `WasteNeedsFailure`,
`RegisteringMails` and `NobodySkipped` speak of *every step that works*
(`HealthyNext`): if the outcome of such a step could also be that of a failure, it
is still held to the property. The last three hold failures to it as well, all
but the crash and the failure of the very request whose token, mail or recipients
are at stake.

### Bounds, and why they are enough

- **Two requests** (and two handlers, two sockets): all the races above are
  between a pair. `DuplicatesBounded` and `OvershootBounded` depend on the number
  of requests and are stated with it.
- **Files:** two owners, limit and batch of two files, five names. An upload of
  one and one of two files, and a retry after a failure, fit; the names run out
  after that, which only stops uploads.
- **Workspace:** a manager and a team member; one project, one task, one comment
  and, in `workspace_faults`, one file of any of them, so that a cascade through
  all three levels, and a second request on any level, fit. Loops over several
  files are what `file_store` runs. `NamesLast` starts an upload only while the
  names last for it and for the uploads under way; `Fresh` creates rows only while
  there are ids. `workspace_healthy`, whose properties do not speak of files, has none.
  `Invited` bounds whom requests name: only the team member is put into the
  project and assigned its task, since a manager may do all it may and more. Ids
  are never reused, as with autoincrement.
- **Accounts:** two users, two passwords, two tokens. `TokensLast` starts a
  request that may create a token only if all could. One account at a time is
  logged in: a session only opens `changePassword` and `sendVerificationToken` for
  its own account, and two requests of one session still overlap. Changing *back* to an earlier
  password is left to resetting, which bounds the histories.
- **Notifications:** two users, one of whose mail server refuses mail, and two
  notifications. `Tell` starts only if there are ids for all recipients.
- **Chat:** three users in `chat_groups`, so that there are groups that contain
  others, and ids for each of two requests twice; in `chat_rooms` two chats, two
  messages and a page of one message, so that the page moves.
- **Seed:** two users, projects and tasks, so that a project without members, a
  draw among several and a task of another project occur; one comment and one
  file; two starts, on a database that has been used, emptied or neither.
- **Symmetry** is used for interchangeable ids in runs whose properties are
  invariants and action properties. The runs with liveness properties have none.
- Deadlock is checked in every run but `seed`: the script ends, and once its
  starts are used up nothing is left to do.

### Fairness

- `RequestsEnd` assumes weak fairness of `Serve(r)` for each request, without
  failures: Node resumes a handler whose promise settled. No fairness is assumed
  of anybody who *sends* a request.
- `MailedOnceHealthy` and `SweepContinues` assume weak fairness of starting the
  sweep (the daily `@Cron`) and of its loop. Readers, the clock and the
  requests that notify are not fair. The order in which a sweep takes its rows
  is free: `findMany` has no `orderBy`.

- `Completes` assumes weak fairness of `Serve`, the script going on. Nobody has
  to start it, and a failure may always come first (`died`).

## 4. The proofs

TLAPS checks these for any number of requests, users, sockets and ids, and for
any limits. Every safety invariant, action property and refinement that a
passing run checks is proved. Where something is counted (`OvershootBounded`,
`DuplicatesBounded`, `FindsExactly`, the recipients of a notification) the sets
that are counted are assumed finite: a process serves finitely many requests.

**FileStoreProofs.** Type correctness, `RowHasObject`, `DeleteComplete` and
`NoSilentLeak`. None of them is inductive alone. `IInv` adds that a name in
hand has been minted and has no row, that it has an object if it is about to be
recorded (`HeldNames`), that no two calls hold the same name (`HeldOnce`, the
reason why one call's `Erase` cannot take the object of another's `Record`),
that objects are minted names, and that what a deletion has finished with is
minted and gone (`FinishedGone`, the reason why it cannot come back). One lemma
per action, then `NextIInv`.
`OvershootIsBounded` is an induction on its own (`Counting`): the rows of an
owner *and the files that calls have still to store for it* (`Slots`) stay
within the bound. A call that is let through adds at most `MaxBatch` slots; at
that moment there are at most `Limit` rows and every other call holds at most
`MaxBatch` slots. `Upload` and `Record` only turn a slot into a row.
Assumes `NullAssumption`, `LimitAssumption`, `MaxBatchAssumption` (a request
uploads at least one file) and `RequestsAssumption`.

**WorkspaceProofs.** The workspace changes the files by `FileStore`'s own
actions (the lemma `WorkspaceRefinesFileStore`), so the type correctness,
`RowHasObject` and `OvershootBounded` of `FileStore` carry over
(`WorkspaceRowsHaveObjects`, `WorkspaceOvershootIsBounded`), and the first is
what the workspace's own type correctness needs: `fileGuard` puts a file's owner
on the agenda. `TypeOK` says in particular that agendas are sequences of
well-formed steps, so the lemmas `StepForms`, `ThenType` and `GoType` do most of
the work. Assumes
`FilesAssumption` and `IdAssumption` (ids of the tables are told apart, nulls
are not rows) and `UsersAssumption`.

**WorkspaceAgendaProofs.** What a request may do depends on where it stands in
its agenda, so the invariants speak of every step of every agenda.
`IdInv` (`InsertedOnce`): an id has one step of one request ahead of it that
inserts it, and none once its row is there. So a row, once deleted, stays away
(`Settles`), and what a guard learnt of a task's project stays true.
`EntitledInv`: before a step that writes an assignee or a comment stands the
step that asks for the membership, or else the membership is in `saw` already.
`TakePartAsMembersHolds` follows; a membership
deleted between the guard and the write does not matter, since `saw` keeps it.

**WorkspaceDeletionProofs.** `LedInv` (`LedThroughout`): comments are on an
agenda to be deleted only right after the guard that asks for their author, or
once the request is an ADMIN's, the comment the user's own, or its owner gone;
and `dropProject` is followed by the deletion of the project's files and
comments. `CommentsAreTheirAuthorsHolds` follows. `StrandedByThrowOrLateRowHolds`
needs in addition what the file calls are worth to their caller (`CallsInv`,
from the invariant of `FileStore` by refinement: a call that awaits nothing has
nothing left to delete). A comment or file is stranded if its owner is gone and
nobody has it ahead; so a step may leave its agenda only for the deletions it
leads to, or after it has performed them. That a healthy step strands nothing is shown by
what the step does to `Live` and to the agenda: refuse, read, write, or one of
the steps of a file call. `FilesAreTheirOwnersHolds` looks both ways from a step
that deletes files: it stands behind the guard that asks about their owner, or
behind the deletion of that owner, or its request was already found to be
entitled (`ErasesInv`); and every file that a call in flight has still to reach is
one that the request awaiting the call may delete (`TakesInv`). Both last because
`saw` keeps what a guard has seen, a row that is gone stays away (`Settles`), and
no name is handed out twice (`NamesInv`, from the invariant of `FileStore`), so a
file has one owner for as long as it is there.

**NotificationsProofs.** `TypeCorrect`, `NothingIsLostUnread`,
`OnlyVerifiedAreMailed`, `NoMailTwice` and `NobodyIsSkipped`. `IInv` adds
that ids nobody has used are blank and what is marked was mailed (`BornOK`), that what the
sweep has before it was there when it began, for users whose addresses are
verified if it let them through (`SweepOK`), that what was mailed is marked,
gone or in the hands of the sweep that marks it next, unless a failed mark or a
process that ended is to blame (`Heard`), and that only such a notification is before the sweep a
second time (`Again`). `NobodyIsSkipped` compares the recipients still due before
and after a step; there, the loops over recipients take part as sequences, with
`Countable` for the finiteness of what is counted. Assumes `NullAssumption` and
`UsersAssumption`.

**ChatProofs.** `ChatTypeCorrect`, `QueryFindsExactly`, `AnswersAsAsked`,
`OneRoomHolds` and `DeliveryIsPrivate`, from `IInv`, the conjunction of
`TypeOK`, `RequestsOK` (what is left to check of a request are users it asked
for, the others are verified; an answered request has its chat), `MembersOK`
(members are verified), `HandlersOK` (a handler past its check belongs to a
member, and what it emits has been saved to the chat it emits to) and `SocketsOK`
(the user of a socket is a member of the chat it is in, one at most, and of
those whose messages it got). It uses that chats never lose members.
`QueryFindsExactly` needs finite sets of users, and their cardinalities.
`DuplicatesAreBounded` counts the chats of a group together with the requests
that found none and will create one (`Bounded`): only `Find` adds to the second,
and only if the first is empty. `NoMessageIsMissed` needs that two
handlers never carry the same message and that one saved is saved once, to the
chat of the handler that emits it (`Apart`), and says of each socket that of
the log of its room, from where it fetched on, everything is on its page, was
received, is about to be emitted or was lost with its handler (`GapOK`). Assumes
`RequestsAssumption`, `UsersAssumption`, `PageAssumption` and `NullAssumption`.

**AccountsProofs.** `TypeCorrect`, `AddressesAreProven`, `PasswordsAreProven`,
`TokensAreRedeemedOnce`, `OnlyFailuresWaste`, `RegistrationsAreMailed` and the
refinement `TokensLiveAsRedemption`. `IInv` says what each request carries
(`Fits`) and what it relies on (`Founded`: who is about to mail a token mails it
to the account it was issued for, who has redeemed one was mailed it and it has
not worked yet, who may change a password gave one the account has had), that
no two requests have redeemed the same token (`HeldOnce`, which the delete that
demands a row brings about), that a mailed token was issued, to nobody else
(`TokensOK`), and that `had` is the history of `password` (`HadOK`). A step is
one of four shapes: requests end (`Drop`), a request reads and goes on (`Move`),
one of four writes happens, answered or not (`Writes`), or the clock ticks;
`StartMoves`, `ServeShapes` and `FaultShapes` say so, and every other proof
goes by shape. For the refinement each shape leaves a token's `Ticket` alone or is
one of `Redemption`'s four steps (`Lives`). Assumes `NullAssumption`.

**SeedProofs.** `TypeCorrect`, `NoneIsHalfLinked`, `TheEndIsLinked`,
`SeedsOnce`, `OthersAreKept` and `OneLeaks`, for batches of any size and any
number of starts. `IInv` has a part that holds between runs as well and one
that follows the phases of a run. `Solid` is the first: rows are numbered and
refer to rows there are (`TablesOK`), everything but what was there before is
of one run, and there is none of it before the admin (`MadeOnce`), and no row is
half linked. `Stage` is the
second: past the admin all is of *this* run (`Alone`), the phases behind it
have inserted their whole batches (`Batches`), a loop has only this run's rows
before it (`Listed`), and what earlier loops had before them is linked (`Linked`).
`Listed` rests on `LatestAreYoung`: `getLatestIds` takes the newest rows, as
many as a batch has, and this run's batch is the youngest and is complete. Without
`Batches` that would be false, and the loops would link rows that were there before.
Assumes `CountAssumption` (no batch is empty).

What is model-checked and not proved: liveness (`RequestsEnd`,
`MailedOnceHealthy`, `Completes`), which is out of this prover's reach, and that
the four documented properties are violated, which a run shows by its
counterexample.

## 5. What is not modelled, and why

- `editChat` changes the name of a chat, which nothing reads but its clients.
- Reads behind guards, signed URLs, DTO validation, mappers, status codes,
  logging, health, Swagger: no state.
- The throttler, the session store's own expiry and CORS: configuration of
  libraries. A session is the user it carries.
- Pages of a chat other than the newest: `GetChatMessagesQueryDto` demands
  numbers of query strings that nothing transforms, so only the default offset
  passes.
- In the seed, the random text of the rows, and the limits of `FileService` on
  number and kind of files, which the seed does not ask.
- Several Node processes on one database, and two sweeps at a time: one process
  serves, and a sweep that did not hang is taken to end within its day.

Noted on the way, without a property: `lastActivity` is never updated, though
`docs/user-stories.md` shows it; a task whose creator is its assignee notifies
that person twice on an edit (`TellChange`); two messages may be emitted in
another order than their `createdAt`; a `changePassword` that compared with an
old hash overwrites a password that was reset meanwhile.

## 6. Plan

Done: the six components, their runs, the refinement of `Redemption`, and the
proofs of the safety properties, action properties and refinement they check.

Next, in this order:

1. *Prove.* `CleansUp` for histories without the late row that
   `StrandedByThrowOrLateRow` names, as a safety property of the requests that
   have ended: whoever deletes an owner leaves nothing of it behind.
2. *Model.* Compose notifications with the workspace (recipients read from the
   live tables, between the write and the inserts); keep who uploaded a file, and
   compare who may delete it with the user stories (`docs/user-stories.md:48`
   against `ProjectService.checkModifyAccess`); let a sweep that takes longer than
   a day overlap with the next one.

-------------------------------- MODULE Seed --------------------------------
(***************************************************************************)
(* SeedService: the script that fills the database with random rows.       *)
(*                                                                         *)
(* Tasks, comments and files are inserted with placeholders, id 1 for      *)
(* whatever they refer to, and linked to random owners and users one by    *)
(* one afterwards.  No transaction spans the run: whatever throws ends it  *)
(* where it is and leaves what was written, and it may be started again    *)
(* on what is there.  Nothing else uses the database meanwhile.            *)
(*                                                                         *)
(* Ids come from sequences, which a failed insert advances too.  A row's   *)
(* at stands for its createdAt: 2n in the n-th run, 2n + 1 for its admin,  *)
(* 0 for rows older than the seed.                                         *)
(***************************************************************************)
EXTENDS Naturals, FiniteSets

CONSTANTS
  UserCount, ProjectCount, TaskCount, CommentCount, FileCount,
  Runs          \* how often the script may be started (bounds a run)

ASSUME CountAssumption ==
  {UserCount, ProjectCount, TaskCount, CommentCount, FileCount, Runs} \subseteq Nat \ {0}

VARIABLES
  serial,       \* the next id of every table
  user, project, task, comment, file,   \* the tables, from ids to rows
  admin,        \* whether admin@email.com has an account
  member,       \* <<u, p>>: the ProjectUser table
  objects,      \* how many objects the seed has put into the bucket
  runs,         \* how often the script was started
  run,          \* the state of the run in progress
  finished,     \* the runs that came to the end of SeedService.run
  died          \* those a failing query or process ended (for the properties)

links == <<task, comment, file, member>>
tables == <<user, project, admin, links>>
vars == <<serial, tables, objects, runs, run, finished, died>>

\* The insert of each phase that inserts.
Batch ==
  [users    |-> [table |-> "User",    size |-> UserCount],
   admin    |-> [table |-> "User",    size |-> 1],
   projects |-> [table |-> "Project", size |-> ProjectCount],
   tasks    |-> [table |-> "Task",    size |-> TaskCount],
   comments |-> [table |-> "Comment", size |-> CommentCount],
   record   |-> [table |-> "File",    size |-> 1]]

\* The order of SeedService.run; a run without files ends with its comments.
Follow ==
  [users |-> "admin", admin |-> "projects", projects |-> "listUsers",
   listUsers |-> "linkProjects", linkProjects |-> "tasks",
   tasks |-> "listTasks", listTasks |-> "linkTasks", linkTasks |-> "comments",
   comments |-> "listComments", listComments |-> "linkComments",
   linkComments |-> IF run.left > 0 THEN "upload" ELSE "end",
   upload |-> "record", record |-> IF run.left > 1 THEN "upload" ELSE "listFiles",
   listFiles |-> "linkFiles", linkFiles |-> "end"]

\* listed: what the loop has still before it; left: the files still to insert.
NoRun == [pc |-> "idle", listed |-> {}, left |-> 0]

Owners(T, P) == ({"Task"} \X T) \cup ({"Project"} \X P)

TypeOK ==
  LET Ids(t) == 1..(serial[t] - 1)
      Rows(f, t) == DOMAIN f \subseteq Ids(t) /\ \A i \in DOMAIN f : f[i].at \in 0..(2 * runs + 1)
  IN  /\ serial \in [{b.table : b \in {Batch[pc] : pc \in DOMAIN Batch}} -> Nat \ {0}]
      /\ Rows(user, "User") /\ Rows(project, "Project")
      /\ Rows(task, "Task") /\ Rows(comment, "Comment") /\ Rows(file, "File")
      /\ \A t \in DOMAIN task : /\ task[t].project \in DOMAIN project
                                /\ {task[t].assignee, task[t].creator} \subseteq DOMAIN user
      /\ \A c \in DOMAIN comment : /\ comment[c].by \in DOMAIN user
                                   /\ comment[c].on \in Owners(Ids("Task"), Ids("Project"))
      /\ \A f \in DOMAIN file : file[f].by \in DOMAIN user /\ file[f].image \in BOOLEAN
      /\ member \subseteq (DOMAIN user) \X (DOMAIN project)
      /\ admin \in BOOLEAN /\ objects \in Nat /\ runs \in 0..Runs
      /\ run.pc \in {"idle"} \cup DOMAIN Follow
      /\ run.listed \subseteq Nat /\ run.left \in 0..FileCount
      /\ finished \subseteq 1..runs /\ died \subseteq (1..runs) \ finished

Table(I, row) == [i \in I |-> row]

\* The database may have been used before, and may have been emptied again.
Init ==
  /\ \E used \in {{}, {1}} :
       /\ user \in {Table(I, [at |-> 0]) : I \in SUBSET used}
       /\ project \in {Table(I, [at |-> 0]) : I \in SUBSET used}
       /\ serial = [t \in {"User", "Project", "Task", "Comment", "File"} |->
                      IF t \in {"User", "Project", "Task"} /\ used # {} THEN 2 ELSE 1]
  /\ task \in {Table(I, [at |-> 0, project |-> 1, assignee |-> 1, creator |-> 1])
                 : I \in SUBSET ((DOMAIN user) \cap (DOMAIN project))}
  /\ comment = <<>> /\ file = <<>>
  /\ member \in SUBSET ((DOMAIN user) \X (DOMAIN project))
  /\ admin = FALSE /\ objects = 0 /\ runs = 0 /\ run = NoRun
  /\ finished = {} /\ died = {}

-----------------------------------------------------------------------------
\* The insert of this phase: the ids it draws, and the table with its rows.
Draw == serial' = [serial EXCEPT ![Batch[run.pc].table] = @ + Batch[run.pc].size]

With(f, row) ==
  LET first == serial[Batch[run.pc].table]
      ids == first..(first + Batch[run.pc].size - 1)
  IN  [i \in DOMAIN f \cup ids |-> IF i \in ids THEN row ELSE f[i]]

Now == 2 * runs

\* Mutant: getLatestIds forgets its orderBy.
Latest_Unordered(f, k) == {L \in SUBSET DOMAIN f : Cardinality(L) = k}

\* getLatestIds: k rows such that no other is younger.
Latest(f, k) ==
  {L \in SUBSET DOMAIN f :
     /\ Cardinality(L) = k
     /\ \A i \in L, j \in DOMAIN f \ L : f[j].at <= f[i].at}

LatestProjects == UNION Latest(project, ProjectCount)

\* Where a comment, or a file that is no image, may go.
LatestOwners == Owners(UNION Latest(task, TaskCount), LatestProjects)

\* Where a file may go: an image to a comment.
LatestHolders(image) ==
  IF image THEN {"Comment"} \X UNION Latest(comment, CommentCount) ELSE LatestOwners

ProjectOf(o) == IF o[1] = "Project" THEN o[2] ELSE task[o[2]].project

HolderProject(o) == ProjectOf(IF o[1] = "Comment" THEN comment[o[2]].on ELSE o)

Draftees(p) == {u \in DOMAIN user : <<u, p>> \in member}

Goes(next) ==
  IF next.pc = "end"
    THEN run' = NoRun /\ finished' = finished \cup {runs}
    ELSE run' = next /\ UNCHANGED finished

\* The exception reaches bootstrap, which does not catch it.
Abort == run' = NoRun /\ UNCHANGED finished

Proceed == Goes([run EXCEPT !.pc = Follow[run.pc], !.listed = {}])

\* A write whose answer is lost takes effect and throws.
Wrote(answered) == IF answered THEN Proceed ELSE Abort

\* Mutant: the loop ends before its last element.
Turn_StopsShort(x, answered) ==
  IF answered /\ Cardinality(run.listed) > 2
    THEN Goes([run EXCEPT !.listed = @ \ {x}])
    ELSE Wrote(answered)

\* The loop is through with x.
Turn(x, answered) ==
  IF answered /\ run.listed # {x}
    THEN Goes([run EXCEPT !.listed = @ \ {x}])
    ELSE Wrote(answered)

-----------------------------------------------------------------------------
(* SeedService.run, one await at a time, or one turn of a loop that reads  *)
(* and then updates one row.                                               *)

\* seed.ts; argv may include 'files'.
Bootstrap ==
  /\ run = NoRun /\ runs < Runs
  /\ runs' = runs + 1
  /\ \E left \in {0, FileCount} : run' = [NoRun EXCEPT !.pc = "users", !.left = left]
  /\ UNCHANGED <<serial, tables, objects, finished, died>>

SeedUsers(answered) ==
  /\ run.pc = "users"
  /\ user' = With(user, [at |-> Now])
  /\ Draw /\ Wrote(answered)
  /\ UNCHANGED <<project, admin, links, objects>>

\* Mutant: the admin is upserted.
CreateAdmin_Upsert(answered) ==
  /\ run.pc = "admin"
  /\ user' = IF admin THEN user ELSE With(user, [at |-> Now + 1])
  /\ admin' = TRUE
  /\ Draw /\ Wrote(answered)
  /\ UNCHANGED <<project, links, objects>>

\* seedUsers, the account whose email is always the same.
CreateAdmin(answered) ==
  /\ run.pc = "admin" /\ ~admin
  /\ user' = With(user, [at |-> Now + 1])
  /\ admin' = TRUE
  /\ Draw /\ Wrote(answered)
  /\ UNCHANGED <<project, links, objects>>

SeedProjects(answered) ==
  /\ run.pc = "projects"
  /\ project' = With(project, [at |-> Now])
  /\ Draw /\ Wrote(answered)
  /\ UNCHANGED <<user, admin, links, objects>>

LinkProject(answered) ==
  /\ run.pc = "linkProjects"
  /\ \E u \in run.listed, p \in LatestProjects :
       member' = member \cup {<<u, p>>} /\ Turn(u, answered)
  /\ UNCHANGED <<serial, user, project, admin, task, comment, file, objects>>

\* The rows the placeholders refer to by foreign keys.
Placeholders == 1 \in DOMAIN user /\ 1 \in DOMAIN project

\* Mutant: the database does not enforce the foreign keys.
SeedTasks_Unchecked(answered) ==
  /\ run.pc = "tasks"
  /\ task' = With(task, [at |-> Now, project |-> 1, assignee |-> 1, creator |-> 1])
  /\ Draw /\ Wrote(answered)
  /\ UNCHANGED <<user, project, admin, comment, file, member, objects>>

SeedTasks(answered) ==
  /\ run.pc = "tasks" /\ Placeholders
  /\ task' = With(task, [at |-> Now, project |-> 1, assignee |-> 1, creator |-> 1])
  /\ Draw /\ Wrote(answered)
  /\ UNCHANGED <<user, project, admin, comment, file, member, objects>>

\* Mutant: the creator is drawn from all users.
LinkTask_AnyCreator(answered) ==
  /\ run.pc = "linkTasks"
  /\ \E t \in run.listed, p \in LatestProjects : \E a \in Draftees(p), c \in DOMAIN user :
       /\ task' = [task EXCEPT ![t] = [@ EXCEPT !.project = p, !.assignee = a, !.creator = c]]
       /\ Turn(t, answered)
  /\ UNCHANGED <<serial, user, project, admin, comment, file, member, objects>>

LinkTask(answered) ==
  /\ run.pc = "linkTasks"
  /\ \E t \in run.listed, p \in LatestProjects : \E a, c \in Draftees(p) :
       /\ task' = [task EXCEPT ![t] = [@ EXCEPT !.project = p, !.assignee = a, !.creator = c]]
       /\ Turn(t, answered)
  /\ UNCHANGED <<serial, user, project, admin, comment, file, member, objects>>

SeedComments(answered) ==
  /\ run.pc = "comments"
  /\ comment' = With(comment, [at |-> Now, on |-> <<"Task", 1>>, by |-> 1])
  /\ Draw /\ Wrote(answered)
  /\ UNCHANGED <<user, project, admin, task, file, member, objects>>

LinkComment(answered) ==
  /\ run.pc = "linkComments"
  /\ \E c \in run.listed, o \in LatestOwners : \E u \in Draftees(ProjectOf(o)) :
       /\ comment' = [comment EXCEPT ![c] = [@ EXCEPT !.on = o, !.by = u]]
       /\ Turn(c, answered)
  /\ UNCHANGED <<serial, user, project, admin, task, file, member, objects>>

\* Mutant: an upload whose answer is lost is tried again.
Upload_Retries(answered) ==
  /\ run.pc = "upload"
  /\ objects' = objects + 1
  /\ IF answered THEN Proceed ELSE UNCHANGED <<run, finished>>
  /\ UNCHANGED <<serial, tables>>

\* seedFiles, one turn in two awaits: the object, then its row.
Upload(answered) ==
  /\ run.pc = "upload"
  /\ objects' = objects + 1
  /\ Wrote(answered)
  /\ UNCHANGED <<serial, tables>>

Record(answered) ==
  /\ run.pc = "record"
  /\ \E image \in BOOLEAN :
       file' = With(file, [at |-> Now, on |-> <<"Comment", 1>>, by |-> 1, image |-> image])
  /\ Draw
  /\ IF answered THEN Goes([run EXCEPT !.pc = Follow["record"], !.left = @ - 1]) ELSE Abort
  /\ UNCHANGED <<user, project, admin, task, comment, member, objects>>

LinkFile(answered) ==
  /\ run.pc = "linkFiles"
  /\ \E f \in run.listed : \E o \in LatestHolders(file[f].image) :
       \E u \in Draftees(HolderProject(o)) :
         /\ file' = [file EXCEPT ![f] = [@ EXCEPT !.on = o, !.by = u]]
         /\ Turn(f, answered)
  /\ UNCHANGED <<serial, user, project, admin, task, comment, member, objects>>

\* The list that the next loop walks through.
List ==
  /\ \E L \in CASE run.pc = "listUsers"    -> Latest(user, UserCount)
                [] run.pc = "listTasks"    -> Latest(task, TaskCount)
                [] run.pc = "listComments" -> Latest(comment, CommentCount)
                [] run.pc = "listFiles"    -> Latest(file, FileCount)
                [] OTHER                   -> {} :
       Goes([run EXCEPT !.pc = Follow[run.pc], !.listed = L])
  /\ UNCHANGED <<serial, tables, objects>>

Write(answered) ==
  \/ SeedUsers(answered) \/ CreateAdmin(answered) \/ SeedProjects(answered)
  \/ LinkProject(answered) \/ SeedTasks(answered) \/ LinkTask(answered)
  \/ SeedComments(answered) \/ LinkComment(answered)
  \/ Upload(answered) \/ Record(answered) \/ LinkFile(answered)

\* The insert is refused, though its ids are drawn: P2002 for the admin's
\* email, P2003 for placeholders that do not exist.
Violates ==
  /\ \/ run.pc = "admin" /\ admin
     \/ run.pc = "tasks" /\ ~Placeholders
  /\ Draw /\ Abort
  /\ UNCHANGED <<tables, objects>>

\* The projects the next turn may draw somebody from.
Drawable ==
  CASE run.pc = "linkTasks"    -> LatestProjects
    [] run.pc = "linkComments" -> {ProjectOf(o) : o \in LatestOwners}
    [] run.pc = "linkFiles"    ->
         {HolderProject(o) : o \in UNION {LatestHolders(file[f].image) : f \in run.listed}}
    [] OTHER                   -> {}

\* Mutant: the bound of the draw is one too low.
NobodyToDraw_OffByOne ==
  /\ \E p \in Drawable : Cardinality(Draftees(p)) <= 1
  /\ Abort
  /\ UNCHANGED <<serial, tables, objects>>

\* faker.number.int throws if the project drawn has no members: max is -1.
NobodyToDraw ==
  /\ \E p \in Drawable : Draftees(p) = {}
  /\ Abort
  /\ UNCHANGED <<serial, tables, objects>>

\* A statement rejects without effect, or S3 or the process fails; the ids of
\* an insert may be drawn.
Breaks ==
  /\ run # NoRun
  /\ UNCHANGED serial \/ (run.pc \in DOMAIN Batch /\ Draw)
  /\ Abort
  /\ UNCHANGED <<tables, objects>>

Serve == (Write(TRUE) \/ List \/ Violates \/ NobodyToDraw) /\ UNCHANGED <<runs, died>>

Fault == (Write(FALSE) \/ Breaks) /\ died' = died \cup {runs} /\ UNCHANGED runs

Next == Bootstrap \/ Serve \/ Fault

\* Node resumes the script; nobody has to start it.
Spec == Init /\ [][Next]_vars /\ WF_vars(Serve)

-----------------------------------------------------------------------------
TaskLinked(t) == {task[t].assignee, task[t].creator} \subseteq Draftees(task[t].project)
CommentLinked(c) == comment[c].by \in Draftees(ProjectOf(comment[c].on))
FileLinked(f) == /\ file[f].by \in Draftees(HolderProject(file[f].on))
                 /\ file[f].image <=> file[f].on[1] = "Comment"

\* Wherever a run stops, a row it inserted is either linked, to people of the
\* project it is in and images to comments, or still has all its placeholders:
\* none is half linked, and none loses its link by what is linked later.
LinkedOrPlaceholder ==
  /\ \A t \in DOMAIN task :
       \/ TaskLinked(t)
       \/ task[t].project = 1 /\ {task[t].assignee, task[t].creator} = {1}
  /\ \A c \in DOMAIN comment :
       \/ comment[c].on = <<"Task", 1>> /\ comment[c].by = 1
       \/ CommentLinked(c)
  /\ \A f \in DOMAIN file :
       \/ file[f].on = <<"Comment", 1>> /\ file[f].by = 1
       \/ FileLinked(f)

\* A run that ends normally has linked every row it inserted.
FinishedIsLinked ==
  \A n \in finished :
    /\ \A t \in DOMAIN task : task[t].at = 2 * n => TaskLinked(t)
    /\ \A c \in DOMAIN comment : comment[c].at = 2 * n => CommentLinked(c)
    /\ \A f \in DOMAIN file : file[f].at = 2 * n => FileLinked(f)

\* The admin's email makes the seed run once: all projects, tasks, comments
\* and files it ever makes are of one run, the first to get past seedUsers.
OnceOnly ==
  LET Ages == UNION {{f[i].at : i \in DOMAIN f} : f \in {project, task, comment, file}}
      Made == Ages \ {0}
  IN  Cardinality(Made) <= 1

\* Rows that were there before a run, its own or others', are not linked anew
\* by it, and nobody but its users becomes a member, of its projects only.
OthersKept ==
  [][LET Kept(f, g) == \A i \in DOMAIN f : f[i].at < Now => g[i] = f[i]
     IN  /\ Kept(task, task') /\ Kept(comment, comment') /\ Kept(file, file')
         /\ \A m \in member' \ member : user[m[1]].at >= Now /\ project[m[2]].at >= Now]_vars

\* An aborted run leaves one object without a row at most.
OneLeakPerRun ==
  objects <= Cardinality(DOMAIN file) + Cardinality(died) + (IF run.pc = "record" THEN 1 ELSE 0)

\* Once the placeholders were accepted and everyone of the run's projects has
\* a member, only a failure keeps the run from its end.
Completes ==
  \A n \in 1..Runs :
    (/\ runs = n /\ run.pc = "listTasks"
     /\ \A p \in LatestProjects : Draftees(p) # {})
      ~> n \in finished \cup died
=============================================================================

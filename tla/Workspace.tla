------------------------------ MODULE Workspace ------------------------------
(***************************************************************************)
(* Projects, tasks and comments: ProjectService, TaskService and           *)
(* CommentService behind their controllers and guards, on top of the files *)
(* of FileStore.                                                           *)
(*                                                                         *)
(* A request is a list of awaited operations, its agenda; each action      *)
(* performs the operation at its head.  Requests interleave between any    *)
(* two of them, no transaction spans them, and an exception drops the rest *)
(* of the agenda without undoing anything.  Operations that only read and  *)
(* cannot change the outcome, notifications (see the README) and the text  *)
(* of a row are left out.                                                  *)
(*                                                                         *)
(* Tasks and project members hang on their project by a foreign key.       *)
(* Comments and files name their owner by type and id without one: only    *)
(* the code below keeps them from outliving it.                            *)
(***************************************************************************)
EXTENDS Naturals, Sequences, FiniteSets

CONSTANTS
  Requests,                   \* requests that may be in flight together
  Users, Role, Verified,      \* accounts, their roles, those with a verified email
  Projects, Tasks, Comments,  \* ids, never reused by the sequences behind them
  Invited,                    \* whom a request may name as member or assignee (bounds a run)
  Names, Limit, MaxBatch,     \* as in FileStore
  NoName, NoOwner,
  NoUser, NoRow

Fileables == Projects \cup Tasks \cup Comments

ASSUME RoleAssumption == Role \in [Users -> {"ADMIN", "MANAGER", "TEAM_MEMBER"}]
ASSUME FilesAssumption ==
  /\ IsFiniteSet(Requests) /\ Requests # {}
  /\ Limit \in [Fileables -> Nat]
  /\ MaxBatch \in [Fileables -> Nat \ {0}]
  /\ NoName \notin Names /\ NoOwner \notin Fileables
ASSUME UsersAssumption == Verified \subseteq Users /\ Invited \subseteq Users
ASSUME IdAssumption ==
  /\ Projects \cap Tasks = {} /\ Projects \cap Comments = {}
  /\ Tasks \cap Comments = {} /\ Names \cap Fileables = {}
  /\ NoRow \notin [project : Projects, assignee : Users]
  /\ NoRow \notin [on : Projects \cup Tasks, by : Users]
  /\ NoUser \notin Users

VARIABLES
  project,     \* the ids of the projects that exist
  member,      \* the ProjectUser table
  task,        \* the Task table, NoRow where there is none
  comment,     \* the Comment table
  issued,      \* the ids handed out so far
  job,         \* every request in flight: its user, its agenda, the rows
               \* of member at any of its steps (saw, for the properties)
  file, bucket, minted, call    \* the state of FileStore

FS == INSTANCE FileStore

db == <<project, member, task, comment, issued>>
fs == <<file, bucket, minted, call>>
vars == <<db, job, fs>>

TaskRow == [project : Projects, assignee : Users]
CommentRow == [on : Projects \cup Tasks, by : Users]

\* What a request may have to do next, named for the queries and the calls.
Step ==
  ({"guard", "modify", "edit", "dropFiles"} \X Fileables) \cup
  ({"upload"} \X Fileables \X Nat) \cup
  ({"fileGuard", "eraseFile"} \X Names) \cup
  {<<"files">>} \cup
  ({"insertProject", "listTasks", "dropProject"} \X Projects) \cup
  ({"notify", "listComments"} \X (Projects \cup Tasks)) \cup
  ({"assign", "join", "leave"} \X Projects \X Users) \cup
  ({"reassign", "update"} \X Tasks \X Users) \cup
  ({"insertTask"} \X Tasks \X Projects \X Users) \cup
  ({"insertComment"} \X Comments \X (Projects \cup Tasks)) \cup
  ({"dropTasks"} \X SUBSET Tasks) \cup
  ({"dropComments"} \X SUBSET Comments)

Job == [user : Users \cup {NoUser}, agenda : Seq(Step), saw : SUBSET (Users \X Projects)]

IdleJob == [user |-> NoUser, agenda |-> <<>>, saw |-> {}]

Init ==
  /\ project = {} /\ member = {} /\ issued = {}
  /\ task = [t \in Tasks |-> NoRow]
  /\ comment = [c \in Comments |-> NoRow]
  /\ job = [r \in Requests |-> IdleJob]
  /\ FS!Init

-----------------------------------------------------------------------------
LiveTasks == {t \in Tasks : task[t] # NoRow}
LiveComments == {c \in Comments : comment[c] # NoRow}
Live == project \cup LiveTasks \cup LiveComments

TasksOf(p) == {t \in LiveTasks : task[t].project = p}
CommentsOn(o) == {c \in LiveComments : comment[c].on = o}

AtLeastManager(u) == Role[u] \in {"ADMIN", "MANAGER"}

\* The agenda of r from here on; an empty one is the end of the request.
Continue(r, agenda) ==
  job' = [job EXCEPT ![r] =
            IF agenda = <<>> THEN IdleJob
            ELSE [user |-> @.user, agenda |-> agenda, saw |-> @.saw \cup member]]

Doing(r, step) == job[r].agenda # <<>> /\ Head(job[r].agenda) = step

\* The awaited operation succeeds; steps are the ones it leads to.
Then(r, steps) == Continue(r, steps \o Tail(job[r].agenda))

\* Mutant: the request is over but still belongs to its user.
Throw_KeepsUser(r) == job' = [job EXCEPT ![r].agenda = <<>>]

Throw(r) == Continue(r, <<>>)

\* A write whose answer is lost takes effect and throws.
Wrote(r, answered, steps) == IF answered THEN Then(r, steps) ELSE Throw(r)

-----------------------------------------------------------------------------
(* The endpoints that change state.  AuthGuard lets nobody in without a    *)
(* verified email, which stays verified once it is; RoleGuard asks some    *)
(* for a role.                                                             *)

Go(r, u, agenda) ==
  /\ u \in Verified /\ job[r].agenda = <<>>
  /\ job' = [job EXCEPT ![r] = [user |-> u, agenda |-> agenda, saw |-> member]]
  /\ UNCHANGED <<project, member, task, comment, fs>>

\* A new id is drawn when the request starts; nobody can tell.
Fresh(ids) == ids \ issued

PostProject(r, u) ==
  /\ AtLeastManager(u)
  /\ \E p \in Fresh(Projects) :
       issued' = issued \cup {p} /\ Go(r, u, << <<"insertProject", p>> >>)

PatchProject(r, u, p) ==
  AtLeastManager(u) /\ Go(r, u, << <<"edit", p>>, <<"notify", p>> >>) /\ UNCHANGED issued

\* Mutant: comments are deleted while the project is still there.
DeleteProject_CommentsFirst(r, u, p) ==
  /\ AtLeastManager(u)
  /\ Go(r, u, << <<"listTasks", p>>, <<"listComments", p>>,
                 <<"dropProject", p>>, <<"dropFiles", p>> >>)
  /\ UNCHANGED issued

DeleteProject(r, u, p) ==
  /\ AtLeastManager(u)
  /\ Go(r, u, << <<"listTasks", p>>, <<"dropProject", p>>,
                 <<"dropFiles", p>>, <<"listComments", p>> >>)
  /\ UNCHANGED issued

PutMember(r, u, p, v) ==
  AtLeastManager(u) /\ Go(r, u, << <<"join", p, v>> >>) /\ UNCHANGED issued

DeleteMember(r, u, p, v) ==
  AtLeastManager(u) /\ Go(r, u, << <<"leave", p, v>> >>) /\ UNCHANGED issued

PostTask(r, u, p, v) ==
  \E t \in Fresh(Tasks) :
    /\ issued' = issued \cup {t}
    /\ Go(r, u, << <<"guard", p>>, <<"assign", p, v>>, <<"insertTask", t, p, v>> >>)

\* With an assignee, or changing the text alone.
PatchTask(r, u, t, v) ==
  Go(r, u, << <<"guard", t>>, <<"reassign", t, v>> >>) /\ UNCHANGED issued

PatchTaskText(r, u, t) ==
  Go(r, u, << <<"guard", t>>, <<"edit", t>> >>) /\ UNCHANGED issued

DeleteTask(r, u, t) ==
  Go(r, u, << <<"guard", t>>, <<"dropTasks", {t}>> >>) /\ UNCHANGED issued

\* The requests that upload, now or later.
Uploading ==
  {r \in Requests : \/ call[r].pc \in {"upload", "record"}
                    \/ \E i \in DOMAIN job[r].agenda : job[r].agenda[i][1] = "upload"}

\* Bound: an upload starts only if the names of the run last for it as well.
NamesLast ==
  \A o \in Fileables :
    Cardinality(minted) + (Cardinality(Uploading) + 1) * MaxBatch[o] <= Cardinality(Names)

\* createComment; only a comment may come without any of its k files.
CreateComment(r, u, o) ==
  \E c \in Fresh(Comments) : \E k \in 0..MaxBatch[c] :
    /\ k > 0 => NamesLast
    /\ issued' = issued \cup {c}
    /\ Go(r, u, << <<"guard", o>>, <<"insertComment", c, o>>, <<"notify", o>> >> \o
                (IF k = 0 THEN <<>> ELSE << <<"upload", c, k>> >>))

PostProjectComment(r, u, p) == CreateComment(r, u, p)

PostTaskComment(r, u, t) == CreateComment(r, u, t)

PatchComment(r, u, c) ==
  Go(r, u, << <<"modify", c>>, <<"edit", c>> >>) /\ UNCHANGED issued

DeleteComment(r, u, c) ==
  Go(r, u, << <<"modify", c>>, <<"dropComments", {c}>> >>) /\ UNCHANGED issued

PostProjectFiles(r, u, p, k) ==
  NamesLast /\ Go(r, u, << <<"guard", p>>, <<"upload", p, k>> >>) /\ UNCHANGED issued

PostTaskFiles(r, u, t, k) ==
  NamesLast /\ Go(r, u, << <<"guard", t>>, <<"upload", t, k>> >>) /\ UNCHANGED issued

PostCommentFiles(r, u, c, k) ==
  NamesLast /\ Go(r, u, << <<"modify", c>>, <<"upload", c, k>> >>) /\ UNCHANGED issued

DeleteFile(r, u, n) ==
  Go(r, u, << <<"fileGuard", n>>, <<"eraseFile", n>> >>) /\ UNCHANGED issued

-----------------------------------------------------------------------------
(* What the guards and services let through.                               *)

\* ProjectReadAccessGuard.  Mutant: it only asks for a verified account.
MayRead_Verified(u, p) == AtLeastManager(u) \/ u \in Verified

MayRead(u, p) == AtLeastManager(u) \/ <<u, p>> \in member

MayModifyComment(u, c) == Role[u] = "ADMIN" \/ comment[c].by = u

\* u's operation succeeds as far as the tables say; otherwise it throws.
May(u, step) ==
  \/ \E p \in project :
       \/ step = <<"guard", p>> /\ MayRead(u, p)
       \/ step = <<"modify", p>> /\ AtLeastManager(u)
       \/ step = <<"dropProject", p>> /\ TasksOf(p) = {}
       \/ step = <<"edit", p>>
       \/ \E v \in Users :
            \/ step \in {<<"assign", p, v>>, <<"leave", p, v>>} /\ <<v, p>> \in member
            \/ step = <<"join", p, v>> /\ v \in Verified /\ <<v, p>> \notin member
            \/ \E t \in Tasks : step = <<"insertTask", t, p, v>>
  \/ \E t \in LiveTasks :
       \/ step \in {<<"guard", t>>, <<"modify", t>>, <<"notify", t>>, <<"edit", t>>}
       \/ \E v \in Users : step \in {<<"reassign", t, v>>, <<"update", t, v>>}
  \/ \E c \in LiveComments :
       \/ step = <<"modify", c>> /\ MayModifyComment(u, c)
       \/ step = <<"edit", c>>
  \/ \E n \in Names : step = <<"fileGuard", n>> /\ file[n] # NoOwner
  \* The recipients of a project's news are read from ProjectUser alone.
  \/ \E p \in Projects : step = <<"notify", p>>

Allowed(r) == May(job[r].user, Head(job[r].agenda))

DropTasks(T) == IF T = {} THEN <<>> ELSE << <<"dropTasks", T>> >>
DropComments(C) == IF C = {} THEN <<>> ELSE << <<"dropComments", C>> >>

-----------------------------------------------------------------------------
(* Operations that read. *)

\* Mutant: deleting a file asks for the access that reading it does.
Guard_ReadsFile(r) ==
  /\ \/ \E p \in Projects :
          /\ Doing(r, <<"guard", p>>) \/ Doing(r, <<"modify", p>>)
          /\ Allowed(r) /\ Then(r, <<>>)
     \/ \E t \in Tasks :
          /\ Doing(r, <<"guard", t>>) \/ Doing(r, <<"modify", t>>)
          /\ Allowed(r) /\ Then(r, << <<"guard", task[t].project>> >>)
     \/ \E c \in Comments :
          Doing(r, <<"modify", c>>) /\ Allowed(r) /\ Then(r, <<>>)
     \/ \E n \in Names :
          /\ Doing(r, <<"fileGuard", n>>)
          /\ Allowed(r) /\ Then(r, << <<"guard", file[n]>> >>)
  /\ UNCHANGED <<db, fs>>

\* A task is readable by whoever may read its project.
Guard(r) ==
  /\ \/ \E p \in Projects :
          /\ Doing(r, <<"guard", p>>) \/ Doing(r, <<"modify", p>>)
          /\ Allowed(r) /\ Then(r, <<>>)
     \/ \E t \in Tasks :
          /\ Doing(r, <<"guard", t>>) \/ Doing(r, <<"modify", t>>)
          /\ Allowed(r) /\ Then(r, << <<"guard", task[t].project>> >>)
     \/ \E c \in Comments :
          Doing(r, <<"modify", c>>) /\ Allowed(r) /\ Then(r, <<>>)
     \/ \E n \in Names :
          /\ Doing(r, <<"fileGuard", n>>)
          /\ Allowed(r) /\ Then(r, << <<"modify", file[n]>> >>)
  /\ UNCHANGED <<db, fs>>

Read(r) ==
  /\ \/ \E p \in Projects, v \in Users :
          Doing(r, <<"assign", p, v>>) /\ Allowed(r) /\ Then(r, <<>>)
     \/ \E t \in Tasks, v \in Users :
          /\ Doing(r, <<"reassign", t, v>>)
          /\ Allowed(r)
          /\ Then(r, << <<"assign", task[t].project, v>>, <<"update", t, v>> >>)
     \/ \E o \in Projects \cup Tasks :
          Doing(r, <<"notify", o>>) /\ Allowed(r) /\ Then(r, <<>>)
     \/ \E p \in Projects :
          Doing(r, <<"listTasks", p>>) /\ Then(r, DropTasks(TasksOf(p)))
     \/ \E o \in Projects \cup Tasks :
          Doing(r, <<"listComments", o>>) /\ Then(r, DropComments(CommentsOn(o)))
  /\ UNCHANGED <<db, fs>>

-----------------------------------------------------------------------------
(* Operations that write; answered is FALSE when the answer is lost. *)

InsertProject(r, answered) ==
  /\ \E p \in Projects : Doing(r, <<"insertProject", p>>) /\ project' = project \cup {p}
  /\ Wrote(r, answered, <<>>)
  /\ UNCHANGED <<member, task, comment>>

\* The text of a row is not kept.
EditText(r, answered) ==
  /\ \E o \in Fileables : Doing(r, <<"edit", o>>) /\ Allowed(r)
  /\ Wrote(r, answered, <<>>)
  /\ UNCHANGED <<project, member, task, comment>>

\* The foreign key of Task restricts, that of ProjectUser cascades.
DropProject(r, answered) ==
  /\ \E p \in Projects :
       /\ Doing(r, <<"dropProject", p>>) /\ Allowed(r)
       /\ project' = project \ {p}
       /\ member' = {m \in member : m[2] # p}
  /\ Wrote(r, answered, <<>>)
  /\ UNCHANGED <<task, comment>>

Join(r, answered) ==
  /\ \E p \in Projects, v \in Users :
       /\ Doing(r, <<"join", p, v>>) /\ Allowed(r)
       /\ member' = member \cup {<<v, p>>}
  /\ Wrote(r, answered, <<>>)
  /\ UNCHANGED <<project, task, comment>>

Leave(r, answered) ==
  /\ \E p \in Projects, v \in Users :
       /\ Doing(r, <<"leave", p, v>>) /\ Allowed(r)
       /\ member' = member \ {<<v, p>>}
  /\ Wrote(r, answered, <<>>)
  /\ UNCHANGED <<project, task, comment>>

InsertTask(r, answered) ==
  /\ \E t \in Tasks, p \in Projects, v \in Users :
       /\ Doing(r, <<"insertTask", t, p, v>>) /\ Allowed(r)
       /\ task' = [task EXCEPT ![t] = [project |-> p, assignee |-> v]]
  /\ Wrote(r, answered, <<>>)
  /\ UNCHANGED <<project, member, comment>>

UpdateTask(r, answered) ==
  /\ \E t \in Tasks, v \in Users :
       /\ Doing(r, <<"update", t, v>>) /\ Allowed(r)
       /\ task' = [task EXCEPT ![t].assignee = v]
  /\ Wrote(r, answered, <<>>)
  /\ UNCHANGED <<project, member, comment>>

\* One turn of deleteTasks' loop, deleteTask: the row first, then what hangs
\* on it.
DropTask(r, answered) ==
  /\ \E T \in SUBSET Tasks : \E t \in T \cap LiveTasks :
       /\ Doing(r, <<"dropTasks", T>>)
       /\ task' = [task EXCEPT ![t] = NoRow]
       /\ Wrote(r, answered, << <<"dropFiles", t>>, <<"listComments", t>> >>
                               \o DropTasks(T \ {t}))
  /\ UNCHANGED <<project, member, comment>>

InsertComment(r, answered) ==
  /\ \E c \in Comments, o \in Projects \cup Tasks :
       /\ Doing(r, <<"insertComment", c, o>>)
       /\ comment' = [comment EXCEPT ![c] = [on |-> o, by |-> job[r].user]]
  /\ Wrote(r, answered, <<>>)
  /\ UNCHANGED <<project, member, task>>

\* Mutant: the files of the comment are forgotten.
DropComment_RowOnly(r, answered) ==
  /\ \E C \in SUBSET Comments : \E c \in C \cap LiveComments :
       /\ Doing(r, <<"dropComments", C>>)
       /\ comment' = [comment EXCEPT ![c] = NoRow]
       /\ Wrote(r, answered, DropComments(C \ {c}))
  /\ UNCHANGED <<project, member, task>>

DropComment(r, answered) ==
  /\ \E C \in SUBSET Comments : \E c \in C \cap LiveComments :
       /\ Doing(r, <<"dropComments", C>>)
       /\ comment' = [comment EXCEPT ![c] = NoRow]
       /\ Wrote(r, answered, << <<"dropFiles", c>> >> \o DropComments(C \ {c}))
  /\ UNCHANGED <<project, member, task>>

Write(r, answered) ==
  /\ \/ InsertProject(r, answered) \/ EditText(r, answered) \/ DropProject(r, answered)
     \/ Join(r, answered) \/ Leave(r, answered)
     \/ InsertTask(r, answered) \/ UpdateTask(r, answered) \/ DropTask(r, answered)
     \/ InsertComment(r, answered) \/ DropComment(r, answered)
  /\ UNCHANGED <<issued, fs>>

\* Mutant: the delete is tried again until it finds its row.
LostRace_Retries(r) ==
  /\ \/ \E T \in SUBSET Tasks : Doing(r, <<"dropTasks", T>>) /\ ~(T \subseteq LiveTasks)
     \/ \E C \in SUBSET Comments :
          Doing(r, <<"dropComments", C>>) /\ ~(C \subseteq LiveComments)
  /\ UNCHANGED vars

\* A loop reaches a row that another request deleted: P2025, 404.
LostRace(r) ==
  /\ \/ \E T \in SUBSET Tasks : Doing(r, <<"dropTasks", T>>) /\ ~(T \subseteq LiveTasks)
     \/ \E C \in SUBSET Comments :
          Doing(r, <<"dropComments", C>>) /\ ~(C \subseteq LiveComments)
  /\ Throw(r)
  /\ UNCHANGED <<db, fs>>

\* A guard or a query answers with an exception.
Refuse(r) ==
  /\ job[r].agenda # <<>>
  /\ Head(job[r].agenda)[1] \in
       {"guard", "modify", "edit", "fileGuard", "assign", "reassign", "notify",
        "join", "leave", "insertTask", "update", "dropProject"}
  /\ ~Allowed(r)
  /\ Throw(r)
  /\ UNCHANGED <<db, fs>>

-----------------------------------------------------------------------------
(* Calls of FileService. *)

CallFiles(r) ==
  /\ \/ \E o \in Fileables :
          \/ \E k \in 1..MaxBatch[o] :
               Doing(r, <<"upload", o, k>>) /\ FS!CreateFiles(r, o, k)
          \/ Doing(r, <<"dropFiles", o>>) /\ FS!DeleteFiles(r, o)
     \/ \E n \in Names : Doing(r, <<"eraseFile", n>>) /\ FS!DeleteFile(r, n)
  /\ Then(r, << <<"files">> >>)
  /\ UNCHANGED db

AwaitFiles(r) ==
  /\ Doing(r, <<"files">>)
  /\ FS!Healthy(r)
  /\ UNCHANGED <<db, job>>

\* The promise of the call settles: the agenda goes on, or is dropped.
SettleFiles(r) ==
  /\ Doing(r, <<"files">>)
  /\ FS!Return(r)
  /\ IF FS!At(r, "done") THEN Then(r, <<>>) ELSE Throw(r)
  /\ UNCHANGED db

-----------------------------------------------------------------------------
\* A query rejects, before it took effect or after; so does S3.
Fault(r) ==
  \/ Write(r, FALSE)
  \/ /\ job[r].agenda # <<>> /\ ~Doing(r, <<"files">>)
     /\ Throw(r)
     /\ UNCHANGED <<db, fs>>
  \/ /\ Doing(r, <<"files">>)
     /\ FS!Fault(r)
     /\ UNCHANGED <<db, job>>

Crash ==
  /\ job' = [r \in Requests |-> IdleJob]
  /\ FS!Crash
  /\ UNCHANGED db

\* Requests name ids that exist or existed; others are refused alike.
Start(r) ==
  \E u \in Users :
    \/ PostProject(r, u)
    \/ \E p \in Projects \cap issued :
         \/ PatchProject(r, u, p) \/ DeleteProject(r, u, p) \/ PostProjectComment(r, u, p)
         \/ \E v \in Invited : \/ PutMember(r, u, p, v) \/ DeleteMember(r, u, p, v)
                               \/ PostTask(r, u, p, v)
         \/ \E k \in 1..MaxBatch[p] : PostProjectFiles(r, u, p, k)
    \/ \E t \in Tasks \cap issued :
         \/ PatchTaskText(r, u, t) \/ DeleteTask(r, u, t) \/ PostTaskComment(r, u, t)
         \/ \E v \in Invited : PatchTask(r, u, t, v)
         \/ \E k \in 1..MaxBatch[t] : PostTaskFiles(r, u, t, k)
    \/ \E c \in Comments \cap issued :
         \/ PatchComment(r, u, c) \/ DeleteComment(r, u, c)
         \/ \E k \in 1..MaxBatch[c] : PostCommentFiles(r, u, c, k)
    \/ \E n \in minted : DeleteFile(r, u, n)

\* What a request does while everything it depends on answers.
Serve(r) ==
  \/ Guard(r) \/ Read(r) \/ Write(r, TRUE) \/ Refuse(r) \/ LostRace(r)
  \/ CallFiles(r) \/ AwaitFiles(r) \/ SettleFiles(r)

HealthyNext == \E r \in Requests : Start(r) \/ Serve(r)

Next == HealthyNext \/ Crash \/ \E r \in Requests : Fault(r)

Spec == Init /\ [][Next]_vars

\* No query, no S3 command and no process fails.
HealthySpec == Init /\ [][HealthyNext]_vars

\* Node resumes a handler whose promise settled; nobody has to send a request.
FairSpec == HealthySpec /\ \A r \in Requests : WF_vars(Serve(r))

-----------------------------------------------------------------------------
TypeOK ==
  /\ project \subseteq Projects
  /\ member \subseteq Users \X Projects
  /\ task \in [Tasks -> TaskRow \cup {NoRow}]
  /\ comment \in [Comments -> CommentRow \cup {NoRow}]
  /\ issued \subseteq Fileables
  /\ job \in [Requests -> Job]
  /\ \A r \in Requests : job[r].user = NoUser <=> job[r].agenda = <<>>

\* The step gives t to somebody, or somebody else.
Assigns(t) == task'[t] # NoRow /\ (task[t] = NoRow \/ task'[t].assignee # task[t].assignee)

\* u was a member of p at one of the steps of the request that writes now.
SeenInside(r, u, p) == <<u, p>> \in job[r].saw

\* Whoever is assigned a task, and a team member who comments, was a member
\* of the project while the request that writes so was being served: what a
\* guard or a service saw may be stale by the write, but not by more than that.
\* Managers comment anywhere; of a comment whose owner is gone by the write
\* nothing is said.
TakePartAsMembers ==
  [][/\ \A t \in Tasks : Assigns(t) =>
          LET v == task'[t].assignee
              p == task'[t].project
          IN  \E r \in Requests :
                /\ Doing(r, <<"insertTask", t, p, v>>) \/ Doing(r, <<"update", t, v>>)
                /\ SeenInside(r, v, p)
     /\ \A c \in Comments \ LiveComments : comment'[c] # NoRow =>
          LET u == comment'[c].by
              o == comment'[c].on
          IN  \/ AtLeastManager(u) \/ o \notin Live
              \/ \E r \in Requests :
                   /\ Doing(r, <<"insertComment", c, o>>)
                   /\ SeenInside(r, u, IF o \in Projects THEN o ELSE task[o].project)]_vars

\* Comments and files whose owner is gone.
OrphanComments == {c \in LiveComments : comment[c].on \notin Live}
OrphanFiles == {n \in FS!RowNames : file[n] \notin Live}

\* The requests whose agenda still leads to the deletion of c, or of n.
WillDrop(r, c) ==
  \E i \in 1..Len(job[r].agenda) :
    \/ job[r].agenda[i] = <<"listComments", comment[c].on>>
    \/ \E C \in SUBSET Comments : c \in C /\ job[r].agenda[i] = <<"dropComments", C>>

WillErase(r, n) ==
  \/ \E i \in 1..Len(job[r].agenda) : job[r].agenda[i] = <<"dropFiles", file[n]>>
  \/ n \in call[r].todo

\* The orphans that no request in flight is going to delete.
Stranded ==
  {c \in OrphanComments : \A r \in Requests : ~WillDrop(r, c)} \cup
  {n \in OrphanFiles : \A r \in Requests : ~WillErase(r, n)}

\* The step inserts a comment or a file whose owner is already gone.
LandsLate ==
  \/ \E c \in Comments \ LiveComments : comment'[c] # NoRow /\ comment'[c].on \notin Live
  \/ \E n \in Names \ FS!RowNames : file'[n] \in Fileables \ Live

\* The step is an exception in r or in the file call r awaits, though nothing
\* it depends on failed.
Throws(r) ==
  \/ Refuse(r) \/ LostRace(r) \/ FS!RemoveMissing(r)
  \/ FS!At(r, "failed") /\ SettleFiles(r)

\* A comment or a file whose owner is gone is still going to be deleted by the
\* request that deleted the owner (deleteProject, deleteTask, deleteComment).
\* Only a request that throws or a row that lands late strands one, never a
\* cascade that runs through.
StrandedByThrowOrLateRow ==
  [][\/ Stranded' \subseteq Stranded
     \/ LandsLate
     \/ \E r \in Requests : Throws(r)
     \/ ~HealthyNext]_vars

\* A comment disappears at the hands of its author or an ADMIN, or because
\* its project or task is gone.
CommentsAreTheirAuthors ==
  [][\A c \in Comments :
       comment[c] # NoRow /\ comment'[c] = NoRow =>
         \/ comment[c].on \notin Live
         \/ \E r \in Requests :
              /\ \E C \in SUBSET Comments : Doing(r, <<"dropComments", C>>) /\ c \in C
              /\ Role[job[r].user] = "ADMIN" \/ job[r].user = comment[c].by]_vars

\* The user of r may have o's files deleted: o is gone, or it is a project and
\* the user manages projects, a task of a project the user manages or was seen
\* in, or a comment of the user's own or of anybody's if an ADMIN asks.
MayDeleteFilesOf(r, o) ==
  LET u == job[r].user
  IN  \/ o \notin Live
      \/ o \notin Comments /\ AtLeastManager(u)
      \/ o \in LiveTasks /\ SeenInside(r, u, task[o].project)
      \/ o \in LiveComments /\ (Role[u] = "ADMIN" \/ comment[o].by = u)

\* A file disappears at the hands of somebody who may change what it belongs
\* to, or because that is gone: the guard of DELETE /file/:id reads file, owner
\* and membership awaits before the row goes, beside the cascades of the three
\* services, and none of them may take the file of something that still lives.
FilesAreTheirOwners ==
  [][\A n \in FS!RowNames : file'[n] = NoOwner =>
       \E r \in Requests :
         n \in call[r].todo \ call'[r].todo /\ MayDeleteFilesOf(r, file[n])]_vars

\* Once nobody is serving a request, no comment and no file outlives its
\* owner (the cleanup the service tests describe).
CleansUp ==
  (\A r \in Requests : job[r].agenda = <<>>) => OrphanComments = {} /\ OrphanFiles = {}

\* Every request comes to an end.
RequestsEnd == \A r \in Requests : job[r].agenda # <<>> ~> job[r].agenda = <<>>
=============================================================================

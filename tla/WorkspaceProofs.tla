--------------------------- MODULE WorkspaceProofs ---------------------------
(***************************************************************************)
(* Proofs, for any number of requests, users and ids, that the safety of   *)
(* the file store carries over to the workspace, and that the tables and   *)
(* agendas of the workspace keep their types.                              *)
(***************************************************************************)
EXTENDS Workspace, TLAPS

FSP == INSTANCE FileStoreProofs

\* A request that starts has done nothing yet.
LEMMA StartKeeps ==
  ASSUME NEW r, Start(r)
  PROVE  UNCHANGED <<project, member, task, comment, fs>>
<1> DEFINE Keeps == UNCHANGED <<project, member, task, comment, fs>>
<1>1. ASSUME NEW u, NEW agenda, Go(r, u, agenda) PROVE Keeps
  BY <1>1 DEF Go
<1> HIDE DEF Keeps
<1>2. ASSUME NEW u, NEW p, NEW v,
             \/ PostProject(r, u) \/ PatchProject(r, u, p) \/ DeleteProject(r, u, p)
             \/ PutMember(r, u, p, v) \/ DeleteMember(r, u, p, v) \/ PostTask(r, u, p, v)
      PROVE  Keeps
  BY <1>1, <1>2 DEF PostProject, PatchProject, DeleteProject, PutMember, DeleteMember, PostTask
<1>3. ASSUME NEW u, NEW t, NEW v,
             PatchTask(r, u, t, v) \/ PatchTaskText(r, u, t) \/ DeleteTask(r, u, t)
      PROVE  Keeps
  BY <1>1, <1>3 DEF PatchTask, PatchTaskText, DeleteTask
<1>4. ASSUME NEW u, NEW o,
             \/ PostProjectComment(r, u, o) \/ PostTaskComment(r, u, o)
             \/ PatchComment(r, u, o) \/ DeleteComment(r, u, o)
      PROVE  Keeps
  BY <1>1, <1>4 DEF PostProjectComment, PostTaskComment, CreateComment, PatchComment, DeleteComment
<1>5. ASSUME NEW u, NEW o, NEW k,
             \/ PostProjectFiles(r, u, o, k) \/ PostTaskFiles(r, u, o, k)
             \/ PostCommentFiles(r, u, o, k) \/ DeleteFile(r, u, o)
      PROVE  Keeps
  BY <1>1, <1>5 DEF PostProjectFiles, PostTaskFiles, PostCommentFiles, DeleteFile
<1>6. Keeps
  BY <1>2, <1>3, <1>4, <1>5 DEF Start
<1> QED BY <1>6 DEF Keeps

\* A step of the workspace is a step of the file store or leaves it alone.
LEMMA StepRefines == [Next]_vars => [FS!Next]_(FS!vars)
<1> SUFFICES ASSUME [Next]_vars PROVE FS!Next \/ UNCHANGED FS!vars
  OBVIOUS
<1> USE DEF FS!vars, fs, db
<1>1. ASSUME NEW r \in Requests, Start(r) PROVE UNCHANGED FS!vars
  BY <1>1, StartKeeps
<1>2. ASSUME NEW r \in Requests, CallFiles(r) PROVE FS!Next
  BY <1>2 DEF CallFiles, FS!Next, FS!HealthyNext, FS!Start
<1>3. ASSUME NEW r \in Requests, AwaitFiles(r) PROVE FS!Next
  BY <1>3 DEF AwaitFiles, FS!Next, FS!HealthyNext
<1>4. ASSUME NEW r \in Requests, SettleFiles(r) PROVE FS!Next
  BY <1>4 DEF SettleFiles, FS!Next, FS!HealthyNext
<1>5. ASSUME NEW r \in Requests, Serve(r) PROVE FS!Next \/ UNCHANGED FS!vars
  BY <1>2, <1>3, <1>4, <1>5 DEF Serve, Guard, Read, Write, Refuse, LostRace
<1>6. ASSUME NEW r \in Requests, Fault(r) PROVE FS!Next \/ UNCHANGED FS!vars
  BY <1>6 DEF Fault, Write, FS!Next
<1>7. CASE Crash
  BY <1>7 DEF Crash, FS!Next
<1>8. CASE UNCHANGED vars
  BY <1>8 DEF vars
<1> QED BY <1>1, <1>5, <1>6, <1>7, <1>8 DEF Next, HealthyNext

\* Workspace changes the files by FileStore's own actions, so what is proved of
\* FileStore holds of them here.
LEMMA WorkspaceRefinesFileStore == Spec => FS!Spec
<1>1. Init => FS!Init
  BY DEF Init
<1> QED BY <1>1, StepRefines, PTL DEF Spec, FS!Spec

\* FileStore and FileStoreProofs are instantiated alike.
LEMMA SameFileStore ==
  /\ FS!Init => FSP!Init
  /\ [FS!Next]_(FS!vars) => [FSP!Next]_(FSP!vars)
  /\ FSP!RowHasObject => FS!RowHasObject
<1> USE DEF FS!IdleCall, FSP!IdleCall, FS!At, FSP!At, FS!Throw, FSP!Throw,
        FS!FilesOf, FSP!FilesOf, FS!RowNames, FSP!RowNames
<1>1. FS!Init => FSP!Init
  BY DEF FS!Init, FSP!Init
<1>2. ASSUME NEW r PROVE FS!Start(r) => FSP!Start(r)
  BY DEF FS!Cardinality, FSP!Cardinality, FS!Start, FSP!Start, FS!CreateFiles, FSP!CreateFiles,
         FS!StartRemoving, FSP!StartRemoving, FS!DeleteFile, FSP!DeleteFile,
         FS!DeleteFiles, FSP!DeleteFiles
<1>3. ASSUME NEW r PROVE FS!Healthy(r) => FSP!Healthy(r)
  BY DEF FS!Healthy, FSP!Healthy, FS!Upload, FSP!Upload, FS!Record, FSP!Record,
         FS!Remove, FSP!Remove, FS!RemoveMissing, FSP!RemoveMissing,
         FS!Erase, FSP!Erase
<1>4. ASSUME NEW r PROVE FS!Fault(r) => FSP!Fault(r)
  BY DEF FS!Fault, FSP!Fault, FS!UploadFails, FSP!UploadFails,
         FS!RecordFails, FSP!RecordFails, FS!RemoveFails, FSP!RemoveFails,
         FS!EraseFails, FSP!EraseFails
<1>5. FS!Next => FSP!Next
  BY <1>2, <1>3, <1>4
  DEF FS!Next, FSP!Next, FS!HealthyNext, FSP!HealthyNext, FS!Return, FSP!Return, FS!Crash, FSP!Crash
<1>6. FSP!RowHasObject => FS!RowHasObject
  BY DEF FS!RowHasObject, FSP!RowHasObject
<1> QED BY <1>1, <1>5, <1>6 DEF FS!vars, FSP!vars

\* Whatever projects, tasks and comments are deleted meanwhile, every file a
\* request can read has its object.
THEOREM WorkspaceRowsHaveObjects == Spec => []FS!RowHasObject
<1>1. FSP!Spec => []FSP!RowHasObject
  BY FSP!RowsHaveObjects, FilesAssumption DEF IsFiniteSet, FSP!IsFiniteSet
<1>2. FS!Spec => FSP!Spec
  BY SameFileStore, PTL DEF FS!Spec, FSP!Spec
<1> QED BY <1>1, <1>2, SameFileStore, WorkspaceRefinesFileStore, PTL

\* Nor do uploads through the endpoints overshoot a limit any further than those
\* of the file store.
THEOREM WorkspaceOvershootIsBounded == Spec => []FS!OvershootBounded
<1>1. FSP!Spec => []FSP!OvershootBounded
  BY FSP!OvershootIsBounded, FilesAssumption DEF IsFiniteSet, FSP!IsFiniteSet
<1>2. FS!Spec => FSP!Spec
  BY SameFileStore, PTL DEF FS!Spec, FSP!Spec
<1>3. FSP!OvershootBounded => FS!OvershootBounded
  BY DEF FS!OvershootBounded, FSP!OvershootBounded, FS!Cardinality, FSP!Cardinality,
         FS!FilesOf, FSP!FilesOf
<1> QED BY <1>1, <1>2, <1>3, WorkspaceRefinesFileStore, PTL

-----------------------------------------------------------------------------
\* The part of the type invariant about the requests in flight.
JobsOK ==
  /\ job \in [Requests -> Job]
  /\ \A r \in Requests : job[r].user = NoUser <=> job[r].agenda = <<>>

MembersOK == member \subseteq Users \X Projects

\* A request that goes on with a well-formed agenda stays well-formed.
LEMMA ContinueJobs ==
  ASSUME JobsOK, MembersOK, NEW r \in Requests, NEW agenda \in Seq(Step),
         job[r].agenda # <<>>, Continue(r, agenda)
  PROVE  JobsOK'
<1> DEFINE next == IF agenda = <<>> THEN IdleJob
                   ELSE [user |-> job[r].user, agenda |-> agenda, saw |-> job[r].saw \cup member]
<1>1. job[r] \in Job
  BY DEF JobsOK
<1>2. IdleJob \in Job
  BY DEF IdleJob, Job
<1>3. /\ next \in Job
      /\ next.user = NoUser <=> next.agenda = <<>>
  <2>1. CASE agenda = <<>>
    BY <2>1, <1>2 DEF IdleJob
  <2>2. CASE agenda # <<>>
    BY <2>2, <1>1 DEF JobsOK, MembersOK, Job
  <2> QED BY <2>1, <2>2
<1>4. job' = [job EXCEPT ![r] = next]
  BY DEF Continue
<1> HIDE DEF next
<1> QED BY <1>3, <1>4 DEF JobsOK

\* Likewise for one that does further steps first, or throws.
LEMMA ThenJobs ==
  ASSUME JobsOK, MembersOK, NEW r \in Requests, NEW steps \in Seq(Step),
         job[r].agenda # <<>>, Then(r, steps) \/ Throw(r)
  PROVE  JobsOK'
<1>1. job[r].agenda \in Seq(Step)
  BY DEF JobsOK, Job
<1>2. /\ Tail(job[r].agenda) \in Seq(Step)
      /\ <<>> \in Seq(Step)
  BY <1>1
<1>3. steps \o Tail(job[r].agenda) \in Seq(Step)
  BY <1>2
<1> QED BY <1>2, <1>3, ContinueJobs DEF Then, Throw

\* Likewise for one that starts.
LEMMA GoJobs ==
  ASSUME JobsOK, MembersOK, NEW r \in Requests, NEW u \in Users, NEW agenda \in Seq(Step),
         agenda # <<>>, Go(r, u, agenda)
  PROVE  JobsOK'
BY IdAssumption DEF JobsOK, MembersOK, Job, Go

\* What May says of the steps the proofs look at.
LEMMA MayTask ==
  ASSUME TypeOK, NEW u, NEW t \in Tasks, NEW v,
         \/ May(u, <<"guard", t>>) \/ May(u, <<"modify", t>>)
         \/ May(u, <<"reassign", t, v>>) \/ May(u, <<"update", t, v>>)
  PROVE  t \in LiveTasks
<1>1. t \notin Comments /\ t \notin project
  BY IdAssumption DEF TypeOK
<1> QED BY <1>1 DEF May, LiveComments

\* FileGuard passes only for a file that has an owner.
LEMMA MayFile ==
  ASSUME NEW u, NEW n \in Names, May(u, <<"fileGuard", n>>)
  PROVE  file[n] # NoOwner
BY DEF May

\* TypeOK and the types of the file table, which fileGuard puts on an agenda.
TInv == TypeOK /\ FS!TypeOK

TablesOK ==
  /\ project \subseteq Projects
  /\ member \subseteq Users \X Projects
  /\ task \in [Tasks -> TaskRow \cup {NoRow}]
  /\ comment \in [Comments -> CommentRow \cup {NoRow}]
  /\ issued \subseteq Fileables

\* The type invariant splits into the tables and the requests in flight.
LEMMA TypeParts == /\ TypeOK <=> TablesOK /\ JobsOK
                   /\ TablesOK => MembersOK
BY DEF TypeOK, TablesOK, JobsOK, MembersOK

\* The steps that the endpoints and the services put on an agenda.
LEMMA StepForms ==
  /\ \A o \in Fileables : /\ <<"guard", o>> \in Step /\ <<"modify", o>> \in Step
                          /\ <<"edit", o>> \in Step /\ <<"dropFiles", o>> \in Step
                          /\ \A k \in Nat : <<"upload", o, k>> \in Step
  /\ \A n \in Names : <<"fileGuard", n>> \in Step /\ <<"eraseFile", n>> \in Step
  /\ <<"files">> \in Step
  /\ \A p \in Projects : /\ <<"insertProject", p>> \in Step
                         /\ <<"listTasks", p>> \in Step /\ <<"dropProject", p>> \in Step
  /\ \A o \in Projects \cup Tasks : /\ <<"notify", o>> \in Step
                                    /\ <<"listComments", o>> \in Step
  /\ \A p \in Projects, v \in Users : /\ <<"assign", p, v>> \in Step
                                      /\ <<"join", p, v>> \in Step
                                      /\ <<"leave", p, v>> \in Step
  /\ \A t \in Tasks, v \in Users : /\ <<"reassign", t, v>> \in Step
                                   /\ <<"update", t, v>> \in Step
                                   /\ \A p \in Projects : <<"insertTask", t, p, v>> \in Step
  /\ \A c \in Comments, o \in Projects \cup Tasks : <<"insertComment", c, o>> \in Step
  /\ \A T \in SUBSET Tasks : <<"dropTasks", T>> \in Step
  /\ \A C \in SUBSET Comments : <<"dropComments", C>> \in Step
BY DEF Step

\* Agendas of up to four steps are sequences of steps, and not empty.
LEMMA Agendas ==
  \A a, b, c, d \in Step :
    /\ <<a>> \in Seq(Step) /\ <<a, b>> \in Seq(Step)
    /\ <<a, b, c>> \in Seq(Step) /\ <<a, b, c, d>> \in Seq(Step)
    /\ <<a>> # <<>> /\ <<a, b>> # <<>> /\ <<a, b, c>> # <<>> /\ <<a, b, c, d>> # <<>>
OBVIOUS

\* A request that starts with a well-formed agenda keeps every type.
LEMMA GoType ==
  ASSUME TypeOK, NEW r \in Requests, NEW u \in Users, NEW agenda \in Seq(Step),
         agenda # <<>>, Go(r, u, agenda), issued' \subseteq Fileables
  PROVE  TypeOK'
<1>1. JobsOK'
  BY GoJobs, TypeParts
<1>2. TablesOK'
  BY TypeParts DEF TablesOK, Go
<1> QED BY <1>1, <1>2 DEF TypeOK, TablesOK, JobsOK

\* Every endpoint starts with a well-formed agenda.
LEMMA StartType ==
  ASSUME TInv, NEW r \in Requests, Start(r)
  PROVE  TypeOK'
<1> USE DEF TInv
<1>1. /\ TypeOK /\ issued \subseteq Fileables /\ minted \subseteq Names
      /\ Projects \subseteq Fileables /\ Tasks \subseteq Fileables
      /\ Comments \subseteq Fileables
  BY DEF TypeOK, FS!TypeOK, Fileables
<1>2. PICK u \in Users :
        \/ PostProject(r, u)
        \/ \E p \in Projects : PatchProject(r, u, p) \/ DeleteProject(r, u, p)
        \/ \E p \in Projects, v \in Users :
             PutMember(r, u, p, v) \/ DeleteMember(r, u, p, v) \/ PostTask(r, u, p, v)
        \/ \E t \in Tasks : \/ PatchTaskText(r, u, t) \/ DeleteTask(r, u, t)
                           \/ \E v \in Users : PatchTask(r, u, t, v)
        \/ \E o \in Projects \cup Tasks : CreateComment(r, u, o)
        \/ \E c \in Comments : PatchComment(r, u, c) \/ DeleteComment(r, u, c)
        \/ \E o \in Fileables : \E k \in 1..MaxBatch[o] :
             PostProjectFiles(r, u, o, k) \/ PostTaskFiles(r, u, o, k) \/ PostCommentFiles(r, u, o, k)
        \/ \E n \in Names : DeleteFile(r, u, n)
  BY <1>1, UsersAssumption DEF Start, PostProjectComment, PostTaskComment
<1>3. CASE PostProject(r, u)
  <2> PICK p \in Projects : /\ issued' = issued \cup {p}
                            /\ Go(r, u, << <<"insertProject", p>> >>)
    BY <1>3 DEF PostProject, Fresh
  <2> QED BY <1>1, StepForms, Agendas, GoType
<1>4. ASSUME NEW p \in Projects, DeleteProject(r, u, p) PROVE TypeOK'
  <2>1. /\ <<"listTasks", p>> \in Step /\ <<"dropProject", p>> \in Step
        /\ <<"dropFiles", p>> \in Step /\ <<"listComments", p>> \in Step
    BY <1>1, StepForms
  <2> QED BY <1>1, <1>4, <2>1, Agendas, GoType DEF DeleteProject
<1>13. ASSUME NEW p \in Projects, PatchProject(r, u, p) PROVE TypeOK'
  <2>1. <<"edit", p>> \in Step /\ <<"notify", p>> \in Step
    BY <1>1, StepForms
  <2> QED BY <1>1, <1>13, <2>1, Agendas, GoType DEF PatchProject
<1>5. ASSUME NEW p \in Projects, NEW v \in Users,
             PutMember(r, u, p, v) \/ DeleteMember(r, u, p, v)
      PROVE  TypeOK'
  BY <1>1, <1>5, StepForms, Agendas, GoType DEF PutMember, DeleteMember
<1>6. ASSUME NEW p \in Projects, NEW v \in Users, PostTask(r, u, p, v) PROVE TypeOK'
  <2> PICK t \in Tasks :
        /\ issued' = issued \cup {t}
        /\ Go(r, u, << <<"guard", p>>, <<"assign", p, v>>, <<"insertTask", t, p, v>> >>)
    BY <1>6 DEF PostTask, Fresh
  <2>1. /\ <<"guard", p>> \in Step /\ <<"assign", p, v>> \in Step
        /\ <<"insertTask", t, p, v>> \in Step
    BY <1>1, StepForms
  <2> QED BY <1>1, <2>1, Agendas, GoType
<1>7. ASSUME NEW t \in Tasks, DeleteTask(r, u, t) PROVE TypeOK'
  <2>1. <<"guard", t>> \in Step /\ <<"dropTasks", {t}>> \in Step
    BY <1>1, StepForms
  <2> QED BY <1>1, <1>7, <2>1, Agendas, GoType DEF DeleteTask
<1>8. ASSUME NEW t \in Tasks, NEW v \in Users, PatchTask(r, u, t, v) PROVE TypeOK'
  <2>1. <<"guard", t>> \in Step /\ <<"reassign", t, v>> \in Step
    BY <1>1, StepForms
  <2> QED BY <1>1, <1>8, <2>1, Agendas, GoType DEF PatchTask
<1>14. ASSUME NEW t \in Tasks, PatchTaskText(r, u, t) PROVE TypeOK'
  <2>1. <<"guard", t>> \in Step /\ <<"edit", t>> \in Step
    BY <1>1, StepForms
  <2> QED BY <1>1, <1>14, <2>1, Agendas, GoType DEF PatchTaskText
<1>9. ASSUME NEW o \in Projects \cup Tasks, CreateComment(r, u, o) PROVE TypeOK'
  <2> PICK c \in Comments : \E k \in 0..MaxBatch[c] :
        /\ issued' = issued \cup {c}
        /\ Go(r, u, << <<"guard", o>>, <<"insertComment", c, o>>, <<"notify", o>> >> \o
                    (IF k = 0 THEN <<>> ELSE << <<"upload", c, k>> >>))
    BY <1>9 DEF CreateComment, Fresh
  <2> PICK k \in 0..MaxBatch[c] :
        /\ issued' = issued \cup {c}
        /\ Go(r, u, << <<"guard", o>>, <<"insertComment", c, o>>, <<"notify", o>> >> \o
                    (IF k = 0 THEN <<>> ELSE << <<"upload", c, k>> >>))
    OBVIOUS
  <2>1. k \in Nat
    BY <1>1, FilesAssumption
  <2>2. /\ <<"guard", o>> \in Step /\ <<"insertComment", c, o>> \in Step
        /\ <<"notify", o>> \in Step /\ <<"upload", c, k>> \in Step
    BY <1>1, <2>1, StepForms
  <2> DEFINE head == << <<"guard", o>>, <<"insertComment", c, o>>, <<"notify", o>> >>
             tail == IF k = 0 THEN <<>> ELSE << <<"upload", c, k>> >>
  <2>3. head \in Seq(Step) /\ tail \in Seq(Step) /\ Len(head) = 3
    BY <2>2, Agendas
  <2> HIDE DEF head, tail
  <2>4. head \o tail \in Seq(Step) /\ head \o tail # <<>>
    BY <2>3
  <2>5. Go(r, u, head \o tail)
    BY DEF head, tail
  <2> QED BY <1>1, <2>4, <2>5, GoType
<1>10. ASSUME NEW c \in Comments, DeleteComment(r, u, c) PROVE TypeOK'
  <2>1. <<"modify", c>> \in Step /\ <<"dropComments", {c}>> \in Step
    BY <1>1, StepForms
  <2> QED BY <1>1, <1>10, <2>1, Agendas, GoType DEF DeleteComment
<1>15. ASSUME NEW c \in Comments, PatchComment(r, u, c) PROVE TypeOK'
  <2>1. <<"modify", c>> \in Step /\ <<"edit", c>> \in Step
    BY <1>1, StepForms
  <2> QED BY <1>1, <1>15, <2>1, Agendas, GoType DEF PatchComment
<1>11. ASSUME NEW o \in Fileables, NEW k \in 1..MaxBatch[o],
              PostProjectFiles(r, u, o, k) \/ PostTaskFiles(r, u, o, k) \/ PostCommentFiles(r, u, o, k)
       PROVE  TypeOK'
  <2>1. k \in Nat
    BY FilesAssumption
  <2>2. /\ <<"modify", o>> \in Step /\ <<"guard", o>> \in Step
        /\ <<"upload", o, k>> \in Step
    BY <2>1, StepForms
  <2> QED BY <1>1, <1>11, <2>2, Agendas, GoType DEF PostProjectFiles, PostTaskFiles, PostCommentFiles
<1>12. ASSUME NEW n \in Names, DeleteFile(r, u, n) PROVE TypeOK'
  <2>1. <<"fileGuard", n>> \in Step /\ <<"eraseFile", n>> \in Step
    BY StepForms
  <2> QED BY <1>1, <1>12, <2>1, Agendas, GoType DEF DeleteFile
<1> QED BY <1>2, <1>3, <1>4, <1>5, <1>6, <1>7, <1>8, <1>9, <1>10, <1>11, <1>12, <1>13, <1>14, <1>15

\* A request that goes on with well-formed steps, or throws, over tables that
\* keep their types.
LEMMA ThenType ==
  ASSUME TypeOK, NEW r \in Requests, NEW steps \in Seq(Step),
         job[r].agenda # <<>>, Then(r, steps) \/ Throw(r), TablesOK'
  PROVE  TypeOK'
<1>1. JobsOK'
  BY ThenJobs, TypeParts
<1> QED BY <1>1 DEF TypeOK, TablesOK, JobsOK

\* A step that leaves the tables alone keeps their types.
LEMMA TablesKeep == TypeOK /\ UNCHANGED db => TablesOK'
BY DEF TypeOK, TablesOK, db

\* Guards and reads put the project of a row, or the rows they list, on the
\* agenda.
LEMMA ReadType ==
  ASSUME TInv, NEW r \in Requests, Guard(r) \/ Read(r)
  PROVE  TypeOK'
<1> USE DEF Doing, Allowed
<1>1. TypeOK /\ TablesOK'
  BY TablesKeep DEF TInv, Guard, Read
<1>2. /\ Projects \subseteq Fileables /\ Tasks \subseteq Fileables /\ <<>> \in Seq(Step)
  BY DEF Fileables
<1>3. ASSUME NEW t \in LiveTasks PROVE t \in Tasks /\ task[t].project \in Projects
  BY <1>1 DEF LiveTasks, TypeOK, TaskRow
<1>4. CASE Guard(r)
  <2>1. ASSUME Then(r, <<>>), job[r].agenda # <<>> PROVE TypeOK'
    BY <1>1, <1>2, <2>1, ThenType
  <2>2. ASSUME NEW t \in Tasks, Doing(r, <<"guard", t>>) \/ Doing(r, <<"modify", t>>),
               Allowed(r), Then(r, << <<"guard", task[t].project>> >>)
        PROVE  TypeOK'
    <3>1. t \in LiveTasks
      BY <1>1, <2>2, MayTask
    <3>2. << <<"guard", task[t].project>> >> \in Seq(Step)
      BY <1>2, <1>3, <3>1, StepForms, Agendas
    <3> QED BY <1>1, <2>2, <3>2, ThenType
  <2>3. ASSUME NEW n \in Names, Doing(r, <<"fileGuard", n>>), Allowed(r),
               Then(r, << <<"modify", file[n]>> >>)
        PROVE  TypeOK'
    <3>1. file[n] \in Fileables
      BY <2>3, MayFile DEF TInv, FS!TypeOK
    <3>2. << <<"modify", file[n]>> >> \in Seq(Step)
      BY <3>1, StepForms, Agendas
    <3> QED BY <1>1, <2>3, <3>2, ThenType
  <2> QED BY <1>4, <2>1, <2>2, <2>3 DEF Guard
<1>5. CASE Read(r)
  <2>1. ASSUME Then(r, <<>>), job[r].agenda # <<>> PROVE TypeOK'
    BY <1>1, <1>2, <2>1, ThenType
  <2>2. ASSUME NEW t \in Tasks, NEW v \in Users, Doing(r, <<"reassign", t, v>>), Allowed(r),
               Then(r, << <<"assign", task[t].project, v>>, <<"update", t, v>> >>)
        PROVE  TypeOK'
    <3>1. t \in LiveTasks
      BY <1>1, <2>2, MayTask
    <3>2. << <<"assign", task[t].project, v>>, <<"update", t, v>> >> \in Seq(Step)
      BY <1>3, <3>1, StepForms, Agendas
    <3> QED BY <1>1, <2>2, <3>2, ThenType
  <2>3. ASSUME NEW p \in Projects, Doing(r, <<"listTasks", p>>),
               Then(r, DropTasks(TasksOf(p)))
        PROVE  TypeOK'
    <3>1. TasksOf(p) \in SUBSET Tasks
      BY DEF TasksOf, LiveTasks
    <3>2. DropTasks(TasksOf(p)) \in Seq(Step)
      BY <1>2, <3>1, StepForms, Agendas DEF DropTasks
    <3> QED BY <1>1, <2>3, <3>2, ThenType
  <2>4. ASSUME NEW o \in Projects \cup Tasks, Doing(r, <<"listComments", o>>),
               Then(r, DropComments(CommentsOn(o)))
        PROVE  TypeOK'
    <3>1. CommentsOn(o) \in SUBSET Comments
      BY DEF CommentsOn, LiveComments
    <3>2. DropComments(CommentsOn(o)) \in Seq(Step)
      BY <1>2, <3>1, StepForms, Agendas DEF DropComments
    <3> QED BY <1>1, <2>4, <3>2, ThenType
  <2> QED BY <1>5, <2>1, <2>2, <2>3, <2>4 DEF Read
<1> QED BY <1>4, <1>5

\* Writes keep the types of the tables.
LEMMA WriteType ==
  ASSUME TypeOK, NEW r \in Requests, NEW answered, Write(r, answered)
  PROVE  TypeOK'
<1> USE DEF Doing, Wrote
<1>1. <<>> \in Seq(Step)
  OBVIOUS
<1>2. ASSUME TablesOK', job[r].agenda # <<>>, Then(r, <<>>) \/ Throw(r) PROVE TypeOK'
  BY <1>1, <1>2, ThenType
<1>3. issued' = issued
  BY DEF Write
<1>4. CASE InsertProject(r, answered) \/ EditText(r, answered) \/ DropProject(r, answered)
  BY <1>2, <1>3, <1>4 DEF InsertProject, EditText, DropProject, TypeOK, TablesOK
<1>5. CASE Join(r, answered) \/ Leave(r, answered)
  BY <1>2, <1>3, <1>5 DEF Join, Leave, TypeOK, TablesOK
<1>6. CASE InsertTask(r, answered)
  BY <1>2, <1>3, <1>6 DEF InsertTask, TypeOK, TablesOK, TaskRow
<1>7. CASE UpdateTask(r, answered)
  <2> PICK t \in Tasks, v \in Users :
        /\ Doing(r, <<"update", t, v>>) /\ Allowed(r)
        /\ task' = [task EXCEPT ![t].assignee = v]
    BY <1>7 DEF UpdateTask
  <2>1. task[t] \in TaskRow
    <3>1. May(job[r].user, <<"update", t, v>>)
      BY DEF Allowed
    <3>2. t \in LiveTasks
      BY <3>1, MayTask
    <3> QED BY <3>2 DEF LiveTasks, TypeOK
  <2>2. [task[t] EXCEPT !.assignee = v] \in TaskRow
    BY <2>1 DEF TaskRow
  <2>3. TablesOK'
    BY <1>3, <1>7, <2>2 DEF UpdateTask, TypeOK, TablesOK
  <2> QED BY <1>2, <1>7, <2>3 DEF UpdateTask
<1>8. CASE DropTask(r, answered)
  <2> PICK T \in SUBSET Tasks : \E t \in T \cap LiveTasks :
        /\ Doing(r, <<"dropTasks", T>>)
        /\ task' = [task EXCEPT ![t] = NoRow]
        /\ Wrote(r, answered, << <<"dropFiles", t>>, <<"listComments", t>> >>
                                \o DropTasks(T \ {t}))
    BY <1>8 DEF DropTask
  <2> PICK t \in T \cap LiveTasks :
        /\ Doing(r, <<"dropTasks", T>>)
        /\ task' = [task EXCEPT ![t] = NoRow]
        /\ Wrote(r, answered, << <<"dropFiles", t>>, <<"listComments", t>> >>
                                \o DropTasks(T \ {t}))
    OBVIOUS
  <2>1. /\ << <<"dropFiles", t>>, <<"listComments", t>> >> \in Seq(Step)
        /\ DropTasks(T \ {t}) \in Seq(Step)
    BY <1>1, StepForms, Agendas DEF DropTasks, Fileables
  <2>2. << <<"dropFiles", t>>, <<"listComments", t>> >> \o DropTasks(T \ {t}) \in Seq(Step)
    BY <2>1
  <2>3. TablesOK'
    BY <1>3, <1>8 DEF DropTask, TypeOK, TablesOK
  <2> QED BY <2>2, <2>3, ThenType
<1>9. CASE InsertComment(r, answered)
  <2> PICK c \in Comments, o \in Projects \cup Tasks :
        /\ Doing(r, <<"insertComment", c, o>>)
        /\ comment' = [comment EXCEPT ![c] = [on |-> o, by |-> job[r].user]]
    BY <1>9 DEF InsertComment
  <2>1. job[r].user \in Users
    BY DEF TypeOK, Job
  <2>2. TablesOK'
    BY <1>3, <1>9, <2>1 DEF InsertComment, TypeOK, TablesOK, CommentRow
  <2> QED BY <1>2, <1>9, <2>2 DEF InsertComment
<1>10. CASE DropComment(r, answered)
  <2> PICK C \in SUBSET Comments : \E c \in C \cap LiveComments :
        /\ Doing(r, <<"dropComments", C>>)
        /\ comment' = [comment EXCEPT ![c] = NoRow]
        /\ Wrote(r, answered, << <<"dropFiles", c>> >> \o DropComments(C \ {c}))
    BY <1>10 DEF DropComment
  <2> PICK c \in C \cap LiveComments :
        /\ Doing(r, <<"dropComments", C>>)
        /\ comment' = [comment EXCEPT ![c] = NoRow]
        /\ Wrote(r, answered, << <<"dropFiles", c>> >> \o DropComments(C \ {c}))
    OBVIOUS
  <2>1. << <<"dropFiles", c>> >> \in Seq(Step) /\ DropComments(C \ {c}) \in Seq(Step)
    BY <1>1, StepForms, Agendas DEF DropComments, Fileables
  <2>2. << <<"dropFiles", c>> >> \o DropComments(C \ {c}) \in Seq(Step)
    BY <2>1
  <2>3. TablesOK'
    BY <1>3, <1>10 DEF DropComment, TypeOK, TablesOK
  <2> QED BY <2>2, <2>3, ThenType
<1> QED BY <1>4, <1>5, <1>6, <1>7, <1>8, <1>9, <1>10 DEF Write

\* The workspace and the file store below it are well-typed in every state.
LEMMA TypeStep == TInv /\ [Next]_vars => TypeOK'
<1> SUFFICES ASSUME TInv, [Next]_vars PROVE TypeOK'
  OBVIOUS
<1>1. TypeOK /\ <<>> \in Seq(Step) /\ << <<"files">> >> \in Seq(Step)
  BY StepForms, Agendas DEF TInv
<1>2. ASSUME NEW r \in Requests, Start(r) PROVE TypeOK'
  BY <1>2, StartType
<1>3. ASSUME NEW r \in Requests, job[r].agenda # <<>>, UNCHANGED db,
             Then(r, <<>>) \/ Then(r, << <<"files">> >>) \/ Throw(r)
      PROVE  TypeOK'
  <2>1. TablesOK'
    BY <1>1, <1>3, TablesKeep
  <2> QED BY <1>1, <1>3, <2>1, ThenType
<1>4. ASSUME NEW r \in Requests, Refuse(r) \/ LostRace(r) \/ CallFiles(r) \/ SettleFiles(r)
      PROVE  TypeOK'
  <2>1. job[r].agenda # <<>> /\ UNCHANGED db
    BY <1>4 DEF Refuse, LostRace, CallFiles, SettleFiles, Doing, db
  <2>2. Then(r, <<>>) \/ Then(r, << <<"files">> >>) \/ Throw(r)
    BY <1>4 DEF Refuse, LostRace, CallFiles, SettleFiles
  <2> QED BY <1>3, <2>1, <2>2
<1>5. CASE UNCHANGED <<db, job>>
  BY <1>1, <1>5 DEF TypeOK, db
<1>6. ASSUME NEW r \in Requests, Serve(r) PROVE TypeOK'
  BY <1>1, <1>4, <1>5, <1>6, ReadType, WriteType DEF Serve, AwaitFiles
<1>7. ASSUME NEW r \in Requests, Fault(r) PROVE TypeOK'
  BY <1>1, <1>3, <1>5, <1>7, WriteType DEF Fault
<1>8. CASE Crash
  <2>1. TablesOK'
    BY <1>1, <1>8, TablesKeep DEF Crash
  <2>2. JobsOK'
    BY <1>1, <1>8 DEF Crash, JobsOK, IdleJob, Job
  <2> QED BY <2>1, <2>2 DEF TypeOK, TablesOK, JobsOK
<1>9. CASE UNCHANGED vars
  BY <1>5, <1>9 DEF vars
<1> QED BY <1>2, <1>6, <1>7, <1>8, <1>9 DEF Next, HealthyNext

\* Tables, agendas and files always have their types, so that no request is
\* ever left with an operation that makes no sense.
THEOREM WorkspaceTypeCorrect == Spec => []TypeOK
<1>1. Spec => []FS!TypeOK
  <2>1. FSP!Spec => []FSP!TypeOK
    BY FSP!TypeCorrect, FilesAssumption DEF IsFiniteSet, FSP!IsFiniteSet
  <2>2. FS!Spec => FSP!Spec
    BY SameFileStore, PTL DEF FS!Spec, FSP!Spec
  <2>3. FSP!TypeOK => FS!TypeOK
    BY DEF FS!TypeOK, FSP!TypeOK, FS!Call, FSP!Call
  <2> QED BY <2>1, <2>2, <2>3, WorkspaceRefinesFileStore, PTL
<1>2. Init => TypeOK
  BY DEF Init, TypeOK, IdleJob, Job
<1>3. TypeOK /\ FS!TypeOK /\ [Next]_vars => TypeOK'
  BY TypeStep DEF TInv
<1> QED BY <1>1, <1>2, <1>3, PTL DEF Spec

=============================================================================

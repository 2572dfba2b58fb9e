---------------------------- MODULE SeedProofs ----------------------------
(***************************************************************************)
(* What Seed guarantees for any sizes of the batches and any number of     *)
(* runs: wherever a run stops, its rows are linked or placeholders, and    *)
(* only one run ever gets past its admin.                                  *)
(***************************************************************************)
EXTENDS Seed, FiniteSetTheorems, Integers, TLAPS

USE CountAssumption

\* The phases up to an insert, and all that follow the admin.
ToTasks == {"projects", "listUsers", "linkProjects", "tasks"}
ToComments == ToTasks \cup {"listTasks", "linkTasks", "comments"}
ToFiles == ToComments \cup {"listComments", "linkComments"}
Main == ToFiles \cup {"upload", "record", "listFiles", "linkFiles"}

Serials == {"User", "Project", "Task", "Comment", "File"}

Stamped == [at : Nat]
TaskRow == [at : Nat, project : Nat, assignee : Nat, creator : Nat]
CommentRow == [at : Nat, on : {"Task", "Project"} \X Nat, by : Nat]
FileRow == [at : Nat, on : {"Task", "Project", "Comment"} \X Nat, by : Nat, image : BOOLEAN]

\* The rows of a table are numbered by its sequence, and none is of the future.
Rows(f, R, last, now) ==
  f \in [DOMAIN f -> R] /\ DOMAIN f \subseteq 1..(last - 1) /\ \A i \in DOMAIN f : f[i].at <= now

\* The references between the tables.
TasksRefer ==
  \A t \in DOMAIN task : /\ task[t].project \in DOMAIN project
                         /\ {task[t].assignee, task[t].creator} \subseteq DOMAIN user
CommentsRefer ==
  \A c \in DOMAIN comment :
    /\ comment[c].by \in DOMAIN user
    /\ comment[c].on \in Owners(1..(serial["Task"] - 1), 1..(serial["Project"] - 1))
FilesRefer == \A f \in DOMAIN file : file[f].by \in DOMAIN user

TablesOK ==
  /\ serial \in [Serials -> Nat \ {0}] /\ runs \in 0..Runs
  /\ Rows(user, Stamped, serial["User"], Now + 1)
  /\ Rows(project, Stamped, serial["Project"], Now + 1)
  /\ Rows(task, TaskRow, serial["Task"], Now + 1)
  /\ Rows(comment, CommentRow, serial["Comment"], Now + 1)
  /\ Rows(file, FileRow, serial["File"], Now + 1)
  /\ TasksRefer /\ CommentsRefer /\ FilesRefer
  /\ member \subseteq (DOMAIN user) \X (DOMAIN project)
  /\ admin \in BOOLEAN /\ objects \in Nat

\* A run in progress is neither finished nor dead.
RunsOK ==
  /\ finished \subseteq 1..runs /\ died \subseteq (1..runs) \ finished
  /\ run \in [pc : {"idle", "users", "admin"} \cup Main, listed : SUBSET Nat, left : 0..FileCount]
  /\ run = NoRun \/ (run.pc # "idle" /\ runs \in (1..runs) \ (finished \cup died))

Stamps(f, m) == \A i \in DOMAIN f : f[i].at \in {0, m}

\* But for the rows older than the seed, everything was made at m.
MadeAt(m) == Stamps(project, m) /\ Stamps(task, m) /\ Stamps(comment, m) /\ Stamps(file, m)

\* Nothing is made before there is an admin, and then by one run.
MadeOnce ==
  /\ ~admin => MadeAt(0) /\ DOMAIN comment = {} /\ DOMAIN file = {}
  /\ \E m \in Nat : MadeAt(m)

\* Past the admin everything is of this run.
Alone == run.pc \in Main => MadeAt(Now) /\ admin

\* What this run has inserted.
Fresh(f) == {i \in DOMAIN f : f[i].at >= Now}

\* The batches that the phases before this one inserted, and no others.
Batches ==
  /\ run.pc \in Main \cup {"admin"} => Cardinality(Fresh(user)) >= UserCount
  /\ run.pc \in Main \ {"projects"} => Cardinality(Fresh(project)) >= ProjectCount
  /\ run.pc \in ToTasks => Stamps(task, 0)
  /\ run.pc \in Main \ ToTasks =>
       Cardinality(Fresh(task)) = TaskCount /\ Placeholders /\ serial["Task"] >= 2
  /\ run.pc \in ToComments => DOMAIN comment = {}
  /\ run.pc \in Main \ ToComments => Cardinality(Fresh(comment)) = CommentCount
  /\ run.pc \in ToFiles => DOMAIN file = {}
  /\ run.pc \in {"users", "admin"} \cup ToFiles => run.left \in {0, FileCount}
  /\ run.pc \in {"upload", "record"} =>
       run.left >= 1 /\ Cardinality(Fresh(file)) = FileCount - run.left
  /\ run.pc \in {"listFiles", "linkFiles"} => Cardinality(Fresh(file)) = FileCount

\* A loop has before it rows of this run only.
Listed ==
  /\ run.pc = "linkProjects" => run.listed \subseteq Fresh(user)
  /\ run.pc = "linkTasks" => run.listed \subseteq Fresh(task)
  /\ run.pc = "linkComments" => run.listed \subseteq Fresh(comment)
  /\ run.pc = "linkFiles" => run.listed \subseteq Fresh(file)

\* It has linked the others, and what an earlier loop linked stays so.
Linked ==
  /\ run.pc \in Main \ (ToTasks \cup {"listTasks"}) =>
       \A t \in Fresh(task) : (run.pc = "linkTasks" /\ t \in run.listed) \/ TaskLinked(t)
  /\ run.pc \in Main \ (ToComments \cup {"listComments"}) =>
       \A c \in Fresh(comment) : (run.pc = "linkComments" /\ c \in run.listed) \/ CommentLinked(c)
  /\ run.pc = "linkFiles" => \A f \in Fresh(file) : f \in run.listed \/ FileLinked(f)

\* What holds between runs, and what holds in the phases of one.
Solid == TablesOK /\ MadeOnce /\ LinkedOrPlaceholder
Stage == Alone /\ Batches /\ Listed /\ Linked

IInv == Solid /\ RunsOK /\ Stage /\ FinishedIsLinked

-----------------------------------------------------------------------------
\* The strengthened invariant has the module's type invariant in it.
LEMMA Typed == TablesOK /\ RunsOK => TypeOK
<1> SUFFICES ASSUME TablesOK, RunsOK PROVE TypeOK
  OBVIOUS
<1>1. {b.table : b \in {Batch[pc] : pc \in DOMAIN Batch}} = Serials
  BY DEF Batch, Serials
<1>2. run.pc \in {"idle"} \cup DOMAIN Follow /\ run.listed \subseteq Nat /\ run.left \in 0..FileCount
  BY DEF RunsOK, Follow, Main, ToFiles, ToComments, ToTasks
<1>3. Now + 1 = 2 * runs + 1 /\ runs \in Nat
  BY DEF Now, TablesOK
<1>4. /\ \A i \in DOMAIN user : user[i].at \in 0..(2 * runs + 1)
      /\ \A i \in DOMAIN project : project[i].at \in 0..(2 * runs + 1)
      /\ \A i \in DOMAIN task : task[i].at \in 0..(2 * runs + 1)
  BY <1>3 DEF TablesOK, Rows, Stamped, TaskRow
<1>5. /\ \A i \in DOMAIN comment : comment[i].at \in 0..(2 * runs + 1)
      /\ \A i \in DOMAIN file : file[i].at \in 0..(2 * runs + 1)
  BY <1>3 DEF TablesOK, Rows, CommentRow, FileRow
<1>6. \A f \in DOMAIN file : file[f].image \in BOOLEAN
  BY DEF TablesOK, Rows, FileRow
<1> QED
  BY <1>1, <1>2, <1>4, <1>5, <1>6
  DEF TablesOK, Rows, TypeOK, RunsOK, TasksRefer, CommentsRefer, FilesRefer

\* What an insert of k rows into f does.
Adds(f, g, row, first, k) ==
  /\ DOMAIN g = DOMAIN f \cup first..(first + k - 1)
  /\ \A i \in DOMAIN f : g[i] = f[i]
  /\ \A i \in first..(first + k - 1) : g[i] = row

\* The ids of an insert are new, and the sequence is past them.
LEMMA Inserted ==
  ASSUME NEW T \in Serials, NEW k \in Nat \ {0}, serial \in [Serials -> Nat \ {0}],
         Batch[run.pc] = [table |-> T, size |-> k], Draw,
         NEW f, NEW row, NEW R, NEW now, Rows(f, R, serial[T], now), row \in R, row.at <= now
  PROVE  /\ Adds(f, With(f, row), row, serial[T], k)
         /\ Rows(With(f, row), R, serial'[T], now)
         /\ serial' \in [Serials -> Nat \ {0}] /\ serial'[T] = serial[T] + k
         /\ \A t \in Serials : serial'[t] >= serial[t]
<1> DEFINE ids == serial[T]..(serial[T] + k - 1)
           g == With(f, row)
<1>1. Batch[run.pc].table = T /\ Batch[run.pc].size = k
  OBVIOUS
<1>2. serial' = [serial EXCEPT ![T] = @ + k]
  BY <1>1 DEF Draw
<1>3. /\ serial' \in [Serials -> Nat \ {0}] /\ serial'[T] = serial[T] + k
      /\ \A t \in Serials : serial'[t] >= serial[t]
  BY <1>2
<1>4. g = [i \in DOMAIN f \cup ids |-> IF i \in ids THEN row ELSE f[i]]
  BY <1>1 DEF With
<1>5. DOMAIN f \cap ids = {} /\ ids \subseteq 1..(serial'[T] - 1)
  BY <1>3 DEF Rows
<1>6. DOMAIN g = DOMAIN f \cup ids /\ \A i \in DOMAIN f : g[i] = f[i]
  BY <1>4, <1>5
<1>7. \A i \in ids : g[i] = row
  BY <1>4
<1>8. Adds(f, g, row, serial[T], k)
  BY <1>6, <1>7 DEF Adds
<1>9. DOMAIN f \subseteq 1..(serial'[T] - 1)
  BY <1>3 DEF Rows
<1>10. g \in [DOMAIN g -> R]
  BY <1>4, <1>5, <1>6 DEF Rows
<1>11. \A i \in DOMAIN g : g[i].at <= now
  BY <1>6, <1>7 DEF Rows
<1>12. Rows(g, R, serial'[T], now)
  BY <1>5, <1>6, <1>9, <1>10, <1>11 DEF Rows
<1> QED BY <1>3, <1>8, <1>12

\* A table whose sequence only advanced.
LEMMA RowsStay ==
  ASSUME NEW f, NEW R, NEW last \in Nat, NEW next \in Nat, NEW now, Rows(f, R, last, now), next >= last
  PROVE  Rows(f, R, next, now)
BY DEF Rows

\* A table some of whose rows were updated, but not their ages.
LEMMA RowsUpdated ==
  ASSUME NEW f, NEW R, NEW last, NEW now, Rows(f, R, last, now),
         NEW x \in DOMAIN f, NEW row \in R, row.at = f[x].at,
         NEW g, g = [f EXCEPT ![x] = row]
  PROVE  Rows(g, R, last, now) /\ DOMAIN g = DOMAIN f /\ \A i \in DOMAIN f : g[i].at = f[i].at
BY DEF Rows

\* As many rows of an interval as it is long.
LEMMA IdsCount ==
  ASSUME NEW first \in Nat, NEW k \in Nat \ {0}
  PROVE  IsFiniteSet(first..(first + k - 1)) /\ Cardinality(first..(first + k - 1)) = k
<1> DEFINE last == first + k - 1
<1>1. first \in Int /\ last \in Int /\ first <= last
  OBVIOUS
<1>2. IsFiniteSet(first..last) /\ Cardinality(first..last) = IF first > last THEN 0 ELSE last - first + 1
  <2> HIDE DEF last
  <2> QED BY ONLY <1>1, FS_Interval
<1>3. ~(first > last) /\ last - first + 1 = k
  OBVIOUS
<1> QED BY <1>2, <1>3

\* The ids of a table are finitely many.
LEMMA RowsFinite ==
  ASSUME NEW f, NEW R, NEW last \in Nat, NEW now, Rows(f, R, last, now)
  PROVE  IsFiniteSet(DOMAIN f)
<1>1. 1 \in Int /\ last - 1 \in Int
  OBVIOUS
<1>2. IsFiniteSet(1..(last - 1))
  BY ONLY <1>1, FS_Interval
<1>3. DOMAIN f \subseteq 1..(last - 1)
  BY DEF Rows
<1> QED BY <1>2, <1>3, FS_Subset

\* If k rows or more are as young as n, getLatestIds lists such rows only, and
\* all of them if they are k.
LEMMA LatestAreYoung ==
  ASSUME NEW f, IsFiniteSet(DOMAIN f), NEW n \in Nat, \A i \in DOMAIN f : f[i].at \in Nat,
         NEW k \in Nat, NEW Y, Y = {i \in DOMAIN f : f[i].at >= n}, Cardinality(Y) >= k,
         NEW L \in Latest(f, k)
  PROVE  L \subseteq Y /\ (Cardinality(Y) = k => L = Y)
<1>1. IsFiniteSet(Y) /\ IsFiniteSet(L) /\ Cardinality(L) = k /\ L \subseteq DOMAIN f
  BY FS_Subset DEF Latest
<1>2. Cardinality(Y) \in Nat
  BY <1>1, FS_CardinalityType
<1>3. ASSUME NEW i \in L, i \notin Y PROVE FALSE
  <2>1. f[i].at < n /\ f[i].at \in Nat
    BY <1>1, <1>3
  <2>2. Y \subseteq L
    <3> SUFFICES ASSUME NEW j \in Y, j \notin L PROVE FALSE
      OBVIOUS
    <3>1. f[j].at <= f[i].at
      BY <1>3 DEF Latest
    <3> QED BY <2>1, <3>1
  <2>3. Cardinality(Y) <= Cardinality(L) /\ (Cardinality(L) = Cardinality(Y) => L = Y)
    BY <1>1, <2>2, FS_Subset
  <2>4. Cardinality(L) = Cardinality(Y)
    BY <1>1, <1>2, <2>3
  <2> QED BY <1>3, <2>3, <2>4
<1>4. L \subseteq Y
  BY <1>3
<1>5. Cardinality(L) = Cardinality(Y) => Y = L
  BY <1>1, <1>4, FS_Subset
<1> QED BY <1>1, <1>4, <1>5

Young(f, n) == {i \in DOMAIN f : f[i].at >= n}

\* An insert adds its k rows to the young ones.
LEMMA YoungAdded ==
  ASSUME NEW f, NEW R, NEW last \in Nat \ {0}, NEW now, Rows(f, R, last, now), NEW g, NEW row,
         NEW k \in Nat \ {0}, Adds(f, g, row, last, k), NEW n, row.at >= n
  PROVE  Cardinality(Young(g, n)) = Cardinality(Young(f, n)) + k /\ Cardinality(Young(f, n)) \in Nat
<1> DEFINE ids == last..(last + k - 1)
<1>1. IsFiniteSet(DOMAIN f) /\ IsFiniteSet(ids) /\ Cardinality(ids) = k
  BY RowsFinite, IdsCount
<1>2. Young(f, n) \subseteq DOMAIN f /\ DOMAIN f \cap ids = {}
  BY DEF Young, Rows
<1>3. IsFiniteSet(Young(f, n)) /\ Cardinality(Young(f, n)) \in Nat
  BY <1>1, <1>2, FS_Subset, FS_CardinalityType
<1>4. Young(g, n) = Young(f, n) \cup ids
  BY DEF Young, Adds
<1>5. Young(f, n) \cap ids = {} /\ Cardinality({}) = 0
  BY <1>2, FS_EmptySet
<1> HIDE DEF ids
<1>6. Cardinality(Young(f, n) \cup ids) = Cardinality(Young(f, n)) + Cardinality(ids) - 0
  BY <1>1, <1>3, <1>5, FS_Union
<1> QED BY <1>1, <1>3, <1>4, <1>6

\* Of a table without young rows there are no young ones to count.
LEMMA NoneYoung ==
  ASSUME NEW f, NEW n, \A i \in DOMAIN f : ~(f[i].at >= n)
  PROVE  Cardinality(Young(f, n)) = 0
<1>1. Young(f, n) = {}
  BY DEF Young
<1> QED BY <1>1, FS_EmptySet

-----------------------------------------------------------------------------
RunLinked(n) ==
  /\ \A t \in DOMAIN task : task[t].at = 2 * n => TaskLinked(t)
  /\ \A c \in DOMAIN comment : comment[c].at = 2 * n => CommentLinked(c)
  /\ \A f \in DOMAIN file : file[f].at = 2 * n => FileLinked(f)

\* Nobody leaves the people of a project, so links survive where neither the
\* row nor what it is on moves.
LEMMA LinksKeep ==
  ASSUME DOMAIN user \subseteq DOMAIN user', member \subseteq member'
  PROVE  /\ \A t : task'[t] = task[t] /\ TaskLinked(t) => TaskLinked(t)'
         /\ task' = task => \A c : comment'[c] = comment[c] /\ CommentLinked(c) => CommentLinked(c)'
         /\ task' = task /\ comment' = comment =>
              \A f : file'[f] = file[f] /\ FileLinked(f) => FileLinked(f)'
<1>1. ASSUME NEW t, task'[t] = task[t], TaskLinked(t) PROVE TaskLinked(t)'
  BY <1>1 DEF TaskLinked, Draftees
<1>2. ASSUME NEW c, task' = task, comment'[c] = comment[c], CommentLinked(c) PROVE CommentLinked(c)'
  BY <1>2 DEF CommentLinked, Draftees, ProjectOf
<1>3. ASSUME NEW f, task' = task, comment' = comment, file'[f] = file[f], FileLinked(f)
      PROVE  FileLinked(f)'
  BY <1>3 DEF FileLinked, Draftees, HolderProject, ProjectOf
<1> QED BY <1>1, <1>2, <1>3

\* A step that leaves tasks, comments and files alone.
LEMMA LinksSurvive ==
  ASSUME LinkedOrPlaceholder, UNCHANGED <<task, comment, file>>,
         DOMAIN user \subseteq DOMAIN user', member \subseteq member'
  PROVE  LinkedOrPlaceholder' /\ \A n : RunLinked(n) => RunLinked(n)'
<1>1. /\ \A t : TaskLinked(t) => TaskLinked(t)'
      /\ \A c : CommentLinked(c) => CommentLinked(c)'
      /\ \A f : FileLinked(f) => FileLinked(f)'
  BY LinksKeep
<1>2. LinkedOrPlaceholder'
  BY <1>1 DEF LinkedOrPlaceholder
<1>3. ASSUME NEW n, RunLinked(n) PROVE RunLinked(n)'
  BY <1>1, <1>3 DEF RunLinked
<1> QED BY <1>2, <1>3

\* One table has a row more of this time, or none of the tables has.
LEMMA MadeKeeps ==
  ASSUME UNCHANGED <<project, task, comment, file>>, admin => admin', MadeOnce
  PROVE  MadeOnce' /\ \A m : MadeAt(m) => MadeAt(m)'
BY DEF MadeOnce, MadeAt, Stamps

\* The run goes on with the phase that follows.
LEMMA Proceeds ==
  ASSUME RunsOK, Proceed, Follow[run.pc] # "end"
  PROVE  /\ run'.pc = Follow[run.pc] /\ run'.listed = {} /\ run'.left = run.left
         /\ UNCHANGED finished
<1> DEFINE next == [run EXCEPT !.pc = Follow[run.pc], !.listed = {}]
<1>1. next.pc = Follow[run.pc] /\ next.listed = {} /\ next.left = run.left
  BY DEF RunsOK
<1>2. next.pc # "end"
  BY <1>1
<1> HIDE DEF next
<1>3. Goes(next)
  BY DEF Proceed, next
<1> QED BY <1>1, <1>2, <1>3 DEF Goes

-----------------------------------------------------------------------------
(* The phases up to the projects: only users, projects and members change. *)

\* A step that leaves tasks, comments and files alone keeps the tables in
\* order if users and projects only get more.
LEMMA TablesKeep ==
  ASSUME TablesOK, UNCHANGED <<runs, task, comment, file>>,
         serial' \in [Serials -> Nat \ {0}], \A t \in Serials : serial'[t] >= serial[t],
         Rows(user', Stamped, serial'["User"], Now + 1),
         Rows(project', Stamped, serial'["Project"], Now + 1),
         DOMAIN user \subseteq DOMAIN user', DOMAIN project \subseteq DOMAIN project',
         member' \subseteq (DOMAIN user') \X (DOMAIN project'), admin' \in BOOLEAN, objects' \in Nat
  PROVE  TablesOK'
<1>1. Now' = Now
  BY DEF Now
<1>2. \A t \in Serials : serial[t] \in Nat /\ serial'[t] \in Nat /\ serial'[t] >= serial[t]
  BY DEF TablesOK
<1>3. /\ Rows(task', TaskRow, serial'["Task"], Now' + 1)
      /\ Rows(comment', CommentRow, serial'["Comment"], Now' + 1)
      /\ Rows(file', FileRow, serial'["File"], Now' + 1)
  BY <1>1, <1>2, RowsStay DEF TablesOK, Serials
<1>4. TasksRefer' /\ FilesRefer'
  BY DEF TablesOK, TasksRefer, FilesRefer
<1>5. CommentsRefer'
  BY <1>2 DEF TablesOK, CommentsRefer, Owners, Serials
<1> QED BY <1>1, <1>3, <1>4, <1>5 DEF TablesOK

\* A step that leaves the tables alone but may draw ids.
LEMMA TablesAlone ==
  ASSUME Solid, UNCHANGED <<runs, tables>>, objects' \in Nat,
         serial' \in [Serials -> Nat \ {0}], \A t \in Serials : serial'[t] >= serial[t]
  PROVE  Solid' /\ \A n : RunLinked(n) => RunLinked(n)'
<1> USE DEF Solid, tables, links
<1>1. \A t \in Serials : serial[t] \in Nat /\ serial'[t] \in Nat
  BY DEF TablesOK
<1>2. /\ Rows(user', Stamped, serial'["User"], Now + 1)
      /\ Rows(project', Stamped, serial'["Project"], Now + 1)
  BY <1>1, RowsStay DEF TablesOK, Serials
<1>3. TablesOK'
  BY <1>2, TablesKeep DEF TablesOK
<1>4. MadeOnce'
  BY MadeKeeps
<1> QED BY <1>3, <1>4, LinksSurvive

\* SeedUsers
LEMMA UsersStep ==
  ASSUME IInv, NEW answered \in BOOLEAN, SeedUsers(answered), runs' = runs
  PROVE  Solid' /\ (\A n : RunLinked(n) => RunLinked(n)') /\ (answered => Stage')
<1> USE DEF SeedUsers, IInv, Solid, links
<1>1. Batch[run.pc] = [table |-> "User", size |-> UserCount] /\ UserCount \in Nat \ {0}
  BY DEF Batch
<1>2. [at |-> Now] \in Stamped /\ Now \in Nat /\ Now' = Now /\ Now <= Now + 1
  BY DEF Stamped, Now, TablesOK
<1>3. /\ Adds(user, user', [at |-> Now], serial["User"], UserCount)
      /\ Rows(user', Stamped, serial'["User"], Now + 1)
      /\ serial' \in [Serials -> Nat \ {0}] /\ \A t \in Serials : serial'[t] >= serial[t]
  BY <1>1, <1>2, Inserted DEF TablesOK, Serials
<1>4. Rows(project', Stamped, serial'["Project"], Now + 1)
  BY <1>3, RowsStay DEF TablesOK, Serials
<1>5. DOMAIN user \subseteq DOMAIN user'
  BY <1>3 DEF Adds
<1>6. TablesOK'
  BY <1>3, <1>4, <1>5, TablesKeep DEF TablesOK
<1>7. Solid' /\ \A n : RunLinked(n) => RunLinked(n)'
  BY <1>5, <1>6, MadeKeeps, LinksSurvive
<1>8. ASSUME answered PROVE Stage'
  <2>1. run'.pc = "admin" /\ run'.left = run.left
    BY <1>8, Proceeds DEF Wrote, Follow
  <2>2. /\ Cardinality(Young(user', Now)) = Cardinality(Young(user, Now)) + UserCount
        /\ Cardinality(Young(user, Now)) \in Nat
    BY <1>1, <1>2, <1>3, YoungAdded DEF TablesOK, Serials
  <2>3. Cardinality(Fresh(user)') >= UserCount
    BY <1>1, <1>2, <2>2 DEF Fresh, Young
  <2>4. Batches'
    BY <2>1, <2>3 DEF Stage, Batches, Main, ToFiles, ToComments, ToTasks
  <2> QED BY <2>1, <2>4 DEF Stage, Alone, Listed, Linked, Main, ToFiles, ToComments, ToTasks
<1> QED BY <1>7, <1>8

\* CreateAdmin
LEMMA AdminStep ==
  ASSUME IInv, NEW answered \in BOOLEAN, CreateAdmin(answered), runs' = runs
  PROVE  Solid' /\ (\A n : RunLinked(n) => RunLinked(n)') /\ (answered => Stage')
<1> USE DEF CreateAdmin, IInv, Solid, links
<1>1. Batch[run.pc] = [table |-> "User", size |-> 1] /\ 1 \in Nat \ {0}
  BY DEF Batch
<1>2. [at |-> Now + 1] \in Stamped /\ Now \in Nat /\ Now' = Now /\ Now + 1 >= Now /\ Now + 1 <= Now + 1
  BY DEF Stamped, Now, TablesOK
<1>3. /\ Adds(user, user', [at |-> Now + 1], serial["User"], 1)
      /\ Rows(user', Stamped, serial'["User"], Now + 1)
      /\ serial' \in [Serials -> Nat \ {0}] /\ \A t \in Serials : serial'[t] >= serial[t]
  BY <1>1, <1>2, Inserted DEF TablesOK, Serials
<1>4. Rows(project', Stamped, serial'["Project"], Now + 1)
  BY <1>3, RowsStay DEF TablesOK, Serials
<1>5. DOMAIN user \subseteq DOMAIN user'
  BY <1>3 DEF Adds
<1>6. TablesOK'
  BY <1>3, <1>4, <1>5, TablesKeep DEF TablesOK
<1>7. Solid' /\ \A n : RunLinked(n) => RunLinked(n)'
  BY <1>5, <1>6, MadeKeeps, LinksSurvive
<1>8. ASSUME answered PROVE Stage'
  <2>1. run'.pc = "projects" /\ run'.left = run.left
    BY <1>8, Proceeds DEF Wrote, Follow
  <2>2. /\ Cardinality(Young(user', Now)) = Cardinality(Young(user, Now)) + 1
        /\ Cardinality(Young(user, Now)) \in Nat
    BY <1>1, <1>2, <1>3, YoungAdded DEF TablesOK, Serials
  <2>3. Cardinality(Young(user, Now)) >= UserCount /\ run.left \in {0, FileCount}
    BY DEF Stage, Batches, Fresh, Young
  <2>4. Cardinality(Fresh(user)') >= UserCount
    BY <1>2, <2>2, <2>3 DEF Fresh, Young
  <2>5. Stamps(task, 0)' /\ (DOMAIN comment = {})' /\ (DOMAIN file = {})'
    BY DEF MadeOnce, MadeAt, Stamps
  <2>6. Batches'
    BY <2>1, <2>3, <2>4, <2>5 DEF Batches, ToFiles, ToComments, ToTasks
  <2>7. MadeAt(Now)' /\ admin'
    BY <1>2 DEF MadeOnce, MadeAt, Stamps
  <2> QED
    BY <2>1, <2>6, <2>7 DEF Stage, Alone, Listed, Linked, ToFiles, ToComments, ToTasks
<1> QED BY <1>7, <1>8

\* SeedProjects
LEMMA ProjectsStep ==
  ASSUME IInv, NEW answered \in BOOLEAN, SeedProjects(answered), runs' = runs
  PROVE  Solid' /\ (\A n : RunLinked(n) => RunLinked(n)') /\ (answered => Stage')
<1> USE DEF SeedProjects, IInv, Solid, links
<1>1. Batch[run.pc] = [table |-> "Project", size |-> ProjectCount] /\ ProjectCount \in Nat \ {0}
  BY DEF Batch
<1>2. [at |-> Now] \in Stamped /\ Now \in Nat /\ Now' = Now /\ Now <= Now + 1
  BY DEF Stamped, Now, TablesOK
<1>3. /\ Adds(project, project', [at |-> Now], serial["Project"], ProjectCount)
      /\ Rows(project', Stamped, serial'["Project"], Now + 1)
      /\ serial' \in [Serials -> Nat \ {0}] /\ \A t \in Serials : serial'[t] >= serial[t]
  BY <1>1, <1>2, Inserted DEF TablesOK, Serials
<1>4. Rows(user', Stamped, serial'["User"], Now + 1)
  BY <1>3, RowsStay DEF TablesOK, Serials
<1>5. DOMAIN project \subseteq DOMAIN project'
  BY <1>3 DEF Adds
<1>6. TablesOK'
  BY <1>3, <1>4, <1>5, TablesKeep DEF TablesOK
<1>7. MadeAt(Now) /\ admin
  BY DEF Stage, Alone, Main, ToFiles, ToComments, ToTasks
<1>8. MadeAt(Now)'
  BY <1>2, <1>3, <1>7 DEF MadeAt, Stamps, Adds
<1>9. Solid' /\ \A n : RunLinked(n) => RunLinked(n)'
  BY <1>2, <1>6, <1>7, <1>8, LinksSurvive DEF MadeOnce
<1>10. ASSUME answered PROVE Stage'
  <2>1. run'.pc = "listUsers" /\ run'.left = run.left
    BY <1>10, Proceeds DEF Wrote, Follow
  <2>2. /\ Cardinality(Young(project', Now)) = Cardinality(Young(project, Now)) + ProjectCount
        /\ Cardinality(Young(project, Now)) \in Nat
    BY <1>1, <1>2, <1>3, YoungAdded DEF TablesOK, Serials
  <2>3. Cardinality(Fresh(project)') >= ProjectCount /\ Cardinality(Fresh(user)') = Cardinality(Fresh(user))
    BY <1>1, <1>2, <2>2 DEF Fresh, Young
  <2>4. Cardinality(Fresh(user)') >= UserCount /\ run.left \in {0, FileCount}
    BY <2>3 DEF Stage, Batches, Main, ToFiles, ToComments, ToTasks
  <2>5. Stamps(task, 0)' /\ (DOMAIN comment = {})' /\ (DOMAIN file = {})'
    BY DEF Stage, Batches, Stamps, ToFiles, ToComments, ToTasks
  <2>6. Batches'
    BY <2>1, <2>3, <2>4, <2>5 DEF Batches, ToFiles, ToComments, ToTasks
  <2> QED
    BY <1>7, <1>8, <2>1, <2>6 DEF Stage, Alone, Listed, Linked, ToFiles, ToComments, ToTasks
<1> QED BY <1>9, <1>10

\* What a turn of a loop does to the run, short of its end.
LEMMA Turns ==
  ASSUME RunsOK, run.pc # "idle", NEW x \in run.listed,
         NEW answered \in BOOLEAN, answered, Turn(x, answered)
  PROVE  \/ /\ run'.pc = run.pc /\ run'.listed = run.listed \ {x} /\ run'.left = run.left
            /\ UNCHANGED finished
         \/ run.listed = {x} /\ Proceed
<1>1. CASE run.listed = {x}
  BY <1>1 DEF Turn, Wrote
<1>2. CASE run.listed # {x}
  <2> DEFINE next == [run EXCEPT !.listed = @ \ {x}]
  <2>1. next.pc = run.pc /\ next.listed = run.listed \ {x} /\ next.left = run.left
    BY DEF RunsOK
  <2>2. next.pc # "end"
    BY <2>1 DEF RunsOK, Main, ToFiles, ToComments, ToTasks
  <2> HIDE DEF next
  <2>3. Goes(next)
    BY <1>2 DEF Turn, next
  <2> QED BY <2>1, <2>2, <2>3 DEF Goes
<1> QED BY <1>1, <1>2

\* LinkProject
LEMMA LinkProjectStep ==
  ASSUME IInv, NEW answered \in BOOLEAN, LinkProject(answered), runs' = runs
  PROVE  Solid' /\ (\A n : RunLinked(n) => RunLinked(n)') /\ (answered => Stage')
<1> USE DEF LinkProject, IInv, Solid
<1> PICK u \in run.listed, p \in LatestProjects :
           member' = member \cup {<<u, p>>} /\ Turn(u, answered)
  OBVIOUS
<1>1. u \in DOMAIN user /\ p \in DOMAIN project
  BY DEF Stage, Listed, Fresh, LatestProjects, Latest
<1>2. TablesOK'
  <2>1. \A t \in Serials : serial'[t] >= serial[t]
    BY DEF TablesOK
  <2> QED BY <1>1, <2>1, TablesKeep DEF TablesOK
<1>3. Solid' /\ \A n : RunLinked(n) => RunLinked(n)'
  BY <1>2, MadeKeeps, LinksSurvive
<1>4. ASSUME answered PROVE Stage'
  <2>1. \/ run'.pc = "linkProjects" /\ run'.listed \subseteq run.listed /\ run'.left = run.left
        \/ run'.pc = "tasks" /\ run'.left = run.left
    <3>1. Follow[run.pc] = "tasks" /\ run.pc # "idle"
      BY DEF Follow
    <3>2. \/ run'.pc = run.pc /\ run'.listed = run.listed \ {u} /\ run'.left = run.left
          \/ Proceed
      BY <1>4, <3>1, Turns
    <3> QED BY <3>1, <3>2, Proceeds
  <2>2. Now' = Now /\ Fresh(user)' = Fresh(user) /\ Fresh(project)' = Fresh(project)
    BY DEF Now, Fresh
  <2>3. Alone'
    BY <2>1, <2>2 DEF Stage, Alone, MadeAt, Main, ToFiles, ToComments, ToTasks
  <2>4. Batches'
    BY <2>1, <2>2 DEF Stage, Batches, Stamps, Main, ToFiles, ToComments, ToTasks
  <2>5. Listed'
    BY <2>1, <2>2 DEF Stage, Listed
  <2>6. Linked'
    BY <2>1 DEF Linked, ToComments, ToTasks
  <2> QED BY <2>3, <2>4, <2>5, <2>6 DEF Stage
<1> QED BY <1>3, <1>4

-----------------------------------------------------------------------------
\* getLatestIds lists rows of this run only, and all of them if they are k.
ListsFresh(f, k) ==
  \A L \in Latest(f, k) :
    /\ Cardinality(Fresh(f)) >= k => L \subseteq Fresh(f)
    /\ Cardinality(Fresh(f)) = k => L = Fresh(f)

\* It does so of every table whose rows have an age.
LEMMA LatestOfRows ==
  ASSUME TablesOK, NEW f, NEW R, NEW last \in Nat, NEW now, Rows(f, R, last, now),
         \A row \in R : row.at \in Nat, NEW k \in Nat
  PROVE  ListsFresh(f, k)
<1>1. Now \in Nat
  BY DEF Now, TablesOK
<1>2. IsFiniteSet(DOMAIN f) /\ \A i \in DOMAIN f : f[i].at \in Nat
  BY RowsFinite DEF Rows
<1>3. Fresh(f) = {i \in DOMAIN f : f[i].at >= Now}
  BY DEF Fresh
<1>4. ASSUME NEW L \in Latest(f, k), Cardinality(Fresh(f)) >= k
      PROVE  L \subseteq Fresh(f) /\ (Cardinality(Fresh(f)) = k => L = Fresh(f))
  BY <1>1, <1>2, <1>3, <1>4, LatestAreYoung
<1>5. Cardinality(Fresh(f)) = k => Cardinality(Fresh(f)) >= k
  OBVIOUS
<1> QED BY <1>4, <1>5 DEF ListsFresh

\* Of each of the tables the script lists.
LEMMA LatestAreFresh ==
  ASSUME TablesOK
  PROVE  /\ ListsFresh(user, UserCount) /\ ListsFresh(project, ProjectCount)
         /\ ListsFresh(task, TaskCount) /\ ListsFresh(comment, CommentCount)
         /\ ListsFresh(file, FileCount)
<1>1. /\ \A row \in Stamped : row.at \in Nat
      /\ \A row \in TaskRow : row.at \in Nat
      /\ \A row \in CommentRow : row.at \in Nat
      /\ \A row \in FileRow : row.at \in Nat
  BY DEF Stamped, TaskRow, CommentRow, FileRow
<1>2. /\ serial["User"] \in Nat /\ serial["Project"] \in Nat /\ serial["Task"] \in Nat
      /\ serial["Comment"] \in Nat /\ serial["File"] \in Nat
  BY DEF TablesOK, Serials
<1>3. ListsFresh(user, UserCount) /\ ListsFresh(project, ProjectCount)
  BY <1>1, <1>2, LatestOfRows DEF TablesOK
<1>4. ListsFresh(task, TaskCount) /\ ListsFresh(comment, CommentCount)
  BY <1>1, <1>2, LatestOfRows DEF TablesOK
<1>5. ListsFresh(file, FileCount)
  BY <1>1, <1>2, LatestOfRows DEF TablesOK
<1> QED BY <1>3, <1>4, <1>5

\* The projects that the loops draw from are this run's.
LEMMA ProjectsAreFresh ==
  ASSUME TablesOK, Cardinality(Fresh(project)) >= ProjectCount
  PROVE  LatestProjects \subseteq Fresh(project)
BY LatestAreFresh DEF LatestProjects, ListsFresh

\* What List does to the run.
LEMMA Lists ==
  ASSUME RunsOK, List
  PROVE  /\ UNCHANGED finished /\ run'.pc = Follow[run.pc] /\ run'.left = run.left
         /\ \/ run.pc = "listUsers" /\ run'.listed \in Latest(user, UserCount)
            \/ run.pc = "listTasks" /\ run'.listed \in Latest(task, TaskCount)
            \/ run.pc = "listComments" /\ run'.listed \in Latest(comment, CommentCount)
            \/ run.pc = "listFiles" /\ run'.listed \in Latest(file, FileCount)
<1>1. PICK L : /\ Goes([run EXCEPT !.pc = Follow[run.pc], !.listed = L])
               /\ \/ run.pc = "listUsers" /\ L \in Latest(user, UserCount)
                  \/ run.pc = "listTasks" /\ L \in Latest(task, TaskCount)
                  \/ run.pc = "listComments" /\ L \in Latest(comment, CommentCount)
                  \/ run.pc = "listFiles" /\ L \in Latest(file, FileCount)
  BY DEF List
<1>2. run.pc \in {"listUsers", "listTasks", "listComments", "listFiles"}
  BY <1>1
<1>3. Follow[run.pc] # "end"
  BY <1>2 DEF Follow
<1> DEFINE next == [run EXCEPT !.pc = Follow[run.pc], !.listed = L]
<1>4. next.pc = Follow[run.pc] /\ next.listed = L /\ next.left = run.left
  BY DEF RunsOK
<1> HIDE DEF next
<1>5. Goes(next)
  BY <1>1 DEF next
<1>6. run' = next /\ UNCHANGED finished
  BY <1>3, <1>4, <1>5 DEF Goes
<1> QED BY <1>1, <1>4, <1>6

\* List
LEMMA ListStep ==
  ASSUME IInv, List, runs' = runs
  PROVE  Solid' /\ (\A n : RunLinked(n) => RunLinked(n)') /\ Stage'
<1> USE DEF IInv, Solid
<1>1. UNCHANGED <<serial, tables, objects>>
  BY DEF List
<1>2. Solid' /\ \A n : RunLinked(n) => RunLinked(n)'
  BY <1>1, TablesAlone DEF TablesOK
<1>3. /\ Fresh(user)' = Fresh(user) /\ Fresh(project)' = Fresh(project) /\ Fresh(task)' = Fresh(task)
      /\ Fresh(comment)' = Fresh(comment) /\ Fresh(file)' = Fresh(file) /\ Now' = Now
  BY <1>1 DEF Fresh, Now, tables, links
<1>4. /\ \A t : TaskLinked(t)' <=> TaskLinked(t)
      /\ \A c : CommentLinked(c)' <=> CommentLinked(c)
  BY <1>1 DEF TaskLinked, CommentLinked, Draftees, ProjectOf, tables, links
<1>5. Placeholders' <=> Placeholders
  BY <1>1 DEF Placeholders, tables
<1>6. run'.pc = Follow[run.pc] /\ run'.left = run.left
  BY Lists
<1>7. CASE run.pc = "listUsers"
  <2>1. run'.pc = "linkProjects" /\ run'.listed \in Latest(user, UserCount)
    BY <1>6, <1>7, Lists DEF Follow
  <2>2. Cardinality(Fresh(user)) >= UserCount
    BY <1>7 DEF Stage, Batches, Main, ToFiles, ToComments, ToTasks
  <2>3. run'.listed \subseteq Fresh(user)
    BY <2>1, <2>2, LatestAreFresh DEF ListsFresh
  <2>4. Alone'
    BY <1>1, <1>3, <1>7, <2>1 DEF Stage, Alone, MadeAt, Main, ToFiles, ToComments, ToTasks, tables, links
  <2>5. Batches'
    BY <1>1, <1>3, <1>6, <1>7, <2>1
    DEF Stage, Batches, Stamps, Main, ToFiles, ToComments, ToTasks, tables, links
  <2>6. Listed' /\ Linked'
    BY <1>3, <2>1, <2>3 DEF Listed, Linked, ToComments, ToTasks
  <2> QED BY <1>2, <2>4, <2>5, <2>6 DEF Stage
<1>8. CASE run.pc = "listTasks"
  <2>1. run'.pc = "linkTasks" /\ run'.listed \in Latest(task, TaskCount)
    BY <1>6, <1>8, Lists DEF Follow
  <2>2. Cardinality(Fresh(task)) = TaskCount
    BY <1>8 DEF Stage, Batches, Main, ToFiles, ToComments, ToTasks
  <2>3. run'.listed = Fresh(task)
    BY <2>1, <2>2, LatestAreFresh DEF ListsFresh
  <2>4. Alone'
    BY <1>1, <1>3, <1>8, <2>1 DEF Stage, Alone, MadeAt, Main, ToFiles, ToComments, ToTasks, tables, links
  <2>5. Batches'
    BY <1>1, <1>3, <1>5, <1>6, <1>8, <2>1
    DEF Stage, Batches, Main, ToFiles, ToComments, ToTasks, tables, links
  <2>6. Listed' /\ Linked'
    BY <1>3, <2>1, <2>3 DEF Listed, Linked, ToComments, ToTasks
  <2> QED BY <1>2, <2>4, <2>5, <2>6 DEF Stage
<1>9. CASE run.pc = "listComments"
  <2>1. run'.pc = "linkComments" /\ run'.listed \in Latest(comment, CommentCount)
    BY <1>6, <1>9, Lists DEF Follow
  <2>2. Cardinality(Fresh(comment)) = CommentCount
    BY <1>9 DEF Stage, Batches, Main, ToFiles, ToComments, ToTasks
  <2>3. run'.listed = Fresh(comment)
    BY <2>1, <2>2, LatestAreFresh DEF ListsFresh
  <2>4. Alone'
    BY <1>1, <1>3, <1>9, <2>1 DEF Stage, Alone, MadeAt, Main, ToFiles, ToComments, ToTasks, tables, links
  <2>5. Batches'
    BY <1>1, <1>3, <1>5, <1>6, <1>9, <2>1
    DEF Stage, Batches, Main, ToFiles, ToComments, ToTasks, tables, links
  <2>6. Listed' /\ Linked'
    BY <1>3, <1>4, <1>9, <2>1, <2>3 DEF Stage, Listed, Linked, Main, ToFiles, ToComments, ToTasks
  <2> QED BY <1>2, <2>4, <2>5, <2>6 DEF Stage
<1>10. CASE run.pc = "listFiles"
  <2>1. run'.pc = "linkFiles" /\ run'.listed \in Latest(file, FileCount)
    BY <1>6, <1>10, Lists DEF Follow
  <2>2. Cardinality(Fresh(file)) = FileCount
    BY <1>10 DEF Stage, Batches
  <2>3. run'.listed = Fresh(file)
    BY <2>1, <2>2, LatestAreFresh DEF ListsFresh
  <2>4. Alone'
    BY <1>1, <1>3, <1>10, <2>1 DEF Stage, Alone, MadeAt, Main, ToFiles, ToComments, ToTasks, tables, links
  <2>5. Batches'
    BY <1>1, <1>3, <1>5, <1>6, <1>10, <2>1
    DEF Stage, Batches, Main, ToFiles, ToComments, ToTasks, tables, links
  <2>6. Listed' /\ Linked'
    BY <1>3, <1>4, <1>10, <2>1, <2>3 DEF Stage, Listed, Linked, Main, ToFiles, ToComments, ToTasks
  <2> QED BY <1>2, <2>4, <2>5, <2>6 DEF Stage
<1> QED BY <1>7, <1>8, <1>9, <1>10, Lists

-----------------------------------------------------------------------------
(* Tasks *)

\* SeedTasks
LEMMA TasksStep ==
  ASSUME IInv, NEW answered \in BOOLEAN, SeedTasks(answered), runs' = runs
  PROVE  Solid' /\ (\A n \in finished : RunLinked(n)') /\ (answered => Stage')
<1> USE DEF SeedTasks, IInv, Solid
<1> DEFINE row == [at |-> Now, project |-> 1, assignee |-> 1, creator |-> 1]
<1>1. Batch[run.pc] = [table |-> "Task", size |-> TaskCount] /\ TaskCount \in Nat \ {0}
  BY DEF Batch
<1>2. row \in TaskRow /\ row.at = Now /\ Now \in Nat /\ Now' = Now /\ Now <= Now + 1
  BY DEF TaskRow, Now, TablesOK
<1>3. runs >= 1 /\ runs \notin finished /\ Now >= 2 /\ Now = 2 * runs
  BY DEF RunsOK, NoRun, Now, TablesOK
<1>4. /\ Adds(task, task', row, serial["Task"], TaskCount)
      /\ Rows(task', TaskRow, serial'["Task"], Now + 1)
      /\ serial' \in [Serials -> Nat \ {0}] /\ \A t \in Serials : serial'[t] >= serial[t]
      /\ serial'["Task"] = serial["Task"] + TaskCount
  <2> HIDE DEF row
  <2>1. task' = With(task, row) /\ Draw
    BY DEF row
  <2> QED BY <1>1, <1>2, <2>1, Inserted DEF TablesOK, Serials
<1>5. DOMAIN comment = {} /\ DOMAIN file = {} /\ Stamps(task, 0) /\ run.left \in {0, FileCount}
  BY DEF Stage, Batches, ToFiles, ToComments, ToTasks
<1>6. MadeAt(Now) /\ admin
  BY DEF Stage, Alone, Main, ToFiles, ToComments, ToTasks
<1>7. \A i \in DOMAIN task' : (i \in DOMAIN task /\ task'[i] = task[i]) \/ task'[i] = row
  BY <1>4 DEF Adds
<1>8. TablesOK'
  <2>1. /\ Rows(user', Stamped, serial'["User"], Now + 1)
        /\ Rows(project', Stamped, serial'["Project"], Now + 1)
        /\ Rows(comment', CommentRow, serial'["Comment"], Now + 1)
        /\ Rows(file', FileRow, serial'["File"], Now + 1)
    BY <1>4, RowsStay DEF TablesOK, Serials
  <2>2. TasksRefer'
    BY <1>7 DEF TablesOK, TasksRefer, Placeholders
  <2>3. CommentsRefer' /\ FilesRefer'
    BY <1>5 DEF CommentsRefer, FilesRefer
  <2> QED BY <1>2, <1>4, <2>1, <2>2, <2>3 DEF TablesOK
<1>9. MadeAt(Now)'
  BY <1>2, <1>6, <1>7 DEF MadeAt, Stamps
<1>10. \A t \in DOMAIN task : TaskLinked(t) => TaskLinked(t)'
  BY <1>4, LinksKeep DEF Adds
<1>11. LinkedOrPlaceholder'
  <2>1. ASSUME NEW t \in DOMAIN task'
        PROVE  \/ TaskLinked(t)'
               \/ task'[t].project = 1 /\ {task'[t].assignee, task'[t].creator} = {1}
    <3>1. CASE task'[t] = row
      BY <3>1
    <3>2. CASE t \in DOMAIN task /\ task'[t] = task[t]
      <4>1. TaskLinked(t) \/ (task[t].project = 1 /\ {task[t].assignee, task[t].creator} = {1})
        BY <3>2 DEF LinkedOrPlaceholder
      <4> QED BY <1>10, <3>2, <4>1
    <3> QED BY <1>7, <3>1, <3>2
  <2> QED BY <1>5, <2>1 DEF LinkedOrPlaceholder
<1>12. ASSUME NEW n \in finished PROVE RunLinked(n)'
  <2>1. 2 * n # Now
    <3>1. n \in Nat /\ runs \in Nat /\ n # runs
      BY <1>3 DEF RunsOK, TablesOK
    <3> QED BY <1>3, <3>1
  <2>2. \A i \in DOMAIN task' : task'[i].at = 2 * n => i \in DOMAIN task /\ task'[i] = task[i]
    BY <1>2, <1>7, <2>1
  <2>3. \A i \in DOMAIN task : task[i].at = 2 * n => TaskLinked(i)
    BY <1>12 DEF FinishedIsLinked
  <2> QED BY <1>5, <1>10, <2>2, <2>3 DEF RunLinked
<1>13. Solid'
  BY <1>2, <1>6, <1>8, <1>9, <1>11 DEF MadeOnce
<1>14. ASSUME answered PROVE Stage'
  <2>1. run'.pc = "listTasks" /\ run'.left = run.left
    BY <1>14, Proceeds DEF Wrote, Follow
  <2>2. \A i \in DOMAIN task : ~(task[i].at >= Now)
    BY <1>2, <1>3, <1>5 DEF Stamps
  <2>3. Cardinality(Young(task', Now)) = 0 + TaskCount
    <3> HIDE DEF row
    <3>1. Cardinality(Young(task, Now)) = 0
      BY <2>2, NoneYoung
    <3>2. Rows(task, TaskRow, serial["Task"], Now + 1) /\ serial["Task"] \in Nat \ {0}
      BY DEF TablesOK, Serials
    <3>3. row.at >= Now
      BY <1>2
    <3>4. /\ Cardinality(Young(task', Now)) = Cardinality(Young(task, Now)) + TaskCount
          /\ Cardinality(Young(task, Now)) \in Nat
      BY ONLY <1>1, <1>4, <3>2, <3>3, YoungAdded
    <3> QED BY <3>1, <3>4
  <2>4. Cardinality(Fresh(task)') = TaskCount
    BY <1>1, <1>2, <2>3 DEF Fresh, Young
  <2>5. Fresh(user)' = Fresh(user) /\ Fresh(project)' = Fresh(project)
    BY <1>2 DEF Fresh
  <2>6. Cardinality(Fresh(user)) >= UserCount /\ Cardinality(Fresh(project)) >= ProjectCount
    BY DEF Stage, Batches, Main, ToFiles, ToComments, ToTasks
  <2>7. serial'["Task"] >= 2
    BY <1>1, <1>4 DEF TablesOK, Serials
  <2>8. Placeholders'
    BY DEF Placeholders
  <2>9. Batches'
    BY <1>5, <2>1, <2>4, <2>5, <2>6, <2>7, <2>8 DEF Batches, Main, ToFiles, ToComments, ToTasks
  <2> QED
    BY <1>6, <1>9, <2>1, <2>9 DEF Stage, Alone, Listed, Linked, ToComments, ToTasks
<1> QED BY <1>12, <1>13, <1>14

\* An answered turn of a loop before the phase after.
LEMMA LoopGoesOn ==
  ASSUME RunsOK, run.pc # "idle", Follow[run.pc] # "end", NEW x \in run.listed,
         NEW answered \in BOOLEAN, answered, Turn(x, answered)
  PROVE  \/ run'.pc = run.pc /\ run'.listed = run.listed \ {x} /\ run'.left = run.left
         \/ run'.pc = Follow[run.pc] /\ run.listed = {x} /\ run'.left = run.left
BY Turns, Proceeds

\* LinkTask
LEMMA LinkTaskStep ==
  ASSUME IInv, NEW answered \in BOOLEAN, LinkTask(answered), runs' = runs
  PROVE  Solid' /\ (\A n \in finished : RunLinked(n)') /\ (answered => Stage')
<1> USE DEF LinkTask, IInv, Solid
<1>1. PICK t \in run.listed, p \in LatestProjects : \E a, c \in Draftees(p) :
         /\ task' = [task EXCEPT ![t] = [@ EXCEPT !.project = p, !.assignee = a, !.creator = c]]
         /\ Turn(t, answered)
  OBVIOUS
<1>2. PICK a \in Draftees(p), c \in Draftees(p) :
         /\ task' = [task EXCEPT ![t] = [@ EXCEPT !.project = p, !.assignee = a, !.creator = c]]
         /\ Turn(t, answered)
  BY <1>1
<1> DEFINE row == [task[t] EXCEPT !.project = p, !.assignee = a, !.creator = c]
<1>3. t \in Fresh(task) /\ t \in DOMAIN task
  BY DEF Stage, Listed, Fresh
<1>4. p \in DOMAIN project /\ a \in DOMAIN user /\ c \in DOMAIN user
  BY DEF LatestProjects, Latest, Draftees
<1>5. /\ task[t] \in TaskRow /\ DOMAIN user \subseteq Nat /\ DOMAIN project \subseteq Nat
      /\ Rows(task, TaskRow, serial["Task"], Now + 1)
  BY <1>3 DEF TablesOK, Rows
<1>6. /\ row \in TaskRow /\ row.at = task[t].at
      /\ row.project = p /\ row.assignee = a /\ row.creator = c
  BY <1>4, <1>5 DEF TaskRow
<1>7. /\ Rows(task', TaskRow, serial["Task"], Now + 1) /\ DOMAIN task' = DOMAIN task
      /\ \A i \in DOMAIN task : task'[i].at = task[i].at
  <2> HIDE DEF row
  <2>1. task' = [task EXCEPT ![t] = row]
    BY <1>2 DEF row
  <2> QED BY <1>3, <1>5, <1>6, <2>1, RowsUpdated
<1>8. task'[t] = row /\ \A i \in DOMAIN task \ {t} : task'[i] = task[i]
  BY <1>2, <1>3
<1> HIDE DEF row
<1>9. DOMAIN comment = {} /\ DOMAIN file = {} /\ MadeAt(Now) /\ admin
  BY DEF Stage, Alone, Batches, Main, ToFiles, ToComments, ToTasks
<1>10. Now' = Now
  BY DEF Now
<1>11. TablesOK'
  <2>1. ASSUME NEW i \in DOMAIN task'
        PROVE  /\ task'[i].project \in DOMAIN project
               /\ {task'[i].assignee, task'[i].creator} \subseteq DOMAIN user
    <3>1. CASE i = t
      BY <1>4, <1>6, <1>8, <3>1
    <3>2. CASE i # t
      <4>1. i \in DOMAIN task /\ task'[i] = task[i]
        BY <1>7, <1>8, <3>2
      <4> QED BY <4>1 DEF TablesOK, TasksRefer
    <3> QED BY <3>1, <3>2
  <2>3. TasksRefer'
    BY <2>1 DEF TasksRefer
  <2>2. CommentsRefer' /\ FilesRefer'
    BY <1>9 DEF CommentsRefer, FilesRefer
  <2> QED BY <1>7, <1>10, <2>2, <2>3 DEF TablesOK
<1>12. MadeAt(Now)' /\ MadeOnce'
  <2>1. \A m : MadeAt(m) => MadeAt(m)'
    BY <1>7 DEF MadeAt, Stamps
  <2> QED BY <1>9, <1>10, <2>1 DEF MadeOnce
<1>13. TaskLinked(t)'
  <2>1. a \in Draftees(p)' /\ c \in Draftees(p)'
    BY DEF Draftees
  <2>2. task'[t].project = p /\ task'[t].assignee = a /\ task'[t].creator = c
    BY <1>6, <1>8
  <2> QED BY <2>1, <2>2 DEF TaskLinked
<1>14. \A i \in DOMAIN task : TaskLinked(i) => TaskLinked(i)'
  BY <1>8, <1>13, LinksKeep
<1>15. LinkedOrPlaceholder'
  <2>1. ASSUME NEW i \in DOMAIN task'
        PROVE  \/ TaskLinked(i)'
               \/ task'[i].project = 1 /\ {task'[i].assignee, task'[i].creator} = {1}
    <3>1. CASE i = t
      BY <1>13, <3>1
    <3>2. CASE i # t
      <4>1. TaskLinked(i) \/ (task[i].project = 1 /\ {task[i].assignee, task[i].creator} = {1})
        BY <1>7, <2>1 DEF LinkedOrPlaceholder
      <4> QED BY <1>7, <1>8, <1>14, <2>1, <3>2, <4>1
    <3> QED BY <3>1, <3>2
  <2> QED BY <1>9, <2>1 DEF LinkedOrPlaceholder
<1>16. ASSUME NEW n \in finished PROVE RunLinked(n)'
  <2>1. \A i \in DOMAIN task : task[i].at = 2 * n => TaskLinked(i)
    BY <1>16 DEF FinishedIsLinked
  <2> QED BY <1>7, <1>9, <1>14, <2>1 DEF RunLinked
<1>17. ASSUME answered PROVE Stage'
  <2>1. \/ run'.pc = "linkTasks" /\ run'.listed = run.listed \ {t} /\ run'.left = run.left
        \/ run'.pc = "comments" /\ run.listed = {t} /\ run'.left = run.left
    <3>1. Follow[run.pc] = "comments" /\ run.pc # "idle"
      BY DEF Follow
    <3> QED BY <1>2, <1>17, <3>1, LoopGoesOn
  <2>2. /\ Fresh(user)' = Fresh(user) /\ Fresh(project)' = Fresh(project)
        /\ Fresh(task)' = Fresh(task)
    BY <1>7, <1>10 DEF Fresh
  <2>3. Batches'
    BY <2>1, <2>2 DEF Stage, Batches, Placeholders, Main, ToFiles, ToComments, ToTasks
  <2>4. Listed'
    BY <2>1, <2>2 DEF Stage, Listed
  <2>5. \A i \in Fresh(task) : i \in run.listed \/ TaskLinked(i)
    BY DEF Stage, Linked, Main, ToFiles, ToComments, ToTasks
  <2>6. \A i \in Fresh(task)' : i \in run.listed \ {t} \/ TaskLinked(i)'
    BY <1>13, <1>14, <2>2, <2>5 DEF Fresh
  <2>7. Linked'
    BY <2>1, <2>6 DEF Linked, ToComments, ToTasks
  <2> QED BY <1>9, <1>12, <2>3, <2>4, <2>7 DEF Stage, Alone
<1> QED BY <1>11, <1>12, <1>15, <1>16, <1>17

-----------------------------------------------------------------------------
(* Comments *)

\* SeedComments
LEMMA CommentsStep ==
  ASSUME IInv, NEW answered \in BOOLEAN, SeedComments(answered), runs' = runs
  PROVE  Solid' /\ (\A n \in finished : RunLinked(n)') /\ (answered => Stage')
<1> USE DEF SeedComments, IInv, Solid
<1> DEFINE row == [at |-> Now, on |-> <<"Task", 1>>, by |-> 1]
<1>1. Batch[run.pc] = [table |-> "Comment", size |-> CommentCount] /\ CommentCount \in Nat \ {0}
  BY DEF Batch
<1>2. Now \in Nat /\ Now' = Now /\ Now <= Now + 1
  BY DEF Now, TablesOK
<1>3. row \in CommentRow /\ row.at = Now /\ row.on = <<"Task", 1>> /\ row.by = 1
  BY <1>2 DEF CommentRow
<1>4. runs >= 1 /\ runs \notin finished /\ Now >= 2 /\ Now = 2 * runs
  BY DEF RunsOK, NoRun, Now, TablesOK
<1>5. comment' = With(comment, row) /\ Draw
  OBVIOUS
<1> HIDE DEF row
<1>6. /\ Adds(comment, comment', row, serial["Comment"], CommentCount)
      /\ Rows(comment', CommentRow, serial'["Comment"], Now + 1)
      /\ serial' \in [Serials -> Nat \ {0}] /\ \A t \in Serials : serial'[t] >= serial[t]
  BY <1>1, <1>2, <1>3, <1>5, Inserted DEF TablesOK, Serials
<1>7. /\ DOMAIN comment = {} /\ DOMAIN file = {} /\ run.left \in {0, FileCount}
      /\ Placeholders /\ serial["Task"] >= 2
      /\ Cardinality(Fresh(user)) >= UserCount /\ Cardinality(Fresh(project)) >= ProjectCount
      /\ Cardinality(Fresh(task)) = TaskCount
  BY DEF Stage, Batches, Main, ToFiles, ToComments, ToTasks
<1>8. MadeAt(Now) /\ admin
  BY DEF Stage, Alone, Main, ToFiles, ToComments, ToTasks
<1>9. \A i \in DOMAIN comment' : comment'[i] = row
  BY <1>6, <1>7 DEF Adds
<1>10. serial["Task"] \in Nat /\ serial'["Task"] \in Nat /\ serial'["Task"] >= 2
  BY <1>6, <1>7 DEF TablesOK, Serials
<1>11. TablesOK'
  <2>1. /\ Rows(user', Stamped, serial'["User"], Now + 1)
        /\ Rows(project', Stamped, serial'["Project"], Now + 1)
        /\ Rows(task', TaskRow, serial'["Task"], Now + 1)
        /\ Rows(file', FileRow, serial'["File"], Now + 1)
    BY <1>6, RowsStay DEF TablesOK, Serials
  <2>2. CommentsRefer'
    BY <1>3, <1>7, <1>9, <1>10 DEF CommentsRefer, Owners, Placeholders
  <2>3. TasksRefer' /\ FilesRefer'
    BY <1>7 DEF TablesOK, TasksRefer, FilesRefer
  <2> QED BY <1>2, <1>6, <2>1, <2>2, <2>3 DEF TablesOK
<1>12. MadeAt(Now)' /\ MadeOnce'
  BY <1>2, <1>3, <1>8, <1>9 DEF MadeAt, Stamps, MadeOnce
<1>13. \A t \in DOMAIN task : TaskLinked(t) => TaskLinked(t)'
  BY LinksKeep
<1>14. LinkedOrPlaceholder'
  <2>1. \A t \in DOMAIN task' :
          \/ TaskLinked(t)'
          \/ task'[t].project = 1 /\ {task'[t].assignee, task'[t].creator} = {1}
    BY <1>13 DEF LinkedOrPlaceholder
  <2>2. \A c \in DOMAIN comment' : comment'[c].on = <<"Task", 1>> /\ comment'[c].by = 1
    BY <1>3, <1>9
  <2> QED BY <1>7, <2>1, <2>2 DEF LinkedOrPlaceholder
<1>15. ASSUME NEW n \in finished PROVE RunLinked(n)'
  <2>1. 2 * n # Now
    <3>1. n \in Nat /\ runs \in Nat /\ n # runs
      BY <1>4 DEF RunsOK, TablesOK
    <3> QED BY <1>4, <3>1
  <2>2. \A t \in DOMAIN task : task[t].at = 2 * n => TaskLinked(t)
    BY <1>15 DEF FinishedIsLinked
  <2>3. \A c \in DOMAIN comment' : comment'[c].at # 2 * n
    BY <1>3, <1>9, <2>1
  <2> QED BY <1>7, <1>13, <2>2, <2>3 DEF RunLinked
<1>16. ASSUME answered PROVE Stage'
  <2>1. run'.pc = "listComments" /\ run'.left = run.left
    BY <1>16, Proceeds DEF Wrote, Follow
  <2>2. Cardinality(Young(comment', Now)) = 0 + CommentCount
    <3>1. Cardinality(Young(comment, Now)) = 0
      BY <1>7, NoneYoung
    <3>2. Rows(comment, CommentRow, serial["Comment"], Now + 1) /\ serial["Comment"] \in Nat \ {0}
      BY DEF TablesOK, Serials
    <3>3. row.at >= Now
      BY <1>2, <1>3
    <3>4. Cardinality(Young(comment', Now)) = Cardinality(Young(comment, Now)) + CommentCount
      BY ONLY <1>1, <1>6, <3>2, <3>3, YoungAdded
    <3> QED BY <3>1, <3>4
  <2>3. Cardinality(Fresh(comment)') = CommentCount
    BY <1>1, <1>2, <2>2 DEF Fresh, Young
  <2>4. /\ Fresh(user)' = Fresh(user) /\ Fresh(project)' = Fresh(project)
        /\ Fresh(task)' = Fresh(task)
    BY <1>2 DEF Fresh
  <2>5. Placeholders'
    BY <1>7 DEF Placeholders
  <2>6. Batches'
    BY <1>7, <1>10, <2>1, <2>3, <2>4, <2>5 DEF Batches, Main, ToFiles, ToComments, ToTasks
  <2>7. \A t \in Fresh(task) : TaskLinked(t)
    BY DEF Stage, Linked, Main, ToFiles, ToComments, ToTasks
  <2>8. \A t \in Fresh(task)' : TaskLinked(t)'
    BY <1>13, <2>4, <2>7 DEF Fresh
  <2>9. Linked' /\ Listed'
    BY <2>1, <2>8 DEF Listed, Linked
  <2> QED BY <1>8, <1>12, <2>6, <2>9 DEF Stage, Alone
<1> QED BY <1>11, <1>12, <1>14, <1>15, <1>16

\* An answered turn of a loop that may be the run's last.
LEMMA LoopMayEnd ==
  ASSUME RunsOK, run.pc # "idle", NEW x \in run.listed,
         NEW answered \in BOOLEAN, answered, Turn(x, answered)
  PROVE  \/ /\ run'.pc = run.pc /\ run'.listed = run.listed \ {x} /\ run'.left = run.left
            /\ UNCHANGED finished
         \/ /\ Follow[run.pc] # "end" /\ run.listed = {x}
            /\ run'.pc = Follow[run.pc] /\ run'.left = run.left /\ UNCHANGED finished
         \/ /\ Follow[run.pc] = "end" /\ run.listed = {x}
            /\ run' = NoRun /\ finished' = finished \cup {runs}
<1>1. CASE Proceed /\ run.listed = {x} /\ Follow[run.pc] = "end"
  <2> DEFINE next == [run EXCEPT !.pc = Follow[run.pc], !.listed = {}]
  <2>1. next.pc = "end"
    BY <1>1 DEF RunsOK
  <2> HIDE DEF next
  <2>2. Goes(next)
    BY <1>1 DEF Proceed, next
  <2> QED BY <1>1, <2>1, <2>2 DEF Goes
<1>2. CASE Proceed /\ run.listed = {x} /\ Follow[run.pc] # "end"
  BY <1>2, Proceeds
<1> QED BY <1>1, <1>2, Turns

\* Between runs no phase has anything to say.
LEMMA NoStage == run' = NoRun => Stage'
BY DEF Stage, Alone, Batches, Listed, Linked, NoRun, Main, ToFiles, ToComments, ToTasks

\* LinkComment
LEMMA LinkCommentStep ==
  ASSUME IInv, NEW answered \in BOOLEAN, LinkComment(answered), runs' = runs
  PROVE  /\ Solid' /\ (\A n \in finished : RunLinked(n)')
         /\ answered => Stage' /\ \A n \in finished' : RunLinked(n)'
<1> USE DEF LinkComment, IInv, Solid
<1>1. PICK c \in run.listed, o \in LatestOwners : \E u \in Draftees(ProjectOf(o)) :
         /\ comment' = [comment EXCEPT ![c] = [@ EXCEPT !.on = o, !.by = u]]
         /\ Turn(c, answered)
  OBVIOUS
<1>2. PICK u \in Draftees(ProjectOf(o)) :
         /\ comment' = [comment EXCEPT ![c] = [@ EXCEPT !.on = o, !.by = u]]
         /\ Turn(c, answered)
  BY <1>1
<1> DEFINE row == [comment[c] EXCEPT !.on = o, !.by = u]
<1>3. c \in Fresh(comment) /\ c \in DOMAIN comment
  BY DEF Stage, Listed, Fresh
<1>4. o \in Owners(DOMAIN task, DOMAIN project) /\ u \in DOMAIN user
  BY DEF LatestOwners, LatestProjects, Latest, Owners, Draftees
<1>5. /\ comment[c] \in CommentRow /\ DOMAIN user \subseteq Nat
      /\ Rows(comment, CommentRow, serial["Comment"], Now + 1)
      /\ DOMAIN task \subseteq 1..(serial["Task"] - 1)
      /\ DOMAIN project \subseteq 1..(serial["Project"] - 1)
  BY <1>3 DEF TablesOK, Rows
<1>6. o \in Owners(1..(serial["Task"] - 1), 1..(serial["Project"] - 1))
  BY <1>4, <1>5 DEF Owners
<1>7. o \in {"Task", "Project"} \X Nat
  BY <1>6 DEF Owners
<1>8. row \in CommentRow /\ row.at = comment[c].at /\ row.on = o /\ row.by = u
  BY <1>4, <1>5, <1>7 DEF CommentRow
<1>9. comment' = [comment EXCEPT ![c] = row]
  BY <1>2
<1> HIDE DEF row
<1>10. /\ Rows(comment', CommentRow, serial["Comment"], Now + 1) /\ DOMAIN comment' = DOMAIN comment
       /\ \A i \in DOMAIN comment : comment'[i].at = comment[i].at
  BY <1>3, <1>5, <1>8, <1>9, RowsUpdated
<1>11. comment'[c] = row /\ \A i \in DOMAIN comment \ {c} : comment'[i] = comment[i]
  BY <1>3, <1>9
<1>12. DOMAIN file = {} /\ MadeAt(Now) /\ admin
  BY DEF Stage, Alone, Batches, Main, ToFiles, ToComments, ToTasks
<1>13. Now' = Now
  BY DEF Now
<1>14. TablesOK'
  <2>1. ASSUME NEW i \in DOMAIN comment'
        PROVE  /\ comment'[i].by \in DOMAIN user
               /\ comment'[i].on \in Owners(1..(serial["Task"] - 1), 1..(serial["Project"] - 1))
    <3>1. CASE i = c
      BY <1>4, <1>6, <1>8, <1>11, <3>1
    <3>2. CASE i # c
      <4>1. i \in DOMAIN comment /\ comment'[i] = comment[i]
        BY <1>10, <1>11, <3>2
      <4> QED BY <4>1 DEF TablesOK, CommentsRefer
    <3> QED BY <3>1, <3>2
  <2>2. CommentsRefer'
    BY <2>1 DEF CommentsRefer
  <2>3. TasksRefer' /\ FilesRefer'
    BY <1>12 DEF TablesOK, TasksRefer, FilesRefer
  <2> QED BY <1>10, <1>13, <2>2, <2>3 DEF TablesOK
<1>15. MadeAt(Now)' /\ MadeOnce'
  <2>1. \A m : MadeAt(m) => MadeAt(m)'
    BY <1>10 DEF MadeAt, Stamps
  <2> QED BY <1>12, <1>13, <2>1 DEF MadeOnce
<1>16. CommentLinked(c)'
  <2>1. ProjectOf(o)' = ProjectOf(o) /\ \A p : Draftees(p)' = Draftees(p)
    BY DEF ProjectOf, Draftees
  <2>2. comment'[c].on = o /\ comment'[c].by = u
    BY <1>8, <1>11
  <2> QED BY <2>1, <2>2 DEF CommentLinked, ProjectOf
<1>17. /\ \A i \in DOMAIN comment : CommentLinked(i) => CommentLinked(i)'
       /\ \A t : TaskLinked(t) => TaskLinked(t)'
  BY <1>11, <1>16, LinksKeep
<1>18. LinkedOrPlaceholder'
  <2>1. ASSUME NEW i \in DOMAIN comment'
        PROVE  \/ comment'[i].on = <<"Task", 1>> /\ comment'[i].by = 1
               \/ CommentLinked(i)'
    <3>1. CASE i = c
      BY <1>16, <3>1
    <3>2. CASE i # c
      <4>1. CommentLinked(i) \/ (comment[i].on = <<"Task", 1>> /\ comment[i].by = 1)
        BY <1>10, <2>1 DEF LinkedOrPlaceholder
      <4> QED BY <1>10, <1>11, <1>17, <2>1, <3>2, <4>1
    <3> QED BY <3>1, <3>2
  <2>2. \A t \in DOMAIN task' :
          \/ TaskLinked(t)'
          \/ task'[t].project = 1 /\ {task'[t].assignee, task'[t].creator} = {1}
    BY <1>17 DEF LinkedOrPlaceholder
  <2> QED BY <1>12, <2>1, <2>2 DEF LinkedOrPlaceholder
<1>19. ASSUME NEW n \in finished PROVE RunLinked(n)'
  <2>1. /\ \A t \in DOMAIN task : task[t].at = 2 * n => TaskLinked(t)
        /\ \A i \in DOMAIN comment : comment[i].at = 2 * n => CommentLinked(i)
    BY <1>19 DEF FinishedIsLinked
  <2> QED BY <1>10, <1>12, <1>17, <2>1 DEF RunLinked
<1>20. /\ Fresh(user)' = Fresh(user) /\ Fresh(project)' = Fresh(project)
       /\ Fresh(task)' = Fresh(task) /\ Fresh(comment)' = Fresh(comment)
  BY <1>10, <1>13 DEF Fresh
<1>21. /\ \A i \in Fresh(comment) : i \in run.listed \/ CommentLinked(i)
       /\ \A t \in Fresh(task) : TaskLinked(t)
  BY DEF Stage, Linked, Main, ToFiles, ToComments, ToTasks
<1>22. /\ \A i \in Fresh(comment) : i \in run.listed \ {c} \/ CommentLinked(i)'
       /\ \A t \in Fresh(task) : TaskLinked(t)'
  BY <1>16, <1>17, <1>21 DEF Fresh
<1>23. ASSUME answered PROVE Stage' /\ \A n \in finished' : RunLinked(n)'
  <2>1. Follow[run.pc] = IF run.left > 0 THEN "upload" ELSE "end"
    BY DEF Follow
  <2>2. run.left \in {0, FileCount} /\ run.pc # "idle"
    BY DEF Stage, Batches, ToFiles, ToComments, ToTasks
  <2>3. CASE /\ run'.pc = run.pc /\ run'.listed = run.listed \ {c} /\ run'.left = run.left
             /\ UNCHANGED finished
    <3>1. Batches'
      BY <1>20, <2>3 DEF Stage, Batches, Placeholders, Main, ToFiles, ToComments, ToTasks
    <3>2. Listed' /\ Linked'
      BY <1>20, <1>22, <2>3 DEF Stage, Listed, Linked
    <3> QED BY <1>12, <1>15, <1>19, <2>3, <3>1, <3>2 DEF Stage, Alone
  <2>4. CASE /\ Follow[run.pc] # "end" /\ run.listed = {c}
             /\ run'.pc = Follow[run.pc] /\ run'.left = run.left /\ UNCHANGED finished
    <3>1. run.left = FileCount /\ FileCount >= 1 /\ run'.pc = "upload"
      BY <2>1, <2>2, <2>4
    <3>2. Fresh(file)' = {} /\ Cardinality({}) = 0
      BY <1>12, FS_EmptySet DEF Fresh
    <3>3. Batches'
      BY <1>20, <2>4, <3>1, <3>2 DEF Stage, Batches, Placeholders, Main, ToFiles, ToComments, ToTasks
    <3>4. Listed' /\ Linked'
      BY <1>20, <1>22, <2>4, <3>1 DEF Listed, Linked
    <3> QED BY <1>12, <1>15, <1>19, <2>4, <3>3, <3>4 DEF Stage, Alone
  <2>5. CASE /\ Follow[run.pc] = "end" /\ run.listed = {c}
             /\ run' = NoRun /\ finished' = finished \cup {runs}
    <3>1. Now = 2 * runs /\ Now \in Nat
      BY DEF Now, TablesOK
    <3>2. /\ \A t \in DOMAIN task : task[t].at = Now => t \in Fresh(task)
          /\ \A i \in DOMAIN comment : comment[i].at = Now => i \in Fresh(comment)
      BY <3>1 DEF Fresh
    <3>3. RunLinked(runs)'
      BY <1>10, <1>12, <1>22, <2>5, <3>1, <3>2 DEF RunLinked
    <3>4. \A n \in finished' : RunLinked(n)'
      BY <1>19, <2>5, <3>3
    <3>5. Stage'
      BY <2>5, NoStage
    <3> QED BY <3>4, <3>5
  <2> QED BY <1>2, <1>23, <2>2, <2>3, <2>4, <2>5, LoopMayEnd
<1> QED BY <1>14, <1>15, <1>18, <1>19, <1>23

-----------------------------------------------------------------------------
(* Files *)

\* Upload
LEMMA UploadStep ==
  ASSUME IInv, NEW answered \in BOOLEAN, Upload(answered), runs' = runs
  PROVE  Solid' /\ (\A n \in finished : RunLinked(n)') /\ (answered => Stage')
<1> USE DEF Upload, IInv, Solid
<1>1. \A t \in Serials : serial'[t] >= serial[t]
  BY DEF TablesOK
<1>2. Solid' /\ \A n : RunLinked(n) => RunLinked(n)'
  <2>1. objects' \in Nat /\ serial' \in [Serials -> Nat \ {0}]
    BY DEF TablesOK
  <2> QED BY <1>1, <2>1, TablesAlone
<1>3. \A n \in finished : RunLinked(n)'
  BY <1>2 DEF FinishedIsLinked, RunLinked
<1>4. ASSUME answered PROVE Stage'
  <2>1. run'.pc = "record" /\ run'.left = run.left
    BY <1>4, Proceeds DEF Wrote, Follow
  <2>2. /\ Fresh(user)' = Fresh(user) /\ Fresh(project)' = Fresh(project)
        /\ Fresh(task)' = Fresh(task) /\ Fresh(comment)' = Fresh(comment)
        /\ Fresh(file)' = Fresh(file) /\ Now' = Now
    BY DEF Fresh, Now, tables, links
  <2>3. /\ \A t : TaskLinked(t)' <=> TaskLinked(t)
        /\ \A c : CommentLinked(c)' <=> CommentLinked(c)
    BY DEF TaskLinked, CommentLinked, Draftees, ProjectOf, tables, links
  <2>4. Alone'
    BY <2>1, <2>2 DEF Stage, Alone, MadeAt, Main, ToFiles, ToComments, ToTasks, tables, links
  <2>5. Placeholders' <=> Placeholders
    BY DEF Placeholders, tables, links
  <2>6. Batches'
    BY <2>1, <2>2, <2>5 DEF Stage, Batches, Main, ToFiles, ToComments, ToTasks, tables, links
  <2>7. Listed' /\ Linked'
    BY <2>1, <2>2, <2>3 DEF Stage, Listed, Linked, Main, ToFiles, ToComments, ToTasks
  <2> QED BY <2>4, <2>6, <2>7 DEF Stage
<1> QED BY <1>2, <1>3, <1>4

\* What Record does to the run.
LEMMA Records ==
  ASSUME RunsOK, run.pc = "record",
         Goes([run EXCEPT !.pc = Follow["record"], !.left = @ - 1])
  PROVE  /\ run'.pc = (IF run.left > 1 THEN "upload" ELSE "listFiles")
         /\ run'.left = run.left - 1 /\ UNCHANGED finished
<1> DEFINE next == [run EXCEPT !.pc = Follow["record"], !.left = @ - 1]
<1>1. Follow["record"] = IF run.left > 1 THEN "upload" ELSE "listFiles"
  BY DEF Follow
<1>2. next.pc = Follow["record"] /\ next.left = run.left - 1
  BY DEF RunsOK
<1>3. next.pc # "end"
  BY <1>1, <1>2
<1> HIDE DEF next
<1>4. Goes(next)
  BY DEF next
<1> QED BY <1>1, <1>2, <1>3, <1>4 DEF Goes

\* Record
LEMMA RecordStep ==
  ASSUME IInv, NEW answered \in BOOLEAN, Record(answered), runs' = runs
  PROVE  Solid' /\ (\A n \in finished : RunLinked(n)') /\ (answered => Stage')
<1> USE DEF Record, IInv, Solid
<1>1. PICK image \in BOOLEAN :
         file' = With(file, [at |-> Now, on |-> <<"Comment", 1>>, by |-> 1, image |-> image])
  OBVIOUS
<1> DEFINE row == [at |-> Now, on |-> <<"Comment", 1>>, by |-> 1, image |-> image]
<1>2. Batch[run.pc] = [table |-> "File", size |-> 1] /\ 1 \in Nat \ {0}
  BY DEF Batch
<1>3. Now \in Nat /\ Now' = Now /\ Now <= Now + 1
  BY DEF Now, TablesOK
<1>4. row \in FileRow /\ row.at = Now /\ row.on = <<"Comment", 1>> /\ row.by = 1
  BY <1>3 DEF FileRow
<1>5. runs >= 1 /\ runs \notin finished /\ Now >= 2 /\ Now = 2 * runs
  BY DEF RunsOK, NoRun, Now, TablesOK
<1>6. file' = With(file, row) /\ Draw
  BY <1>1
<1> HIDE DEF row
<1>7. /\ Adds(file, file', row, serial["File"], 1)
      /\ Rows(file', FileRow, serial'["File"], Now + 1)
      /\ serial' \in [Serials -> Nat \ {0}] /\ \A t \in Serials : serial'[t] >= serial[t]
  <2>1. /\ serial \in [Serials -> Nat \ {0}] /\ "File" \in Serials
        /\ Rows(file, FileRow, serial["File"], Now + 1) /\ row.at <= Now + 1
    BY <1>3, <1>4 DEF TablesOK, Serials
  <2> QED BY ONLY <1>2, <1>4, <1>6, <2>1, Inserted
<1>8. /\ Placeholders /\ serial["Task"] >= 2
      /\ Cardinality(Fresh(user)) >= UserCount /\ Cardinality(Fresh(project)) >= ProjectCount
      /\ Cardinality(Fresh(task)) = TaskCount /\ Cardinality(Fresh(comment)) = CommentCount
      /\ run.left >= 1 /\ Cardinality(Fresh(file)) = FileCount - run.left
  BY DEF Stage, Batches, Main, ToFiles, ToComments, ToTasks
<1>9. MadeAt(Now) /\ admin
  BY DEF Stage, Alone, Main, ToFiles, ToComments, ToTasks
<1>10. \A i \in DOMAIN file' : (i \in DOMAIN file /\ file'[i] = file[i]) \/ file'[i] = row
  BY <1>7 DEF Adds
<1>11. /\ \A t \in Serials : serial[t] \in Nat /\ serial'[t] \in Nat
       /\ serial'["Task"] >= serial["Task"] /\ serial'["Project"] >= serial["Project"]
       /\ serial'["Task"] >= 2
  BY <1>7, <1>8 DEF TablesOK, Serials
<1>12. TablesOK'
  <2>1. /\ Rows(user', Stamped, serial'["User"], Now + 1)
        /\ Rows(project', Stamped, serial'["Project"], Now + 1)
        /\ Rows(task', TaskRow, serial'["Task"], Now + 1)
        /\ Rows(comment', CommentRow, serial'["Comment"], Now + 1)
    BY <1>7, RowsStay DEF TablesOK, Serials
  <2>2. FilesRefer'
    BY <1>4, <1>8, <1>10 DEF TablesOK, FilesRefer, Placeholders
  <2>3. CommentsRefer'
    BY <1>11 DEF TablesOK, CommentsRefer, Owners, Serials
  <2>4. TasksRefer'
    BY DEF TablesOK, TasksRefer
  <2> QED BY <1>3, <1>7, <2>1, <2>2, <2>3, <2>4 DEF TablesOK
<1>13. MadeAt(Now)' /\ MadeOnce'
  <2>1. MadeAt(Now)'
    BY <1>3, <1>4, <1>9, <1>10 DEF MadeAt, Stamps
  <2> QED BY <1>3, <1>9, <2>1 DEF MadeOnce
<1>14. /\ \A t : TaskLinked(t) => TaskLinked(t)'
       /\ \A c : CommentLinked(c) => CommentLinked(c)'
       /\ \A f : file'[f] = file[f] /\ FileLinked(f) => FileLinked(f)'
  BY LinksKeep
<1>15. LinkedOrPlaceholder'
  <2>1. ASSUME NEW f \in DOMAIN file'
        PROVE  \/ file'[f].on = <<"Comment", 1>> /\ file'[f].by = 1
               \/ FileLinked(f)'
    <3>1. CASE file'[f] = row
      BY <1>4, <3>1
    <3>2. CASE f \in DOMAIN file /\ file'[f] = file[f]
      <4>1. FileLinked(f) \/ (file[f].on = <<"Comment", 1>> /\ file[f].by = 1)
        BY <3>2 DEF LinkedOrPlaceholder
      <4> QED BY <1>14, <3>2, <4>1
    <3> QED BY <1>10, <3>1, <3>2
  <2>2. /\ \A t \in DOMAIN task' :
             \/ TaskLinked(t)'
             \/ task'[t].project = 1 /\ {task'[t].assignee, task'[t].creator} = {1}
        /\ \A c \in DOMAIN comment' :
             \/ comment'[c].on = <<"Task", 1>> /\ comment'[c].by = 1
             \/ CommentLinked(c)'
    BY <1>14 DEF LinkedOrPlaceholder
  <2> QED BY <2>1, <2>2 DEF LinkedOrPlaceholder
<1>16. ASSUME NEW n \in finished PROVE RunLinked(n)'
  <2>1. 2 * n # Now
    <3>1. n \in Nat /\ runs \in Nat /\ n # runs
      BY <1>5 DEF RunsOK, TablesOK
    <3> QED BY <1>5, <3>1
  <2>2. /\ \A t \in DOMAIN task : task[t].at = 2 * n => TaskLinked(t)
        /\ \A c \in DOMAIN comment : comment[c].at = 2 * n => CommentLinked(c)
        /\ \A f \in DOMAIN file : file[f].at = 2 * n => FileLinked(f)
    BY <1>16 DEF FinishedIsLinked
  <2>3. \A f \in DOMAIN file' : file'[f].at = 2 * n => f \in DOMAIN file /\ file'[f] = file[f]
    BY <1>4, <1>10, <2>1
  <2> QED BY <1>14, <2>2, <2>3 DEF RunLinked
<1>17. ASSUME answered PROVE Stage'
  <2>1. /\ run'.pc = (IF run.left > 1 THEN "upload" ELSE "listFiles")
        /\ run'.left = run.left - 1
    BY <1>17, Records
  <2>2. Cardinality(Young(file', Now)) = Cardinality(Young(file, Now)) + 1
    <3>1. Rows(file, FileRow, serial["File"], Now + 1) /\ serial["File"] \in Nat \ {0}
      BY DEF TablesOK, Serials
    <3>2. row.at >= Now
      BY <1>3, <1>4
    <3> QED BY ONLY <1>2, <1>7, <3>1, <3>2, YoungAdded
  <2>3. run.left \in Nat /\ FileCount \in Nat
    BY DEF RunsOK
  <2>4. Cardinality(Fresh(file)') = FileCount - run'.left
    BY <1>3, <1>8, <2>1, <2>2, <2>3 DEF Fresh, Young
  <2>5. /\ Fresh(user)' = Fresh(user) /\ Fresh(project)' = Fresh(project)
        /\ Fresh(task)' = Fresh(task) /\ Fresh(comment)' = Fresh(comment)
    BY <1>3 DEF Fresh
  <2>6. Placeholders'
    BY <1>8 DEF Placeholders
  <2>7. \/ run'.pc = "upload" /\ run'.left >= 1
        \/ run'.pc = "listFiles" /\ Cardinality(Fresh(file)') = FileCount
    BY <1>8, <2>1, <2>3, <2>4
  <2>8. Batches'
    BY <1>8, <1>11, <2>4, <2>5, <2>6, <2>7 DEF Batches, Main, ToFiles, ToComments, ToTasks
  <2>9. /\ \A t \in Fresh(task) : TaskLinked(t)
        /\ \A c \in Fresh(comment) : CommentLinked(c)
    BY DEF Stage, Linked, Main, ToFiles, ToComments, ToTasks
  <2>10. /\ \A t \in Fresh(task)' : TaskLinked(t)'
         /\ \A c \in Fresh(comment)' : CommentLinked(c)'
    BY <1>14, <2>5, <2>9
  <2>11. Linked' /\ Listed'
    BY <2>7, <2>10 DEF Listed, Linked
  <2> QED BY <1>9, <1>13, <2>8, <2>11 DEF Stage, Alone
<1> QED BY <1>12, <1>13, <1>15, <1>16, <1>17

\* LinkFile
LEMMA LinkFileStep ==
  ASSUME IInv, NEW answered \in BOOLEAN, LinkFile(answered), runs' = runs
  PROVE  /\ Solid' /\ (\A n \in finished : RunLinked(n)')
         /\ answered => Stage' /\ \A n \in finished' : RunLinked(n)'
<1> USE DEF LinkFile, IInv, Solid
<1>1. PICK f \in run.listed : \E o \in LatestHolders(file[f].image) :
        \E u \in Draftees(HolderProject(o)) :
          /\ file' = [file EXCEPT ![f] = [@ EXCEPT !.on = o, !.by = u]]
          /\ Turn(f, answered)
  OBVIOUS
<1>2. PICK o \in LatestHolders(file[f].image) : \E u \in Draftees(HolderProject(o)) :
         /\ file' = [file EXCEPT ![f] = [@ EXCEPT !.on = o, !.by = u]]
         /\ Turn(f, answered)
  BY <1>1
<1>3. PICK u \in Draftees(HolderProject(o)) :
         /\ file' = [file EXCEPT ![f] = [@ EXCEPT !.on = o, !.by = u]]
         /\ Turn(f, answered)
  BY <1>2
<1> DEFINE row == [file[f] EXCEPT !.on = o, !.by = u]
<1>4. f \in Fresh(file) /\ f \in DOMAIN file
  BY DEF Stage, Listed, Fresh
<1>5. /\ file[f] \in FileRow /\ DOMAIN user \subseteq Nat
      /\ Rows(file, FileRow, serial["File"], Now + 1)
      /\ DOMAIN task \subseteq Nat /\ DOMAIN project \subseteq Nat /\ DOMAIN comment \subseteq Nat
  BY <1>4 DEF TablesOK, Rows
<1>6. /\ u \in DOMAIN user /\ o \in {"Task", "Project", "Comment"} \X Nat
      /\ file[f].image <=> o[1] = "Comment"
  <2>1. u \in DOMAIN user
    BY DEF Draftees
  <2>2. CASE file[f].image
    <3>1. o \in {"Comment"} \X DOMAIN comment
      BY <2>2 DEF LatestHolders, Latest
    <3> QED BY <1>5, <2>1, <2>2, <3>1
  <2>3. CASE ~file[f].image
    <3>1. o \in Owners(DOMAIN task, DOMAIN project)
      BY <2>3 DEF LatestHolders, LatestOwners, LatestProjects, Latest, Owners
    <3> QED BY <1>5, <2>1, <2>3, <3>1 DEF Owners
  <2> QED BY <2>2, <2>3
<1>7. /\ row \in FileRow /\ row.at = file[f].at /\ row.on = o /\ row.by = u
      /\ row.image = file[f].image
  BY <1>5, <1>6 DEF FileRow
<1>8. file' = [file EXCEPT ![f] = row]
  BY <1>3
<1> HIDE DEF row
<1>9. /\ Rows(file', FileRow, serial["File"], Now + 1) /\ DOMAIN file' = DOMAIN file
      /\ \A i \in DOMAIN file : file'[i].at = file[i].at
  BY <1>4, <1>5, <1>7, <1>8, RowsUpdated
<1>10. file'[f] = row /\ \A i \in DOMAIN file \ {f} : file'[i] = file[i]
  BY <1>4, <1>8
<1>11. MadeAt(Now) /\ admin
  BY DEF Stage, Alone, Main
<1>12. Now' = Now
  BY DEF Now
<1>13. TablesOK'
  <2>1. FilesRefer'
    BY <1>6, <1>7, <1>9, <1>10 DEF TablesOK, FilesRefer
  <2>2. TasksRefer' /\ CommentsRefer'
    BY DEF TablesOK, TasksRefer, CommentsRefer
  <2> QED BY <1>9, <1>12, <2>1, <2>2 DEF TablesOK
<1>14. MadeAt(Now)' /\ MadeOnce'
  <2>1. \A m : MadeAt(m) => MadeAt(m)'
    BY <1>9 DEF MadeAt, Stamps
  <2> QED BY <1>11, <1>12, <2>1 DEF MadeOnce
<1>15. FileLinked(f)'
  <2>1. HolderProject(o)' = HolderProject(o) /\ \A p : Draftees(p)' = Draftees(p)
    BY DEF HolderProject, ProjectOf, Draftees
  <2>2. file'[f].on = o /\ file'[f].by = u /\ file'[f].image = file[f].image
    BY <1>7, <1>10
  <2>3. file'[f].by \in Draftees(HolderProject(o))'
    BY <2>1, <2>2
  <2>4. file'[f].image <=> file'[f].on[1] = "Comment"
    BY <1>6, <2>2
  <2> QED BY <2>2, <2>3, <2>4 DEF FileLinked
<1>16. /\ \A i \in DOMAIN file : FileLinked(i) => FileLinked(i)'
       /\ \A c : CommentLinked(c) => CommentLinked(c)'
       /\ \A t : TaskLinked(t) => TaskLinked(t)'
  BY <1>10, <1>15, LinksKeep
<1>17. LinkedOrPlaceholder'
  <2>1. ASSUME NEW i \in DOMAIN file'
        PROVE  \/ file'[i].on = <<"Comment", 1>> /\ file'[i].by = 1
               \/ FileLinked(i)'
    <3>1. CASE i = f
      BY <1>15, <3>1
    <3>2. CASE i # f
      <4>1. FileLinked(i) \/ (file[i].on = <<"Comment", 1>> /\ file[i].by = 1)
        BY <1>9, <2>1 DEF LinkedOrPlaceholder
      <4> QED BY <1>9, <1>10, <1>16, <2>1, <3>2, <4>1
    <3> QED BY <3>1, <3>2
  <2>2. /\ \A t \in DOMAIN task' :
             \/ TaskLinked(t)'
             \/ task'[t].project = 1 /\ {task'[t].assignee, task'[t].creator} = {1}
        /\ \A c \in DOMAIN comment' :
             \/ comment'[c].on = <<"Task", 1>> /\ comment'[c].by = 1
             \/ CommentLinked(c)'
    BY <1>16 DEF LinkedOrPlaceholder
  <2> QED BY <2>1, <2>2 DEF LinkedOrPlaceholder
<1>18. ASSUME NEW n \in finished PROVE RunLinked(n)'
  <2>1. /\ \A t \in DOMAIN task : task[t].at = 2 * n => TaskLinked(t)
        /\ \A i \in DOMAIN comment : comment[i].at = 2 * n => CommentLinked(i)
        /\ \A i \in DOMAIN file : file[i].at = 2 * n => FileLinked(i)
    BY <1>18 DEF FinishedIsLinked
  <2> QED BY <1>9, <1>16, <2>1 DEF RunLinked
<1>19. /\ Fresh(user)' = Fresh(user) /\ Fresh(project)' = Fresh(project)
       /\ Fresh(task)' = Fresh(task) /\ Fresh(comment)' = Fresh(comment)
       /\ Fresh(file)' = Fresh(file)
  BY <1>9, <1>12 DEF Fresh
<1>20. /\ \A i \in Fresh(file) : i \in run.listed \/ FileLinked(i)
       /\ \A c \in Fresh(comment) : CommentLinked(c)
       /\ \A t \in Fresh(task) : TaskLinked(t)
  BY DEF Stage, Linked, Main, ToFiles, ToComments, ToTasks
<1>21. /\ \A i \in Fresh(file) : i \in run.listed \ {f} \/ FileLinked(i)'
       /\ \A c \in Fresh(comment) : CommentLinked(c)'
       /\ \A t \in Fresh(task) : TaskLinked(t)'
  BY <1>15, <1>16, <1>20 DEF Fresh
<1>22. ASSUME answered PROVE Stage' /\ \A n \in finished' : RunLinked(n)'
  <2>1. Follow[run.pc] = "end" /\ run.pc # "idle"
    BY DEF Follow
  <2>2. CASE /\ run'.pc = run.pc /\ run'.listed = run.listed \ {f} /\ run'.left = run.left
             /\ UNCHANGED finished
    <3>1. Batches'
      BY <1>19, <2>2 DEF Stage, Batches, Placeholders, Main, ToFiles, ToComments, ToTasks
    <3>2. Listed' /\ Linked'
      BY <1>19, <1>21, <2>2 DEF Stage, Listed, Linked
    <3> QED BY <1>11, <1>14, <1>18, <2>2, <3>1, <3>2 DEF Stage, Alone
  <2>3. CASE run.listed = {f} /\ run' = NoRun /\ finished' = finished \cup {runs}
    <3>1. Now = 2 * runs /\ Now \in Nat
      BY DEF Now, TablesOK
    <3>2. /\ \A t \in DOMAIN task : task[t].at = Now => t \in Fresh(task)
          /\ \A i \in DOMAIN comment : comment[i].at = Now => i \in Fresh(comment)
          /\ \A i \in DOMAIN file : file[i].at = Now => i \in Fresh(file)
      BY <3>1 DEF Fresh
    <3>3. RunLinked(runs)'
      BY <1>9, <1>21, <2>3, <3>1, <3>2 DEF RunLinked
    <3>4. \A n \in finished' : RunLinked(n)'
      BY <1>18, <2>3, <3>3
    <3>5. Stage'
      BY <2>3, NoStage
    <3> QED BY <3>4, <3>5
  <2> QED BY <1>3, <1>22, <2>1, <2>2, <2>3, LoopMayEnd
<1> QED BY <1>13, <1>14, <1>17, <1>18, <1>22

-----------------------------------------------------------------------------
(* How every step moves the run *)

Phases == {"users", "admin"} \cup Main

\* A run that goes on or ends.
LEMMA GoesRight ==
  ASSUME RunsOK, runs \in Nat, run # NoRun, UNCHANGED <<runs, died>>,
         NEW next \in [pc : Phases \cup {"end"}, listed : SUBSET Nat, left : 0..FileCount], Goes(next)
  PROVE  RunsOK'
<1>1. runs \in (1..runs) \ (finished \cup died)
  BY DEF RunsOK
<1>2. CASE next.pc = "end"
  <2>1. run' = NoRun /\ finished' = finished \cup {runs}
    BY <1>2 DEF Goes
  <2>2. NoRun \in [pc : {"idle", "users", "admin"} \cup Main, listed : SUBSET Nat, left : 0..FileCount]
    BY DEF NoRun
  <2> QED BY <1>1, <2>1, <2>2 DEF RunsOK
<1>3. CASE next.pc # "end"
  <2>1. run' = next /\ UNCHANGED finished
    BY <1>3 DEF Goes
  <2>2. next.pc \in Phases /\ next.pc # "idle"
    BY <1>3 DEF Phases, Main, ToFiles, ToComments, ToTasks
  <2>3. next \in [pc : {"idle", "users", "admin"} \cup Main, listed : SUBSET Nat, left : 0..FileCount]
    BY <2>2 DEF Phases
  <2> QED BY <1>1, <2>1, <2>2, <2>3 DEF RunsOK
<1> QED BY <1>2, <1>3

\* A run that is aborted, by a failure or not.
LEMMA AbortsRight ==
  ASSUME RunsOK, runs \in Nat, run # NoRun, runs' = runs, Abort, died' \in {died, died \cup {runs}}
  PROVE  RunsOK'
<1>1. runs \in (1..runs) \ (finished \cup died)
  BY DEF RunsOK
<1>2. NoRun \in [pc : {"idle", "users", "admin"} \cup Main, listed : SUBSET Nat, left : 0..FileCount]
  BY DEF NoRun
<1> QED BY <1>1, <1>2 DEF RunsOK, Abort

\* The phases that follow one another.
LEMMA Follows ==
  ASSUME RunsOK, run.pc # "idle"
  PROVE  /\ Follow[run.pc] \in Phases \cup {"end"}
         /\ Follow[run.pc] = "end" => run.pc \in {"linkComments", "linkFiles"}
<1>1. run.pc \in Phases
  BY DEF RunsOK, Phases
<1> QED BY <1>1 DEF Follow, Phases, Main, ToFiles, ToComments, ToTasks

\* The run goes on with another list before it.
LEMMA NextTyped ==
  ASSUME RunsOK, NEW pc \in Phases \cup {"end"}, NEW L \in SUBSET Nat
  PROVE  [run EXCEPT !.pc = pc, !.listed = L]
           \in [pc : Phases \cup {"end"}, listed : SUBSET Nat, left : 0..FileCount]
BY DEF RunsOK

\* The run goes on with a file less to insert.
LEMMA LessTyped ==
  ASSUME RunsOK, run.left >= 1, NEW pc \in Phases \cup {"end"}
  PROVE  [run EXCEPT !.pc = pc, !.left = @ - 1]
           \in [pc : Phases \cup {"end"}, listed : SUBSET Nat, left : 0..FileCount]
<1>1. run.left - 1 \in 0..FileCount
  BY DEF RunsOK
<1> QED BY <1>1 DEF RunsOK

\* Proceed
LEMMA ProceedsRight ==
  ASSUME RunsOK, runs \in Nat, run # NoRun, run.pc # "idle", UNCHANGED <<runs, died>>, Proceed
  PROVE  RunsOK' /\ (UNCHANGED finished \/ run.pc \in {"linkComments", "linkFiles"})
<1>1. Follow[run.pc] \in Phases \cup {"end"} /\ {} \in SUBSET Nat
  BY Follows
<1>2. RunsOK'
  BY <1>1, NextTyped, GoesRight DEF Proceed
<1>3. UNCHANGED finished \/ Follow[run.pc] = "end"
  BY Proceeds
<1> QED BY <1>2, <1>3, Follows

\* Turn
LEMMA TurnsRight ==
  ASSUME RunsOK, runs \in Nat, run # NoRun, run.pc # "idle", UNCHANGED <<runs, died>>,
         NEW x \in run.listed, NEW answered \in BOOLEAN, answered, Turn(x, answered)
  PROVE  RunsOK' /\ (UNCHANGED finished \/ run.pc \in {"linkComments", "linkFiles"})
<1>1. CASE run.listed = {x}
  BY <1>1, ProceedsRight DEF Turn, Wrote
<1>2. CASE run.listed # {x}
  <2> DEFINE next == [run EXCEPT !.listed = @ \ {x}]
  <2>1. next \in [pc : Phases \cup {"end"}, listed : SUBSET Nat, left : 0..FileCount]
    BY DEF RunsOK, Phases
  <2> HIDE DEF next
  <2>2. Goes(next)
    BY <1>2 DEF Turn, next
  <2>3. RunsOK'
    BY <2>1, <2>2, GoesRight
  <2>4. UNCHANGED finished \/ Follow[run.pc] = "end"
    BY <1>2, LoopMayEnd
  <2> QED BY <2>3, <2>4, Follows
<1> QED BY <1>1, <1>2

\* Every write proceeds, takes a turn of its loop or records a file, or aborts.
LEMMA Writes ==
  ASSUME IInv, NEW answered \in BOOLEAN, Write(answered)
  PROVE  /\ run # NoRun /\ run.pc # "idle"
         /\ ~answered => Abort
         /\ answered => \/ Proceed
                        \/ \E x \in run.listed : Turn(x, answered)
                        \/ /\ run.pc = "record" /\ run.left >= 1
                           /\ Goes([run EXCEPT !.pc = Follow["record"], !.left = @ - 1])
<1>1. \/ /\ run.pc \in {"users", "admin", "projects", "tasks", "comments", "upload"}
         /\ Wrote(answered)
      \/ /\ run.pc \in {"linkProjects", "linkTasks", "linkComments", "linkFiles"}
         /\ \E x \in run.listed : Turn(x, answered)
      \/ Record(answered)
  <2>1. ASSUME LinkProject(answered) \/ LinkTask(answered) \/ LinkComment(answered) \/ LinkFile(answered)
        PROVE  /\ run.pc \in {"linkProjects", "linkTasks", "linkComments", "linkFiles"}
               /\ \E x \in run.listed : Turn(x, answered)
    BY <2>1 DEF LinkProject, LinkTask, LinkComment, LinkFile
  <2>2. ASSUME \/ SeedUsers(answered) \/ CreateAdmin(answered) \/ SeedProjects(answered)
               \/ SeedTasks(answered) \/ SeedComments(answered) \/ Upload(answered)
        PROVE  /\ run.pc \in {"users", "admin", "projects", "tasks", "comments", "upload"}
               /\ Wrote(answered)
    BY <2>2 DEF SeedUsers, CreateAdmin, SeedProjects, SeedTasks, SeedComments, Upload
  <2> QED BY <2>1, <2>2 DEF Write
<1>2. CASE Record(answered)
  <2>1. run.left >= 1
    BY <1>2 DEF Record, IInv, Stage, Batches
  <2> QED BY <1>2, <2>1 DEF Record, NoRun
<1>3. CASE ~Record(answered)
  <2>1. run # NoRun /\ run.pc # "idle"
    BY <1>1, <1>3 DEF NoRun
  <2>2. ASSUME ~answered PROVE Abort
    BY <1>1, <1>3, <2>2 DEF Wrote, Turn
  <2>3. ASSUME answered PROVE Proceed \/ \E x \in run.listed : Turn(x, answered)
    BY <1>1, <1>3, <2>3 DEF Wrote
  <2> QED BY <2>1, <2>2, <2>3
<1> QED BY <1>2, <1>3

\* Write
LEMMA WritesRight ==
  ASSUME IInv, NEW answered \in BOOLEAN, Write(answered), runs' = runs,
         IF answered THEN died' = died ELSE died' = died \cup {runs}
  PROVE  RunsOK' /\ (UNCHANGED finished \/ run.pc \in {"linkComments", "linkFiles"})
<1> USE DEF IInv, Solid
<1>1. RunsOK /\ runs \in Nat /\ run # NoRun /\ run.pc # "idle"
  BY Writes DEF TablesOK
<1>2. CASE ~answered
  BY <1>1, <1>2, Writes, AbortsRight DEF Abort
<1>3. CASE answered /\ Proceed
  BY <1>1, <1>3, ProceedsRight
<1>4. CASE answered /\ \E x \in run.listed : Turn(x, answered)
  BY <1>1, <1>4, TurnsRight
<1>5. CASE /\ answered /\ run.pc = "record" /\ run.left >= 1
           /\ Goes([run EXCEPT !.pc = Follow["record"], !.left = @ - 1])
  <2> DEFINE next == [run EXCEPT !.pc = Follow["record"], !.left = @ - 1]
  <2>1. Follow["record"] \in Phases \cup {"end"}
    BY <1>1, <1>5, Follows
  <2>2. next \in [pc : Phases \cup {"end"}, listed : SUBSET Nat, left : 0..FileCount]
    BY <1>1, <1>5, <2>1, LessTyped
  <2> HIDE DEF next
  <2>3. Goes(next)
    BY <1>5 DEF next
  <2>4. RunsOK'
    BY <1>1, <1>5, <2>2, <2>3, GoesRight
  <2>5. UNCHANGED finished
    BY <1>1, <1>5, Records
  <2> QED BY <2>4, <2>5
<1> QED BY <1>2, <1>3, <1>4, <1>5, Writes

-----------------------------------------------------------------------------
(* The invariant *)

\* FinishedIsLinked, run by run.
LEMMA Finished == FinishedIsLinked <=> \A n \in finished : RunLinked(n)
BY DEF FinishedIsLinked, RunLinked

\* The same of the next state.
LEMMA FinishedNext == FinishedIsLinked' <=> \A n \in finished' : RunLinked(n)'
BY DEF FinishedIsLinked, RunLinked

\* Every write, whether its answer arrives or not.
LEMMA WriteStep ==
  ASSUME IInv, NEW answered \in BOOLEAN, Write(answered), runs' = runs,
         IF answered THEN died' = died ELSE died' = died \cup {runs}
  PROVE  IInv'
<1>1. \A n \in finished : RunLinked(n)
  BY Finished DEF IInv
<1>2. /\ Solid' /\ (\A n \in finished : RunLinked(n)') /\ (answered => Stage')
      /\ answered /\ run.pc \in {"linkComments", "linkFiles"} =>
           \A n \in finished' : RunLinked(n)'
  <2>1. CASE SeedUsers(answered)
    BY <1>1, <2>1, UsersStep DEF SeedUsers
  <2>2. CASE CreateAdmin(answered)
    BY <1>1, <2>2, AdminStep DEF CreateAdmin
  <2>3. CASE SeedProjects(answered)
    BY <1>1, <2>3, ProjectsStep DEF SeedProjects
  <2>4. CASE LinkProject(answered)
    BY <1>1, <2>4, LinkProjectStep DEF LinkProject
  <2>5. CASE SeedTasks(answered)
    BY <2>5, TasksStep DEF SeedTasks
  <2>6. CASE LinkTask(answered)
    BY <2>6, LinkTaskStep DEF LinkTask
  <2>7. CASE SeedComments(answered)
    BY <2>7, CommentsStep DEF SeedComments
  <2>8. CASE LinkComment(answered)
    BY <2>8, LinkCommentStep
  <2>9. CASE Upload(answered)
    BY <2>9, UploadStep DEF Upload
  <2>10. CASE Record(answered)
    BY <2>10, RecordStep DEF Record
  <2>11. CASE LinkFile(answered)
    BY <2>11, LinkFileStep
  <2> QED
    BY <2>1, <2>2, <2>3, <2>4, <2>5, <2>6, <2>7, <2>8, <2>9, <2>10, <2>11 DEF Write
<1>3. RunsOK' /\ (UNCHANGED finished \/ run.pc \in {"linkComments", "linkFiles"})
  BY WritesRight
<1>4. CASE answered
  <2>1. \A n \in finished' : RunLinked(n)'
    BY <1>2, <1>3, <1>4
  <2> QED BY <1>2, <1>3, <1>4, <2>1, FinishedNext DEF IInv
<1>5. CASE ~answered
  <2>1. run' = NoRun /\ UNCHANGED finished
    BY <1>5, Writes DEF Abort
  <2> QED BY <1>2, <1>3, <2>1, NoStage, FinishedNext DEF IInv
<1> QED BY <1>4, <1>5

\* The ids an insert draws, whether it takes effect or not.
LEMMA Drawn ==
  ASSUME serial \in [Serials -> Nat \ {0}], run.pc \in DOMAIN Batch, Draw
  PROVE  serial' \in [Serials -> Nat \ {0}] /\ \A t \in Serials : serial'[t] >= serial[t]
<1>1. Batch[run.pc].table \in Serials /\ Batch[run.pc].size \in Nat
  BY DEF Batch, Serials
<1> QED BY <1>1 DEF Draw

\* A step that aborts the run and writes no row.
LEMMA AbortStep ==
  ASSUME IInv, run # NoRun, Abort, UNCHANGED <<runs, tables, objects>>,
         UNCHANGED serial \/ (run.pc \in DOMAIN Batch /\ Draw), died' \in {died, died \cup {runs}}
  PROVE  IInv'
<1> USE DEF IInv, Solid
<1>1. serial' \in [Serials -> Nat \ {0}] /\ \A t \in Serials : serial'[t] >= serial[t]
  <2>1. serial \in [Serials -> Nat \ {0}]
    BY DEF TablesOK
  <2>2. UNCHANGED serial => \A t \in Serials : serial'[t] >= serial[t]
    BY <2>1
  <2> QED BY <2>1, <2>2, Drawn
<1>2. Solid' /\ \A n : RunLinked(n) => RunLinked(n)'
  BY <1>1, TablesAlone DEF TablesOK
<1>3. run' = NoRun /\ UNCHANGED finished
  BY DEF Abort
<1>4. FinishedIsLinked'
  BY <1>2, <1>3, Finished, FinishedNext
<1>5. RunsOK'
  BY AbortsRight DEF TablesOK
<1> QED BY <1>2, <1>3, <1>4, <1>5, NoStage

\* Bootstrap
LEMMA BootstrapStep == IInv /\ Bootstrap => IInv'
<1> SUFFICES ASSUME IInv, Bootstrap PROVE IInv'
  OBVIOUS
<1> USE DEF IInv, Solid, Bootstrap
<1>1. UNCHANGED <<serial, user, project, admin, task, comment, file, member, objects>>
  BY DEF tables, links
<1>2. runs \in Nat /\ runs' = runs + 1 /\ runs' \in 0..Runs /\ Now' = Now + 2 /\ Now \in Nat
  BY DEF TablesOK, Now
<1>3. TablesOK'
  <2>1. ASSUME NEW f, NEW R, NEW last, Rows(f, R, last, Now + 1), \A row \in R : row.at \in Nat
        PROVE  Rows(f, R, last, Now' + 1)
    BY <1>2, <2>1 DEF Rows
  <2>2. /\ \A row \in Stamped : row.at \in Nat
        /\ \A row \in TaskRow : row.at \in Nat
        /\ \A row \in CommentRow : row.at \in Nat
        /\ \A row \in FileRow : row.at \in Nat
    BY DEF Stamped, TaskRow, CommentRow, FileRow
  <2>3. /\ Rows(user, Stamped, serial["User"], Now' + 1)
        /\ Rows(project, Stamped, serial["Project"], Now' + 1)
        /\ Rows(task, TaskRow, serial["Task"], Now' + 1)
        /\ Rows(comment, CommentRow, serial["Comment"], Now' + 1)
        /\ Rows(file, FileRow, serial["File"], Now' + 1)
    BY <2>1, <2>2 DEF TablesOK
  <2>4. TasksRefer' /\ CommentsRefer' /\ FilesRefer'
    BY <1>1 DEF TablesOK, TasksRefer, CommentsRefer, FilesRefer
  <2> QED BY <1>1, <1>2, <2>3, <2>4 DEF TablesOK
<1>4. MadeOnce'
  BY <1>1 DEF MadeOnce, MadeAt, Stamps
<1>5. LinkedOrPlaceholder' /\ \A n : RunLinked(n) => RunLinked(n)'
  BY <1>1, LinksSurvive
<1>6. FinishedIsLinked'
  BY <1>5, Finished, FinishedNext
<1>7. PICK left \in {0, FileCount} : run' = [NoRun EXCEPT !.pc = "users", !.left = left]
  OBVIOUS
<1>8. /\ run' \in [pc : {"idle", "users", "admin"} \cup Main, listed : SUBSET Nat, left : 0..FileCount]
      /\ run'.pc = "users" /\ run'.left \in {0, FileCount}
  <2>1. left \in 0..FileCount
    BY <1>7
  <2>2. run' = [pc |-> "users", listed |-> {}, left |-> left]
    BY <1>7 DEF NoRun
  <2> QED BY <1>7, <2>1, <2>2
<1>9. RunsOK'
  BY <1>2, <1>8 DEF RunsOK
<1>10. Stage'
  BY <1>8 DEF Stage, Alone, Batches, Listed, Linked, Main, ToFiles, ToComments, ToTasks
<1> QED BY <1>3, <1>4, <1>5, <1>6, <1>9, <1>10

\* The strengthened invariant holds of a database that was used before.
LEMMA InitIInv == Init => IInv
<1> SUFFICES ASSUME Init PROVE IInv
  OBVIOUS
<1> USE DEF Init
<1>1. PICK used \in {{}, {1}} :
         /\ user \in {Table(I, [at |-> 0]) : I \in SUBSET used}
         /\ project \in {Table(I, [at |-> 0]) : I \in SUBSET used}
         /\ serial = [t \in {"User", "Project", "Task", "Comment", "File"} |->
                        IF t \in {"User", "Project", "Task"} /\ used # {} THEN 2 ELSE 1]
  OBVIOUS
<1>2. Now = 0 /\ runs = 0
  BY DEF Now
<1>3. /\ serial \in [Serials -> Nat \ {0}]
      /\ used \subseteq 1..(serial["User"] - 1) /\ used \subseteq 1..(serial["Project"] - 1)
      /\ used \subseteq 1..(serial["Task"] - 1)
  BY <1>1 DEF Serials
<1>4. /\ DOMAIN user \subseteq used /\ user = [i \in DOMAIN user |-> [at |-> 0]]
      /\ DOMAIN project \subseteq used /\ project = [i \in DOMAIN project |-> [at |-> 0]]
  BY <1>1 DEF Table
<1>5. /\ DOMAIN task \subseteq (DOMAIN user) \cap (DOMAIN project)
      /\ task = [i \in DOMAIN task |-> [at |-> 0, project |-> 1, assignee |-> 1, creator |-> 1]]
  BY DEF Table
<1>6. DOMAIN comment = {} /\ DOMAIN file = {}
  OBVIOUS
<1>7. /\ user \in [DOMAIN user -> Stamped] /\ \A i \in DOMAIN user : user[i].at = 0
      /\ project \in [DOMAIN project -> Stamped] /\ \A i \in DOMAIN project : project[i].at = 0
  BY <1>4 DEF Stamped
<1>8. /\ task \in [DOMAIN task -> TaskRow]
      /\ \A i \in DOMAIN task : /\ task[i].at = 0 /\ task[i].project = 1
                                /\ task[i].assignee = 1 /\ task[i].creator = 1
  BY <1>5 DEF TaskRow
<1>9. comment \in [DOMAIN comment -> CommentRow] /\ file \in [DOMAIN file -> FileRow]
  OBVIOUS
<1>10. \A i \in DOMAIN task : i = 1 /\ 1 \in DOMAIN user /\ 1 \in DOMAIN project
  BY <1>1, <1>4, <1>5
<1>11. TasksRefer /\ CommentsRefer /\ FilesRefer
  BY <1>6, <1>8, <1>10 DEF TasksRefer, CommentsRefer, FilesRefer
<1>12. DOMAIN task \subseteq used
  BY <1>4, <1>5
<1>13. /\ Rows(user, Stamped, serial["User"], Now + 1)
       /\ Rows(project, Stamped, serial["Project"], Now + 1)
  BY <1>2, <1>3, <1>4, <1>7 DEF Rows
<1>14. /\ Rows(task, TaskRow, serial["Task"], Now + 1)
       /\ Rows(comment, CommentRow, serial["Comment"], Now + 1)
       /\ Rows(file, FileRow, serial["File"], Now + 1)
  BY <1>2, <1>3, <1>6, <1>8, <1>9, <1>12 DEF Rows
<1>15. TablesOK
  <2>1. runs \in 0..Runs /\ objects \in Nat /\ admin \in BOOLEAN
    <3>1. objects = 0 /\ runs = 0
      OBVIOUS
    <3>3. admin \in BOOLEAN
      OBVIOUS
    <3>2. Runs \in Nat
      BY ONLY CountAssumption
    <3>4. runs \in 0..Runs /\ objects \in Nat
      BY ONLY <3>1, <3>2
    <3> QED BY <3>3, <3>4
  <2>2. member \subseteq (DOMAIN user) \X (DOMAIN project)
    OBVIOUS
  <2> QED BY <1>3, <1>11, <1>13, <1>14, <2>1, <2>2 DEF TablesOK
<1>16. MadeAt(0) /\ MadeOnce
  BY <1>6, <1>7, <1>8 DEF MadeAt, Stamps, MadeOnce
<1>17. LinkedOrPlaceholder /\ FinishedIsLinked
  BY <1>6, <1>8 DEF LinkedOrPlaceholder, FinishedIsLinked
<1>18. RunsOK
  BY <1>2 DEF RunsOK, NoRun
<1>19. Stage
  BY DEF Stage, Alone, Batches, Listed, Linked, NoRun, Main, ToFiles, ToComments, ToTasks
<1> QED BY <1>15, <1>16, <1>17, <1>18, <1>19 DEF IInv, Solid

\* NobodyToDraw throws in the loops only.
LEMMA DrawsInLoops == NobodyToDraw => run # NoRun /\ run.pc # "record"
BY DEF NobodyToDraw, Drawable, NoRun

\* Every step keeps the strengthened invariant.
LEMMA StepIInv == IInv /\ [Next]_vars => IInv'
<1> SUFFICES ASSUME IInv, [Next]_vars PROVE IInv'
  OBVIOUS
<1>1. CASE UNCHANGED vars
  <2>1. /\ UNCHANGED <<serial, user, project, admin, task, comment, file, member, objects>>
        /\ UNCHANGED <<runs, run, finished, died>>
    BY <1>1 DEF vars, tables, links
  <2>2. RunsOK' /\ MadeOnce' /\ LinkedOrPlaceholder' /\ FinishedIsLinked'
    <3>1. /\ \A n : RunLinked(n) => RunLinked(n)'
          /\ LinkedOrPlaceholder'
      BY <2>1, LinksSurvive DEF IInv, Solid
    <3>2. RunsOK'
      BY <2>1 DEF IInv, RunsOK
    <3>3. MadeOnce'
      BY <2>1, MadeKeeps DEF IInv, Solid
    <3> QED BY <2>1, <3>1, <3>2, <3>3, Finished, FinishedNext DEF IInv
  <2>3. TablesOK'
    BY <2>1 DEF IInv, Solid, TablesOK, TasksRefer, CommentsRefer, FilesRefer, Now
  <2>4. /\ Fresh(user)' = Fresh(user) /\ Fresh(project)' = Fresh(project)
        /\ Fresh(task)' = Fresh(task) /\ Fresh(comment)' = Fresh(comment)
        /\ Fresh(file)' = Fresh(file) /\ Now' = Now
    BY <2>1 DEF Fresh, Now
  <2>5. Alone' /\ Batches' /\ Listed'
    BY <2>1, <2>4 DEF IInv, Stage, Alone, MadeAt, Batches, Placeholders, Stamps, Listed
  <2>6. /\ \A t : TaskLinked(t) => TaskLinked(t)'
        /\ \A c : CommentLinked(c) => CommentLinked(c)'
        /\ \A f : FileLinked(f) => FileLinked(f)'
    BY <2>1, LinksKeep
  <2>7. Linked'
    BY <2>1, <2>4, <2>6 DEF IInv, Stage, Linked
  <2> QED BY <2>2, <2>3, <2>5, <2>7 DEF IInv, Solid, Stage
<1>2. CASE Bootstrap
  BY <1>2, BootstrapStep
<1>3. CASE Write(TRUE) /\ UNCHANGED <<runs, died>>
  BY <1>3, WriteStep
<1>4. CASE Write(FALSE) /\ died' = died \cup {runs} /\ UNCHANGED runs
  BY <1>4, WriteStep
<1>5. CASE List /\ UNCHANGED <<runs, died>>
  <2>1. Solid' /\ (\A n : RunLinked(n) => RunLinked(n)') /\ Stage'
    BY <1>5, ListStep
  <2>2. /\ UNCHANGED finished /\ run'.pc = Follow[run.pc] /\ run'.left = run.left
        /\ Follow[run.pc] # "end" /\ run # NoRun /\ run.pc # "idle"
    BY <1>5, Lists DEF IInv, Follow, NoRun
  <2>3. FinishedIsLinked'
    BY <2>1, <2>2, Finished, FinishedNext DEF IInv
  <2>4. RunsOK'
    <3>1. PICK L : /\ Goes([run EXCEPT !.pc = Follow[run.pc], !.listed = L])
                   /\ \/ L \in Latest(user, UserCount) \/ L \in Latest(task, TaskCount)
                      \/ L \in Latest(comment, CommentCount) \/ L \in Latest(file, FileCount)
      BY <1>5 DEF List
    <3>2. L \in SUBSET Nat
      BY <3>1 DEF Latest, IInv, Solid, TablesOK, Rows
    <3>3. Follow[run.pc] \in Phases \cup {"end"}
      BY <2>2, Follows DEF IInv
    <3>4. RunsOK /\ runs \in Nat
      BY DEF IInv, Solid, TablesOK
    <3>5. [run EXCEPT !.pc = Follow[run.pc], !.listed = L]
            \in [pc : Phases \cup {"end"}, listed : SUBSET Nat, left : 0..FileCount]
      BY ONLY <3>2, <3>3, <3>4, NextTyped
    <3> QED BY <1>5, <2>2, <3>1, <3>4, <3>5, GoesRight
  <2> QED BY <2>1, <2>3, <2>4 DEF IInv
<1>6. CASE Violates /\ UNCHANGED <<runs, died>>
  <2>1. run # NoRun /\ run.pc \in DOMAIN Batch
    BY <1>6 DEF Violates, NoRun, Batch
  <2> QED BY <1>6, <2>1, AbortStep DEF Violates
<1>7. CASE NobodyToDraw /\ UNCHANGED <<runs, died>>
  BY <1>7, DrawsInLoops, AbortStep DEF NobodyToDraw
<1>8. CASE Breaks /\ died' = died \cup {runs} /\ UNCHANGED runs
  BY <1>8, AbortStep DEF Breaks
<1> QED BY <1>1, <1>2, <1>3, <1>4, <1>5, <1>6, <1>7, <1>8 DEF Next, Serve, Fault

\* The strengthened invariant holds throughout.
THEOREM Invariance == Spec => []IInv
<1> QED BY InitIInv, StepIInv, PTL DEF Spec

\* The tables, the run and what the runs came to have their types.
THEOREM TypeCorrect == Spec => []TypeOK
<1>1. IInv => TypeOK
  BY Typed DEF IInv, Solid
<1> QED BY <1>1, Invariance, PTL

\* Wherever a run stops, what it inserted is linked or has its placeholders.
THEOREM NoneIsHalfLinked == Spec => []LinkedOrPlaceholder
<1>1. IInv => LinkedOrPlaceholder
  BY DEF IInv, Solid
<1> QED BY <1>1, Invariance, PTL

\* SeedService.run comes to its end only with every row it inserted linked.
THEOREM TheEndIsLinked == Spec => []FinishedIsLinked
<1>1. IInv => FinishedIsLinked
  BY DEF IInv
<1> QED BY <1>1, Invariance, PTL

\* Only one run ever gets past the admin's email.
THEOREM SeedsOnce == Spec => []OnceOnly
<1>1. ASSUME IInv PROVE OnceOnly
  <2>1. PICK m \in Nat : MadeAt(m)
    BY <1>1 DEF IInv, Solid, MadeOnce
  <2> DEFINE Ages == UNION {{f[i].at : i \in DOMAIN f} : f \in {project, task, comment, file}}
             Made == Ages \ {0}
  <2>2. ASSUME NEW x \in Made PROVE x = m
    <3>1. PICK f \in {project, task, comment, file} : x \in {f[i].at : i \in DOMAIN f}
      OBVIOUS
    <3>2. PICK i \in DOMAIN f : x = f[i].at
      BY <3>1
    <3>3. Stamps(project, m) /\ Stamps(task, m) /\ Stamps(comment, m) /\ Stamps(file, m)
      BY <2>1 DEF MadeAt
    <3>4. Stamps(f, m)
      BY ONLY <3>1, <3>3
    <3>5. x # 0
      <4> HIDE DEF Ages
      <4> QED OBVIOUS
    <3> QED BY <3>2, <3>4, <3>5 DEF Stamps
  <2> HIDE DEF Made, Ages
  <2>3. IsFiniteSet({m}) /\ Cardinality({m}) = 1
    BY FS_Singleton
  <2>4. Cardinality(Made) <= 1
    <3>1. Made \subseteq {m}
      BY <2>2
    <3> QED BY <2>3, <3>1, FS_Subset
  <2> QED BY <2>4 DEF OnceOnly, Made, Ages
<1> QED BY <1>1, Invariance, PTL

-----------------------------------------------------------------------------
Holds(f, g) == \A i \in DOMAIN f : f[i].at < Now => g[i] = f[i]

\* What each action may write: it inserts rows, or links one of this run's.
LEMMA KeepsOthers ==
  ASSUME IInv, NEW answered \in BOOLEAN, Write(answered)
  PROVE  /\ Holds(task, task') /\ Holds(comment, comment') /\ Holds(file, file')
         /\ \A m \in member' \ member : user[m[1]].at >= Now /\ project[m[2]].at >= Now
<1> USE DEF IInv, Solid
<1>1. Now \in Nat /\ serial \in [Serials -> Nat \ {0}]
  BY DEF TablesOK, Now
<1>2. ASSUME NEW f, NEW g, NEW x \in Fresh(f), NEW row, g = [f EXCEPT ![x] = row],
             \A i \in DOMAIN f : f[i].at \in Nat
      PROVE  Holds(f, g)
  BY <1>1, <1>2 DEF Holds, Fresh
<1>3. \A f : Holds(f, f)
  BY DEF Holds
<1>4. /\ \A i \in DOMAIN task : task[i].at \in Nat
      /\ \A i \in DOMAIN comment : comment[i].at \in Nat
      /\ \A i \in DOMAIN file : file[i].at \in Nat
  BY DEF TablesOK, Rows, TaskRow, CommentRow, FileRow
<1>5. CASE SeedUsers(answered) \/ CreateAdmin(answered) \/ SeedProjects(answered) \/ Upload(answered)
  <2>1. UNCHANGED <<task, comment, file, member>>
    BY <1>5 DEF SeedUsers, CreateAdmin, SeedProjects, Upload, tables, links
  <2> QED BY <1>3, <2>1
<1>6. CASE LinkProject(answered)
  <2>1. PICK u \in run.listed, p \in LatestProjects : member' = member \cup {<<u, p>>}
    BY <1>6 DEF LinkProject
  <2>2. u \in Fresh(user) /\ run.pc = "linkProjects"
    BY <1>6 DEF LinkProject, Stage, Listed
  <2>3. Cardinality(Fresh(project)) >= ProjectCount
    BY <2>2 DEF Stage, Batches, Main, ToFiles, ToComments, ToTasks
  <2>4. p \in Fresh(project)
    BY <2>3, ProjectsAreFresh
  <2>5. UNCHANGED <<task, comment, file>>
    BY <1>6 DEF LinkProject
  <2> QED BY <1>3, <2>1, <2>2, <2>4, <2>5 DEF Fresh
<1>7. CASE SeedTasks(answered)
  <2> DEFINE row == [at |-> Now, project |-> 1, assignee |-> 1, creator |-> 1]
  <2>1. /\ task' = With(task, row) /\ Draw /\ UNCHANGED <<comment, file, member>>
        /\ Batch[run.pc] = [table |-> "Task", size |-> TaskCount]
    BY <1>7 DEF SeedTasks, Batch
  <2>2. row \in TaskRow /\ row.at <= Now + 1
    BY <1>1 DEF TaskRow
  <2>3. Rows(task, TaskRow, serial["Task"], Now + 1) /\ "Task" \in Serials /\ TaskCount \in Nat \ {0}
    BY DEF TablesOK, Serials
  <2> HIDE DEF row
  <2>4. Adds(task, task', row, serial["Task"], TaskCount)
    BY ONLY <1>1, <2>1, <2>2, <2>3, Inserted
  <2> QED BY <1>3, <2>1, <2>4 DEF Holds, Adds
<1>8. CASE LinkTask(answered)
  <2>1. PICK t \in run.listed, p \in LatestProjects : \E a, c \in Draftees(p) :
           task' = [task EXCEPT ![t] = [@ EXCEPT !.project = p, !.assignee = a, !.creator = c]]
    BY <1>8 DEF LinkTask
  <2>2. \E row : task' = [task EXCEPT ![t] = row]
    BY <2>1
  <2>3. t \in Fresh(task) /\ UNCHANGED <<comment, file, member>>
    BY <1>8 DEF LinkTask, Stage, Listed
  <2> QED BY <1>2, <1>3, <1>4, <2>2, <2>3
<1>9. CASE SeedComments(answered)
  <2>1. DOMAIN comment = {} /\ UNCHANGED <<task, file, member>>
    BY <1>9 DEF SeedComments, Stage, Batches, ToComments
  <2> QED BY <1>3, <2>1 DEF Holds
<1>10. CASE LinkComment(answered)
  <2>1. PICK c \in run.listed, o \in LatestOwners : \E u \in Draftees(ProjectOf(o)) :
           comment' = [comment EXCEPT ![c] = [@ EXCEPT !.on = o, !.by = u]]
    BY <1>10 DEF LinkComment
  <2>2. \E row : comment' = [comment EXCEPT ![c] = row]
    BY <2>1
  <2>3. c \in Fresh(comment) /\ UNCHANGED <<task, file, member>>
    BY <1>10 DEF LinkComment, Stage, Listed
  <2> QED BY <1>2, <1>3, <1>4, <2>2, <2>3
<1>11. CASE Record(answered)
  <2>1. PICK image \in BOOLEAN :
          file' = With(file, [at |-> Now, on |-> <<"Comment", 1>>, by |-> 1, image |-> image])
    BY <1>11 DEF Record
  <2> DEFINE row == [at |-> Now, on |-> <<"Comment", 1>>, by |-> 1, image |-> image]
  <2>2. /\ file' = With(file, row) /\ Draw /\ UNCHANGED <<task, comment, member>>
        /\ Batch[run.pc] = [table |-> "File", size |-> 1]
    BY <1>11, <2>1 DEF Record, Batch
  <2>3. row \in FileRow /\ row.at <= Now + 1
    BY <1>1 DEF FileRow
  <2>4. Rows(file, FileRow, serial["File"], Now + 1) /\ "File" \in Serials /\ 1 \in Nat \ {0}
    BY DEF TablesOK, Serials
  <2> HIDE DEF row
  <2>5. Adds(file, file', row, serial["File"], 1)
    BY ONLY <1>1, <2>2, <2>3, <2>4, Inserted
  <2> QED BY <1>3, <2>2, <2>5 DEF Holds, Adds
<1>12. CASE LinkFile(answered)
  <2>1. PICK f \in run.listed : \E o \in LatestHolders(file[f].image) :
          \E u \in Draftees(HolderProject(o)) :
            file' = [file EXCEPT ![f] = [@ EXCEPT !.on = o, !.by = u]]
    BY <1>12 DEF LinkFile
  <2>2. \E row : file' = [file EXCEPT ![f] = row]
    BY <2>1
  <2>3. f \in Fresh(file) /\ UNCHANGED <<task, comment, member>>
    BY <1>12 DEF LinkFile, Stage, Listed
  <2> QED BY <1>2, <1>3, <1>4, <2>2, <2>3
<1> QED
  BY <1>5, <1>6, <1>7, <1>8, <1>9, <1>10, <1>11, <1>12 DEF Write

\* A run links its own rows only, and makes its own users members of its own
\* projects.
THEOREM OthersAreKept == Spec => OthersKept
<1> DEFINE A == /\ Holds(task, task') /\ Holds(comment, comment') /\ Holds(file, file')
                /\ \A m \in member' \ member : user[m[1]].at >= Now /\ project[m[2]].at >= Now
<1>1. IInv /\ [Next]_vars => [A]_vars
  <2> SUFFICES ASSUME IInv, Next PROVE A
    OBVIOUS
  <2>1. CASE Write(TRUE) \/ Write(FALSE)
    BY <2>1, KeepsOthers
  <2>2. CASE ~(Write(TRUE) \/ Write(FALSE))
    <3>1. UNCHANGED <<task, comment, file, member>>
      BY <2>2 DEF Next, Bootstrap, Serve, Fault, List, Violates, NobodyToDraw, Breaks, tables, links
    <3> QED BY <3>1 DEF Holds
  <2> QED BY <2>1, <2>2
<1>2. [A]_vars => [LET Kept(f, g) == \A i \in DOMAIN f : f[i].at < Now => g[i] = f[i]
                   IN  /\ Kept(task, task') /\ Kept(comment, comment') /\ Kept(file, file')
                       /\ \A m \in member' \ member :
                            user[m[1]].at >= Now /\ project[m[2]].at >= Now]_vars
  BY DEF Holds
<1> QED BY <1>1, <1>2, Invariance, PTL DEF Spec, OthersKept

-----------------------------------------------------------------------------
\* The insert of a file adds one row.
LEMMA RecordAdds ==
  ASSUME IInv, NEW answered \in BOOLEAN, Record(answered)
  PROVE  Cardinality(DOMAIN file') = Cardinality(DOMAIN file) + 1
<1>1. PICK image \in BOOLEAN :
        file' = With(file, [at |-> Now, on |-> <<"Comment", 1>>, by |-> 1, image |-> image])
  BY DEF Record
<1>2. Batch[run.pc].table = "File" /\ Batch[run.pc].size = 1 /\ serial["File"] \in Nat \ {0}
  BY DEF Record, Batch, IInv, Solid, TablesOK, Serials
<1>3. DOMAIN file' = DOMAIN file \cup serial["File"]..serial["File"]
  BY <1>1, <1>2 DEF With
<1>4. serial["File"]..serial["File"] = {serial["File"]} /\ serial["File"] \notin DOMAIN file
  BY <1>2 DEF IInv, Solid, TablesOK, Rows
<1>5. IsFiniteSet(DOMAIN file)
  BY <1>2, RowsFinite DEF IInv, Solid, TablesOK
<1> QED BY <1>3, <1>4, <1>5, FS_AddElement

\* The steps that neither upload nor record anything.
LEMMA OthersAddNoObject ==
  ASSUME IInv, Next, ~Upload(TRUE), ~Upload(FALSE), ~Record(TRUE), ~Record(FALSE)
  PROVE  /\ objects' = objects /\ DOMAIN file' = DOMAIN file /\ died' \in {died, died \cup {runs}}
         /\ run.pc = "record" => runs \in died' \ died
<1> USE DEF IInv
<1>1. CASE Bootstrap
  BY <1>1 DEF Bootstrap, tables, links, NoRun
<1>2. CASE List \/ Violates \/ NobodyToDraw
  <2>1. run.pc # "record" /\ UNCHANGED <<tables, objects>>
    BY <1>2, DrawsInLoops, Lists DEF List, Violates, NobodyToDraw, Drawable
  <2>2. died' = died \/ died' = died \cup {runs}
    BY DEF Next, Bootstrap, Serve, Fault
  <2> QED BY <2>1, <2>2 DEF tables, links
<1>3. CASE Breaks /\ died' = died \cup {runs}
  <2>1. runs \notin died
    BY <1>3 DEF Breaks, RunsOK
  <2> QED BY <1>3, <2>1 DEF Breaks, tables, links
<1>4. ASSUME NEW answered \in BOOLEAN, Write(answered), died' \in {died, died \cup {runs}},
             ~Upload(answered), ~Record(answered)
      PROVE  objects' = objects /\ DOMAIN file' = DOMAIN file /\ run.pc # "record"
  BY <1>4
  DEF Write, SeedUsers, CreateAdmin, SeedProjects, LinkProject, SeedTasks, LinkTask,
      SeedComments, LinkComment, LinkFile, links
<1>5. CASE Write(TRUE) /\ died' = died
  BY <1>4, <1>5
<1>6. CASE Write(FALSE) /\ died' = died \cup {runs}
  BY <1>4, <1>6
<1> QED BY <1>1, <1>2, <1>3, <1>5, <1>6 DEF Next, Serve, Fault

\* A run uploads an object whose row it does not insert only where it dies.
THEOREM OneLeaks == Spec => []OneLeakPerRun
<1>1. Init => OneLeakPerRun
  BY FS_EmptySet DEF Init, OneLeakPerRun, NoRun
<1>2. IInv /\ IInv' /\ OneLeakPerRun /\ [Next]_vars => OneLeakPerRun'
  <2> SUFFICES ASSUME IInv, IInv', OneLeakPerRun, [Next]_vars PROVE OneLeakPerRun'
    OBVIOUS
  <2>1. IsFiniteSet(DOMAIN file) /\ Cardinality(DOMAIN file) \in Nat /\ objects \in Nat
    BY RowsFinite, FS_CardinalityType DEF IInv, Solid, TablesOK, Serials
  <2>2. IsFiniteSet(died) /\ Cardinality(died) \in Nat
    <3>1. died \subseteq 1..runs /\ 1 \in Int /\ runs \in Int
      BY DEF IInv, Solid, TablesOK, RunsOK
    <3>2. IsFiniteSet(1..runs)
      BY ONLY <3>1, FS_Interval
    <3> QED BY <3>1, <3>2, FS_Subset, FS_CardinalityType
  <2>3. runs \notin died => Cardinality(died \cup {runs}) = Cardinality(died) + 1
    BY <2>2, FS_AddElement
  <2>4. /\ Cardinality(died \cup {runs}) \in Nat
        /\ Cardinality(died \cup {runs}) >= Cardinality(died)
    <3>1. CASE runs \in died
      <4>1. died \cup {runs} = died
        BY <3>1
      <4> QED BY <2>2, <4>1
    <3> QED BY <2>2, <2>3, <3>1
  <2>5. CASE UNCHANGED vars
    BY <2>5 DEF vars, tables, links, OneLeakPerRun
  <2>6. CASE Next /\ (Upload(TRUE) \/ Upload(FALSE))
    <3>1. /\ objects' = objects + 1 /\ DOMAIN file' = DOMAIN file /\ run.pc = "upload"
          /\ run # NoRun /\ runs \notin died
      <4>1. objects' = objects + 1 /\ DOMAIN file' = DOMAIN file /\ run.pc = "upload"
        BY <2>6 DEF Upload, tables, links
      <4>2. run # NoRun
        BY <4>1 DEF NoRun
      <4>3. runs \notin died
        BY <4>2 DEF IInv, RunsOK
      <4> QED BY <4>1, <4>2, <4>3
    <3>2. CASE Upload(TRUE) /\ died' = died
      <4>1. run'.pc = "record"
        BY <3>1, <3>2, Proceeds DEF Upload, Wrote, Follow, IInv
      <4> QED BY <2>1, <2>2, <3>1, <3>2, <4>1 DEF OneLeakPerRun
    <3>3. CASE died' = died \cup {runs}
      <4>1. run'.pc = "record" \/ run'.pc # "record"
        OBVIOUS
      <4> QED BY <2>1, <2>2, <2>3, <3>1, <3>3 DEF OneLeakPerRun
    <3>4. objects' # objects
      BY <2>1, <3>1
    <3>5. CASE Serve
      <4>1. Write(TRUE) /\ died' = died
        BY <3>4, <3>5 DEF Serve, List, Violates, NobodyToDraw
      <4>2. Upload(TRUE)
        BY <3>1, <4>1
        DEF Write, SeedUsers, CreateAdmin, SeedProjects, LinkProject, SeedTasks, LinkTask,
            SeedComments, LinkComment, Record, LinkFile
      <4> QED BY <3>2, <4>1, <4>2
    <3> QED BY <2>6, <3>3, <3>4, <3>5 DEF Next, Bootstrap, Fault
  <2>7. CASE Next /\ (Record(TRUE) \/ Record(FALSE))
    <3>1. objects' = objects /\ Cardinality(DOMAIN file') = Cardinality(DOMAIN file) + 1
      BY <2>7, RecordAdds DEF Record
    <3>2. died' = died \/ died' = died \cup {runs}
      BY <2>7 DEF Next, Bootstrap, Serve, Fault
    <3>3. Cardinality(died') \in Nat /\ Cardinality(died') >= Cardinality(died)
      BY <2>2, <2>4, <3>2
    <3> QED BY <2>1, <2>2, <3>1, <3>3 DEF OneLeakPerRun
  <2>8. CASE Next /\ ~Upload(TRUE) /\ ~Upload(FALSE) /\ ~Record(TRUE) /\ ~Record(FALSE)
    <3>1. /\ objects' = objects /\ DOMAIN file' = DOMAIN file /\ died' \in {died, died \cup {runs}}
          /\ run.pc = "record" => runs \in died' \ died
      BY <2>8, OthersAddNoObject
    <3>2. CASE run.pc = "record"
      <4>1. died' = died \cup {runs} /\ runs \notin died
        BY <3>1, <3>2
      <4> QED BY <2>1, <2>2, <2>3, <3>1, <3>2, <4>1 DEF OneLeakPerRun
    <3>3. CASE run.pc # "record"
      <4>1. Cardinality(died') \in Nat /\ Cardinality(died') >= Cardinality(died)
        BY <2>2, <2>4, <3>1
      <4> QED BY <2>1, <2>2, <3>1, <3>3, <4>1 DEF OneLeakPerRun
    <3> QED BY <3>2, <3>3
  <2> QED BY <2>5, <2>6, <2>7, <2>8
<1> QED BY <1>1, <1>2, Invariance, PTL DEF Spec
=============================================================================

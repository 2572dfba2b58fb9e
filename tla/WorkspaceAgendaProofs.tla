------------------------- MODULE WorkspaceAgendaProofs -------------------------
(***************************************************************************)
(* What a request may rely on when it reaches a step of its agenda, for    *)
(* any number of requests, users and ids: the id it inserts is its own,    *)
(* and whoever is assigned a task or comments was seen to be a member.     *)
(***************************************************************************)
EXTENDS WorkspaceProofs, Integers

\* The step inserts the row x.
Inserts(s, x) == s[1] \in {"insertProject", "insertTask", "insertComment"} /\ s[2] = x

\* A request is still going to insert x.
Pending(x) == \E r \in Requests : \E i \in 1..Len(job[r].agenda) : Inserts(job[r].agenda[i], x)

\* x was handed out, and nobody is going to insert it any more.
Settled(x) == x \in issued /\ ~Pending(x)

\* An id is inserted by one step of one request, once.
IdInv ==
  /\ \A x \in Fileables : Pending(x) => x \in issued
  /\ \A x \in Fileables : x \in Live => Settled(x)
  /\ \A r, q \in Requests :
       \A i \in 1..Len(job[r].agenda), j \in 1..Len(job[q].agenda) : \A x \in Fileables :
         Inserts(job[r].agenda[i], x) /\ Inserts(job[q].agenda[j], x) => r = q /\ i = j

\* The member v of p was seen, or the step before i is about to ask.
Asked(a, i, saw, p, v) ==
  IF i = 1 THEN <<v, p>> \in saw ELSE a[i - 1] = <<"assign", p, v>>

\* The project that o belongs to as long as it exists.
Within(o, p) ==
  /\ Settled(o)
  /\ o \in Projects => o = p
  /\ o \in LiveTasks => task[o].project = p

\* Step i of agenda a, which u sent and which saw these members, only writes
\* what its steps before i ask about.
Entitled(a, i, u, saw) ==
  /\ \A t \in Tasks, p \in Projects, v \in Users :
       a[i] = <<"insertTask", t, p, v>> => Asked(a, i, saw, p, v)
  /\ \A t \in Tasks, v \in Users : a[i] = <<"update", t, v>> =>
       \E p \in Projects : Within(t, p) /\ Asked(a, i, saw, p, v)
  /\ \A c \in Comments, o \in Projects \cup Tasks : a[i] = <<"insertComment", c, o>> =>
       \/ i > 1 /\ a[i - 1] = <<"guard", o>>
       \/ \E p \in Projects :
            /\ Within(o, p)
            /\ IF i = 1 THEN AtLeastManager(u) \/ <<u, p>> \in saw
               ELSE a[i - 1] = <<"guard", p>>

EntitledInv ==
  \A r \in Requests : \A i \in 1..Len(job[r].agenda) :
    Entitled(job[r].agenda, i, job[r].user, job[r].saw)

-----------------------------------------------------------------------------
\* Once settled, an id stays so, and what is gone stays away.
Settles == \A x \in Fileables : Settled(x) => Settled(x)' /\ (x \notin Live => (x \notin Live)')

\* A settled row keeps what its steps were asked about.
KeepsRows ==
  /\ \A t \in Tasks : Settled(t) /\ task'[t] # NoRow =>
       task[t] # NoRow /\ task'[t].project = task[t].project
  /\ \A c \in Comments : Settled(c) /\ comment'[c] # NoRow => comment'[c] = comment[c]

\* The agenda of a request that goes on is the steps it leads to and then what
\* was left of it.
LEMMA Went ==
  ASSUME JobsOK, NEW r \in Requests, NEW steps \in Seq(Step), job[r].agenda # <<>>,
         Then(r, steps)
  PROVE  /\ Len(job'[r].agenda) = Len(steps) + Len(job[r].agenda) - 1
         /\ \A i \in 1..Len(steps) : job'[r].agenda[i] = steps[i]
         /\ \A i \in 1..Len(job'[r].agenda) : i > Len(steps) =>
              /\ i - Len(steps) + 1 \in 2..Len(job[r].agenda)
              /\ job'[r].agenda[i] = job[r].agenda[i - Len(steps) + 1]
         /\ job'[r].agenda # <<>> =>
              job'[r].user = job[r].user /\ job'[r].saw = job[r].saw \cup member
         /\ \A q \in Requests \ {r} : job'[q] = job[q]
<1> DEFINE a == job[r].agenda
           b == steps \o Tail(a)
<1>1. a \in Seq(Step) /\ Len(a) \in Nat \ {0} /\ Tail(a) \in Seq(Step) /\ Len(Tail(a)) = Len(a) - 1
  BY DEF JobsOK, Job
<1>2. \A i \in 1..Len(Tail(a)) : Tail(a)[i] = a[i + 1]
  BY <1>1
<1>3. /\ b \in Seq(Step) /\ Len(b) = Len(steps) + Len(a) - 1
      /\ \A i \in 1..Len(steps) : b[i] = steps[i]
      /\ \A i \in 1..Len(b) : i > Len(steps) => b[i] = Tail(a)[i - Len(steps)]
  BY <1>1
<1>4. /\ job'[r].agenda = b
      /\ b # <<>> => job'[r].user = job[r].user /\ job'[r].saw = job[r].saw \cup member
      /\ \A q \in Requests \ {r} : job'[q] = job[q]
  BY DEF Then, Continue, JobsOK, IdleJob
<1> HIDE DEF b
<1>5. ASSUME NEW i \in 1..Len(b), i > Len(steps)
      PROVE  i - Len(steps) + 1 \in 2..Len(a) /\ b[i] = a[i - Len(steps) + 1]
  <2>1. Len(steps) \in Nat
    OBVIOUS
  <2>2. i - Len(steps) \in 1..Len(Tail(a))
    BY <1>1, <1>3, <1>5, <2>1
  <2>3. i - Len(steps) + 1 \in 2..Len(a)
    BY <1>1, <2>1, <2>2
  <2>4. Tail(a)[i - Len(steps)] = a[i - Len(steps) + 1]
    BY <1>2, <2>2
  <2> QED BY <1>3, <1>5, <2>3, <2>4
<1>6. job'[r].agenda = b
  BY <1>4
<1>7. /\ Len(job'[r].agenda) = Len(steps) + Len(a) - 1
      /\ \A i \in 1..Len(steps) : job'[r].agenda[i] = steps[i]
  BY <1>3, <1>6
<1>8. \A i \in 1..Len(job'[r].agenda) : i > Len(steps) =>
        i - Len(steps) + 1 \in 2..Len(a) /\ job'[r].agenda[i] = a[i - Len(steps) + 1]
  BY <1>5, <1>6
<1> QED BY <1>4, <1>6, <1>7, <1>8

\* A request that throws has no agenda left.
LEMMA Thrown ==
  ASSUME JobsOK, NEW r \in Requests, Throw(r)
  PROVE  /\ job'[r].agenda = <<>>
         /\ \A q \in Requests \ {r} : job'[q] = job[q]
BY DEF JobsOK, Throw, Continue, IdleJob

\* A step that leaves on the agenda no insertion but those after its own keeps
\* insertions unique.
LEMMA IdStep ==
  ASSUME IdInv, NEW r \in Requests, NEW m \in Int,
         Len(job[r].agenda) \in Nat \ {0}, Len(job'[r].agenda) \in Nat,
         \A i \in 1..Len(job'[r].agenda) : \A x \in Fileables :
           Inserts(job'[r].agenda[i], x) =>
             i + m \in 2..Len(job[r].agenda) /\ Inserts(job[r].agenda[i + m], x),
         \A q \in Requests \ {r} : job'[q].agenda = job[q].agenda,
         issued' = issued,
         \A x \in Fileables : (x \in Live)' => x \in Live \/ Inserts(job[r].agenda[1], x)
  PROVE  IdInv' /\ Settles
<1>1. ASSUME NEW x \in Fileables, Pending(x)' PROVE Pending(x) /\ ~Inserts(job[r].agenda[1], x)
  <2> PICK q \in Requests : \E i \in 1..Len(job'[q].agenda) : Inserts(job'[q].agenda[i], x)
    BY <1>1 DEF Pending
  <2> PICK i \in 1..Len(job'[q].agenda) : Inserts(job'[q].agenda[i], x)
    OBVIOUS
  <2>1. 1 \in 1..Len(job[r].agenda)
    OBVIOUS
  <2>2. CASE q = r
    <3>1. i + m \in 2..Len(job[r].agenda) /\ Inserts(job[r].agenda[i + m], x)
      BY <2>2
    <3>2. i + m \in 1..Len(job[r].agenda) /\ i + m # 1
      BY <3>1
    <3> QED BY <2>1, <3>1, <3>2 DEF IdInv, Pending
  <2>3. CASE q # r
    <3>1. i \in 1..Len(job[q].agenda) /\ Inserts(job[q].agenda[i], x)
      BY <2>3
    <3> QED BY <2>1, <2>3, <3>1 DEF IdInv, Pending
  <2> QED BY <2>2, <2>3
<1>2. ASSUME NEW x \in Fileables, Settled(x) PROVE Settled(x)' /\ ~Inserts(job[r].agenda[1], x)
  <2>1. ~Inserts(job[r].agenda[1], x)
    BY <1>2 DEF Settled, Pending
  <2> QED BY <1>1, <1>2, <2>1 DEF Settled
<1>3. ASSUME NEW x \in Fileables, Inserts(job[r].agenda[1], x) PROVE Settled(x)'
  <2>1. Pending(x)
    BY <1>3 DEF Pending
  <2> QED BY <1>1, <1>3, <2>1 DEF IdInv, Settled
<1>4. Settles
  BY <1>2 DEF Settles
<1>5. \A x \in Fileables : Pending(x)' => x \in issued'
  BY <1>1 DEF IdInv
<1>6. \A x \in Fileables : (x \in Live)' => Settled(x)'
  BY <1>2, <1>3 DEF IdInv
<1>7. ASSUME NEW q \in Requests, NEW p \in Requests, NEW x \in Fileables,
             NEW i \in 1..Len(job'[q].agenda), NEW j \in 1..Len(job'[p].agenda),
             Inserts(job'[q].agenda[i], x), Inserts(job'[p].agenda[j], x)
      PROVE  q = p /\ i = j
  <2> DEFINE Was(o, k, l) == l \in 1..Len(job[o].agenda) /\ Inserts(job[o].agenda[l], x)
  <2>1. CASE q = r /\ p = r
    <3>1. Was(r, i, i + m) /\ Was(r, j, j + m)
      BY <1>7, <2>1
    <3>2. i + m = j + m
      BY <3>1 DEF IdInv
    <3> QED BY <2>1, <3>2
  <2>2. CASE q = r /\ p # r
    <3>1. Was(r, i, i + m) /\ Was(p, j, j)
      BY <1>7, <2>2
    <3> QED BY <2>2, <3>1 DEF IdInv
  <2>3. CASE q # r /\ p = r
    <3>1. Was(q, i, i) /\ Was(r, j, j + m)
      BY <1>7, <2>3
    <3> QED BY <2>3, <3>1 DEF IdInv
  <2>4. CASE q # r /\ p # r
    BY <1>7, <2>4 DEF IdInv
  <2> QED BY <2>1, <2>2, <2>3, <2>4
<1>8. IdInv'
  BY <1>5, <1>6, <1>7 DEF IdInv
<1> QED BY <1>4, <1>8

NoInsert(steps) ==
  \A i \in 1..Len(steps) : steps[i][1] \notin {"insertProject", "insertTask", "insertComment"}

\* What a request leads to, or gives up, inserts nothing new.
LEMMA ThenIds ==
  ASSUME JobsOK, IdInv, NEW r \in Requests, NEW steps \in Seq(Step), NoInsert(steps),
         job[r].agenda # <<>>, Then(r, steps) \/ Throw(r), issued' = issued,
         \A x \in Fileables : (x \in Live)' => x \in Live \/ Inserts(Head(job[r].agenda), x)
  PROVE  IdInv' /\ Settles
<1> DEFINE a == job[r].agenda
<1>1. a \in Seq(Step) /\ Len(a) \in Nat \ {0} /\ Head(a) = a[1] /\ Len(steps) \in Nat
  BY DEF JobsOK, Job
<1>2. CASE Then(r, steps)
  <2>1. Len(job'[r].agenda) \in Nat
    BY <1>1, <1>2, Went
  <2>2. \A q \in Requests \ {r} : job'[q].agenda = job[q].agenda
    BY <1>2, Went
  <2> DEFINE m == 1 - Len(steps)
  <2>3. ASSUME NEW i \in 1..Len(job'[r].agenda), NEW x \in Fileables,
               Inserts(job'[r].agenda[i], x)
        PROVE  i + m \in 2..Len(a) /\ Inserts(a[i + m], x)
    <3>1. ~(i <= Len(steps))
      <4>1. SUFFICES ASSUME i <= Len(steps) PROVE FALSE
        OBVIOUS
      <4>2. i \in 1..Len(steps)
        BY <1>1, <4>1
      <4> QED BY <1>2, <2>3, <4>2, Went DEF Inserts, NoInsert
    <3>2. /\ i - Len(steps) + 1 \in 2..Len(a)
          /\ job'[r].agenda[i] = a[i - Len(steps) + 1]
      BY <1>1, <1>2, <3>1, Went
    <3>3. i + m = i - Len(steps) + 1
      BY <1>1
    <3> QED BY <2>3, <3>2, <3>3
  <2>4. m \in Int
    BY <1>1
  <2> HIDE DEF m
  <2> QED BY <1>1, <2>1, <2>2, <2>3, <2>4, IdStep
<1>3. CASE Throw(r)
  <2>1. /\ Len(job'[r].agenda) = 0
        /\ \A q \in Requests \ {r} : job'[q].agenda = job[q].agenda
    BY <1>3, Thrown
  <2>2. 0 \in Int /\ 0 \in Nat /\ \A i \in 1..0 : FALSE
    OBVIOUS
  <2>3. /\ Len(job'[r].agenda) \in Nat
        /\ \A i \in 1..Len(job'[r].agenda) : \A x \in Fileables :
             Inserts(job'[r].agenda[i], x) => i + 0 \in 2..Len(a) /\ Inserts(a[i + 0], x)
    BY <2>1, <2>2
  <2> QED BY <1>1, <2>1, <2>2, <2>3, IdStep
<1> QED BY <1>2, <1>3

\* A write that answers goes on, one whose answer is lost throws.
LEMMA WroteSteps ==
  ASSUME NEW r, NEW answered, NEW steps, Wrote(r, answered, steps)
  PROVE  Then(r, steps) \/ Throw(r)
BY DEF Wrote

\* The steps of an agenda that only go on, or delete what hangs on a row, insert
\* nothing.
LEMMA DropSteps ==
  /\ <<>> \in Seq(Step) /\ NoInsert(<<>>)
  /\ \A t \in Tasks, T \in SUBSET Tasks :
       /\ << <<"dropFiles", t>>, <<"listComments", t>> >> \o DropTasks(T) \in Seq(Step)
       /\ NoInsert(<< <<"dropFiles", t>>, <<"listComments", t>> >> \o DropTasks(T))
  /\ \A c \in Comments, C \in SUBSET Comments :
       /\ << <<"dropFiles", c>> >> \o DropComments(C) \in Seq(Step)
       /\ NoInsert(<< <<"dropFiles", c>> >> \o DropComments(C))
  /\ \A T \in SUBSET Tasks : DropTasks(T) \in Seq(Step) /\ NoInsert(DropTasks(T))
  /\ \A C \in SUBSET Comments : DropComments(C) \in Seq(Step) /\ NoInsert(DropComments(C))
<1>1. <<>> \in Seq(Step) /\ NoInsert(<<>>)
  BY DEF NoInsert
<1>2. ASSUME NEW T \in SUBSET Tasks PROVE DropTasks(T) \in Seq(Step) /\ NoInsert(DropTasks(T))
  <2>1. CASE T = {}
    BY <1>1, <2>1 DEF DropTasks
  <2>2. CASE T # {}
    <3>1. DropTasks(T) = << <<"dropTasks", T>> >>
      BY <2>2 DEF DropTasks
    <3>2. << <<"dropTasks", T>> >> \in Seq(Step)
      BY StepForms, Agendas
    <3> QED BY <3>1, <3>2 DEF NoInsert
  <2> QED BY <2>1, <2>2
<1>3. ASSUME NEW C \in SUBSET Comments
      PROVE  DropComments(C) \in Seq(Step) /\ NoInsert(DropComments(C))
  <2>1. CASE C = {}
    BY <1>1, <2>1 DEF DropComments
  <2>2. CASE C # {}
    <3>1. DropComments(C) = << <<"dropComments", C>> >>
      BY <2>2 DEF DropComments
    <3>2. << <<"dropComments", C>> >> \in Seq(Step)
      BY StepForms, Agendas
    <3> QED BY <3>1, <3>2 DEF NoInsert
  <2> QED BY <2>1, <2>2
<1>4. ASSUME NEW s \in Seq(Step), NEW u \in Seq(Step), NoInsert(s), NoInsert(u)
      PROVE  s \o u \in Seq(Step) /\ NoInsert(s \o u)
  <2>1. s \o u \in Seq(Step) /\ Len(s \o u) = Len(s) + Len(u) /\ Len(s) \in Nat /\ Len(u) \in Nat
    OBVIOUS
  <2>2. ASSUME NEW i \in 1..Len(s \o u)
        PROVE  (s \o u)[i][1] \notin {"insertProject", "insertTask", "insertComment"}
    <3>1. CASE i \in 1..Len(s)
      <4>1. (s \o u)[i] = s[i]
        BY <3>1
      <4> QED BY <1>4, <3>1, <4>1 DEF NoInsert
    <3>2. CASE i \notin 1..Len(s)
      <4>1. i - Len(s) \in 1..Len(u) /\ (s \o u)[i] = u[i - Len(s)]
        BY <2>1, <3>2
      <4> QED BY <1>4, <4>1 DEF NoInsert
    <3> QED BY <3>1, <3>2
  <2> QED BY <2>1, <2>2 DEF NoInsert
<1>5. ASSUME NEW t \in Tasks
      PROVE  /\ << <<"dropFiles", t>>, <<"listComments", t>> >> \in Seq(Step)
             /\ NoInsert(<< <<"dropFiles", t>>, <<"listComments", t>> >>)
  <2>1. <<"dropFiles", t>> \in Step /\ <<"listComments", t>> \in Step
    BY StepForms DEF Fileables
  <2> QED BY <2>1, Agendas DEF NoInsert
<1>6. ASSUME NEW c \in Comments
      PROVE  << <<"dropFiles", c>> >> \in Seq(Step) /\ NoInsert(<< <<"dropFiles", c>> >>)
  <2>1. <<"dropFiles", c>> \in Step
    BY StepForms DEF Fileables
  <2> QED BY <2>1, Agendas DEF NoInsert
<1> QED BY <1>1, <1>2, <1>3, <1>4, <1>5, <1>6

\* The rows a write adds are those its step inserts.
LEMMA WriteLive ==
  ASSUME TypeOK, NEW r \in Requests, NEW answered, Write(r, answered)
  PROVE  /\ job[r].agenda # <<>>
         /\ \A x \in Fileables : (x \in Live)' => x \in Live \/ Inserts(Head(job[r].agenda), x)
<1> DEFINE Adds == \A x \in Fileables :
                     (x \in Live)' => x \in Live \/ Inserts(Head(job[r].agenda), x)
<1> USE DEF Doing, Live, LiveTasks, LiveComments, Inserts
<1>1. CASE InsertProject(r, answered)
  BY <1>1 DEF InsertProject
<1>2. CASE EditText(r, answered) \/ DropProject(r, answered)
  BY <1>2 DEF EditText, DropProject
<1>3. CASE Join(r, answered) \/ Leave(r, answered)
  BY <1>3 DEF Join, Leave
<1>4. CASE InsertTask(r, answered)
  BY <1>4 DEF InsertTask, TypeOK
<1>5. CASE UpdateTask(r, answered)
  <2> PICK t \in Tasks, v \in Users :
        /\ Doing(r, <<"update", t, v>>) /\ Allowed(r)
        /\ task' = [task EXCEPT ![t].assignee = v]
    BY <1>5 DEF UpdateTask
  <2>1. May(job[r].user, <<"update", t, v>>)
    BY DEF Allowed
  <2>2. t \in LiveTasks
    BY <2>1, MayTask
  <2> QED BY <1>5, <2>2 DEF UpdateTask, TypeOK
<1>6. CASE DropTask(r, answered)
  BY <1>6 DEF DropTask, TypeOK
<1>7. CASE InsertComment(r, answered)
  BY <1>7 DEF InsertComment, TypeOK
<1>8. CASE DropComment(r, answered)
  BY <1>8 DEF DropComment, TypeOK
<1> QED BY <1>1, <1>2, <1>3, <1>4, <1>5, <1>6, <1>7, <1>8 DEF Write

\* What a write leads to inserts nothing.
LEMMA WriteSteps ==
  ASSUME TypeOK, NEW r \in Requests, NEW answered, Write(r, answered)
  PROVE  \E steps \in Seq(Step) : NoInsert(steps) /\ (Then(r, steps) \/ Throw(r))
<1>1. CASE DropTask(r, answered)
  <2> PICK T \in SUBSET Tasks, t \in Tasks :
        Wrote(r, answered, << <<"dropFiles", t>>, <<"listComments", t>> >> \o DropTasks(T \ {t}))
    BY <1>1 DEF DropTask, LiveTasks
  <2>1. T \ {t} \in SUBSET Tasks
    OBVIOUS
  <2> QED BY <2>1, WroteSteps, DropSteps
<1>2. CASE DropComment(r, answered)
  <2> PICK C \in SUBSET Comments, c \in Comments :
        Wrote(r, answered, << <<"dropFiles", c>> >> \o DropComments(C \ {c}))
    BY <1>2 DEF DropComment, LiveComments
  <2>1. C \ {c} \in SUBSET Comments
    OBVIOUS
  <2> QED BY <2>1, WroteSteps, DropSteps
<1>3. ASSUME Wrote(r, answered, <<>>)
      PROVE  \E steps \in Seq(Step) : NoInsert(steps) /\ (Then(r, steps) \/ Throw(r))
  BY <1>3, WroteSteps, DropSteps
<1> QED BY <1>1, <1>2, <1>3 DEF Write, InsertProject, EditText, DropProject, Join, Leave,
                               InsertTask, UpdateTask, InsertComment

\* A write leaves settled rows alone, or deletes them.
LEMMA WriteRows ==
  ASSUME TypeOK, NEW r \in Requests, NEW answered, Write(r, answered)
  PROVE  KeepsRows
<1> USE DEF KeepsRows, Doing
<1>1. \A x : Inserts(Head(job[r].agenda), x) /\ job[r].agenda # <<>> => ~Settled(x)
  <2>1. job[r].agenda # <<>> => 1 \in 1..Len(job[r].agenda) /\ Head(job[r].agenda) = job[r].agenda[1]
    BY DEF TypeOK, Job
  <2> QED BY <2>1 DEF Settled, Pending
<1>2. CASE InsertTask(r, answered)
  <2> PICK t \in Tasks, p \in Projects, v \in Users :
        /\ Doing(r, <<"insertTask", t, p, v>>) /\ Allowed(r)
        /\ task' = [task EXCEPT ![t] = [project |-> p, assignee |-> v]]
    BY <1>2 DEF InsertTask
  <2>1. ~Settled(t)
    BY <1>1 DEF Inserts
  <2> QED BY <1>2, <2>1 DEF InsertTask, TypeOK
<1>3. CASE UpdateTask(r, answered)
  <2> PICK t \in Tasks, v \in Users :
        /\ Doing(r, <<"update", t, v>>) /\ Allowed(r)
        /\ task' = [task EXCEPT ![t].assignee = v]
    BY <1>3 DEF UpdateTask
  <2>1. May(job[r].user, <<"update", t, v>>)
    BY DEF Allowed
  <2>2. task[t] \in TaskRow /\ task[t] # NoRow
    BY <2>1, MayTask DEF LiveTasks, TypeOK
  <2>3. task'[t].project = task[t].project
    BY <2>2 DEF TypeOK, TaskRow
  <2> QED BY <1>3, <2>2, <2>3 DEF UpdateTask, TypeOK
<1>4. CASE DropTask(r, answered)
  BY <1>4 DEF DropTask, TypeOK
<1>5. CASE InsertComment(r, answered)
  <2> PICK c \in Comments, o \in Projects \cup Tasks :
        /\ Doing(r, <<"insertComment", c, o>>)
        /\ comment' = [comment EXCEPT ![c] = [on |-> o, by |-> job[r].user]]
    BY <1>5 DEF InsertComment
  <2>1. ~Settled(c)
    BY <1>1 DEF Inserts
  <2> QED BY <1>5, <2>1 DEF InsertComment, TypeOK
<1>6. CASE DropComment(r, answered)
  BY <1>6 DEF DropComment, TypeOK
<1>7. CASE UNCHANGED <<task, comment>>
  BY <1>7
<1> QED BY <1>2, <1>3, <1>4, <1>5, <1>6, <1>7
        DEF Write, InsertProject, EditText, DropProject, Join, Leave

-----------------------------------------------------------------------------
\* The agendas the endpoints start with: what writes comes after what asks.
Opens(b) ==
  \A i \in 1..Len(b) :
    /\ \A t \in Tasks, p \in Projects, v \in Users :
         b[i] = <<"insertTask", t, p, v>> => i > 1 /\ b[i - 1] = <<"assign", p, v>>
    /\ b[i][1] # "update"
    /\ \A c \in Comments, o \in Projects \cup Tasks :
         b[i] = <<"insertComment", c, o>> => i > 1 /\ b[i - 1] = <<"guard", o>>
    /\ \A p \in Projects : b[i] = <<"dropProject", p>> =>
         i + 2 <= Len(b) /\ b[i + 1] = <<"dropFiles", p>> /\ b[i + 2] = <<"listComments", p>>
    /\ \A o \in Projects \cup Tasks :
         b[i] = <<"listComments", o>> => i > 2 /\ b[i - 2] = <<"dropProject", o>>
    /\ \A C \in SUBSET Comments : b[i] = <<"dropComments", C>> =>
         i > 1 /\ \E c \in C : C = {c} /\ b[i - 1] = <<"modify", c>>
    /\ \A n \in Names : b[i] = <<"eraseFile", n>> => i > 1 /\ b[i - 1] = <<"fileGuard", n>>
    /\ \A o \in Fileables : b[i] = <<"dropFiles", o>> => i > 1 /\ b[i - 1] = <<"dropProject", o>>

\* They insert nothing, or one row under an id nobody had.
Draws(b) ==
  \/ issued' = issued /\ NoInsert(b)
  \/ \E x \in Fileables \ issued :
       /\ issued' = issued \cup {x}
       /\ \E k \in Nat : \A i \in 1..Len(b) : \A y : Inserts(b[i], y) => y = x /\ i = k

\* The elements of two sequences, one after the other.
LEMMA Appended ==
  ASSUME NEW S, NEW h \in Seq(S), NEW t \in Seq(S)
  PROVE  /\ h \o t \in Seq(S) /\ Len(h \o t) = Len(h) + Len(t) /\ Len(t) \in Nat
         /\ \A i \in 1..Len(h) : (h \o t)[i] = h[i]
         /\ \A i \in 1..Len(h \o t) : i > Len(h) => (h \o t)[i] = t[i - Len(h)]
<1>1. h \o t \in Seq(S) /\ Len(h \o t) = Len(h) + Len(t) /\ Len(t) \in Nat
  OBVIOUS
<1>2. \A i \in 1..Len(h) : (h \o t)[i] = h[i]
  OBVIOUS
<1>3. \A i \in 1..Len(h \o t) : i > Len(h) => (h \o t)[i] = t[i - Len(h)]
  OBVIOUS
<1> QED BY <1>1, <1>2, <1>3

\* Every endpoint starts with such an agenda.
LEMMA Started ==
  ASSUME TypeOK, FS!TypeOK, NEW r \in Requests, Start(r)
  PROVE  \E u \in Users : \E b \in Seq(Step) : b # <<>> /\ Go(r, u, b) /\ Opens(b) /\ Draws(b)
<1> DEFINE Good(u) == \E b \in Seq(Step) : b # <<>> /\ Go(r, u, b) /\ Opens(b) /\ Draws(b)
<1> DEFINE Special == {"insertProject", "insertTask", "insertComment", "update",
                       "dropProject", "listComments", "dropComments", "eraseFile", "dropFiles"}
<1>1. /\ issued \subseteq Fileables /\ minted \subseteq Names
      /\ Projects \subseteq Fileables /\ Tasks \subseteq Fileables
      /\ Comments \subseteq Fileables
  BY DEF TypeOK, FS!TypeOK, Fileables
<1>2. PICK u \in Users :
        \/ PostProject(r, u)
        \/ \E p \in Projects : PatchProject(r, u, p) \/ DeleteProject(r, u, p)
        \/ \E p \in Projects, v \in Users :
             PutMember(r, u, p, v) \/ DeleteMember(r, u, p, v) \/ PostTask(r, u, p, v)
        \/ \E t \in Tasks : \/ PatchTaskText(r, u, t) \/ DeleteTask(r, u, t)
                           \/ \E v \in Users : PatchTask(r, u, t, v)
        \/ \E o \in Projects \cup Tasks : CreateComment(r, u, o)
        \/ \E c \in Comments : PatchComment(r, u, c) \/ DeleteComment(r, u, c)
        \/ \E o \in Fileables : \E k \in 1..MaxBatch[o] :
             PostProjectFiles(r, u, o, k) \/ PostTaskFiles(r, u, o, k) \/ PostCommentFiles(r, u, o, k)
        \/ \E n \in Names : DeleteFile(r, u, n)
  BY <1>1, UsersAssumption DEF Start, PostProjectComment, PostTaskComment
\* An agenda of at most two steps without a step that only some endpoints have.
<1>3. ASSUME NEW x \in Step, NEW y \in Step, NEW b, b = <<x>> \/ b = <<x, y>>,
             Go(r, u, b), issued' = issued,
             x[1] \notin Special, y[1] \notin Special
      PROVE  Good(u)
  <2>1. b \in Seq(Step) /\ b # <<>>
    BY <1>3, Agendas
  <2>2. \A i \in 1..Len(b) : b[i][1] \notin Special
    BY <1>3
  <2>3. Opens(b) /\ NoInsert(b)
    BY <2>2 DEF Opens, NoInsert
  <2> QED BY <1>3, <2>1, <2>3 DEF Draws
<1>4. ASSUME PostProject(r, u) PROVE Good(u)
  <2> PICK p \in Projects \ issued : /\ issued' = issued \cup {p}
                                     /\ Go(r, u, << <<"insertProject", p>> >>)
    BY <1>4 DEF PostProject, Fresh
  <2> DEFINE b == << <<"insertProject", p>> >>
  <2>1. b \in Seq(Step) /\ b # <<>>
    BY StepForms, Agendas
  <2>2. Opens(b)
    BY DEF Opens
  <2>3. \A i \in 1..Len(b) : \A y : Inserts(b[i], y) => y = p /\ i = 1
    BY DEF Inserts
  <2>4. Draws(b)
    BY <1>1, <2>3 DEF Draws
  <2> QED BY <2>1, <2>2, <2>4
<1>5. ASSUME NEW p \in Projects, DeleteProject(r, u, p) PROVE Good(u)
  <2> DEFINE b == << <<"listTasks", p>>, <<"dropProject", p>>, <<"dropFiles", p>>,
                     <<"listComments", p>> >>
  <2>1. /\ <<"listTasks", p>> \in Step /\ <<"dropProject", p>> \in Step
        /\ <<"dropFiles", p>> \in Step /\ <<"listComments", p>> \in Step
    BY <1>1, StepForms
  <2>2. b \in Seq(Step) /\ b # <<>>
    BY <2>1, Agendas
  <2>3. Opens(b)
    <3>1. /\ Len(b) = 4
          /\ b[1] = <<"listTasks", p>>
          /\ b[2] = <<"dropProject", p>>
          /\ b[3] = <<"dropFiles", p>>
          /\ b[4] = <<"listComments", p>>
      OBVIOUS
    <3> HIDE DEF b
    <3>2. \A i \in 1..Len(b) : i = 1 \/ i = 2 \/ i = 3 \/ i = 4
      BY <3>1
    <3> QED BY <3>1, <3>2 DEF Opens
  <2>4. Draws(b) /\ Go(r, u, b)
    BY <1>5 DEF DeleteProject, Draws, NoInsert
  <2> QED BY <2>2, <2>3, <2>4
<1>6. ASSUME NEW p \in Projects, PatchProject(r, u, p) PROVE Good(u)
  <2>1. <<"edit", p>> \in Step /\ <<"notify", p>> \in Step
    BY <1>1, StepForms
  <2> QED BY <1>3, <1>6, <2>1 DEF PatchProject
<1>7. ASSUME NEW p \in Projects, NEW v \in Users,
             PutMember(r, u, p, v) \/ DeleteMember(r, u, p, v)
      PROVE  Good(u)
  <2>1. <<"join", p, v>> \in Step /\ <<"leave", p, v>> \in Step
    BY StepForms
  <2> QED BY <1>3, <1>7, <2>1 DEF PutMember, DeleteMember
<1>8. ASSUME NEW p \in Projects, NEW v \in Users, PostTask(r, u, p, v) PROVE Good(u)
  <2> PICK t \in Tasks \ issued :
        /\ issued' = issued \cup {t}
        /\ Go(r, u, << <<"guard", p>>, <<"assign", p, v>>, <<"insertTask", t, p, v>> >>)
    BY <1>8 DEF PostTask, Fresh
  <2> DEFINE b == << <<"guard", p>>, <<"assign", p, v>>, <<"insertTask", t, p, v>> >>
  <2>1. /\ <<"guard", p>> \in Step /\ <<"assign", p, v>> \in Step
        /\ <<"insertTask", t, p, v>> \in Step
    BY <1>1, StepForms
  <2>2. b \in Seq(Step) /\ b # <<>>
    BY <2>1, Agendas
  <2>3. Opens(b)
    <3>1. /\ Len(b) = 3
          /\ b[1] = <<"guard", p>>
          /\ b[2] = <<"assign", p, v>>
          /\ b[3] = <<"insertTask", t, p, v>>
      OBVIOUS
    <3> HIDE DEF b
    <3>2. \A i \in 1..Len(b) : i = 1 \/ i = 2 \/ i = 3
      BY <3>1
    <3> QED BY <3>1, <3>2 DEF Opens
  <2>4. \A i \in 1..Len(b) : \A y : Inserts(b[i], y) => y = t /\ i = 3
    BY DEF Inserts
  <2>5. Draws(b)
    BY <1>1, <2>4 DEF Draws
  <2> QED BY <2>2, <2>3, <2>5
<1>9. ASSUME NEW t \in Tasks, NEW v \in Users, PatchTask(r, u, t, v) \/ PatchTaskText(r, u, t)
      PROVE  Good(u)
  <2>1. <<"guard", t>> \in Step /\ <<"edit", t>> \in Step /\ <<"reassign", t, v>> \in Step
    BY <1>1, StepForms
  <2> QED BY <1>3, <1>9, <2>1 DEF PatchTask, PatchTaskText
<1>10. ASSUME NEW t \in Tasks, PatchTaskText(r, u, t) \/ DeleteTask(r, u, t) PROVE Good(u)
  <2>1. <<"guard", t>> \in Step /\ <<"edit", t>> \in Step /\ <<"dropTasks", {t}>> \in Step
    BY <1>1, StepForms
  <2> QED BY <1>3, <1>10, <2>1 DEF PatchTaskText, DeleteTask
<1>11. ASSUME NEW o \in Projects \cup Tasks, CreateComment(r, u, o) PROVE Good(u)
  <2> PICK c \in Comments \ issued : \E k \in 0..MaxBatch[c] :
        /\ issued' = issued \cup {c}
        /\ Go(r, u, << <<"guard", o>>, <<"insertComment", c, o>>, <<"notify", o>> >> \o
                    (IF k = 0 THEN <<>> ELSE << <<"upload", c, k>> >>))
    BY <1>11 DEF CreateComment, Fresh
  <2> PICK k \in 0..MaxBatch[c] :
        /\ issued' = issued \cup {c}
        /\ Go(r, u, << <<"guard", o>>, <<"insertComment", c, o>>, <<"notify", o>> >> \o
                    (IF k = 0 THEN <<>> ELSE << <<"upload", c, k>> >>))
    OBVIOUS
  <2>1. k \in Nat
    BY <1>1, FilesAssumption
  <2>2. /\ <<"guard", o>> \in Step /\ <<"insertComment", c, o>> \in Step
        /\ <<"notify", o>> \in Step /\ <<"upload", c, k>> \in Step
    BY <1>1, <2>1, StepForms
  <2> DEFINE head == << <<"guard", o>>, <<"insertComment", c, o>>, <<"notify", o>> >>
             tail == IF k = 0 THEN <<>> ELSE << <<"upload", c, k>> >>
  <2>3. head \in Seq(Step) /\ tail \in Seq(Step)
    BY <2>2, Agendas
  <2> DEFINE b == head \o tail
  <2>4. /\ b \in Seq(Step) /\ Len(b) = Len(head) + Len(tail)
        /\ \A i \in 1..Len(head) : b[i] = head[i]
        /\ \A i \in 1..Len(b) : i > Len(head) => b[i] = tail[i - Len(head)]
    BY <2>3, Appended
  <2> HIDE DEF b
  <2>5. /\ Len(b) \in {3, 4} /\ b # <<>>
        /\ b[1] = <<"guard", o>> /\ b[2] = <<"insertComment", c, o>> /\ b[3] = <<"notify", o>>
        /\ 4 \in 1..Len(b) => b[4] = <<"upload", c, k>>
    <3>1. Len(head) = 3 /\ Len(tail) = IF k = 0 THEN 0 ELSE 1
      OBVIOUS
    <3>2. b[1] = head[1] /\ b[2] = head[2] /\ b[3] = head[3]
      BY <2>4, <3>1
    <3>3. CASE k = 0
      <4>1. Len(b) = 3 + 0
        BY <2>4, <3>1, <3>3
      <4> QED BY <2>4, <3>2, <4>1
    <3>4. CASE k # 0
      <4>1. Len(b) = 3 + 1
        BY <2>4, <3>1, <3>4
      <4>4. 4 \in 1..Len(b) /\ 4 > Len(head) /\ 4 - Len(head) = 1
        BY <3>1, <4>1
      <4>2. b[4] = tail[1]
        BY <2>4, <4>4
      <4>3. tail[1] = <<"upload", c, k>>
        BY <3>4
      <4> QED BY <2>4, <3>2, <4>1, <4>2, <4>3
    <3> QED BY <3>3, <3>4
  <2> HIDE DEF head, tail
  <2>9. ASSUME NEW i \in 1..Len(b)
        PROVE  \/ i = 1 /\ b[i] = <<"guard", o>>
               \/ i = 2 /\ b[i] = <<"insertComment", c, o>>
               \/ b[i] \in {<<"notify", o>>, <<"upload", c, k>>}
    <3> PICK n \in {3, 4} : n = Len(b)
      BY <2>5
    <3>1. i \in 1..n
      OBVIOUS
    <3>2. i = 1 \/ i = 2 \/ i = 3 \/ (i = 4 /\ 4 \in 1..n)
      BY <3>1
    <3>3. i = 4 => 4 \in 1..Len(b)
      OBVIOUS
    <3> QED BY <2>5, <3>2, <3>3
  <2>6. Opens(b)
    BY <2>5, <2>9 DEF Opens
  <2>7. \A i \in 1..Len(b) : \A y : Inserts(b[i], y) => y = c /\ i = 2
    BY <2>9 DEF Inserts
  <2>8. Draws(b)
    <3>1. \E l \in Nat : \A i \in 1..Len(b) : \A y : Inserts(b[i], y) => y = c /\ i = l
      BY <2>7, 2 \in Nat
    <3> QED BY <1>1, <3>1 DEF Draws
  <2> QED BY <2>4, <2>5, <2>6, <2>8 DEF b, head, tail
<1>12. ASSUME NEW c \in Comments, PatchComment(r, u, c) PROVE Good(u)
  <2>1. <<"modify", c>> \in Step /\ <<"edit", c>> \in Step
    BY <1>1, StepForms
  <2> QED BY <1>3, <1>12, <2>1 DEF PatchComment
<1>13. ASSUME NEW c \in Comments, DeleteComment(r, u, c) PROVE Good(u)
  <2> DEFINE b == << <<"modify", c>>, <<"dropComments", {c}>> >>
  <2>1. <<"modify", c>> \in Step /\ <<"dropComments", {c}>> \in Step
    BY <1>1, StepForms
  <2>2. b \in Seq(Step) /\ b # <<>>
    BY <2>1, Agendas
  <2>3. Opens(b)
    BY DEF Opens
  <2>4. Draws(b) /\ Go(r, u, b)
    BY <1>13 DEF DeleteComment, Draws, NoInsert
  <2> QED BY <2>2, <2>3, <2>4
<1>14. ASSUME NEW o \in Fileables, NEW k \in 1..MaxBatch[o],
              PostProjectFiles(r, u, o, k) \/ PostTaskFiles(r, u, o, k) \/ PostCommentFiles(r, u, o, k)
       PROVE  Good(u)
  <2>1. k \in Nat
    BY FilesAssumption
  <2>2. /\ <<"modify", o>> \in Step /\ <<"guard", o>> \in Step
        /\ <<"upload", o, k>> \in Step
    BY <2>1, StepForms
  <2> QED BY <1>3, <1>14, <2>2 DEF PostProjectFiles, PostTaskFiles, PostCommentFiles
<1>15. ASSUME NEW n \in Names, DeleteFile(r, u, n) PROVE Good(u)
  <2> DEFINE b == << <<"fileGuard", n>>, <<"eraseFile", n>> >>
  <2>1. <<"fileGuard", n>> \in Step /\ <<"eraseFile", n>> \in Step
    BY StepForms
  <2>2. b \in Seq(Step) /\ b # <<>>
    BY <2>1, Agendas
  <2>3. Opens(b)
    BY DEF Opens
  <2>4. Draws(b) /\ Go(r, u, b)
    BY <1>15 DEF DeleteFile, Draws, NoInsert
  <2> QED BY <2>2, <2>3, <2>4
<1> HIDE DEF Good
<1>16. Good(u)
  BY <1>2, <1>4, <1>5, <1>6, <1>7, <1>8, <1>9, <1>10, <1>11, <1>12, <1>13, <1>14, <1>15
<1> QED BY <1>16 DEF Good

\* A request that starts inserts nothing, or draws an id of its own.
LEMMA StartIds ==
  ASSUME TypeOK, FS!TypeOK, IdInv, NEW r \in Requests, Start(r)
  PROVE  IdInv' /\ Settles
<1> PICK u \in Users : \E b \in Seq(Step) : b # <<>> /\ Go(r, u, b) /\ Opens(b) /\ Draws(b)
  BY Started
<1> PICK b \in Seq(Step) : b # <<>> /\ Go(r, u, b) /\ Opens(b) /\ Draws(b)
  OBVIOUS
<1>1. /\ job'[r].agenda = b /\ job[r].agenda = <<>>
      /\ \A q \in Requests \ {r} : job'[q].agenda = job[q].agenda
  BY DEF Go, TypeOK
<1>2. UNCHANGED <<project, task, comment>>
  BY StartKeeps
<1>3. \A x : (x \in Live)' <=> x \in Live
  BY <1>2 DEF Live, LiveTasks, LiveComments
<1>4. CASE issued' = issued /\ NoInsert(b)
  <2>1. ASSUME NEW q \in Requests, NEW i \in 1..Len(job'[q].agenda), NEW x,
               Inserts(job'[q].agenda[i], x)
        PROVE  job'[q].agenda = job[q].agenda
    BY <1>1, <1>4, <2>1 DEF NoInsert, Inserts
  <2>2. \A x \in Fileables : Pending(x)' => Pending(x)
    BY <2>1 DEF Pending
  <2>3. Settles
    BY <1>3, <1>4, <2>2 DEF Settles, Settled
  <2>4. \A x \in Fileables : Pending(x)' => x \in issued'
    BY <1>4, <2>2 DEF IdInv
  <2>5. \A x \in Fileables : (x \in Live)' => Settled(x)'
    BY <1>3, <2>3 DEF IdInv, Settles
  <2>6. ASSUME NEW q \in Requests, NEW p \in Requests, NEW y \in Fileables,
               NEW i \in 1..Len(job'[q].agenda), NEW j \in 1..Len(job'[p].agenda),
               Inserts(job'[q].agenda[i], y), Inserts(job'[p].agenda[j], y)
        PROVE  q = p /\ i = j
    <3>1. job'[q].agenda = job[q].agenda /\ job'[p].agenda = job[p].agenda
      BY <2>1, <2>6
    <3> QED BY <2>6, <3>1 DEF IdInv
  <2> QED BY <2>3, <2>4, <2>5, <2>6 DEF IdInv
<1>5. CASE ~(issued' = issued /\ NoInsert(b))
  <2> PICK x \in Fileables \ issued :
        /\ issued' = issued \cup {x}
        /\ \E k \in Nat : \A i \in 1..Len(b) : \A y : Inserts(b[i], y) => y = x /\ i = k
    BY <1>5 DEF Draws
  <2> PICK k \in Nat : \A i \in 1..Len(b) : \A y : Inserts(b[i], y) => y = x /\ i = k
    OBVIOUS
  <2>1. ~Pending(x) /\ ~Settled(x)
    BY DEF IdInv, Settled
  <2>2. ASSUME NEW q \in Requests, NEW i \in 1..Len(job'[q].agenda), NEW y,
               Inserts(job'[q].agenda[i], y)
        PROVE  \/ q # r /\ job'[q].agenda = job[q].agenda
               \/ q = r /\ y = x /\ i = k
    <3>1. CASE q = r
      <4>1. i \in 1..Len(b) /\ Inserts(b[i], y)
        BY <1>1, <2>2, <3>1
      <4> QED BY <3>1, <4>1
    <3>2. CASE q # r
      BY <1>1, <3>2
    <3> QED BY <3>1, <3>2
  <2>3. ASSUME NEW y \in Fileables, Pending(y)' PROVE Pending(y) \/ y = x
    <3> PICK q \in Requests : \E i \in 1..Len(job'[q].agenda) : Inserts(job'[q].agenda[i], y)
      BY <2>3 DEF Pending
    <3> PICK i \in 1..Len(job'[q].agenda) : Inserts(job'[q].agenda[i], y)
      OBVIOUS
    <3>1. CASE q # r /\ job'[q].agenda = job[q].agenda
      BY <3>1 DEF Pending
    <3> QED BY <2>2, <3>1
  <2>4. Settles
    BY <1>3, <2>1, <2>3 DEF Settles, Settled
  <2>5. \A y \in Fileables : Pending(y)' => y \in issued'
    BY <2>3 DEF IdInv
  <2>6. \A y \in Fileables : (y \in Live)' => Settled(y)'
    BY <1>3, <2>4 DEF IdInv, Settles
  <2>7. ASSUME NEW q \in Requests, NEW p \in Requests, NEW y \in Fileables,
               NEW i \in 1..Len(job'[q].agenda), NEW j \in 1..Len(job'[p].agenda),
               Inserts(job'[q].agenda[i], y), Inserts(job'[p].agenda[j], y)
        PROVE  q = p /\ i = j
    <3>1. ASSUME NEW o \in Requests, NEW l \in 1..Len(job'[o].agenda), o # r,
                 Inserts(job'[o].agenda[l], y)
          PROVE  y # x
      <4>1. job'[o].agenda = job[o].agenda
        BY <2>2, <3>1
      <4> QED BY <2>1, <3>1, <4>1 DEF Pending
    <3>2. CASE y = x
      BY <2>2, <2>7, <3>1, <3>2
    <3>3. CASE y # x
      <4>1. job'[q].agenda = job[q].agenda /\ job'[p].agenda = job[p].agenda
        BY <2>2, <2>7, <3>3
      <4> QED BY <2>7, <4>1 DEF IdInv
    <3> QED BY <3>2, <3>3
  <2>8. IdInv'
    BY <2>5, <2>6, <2>7 DEF IdInv
  <2> QED BY <2>4, <2>8
<1> QED BY <1>4, <1>5

\* What a guard or a query leads to inserts nothing.
LEMMA ReadSteps ==
  ASSUME TypeOK, FS!TypeOK, NEW r \in Requests, Guard(r) \/ Read(r)
  PROVE  /\ job[r].agenda # <<>> /\ UNCHANGED <<db, fs>>
         /\ \E steps \in Seq(Step) : NoInsert(steps) /\ Then(r, steps)
<1> DEFINE Ok(steps) == steps \in Seq(Step) /\ NoInsert(steps)
<1>1. job[r].agenda # <<>> /\ UNCHANGED <<db, fs>>
  BY DEF Guard, Read, Doing
<1>2. Projects \subseteq Fileables
  BY DEF Fileables
<1>3. ASSUME NEW t \in Tasks, t \in LiveTasks PROVE task[t].project \in Projects
  BY <1>3 DEF LiveTasks, TypeOK, TaskRow
<1>4. ASSUME NEW s \in Step, s[1] \in {"guard", "modify"} PROVE Ok(<<s>>)
  BY <1>4, Agendas DEF NoInsert
<1>5. ASSUME NEW t \in Tasks, Doing(r, <<"guard", t>>) \/ Doing(r, <<"modify", t>>), Allowed(r)
      PROVE  Ok(<< <<"guard", task[t].project>> >>)
  <2>1. t \in LiveTasks
    BY <1>5, MayTask DEF Doing, Allowed
  <2>2. <<"guard", task[t].project>> \in Step
    BY <1>2, <1>3, <2>1, StepForms
  <2> QED BY <1>4, <2>2
<1>6. ASSUME NEW n \in Names, Doing(r, <<"fileGuard", n>>), Allowed(r)
      PROVE  Ok(<< <<"modify", file[n]>> >>)
  <2>3. May(job[r].user, <<"fileGuard", n>>)
    BY <1>6 DEF Doing, Allowed
  <2>1. file[n] \in Fileables
    BY <2>3, MayFile DEF FS!TypeOK
  <2>2. <<"modify", file[n]>> \in Step
    BY <2>1, StepForms
  <2> QED BY <1>4, <2>2
<1>7. ASSUME NEW t \in Tasks, NEW v \in Users, Doing(r, <<"reassign", t, v>>), Allowed(r)
      PROVE  Ok(<< <<"assign", task[t].project, v>>, <<"update", t, v>> >>)
  <2>1. t \in LiveTasks
    BY <1>7, MayTask DEF Doing, Allowed
  <2>2. <<"assign", task[t].project, v>> \in Step /\ <<"update", t, v>> \in Step
    BY <1>3, <2>1, StepForms
  <2> QED BY <2>2, Agendas DEF NoInsert
<1>8. \A p : TasksOf(p) \in SUBSET Tasks /\ CommentsOn(p) \in SUBSET Comments
  BY DEF TasksOf, LiveTasks, CommentsOn, LiveComments
<1>9. /\ Ok(<<>>)
      /\ \A p : Ok(DropTasks(TasksOf(p))) /\ Ok(DropComments(CommentsOn(p)))
  BY <1>8, DropSteps
<1> HIDE DEF Ok
<1>10. \E steps : Ok(steps) /\ Then(r, steps)
  BY <1>5, <1>6, <1>7, <1>9 DEF Guard, Read
<1> QED BY <1>1, <1>10 DEF Ok

\* The request gives up, awaits a call of FileService or hears from it.
Moves(r) ==
  /\ job[r].agenda # <<>> /\ UNCHANGED db
  /\ \/ Throw(r)
     \/ Doing(r, <<"files">>) /\ Then(r, <<>>)
     \/ /\ Head(job[r].agenda)[1] \in {"upload", "dropFiles", "eraseFile"}
        /\ Then(r, << <<"files">> >>)

\* The steps of the workspace, as far as agendas go.
LEMMA NextSteps ==
  [Next]_vars =>
    \/ \E r \in Requests : Start(r) \/ Guard(r) \/ Read(r) \/ Moves(r)
    \/ \E r \in Requests : \E answered \in BOOLEAN : Write(r, answered)
    \/ Crash
    \/ UNCHANGED <<db, job>>
<1> USE DEF db
<1>1. ASSUME NEW r \in Requests, Refuse(r) \/ LostRace(r) \/ CallFiles(r) \/ SettleFiles(r)
      PROVE  Moves(r)
  BY <1>1 DEF Refuse, LostRace, CallFiles, SettleFiles, Moves, Doing
<1>2. ASSUME NEW r \in Requests, Serve(r)
      PROVE  \/ Guard(r) \/ Read(r) \/ Moves(r) \/ Write(r, TRUE) \/ UNCHANGED <<db, job>>
  BY <1>1, <1>2 DEF Serve, AwaitFiles
<1>3. ASSUME NEW r \in Requests, Fault(r)
      PROVE  Moves(r) \/ Write(r, FALSE) \/ UNCHANGED <<db, job>>
  BY <1>3 DEF Fault, Moves
<1>4. UNCHANGED vars => UNCHANGED <<db, job>>
  BY DEF vars
<1> QED BY <1>2, <1>3, <1>4 DEF Next, HealthyNext

\* No request inserts what another one inserts, a row that was deleted never
\* comes back, and one that is there belongs where it belonged.
LEMMA IdNext == TypeOK /\ FS!TypeOK /\ IdInv /\ [Next]_vars => IdInv' /\ Settles /\ KeepsRows
<1> SUFFICES ASSUME TypeOK, FS!TypeOK, IdInv, [Next]_vars PROVE IdInv' /\ Settles /\ KeepsRows
  OBVIOUS
<1>1. JobsOK
  BY TypeParts
<1>2. UNCHANGED <<task, comment>> => KeepsRows
  BY DEF KeepsRows
<1>3. UNCHANGED db =>
        /\ issued' = issued /\ \A x : (x \in Live)' => x \in Live
  BY DEF db, Live, LiveTasks, LiveComments
<1>4. ASSUME NEW r \in Requests, Start(r) PROVE IdInv' /\ Settles /\ KeepsRows
  BY <1>2, <1>4, StartIds, StartKeeps
<1>5. ASSUME NEW r \in Requests, Guard(r) \/ Read(r) PROVE IdInv' /\ Settles /\ KeepsRows
  <2> PICK steps \in Seq(Step) : NoInsert(steps) /\ Then(r, steps)
    BY <1>5, ReadSteps
  <2>1. job[r].agenda # <<>> /\ UNCHANGED db
    BY <1>5, ReadSteps
  <2>2. IdInv' /\ Settles
    BY <1>1, <1>3, <2>1, ThenIds
  <2> QED BY <1>2, <2>1, <2>2 DEF db
<1>6. ASSUME NEW r \in Requests, Moves(r) PROVE IdInv' /\ Settles /\ KeepsRows
  <2>1. << <<"files">> >> \in Seq(Step) /\ NoInsert(<< <<"files">> >>)
    BY StepForms, Agendas DEF NoInsert
  <2> PICK steps \in Seq(Step) : NoInsert(steps) /\ (Then(r, steps) \/ Throw(r))
    BY <1>6, <2>1, DropSteps DEF Moves
  <2>2. IdInv' /\ Settles
    BY <1>1, <1>3, <1>6, ThenIds DEF Moves
  <2> QED BY <1>2, <1>6, <2>2 DEF Moves, db
<1>7. ASSUME NEW r \in Requests, NEW answered \in BOOLEAN, Write(r, answered)
      PROVE  IdInv' /\ Settles /\ KeepsRows
  <2> PICK steps \in Seq(Step) : NoInsert(steps) /\ (Then(r, steps) \/ Throw(r))
    BY <1>7, WriteSteps
  <2>1. issued' = issued
    BY <1>7 DEF Write
  <2>2. IdInv' /\ Settles
    BY <1>1, <1>7, <2>1, WriteLive, ThenIds
  <2> QED BY <1>7, <2>2, WriteRows
<1>8. CASE Crash
  <2>1. UNCHANGED db /\ \A q \in Requests : job'[q].agenda = <<>>
    BY <1>8 DEF Crash, IdleJob
  <2>2. \A x : ~Pending(x)'
    BY <2>1 DEF Pending
  <2>3. Settles
    BY <1>3, <2>1, <2>2 DEF Settles, Settled
  <2>4. IdInv'
    BY <1>3, <2>1, <2>2, <2>3 DEF IdInv, Settles
  <2> QED BY <1>2, <2>1, <2>3, <2>4 DEF db
<1>9. CASE UNCHANGED <<db, job>>
  <2>1. \A x : (Pending(x)' <=> Pending(x)) /\ ((x \in Live)' <=> x \in Live)
    BY <1>9 DEF Pending, db, Live, LiveTasks, LiveComments
  <2>2. issued' = issued /\ job' = job /\ UNCHANGED <<task, comment>>
    BY <1>9 DEF db
  <2>3. Settles
    BY <2>1, <2>2 DEF Settles, Settled
  <2>4. IdInv'
    BY <2>1, <2>2, <2>3 DEF IdInv, Settles
  <2> QED BY <1>2, <2>2, <2>3, <2>4
<1> QED BY <1>4, <1>5, <1>6, <1>7, <1>8, <1>9, NextSteps

-----------------------------------------------------------------------------
\* A settled row stays in its project.
LEMMA WithinKept ==
  ASSUME Settles, KeepsRows, NEW o \in Projects \cup Tasks, NEW p, Within(o, p)
  PROVE  Within(o, p)'
<1>1. Settled(o)'
  BY DEF Within, Settles, Fileables
<1>2. (o \in LiveTasks)' => o \in LiveTasks /\ task'[o].project = task[o].project
  BY DEF Within, LiveTasks, KeepsRows
<1> QED BY <1>1, <1>2 DEF Within

\* A step of an agenda that keeps its place behind the same step, or that is now
\* first as it was, rests on what it rested on.
LEMMA EntitledKept ==
  ASSUME Settles, KeepsRows, NEW a, NEW b, NEW i \in Nat, NEW j \in Nat, NEW u, NEW s, NEW w,
         Entitled(a, i, u, s), b[j] = a[i],
         \/ i = 1 /\ j = 1 /\ s \subseteq w
         \/ i > 1 /\ j > 1 /\ b[j - 1] = a[i - 1]
  PROVE  Entitled(b, j, u, w)'
<1>1. ASSUME NEW t \in Tasks, NEW p \in Projects, NEW v \in Users,
             b[j] = <<"insertTask", t, p, v>>
      PROVE  Asked(b, j, w, p, v)
  BY <1>1 DEF Entitled, Asked
<1>2. ASSUME NEW t \in Tasks, NEW v \in Users, b[j] = <<"update", t, v>>
      PROVE  \E p \in Projects : Within(t, p)' /\ Asked(b, j, w, p, v)
  <2> PICK p \in Projects : Within(t, p) /\ Asked(a, i, s, p, v)
    BY <1>2 DEF Entitled
  <2>1. Within(t, p)'
    BY WithinKept
  <2> QED BY <2>1 DEF Asked
<1>3. ASSUME NEW c \in Comments, NEW o \in Projects \cup Tasks,
             b[j] = <<"insertComment", c, o>>
      PROVE  \/ j > 1 /\ b[j - 1] = <<"guard", o>>
             \/ \E p \in Projects :
                  /\ Within(o, p)'
                  /\ IF j = 1 THEN AtLeastManager(u) \/ <<u, p>> \in w
                     ELSE b[j - 1] = <<"guard", p>>
  <2>1. CASE i > 1 /\ a[i - 1] = <<"guard", o>>
    BY <2>1
  <2>2. CASE ~(i > 1 /\ a[i - 1] = <<"guard", o>>)
    <3> PICK p \in Projects :
          /\ Within(o, p)
          /\ IF i = 1 THEN AtLeastManager(u) \/ <<u, p>> \in s
             ELSE a[i - 1] = <<"guard", p>>
      BY <1>3, <2>2 DEF Entitled
    <3>1. Within(o, p)'
      BY WithinKept
    <3> QED BY <3>1
  <2> QED BY <2>1, <2>2
<1> QED BY <1>1, <1>2, <1>3 DEF Entitled, Asked

\* A step that writes nothing guarded needs no permission.
LEMMA EntitledOther ==
  ASSUME NEW b, NEW j, NEW u, NEW w,
         b[j][1] \notin {"insertTask", "update", "insertComment"}
  PROVE  Entitled(b, j, u, w)'
BY DEF Entitled

\* What an endpoint starts with asks first.
LEMMA EntitledOpens ==
  ASSUME NEW b, Opens(b), NEW u, NEW w, NEW j \in 1..Len(b)
  PROVE  Entitled(b, j, u, w)'
BY DEF Opens, Entitled, Asked

\* EntitledInv, request by request.
LEMMA EntitledEach ==
  ASSUME \A r \in Requests : \E b, u, w :
           /\ b = job'[r].agenda /\ (b # <<>> => u = job'[r].user /\ w = job'[r].saw)
           /\ \A j \in 1..Len(b) : Entitled(b, j, u, w)'
  PROVE  EntitledInv'
<1> SUFFICES ASSUME NEW r \in Requests, NEW j \in 1..Len(job'[r].agenda)
             PROVE  Entitled(job[r].agenda, j, job[r].user, job[r].saw)'
  BY DEF EntitledInv
<1> PICK b, u, w : /\ b = job'[r].agenda /\ (b # <<>> => u = job'[r].user /\ w = job'[r].saw)
                   /\ \A i \in 1..Len(b) : Entitled(b, i, u, w)'
  OBVIOUS
<1>1. b # <<>>
  <2>1. Len(<<>>) = 0 /\ 1..0 = {}
    OBVIOUS
  <2> QED BY <2>1
<1>2. Entitled(b, j, u, w)'
  OBVIOUS
<1>3. b = job'[r].agenda /\ u = job'[r].user /\ w = job'[r].saw
  BY <1>1
<1>4. \A t \in Tasks, p \in Projects, v \in Users :
        job'[r].agenda[j] = <<"insertTask", t, p, v>> => Asked(job'[r].agenda, j, job'[r].saw, p, v)
  BY <1>2, <1>3 DEF Entitled
<1>5. \A t \in Tasks, v \in Users : job'[r].agenda[j] = <<"update", t, v>> =>
        \E p \in Projects : Within(t, p)' /\ Asked(job'[r].agenda, j, job'[r].saw, p, v)
  BY <1>2, <1>3 DEF Entitled
<1>6. ASSUME NEW c \in Comments, NEW o \in Projects \cup Tasks,
             job'[r].agenda[j] = <<"insertComment", c, o>>
      PROVE  \/ j > 1 /\ job'[r].agenda[j - 1] = <<"guard", o>>
             \/ \E p \in Projects :
                  /\ Within(o, p)'
                  /\ IF j = 1 THEN AtLeastManager(job'[r].user) \/ <<job'[r].user, p>> \in job'[r].saw
                     ELSE job'[r].agenda[j - 1] = <<"guard", p>>
  <2>1. CASE j > 1 /\ b[j - 1] = <<"guard", o>>
    BY <1>3, <2>1
  <2>2. CASE ~(j > 1 /\ b[j - 1] = <<"guard", o>>)
    <3>1. b[j] = <<"insertComment", c, o>>
      BY <1>3, <1>6
    <3>2. PICK p \in Projects : /\ Within(o, p)'
                               /\ IF j = 1 THEN AtLeastManager(u) \/ <<u, p>> \in w
                                  ELSE b[j - 1] = <<"guard", p>>
      BY <1>2, <2>2, <3>1 DEF Entitled, AtLeastManager
    <3> QED BY <1>3, <3>2 DEF AtLeastManager
  <2> QED BY <2>1, <2>2
<1> QED BY <1>4, <1>5, <1>6 DEF Entitled, Asked, AtLeastManager

\* A request whose job a step leaves alone.
LEMMA EntitledSame ==
  ASSUME EntitledInv, Settles, KeepsRows, NEW q \in Requests, job'[q] = job[q]
  PROVE  \E b, u, w : /\ b = job'[q].agenda /\ (b # <<>> => u = job'[q].user /\ w = job'[q].saw)
                      /\ \A j \in 1..Len(b) : Entitled(b, j, u, w)'
<1> PICK b, u, w : b = job[q].agenda /\ u = job[q].user /\ w = job[q].saw
  OBVIOUS
<1>1. ASSUME NEW j \in 1..Len(b) PROVE Entitled(b, j, u, w)'
  <2>1. Entitled(b, j, u, w)
    BY DEF EntitledInv
  <2>2. j \in Nat /\ (j = 1 \/ j > 1)
    OBVIOUS
  <2> QED BY <2>1, <2>2, EntitledKept
<1> QED BY <1>1

\* A request that goes on: the steps it is led to, and the one that comes after
\* them, are entitled.
LEMMA EntitledThen ==
  ASSUME JobsOK, EntitledInv, Settles, KeepsRows, NEW r \in Requests,
         NEW steps \in Seq(Step), job[r].agenda # <<>>, Then(r, steps),
         NEW b, b = job'[r].agenda, NEW u, u = job[r].user, NEW w, w = job[r].saw \cup member,
         \A j \in 1..Len(steps) : Entitled(b, j, u, w)',
         \A j \in Nat : j = Len(steps) + 1 /\ Len(job[r].agenda) >= 2 => Entitled(b, j, u, w)'
  PROVE  EntitledInv'
<1> PICK a : a = job[r].agenda
  OBVIOUS
<1> PICK s : s = job[r].saw
  OBVIOUS
<1>1. /\ Len(b) = Len(steps) + Len(a) - 1 /\ Len(steps) \in Nat /\ Len(a) \in Nat
      /\ \A i \in 1..Len(b) : i > Len(steps) =>
           i - Len(steps) + 1 \in 2..Len(a) /\ b[i] = a[i - Len(steps) + 1]
      /\ b # <<>> => job'[r].user = u /\ job'[r].saw = w
      /\ \A q \in Requests \ {r} : job'[q] = job[q]
  BY Went DEF JobsOK, Job
<1>2. ASSUME NEW j \in 1..Len(b) PROVE Entitled(b, j, u, w)'
  <2>1. CASE j \in 1..Len(steps)
    BY <2>1
  <2>2. CASE j = Len(steps) + 1
    <3>1. Len(a) >= 2 /\ j \in Nat
      <4>1. j > Len(steps) /\ j - Len(steps) + 1 = 2 /\ j \in Nat
        BY <1>1, <2>2
      <4>2. 2 \in 2..Len(a)
        BY <1>1, <4>1
      <4> QED BY <1>1, <4>2
    <3>2. Len(job[r].agenda) >= 2
      BY <3>1
    <3> QED BY <2>2, <3>1, <3>2, Zenon
  <2>3. CASE j > Len(steps) + 1
    <3> DEFINE i == j - Len(steps) + 1
    <3>8. j > Len(steps)
      BY <1>1, <2>3
    <3>1. i \in 2..Len(a) /\ b[j] = a[i]
      BY <1>1, <3>8
    <3>2. j - 1 \in 1..Len(b) /\ j - 1 > Len(steps)
      BY <1>1, <2>3
    <3>3. b[j - 1] = a[(j - 1) - Len(steps) + 1]
      BY <1>1, <3>2
    <3>4. (j - 1) - Len(steps) + 1 = i - 1 /\ i > 1 /\ j > 1 /\ i \in Nat /\ j \in Nat
      BY <1>1, <2>3
    <3>5. i \in 1..Len(a)
      BY <3>1
    <3> HIDE DEF i
    <3>6. Entitled(a, i, u, s)
      BY <3>5 DEF EntitledInv
    <3>7. b[j - 1] = a[i - 1]
      BY <3>3, <3>4
    <3> QED BY <3>1, <3>4, <3>6, <3>7, EntitledKept
  <2> QED BY <1>1, <2>1, <2>2, <2>3
<1>3. ASSUME NEW q \in Requests
      PROVE  \E c, v, z : /\ c = job'[q].agenda /\ (c # <<>> => v = job'[q].user /\ z = job'[q].saw)
                          /\ \A j \in 1..Len(c) : Entitled(c, j, v, z)'
  <2>1. CASE q = r
    BY <1>1, <1>2, <2>1
  <2>2. CASE q # r
    BY <1>1, <2>2, EntitledSame
  <2> QED BY <2>1, <2>2
<1> QED BY <1>3, EntitledEach

\* The step after one that is no question rests on nothing.
LEMMA EntitledUnasked ==
  ASSUME NEW a, NEW u, NEW s, Entitled(a, 2, u, s), a[1][1] \notin {"assign", "guard"},
         NEW b, NEW j, b[j] = a[2], NEW w
  PROVE  Entitled(b, j, u, w)'
<1>1. /\ \A p, v : a[1] # <<"assign", p, v>>
      /\ \A o : a[1] # <<"guard", o>>
  OBVIOUS
<1>2. /\ \A t \in Tasks, p \in Projects, v \in Users : a[2] # <<"insertTask", t, p, v>>
      /\ \A t \in Tasks, v \in Users : a[2] # <<"update", t, v>>
      /\ \A c \in Comments, o \in Projects \cup Tasks : a[2] # <<"insertComment", c, o>>
  BY <1>1 DEF Entitled, Asked
<1> QED BY <1>2 DEF Entitled

\* A request whose step is no question, or that gives up, leaves the others and
\* the rest of its agenda entitled.
LEMMA EntitledPlain ==
  ASSUME JobsOK, EntitledInv, Settles, KeepsRows, NEW r \in Requests,
         NEW steps \in Seq(Step), job[r].agenda # <<>>,
         \/ Throw(r)
         \/ /\ Then(r, steps)
            /\ Head(job[r].agenda)[1] \notin {"assign", "guard"}
            /\ \A j \in 1..Len(steps) : steps[j][1] \notin {"insertTask", "update", "insertComment"}
  PROVE  EntitledInv'
<1>1. CASE Throw(r)
  <2>1. job'[r].agenda = <<>> /\ \A q \in Requests \ {r} : job'[q] = job[q]
    BY <1>1, Thrown
  <2>2. Len(<<>>) = 0 /\ 1..0 = {}
    OBVIOUS
  <2>3. ASSUME NEW q \in Requests
        PROVE  \E c, v, z : /\ c = job'[q].agenda /\ (c # <<>> => v = job'[q].user /\ z = job'[q].saw)
                            /\ \A j \in 1..Len(c) : Entitled(c, j, v, z)'
    <3>1. CASE q = r
      <4>1. \A v, z : \A j \in 1..Len(<<>>) : Entitled(<<>>, j, v, z)'
        BY <2>2
      <4> QED BY <2>1, <3>1, <4>1
    <3>2. CASE q # r
      BY <2>1, <3>2, EntitledSame
    <3> QED BY <3>1, <3>2
  <2> QED BY <2>3, EntitledEach
<1>2. CASE ~Throw(r)
  <2>1. /\ Then(r, steps) /\ Head(job[r].agenda)[1] \notin {"assign", "guard"}
        /\ \A j \in 1..Len(steps) : steps[j][1] \notin {"insertTask", "update", "insertComment"}
    BY <1>2
  <2> PICK a, b, u, s, w : /\ a = job[r].agenda /\ b = job'[r].agenda /\ u = job[r].user
                           /\ s = job[r].saw /\ w = job[r].saw \cup member
    OBVIOUS
  <2>2. /\ Len(b) = Len(steps) + Len(a) - 1 /\ Len(steps) \in Nat /\ Len(a) \in Nat
        /\ \A i \in 1..Len(steps) : b[i] = steps[i]
        /\ \A i \in 1..Len(b) : i > Len(steps) => b[i] = a[i - Len(steps) + 1]
        /\ Head(a) = a[1]
    BY <2>1, Went DEF JobsOK, Job
  <2>3. \A j \in 1..Len(steps) : Entitled(b, j, u, w)'
    BY <2>1, <2>2, EntitledOther
  <2>4. ASSUME NEW j \in Nat, j = Len(steps) + 1, Len(a) >= 2 PROVE Entitled(b, j, u, w)'
    <3>1. b[j] = a[2]
      <4>1. j \in 1..Len(b) /\ j > Len(steps) /\ j - Len(steps) + 1 = 2
        BY <2>2, <2>4
      <4> QED BY <2>2, <4>1
    <3>2. Entitled(a, 2, u, s)
      BY <2>2, <2>4 DEF EntitledInv
    <3> QED BY <2>1, <2>2, <3>1, <3>2, EntitledUnasked
  <2> QED BY <2>1, <2>3, <2>4, EntitledThen
<1> QED BY <1>1, <1>2

\* Where the second step of an agenda goes.
LEMMA WentSecond ==
  ASSUME JobsOK, NEW r \in Requests, NEW steps \in Seq(Step), job[r].agenda # <<>>,
         Then(r, steps), Len(job[r].agenda) >= 2
  PROVE  job'[r].agenda[Len(steps) + 1] = job[r].agenda[2]
<1>1. Len(steps) \in Nat /\ Len(job[r].agenda) \in Nat
  BY DEF JobsOK, Job
<1>2. Len(job'[r].agenda) = Len(steps) + Len(job[r].agenda) - 1
  BY Went
<1> PICK j : j = Len(steps) + 1
  OBVIOUS
<1>3. j \in 1..Len(job'[r].agenda) /\ j > Len(steps) /\ j - Len(steps) + 1 = 2
  BY <1>1, <1>2
<1> QED BY <1>3, Went

\* What the guards and the queries let through.
LEMMA MayPass ==
  ASSUME TypeOK, NEW u
  PROVE  /\ \A p \in Projects : May(u, <<"guard", p>>) =>
              p \in project /\ (AtLeastManager(u) \/ <<u, p>> \in member)
         /\ \A p \in Projects, v \in Users : May(u, <<"assign", p, v>>) => <<v, p>> \in member
         /\ \A c \in Comments : May(u, <<"modify", c>>) =>
              c \in LiveComments /\ (Role[u] = "ADMIN" \/ comment[c].by = u)
<1>1. ASSUME NEW p \in Projects PROVE p \notin LiveTasks /\ p \notin LiveComments
  BY IdAssumption DEF LiveTasks, LiveComments
<1>2. ASSUME NEW p \in Projects, May(u, <<"guard", p>>)
      PROVE  p \in project /\ (AtLeastManager(u) \/ <<u, p>> \in member)
  BY <1>1, <1>2 DEF May, MayRead
<1>3. ASSUME NEW p \in Projects, NEW v \in Users, May(u, <<"assign", p, v>>)
      PROVE  <<v, p>> \in member
  BY <1>3 DEF May
<1>4. ASSUME NEW c \in Comments, May(u, <<"modify", c>>)
      PROVE  c \in LiveComments /\ (Role[u] = "ADMIN" \/ comment[c].by = u)
  <2>1. c \notin project /\ c \notin LiveTasks
    BY IdAssumption DEF TypeOK, LiveTasks
  <2> QED BY <1>4, <2>1 DEF May, MayModifyComment
<1> QED BY <1>2, <1>3, <1>4

\* A guard that passes entitles the comment that is written next.
LEMMA EntitledGuard ==
  ASSUME TypeOK, FS!TypeOK, IdInv, EntitledInv, Settles, KeepsRows, NEW r \in Requests, Guard(r)
  PROVE  EntitledInv'
<1> PICK a, b, u, s, w : /\ a = job[r].agenda /\ b = job'[r].agenda /\ u = job[r].user
                         /\ s = job[r].saw /\ w = job[r].saw \cup member
  OBVIOUS
<1>1. JobsOK /\ a # <<>> /\ Head(a) = a[1] /\ Len(a) \in Nat /\ a \in Seq(Step)
  <2>1. JobsOK
    BY TypeParts
  <2>2. a # <<>>
    BY DEF Guard, Doing
  <2>3. a \in Seq(Step)
    BY <2>1 DEF JobsOK, Job
  <2> QED BY <2>1, <2>2, <2>3
<1>2. Len(a) >= 2 => Entitled(a, 2, u, s)
  BY <1>1 DEF EntitledInv
<1>3. ASSUME NEW p \in Projects, Doing(r, <<"guard", p>>), Allowed(r), Then(r, <<>>)
      PROVE  EntitledInv'
  <2>1. p \in project /\ (AtLeastManager(u) \/ <<u, p>> \in w)
    BY <1>3, MayPass DEF Doing, Allowed
  <2>2. Within(p, p)
    <3>1. Settled(p)
      BY <2>1 DEF IdInv, Live, Fileables
    <3>2. p \notin LiveTasks
      BY IdAssumption DEF LiveTasks
    <3> QED BY <3>1, <3>2 DEF Within
  <2>3. ASSUME Len(a) >= 2 PROVE Entitled(b, 1, u, w)'
    <3>1. b[1] = a[2]
      <4>1. <<>> \in Seq(Step) /\ Len(<<>>) + 1 = 1 /\ Len(job[r].agenda) >= 2
        BY <2>3
      <4>2. job'[r].agenda[Len(<<>>) + 1] = job[r].agenda[2]
        BY <1>1, <1>3, <4>1, WentSecond
      <4> QED BY <4>1, <4>2
    <3>2. a[1] = <<"guard", p>>
      BY <1>1, <1>3 DEF Doing
    <3>3. ASSUME NEW c \in Comments, NEW o \in Projects \cup Tasks,
                 b[1] = <<"insertComment", c, o>>
          PROVE  \E q \in Projects : Within(o, q)' /\ (AtLeastManager(u) \/ <<u, q>> \in w)
      <4>1. a[1] = <<"guard", o>> \/ \E q \in Projects : Within(o, q) /\ a[1] = <<"guard", q>>
        BY <1>2, <2>3, <3>1, <3>3 DEF Entitled
      <4>2. Within(o, p)
        BY <2>2, <3>2, <4>1
      <4>3. Within(o, p)'
        BY <4>2, WithinKept
      <4> QED BY <2>1, <4>3
    <3>4. /\ \A t \in Tasks, q \in Projects, v \in Users : b[1] # <<"insertTask", t, q, v>>
          /\ \A t \in Tasks, v \in Users : b[1] # <<"update", t, v>>
      BY <1>2, <2>3, <3>1, <3>2 DEF Entitled, Asked
    <3> QED BY <3>3, <3>4 DEF Entitled
  <2>4. /\ <<>> \in Seq(Step) /\ Len(<<>>) = 0
        /\ \A j \in 1..Len(<<>>) : Entitled(b, j, u, w)'
    OBVIOUS
  <2>5. \A j \in Nat : j = Len(<<>>) + 1 /\ Len(job[r].agenda) >= 2 => Entitled(b, j, u, w)'
    BY <2>3, <2>4
  <2> QED BY <1>1, <1>3, <2>4, <2>5, EntitledThen
<1>4. ASSUME NEW t \in Tasks, Doing(r, <<"guard", t>>), Allowed(r),
             Then(r, << <<"guard", task[t].project>> >>)
      PROVE  EntitledInv'
  <2> PICK q : q = task[t].project
    OBVIOUS
  <2> DEFINE steps == << <<"guard", q>> >>
  <2>1. t \in LiveTasks
    BY <1>4, MayTask DEF Doing, Allowed
  <2>2. q \in Projects /\ Settled(t)
    BY <2>1 DEF LiveTasks, TypeOK, TaskRow, IdInv, Live, Fileables
  <2>3. steps \in Seq(Step)
    BY <2>2, StepForms, Agendas DEF Fileables
  <2>4. Len(steps) = 1 /\ steps[1] = <<"guard", q>> /\ Then(r, steps)
    BY <1>4
  <2> HIDE DEF steps
  <2>5. b[1] = <<"guard", q>>
    <3>1. 1 \in 1..Len(steps)
      BY <2>4
    <3> QED BY <1>1, <2>3, <2>4, <3>1, Went
  <2>6. Within(t, q)
    BY <2>1, <2>2, IdAssumption DEF Within
  <2>7. ASSUME NEW j \in Nat, j = Len(steps) + 1, Len(job[r].agenda) >= 2
        PROVE  Entitled(b, j, u, w)'
    <3>5. j = 2 /\ b[j - 1] = <<"guard", q>>
      BY <2>4, <2>5, <2>7
    <3>6. job'[r].agenda[Len(steps) + 1] = job[r].agenda[2]
      BY <1>1, <2>3, <2>4, <2>7, WentSecond
    <3>1. b[j] = a[2] /\ j = 2 /\ b[j - 1] = <<"guard", q>>
      BY <2>7, <3>5, <3>6
    <3>2. a[1] = <<"guard", t>>
      BY <1>1, <1>4 DEF Doing
    <3>3. ASSUME NEW c \in Comments, NEW o \in Projects \cup Tasks,
                 b[j] = <<"insertComment", c, o>>
          PROVE  \E p \in Projects : Within(o, p)' /\ b[j - 1] = <<"guard", p>>
      <4>1. a[1] = <<"guard", o>> \/ \E p \in Projects : Within(o, p) /\ a[1] = <<"guard", p>>
        BY <1>2, <2>7, <3>1, <3>3 DEF Entitled
      <4>2. o = t
        BY <3>2, <4>1, IdAssumption
      <4>3. Within(o, q)'
        BY <2>6, <4>2, WithinKept
      <4> QED BY <2>2, <3>1, <4>3
    <3>4. /\ \A x \in Tasks, p \in Projects, v \in Users : b[j] # <<"insertTask", x, p, v>>
          /\ \A x \in Tasks, v \in Users : b[j] # <<"update", x, v>>
      BY <1>2, <2>7, <3>1, <3>2 DEF Entitled, Asked
    <3> QED BY <3>1, <3>3, <3>4 DEF Entitled
  <2>8. \A j \in 1..Len(steps) : Entitled(b, j, u, w)'
    <3>1. \A j \in 1..Len(steps) : b[j][1] \notin {"insertTask", "update", "insertComment"}
      BY <2>4, <2>5
    <3> QED BY <3>1, EntitledOther
  <2> QED BY <1>1, <2>3, <2>4, <2>7, <2>8, EntitledThen
<1>5. ASSUME Head(a)[1] \in {"modify", "fileGuard"} PROVE EntitledInv'
  <2> DEFINE Ok(steps) ==
        /\ steps \in Seq(Step)
        /\ \A j \in 1..Len(steps) : steps[j][1] \notin {"insertTask", "update", "insertComment"}
  <2>9. ASSUME NEW x \in Step, x[1] \in {"guard", "modify"} PROVE Ok(<<x>>)
    BY <2>9, Agendas
  <2>1. \A o \in Fileables : Ok(<< <<"guard", o>> >>) /\ Ok(<< <<"modify", o>> >>)
    <3> HIDE DEF Ok
    <3>1. \A o \in Fileables : <<"guard", o>> \in Step /\ <<"modify", o>> \in Step
      BY StepForms
    <3> QED BY <2>9, <3>1
  <2>2. Ok(<<>>)
    OBVIOUS
  <2> HIDE DEF Ok
  <2>3. ASSUME NEW t \in Tasks, Doing(r, <<"modify", t>>), Allowed(r)
        PROVE  task[t].project \in Fileables
    <3>1. May(job[r].user, <<"modify", t>>)
      BY <2>3 DEF Doing, Allowed
    <3>2. t \in LiveTasks
      BY <3>1, MayTask
    <3> QED BY <3>2 DEF LiveTasks, TypeOK, TaskRow, Fileables
  <2>4. ASSUME NEW n \in Names, Doing(r, <<"fileGuard", n>>), Allowed(r)
        PROVE  file[n] \in Fileables
    <3>1. May(job[r].user, <<"fileGuard", n>>)
      BY <2>4 DEF Doing, Allowed
    <3> QED BY <3>1, MayFile DEF FS!TypeOK
  <2>7. \E steps : Ok(steps) /\ Then(r, steps)
    <3>1. CASE Then(r, <<>>)
      BY <2>2, <3>1
    <3>2. CASE \E x \in Tasks : /\ Doing(r, <<"modify", x>>) /\ Allowed(r)
                               /\ Then(r, << <<"guard", task[x].project>> >>)
      BY <2>1, <2>3, <3>2
    <3>3. CASE \E n \in Names : /\ Doing(r, <<"fileGuard", n>>) /\ Allowed(r)
                               /\ Then(r, << <<"modify", file[n]>> >>)
      BY <2>1, <2>4, <3>3
    <3>4. \A x : ~Doing(r, <<"guard", x>>)
      BY <1>5 DEF Doing
    <3> QED BY <3>1, <3>2, <3>3, <3>4 DEF Guard
  <2> PICK steps : Ok(steps) /\ Then(r, steps)
    BY <2>7
  <2>8. /\ steps \in Seq(Step) /\ job[r].agenda # <<>>
        /\ Head(job[r].agenda)[1] \notin {"assign", "guard"}
        /\ \A j \in 1..Len(steps) : steps[j][1] \notin {"insertTask", "update", "insertComment"}
    BY <1>1, <1>5 DEF Ok
  <2> QED BY <1>1, <2>8, EntitledPlain
<1>6. CASE \E p \in Projects : Doing(r, <<"guard", p>>) /\ Allowed(r) /\ Then(r, <<>>)
  BY <1>3, <1>6
<1>7. CASE \E t \in Tasks : /\ Doing(r, <<"guard", t>>) /\ Allowed(r)
                           /\ Then(r, << <<"guard", task[t].project>> >>)
  BY <1>4, <1>7
<1>8. CASE Head(a)[1] \in {"modify", "fileGuard"}
  BY <1>5, <1>8
<1>9. CASE \/ \E x \in Fileables : Doing(r, <<"modify", x>>)
           \/ \E n \in Names : Doing(r, <<"fileGuard", n>>)
  BY <1>8, <1>9 DEF Doing
<1> QED BY <1>6, <1>7, <1>9 DEF Guard, Fileables

\* A member found entitles the assignment that is written next, and listing
\* rows nothing.
LEMMA EntitledRead ==
  ASSUME TypeOK, FS!TypeOK, IdInv, EntitledInv, Settles, KeepsRows, NEW r \in Requests, Read(r)
  PROVE  EntitledInv'
<1> PICK a, b, u, s, w : /\ a = job[r].agenda /\ b = job'[r].agenda /\ u = job[r].user
                         /\ s = job[r].saw /\ w = job[r].saw \cup member
  OBVIOUS
<1>1. JobsOK /\ a # <<>> /\ Head(a) = a[1] /\ Len(a) \in Nat /\ a \in Seq(Step)
  <2>1. JobsOK
    BY TypeParts
  <2>2. a # <<>>
    BY DEF Read, Doing
  <2>3. a \in Seq(Step)
    BY <2>1 DEF JobsOK, Job
  <2> QED BY <2>1, <2>2, <2>3
<1>2. Len(a) >= 2 => Entitled(a, 2, u, s)
  BY <1>1 DEF EntitledInv
<1>3. ASSUME NEW p \in Projects, NEW v \in Users, Doing(r, <<"assign", p, v>>), Allowed(r),
             Then(r, <<>>)
      PROVE  EntitledInv'
  <2>1. <<v, p>> \in w
    BY <1>3, MayPass DEF Doing, Allowed
  <2>2. ASSUME Len(a) >= 2 PROVE Entitled(b, 1, u, w)'
    <3>1. b[1] = a[2]
      <4>1. <<>> \in Seq(Step) /\ Len(<<>>) + 1 = 1 /\ Len(job[r].agenda) >= 2
        BY <2>2
      <4>2. job'[r].agenda[Len(<<>>) + 1] = job[r].agenda[2]
        BY <1>1, <1>3, <4>1, WentSecond
      <4> QED BY <4>1, <4>2
    <3>2. a[1] = <<"assign", p, v>>
      BY <1>1, <1>3 DEF Doing
    <3>3. ASSUME NEW q \in Projects, NEW x \in Users, Asked(a, 2, s, q, x)
          PROVE  Asked(b, 1, w, q, x)
      BY <2>1, <3>2, <3>3 DEF Asked
    <3>4. \A t \in Tasks, q \in Projects, x \in Users :
            b[1] = <<"insertTask", t, q, x>> => Asked(b, 1, w, q, x)
      BY <1>2, <2>2, <3>1, <3>3 DEF Entitled
    <3>5. ASSUME NEW t \in Tasks, NEW x \in Users, b[1] = <<"update", t, x>>
          PROVE  \E q \in Projects : Within(t, q)' /\ Asked(b, 1, w, q, x)
      <4> PICK q \in Projects : Within(t, q) /\ Asked(a, 2, s, q, x)
        BY <1>2, <2>2, <3>1, <3>5 DEF Entitled
      <4>1. Within(t, q)'
        BY WithinKept
      <4> QED BY <3>3, <4>1
    <3>6. \A c \in Comments, o \in Projects \cup Tasks : b[1] # <<"insertComment", c, o>>
      BY <1>2, <2>2, <3>1, <3>2 DEF Entitled
    <3> QED BY <3>4, <3>5, <3>6 DEF Entitled, Asked
  <2>3. /\ <<>> \in Seq(Step) /\ Len(<<>>) = 0
        /\ \A j \in 1..Len(<<>>) : Entitled(b, j, u, w)'
    OBVIOUS
  <2>4. \A j \in Nat : j = Len(<<>>) + 1 /\ Len(job[r].agenda) >= 2 => Entitled(b, j, u, w)'
    BY <2>2, <2>3
  <2> QED BY <1>1, <1>3, <2>3, <2>4, EntitledThen
<1>4. ASSUME NEW t \in Tasks, NEW v \in Users, Doing(r, <<"reassign", t, v>>), Allowed(r),
             Then(r, << <<"assign", task[t].project, v>>, <<"update", t, v>> >>)
      PROVE  EntitledInv'
  <2> PICK q : q = task[t].project
    OBVIOUS
  <2> DEFINE steps == << <<"assign", q, v>>, <<"update", t, v>> >>
  <2>1. t \in LiveTasks
    BY <1>4, MayTask DEF Doing, Allowed
  <2>2. q \in Projects /\ Settled(t)
    BY <2>1 DEF LiveTasks, TypeOK, TaskRow, IdInv, Live, Fileables
  <2>3. steps \in Seq(Step)
    BY <2>2, StepForms, Agendas
  <2>4. /\ Len(steps) = 2 /\ steps[1] = <<"assign", q, v>> /\ steps[2] = <<"update", t, v>>
        /\ Then(r, steps)
    BY <1>4
  <2> HIDE DEF steps
  <2>5. b[1] = <<"assign", q, v>> /\ b[2] = <<"update", t, v>>
    <3>1. 1 \in 1..Len(steps) /\ 2 \in 1..Len(steps)
      BY <2>4
    <3> QED BY <1>1, <2>3, <2>4, <3>1, Went
  <2>6. Within(t, q)'
    <3>1. Within(t, q)
      BY <2>1, <2>2, IdAssumption DEF Within
    <3> QED BY <3>1, WithinKept
  <2>7. \A j \in 1..Len(steps) : Entitled(b, j, u, w)'
    <3>1. b[1][1] \notin {"insertTask", "update", "insertComment"}
      BY <2>5
    <3>2. Entitled(b, 1, u, w)'
      BY <3>1, EntitledOther
    <3>3. Entitled(b, 2, u, w)'
      BY <2>2, <2>5, <2>6 DEF Entitled, Asked
    <3>4. \A j \in 1..Len(steps) : j = 1 \/ j = 2
      BY <2>4
    <3> QED BY <3>2, <3>3, <3>4
  <2>8. ASSUME NEW j \in Nat, j = Len(steps) + 1, Len(job[r].agenda) >= 2
        PROVE  Entitled(b, j, u, w)'
    <3>1. job'[r].agenda[Len(steps) + 1] = job[r].agenda[2]
      BY <1>1, <2>3, <2>4, <2>8, WentSecond
    <3>2. b[j] = a[2] /\ Entitled(a, 2, u, s)
      BY <1>2, <2>8, <3>1
    <3>3. a[1][1] \notin {"assign", "guard"}
      BY <1>1, <1>4 DEF Doing
    <3> QED BY <3>2, <3>3, EntitledUnasked
  <2> QED BY <1>1, <2>3, <2>4, <2>7, <2>8, EntitledThen
<1>5. ASSUME NEW steps \in Seq(Step), Then(r, steps),
             Head(a)[1] \in {"notify", "listTasks", "listComments"},
             \A j \in 1..Len(steps) : steps[j][1] \in {"dropTasks", "dropComments"}
      PROVE  EntitledInv'
  <2>1. /\ job[r].agenda # <<>> /\ Head(job[r].agenda)[1] \notin {"assign", "guard"}
        /\ \A j \in 1..Len(steps) : steps[j][1] \notin {"insertTask", "update", "insertComment"}
    BY <1>1, <1>5
  <2> QED BY <1>1, <1>5, <2>1, EntitledPlain
<1>6. ASSUME NEW o, Doing(r, <<"notify", o>>), Then(r, <<>>) PROVE EntitledInv'
  <2>1. <<>> \in Seq(Step)
    OBVIOUS
  <2>2. \A j \in 1..Len(<<>>) : FALSE
    OBVIOUS
  <2>3. Head(a)[1] = "notify"
    BY <1>6 DEF Doing
  <2>4. \A j \in 1..Len(<<>>) : <<>>[j][1] \in {"dropTasks", "dropComments"}
    BY <2>2
  <2> QED BY <1>5, <1>6, <2>1, <2>3, <2>4
<1>7. ASSUME NEW p \in Projects, Doing(r, <<"listTasks", p>>), Then(r, DropTasks(TasksOf(p)))
      PROVE  EntitledInv'
  <2>1. TasksOf(p) \in SUBSET Tasks
    BY DEF TasksOf, LiveTasks
  <2> PICK steps : steps = DropTasks(TasksOf(p))
    OBVIOUS
  <2>2. steps \in Seq(Step)
    BY <2>1, DropSteps
  <2>3. \A j \in 1..Len(steps) : steps[j][1] \in {"dropTasks", "dropComments"}
    BY DEF DropTasks
  <2> QED BY <1>5, <1>7, <2>2, <2>3 DEF Doing
<1>8. ASSUME NEW o \in Projects \cup Tasks, Doing(r, <<"listComments", o>>),
             Then(r, DropComments(CommentsOn(o)))
      PROVE  EntitledInv'
  <2>1. CommentsOn(o) \in SUBSET Comments
    BY DEF CommentsOn, LiveComments
  <2> PICK steps : steps = DropComments(CommentsOn(o))
    OBVIOUS
  <2>2. steps \in Seq(Step)
    BY <2>1, DropSteps
  <2>3. \A j \in 1..Len(steps) : steps[j][1] \in {"dropTasks", "dropComments"}
    BY DEF DropComments
  <2> QED BY <1>5, <1>8, <2>2, <2>3 DEF Doing
<1> QED BY <1>3, <1>4, <1>6, <1>7, <1>8 DEF Read

\* What the loops of a deletion put on an agenda.
LEMMA DropHeads ==
  /\ \A T : \A j \in 1..Len(DropTasks(T)) : DropTasks(T)[j] = <<"dropTasks", T>>
  /\ \A C : \A j \in 1..Len(DropComments(C)) : DropComments(C)[j] = <<"dropComments", C>>
BY DEF DropTasks, DropComments

\* Nothing that is written is a question, and it leads at most to deletions.
LEMMA WritePlain ==
  ASSUME TypeOK, NEW r \in Requests, NEW answered, Write(r, answered)
  PROVE  /\ Head(job[r].agenda)[1] \notin {"assign", "guard"}
         /\ \E steps \in Seq(Step) :
              /\ Then(r, steps) \/ Throw(r)
              /\ \A j \in 1..Len(steps) :
                   steps[j][1] \in {"dropFiles", "listComments", "dropTasks", "dropComments"}
<1> DEFINE Ok(steps) == /\ steps \in Seq(Step)
                        /\ \A j \in 1..Len(steps) :
                             steps[j][1] \in {"dropFiles", "listComments", "dropTasks", "dropComments"}
<1>1. Head(job[r].agenda)[1] \notin {"assign", "guard"}
  <2>1. CASE InsertProject(r, answered) \/ EditText(r, answered) \/ DropProject(r, answered)
    BY <2>1 DEF InsertProject, EditText, DropProject, Doing
  <2>2. CASE Join(r, answered) \/ Leave(r, answered)
    BY <2>2 DEF Join, Leave, Doing
  <2>3. CASE InsertTask(r, answered) \/ UpdateTask(r, answered)
    BY <2>3 DEF InsertTask, UpdateTask, Doing
  <2>4. CASE DropTask(r, answered) \/ DropComment(r, answered)
    <3>1. \/ \E T \in SUBSET Tasks : Head(job[r].agenda) = <<"dropTasks", T>>
          \/ \E C \in SUBSET Comments : Head(job[r].agenda) = <<"dropComments", C>>
      BY <2>4, Zenon DEF DropTask, DropComment, Doing
    <3> QED BY <3>1
  <2>5. CASE InsertComment(r, answered)
    BY <2>5 DEF InsertComment, Doing
  <2> QED BY <2>1, <2>2, <2>3, <2>4, <2>5 DEF Write
<1>2. ASSUME NEW s \in Seq(Step), Ok(s), NEW t \in Seq(Step), Ok(t) PROVE Ok(s \o t)
  <2>1. /\ s \o t \in Seq(Step) /\ Len(s \o t) = Len(s) + Len(t)
        /\ \A i \in 1..Len(s) : (s \o t)[i] = s[i]
        /\ \A i \in 1..Len(s \o t) : i > Len(s) => (s \o t)[i] = t[i - Len(s)]
    BY Appended
  <2>2. Len(s) \in Nat /\ Len(t) \in Nat
    OBVIOUS
  <2>3. ASSUME NEW i \in 1..Len(s \o t)
        PROVE  (s \o t)[i][1] \in {"dropFiles", "listComments", "dropTasks", "dropComments"}
    <3>1. i \in 1..Len(s) \/ (i > Len(s) /\ i - Len(s) \in 1..Len(t))
      BY <2>1, <2>2
    <3> QED BY <1>2, <2>1, <3>1
  <2> QED BY <2>1, <2>3
<1>3. Ok(<<>>)
  OBVIOUS
<1>4. \A T \in SUBSET Tasks : DropTasks(T) \in Seq(Step) /\ Ok(DropTasks(T))
  BY DropSteps, DropHeads
<1>5. \A C \in SUBSET Comments : DropComments(C) \in Seq(Step) /\ Ok(DropComments(C))
  BY DropSteps, DropHeads
<1>6. ASSUME NEW o \in Fileables
      PROVE  << <<"dropFiles", o>> >> \in Seq(Step) /\ Ok(<< <<"dropFiles", o>> >>)
  <2>1. << <<"dropFiles", o>> >> \in Seq(Step)
    BY StepForms, Agendas
  <2> QED BY <2>1
<1>7. ASSUME NEW t \in Tasks
      PROVE  /\ << <<"dropFiles", t>>, <<"listComments", t>> >> \in Seq(Step)
             /\ Ok(<< <<"dropFiles", t>>, <<"listComments", t>> >>)
  <2>1. <<"dropFiles", t>> \in Step /\ <<"listComments", t>> \in Step
    BY StepForms DEF Fileables
  <2>2. << <<"dropFiles", t>>, <<"listComments", t>> >> \in Seq(Step)
    BY <2>1, Agendas
  <2> QED BY <2>2
<1>8. Comments \subseteq Fileables
  BY DEF Fileables
<1> HIDE DEF Ok
<1>9. CASE DropTask(r, answered)
  <2> PICK T \in SUBSET Tasks, t \in Tasks :
        Wrote(r, answered, << <<"dropFiles", t>>, <<"listComments", t>> >> \o DropTasks(T \ {t}))
    BY <1>9 DEF DropTask, LiveTasks
  <2>1. T \ {t} \in SUBSET Tasks
    OBVIOUS
  <2>2. Ok(<< <<"dropFiles", t>>, <<"listComments", t>> >> \o DropTasks(T \ {t}))
    BY <1>2, <1>4, <1>7, <2>1
  <2> QED BY <1>1, <2>2, WroteSteps DEF Ok
<1>10. CASE DropComment(r, answered)
  <2> PICK C \in SUBSET Comments, c \in Comments :
        Wrote(r, answered, << <<"dropFiles", c>> >> \o DropComments(C \ {c}))
    BY <1>10 DEF DropComment, LiveComments
  <2>1. C \ {c} \in SUBSET Comments
    OBVIOUS
  <2>2. Ok(<< <<"dropFiles", c>> >> \o DropComments(C \ {c}))
    BY <1>2, <1>5, <1>6, <1>8, <2>1
  <2> QED BY <1>1, <2>2, WroteSteps DEF Ok
<1>11. CASE Wrote(r, answered, <<>>)
  BY <1>1, <1>3, <1>11, WroteSteps DEF Ok
<1> QED BY <1>9, <1>10, <1>11 DEF Write, InsertProject, EditText, DropProject, Join, Leave,
                               InsertTask, UpdateTask, InsertComment

\* Every step of the workspace keeps what the rest of every agenda rests on.
LEMMA EntitledNext ==
  TypeOK /\ FS!TypeOK /\ IdInv /\ EntitledInv /\ [Next]_vars => EntitledInv'
<1> SUFFICES ASSUME TypeOK, FS!TypeOK, IdInv, EntitledInv, [Next]_vars PROVE EntitledInv'
  OBVIOUS
<1>1. JobsOK /\ Settles /\ KeepsRows
  BY TypeParts, IdNext
<1>2. ASSUME NEW r \in Requests, Start(r) PROVE EntitledInv'
  <2> PICK u \in Users : \E b \in Seq(Step) : b # <<>> /\ Go(r, u, b) /\ Opens(b) /\ Draws(b)
    BY <1>2, Started
  <2> PICK b \in Seq(Step) : b # <<>> /\ Go(r, u, b) /\ Opens(b) /\ Draws(b)
    OBVIOUS
  <2>1. /\ job'[r].agenda = b /\ \A q \in Requests \ {r} : job'[q] = job[q]
        /\ job'[r].user = u
    BY DEF Go, TypeOK
  <2>2. \A w : \A j \in 1..Len(b) : Entitled(b, j, u, w)'
    BY EntitledOpens
  <2>3. ASSUME NEW q \in Requests
        PROVE  \E c, v, z : /\ c = job'[q].agenda /\ (c # <<>> => v = job'[q].user /\ z = job'[q].saw)
                            /\ \A j \in 1..Len(c) : Entitled(c, j, v, z)'
    <3>1. CASE q = r
      BY <2>1, <2>2, <3>1
    <3>2. CASE q # r
      BY <1>1, <2>1, <3>2, EntitledSame
    <3> QED BY <3>1, <3>2
  <2> QED BY <2>3, EntitledEach
<1>3. ASSUME NEW r \in Requests, Guard(r) \/ Read(r) PROVE EntitledInv'
  BY <1>1, <1>3, EntitledGuard, EntitledRead
<1>4. ASSUME NEW r \in Requests, Moves(r) PROVE EntitledInv'
  <2>1. << <<"files">> >> \in Seq(Step)
    BY StepForms, Agendas
  <2>2. \A j \in 1..Len(<< <<"files">> >>) :
          << <<"files">> >>[j][1] \notin {"insertTask", "update", "insertComment"}
    OBVIOUS
  <2>3. <<>> \in Seq(Step)
    OBVIOUS
  <2>4. \A j \in 1..Len(<<>>) : <<>>[j][1] \notin {"insertTask", "update", "insertComment"}
    OBVIOUS
  <2>5. CASE Throw(r)
    BY <1>1, <1>4, <2>3, <2>5, EntitledPlain DEF Moves
  <2>6. CASE Doing(r, <<"files">>) /\ Then(r, <<>>)
    <3>1. Head(job[r].agenda)[1] \notin {"assign", "guard"}
      BY <2>6 DEF Doing
    <3> QED BY <1>1, <1>4, <2>3, <2>4, <2>6, <3>1, EntitledPlain DEF Moves
  <2>7. CASE /\ Head(job[r].agenda)[1] \in {"upload", "dropFiles", "eraseFile"}
             /\ Then(r, << <<"files">> >>)
    <3>1. Head(job[r].agenda)[1] \notin {"assign", "guard"}
      BY <2>7
    <3> QED BY <1>1, <1>4, <2>1, <2>2, <2>7, <3>1, EntitledPlain DEF Moves
  <2> QED BY <1>4, <2>5, <2>6, <2>7 DEF Moves
<1>5. ASSUME NEW r \in Requests, NEW answered \in BOOLEAN, Write(r, answered)
      PROVE  EntitledInv'
  <2> PICK steps \in Seq(Step) :
        /\ Then(r, steps) \/ Throw(r)
        /\ \A j \in 1..Len(steps) :
             steps[j][1] \in {"dropFiles", "listComments", "dropTasks", "dropComments"}
    BY <1>5, WritePlain
  <2>1. \A j \in 1..Len(steps) : steps[j][1] \notin {"insertTask", "update", "insertComment"}
    OBVIOUS
  <2>2. job[r].agenda # <<>> /\ Head(job[r].agenda)[1] \notin {"assign", "guard"}
    BY <1>5, WriteLive, WritePlain
  <2> QED BY <1>1, <2>1, <2>2, EntitledPlain
<1>6. CASE Crash
  <2>1. \A q \in Requests : job'[q].agenda = <<>>
    BY <1>6 DEF Crash, IdleJob
  <2>2. Len(<<>>) = 0 /\ 1..0 = {}
    OBVIOUS
  <2> QED BY <2>1, <2>2 DEF EntitledInv
<1>7. CASE UNCHANGED <<db, job>>
  <2>1. \A q \in Requests : job'[q] = job[q]
    BY <1>7
  <2> QED BY <1>1, <2>1, EntitledSame, EntitledEach
<1> QED BY <1>2, <1>3, <1>4, <1>5, <1>6, <1>7, NextSteps

\* TakePartAsMembers, of one step: who is assigned, and who comments.
AssignsMembers ==
  \A t \in Tasks : Assigns(t) =>
    LET v == task'[t].assignee
        p == task'[t].project
    IN  \E r \in Requests :
          /\ Doing(r, <<"insertTask", t, p, v>>) \/ Doing(r, <<"update", t, v>>)
          /\ SeenInside(r, v, p)

CommentsFromMembers ==
  \A c \in Comments \ LiveComments : comment'[c] # NoRow =>
    LET u == comment'[c].by
        o == comment'[c].on
    IN  \/ AtLeastManager(u) \/ o \notin Live
        \/ \E r \in Requests :
             /\ Doing(r, <<"insertComment", c, o>>)
             /\ SeenInside(r, u, IF o \in Projects THEN o ELSE task[o].project)

\* The head of an agenda rests on what its request saw.
LEMMA EntitledHead ==
  ASSUME TypeOK, EntitledInv, NEW r \in Requests, job[r].agenda # <<>>
  PROVE  /\ \A t \in Tasks, p \in Projects, v \in Users :
              Head(job[r].agenda) = <<"insertTask", t, p, v>> => <<v, p>> \in job[r].saw
         /\ \A t \in Tasks, v \in Users : Head(job[r].agenda) = <<"update", t, v>> =>
              \E p \in Projects : Within(t, p) /\ <<v, p>> \in job[r].saw
         /\ \A c \in Comments, o \in Projects \cup Tasks :
              Head(job[r].agenda) = <<"insertComment", c, o>> =>
                \E p \in Projects :
                  Within(o, p) /\ (AtLeastManager(job[r].user) \/ <<job[r].user, p>> \in job[r].saw)
<1>1. 1 \in 1..Len(job[r].agenda) /\ Head(job[r].agenda) = job[r].agenda[1]
  BY DEF TypeOK, Job
<1>2. Entitled(job[r].agenda, 1, job[r].user, job[r].saw)
  BY <1>1 DEF EntitledInv
<1>3. /\ \A t \in Tasks, p \in Projects, v \in Users :
           Head(job[r].agenda) = <<"insertTask", t, p, v>> => <<v, p>> \in job[r].saw
      /\ \A t \in Tasks, v \in Users : Head(job[r].agenda) = <<"update", t, v>> =>
           \E p \in Projects : Within(t, p) /\ <<v, p>> \in job[r].saw
  BY <1>1, <1>2 DEF Entitled, Asked
<1>4. ASSUME NEW c \in Comments, NEW o \in Projects \cup Tasks,
             Head(job[r].agenda) = <<"insertComment", c, o>>
      PROVE  \E p \in Projects :
               Within(o, p) /\ (AtLeastManager(job[r].user) \/ <<job[r].user, p>> \in job[r].saw)
  <2>1. job[r].agenda[1] = <<"insertComment", c, o>> /\ ~(1 > 1)
    BY <1>1, <1>4
  <2>2. \E p \in Projects :
          /\ Within(o, p)
          /\ IF 1 = 1 THEN AtLeastManager(job[r].user) \/ <<job[r].user, p>> \in job[r].saw
             ELSE job[r].agenda[1 - 1] = <<"guard", p>>
    BY <1>2, <2>1 DEF Entitled
  <2> QED BY <2>2
<1> QED BY <1>3, <1>4

\* Only insertTask and update assign, and only insertComment comments.
LEMMA TakesPart ==
  TypeOK /\ EntitledInv /\ [Next]_vars => AssignsMembers /\ CommentsFromMembers
<1> SUFFICES ASSUME TypeOK, EntitledInv, [Next]_vars PROVE AssignsMembers /\ CommentsFromMembers
  OBVIOUS
<1>1. UNCHANGED task => AssignsMembers
  BY DEF AssignsMembers, Assigns
<1>2. UNCHANGED comment => CommentsFromMembers
  BY DEF CommentsFromMembers, LiveComments
<1>3. ASSUME NEW r \in Requests, InsertTask(r, TRUE) \/ InsertTask(r, FALSE) PROVE AssignsMembers
  <2> PICK t \in Tasks, p \in Projects, v \in Users :
        /\ Doing(r, <<"insertTask", t, p, v>>)
        /\ task' = [task EXCEPT ![t] = [project |-> p, assignee |-> v]]
    BY <1>3 DEF InsertTask
  <2>1. SeenInside(r, v, p)
    BY EntitledHead DEF Doing, SeenInside
  <2>2. /\ task'[t].assignee = v /\ task'[t].project = p
        /\ \A x \in Tasks \ {t} : task'[x] = task[x]
    BY DEF TypeOK
  <2>3. \A x \in Tasks : Assigns(x) => x = t
    BY <2>2 DEF Assigns
  <2> QED BY <2>1, <2>2, <2>3 DEF AssignsMembers
<1>4. ASSUME NEW r \in Requests, UpdateTask(r, TRUE) \/ UpdateTask(r, FALSE) PROVE AssignsMembers
  <2> PICK t \in Tasks, v \in Users :
        /\ Doing(r, <<"update", t, v>>) /\ Allowed(r)
        /\ task' = [task EXCEPT ![t].assignee = v]
    BY <1>4 DEF UpdateTask
  <2>1. May(job[r].user, <<"update", t, v>>)
    BY DEF Doing, Allowed
  <2>2. t \in LiveTasks
    BY <2>1, MayTask
  <2> PICK p \in Projects : Within(t, p) /\ <<v, p>> \in job[r].saw
    BY EntitledHead DEF Doing
  <2>3. task[t].project = p
    BY <2>2 DEF Within
  <2>4. task[t] \in TaskRow
    BY <2>2 DEF TypeOK, LiveTasks
  <2>5. /\ task'[t].assignee = v /\ task'[t].project = p
        /\ \A x \in Tasks \ {t} : task'[x] = task[x]
    BY <2>3, <2>4 DEF TypeOK, TaskRow
  <2>6. \A x \in Tasks : Assigns(x) => x = t
    BY <2>5 DEF Assigns
  <2> QED BY <2>5, <2>6 DEF AssignsMembers, SeenInside
<1>5. ASSUME NEW r \in Requests, DropTask(r, TRUE) \/ DropTask(r, FALSE) PROVE AssignsMembers
  <2> PICK t \in Tasks : task' = [task EXCEPT ![t] = NoRow]
    BY <1>5 DEF DropTask, LiveTasks
  <2> QED BY DEF AssignsMembers, Assigns, TypeOK
<1>6. ASSUME NEW r \in Requests, InsertComment(r, TRUE) \/ InsertComment(r, FALSE)
      PROVE  CommentsFromMembers
  <2> PICK c \in Comments, o \in Projects \cup Tasks :
        /\ Doing(r, <<"insertComment", c, o>>)
        /\ comment' = [comment EXCEPT ![c] = [on |-> o, by |-> job[r].user]]
    BY <1>6 DEF InsertComment
  <2> PICK p \in Projects :
        Within(o, p) /\ (AtLeastManager(job[r].user) \/ <<job[r].user, p>> \in job[r].saw)
    BY EntitledHead DEF Doing
  <2>1. o \in Live => p = IF o \in Projects THEN o ELSE task[o].project
    BY IdAssumption DEF Within, Live, LiveTasks, LiveComments, TypeOK
  <2>2. /\ comment'[c].on = o /\ comment'[c].by = job[r].user
        /\ \A x \in Comments \ {c} : comment'[x] = comment[x]
    BY DEF TypeOK
  <2>3. \A x \in Comments \ LiveComments : comment'[x] # NoRow => x = c
    BY <2>2 DEF LiveComments
  <2> QED BY <2>1, <2>2, <2>3 DEF CommentsFromMembers, SeenInside
<1>7. ASSUME NEW r \in Requests, DropComment(r, TRUE) \/ DropComment(r, FALSE)
      PROVE  CommentsFromMembers
  <2> PICK c \in Comments : comment' = [comment EXCEPT ![c] = NoRow]
    BY <1>7 DEF DropComment, LiveComments
  <2> QED BY DEF CommentsFromMembers, LiveComments, TypeOK
<1>8. ASSUME NEW r \in Requests, NEW answered \in BOOLEAN, Write(r, answered)
      PROVE  AssignsMembers /\ CommentsFromMembers
  <2> USE DEF InsertProject, EditText, DropProject, Join, Leave
  <2>1. AssignsMembers
    BY <1>1, <1>3, <1>4, <1>5, <1>8 DEF Write, InsertComment, DropComment
  <2>2. CommentsFromMembers
    BY <1>2, <1>6, <1>7, <1>8 DEF Write, InsertTask, UpdateTask, DropTask
  <2> QED BY <2>1, <2>2
<1>9. ASSUME NEW r \in Requests, Start(r) \/ Guard(r) \/ Read(r) \/ Moves(r)
      PROVE  UNCHANGED <<task, comment>>
  BY <1>9, StartKeeps DEF Guard, Read, Moves, db
<1>10. Crash => UNCHANGED <<task, comment>>
  BY DEF Crash, db
<1> QED BY <1>1, <1>2, <1>8, <1>9, <1>10, NextSteps DEF db

\* The types of the file table, of which the proofs above need the owners.
LEMMA WorkspaceFileTypes == Spec => []FS!TypeOK
<1>1. FSP!Spec => []FSP!TypeOK
  BY FSP!TypeCorrect, FilesAssumption DEF IsFiniteSet, FSP!IsFiniteSet
<1>2. FS!Spec => FSP!Spec
  BY SameFileStore, PTL DEF FS!Spec, FSP!Spec
<1>3. FSP!TypeOK => FS!TypeOK
  BY DEF FS!TypeOK, FSP!TypeOK, FS!Call, FSP!Call
<1> QED BY <1>1, <1>2, <1>3, WorkspaceRefinesFileStore, PTL

\* An id is inserted at most once, whatever the requests do with their answers.
THEOREM InsertedOnce == Spec => []IdInv
<1>1. Init => IdInv
  <2>1. Init => \A x : ~Pending(x)
    BY DEF Init, IdleJob, Pending
  <2>2. Init => Live = {}
    BY DEF Init, Live, LiveTasks, LiveComments
  <2>3. Init => \A r \in Requests : job[r].agenda = <<>>
    BY DEF Init, IdleJob
  <2> QED BY <2>1, <2>2, <2>3 DEF IdInv
<1>2. TypeOK /\ FS!TypeOK /\ IdInv /\ [Next]_vars => IdInv'
  BY IdNext
<1> QED BY <1>1, <1>2, WorkspaceTypeCorrect, WorkspaceFileTypes, PTL DEF Spec

\* Whoever is assigned a task, and whoever comments without being a manager,
\* was a member of the project while the request that writes so was served.
THEOREM TakePartAsMembersHolds == Spec => TakePartAsMembers
<1>1. Init => EntitledInv
  BY DEF Init, IdleJob, EntitledInv
<1>2. TypeOK /\ FS!TypeOK /\ IdInv /\ EntitledInv /\ [Next]_vars => EntitledInv'
  BY EntitledNext
<1>3. Spec => []EntitledInv
  BY <1>1, <1>2, WorkspaceTypeCorrect, WorkspaceFileTypes, InsertedOnce, PTL DEF Spec
<1>4. TypeOK /\ EntitledInv /\ [Next]_vars => [AssignsMembers /\ CommentsFromMembers]_vars
  BY TakesPart
<1> QED BY <1>3, <1>4, WorkspaceTypeCorrect, PTL
        DEF Spec, TakePartAsMembers, AssignsMembers, CommentsFromMembers
=============================================================================

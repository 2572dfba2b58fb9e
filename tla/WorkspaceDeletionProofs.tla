----------------------- MODULE WorkspaceDeletionProofs -----------------------
(***************************************************************************)
(* What a request deletes, for any number of requests, users and ids: a    *)
(* comment goes by its author, an ADMIN or after its owner, a file by      *)
(* somebody who may change its owner or after it, and what hangs on a      *)
(* deleted row stays on the agenda of the request that deleted it until it *)
(* is deleted too, unless an exception or a late row intervenes.           *)
(***************************************************************************)
EXTENDS WorkspaceAgendaProofs

\* o is deleted, or was never inserted, and never will be.
Gone(o) == Settled(o) /\ o \notin Live

\* u may delete c if it is there.
MayGo(u, c) ==
  /\ Settled(c)
  /\ c \in LiveComments =>
       Gone(comment[c].on) \/ Role[u] = "ADMIN" \/ u = comment[c].by

\* Step i of agenda a deletes what its steps before i allow, and is followed by
\* the deletion of what hangs on a project.
Led(a, i, u) ==
  /\ \A p \in Projects : a[i] = <<"dropProject", p>> =>
       /\ i + 2 <= Len(a)
       /\ a[i + 1] = <<"dropFiles", p>> /\ a[i + 2] = <<"listComments", p>>
  /\ \A o \in Projects \cup Tasks : a[i] = <<"listComments", o>> =>
       Gone(o) \/ (i > 2 /\ a[i - 2] = <<"dropProject", o>>)
  /\ \A C \in SUBSET Comments : a[i] = <<"dropComments", C>> =>
       \/ i > 1 /\ \E c \in C : C = {c} /\ a[i - 1] = <<"modify", c>>
       \/ \A c \in C : MayGo(u, c)

LedInv ==
  \A r \in Requests : \A i \in 1..Len(job[r].agenda) :
    Led(job[r].agenda, i, job[r].user)

-----------------------------------------------------------------------------
\* What is gone stays away.
LEMMA GoneKept ==
  ASSUME Settles, NEW o \in Fileables, Gone(o)
  PROVE  Gone(o)'
BY DEF Settles, Gone

\* Whoever may delete a comment may do so from then on.
LEMMA MayGoKept ==
  ASSUME TypeOK, Settles, KeepsRows, NEW c \in Comments, NEW u, MayGo(u, c)
  PROVE  MayGo(u, c)'
<1>1. Settled(c)'
  BY DEF MayGo, Settles, Fileables
<1>2. ASSUME (c \in LiveComments)'
      PROVE  Gone(comment[c].on)' \/ Role[u] = "ADMIN" \/ u = comment[c].by
  <2>1. c \in LiveComments
    BY <1>2 DEF LiveComments, KeepsRows, MayGo
  <2>2. comment[c].on \in Fileables
    BY <2>1 DEF LiveComments, TypeOK, CommentRow, Fileables
  <2>3. comment'[c] = comment[c]
    BY <1>2 DEF LiveComments, KeepsRows, MayGo
  <2>4. Gone(comment[c].on) \/ Role[u] = "ADMIN" \/ u = comment[c].by
    BY <2>1 DEF MayGo
  <2> PICK o \in Fileables : o = comment[c].on
    BY <2>2
  <2>5. Gone(o) => Gone(o)'
    BY GoneKept
  <2> QED BY <2>3, <2>4, <2>5 DEF Gone
<1>3. (c \in LiveComments)' => comment'[c] = comment[c]
  BY DEF LiveComments, KeepsRows, MayGo
<1> QED BY <1>1, <1>2, <1>3 DEF MayGo, Gone

\* A step that deletes nothing by leave of another one.
LEMMA LedOther ==
  ASSUME NEW b, NEW j, NEW u, b[j][1] \notin {"dropProject", "listComments", "dropComments"}
  PROVE  Led(b, j, u)'
BY DEF Led

\* What an endpoint starts with is led to its deletions.
LEMMA LedOpens ==
  ASSUME NEW b, Opens(b), NEW u, NEW j \in 1..Len(b)
  PROVE  Led(b, j, u)'
BY DEF Opens, Led

\* A step that keeps its neighbours is led to as it was.
LEMMA LedKept ==
  ASSUME TypeOK, Settles, KeepsRows, NEW a, NEW b, NEW i \in Nat, NEW j \in Nat, NEW u,
         Led(a, i, u), b[j] = a[i],
         i + 2 <= Len(a) => /\ j + 2 <= Len(b)
                            /\ b[j + 1] = a[i + 1] /\ b[j + 2] = a[i + 2],
         \/ i = j /\ b = a
         \/ /\ i > 1 /\ \A c \in Comments : a[i - 1] = <<"modify", c>> =>
                           (j > 1 /\ b[j - 1] = a[i - 1]) \/ MayGo(u, c)'
            /\ \A o \in Projects \cup Tasks : i > 2 /\ a[i - 2] = <<"dropProject", o>> =>
                 (j > 2 /\ b[j - 2] = a[i - 2]) \/ Gone(o)'
  PROVE  Led(b, j, u)'
<1>1. ASSUME NEW p \in Projects, b[j] = <<"dropProject", p>>
      PROVE  /\ j + 2 <= Len(b)
             /\ b[j + 1] = <<"dropFiles", p>> /\ b[j + 2] = <<"listComments", p>>
  BY <1>1 DEF Led
<1>2. ASSUME NEW o \in Projects \cup Tasks, b[j] = <<"listComments", o>>
      PROVE  Gone(o)' \/ (j > 2 /\ b[j - 2] = <<"dropProject", o>>)
  <2>1. Gone(o) \/ (i > 2 /\ a[i - 2] = <<"dropProject", o>>)
    BY <1>2 DEF Led
  <2>2. CASE Gone(o)
    BY <2>2, GoneKept DEF Fileables
  <2>3. CASE i > 2 /\ a[i - 2] = <<"dropProject", o>>
    BY <2>3
  <2> QED BY <2>1, <2>2, <2>3
<1>3. ASSUME NEW C \in SUBSET Comments, b[j] = <<"dropComments", C>>
      PROVE  \/ j > 1 /\ \E c \in C : C = {c} /\ b[j - 1] = <<"modify", c>>
             \/ \A c \in C : MayGo(u, c)'
  <2>1. \/ i > 1 /\ \E c \in C : C = {c} /\ a[i - 1] = <<"modify", c>>
        \/ \A c \in C : MayGo(u, c)
    BY <1>3 DEF Led
  <2>2. CASE \A c \in C : MayGo(u, c)
    BY <2>2, MayGoKept
  <2>3. CASE i > 1 /\ \E c \in C : C = {c} /\ a[i - 1] = <<"modify", c>>
    <3> PICK c \in C : C = {c} /\ a[i - 1] = <<"modify", c>>
      BY <2>3
    <3>1. \/ j > 1 /\ b[j - 1] = a[i - 1]
          \/ MayGo(u, c)'
      BY <2>3
    <3> QED BY <3>1
  <2> QED BY <2>1, <2>2, <2>3
<1> QED BY <1>1, <1>2, <1>3 DEF Led

\* LedInv, request by request.
LEMMA LedEach ==
  ASSUME \A r \in Requests : \E b, u :
           /\ b = job'[r].agenda /\ (b # <<>> => u = job'[r].user)
           /\ \A j \in 1..Len(b) : Led(b, j, u)'
  PROVE  LedInv'
<1> SUFFICES ASSUME NEW r \in Requests, NEW j \in 1..Len(job'[r].agenda)
             PROVE  Led(job[r].agenda, j, job[r].user)'
  BY DEF LedInv
<1> PICK b, u : /\ b = job'[r].agenda /\ (b # <<>> => u = job'[r].user)
                /\ \A i \in 1..Len(b) : Led(b, i, u)'
  OBVIOUS
<1>1. b # <<>>
  <2>1. Len(<<>>) = 0 /\ 1..0 = {}
    OBVIOUS
  <2> QED BY <2>1
<1>2. Led(b, j, u)'
  OBVIOUS
<1>3. b = job'[r].agenda /\ u = job'[r].user
  BY <1>1
<1> QED BY <1>2, <1>3 DEF Led, MayGo, Gone

\* A request whose job a step leaves alone.
LEMMA LedSame ==
  ASSUME TypeOK, LedInv, Settles, KeepsRows, NEW q \in Requests, job'[q] = job[q]
  PROVE  \E b, u : /\ b = job'[q].agenda /\ (b # <<>> => u = job'[q].user)
                   /\ \A j \in 1..Len(b) : Led(b, j, u)'
<1> PICK b, u : b = job[q].agenda /\ u = job[q].user
  OBVIOUS
<1>1. ASSUME NEW j \in 1..Len(b) PROVE Led(b, j, u)'
  <2>1. Led(b, j, u) /\ j \in Nat
    BY DEF LedInv
  <2> QED BY <2>1, LedKept
<1> QED BY <1>1

\* A request that gives up.
LEMMA LedThrow ==
  ASSUME TypeOK, LedInv, Settles, KeepsRows, NEW r \in Requests, Throw(r)
  PROVE  LedInv'
<1>1. job'[r].agenda = <<>> /\ \A q \in Requests \ {r} : job'[q] = job[q]
  BY TypeParts, Thrown
<1>2. Len(<<>>) = 0 /\ 1..0 = {}
  OBVIOUS
<1>3. ASSUME NEW q \in Requests
      PROVE  \E b, u : /\ b = job'[q].agenda /\ (b # <<>> => u = job'[q].user)
                       /\ \A j \in 1..Len(b) : Led(b, j, u)'
  <2>1. CASE q = r
    <3>1. \A u : \A j \in 1..Len(<<>>) : Led(<<>>, j, u)'
      BY <1>2
    <3> QED BY <1>1, <2>1, <3>1
  <2>2. CASE q # r
    BY <1>1, <2>2, LedSame
  <2> QED BY <2>1, <2>2
<1> QED BY <1>3, LedEach

\* A request that goes on: what it is led to, and what its step was a leave for.
LEMMA LedThen ==
  ASSUME TypeOK, LedInv, Settles, KeepsRows, NEW r \in Requests,
         NEW steps \in Seq(Step), job[r].agenda # <<>>, Then(r, steps),
         NEW b, b = job'[r].agenda, NEW u, u = job[r].user,
         \A j \in 1..Len(steps) : Led(b, j, u)',
         \A o \in Projects \cup Tasks : Head(job[r].agenda) = <<"dropProject", o>> => Gone(o)',
         \A c \in Comments : Head(job[r].agenda) = <<"modify", c>> => MayGo(u, c)'
  PROVE  LedInv'
<1> PICK a : a = job[r].agenda
  OBVIOUS
<1>1. JobsOK
  BY TypeParts
<1>2. /\ Len(b) = Len(steps) + Len(a) - 1 /\ Len(steps) \in Nat /\ Len(a) \in Nat
      /\ \A i \in 1..Len(b) : i > Len(steps) =>
           i - Len(steps) + 1 \in 2..Len(a) /\ b[i] = a[i - Len(steps) + 1]
      /\ b # <<>> => job'[r].user = u
      /\ \A q \in Requests \ {r} : job'[q] = job[q]
      /\ Head(a) = a[1]
  BY <1>1, Went DEF JobsOK, Job
<1>3. ASSUME NEW j \in 1..Len(b) PROVE Led(b, j, u)'
  <2>1. CASE j \in 1..Len(steps)
    BY <2>1
  <2>2. CASE j \notin 1..Len(steps)
    <3> PICK i, n : i = j - Len(steps) + 1 /\ n = Len(steps)
      OBVIOUS
    <3>1. j > n /\ i = j - n + 1 /\ n \in Nat /\ j \in Nat
      BY <1>2, <2>2
    <3>2. i \in 2..Len(a) /\ b[j] = a[i]
      BY <1>2, <3>1
    <3>3. i \in Nat /\ i > 1 /\ i \in 1..Len(a)
      BY <1>2, <3>2
    <3>4. Led(a, i, u)
      BY <3>3 DEF LedInv
    <3>5. ASSUME i + 2 <= Len(a)
          PROVE  j + 2 <= Len(b) /\ b[j + 1] = a[i + 1] /\ b[j + 2] = a[i + 2]
      <4>1. /\ j + 2 <= Len(b) /\ j + 1 \in 1..Len(b) /\ j + 2 \in 1..Len(b)
            /\ j + 1 > n /\ j + 2 > n
            /\ (j + 1) - n + 1 = i + 1 /\ (j + 2) - n + 1 = i + 2
        BY <1>2, <3>1, <3>5
      <4> QED BY <1>2, <4>1
    <3>6. ASSUME NEW c \in Comments, a[i - 1] = <<"modify", c>>
          PROVE  (j > 1 /\ b[j - 1] = a[i - 1]) \/ MayGo(u, c)'
      <4>1. CASE i = 2
        BY <1>2, <3>6, <4>1
      <4>2. CASE i # 2
        <5>1. j > 1 /\ j - 1 \in 1..Len(b) /\ j - 1 > n /\ (j - 1) - n + 1 = i - 1
          BY <1>2, <3>1, <3>3, <4>2
        <5> QED BY <1>2, <5>1
      <4> QED BY <4>1, <4>2
    <3>7. ASSUME NEW o \in Projects \cup Tasks, i > 2, a[i - 2] = <<"dropProject", o>>
          PROVE  (j > 2 /\ b[j - 2] = a[i - 2]) \/ Gone(o)'
      <4>1. CASE i = 3
        BY <1>2, <3>7, <4>1
      <4>2. CASE i # 3
        <5>1. j > 2 /\ j - 2 \in 1..Len(b) /\ j - 2 > n /\ (j - 2) - n + 1 = i - 2
          BY <1>2, <3>1, <3>3, <3>7, <4>2
        <5> QED BY <1>2, <5>1
      <4> QED BY <4>1, <4>2
    <3> QED BY <3>1, <3>2, <3>3, <3>4, <3>5, <3>6, <3>7, LedKept
  <2> QED BY <2>1, <2>2
<1>4. ASSUME NEW q \in Requests
      PROVE  \E c, v : /\ c = job'[q].agenda /\ (c # <<>> => v = job'[q].user)
                       /\ \A j \in 1..Len(c) : Led(c, j, v)'
  <2>1. CASE q = r
    BY <1>2, <1>3, <2>1
  <2>2. CASE q # r
    BY <1>2, <2>2, LedSame
  <2> QED BY <2>1, <2>2
<1> QED BY <1>4, LedEach

\* A request whose step deletes nothing and leads to no deletion of rows by
\* leave, or that gives up.
LEMMA LedPlain ==
  ASSUME TypeOK, LedInv, Settles, KeepsRows, NEW r \in Requests,
         NEW steps \in Seq(Step), job[r].agenda # <<>>,
         \/ Throw(r)
         \/ /\ Then(r, steps)
            /\ Head(job[r].agenda)[1] \notin {"dropProject", "modify"}
            /\ \A j \in 1..Len(steps) :
                 steps[j][1] \notin {"dropProject", "listComments", "dropComments"}
  PROVE  LedInv'
<1>1. CASE Throw(r)
  BY <1>1, LedThrow
<1>2. CASE ~Throw(r)
  <2> PICK b, u : b = job'[r].agenda /\ u = job[r].user
    OBVIOUS
  <2>1. \A j \in 1..Len(steps) : b[j] = steps[j]
    BY <1>2, TypeParts, Went
  <2>2. \A j \in 1..Len(steps) : Led(b, j, u)'
    BY <1>2, <2>1, LedOther
  <2>3. /\ \A o : Head(job[r].agenda) # <<"dropProject", o>>
        /\ \A o : Head(job[r].agenda) # <<"modify", o>>
    BY <1>2
  <2> QED BY <1>2, <2>2, <2>3, LedThen
<1> QED BY <1>1, <1>2

\* A comment that may be changed is deleted by leave of its row.
LEMMA LedGuard ==
  ASSUME TypeOK, FS!TypeOK, IdInv, LedInv, Settles, KeepsRows, NEW r \in Requests, Guard(r)
  PROVE  LedInv'
<1> DEFINE Ok(s) == /\ s \in Seq(Step)
                    /\ \A j \in 1..Len(s) :
                         s[j][1] \notin {"dropProject", "listComments", "dropComments"}
<1>1. job[r].agenda # <<>>
  BY DEF Guard, Doing
<1>2. Ok(<<>>)
  OBVIOUS
<1>3. ASSUME NEW s \in Step, s[1] \in {"guard", "modify"} PROVE Ok(<<s>>)
  BY <1>3, Agendas
<1>4. ASSUME NEW t \in Tasks, Doing(r, <<"guard", t>>) \/ Doing(r, <<"modify", t>>), Allowed(r)
      PROVE  Ok(<< <<"guard", task[t].project>> >>)
  <2>1. t \in LiveTasks
    BY <1>4, MayTask DEF Doing, Allowed
  <2>2. <<"guard", task[t].project>> \in Step
    BY <2>1, StepForms DEF LiveTasks, TypeOK, TaskRow, Fileables
  <2> QED BY <1>3, <2>2
<1>5. ASSUME NEW n \in Names, Doing(r, <<"fileGuard", n>>), Allowed(r)
      PROVE  Ok(<< <<"modify", file[n]>> >>)
  <2>1. May(job[r].user, <<"fileGuard", n>>)
    BY <1>5 DEF Doing, Allowed
  <2>2. file[n] \in Fileables
    BY <2>1, MayFile DEF FS!TypeOK
  <2>3. <<"modify", file[n]>> \in Step
    BY <2>2, StepForms
  <2> QED BY <1>3, <2>3
<1> HIDE DEF Ok
<1>6. \E s : Ok(s) /\ Then(r, s)
  BY <1>2, <1>4, <1>5 DEF Guard
<1> PICK s : Ok(s) /\ Then(r, s)
  BY <1>6
<1> PICK b, u : b = job'[r].agenda /\ u = job[r].user
  OBVIOUS
<1>7. s \in Seq(Step)
  BY DEF Ok
<1>8. \A j \in 1..Len(s) : Led(b, j, u)'
  <2>1. \A j \in 1..Len(s) : b[j] = s[j]
    BY <1>1, <1>7, TypeParts, Went
  <2> QED BY <2>1, LedOther DEF Ok
<1>9. Head(job[r].agenda)[1] \in {"guard", "modify", "fileGuard"}
  <2>1. \E x : Head(job[r].agenda) \in {<<"guard", x>>, <<"modify", x>>, <<"fileGuard", x>>}
    BY DEF Guard, Doing
  <2> QED BY <2>1
<1>10. \A o : Head(job[r].agenda) # <<"dropProject", o>>
  BY <1>9
<1>11. ASSUME NEW c \in Comments, Head(job[r].agenda) = <<"modify", c>> PROVE MayGo(u, c)'
  <2>1. Allowed(r)
    BY DEF Guard
  <2>2. c \in LiveComments /\ (Role[u] = "ADMIN" \/ comment[c].by = u)
    BY <1>11, <2>1, MayPass DEF Allowed
  <2>3. Settled(c)
    BY <2>2 DEF IdInv, Live, Fileables
  <2>4. MayGo(u, c)
    BY <2>2, <2>3 DEF MayGo
  <2> QED BY <2>4, MayGoKept
<1> QED BY <1>1, <1>7, <1>8, <1>10, <1>11, LedThen

\* The comments that are listed lost their owner.
LEMMA LedRead ==
  ASSUME TypeOK, FS!TypeOK, IdInv, LedInv, Settles, KeepsRows, NEW r \in Requests, Read(r)
  PROVE  LedInv'
<1> PICK a, b, u : a = job[r].agenda /\ b = job'[r].agenda /\ u = job[r].user
  OBVIOUS
<1>1. a # <<>> /\ Head(a) = a[1] /\ 1 \in 1..Len(a)
  <2>1. a # <<>>
    BY DEF Read, Doing
  <2> QED BY <2>1 DEF TypeOK, Job
<1>2. Led(a, 1, u)
  BY <1>1 DEF LedInv
<1>3. ASSUME NEW steps \in Seq(Step), Then(r, steps),
             Head(a)[1] \in {"assign", "reassign", "notify", "listTasks"},
             \A j \in 1..Len(steps) :
               steps[j][1] \notin {"dropProject", "listComments", "dropComments"}
      PROVE  LedInv'
  <2>1. job[r].agenda # <<>> /\ Head(job[r].agenda)[1] \notin {"dropProject", "modify"}
    BY <1>1, <1>3
  <2> QED BY <1>3, <2>1, LedPlain
<1>4. /\ <<>> \in Seq(Step)
      /\ \A j \in 1..Len(<<>>) : <<>>[j][1] \notin {"dropProject", "listComments", "dropComments"}
  <2>1. <<>> \in Seq(Step)
    OBVIOUS
  <2>2. \A j \in 1..Len(<<>>) : FALSE
    OBVIOUS
  <2> QED BY <2>1, <2>2
<1>5. ASSUME NEW p \in Projects, NEW v \in Users, Doing(r, <<"assign", p, v>>), Then(r, <<>>)
      PROVE  LedInv'
  <2>1. Head(a)[1] = "assign"
    BY <1>5 DEF Doing
  <2> QED BY <1>3, <1>4, <1>5, <2>1
<1>6. ASSUME NEW o, Doing(r, <<"notify", o>>), Then(r, <<>>) PROVE LedInv'
  <2>1. Head(a)[1] = "notify"
    BY <1>6 DEF Doing
  <2> QED BY <1>3, <1>4, <1>6, <2>1
<1>7. ASSUME NEW t \in Tasks, NEW v \in Users, Doing(r, <<"reassign", t, v>>), Allowed(r),
             Then(r, << <<"assign", task[t].project, v>>, <<"update", t, v>> >>)
      PROVE  LedInv'
  <2> DEFINE steps == << <<"assign", task[t].project, v>>, <<"update", t, v>> >>
  <2>1. t \in LiveTasks
    BY <1>7, MayTask DEF Doing, Allowed
  <2>2. task[t].project \in Projects
    BY <2>1 DEF LiveTasks, TypeOK, TaskRow
  <2>3. steps \in Seq(Step)
    BY <2>2, StepForms, Agendas
  <2>4. \A j \in 1..Len(steps) :
          steps[j][1] \notin {"dropProject", "listComments", "dropComments"}
    OBVIOUS
  <2>5. Head(a)[1] = "reassign"
    BY <1>7 DEF Doing
  <2> QED BY <1>3, <1>7, <2>3, <2>4, <2>5
<1>8. ASSUME NEW p \in Projects, Doing(r, <<"listTasks", p>>), Then(r, DropTasks(TasksOf(p)))
      PROVE  LedInv'
  <2>1. TasksOf(p) \in SUBSET Tasks
    BY DEF TasksOf, LiveTasks
  <2> PICK steps : steps = DropTasks(TasksOf(p))
    OBVIOUS
  <2>2. steps \in Seq(Step)
    BY <2>1, DropSteps
  <2>3. \A j \in 1..Len(steps) :
          steps[j][1] \notin {"dropProject", "listComments", "dropComments"}
    BY DropHeads
  <2>4. Head(a)[1] = "listTasks"
    BY <1>8 DEF Doing
  <2> QED BY <1>3, <1>8, <2>2, <2>3, <2>4
<1>9. ASSUME NEW o \in Projects \cup Tasks, Doing(r, <<"listComments", o>>),
             Then(r, DropComments(CommentsOn(o)))
      PROVE  LedInv'
  <2> PICK C : C = CommentsOn(o)
    OBVIOUS
  <2>1. C \in SUBSET Comments
    BY DEF CommentsOn, LiveComments
  <2> PICK steps : steps = DropComments(C)
    OBVIOUS
  <2>2. steps \in Seq(Step) /\ \A j \in 1..Len(steps) : steps[j] = <<"dropComments", C>>
    BY <2>1, DropSteps, DropHeads
  <2>3. Gone(o)
    <3>1. a[1] = <<"listComments", o>> /\ ~(1 > 2)
      BY <1>1, <1>9 DEF Doing
    <3> QED BY <1>2, <3>1 DEF Led
  <2>4. ASSUME NEW c \in C PROVE MayGo(u, c)'
    <3>1. c \in LiveComments /\ comment[c].on = o /\ c \in Comments
      BY DEF CommentsOn, LiveComments
    <3>2. Settled(c)
      BY <3>1 DEF IdInv, Live, Fileables
    <3>3. MayGo(u, c)
      BY <2>3, <3>1, <3>2 DEF MayGo
    <3> QED BY <3>1, <3>3, MayGoKept
  <2>5. \A j \in 1..Len(steps) : b[j] = <<"dropComments", C>>
    BY <1>1, <1>9, <2>2, TypeParts, Went
  <2>6. ASSUME NEW j \in 1..Len(steps) PROVE Led(b, j, u)'
    <3>1. b[j] = <<"dropComments", C>>
      BY <2>5
    <3> QED BY <2>4, <3>1 DEF Led
  <2>7. /\ \A x : Head(job[r].agenda) # <<"dropProject", x>>
        /\ \A x : Head(job[r].agenda) # <<"modify", x>>
    BY <1>9 DEF Doing
  <2> QED BY <1>1, <1>9, <2>2, <2>6, <2>7, LedThen
<1> QED BY <1>5, <1>6, <1>7, <1>8, <1>9 DEF Read

\* What DropTask and DropComment put before the rest of an agenda.
AfterTask(t, T) == << <<"dropFiles", t>>, <<"listComments", t>> >> \o DropTasks(T)
AfterComment(c, C) == << <<"dropFiles", c>> >> \o DropComments(C)

\* The files of the row, its comments if it is a task, and the rest of the loop.
LEMMA DropsFirst ==
  /\ \A t \in Tasks, T \in SUBSET Tasks :
       /\ AfterTask(t, T) \in Seq(Step)
       /\ 1 \in 1..Len(AfterTask(t, T)) /\ AfterTask(t, T)[1] = <<"dropFiles", t>>
       /\ 2 \in 1..Len(AfterTask(t, T)) /\ AfterTask(t, T)[2] = <<"listComments", t>>
       /\ \A j \in 1..Len(AfterTask(t, T)) :
            j = 1 \/ j = 2 \/ AfterTask(t, T)[j] = <<"dropTasks", T>>
  /\ \A c \in Comments, C \in SUBSET Comments :
       /\ AfterComment(c, C) \in Seq(Step)
       /\ 1 \in 1..Len(AfterComment(c, C)) /\ AfterComment(c, C)[1] = <<"dropFiles", c>>
       /\ \A j \in 1..Len(AfterComment(c, C)) :
            j = 1 \/ AfterComment(c, C)[j] = <<"dropComments", C>>
       /\ C # {} => /\ 2 \in 1..Len(AfterComment(c, C))
                    /\ AfterComment(c, C)[2] = <<"dropComments", C>>
<1>1. ASSUME NEW t \in Tasks, NEW T \in SUBSET Tasks
      PROVE  /\ AfterTask(t, T) \in Seq(Step)
             /\ 1 \in 1..Len(AfterTask(t, T)) /\ AfterTask(t, T)[1] = <<"dropFiles", t>>
             /\ 2 \in 1..Len(AfterTask(t, T)) /\ AfterTask(t, T)[2] = <<"listComments", t>>
             /\ \A j \in 1..Len(AfterTask(t, T)) :
                  j = 1 \/ j = 2 \/ AfterTask(t, T)[j] = <<"dropTasks", T>>
  <2>1. AfterTask(t, T) \in Seq(Step)
    BY DropSteps DEF AfterTask
  <2>2. CASE T = {}
    BY <2>1, <2>2 DEF DropTasks, AfterTask
  <2>3. CASE T # {}
    BY <2>1, <2>3 DEF DropTasks, AfterTask
  <2> QED BY <2>2, <2>3
<1>2. ASSUME NEW c \in Comments, NEW C \in SUBSET Comments
      PROVE  /\ AfterComment(c, C) \in Seq(Step)
             /\ 1 \in 1..Len(AfterComment(c, C)) /\ AfterComment(c, C)[1] = <<"dropFiles", c>>
             /\ \A j \in 1..Len(AfterComment(c, C)) :
                  j = 1 \/ AfterComment(c, C)[j] = <<"dropComments", C>>
             /\ C # {} => /\ 2 \in 1..Len(AfterComment(c, C))
                          /\ AfterComment(c, C)[2] = <<"dropComments", C>>
  <2>1. AfterComment(c, C) \in Seq(Step)
    BY DropSteps DEF AfterComment
  <2>2. CASE C = {}
    BY <2>1, <2>2 DEF DropComments, AfterComment
  <2>3. CASE C # {}
    BY <2>1, <2>3 DEF DropComments, AfterComment
  <2> QED BY <2>2, <2>3
<1> QED BY <1>1, <1>2

\* What hangs on a deleted row is listed, or deleted by the same leave.
LEMMA LedWrite ==
  ASSUME TypeOK, IdInv, LedInv, Settles, KeepsRows, NEW r \in Requests,
         NEW answered, Write(r, answered)
  PROVE  LedInv'
<1> PICK a, b, u : a = job[r].agenda /\ b = job'[r].agenda /\ u = job[r].user
  OBVIOUS
<1>1. a # <<>> /\ Head(a) = a[1] /\ 1 \in 1..Len(a)
  <2>1. a # <<>>
    BY WriteLive
  <2> QED BY <2>1 DEF TypeOK, Job
<1>2. Led(a, 1, u)
  BY <1>1 DEF LedInv
<1>3. ASSUME Head(a)[1] \notin {"dropProject", "modify"}, Wrote(r, answered, <<>>)
      PROVE  LedInv'
  <2>1. <<>> \in Seq(Step)
    OBVIOUS
  <2>2. \A j \in 1..Len(<<>>) : FALSE
    OBVIOUS
  <2>3. Throw(r) \/ Then(r, <<>>)
    BY <1>3, WroteSteps
  <2>4. \A j \in 1..Len(<<>>) :
          <<>>[j][1] \notin {"dropProject", "listComments", "dropComments"}
    BY <2>2
  <2>5. job[r].agenda # <<>> /\ Head(job[r].agenda)[1] \notin {"dropProject", "modify"}
    BY <1>1, <1>3
  <2> QED BY <2>1, <2>3, <2>4, <2>5, LedPlain
<1>4. CASE InsertProject(r, answered) \/ EditText(r, answered)
  <2>1. Head(a)[1] \notin {"dropProject", "modify"}
    BY <1>4 DEF InsertProject, EditText, Doing
  <2> QED BY <1>3, <1>4, <2>1 DEF InsertProject, EditText
<1>5. CASE Join(r, answered) \/ Leave(r, answered)
  <2>1. Head(a)[1] \notin {"dropProject", "modify"}
    BY <1>5 DEF Join, Leave, Doing
  <2> QED BY <1>3, <1>5, <2>1 DEF Join, Leave
<1>6. CASE InsertTask(r, answered) \/ UpdateTask(r, answered)
  <2>1. Head(a)[1] \notin {"dropProject", "modify"}
    BY <1>6 DEF InsertTask, UpdateTask, Doing
  <2> QED BY <1>3, <1>6, <2>1 DEF InsertTask, UpdateTask
<1>7. CASE InsertComment(r, answered)
  <2>1. Head(a)[1] \notin {"dropProject", "modify"}
    BY <1>7 DEF InsertComment, Doing
  <2> QED BY <1>3, <1>7, <2>1 DEF InsertComment
<1>8. CASE DropProject(r, answered)
  <2> PICK p \in Projects :
        Doing(r, <<"dropProject", p>>) /\ Allowed(r) /\ project' = project \ {p}
    BY <1>8 DEF DropProject
  <2>1. p \in project
    <3>1. May(u, <<"dropProject", p>>)
      BY DEF Doing, Allowed
    <3> QED BY <3>1 DEF May
  <2>2. Gone(p)'
    <3>1. Settled(p)
      BY <2>1 DEF IdInv, Live, Fileables
    <3>2. Settled(p)'
      BY <3>1 DEF Settles, Fileables
    <3>3. (p \notin Live)'
      BY IdAssumption DEF Live, LiveTasks, LiveComments
    <3> QED BY <3>2, <3>3 DEF Gone
  <2>3. CASE Throw(r)
    BY <2>3, LedThrow
  <2>4. CASE Then(r, <<>>)
    <3>1. <<>> \in Seq(Step)
      OBVIOUS
    <3>2. \A j \in 1..Len(<<>>) : Led(b, j, u)'
      OBVIOUS
    <3>3. /\ \A o : Head(job[r].agenda) = <<"dropProject", o>> => o = p
          /\ \A c : Head(job[r].agenda) # <<"modify", c>>
      BY DEF Doing
    <3> QED BY <1>1, <2>2, <2>4, <3>1, <3>2, <3>3, LedThen
  <2> QED BY <1>8, <2>3, <2>4, WroteSteps DEF DropProject
<1>9. CASE DropTask(r, answered)
  <2>1. \E T \in SUBSET Tasks : \E t \in T \cap LiveTasks :
          /\ Doing(r, <<"dropTasks", T>>)
          /\ task' = [task EXCEPT ![t] = NoRow]
          /\ Wrote(r, answered, AfterTask(t, T \ {t}))
    BY <1>9 DEF DropTask, AfterTask
  <2> PICK T \in SUBSET Tasks, t \in Tasks : \E D \in SUBSET Tasks :
        /\ Doing(r, <<"dropTasks", T>>) /\ t \in LiveTasks
        /\ task' = [task EXCEPT ![t] = NoRow]
        /\ Wrote(r, answered, AfterTask(t, D))
    BY <2>1
  <2> PICK D \in SUBSET Tasks :
        /\ Doing(r, <<"dropTasks", T>>) /\ t \in LiveTasks
        /\ task' = [task EXCEPT ![t] = NoRow]
        /\ Wrote(r, answered, AfterTask(t, D))
    OBVIOUS
  <2> PICK s : s = AfterTask(t, D)
    OBVIOUS
  <2>2. /\ s \in Seq(Step) /\ s[1] = <<"dropFiles", t>> /\ s[2] = <<"listComments", t>>
        /\ \A j \in 1..Len(s) : j = 1 \/ j = 2 \/ s[j] = <<"dropTasks", D>>
    BY DropsFirst
  <2>3. Gone(t)'
    <3>1. Settled(t)
      BY <2>1 DEF IdInv, Live, Fileables
    <3>2. Settled(t)'
      BY <2>1, <3>1 DEF Settles, Fileables
    <3>3. (t \notin Live)'
      <4>1. project' = project /\ project \subseteq Projects
        BY <1>9 DEF DropTask, TypeOK
      <4>2. task'[t] = NoRow
        BY <2>1 DEF TypeOK
      <4> QED BY <2>1, <4>1, <4>2, IdAssumption DEF Live, LiveTasks, LiveComments
    <3> QED BY <3>2, <3>3 DEF Gone
  <2>4. CASE Throw(r)
    BY <2>4, LedThrow
  <2>5. CASE Then(r, s)
    <3>1. \A j \in 1..Len(s) : b[j] = s[j]
      BY <1>1, <2>2, <2>5, TypeParts, Went
    <3>2. ASSUME NEW j \in 1..Len(s) PROVE Led(b, j, u)'
      <4>1. CASE s[j] = <<"listComments", t>>
        <5>1. b[j] = <<"listComments", t>>
          BY <3>1, <4>1
        <5> QED BY <2>3, <5>1 DEF Led
      <4>2. CASE s[j] # <<"listComments", t>>
        <5>1. b[j] = <<"dropFiles", t>> \/ b[j] = <<"dropTasks", D>>
          BY <2>2, <3>1, <4>2
        <5>2. b[j][1] \notin {"dropProject", "listComments", "dropComments"}
          BY <5>1
        <5> QED BY <5>2, LedOther
      <4> QED BY <4>1, <4>2
    <3>3. /\ \A o : Head(job[r].agenda) # <<"dropProject", o>>
          /\ \A o : Head(job[r].agenda) # <<"modify", o>>
      BY DEF Doing
    <3> QED BY <1>1, <2>2, <2>5, <3>2, <3>3, LedThen
  <2> QED BY <2>4, <2>5, WroteSteps
<1>10. CASE DropComment(r, answered)
  <2>1. \E C \in SUBSET Comments : \E c \in C \cap LiveComments :
          /\ Doing(r, <<"dropComments", C>>)
          /\ Wrote(r, answered, AfterComment(c, C \ {c}))
    BY <1>10 DEF DropComment, AfterComment
  <2> PICK C \in SUBSET Comments, c \in Comments : \E D \in SUBSET C :
        /\ Doing(r, <<"dropComments", C>>)
        /\ Wrote(r, answered, AfterComment(c, D))
    BY <2>1
  <2> PICK D \in SUBSET C :
        /\ Doing(r, <<"dropComments", C>>)
        /\ Wrote(r, answered, AfterComment(c, D))
    OBVIOUS
  <2> PICK s : s = AfterComment(c, D)
    OBVIOUS
  <2>2. /\ s \in Seq(Step) /\ s[1] = <<"dropFiles", c>>
        /\ \A j \in 1..Len(s) : j = 1 \/ s[j] = <<"dropComments", D>>
    BY DropsFirst
  <2>3. ASSUME NEW d \in D PROVE MayGo(u, d)'
    <3>1. a[1] = <<"dropComments", C>> /\ ~(1 > 1)
      BY <1>1 DEF Doing
    <3>2. MayGo(u, d)
      BY <1>2, <3>1 DEF Led
    <3> QED BY <2>1, <3>2, MayGoKept
  <2>4. CASE Throw(r)
    BY <2>4, LedThrow
  <2>5. CASE Then(r, s)
    <3>1. \A j \in 1..Len(s) : b[j] = s[j]
      BY <1>1, <2>2, <2>5, TypeParts, Went
    <3>2. ASSUME NEW j \in 1..Len(s) PROVE Led(b, j, u)'
      <4>1. CASE s[j] = <<"dropComments", D>>
        <5>1. b[j] = <<"dropComments", D>>
          BY <3>1, <4>1
        <5> QED BY <2>3, <5>1 DEF Led
      <4>2. CASE s[j] # <<"dropComments", D>>
        <5>1. b[j] = <<"dropFiles", c>>
          BY <2>2, <3>1, <4>2
        <5>2. b[j][1] \notin {"dropProject", "listComments", "dropComments"}
          BY <5>1
        <5> QED BY <5>2, LedOther
      <4> QED BY <4>1, <4>2
    <3>3. /\ \A o : Head(job[r].agenda) # <<"dropProject", o>>
          /\ \A o : Head(job[r].agenda) # <<"modify", o>>
      BY DEF Doing
    <3> QED BY <1>1, <2>2, <2>5, <3>2, <3>3, LedThen
  <2> QED BY <2>4, <2>5, WroteSteps
<1> QED BY <1>4, <1>5, <1>6, <1>7, <1>8, <1>9, <1>10 DEF Write

\* Every step of the workspace keeps what the deletions on every agenda rest on.
LEMMA LedNext == TypeOK /\ FS!TypeOK /\ IdInv /\ LedInv /\ [Next]_vars => LedInv'
<1> SUFFICES ASSUME TypeOK, FS!TypeOK, IdInv, LedInv, [Next]_vars PROVE LedInv'
  OBVIOUS
<1>1. Settles /\ KeepsRows
  BY IdNext
<1>2. ASSUME NEW r \in Requests, Start(r) PROVE LedInv'
  <2> PICK u \in Users : \E b \in Seq(Step) : b # <<>> /\ Go(r, u, b) /\ Opens(b) /\ Draws(b)
    BY <1>2, Started
  <2> PICK b \in Seq(Step) : b # <<>> /\ Go(r, u, b) /\ Opens(b) /\ Draws(b)
    OBVIOUS
  <2>1. /\ job'[r].agenda = b /\ \A q \in Requests \ {r} : job'[q] = job[q]
        /\ job'[r].user = u
    BY DEF Go, TypeOK
  <2>2. \A j \in 1..Len(b) : Led(b, j, u)'
    BY LedOpens
  <2>3. ASSUME NEW q \in Requests
        PROVE  \E c, v : /\ c = job'[q].agenda /\ (c # <<>> => v = job'[q].user)
                         /\ \A j \in 1..Len(c) : Led(c, j, v)'
    <3>1. CASE q = r
      BY <2>1, <2>2, <3>1
    <3>2. CASE q # r
      BY <1>1, <2>1, <3>2, LedSame
    <3> QED BY <3>1, <3>2
  <2> QED BY <2>3, LedEach
<1>3. ASSUME NEW r \in Requests, Guard(r) \/ Read(r) PROVE LedInv'
  BY <1>1, <1>3, LedGuard, LedRead
<1>4. ASSUME NEW r \in Requests, Moves(r) PROVE LedInv'
  <2> DEFINE Plain(s) ==
        /\ s \in Seq(Step)
        /\ \A j \in 1..Len(s) : s[j][1] \notin {"dropProject", "listComments", "dropComments"}
  <2>1. Plain(<< <<"files">> >>)
    <3>1. << <<"files">> >> \in Seq(Step)
      BY StepForms, Agendas
    <3> QED BY <3>1
  <2>2. Plain(<<>>)
    OBVIOUS
  <2> HIDE DEF Plain
  <2>3. Doing(r, <<"files">>) => Head(job[r].agenda)[1] = "files"
    BY DEF Doing
  <2>4. \E s : /\ Plain(s)
               /\ \/ Throw(r)
                  \/ Then(r, s) /\ Head(job[r].agenda)[1] \notin {"dropProject", "modify"}
    BY <1>4, <2>1, <2>2, <2>3 DEF Moves
  <2> QED BY <1>1, <1>4, <2>4, LedPlain DEF Moves, Plain
<1>5. ASSUME NEW r \in Requests, NEW answered \in BOOLEAN, Write(r, answered) PROVE LedInv'
  BY <1>1, <1>5, LedWrite
<1>6. CASE Crash
  <2>1. \A q \in Requests : job'[q].agenda = <<>>
    BY <1>6 DEF Crash, IdleJob
  <2>2. Len(<<>>) = 0 /\ 1..0 = {}
    OBVIOUS
  <2> QED BY <2>1, <2>2 DEF LedInv
<1>7. CASE UNCHANGED <<db, job>>
  <2>1. \A q \in Requests : job'[q] = job[q]
    BY <1>7
  <2> QED BY <1>1, <2>1, LedSame, LedEach
<1> QED BY <1>2, <1>3, <1>4, <1>5, <1>6, <1>7, NextSteps

\* What a request deletes follows by leave or from the deletion of its owner,
\* and what hangs on a project is next on its agenda.
THEOREM LedThroughout == Spec => []LedInv
<1>1. Init => LedInv
  BY DEF Init, IdleJob, LedInv
<1>2. TypeOK /\ FS!TypeOK /\ IdInv /\ LedInv /\ [Next]_vars => LedInv'
  BY LedNext
<1> QED BY <1>1, <1>2, WorkspaceTypeCorrect, WorkspaceFileTypes, InsertedOnce, PTL DEF Spec

\* CommentsAreTheirAuthors, of one step.
DropsOwnComments ==
  \A c \in Comments :
    comment[c] # NoRow /\ comment'[c] = NoRow =>
      \/ comment[c].on \notin Live
      \/ \E r \in Requests :
           /\ \E C \in SUBSET Comments : Doing(r, <<"dropComments", C>>) /\ c \in C
           /\ Role[job[r].user] = "ADMIN" \/ job[r].user = comment[c].by

\* Only dropComments deletes comments.
LEMMA DropsOwn == TypeOK /\ LedInv /\ [Next]_vars => DropsOwnComments
<1> SUFFICES ASSUME TypeOK, LedInv, [Next]_vars PROVE DropsOwnComments
  OBVIOUS
<1>1. UNCHANGED comment => DropsOwnComments
  BY DEF DropsOwnComments
<1>2. ASSUME NEW r \in Requests, NEW answered, DropComment(r, answered) PROVE DropsOwnComments
  <2> PICK C \in SUBSET Comments : \E c \in C \cap LiveComments :
        Doing(r, <<"dropComments", C>>) /\ comment' = [comment EXCEPT ![c] = NoRow]
    BY <1>2 DEF DropComment
  <2> PICK c \in C \cap LiveComments :
        Doing(r, <<"dropComments", C>>) /\ comment' = [comment EXCEPT ![c] = NoRow]
    OBVIOUS
  <2>1. 1 \in 1..Len(job[r].agenda) /\ job[r].agenda[1] = <<"dropComments", C>> /\ ~(1 > 1)
    BY DEF Doing, TypeOK, Job
  <2>2. MayGo(job[r].user, c)
    BY <2>1 DEF LedInv, Led
  <2>3. \/ comment[c].on \notin Live
        \/ Role[job[r].user] = "ADMIN" \/ job[r].user = comment[c].by
    BY <2>2 DEF MayGo, Gone
  <2>4. \A x \in Comments : comment[x] # NoRow /\ comment'[x] = NoRow => x = c
    BY DEF TypeOK
  <2> QED BY <2>3, <2>4 DEF DropsOwnComments
<1>3. ASSUME NEW r \in Requests, NEW answered, InsertComment(r, answered) PROVE DropsOwnComments
  <2> PICK c \in Comments, o \in Projects \cup Tasks :
        comment' = [comment EXCEPT ![c] = [on |-> o, by |-> job[r].user]]
    BY <1>3 DEF InsertComment
  <2>1. job[r].user \in Users
    BY <1>3 DEF InsertComment, Doing, TypeOK, Job
  <2>2. \A x \in Comments : comment[x] # NoRow => comment'[x] # NoRow
    BY <2>1, IdAssumption DEF TypeOK
  <2> QED BY <2>2 DEF DropsOwnComments
<1>4. ASSUME NEW r \in Requests, NEW answered, Write(r, answered) PROVE DropsOwnComments
  BY <1>1, <1>2, <1>3, <1>4 DEF Write, InsertProject, EditText, DropProject, Join, Leave,
                                InsertTask, UpdateTask, DropTask
<1>5. ASSUME NEW r \in Requests, Start(r) \/ Guard(r) \/ Read(r) \/ Moves(r)
      PROVE  UNCHANGED comment
  BY <1>5, StartKeeps DEF Guard, Read, Moves, db
<1>6. Crash => UNCHANGED comment
  BY DEF Crash, db
<1> QED BY <1>1, <1>4, <1>5, <1>6, NextSteps DEF db

\* A comment disappears at the hands of its author or an ADMIN, or because its
\* project or task is gone.
THEOREM CommentsAreTheirAuthorsHolds == Spec => CommentsAreTheirAuthors
<1>1. TypeOK /\ LedInv /\ [Next]_vars => [DropsOwnComments]_vars
  BY DropsOwn
<1> QED BY <1>1, LedThroughout, WorkspaceTypeCorrect, PTL
        DEF Spec, CommentsAreTheirAuthors, DropsOwnComments

-----------------------------------------------------------------------------
\* What the cascades need of the file store: a call that awaits nothing has
\* nothing left to delete, and what is about to be recorded has no row yet.
CallsInv ==
  \A r \in Requests :
    /\ call[r].pc \in {"idle", "done", "failed"} => call[r].todo = {}
    /\ call[r].pc = "record" => call[r].name \in Names \ FS!RowNames

\* The file store keeps it so.
LEMMA CallsThroughout == Spec => []CallsInv
<1>1. FSP!Spec => []FSP!IInv
  BY FSP!Invariance, FilesAssumption DEF IsFiniteSet, FSP!IsFiniteSet
<1>2. FS!Spec => FSP!Spec
  BY SameFileStore, PTL DEF FS!Spec, FSP!Spec
<1>3. FSP!IInv => CallsInv
  BY FilesAssumption DEF FSP!IInv, FSP!TypeOK, FSP!Call, FSP!CallShape, FSP!HeldNames, FSP!At,
     FSP!RowNames, FS!RowNames, CallsInv
<1> QED BY <1>1, <1>2, <1>3, WorkspaceRefinesFileStore, PTL

\* What is left of an agenda stays on it.
LEMMA Shifted ==
  ASSUME TypeOK, NEW r \in Requests, job[r].agenda # <<>>, NEW steps \in Seq(Step),
         Then(r, steps), NEW i \in 2..Len(job[r].agenda)
  PROVE  \E j \in 1..Len(job'[r].agenda) : job'[r].agenda[j] = job[r].agenda[i]
<1>1. JobsOK /\ Len(steps) \in Nat /\ Len(job[r].agenda) \in Nat
  BY TypeParts DEF JobsOK, Job
<1>2. Len(job'[r].agenda) = Len(steps) + Len(job[r].agenda) - 1
  BY <1>1, Went DEF Then
<1> PICK j : j = i + Len(steps) - 1
  OBVIOUS
<1>3. j \in 1..Len(job'[r].agenda) /\ j > Len(steps) /\ j - Len(steps) + 1 = i
  BY <1>1, <1>2
<1> QED BY <1>1, <1>3, Went

\* What a request is led to comes first.
LEMMA First ==
  ASSUME TypeOK, NEW r \in Requests, job[r].agenda # <<>>, NEW steps \in Seq(Step),
         Then(r, steps), NEW i \in 1..Len(steps)
  PROVE  \E j \in 1..Len(job'[r].agenda) : job'[r].agenda[j] = steps[i]
<1>1. JobsOK /\ Len(steps) \in Nat /\ Len(job[r].agenda) \in Nat \ {0}
  BY TypeParts DEF JobsOK, Job
<1>2. /\ Len(job'[r].agenda) = Len(steps) + Len(job[r].agenda) - 1
      /\ job'[r].agenda[i] = steps[i]
  BY <1>1, Went
<1>3. i \in 1..Len(job'[r].agenda)
  BY <1>1, <1>2
<1> QED BY <1>2, <1>3

\* A write that answers, by what it leads to.
Loops(r) ==
  \/ \E T, D \in SUBSET Tasks : \E t \in LiveTasks :
       /\ Doing(r, <<"dropTasks", T>>) /\ Then(r, AfterTask(t, D))
       /\ task' = [task EXCEPT ![t] = NoRow] /\ UNCHANGED <<project, comment>>
  \/ \E C \in SUBSET Comments : \E c \in C \cap LiveComments :
       /\ Doing(r, <<"dropComments", C>>) /\ Then(r, AfterComment(c, C \ {c}))
       /\ comment' = [comment EXCEPT ![c] = NoRow] /\ UNCHANGED <<project, task>>
  \/ \E p \in Projects :
       /\ Doing(r, <<"dropProject", p>>) /\ Then(r, <<>>)
       /\ project' = project \ {p} /\ UNCHANGED <<task, comment>>

Plainly(r) ==
  /\ Then(r, <<>>) /\ Live \subseteq Live'
  /\ Head(job[r].agenda)[1] \notin {"listComments", "dropComments", "dropFiles"}

\* The deletions lead on, the other writes delete nothing.
LEMMA Writes ==
  ASSUME TypeOK, NEW r \in Requests, Write(r, TRUE)
  PROVE  job[r].agenda # <<>> /\ (Loops(r) \/ Plainly(r))
<1>1. job[r].agenda # <<>>
  BY WriteLive
<1> USE DEF Wrote
<1>2. CASE DropTask(r, TRUE)
  <2> PICK T \in SUBSET Tasks : \E t \in T \cap LiveTasks :
        /\ Doing(r, <<"dropTasks", T>>)
        /\ task' = [task EXCEPT ![t] = NoRow]
        /\ Then(r, AfterTask(t, T \ {t}))
    BY <1>2 DEF DropTask, AfterTask
  <2> PICK t \in T \cap LiveTasks :
        /\ Doing(r, <<"dropTasks", T>>)
        /\ task' = [task EXCEPT ![t] = NoRow]
        /\ Then(r, AfterTask(t, T \ {t}))
    OBVIOUS
  <2> PICK D \in SUBSET Tasks : D = T \ {t}
    OBVIOUS
  <2>1. UNCHANGED <<project, comment>>
    BY <1>2 DEF DropTask
  <2> QED BY <1>1, <2>1 DEF Loops
<1>3. CASE DropComment(r, TRUE)
  <2>1. \E C \in SUBSET Comments : \E c \in C \cap LiveComments :
          /\ Doing(r, <<"dropComments", C>>)
          /\ comment' = [comment EXCEPT ![c] = NoRow]
          /\ Then(r, AfterComment(c, C \ {c}))
    BY <1>3 DEF DropComment, AfterComment
  <2>2. UNCHANGED <<project, task>>
    BY <1>3 DEF DropComment
  <2> QED BY <1>1, <2>1, <2>2 DEF Loops
<1>4. CASE DropProject(r, TRUE)
  BY <1>1, <1>4 DEF DropProject, Loops
<1>5. CASE InsertProject(r, TRUE) \/ EditText(r, TRUE)
  <2>1. Live \subseteq Live' /\ Then(r, <<>>)
    BY <1>5 DEF InsertProject, EditText, Live, LiveTasks, LiveComments
  <2>2. Head(job[r].agenda)[1] \in {"insertProject", "edit"}
    BY <1>5 DEF InsertProject, EditText, Doing
  <2> QED BY <1>1, <2>1, <2>2 DEF Plainly
<1>6. CASE Join(r, TRUE) \/ Leave(r, TRUE)
  <2>1. Live \subseteq Live' /\ Then(r, <<>>)
    BY <1>6 DEF Join, Leave, Live, LiveTasks, LiveComments
  <2>2. Head(job[r].agenda)[1] \in {"join", "leave"}
    BY <1>6 DEF Join, Leave, Doing
  <2> QED BY <1>1, <2>1, <2>2 DEF Plainly
<1>7. CASE InsertTask(r, TRUE) \/ UpdateTask(r, TRUE)
  <2>1. \E t \in Tasks :
          /\ \A x \in Tasks \ {t} : task'[x] = task[x]
          /\ task[t] # NoRow => task'[t] # NoRow
    <3>1. CASE InsertTask(r, TRUE)
      <4> PICK t \in Tasks, p \in Projects, v \in Users :
            task' = [task EXCEPT ![t] = [project |-> p, assignee |-> v]]
        BY <3>1 DEF InsertTask
      <4> QED BY IdAssumption DEF TypeOK
    <3>2. CASE UpdateTask(r, TRUE)
      <4> PICK t \in Tasks, v \in Users : task' = [task EXCEPT ![t].assignee = v]
        BY <3>2 DEF UpdateTask
      <4>1. task[t] # NoRow => task'[t] \in TaskRow
        BY DEF TypeOK, TaskRow
      <4>2. \A x \in Tasks \ {t} : task'[x] = task[x]
        BY DEF TypeOK
      <4> QED BY <4>1, <4>2, IdAssumption DEF TaskRow
    <3> QED BY <1>7, <3>1, <3>2
  <2>2. UNCHANGED <<project, comment>> /\ Then(r, <<>>)
    BY <1>7 DEF InsertTask, UpdateTask
  <2>3. Live \subseteq Live'
    BY <2>1, <2>2 DEF Live, LiveTasks, LiveComments
  <2>4. Head(job[r].agenda)[1] \in {"insertTask", "update"}
    BY <1>7 DEF InsertTask, UpdateTask, Doing
  <2> QED BY <1>1, <2>2, <2>3, <2>4 DEF Plainly
<1>8. CASE InsertComment(r, TRUE)
  <2> PICK c \in Comments, o \in Projects \cup Tasks :
        /\ Doing(r, <<"insertComment", c, o>>)
        /\ comment' = [comment EXCEPT ![c] = [on |-> o, by |-> job[r].user]]
    BY <1>8 DEF InsertComment
  <2>1. job[r].user \in Users
    BY <1>1 DEF TypeOK, Job
  <2>2. Live \subseteq Live' /\ Then(r, <<>>)
    BY <1>8, <2>1, IdAssumption DEF InsertComment, TypeOK, Live, LiveTasks, LiveComments
  <2>3. Head(job[r].agenda)[1] = "insertComment"
    BY DEF Doing
  <2> QED BY <1>1, <2>2, <2>3 DEF Plainly
<1> QED BY <1>2, <1>3, <1>4, <1>5, <1>6, <1>7, <1>8 DEF Write

\* What a request does when nothing throws.
Goes(r) ==
  \/ Guard(r) \/ Read(r) \/ Write(r, TRUE) \/ CallFiles(r)
  \/ SettleFiles(r) /\ FS!At(r, "done")

\* The steps left once the exceptions are taken away.
LEMMA HealthySteps ==
  ASSUME HealthyNext, \A r \in Requests : ~Throws(r)
  PROVE  \E r \in Requests : Start(r) \/ Goes(r) \/ AwaitFiles(r)
<1> PICK r \in Requests : Start(r) \/ Serve(r)
  BY DEF HealthyNext
<1>1. ~Refuse(r) /\ ~LostRace(r) /\ ~(FS!At(r, "failed") /\ SettleFiles(r))
  BY DEF Throws
<1>2. SettleFiles(r) => FS!At(r, "done") \/ FS!At(r, "failed")
  BY DEF SettleFiles, FS!Return
<1> QED BY <1>1, <1>2 DEF Serve, Goes

\* They take the head off an agenda and put steps in its place.
LEMMA GoesOn ==
  ASSUME TypeOK, FS!TypeOK, NEW r \in Requests, Goes(r)
  PROVE  /\ job[r].agenda # <<>>
         /\ \E steps \in Seq(Step) : Then(r, steps)
<1>1. CASE Guard(r) \/ Read(r)
  BY <1>1, ReadSteps
<1>2. CASE Write(r, TRUE)
  <2>1. job[r].agenda # <<>> /\ (Loops(r) \/ Plainly(r))
    BY <1>2, Writes
  <2>2. CASE Plainly(r)
    BY <2>1, <2>2, DropSteps DEF Plainly
  <2>3. CASE Loops(r)
    <3>1. CASE \E T, D \in SUBSET Tasks : \E t \in LiveTasks : Then(r, AfterTask(t, D))
      <4> PICK D \in SUBSET Tasks, t \in Tasks : Then(r, AfterTask(t, D))
        BY <3>1 DEF LiveTasks
      <4> QED BY <2>1, DropsFirst
    <3>2. CASE \E C \in SUBSET Comments : \E c \in C : Then(r, AfterComment(c, C \ {c}))
      <4> PICK C \in SUBSET Comments, c \in Comments : Then(r, AfterComment(c, C \ {c}))
        BY <3>2
      <4>1. C \ {c} \in SUBSET Comments
        OBVIOUS
      <4> QED BY <2>1, <4>1, DropsFirst
    <3>3. CASE Then(r, <<>>)
      BY <2>1, <3>3, DropSteps
    <3> QED BY <2>3, <3>1, <3>2, <3>3 DEF Loops
  <2> QED BY <2>1, <2>2, <2>3
<1>3. CASE CallFiles(r)
  <2>1. << <<"files">> >> \in Seq(Step)
    BY StepForms, Agendas
  <2>2. job[r].agenda # <<>> /\ Then(r, << <<"files">> >>)
    BY <1>3 DEF CallFiles, Doing
  <2> QED BY <2>1, <2>2
<1>4. CASE SettleFiles(r) /\ FS!At(r, "done")
  <2>1. <<>> \in Seq(Step)
    OBVIOUS
  <2>2. job[r].agenda # <<>> /\ Then(r, <<>>)
    BY <1>4 DEF SettleFiles, Doing
  <2> QED BY <2>1, <2>2
<1> QED BY <1>1, <1>2, <1>3, <1>4 DEF Goes

\* The heads that lead to the deletion of a comment, and where they lead.
LEMMA GoesHead ==
  ASSUME TypeOK, FS!TypeOK, NEW r \in Requests, Goes(r)
  PROVE  /\ \A o : Head(job[r].agenda) = <<"listComments", o>> =>
              Then(r, DropComments(CommentsOn(o)))
         /\ \A C : Head(job[r].agenda) = <<"dropComments", C>> =>
              \E c \in C \cap LiveComments :
                C \in SUBSET Comments /\ Then(r, AfterComment(c, C \ {c})) /\ comment'[c] = NoRow
         /\ \A o : Head(job[r].agenda) = <<"dropFiles", o>> => FS!DeleteFiles(r, o)
<1> DEFINE H == Head(job[r].agenda)
<1>1. CASE Guard(r)
  <2>1. \E x : H \in {<<"guard", x>>, <<"modify", x>>, <<"fileGuard", x>>}
    BY <1>1 DEF Guard, Doing
  <2> QED BY <2>1
<1>2. CASE Read(r)
  <2>1. \/ \E o : H = <<"listComments", o>> /\ Then(r, DropComments(CommentsOn(o)))
        \/ \E x, v : H \in {<<"assign", x, v>>, <<"reassign", x, v>>, <<"notify", x>>, <<"listTasks", x>>}
    BY <1>2 DEF Read, Doing
  <2> QED BY <2>1
<1>3. CASE Write(r, TRUE)
  <2>1. CASE Plainly(r)
    BY <2>1 DEF Plainly
  <2>2. CASE Loops(r)
    <3>1. CASE \E C \in SUBSET Comments : \E c \in C \cap LiveComments :
                 /\ Doing(r, <<"dropComments", C>>) /\ Then(r, AfterComment(c, C \ {c}))
                 /\ comment' = [comment EXCEPT ![c] = NoRow]
      <4> PICK C \in SUBSET Comments, c \in Comments :
            /\ c \in C \cap LiveComments
            /\ Doing(r, <<"dropComments", C>>) /\ Then(r, AfterComment(c, C \ {c}))
            /\ comment' = [comment EXCEPT ![c] = NoRow]
        BY <3>1
      <4>1. comment'[c] = NoRow
        BY DEF TypeOK
      <4>2. H = <<"dropComments", C>>
        BY DEF Doing
      <4>3. /\ \A o : H # <<"listComments", o>> /\ H # <<"dropFiles", o>>
            /\ \A D : H = <<"dropComments", D>> => D = C
        BY <4>2
      <4> HIDE DEF H
      <4>4. \A D : H = <<"dropComments", D>> =>
              \E x \in D \cap LiveComments :
                D \in SUBSET Comments /\ Then(r, AfterComment(x, D \ {x})) /\ comment'[x] = NoRow
        BY <4>1, <4>3, Zenon
      <4> QED BY <4>3, <4>4 DEF H
    <3>2. CASE \/ \E T \in SUBSET Tasks : Doing(r, <<"dropTasks", T>>)
               \/ \E p \in Projects : Doing(r, <<"dropProject", p>>)
      BY <3>2 DEF Doing
    <3> QED BY <2>2, <3>1, <3>2 DEF Loops
  <2> QED BY <1>3, <2>1, <2>2, Writes
<1>4. CASE CallFiles(r)
  <2>1. \/ \E o \in Fileables : H = <<"dropFiles", o>> /\ FS!DeleteFiles(r, o)
        \/ \E o, k : H = <<"upload", o, k>>
        \/ \E n : H = <<"eraseFile", n>>
    BY <1>4 DEF CallFiles, Doing
  <2> QED BY <2>1
<1>5. CASE SettleFiles(r)
  BY <1>5 DEF SettleFiles, Doing
<1> QED BY <1>1, <1>2, <1>3, <1>4, <1>5 DEF Goes

\* Requests other than the one that takes a step keep their agenda, and so does
\* one that only awaits a call.
LEMMA OthersWait ==
  ASSUME TypeOK, FS!TypeOK, NEW r \in Requests, Start(r) \/ Goes(r) \/ AwaitFiles(r),
         NEW q \in Requests, job[q].agenda # <<>>
  PROVE  job'[q] = job[q] \/ (q = r /\ Goes(r))
<1>1. CASE AwaitFiles(r)
  BY <1>1 DEF AwaitFiles
<1>2. CASE Start(r)
  <2>1. PICK u \in Users : \E b \in Seq(Step) : Go(r, u, b)
    BY <1>2, Started
  <2>2. job[r].agenda = <<>> /\ \A x \in Requests \ {r} : job'[x] = job[x]
    BY <2>1 DEF Go, TypeOK
  <2> QED BY <2>2
<1>3. CASE Goes(r)
  <2>1. job[r].agenda # <<>> /\ \E steps \in Seq(Step) : Then(r, steps)
    BY <1>3, GoesOn
  <2>2. \A x \in Requests \ {r} : job'[x] = job[x]
    BY <2>1, TypeParts, Went
  <2> QED BY <1>3, <2>2
<1> QED BY <1>1, <1>2, <1>3

\* A request that is going to delete a comment still is after the step, unless
\* it just did.
LEMMA DropsOn ==
  ASSUME TypeOK, FS!TypeOK, NEW r \in Requests, Start(r) \/ Goes(r) \/ AwaitFiles(r),
         NEW c \in LiveComments, comment'[c] = comment[c], NEW q \in Requests, WillDrop(q, c)
  PROVE  WillDrop(q, c)'
<1> PICK i \in 1..Len(job[q].agenda) :
      \/ job[q].agenda[i] = <<"listComments", comment[c].on>>
      \/ \E C \in SUBSET Comments : c \in C /\ job[q].agenda[i] = <<"dropComments", C>>
  BY DEF WillDrop
<1>1. /\ job[q].agenda \in Seq(Step) /\ Len(job[q].agenda) \in Nat
      /\ job[q].agenda # <<>> /\ Head(job[q].agenda) = job[q].agenda[1]
  BY DEF TypeOK, Job
<1>2. ASSUME NEW j \in 1..Len(job'[q].agenda),
             \/ job'[q].agenda[j] = <<"listComments", comment[c].on>>
             \/ \E C \in SUBSET Comments : c \in C /\ job'[q].agenda[j] = <<"dropComments", C>>
      PROVE  WillDrop(q, c)'
  BY <1>2 DEF WillDrop
<1>3. CASE job'[q] = job[q]
  BY <1>2, <1>3
<1>4. CASE q = r /\ Goes(r)
  <2>1. CASE i # 1
    <3>1. i \in 2..Len(job[r].agenda)
      BY <1>1, <1>4, <2>1
    <3>2. PICK steps \in Seq(Step) : Then(r, steps)
      BY <1>4, GoesOn
    <3>3. \E j \in 1..Len(job'[q].agenda) : job'[q].agenda[j] = job[q].agenda[i]
      BY <1>1, <1>4, <3>1, <3>2, Shifted
    <3> QED BY <1>2, <3>3
  <2>2. CASE job[q].agenda[1] = <<"listComments", comment[c].on>>
    <3>1. PICK C : C = CommentsOn(comment[c].on)
      OBVIOUS
    <3>2. c \in C /\ C \in SUBSET Comments
      BY <3>1 DEF CommentsOn, LiveComments
    <3>3. Then(r, DropComments(C))
      BY <1>1, <1>4, <2>2, <3>1, GoesHead
    <3>4. PICK s : s = DropComments(C)
      OBVIOUS
    <3>5. s \in Seq(Step) /\ 1 \in 1..Len(s) /\ s[1] = <<"dropComments", C>>
      <4>1. s = << <<"dropComments", C>> >>
        BY <3>2, <3>4 DEF DropComments
      <4>2. s \in Seq(Step)
        BY <3>2, <3>4, DropSteps
      <4> QED BY <4>1, <4>2
    <3>6. \E j \in 1..Len(job'[q].agenda) : job'[q].agenda[j] = <<"dropComments", C>>
      <4>1. Then(r, s) /\ job[r].agenda # <<>>
        BY <1>1, <1>4, <3>3, <3>4
      <4>2. \E j \in 1..Len(job'[r].agenda) : job'[r].agenda[j] = s[1]
        BY <3>5, <4>1, First
      <4> QED BY <1>4, <3>5, <4>2
    <3> QED BY <1>2, <3>2, <3>6
  <2>3. CASE \E C \in SUBSET Comments : c \in C /\ job[q].agenda[1] = <<"dropComments", C>>
    <3>1. PICK C \in SUBSET Comments : c \in C /\ job[q].agenda[1] = <<"dropComments", C>>
      BY <2>3
    <3>2. PICK d \in C \cap LiveComments :
            Then(r, AfterComment(d, C \ {d})) /\ comment'[d] = NoRow
      BY <1>1, <1>4, <3>1, GoesHead
    <3>3. d # c
      BY <3>2 DEF LiveComments
    <3>4. PICK D : D = C \ {d}
      OBVIOUS
    <3>5. c \in D /\ D \in SUBSET Comments /\ D # {} /\ d \in Comments
      BY <3>1, <3>3, <3>4
    <3>6. PICK s : s = AfterComment(d, D)
      OBVIOUS
    <3>7. s \in Seq(Step) /\ 2 \in 1..Len(s) /\ s[2] = <<"dropComments", D>>
      BY <3>5, <3>6, DropsFirst
    <3>8. \E j \in 1..Len(job'[q].agenda) : job'[q].agenda[j] = <<"dropComments", D>>
      <4>1. Then(r, s) /\ job[r].agenda # <<>>
        BY <1>1, <1>4, <3>2, <3>4, <3>6
      <4>2. \E j \in 1..Len(job'[r].agenda) : job'[r].agenda[j] = s[2]
        BY <3>7, <4>1, First
      <4> QED BY <1>4, <3>7, <4>2
    <3> QED BY <1>2, <3>5, <3>8
  <2> QED BY <2>1, <2>2, <2>3
<1> QED BY <1>1, <1>3, <1>4, OthersWait

\* The same of a file, which the call of a request may be about to delete.
LEMMA ErasesOn ==
  ASSUME TypeOK, FS!TypeOK, CallsInv, NEW r \in Requests, Start(r) \/ Goes(r) \/ AwaitFiles(r),
         ~Throws(r), NEW n \in FS!RowNames, file'[n] = file[n], NEW q \in Requests, WillErase(q, n)
  PROVE  WillErase(q, n)'
<1>1. CASE n \in call[q].todo
  <2>1. ASSUME call'[q] = call[q] PROVE WillErase(q, n)'
    BY <1>1, <2>1 DEF WillErase
  <2>2. call[q].pc \notin {"idle", "done", "failed"}
    BY <1>1 DEF CallsInv
  <2>3. CASE Start(r)
    BY <2>1, <2>3, StartKeeps DEF fs
  <2>4. CASE Guard(r) \/ Read(r) \/ Write(r, TRUE)
    BY <2>1, <2>4 DEF Guard, Read, Write, fs
  <2>5. CASE CallFiles(r)
    <3>1. FS!At(r, "idle") /\ \A x \in Requests \ {r} : call'[x] = call[x]
      BY <2>5 DEF CallFiles, FS!CreateFiles, FS!DeleteFiles, FS!DeleteFile, FS!StartRemoving,
                  FS!Throw, FS!TypeOK
    <3> QED BY <2>1, <2>2, <3>1 DEF FS!At
  <2>6. CASE SettleFiles(r) /\ FS!At(r, "done")
    <3>1. \A x \in Requests \ {r} : call'[x] = call[x]
      BY <2>6 DEF SettleFiles, FS!Return, FS!TypeOK
    <3> QED BY <2>1, <2>2, <2>6, <3>1 DEF FS!At
  <2>7. CASE AwaitFiles(r)
    <3>1. CASE q # r
      <4>1. call'[q] = call[q]
        BY <2>7, <3>1 DEF AwaitFiles, FS!Healthy, FS!Upload, FS!Record, FS!Remove,
                          FS!RemoveMissing, FS!Erase, FS!Throw, FS!TypeOK
      <4> QED BY <2>1, <4>1
    <3>2. CASE q = r
      <4>1. ~FS!RemoveMissing(r)
        BY DEF Throws
      <4>2. CASE FS!Remove(r)
        <5> PICK m \in call[r].todo :
              /\ file' = [file EXCEPT ![m] = NoOwner]
              /\ call' = [call EXCEPT ![r].pc = "erase", ![r].name = m,
                                      ![r].todo = call[r].todo \ {m}]
          BY <4>2 DEF FS!Remove
        <5>1. m # n
          BY DEF FS!TypeOK, FS!RowNames, FS!Call
        <5>2. call'[r].todo = call[r].todo \ {m}
          BY DEF FS!TypeOK, FS!Call
        <5> QED BY <1>1, <3>2, <5>1, <5>2 DEF WillErase
      <4>3. CASE FS!Upload(r) \/ FS!Record(r) \/ FS!Erase(r)
        <5>1. call'[r].todo = call[r].todo
          BY <4>3 DEF FS!Upload, FS!Record, FS!Erase, FS!TypeOK, FS!Call
        <5> QED BY <1>1, <3>2, <5>1 DEF WillErase
      <4> QED BY <2>7, <4>1, <4>2, <4>3 DEF AwaitFiles, FS!Healthy
    <3> QED BY <3>1, <3>2
  <2> QED BY <2>3, <2>4, <2>5, <2>6, <2>7 DEF Goes
<1>2. CASE \E i \in 1..Len(job[q].agenda) : job[q].agenda[i] = <<"dropFiles", file[n]>>
  <2> PICK i \in 1..Len(job[q].agenda) : job[q].agenda[i] = <<"dropFiles", file[n]>>
    BY <1>2
  <2>1. /\ job[q].agenda \in Seq(Step) /\ Len(job[q].agenda) \in Nat
        /\ job[q].agenda # <<>> /\ Head(job[q].agenda) = job[q].agenda[1]
    BY DEF TypeOK, Job
  <2>2. ASSUME NEW j \in 1..Len(job'[q].agenda), job'[q].agenda[j] = <<"dropFiles", file[n]>>
        PROVE  WillErase(q, n)'
    BY <2>2 DEF WillErase
  <2>3. CASE job'[q] = job[q]
    BY <2>2, <2>3
  <2>4. CASE q = r /\ Goes(r)
    <3>1. CASE i # 1
      <4>1. i \in 2..Len(job[r].agenda)
        BY <2>1, <2>4, <3>1
      <4>2. PICK steps \in Seq(Step) : Then(r, steps)
        BY <2>4, GoesOn
      <4>3. \E j \in 1..Len(job'[q].agenda) : job'[q].agenda[j] = job[q].agenda[i]
        BY <2>1, <2>4, <4>1, <4>2, Shifted
      <4> QED BY <2>2, <4>3
    <3>2. CASE i = 1
      <4>1. FS!DeleteFiles(r, file[n])
        BY <2>1, <2>4, <3>2, GoesHead
      <4>2. call'[r].todo = FS!FilesOf(file[n])
        BY <4>1 DEF FS!DeleteFiles, FS!StartRemoving, FS!TypeOK, FS!IdleCall
      <4>3. n \in FS!FilesOf(file[n])
        BY DEF FS!FilesOf, FS!RowNames
      <4> QED BY <2>4, <4>2, <4>3 DEF WillErase
    <3> QED BY <3>1, <3>2
  <2> QED BY <2>1, <2>3, <2>4, OthersWait
<1> QED BY <1>1, <1>2 DEF WillErase

\* Whoever deletes a row is going to delete what hangs on it.
LEMMA OwnerGone ==
  ASSUME TypeOK, FS!TypeOK, LedInv, NEW r \in Requests, Start(r) \/ Goes(r) \/ AwaitFiles(r),
         NEW x \in Live, x \notin Live'
  PROVE  /\ \E j \in 1..Len(job'[r].agenda) : job'[r].agenda[j] = <<"dropFiles", x>>
         /\ x \in Projects \cup Tasks =>
              \E j \in 1..Len(job'[r].agenda) : job'[r].agenda[j] = <<"listComments", x>>
<1> DEFINE Leads(s) == \E j \in 1..Len(job'[r].agenda) : job'[r].agenda[j] = s
<1>1. Write(r, TRUE)
  <2>1. ASSUME UNCHANGED <<project, task, comment>> PROVE FALSE
    BY <2>1 DEF Live, LiveTasks, LiveComments
  <2>2. ~Start(r)
    BY <2>1, StartKeeps
  <2>3. ~(Guard(r) \/ Read(r) \/ CallFiles(r) \/ SettleFiles(r) \/ AwaitFiles(r))
    BY <2>1 DEF Guard, Read, CallFiles, SettleFiles, AwaitFiles, db
  <2> QED BY <2>2, <2>3 DEF Goes
<1>2. job[r].agenda # <<>> /\ Loops(r)
  BY <1>1, Writes DEF Plainly
<1>3. /\ Head(job[r].agenda) = job[r].agenda[1] /\ Len(job[r].agenda) \in Nat
      /\ 1 \in 1..Len(job[r].agenda)
  BY <1>2 DEF TypeOK, Job
<1>4. CASE \E T, D \in SUBSET Tasks : \E t \in LiveTasks :
             /\ Then(r, AfterTask(t, D))
             /\ task' = [task EXCEPT ![t] = NoRow] /\ UNCHANGED <<project, comment>>
  <2> PICK D \in SUBSET Tasks, t \in Tasks :
        /\ Then(r, AfterTask(t, D))
        /\ task' = [task EXCEPT ![t] = NoRow] /\ UNCHANGED <<project, comment>>
    BY <1>4 DEF LiveTasks
  <2>1. x = t
    BY DEF Live, LiveTasks, LiveComments, TypeOK
  <2> PICK s : s = AfterTask(t, D)
    OBVIOUS
  <2>2. /\ s \in Seq(Step) /\ 1 \in 1..Len(s) /\ s[1] = <<"dropFiles", t>>
        /\ 2 \in 1..Len(s) /\ s[2] = <<"listComments", t>>
    BY DropsFirst
  <2>3. Then(r, s)
    OBVIOUS
  <2>4. Leads(s[1]) /\ Leads(s[2])
    BY <1>2, <2>2, <2>3, First
  <2> QED BY <2>1, <2>2, <2>4
<1>5. CASE \E C \in SUBSET Comments : \E c \in C \cap LiveComments :
             /\ Then(r, AfterComment(c, C \ {c}))
             /\ comment' = [comment EXCEPT ![c] = NoRow] /\ UNCHANGED <<project, task>>
  <2> PICK C \in SUBSET Comments, c \in Comments :
        /\ Then(r, AfterComment(c, C \ {c}))
        /\ comment' = [comment EXCEPT ![c] = NoRow] /\ UNCHANGED <<project, task>>
    BY <1>5
  <2>1. x = c
    BY DEF Live, LiveTasks, LiveComments, TypeOK
  <2> PICK D \in SUBSET Comments : D = C \ {c}
    OBVIOUS
  <2> PICK s : s = AfterComment(c, D)
    OBVIOUS
  <2>2. s \in Seq(Step) /\ 1 \in 1..Len(s) /\ s[1] = <<"dropFiles", c>>
    BY DropsFirst
  <2>3. Then(r, s)
    OBVIOUS
  <2>4. Leads(s[1])
    BY <1>2, <2>2, <2>3, First
  <2>5. x \notin Projects \cup Tasks
    BY <2>1, IdAssumption
  <2> QED BY <2>1, <2>2, <2>4, <2>5
<1>6. CASE \E p \in Projects :
             /\ Doing(r, <<"dropProject", p>>) /\ Then(r, <<>>)
             /\ project' = project \ {p} /\ UNCHANGED <<task, comment>>
  <2> PICK p \in Projects : /\ Doing(r, <<"dropProject", p>>) /\ Then(r, <<>>)
                            /\ project' = project \ {p} /\ UNCHANGED <<task, comment>>
    BY <1>6
  <2>1. x = p
    BY DEF Live, LiveTasks, LiveComments
  <2> PICK a : a = job[r].agenda
    OBVIOUS
  <2>2. a[1] = <<"dropProject", p>> /\ Led(a, 1, job[r].user)
    BY <1>3 DEF Doing, LedInv
  <2>3. 1 + 2 <= Len(a) /\ a[1 + 1] = <<"dropFiles", p>> /\ a[1 + 2] = <<"listComments", p>>
    BY <2>2 DEF Led
  <2>4. 2 \in 2..Len(a) /\ 3 \in 2..Len(a)
    BY <1>3, <2>3
  <2>5. <<>> \in Seq(Step)
    OBVIOUS
  <2>6. Leads(a[2]) /\ Leads(a[3])
    BY <1>2, <2>4, <2>5, Shifted
  <2>7. a[2] = <<"dropFiles", x>> /\ a[3] = <<"listComments", x>>
    BY <2>1, <2>3
  <2> HIDE DEF Leads
  <2>8. Leads(<<"dropFiles", x>>) /\ Leads(<<"listComments", x>>)
    BY <2>6, <2>7
  <2> QED BY <2>8 DEF Leads
<1> QED BY <1>2, <1>4, <1>5, <1>6 DEF Loops

\* A row of the file table keeps its owner, and comes on its own.
LEMMA RowsCome ==
  ASSUME FS!TypeOK, CallsInv, NEW r \in Requests, Start(r) \/ Goes(r) \/ AwaitFiles(r),
         NEW n \in Names, file'[n] # NoOwner
  PROVE  IF n \in FS!RowNames THEN file'[n] = file[n] ELSE UNCHANGED db
<1>1. CASE AwaitFiles(r)
  <2>1. UNCHANGED db
    BY <1>1 DEF AwaitFiles
  <2>2. ASSUME n \in FS!RowNames PROVE file'[n] = file[n]
    <3>1. CASE FS!Record(r)
      <4>1. call[r].name # n
        BY <2>2, <3>1 DEF CallsInv, FS!Record, FS!At
      <4> QED BY <3>1, <4>1 DEF FS!Record, FS!TypeOK
    <3>2. CASE FS!Remove(r)
      <4> PICK m \in call[r].todo : file' = [file EXCEPT ![m] = NoOwner]
        BY <3>2 DEF FS!Remove
      <4> QED BY DEF FS!TypeOK
    <3>3. CASE FS!Upload(r) \/ FS!RemoveMissing(r) \/ FS!Erase(r)
      BY <3>3 DEF FS!Upload, FS!RemoveMissing, FS!Erase
    <3> QED BY <1>1, <3>1, <3>2, <3>3 DEF AwaitFiles, FS!Healthy
  <2> QED BY <2>1, <2>2
<1>2. CASE Start(r) \/ Goes(r)
  <2>1. Start(r) => file' = file
    BY StartKeeps DEF fs
  <2>2. Guard(r) \/ Read(r) \/ Write(r, TRUE) => file' = file
    BY DEF Guard, Read, Write, fs
  <2>3. CallFiles(r) \/ SettleFiles(r) => file' = file
    BY DEF CallFiles, SettleFiles, FS!CreateFiles, FS!DeleteFiles, FS!DeleteFile,
           FS!StartRemoving, FS!Return
  <2>4. file' = file
    BY <1>2, <2>1, <2>2, <2>3 DEF Goes
  <2> QED BY <2>4 DEF FS!RowNames
<1> QED BY <1>1, <1>2

\* StrandedByThrowOrLateRow, of one step.
Strands ==
  \/ Stranded' \subseteq Stranded
  \/ LandsLate
  \/ \E r \in Requests : Throws(r)
  \/ ~HealthyNext

\* While nothing throws and no row lands late, what loses its owner is on the
\* agenda of the request that deleted the owner, and stays there until deleted.
LEMMA StrandsStep ==
  TypeOK /\ FS!TypeOK /\ FS!TypeOK' /\ IdInv /\ LedInv /\ CallsInv /\ [Next]_vars => [Strands]_vars
<1> SUFFICES ASSUME TypeOK, FS!TypeOK, FS!TypeOK', IdInv, LedInv, CallsInv, [Next]_vars,
                    HealthyNext, ~LandsLate, \A r \in Requests : ~Throws(r)
             PROVE  Stranded' \subseteq Stranded
  BY DEF Strands
<1>1. Settles /\ KeepsRows
  BY IdNext
<1> PICK r \in Requests : Start(r) \/ Goes(r) \/ AwaitFiles(r)
  BY HealthySteps
<1>2. ASSUME NEW c \in OrphanComments', \A q \in Requests : ~WillDrop(q, c)'
      PROVE  c \in Stranded
  <2>1. c \in Comments /\ comment'[c] # NoRow /\ comment'[c].on \notin Live'
    BY <1>2 DEF OrphanComments, LiveComments
  <2>2. c \in LiveComments
    <3> SUFFICES ASSUME c \notin LiveComments PROVE FALSE
      OBVIOUS
    <3>1. comment'[c].on \in Live
      BY <2>1 DEF LandsLate
    <3>2. PICK o : o = comment'[c].on /\ o \in Live /\ o \notin Live'
      BY <2>1, <3>1
    <3>3. Write(r, TRUE)
      <4>1. Start(r) => UNCHANGED comment
        BY StartKeeps
      <4>2. Guard(r) \/ Read(r) \/ CallFiles(r) \/ SettleFiles(r) \/ AwaitFiles(r)
              => UNCHANGED comment
        BY DEF Guard, Read, CallFiles, SettleFiles, AwaitFiles, db
      <4> QED BY <2>1, <4>1, <4>2 DEF Goes, LiveComments
    <3>4. Loops(r)
      BY <3>2, <3>3, Writes DEF Plainly
    <3>5. comment'[c] = comment[c] \/ comment'[c] = NoRow
      BY <2>1, <3>4 DEF Loops, TypeOK
    <3> QED BY <2>1, <3>5 DEF LiveComments
  <2>3. comment'[c] = comment[c]
    <3>1. Settled(c)
      BY <2>2 DEF IdInv, Live, LiveComments, Fileables
    <3> QED BY <1>1, <2>1, <3>1 DEF KeepsRows
  <2>4. PICK o : o = comment[c].on
    OBVIOUS
  <2>5. o \in Projects \cup Tasks
    BY <2>2, <2>4 DEF TypeOK, LiveComments, CommentRow
  <2>6. o \notin Live
    <3> SUFFICES ASSUME o \in Live PROVE FALSE
      OBVIOUS
    <3>1. \E j \in 1..Len(job'[r].agenda) : job'[r].agenda[j] = <<"listComments", o>>
      BY <2>1, <2>3, <2>4, <2>5, OwnerGone
    <3>2. WillDrop(r, c)'
      BY <2>3, <2>4, <3>1 DEF WillDrop
    <3> QED BY <1>2, <3>2
  <2>7. \A q \in Requests : ~WillDrop(q, c)
    BY <1>2, <2>2, <2>3, DropsOn
  <2>8. c \in OrphanComments
    BY <2>2, <2>4, <2>6 DEF OrphanComments
  <2> QED BY <2>7, <2>8 DEF Stranded
<1>3. ASSUME NEW n \in OrphanFiles', \A q \in Requests : ~WillErase(q, n)'
      PROVE  n \in Stranded
  <2>1. n \in Names /\ file'[n] # NoOwner /\ file'[n] \notin Live'
    BY <1>3 DEF OrphanFiles, FS!RowNames
  <2>2. n \in FS!RowNames
    <3> SUFFICES ASSUME n \notin FS!RowNames PROVE FALSE
      OBVIOUS
    <3>1. UNCHANGED db
      BY <2>1, RowsCome
    <3>2. Live' = Live
      BY <3>1 DEF db, Live, LiveTasks, LiveComments
    <3>3. file'[n] \in Fileables \ Live
      BY <2>1, <3>2 DEF FS!TypeOK
    <3> QED BY <2>1, <3>3 DEF LandsLate
  <2>3. file'[n] = file[n]
    BY <2>1, <2>2, RowsCome
  <2>4. PICK o : o = file[n]
    OBVIOUS
  <2>5. o \notin Live
    <3> SUFFICES ASSUME o \in Live PROVE FALSE
      OBVIOUS
    <3>1. \E j \in 1..Len(job'[r].agenda) : job'[r].agenda[j] = <<"dropFiles", o>>
      BY <2>1, <2>3, <2>4, OwnerGone
    <3>2. WillErase(r, n)'
      BY <2>3, <2>4, <3>1 DEF WillErase
    <3> QED BY <1>3, <3>2
  <2>6. \A q \in Requests : ~WillErase(q, n)
    BY <1>3, <2>2, <2>3, ErasesOn
  <2>7. n \in OrphanFiles
    BY <2>2, <2>4, <2>5 DEF OrphanFiles
  <2> QED BY <2>6, <2>7 DEF Stranded
<1> QED BY <1>2, <1>3 DEF Stranded

\* Only a request that throws or a row that lands late strands a comment or a
\* file, never a cascade that runs through, whatever it interleaves with.
THEOREM StrandedByThrowOrLateRowHolds == Spec => StrandedByThrowOrLateRow
<1>1. TypeOK /\ FS!TypeOK /\ FS!TypeOK' /\ IdInv /\ LedInv /\ CallsInv /\ [Next]_vars
        => [Strands]_vars
  BY StrandsStep
<1> QED BY <1>1, WorkspaceTypeCorrect, WorkspaceFileTypes, InsertedOnce, LedThroughout,
           CallsThroughout, PTL
        DEF Spec, StrandedByThrowOrLateRow, Strands

-----------------------------------------------------------------------------
\* n was handed out and nobody is about to record it: it gets no row any more.
Spent(n) ==
  n \in minted /\ \A r \in Requests : call[r].pc = "record" => call[r].name # n

\* u, who saw these members, may have the files of o deleted from here on.
MayTake(u, saw, o) ==
  /\ Settled(o)
  /\ o \in Live =>
       \/ o \notin Comments /\ AtLeastManager(u)
       \/ o \in LiveTasks /\ <<u, task[o].project>> \in saw
       \/ o \in LiveComments /\ (Role[u] = "ADMIN" \/ comment[o].by = u)

MayErase(u, saw, n) == Spent(n) /\ (n \in FS!RowNames => MayTake(u, saw, file[n]))

\* Whoever gets past the step s may take the files of o.
Asks(s, o) ==
  \/ s = <<"modify", o>>
  \/ o \in Tasks /\ \E p \in Projects : Within(o, p) /\ s = <<"guard", p>>

\* Step i of agenda a, which u sent and which saw these members, only deletes
\* files that the steps before i ask about, or that have lost their owner.
Erases(a, i, u, saw) ==
  /\ \A n \in Names : a[i] = <<"eraseFile", n>> =>
       \/ i > 1 /\ a[i - 1] = <<"fileGuard", n>>
       \/ i > 1 /\ Spent(n) /\ (n \in FS!RowNames => Asks(a[i - 1], file[n]))
       \/ i = 1 /\ MayErase(u, saw, n)
  /\ \A o \in Fileables : a[i] = <<"dropFiles", o>> =>
       Gone(o) \/ (i > 1 /\ a[i - 1] = <<"dropProject", o>>)

ErasesInv ==
  \A r \in Requests : \A i \in 1..Len(job[r].agenda) :
    Erases(job[r].agenda, i, job[r].user, job[r].saw)

\* A call of the file store is awaited by the request that may delete what it
\* has not reached.
TakesInv ==
  \A r \in Requests :
    /\ call[r].pc # "idle" => Doing(r, <<"files">>)
    /\ \A n \in call[r].todo : MayErase(job[r].user, job[r].saw, n)

\* The names of files are never handed out twice.
NamesInv == CallsInv /\ \A n \in FS!RowNames : Spent(n)

\* What a step leaves as it was: rows, and the owner of a file as long as the
\* file is there.
Keeps ==
  /\ Settles /\ KeepsRows /\ project' \subseteq Projects
  /\ \A n \in Names : Spent(n) => Spent(n)' /\ file'[n] \in {file[n], NoOwner}

\* The file store keeps names apart.
LEMMA NamesThroughout == Spec => []NamesInv
<1>1. FSP!Spec => []FSP!IInv
  BY FSP!Invariance, FilesAssumption DEF IsFiniteSet, FSP!IsFiniteSet
<1>2. FS!Spec => FSP!Spec
  BY SameFileStore, PTL DEF FS!Spec, FSP!Spec
<1>3. FSP!IInv => \A n \in FS!RowNames : Spent(n)
  <2> SUFFICES ASSUME FSP!IInv, NEW n \in FSP!RowNames PROVE Spent(n)
    BY DEF FSP!RowNames, FS!RowNames
  <2>1. n \in minted
    BY DEF FSP!IInv, FSP!RowHasObject
  <2>2. \A r \in Requests : call[r].pc = "record" => call[r].name # n
    BY DEF FSP!IInv, FSP!CallShape, FSP!HeldNames
  <2> QED BY <2>1, <2>2 DEF Spent
<1> QED BY <1>1, <1>2, <1>3, CallsThroughout, WorkspaceRefinesFileStore, PTL DEF NamesInv

\* What a step of the file store does to names, rows and lists.
LEMMA FileSteps ==
  ASSUME FS!TypeOK, [FS!Next]_(FS!vars)
  PROVE  /\ minted \subseteq minted'
         /\ \A q \in Requests : call'[q].pc = "record" =>
              \/ call[q].pc = "record" /\ call'[q].name = call[q].name
              \/ call'[q].name \notin minted
         /\ \A n \in Names :
              \/ file'[n] = file[n]
              \/ \E r \in Requests : call[r].pc = "record" /\ call[r].name = n
              \/ file'[n] = NoOwner /\ \E r \in Requests : n \in call[r].todo \ call'[r].todo
<1> DEFINE Goal ==
      /\ minted \subseteq minted'
      /\ \A q \in Requests : call'[q].pc = "record" =>
           \/ call[q].pc = "record" /\ call'[q].name = call[q].name
           \/ call'[q].name \notin minted
      /\ \A n \in Names :
           \/ file'[n] = file[n]
           \/ \E r \in Requests : call[r].pc = "record" /\ call[r].name = n
           \/ file'[n] = NoOwner /\ \E r \in Requests : n \in call[r].todo \ call'[r].todo
<1> SUFFICES Goal
  OBVIOUS
<1> USE DEF FS!TypeOK, FS!Call, FS!IdleCall, FS!At, FS!Throw
<1>1. ASSUME NEW r \in Requests, FS!Start(r) PROVE Goal
  <2> DEFINE Begun == /\ \A q \in Requests : call'[q].pc = "record" => call'[q] = call[q]
                      /\ UNCHANGED <<file, minted>>
  <2>1. ASSUME NEW o, NEW n, FS!CreateFiles(r, o, n) PROVE Begun
    BY <2>1 DEF FS!CreateFiles
  <2>2. ASSUME NEW names, FS!StartRemoving(r, names) PROVE Begun
    BY <2>2 DEF FS!StartRemoving
  <2> HIDE DEF Begun
  <2>3. Begun
    BY <1>1, <2>1, <2>2 DEF FS!Start, FS!DeleteFile, FS!DeleteFiles
  <2> QED BY <2>3 DEF Begun
<1>2. ASSUME NEW r \in Requests, FS!Upload(r) PROVE Goal
  BY <1>2 DEF FS!Upload
<1>3. ASSUME NEW r \in Requests, FS!Record(r) PROVE Goal
  BY <1>3 DEF FS!Record
<1>4. ASSUME NEW r \in Requests, FS!Remove(r) PROVE Goal
  BY <1>4 DEF FS!Remove
<1>5. ASSUME NEW r \in Requests, FS!RemoveMissing(r) \/ FS!Erase(r) \/ FS!Return(r) PROVE Goal
  BY <1>5 DEF FS!RemoveMissing, FS!Erase, FS!Return
<1>6. ASSUME NEW r \in Requests, FS!UploadFails(r) \/ FS!EraseFails(r) PROVE Goal
  BY <1>6 DEF FS!UploadFails, FS!EraseFails
<1>7. ASSUME NEW r \in Requests, FS!RecordFails(r) PROVE Goal
  BY <1>7 DEF FS!RecordFails
<1>8. ASSUME NEW r \in Requests, FS!RemoveFails(r) PROVE Goal
  BY <1>8 DEF FS!RemoveFails
<1>9. CASE FS!Crash
  BY <1>9 DEF FS!Crash
<1>10. CASE UNCHANGED FS!vars
  BY <1>10 DEF FS!vars
<1> HIDE DEF Goal, FS!TypeOK, FS!Call, FS!IdleCall, FS!At, FS!Throw
<1>11. ASSUME NEW r \in Requests, FS!Start(r) \/ FS!Healthy(r) \/ FS!Return(r) \/ FS!Fault(r)
       PROVE  Goal
  BY <1>1, <1>2, <1>3, <1>4, <1>5, <1>6, <1>7, <1>8, <1>11 DEF FS!Healthy, FS!Fault
<1> QED BY <1>9, <1>10, <1>11 DEF FS!Next, FS!HealthyNext

\* Every step of the workspace keeps rows and the owners of files.
LEMMA KeepsNext ==
  ASSUME TypeOK, FS!TypeOK, IdInv, [Next]_vars
  PROVE  Keeps
<1>1. Settles /\ KeepsRows
  BY IdNext
<1>2. [FS!Next]_(FS!vars) /\ project' \subseteq Projects
  BY StepRefines, TypeStep DEF TInv, TypeOK
<1>3. ASSUME NEW n \in Names, Spent(n)
      PROVE  Spent(n)' /\ file'[n] \in {file[n], NoOwner}
  <2>1. n \in minted'
    BY <1>2, <1>3, FileSteps DEF Spent
  <2>2. \A q \in Requests : call'[q].pc = "record" => call'[q].name # n
    BY <1>2, <1>3, FileSteps DEF Spent
  <2>3. file'[n] \in {file[n], NoOwner}
    BY <1>2, <1>3, FileSteps DEF Spent
  <2> QED BY <2>1, <2>2, <2>3 DEF Spent
<1> QED BY <1>1, <1>2, <1>3 DEF Keeps

\* Whoever may take the files of a row may do so from then on.
LEMMA MayTakeKept ==
  ASSUME TypeOK, Keeps, NEW o \in Fileables, NEW u, NEW s, NEW w, s \subseteq w,
         MayTake(u, s, o)
  PROVE  MayTake(u, w, o)'
<1>1. Settled(o)' /\ Settled(o) /\ ((o \in Live)' => o \in Live)
  BY DEF MayTake, Keeps, Settles
<1>2. ASSUME (o \in Live)'
      PROVE  \/ o \notin Comments /\ AtLeastManager(u)
             \/ (o \in LiveTasks)' /\ <<u, task'[o].project>> \in w
             \/ (o \in LiveComments)' /\ (Role[u] = "ADMIN" \/ comment'[o].by = u)
  <2>1. CASE o \notin Comments /\ AtLeastManager(u)
    BY <2>1
  <2>2. CASE o \in LiveTasks /\ <<u, task[o].project>> \in s
    <3>1. o \in Tasks /\ task'[o] # NoRow
      <4>1. o \in Tasks /\ o \notin Projects /\ o \notin Comments
        BY <2>2, IdAssumption DEF LiveTasks
      <4> QED BY <1>2, <4>1 DEF Keeps, Live, LiveTasks, LiveComments
    <3> QED BY <1>1, <2>2, <3>1 DEF Keeps, KeepsRows, LiveTasks
  <2>3. CASE o \in LiveComments /\ (Role[u] = "ADMIN" \/ comment[o].by = u)
    <3>1. o \in Comments /\ comment'[o] # NoRow
      BY <1>2, <2>3, IdAssumption DEF Keeps, Live, LiveTasks, LiveComments
    <3> QED BY <1>1, <2>3, <3>1 DEF Keeps, KeepsRows, LiveComments
  <2> QED BY <1>1, <1>2, <2>1, <2>2, <2>3 DEF MayTake
<1> QED BY <1>1, <1>2 DEF MayTake, AtLeastManager

\* Whoever may delete a file may do so from then on.
LEMMA MayEraseKept ==
  ASSUME TypeOK, FS!TypeOK, Keeps, NEW n \in Names, NEW u, NEW s, NEW w, s \subseteq w,
         MayErase(u, s, n)
  PROVE  MayErase(u, w, n)'
<1>1. Spent(n)' /\ file'[n] \in {file[n], NoOwner}
  BY DEF MayErase, Keeps
<1>2. ASSUME file'[n] # NoOwner PROVE MayTake(u, w, file[n])' /\ file'[n] = file[n]
  <2>1. file'[n] = file[n] /\ n \in FS!RowNames /\ file[n] \in Fileables
    BY <1>1, <1>2 DEF FS!RowNames, FS!TypeOK
  <2> PICK o \in Fileables : o = file[n]
    BY <2>1
  <2>2. MayTake(u, s, o)
    BY <2>1 DEF MayErase
  <2>3. MayTake(u, w, o)'
    BY <2>2, MayTakeKept
  <2> QED BY <2>1, <2>3 DEF MayTake, AtLeastManager
<1>3. (n \in FS!RowNames)' => file'[n] # NoOwner
  BY DEF FS!RowNames
<1> QED BY <1>1, <1>2, <1>3 DEF MayErase, MayTake, AtLeastManager

\* What a step asks about stays in its project.
LEMMA AsksKept ==
  ASSUME Keeps, NEW s, NEW o, Asks(s, o)
  PROVE  Asks(s, o)'
<1>1. CASE s = <<"modify", o>>
  BY <1>1 DEF Asks
<1>2. CASE s # <<"modify", o>>
  <2> PICK p \in Projects : o \in Tasks /\ Within(o, p) /\ s = <<"guard", p>>
    BY <1>2 DEF Asks
  <2>1. Within(o, p)'
    BY WithinKept DEF Keeps
  <2> QED BY <2>1 DEF Asks
<1> QED BY <1>1, <1>2

\* A step of an agenda that keeps its place behind the same step, or that is now
\* first as it was, rests on what it rested on.
LEMMA ErasesKept ==
  ASSUME TypeOK, FS!TypeOK, Keeps, NEW a, NEW b, NEW i \in Nat, NEW j \in Nat,
         NEW u, NEW s, NEW w,
         Erases(a, i, u, s), b[j] = a[i],
         \/ i = 1 /\ j = 1 /\ s \subseteq w
         \/ i > 1 /\ j > 1 /\ b[j - 1] = a[i - 1]
  PROVE  Erases(b, j, u, w)'
<1>1. ASSUME NEW n \in Names, b[j] = <<"eraseFile", n>>
      PROVE  \/ j > 1 /\ b[j - 1] = <<"fileGuard", n>>
             \/ j > 1 /\ Spent(n)' /\ ((n \in FS!RowNames)' => Asks(b[j - 1], file[n])')
             \/ j = 1 /\ MayErase(u, w, n)'
  <2>1. \/ i > 1 /\ a[i - 1] = <<"fileGuard", n>>
        \/ i > 1 /\ Spent(n) /\ (n \in FS!RowNames => Asks(a[i - 1], file[n]))
        \/ i = 1 /\ MayErase(u, s, n)
    BY <1>1 DEF Erases
  <2>2. CASE i > 1 /\ a[i - 1] = <<"fileGuard", n>>
    BY <2>2
  <2>3. CASE i > 1 /\ Spent(n) /\ (n \in FS!RowNames => Asks(a[i - 1], file[n]))
    <3>1. Spent(n)' /\ file'[n] \in {file[n], NoOwner}
      BY <2>3 DEF Keeps
    <3>2. ASSUME (n \in FS!RowNames)' PROVE Asks(b[j - 1], file[n])'
      <4> PICK x, o : x = a[i - 1] /\ o = file[n]
        OBVIOUS
      <4>1. n \in FS!RowNames /\ file'[n] = o
        BY <3>1, <3>2 DEF FS!RowNames
      <4>2. Asks(x, o)'
        BY <2>3, <4>1, AsksKept
      <4>3. b[j - 1] = x
        BY <2>3
      <4> QED BY <4>1, <4>2, <4>3 DEF Asks, Within
    <3> QED BY <2>3, <3>1, <3>2
  <2>4. CASE i = 1 /\ MayErase(u, s, n)
    BY <2>4, MayEraseKept
  <2> QED BY <2>1, <2>2, <2>3, <2>4
<1>2. ASSUME NEW o \in Fileables, b[j] = <<"dropFiles", o>>
      PROVE  Gone(o)' \/ (j > 1 /\ b[j - 1] = <<"dropProject", o>>)
  <2>1. Gone(o) \/ (i > 1 /\ a[i - 1] = <<"dropProject", o>>)
    BY <1>2 DEF Erases
  <2> QED BY <2>1, GoneKept DEF Keeps
<1> QED BY <1>1, <1>2 DEF Erases

\* A step that deletes no files needs no leave.
LEMMA ErasesOther ==
  ASSUME NEW b, NEW j, NEW u, NEW w, b[j][1] \notin {"eraseFile", "dropFiles"}
  PROVE  Erases(b, j, u, w)'
BY DEF Erases

\* What an endpoint starts with asks first.
LEMMA ErasesOpens ==
  ASSUME NEW b, Opens(b), NEW u, NEW w, NEW j \in 1..Len(b)
  PROVE  Erases(b, j, u, w)'
BY DEF Opens, Erases

\* ErasesInv, request by request.
LEMMA ErasesEach ==
  ASSUME \A r \in Requests : \E b, u, w :
           /\ b = job'[r].agenda /\ (b # <<>> => u = job'[r].user /\ w = job'[r].saw)
           /\ \A j \in 1..Len(b) : Erases(b, j, u, w)'
  PROVE  ErasesInv'
<1> SUFFICES ASSUME NEW r \in Requests, NEW j \in 1..Len(job'[r].agenda)
             PROVE  Erases(job[r].agenda, j, job[r].user, job[r].saw)'
  BY DEF ErasesInv
<1> PICK b, u, w : /\ b = job'[r].agenda /\ (b # <<>> => u = job'[r].user /\ w = job'[r].saw)
                   /\ \A i \in 1..Len(b) : Erases(b, i, u, w)'
  OBVIOUS
<1>1. b # <<>>
  <2>1. Len(<<>>) = 0 /\ 1..0 = {}
    OBVIOUS
  <2> QED BY <2>1
<1>2. Erases(b, j, u, w)'
  OBVIOUS
<1>3. b = job'[r].agenda /\ u = job'[r].user /\ w = job'[r].saw
  BY <1>1
<1> QED BY <1>2, <1>3 DEF Erases, MayErase, MayTake, Asks, Within, Gone, AtLeastManager

\* A request whose job a step leaves alone.
LEMMA ErasesSame ==
  ASSUME TypeOK, FS!TypeOK, ErasesInv, Keeps, NEW q \in Requests, job'[q] = job[q]
  PROVE  \E b, u, w : /\ b = job'[q].agenda /\ (b # <<>> => u = job'[q].user /\ w = job'[q].saw)
                      /\ \A j \in 1..Len(b) : Erases(b, j, u, w)'
<1> PICK b, u, w : b = job[q].agenda /\ u = job[q].user /\ w = job[q].saw
  OBVIOUS
<1>1. ASSUME NEW j \in 1..Len(b) PROVE Erases(b, j, u, w)'
  <2>1. Erases(b, j, u, w)
    BY DEF ErasesInv
  <2>2. j \in Nat /\ (j = 1 \/ j > 1)
    OBVIOUS
  <2> QED BY <2>1, <2>2, ErasesKept
<1> QED BY <1>1

\* A request that gives up.
LEMMA ErasesThrow ==
  ASSUME TypeOK, FS!TypeOK, ErasesInv, Keeps, NEW r \in Requests, Throw(r)
  PROVE  ErasesInv'
<1>1. job'[r].agenda = <<>> /\ \A q \in Requests \ {r} : job'[q] = job[q]
  BY TypeParts, Thrown
<1>2. Len(<<>>) = 0 /\ 1..0 = {}
  OBVIOUS
<1>3. ASSUME NEW q \in Requests
      PROVE  \E c, v, z : /\ c = job'[q].agenda /\ (c # <<>> => v = job'[q].user /\ z = job'[q].saw)
                          /\ \A j \in 1..Len(c) : Erases(c, j, v, z)'
  <2>1. CASE q = r
    <3>1. \A v, z : \A j \in 1..Len(<<>>) : Erases(<<>>, j, v, z)'
      BY <1>2
    <3> QED BY <1>1, <2>1, <3>1
  <2>2. CASE q # r
    BY <1>1, <2>2, ErasesSame
  <2> QED BY <2>1, <2>2
<1> QED BY <1>3, ErasesEach

\* A request that goes on: the steps it is led to, and the one that comes after
\* them, may delete what they delete.
LEMMA ErasesThen ==
  ASSUME TypeOK, FS!TypeOK, ErasesInv, Keeps, NEW r \in Requests,
         NEW steps \in Seq(Step), job[r].agenda # <<>>, Then(r, steps),
         NEW b, b = job'[r].agenda, NEW u, u = job[r].user, NEW w, w = job[r].saw \cup member,
         \A j \in 1..Len(steps) : Erases(b, j, u, w)',
         \A j \in Nat : j = Len(steps) + 1 /\ Len(job[r].agenda) >= 2 => Erases(b, j, u, w)'
  PROVE  ErasesInv'
<1> PICK a, s : a = job[r].agenda /\ s = job[r].saw
  OBVIOUS
<1>1. /\ Len(b) = Len(steps) + Len(a) - 1 /\ Len(steps) \in Nat /\ Len(a) \in Nat
      /\ \A i \in 1..Len(b) : i > Len(steps) =>
           i - Len(steps) + 1 \in 2..Len(a) /\ b[i] = a[i - Len(steps) + 1]
      /\ b # <<>> => job'[r].user = u /\ job'[r].saw = w
      /\ \A q \in Requests \ {r} : job'[q] = job[q]
  BY TypeParts, Went DEF JobsOK, Job
<1>2. ASSUME NEW j \in 1..Len(b) PROVE Erases(b, j, u, w)'
  <2> PICK n : n = Len(steps)
    OBVIOUS
  <2>1. CASE j \in 1..Len(steps)
    BY <2>1
  <2>2. CASE j = Len(steps) + 1
    <3>1. j \in Nat /\ j > n /\ j - n + 1 = 2
      BY <1>1, <2>2
    <3>2. 2 \in 2..Len(a)
      BY <1>1, <3>1
    <3>3. Len(job[r].agenda) >= 2
      BY <1>1, <3>2
    <3> QED BY <2>2, <3>1, <3>3, Zenon
  <2>3. CASE j > Len(steps) + 1
    <3> PICK i : i = j - n + 1
      OBVIOUS
    <3>1. j > n /\ j - 1 \in 1..Len(b) /\ j - 1 > n /\ (j - 1) - n + 1 = i - 1
      BY <1>1, <2>3
    <3>2. i \in 2..Len(a) /\ b[j] = a[i] /\ b[j - 1] = a[i - 1]
      BY <1>1, <3>1
    <3>3. i \in Nat /\ i \in 1..Len(a) /\ i > 1 /\ j > 1 /\ j \in Nat
      BY <1>1, <2>3, <3>2
    <3>4. Erases(a, i, u, s)
      BY <3>3 DEF ErasesInv
    <3> QED BY <3>2, <3>3, <3>4, ErasesKept
  <2> QED BY <1>1, <2>1, <2>2, <2>3
<1>3. ASSUME NEW q \in Requests
      PROVE  \E c, v, z : /\ c = job'[q].agenda /\ (c # <<>> => v = job'[q].user /\ z = job'[q].saw)
                          /\ \A j \in 1..Len(c) : Erases(c, j, v, z)'
  <2>1. CASE q = r
    BY <1>1, <1>2, <2>1
  <2>2. CASE q # r
    BY <1>1, <2>2, ErasesSame
  <2> QED BY <2>1, <2>2
<1> QED BY <1>3, ErasesEach

\* The step after one that is no question needed no answer.
LEMMA ErasesUnasked ==
  ASSUME Keeps, NEW a, NEW u, NEW s, Erases(a, 2, u, s),
         a[1][1] \notin {"fileGuard", "modify", "guard"},
         \A o \in Fileables : a[1] = <<"dropProject", o>> => Gone(o)',
         NEW b, NEW j \in Nat \ {0}, b[j] = a[2], NEW w
  PROVE  Erases(b, j, u, w)'
<1>1. ASSUME NEW n \in Names, b[j] = <<"eraseFile", n>>
      PROVE  Spent(n)' /\ (n \notin FS!RowNames)'
  <2>1. \A x : a[1] # <<"fileGuard", x>> /\ a[1] # <<"modify", x>> /\ a[1] # <<"guard", x>>
    OBVIOUS
  <2>2. Spent(n) /\ (n \in FS!RowNames => Asks(a[1], file[n]))
    BY <1>1, <2>1 DEF Erases
  <2>3. n \notin FS!RowNames
    BY <2>1, <2>2 DEF Asks
  <2> QED BY <2>2, <2>3 DEF Keeps, FS!RowNames
<1>2. ASSUME NEW o \in Fileables, b[j] = <<"dropFiles", o>> PROVE Gone(o)'
  <2>1. Gone(o) \/ a[1] = <<"dropProject", o>>
    BY <1>2 DEF Erases
  <2> QED BY <2>1, GoneKept DEF Keeps
<1>3. j = 1 \/ j > 1
  OBVIOUS
<1> QED BY <1>1, <1>2, <1>3 DEF Erases, MayErase

\* What is put on an agenda deletes no files but those of something gone.
Cleans(steps) ==
  \A j \in 1..Len(steps) :
    /\ steps[j][1] # "eraseFile"
    /\ \A o \in Fileables : steps[j] = <<"dropFiles", o>> => Gone(o)

\* A request whose step is no question, or that gives up, leaves the others and
\* the rest of its agenda entitled.
LEMMA ErasesPlain ==
  ASSUME TypeOK, FS!TypeOK, ErasesInv, Keeps, NEW r \in Requests,
         NEW steps \in Seq(Step), job[r].agenda # <<>>,
         \/ Throw(r)
         \/ /\ Then(r, steps)
            /\ Head(job[r].agenda)[1] \notin {"fileGuard", "modify", "guard"}
            /\ \A o \in Fileables : Head(job[r].agenda) = <<"dropProject", o>> => Gone(o)'
            /\ Cleans(steps)'
  PROVE  ErasesInv'
<1>1. CASE Throw(r)
  BY <1>1, ErasesThrow
<1>2. CASE ~Throw(r)
  <2> PICK a, b, u, s, w : /\ a = job[r].agenda /\ b = job'[r].agenda /\ u = job[r].user
                           /\ s = job[r].saw /\ w = job[r].saw \cup member
    OBVIOUS
  <2>1. /\ \A i \in 1..Len(steps) : b[i] = steps[i]
        /\ Len(steps) \in Nat /\ Len(a) \in Nat /\ Head(a) = a[1]
    BY <1>2, TypeParts, Went DEF JobsOK, Job
  <2>2. ASSUME NEW j \in 1..Len(steps) PROVE Erases(b, j, u, w)'
    <3>1. /\ steps[j][1] # "eraseFile"
          /\ \A o \in Fileables : steps[j] = <<"dropFiles", o>> => Gone(o)'
      BY <1>2 DEF Cleans
    <3>2. b[j] = steps[j]
      BY <2>1
    <3> QED BY <3>1, <3>2 DEF Erases
  <2>3. ASSUME NEW j \in Nat, j = Len(steps) + 1, Len(job[r].agenda) >= 2
        PROVE  Erases(b, j, u, w)'
    <3>1. b[j] = a[2]
      BY <1>2, <2>3, TypeParts, WentSecond
    <3>2. Erases(a, 2, u, s)
      <4>1. 2 \in 1..Len(job[r].agenda)
        BY <2>1, <2>3
      <4> QED BY <4>1 DEF ErasesInv
    <3>3. j \in Nat \ {0}
      BY <2>1, <2>3
    <3> QED BY <1>2, <2>1, <3>1, <3>2, <3>3, ErasesUnasked
  <2> QED BY <1>2, <2>2, <2>3, ErasesThen
<1> QED BY <1>1, <1>2

\* A guard or a question of FileGuard that passes leaves the deletion behind it
\* to be asked about the file's owner, and then entitled.
LEMMA ErasesGuard ==
  ASSUME TypeOK, FS!TypeOK, IdInv, NamesInv, ErasesInv, Keeps, NEW r \in Requests, Guard(r)
  PROVE  ErasesInv'
<1> PICK a, b, u, s, w : /\ a = job[r].agenda /\ b = job'[r].agenda /\ u = job[r].user
                         /\ s = job[r].saw /\ w = job[r].saw \cup member
  OBVIOUS
<1>1. JobsOK /\ a # <<>> /\ Head(a) = a[1] /\ Len(a) \in Nat /\ a \in Seq(Step)
  <2>1. JobsOK
    BY TypeParts
  <2>2. a # <<>>
    BY DEF Guard, Doing
  <2>3. a \in Seq(Step)
    BY <2>1 DEF JobsOK, Job
  <2> QED BY <2>1, <2>2, <2>3
<1>2. Len(a) >= 2 => Erases(a, 2, u, s)
  BY <1>1 DEF ErasesInv
\* The last question passes.
<1>3. ASSUME Then(r, <<>>), \A o : a[1] # <<"dropProject", o>>,
             \A n : a[1] # <<"fileGuard", n>>,
             \A o \in Fileables : Asks(a[1], o) => MayTake(u, w, o)
      PROVE  ErasesInv'
  <2>1. <<>> \in Seq(Step) /\ Len(<<>>) = 0 /\ \A j \in 1..Len(<<>>) : Erases(b, j, u, w)'
    OBVIOUS
  <2>2. ASSUME Len(a) >= 2 PROVE Erases(b, 1, u, w)'
    <3>1. b[1] = a[2]
      <4>1. job'[r].agenda[Len(<<>>) + 1] = job[r].agenda[2]
        BY <1>1, <1>3, <2>1, <2>2, WentSecond
      <4> QED BY <2>1, <4>1
    <3>2. ASSUME NEW n \in Names, b[1] = <<"eraseFile", n>> PROVE MayErase(u, w, n)'
      <4>1. Spent(n) /\ (n \in FS!RowNames => Asks(a[1], file[n]))
        BY <1>2, <1>3, <2>2, <3>1, <3>2 DEF Erases
      <4>2. n \in FS!RowNames => file[n] \in Fileables
        BY DEF FS!TypeOK, FS!RowNames
      <4>3. MayErase(u, w, n)
        BY <1>3, <4>1, <4>2 DEF MayErase
      <4> QED BY <4>3, MayEraseKept
    <3>3. ASSUME NEW o \in Fileables, b[1] = <<"dropFiles", o>> PROVE Gone(o)'
      <4>1. Gone(o)
        BY <1>2, <1>3, <2>2, <3>1, <3>3 DEF Erases
      <4> QED BY <4>1, GoneKept DEF Keeps
    <3> QED BY <3>2, <3>3 DEF Erases
  <2>3. \A j \in Nat : j = Len(<<>>) + 1 /\ Len(job[r].agenda) >= 2 => Erases(b, j, u, w)'
    BY <2>1, <2>2
  <2> QED BY <1>1, <1>3, <2>1, <2>3, ErasesThen
\* A question leads to the next one.
<1>4. ASSUME NEW x \in Step, x[1] \in {"guard", "modify"}, Then(r, <<x>>),
             \A o : a[1] # <<"dropProject", o>>,
             \A n \in Names : a[1] = <<"fileGuard", n>> =>
               Spent(n) /\ (n \in FS!RowNames => Asks(x, file[n])),
             \A o \in Fileables : Asks(a[1], o) => Asks(x, o)
      PROVE  ErasesInv'
  <2> DEFINE steps == <<x>>
  <2>1. steps \in Seq(Step) /\ Len(steps) = 1 /\ steps[1] = x /\ Then(r, steps)
    BY <1>4, Agendas
  <2> HIDE DEF steps
  <2>2. b[1] = x
    <3>1. 1 \in 1..Len(steps)
      BY <2>1
    <3> QED BY <1>1, <2>1, <3>1, Went
  <2>3. ASSUME NEW j \in 1..Len(steps) PROVE Erases(b, j, u, w)'
    <3>1. j = 1
      BY <2>1
    <3> QED BY <1>4, <2>2, <3>1, ErasesOther
  <2>4. ASSUME NEW j \in Nat, j = Len(steps) + 1, Len(job[r].agenda) >= 2
        PROVE  Erases(b, j, u, w)'
    <3>1. j = 2 /\ b[j - 1] = x
      BY <2>1, <2>2, <2>4
    <3>2. b[j] = a[2]
      BY <1>1, <2>1, <2>4, WentSecond
    <3>3. Erases(a, 2, u, s)
      BY <1>2, <2>4
    <3>4. ASSUME NEW n \in Names, b[j] = <<"eraseFile", n>>
          PROVE  Spent(n)' /\ ((n \in FS!RowNames)' => Asks(x, file[n])')
      <4> PICK o : o = file[n]
        OBVIOUS
      <4>1. Spent(n) /\ (n \in FS!RowNames => Asks(a[1], o) \/ Asks(x, o))
        BY <1>4, <3>2, <3>3, <3>4 DEF Erases
      <4>2. n \in FS!RowNames => Asks(x, o)
        BY <1>4, <4>1 DEF FS!RowNames, FS!TypeOK
      <4>3. Spent(n)' /\ file'[n] \in {o, NoOwner}
        BY <4>1 DEF Keeps
      <4>4. ASSUME (n \in FS!RowNames)' PROVE Asks(x, file[n])'
        <5>1. n \in FS!RowNames /\ file'[n] = o
          BY <4>3, <4>4 DEF FS!RowNames
        <5>2. Asks(x, o)'
          BY <4>2, <5>1, AsksKept
        <5> QED BY <5>1, <5>2 DEF Asks, Within
      <4> QED BY <4>3, <4>4
    <3>5. ASSUME NEW o \in Fileables, b[j] = <<"dropFiles", o>> PROVE Gone(o)'
      <4>1. Gone(o)
        BY <1>4, <3>2, <3>3, <3>5 DEF Erases
      <4> QED BY <4>1, GoneKept DEF Keeps
    <3> QED BY <3>1, <3>4, <3>5 DEF Erases
  <2> QED BY <1>1, <2>1, <2>3, <2>4, ErasesThen
<1>5. ASSUME NEW p \in Projects, Doing(r, <<"guard", p>>) \/ Doing(r, <<"modify", p>>),
             Allowed(r), Then(r, <<>>)
      PROVE  ErasesInv'
  <2>1. a[1] = <<"guard", p>> \/ a[1] = <<"modify", p>>
    BY <1>1, <1>5 DEF Doing
  <2>2. p \notin Tasks /\ p \notin Comments /\ p \notin LiveTasks /\ p \notin LiveComments
    BY IdAssumption DEF LiveTasks, LiveComments
  <2>3. ASSUME NEW o \in Fileables, Asks(a[1], o) PROVE MayTake(u, w, o)
    <3>1. CASE a[1] = <<"modify", p>>
      <4>1. o = p
        BY <2>3, <3>1 DEF Asks
      <4>2. May(u, <<"modify", p>>)
        BY <1>1, <1>5, <3>1 DEF Allowed
      <4>3. p \in project /\ AtLeastManager(u)
        BY <2>2, <4>2 DEF May
      <4>4. Settled(p)
        BY <4>3 DEF IdInv, Live, Fileables
      <4> QED BY <2>2, <4>1, <4>3, <4>4 DEF MayTake
    <3>2. CASE a[1] = <<"guard", p>>
      <4>1. o \in Tasks /\ Within(o, p)
        BY <2>3, <3>2 DEF Asks
      <4>2. May(u, <<"guard", p>>)
        BY <1>1, <1>5, <3>2 DEF Allowed
      <4>3. AtLeastManager(u) \/ <<u, p>> \in w
        BY <4>2, MayPass
      <4>4. o \notin project /\ o \notin LiveComments /\ o \notin Comments
        BY <4>1, IdAssumption DEF TypeOK, LiveComments
      <4> QED BY <4>1, <4>3, <4>4 DEF MayTake, Within, Live
    <3> QED BY <2>1, <3>1, <3>2
  <2>4. /\ \A o : a[1] # <<"dropProject", o>>
        /\ \A n : a[1] # <<"fileGuard", n>>
    BY <2>1
  <2> QED BY <1>3, <1>5, <2>3, <2>4
<1>6. ASSUME NEW t \in Tasks, Doing(r, <<"guard", t>>) \/ Doing(r, <<"modify", t>>),
             Allowed(r), Then(r, << <<"guard", task[t].project>> >>)
      PROVE  ErasesInv'
  <2> PICK q : q = task[t].project
    OBVIOUS
  <2>1. a[1] = <<"guard", t>> \/ a[1] = <<"modify", t>>
    BY <1>1, <1>6 DEF Doing
  <2>2. t \in LiveTasks
    BY <1>1, <1>6, <2>1, MayTask DEF Allowed
  <2>3. q \in Projects /\ Settled(t) /\ t \notin Projects
    BY <2>2, IdAssumption DEF LiveTasks, TypeOK, TaskRow, IdInv, Live, Fileables
  <2>4. Within(t, q)
    BY <2>2, <2>3 DEF Within
  <2>5. <<"guard", q>> \in Step
    BY <2>3, StepForms DEF Fileables
  <2>6. ASSUME NEW o, Asks(a[1], o) PROVE Asks(<<"guard", q>>, o)
    <3>1. o = t
      BY <2>1, <2>3, <2>6 DEF Asks
    <3> QED BY <2>3, <2>4, <3>1 DEF Asks
  <2>7. /\ \A o : a[1] # <<"dropProject", o>>
        /\ \A n : a[1] # <<"fileGuard", n>>
    BY <2>1
  <2> QED BY <1>4, <1>6, <2>5, <2>6, <2>7
<1>7. ASSUME NEW c \in Comments, Doing(r, <<"modify", c>>), Allowed(r), Then(r, <<>>)
      PROVE  ErasesInv'
  <2>1. a[1] = <<"modify", c>>
    BY <1>1, <1>7 DEF Doing
  <2>2. c \in LiveComments /\ (Role[u] = "ADMIN" \/ comment[c].by = u)
    BY <1>1, <1>7, <2>1, MayPass DEF Allowed
  <2>3. Settled(c)
    BY <2>2 DEF IdInv, Live, Fileables
  <2>4. ASSUME NEW o, Asks(a[1], o) PROVE MayTake(u, w, o)
    <3>1. o = c
      BY <2>1, <2>4 DEF Asks
    <3> QED BY <2>2, <2>3, <3>1 DEF MayTake
  <2>5. /\ \A o : a[1] # <<"dropProject", o>>
        /\ \A n : a[1] # <<"fileGuard", n>>
    BY <2>1
  <2> QED BY <1>3, <1>7, <2>4, <2>5
<1>8. ASSUME NEW n \in Names, Doing(r, <<"fileGuard", n>>), Allowed(r),
             Then(r, << <<"modify", file[n]>> >>)
      PROVE  ErasesInv'
  <2> PICK o : o = file[n]
    OBVIOUS
  <2>1. a[1] = <<"fileGuard", n>>
    BY <1>1, <1>8 DEF Doing
  <2>2. file[n] # NoOwner
    BY <1>1, <1>8, <2>1, MayFile DEF Allowed
  <2>3. o \in Fileables /\ Spent(n)
    BY <2>2 DEF NamesInv, FS!RowNames, FS!TypeOK
  <2>4. <<"modify", o>> \in Step
    BY <2>3, StepForms
  <2>5. \A x \in Names : a[1] = <<"fileGuard", x>> => x = n
    BY <2>1
  <2>6. Asks(<<"modify", o>>, o)
    BY DEF Asks
  <2>7. /\ \A x : a[1] # <<"dropProject", x>>
        /\ \A x : ~Asks(a[1], x)
    BY <2>1 DEF Asks
  <2> QED BY <1>4, <1>8, <2>3, <2>4, <2>5, <2>6, <2>7
<1> QED BY <1>5, <1>6, <1>7, <1>8 DEF Guard

\* What a query leads to deletes no files by itself.
LEMMA ReadCleans ==
  ASSUME TypeOK, NEW r \in Requests, Read(r)
  PROVE  /\ job[r].agenda # <<>>
         /\ Head(job[r].agenda)[1] \in {"assign", "reassign", "notify", "listTasks", "listComments"}
         /\ \E steps \in Seq(Step) : Then(r, steps) /\ Cleans(steps)'
<1> DEFINE Ok(steps) ==
      /\ steps \in Seq(Step)
      /\ \A j \in 1..Len(steps) : steps[j][1] \notin {"eraseFile", "dropFiles"}
<1>1. job[r].agenda # <<>>
  BY DEF Read, Doing
<1>2. Head(job[r].agenda)[1] \in {"assign", "reassign", "notify", "listTasks", "listComments"}
  <2>1. \E x, v : Head(job[r].agenda) \in {<<"assign", x, v>>, <<"reassign", x, v>>,
          <<"notify", x>>, <<"listTasks", x>>, <<"listComments", x>>}
    BY DEF Read, Doing
  <2> QED BY <2>1
<1>3. Ok(<<>>)
  OBVIOUS
<1>4. ASSUME NEW t \in Tasks, NEW v \in Users, Doing(r, <<"reassign", t, v>>), Allowed(r)
      PROVE  Ok(<< <<"assign", task[t].project, v>>, <<"update", t, v>> >>)
  <2>1. t \in LiveTasks
    BY <1>4, MayTask DEF Doing, Allowed
  <2>2. task[t].project \in Projects
    BY <2>1 DEF LiveTasks, TypeOK, TaskRow
  <2>3. << <<"assign", task[t].project, v>>, <<"update", t, v>> >> \in Seq(Step)
    BY <2>2, StepForms, Agendas
  <2> QED BY <2>3
<1>5. ASSUME NEW p PROVE Ok(DropTasks(TasksOf(p))) /\ Ok(DropComments(CommentsOn(p)))
  <2>1. TasksOf(p) \in SUBSET Tasks /\ CommentsOn(p) \in SUBSET Comments
    BY DEF TasksOf, LiveTasks, CommentsOn, LiveComments
  <2>2. DropTasks(TasksOf(p)) \in Seq(Step) /\ DropComments(CommentsOn(p)) \in Seq(Step)
    BY <2>1, DropSteps
  <2>3. /\ \A j \in 1..Len(DropTasks(TasksOf(p))) :
             DropTasks(TasksOf(p))[j][1] \notin {"eraseFile", "dropFiles"}
        /\ \A j \in 1..Len(DropComments(CommentsOn(p))) :
             DropComments(CommentsOn(p))[j][1] \notin {"eraseFile", "dropFiles"}
    BY DropHeads
  <2> QED BY <2>2, <2>3
<1> HIDE DEF Ok
<1>6. \E steps : Ok(steps) /\ Then(r, steps)
  BY <1>3, <1>4, <1>5 DEF Read
<1>7. \A steps : Ok(steps) => Cleans(steps)'
  BY DEF Ok, Cleans
<1> QED BY <1>1, <1>2, <1>6, <1>7 DEF Ok

\* A write that puts the deletion of files on an agenda deleted their owner, and
\* so did the one that lets a deletion on the agenda go ahead.
LEMMA WriteCleans ==
  ASSUME TypeOK, IdInv, Settles, NEW r \in Requests, NEW answered, Write(r, answered)
  PROVE  /\ job[r].agenda # <<>>
         /\ Head(job[r].agenda)[1] \notin {"fileGuard", "modify", "guard", "files"}
         /\ \A o \in Fileables : Head(job[r].agenda) = <<"dropProject", o>> => Gone(o)'
         /\ \E steps \in Seq(Step) : (Throw(r) \/ Then(r, steps)) /\ Cleans(steps)'
<1> DEFINE H == Head(job[r].agenda)
           Fine == /\ H[1] \notin {"fileGuard", "modify", "guard", "files"}
                   /\ \A o \in Fileables : H = <<"dropProject", o>> => Gone(o)'
                   /\ \E steps \in Seq(Step) : (Throw(r) \/ Then(r, steps)) /\ Cleans(steps)'
<1>1. job[r].agenda # <<>>
  BY WriteLive
<1> SUFFICES Fine
  BY <1>1
<1>2. ASSUME Wrote(r, answered, <<>>)
      PROVE  \E steps \in Seq(Step) : (Throw(r) \/ Then(r, steps)) /\ Cleans(steps)'
  <2>1. <<>> \in Seq(Step) /\ \A j \in 1..Len(<<>>) : FALSE
    OBVIOUS
  <2>2. Cleans(<<>>)'
    BY <2>1 DEF Cleans
  <2>3. Throw(r) \/ Then(r, <<>>)
    BY <1>2, WroteSteps
  <2> QED BY <2>1, <2>2, <2>3
<1>3. ASSUME H[1] \in {"insertProject", "edit", "join", "leave", "insertTask", "update", "insertComment"},
             Wrote(r, answered, <<>>)
      PROVE  Fine
  <2>1. \A o : H # <<"dropProject", o>>
    BY <1>3
  <2> QED BY <1>2, <1>3, <2>1
<1> HIDE DEF Fine
<1>4. CASE InsertProject(r, answered) \/ EditText(r, answered)
  <2>1. H[1] \in {"insertProject", "edit"}
    BY <1>4 DEF InsertProject, EditText, Doing
  <2> QED BY <1>3, <1>4, <2>1 DEF InsertProject, EditText
<1>5. CASE Join(r, answered) \/ Leave(r, answered)
  <2>1. H[1] \in {"join", "leave"}
    BY <1>5 DEF Join, Leave, Doing
  <2> QED BY <1>3, <1>5, <2>1 DEF Join, Leave
<1>6. CASE InsertTask(r, answered) \/ UpdateTask(r, answered)
  <2>1. H[1] \in {"insertTask", "update"}
    BY <1>6 DEF InsertTask, UpdateTask, Doing
  <2> QED BY <1>3, <1>6, <2>1 DEF InsertTask, UpdateTask
<1>7. CASE InsertComment(r, answered)
  <2>1. H[1] = "insertComment"
    BY <1>7 DEF InsertComment, Doing
  <2> QED BY <1>3, <1>7, <2>1 DEF InsertComment
<1>8. CASE DropProject(r, answered)
  <2> PICK p \in Projects :
        Doing(r, <<"dropProject", p>>) /\ Allowed(r) /\ project' = project \ {p}
    BY <1>8 DEF DropProject
  <2>1. May(job[r].user, <<"dropProject", p>>) /\ H = <<"dropProject", p>>
    BY DEF Doing, Allowed
  <2>2. p \in project
    BY <2>1 DEF May
  <2>3. Settled(p)'
    BY <2>2 DEF IdInv, Live, Fileables, Settles
  <2>4. (p \notin Live)'
    BY IdAssumption DEF Live, LiveTasks, LiveComments
  <2>5. Gone(p)'
    BY <2>3, <2>4 DEF Gone
  <2>6. \A o : H = <<"dropProject", o>> => o = p
    BY <2>1
  <2>7. \A o \in Fileables : H = <<"dropProject", o>> => Gone(o)'
    BY <2>5, <2>6
  <2>8. H[1] = "dropProject"
    BY <2>1
  <2>9. Wrote(r, answered, <<>>)
    BY <1>8 DEF DropProject
  <2> QED BY <1>2, <2>7, <2>8, <2>9 DEF Fine
<1>9. CASE DropTask(r, answered)
  <2>1. \E T \in SUBSET Tasks : \E t \in T \cap LiveTasks :
          /\ Doing(r, <<"dropTasks", T>>)
          /\ task' = [task EXCEPT ![t] = NoRow]
          /\ Wrote(r, answered, AfterTask(t, T \ {t}))
    BY <1>9 DEF DropTask, AfterTask
  <2> PICK T \in SUBSET Tasks, t \in Tasks : \E D \in SUBSET Tasks :
        /\ Doing(r, <<"dropTasks", T>>) /\ t \in LiveTasks
        /\ task' = [task EXCEPT ![t] = NoRow]
        /\ Wrote(r, answered, AfterTask(t, D))
    BY <2>1
  <2> PICK D \in SUBSET Tasks :
        /\ Doing(r, <<"dropTasks", T>>) /\ t \in LiveTasks
        /\ task' = [task EXCEPT ![t] = NoRow]
        /\ Wrote(r, answered, AfterTask(t, D))
    OBVIOUS
  <2> PICK s : s = AfterTask(t, D)
    OBVIOUS
  <2>2. /\ s \in Seq(Step) /\ s[1] = <<"dropFiles", t>> /\ s[2] = <<"listComments", t>>
        /\ \A j \in 1..Len(s) : j = 1 \/ j = 2 \/ s[j] = <<"dropTasks", D>>
    BY DropsFirst
  <2>3. Gone(t)'
    <3>1. Settled(t)'
      BY DEF IdInv, Live, Fileables, Settles
    <3>2. (t \notin Live)'
      <4>1. project' = project /\ project \subseteq Projects
        BY <1>9 DEF DropTask, TypeOK
      <4>2. task'[t] = NoRow
        BY DEF TypeOK
      <4> QED BY <4>1, <4>2, IdAssumption DEF Live, LiveTasks, LiveComments
    <3> QED BY <3>1, <3>2 DEF Gone
  <2>4. ASSUME NEW j \in 1..Len(s)
        PROVE  /\ s[j][1] # "eraseFile"
               /\ \A o \in Fileables : s[j] = <<"dropFiles", o>> => Gone(o)'
    <3>1. CASE s[j] = <<"dropFiles", t>>
      <4>1. \A o : s[j] = <<"dropFiles", o>> => o = t
        BY <3>1
      <4> QED BY <2>3, <3>1, <4>1
    <3>2. CASE s[j] # <<"dropFiles", t>>
      <4>1. s[j] \in {<<"listComments", t>>, <<"dropTasks", D>>}
        BY <2>2, <3>2
      <4> QED BY <4>1
    <3> QED BY <3>1, <3>2
  <2>5. Cleans(s)'
    BY <2>4 DEF Cleans
  <2>6. Throw(r) \/ Then(r, s)
    BY WroteSteps
  <2>7. H[1] = "dropTasks" /\ \A o : H # <<"dropProject", o>>
    BY DEF Doing
  <2> QED BY <2>2, <2>5, <2>6, <2>7 DEF Fine
<1>10. CASE DropComment(r, answered)
  <2>1. \E C \in SUBSET Comments : \E c \in C \cap LiveComments :
          /\ Doing(r, <<"dropComments", C>>)
          /\ comment' = [comment EXCEPT ![c] = NoRow]
          /\ Wrote(r, answered, AfterComment(c, C \ {c}))
    BY <1>10 DEF DropComment, AfterComment
  <2> PICK C \in SUBSET Comments, c \in Comments : \E D \in SUBSET Comments :
        /\ Doing(r, <<"dropComments", C>>) /\ c \in LiveComments
        /\ comment' = [comment EXCEPT ![c] = NoRow]
        /\ Wrote(r, answered, AfterComment(c, D))
    BY <2>1
  <2> PICK D \in SUBSET Comments :
        /\ Doing(r, <<"dropComments", C>>) /\ c \in LiveComments
        /\ comment' = [comment EXCEPT ![c] = NoRow]
        /\ Wrote(r, answered, AfterComment(c, D))
    OBVIOUS
  <2> PICK s : s = AfterComment(c, D)
    OBVIOUS
  <2>2. /\ s \in Seq(Step) /\ s[1] = <<"dropFiles", c>>
        /\ \A j \in 1..Len(s) : j = 1 \/ s[j] = <<"dropComments", D>>
    BY DropsFirst
  <2>3. Gone(c)'
    <3>1. Settled(c)'
      BY DEF IdInv, Live, Fileables, Settles
    <3>2. (c \notin Live)'
      <4>1. project' = project /\ project \subseteq Projects
        BY <1>10 DEF DropComment, TypeOK
      <4>2. comment'[c] = NoRow
        BY DEF TypeOK
      <4> QED BY <4>1, <4>2, IdAssumption DEF Live, LiveTasks, LiveComments
    <3> QED BY <3>1, <3>2 DEF Gone
  <2>4. ASSUME NEW j \in 1..Len(s)
        PROVE  /\ s[j][1] # "eraseFile"
               /\ \A o \in Fileables : s[j] = <<"dropFiles", o>> => Gone(o)'
    <3>1. CASE s[j] = <<"dropFiles", c>>
      <4>1. \A o : s[j] = <<"dropFiles", o>> => o = c
        BY <3>1
      <4> QED BY <2>3, <3>1, <4>1
    <3>2. CASE s[j] # <<"dropFiles", c>>
      <4>1. s[j] \in {<<"dropComments", D>>}
        BY <2>2, <3>2
      <4> QED BY <4>1
    <3> QED BY <3>1, <3>2
  <2>5. Cleans(s)'
    BY <2>4 DEF Cleans
  <2>6. Throw(r) \/ Then(r, s)
    BY WroteSteps
  <2>7. H[1] = "dropComments" /\ \A o : H # <<"dropProject", o>>
    BY DEF Doing
  <2> QED BY <2>2, <2>5, <2>6, <2>7 DEF Fine
<1> QED BY <1>4, <1>5, <1>6, <1>7, <1>8, <1>9, <1>10 DEF Write

\* Every step of the workspace keeps what the deletions of files rest on.
LEMMA ErasesNext ==
  TypeOK /\ FS!TypeOK /\ IdInv /\ NamesInv /\ ErasesInv /\ [Next]_vars => ErasesInv'
<1> SUFFICES ASSUME TypeOK, FS!TypeOK, IdInv, NamesInv, ErasesInv, [Next]_vars PROVE ErasesInv'
  OBVIOUS
<1>1. Keeps /\ Settles
  BY KeepsNext DEF Keeps
<1>2. ASSUME NEW r \in Requests, Start(r) PROVE ErasesInv'
  <2> PICK u \in Users : \E b \in Seq(Step) : b # <<>> /\ Go(r, u, b) /\ Opens(b) /\ Draws(b)
    BY <1>2, Started
  <2> PICK b \in Seq(Step) : b # <<>> /\ Go(r, u, b) /\ Opens(b) /\ Draws(b)
    OBVIOUS
  <2>1. /\ job'[r].agenda = b /\ \A q \in Requests \ {r} : job'[q] = job[q]
        /\ job'[r].user = u
    BY DEF Go, TypeOK
  <2>2. \A w : \A j \in 1..Len(b) : Erases(b, j, u, w)'
    BY ErasesOpens
  <2>3. ASSUME NEW q \in Requests
        PROVE  \E c, v, z : /\ c = job'[q].agenda /\ (c # <<>> => v = job'[q].user /\ z = job'[q].saw)
                            /\ \A j \in 1..Len(c) : Erases(c, j, v, z)'
    <3>1. CASE q = r
      BY <2>1, <2>2, <3>1
    <3>2. CASE q # r
      BY <1>1, <2>1, <3>2, ErasesSame
    <3> QED BY <3>1, <3>2
  <2> QED BY <2>3, ErasesEach
<1>3. ASSUME NEW r \in Requests, Guard(r) PROVE ErasesInv'
  BY <1>1, <1>3, ErasesGuard
<1>4. ASSUME NEW r \in Requests, Read(r) PROVE ErasesInv'
  <2> PICK steps \in Seq(Step) : Then(r, steps) /\ Cleans(steps)'
    BY <1>4, ReadCleans
  <2>1. /\ job[r].agenda # <<>>
        /\ Head(job[r].agenda)[1] \notin {"fileGuard", "modify", "guard"}
        /\ \A o : Head(job[r].agenda) # <<"dropProject", o>>
    BY <1>4, ReadCleans
  <2> QED BY <1>1, <2>1, ErasesPlain
<1>5. ASSUME NEW r \in Requests, Moves(r) PROVE ErasesInv'
  <2> DEFINE Plain(s) == s \in Seq(Step) /\ Cleans(s)'
  <2>1. Plain(<< <<"files">> >>)
    <3>1. << <<"files">> >> \in Seq(Step)
      BY StepForms, Agendas
    <3>2. \A j \in 1..Len(<< <<"files">> >>) : << <<"files">> >>[j] = <<"files">>
      OBVIOUS
    <3> QED BY <3>1, <3>2 DEF Cleans
  <2>2. Plain(<<>>)
    BY DEF Cleans
  <2> HIDE DEF Plain
  <2>3. Doing(r, <<"files">>) => Head(job[r].agenda)[1] = "files"
    BY DEF Doing
  <2>4. \E s : /\ Plain(s)
               /\ \/ Throw(r)
                  \/ /\ Then(r, s)
                     /\ Head(job[r].agenda)[1] \in {"files", "upload", "dropFiles", "eraseFile"}
    BY <1>5, <2>1, <2>2, <2>3 DEF Moves
  <2> PICK s : /\ Plain(s)
               /\ \/ Throw(r)
                  \/ /\ Then(r, s)
                     /\ Head(job[r].agenda)[1] \in {"files", "upload", "dropFiles", "eraseFile"}
    BY <2>4
  <2>5. job[r].agenda # <<>> /\ s \in Seq(Step) /\ Cleans(s)'
    BY <1>5 DEF Moves, Plain
  <2>6. Head(job[r].agenda)[1] \in {"files", "upload", "dropFiles", "eraseFile"} =>
          \A o : Head(job[r].agenda) # <<"dropProject", o>>
    OBVIOUS
  <2> QED BY <1>1, <2>5, <2>6, ErasesPlain
<1>6. ASSUME NEW r \in Requests, NEW answered \in BOOLEAN, Write(r, answered) PROVE ErasesInv'
  <2> PICK steps \in Seq(Step) : (Throw(r) \/ Then(r, steps)) /\ Cleans(steps)'
    BY <1>1, <1>6, WriteCleans
  <2>1. /\ job[r].agenda # <<>>
        /\ Head(job[r].agenda)[1] \notin {"fileGuard", "modify", "guard"}
        /\ \A o \in Fileables : Head(job[r].agenda) = <<"dropProject", o>> => Gone(o)'
    BY <1>1, <1>6, WriteCleans
  <2> QED BY <1>1, <2>1, ErasesPlain
<1>7. CASE Crash
  <2>1. \A q \in Requests : job'[q].agenda = <<>>
    BY <1>7 DEF Crash, IdleJob
  <2>2. Len(<<>>) = 0 /\ 1..0 = {}
    OBVIOUS
  <2> QED BY <2>1, <2>2 DEF ErasesInv
<1>8. CASE UNCHANGED <<db, job>>
  <2>1. \A q \in Requests : job'[q] = job[q]
    BY <1>8
  <2> QED BY <1>1, <2>1, ErasesSame, ErasesEach
<1> QED BY <1>2, <1>3, <1>4, <1>5, <1>6, <1>7, <1>8, NextSteps

-----------------------------------------------------------------------------
\* The steps that call, await or settle nothing leave the waiting requests alone.
Elsewhere(r) ==
  /\ UNCHANGED fs /\ ~Doing(r, <<"files">>)
  /\ \A q \in Requests \ {r} : job'[q] = job[q]

\* The steps of the workspace, as far as the calls of the file store go.
LEMMA CallSteps ==
  ASSUME TypeOK, FS!TypeOK, IdInv, [Next]_vars
  PROVE  \/ \E r \in Requests : Elsewhere(r)
         \/ \E r \in Requests : CallFiles(r) \/ SettleFiles(r)
         \/ \E r \in Requests : job' = job /\ (FS!Healthy(r) \/ FS!Fault(r))
         \/ Crash
         \/ UNCHANGED <<job, fs>>
<1>1. ASSUME NEW r \in Requests, NEW steps \in Seq(Step), job[r].agenda # <<>>,
             Then(r, steps) \/ Throw(r), UNCHANGED fs, ~Doing(r, <<"files">>)
      PROVE  Elsewhere(r)
  BY <1>1, TypeParts, Went, Thrown DEF Elsewhere
<1>2. ASSUME NEW r \in Requests, job[r].agenda # <<>>, Throw(r), UNCHANGED fs, ~Doing(r, <<"files">>)
      PROVE  Elsewhere(r)
  BY <1>1, <1>2, DropSteps
<1>3. ASSUME NEW r \in Requests, Start(r) PROVE Elsewhere(r)
  <2>1. \E u \in Users : \E b \in Seq(Step) : Go(r, u, b)
    BY <1>3, Started
  <2> QED BY <2>1 DEF Go, Elsewhere, Doing, TypeOK
<1>4. ASSUME NEW r \in Requests, Guard(r) \/ Read(r) PROVE Elsewhere(r)
  <2> PICK steps \in Seq(Step) : Then(r, steps)
    BY <1>4, ReadSteps
  <2>1. job[r].agenda # <<>> /\ UNCHANGED fs
    BY <1>4, ReadSteps
  <2>2. ~Doing(r, <<"files">>)
    <3>1. CASE Read(r)
      BY <3>1, ReadCleans DEF Doing
    <3>2. CASE Guard(r)
      <4>1. \E x : Head(job[r].agenda) \in {<<"guard", x>>, <<"modify", x>>, <<"fileGuard", x>>}
        BY <3>2 DEF Guard, Doing
      <4> QED BY <4>1 DEF Doing
    <3> QED BY <1>4, <3>1, <3>2
  <2> QED BY <1>1, <2>1, <2>2
<1>5. ASSUME NEW r \in Requests, NEW answered, Write(r, answered) PROVE Elsewhere(r)
  <2>1. Settles
    BY IdNext
  <2> PICK steps \in Seq(Step) : Throw(r) \/ Then(r, steps)
    BY <1>5, <2>1, WriteCleans
  <2>2. job[r].agenda # <<>> /\ ~Doing(r, <<"files">>)
    BY <1>5, <2>1, WriteCleans DEF Doing
  <2>3. UNCHANGED fs
    BY <1>5 DEF Write
  <2> QED BY <1>1, <2>2, <2>3
<1>6. ASSUME NEW r \in Requests, Refuse(r) \/ LostRace(r) PROVE Elsewhere(r)
  <2>1. job[r].agenda # <<>> /\ Throw(r) /\ UNCHANGED fs
    BY <1>6 DEF Refuse, LostRace, Doing
  <2>2. ~Doing(r, <<"files">>)
    BY <1>6 DEF Refuse, LostRace, Doing
  <2> QED BY <1>2, <2>1, <2>2
<1>7. ASSUME NEW r \in Requests, AwaitFiles(r) PROVE job' = job /\ FS!Healthy(r)
  BY <1>7 DEF AwaitFiles
<1>8. ASSUME NEW r \in Requests, Fault(r)
      PROVE  Elsewhere(r) \/ (job' = job /\ FS!Fault(r))
  BY <1>2, <1>5, <1>8 DEF Fault
<1>9. UNCHANGED vars => UNCHANGED <<job, fs>>
  BY DEF vars
<1> QED BY <1>3, <1>4, <1>5, <1>6, <1>7, <1>8, <1>9 DEF Next, HealthyNext, Serve

\* A call in flight only gets shorter.
LEMMA CallsShrink ==
  ASSUME FS!TypeOK, NEW r \in Requests, FS!Healthy(r) \/ FS!Fault(r) \/ FS!Return(r)
  PROVE  \A q \in Requests : /\ call'[q].todo \subseteq call[q].todo
                             /\ call'[q].pc # "idle" => call[q].pc # "idle"
<1> DEFINE Goal == \A q \in Requests : /\ call'[q].todo \subseteq call[q].todo
                                       /\ call'[q].pc # "idle" => call[q].pc # "idle"
<1> SUFFICES Goal
  OBVIOUS
<1> USE DEF FS!TypeOK, FS!Call, FS!IdleCall, FS!At, FS!Throw
<1>1. CASE FS!Upload(r)
  BY <1>1 DEF FS!Upload
<1>2. CASE FS!Record(r)
  BY <1>2 DEF FS!Record
<1>3. CASE FS!Remove(r) \/ FS!RemoveMissing(r)
  <2>1. CASE FS!Remove(r)
    <3> PICK n \in call[r].todo :
          call' = [call EXCEPT ![r].pc = "erase", ![r].name = n,
                               ![r].todo = call[r].todo \ {n}]
      BY <2>1 DEF FS!Remove
    <3>1. call[r].pc = "remove"
      BY <2>1 DEF FS!Remove
    <3>2. call'[r] = [call[r] EXCEPT !.pc = "erase", !.name = n, !.todo = call[r].todo \ {n}]
      OBVIOUS
    <3>3. call'[r].todo = call[r].todo \ {n}
      BY <3>2
    <3>4. \A q \in Requests \ {r} : call'[q] = call[q]
      OBVIOUS
    <3> QED BY <3>1, <3>3, <3>4
  <2>2. CASE FS!RemoveMissing(r)
    BY <2>2 DEF FS!RemoveMissing
  <2> QED BY <1>3, <2>1, <2>2
<1>4. CASE FS!Erase(r) \/ FS!Return(r)
  BY <1>4 DEF FS!Erase, FS!Return
<1>5. CASE FS!Fault(r)
  BY <1>5 DEF FS!Fault, FS!UploadFails, FS!RecordFails, FS!RemoveFails, FS!EraseFails
<1> HIDE DEF Goal, FS!TypeOK, FS!Call, FS!IdleCall, FS!At, FS!Throw
<1> QED BY <1>1, <1>2, <1>3, <1>4, <1>5 DEF FS!Healthy

\* What a call is going to delete its request may delete, when it starts and as
\* long as it runs.
LEMMA TakesNext ==
  TypeOK /\ FS!TypeOK /\ IdInv /\ NamesInv /\ ErasesInv /\ TakesInv /\ [Next]_vars => TakesInv'
<1> SUFFICES ASSUME TypeOK, FS!TypeOK, IdInv, NamesInv, ErasesInv, TakesInv, [Next]_vars
             PROVE  TakesInv'
  OBVIOUS
<1>1. Keeps
  BY KeepsNext
<1> DEFINE Held(q) == /\ call'[q].pc # "idle" => Doing(q, <<"files">>)'
                      /\ \A n \in call'[q].todo : MayErase(job[q].user, job[q].saw, n)'
<1>2. ASSUME NEW q \in Requests, job'[q] = job[q], call'[q].todo \subseteq call[q].todo,
             call'[q].pc # "idle" => call[q].pc # "idle"
      PROVE  Held(q)
  <2> PICK u, s : u = job[q].user /\ s = job[q].saw
    OBVIOUS
  <2>1. ASSUME NEW n \in call'[q].todo PROVE MayErase(job[q].user, job[q].saw, n)'
    <3>1. MayErase(u, s, n) /\ n \in Names
      BY <1>2 DEF TakesInv, FS!TypeOK, FS!Call
    <3>2. MayErase(u, s, n)'
      BY <1>1, <3>1, MayEraseKept
    <3> QED BY <1>2, <3>2
  <2>2. call'[q].pc # "idle" => Doing(q, <<"files">>)'
    BY <1>2 DEF TakesInv, Doing
  <2> QED BY <2>1, <2>2
<1>3. ASSUME NEW q \in Requests, call'[q].pc = "idle", call'[q].todo = {} PROVE Held(q)
  BY <1>3
<1>4. ASSUME NEW r \in Requests, Elsewhere(r) PROVE \A q \in Requests : Held(q)
  <2>1. call' = call
    BY <1>4 DEF Elsewhere, fs
  <2>2. call[r].pc = "idle" /\ call[r].todo = {}
    BY <1>4 DEF Elsewhere, TakesInv, NamesInv, CallsInv
  <2>3. Held(r)
    BY <1>3, <2>1, <2>2
  <2>4. ASSUME NEW q \in Requests \ {r} PROVE Held(q)
    BY <1>2, <1>4, <2>1 DEF Elsewhere
  <2> HIDE DEF Held
  <2> QED BY <2>3, <2>4
<1>5. ASSUME NEW r \in Requests, CallFiles(r) PROVE \A q \in Requests : Held(q)
  <2> PICK a, u, s, w : /\ a = job[r].agenda /\ u = job[r].user /\ s = job[r].saw
                        /\ w = job[r].saw \cup member
    OBVIOUS
  <2>1. << <<"files">> >> \in Seq(Step) /\ Then(r, << <<"files">> >>) /\ a # <<>>
    BY <1>5, StepForms, Agendas DEF CallFiles, Doing
  <2>2. /\ job'[r].agenda # <<>> /\ Head(job'[r].agenda) = <<"files">>
        /\ job'[r].user = u /\ job'[r].saw = w
        /\ \A q \in Requests \ {r} : job'[q] = job[q]
    <3>1. a \in Seq(Step)
      BY DEF TypeOK, Job
    <3> PICK b : b = << <<"files">> >> \o Tail(a)
      OBVIOUS
    <3>2. b # <<>> /\ Head(b) = <<"files">>
      BY <2>1, <3>1
    <3>3. job' = [job EXCEPT ![r] = [user |-> u, agenda |-> b, saw |-> w]]
      BY <2>1, <3>2 DEF Then, Continue
    <3> QED BY <3>2, <3>3 DEF TypeOK
  <2>3. /\ \A q \in Requests \ {r} : call'[q] = call[q]
        /\ call'[r].todo # {} =>
             \/ \E o \in Fileables : a[1] = <<"dropFiles", o>> /\ call'[r].todo = FS!FilesOf(o)
             \/ \E n \in Names : a[1] = <<"eraseFile", n>> /\ call'[r].todo = {n}
    <3>1. Head(a) = a[1]
      BY <2>1 DEF TypeOK, Job
    <3>2. \/ \E o \in Fileables : \E k : FS!CreateFiles(r, o, k)
          \/ \E o \in Fileables : a[1] = <<"dropFiles", o>> /\ FS!DeleteFiles(r, o)
          \/ \E n \in Names : a[1] = <<"eraseFile", n>> /\ FS!DeleteFile(r, n)
      BY <1>5, <3>1 DEF CallFiles, Doing
    <3> USE DEF FS!TypeOK, FS!IdleCall, FS!Throw
    <3>3. CASE \E o \in Fileables : \E k : FS!CreateFiles(r, o, k)
      BY <3>3 DEF FS!CreateFiles
    <3>4. CASE \E o \in Fileables : a[1] = <<"dropFiles", o>> /\ FS!DeleteFiles(r, o)
      BY <3>4 DEF FS!DeleteFiles, FS!StartRemoving
    <3>5. CASE \E n \in Names : a[1] = <<"eraseFile", n>> /\ FS!DeleteFile(r, n)
      BY <3>5 DEF FS!DeleteFile, FS!StartRemoving
    <3> QED BY <3>2, <3>3, <3>4, <3>5
  <2>4. Erases(a, 1, u, s)
    <3>1. 1 \in 1..Len(job[r].agenda)
      BY <2>1 DEF TypeOK, Job
    <3> QED BY <3>1 DEF ErasesInv
  <2>5. ASSUME NEW n \in call'[r].todo PROVE n \in Names /\ MayErase(u, s, n)
    <3>1. CASE \E m \in Names : a[1] = <<"eraseFile", m>> /\ call'[r].todo = {m}
      BY <2>4, <3>1 DEF Erases
    <3>2. CASE \E o \in Fileables : a[1] = <<"dropFiles", o>> /\ call'[r].todo = FS!FilesOf(o)
      <4> PICK o \in Fileables : a[1] = <<"dropFiles", o>> /\ call'[r].todo = FS!FilesOf(o)
        BY <3>2
      <4>1. Gone(o)
        BY <2>4 DEF Erases
      <4>2. n \in FS!RowNames /\ file[n] = o
        BY FilesAssumption DEF FS!FilesOf, FS!RowNames
      <4> QED BY <4>1, <4>2 DEF NamesInv, MayErase, MayTake, Gone, FS!RowNames
    <3> QED BY <2>3, <2>5, <3>1, <3>2
  <2>6. ASSUME NEW n \in call'[r].todo PROVE MayErase(u, w, n)'
    BY <1>1, <2>5, MayEraseKept
  <2>7. Held(r)
    BY <2>2, <2>6 DEF Doing
  <2>8. ASSUME NEW q \in Requests \ {r} PROVE Held(q)
    BY <1>2, <2>2, <2>3
  <2> HIDE DEF Held
  <2> QED BY <2>7, <2>8
<1>6. ASSUME NEW r \in Requests, SettleFiles(r) PROVE \A q \in Requests : Held(q)
  <2>1. FS!Return(r)
    BY <1>6 DEF SettleFiles
  <2>2. call'[r].pc = "idle" /\ call'[r].todo = {}
    BY <2>1 DEF FS!Return, FS!TypeOK, FS!IdleCall
  <2>3. \A q \in Requests \ {r} : job'[q] = job[q]
    <3>1. (Then(r, <<>>) \/ Throw(r)) /\ job[r].agenda # <<>>
      BY <1>6 DEF SettleFiles, Doing
    <3> QED BY <3>1, TypeParts, Went, Thrown, DropSteps
  <2>4. ASSUME NEW q \in Requests \ {r} PROVE Held(q)
    BY <1>2, <2>1, <2>3, CallsShrink
  <2>5. Held(r)
    BY <1>3, <2>2
  <2> HIDE DEF Held
  <2> QED BY <2>4, <2>5
<1>7. ASSUME NEW r \in Requests, job' = job, FS!Healthy(r) \/ FS!Fault(r)
      PROVE  \A q \in Requests : Held(q)
  BY <1>2, <1>7, CallsShrink
<1>8. CASE Crash
  <2>1. \A q \in Requests : call'[q].pc = "idle" /\ call'[q].todo = {}
    BY <1>8 DEF Crash, FS!Crash, FS!IdleCall
  <2> QED BY <1>3, <2>1 DEF TakesInv
<1>9. CASE UNCHANGED <<job, fs>>
  <2>1. \A q \in Requests : Held(q)
    BY <1>2, <1>9 DEF fs
  <2> QED BY <2>1 DEF TakesInv
<1>10. (\A q \in Requests : Held(q)) => TakesInv'
  BY DEF TakesInv
<1> HIDE DEF Held
<1> QED BY <1>4, <1>5, <1>6, <1>7, <1>8, <1>9, <1>10, CallSteps

\* FilesAreTheirOwners, of one step: who has a file deleted.
ErasesOwnFiles ==
  \A n \in FS!RowNames : file'[n] = NoOwner =>
    \E r \in Requests : n \in call[r].todo \ call'[r].todo /\ MayDeleteFilesOf(r, file[n])

\* A row goes from the list of a call whose request may take it.
LEMMA ErasesOwn ==
  TypeOK /\ FS!TypeOK /\ NamesInv /\ TakesInv /\ [Next]_vars => ErasesOwnFiles
<1> SUFFICES ASSUME TypeOK, FS!TypeOK, NamesInv, TakesInv, [Next]_vars,
                    NEW n \in FS!RowNames, file'[n] = NoOwner
             PROVE  \E r \in Requests :
                      n \in call[r].todo \ call'[r].todo /\ MayDeleteFilesOf(r, file[n])
  BY DEF ErasesOwnFiles
<1>1. [FS!Next]_(FS!vars) /\ n \in Names /\ file[n] # NoOwner
  BY StepRefines DEF FS!RowNames
<1>2. \A r \in Requests : ~(call[r].pc = "record" /\ call[r].name = n)
  BY DEF NamesInv, Spent
<1> PICK r \in Requests : n \in call[r].todo \ call'[r].todo
  BY <1>1, <1>2, FileSteps
<1>3. MayTake(job[r].user, job[r].saw, file[n])
  BY DEF TakesInv, MayErase
<1>4. MayDeleteFilesOf(r, file[n])
  BY <1>3 DEF MayTake, MayDeleteFilesOf, SeenInside
<1> QED BY <1>4

\* No file of something that lives is deleted but at the request of somebody who
\* may change what it belongs to, however many requests read, revoke and delete.
THEOREM FilesAreTheirOwnersHolds == Spec => FilesAreTheirOwners
<1>1. Init => ErasesInv /\ TakesInv
  BY DEF Init, IdleJob, ErasesInv, TakesInv, FS!Init, FS!IdleCall
<1>2. TypeOK /\ FS!TypeOK /\ IdInv /\ NamesInv /\ ErasesInv /\ TakesInv /\ [Next]_vars =>
        ErasesInv' /\ TakesInv'
  BY ErasesNext, TakesNext
<1>3. Spec => [](ErasesInv /\ TakesInv)
  BY <1>1, <1>2, WorkspaceTypeCorrect, WorkspaceFileTypes, InsertedOnce, NamesThroughout, PTL
  DEF Spec
<1>4. TypeOK /\ FS!TypeOK /\ NamesInv /\ TakesInv /\ [Next]_vars => [ErasesOwnFiles]_vars
  BY ErasesOwn
<1> QED BY <1>3, <1>4, WorkspaceTypeCorrect, WorkspaceFileTypes, NamesThroughout, PTL
        DEF Spec, FilesAreTheirOwners, ErasesOwnFiles
=============================================================================

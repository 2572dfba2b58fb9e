--------------------------- MODULE FileStoreProofs ---------------------------
(***************************************************************************)
(* Proofs, for any number of requests, owners and names, of the safety     *)
(* properties of FileStore.  The argument: a name is held by at most one   *)
(* call, a name about to be recorded has an object and no row, and a name  *)
(* that a deletion is done with was minted, so it can never come back.     *)
(***************************************************************************)
EXTENDS FileStore, FiniteSetTheorems, TLAPS

\* What pc says about the rest of a call.
CallShape ==
  \A r \in Requests :
    /\ call[r].name # NoName <=> call[r].pc \in {"record", "erase"}
    /\ call[r].pc \in {"upload", "record"} =>
         call[r].left > 0 /\ call[r].batch = {} /\ call[r].todo = {}
    /\ call[r].pc \in {"idle", "done", "failed"} => call[r].todo = {}

\* The name in hand has been minted, has no row, and has an object if it is
\* about to be recorded.
HeldNames ==
  \A r \in Requests :
    call[r].name # NoName =>
      /\ call[r].name \in minted \ RowNames
      /\ At(r, "record") => call[r].name \in bucket

\* Two calls never hold the same name.
HeldOnce ==
  \A r, s \in Requests :
    call[r].name = call[s].name /\ call[r].name # NoName => r = s

\* What a deletion is done with.
Finished(r) == call[r].batch \ (call[r].todo \cup {call[r].name})

FinishedGone ==
  \A r \in Requests :
    /\ Finished(r) \subseteq minted
    /\ Finished(r) \cap (RowNames \cup bucket) = {}

IInv ==
  /\ TypeOK
  /\ RowHasObject
  /\ bucket \subseteq minted
  /\ CallShape
  /\ HeldNames
  /\ HeldOnce
  /\ FinishedGone

-----------------------------------------------------------------------------
\* Deletions read names that exist as keys.
LEMMA FilesOfNames == \A o : FilesOf(o) \subseteq Names
BY DEF FilesOf

\* The strengthened invariant holds in the empty store.
LEMMA InitIInv == Init => IInv
<1> SUFFICES ASSUME Init PROVE IInv
  OBVIOUS
<1>1. TypeOK
  BY NullAssumption DEF Init, TypeOK, IdleCall, Call
<1>2. RowHasObject /\ bucket \subseteq minted
  BY DEF Init, RowHasObject, RowNames
<1>3. CallShape /\ HeldNames /\ HeldOnce /\ FinishedGone
  BY DEF Init, IdleCall, CallShape, HeldNames, HeldOnce, FinishedGone,
         Finished, At
<1> QED BY <1>1, <1>2, <1>3 DEF IInv

USE DEF At

\* createFiles counts the table's rows as its own, so with the calls in flight
\* the overshoot stays bounded; nothing else is touched.
LEMMA CreateFilesIInv ==
  \A r \in Requests, o \in Fileables, n \in Nat \ {0} :
    IInv /\ CreateFiles(r, o, n) => IInv'
<1> SUFFICES ASSUME NEW r \in Requests, NEW o \in Fileables, NEW n \in Nat \ {0},
                    IInv, CreateFiles(r, o, n)
             PROVE  IInv'
  OBVIOUS
<1> DEFINE Failed   == [IdleCall EXCEPT !.pc = "failed"]
           Admitted == [IdleCall EXCEPT !.pc = "upload", !.owner = o, !.left = n]
<1> USE NullAssumption DEF IInv
<1>1. UNCHANGED <<file, bucket, minted>>
  BY DEF CreateFiles
<1>2. PICK c \in {Failed, Admitted} : call' = [call EXCEPT ![r] = c]
  BY DEF CreateFiles, Throw
<1>3. /\ c \in Call
      /\ c.name = NoName /\ c.batch = {} /\ c.todo = {}
      /\ c.pc \in {"failed", "upload"} /\ (c.pc = "upload" => c.left > 0)
  <2>1. CASE c = Failed
    BY <2>1 DEF IdleCall, Call
  <2>2. CASE c = Admitted
    <3>1. c = [pc |-> "upload", owner |-> o, left |-> n,
               batch |-> {}, todo |-> {}, name |-> NoName]
      BY <2>2 DEF IdleCall
    <3>2. n \in Nat /\ n > 0
      OBVIOUS
    <3> QED BY <3>1, <3>2 DEF Call
  <2> QED BY <1>2, <2>1, <2>2
<1> HIDE DEF Failed, Admitted
<1>4. TypeOK' /\ RowHasObject' /\ (bucket \subseteq minted)'
  BY <1>1, <1>2, <1>3 DEF TypeOK, RowHasObject, RowNames
<1>5. CallShape'
  BY <1>1, <1>2, <1>3 DEF CallShape, TypeOK
<1>6. HeldNames' /\ HeldOnce'
  BY <1>1, <1>2, <1>3 DEF HeldNames, HeldOnce, TypeOK, RowNames
<1>7. FinishedGone'
  BY <1>1, <1>2, <1>3 DEF FinishedGone, Finished, TypeOK, RowNames
<1> QED BY <1>4, <1>5, <1>6, <1>7

\* A deletion starts with names that exist and has finished none.
LEMMA StartRemovingIInv ==
  \A r \in Requests, names \in SUBSET Names : IInv /\ StartRemoving(r, names) => IInv'
<1> SUFFICES ASSUME NEW r \in Requests, NEW names \in SUBSET Names, IInv, StartRemoving(r, names) PROVE IInv'
  OBVIOUS
<1> USE NullAssumption DEF StartRemoving, IInv, IdleCall
<1>1. TypeOK'
  <2>1. [IdleCall EXCEPT !.pc = IF names = {} THEN "done" ELSE "remove",
                         !.batch = names, !.todo = names] \in Call
    BY DEF IdleCall, Call
  <2> QED BY <2>1 DEF TypeOK
<1>2. RowHasObject' /\ (bucket \subseteq minted)'
  BY DEF RowHasObject, RowNames, HeldNames, HeldOnce, TypeOK, Call
<1>3. CallShape'
  BY DEF CallShape, TypeOK, Call
<1>4. HeldNames'
  BY DEF HeldNames, HeldOnce, TypeOK, Call, CallShape, RowHasObject, RowNames
<1>5. HeldOnce'
  BY DEF HeldNames, HeldOnce, TypeOK, Call, CallShape, RowNames
<1>6. FinishedGone'
  BY DEF FinishedGone, Finished, HeldNames, HeldOnce, TypeOK, Call, CallShape,
         RowHasObject, RowNames
<1> QED BY <1>1, <1>2, <1>3, <1>4, <1>5, <1>6

\* An uploaded object is known to the call that is about to record it.
LEMMA UploadIInv ==
  \A r \in Requests : IInv /\ Upload(r) => IInv'
<1> SUFFICES ASSUME NEW r \in Requests, IInv, Upload(r) PROVE IInv'
  OBVIOUS
<1> USE NullAssumption DEF Upload, IInv
<1>1. TypeOK'
  <2> PICK n \in Names \ minted :
        /\ bucket' = bucket \cup {n}
        /\ minted' = minted \cup {n}
        /\ call' = [call EXCEPT ![r].pc = "record", ![r].name = n]
    OBVIOUS
  <2>1. call[r] \in Call
    BY DEF TypeOK
  <2>2. [call[r] EXCEPT !.pc = "record", !.name = n] \in Call
    BY <2>1 DEF Call
  <2> QED BY <2>2 DEF TypeOK
<1>2. RowHasObject' /\ (bucket \subseteq minted)'
  BY DEF RowHasObject, RowNames, HeldNames, HeldOnce, TypeOK, Call
<1>3. CallShape'
  BY DEF CallShape, TypeOK, Call
<1>4. HeldNames'
  BY DEF HeldNames, HeldOnce, TypeOK, Call, CallShape, RowHasObject, RowNames
<1>5. HeldOnce'
  BY DEF HeldNames, HeldOnce, TypeOK, Call, CallShape, RowNames
<1>6. FinishedGone'
  BY DEF FinishedGone, Finished, HeldNames, HeldOnce, TypeOK, Call, CallShape,
         RowHasObject, RowNames
<1> QED BY <1>1, <1>2, <1>3, <1>4, <1>5, <1>6

\* A failed upload may leave an object behind, never a row.
LEMMA UploadFailsIInv ==
  \A r \in Requests : IInv /\ UploadFails(r) => IInv'
<1> SUFFICES ASSUME NEW r \in Requests, IInv, UploadFails(r) PROVE IInv'
  OBVIOUS
<1> USE NullAssumption DEF UploadFails, Throw, IInv, IdleCall
<1>1. TypeOK'
  <2>1. [IdleCall EXCEPT !.pc = "failed"] \in Call
    BY DEF IdleCall, Call
  <2> QED BY <2>1 DEF TypeOK
<1>2. RowHasObject' /\ (bucket \subseteq minted)'
  BY DEF RowHasObject, RowNames, HeldNames, HeldOnce, TypeOK, Call
<1>3. CallShape'
  BY DEF CallShape, TypeOK, Call
<1>4. HeldNames'
  BY DEF HeldNames, HeldOnce, TypeOK, Call, CallShape, RowHasObject, RowNames
<1>5. HeldOnce'
  BY DEF HeldNames, HeldOnce, TypeOK, Call, CallShape, RowNames
<1>6. FinishedGone'
  BY DEF FinishedGone, Finished, HeldNames, HeldOnce, TypeOK, Call, CallShape,
         RowHasObject, RowNames
<1> QED BY <1>1, <1>2, <1>3, <1>4, <1>5, <1>6

\* A row is inserted after its object, by a call that counted it.
LEMMA RecordIInv ==
  \A r \in Requests : IInv /\ Record(r) => IInv'
<1> SUFFICES ASSUME NEW r \in Requests, IInv, Record(r) PROVE IInv'
  OBVIOUS
<1> USE NullAssumption DEF Record, IInv
<1>1. TypeOK'
  <2>1. call[r] \in Call /\ call[r].left > 0
    BY DEF TypeOK, CallShape
  <2>2. [call[r] EXCEPT !.pc = IF call[r].left = 1 THEN "done" ELSE "upload",
                        !.left = call[r].left - 1, !.name = NoName] \in Call
    <3>1. call[r].left - 1 \in Nat
      BY <2>1 DEF Call
    <3>2. \A p \in {"done", "upload"}, l \in Nat :
            [call[r] EXCEPT !.pc = p, !.left = l, !.name = NoName] \in Call
      BY <2>1 DEF Call
    <3> QED BY <3>1, <3>2
  <2>3. call[r].owner \in Fileables \cup {NoOwner}
    BY <2>1 DEF Call
  <2> QED BY <2>2, <2>3 DEF TypeOK
<1>2. RowHasObject' /\ (bucket \subseteq minted)'
  BY DEF RowHasObject, RowNames, HeldNames, HeldOnce, TypeOK, Call
<1>3. CallShape'
  BY DEF CallShape, TypeOK, Call
<1>4. HeldNames'
  BY DEF HeldNames, HeldOnce, TypeOK, Call, CallShape, RowHasObject, RowNames
<1>5. HeldOnce'
  BY DEF HeldNames, HeldOnce, TypeOK, Call, CallShape, RowNames
<1>6. FinishedGone'
  BY DEF FinishedGone, Finished, HeldNames, HeldOnce, TypeOK, Call, CallShape,
         RowHasObject, RowNames
<1> QED BY <1>1, <1>2, <1>3, <1>4, <1>5, <1>6

\* A failed insert may leave an object without a row, or a full row.
LEMMA RecordFailsIInv ==
  \A r \in Requests : IInv /\ RecordFails(r) => IInv'
<1> SUFFICES ASSUME NEW r \in Requests, IInv, RecordFails(r) PROVE IInv'
  OBVIOUS
<1> USE NullAssumption DEF RecordFails, Throw, IInv, IdleCall
<1>1. TypeOK'
  <2>1. [IdleCall EXCEPT !.pc = "failed"] \in Call
    BY DEF IdleCall, Call
  <2>2. call[r].owner \in Fileables \cup {NoOwner}
    BY DEF TypeOK, Call
  <2> QED BY <2>1, <2>2 DEF TypeOK
<1>2. RowHasObject' /\ (bucket \subseteq minted)'
  BY DEF RowHasObject, RowNames, HeldNames, HeldOnce, TypeOK, Call
<1>3. CallShape'
  BY DEF CallShape, TypeOK, Call
<1>4. HeldNames'
  BY DEF HeldNames, HeldOnce, TypeOK, Call, CallShape, RowHasObject, RowNames
<1>5. HeldOnce'
  BY DEF HeldNames, HeldOnce, TypeOK, Call, CallShape, RowNames
<1>6. FinishedGone'
  BY DEF FinishedGone, Finished, HeldNames, HeldOnce, TypeOK, Call, CallShape,
         RowHasObject, RowNames
<1> QED BY <1>1, <1>2, <1>3, <1>4, <1>5, <1>6

\* A row goes before its object, which the call then still knows of.
LEMMA RemoveIInv ==
  \A r \in Requests : IInv /\ Remove(r) => IInv'
<1> SUFFICES ASSUME NEW r \in Requests, IInv, Remove(r) PROVE IInv'
  OBVIOUS
<1> USE NullAssumption DEF Remove, IInv
<1>1. TypeOK'
  <2> PICK n \in call[r].todo :
        /\ file[n] # NoOwner
        /\ file' = [file EXCEPT ![n] = NoOwner]
        /\ call' = [call EXCEPT ![r].pc = "erase", ![r].name = n,
                                ![r].todo = call[r].todo \ {n}]
    OBVIOUS
  <2>1. call[r] \in Call /\ n \in Names
    BY DEF TypeOK, Call
  <2>2. [call[r] EXCEPT !.pc = "erase", !.name = n,
                        !.todo = call[r].todo \ {n}] \in Call
    BY <2>1 DEF Call
  <2> QED BY <2>2 DEF TypeOK
<1>2. RowHasObject' /\ (bucket \subseteq minted)'
  BY DEF RowHasObject, RowNames, HeldNames, HeldOnce, TypeOK, Call
<1>3. CallShape'
  BY DEF CallShape, TypeOK, Call
<1>4. HeldNames'
  BY DEF HeldNames, HeldOnce, TypeOK, Call, CallShape, RowHasObject, RowNames
<1>5. HeldOnce'
  BY DEF HeldNames, HeldOnce, TypeOK, Call, CallShape, RowNames
<1>6. FinishedGone'
  BY DEF FinishedGone, Finished, HeldNames, HeldOnce, TypeOK, Call, CallShape,
         RowHasObject, RowNames
<1> QED BY <1>1, <1>2, <1>3, <1>4, <1>5, <1>6

\* A row that another call has deleted ends this one with an exception.
LEMMA RemoveMissingIInv ==
  \A r \in Requests : IInv /\ RemoveMissing(r) => IInv'
<1> SUFFICES ASSUME NEW r \in Requests, IInv, RemoveMissing(r) PROVE IInv'
  OBVIOUS
<1> USE NullAssumption DEF RemoveMissing, Throw, IInv, IdleCall
<1>1. TypeOK'
  <2>1. [IdleCall EXCEPT !.pc = "failed"] \in Call
    BY DEF IdleCall, Call
  <2> QED BY <2>1 DEF TypeOK
<1>2. RowHasObject' /\ (bucket \subseteq minted)'
  BY DEF RowHasObject, RowNames, HeldNames, HeldOnce, TypeOK, Call
<1>3. CallShape'
  BY DEF CallShape, TypeOK, Call
<1>4. HeldNames'
  BY DEF HeldNames, HeldOnce, TypeOK, Call, CallShape, RowHasObject, RowNames
<1>5. HeldOnce'
  BY DEF HeldNames, HeldOnce, TypeOK, Call, CallShape, RowNames
<1>6. FinishedGone'
  BY DEF FinishedGone, Finished, HeldNames, HeldOnce, TypeOK, Call, CallShape,
         RowHasObject, RowNames
<1> QED BY <1>1, <1>2, <1>3, <1>4, <1>5, <1>6

\* A failed deletion keeps the row with its object, or loses the row only.
LEMMA RemoveFailsIInv ==
  \A r \in Requests : IInv /\ RemoveFails(r) => IInv'
<1> SUFFICES ASSUME NEW r \in Requests, IInv, RemoveFails(r) PROVE IInv'
  OBVIOUS
<1> USE NullAssumption DEF RemoveFails, Throw, IInv, IdleCall
<1>1. TypeOK'
  <2>1. [IdleCall EXCEPT !.pc = "failed"] \in Call
    BY DEF IdleCall, Call
  <2> QED BY <2>1 DEF TypeOK
<1>2. RowHasObject' /\ (bucket \subseteq minted)'
  BY DEF RowHasObject, RowNames, HeldNames, HeldOnce, TypeOK, Call
<1>3. CallShape'
  BY DEF CallShape, TypeOK, Call
<1>4. HeldNames'
  BY DEF HeldNames, HeldOnce, TypeOK, Call, CallShape, RowHasObject, RowNames
<1>5. HeldOnce'
  BY DEF HeldNames, HeldOnce, TypeOK, Call, CallShape, RowNames
<1>6. FinishedGone'
  BY DEF FinishedGone, Finished, HeldNames, HeldOnce, TypeOK, Call, CallShape,
         RowHasObject, RowNames
<1> QED BY <1>1, <1>2, <1>3, <1>4, <1>5, <1>6

\* An object is erased once its row is gone, and its name never comes back.
LEMMA EraseIInv ==
  \A r \in Requests : IInv /\ Erase(r) => IInv'
<1> SUFFICES ASSUME NEW r \in Requests, IInv, Erase(r) PROVE IInv'
  OBVIOUS
<1> USE NullAssumption DEF Erase, IInv
<1>1. TypeOK'
  <2>1. call[r] \in Call
    BY DEF TypeOK
  <2>2. [call[r] EXCEPT !.pc = IF call[r].todo = {} THEN "done" ELSE "remove",
                        !.name = NoName] \in Call
    BY <2>1 DEF Call
  <2> QED BY <2>2 DEF TypeOK
<1>2. RowHasObject' /\ (bucket \subseteq minted)'
  BY DEF RowHasObject, RowNames, HeldNames, HeldOnce, TypeOK, Call
<1>3. CallShape'
  BY DEF CallShape, TypeOK, Call
<1>4. HeldNames'
  BY DEF HeldNames, HeldOnce, TypeOK, Call, CallShape, RowHasObject, RowNames
<1>5. HeldOnce'
  BY DEF HeldNames, HeldOnce, TypeOK, Call, CallShape, RowNames
<1>6. FinishedGone'
  BY DEF FinishedGone, Finished, HeldNames, HeldOnce, TypeOK, Call, CallShape,
         RowHasObject, RowNames
<1> QED BY <1>1, <1>2, <1>3, <1>4, <1>5, <1>6

\* A failed erasure ends the call: the names it read do not count as deleted.
LEMMA EraseFailsIInv ==
  \A r \in Requests : IInv /\ EraseFails(r) => IInv'
<1> SUFFICES ASSUME NEW r \in Requests, IInv, EraseFails(r) PROVE IInv'
  OBVIOUS
<1> USE NullAssumption DEF EraseFails, Throw, IInv, IdleCall
<1>1. TypeOK'
  <2>1. [IdleCall EXCEPT !.pc = "failed"] \in Call
    BY DEF IdleCall, Call
  <2> QED BY <2>1 DEF TypeOK
<1>2. RowHasObject' /\ (bucket \subseteq minted)'
  BY DEF RowHasObject, RowNames, HeldNames, HeldOnce, TypeOK, Call
<1>3. CallShape'
  BY DEF CallShape, TypeOK, Call
<1>4. HeldNames'
  BY DEF HeldNames, HeldOnce, TypeOK, Call, CallShape, RowHasObject, RowNames
<1>5. HeldOnce'
  BY DEF HeldNames, HeldOnce, TypeOK, Call, CallShape, RowNames
<1>6. FinishedGone'
  BY DEF FinishedGone, Finished, HeldNames, HeldOnce, TypeOK, Call, CallShape,
         RowHasObject, RowNames
<1> QED BY <1>1, <1>2, <1>3, <1>4, <1>5, <1>6

\* A call that returns keeps what it has finished.
LEMMA ReturnIInv ==
  \A r \in Requests : IInv /\ Return(r) => IInv'
<1> SUFFICES ASSUME NEW r \in Requests, IInv, Return(r) PROVE IInv'
  OBVIOUS
<1> USE NullAssumption DEF Return, IInv, IdleCall
<1>1. TypeOK'
  <2>1. IdleCall \in Call
    BY DEF IdleCall, Call
  <2> QED BY <2>1 DEF TypeOK
<1>2. RowHasObject' /\ (bucket \subseteq minted)'
  BY DEF RowHasObject, RowNames, HeldNames, HeldOnce, TypeOK, Call
<1>3. CallShape'
  BY DEF CallShape, TypeOK, Call
<1>4. HeldNames'
  BY DEF HeldNames, HeldOnce, TypeOK, Call, CallShape, RowHasObject, RowNames
<1>5. HeldOnce'
  BY DEF HeldNames, HeldOnce, TypeOK, Call, CallShape, RowNames
<1>6. FinishedGone'
  BY DEF FinishedGone, Finished, HeldNames, HeldOnce, TypeOK, Call, CallShape,
         RowHasObject, RowNames
<1> QED BY <1>1, <1>2, <1>3, <1>4, <1>5, <1>6

\* A crash puts every call back to idle.
LEMMA CrashIInv == IInv /\ Crash => IInv'
<1> SUFFICES ASSUME IInv, Crash PROVE IInv'
  OBVIOUS
<1> USE DEF Crash, IInv, IdleCall
<1>1. TypeOK'
  BY DEF TypeOK, Call
<1>2. RowHasObject' /\ (bucket \subseteq minted)'
  BY DEF RowHasObject, RowNames
<1>3. CallShape' /\ HeldNames' /\ HeldOnce' /\ FinishedGone'
  BY DEF CallShape, HeldNames, HeldOnce, FinishedGone, Finished
<1> QED BY <1>1, <1>2, <1>3

\* Every step of the system preserves the strengthened invariant.
LEMMA NextIInv == IInv /\ [Next]_vars => IInv'
<1> SUFFICES ASSUME IInv, [Next]_vars PROVE IInv'
  OBVIOUS
<1>1. ASSUME NEW r \in Requests, Start(r) PROVE IInv'
  <2>1. ASSUME NEW o \in Fileables, NEW n \in 1..MaxBatch[o], CreateFiles(r, o, n)
        PROVE  IInv'
    <3>1. n \in Nat \ {0}
      BY MaxBatchAssumption
    <3> QED BY <2>1, <3>1, CreateFilesIInv
  <2>2. ASSUME NEW n \in Names, DeleteFile(r, n) PROVE IInv'
    BY <2>2, StartRemovingIInv DEF DeleteFile
  <2>3. ASSUME NEW o \in Fileables, DeleteFiles(r, o) PROVE IInv'
    BY <2>3, StartRemovingIInv, FilesOfNames DEF DeleteFiles
  <2> QED BY <1>1, <2>1, <2>2, <2>3 DEF Start
<1>2. ASSUME NEW r \in Requests, Healthy(r) PROVE IInv'
  BY <1>2, UploadIInv, RecordIInv, RemoveIInv, RemoveMissingIInv, EraseIInv
  DEF Healthy
<1>3. ASSUME NEW r \in Requests, Fault(r) PROVE IInv'
  BY <1>3, UploadFailsIInv, RecordFailsIInv, RemoveFailsIInv, EraseFailsIInv
  DEF Fault
<1>4. ASSUME NEW r \in Requests, Return(r) PROVE IInv'
  BY <1>4, ReturnIInv
<1>5. CASE Crash
  BY <1>5, CrashIInv
<1>6. CASE UNCHANGED vars
  BY <1>6 DEF vars, IInv, TypeOK, RowHasObject, RowNames, CallShape, HeldNames,
              HeldOnce, FinishedGone, Finished
<1> QED BY <1>1, <1>2, <1>3, <1>4, <1>5, <1>6 DEF Next, HealthyNext

\* IInv is an invariant of the specification.
THEOREM Invariance == Spec => []IInv
<1> QED BY InitIInv, NextIInv, PTL DEF Spec

-----------------------------------------------------------------------------
\* The tables, the bucket and the calls always have their types.
THEOREM TypeCorrect == Spec => []TypeOK
<1>1. IInv => TypeOK
  BY DEF IInv
<1> QED BY <1>1, Invariance, PTL

\* A row the API can return always has its object in the bucket, for any
\* number of requests, whatever fails or crashes (createFiles uploads before
\* it inserts, deleteFile deletes the row before the object).
THEOREM RowsHaveObjects == Spec => []RowHasObject
<1>1. IInv => RowHasObject
  BY DEF IInv
<1> QED BY <1>1, Invariance, PTL

\* A deleteFile or deleteFiles that returns without an exception has removed
\* the rows and the objects of all it read, and none of them ever comes back.
THEOREM DeletionsComplete == Spec => []DeleteComplete
<1>1. IInv => DeleteComplete
  BY NullAssumption
  DEF IInv, DeleteComplete, FinishedGone, Finished, CallShape, TypeOK, Call
<1> QED BY <1>1, Invariance, PTL

\* Only a step in which S3, the database or the process fails leaves an
\* object that neither a row nor a call knows of.
THEOREM LeaksNeedFaults == Spec => NoSilentLeak
<1> DEFINE Step == Leaked' \subseteq Leaked \/ ~HealthyNext
<1>1. IInv /\ [Next]_vars => [Step]_vars
  <2> SUFFICES ASSUME IInv, NEW r \in Requests, Start(r) \/ Healthy(r) \/ Return(r)
               PROVE  Leaked' \subseteq Leaked
    BY DEF HealthyNext
  <2> USE NullAssumption DEF IInv, Leaked, Held, RowNames, HeldNames, CallShape,
          TypeOK, Call, IdleCall
  <2>1. ASSUME NEW o, NEW n, CreateFiles(r, o, n) PROVE Leaked' \subseteq Leaked
    BY <2>1 DEF CreateFiles, Throw
  <2>2. ASSUME NEW names, StartRemoving(r, names) PROVE Leaked' \subseteq Leaked
    BY <2>2 DEF StartRemoving
  <2>3. CASE Upload(r)
    BY <2>3 DEF Upload
  <2>4. CASE Record(r)
    BY <2>4 DEF Record
  <2>5. CASE Remove(r)
    BY <2>5 DEF Remove
  <2>6. CASE RemoveMissing(r)
    BY <2>6 DEF RemoveMissing, Throw
  <2>7. CASE Erase(r)
    BY <2>7 DEF Erase
  <2>8. CASE Return(r)
    BY <2>8 DEF Return
  <2> QED BY <2>1, <2>2, <2>3, <2>4, <2>5, <2>6, <2>7, <2>8
          DEF Start, Healthy, DeleteFile, DeleteFiles
<1> QED BY <1>1, Invariance, PTL DEF Spec, NoSilentLeak

-----------------------------------------------------------------------------
(* How far concurrent uploads overshoot the limit.  What a call of         *)
(* createFiles has still to record counts as well: files and slots of an   *)
(* owner together are what the last call to count saw and what the others  *)
(* had still to record then.                                               *)

Loading(o) == {r \in Requests : call[r].owner = o /\ call[r].pc \in {"upload", "record"}}
Slots(o) == UNION {{r} \X (1..call[r].left) : r \in Loading(o)}
Bound(o) == Limit[o] + (Cardinality(Requests) - 1) * MaxBatch[o]

Counting ==
  /\ IsFiniteSet(minted)
  /\ \A r \in Requests : call[r].pc \in {"upload", "record"} =>
       call[r].owner \in Fileables /\ call[r].left \in 1..MaxBatch[call[r].owner]
  /\ \A o \in Fileables : Cardinality(FilesOf(o)) + Cardinality(Slots(o)) <= Bound(o)

\* There is at least one request, so the bound is at least the limit.
LEMMA BoundIs ==
  \A o \in Fileables : Bound(o) \in Nat
<1> SUFFICES ASSUME NEW o \in Fileables PROVE Bound(o) \in Nat
  OBVIOUS
<1>1. Cardinality(Requests) \in Nat /\ Cardinality(Requests) # 0
  BY RequestsAssumption, FS_CardinalityType, FS_EmptySet
<1>2. \A i \in Nat \ {0}, l, m \in Nat : l + (i - 1) * m \in Nat
  <2>1. \A j, m \in Nat : j * m \in Nat
    OBVIOUS
  <2> QED BY <2>1
<1>3. Limit[o] \in Nat /\ MaxBatch[o] \in Nat
  BY LimitAssumption, MaxBatchAssumption
<1> QED BY <1>1, <1>2, <1>3 DEF Bound

\* Both summands are finite.
LEMMA CountsFinite ==
  ASSUME IInv, Counting, NEW o \in Fileables
  PROVE  /\ IsFiniteSet(FilesOf(o)) /\ Cardinality(FilesOf(o)) \in Nat
         /\ IsFiniteSet(Slots(o)) /\ Cardinality(Slots(o)) \in Nat
<1>1. FilesOf(o) \subseteq minted
  BY NullAssumption DEF IInv, FilesOf, RowHasObject, RowNames
<1>2. Slots(o) \subseteq Requests \X (1..MaxBatch[o])
  <2>1. MaxBatch[o] \in Nat
    BY MaxBatchAssumption
  <2>2. \A r \in Loading(o) : 1..call[r].left \subseteq 1..MaxBatch[o]
    BY <2>1 DEF Counting, Loading
  <2> QED BY <2>2 DEF Slots, Loading
<1>3. IsFiniteSet(1..MaxBatch[o])
  <2>1. 1 \in Int /\ MaxBatch[o] \in Int
    BY MaxBatchAssumption
  <2> QED BY ONLY <2>1, FS_Interval
<1>4. IsFiniteSet(Requests \X (1..MaxBatch[o]))
  BY <1>3, RequestsAssumption, FS_Product
<1> QED BY <1>1, <1>2, <1>4, FS_Subset, FS_CardinalityType DEF Counting

\* A call that goes on with what it had, records one of its files or ends.
LEMMA CountingStep ==
  ASSUME IInv, Counting, IsFiniteSet(minted'),
         NEW r \in Requests, NEW c \in Call, call' = [call EXCEPT ![r] = c],
         c.pc \in {"upload", "record"} =>
           /\ call[r].pc \in {"upload", "record"} /\ c.owner = call[r].owner
           /\ c.left \in 1..call[r].left,
         \/ \A o \in Fileables : FilesOf(o)' \subseteq FilesOf(o)
         \/ /\ call[r].pc = "record"
            /\ file' = [file EXCEPT ![call[r].name] = call[r].owner]
            /\ c.pc \in {"upload", "record"} => c.left < call[r].left
  PROVE  Counting'
<1>1. call \in [Requests -> Call] /\ call'[r] = c
      /\ \A q \in Requests \ {r} : call'[q] = call[q]
  BY DEF IInv, TypeOK
<1>2. call[r].left \in Nat /\ c.left \in Nat
  BY <1>1 DEF Call
<1>3. \A o : Slots(o)' \subseteq Slots(o)
  <2> SUFFICES ASSUME NEW o, NEW q \in Loading(o)'
               PROVE  q \in Loading(o) /\ 1..call'[q].left \subseteq 1..call[q].left
    BY DEF Slots
  <2>1. CASE q = r
    BY <1>1, <1>2, <2>1 DEF Loading
  <2>2. CASE q # r
    BY <1>1, <2>2 DEF Loading
  <2> QED BY <2>1, <2>2
<1>4. ASSUME NEW q \in Requests, call'[q].pc \in {"upload", "record"}
      PROVE  call'[q].owner \in Fileables /\ call'[q].left \in 1..MaxBatch[call'[q].owner]
  <2>1. CASE q = r
    <3>1. MaxBatch[call[r].owner] \in Nat
      BY <1>1, <1>4, <2>1, MaxBatchAssumption DEF Counting
    <3> QED BY <1>1, <1>2, <1>4, <2>1, <3>1 DEF Counting
  <2>2. CASE q # r
    BY <1>1, <1>4, <2>2 DEF Counting
  <2> QED BY <2>1, <2>2
<1>5. ASSUME NEW o \in Fileables
      PROVE  Cardinality(FilesOf(o)') + Cardinality(Slots(o)') <= Bound(o)
  <2>1. /\ IsFiniteSet(FilesOf(o)) /\ Cardinality(FilesOf(o)) \in Nat
        /\ IsFiniteSet(Slots(o)) /\ Cardinality(Slots(o)) \in Nat
    BY CountsFinite
  <2>2. /\ Cardinality(FilesOf(o)) + Cardinality(Slots(o)) <= Bound(o)
        /\ Bound(o) \in Nat
    BY BoundIs DEF Counting
  <2>3. Cardinality(Slots(o)') \in Nat /\ Cardinality(Slots(o)') <= Cardinality(Slots(o))
    BY <1>3, <2>1, FS_Subset, FS_CardinalityType
  <2>4. CASE FilesOf(o)' \subseteq FilesOf(o)
    <3>1. Cardinality(FilesOf(o)') \in Nat /\ Cardinality(FilesOf(o)') <= Cardinality(FilesOf(o))
      BY <2>1, <2>4, FS_Subset, FS_CardinalityType
    <3> QED BY <2>1, <2>2, <2>3, <3>1
  <2>5. CASE /\ call[r].pc = "record" /\ call[r].owner = o
             /\ file' = [file EXCEPT ![call[r].name] = call[r].owner]
             /\ c.pc \in {"upload", "record"} => c.left < call[r].left
    <3>1. FilesOf(o)' \subseteq FilesOf(o) \cup {call[r].name}
      BY <2>5 DEF IInv, TypeOK, FilesOf
    <3>2. /\ Cardinality(FilesOf(o)') \in Nat
          /\ Cardinality(FilesOf(o)') <= Cardinality(FilesOf(o)) + 1
      <4>1. /\ IsFiniteSet(FilesOf(o) \cup {call[r].name})
            /\ Cardinality(FilesOf(o) \cup {call[r].name}) \in Nat
            /\ Cardinality(FilesOf(o) \cup {call[r].name}) <= Cardinality(FilesOf(o)) + 1
        <5>1. /\ IsFiniteSet(FilesOf(o) \cup {call[r].name})
              /\ Cardinality(FilesOf(o) \cup {call[r].name})
                   = IF call[r].name \in FilesOf(o) THEN Cardinality(FilesOf(o))
                                                    ELSE Cardinality(FilesOf(o)) + 1
          BY <2>1, FS_AddElement
        <5> QED BY <2>1, <5>1
      <4>2. /\ IsFiniteSet(FilesOf(o)')
            /\ Cardinality(FilesOf(o)') <= Cardinality(FilesOf(o) \cup {call[r].name})
        BY <3>1, <4>1, FS_Subset
      <4> QED BY <2>1, <4>1, <4>2, FS_CardinalityType
    <3>3. call[r].left > 0 /\ r \in Loading(o)
      BY <2>5 DEF IInv, CallShape, Loading
    <3>4. <<r, call[r].left>> \in Slots(o)
      BY <1>2, <3>3 DEF Slots
    <3>5. <<r, call[r].left>> \notin Slots(o)'
      BY <1>1, <1>2, <2>5 DEF Slots, Loading
    <3>6. Cardinality(Slots(o) \ {<<r, call[r].left>>}) = Cardinality(Slots(o)) - 1
          /\ IsFiniteSet(Slots(o) \ {<<r, call[r].left>>})
      BY <2>1, <3>4, FS_RemoveElement
    <3>7. Cardinality(Slots(o)') <= Cardinality(Slots(o)) - 1
      BY <1>3, <3>5, <3>6, FS_Subset
    <3> QED BY <2>1, <2>2, <2>3, <3>2, <3>7
  <2>6. CASE /\ call[r].owner # o
             /\ file' = [file EXCEPT ![call[r].name] = call[r].owner]
    <3>1. FilesOf(o)' \subseteq FilesOf(o)
      BY <2>6 DEF IInv, TypeOK, FilesOf
    <3> QED BY <2>4, <3>1
  <2> QED BY <2>4, <2>5, <2>6
<1> QED BY <1>4, <1>5 DEF Counting, Bound

\* createFiles counts the rows of the owner; what the other calls have still
\* to record is at most a full batch each.
LEMMA CreateFilesCounting ==
  ASSUME IInv, Counting, NEW r \in Requests, NEW o \in Fileables, NEW n \in 1..MaxBatch[o],
         CreateFiles(r, o, n), Cardinality(FilesOf(o)) + n <= Limit[o]
  PROVE  Counting'
<1> DEFINE c == [IdleCall EXCEPT !.pc = "upload", !.owner = o, !.left = n]
           others == (Requests \ {r}) \X (1..MaxBatch[o])
<1>1. MaxBatch[o] \in Nat /\ n \in Nat /\ Limit[o] \in Nat
  BY MaxBatchAssumption, LimitAssumption
<1>2. /\ call' = [call EXCEPT ![r] = c] /\ UNCHANGED <<file, bucket, minted>>
      /\ call \in [Requests -> Call] /\ call[r].pc = "idle"
  <2>1. ~(Cardinality(FilesOf(o)) + n > Limit[o])
    <3>1. Cardinality(FilesOf(o)) \in Nat
      BY CountsFinite
    <3> QED BY <1>1, <3>1
  <2> QED BY <2>1 DEF CreateFiles, IInv, TypeOK
<1>3. c.pc = "upload" /\ c.owner = o /\ c.left = n
  BY DEF IdleCall
<1> HIDE DEF c
<1>4. call'[r] = c /\ \A q \in Requests \ {r} : call'[q] = call[q]
  BY <1>2
<1>5. \A p \in Fileables : FilesOf(p)' = FilesOf(p)
  BY <1>2 DEF FilesOf
<1>6. ASSUME NEW p \in Fileables, p # o PROVE Slots(p)' = Slots(p)
  <2>1. Loading(p)' = Loading(p) /\ r \notin Loading(p)
    BY <1>2, <1>3, <1>4, <1>6 DEF Loading
  <2>2. \A q \in Loading(p) : call'[q] = call[q]
    BY <1>4, <2>1 DEF Loading
  <2> QED BY <2>1, <2>2 DEF Slots
<1>7. Slots(o)' \subseteq others \cup ({r} \X (1..n))
  <2> SUFFICES ASSUME NEW q \in Loading(o)'
               PROVE  {q} \X (1..call'[q].left) \subseteq others \cup ({r} \X (1..n))
    BY DEF Slots
  <2>1. CASE q = r
    BY <1>3, <1>4, <2>1
  <2>2. CASE q # r
    <3>1. call[q].left \in 1..MaxBatch[o] /\ call'[q] = call[q] /\ q \in Requests
      BY <1>4, <2>2 DEF Counting, Loading
    <3> QED BY <1>1, <2>2, <3>1
  <2> QED BY <2>1, <2>2
<1> DEFINE k == Cardinality(Requests) - 1
<1>8. IsFiniteSet(Requests \ {r}) /\ Cardinality(Requests \ {r}) = k /\ k \in Nat
  <2>1. IsFiniteSet(Requests \ {r}) /\ Cardinality(Requests \ {r}) = k
    BY RequestsAssumption, FS_RemoveElement
  <2> QED BY <2>1, FS_CardinalityType
<1>9. ASSUME NEW m \in Nat
      PROVE  IsFiniteSet(1..m) /\ Cardinality(1..m) = m
  <2>1. 1 \in Int /\ m \in Int
    OBVIOUS
  <2>2. /\ IsFiniteSet(1..m)
        /\ Cardinality(1..m) = IF 1 > m THEN 0 ELSE m - 1 + 1
    BY ONLY <2>1, FS_Interval
  <2> QED BY <2>2
<1>10. /\ IsFiniteSet(others) /\ Cardinality(others) = k * MaxBatch[o]
       /\ IsFiniteSet({r} \X (1..n)) /\ Cardinality({r} \X (1..n)) = n
  <2>1. IsFiniteSet({r}) /\ Cardinality({r}) = 1
    BY FS_Singleton
  <2>2. /\ IsFiniteSet(1..MaxBatch[o]) /\ Cardinality(1..MaxBatch[o]) = MaxBatch[o]
        /\ IsFiniteSet(1..n) /\ Cardinality(1..n) = n
    BY <1>1, <1>9
  <2>3. /\ IsFiniteSet({r} \X (1..n))
        /\ Cardinality({r} \X (1..n)) = Cardinality({r}) * Cardinality(1..n)
    BY <2>1, <2>2, FS_Product
  <2>4. /\ IsFiniteSet(others)
        /\ Cardinality(others) = Cardinality(Requests \ {r}) * Cardinality(1..MaxBatch[o])
    BY <1>8, <2>2, FS_Product
  <2> QED BY <1>1, <1>8, <2>1, <2>2, <2>3, <2>4
<1> HIDE DEF others
<1>11. /\ Cardinality(others \cup ({r} \X (1..n))) <= k * MaxBatch[o] + n
       /\ IsFiniteSet(others \cup ({r} \X (1..n)))
  <2>1. others \cap ({r} \X (1..n)) = {}
    BY DEF others
  <2>2. /\ IsFiniteSet(others \cup ({r} \X (1..n)))
        /\ Cardinality(others \cup ({r} \X (1..n)))
             = Cardinality(others) + Cardinality({r} \X (1..n))
                 - Cardinality(others \cap ({r} \X (1..n)))
    BY <1>10, FS_Union
  <2>3. Cardinality({}) = 0
    BY FS_EmptySet
  <2>4. k * MaxBatch[o] \in Nat
    BY <1>10, FS_CardinalityType
  <2> QED BY <1>1, <1>10, <2>1, <2>2, <2>3, <2>4
<1>12. Cardinality(Slots(o)') <= k * MaxBatch[o] + n /\ Cardinality(Slots(o)') \in Nat
  <2>1. /\ Cardinality(Slots(o)') <= Cardinality(others \cup ({r} \X (1..n)))
        /\ IsFiniteSet(Slots(o)')
    BY <1>7, <1>11, FS_Subset
  <2>2. Cardinality(Slots(o)') \in Nat /\ Cardinality(others \cup ({r} \X (1..n))) \in Nat
    BY <1>11, <2>1, FS_CardinalityType
  <2>3. k * MaxBatch[o] \in Nat
    BY <1>10, FS_CardinalityType
  <2> QED BY <1>1, <1>11, <2>1, <2>2, <2>3
<1>13. Cardinality(FilesOf(o)') + Cardinality(Slots(o)') <= Bound(o)
  <2>1. Cardinality(FilesOf(o)) \in Nat
    BY CountsFinite
  <2>2. k * MaxBatch[o] \in Nat
    BY <1>10, FS_CardinalityType
  <2>3. Bound(o) = Limit[o] + k * MaxBatch[o]
    BY DEF Bound
  <2> QED BY <1>1, <1>5, <1>12, <2>1, <2>2, <2>3
<1>14. \A p \in Fileables : Cardinality(FilesOf(p)') + Cardinality(Slots(p)') <= Bound(p)
  BY <1>5, <1>6, <1>13 DEF Counting
<1>15. \A q \in Requests : call'[q].pc \in {"upload", "record"} =>
         call'[q].owner \in Fileables /\ call'[q].left \in 1..MaxBatch[call'[q].owner]
  BY <1>3, <1>4 DEF Counting
<1> QED BY <1>2, <1>14, <1>15 DEF Counting, Bound

\* Every step keeps the count below the bound.
LEMMA NextCounting == IInv /\ Counting /\ [Next]_vars => Counting'
<1> SUFFICES ASSUME IInv, Counting, [Next]_vars PROVE Counting'
  OBVIOUS
<1> DEFINE failed == [IdleCall EXCEPT !.pc = "failed"]
<1>0. /\ call \in [Requests -> Call] /\ IdleCall \in Call /\ failed \in Call
      /\ failed.pc = "failed" /\ IdleCall.pc = "idle"
  BY NullAssumption DEF IInv, TypeOK, IdleCall, Call
<1>1. \A n : IsFiniteSet(minted) /\ IsFiniteSet(minted \cup {n})
  BY FS_AddElement DEF Counting
<1>2. ASSUME NEW r \in Requests, Throw(r), IsFiniteSet(minted'),
             \/ \A o \in Fileables : FilesOf(o)' \subseteq FilesOf(o)
             \/ /\ call[r].pc = "record"
                /\ file' = [file EXCEPT ![call[r].name] = call[r].owner]
      PROVE  Counting'
  <2>1. call' = [call EXCEPT ![r] = failed]
    BY <1>2 DEF Throw
  <2> HIDE DEF failed
  <2> QED BY <1>0, <1>2, <2>1, CountingStep
<1> HIDE DEF failed
<1>3. ASSUME NEW r \in Requests, Start(r) PROVE Counting'
  <2>1. UNCHANGED <<file, bucket, minted>>
    BY <1>3 DEF Start, CreateFiles, DeleteFile, DeleteFiles, StartRemoving
  <2>2. \A o \in Fileables : FilesOf(o)' \subseteq FilesOf(o)
    BY <2>1 DEF FilesOf
  <2>3. ASSUME NEW o \in Fileables, NEW n \in 1..MaxBatch[o], CreateFiles(r, o, n)
        PROVE  Counting'
    <3>1. Cardinality(FilesOf(o)) \in Nat /\ n \in Nat /\ Limit[o] \in Nat
      BY CountsFinite, MaxBatchAssumption, LimitAssumption
    <3>2. CASE Cardinality(FilesOf(o)) + n > Limit[o]
      <4>1. Throw(r)
        BY <2>3, <3>2 DEF CreateFiles
      <4> QED BY <1>1, <1>2, <2>1, <2>2, <4>1
    <3>3. CASE Cardinality(FilesOf(o)) + n <= Limit[o]
      BY <2>3, <3>3, CreateFilesCounting
    <3> QED BY <3>1, <3>2, <3>3
  <2>4. ASSUME NEW names \in SUBSET Names, StartRemoving(r, names) PROVE Counting'
    <3> DEFINE c == [IdleCall EXCEPT !.pc = IF names = {} THEN "done" ELSE "remove",
                                     !.batch = names, !.todo = names]
    <3>1. c.pc \in {"done", "remove"} /\ c \in Call
      BY NullAssumption DEF IdleCall, Call
    <3>2. call' = [call EXCEPT ![r] = c]
      BY <2>4 DEF StartRemoving
    <3> HIDE DEF c
    <3> QED BY <1>1, <2>1, <2>2, <3>1, <3>2, CountingStep
  <2> QED BY <1>3, <2>3, <2>4, FilesOfNames DEF Start, DeleteFile, DeleteFiles
<1>4. ASSUME NEW r \in Requests, Upload(r) PROVE Counting'
  <2>1. PICK n \in Names : /\ call' = [call EXCEPT ![r].pc = "record", ![r].name = n]
                           /\ minted' = minted \cup {n} /\ file' = file /\ call[r].pc = "upload"
    BY <1>4 DEF Upload
  <2> DEFINE c == [call[r] EXCEPT !.pc = "record", !.name = n]
  <2>2. c \in Call /\ c.owner = call[r].owner /\ c.left = call[r].left /\ c.pc = "record"
    BY <1>0 DEF Call
  <2>3. call' = [call EXCEPT ![r] = c]
    BY <1>0, <2>1
  <2> HIDE DEF c
  <2>4. c.left \in 1..call[r].left
    BY <2>1, <2>2 DEF IInv, CallShape, Call
  <2>5. \A o \in Fileables : FilesOf(o)' \subseteq FilesOf(o)
    BY <2>1 DEF FilesOf
  <2> QED BY <1>1, <2>1, <2>2, <2>3, <2>4, <2>5, CountingStep
<1>5. ASSUME NEW r \in Requests, Record(r) PROVE Counting'
  <2> DEFINE p == IF call[r].left = 1 THEN "done" ELSE "upload"
             c == [call[r] EXCEPT !.pc = p, !.left = call[r].left - 1, !.name = NoName]
  <2>1. /\ call[r].pc = "record" /\ minted' = minted
        /\ file' = [file EXCEPT ![call[r].name] = call[r].owner]
        /\ call' = [call EXCEPT ![r] = c]
    BY <1>0, <1>5 DEF Record
  <2>2. call[r] \in Call /\ call[r].left \in Nat /\ call[r].left > 0
    BY <1>0, <2>1 DEF IInv, CallShape, Call
  <2>3. c.owner = call[r].owner /\ c.left = call[r].left - 1 /\ c.pc = p
    BY <2>2 DEF Call
  <2>4. c \in Call
    <3>1. call[r].left - 1 \in Nat
      BY <2>2
    <3>2. \A q \in {"done", "upload"}, l \in Nat :
            [call[r] EXCEPT !.pc = q, !.left = l, !.name = NoName] \in Call
      BY <2>2 DEF Call
    <3> QED BY <3>1, <3>2
  <2> HIDE DEF c
  <2>5. c.pc \in {"upload", "record"} => c.left \in 1..call[r].left /\ c.left < call[r].left
    BY <2>2, <2>3
  <2> QED BY <1>1, <2>1, <2>3, <2>4, <2>5, CountingStep
<1>6. ASSUME NEW r \in Requests, Remove(r) PROVE Counting'
  <2>1. PICK n \in call[r].todo :
          /\ call' = [call EXCEPT ![r].pc = "erase", ![r].name = n,
                                  ![r].todo = call[r].todo \ {n}]
          /\ file' = [file EXCEPT ![n] = NoOwner] /\ minted' = minted
    BY <1>6 DEF Remove
  <2> DEFINE c == [call[r] EXCEPT !.pc = "erase", !.name = n, !.todo = call[r].todo \ {n}]
  <2>2. c \in Call /\ c.pc = "erase"
    BY <1>0 DEF Call
  <2>3. call' = [call EXCEPT ![r] = c]
    BY <1>0, <2>1
  <2> HIDE DEF c
  <2>4. \A o \in Fileables : FilesOf(o)' \subseteq FilesOf(o)
    BY <2>1, NullAssumption DEF FilesOf, IInv, TypeOK
  <2> QED BY <1>1, <2>1, <2>2, <2>3, <2>4, CountingStep
<1>7. ASSUME NEW r \in Requests, Erase(r) PROVE Counting'
  <2> DEFINE p == IF call[r].todo = {} THEN "done" ELSE "remove"
             c == [call[r] EXCEPT !.pc = p, !.name = NoName]
  <2>1. call' = [call EXCEPT ![r] = c] /\ UNCHANGED <<file, minted>>
    BY <1>0, <1>7 DEF Erase
  <2>2. c \in Call /\ c.pc \in {"done", "remove"}
    BY <1>0 DEF Call
  <2> HIDE DEF c
  <2>3. \A o \in Fileables : FilesOf(o)' \subseteq FilesOf(o)
    BY <2>1 DEF FilesOf
  <2> QED BY <1>1, <2>1, <2>2, <2>3, CountingStep
<1>8. ASSUME NEW r \in Requests, RemoveMissing(r) \/ Fault(r) PROVE Counting'
  <2>1. Throw(r)
    BY <1>8 DEF RemoveMissing, Fault, UploadFails, RecordFails, RemoveFails, EraseFails
  <2>2. IsFiniteSet(minted')
    BY <1>1, <1>8 DEF RemoveMissing, Fault, UploadFails, RecordFails, RemoveFails, EraseFails
  <2>3. CASE RecordFails(r) /\ file' # file
    BY <1>2, <2>1, <2>2, <2>3 DEF RecordFails
  <2>4. CASE file' = file \/ \E n : file' = [file EXCEPT ![n] = NoOwner]
    <3>1. \A o \in Fileables : FilesOf(o)' \subseteq FilesOf(o)
      BY <2>4, NullAssumption DEF FilesOf, IInv, TypeOK
    <3> QED BY <1>2, <2>1, <2>2, <3>1
  <2> QED BY <1>8, <2>3, <2>4
          DEF RemoveMissing, Fault, UploadFails, RecordFails, RemoveFails, EraseFails
<1>9. ASSUME NEW r \in Requests, Return(r) PROVE Counting'
  <2>1. call' = [call EXCEPT ![r] = IdleCall] /\ UNCHANGED <<file, minted>>
    BY <1>9 DEF Return
  <2>2. \A o \in Fileables : FilesOf(o)' \subseteq FilesOf(o)
    BY <2>1 DEF FilesOf
  <2> QED BY <1>0, <1>1, <2>1, <2>2, CountingStep
<1>10. CASE Crash
  <2>1. \A r \in Requests : call'[r].pc = "idle"
    BY <1>0, <1>10 DEF Crash
  <2>2. \A o : Slots(o)' = {} /\ FilesOf(o)' = FilesOf(o)
    BY <1>10, <2>1 DEF Slots, Loading, FilesOf, Crash
  <2>3. ASSUME NEW o \in Fileables
        PROVE  Cardinality(FilesOf(o)') + Cardinality(Slots(o)') <= Bound(o)
    <3>1. Cardinality({}) = 0
      BY FS_EmptySet
    <3>2. Cardinality(FilesOf(o)) + Cardinality(Slots(o)) <= Bound(o)
      BY DEF Counting
    <3>3. Cardinality(FilesOf(o)) \in Nat /\ Cardinality(Slots(o)) \in Nat /\ Bound(o) \in Nat
      BY BoundIs, CountsFinite
    <3>4. Cardinality(FilesOf(o)') = Cardinality(FilesOf(o)) /\ Cardinality(Slots(o)') = 0
      BY <2>2, <3>1
    <3> QED BY <3>2, <3>3, <3>4
  <2> QED BY <1>1, <1>10, <2>1, <2>3 DEF Counting, Crash, Bound
<1>11. CASE UNCHANGED vars
  BY <1>11 DEF vars, Counting, Slots, Loading, FilesOf, Bound
<1> QED BY <1>3, <1>4, <1>5, <1>6, <1>7, <1>8, <1>9, <1>10, <1>11
        DEF Next, HealthyNext, Healthy, Fault

\* However many uploads for one owner are in flight together, its files exceed
\* the limit of checkFileLimit by a full batch of every other call at most.
THEOREM OvershootIsBounded == Spec => []OvershootBounded
<1>1. Init => Counting
  <2> SUFFICES ASSUME Init PROVE Counting
    OBVIOUS
  <2>1. \A r \in Requests : call[r].pc = "idle"
    BY DEF Init, IdleCall
  <2>2. ASSUME NEW o \in Fileables PROVE FilesOf(o) = {} /\ Slots(o) = {}
    BY <2>1, NullAssumption DEF Init, FilesOf, Slots, Loading
  <2>3. IsFiniteSet(minted) /\ IsFiniteSet({}) /\ Cardinality({}) = 0
    BY FS_EmptySet DEF Init
  <2> QED BY <2>1, <2>2, <2>3, BoundIs DEF Counting
<1>2. IInv /\ Counting => OvershootBounded
  <2> SUFFICES ASSUME IInv, Counting, NEW o \in Fileables
               PROVE  Cardinality(FilesOf(o)) <= Bound(o)
    BY DEF OvershootBounded, Bound
  <2>1. Cardinality(FilesOf(o)) + Cardinality(Slots(o)) <= Bound(o)
    BY DEF Counting
  <2> QED BY <2>1, CountsFinite, BoundIs
<1> QED BY <1>1, <1>2, NextCounting, Invariance, PTL DEF Spec
=============================================================================

------------------------------ MODULE FileStore ------------------------------
(***************************************************************************)
(* FileService and StorageService: the File table in PostgreSQL, the S3    *)
(* bucket that holds the bytes, and the calls that keep the two together.  *)
(*                                                                         *)
(* A call of createFiles, deleteFile or deleteFiles awaits one query or    *)
(* one S3 command after the other, so calls interleave between any two of  *)
(* them and no transaction spans them.  A call that throws stops where it  *)
(* is: nothing is rolled back.  A crash of the process drops every call.   *)
(*                                                                         *)
(* A row is identified by its fileName, a random UUID that is @unique in   *)
(* the schema; id, mimeType, createdBy and the presigned url play no part. *)
(***************************************************************************)
EXTENDS Naturals, FiniteSets

CONSTANTS
  Requests,    \* calls that may be in flight together
  Fileables,   \* the projects, tasks and comments that can own files
  Names,       \* keys generateFileName can return (bounds a run)
  Limit,       \* fileableMap[...].limit of every owner
  MaxBatch,    \* the most files one multipart request for an owner carries
  NoName,      \* "holds no object"
  NoOwner      \* "no such row"

ASSUME RequestsAssumption == IsFiniteSet(Requests) /\ Requests # {}
ASSUME LimitAssumption == Limit \in [Fileables -> Nat]
ASSUME MaxBatchAssumption == MaxBatch \in [Fileables -> Nat \ {0}]
ASSUME NullAssumption == NoName \notin Names /\ NoOwner \notin Fileables

VARIABLES
  file,        \* the File table: the owner of each name, NoOwner if no row
  bucket,      \* the names that have an object in S3
  minted,      \* the names generateFileName has returned
  call         \* the state of every call in flight

vars == <<file, bucket, minted, call>>

(***************************************************************************)
(* A call.  "upload" and "record" are the two halves of createFiles' loop  *)
(* body, "remove" and "erase" those of deleteFile.  left counts the files  *)
(* createFiles has still to record, batch is the array deleteFiles read    *)
(* and todo what its loop has not reached, name is the object in hand.     *)
(***************************************************************************)
Call == [pc    : {"idle", "upload", "record", "remove", "erase", "done", "failed"},
         owner : Fileables \cup {NoOwner},
         left  : Nat,
         batch : SUBSET Names,
         todo  : SUBSET Names,
         name  : Names \cup {NoName}]

IdleCall == [pc |-> "idle", owner |-> NoOwner, left |-> 0,
             batch |-> {}, todo |-> {}, name |-> NoName]

TypeOK ==
  /\ file \in [Names -> Fileables \cup {NoOwner}]
  /\ bucket \subseteq Names
  /\ minted \subseteq Names
  /\ call \in [Requests -> Call]

Init ==
  /\ file = [n \in Names |-> NoOwner]
  /\ bucket = {}
  /\ minted = {}
  /\ call = [r \in Requests |-> IdleCall]

RowNames == {n \in Names : file[n] # NoOwner}

FilesOf(o) == {n \in Names : file[n] = o}

At(r, pc) == call[r].pc = pc

\* An exception leaves the call with nothing in hand.
Throw(r) == call' = [call EXCEPT ![r] = [IdleCall EXCEPT !.pc = "failed"]]

-----------------------------------------------------------------------------
(* createFiles *)

\* Mutant: the guard forgets the files of this request.
CreateFiles_IgnoresNew(r, o, n) ==
  /\ At(r, "idle")
  /\ IF Cardinality(FilesOf(o)) > Limit[o]
       THEN Throw(r)
       ELSE call' = [call EXCEPT ![r] = [IdleCall EXCEPT
                        !.pc = "upload", !.owner = o, !.left = n]]
  /\ UNCHANGED <<file, bucket, minted>>

\* checkFileLimit counts once; nothing re-checks the count while uploading.
CreateFiles(r, o, n) ==
  /\ At(r, "idle")
  /\ IF Cardinality(FilesOf(o)) + n > Limit[o]
       THEN Throw(r)
       ELSE call' = [call EXCEPT ![r] = [IdleCall EXCEPT
                        !.pc = "upload", !.owner = o, !.left = n]]
  /\ UNCHANGED <<file, bucket, minted>>

\* Mutant: the key is the client's file name, so it can come back.
Upload_OriginalName(r) ==
  /\ At(r, "upload")
  /\ \E n \in Names :
       /\ bucket' = bucket \cup {n}
       /\ minted' = minted \cup {n}
       /\ call' = [call EXCEPT ![r].pc = "record", ![r].name = n]
  /\ UNCHANGED file

Upload(r) ==
  /\ At(r, "upload")
  /\ \E n \in Names \ minted :
       /\ bucket' = bucket \cup {n}
       /\ minted' = minted \cup {n}
       /\ call' = [call EXCEPT ![r].pc = "record", ![r].name = n]
  /\ UNCHANGED file

\* PutObject rejects; the object may be stored and only the reply lost.
UploadFails(r) ==
  /\ At(r, "upload")
  /\ \/ UNCHANGED <<bucket, minted>>
     \/ \E n \in Names \ minted :
          /\ bucket' = bucket \cup {n}
          /\ minted' = minted \cup {n}
  /\ Throw(r)
  /\ UNCHANGED file

\* Mutants: the loop tests left after decrementing it a second time; the
\* count is compared again before every insert.
Record_LoopsOnce(r) ==
  /\ At(r, "record")
  /\ file' = [file EXCEPT ![call[r].name] = call[r].owner]
  /\ call' = [call EXCEPT
                ![r].pc = IF call[r].left = 0 THEN "done" ELSE "upload",
                ![r].left = call[r].left - 1,
                ![r].name = NoName]
  /\ UNCHANGED <<bucket, minted>>

Record_CountsAgain(r) ==
  /\ At(r, "record")
  /\ IF Cardinality(FilesOf(call[r].owner)) >= Limit[call[r].owner]
       THEN Throw(r) /\ UNCHANGED file
       ELSE /\ file' = [file EXCEPT ![call[r].name] = call[r].owner]
            /\ call' = [call EXCEPT
                          ![r].pc = IF call[r].left = 1 THEN "done" ELSE "upload",
                          ![r].left = call[r].left - 1,
                          ![r].name = NoName]
  /\ UNCHANGED <<bucket, minted>>

Record(r) ==
  /\ At(r, "record")
  /\ file' = [file EXCEPT ![call[r].name] = call[r].owner]
  /\ call' = [call EXCEPT
                ![r].pc = IF call[r].left = 1 THEN "done" ELSE "upload",
                ![r].left = call[r].left - 1,
                ![r].name = NoName]
  /\ UNCHANGED <<bucket, minted>>

\* Presigning or the insert rejects; an insert whose reply is lost stays.
RecordFails(r) ==
  /\ At(r, "record")
  /\ \/ UNCHANGED file
     \/ file' = [file EXCEPT ![call[r].name] = call[r].owner]
  /\ Throw(r)
  /\ UNCHANGED <<bucket, minted>>

-----------------------------------------------------------------------------
(* deleteFile and deleteFiles *)

StartRemoving(r, names) ==
  /\ At(r, "idle")
  /\ call' = [call EXCEPT ![r] = [IdleCall EXCEPT
                !.pc = IF names = {} THEN "done" ELSE "remove",
                !.batch = names, !.todo = names]]
  /\ UNCHANGED <<file, bucket, minted>>

\* The id of a row that is gone, or never was, is a request like any other.
DeleteFile(r, n) == StartRemoving(r, {n})

DeleteFiles(r, o) == StartRemoving(r, FilesOf(o))

\* The row goes first.  findMany has no orderBy, so the loop order is free.
Remove(r) ==
  /\ At(r, "remove")
  /\ \E n \in call[r].todo :
       /\ file[n] # NoOwner
       /\ file' = [file EXCEPT ![n] = NoOwner]
       /\ call' = [call EXCEPT ![r].pc = "erase",
                               ![r].name = n,
                               ![r].todo = call[r].todo \ {n}]
  /\ UNCHANGED <<bucket, minted>>

\* P2025: another call removed the row first.  The rest of todo is left.
RemoveMissing(r) ==
  /\ At(r, "remove")
  /\ \E n \in call[r].todo : file[n] = NoOwner
  /\ Throw(r)
  /\ UNCHANGED <<file, bucket, minted>>

\* Any other database error, before or after the delete took effect.
RemoveFails(r) ==
  /\ At(r, "remove")
  /\ \/ UNCHANGED file
     \/ \E n \in call[r].todo : file' = [file EXCEPT ![n] = NoOwner]
  /\ Throw(r)
  /\ UNCHANGED <<bucket, minted>>

\* Mutant: the loop stops after the first file.
Erase_FirstOnly(r) ==
  /\ At(r, "erase")
  /\ bucket' = bucket \ {call[r].name}
  /\ call' = [call EXCEPT ![r].pc = "done", ![r].name = NoName]
  /\ UNCHANGED <<file, minted>>

Erase(r) ==
  /\ At(r, "erase")
  /\ bucket' = bucket \ {call[r].name}
  /\ call' = [call EXCEPT
                ![r].pc = IF call[r].todo = {} THEN "done" ELSE "remove",
                ![r].name = NoName]
  /\ UNCHANGED <<file, minted>>

\* DeleteObject rejects, before or after it took effect.
EraseFails(r) ==
  /\ At(r, "erase")
  /\ \/ UNCHANGED bucket
     \/ bucket' = bucket \ {call[r].name}
  /\ Throw(r)
  /\ UNCHANGED <<file, minted>>

-----------------------------------------------------------------------------
\* The caller takes the result; the call is over.
Return(r) ==
  /\ At(r, "done") \/ At(r, "failed")
  /\ call' = [call EXCEPT ![r] = IdleCall]
  /\ UNCHANGED <<file, bucket, minted>>

\* The process dies; a query or command it had sent is covered by the
\* outcome of the Fails actions that takes effect.
Crash ==
  /\ call' = [r \in Requests |-> IdleCall]
  /\ UNCHANGED <<file, bucket, minted>>

Start(r) ==
  \/ \E o \in Fileables : \E n \in 1..MaxBatch[o] : CreateFiles(r, o, n)
  \/ \E n \in Names : DeleteFile(r, n)
  \/ \E o \in Fileables : DeleteFiles(r, o)

\* What a call does when S3 and the database answer.
Healthy(r) == Upload(r) \/ Record(r) \/ Remove(r) \/ RemoveMissing(r) \/ Erase(r)

\* What it does when one of them does not.
Fault(r) == UploadFails(r) \/ RecordFails(r) \/ RemoveFails(r) \/ EraseFails(r)

HealthyNext == \E r \in Requests : Start(r) \/ Healthy(r) \/ Return(r)

Next == HealthyNext \/ Crash \/ \E r \in Requests : Fault(r)

Spec == Init /\ [][Next]_vars

-----------------------------------------------------------------------------
\* Every row that GET /file or a listing can return has its object in the
\* bucket: createFiles uploads before it inserts and deleteFile deletes the
\* row before the object, whatever fails or crashes in between.
RowHasObject == RowNames \subseteq bucket

\* A deleteFile or deleteFiles that succeeds has removed every file it read,
\* rows and objects, and none of them is back: names are never reused.
DeleteComplete ==
  \A r \in Requests :
    At(r, "done") => call[r].batch \cap (RowNames \cup bucket) = {}

\* The objects no row names and no call is about to record or erase.  No
\* code path looks for them, so they stay in the bucket for good.
Held == {call[r].name : r \in Requests}
Leaked == bucket \ (RowNames \cup Held)

\* An object is leaked only by a step in which S3, the database or the
\* process fails, never by the interleaving of calls that work.
NoSilentLeak == [][Leaked' \subseteq Leaked \/ ~HealthyNext]_vars

\* How far concurrent uploads overshoot the limit that checkFileLimit
\* compares with: every call but the last to count may add a full batch.
OvershootBounded ==
  \A o \in Fileables :
    Cardinality(FilesOf(o))
      <= Limit[o] + (Cardinality(Requests) - 1) * MaxBatch[o]

\* The limit as the user stories state it (docs/user-stories.md).
FileLimit == \A o \in Fileables : Cardinality(FilesOf(o)) <= Limit[o]
=============================================================================

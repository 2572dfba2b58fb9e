----------------------------- MODULE MCFileStore -----------------------------
(* The instance of FileStore that TLC explores. *)
EXTENDS FileStore, TLC

CONSTANTS
  OwnerLimit,   \* the limit of every owner: 2 is the limit of a comment
  OwnerBatch    \* the batch of every owner: 2 is what a comment accepts

MCLimit == [o \in Fileables |-> OwnerLimit]

MCMaxBatch == [o \in Fileables |-> OwnerBatch]

\* Calls, names and owners are interchangeable in every safety property.
Symmetric ==
  Permutations(Requests) \cup Permutations(Names) \cup Permutations(Fileables)
=============================================================================

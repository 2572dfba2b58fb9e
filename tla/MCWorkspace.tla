---------------------------- MODULE MCWorkspace ----------------------------
(* The instances of Workspace that TLC explores. *)
EXTENDS Workspace, TLC

CONSTANTS
  Admins, Managers,   \* the users with these roles; the others are team members
  OwnerLimit, OwnerBatch

MCRole == [u \in Users |-> IF u \in Admins THEN "ADMIN"
                           ELSE IF u \in Managers THEN "MANAGER" ELSE "TEAM_MEMBER"]

MCLimit == [o \in Fileables |-> OwnerLimit]

MCMaxBatch == [o \in Fileables |-> OwnerBatch]

\* Requests and ids of one kind are interchangeable.
Symmetric ==
  Permutations(Requests) \cup Permutations(Tasks) \cup Permutations(Comments)
    \cup Permutations(Names) \cup Permutations(Projects)
=============================================================================

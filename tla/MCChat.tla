------------------------------- MODULE MCChat -------------------------------
(* The instances of Chat that TLC explores. *)
EXTENDS Chat, TLC

Symmetric ==
  Permutations(Requests) \cup Permutations(Handlers) \cup Permutations(Users)
    \cup Permutations(Sockets) \cup Permutations(Chats) \cup Permutations(Messages)
=============================================================================

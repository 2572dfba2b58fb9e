----------------------------- MODULE MCAccounts -----------------------------
(* The instances of Accounts that TLC explores. *)
EXTENDS Accounts, TLC

\* Requests, passwords and tokens are interchangeable, and so are users.
Symmetric ==
  Permutations(Requests) \cup Permutations(Users)
    \cup Permutations(Passwords) \cup Permutations(Tokens)
=============================================================================

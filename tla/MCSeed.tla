------------------------------- MODULE MCSeed -------------------------------
(* The instance of Seed that TLC explores. *)
EXTENDS Seed, TLC
=============================================================================

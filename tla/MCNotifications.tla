-------------------------- MODULE MCNotifications --------------------------
(* The instances of Notifications that TLC explores. *)
EXTENDS Notifications
=============================================================================

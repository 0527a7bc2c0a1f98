--------------------------- MODULE MCNotification ---------------------------
(* The instances of Notification that TLC checks. *)
EXTENDS Notification
=============================================================================

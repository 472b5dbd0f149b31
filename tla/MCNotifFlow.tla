----------------------------- MODULE MCNotifFlow -----------------------------
(* TLC instance of NotifFlow. *)
EXTENDS NotifFlow
=============================================================================

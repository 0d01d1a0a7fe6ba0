--------------------------- MODULE MCGuestProcess ---------------------------
(* GuestProcess for TLC: the bounds are given in GuestProcess.cfg. *)
EXTENDS GuestProcess
=============================================================================

---------------------------- MODULE MCLockOrder ----------------------------
(* LockOrder for TLC: three guest threads and the pump. *)
EXTENDS LockOrder, TLC

CONSTANTS main, worker, audio, pump

MCGuests == {main, worker, audio}
MCSymmetry == Permutations(MCGuests)
=============================================================================

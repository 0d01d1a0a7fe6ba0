-------------------------- MODULE MCBumpAllocator --------------------------
(* BumpAllocator for TLC, in units of 4 KiB with a space of 2 MiB. *)
EXTENDS BumpAllocator

MCSizes == {0, 1, 17, 64, 100, 511}
MCAlignments == {0, 1, 16, 64}
=============================================================================

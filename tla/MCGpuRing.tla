----------------------------- MODULE MCGpuRing -----------------------------
(* GpuRing for TLC: a ring that packets of one to three dwords fill unevenly. *)
EXTENDS GpuRing

MCLengths == {1, 2, 3}
=============================================================================

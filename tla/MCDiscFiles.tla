----------------------------- MODULE MCDiscFiles -----------------------------
(* DiscFiles for TLC.  The look-ups: A < B < C < a < b as bytes, and three names    *)
(* without case.  The calls: two threads, a file of three units behind a table of   *)
(* one.                                                                             *)
EXTENDS DiscFiles

CONSTANTS t1, t2

MCNames == 1..5
MCFolded == [n \in MCNames |-> IF n > 3 THEN n - 3 ELSE n]
MCThreads == {t1, t2}
=============================================================================

---------------------------- MODULE MCDispatcher ----------------------------
(* Small instances of Dispatcher for TLC: the two threads of the host that run   *)
(* guest code from the start, and one of ExCreateThread.                         *)
EXTENDS Dispatcher, TLC

CONSTANTS main, pump, worker

MCThreads == {main, pump, worker}
MCBoot == {main, pump}
\* The threads that have no handle can be exchanged.
MCSymmetry == Permutations(MCBoot)

Mode(a, b) == [alertable |-> a, timed |-> b]
PlainModes == {Mode(FALSE, FALSE)}
TimedModes == {Mode(FALSE, TRUE)}
ApcModes == {Mode(TRUE, FALSE), Mode(FALSE, TRUE)}
=============================================================================

--------------------------- MODULE CommandStream ---------------------------
(***************************************************************************)
(* What a GPU promises the driver that fills its ring: the packets         *)
(* announced are executed once each, in the order they were announced, and *)
(* none is left.  Packets are numbered from 1.                             *)
(***************************************************************************)
EXTENDS Naturals, Sequences

VARIABLES
    announced,    \* how many packets lie below the announced write pointer
    executed      \* the packets executed, in order

Init == announced = 0 /\ executed = <<>>

Announce == announced' > announced /\ UNCHANGED executed

Execute ==
    /\ Len(executed) < announced
    /\ executed' = Append(executed, Len(executed) + 1)
    /\ UNCHANGED announced

Next == Announce \/ Execute

Spec == Init /\ [][Next]_<<announced, executed>> /\ WF_executed(Execute)
=============================================================================

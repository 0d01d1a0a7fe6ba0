--------------------------- MODULE FrameDrawList ---------------------------
(***************************************************************************)
(* host/gpu_draw_list.cpp and its three users: the GPU pump thread adds    *)
(* the draws it parses, the guest thread calls SwapReady in VdSwap, the    *)
(* render thread calls TakeReady once per display refresh and keeps the    *)
(* last batch it got.  Each call is one critical section of mutex_; the    *)
(* three threads run at rates of their own.  A draw is its number.         *)
(***************************************************************************)
EXTENDS Integers, Sequences

CONSTANT MaxDraws      \* bound: draws the pump thread parses

ASSUME DrawAssumption == MaxDraws \in Nat

VARIABLES
    building,     \* building_
    ready,        \* ready_
    lastDrawn,    \* g_lastDrawCommands of the render thread
    nextDraw      \* number of the next draw to be parsed

vars == <<building, ready, lastDrawn, nextDraw>>

Init ==
    /\ building = <<>> /\ ready = <<>> /\ lastDrawn = <<>>
    /\ nextDraw = 1

\* Pump thread, in a DRAW_INDX_2 packet.
AddDrawCommand ==
    /\ nextDraw <= MaxDraws
    /\ building' = Append(building, nextDraw)
    /\ nextDraw' = nextDraw + 1
    /\ UNCHANGED <<ready, lastDrawn>>

\* Variant: what SwapReady did at first, an empty list replacing the last frame.
BugSwapAlways ==
    /\ ready' = building
    /\ building' = <<>>
    /\ UNCHANGED <<lastDrawn, nextDraw>>

\* Variant: what has not been taken yet is kept in front of the new draws, but
\* the two are joined the wrong way round.
BugSwapPrepends ==
    /\ ready' = building \o ready
    /\ building' = <<>>
    /\ UNCHANGED <<lastDrawn, nextDraw>>

\* Guest thread, in VdSwap: an empty building_ means that nothing is new.
SwapReady ==
    /\ ready' = IF building # <<>> THEN building ELSE ready
    /\ building' = <<>>
    /\ UNCHANGED <<lastDrawn, nextDraw>>

\* Render thread, in drawInMTKView: TakeReady, and the cache of the last batch.
TakeReady ==
    /\ lastDrawn' = IF ready # <<>> THEN ready ELSE lastDrawn
    /\ ready' = <<>>
    /\ UNCHANGED <<building, nextDraw>>

Next == AddDrawCommand \/ SwapReady \/ TakeReady

Spec == Init /\ [][Next]_vars

\* The display link calls drawInMTKView while the window is visible.  Nothing
\* promises that the guest draws or swaps again.
FairSpec == Spec /\ WF_vars(TakeReady)

-----------------------------------------------------------------------------
Draws == Seq(1..MaxDraws)

TypeOK ==
    /\ building \in Draws /\ ready \in Draws /\ lastDrawn \in Draws
    /\ nextDraw \in 1..(MaxDraws + 1)

Sorted(s) == \A i, j \in DOMAIN s: i < j => s[i] < s[j]
Before(s, t) == \A i \in DOMAIN s, j \in DOMAIN t: s[i] < t[j]

\* Draws reach the screen in the order they were parsed and none is in two
\* lists: what is shown is older than what is ready, which is older than what
\* is being built.
DrawOrder ==
    /\ Sorted(lastDrawn) /\ Sorted(ready) /\ Sorted(building)
    /\ Before(lastDrawn, ready) /\ Before(lastDrawn, building) /\ Before(ready, building)

EndsWith(s, d) == s # <<>> /\ s[Len(s)] = d

\* The newest draw is never lost: a batch is given up only for a newer one, and
\* a swap with nothing new leaves the frame to be shown alone.
NewestKept ==
    nextDraw = 1 \/ \E s \in {lastDrawn, ready, building}: EndsWith(s, nextDraw - 1)

\* A batch that was swapped in is shown, or a newer one is.
ReadyIsShown ==
    \A d \in 1..MaxDraws:
        EndsWith(ready, d) ~> (lastDrawn # <<>> /\ lastDrawn[Len(lastDrawn)] >= d)
=============================================================================

----------------------------- MODULE Lifecycle -----------------------------
(***************************************************************************)
(* How the process ends: main() of host/main.cpp from the start of the     *)
(* guest on, with the event loop, its callbacks and the shutdown request   *)
(* of host/renderer_metal.mm.  Headless, main waits for the guest with a   *)
(* bound.  With a window, main runs the event loop; a watchdog thread      *)
(* waits for the guest and asks the loop to stop; the user may close the   *)
(* window; the display link may pause for good.  Any guest thread may end  *)
(* the process at any time, by KeBugCheck or HalReturnToFirmware of        *)
(* host/kernel_impl.cpp.                                                   *)
(***************************************************************************)
EXTENDS Naturals

CONSTANTS
    MaxFrames     \* bound: frames counted (the count does not matter above it)

ASSUME FramesAssumption == MaxFrames \in Nat

VARIABLES
    windowed,            \* --window
    guest,               \* _xstart: "running" or "returned"
    main,                \* where main() is
    watchdog,            \* where the watchdog thread is
    watchdogResult,      \* 1 stands for the -1 it starts with
    shutdownRequested,   \* g_shutdownRequested
    closedByUser,        \* g_closedByUser
    dispatched,          \* blocks on the main queue
    stopping,            \* -stop: has been called, and an event posted
    frames,              \* g_drawnFrameCount
    halted,              \* history: the kernel call by which the guest ended the process
    exitCode             \* 99 while the process lives

ending == <<halted, exitCode>>
vars == <<windowed, guest, main, watchdog, watchdogResult, shutdownRequested, closedByUser,
          dispatched, stopping, frames, ending>>
flags == <<shutdownRequested, closedByUser>>
loop == <<dispatched, stopping, frames>>

Alive == exitCode = 99
Unset == 1
LoopRuns == Alive /\ main = "loop"

-----------------------------------------------------------------------------
(* The guest, and the user. *)

GuestReturns ==
    /\ Alive /\ main # "start" /\ guest = "running"
    /\ guest' = "returned"
    /\ UNCHANGED <<windowed, main, watchdog, watchdogResult, flags, loop, ending>>

StopApplication == stopping' = TRUE

\* _Exit(code), from whatever thread
Exits(code) ==
    /\ Alive
    /\ exitCode' = code
    /\ main' = "over"
    /\ UNCHANGED <<windowed, guest, watchdog, watchdogResult, flags, loop>>

\* From any thread that runs guest code: _xstart's, those it has created, which go on when
\* it has returned, or the pump in an interrupt callback.
KeBugCheck == main # "start" /\ Exits(3) /\ halted' = "KeBugCheck"

HalReturnToFirmware == main # "start" /\ Exits(4) /\ halted' = "HalReturnToFirmware"

WindowWillClose ==
    /\ LoopRuns /\ ~closedByUser
    /\ closedByUser' = TRUE
    /\ shutdownRequested' = TRUE
    /\ StopApplication
    /\ UNCHANGED <<windowed, guest, main, watchdog, watchdogResult, dispatched, frames, ending>>

-----------------------------------------------------------------------------
(* The event loop. *)

DrawInMTKView ==
    /\ LoopRuns
    /\ IF shutdownRequested
       THEN StopApplication /\ UNCHANGED frames
       ELSE frames' = (IF frames < MaxFrames THEN frames + 1 ELSE frames) /\ UNCHANGED stopping
    /\ UNCHANGED <<windowed, guest, main, watchdog, watchdogResult, flags, dispatched, ending>>

MainQueueBlock ==
    /\ LoopRuns /\ dispatched > 0
    /\ dispatched' = dispatched - 1
    /\ StopApplication
    /\ UNCHANGED <<windowed, guest, main, watchdog, watchdogResult, flags, frames, ending>>

\* [NSApp run] returns after the event that follows -stop:.
RunEventLoopReturns ==
    /\ LoopRuns /\ stopping
    /\ main' = "closed?"
    /\ UNCHANGED <<windowed, guest, watchdog, watchdogResult, flags, loop, ending>>

-----------------------------------------------------------------------------
(* The watchdog thread. *)

GoesOn(at, next) == Alive /\ watchdog = at /\ watchdog' = next

\* future.wait_for: ten seconds have passed, or the guest has returned.
WatchdogWaitFor ==
    /\ GoesOn("wait", IF guest = "running" THEN "timeout" ELSE "returned")
    /\ UNCHANGED <<windowed, guest, main, watchdogResult, flags, loop, ending>>

StoreResult ==
    /\ \/ GoesOn("timeout", "request") /\ watchdogResult' = 2
       \/ GoesOn("returned", "request") /\ watchdogResult' = 0
    /\ UNCHANGED <<windowed, guest, main, flags, loop, ending>>

\* Variant: the flag alone; the next frame is trusted to notice it.
BugFlagOnly ==
    /\ GoesOn("request", "ended")
    /\ shutdownRequested' = TRUE
    /\ UNCHANGED <<windowed, guest, main, watchdogResult, closedByUser, loop, ending>>

\* Renderer_RequestShutdown: the flag, then a block for the main queue.
RequestShutdown ==
    \/ /\ GoesOn("request", "dispatch")
       /\ shutdownRequested' = TRUE
       /\ UNCHANGED <<windowed, guest, main, watchdogResult, closedByUser, loop, ending>>
    \/ /\ GoesOn("dispatch", "ended")
       /\ dispatched' = dispatched + 1
       /\ UNCHANGED <<windowed, guest, main, watchdogResult, flags, stopping, frames, ending>>

-----------------------------------------------------------------------------
(* main(). *)

Exit(code) == Exits(code) /\ UNCHANGED halted

Main(at, next) ==
    /\ Alive /\ main = at /\ main' = next
    /\ UNCHANGED <<windowed, guest, watchdogResult, flags, loop, ending>>

\* Renderer_Init finds no device.
NoDevice == Alive /\ main = "start" /\ windowed /\ Exit(1)

StartGuest ==
    IF windowed
    THEN Main("start", "loop") /\ watchdog' = "wait"
    ELSE Main("start", "wait") /\ UNCHANGED watchdog

HeadlessWaitFor ==
    /\ Alive /\ main = "wait"
    /\ IF guest = "running"
       THEN Exit(2) ELSE Main("wait", "return") /\ UNCHANGED watchdog

\* Variant: any request to shut down counts as the user's.
BugAnyShutdown ==
    IF shutdownRequested
    THEN Alive /\ main = "closed?" /\ Exit(3)
    ELSE Main("closed?", "join") /\ UNCHANGED watchdog

WasClosedByUser ==
    IF closedByUser
    THEN Alive /\ main = "closed?" /\ Exit(3)
    ELSE Main("closed?", "join") /\ UNCHANGED watchdog

JoinWatchdog ==
    /\ Alive /\ main = "join" /\ watchdog = "ended"
    /\ IF watchdogResult = 2
       THEN Exit(2) ELSE Main("join", "return") /\ UNCHANGED watchdog

\* return 0: the future's destructor waits for the guest, _Exit would not.
ReturnFromMain == Alive /\ main = "return" /\ guest = "returned" /\ Exit(0)

-----------------------------------------------------------------------------
Init ==
    /\ windowed \in BOOLEAN
    /\ guest = "running" /\ main = "start" /\ watchdog = "none"
    /\ watchdogResult = Unset
    /\ shutdownRequested = FALSE /\ closedByUser = FALSE
    /\ dispatched = 0 /\ stopping = FALSE /\ frames = 0
    /\ halted = "no" /\ exitCode = 99

MainThread ==
    \/ NoDevice \/ StartGuest \/ HeadlessWaitFor
    \/ MainQueueBlock \/ RunEventLoopReturns
    \/ WasClosedByUser \/ JoinWatchdog \/ ReturnFromMain

WatchdogThread == WatchdogWaitFor \/ StoreResult \/ RequestShutdown

Guest == GuestReturns \/ KeBugCheck \/ HalReturnToFirmware

Next == Guest \/ WindowWillClose \/ DrawInMTKView \/ MainThread \/ WatchdogThread

Spec == Init /\ [][Next]_vars

\* The main queue is served and the watchdog's time passes.  Neither the guest nor the
\* user nor the display link is relied on.
FairSpec == Spec /\ WF_vars(MainThread) /\ WF_vars(WatchdogThread)

-----------------------------------------------------------------------------
TypeOK ==
    /\ windowed \in BOOLEAN /\ guest \in {"running", "returned"}
    /\ main \in {"start", "wait", "loop", "closed?", "join", "return", "over"}
    /\ watchdog \in {"none", "wait", "timeout", "returned", "request", "dispatch", "ended"}
    /\ watchdogResult \in {Unset, 0, 2} /\ exitCode \in {99, 0, 1, 2, 3, 4}
    /\ shutdownRequested \in BOOLEAN /\ closedByUser \in BOOLEAN
    /\ dispatched \in 0..1 /\ stopping \in BOOLEAN /\ frames \in 0..MaxFrames
    /\ halted \in {"no", "KeBugCheck", "HalReturnToFirmware"}

\* What the exit code says, whichever of guest, watchdog and user came first and however
\* close they were.  0: the guest came back in time and the user had not closed the
\* window; 2: the ten seconds were over and the user had not; 4: the guest returned to the
\* firmware.  3 is given for two reasons, which it does not tell apart: the user had
\* closed the window and the guest has not halted meanwhile, or the guest's bug check.
ExitCodeTells ==
    /\ exitCode = 0 => guest = "returned" /\ ~closedByUser
                       /\ (windowed => watchdogResult = 0)
    /\ exitCode = 2 => ~closedByUser /\ (windowed => watchdogResult = 2)
    /\ exitCode = 3 <=> halted = "KeBugCheck" \/ (~Alive /\ closedByUser /\ halted = "no")
    /\ exitCode = 4 <=> halted = "HalReturnToFirmware"

\* The process ends: the loop stops although no frame may ever be drawn again, main
\* never waits for a watchdog that waits for it, and not in a destructor for the guest.
Ends == <>~Alive
=============================================================================

---------------------------- MODULE GuestProcess ----------------------------
(***************************************************************************)
(* Lifecycle and Notify: the guest asks for its notifications at any time  *)
(* while the process lives.  Its threads are detached, so that even when   *)
(* _xstart has returned they go on until the process has ended.            *)
(***************************************************************************)
EXTENDS Lifecycle, Notify

processVars == <<vars, notifyVars>>

ProcessInit == Init /\ NotifyInit

KernelCall ==
    /\ Alive /\ main # "start"
    /\ NotifyNext
    /\ UNCHANGED vars

ProcessStep == Next /\ UNCHANGED notifyVars

ProcessNext == ProcessStep \/ KernelCall

\* Neither the guest nor the user nor the display link is relied on.
ProcessSpec ==
    /\ ProcessInit /\ [][ProcessNext]_processVars
    /\ WF_processVars(MainThread /\ UNCHANGED notifyVars)
    /\ WF_processVars(WatchdogThread /\ UNCHANGED notifyVars)
=============================================================================

----------------------------- MODULE Dispatcher -----------------------------
(***************************************************************************)
(* The dispatcher of host/kernel_impl.cpp: the handle table, the events,   *)
(* mutants and thread objects in it, the wait on one handle, and the APC   *)
(* queues.  Guest code runs on real host threads, so the only things that  *)
(* are atomic are the critical sections of g_stateMutex.  An action is one *)
(* critical section; a notify_all made after the unlock is an action of    *)
(* its own (pc "notify", or "exit" in a thread that is ending).            *)
(*                                                                         *)
(* The condition variable g_handleSignalCv is in the program counters:     *)
(* "blocked" is inside the wait, "woken" is out of it and about to take    *)
(* the mutex and evaluate the predicate again.                             *)
(***************************************************************************)
EXTENDS Integers, Sequences

CONSTANTS
    Threads,      \* host threads that run guest code
    Boot,         \* the ones alive at start: g_currentThreadHandle is 0
    MaxHandle,    \* bound: handles g_nextHandle can give out
    MaxApc,       \* bound: APCs queued in a run
    MaxDepth,     \* bound: APC routines nested on one thread
    Calls,        \* the kernel calls the guest program makes
    WaitModes     \* how it waits: records [alertable, timed]

ASSUME DispatcherAssumption ==
    /\ Boot \subseteq Threads
    /\ WaitModes \subseteq [alertable: BOOLEAN, timed: BOOLEAN]
    /\ MaxHandle \in Nat /\ MaxApc \in Nat /\ MaxDepth \in Nat

VARIABLES
    pc,           \* where each thread is in the kernel call it makes
    self,         \* thread_local g_currentThreadHandle
    handleTable,  \* g_handleTable
    nextHandle,   \* g_nextHandle
    apcQueues,    \* g_apcQueues, an APC being the number it was queued under
    nextApc,
    wait,         \* arguments of the wait a thread is blocked in
    depth,        \* APC routines active on a thread
    credit,       \* history: 1 on a signal, one less per wait that consumes it
    silent,       \* history: handles signaled with no notify_all since
    lastRun       \* history: the last APC taken from a queue

vars == <<pc, self, handleTable, nextHandle, apcQueues, nextApc, wait, depth,
          credit, silent, lastRun>>

Handles == 0..MaxHandle             \* 0 is never in the table
Issued == 1..(nextHandle - 1)
States == {"off", "run", "notify", "exit", "blocked", "woken", "deliver", "ended"}
WaitArgs == [handle: Handles, alertable: BOOLEAN, timed: BOOLEAN]
NoWait == [handle |-> 0, alertable |-> FALSE, timed |-> FALSE]

Object(type, signaled, autoReset) ==
    [type |-> type, signaled |-> signaled, autoReset |-> autoReset]
Absent == Object("Absent", FALSE, FALSE)
Objects == [type: {"Absent", "Mutant", "Event", "Thread"},
            signaled: BOOLEAN, autoReset: BOOLEAN]

apcVars == <<apcQueues, nextApc, lastRun>>
objVars == <<handleTable, credit>>

(***************************************************************************)
(* Critical sections shared by several calls.                              *)
(***************************************************************************)
\* find(handle) and, if it is there, signaled = true
Signal(h) ==
    IF handleTable[h] # Absent
    THEN /\ handleTable' = [handleTable EXCEPT ![h].signaled = TRUE]
         /\ credit' = [credit EXCEPT ![h] = 1]
    ELSE UNCHANGED objVars

\* handle = g_nextHandle++; g_handleTable[handle] = obj
Insert(obj) ==
    /\ nextHandle <= MaxHandle
    /\ nextHandle' = nextHandle + 1
    /\ handleTable' = [handleTable EXCEPT ![nextHandle] = obj]
    /\ credit' = [credit EXCEPT ![nextHandle] = IF obj.signaled THEN 1 ELSE 0]

HasPendingApc(t) == apcQueues[self[t]] # <<>>

\* g_handleTable[handle]: operator[] default-constructs a missing entry
Lookup(h) ==
    IF handleTable[h] = Absent THEN Object("Mutant", FALSE, FALSE) ELSE handleTable[h]

\* Variant: an alertable wait that only looks at the object.
BugObjectOnly(t, w) == Lookup(w.handle).signaled

WakePredicate(t, w) ==
    \/ Lookup(w.handle).signaled
    \/ w.alertable /\ HasPendingApc(t)

\* Variant: a wait on a thread uses its signal up.
BugConsumeThread(obj) == obj.type # "Event" \/ obj.autoReset

Consumable(obj) == obj.type = "Mutant" \/ (obj.type = "Event" /\ obj.autoReset)

\* Variant: no object is ever reset by a wait.
BugNeverConsumed(obj) == obj

\* the object once consumeSignalOnAcquire has run
ConsumeSignalOnAcquire(obj) ==
    IF Consumable(obj) THEN [obj EXCEPT !.signaled = FALSE] ELSE obj

\* Variant: the signal is consumed before the APC queue is looked at.
BugConsumeBeforeApc(t, w) ==
    /\ wait' = [wait EXCEPT ![t] = NoWait]
    /\ pc' = [pc EXCEPT ![t] = IF w.alertable /\ HasPendingApc(t) THEN "deliver" ELSE "run"]
    /\ handleTable' = [handleTable EXCEPT ![w.handle] =
                          ConsumeSignalOnAcquire(Lookup(w.handle))]
    /\ credit' = IF Consumable(Lookup(w.handle)) /\ ~(w.alertable /\ HasPendingApc(t))
                 THEN [credit EXCEPT ![w.handle] = @ - 1] ELSE credit

\* Variant: an alertable wait that got through is always taken for interrupted.
BugAlwaysUserApc(t, w) ==
    /\ wait' = [wait EXCEPT ![t] = NoWait]
    /\ pc' = [pc EXCEPT ![t] = IF w.alertable THEN "deliver" ELSE "run"]
    /\ handleTable' = [handleTable EXCEPT ![w.handle] =
                          IF w.alertable THEN Lookup(w.handle)
                          ELSE ConsumeSignalOnAcquire(Lookup(w.handle))]
    /\ credit' = IF ~w.alertable /\ Consumable(Lookup(w.handle))
                 THEN [credit EXCEPT ![w.handle] = @ - 1] ELSE credit

\* Under the lock, the predicate true.  A pending APC goes first and leaves
\* the object as it is; otherwise the wait returns STATUS_SUCCESS.
Acquire(t, w) ==
    /\ wait' = [wait EXCEPT ![t] = NoWait]
    /\ IF w.alertable /\ HasPendingApc(t)
       THEN /\ pc' = [pc EXCEPT ![t] = "deliver"]
            /\ handleTable' = [handleTable EXCEPT ![w.handle] = Lookup(w.handle)]
            /\ UNCHANGED credit
       ELSE /\ pc' = [pc EXCEPT ![t] = "run"]
            /\ handleTable' = [handleTable EXCEPT ![w.handle] =
                                  ConsumeSignalOnAcquire(Lookup(w.handle))]
            /\ credit' = IF Consumable(Lookup(w.handle))
                         THEN [credit EXCEPT ![w.handle] = @ - 1] ELSE credit

\* Under the lock, the predicate false.
Block(t, w) ==
    /\ wait' = [wait EXCEPT ![t] = w]
    /\ pc' = [pc EXCEPT ![t] = "blocked"]
    /\ handleTable' = [handleTable EXCEPT ![w.handle] = Lookup(w.handle)]
    /\ UNCHANGED credit

(***************************************************************************)
(* Creating objects and threads.                                           *)
(***************************************************************************)
NtCreateMutant(t, initialOwner) ==
    /\ pc[t] = "run"
    /\ Insert(Object("Mutant", ~initialOwner, FALSE))
    /\ UNCHANGED <<pc, self, apcVars, wait, depth, silent>>

NtCreateEvent(t, autoReset, initialState) ==
    /\ pc[t] = "run"
    /\ Insert(Object("Event", initialState, autoReset))
    /\ UNCHANGED <<pc, self, apcVars, wait, depth, silent>>

\* Variant: the thread is given the counter's value after the increment.
BugThreadGetsNextHandle(t, new) ==
    /\ pc[t] = "run" /\ pc[new] = "off"
    /\ Insert(Object("Thread", FALSE, FALSE))
    /\ pc' = [pc EXCEPT ![new] = "run"]
    /\ self' = [self EXCEPT ![new] = nextHandle + 1]
    /\ UNCHANGED <<apcVars, wait, depth, silent>>

\* The handle exists before the thread runs; the host thread is detached.
ExCreateThread(t, new) ==
    /\ pc[t] = "run" /\ pc[new] = "off"
    /\ Insert(Object("Thread", FALSE, FALSE))
    /\ pc' = [pc EXCEPT ![new] = "run"]
    /\ self' = [self EXCEPT ![new] = nextHandle]
    /\ UNCHANGED <<apcVars, wait, depth, silent>>

(***************************************************************************)
(* Signalling, closing, queueing APCs.                                     *)
(***************************************************************************)
\* Variant: sets the event and tells nobody.
BugSetWithoutNotify(t, h) ==
    /\ pc[t] = "run"
    /\ Signal(h)
    /\ UNCHANGED <<pc, self, nextHandle, apcVars, wait, depth, silent>>

NtSetEvent(t, h) ==
    /\ pc[t] = "run"
    /\ Signal(h)
    /\ pc' = [pc EXCEPT ![t] = "notify"]
    /\ UNCHANGED <<self, nextHandle, apcVars, wait, depth, silent>>

\* No notify_all, and no check of the object's type or of who owns it.
NtReleaseMutant(t, h) ==
    /\ pc[t] = "run"
    /\ Signal(h)
    /\ silent' = silent \cup {h}
    /\ UNCHANGED <<pc, self, nextHandle, apcVars, wait, depth>>

NtClose(t, h) ==
    /\ pc[t] = "run"
    /\ handleTable' = [handleTable EXCEPT ![h] = Absent]
    /\ UNCHANGED <<pc, self, nextHandle, apcVars, wait, depth, credit, silent>>

\* Variant: push_front.
BugQueueInFront(t, h) ==
    /\ pc[t] = "run" /\ nextApc <= MaxApc
    /\ apcQueues' = [apcQueues EXCEPT ![h] = <<nextApc>> \o @]
    /\ nextApc' = nextApc + 1
    /\ pc' = [pc EXCEPT ![t] = "notify"]
    /\ UNCHANGED <<self, objVars, nextHandle, wait, depth, silent, lastRun>>

\* The target is not looked up: the queue of a closed handle exists too.
NtQueueApcThread(t, h) ==
    /\ pc[t] = "run" /\ nextApc <= MaxApc
    /\ apcQueues' = [apcQueues EXCEPT ![h] = Append(@, nextApc)]
    /\ nextApc' = nextApc + 1
    /\ pc' = [pc EXCEPT ![t] = "notify"]
    /\ UNCHANGED <<self, objVars, nextHandle, wait, depth, silent, lastRun>>

\* Marking the thread's own handle, if it has one.
ThreadEnds(t) ==
    /\ IF self[t] # 0 THEN Signal(self[t]) ELSE UNCHANGED objVars
    /\ pc' = [pc EXCEPT ![t] = "exit"]
    /\ UNCHANGED <<self, nextHandle, apcVars, wait, depth, silent>>

ExTerminateThread(t) == pc[t] = "run" /\ ThreadEnds(t)

\* The entry function of a thread of ExCreateThread returns.
EntryReturns(t) == pc[t] = "run" /\ depth[t] = 0 /\ self[t] # 0 /\ ThreadEnds(t)

\* Variant: notify_one.
BugNotifyOne(t) ==
    /\ pc[t] \in {"notify", "exit"}
    /\ \E u \in Threads:
          /\ pc[u] = "blocked" \/ (u = t /\ \A v \in Threads: pc[v] # "blocked")
          /\ pc' = [v \in Threads |->
                      IF v = t THEN IF pc[t] = "exit" THEN "ended" ELSE "run"
                      ELSE IF v = u THEN "woken" ELSE pc[v]]
    /\ silent' = {}
    /\ UNCHANGED <<self, objVars, nextHandle, apcVars, wait, depth>>

\* g_handleSignalCv.notify_all()
NotifyAll(t) ==
    /\ pc[t] \in {"notify", "exit"}
    /\ pc' = [u \in Threads |->
                IF u = t THEN IF pc[t] = "exit" THEN "ended" ELSE "run"
                ELSE IF pc[u] = "blocked" THEN "woken" ELSE pc[u]]
    /\ silent' = {}
    /\ UNCHANGED <<self, objVars, nextHandle, apcVars, wait, depth>>

(***************************************************************************)
(* NtWaitForSingleObjectEx.                                                *)
(***************************************************************************)
NtWaitForSingleObjectEx(t, w) ==
    /\ pc[t] = "run"
    /\ w.alertable => depth[t] < MaxDepth
    /\ handleTable[w.handle] # Absent      \* or STATUS_INVALID_HANDLE, no change
    /\ IF WakePredicate(t, w) THEN Acquire(t, w) ELSE Block(t, w)
    /\ UNCHANGED <<self, nextHandle, apcVars, depth, silent>>

\* Out of the condition variable, mutex taken: the predicate decides.
Reacquire(t) ==
    /\ pc[t] = "woken"
    /\ IF WakePredicate(t, wait[t]) THEN Acquire(t, wait[t]) ELSE Block(t, wait[t])
    /\ UNCHANGED <<self, nextHandle, apcVars, depth, silent>>

\* wait_for returns the predicate's value when its time is up, also when a
\* notify_all or a spurious wake-up came first: STATUS_TIMEOUT if it is false.
TimeUp(t) ==
    /\ pc[t] \in {"blocked", "woken"} /\ wait[t].timed
    /\ IF WakePredicate(t, wait[t])
       THEN Acquire(t, wait[t])
       ELSE /\ wait' = [wait EXCEPT ![t] = NoWait]
            /\ pc' = [pc EXCEPT ![t] = "run"]
            /\ handleTable' = [handleTable EXCEPT ![wait[t].handle] = Lookup(wait[t].handle)]
            /\ UNCHANGED credit
    /\ UNCHANGED <<self, nextHandle, apcVars, depth, silent>>

\* A std::condition_variable may wake with no notify.
SpuriousWake(t) ==
    /\ pc[t] = "blocked"
    /\ pc' = [pc EXCEPT ![t] = "woken"]
    /\ UNCHANGED <<self, objVars, nextHandle, apcVars, wait, depth, silent>>

\* The wait has dropped the lock; TryDeliverOneApc takes it again, pops one
\* entry and calls the guest routine outside it.  A wait that finds the queue
\* empty now returns STATUS_USER_APC all the same.
TryDeliverOneApc(t) ==
    /\ pc[t] = "deliver"
    /\ pc' = [pc EXCEPT ![t] = "run"]
    /\ IF apcQueues[self[t]] # <<>>
       THEN /\ apcQueues' = [apcQueues EXCEPT ![self[t]] = Tail(@)]
            /\ lastRun' = [lastRun EXCEPT ![self[t]] = Head(apcQueues[self[t]])]
            /\ depth' = [depth EXCEPT ![t] = @ + 1]
       ELSE UNCHANGED <<apcQueues, lastRun, depth>>
    /\ UNCHANGED <<self, objVars, nextHandle, nextApc, wait, silent>>

\* The APC routine returns into the wait, which returns STATUS_USER_APC.
ApcReturns(t) ==
    /\ pc[t] = "run" /\ depth[t] > 0
    /\ depth' = [depth EXCEPT ![t] = @ - 1]
    /\ UNCHANGED <<pc, self, objVars, nextHandle, apcVars, wait, silent>>

-----------------------------------------------------------------------------
Init ==
    /\ pc = [t \in Threads |-> IF t \in Boot THEN "run" ELSE "off"]
    /\ self = [t \in Threads |-> 0]
    /\ handleTable = [h \in Handles |-> Absent]
    /\ nextHandle = 1
    /\ apcQueues = [h \in Handles |-> <<>>]
    /\ nextApc = 1
    /\ wait = [t \in Threads |-> NoWait]
    /\ depth = [t \in Threads |-> 0]
    /\ credit = [h \in Handles |-> 0]
    /\ silent = {}
    /\ lastRun = [h \in Handles |-> 0]

\* The guest is unknown code: it makes any call of Calls, at any time, with any
\* handle it was given.
GuestCall(t) ==
    \/ "NtCreateMutant" \in Calls /\ \E b \in BOOLEAN: NtCreateMutant(t, b)
    \/ "NtCreateEvent" \in Calls /\ \E a, b \in BOOLEAN: NtCreateEvent(t, a, b)
    \/ "ExCreateThread" \in Calls /\ \E new \in Threads: ExCreateThread(t, new)
    \/ "NtSetEvent" \in Calls /\ \E h \in Issued: NtSetEvent(t, h)
    \/ "NtReleaseMutant" \in Calls /\ \E h \in Issued: NtReleaseMutant(t, h)
    \/ "NtClose" \in Calls /\ \E h \in Issued: NtClose(t, h)
    \/ \E u \in Threads: self[u] # 0 /\ NtQueueApcThread(t, self[u])
    \/ \E h \in Issued, m \in WaitModes:
          NtWaitForSingleObjectEx(t, [handle |-> h, alertable |-> m.alertable, timed |-> m.timed])
    \/ "ExTerminateThread" \in Calls /\ ExTerminateThread(t)
    \/ EntryReturns(t)
    \/ ApcReturns(t)

\* What a thread does inside a call without the guest choosing it.
KernelStep(t) == NotifyAll(t) \/ Reacquire(t) \/ TryDeliverOneApc(t)

Next == \E t \in Threads: GuestCall(t) \/ KernelStep(t) \/ TimeUp(t) \/ SpuriousWake(t)

Spec == Init /\ [][Next]_vars

\* A host thread that can run is run; a relative timeout expires.  No spurious
\* wake-up and no call by the guest is ever promised.
Fairness == \A t \in Threads: WF_vars(KernelStep(t)) /\ WF_vars(TimeUp(t))

FairSpec == Spec /\ Fairness

-----------------------------------------------------------------------------
TypeOK ==
    /\ pc \in [Threads -> States]
    /\ self \in [Threads -> Handles]
    /\ handleTable \in [Handles -> Objects]
    /\ nextHandle \in 1..(MaxHandle + 1)
    /\ apcQueues \in [Handles -> Seq(Nat)]
    /\ nextApc \in 1..(MaxApc + 1)
    /\ wait \in [Threads -> WaitArgs]
    /\ depth \in [Threads -> Nat]
    /\ credit \in [Handles -> Int]
    /\ silent \subseteq Handles
    /\ lastRun \in [Handles -> Nat]

\* No thread sleeps on a condition that holds: if a blocked thread's predicate
\* is true, a notify_all is on its way, or the signal came from NtReleaseMutant,
\* which sends none.  (Every set-then-notify of kernel_impl.cpp is outside the
\* lock; a waiter that tests the predicate in between must not be lost.)
NoLostWakeup ==
    \A t \in Threads:
        pc[t] = "blocked" /\ WakePredicate(t, wait[t]) =>
            \/ \E u \in Threads: pc[u] \in {"notify", "exit"}
            \/ wait[t].handle \in silent

\* The same for the waiters of a mutant, without the exception: what the design
\* of the condition variable says ("notified on every handle-state change").
ReleaseWakesWaiter ==
    \A t \in Threads:
        /\ pc[t] = "blocked" /\ WakePredicate(t, wait[t])
        /\ handleTable[wait[t].handle].type = "Mutant"
        => \E u \in Threads: pc[u] \in {"notify", "exit"}

\* One signal of a mutant or an auto-reset event lets at most one wait
\* through, however the waits, time-outs, APCs and closes interleave.
OneWaitPerSignal ==
    \A h \in Handles: credit[h] \in {0, 1} /\ (handleTable[h].signaled => credit[h] = 1)

\* A thread that has seen a pending APC and dropped the lock still finds it
\* when it takes the lock again, so STATUS_USER_APC means that an APC ran.
\* (Threads with handle 0 share one queue and are left out.)
UserApcHasApc ==
    \A t \in Threads: pc[t] = "deliver" /\ self[t] # 0 => apcQueues[self[t]] # <<>>

\* Every APC runs at most once and the APCs of a thread run in the order
\* they were queued, whichever waits they interrupt.
ApcOrder ==
    \A h \in Handles:
        /\ \A i \in DOMAIN apcQueues[h]: lastRun[h] < apcQueues[h][i]
        /\ \A i, j \in DOMAIN apcQueues[h]: i < j => apcQueues[h][i] < apcQueues[h][j]

\* The handle of a thread that has ended is signaled and stays so however many
\* threads wait for it, until it is closed (a closed one may come back, but
\* as a mutant).
EndedIsSignaled ==
    \A t \in Threads:
        /\ pc[t] \in {"exit", "ended"}
        /\ handleTable[self[t]].type = "Thread"
        => handleTable[self[t]].signaled

\* A signal disappears only into a wait that returns STATUS_SUCCESS, or with
\* the handle: neither a time-out nor an APC delivery swallows it.
SignalNotLost ==
    [][\A h \in Handles:
          /\ handleTable[h].signaled
          /\ handleTable'[h] # Absent
          /\ ~handleTable'[h].signaled
          => credit'[h] = credit[h] - 1]_vars

\* Whoever waits for a thread that ends gets out of the wait, unless the
\* handle is closed meanwhile.
JoinersWake ==
    \A t, u \in Threads:
        (/\ pc[t] \in {"blocked", "woken"} /\ pc[u] \in {"exit", "ended"}
         /\ self[u] # 0 /\ wait[t].handle = self[u])
        ~> (pc[t] \notin {"blocked", "woken"} \/ handleTable[self[u]].type # "Thread")

\* An APC queued to a thread in an alertable wait gets it out of the wait,
\* whether or not the object is ever signaled.
ApcsInterruptWaits ==
    \A t \in Threads:
        (/\ pc[t] \in {"blocked", "woken"}
         /\ wait[t].alertable /\ apcQueues[self[t]] # <<>>)
        ~> (pc[t] \notin {"blocked", "woken"})
=============================================================================

----------------------------- MODULE LockOrder -----------------------------
(***************************************************************************)
(* The locks of the host and the calls that hold one while they take       *)
(* another: g_stateMutex of host/kernel_impl.cpp, the recursive mutex_ of  *)
(* the GPU tracer, and one guest critical section.  A call is the list of  *)
(* its lock operations, with the reads and writes of what they protect     *)
(* between them.  The pump thread scans with the tracer locked and runs    *)
(* the guest's interrupt callback inside the scan.                         *)
(***************************************************************************)
EXTENDS Naturals, Sequences

CONSTANTS
    Guests, Pump,       \* guest threads; the GPU pump thread
    InCallback,         \* the calls that the interrupt callback may make
    InSection,          \* the calls that a guest makes inside its critical section
    BufferFirst,        \* the guest registers no callback before it has the buffer
    MaxBuffers          \* bound: allocations, one in a correct run

Threads == Guests \cup {Pump}
Locks == {"state", "tracer", "section"}
Recursive == {"tracer", "section"}
CallNames == {"kernel", "tracer", "section"}

ASSUME LockAssumption ==
    /\ Pump \notin Guests /\ InCallback \subseteq CallNames
    /\ InSection \subseteq CallNames \ {"section"}
    /\ BufferFirst \in BOOLEAN /\ MaxBuffers \in Nat

VARIABLES
    code,         \* per thread, what is left of the calls it is in
    held,         \* per thread, how many times it holds each lock
    callback,     \* graphicsInterruptCallback_ is set
    address,      \* g_systemCommandBufferAddr: 0, or the number of the allocation
    traced,       \* systemCmdBufAddr_ of the tracer, likewise
    allocated     \* how many times the buffer was allocated

vars == <<code, held, callback, address, traced, allocated>>

Lock(l) == <<[op |-> "lock", lock |-> l]>>
Unlock(l) == <<[op |-> "unlock", lock |-> l]>>
Do(op) == <<[op |-> op, lock |-> "none"]>>

-----------------------------------------------------------------------------
(* The calls. *)

\* Every kernel call that uses shared state: NtSetEvent, NtClose, ...
KernelCall == Lock("state") \o Unlock("state")

\* RegisterRingBuffer, the Set calls, HasRingBuffer, ObserveWritePointer, ...
TracerCall == Lock("tracer") \o Unlock("tracer")

\* Variant: the critical section is locked with g_stateMutex still held.
BugEnterUnderState == Lock("state") \o Lock("section") \o Unlock("state")

\* GetCriticalSection looks the mutex up under g_stateMutex; it is locked after.
RtlEnterCriticalSection == KernelCall \o Lock("section")
RtlLeaveCriticalSection == KernelCall \o Unlock("section")

VdGetSystemCommandBuffer == Do("check")

\* Its first call, under g_stateMutex.  RegisterSystemCommandBuffer locks the tracer.
AllocateBuffer ==
    Do("allocate") \o Lock("tracer") \o Do("trace") \o Unlock("tracer") \o Unlock("state")

\* Variant: the address is not looked at again under the lock.
BugNoRecheck == Lock("state") \o AllocateBuffer

\* What follows a check that found no address
SecondCheck == Lock("state") \o Do("recheck")

VdSetGraphicsInterruptCallback == Lock("tracer") \o Do("register") \o Unlock("tracer")

ScanAndTraceFrame == Lock("tracer") \o Do("scan")

Body(name) ==
    CASE name = "kernel" -> KernelCall
      [] name = "tracer" -> TracerCall
      [] name = "section" -> RtlEnterCriticalSection \o RtlLeaveCriticalSection
-----------------------------------------------------------------------------
(* Steps inside a call. *)

At(t, op) == code[t] # <<>> /\ Head(code[t]).op = op
Goes(t, rest) == code' = [code EXCEPT ![t] = rest]
Continues(t) == Goes(t, Tail(code[t]))

Holds(t, l) == held[t][l] > 0

\* std::mutex is not recursive: a second lock by its owner would never return.
Available(t, l) ==
    /\ \A u \in Threads \ {t}: ~Holds(u, l)
    /\ l \notin Recursive => ~Holds(t, l)

Acquire(t) ==
    /\ At(t, "lock") /\ Available(t, Head(code[t]).lock)
    /\ held' = [held EXCEPT ![t][Head(code[t]).lock] = @ + 1]
    /\ Continues(t)
    /\ UNCHANGED <<callback, address, traced, allocated>>

Release(t) ==
    /\ At(t, "unlock")
    /\ held' = [held EXCEPT ![t][Head(code[t]).lock] = @ - 1]
    /\ Continues(t)
    /\ UNCHANGED <<callback, address, traced, allocated>>

\* The read of g_systemCommandBufferAddr outside the lock
Check(t) ==
    /\ At(t, "check")
    /\ Goes(t, IF address = 0 THEN SecondCheck \o Tail(code[t]) ELSE Tail(code[t]))
    /\ UNCHANGED <<held, callback, address, traced, allocated>>

\* ... and the one inside it
Recheck(t) ==
    /\ At(t, "recheck")
    /\ Goes(t, (IF address = 0 THEN AllocateBuffer ELSE Unlock("state")) \o Tail(code[t]))
    /\ UNCHANGED <<held, callback, address, traced, allocated>>

Allocate(t) ==
    /\ At(t, "allocate") /\ allocated < MaxBuffers
    /\ allocated' = allocated + 1
    /\ address' = allocated + 1
    /\ Continues(t)
    /\ UNCHANGED <<held, callback, traced>>

\* RegisterSystemCommandBuffer keeps the first address it is given.
Trace(t) ==
    /\ At(t, "trace")
    /\ traced' = IF traced = 0 THEN address ELSE traced
    /\ Continues(t)
    /\ UNCHANGED <<held, callback, address, allocated>>

Register(t) ==
    /\ At(t, "register")
    /\ callback' = TRUE
    /\ Continues(t)
    /\ UNCHANGED <<held, address, traced, allocated>>

\* A PM4_INTERRUPT packet, when a callback is registered
Interrupt(t) ==
    /\ At(t, "scan") /\ callback
    /\ \E name \in InCallback: Goes(t, Body(name) \o code[t])
    /\ UNCHANGED <<held, callback, address, traced, allocated>>

ScanEnds(t) ==
    /\ At(t, "scan")
    /\ Goes(t, Unlock("tracer") \o Tail(code[t]))
    /\ UNCHANGED <<held, callback, address, traced, allocated>>

-----------------------------------------------------------------------------
(* What a thread starts when it is in no call. *)

Idle(t) == code[t] = <<>>

GuestCalls(t) ==
    /\ t \in Guests /\ Idle(t)
    /\ \/ Goes(t, KernelCall)
       \/ Goes(t, TracerCall)
       \/ Goes(t, VdGetSystemCommandBuffer)
    /\ UNCHANGED <<held, callback, address, traced, allocated>>

\* A stretch of guest code in its critical section, with one call inside.
GuestSection(t) ==
    /\ t \in Guests /\ Idle(t)
    /\ \E name \in InSection:
          Goes(t, RtlEnterCriticalSection \o Body(name) \o RtlLeaveCriticalSection)
    /\ UNCHANGED <<held, callback, address, traced, allocated>>

GuestRegisters(t) ==
    /\ t \in Guests /\ Idle(t)
    /\ BufferFirst => traced # 0
    /\ Goes(t, VdSetGraphicsInterruptCallback)
    /\ UNCHANGED <<held, callback, address, traced, allocated>>

PumpTick ==
    /\ Idle(Pump)
    /\ Goes(Pump, TracerCall \o TracerCall \o ScanAndTraceFrame)
    /\ UNCHANGED <<held, callback, address, traced, allocated>>

Init ==
    /\ code = [t \in Threads |-> <<>>]
    /\ held = [t \in Threads |-> [l \in Locks |-> 0]]
    /\ callback = FALSE
    /\ address = 0 /\ traced = 0 /\ allocated = 0

Steps(t) ==
    \/ Acquire(t) \/ Release(t) \/ Check(t) \/ Recheck(t) \/ Allocate(t) \/ Trace(t)
    \/ Register(t) \/ Interrupt(t) \/ ScanEnds(t)
    \/ GuestCalls(t) \/ GuestSection(t) \/ GuestRegisters(t)

Next == PumpTick \/ \E t \in Threads: Steps(t)

Spec == Init /\ [][Next]_vars

-----------------------------------------------------------------------------
\* t wants a lock that u has: another thread, or itself when the lock is not recursive
Blocks(u, t) ==
    /\ At(t, "lock") /\ Holds(u, Head(code[t]).lock)
    /\ u = t => Head(code[t]).lock \notin Recursive

\* No set of threads waits for locks that only its own members could release.
NoWaitCycle ==
    \A S \in (SUBSET Threads) \ {{}}: \E t \in S: \A u \in S: ~Blocks(u, t)

\* The kernel and the tracer agree on the system command buffer whenever nobody is
\* between the two: it is allocated once, and the one that is scanned is the one that
\* VdGetSystemCommandBuffer hands out.
OneSystemBuffer ==
    /\ allocated <= 1
    /\ (\A t \in Threads: ~Holds(t, "state")) => traced = address
=============================================================================

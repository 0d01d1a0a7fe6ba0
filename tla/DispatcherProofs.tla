-------------------------- MODULE DispatcherProofs --------------------------
(***************************************************************************)
(* Proofs about Dispatcher, for any number of threads, handles and APCs.   *)
(***************************************************************************)
EXTENDS Dispatcher, TLAPS

(***************************************************************************)
(* Types.                                                                  *)
(***************************************************************************)
\* Every object that a critical section builds is an object.
LEMMA ObjectTypes ==
    /\ Absent \in Objects
    /\ NoWait \in WaitArgs
    /\ \A a, b \in BOOLEAN: /\ Object("Mutant", a, b) \in Objects
                            /\ Object("Event", a, b) \in Objects
                            /\ Object("Thread", a, b) \in Objects
BY DispatcherAssumption DEF Absent, Objects, Object, NoWait, WaitArgs, Handles

\* g_handleTable[handle] and consumeSignalOnAcquire give objects.
LEMMA LookupType ==
    ASSUME TypeOK, NEW h \in Handles
    PROVE  Lookup(h) \in Objects /\ ConsumeSignalOnAcquire(Lookup(h)) \in Objects
<1>1. Lookup(h) \in Objects
  BY ObjectTypes DEF Lookup, TypeOK
<1>2. ASSUME NEW o \in Objects PROVE ConsumeSignalOnAcquire(o) \in Objects
  BY DEF ConsumeSignalOnAcquire, Objects
<1> QED BY <1>1, <1>2

\* Signal, Insert, Acquire and Block keep the types of what they write.
LEMMA SignalType ==
    ASSUME TypeOK, NEW h \in Handles, Signal(h)
    PROVE  handleTable' \in [Handles -> Objects] /\ credit' \in [Handles -> Int]
<1>1. CASE handleTable[h] # Absent
  <2>1. \A o \in Objects: [o EXCEPT !.signaled = TRUE] \in Objects
    BY DEF Objects
  <2>2. handleTable' = [handleTable EXCEPT ![h] = [handleTable[h] EXCEPT !.signaled = TRUE]]
    BY <1>1 DEF Signal
  <2>3. credit' = [credit EXCEPT ![h] = 1]
    BY <1>1 DEF Signal
  <2> QED BY <2>1, <2>2, <2>3 DEF TypeOK
<1>2. CASE handleTable[h] = Absent
  BY <1>2 DEF Signal, objVars, TypeOK
<1> QED BY <1>1, <1>2

LEMMA InsertType ==
    ASSUME TypeOK, NEW o \in Objects, Insert(o)
    PROVE  /\ handleTable' \in [Handles -> Objects] /\ credit' \in [Handles -> Int]
           /\ nextHandle \in Handles /\ nextHandle' \in 1..(MaxHandle + 1)
<1>1. nextHandle \in Handles /\ nextHandle' \in 1..(MaxHandle + 1)
  BY DispatcherAssumption DEF TypeOK, Insert, Handles
<1> QED BY <1>1 DEF TypeOK, Insert

LEMMA AcquireType ==
    ASSUME TypeOK, NEW t \in Threads, NEW w \in WaitArgs, Acquire(t, w)
    PROVE  /\ handleTable' \in [Handles -> Objects] /\ credit' \in [Handles -> Int]
           /\ pc' \in [Threads -> States] /\ wait' \in [Threads -> WaitArgs]
<1>1. w.handle \in Handles
  BY DEF WaitArgs
<1>2. handleTable' \in [Handles -> Objects]
  <2>1. /\ Lookup(w.handle) \in Objects /\ ConsumeSignalOnAcquire(Lookup(w.handle)) \in Objects
        /\ \/ handleTable' = [handleTable EXCEPT ![w.handle] = Lookup(w.handle)]
           \/ handleTable' = [handleTable EXCEPT ![w.handle] =
                                 ConsumeSignalOnAcquire(Lookup(w.handle))]
    BY <1>1, LookupType, Zenon DEF Acquire
  <2> QED BY <1>1, <2>1 DEF TypeOK
<1>3. credit' \in [Handles -> Int]
  <2>1. credit' = credit \/ credit' = [credit EXCEPT ![w.handle] = credit[w.handle] - 1]
    BY <1>1 DEF Acquire
  <2>2. credit \in [Handles -> Int]
    BY DEF TypeOK
  <2> QED BY <1>1, <2>1, <2>2
<1>4. pc' \in [Threads -> States] /\ wait' \in [Threads -> WaitArgs]
  BY ObjectTypes DEF TypeOK, Acquire, States
<1> QED BY <1>2, <1>3, <1>4

LEMMA BlockType ==
    ASSUME TypeOK, NEW t \in Threads, NEW w \in WaitArgs, Block(t, w)
    PROVE  /\ handleTable' \in [Handles -> Objects] /\ credit' \in [Handles -> Int]
           /\ pc' \in [Threads -> States] /\ wait' \in [Threads -> WaitArgs]
<1>1. w.handle \in Handles
  BY DEF WaitArgs
<1> QED BY <1>1, LookupType, ObjectTypes DEF TypeOK, Block, States

LEMMA IssuedAreHandles == TypeOK => Issued \subseteq Handles
BY DispatcherAssumption DEF TypeOK, Issued, Handles

\* The cases of a step, as the proofs below go through them.
LEMMA NextCases ==
    ASSUME TypeOK, [Next]_vars
    PROVE  \/ UNCHANGED vars
           \/ \E t \in Threads:
                \/ \E b \in BOOLEAN: NtCreateMutant(t, b)
                \/ \E a, b \in BOOLEAN: NtCreateEvent(t, a, b)
                \/ \E new \in Threads: ExCreateThread(t, new)
                \/ \E h \in Issued: NtSetEvent(t, h) \/ NtReleaseMutant(t, h) \/ NtClose(t, h)
                \/ \E h \in Handles: NtQueueApcThread(t, h)
                \/ \E w \in WaitArgs: w.handle \in Issued /\ NtWaitForSingleObjectEx(t, w)
                \/ pc[t] = "run" /\ ThreadEnds(t)
                \/ ApcReturns(t) \/ NotifyAll(t) \/ Reacquire(t)
                \/ TryDeliverOneApc(t) \/ TimeUp(t) \/ SpuriousWake(t)
<1>1. CASE UNCHANGED vars
  BY <1>1
<1>2. CASE Next
  <2>1. PICK t \in Threads: GuestCall(t) \/ KernelStep(t) \/ TimeUp(t) \/ SpuriousWake(t)
    BY <1>2 DEF Next
  <2>2. CASE GuestCall(t)
    <3>1. \A h \in Issued, m \in WaitModes:
             /\ [handle |-> h, alertable |-> m.alertable, timed |-> m.timed] \in WaitArgs
             /\ [handle |-> h, alertable |-> m.alertable, timed |-> m.timed].handle \in Issued
      BY DispatcherAssumption, IssuedAreHandles DEF WaitArgs
    <3>2. \A u \in Threads: self[u] \in Handles
      BY DEF TypeOK
    <3> QED BY <2>2, <3>1, <3>2 DEF GuestCall, ExTerminateThread, EntryReturns
  <2>3. CASE KernelStep(t)
    BY <2>3 DEF KernelStep
  <2> QED BY <2>1, <2>2, <2>3
<1> QED BY <1>1, <1>2

\* One step of the dispatcher keeps its variables in their types.
LEMMA TypeStep == TypeOK /\ [Next]_vars => TypeOK'
<1> SUFFICES ASSUME TypeOK, [Next]_vars PROVE TypeOK'
  OBVIOUS
<1>1. CASE UNCHANGED vars
  BY <1>1 DEF TypeOK, vars
<1>2. ASSUME NEW t \in Threads, NEW b \in BOOLEAN, NtCreateMutant(t, b) PROVE TypeOK'
  <2>1. Object("Mutant", ~b, FALSE) \in Objects
    BY ObjectTypes
  <2> QED BY <1>2, <2>1, InsertType DEF NtCreateMutant, TypeOK, apcVars
<1>3. ASSUME NEW t \in Threads, NEW a \in BOOLEAN, NEW b \in BOOLEAN, NtCreateEvent(t, a, b)
      PROVE TypeOK'
  <2>1. Object("Event", b, a) \in Objects
    BY ObjectTypes
  <2> QED BY <1>3, <2>1, InsertType DEF NtCreateEvent, TypeOK, apcVars
<1>4. ASSUME NEW t \in Threads, NEW new \in Threads, ExCreateThread(t, new) PROVE TypeOK'
  <2>1. Object("Thread", FALSE, FALSE) \in Objects
    BY ObjectTypes
  <2> QED BY <1>4, <2>1, InsertType DEF ExCreateThread, TypeOK, apcVars, States
<1>5. ASSUME NEW t \in Threads, NEW h \in Issued, NtSetEvent(t, h) PROVE TypeOK'
  BY <1>5, SignalType, IssuedAreHandles DEF NtSetEvent, TypeOK, apcVars, States
<1>6. ASSUME NEW t \in Threads, NEW h \in Issued, NtReleaseMutant(t, h) PROVE TypeOK'
  BY <1>6, SignalType, IssuedAreHandles DEF NtReleaseMutant, TypeOK, apcVars
<1>7. ASSUME NEW t \in Threads, NEW h \in Issued, NtClose(t, h) PROVE TypeOK'
  BY <1>7, ObjectTypes, IssuedAreHandles DEF NtClose, TypeOK, apcVars
<1>8. ASSUME NEW t \in Threads, NEW h \in Handles, NtQueueApcThread(t, h) PROVE TypeOK'
  <2>1. nextApc' \in 1..(MaxApc + 1) /\ nextApc \in Nat
    BY <1>8, DispatcherAssumption DEF NtQueueApcThread, TypeOK
  <2>2. apcQueues' \in [Handles -> Seq(Nat)]
    BY <1>8, <2>1 DEF NtQueueApcThread, TypeOK
  <2> QED BY <1>8, <2>1, <2>2 DEF NtQueueApcThread, TypeOK, objVars, States
<1>9. ASSUME NEW t \in Threads, NEW w \in WaitArgs, NtWaitForSingleObjectEx(t, w)
      PROVE TypeOK'
  BY <1>9, AcquireType, BlockType DEF NtWaitForSingleObjectEx, TypeOK, apcVars
<1>10. ASSUME NEW t \in Threads, ThreadEnds(t) PROVE TypeOK'
  <2>1. self[t] \in Handles
    BY DEF TypeOK
  <2>2. handleTable' \in [Handles -> Objects] /\ credit' \in [Handles -> Int]
    BY <1>10, <2>1, SignalType DEF ThreadEnds, objVars, TypeOK
  <2> QED BY <1>10, <2>2 DEF ThreadEnds, TypeOK, apcVars, States
<1>11. ASSUME NEW t \in Threads, ApcReturns(t) PROVE TypeOK'
  BY <1>11 DEF ApcReturns, TypeOK, apcVars, objVars
<1>12. ASSUME NEW t \in Threads, NotifyAll(t) PROVE TypeOK'
  BY <1>12 DEF NotifyAll, TypeOK, apcVars, objVars, States
<1>13. ASSUME NEW t \in Threads, Reacquire(t) PROVE TypeOK'
  <2>1. wait[t] \in WaitArgs
    BY DEF TypeOK
  <2> QED BY <1>13, <2>1, AcquireType, BlockType DEF Reacquire, TypeOK, apcVars
<1>14. ASSUME NEW t \in Threads, TryDeliverOneApc(t) PROVE TypeOK'
  <2>1. self[t] \in Handles /\ apcQueues[self[t]] \in Seq(Nat)
    BY DEF TypeOK
  <2>2. CASE apcQueues[self[t]] # <<>>
    <3>1. Tail(apcQueues[self[t]]) \in Seq(Nat) /\ Head(apcQueues[self[t]]) \in Nat
      BY <2>1, <2>2
    <3>2. /\ apcQueues' = [apcQueues EXCEPT ![self[t]] = Tail(apcQueues[self[t]])]
          /\ lastRun' = [lastRun EXCEPT ![self[t]] = Head(apcQueues[self[t]])]
          /\ depth' = [depth EXCEPT ![t] = depth[t] + 1]
      BY <1>14, <2>2 DEF TryDeliverOneApc
    <3>3. apcQueues' \in [Handles -> Seq(Nat)] /\ lastRun' \in [Handles -> Nat]
      BY <2>1, <3>1, <3>2 DEF TypeOK
    <3>4. depth' \in [Threads -> Nat]
      BY <3>2 DEF TypeOK
    <3> QED BY <1>14, <3>3, <3>4 DEF TryDeliverOneApc, TypeOK, objVars, States
  <2>3. CASE apcQueues[self[t]] = <<>>
    BY <1>14, <2>3 DEF TryDeliverOneApc, TypeOK, objVars, States
  <2> QED BY <2>2, <2>3
<1>15. ASSUME NEW t \in Threads, TimeUp(t) PROVE TypeOK'
  <2>1. wait[t] \in WaitArgs /\ wait[t].handle \in Handles
    BY DEF TypeOK, WaitArgs
  <2>2. CASE WakePredicate(t, wait[t])
    BY <1>15, <2>1, <2>2, AcquireType DEF TimeUp, TypeOK, apcVars
  <2>3. CASE ~WakePredicate(t, wait[t])
    <3>1. handleTable' \in [Handles -> Objects] /\ credit' = credit
      BY <1>15, <2>1, <2>3, LookupType DEF TimeUp, TypeOK
    <3>2. pc' = [pc EXCEPT ![t] = "run"] /\ wait' = [wait EXCEPT ![t] = NoWait]
      BY <1>15, <2>3, Zenon DEF TimeUp
    <3>3. pc' \in [Threads -> States] /\ wait' \in [Threads -> WaitArgs]
      BY <3>2, ObjectTypes DEF TypeOK, States
    <3> QED BY <1>15, <3>1, <3>3 DEF TimeUp, TypeOK, apcVars
  <2> QED BY <2>2, <2>3
<1>16. ASSUME NEW t \in Threads, SpuriousWake(t) PROVE TypeOK'
  BY <1>16 DEF SpuriousWake, TypeOK, apcVars, objVars, States
<1> QED
  BY <1>1, <1>2, <1>3, <1>4, <1>5, <1>6, <1>7, <1>8, <1>9, <1>10, <1>11, <1>12, <1>13,
     <1>14, <1>15, <1>16, NextCases

\* Type correctness: the variables of the dispatcher keep their types in every
\* behaviour, whatever the guest calls.
THEOREM TypeCorrect == Spec => []TypeOK
<1>1. Init => TypeOK
  <2> SUFFICES ASSUME Init PROVE TypeOK
    OBVIOUS
  <2>1. 1 \in 1..(MaxHandle + 1) /\ 1 \in 1..(MaxApc + 1) /\ 0 \in Handles
    BY DispatcherAssumption DEF Handles
  <2>2. \A t \in Threads: IF t \in Boot THEN "run" \in States ELSE "off" \in States
    BY DEF States
  <2> QED BY <2>1, <2>2, ObjectTypes DEF Init, TypeOK, States
<1> QED BY <1>1, TypeStep, PTL DEF Spec

(***************************************************************************)
(* No lost wake-up.  NoLostWakeup is inductive once the types are known:   *)
(* a thread blocks only in the critical section in which its predicate was *)
(* false, whoever makes it true moves to "notify" or "exit" in the same    *)
(* critical section (or is NtReleaseMutant), and leaves that state only by *)
(* waking every blocked thread.                                            *)
(***************************************************************************)
\* Why a thread's predicate holds, read off the variables.
Reason(t) == \/ handleTable[wait[t].handle].signaled
             \/ wait[t].alertable /\ apcQueues[self[t]] # <<>>

\* A missing entry is not signaled and neither is the one operator[] makes of it.
LEMMA PredicateReason ==
    ASSUME NEW t \in Threads
    PROVE  /\ WakePredicate(t, wait[t]) <=> Reason(t)
           /\ WakePredicate(t, wait[t])' <=> Reason(t)'
BY DEF WakePredicate, Reason, Lookup, HasPendingApc, Absent, Object

\* Somebody is about to call notify_all.
NotifyPending == \E u \in Threads: pc[u] \in {"notify", "exit"}

Covered(t) == pc[t] = "blocked" /\ Reason(t) => NotifyPending \/ wait[t].handle \in silent

LEMMA NoLostWakeupCovered ==
    (NoLostWakeup <=> \A t \in Threads: Covered(t))
    /\ (NoLostWakeup' <=> \A t \in Threads: Covered(t)')
BY PredicateReason DEF NoLostWakeup, Covered, NotifyPending

\* A step that leaves a thread's wait, its queue and the pending notify alone,
\* and signals nothing, leaves the thread covered.
LEMMA CoveredKept ==
    ASSUME TypeOK, NEW v \in Threads, Covered(v),
           pc'[v] = "blocked" => pc[v] = "blocked" /\ wait'[v] = wait[v],
           self'[v] = self[v], apcQueues' = apcQueues, silent \subseteq silent',
           NotifyPending => NotifyPending',
           handleTable'[wait[v].handle].signaled => handleTable[wait[v].handle].signaled
    PROVE  Covered(v)'
BY DEF Covered, Reason

\* With a notify pending every thread is covered.
LEMMA CoveredByNotify ==
    ASSUME NEW t \in Threads, pc'[t] \in {"notify", "exit"}, NEW v \in Threads
    PROVE  Covered(v)'
BY DEF Covered, NotifyPending

\* A wait that ends or blocks: the thread itself either runs or found its
\* predicate false; for the others nothing was signaled.
LEMMA LeaveWait ==
    ASSUME TypeOK, TypeOK', \A v \in Threads: Covered(v),
           NEW t \in Threads, pc[t] \in {"run", "blocked", "woken"},
           NEW w \in WaitArgs, NEW o \in Objects,
           o.signaled => handleTable[w.handle].signaled,
           handleTable' = [handleTable EXCEPT ![w.handle] = o],
           UNCHANGED <<self, apcQueues, silent>>,
           NEW s \in {"run", "deliver", "blocked"}, pc' = [pc EXCEPT ![t] = s],
           NEW x \in WaitArgs, wait' = [wait EXCEPT ![t] = x],
           s = "blocked" => x = w /\ ~WakePredicate(t, w)
    PROVE  \A v \in Threads: Covered(v)'
<1> SUFFICES ASSUME NEW v \in Threads PROVE Covered(v)'
  OBVIOUS
<1>0. w.handle \in Handles /\ wait[v] \in WaitArgs /\ wait[v].handle \in Handles
  BY DEF TypeOK, WaitArgs
<1>1. \A h \in Handles: handleTable'[h].signaled => handleTable[h].signaled
  BY <1>0 DEF TypeOK
<1>2. CASE v = t /\ s = "blocked"
  <2>1. wait'[v] = w
    BY <1>2 DEF TypeOK
  <2>2. ~Lookup(w.handle).signaled /\ ~(w.alertable /\ apcQueues[self[t]] # <<>>)
    BY <1>2, Zenon DEF WakePredicate, HasPendingApc
  <2>3. ~handleTable[w.handle].signaled
    BY <2>2 DEF Lookup, Absent, Object
  <2> QED BY <1>0, <1>1, <1>2, <2>1, <2>2, <2>3 DEF Covered, Reason
<1>3. CASE v = t /\ s # "blocked"
  BY <1>3 DEF Covered, TypeOK
<1>4. CASE v # t
  <2>1. pc'[v] = pc[v] /\ wait'[v] = wait[v]
    BY <1>4 DEF TypeOK
  <2>2. NotifyPending => NotifyPending'
    BY DEF NotifyPending, TypeOK
  <2> QED BY <1>0, <1>1, <2>1, <2>2, CoveredKept
<1> QED BY <1>2, <1>3, <1>4

\* Acquire and Block as LeaveWait describes them.
LEMMA AcquireCovers ==
    ASSUME TypeOK, TypeOK', \A v \in Threads: Covered(v),
           NEW t \in Threads, pc[t] \in {"run", "blocked", "woken"},
           NEW w \in WaitArgs, Acquire(t, w), UNCHANGED <<self, apcQueues, silent>>
    PROVE  \A v \in Threads: Covered(v)'
<1>0. w.handle \in Handles /\ Lookup(w.handle) \in Objects
      /\ ConsumeSignalOnAcquire(Lookup(w.handle)) \in Objects
  BY LookupType DEF WaitArgs
<1>1. Lookup(w.handle).signaled => handleTable[w.handle].signaled
  BY DEF Lookup, Object
<1>2. ConsumeSignalOnAcquire(Lookup(w.handle)).signaled => handleTable[w.handle].signaled
  BY <1>0, <1>1 DEF ConsumeSignalOnAcquire, Objects
<1>3. wait' = [wait EXCEPT ![t] = NoWait] /\ NoWait \in WaitArgs
  BY ObjectTypes DEF Acquire
<1>4. CASE w.alertable /\ HasPendingApc(t)
  <2>1. /\ pc' = [pc EXCEPT ![t] = "deliver"]
        /\ handleTable' = [handleTable EXCEPT ![w.handle] = Lookup(w.handle)]
    BY <1>4 DEF Acquire
  <2> QED BY <1>0, <1>1, <1>3, <2>1, LeaveWait
<1>5. CASE ~(w.alertable /\ HasPendingApc(t))
  <2>1. /\ pc' = [pc EXCEPT ![t] = "run"]
        /\ handleTable' = [handleTable EXCEPT ![w.handle] =
                              ConsumeSignalOnAcquire(Lookup(w.handle))]
    BY <1>5 DEF Acquire
  <2> QED BY <1>0, <1>2, <1>3, <2>1, LeaveWait
<1> QED BY <1>4, <1>5

LEMMA BlockCovers ==
    ASSUME TypeOK, TypeOK', \A v \in Threads: Covered(v),
           NEW t \in Threads, pc[t] \in {"run", "blocked", "woken"},
           NEW w \in WaitArgs, ~WakePredicate(t, w),
           Block(t, w), UNCHANGED <<self, apcQueues, silent>>
    PROVE  \A v \in Threads: Covered(v)'
<1>0. w.handle \in Handles /\ Lookup(w.handle) \in Objects
  BY LookupType DEF WaitArgs
<1>1. Lookup(w.handle).signaled => handleTable[w.handle].signaled
  BY DEF Lookup, Object
<1> QED BY <1>0, <1>1, LeaveWait DEF Block

(***************************************************************************)
(* Handles.  g_nextHandle only grows, so an entry that is inserted is new  *)
(* to every thread: nobody waits on it and no thread has it for its own.   *)
(***************************************************************************)
HandleInv ==
    /\ \A t \in Threads: self[t] < nextHandle
    /\ \A t, u \in Threads: self[t] = self[u] /\ self[t] # 0 => t = u
    /\ \A t \in Threads: pc[t] \in {"blocked", "woken"} => wait[t].handle \in Issued
    /\ handleTable[0] = Absent

\* A step that takes no handle and starts no thread.
LEMMA HandlesKept ==
    ASSUME TypeOK, TypeOK', HandleInv, UNCHANGED <<self, nextHandle>>,
           \A v \in Threads: pc'[v] \in {"blocked", "woken"} =>
               \/ pc[v] \in {"blocked", "woken"} /\ wait'[v] = wait[v]
               \/ wait'[v].handle \in Issued,
           handleTable'[0] = Absent
    PROVE  HandleInv'
BY DEF HandleInv, Issued

\* Signalling writes only present entries.
LEMMA SignalZero ==
    ASSUME TypeOK, HandleInv, NEW h \in Handles, Signal(h)
    PROVE  handleTable'[0] = Absent
<1>1. CASE handleTable[h] = Absent
  BY <1>1 DEF HandleInv, Signal, objVars
<1>2. CASE handleTable[h] # Absent
  <2>1. h # 0
    BY <1>2 DEF HandleInv
  <2>2. handleTable' = [handleTable EXCEPT ![h] = [handleTable[h] EXCEPT !.signaled = TRUE]]
    BY <1>2 DEF Signal
  <2>3. 0 \in Handles
    BY DispatcherAssumption DEF Handles
  <2> QED BY <2>1, <2>2, <2>3 DEF TypeOK, HandleInv
<1> QED BY <1>1, <1>2

LEMMA HandleStep ==
    ASSUME TypeOK, HandleInv, [Next]_vars
    PROVE  HandleInv'
<1>0. TypeOK' /\ 0 \in Handles /\ handleTable[0] = Absent
  BY TypeStep, DispatcherAssumption DEF Handles, HandleInv
<1>1. CASE UNCHANGED vars
  BY <1>1 DEF HandleInv, Issued, vars
<1>2. ASSUME NEW t \in Threads, NEW o, Insert(o),
             UNCHANGED wait, NEW u \in Threads,
             \/ UNCHANGED <<pc, self>>
             \/ pc' = [pc EXCEPT ![u] = "run"] /\ self' = [self EXCEPT ![u] = nextHandle]
      PROVE  HandleInv'
  <2>1. nextHandle' = nextHandle + 1 /\ nextHandle \in Nat /\ nextHandle # 0
    BY <1>2 DEF Insert, TypeOK
  <2>2. handleTable'[0] = Absent
    BY <1>0, <1>2, <2>1 DEF Insert, TypeOK
  <2>3. \A v \in Threads: self[v] \in Nat /\ self[v] < nextHandle
    BY DEF TypeOK, HandleInv, Handles
  <2>4. \A v \in Threads: self'[v] = self[v] \/ (v = u /\ self'[v] = nextHandle)
    <3>1. CASE UNCHANGED <<pc, self>>
      BY <3>1
    <3>2. CASE self' = [self EXCEPT ![u] = nextHandle]
      BY <3>2 DEF TypeOK
    <3> QED BY <1>2, <3>1, <3>2
  <2>5. \A v \in Threads: self'[v] < nextHandle'
    BY <2>1, <2>3, <2>4
  <2>6. \A v, x \in Threads: self'[v] = self'[x] /\ self'[v] # 0 => v = x
    <3> SUFFICES ASSUME NEW v \in Threads, NEW x \in Threads,
                        self'[v] = self'[x], self'[v] # 0
                 PROVE  v = x
      OBVIOUS
    <3>1. self[v] # nextHandle /\ self[x] # nextHandle
      BY <2>1, <2>3
    <3> QED BY <2>4, <3>1 DEF HandleInv
  <2>7. \A v \in Threads: pc'[v] \in {"blocked", "woken"} => wait'[v].handle \in Issued'
    <3>1. \A v \in Threads: pc'[v] = pc[v] \/ pc'[v] = "run"
      BY <1>2 DEF TypeOK
    <3>2. Issued \subseteq Issued'
      BY <2>1 DEF Issued
    <3> QED BY <1>2, <3>1, <3>2 DEF HandleInv
  <2> QED BY <2>2, <2>5, <2>6, <2>7 DEF HandleInv
<1>3. ASSUME NEW t \in Threads, NEW w \in WaitArgs, w.handle \in Issued,
             Acquire(t, w) \/ Block(t, w), UNCHANGED <<self, nextHandle>>
      PROVE  HandleInv'
  <2>1. w.handle # 0
    BY <1>3 DEF Issued
  <2>2. handleTable'[0] = Absent
    BY <1>0, <1>3, <2>1 DEF Acquire, Block, TypeOK
  <2>3. \A v \in Threads: pc'[v] \in {"blocked", "woken"} =>
               \/ pc[v] \in {"blocked", "woken"} /\ wait'[v] = wait[v]
               \/ wait'[v].handle \in Issued
    BY <1>3 DEF Acquire, Block, TypeOK
  <2> QED BY <1>0, <1>3, <2>2, <2>3, HandlesKept
<1>4. ASSUME NEW t \in Threads, NEW h \in Issued, NtSetEvent(t, h) \/ NtReleaseMutant(t, h)
      PROVE  HandleInv'
  BY <1>0, <1>4, IssuedAreHandles, SignalZero, HandlesKept
     DEF NtSetEvent, NtReleaseMutant, TypeOK
<1>5. ASSUME NEW t \in Threads, NEW h \in Issued, NtClose(t, h) PROVE HandleInv'
  BY <1>0, <1>5, HandlesKept DEF NtClose, TypeOK
<1>6. ASSUME NEW t \in Threads, NEW h \in Handles, NtQueueApcThread(t, h) PROVE HandleInv'
  BY <1>0, <1>6, HandlesKept DEF NtQueueApcThread, objVars, TypeOK
<1>7. ASSUME NEW t \in Threads, ThreadEnds(t) PROVE HandleInv'
  <2>1. self[t] \in Handles
    BY DEF TypeOK
  <2>2. handleTable'[0] = Absent
    BY <1>0, <1>7, <2>1, SignalZero DEF ThreadEnds, objVars
  <2> QED BY <1>0, <1>7, <2>2, HandlesKept DEF ThreadEnds, TypeOK
<1>8. ASSUME NEW t \in Threads, ApcReturns(t) PROVE HandleInv'
  BY <1>0, <1>8, HandlesKept DEF ApcReturns, objVars, TypeOK
<1>9. ASSUME NEW t \in Threads, NotifyAll(t) PROVE HandleInv'
  BY <1>0, <1>9, HandlesKept DEF NotifyAll, objVars, TypeOK
<1>10. ASSUME NEW t \in Threads, TryDeliverOneApc(t) PROVE HandleInv'
  BY <1>0, <1>10, HandlesKept DEF TryDeliverOneApc, objVars, TypeOK
<1>11. ASSUME NEW t \in Threads, SpuriousWake(t) PROVE HandleInv'
  BY <1>0, <1>11, HandlesKept DEF SpuriousWake, objVars, TypeOK
<1>12. ASSUME NEW t \in Threads, Reacquire(t) \/ TimeUp(t) PROVE HandleInv'
  <2>1. wait[t] \in WaitArgs /\ wait[t].handle \in Issued /\ UNCHANGED <<self, nextHandle>>
    BY <1>12 DEF TypeOK, HandleInv, Reacquire, TimeUp
  <2>2. CASE Acquire(t, wait[t]) \/ Block(t, wait[t])
    BY <1>3, <2>1, <2>2
  <2>3. CASE ~(Acquire(t, wait[t]) \/ Block(t, wait[t]))
    <3>1. /\ pc' = [pc EXCEPT ![t] = "run"] /\ wait' = [wait EXCEPT ![t] = NoWait]
          /\ handleTable' = [handleTable EXCEPT ![wait[t].handle] = Lookup(wait[t].handle)]
      BY <1>12, <2>3 DEF Reacquire, TimeUp
    <3>2. handleTable'[0] = Absent
      <4>1. wait[t].handle # 0
        BY <2>1 DEF Issued
      <4>2. handleTable'[0] = handleTable[0]
        BY <1>0, <3>1, <4>1 DEF TypeOK
      <4> QED BY <1>0, <4>2
    <3> QED BY <1>0, <2>1, <3>1, <3>2, HandlesKept DEF TypeOK
  <2> QED BY <2>2, <2>3
<1>13. ASSUME NEW t \in Threads, NEW w \in WaitArgs, w.handle \in Issued,
              NtWaitForSingleObjectEx(t, w)
       PROVE  HandleInv'
  BY <1>3, <1>13 DEF NtWaitForSingleObjectEx
<1>14. ASSUME NEW t \in Threads, NEW a \in BOOLEAN, NEW b \in BOOLEAN,
              NtCreateMutant(t, b) \/ NtCreateEvent(t, a, b)
       PROVE  HandleInv'
  BY <1>2, <1>14 DEF NtCreateMutant, NtCreateEvent
<1>15. ASSUME NEW t \in Threads, NEW new \in Threads, ExCreateThread(t, new) PROVE HandleInv'
  BY <1>2, <1>15 DEF ExCreateThread
<1> QED
  BY <1>1, <1>4, <1>5, <1>6, <1>7, <1>8, <1>9, <1>10, <1>11, <1>12, <1>13, <1>14, <1>15,
     NextCases

\* Init satisfies it: no thread has a handle, nobody waits.
LEMMA HandleInit == Init => HandleInv
BY DispatcherAssumption DEF Init, HandleInv, Handles, Issued

(***************************************************************************)
(* The step of NoLostWakeup, and the theorem.                              *)
(***************************************************************************)
\* A time-out whose predicate is false leaves the wait as LeaveWait says.
LEMMA TimeUpCovers ==
    ASSUME TypeOK, TypeOK', \A v \in Threads: Covered(v), NEW t \in Threads, TimeUp(t)
    PROVE  \A v \in Threads: Covered(v)'
<1>0. wait[t] \in WaitArgs /\ wait[t].handle \in Handles /\ pc[t] \in {"blocked", "woken"}
      /\ UNCHANGED <<self, apcQueues, silent>>
  BY DEF TypeOK, WaitArgs, TimeUp, apcVars
<1>1. CASE WakePredicate(t, wait[t])
  BY <1>0, <1>1, AcquireCovers DEF TimeUp
<1>2. CASE ~WakePredicate(t, wait[t])
  <2>1. Lookup(wait[t].handle) \in Objects
        /\ (Lookup(wait[t].handle).signaled => handleTable[wait[t].handle].signaled)
    BY <1>0, LookupType DEF Lookup, Object
  <2>2. /\ wait' = [wait EXCEPT ![t] = NoWait] /\ NoWait \in WaitArgs
        /\ pc' = [pc EXCEPT ![t] = "run"]
        /\ handleTable' = [handleTable EXCEPT ![wait[t].handle] = Lookup(wait[t].handle)]
    BY <1>2, ObjectTypes DEF TimeUp
  <2> QED BY <1>0, <2>1, <2>2, LeaveWait
<1> QED BY <1>1, <1>2

\* A new entry is not the one of a blocked thread, which waits on a handle that
\* was given out before.
LEMMA InsertCovers ==
    ASSUME TypeOK, HandleInv, \A v \in Threads: Covered(v), NEW o, Insert(o),
           NEW t \in Threads, pc[t] \notin {"notify", "exit"},
           UNCHANGED <<apcQueues, wait, silent>>,
           \/ UNCHANGED <<pc, self>>
           \/ /\ pc' = [pc EXCEPT ![t] = "run"]
              /\ self' = [self EXCEPT ![t] = nextHandle]
    PROVE  \A v \in Threads: Covered(v)'
<1> SUFFICES ASSUME NEW v \in Threads, pc'[v] = "blocked" PROVE Covered(v)'
  BY DEF Covered
<1>1. pc[v] = "blocked" /\ self'[v] = self[v] /\ (NotifyPending => NotifyPending')
  <2>1. CASE UNCHANGED <<pc, self>>
    BY <2>1 DEF NotifyPending
  <2>2. CASE pc' = [pc EXCEPT ![t] = "run"] /\ self' = [self EXCEPT ![t] = nextHandle]
    BY <2>2 DEF TypeOK, NotifyPending
  <2> QED BY <2>1, <2>2
<1>2. wait[v].handle \in Issued /\ wait[v].handle # nextHandle
  BY <1>1 DEF HandleInv, Issued, TypeOK
<1>3. handleTable'[wait[v].handle] = handleTable[wait[v].handle]
  BY <1>2, IssuedAreHandles DEF Insert, TypeOK
<1> QED BY <1>1, <1>3, CoveredKept

\* One step keeps every thread covered.
LEMMA CoveredStep ==
    ASSUME TypeOK, HandleInv, [Next]_vars, \A v \in Threads: Covered(v)
    PROVE  \A v \in Threads: Covered(v)'
<1>0. TypeOK'
  BY TypeStep
<1>1. CASE UNCHANGED vars
  BY <1>1 DEF Covered, Reason, NotifyPending, vars
<1>2. ASSUME NEW t \in Threads, NEW a \in BOOLEAN, NEW b \in BOOLEAN,
             NtCreateMutant(t, b) \/ NtCreateEvent(t, a, b)
      PROVE  \A v \in Threads: Covered(v)'
  BY <1>2, InsertCovers DEF NtCreateMutant, NtCreateEvent, apcVars
<1>3. ASSUME NEW t \in Threads, NEW new \in Threads, ExCreateThread(t, new)
      PROVE  \A v \in Threads: Covered(v)'
  BY <1>3, InsertCovers DEF ExCreateThread, apcVars
<1>4. ASSUME NEW t \in Threads, NEW h \in Issued, NtSetEvent(t, h)
      PROVE  \A v \in Threads: Covered(v)'
  BY <1>4, CoveredByNotify DEF NtSetEvent, TypeOK
<1>5. ASSUME NEW t \in Threads, NEW h \in Handles, NtQueueApcThread(t, h)
      PROVE  \A v \in Threads: Covered(v)'
  BY <1>5, CoveredByNotify DEF NtQueueApcThread, TypeOK
<1>6. ASSUME NEW t \in Threads, ThreadEnds(t) PROVE \A v \in Threads: Covered(v)'
  BY <1>6, CoveredByNotify DEF ThreadEnds, TypeOK
<1>7. ASSUME NEW t \in Threads, NEW h \in Issued, NtReleaseMutant(t, h)
      PROVE  \A v \in Threads: Covered(v)'
  <2> SUFFICES ASSUME NEW v \in Threads PROVE Covered(v)'
    OBVIOUS
  <2>0. h \in Handles /\ wait[v].handle \in Handles
    BY IssuedAreHandles DEF TypeOK, WaitArgs
  <2>1. UNCHANGED <<pc, wait, self, apcQueues>> /\ silent' = silent \cup {h}
        /\ (NotifyPending <=> NotifyPending')
    BY <1>7 DEF NtReleaseMutant, apcVars, NotifyPending
  <2>2. CASE wait[v].handle = h
    BY <2>1, <2>2 DEF Covered
  <2>3. CASE wait[v].handle # h
    <3>1. handleTable'[wait[v].handle] = handleTable[wait[v].handle]
      BY <1>7, <2>0, <2>3 DEF NtReleaseMutant, Signal, objVars, TypeOK
    <3> QED BY <2>1, <3>1, CoveredKept
  <2> QED BY <2>2, <2>3
<1>8. ASSUME NEW t \in Threads, NEW h \in Issued, NtClose(t, h)
      PROVE  \A v \in Threads: Covered(v)'
  <2>1. \A g \in Handles: handleTable'[g].signaled => handleTable[g].signaled
    BY <1>8 DEF NtClose, TypeOK, Absent, Object
  <2>2. \A v \in Threads: wait[v].handle \in Handles
    BY DEF TypeOK, WaitArgs
  <2>3. UNCHANGED <<pc, wait, self, apcQueues, silent>> /\ (NotifyPending <=> NotifyPending')
    BY <1>8 DEF NtClose, apcVars, NotifyPending
  <2> QED BY <2>1, <2>2, <2>3, CoveredKept
<1>9. ASSUME NEW t \in Threads, ApcReturns(t) PROVE \A v \in Threads: Covered(v)'
  BY <1>9 DEF ApcReturns, apcVars, objVars, Covered, Reason, NotifyPending
<1>10. ASSUME NEW t \in Threads, NotifyAll(t) PROVE \A v \in Threads: Covered(v)'
  BY <1>10 DEF NotifyAll, Covered
<1>11. ASSUME NEW t \in Threads, TryDeliverOneApc(t) PROVE \A v \in Threads: Covered(v)'
  <2> SUFFICES ASSUME NEW v \in Threads, pc'[v] = "blocked" PROVE Covered(v)'
    BY DEF Covered
  <2>1. v # t /\ pc[v] = "blocked" /\ UNCHANGED <<wait, self, handleTable, silent>>
        /\ (NotifyPending => NotifyPending')
    BY <1>11 DEF TryDeliverOneApc, objVars, TypeOK, NotifyPending
  <2>2. self[v] \in Handles /\ self[t] \in Handles
    BY DEF TypeOK
  <2>3. apcQueues'[self[v]] # <<>> => apcQueues[self[v]] # <<>>
    BY <1>11, <2>2 DEF TryDeliverOneApc, TypeOK, HasPendingApc
  <2> QED BY <2>1, <2>3 DEF Covered, Reason
<1>12. ASSUME NEW t \in Threads, Reacquire(t) PROVE \A v \in Threads: Covered(v)'
  <2>1. wait[t] \in WaitArgs /\ pc[t] = "woken" /\ UNCHANGED <<self, apcQueues, silent>>
    BY <1>12 DEF TypeOK, Reacquire, apcVars
  <2> QED BY <1>0, <1>12, <2>1, AcquireCovers, BlockCovers DEF Reacquire
<1>13. ASSUME NEW t \in Threads, TimeUp(t) PROVE \A v \in Threads: Covered(v)'
  BY <1>0, <1>13, TimeUpCovers
<1>14. ASSUME NEW t \in Threads, SpuriousWake(t) PROVE \A v \in Threads: Covered(v)'
  BY <1>14 DEF SpuriousWake, apcVars, objVars, TypeOK, Covered, Reason, NotifyPending
<1>15. ASSUME NEW t \in Threads, NEW w \in WaitArgs, NtWaitForSingleObjectEx(t, w)
       PROVE  \A v \in Threads: Covered(v)'
  <2>1. pc[t] = "run" /\ UNCHANGED <<self, apcQueues, silent>>
    BY <1>15 DEF NtWaitForSingleObjectEx, apcVars
  <2> QED BY <1>0, <1>15, <2>1, AcquireCovers, BlockCovers DEF NtWaitForSingleObjectEx
<1> QED
  BY <1>1, <1>2, <1>3, <1>4, <1>5, <1>6, <1>7, <1>8, <1>9, <1>10, <1>11, <1>12, <1>13,
     <1>14, <1>15, NextCases

\* No lost wake-up, in every behaviour: a thread never sleeps on a condition that
\* holds unless a notify_all is on its way, except for a signal of NtReleaseMutant,
\* the one call of kernel_impl.cpp that signals without notifying.
THEOREM NoWakeupIsLost == Spec => []NoLostWakeup
<1>1. Init => HandleInv /\ NoLostWakeup
  BY HandleInit DEF Init, NoLostWakeup
<1>2. TypeOK /\ HandleInv /\ NoLostWakeup /\ [Next]_vars => HandleInv' /\ NoLostWakeup'
  BY HandleStep, CoveredStep, NoLostWakeupCovered
<1> QED BY <1>1, <1>2, TypeCorrect, PTL DEF Spec

(***************************************************************************)
(* One wait per signal.  Inductive with the types alone: credit mirrors    *)
(* the signal, and a wait that takes it was let in by that signal.         *)
(***************************************************************************)
Balanced(h) == credit[h] \in {0, 1} /\ (handleTable[h].signaled => credit[h] = 1)

\* Acquire keeps the balance of every handle when the predicate holds.
LEMMA AcquireBalanced ==
    ASSUME TypeOK, OneWaitPerSignal, NEW t \in Threads, NEW w \in WaitArgs,
           WakePredicate(t, w), Acquire(t, w)
    PROVE  OneWaitPerSignal'
<1> SUFFICES ASSUME NEW h \in Handles PROVE Balanced(h)'
  BY DEF OneWaitPerSignal, Balanced
<1>0. w.handle \in Handles /\ Balanced(h)
      /\ Lookup(w.handle) \in Objects /\ ConsumeSignalOnAcquire(Lookup(w.handle)) \in Objects
  BY LookupType DEF WaitArgs, OneWaitPerSignal, Balanced
<1>1. CASE h # w.handle
  BY <1>0, <1>1 DEF Acquire, Balanced, TypeOK
<1>2. CASE h = w.handle /\ w.alertable /\ HasPendingApc(t)
  BY <1>0, <1>2 DEF Acquire, Balanced, TypeOK, Lookup, Object
<1>3. CASE h = w.handle /\ ~(w.alertable /\ HasPendingApc(t))
  <2>1. handleTable'[h] = ConsumeSignalOnAcquire(Lookup(h))
    BY <1>0, <1>3 DEF Acquire, TypeOK
  <2>2. Lookup(h).signaled /\ credit[h] = 1 /\ Lookup(h) \in Objects
    BY <1>0, <1>3 DEF WakePredicate, Lookup, Object, Balanced
  <2>3. CASE Consumable(Lookup(h))
    <3>1. credit'[h] = 0
      BY <1>0, <1>3, <2>2, <2>3 DEF Acquire, TypeOK
    <3>2. ~handleTable'[h].signaled
      BY <2>1, <2>2, <2>3 DEF ConsumeSignalOnAcquire, Objects
    <3> QED BY <3>1, <3>2 DEF Balanced
  <2>4. CASE ~Consumable(Lookup(h))
    <3>1. credit'[h] = 1
      BY <1>0, <1>3, <2>2, <2>4 DEF Acquire, TypeOK
    <3> QED BY <3>1 DEF Balanced
  <2> QED BY <2>3, <2>4
<1> QED BY <1>1, <1>2, <1>3

\* Looking a handle up signals nothing.
LEMMA LookupBalanced ==
    ASSUME TypeOK, OneWaitPerSignal, NEW g \in Handles, UNCHANGED credit,
           handleTable' = [handleTable EXCEPT ![g] = Lookup(g)]
    PROVE  OneWaitPerSignal'
<1> SUFFICES ASSUME NEW h \in Handles PROVE Balanced(h)'
  BY DEF OneWaitPerSignal, Balanced
<1> QED BY DEF OneWaitPerSignal, Balanced, TypeOK, Lookup, Object

LEMMA SignalBalanced ==
    ASSUME TypeOK, OneWaitPerSignal, NEW g \in Handles, Signal(g)
    PROVE  OneWaitPerSignal'
<1> SUFFICES ASSUME NEW h \in Handles PROVE Balanced(h)'
  BY DEF OneWaitPerSignal, Balanced
<1>1. CASE handleTable[g] = Absent
  BY <1>1 DEF Signal, objVars, OneWaitPerSignal, Balanced
<1>2. CASE handleTable[g] # Absent /\ h = g
  BY <1>2 DEF Signal, Balanced, TypeOK
<1>3. CASE handleTable[g] # Absent /\ h # g
  BY <1>3 DEF Signal, OneWaitPerSignal, Balanced, TypeOK
<1> QED BY <1>1, <1>2, <1>3

LEMMA InsertBalanced ==
    ASSUME TypeOK, OneWaitPerSignal, NEW o, Insert(o)
    PROVE  OneWaitPerSignal'
<1> SUFFICES ASSUME NEW h \in Handles PROVE Balanced(h)'
  BY DEF OneWaitPerSignal, Balanced
<1>1. CASE h = nextHandle
  BY <1>1 DEF Insert, Balanced, TypeOK
<1>2. CASE h # nextHandle
  BY <1>2 DEF Insert, OneWaitPerSignal, Balanced, TypeOK
<1> QED BY <1>1, <1>2

LEMMA BalancedStep ==
    ASSUME TypeOK, OneWaitPerSignal, [Next]_vars
    PROVE  OneWaitPerSignal'
<1>1. CASE UNCHANGED objVars
  BY <1>1 DEF objVars, OneWaitPerSignal
<1>2. CASE UNCHANGED vars
  BY <1>1, <1>2 DEF vars, objVars
<1>3. ASSUME NEW t \in Threads, NEW a \in BOOLEAN, NEW b \in BOOLEAN,
             NtCreateMutant(t, b) \/ NtCreateEvent(t, a, b)
      PROVE  OneWaitPerSignal'
  BY <1>3, InsertBalanced DEF NtCreateMutant, NtCreateEvent
<1>4. ASSUME NEW t \in Threads, NEW new \in Threads, ExCreateThread(t, new)
      PROVE  OneWaitPerSignal'
  BY <1>4, InsertBalanced DEF ExCreateThread
<1>5. ASSUME NEW t \in Threads, NEW h \in Issued, NtSetEvent(t, h) \/ NtReleaseMutant(t, h)
      PROVE  OneWaitPerSignal'
  BY <1>5, SignalBalanced, IssuedAreHandles DEF NtSetEvent, NtReleaseMutant
<1>6. ASSUME NEW t \in Threads, NEW h \in Issued, NtClose(t, h) PROVE OneWaitPerSignal'
  BY <1>6 DEF NtClose, OneWaitPerSignal, TypeOK, Absent, Object
<1>7. ASSUME NEW t \in Threads, ThreadEnds(t) PROVE OneWaitPerSignal'
  BY <1>1, <1>7, SignalBalanced DEF ThreadEnds, TypeOK
<1>8. ASSUME NEW t \in Threads, NEW w \in WaitArgs,
             (WakePredicate(t, w) /\ Acquire(t, w)) \/ Block(t, w)
      PROVE  OneWaitPerSignal'
  BY <1>8, AcquireBalanced, LookupBalanced DEF Block, WaitArgs
<1>9. ASSUME NEW t \in Threads, TimeUp(t) PROVE OneWaitPerSignal'
  <2>1. wait[t] \in WaitArgs /\ wait[t].handle \in Handles
    BY DEF TypeOK, WaitArgs
  <2>2. CASE WakePredicate(t, wait[t])
    BY <1>8, <1>9, <2>1, <2>2 DEF TimeUp
  <2>3. CASE ~WakePredicate(t, wait[t])
    BY <1>9, <2>1, <2>3, LookupBalanced DEF TimeUp
  <2> QED BY <2>2, <2>3
<1>10. ASSUME NEW t \in Threads, Reacquire(t) PROVE OneWaitPerSignal'
  BY <1>8, <1>10 DEF Reacquire, TypeOK
<1>11. ASSUME NEW t \in Threads, NEW w \in WaitArgs, NtWaitForSingleObjectEx(t, w)
       PROVE  OneWaitPerSignal'
  BY <1>8, <1>11 DEF NtWaitForSingleObjectEx
<1>12. ASSUME NEW t \in Threads, NEW h \in Handles,
              \/ NtQueueApcThread(t, h) \/ ApcReturns(t) \/ NotifyAll(t)
              \/ TryDeliverOneApc(t) \/ SpuriousWake(t)
       PROVE  UNCHANGED objVars
  BY <1>12 DEF NtQueueApcThread, ApcReturns, NotifyAll, TryDeliverOneApc, SpuriousWake
<1>13. \E h \in Handles: TRUE
  BY DispatcherAssumption DEF Handles
<1> QED
  BY <1>1, <1>2, <1>3, <1>4, <1>5, <1>6, <1>7, <1>9, <1>10, <1>11, <1>12, <1>13, NextCases

\* No signal of a mutant or an auto-reset event is consumed twice: between two
\* waits that such an object satisfies it has been signaled again.
THEOREM SignalsAreConsumedOnce == Spec => []OneWaitPerSignal
<1>1. Init => OneWaitPerSignal
  BY DEF Init, OneWaitPerSignal, Absent, Object
<1> QED BY <1>1, BalancedStep, TypeCorrect, PTL DEF Spec

(***************************************************************************)
(* STATUS_USER_APC.  Between the test of the queue and the pop the lock is *)
(* free; nobody else pops the queue because handles of threads differ.     *)
(***************************************************************************)
LEMMA UserApcStep ==
    ASSUME TypeOK, HandleInv, UserApcHasApc, [Next]_vars
    PROVE  UserApcHasApc'
<1> SUFFICES ASSUME NEW v \in Threads, pc'[v] = "deliver", self'[v] # 0
             PROVE  apcQueues'[self'[v]] # <<>>
  BY DEF UserApcHasApc
<1>0. self[v] \in Handles
  BY DEF TypeOK
<1>1. CASE UNCHANGED vars
  BY <1>1 DEF UserApcHasApc, vars
<1>2. ASSUME NEW t \in Threads, NEW a \in BOOLEAN, NEW b \in BOOLEAN,
             NtCreateMutant(t, b) \/ NtCreateEvent(t, a, b)
      PROVE  apcQueues'[self'[v]] # <<>>
  BY <1>2 DEF NtCreateMutant, NtCreateEvent, apcVars, UserApcHasApc
<1>3. ASSUME NEW t \in Threads, NEW new \in Threads, ExCreateThread(t, new)
      PROVE  apcQueues'[self'[v]] # <<>>
  BY <1>3 DEF ExCreateThread, apcVars, UserApcHasApc, TypeOK
<1>4. ASSUME NEW t \in Threads, NEW h \in Issued,
             NtSetEvent(t, h) \/ NtReleaseMutant(t, h) \/ NtClose(t, h)
      PROVE  apcQueues'[self'[v]] # <<>>
  BY <1>4 DEF NtSetEvent, NtReleaseMutant, NtClose, apcVars, UserApcHasApc, TypeOK
<1>5. ASSUME NEW t \in Threads, NEW h \in Handles, NtQueueApcThread(t, h)
      PROVE  apcQueues'[self'[v]] # <<>>
  <2>1. pc[v] = "deliver" /\ self'[v] = self[v] /\ apcQueues[self[v]] # <<>>
    BY <1>5 DEF NtQueueApcThread, UserApcHasApc, TypeOK
  <2>2. apcQueues[h] \in Seq(Nat) /\ nextApc \in Nat
    BY DEF TypeOK
  <2>3. Append(apcQueues[h], nextApc) # <<>>
    BY <2>2
  <2> QED BY <1>0, <1>5, <2>1, <2>3 DEF NtQueueApcThread, TypeOK
<1>6. ASSUME NEW t \in Threads, ThreadEnds(t) \/ ApcReturns(t) \/ NotifyAll(t) \/ SpuriousWake(t)
      PROVE  apcQueues'[self'[v]] # <<>>
  BY <1>6 DEF ThreadEnds, ApcReturns, NotifyAll, SpuriousWake, apcVars, UserApcHasApc, TypeOK
<1>7. ASSUME NEW t \in Threads, NEW w \in WaitArgs, Acquire(t, w) \/ Block(t, w),
             UNCHANGED <<self, apcVars>>
      PROVE  apcQueues'[self'[v]] # <<>>
  BY <1>7 DEF Acquire, Block, HasPendingApc, apcVars, UserApcHasApc, TypeOK
<1>8. ASSUME NEW t \in Threads, Reacquire(t) PROVE apcQueues'[self'[v]] # <<>>
  BY <1>7, <1>8 DEF Reacquire, TypeOK
<1>9. ASSUME NEW t \in Threads, TimeUp(t) PROVE apcQueues'[self'[v]] # <<>>
  <2>1. wait[t] \in WaitArgs
    BY DEF TypeOK
  <2>2. CASE WakePredicate(t, wait[t])
    BY <1>7, <1>9, <2>1, <2>2 DEF TimeUp
  <2>3. CASE ~WakePredicate(t, wait[t])
    BY <1>9, <2>3 DEF TimeUp, apcVars, UserApcHasApc, TypeOK
  <2> QED BY <2>2, <2>3
<1>10. ASSUME NEW t \in Threads, NEW w \in WaitArgs, NtWaitForSingleObjectEx(t, w)
       PROVE  apcQueues'[self'[v]] # <<>>
  BY <1>7, <1>10 DEF NtWaitForSingleObjectEx
<1>11. ASSUME NEW t \in Threads, TryDeliverOneApc(t) PROVE apcQueues'[self'[v]] # <<>>
  <2>1. v # t /\ pc[v] = "deliver" /\ self'[v] = self[v]
    BY <1>11 DEF TryDeliverOneApc, TypeOK
  <2>2. self[t] # self[v] /\ self[t] \in Handles
    BY <2>1 DEF HandleInv, TypeOK
  <2>3. apcQueues'[self[v]] = apcQueues[self[v]]
    BY <1>0, <1>11, <2>2 DEF TryDeliverOneApc, TypeOK
  <2> QED BY <2>1, <2>3 DEF UserApcHasApc
<1> QED
  BY <1>1, <1>2, <1>3, <1>4, <1>5, <1>6, <1>8, <1>9, <1>10, <1>11, NextCases

\* A thread created by ExCreateThread that leaves a wait for an APC does run one,
\* although it looked at the queue and pops it in two critical sections.
THEOREM UserApcRunsAnApc == Spec => []UserApcHasApc
<1>1. Init => HandleInv /\ UserApcHasApc
  BY HandleInit DEF Init, UserApcHasApc
<1>2. TypeOK /\ HandleInv /\ UserApcHasApc /\ [Next]_vars => HandleInv' /\ UserApcHasApc'
  BY HandleStep, UserApcStep
<1> QED BY <1>1, <1>2, TypeCorrect, PTL DEF Spec

(***************************************************************************)
(* The order of the APCs.  Inductive is that the queues are sorted, that   *)
(* what has run is older than what is queued, and all of it older than the *)
(* number the next APC gets.                                               *)
(***************************************************************************)
Sorted(h) ==
    /\ lastRun[h] < nextApc
    /\ \A i \in DOMAIN apcQueues[h]: lastRun[h] < apcQueues[h][i] /\ apcQueues[h][i] < nextApc
    /\ \A i, j \in DOMAIN apcQueues[h]: i < j => apcQueues[h][i] < apcQueues[h][j]

ApcInv == \A h \in Handles: Sorted(h)

\* What Append and Tail do to the places of a queue.
LEMMA QueueEnds ==
    ASSUME NEW q \in Seq(Nat), NEW x \in Nat
    PROVE  /\ DOMAIN q = 1..Len(q) /\ Len(q) \in Nat
           /\ DOMAIN Append(q, x) = 1..(Len(q) + 1)
           /\ \A i \in 1..Len(q): Append(q, x)[i] = q[i]
           /\ Append(q, x)[Len(q) + 1] = x
           /\ q # <<>> => /\ DOMAIN Tail(q) = 1..(Len(q) - 1) /\ Len(q) >= 1
                          /\ \A i \in 1..(Len(q) - 1): Tail(q)[i] = q[i + 1]
                          /\ Head(q) = q[1]
OBVIOUS

\* NtQueueApcThread appends the newest number.
LEMMA QueuedSorted ==
    ASSUME TypeOK, ApcInv, NEW t \in Threads, NEW g \in Handles, NtQueueApcThread(t, g)
    PROVE  ApcInv'
<1> SUFFICES ASSUME NEW h \in Handles PROVE Sorted(h)'
  BY DEF ApcInv
<1>1. Sorted(h) /\ nextApc \in Nat /\ nextApc' = nextApc + 1 /\ lastRun' = lastRun
      /\ lastRun[h] \in Nat /\ apcQueues[h] \in Seq(Nat)
  BY DispatcherAssumption DEF ApcInv, NtQueueApcThread, TypeOK
<1>2. \A i \in DOMAIN apcQueues[h]: apcQueues[h][i] \in Nat
  BY <1>1, QueueEnds
<1>3. CASE h # g
  <2>1. apcQueues'[h] = apcQueues[h]
    BY <1>3 DEF NtQueueApcThread, TypeOK
  <2> QED BY <1>1, <1>2, <2>1 DEF Sorted
<1>4. CASE h = g
  <2>1. apcQueues'[h] = Append(apcQueues[h], nextApc)
    BY <1>4 DEF NtQueueApcThread, TypeOK
  <2>2. \A i \in DOMAIN apcQueues'[h]:
           \/ i \in DOMAIN apcQueues[h] /\ apcQueues'[h][i] = apcQueues[h][i]
           \/ i = Len(apcQueues[h]) + 1 /\ apcQueues'[h][i] = nextApc
    BY <1>1, <2>1, QueueEnds
  <2>3. \A i \in DOMAIN apcQueues[h]: i \in 1..Len(apcQueues[h])
    BY <1>1, QueueEnds
  <2>4. \A i \in DOMAIN apcQueues'[h]: lastRun'[h] < apcQueues'[h][i] /\ apcQueues'[h][i] < nextApc'
    BY <1>1, <1>2, <2>2 DEF Sorted
  <2>5. \A i, j \in DOMAIN apcQueues'[h]: i < j => apcQueues'[h][i] < apcQueues'[h][j]
    <3> SUFFICES ASSUME NEW i \in DOMAIN apcQueues'[h], NEW j \in DOMAIN apcQueues'[h], i < j
                 PROVE  apcQueues'[h][i] < apcQueues'[h][j]
      OBVIOUS
    <3>1. CASE j \in DOMAIN apcQueues[h] /\ apcQueues'[h][j] = apcQueues[h][j]
      <4>1. i # Len(apcQueues[h]) + 1
        BY <1>1, <2>3, <3>1, QueueEnds
      <4> QED BY <1>1, <2>2, <3>1, <4>1 DEF Sorted
    <3>2. CASE j = Len(apcQueues[h]) + 1 /\ apcQueues'[h][j] = nextApc
      <4>1. i \in DOMAIN apcQueues[h] /\ apcQueues'[h][i] = apcQueues[h][i]
        BY <1>1, <2>2, <3>2, QueueEnds
      <4> QED BY <1>1, <3>2, <4>1 DEF Sorted
    <3> QED BY <2>2, <3>1, <3>2
  <2> QED BY <1>1, <2>4, <2>5 DEF Sorted
<1> QED BY <1>3, <1>4

\* TryDeliverOneApc takes the oldest.
LEMMA DeliveredSorted ==
    ASSUME TypeOK, ApcInv, NEW t \in Threads, TryDeliverOneApc(t)
    PROVE  ApcInv'
<1> SUFFICES ASSUME NEW h \in Handles PROVE Sorted(h)'
  BY DEF ApcInv
<1>1. Sorted(h) /\ nextApc' = nextApc /\ self[t] \in Handles /\ apcQueues[h] \in Seq(Nat)
      /\ lastRun[h] \in Nat
  BY DEF ApcInv, TryDeliverOneApc, TypeOK
<1>2. CASE h = self[t] /\ apcQueues[h] # <<>>
  <2>1. apcQueues'[h] = Tail(apcQueues[h]) /\ lastRun'[h] = Head(apcQueues[h])
    BY <1>1, <1>2 DEF TryDeliverOneApc, TypeOK
  <2>2. /\ DOMAIN apcQueues'[h] = 1..(Len(apcQueues[h]) - 1)
        /\ \A i \in DOMAIN apcQueues'[h]: apcQueues'[h][i] = apcQueues[h][i + 1]
        /\ lastRun'[h] = apcQueues[h][1]
        /\ DOMAIN apcQueues[h] = 1..Len(apcQueues[h]) /\ Len(apcQueues[h]) \in Nat
        /\ Len(apcQueues[h]) >= 1
    BY <1>1, <1>2, <2>1, QueueEnds, 0 \in Nat
  <2>3. \A i \in DOMAIN apcQueues'[h]:
           /\ i \in 1..Len(apcQueues[h]) /\ i + 1 \in 1..Len(apcQueues[h]) /\ 1 < i + 1
    BY <2>2
  <2>4. 1 \in DOMAIN apcQueues[h]
    BY <2>2
  <2>5. \A i \in DOMAIN apcQueues'[h]: lastRun'[h] < apcQueues'[h][i] /\ apcQueues'[h][i] < nextApc'
    BY <1>1, <2>2, <2>3, <2>4 DEF Sorted
  <2>6. lastRun'[h] < nextApc'
    BY <1>1, <2>2, <2>4 DEF Sorted
  <2>7. \A i, j \in DOMAIN apcQueues'[h]: i < j => apcQueues'[h][i] < apcQueues'[h][j]
    <3> SUFFICES ASSUME NEW i \in DOMAIN apcQueues'[h], NEW j \in DOMAIN apcQueues'[h], i < j
                 PROVE  apcQueues'[h][i] < apcQueues'[h][j]
      OBVIOUS
    <3>1. i + 1 \in DOMAIN apcQueues[h] /\ j + 1 \in DOMAIN apcQueues[h] /\ i + 1 < j + 1
      BY <2>2, <2>3
    <3> QED BY <1>1, <2>2, <3>1 DEF Sorted
  <2> QED BY <2>5, <2>6, <2>7 DEF Sorted
<1>3. CASE ~(h = self[t] /\ apcQueues[h] # <<>>)
  <2>1. apcQueues'[h] = apcQueues[h] /\ lastRun'[h] = lastRun[h]
    BY <1>1, <1>3 DEF TryDeliverOneApc, TypeOK
  <2> QED BY <1>1, <2>1 DEF Sorted
<1> QED BY <1>2, <1>3

LEMMA ApcStep ==
    ASSUME TypeOK, ApcInv, [Next]_vars
    PROVE  ApcInv'
<1>1. CASE UNCHANGED apcVars
  BY <1>1 DEF ApcInv, Sorted, apcVars
<1>2. CASE UNCHANGED vars
  BY <1>1, <1>2 DEF vars, apcVars
<1>3. ASSUME NEW t \in Threads, NEW a \in BOOLEAN, NEW b \in BOOLEAN,
             NtCreateMutant(t, b) \/ NtCreateEvent(t, a, b)
      PROVE  UNCHANGED apcVars
  BY <1>3 DEF NtCreateMutant, NtCreateEvent
<1>4. ASSUME NEW t \in Threads, NEW new \in Threads, ExCreateThread(t, new)
      PROVE  UNCHANGED apcVars
  BY <1>4 DEF ExCreateThread
<1>5. ASSUME NEW t \in Threads, NEW h \in Issued,
             NtSetEvent(t, h) \/ NtReleaseMutant(t, h) \/ NtClose(t, h)
      PROVE  UNCHANGED apcVars
  BY <1>5 DEF NtSetEvent, NtReleaseMutant, NtClose
<1>6. ASSUME NEW t \in Threads, NEW w \in WaitArgs, NtWaitForSingleObjectEx(t, w)
      PROVE  UNCHANGED apcVars
  BY <1>6 DEF NtWaitForSingleObjectEx
<1>7. ASSUME NEW t \in Threads,
             \/ ThreadEnds(t) \/ ApcReturns(t) \/ NotifyAll(t) \/ Reacquire(t)
             \/ TimeUp(t) \/ SpuriousWake(t)
      PROVE  UNCHANGED apcVars
  BY <1>7 DEF ThreadEnds, ApcReturns, NotifyAll, Reacquire, TimeUp, SpuriousWake
<1> QED
  BY <1>1, <1>2, <1>3, <1>4, <1>5, <1>6, <1>7, QueuedSorted, DeliveredSorted, NextCases

\* The APCs of a thread run in the order in which they were queued, each at most
\* once, whatever waits they interrupt and whoever queues them.
THEOREM ApcsRunInOrder == Spec => []ApcOrder
<1>1. Init => ApcInv
  BY DEF Init, ApcInv, Sorted
<1>2. ApcInv => ApcOrder
  BY DEF ApcInv, Sorted, ApcOrder
<1> QED BY <1>1, <1>2, ApcStep, TypeCorrect, PTL DEF Spec

(***************************************************************************)
(* A thread that has ended.  Its entry is inserted before it runs and no   *)
(* other thread is given the handle, so who ends finds its own entry or    *)
(* none; a wait resets no entry of a thread.                               *)
(***************************************************************************)
\* No step makes an entry below g_nextHandle a thread's, or resets one.
LEMMA ThreadEntries ==
    ASSUME TypeOK, HandleInv, [Next]_vars, NEW h \in Handles, h < nextHandle,
           handleTable'[h].type = "Thread"
    PROVE  handleTable[h].type = "Thread" /\ (handleTable[h].signaled => handleTable'[h].signaled)
<1>1. CASE UNCHANGED handleTable
  BY <1>1
<1>2. CASE UNCHANGED vars
  BY <1>1, <1>2 DEF vars
<1>3. ASSUME NEW o, Insert(o)
      PROVE  UNCHANGED handleTable \/ handleTable'[h] = handleTable[h]
  BY <1>3 DEF Insert, TypeOK
<1>4. ASSUME NEW t \in Threads, NEW a \in BOOLEAN, NEW b \in BOOLEAN,
             NtCreateMutant(t, b) \/ NtCreateEvent(t, a, b)
      PROVE  handleTable'[h] = handleTable[h]
  BY <1>3, <1>4 DEF NtCreateMutant, NtCreateEvent
<1>5. ASSUME NEW t \in Threads, NEW new \in Threads, ExCreateThread(t, new)
      PROVE  handleTable'[h] = handleTable[h]
  BY <1>3, <1>5 DEF ExCreateThread
<1>6. ASSUME NEW g \in Handles, Signal(g)
      PROVE  /\ handleTable'[h].type = handleTable[h].type
             /\ handleTable[h].signaled => handleTable'[h].signaled
  <2>1. \A o \in Objects: /\ [o EXCEPT !.signaled = TRUE].type = o.type
                          /\ [o EXCEPT !.signaled = TRUE].signaled
    BY DEF Objects
  <2>2. CASE handleTable[g] # Absent
    <3>1. handleTable' = [handleTable EXCEPT ![g] = [handleTable[g] EXCEPT !.signaled = TRUE]]
      BY <1>6, <2>2 DEF Signal
    <3> QED BY <2>1, <3>1 DEF TypeOK
  <2>3. CASE handleTable[g] = Absent
    BY <1>6, <2>3 DEF Signal, objVars
  <2> QED BY <2>2, <2>3
<1>7. ASSUME NEW t \in Threads, NEW g \in Issued, NtSetEvent(t, g) \/ NtReleaseMutant(t, g)
      PROVE  handleTable[h].type = "Thread" /\ (handleTable[h].signaled => handleTable'[h].signaled)
  BY <1>6, <1>7, IssuedAreHandles DEF NtSetEvent, NtReleaseMutant
<1>8. ASSUME NEW t \in Threads, NEW g \in Issued, NtClose(t, g)
      PROVE  handleTable'[h] = handleTable[h]
  BY <1>8 DEF NtClose, TypeOK, Absent, Object
<1>9. ASSUME NEW t \in Threads, ThreadEnds(t)
      PROVE  handleTable[h].type = "Thread" /\ (handleTable[h].signaled => handleTable'[h].signaled)
  BY <1>1, <1>6, <1>9 DEF ThreadEnds, objVars, TypeOK
<1>10. ASSUME NEW g \in Handles, NEW o \in {Lookup(g), ConsumeSignalOnAcquire(Lookup(g))},
              handleTable' = [handleTable EXCEPT ![g] = o]
       PROVE  handleTable[h].type = "Thread" /\ (handleTable[h].signaled => handleTable'[h].signaled)
  <2>1. CASE g # h
    BY <1>10, <2>1 DEF TypeOK
  <2>2. CASE g = h
    <3>1. handleTable'[h] = o /\ o.type = "Thread"
      BY <1>10, <2>2 DEF TypeOK
    <3>2. Lookup(h) \in Objects
      BY LookupType
    <3>3. o = Lookup(h)
      BY <1>10, <2>2, <3>1, <3>2 DEF ConsumeSignalOnAcquire, Consumable, Objects
    <3>4. Lookup(h) = handleTable[h]
      BY <3>1, <3>3 DEF Lookup, Object
    <3> QED BY <3>1, <3>3, <3>4
  <2> QED BY <2>1, <2>2
<1>11. ASSUME NEW t \in Threads, NEW w \in WaitArgs, Acquire(t, w) \/ Block(t, w)
       PROVE  handleTable[h].type = "Thread" /\ (handleTable[h].signaled => handleTable'[h].signaled)
  BY <1>10, <1>11 DEF Acquire, Block, WaitArgs
<1>12. ASSUME NEW t \in Threads, NEW w \in WaitArgs, NtWaitForSingleObjectEx(t, w)
       PROVE  handleTable[h].type = "Thread" /\ (handleTable[h].signaled => handleTable'[h].signaled)
  BY <1>11, <1>12 DEF NtWaitForSingleObjectEx
<1>13. ASSUME NEW t \in Threads, Reacquire(t) \/ TimeUp(t)
       PROVE  handleTable[h].type = "Thread" /\ (handleTable[h].signaled => handleTable'[h].signaled)
  <2>1. wait[t] \in WaitArgs /\ wait[t].handle \in Handles
    BY DEF TypeOK, WaitArgs
  <2>2. CASE Acquire(t, wait[t]) \/ Block(t, wait[t])
    BY <1>11, <2>1, <2>2
  <2>3. CASE ~(Acquire(t, wait[t]) \/ Block(t, wait[t]))
    <3>1. handleTable' = [handleTable EXCEPT ![wait[t].handle] = Lookup(wait[t].handle)]
      BY <1>13, <2>3 DEF Reacquire, TimeUp
    <3> QED BY <1>10, <2>1, <3>1
  <2> QED BY <2>2, <2>3
<1>14. ASSUME NEW t \in Threads, NEW g \in Handles,
              \/ NtQueueApcThread(t, g) \/ ApcReturns(t) \/ NotifyAll(t)
              \/ TryDeliverOneApc(t) \/ SpuriousWake(t)
       PROVE  UNCHANGED handleTable
  BY <1>14 DEF NtQueueApcThread, ApcReturns, NotifyAll, TryDeliverOneApc, SpuriousWake, objVars
<1> QED
  BY <1>1, <1>2, <1>4, <1>5, <1>7, <1>8, <1>9, <1>12, <1>13, <1>14, NextCases

\* Who is ending was ending or has just marked its own handle.
LEMMA WhoEnds ==
    ASSUME TypeOK, [Next]_vars, NEW v \in Threads, pc'[v] \in {"exit", "ended"}
    PROVE  self'[v] = self[v] /\ (pc[v] \in {"exit", "ended"} \/ ThreadEnds(v))
<1>1. CASE UNCHANGED vars
  BY <1>1 DEF vars
<1>2. ASSUME NEW t \in Threads, NEW a \in BOOLEAN, NEW b \in BOOLEAN,
             NtCreateMutant(t, b) \/ NtCreateEvent(t, a, b)
      PROVE  self'[v] = self[v] /\ pc[v] \in {"exit", "ended"}
  BY <1>2 DEF NtCreateMutant, NtCreateEvent
<1>3. ASSUME NEW t \in Threads, NEW new \in Threads, ExCreateThread(t, new)
      PROVE  self'[v] = self[v] /\ pc[v] \in {"exit", "ended"}
  BY <1>3 DEF ExCreateThread, TypeOK
<1>4. ASSUME NEW t \in Threads, NEW h \in Issued,
             NtSetEvent(t, h) \/ NtReleaseMutant(t, h) \/ NtClose(t, h)
      PROVE  self'[v] = self[v] /\ pc[v] \in {"exit", "ended"}
  BY <1>4 DEF NtSetEvent, NtReleaseMutant, NtClose, TypeOK
<1>5. ASSUME NEW t \in Threads, NEW h \in Handles, NtQueueApcThread(t, h)
      PROVE  self'[v] = self[v] /\ pc[v] \in {"exit", "ended"}
  BY <1>5 DEF NtQueueApcThread, TypeOK
<1>6. ASSUME NEW t \in Threads, NEW w \in WaitArgs, Acquire(t, w) \/ Block(t, w),
             UNCHANGED self
      PROVE  self'[v] = self[v] /\ pc[v] \in {"exit", "ended"}
  BY <1>6 DEF Acquire, Block, TypeOK
<1>7. ASSUME NEW t \in Threads, NEW w \in WaitArgs, NtWaitForSingleObjectEx(t, w)
      PROVE  self'[v] = self[v] /\ pc[v] \in {"exit", "ended"}
  BY <1>6, <1>7 DEF NtWaitForSingleObjectEx
<1>8. ASSUME NEW t \in Threads, Reacquire(t) \/ TimeUp(t)
      PROVE  self'[v] = self[v] /\ pc[v] \in {"exit", "ended"}
  <2>1. wait[t] \in WaitArgs /\ UNCHANGED self
    BY <1>8 DEF TypeOK, Reacquire, TimeUp
  <2>2. CASE Acquire(t, wait[t]) \/ Block(t, wait[t])
    BY <1>6, <2>1, <2>2
  <2>3. CASE ~(Acquire(t, wait[t]) \/ Block(t, wait[t]))
    BY <1>8, <2>1, <2>3 DEF Reacquire, TimeUp, TypeOK
  <2> QED BY <2>2, <2>3
<1>9. ASSUME NEW t \in Threads, ThreadEnds(t)
      PROVE  self'[v] = self[v] /\ (pc[v] \in {"exit", "ended"} \/ ThreadEnds(v))
  BY <1>9 DEF ThreadEnds, TypeOK
<1>10. ASSUME NEW t \in Threads,
              ApcReturns(t) \/ NotifyAll(t) \/ TryDeliverOneApc(t) \/ SpuriousWake(t)
       PROVE  self'[v] = self[v] /\ pc[v] \in {"exit", "ended"}
  BY <1>10 DEF ApcReturns, NotifyAll, TryDeliverOneApc, SpuriousWake, TypeOK
<1> QED
  BY <1>1, <1>2, <1>3, <1>4, <1>5, <1>7, <1>8, <1>9, <1>10, NextCases

LEMMA EndedStep ==
    ASSUME TypeOK, HandleInv, EndedIsSignaled, [Next]_vars
    PROVE  EndedIsSignaled'
<1> SUFFICES ASSUME NEW v \in Threads, pc'[v] \in {"exit", "ended"},
                    handleTable'[self'[v]].type = "Thread"
             PROVE  handleTable'[self'[v]].signaled
  BY DEF EndedIsSignaled
<1>1. self'[v] = self[v] /\ self[v] \in Handles /\ self[v] < nextHandle
  BY WhoEnds DEF TypeOK, HandleInv
<1>2. handleTable[self[v]].type = "Thread"
      /\ (handleTable[self[v]].signaled => handleTable'[self[v]].signaled)
  BY <1>1, ThreadEntries
<1>3. CASE pc[v] \in {"exit", "ended"}
  BY <1>1, <1>2, <1>3 DEF EndedIsSignaled
<1>4. CASE ThreadEnds(v)
  <2>1. handleTable[self[v]] # Absent
    BY <1>2 DEF Absent, Object
  <2>2. self[v] # 0
    BY <2>1 DEF HandleInv
  <2>3. handleTable' = [handleTable EXCEPT ![self[v]] =
                           [handleTable[self[v]] EXCEPT !.signaled = TRUE]]
    BY <1>4, <2>1, <2>2 DEF ThreadEnds, Signal
  <2>4. [handleTable[self[v]] EXCEPT !.signaled = TRUE].signaled
    BY <1>1 DEF TypeOK, Objects
  <2> QED BY <1>1, <2>3, <2>4 DEF TypeOK
<1> QED BY <1>3, <1>4, WhoEnds

\* The handle of a thread that has ended is signaled until it is closed, for any
\* number of threads, joiners, time-outs and closes in between.
THEOREM EndedStaysSignaled == Spec => []EndedIsSignaled
<1>1. Init => HandleInv /\ EndedIsSignaled
  BY HandleInit DEF Init, EndedIsSignaled
<1>2. TypeOK /\ HandleInv /\ EndedIsSignaled /\ [Next]_vars => HandleInv' /\ EndedIsSignaled'
  BY HandleStep, EndedStep
<1> QED BY <1>1, <1>2, TypeCorrect, PTL DEF Spec

(***************************************************************************)
(* Signals are not lost.  A new entry must not fall on a signaled one: no  *)
(* handle that is still to be given out is signaled.                       *)
(***************************************************************************)
Unissued == \A h \in Handles: handleTable[h].signaled => h < nextHandle

\* What a step does to one handle: its signal goes with the handle or into one
\* wait, and it is signaled only if it was or has been given out.
Accounted(h) ==
    /\ handleTable[h].signaled /\ handleTable'[h] # Absent /\ ~handleTable'[h].signaled
       => credit'[h] = credit[h] - 1
    /\ handleTable'[h].signaled => handleTable[h].signaled \/ h < nextHandle'

\* A step that writes no object, and an entry that a step leaves as it is.
LEMMA AccountedAsIs ==
    ASSUME NEW h \in Handles, handleTable'[h] = handleTable[h]
    PROVE  Accounted(h)
BY DEF Accounted

\* Looking a handle up does not touch a signal.
LEMMA LookupAccounted ==
    ASSUME TypeOK, NEW g \in Handles, NEW h \in Handles,
           handleTable' = [handleTable EXCEPT ![g] = Lookup(g)]
    PROVE  Accounted(h)
<1>1. CASE h # g
  BY <1>1, AccountedAsIs DEF TypeOK
<1>2. CASE h = g /\ handleTable[g] = Absent
  <2>1. handleTable'[h] = Object("Mutant", FALSE, FALSE)
    BY <1>2 DEF TypeOK, Lookup
  <2> QED BY <1>2, <2>1 DEF Accounted, Absent, Object
<1>3. CASE h = g /\ handleTable[g] # Absent
  <2>1. handleTable'[h] = handleTable[h]
    BY <1>3 DEF TypeOK, Lookup
  <2> QED BY <2>1, AccountedAsIs
<1> QED BY <1>1, <1>2, <1>3

\* A wait that gets through takes the signal or leaves it, and says so.
LEMMA AcquireAccounted ==
    ASSUME TypeOK, NEW t \in Threads, NEW w \in WaitArgs, Acquire(t, w), NEW h \in Handles
    PROVE  Accounted(h)
<1>0. w.handle \in Handles /\ Lookup(w.handle) \in Objects
  BY LookupType DEF WaitArgs
<1>1. CASE w.alertable /\ HasPendingApc(t)
  BY <1>0, <1>1, LookupAccounted DEF Acquire
<1>2. CASE ~(w.alertable /\ HasPendingApc(t)) /\ ~Consumable(Lookup(w.handle))
  BY <1>0, <1>2, LookupAccounted DEF Acquire, ConsumeSignalOnAcquire
<1>3. CASE ~(w.alertable /\ HasPendingApc(t)) /\ Consumable(Lookup(w.handle))
  <2>1. /\ handleTable' = [handleTable EXCEPT ![w.handle] =
                              [Lookup(w.handle) EXCEPT !.signaled = FALSE]]
        /\ credit' = [credit EXCEPT ![w.handle] = @ - 1]
    BY <1>3 DEF Acquire, ConsumeSignalOnAcquire
  <2>2. CASE h # w.handle
    BY <2>1, <2>2, AccountedAsIs DEF TypeOK
  <2>3. CASE h = w.handle
    <3>1. credit'[h] = credit[h] - 1
      BY <1>0, <2>1, <2>3 DEF TypeOK
    <3>2. ~handleTable'[h].signaled
      BY <1>0, <2>1, <2>3 DEF TypeOK, Objects
    <3> QED BY <3>1, <3>2 DEF Accounted
  <2> QED BY <2>2, <2>3
<1> QED BY <1>1, <1>2, <1>3

\* Signalling takes no signal away.
LEMMA SignalAccounted ==
    ASSUME TypeOK, NEW g \in Handles, g < nextHandle, UNCHANGED nextHandle, Signal(g),
           NEW h \in Handles
    PROVE  Accounted(h)
<1>1. CASE handleTable[g] = Absent
  BY <1>1, AccountedAsIs DEF Signal, objVars
<1>2. CASE handleTable[g] # Absent /\ h # g
  BY <1>2, AccountedAsIs DEF Signal, TypeOK
<1>3. CASE handleTable[g] # Absent /\ h = g
  <2>1. handleTable'[h] = [handleTable[h] EXCEPT !.signaled = TRUE]
    BY <1>3 DEF Signal, TypeOK
  <2>2. handleTable[h] \in Objects
    BY DEF TypeOK
  <2>3. handleTable'[h].signaled
    BY <2>1, <2>2 DEF Objects
  <2> QED BY <1>3, <2>3 DEF Accounted
<1> QED BY <1>1, <1>2, <1>3

\* A new object overwrites no signal.
LEMMA InsertAccounted ==
    ASSUME TypeOK, Unissued, NEW o, Insert(o), NEW h \in Handles
    PROVE  Accounted(h)
<1>1. nextHandle \in Nat /\ nextHandle' = nextHandle + 1
  BY DEF Insert, TypeOK
<1>2. CASE h = nextHandle
  BY <1>1, <1>2 DEF Unissued, Accounted
<1>3. CASE h # nextHandle
  BY <1>3, AccountedAsIs DEF Insert, TypeOK
<1> QED BY <1>2, <1>3

LEMMA AccountedStep ==
    ASSUME TypeOK, HandleInv, Unissued, [Next]_vars, NEW h \in Handles
    PROVE  Accounted(h)
<1>1. CASE UNCHANGED objVars
  BY <1>1, AccountedAsIs DEF objVars
<1>2. CASE UNCHANGED vars
  BY <1>1, <1>2 DEF vars, objVars
<1>3. ASSUME NEW t \in Threads, NEW a \in BOOLEAN, NEW b \in BOOLEAN, NEW new \in Threads,
             NtCreateMutant(t, b) \/ NtCreateEvent(t, a, b) \/ ExCreateThread(t, new)
      PROVE  Accounted(h)
  BY <1>3, InsertAccounted DEF NtCreateMutant, NtCreateEvent, ExCreateThread
<1>4. ASSUME NEW t \in Threads, NEW g \in Issued, NtSetEvent(t, g) \/ NtReleaseMutant(t, g)
      PROVE  Accounted(h)
  <2>1. g \in Handles /\ g < nextHandle
    BY IssuedAreHandles DEF Issued, TypeOK
  <2> QED BY <1>4, <2>1, SignalAccounted DEF NtSetEvent, NtReleaseMutant
<1>5. ASSUME NEW t \in Threads, NEW g \in Issued, NtClose(t, g) PROVE Accounted(h)
  <2>1. CASE h # g
    BY <1>5, <2>1, AccountedAsIs DEF NtClose, TypeOK
  <2>2. CASE h = g
    <3>1. handleTable'[h] = Absent
      BY <1>5, <2>2 DEF NtClose, TypeOK
    <3> QED BY <3>1 DEF Accounted, Absent, Object
  <2> QED BY <2>1, <2>2
<1>6. ASSUME NEW t \in Threads, ThreadEnds(t) PROVE Accounted(h)
  <2>1. self[t] \in Handles /\ self[t] < nextHandle
    BY DEF TypeOK, HandleInv
  <2> QED BY <1>1, <1>6, <2>1, SignalAccounted DEF ThreadEnds
<1>7. ASSUME NEW t \in Threads, NEW w \in WaitArgs, Acquire(t, w) \/ Block(t, w)
      PROVE  Accounted(h)
  BY <1>7, AcquireAccounted, LookupAccounted DEF Block, WaitArgs
<1>8. ASSUME NEW t \in Threads, TimeUp(t) PROVE Accounted(h)
  <2>1. wait[t] \in WaitArgs /\ wait[t].handle \in Handles
    BY DEF TypeOK, WaitArgs
  <2>2. CASE WakePredicate(t, wait[t])
    BY <1>7, <1>8, <2>1, <2>2 DEF TimeUp
  <2>3. CASE ~WakePredicate(t, wait[t])
    BY <1>8, <2>1, <2>3, LookupAccounted DEF TimeUp
  <2> QED BY <2>2, <2>3
<1>9. ASSUME NEW t \in Threads, Reacquire(t) PROVE Accounted(h)
  BY <1>7, <1>9 DEF Reacquire, TypeOK
<1>10. ASSUME NEW t \in Threads, NEW w \in WaitArgs, NtWaitForSingleObjectEx(t, w)
       PROVE  Accounted(h)
  BY <1>7, <1>10 DEF NtWaitForSingleObjectEx
<1>11. ASSUME NEW t \in Threads, NEW g \in Handles,
              \/ NtQueueApcThread(t, g) \/ ApcReturns(t) \/ NotifyAll(t)
              \/ TryDeliverOneApc(t) \/ SpuriousWake(t)
       PROVE  UNCHANGED objVars
  BY <1>11 DEF NtQueueApcThread, ApcReturns, NotifyAll, TryDeliverOneApc, SpuriousWake
<1> QED
  BY <1>1, <1>2, <1>3, <1>4, <1>5, <1>6, <1>8, <1>9, <1>10, <1>11, NextCases

\* The handle counter never goes back.
LEMMA NextHandleGrows ==
    ASSUME TypeOK, [Next]_vars
    PROVE  nextHandle \in Nat /\ nextHandle' \in Nat /\ nextHandle <= nextHandle'
<1>1. nextHandle \in Nat
  BY DEF TypeOK
<1>2. nextHandle' = nextHandle \/ nextHandle' = nextHandle + 1
  BY NextCases DEF vars, NtCreateMutant, NtCreateEvent, ExCreateThread, Insert, NtSetEvent,
     NtReleaseMutant, NtClose, NtQueueApcThread, NtWaitForSingleObjectEx, ThreadEnds,
     ApcReturns, NotifyAll, Reacquire, TryDeliverOneApc, TimeUp, SpuriousWake
<1> QED BY <1>1, <1>2

\* g_nextHandle never goes back, so what was given out stays given out.
LEMMA UnissuedStep ==
    ASSUME TypeOK, HandleInv, Unissued, [Next]_vars
    PROVE  Unissued'
<1> SUFFICES ASSUME NEW h \in Handles, handleTable'[h].signaled PROVE h < nextHandle'
  BY DEF Unissued
<1>1. handleTable[h].signaled \/ h < nextHandle'
  BY AccountedStep DEF Accounted
<1>2. nextHandle \in Nat /\ nextHandle' \in Nat /\ nextHandle <= nextHandle'
  BY NextHandleGrows
<1>3. h \in Nat
  BY DEF Handles
<1> QED BY <1>1, <1>2, <1>3 DEF Unissued

\* No signal of any object is swallowed by a time-out, an APC delivery or a new
\* object: while its handle stays open it goes into exactly one wait that succeeds.
THEOREM SignalsAreNotLost == Spec => SignalNotLost
<1>1. Init => HandleInv /\ Unissued
  BY HandleInit DEF Init, Unissued, Absent, Object
<1>2. TypeOK /\ HandleInv /\ Unissued /\ [Next]_vars => HandleInv' /\ Unissued'
  BY HandleStep, UnissuedStep
<1>3. TypeOK /\ HandleInv /\ Unissued /\ [Next]_vars =>
          [\A h \in Handles:
              /\ handleTable[h].signaled
              /\ handleTable'[h] # Absent
              /\ ~handleTable'[h].signaled
              => credit'[h] = credit[h] - 1]_vars
  BY AccountedStep DEF Accounted
<1> QED BY <1>1, <1>2, <1>3, TypeCorrect, PTL DEF Spec, SignalNotLost
=============================================================================

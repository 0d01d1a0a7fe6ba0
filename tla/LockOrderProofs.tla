-------------------------- MODULE LockOrderProofs --------------------------
(***************************************************************************)
(* Proofs about LockOrder, for any number of guest threads: under what     *)
(* conditions on the guest there is no deadlock, and that the kernel and   *)
(* the tracer agree on one system command buffer.                          *)
(*                                                                         *)
(* What a thread has left to do is one of a few sequences.  Each is named, *)
(* by its first operation and the sequence that follows it.                *)
(***************************************************************************)
EXTENDS LockOrder, TLAPS

Words == {"lock", "unlock", "check", "recheck", "allocate", "trace", "register", "scan",
          "state", "tracer", "section", "none"}
Ops == [op : Words, lock : Words]

\* A kernel call, a tracer call
K2 == Unlock("state") \o <<>>
K1 == Lock("state") \o K2
T2 == Unlock("tracer") \o <<>>
T1 == Lock("tracer") \o T2

\* VdGetSystemCommandBuffer: the check, the second check, the allocation
C1 == Do("check") \o <<>>
S2 == Do("recheck") \o <<>>
S1 == Lock("state") \o S2
A4 == Unlock("tracer") \o K2
A3 == Do("trace") \o A4
A2 == Lock("tracer") \o A3
A1 == Do("allocate") \o A2

\* VdSetGraphicsInterruptCallback
R2 == Do("register") \o T2
R1 == Lock("tracer") \o R2

\* A critical section: leaving it, a kernel or a tracer call inside, entering it
L3 == Unlock("section") \o <<>>
L2 == Unlock("state") \o L3
L1 == Lock("state") \o L2
IK2 == Unlock("state") \o L1
IK1 == Lock("state") \o IK2
IT2 == Unlock("tracer") \o L1
IT1 == Lock("tracer") \o IT2
EK3 == Lock("section") \o IK1
EK2 == Unlock("state") \o EK3
EK1 == Lock("state") \o EK2
ET3 == Lock("section") \o IT1
ET2 == Unlock("state") \o ET3
ET1 == Lock("state") \o ET2

\* A tick of the pump, and the three bodies of a callback within its scan
P6 == Do("scan") \o <<>>
P5 == Lock("tracer") \o P6
P4 == Unlock("tracer") \o P5
P3 == Lock("tracer") \o P4
P2 == Unlock("tracer") \o P3
P1 == Lock("tracer") \o P2
PK2 == Unlock("state") \o P6
PK1 == Lock("state") \o PK2
PT2 == Unlock("tracer") \o P6
PT1 == Lock("tracer") \o PT2
PL3 == Unlock("section") \o P6
PL2 == Unlock("state") \o PL3
PL1 == Lock("state") \o PL2
PE3 == Lock("section") \o PL1
PE2 == Unlock("state") \o PE3
PE1 == Lock("state") \o PE2

-----------------------------------------------------------------------------
(* Where a thread is: what it has left, and how often it holds the state   *)
(* mutex, the tracer's, and the critical section.                          *)

CallPlace(c, s, t, e) ==
    \/ c \in {<<>>, K1, T1, C1, S1} /\ s = 0 /\ t = 0 /\ e = 0
    \/ c \in {K2, S2, A1, A2} /\ s = 1 /\ t = 0 /\ e = 0
    \/ c = T2 /\ s = 0 /\ t = 1 /\ e = 0
    \/ c \in {A3, A4} /\ s = 1 /\ t = 1 /\ e = 0

RegisterPlace(c, s, t, e) ==
    \/ c = R1 /\ s = 0 /\ t = 0 /\ e = 0
    \/ c = R2 /\ s = 0 /\ t = 1 /\ e = 0

SectionPlace(name, c, s, t, e) ==
    \/ c \in {L1, L3} /\ s = 0 /\ t = 0 /\ e = 1
    \/ c = L2 /\ s = 1 /\ t = 0 /\ e = 1
    \/ /\ name = "kernel"
       /\ \/ c \in {EK1, EK3} /\ s = 0 /\ t = 0 /\ e = 0
          \/ c = EK2 /\ s = 1 /\ t = 0 /\ e = 0
          \/ c = IK1 /\ s = 0 /\ t = 0 /\ e = 1
          \/ c = IK2 /\ s = 1 /\ t = 0 /\ e = 1
    \/ /\ name = "tracer"
       /\ \/ c \in {ET1, ET3} /\ s = 0 /\ t = 0 /\ e = 0
          \/ c = ET2 /\ s = 1 /\ t = 0 /\ e = 0
          \/ c = IT1 /\ s = 0 /\ t = 0 /\ e = 1
          \/ c = IT2 /\ s = 0 /\ t = 1 /\ e = 1

TickPlace(c, s, t, e) ==
    \/ c \in {<<>>, P1, P3, P5} /\ s = 0 /\ t = 0 /\ e = 0
    \/ c \in {P2, P4, P6, T2} /\ s = 0 /\ t = 1 /\ e = 0

BodyPlace(name, c, s, t, e) ==
    \/ /\ name = "kernel"
       /\ \/ c = PK1 /\ s = 0 /\ t = 1 /\ e = 0
          \/ c = PK2 /\ s = 1 /\ t = 1 /\ e = 0
    \/ /\ name = "tracer"
       /\ \/ c = PT1 /\ s = 0 /\ t = 1 /\ e = 0
          \/ c = PT2 /\ s = 0 /\ t = 2 /\ e = 0
    \/ /\ name = "section"
       /\ \/ c \in {PE1, PE3} /\ s = 0 /\ t = 1 /\ e = 0
          \/ c = PE2 /\ s = 1 /\ t = 1 /\ e = 0
          \/ c \in {PL1, PL3} /\ s = 0 /\ t = 1 /\ e = 1
          \/ c = PL2 /\ s = 1 /\ t = 1 /\ e = 1

\* A callback is registered, if ever, when the buffer is known to the tracer.
Registers == BufferFirst => traced # 0

GuestPlace(registers, c, s, t, e) ==
    \/ CallPlace(c, s, t, e)
    \/ registers /\ RegisterPlace(c, s, t, e)
    \/ \E name \in InSection: SectionPlace(name, c, s, t, e)

PumpPlace(interrupts, c, s, t, e) ==
    \/ TickPlace(c, s, t, e)
    \/ interrupts /\ \E name \in InCallback: BodyPlace(name, c, s, t, e)

Placed ==
    /\ held \in [Threads -> [Locks -> Nat]] /\ code = [t \in Threads |-> code[t]]
    /\ \A t \in Guests:
          GuestPlace(Registers, code[t], held[t].state, held[t].tracer, held[t].section)
    /\ PumpPlace(callback, code[Pump], held[Pump].state, held[Pump].tracer, held[Pump].section)
    /\ callback \in BOOLEAN /\ (callback => Registers)

Exclusive ==
    \A t, u \in Threads, l \in Locks: Holds(t, l) /\ Holds(u, l) => t = u

\* The buffer has its address, and the tracer has not been told yet.
Tells(t) == code[t] \in {A2, A3}

OneBuffer ==
    /\ address \in {0, 1} /\ allocated = address /\ traced \in {0, address}
    /\ \A t \in Guests: code[t] = A1 => address = 0
    /\ \A t \in Guests: Tells(t) => address # 0 /\ traced = 0
    /\ traced # address => \E t \in Guests: Tells(t)

LockInv == Placed /\ Exclusive /\ OneBuffer

-----------------------------------------------------------------------------
(* The first operation of a sequence, and what follows it. *)

Op(c) == Head(c).op
Lk(c) == Head(c).lock
After(c) == Tail(c)

Is(c, op, lock, rest) == c # <<>> /\ Op(c) = op /\ Lk(c) = lock /\ After(c) = rest

LEMMA FirstThenRest ==
    ASSUME NEW o \in Ops, NEW r \in Seq(Ops)
    PROVE  Is(<<o>> \o r, o.op, o.lock, r) /\ <<o>> \o r \in Seq(Ops)
<1>1. /\ <<o>> \o r \in Seq(Ops) /\ <<o>> \o r # <<>>
      /\ Head(<<o>> \o r) = o /\ Tail(<<o>> \o r) = r
  OBVIOUS
<1> QED BY <1>1 DEF Is, Op, Lk, After

LEMMA OperationThenRest ==
    ASSUME NEW s \in Words, NEW r \in Seq(Ops)
    PROVE  /\ Is(Lock(s) \o r, "lock", s, r) /\ Lock(s) \o r \in Seq(Ops)
           /\ Is(Unlock(s) \o r, "unlock", s, r) /\ Unlock(s) \o r \in Seq(Ops)
           /\ Is(Do(s) \o r, s, "none", r) /\ Do(s) \o r \in Seq(Ops)
<1>1. /\ [op |-> "lock", lock |-> s] \in Ops /\ [op |-> "unlock", lock |-> s] \in Ops
      /\ [op |-> s, lock |-> "none"] \in Ops
  BY DEF Ops, Words
<1>2. \A o \in Ops: Is(<<o>> \o r, o.op, o.lock, r) /\ <<o>> \o r \in Seq(Ops)
  BY FirstThenRest
<1> QED BY <1>1, <1>2 DEF Lock, Unlock, Do

LEMMA WordFacts ==
    /\ "state" \in Words /\ "tracer" \in Words /\ "section" \in Words /\ "check" \in Words
    /\ "recheck" \in Words /\ "allocate" \in Words /\ "trace" \in Words
    /\ "register" \in Words /\ "scan" \in Words
BY DEF Words

LEMMA EmptyCode == <<>> \in Seq(Ops)
OBVIOUS

\* A kernel call, a tracer call, the check for the buffer and its allocation, registering
LEMMA CallCodes ==
    /\ Is(K2, "unlock", "state", <<>>)
    /\ Is(K1, "lock", "state", K2)
    /\ Is(T2, "unlock", "tracer", <<>>)
    /\ Is(T1, "lock", "tracer", T2)
    /\ Is(C1, "check", "none", <<>>)
    /\ Is(S2, "recheck", "none", <<>>)
    /\ Is(S1, "lock", "state", S2)
    /\ Is(A4, "unlock", "tracer", K2)
    /\ Is(A3, "trace", "none", A4)
    /\ Is(A2, "lock", "tracer", A3)
    /\ Is(A1, "allocate", "none", A2)
    /\ Is(R2, "register", "none", T2)
    /\ Is(R1, "lock", "tracer", R2)
<1>1. K2 \in Seq(Ops) /\ Is(K2, "unlock", "state", <<>>)
  BY EmptyCode, WordFacts, OperationThenRest, Zenon DEF K2
<1>2. K1 \in Seq(Ops) /\ Is(K1, "lock", "state", K2)
  BY <1>1, WordFacts, OperationThenRest, Zenon DEF K1
<1>3. T2 \in Seq(Ops) /\ Is(T2, "unlock", "tracer", <<>>)
  BY EmptyCode, WordFacts, OperationThenRest, Zenon DEF T2
<1>4. T1 \in Seq(Ops) /\ Is(T1, "lock", "tracer", T2)
  BY <1>3, WordFacts, OperationThenRest, Zenon DEF T1
<1>5. C1 \in Seq(Ops) /\ Is(C1, "check", "none", <<>>)
  BY EmptyCode, WordFacts, OperationThenRest, Zenon DEF C1
<1>6. S2 \in Seq(Ops) /\ Is(S2, "recheck", "none", <<>>)
  BY EmptyCode, WordFacts, OperationThenRest, Zenon DEF S2
<1>7. S1 \in Seq(Ops) /\ Is(S1, "lock", "state", S2)
  BY <1>6, WordFacts, OperationThenRest, Zenon DEF S1
<1>8. A4 \in Seq(Ops) /\ Is(A4, "unlock", "tracer", K2)
  BY <1>1, WordFacts, OperationThenRest, Zenon DEF A4
<1>9. A3 \in Seq(Ops) /\ Is(A3, "trace", "none", A4)
  BY <1>8, WordFacts, OperationThenRest, Zenon DEF A3
<1>10. A2 \in Seq(Ops) /\ Is(A2, "lock", "tracer", A3)
  BY <1>9, WordFacts, OperationThenRest, Zenon DEF A2
<1>11. A1 \in Seq(Ops) /\ Is(A1, "allocate", "none", A2)
  BY <1>10, WordFacts, OperationThenRest, Zenon DEF A1
<1>12. R2 \in Seq(Ops) /\ Is(R2, "register", "none", T2)
  BY <1>3, WordFacts, OperationThenRest, Zenon DEF R2
<1>13. R1 \in Seq(Ops) /\ Is(R1, "lock", "tracer", R2)
  BY <1>12, WordFacts, OperationThenRest, Zenon DEF R1
<1> QED BY <1>1, <1>2, <1>3, <1>4, <1>5, <1>6, <1>7, <1>8, <1>9, <1>10, <1>11, <1>12, <1>13

\* Entering the section, a call inside it, leaving it
LEMMA SectionCodes ==
    /\ Is(L3, "unlock", "section", <<>>)
    /\ Is(L2, "unlock", "state", L3)
    /\ Is(L1, "lock", "state", L2)
    /\ Is(IK2, "unlock", "state", L1)
    /\ Is(IK1, "lock", "state", IK2)
    /\ Is(IT2, "unlock", "tracer", L1)
    /\ Is(IT1, "lock", "tracer", IT2)
    /\ Is(EK3, "lock", "section", IK1)
    /\ Is(EK2, "unlock", "state", EK3)
    /\ Is(EK1, "lock", "state", EK2)
    /\ Is(ET3, "lock", "section", IT1)
    /\ Is(ET2, "unlock", "state", ET3)
    /\ Is(ET1, "lock", "state", ET2)
<1>1. L3 \in Seq(Ops) /\ Is(L3, "unlock", "section", <<>>)
  BY EmptyCode, WordFacts, OperationThenRest, Zenon DEF L3
<1>2. L2 \in Seq(Ops) /\ Is(L2, "unlock", "state", L3)
  BY <1>1, WordFacts, OperationThenRest, Zenon DEF L2
<1>3. L1 \in Seq(Ops) /\ Is(L1, "lock", "state", L2)
  BY <1>2, WordFacts, OperationThenRest, Zenon DEF L1
<1>4. IK2 \in Seq(Ops) /\ Is(IK2, "unlock", "state", L1)
  BY <1>3, WordFacts, OperationThenRest, Zenon DEF IK2
<1>5. IK1 \in Seq(Ops) /\ Is(IK1, "lock", "state", IK2)
  BY <1>4, WordFacts, OperationThenRest, Zenon DEF IK1
<1>6. IT2 \in Seq(Ops) /\ Is(IT2, "unlock", "tracer", L1)
  BY <1>3, WordFacts, OperationThenRest, Zenon DEF IT2
<1>7. IT1 \in Seq(Ops) /\ Is(IT1, "lock", "tracer", IT2)
  BY <1>6, WordFacts, OperationThenRest, Zenon DEF IT1
<1>8. EK3 \in Seq(Ops) /\ Is(EK3, "lock", "section", IK1)
  BY <1>5, WordFacts, OperationThenRest, Zenon DEF EK3
<1>9. EK2 \in Seq(Ops) /\ Is(EK2, "unlock", "state", EK3)
  BY <1>8, WordFacts, OperationThenRest, Zenon DEF EK2
<1>10. EK1 \in Seq(Ops) /\ Is(EK1, "lock", "state", EK2)
  BY <1>9, WordFacts, OperationThenRest, Zenon DEF EK1
<1>11. ET3 \in Seq(Ops) /\ Is(ET3, "lock", "section", IT1)
  BY <1>7, WordFacts, OperationThenRest, Zenon DEF ET3
<1>12. ET2 \in Seq(Ops) /\ Is(ET2, "unlock", "state", ET3)
  BY <1>11, WordFacts, OperationThenRest, Zenon DEF ET2
<1>13. ET1 \in Seq(Ops) /\ Is(ET1, "lock", "state", ET2)
  BY <1>12, WordFacts, OperationThenRest, Zenon DEF ET1
<1> QED BY <1>1, <1>2, <1>3, <1>4, <1>5, <1>6, <1>7, <1>8, <1>9, <1>10, <1>11, <1>12, <1>13

\* The tick, the callback's body
LEMMA PumpCodes ==
    /\ Is(P6, "scan", "none", <<>>)
    /\ Is(P5, "lock", "tracer", P6)
    /\ Is(P4, "unlock", "tracer", P5)
    /\ Is(P3, "lock", "tracer", P4)
    /\ Is(P2, "unlock", "tracer", P3)
    /\ Is(P1, "lock", "tracer", P2)
    /\ Is(PK2, "unlock", "state", P6)
    /\ Is(PK1, "lock", "state", PK2)
    /\ Is(PT2, "unlock", "tracer", P6)
    /\ Is(PT1, "lock", "tracer", PT2)
    /\ Is(PL3, "unlock", "section", P6)
    /\ Is(PL2, "unlock", "state", PL3)
    /\ Is(PL1, "lock", "state", PL2)
    /\ Is(PE3, "lock", "section", PL1)
    /\ Is(PE2, "unlock", "state", PE3)
    /\ Is(PE1, "lock", "state", PE2)
<1>1. P6 \in Seq(Ops) /\ Is(P6, "scan", "none", <<>>)
  BY EmptyCode, WordFacts, OperationThenRest, Zenon DEF P6
<1>2. P5 \in Seq(Ops) /\ Is(P5, "lock", "tracer", P6)
  BY <1>1, WordFacts, OperationThenRest, Zenon DEF P5
<1>3. P4 \in Seq(Ops) /\ Is(P4, "unlock", "tracer", P5)
  BY <1>2, WordFacts, OperationThenRest, Zenon DEF P4
<1>4. P3 \in Seq(Ops) /\ Is(P3, "lock", "tracer", P4)
  BY <1>3, WordFacts, OperationThenRest, Zenon DEF P3
<1>5. P2 \in Seq(Ops) /\ Is(P2, "unlock", "tracer", P3)
  BY <1>4, WordFacts, OperationThenRest, Zenon DEF P2
<1>6. P1 \in Seq(Ops) /\ Is(P1, "lock", "tracer", P2)
  BY <1>5, WordFacts, OperationThenRest, Zenon DEF P1
<1>7. PK2 \in Seq(Ops) /\ Is(PK2, "unlock", "state", P6)
  BY <1>1, WordFacts, OperationThenRest, Zenon DEF PK2
<1>8. PK1 \in Seq(Ops) /\ Is(PK1, "lock", "state", PK2)
  BY <1>7, WordFacts, OperationThenRest, Zenon DEF PK1
<1>9. PT2 \in Seq(Ops) /\ Is(PT2, "unlock", "tracer", P6)
  BY <1>1, WordFacts, OperationThenRest, Zenon DEF PT2
<1>10. PT1 \in Seq(Ops) /\ Is(PT1, "lock", "tracer", PT2)
  BY <1>9, WordFacts, OperationThenRest, Zenon DEF PT1
<1>11. PL3 \in Seq(Ops) /\ Is(PL3, "unlock", "section", P6)
  BY <1>1, WordFacts, OperationThenRest, Zenon DEF PL3
<1>12. PL2 \in Seq(Ops) /\ Is(PL2, "unlock", "state", PL3)
  BY <1>11, WordFacts, OperationThenRest, Zenon DEF PL2
<1>13. PL1 \in Seq(Ops) /\ Is(PL1, "lock", "state", PL2)
  BY <1>12, WordFacts, OperationThenRest, Zenon DEF PL1
<1>14. PE3 \in Seq(Ops) /\ Is(PE3, "lock", "section", PL1)
  BY <1>13, WordFacts, OperationThenRest, Zenon DEF PE3
<1>15. PE2 \in Seq(Ops) /\ Is(PE2, "unlock", "state", PE3)
  BY <1>14, WordFacts, OperationThenRest, Zenon DEF PE2
<1>16. PE1 \in Seq(Ops) /\ Is(PE1, "lock", "state", PE2)
  BY <1>15, WordFacts, OperationThenRest, Zenon DEF PE1
<1> QED BY <1>1, <1>2, <1>3, <1>4, <1>5, <1>6, <1>7, <1>8, <1>9, <1>10, <1>11, <1>12, <1>13, <1>14, <1>15, <1>16

-----------------------------------------------------------------------------
(* From place to place. *)

If(c, l) == IF Lk(c) = l THEN 1 ELSE 0

\* What the thread holds of the lock it releases
Counts(c, s, t, e) ==
    \/ Lk(c) = "state" /\ s = 1
    \/ Lk(c) = "tracer" /\ t \in {1, 2}
    \/ Lk(c) = "section" /\ e = 1

LEMMA CallTable ==
    ASSUME NEW c, NEW s, NEW t, NEW e, CallPlace(c, s, t, e), c # <<>>
    PROVE  \/ /\ Op(c) = "lock" /\ Lk(c) \in Locks
              /\ CallPlace(After(c), s + If(c, "state"), t + If(c, "tracer"), e + If(c, "section"))
           \/ /\ Op(c) = "unlock" /\ Counts(c, s, t, e)
              /\ CallPlace(After(c), s - If(c, "state"), t - If(c, "tracer"), e - If(c, "section"))
           \/ Op(c) = "check" /\ c = C1 /\ s = 0 /\ t = 0 /\ e = 0
           \/ Op(c) = "recheck" /\ c = S2 /\ s = 1 /\ t = 0 /\ e = 0
           \/ Op(c) = "allocate" /\ c = A1 /\ s = 1 /\ t = 0 /\ e = 0
           \/ Op(c) = "trace" /\ c = A3 /\ s = 1 /\ t = 1 /\ e = 0
BY CallCodes DEF Is, CallPlace, If, Counts, Locks

LEMMA RegisterTable ==
    ASSUME NEW c, NEW s, NEW t, NEW e, RegisterPlace(c, s, t, e)
    PROVE  /\ c # <<>>
           /\ \/ /\ Op(c) = "lock" /\ Lk(c) \in Locks
                 /\ RegisterPlace(After(c), s + If(c, "state"), t + If(c, "tracer"), e + If(c, "section"))
              \/ Op(c) = "register" /\ c = R2 /\ s = 0 /\ t = 1 /\ e = 0
BY CallCodes DEF Is, RegisterPlace, If, Counts, Locks

LEMMA SectionTable ==
    ASSUME NEW c, NEW s, NEW t, NEW e, NEW name, SectionPlace(name, c, s, t, e)
    PROVE  /\ c # <<>>
           /\ \/ /\ Op(c) = "lock" /\ Lk(c) \in Locks
                 /\ SectionPlace(name, After(c), s + If(c, "state"), t + If(c, "tracer"), e + If(c, "section"))
              \/ /\ Op(c) = "unlock" /\ Counts(c, s, t, e)
                 /\ \/ SectionPlace(name, After(c), s - If(c, "state"), t - If(c, "tracer"), e - If(c, "section"))
                    \/ CallPlace(After(c), s - If(c, "state"), t - If(c, "tracer"), e - If(c, "section"))
BY SectionCodes DEF Is, SectionPlace, CallPlace, If, Counts, Locks

LEMMA TickTable ==
    ASSUME NEW c, NEW s, NEW t, NEW e, TickPlace(c, s, t, e), c # <<>>
    PROVE  \/ /\ Op(c) = "lock" /\ Lk(c) \in Locks
              /\ TickPlace(After(c), s + If(c, "state"), t + If(c, "tracer"), e + If(c, "section"))
           \/ /\ Op(c) = "unlock" /\ Counts(c, s, t, e)
              /\ TickPlace(After(c), s - If(c, "state"), t - If(c, "tracer"), e - If(c, "section"))
           \/ Op(c) = "scan" /\ c = P6 /\ s = 0 /\ t = 1 /\ e = 0
BY CallCodes, PumpCodes DEF Is, TickPlace, If, Counts, Locks

LEMMA BodyTable ==
    ASSUME NEW c, NEW s, NEW t, NEW e, NEW name, BodyPlace(name, c, s, t, e)
    PROVE  /\ c # <<>>
           /\ \/ /\ Op(c) = "lock" /\ Lk(c) \in Locks
                 /\ BodyPlace(name, After(c), s + If(c, "state"), t + If(c, "tracer"), e + If(c, "section"))
              \/ /\ Op(c) = "unlock" /\ Counts(c, s, t, e)
                 /\ \/ BodyPlace(name, After(c), s - If(c, "state"), t - If(c, "tracer"), e - If(c, "section"))
                    \/ TickPlace(After(c), s - If(c, "state"), t - If(c, "tracer"), e - If(c, "section"))
BY PumpCodes DEF Is, BodyPlace, TickPlace, If, Counts, Locks

-----------------------------------------------------------------------------
(* The calls, as they begin. *)

Then(a, b) == a \o b

LEMMA Concatenation ==
    /\ \A r, s, u \in Seq(Ops): Then(Then(r, s), u) = Then(r, Then(s, u))
    /\ \A r, s \in Seq(Ops): Then(r, s) \in Seq(Ops)
    /\ \A r \in Seq(Ops): Then(r, <<>>) = r
BY DEF Then

LEMMA Operations ==
    \A w \in Words: Lock(w) \in Seq(Ops) /\ Unlock(w) \in Seq(Ops) /\ Do(w) \in Seq(Ops)
BY DEF Lock, Unlock, Do, Ops, Words

\* The operations, as sequences of their own
LEMMA Single ==
    /\ Lock("state") \in Seq(Ops) /\ Unlock("state") \in Seq(Ops)
    /\ Lock("tracer") \in Seq(Ops) /\ Unlock("tracer") \in Seq(Ops)
    /\ Lock("section") \in Seq(Ops) /\ Unlock("section") \in Seq(Ops)
    /\ Do("check") \in Seq(Ops) /\ Do("recheck") \in Seq(Ops) /\ Do("allocate") \in Seq(Ops)
    /\ Do("trace") \in Seq(Ops) /\ Do("register") \in Seq(Ops) /\ Do("scan") \in Seq(Ops)
BY Operations, WordFacts, Zenon

\* A call in front of what follows it
LEMMA CallThenRest ==
    ASSUME NEW r \in Seq(Ops)
    PROVE  /\ Then(KernelCall, r) = Then(Lock("state"), Then(Unlock("state"), r))
           /\ Then(TracerCall, r) = Then(Lock("tracer"), Then(Unlock("tracer"), r))
           /\ Then(RtlEnterCriticalSection, r) =
                 Then(Lock("state"), Then(Unlock("state"), Then(Lock("section"), r)))
           /\ Then(RtlLeaveCriticalSection, r) =
                 Then(Lock("state"), Then(Unlock("state"), Then(Unlock("section"), r)))
<1>1. /\ KernelCall = Then(Lock("state"), Unlock("state"))
      /\ TracerCall = Then(Lock("tracer"), Unlock("tracer"))
      /\ RtlEnterCriticalSection = Then(KernelCall, Lock("section"))
      /\ RtlLeaveCriticalSection = Then(KernelCall, Unlock("section"))
  BY Zenon DEF KernelCall, TracerCall, RtlEnterCriticalSection, RtlLeaveCriticalSection, Then
<1>2. KernelCall \in Seq(Ops)
  BY <1>1, Single, Concatenation
<1>3. /\ Then(KernelCall, r) = Then(Lock("state"), Then(Unlock("state"), r))
      /\ Then(TracerCall, r) = Then(Lock("tracer"), Then(Unlock("tracer"), r))
  BY <1>1, Single, Concatenation
<1>4. Then(Lock("section"), r) \in Seq(Ops) /\ Then(Unlock("section"), r) \in Seq(Ops)
  BY Single, Concatenation
<1>5. /\ Then(RtlEnterCriticalSection, r) = Then(KernelCall, Then(Lock("section"), r))
      /\ Then(RtlLeaveCriticalSection, r) = Then(KernelCall, Then(Unlock("section"), r))
  <2>1. ASSUME NEW x \in Seq(Ops)
        PROVE  Then(Then(KernelCall, x), r) = Then(KernelCall, Then(x, r))
    BY <1>2, Concatenation
  <2> QED BY <1>1, <2>1, Single, Zenon
<1>6. /\ Then(KernelCall, Then(Lock("section"), r))
            = Then(Lock("state"), Then(Unlock("state"), Then(Lock("section"), r)))
      /\ Then(KernelCall, Then(Unlock("section"), r))
            = Then(Lock("state"), Then(Unlock("state"), Then(Unlock("section"), r)))
  <2>1. ASSUME NEW x \in Seq(Ops)
        PROVE  Then(KernelCall, x) = Then(Lock("state"), Then(Unlock("state"), x))
    BY <1>1, Single, Concatenation
  <2> QED BY <1>4, <2>1, Zenon
<1> QED BY <1>3, <1>5, <1>6

\* What the guest calls and what the pump runs are the sequences named above.
LEMMA Beginnings ==
    /\ KernelCall = K1 /\ TracerCall = T1 /\ VdGetSystemCommandBuffer = C1
    /\ VdSetGraphicsInterruptCallback = R1
    /\ SecondCheck \o <<>> = S1 /\ AllocateBuffer \o <<>> = A1
    /\ Unlock("state") \o <<>> = K2 /\ Unlock("tracer") \o <<>> = T2
    /\ RtlEnterCriticalSection \o Body("kernel") \o RtlLeaveCriticalSection = EK1
    /\ RtlEnterCriticalSection \o Body("tracer") \o RtlLeaveCriticalSection = ET1
    /\ TracerCall \o TracerCall \o ScanAndTraceFrame = P1
    /\ Body("kernel") \o P6 = PK1 /\ Body("tracer") \o P6 = PT1 /\ Body("section") \o P6 = PE1
<1>1. KernelCall \in Seq(Ops) /\ TracerCall \in Seq(Ops) /\ RtlLeaveCriticalSection \in Seq(Ops)
      /\ RtlEnterCriticalSection \in Seq(Ops)
  <2>1. /\ KernelCall = Then(Lock("state"), Unlock("state"))
        /\ TracerCall = Then(Lock("tracer"), Unlock("tracer"))
        /\ RtlEnterCriticalSection = Then(KernelCall, Lock("section"))
        /\ RtlLeaveCriticalSection = Then(KernelCall, Unlock("section"))
    BY Zenon DEF KernelCall, TracerCall, RtlEnterCriticalSection, RtlLeaveCriticalSection, Then
  <2> QED BY <2>1, Single, Concatenation
<1>2. KernelCall = K1 /\ TracerCall = T1 /\ RtlLeaveCriticalSection = L1
  <2>1. /\ Then(KernelCall, <<>>) = KernelCall /\ Then(TracerCall, <<>>) = TracerCall
        /\ Then(RtlLeaveCriticalSection, <<>>) = RtlLeaveCriticalSection
    BY <1>1, Concatenation
  <2>2. /\ K1 = Then(Lock("state"), Then(Unlock("state"), <<>>))
        /\ T1 = Then(Lock("tracer"), Then(Unlock("tracer"), <<>>))
        /\ L1 = Then(Lock("state"), Then(Unlock("state"), Then(Unlock("section"), <<>>)))
    BY Zenon DEF K1, K2, T1, T2, L1, L2, L3, Then
  <2> QED BY <2>1, <2>2, CallThenRest, EmptyCode
<1>3. /\ Then(Unlock("state"), <<>>) = Unlock("state") /\ Then(Unlock("tracer"), <<>>) = Unlock("tracer")
      /\ Then(Do("check"), <<>>) = Do("check") /\ Then(Do("recheck"), <<>>) = Do("recheck")
      /\ Then(Do("scan"), <<>>) = Do("scan")
  BY Single, Concatenation
<1>4. VdGetSystemCommandBuffer = C1
  BY <1>3, Zenon DEF VdGetSystemCommandBuffer, C1, Then
<1>5. VdSetGraphicsInterruptCallback = R1
  <2>1. VdSetGraphicsInterruptCallback
           = Then(Then(Lock("tracer"), Do("register")), Unlock("tracer"))
    BY Zenon DEF VdSetGraphicsInterruptCallback, Then
  <2>2. R1 = Then(Lock("tracer"), Then(Do("register"), Then(Unlock("tracer"), <<>>)))
    BY Zenon DEF R1, R2, T2, Then
  <2> QED BY <2>1, <2>2, <1>3, Single, Concatenation
<1>6. SecondCheck \o <<>> = S1
  <2>1. SecondCheck \o <<>> = Then(Then(Lock("state"), Do("recheck")), <<>>)
    BY Zenon DEF SecondCheck, Then
  <2>2. S1 = Then(Lock("state"), Then(Do("recheck"), <<>>))
    BY Zenon DEF S1, S2, Then
  <2> QED BY <2>1, <2>2, EmptyCode, Single, Concatenation
<1>7. AllocateBuffer \o <<>> = A1
  <2> DEFINE a == Do("allocate")
             b == Lock("tracer")
             c == Do("trace")
             d == Unlock("tracer")
             e == Unlock("state")
  <2>1. AllocateBuffer \o <<>> = Then(Then(Then(Then(Then(a, b), c), d), e), <<>>)
    BY Zenon DEF AllocateBuffer, Then
  <2>2. A1 = Then(a, Then(b, Then(c, Then(d, Then(e, <<>>)))))
    BY Zenon DEF A1, A2, A3, A4, K2, Then
  <2>3. /\ a \in Seq(Ops) /\ b \in Seq(Ops) /\ c \in Seq(Ops) /\ d \in Seq(Ops) /\ e \in Seq(Ops)
        /\ Then(e, <<>>) = e
    BY Single, Concatenation
  <2> HIDE DEF a, b, c, d, e
  <2>4. /\ Then(a, b) \in Seq(Ops) /\ Then(d, e) \in Seq(Ops) /\ Then(c, Then(d, e)) \in Seq(Ops)
    BY <2>3, Concatenation
  <2>5. /\ Then(Then(a, b), c) \in Seq(Ops) /\ Then(Then(Then(a, b), c), d) \in Seq(Ops)
        /\ Then(Then(Then(Then(a, b), c), d), e) \in Seq(Ops)
    BY <2>3, <2>4, Concatenation
  <2>6. Then(Then(Then(Then(a, b), c), d), e) = Then(Then(Then(a, b), c), Then(d, e))
    BY <2>3, <2>4, <2>5, Concatenation
  <2>7. Then(Then(Then(a, b), c), Then(d, e)) = Then(Then(a, b), Then(c, Then(d, e)))
    BY <2>3, <2>4, <2>5, Concatenation
  <2>8. Then(Then(a, b), Then(c, Then(d, e))) = Then(a, Then(b, Then(c, Then(d, e))))
    BY <2>3, <2>4, <2>5, Concatenation
  <2> QED BY <2>1, <2>2, <2>3, <2>5, <2>6, <2>7, <2>8, Concatenation
<1>8. Body("kernel") = KernelCall /\ Body("tracer") = TracerCall
      /\ Body("section") = Then(RtlEnterCriticalSection, RtlLeaveCriticalSection)
  BY DEF Body, Then
<1>9. K1 \in Seq(Ops) /\ T1 \in Seq(Ops) /\ L1 \in Seq(Ops)
  BY <1>1, <1>2
<1>10. /\ RtlEnterCriticalSection \o Body("kernel") \o RtlLeaveCriticalSection = EK1
       /\ RtlEnterCriticalSection \o Body("tracer") \o RtlLeaveCriticalSection = ET1
  <2>1. /\ RtlEnterCriticalSection \o Body("kernel") \o RtlLeaveCriticalSection
              = Then(Then(RtlEnterCriticalSection, KernelCall), L1)
        /\ RtlEnterCriticalSection \o Body("tracer") \o RtlLeaveCriticalSection
              = Then(Then(RtlEnterCriticalSection, TracerCall), L1)
    BY <1>2, <1>8, Zenon DEF Then
  <2>2. /\ Then(Then(RtlEnterCriticalSection, KernelCall), L1)
              = Then(RtlEnterCriticalSection, Then(KernelCall, L1))
        /\ Then(Then(RtlEnterCriticalSection, TracerCall), L1)
              = Then(RtlEnterCriticalSection, Then(TracerCall, L1))
        /\ Then(KernelCall, L1) \in Seq(Ops) /\ Then(TracerCall, L1) \in Seq(Ops)
    BY <1>1, <1>9, Concatenation
  <2>3. /\ IK1 = Then(Lock("state"), Then(Unlock("state"), L1))
        /\ IT1 = Then(Lock("tracer"), Then(Unlock("tracer"), L1))
        /\ EK1 = Then(Lock("state"), Then(Unlock("state"), Then(Lock("section"), IK1)))
        /\ ET1 = Then(Lock("state"), Then(Unlock("state"), Then(Lock("section"), IT1)))
    BY Zenon DEF IK1, IK2, IT1, IT2, EK1, EK2, EK3, ET1, ET2, ET3, Then
  <2>4. Then(KernelCall, L1) = IK1 /\ Then(TracerCall, L1) = IT1
    BY <1>9, <2>3, CallThenRest
  <2> QED BY <2>1, <2>2, <2>3, <2>4, CallThenRest
<1>11. P6 = Then(Do("scan"), <<>>) /\ P6 = Do("scan") /\ P6 \in Seq(Ops)
  BY <1>3, Single DEF P6, Then
<1>12. TracerCall \o TracerCall \o ScanAndTraceFrame = P1
  <2>1. /\ ScanAndTraceFrame = Then(Lock("tracer"), P6)
        /\ P5 = Then(Lock("tracer"), P6)
    BY <1>11, Zenon DEF ScanAndTraceFrame, P5, Then
  <2>2. P5 \in Seq(Ops)
    BY <2>1, <1>11, Single, Concatenation
  <2>3. TracerCall \o TracerCall \o ScanAndTraceFrame = Then(Then(TracerCall, TracerCall), P5)
    BY <2>1, Zenon DEF Then
  <2>4. /\ Then(Then(TracerCall, TracerCall), P5) = Then(TracerCall, Then(TracerCall, P5))
        /\ Then(TracerCall, P5) \in Seq(Ops)
    BY <1>1, <2>2, Concatenation
  <2>5. /\ P3 = Then(Lock("tracer"), Then(Unlock("tracer"), P5))
        /\ P1 = Then(Lock("tracer"), Then(Unlock("tracer"), P3))
    BY Zenon DEF P1, P2, P3, P4, Then
  <2>6. Then(TracerCall, P5) = P3
    BY <2>2, <2>5, CallThenRest
  <2> QED BY <2>3, <2>4, <2>5, <2>6, CallThenRest
<1>13. Body("kernel") \o P6 = PK1 /\ Body("tracer") \o P6 = PT1
  <2>1. /\ Body("kernel") \o P6 = Then(KernelCall, P6) /\ Body("tracer") \o P6 = Then(TracerCall, P6)
    BY <1>8, Zenon DEF Then
  <2>2. /\ PK1 = Then(Lock("state"), Then(Unlock("state"), P6))
        /\ PT1 = Then(Lock("tracer"), Then(Unlock("tracer"), P6))
    BY Zenon DEF PK1, PK2, PT1, PT2, Then
  <2> QED BY <2>1, <2>2, <1>11, CallThenRest
<1>14. Body("section") \o P6 = PE1
  <2>1. Body("section") \o P6 = Then(Then(RtlEnterCriticalSection, RtlLeaveCriticalSection), P6)
    BY <1>8, Zenon DEF Then
  <2>2. /\ Then(Then(RtlEnterCriticalSection, RtlLeaveCriticalSection), P6)
              = Then(RtlEnterCriticalSection, Then(RtlLeaveCriticalSection, P6))
        /\ Then(RtlLeaveCriticalSection, P6) \in Seq(Ops)
    BY <1>1, <1>11, Concatenation
  <2>3. /\ PL1 = Then(Lock("state"), Then(Unlock("state"), Then(Unlock("section"), P6)))
        /\ PE1 = Then(Lock("state"), Then(Unlock("state"), Then(Lock("section"), PL1)))
    BY Zenon DEF PL1, PL2, PL3, PE1, PE2, PE3, Then
  <2>4. Then(RtlLeaveCriticalSection, P6) = PL1
    BY <2>3, <1>11, CallThenRest
  <2> QED BY <2>1, <2>2, <2>3, <2>4, CallThenRest
<1> QED
  BY <1>2, <1>4, <1>5, <1>6, <1>7, <1>10, <1>12, <1>13, <1>14, Zenon DEF K2, T2

-----------------------------------------------------------------------------
(* The same tables for a guest thread and for the pump.                    *)

LEMMA GuestTable ==
    ASSUME NEW r, NEW c, NEW s, NEW t, NEW e, GuestPlace(r, c, s, t, e), c # <<>>
    PROVE  \/ /\ Op(c) = "lock" /\ Lk(c) \in Locks
              /\ GuestPlace(r, After(c), s + If(c, "state"), t + If(c, "tracer"), e + If(c, "section"))
           \/ /\ Op(c) = "unlock" /\ Counts(c, s, t, e)
              /\ GuestPlace(r, After(c), s - If(c, "state"), t - If(c, "tracer"), e - If(c, "section"))
           \/ Op(c) = "check" /\ c = C1 /\ s = 0 /\ t = 0 /\ e = 0
           \/ Op(c) = "recheck" /\ c = S2 /\ s = 1 /\ t = 0 /\ e = 0
           \/ Op(c) = "allocate" /\ c = A1 /\ s = 1 /\ t = 0 /\ e = 0
           \/ Op(c) = "trace" /\ c = A3 /\ s = 1 /\ t = 1 /\ e = 0
           \/ Op(c) = "register" /\ r /\ c = R2 /\ s = 0 /\ t = 1 /\ e = 0
<1>1. CASE CallPlace(c, s, t, e)
  BY <1>1, CallTable, Zenon DEF GuestPlace
<1>2. CASE r /\ RegisterPlace(c, s, t, e)
  <2>1. \A x, y, z, w: RegisterPlace(x, y, z, w) => GuestPlace(r, x, y, z, w)
    BY <1>2, Zenon DEF GuestPlace
  <2>2. CASE Op(c) = "register" /\ c = R2 /\ s = 0 /\ t = 1 /\ e = 0
    BY <1>2, <2>2, Zenon
  <2>3. CASE /\ Op(c) = "lock" /\ Lk(c) \in Locks
             /\ RegisterPlace(After(c), s + If(c, "state"), t + If(c, "tracer"), e + If(c, "section"))
    BY <2>1, <2>3, Zenon
  <2>4. RegisterPlace(c, s, t, e)
    BY <1>2, Zenon
  <2>5. \/ /\ Op(c) = "lock" /\ Lk(c) \in Locks
           /\ RegisterPlace(After(c), s + If(c, "state"), t + If(c, "tracer"), e + If(c, "section"))
        \/ Op(c) = "register" /\ c = R2 /\ s = 0 /\ t = 1 /\ e = 0
    BY <2>4, RegisterTable
  <2> QED BY <2>2, <2>3, <2>5, Zenon
<1>3. CASE \E name \in InSection: SectionPlace(name, c, s, t, e)
  BY <1>3, SectionTable, Zenon DEF GuestPlace
<1> QED BY <1>1, <1>2, <1>3, Zenon DEF GuestPlace

LEMMA PumpTable ==
    ASSUME NEW i, NEW c, NEW s, NEW t, NEW e, PumpPlace(i, c, s, t, e), c # <<>>
    PROVE  \/ /\ Op(c) = "lock" /\ Lk(c) \in Locks
              /\ PumpPlace(i, After(c), s + If(c, "state"), t + If(c, "tracer"), e + If(c, "section"))
           \/ /\ Op(c) = "unlock" /\ Counts(c, s, t, e)
              /\ PumpPlace(i, After(c), s - If(c, "state"), t - If(c, "tracer"), e - If(c, "section"))
           \/ Op(c) = "scan" /\ c = P6 /\ s = 0 /\ t = 1 /\ e = 0
<1>1. CASE TickPlace(c, s, t, e)
  BY <1>1, TickTable, Zenon DEF PumpPlace
<1>2. CASE i /\ \E name \in InCallback: BodyPlace(name, c, s, t, e)
  BY <1>2, BodyTable, Zenon DEF PumpPlace
<1> QED BY <1>1, <1>2, Zenon DEF PumpPlace

\* The allocation is under the state mutex, and in no other call.
LEMMA BufferSteps ==
    ASSUME NEW r, NEW c, NEW s, NEW t, NEW e, GuestPlace(r, c, s, t, e), c # <<>>
    PROVE  /\ c \in {A1, A2, A3} => s = 1
           /\ Op(c) \in {"lock", "unlock"} =>
                 \/ c = A2 /\ After(c) = A3
                 \/ c \notin {A1, A2, A3} /\ After(c) \notin {A1, A2, A3}
           /\ Op(c) = "allocate" => c = A1 /\ After(c) = A2
           /\ Op(c) = "trace" => c = A3 /\ After(c) = A4
<1>1. CASE CallPlace(c, s, t, e)
  BY <1>1, CallCodes DEF CallPlace, Is
<1>2. CASE r /\ RegisterPlace(c, s, t, e)
  BY <1>2, CallCodes DEF RegisterPlace, Is
<1>3. CASE \E name \in InSection: SectionPlace(name, c, s, t, e)
  BY <1>3, CallCodes, SectionCodes DEF SectionPlace, Is
<1> QED BY <1>1, <1>2, <1>3, Zenon DEF GuestPlace

LEMMA NoBuffer ==
    /\ {<<>>, C1, S1, S2, A4, K1, K2, T1, T2, R1, R2, EK1, ET1} \cap {A1, A2, A3} = {}
    /\ A1 \notin {A2, A3}
BY CallCodes, SectionCodes DEF Is

-----------------------------------------------------------------------------
(* What a step changes. *)

LEMMA Going ==
    ASSUME NEW t \in Threads, NEW r, Goes(t, r), code = [u \in Threads |-> code[u]]
    PROVE  /\ code' = [u \in Threads |-> code'[u]]
           /\ code'[t] = r /\ \A u \in Threads: u # t => code'[u] = code[u]
BY DEF Goes

Counted == held \in [Threads -> [Locks -> Nat]]

LEMMA Taking ==
    ASSUME NEW t \in Threads, NEW l \in Locks, Counted,
           held' = [held EXCEPT ![t][l] = @ + 1]
    PROVE  /\ Counted' /\ \A u \in Threads: u # t => held'[u] = held[u]
           /\ \A k \in Locks: held'[t][k] = held[t][k] + (IF l = k THEN 1 ELSE 0)
BY DEF Counted

LEMMA Dropping ==
    ASSUME NEW t \in Threads, NEW l \in Locks, Counted, held[t][l] > 0,
           held' = [held EXCEPT ![t][l] = @ - 1]
    PROVE  /\ Counted' /\ \A u \in Threads: u # t => held'[u] = held[u]
           /\ \A k \in Locks: held'[t][k] = held[t][k] - (IF l = k THEN 1 ELSE 0)
BY DEF Counted

GuestAt(t) == GuestPlace(Registers, code[t], held[t].state, held[t].tracer, held[t].section)
PumpAt == PumpPlace(callback, code[Pump], held[Pump].state, held[Pump].tracer, held[Pump].section)

LEMMA PlacedParts ==
    Placed <=> /\ Counted /\ code = [t \in Threads |-> code[t]]
               /\ (\A t \in Guests: GuestAt(t)) /\ PumpAt
               /\ callback \in BOOLEAN /\ (callback => Registers)
BY Zenon DEF Placed, Counted, GuestAt, PumpAt

\* A step of one thread leaves the others where they are.
LEMMA PlacedKept ==
    ASSUME Placed, NEW t \in Threads, NEW r, Goes(t, r), Counted',
           \A u \in Threads: u # t => held'[u] = held[u],
           Registers => Registers', callback => callback', callback' \in BOOLEAN,
           callback' => Registers',
           t \in Guests => GuestPlace(Registers', r, held'[t].state, held'[t].tracer, held'[t].section),
           t = Pump => PumpPlace(callback', r, held'[Pump].state, held'[Pump].tracer, held'[Pump].section)
    PROVE  Placed'
<1>1. /\ code' = [u \in Threads |-> code'[u]]
      /\ code'[t] = r /\ \A u \in Threads: u # t => code'[u] = code[u]
  BY Going, PlacedParts
<1>2. ASSUME NEW u \in Guests
      PROVE  GuestAt(u)'
  <2>1. CASE u = t
    BY <2>1, <1>1 DEF GuestAt
  <2>2. CASE u # t
    <3>1. code'[u] = code[u] /\ held'[u] = held[u] /\ GuestAt(u)
      BY <2>2, <1>1, PlacedParts DEF Threads
    <3> QED BY <3>1, Zenon DEF GuestAt, GuestPlace
  <2> QED BY <2>1, <2>2
<1>3. PumpAt'
  <2>1. CASE Pump = t
    BY <2>1, <1>1 DEF PumpAt
  <2>2. CASE Pump # t
    <3>1. code'[Pump] = code[Pump] /\ held'[Pump] = held[Pump] /\ PumpAt
      BY <2>2, <1>1, PlacedParts DEF Threads
    <3> QED BY <3>1, Zenon DEF PumpAt, PumpPlace
  <2> QED BY <2>1, <2>2
<1> QED BY <1>1, <1>2, <1>3, Zenon DEF Placed, Counted, GuestAt, PumpAt

LEMMA OneBufferKept ==
    ASSUME OneBuffer, Placed, NEW t \in Threads, NEW r, Goes(t, r),
           UNCHANGED <<address, traced, allocated>>,
           t \in Guests => /\ r \in {A2, A3} <=> code[t] \in {A2, A3}
                           /\ r = A1 => code[t] = A1 \/ address = 0
    PROVE  OneBuffer'
<1>1. code'[t] = r /\ \A u \in Threads: u # t => code'[u] = code[u]
  BY Going, PlacedParts
<1>2. \A u \in Guests: u \in Threads
  BY DEF Threads
<1>3. \A u \in Guests: Tells(u)' <=> Tells(u)
  BY <1>1, <1>2 DEF Tells
<1>4. \A u \in Guests: code'[u] = A1 => address = 0
  BY <1>1, <1>2 DEF OneBuffer
<1> QED BY <1>3, <1>4 DEF OneBuffer

LEMMA Same ==
    ASSUME Placed, UNCHANGED <<held, callback, address, traced, allocated>>
    PROVE  /\ Counted' /\ Counted /\ callback' = callback /\ callback' \in BOOLEAN
           /\ Registers' = Registers /\ (callback' => Registers')
           /\ (\A u: held'[u] = held[u]) /\ (Exclusive => Exclusive')
BY PlacedParts DEF Counted, Registers, Exclusive, Holds

\* Where the thread that steps is.
LEMMA Where ==
    ASSUME Placed, NEW t \in Threads
    PROVE  /\ t \in Guests => GuestAt(t)
           /\ t \notin Guests => t = Pump /\ PumpAt
           /\ t = Pump => t \notin Guests
BY PlacedParts, LockAssumption DEF Threads

LEMMA IdlePlace ==
    ASSUME NEW r, NEW s, NEW t, NEW e
    PROVE  /\ GuestPlace(r, <<>>, s, t, e) => s = 0 /\ t = 0 /\ e = 0
           /\ PumpPlace(r, <<>>, s, t, e) => s = 0 /\ t = 0 /\ e = 0
<1>1. CallPlace(<<>>, s, t, e) => s = 0 /\ t = 0 /\ e = 0
  BY CallCodes DEF CallPlace, Is
<1>2. TickPlace(<<>>, s, t, e) => s = 0 /\ t = 0 /\ e = 0
  BY CallCodes, PumpCodes DEF TickPlace, Is
<1>3. ~RegisterPlace(<<>>, s, t, e) /\ \A name: ~SectionPlace(name, <<>>, s, t, e)
  BY RegisterTable, SectionTable
<1>4. \A name: ~BodyPlace(name, <<>>, s, t, e)
  BY BodyTable
<1> QED BY <1>1, <1>2, <1>3, <1>4, Zenon DEF GuestPlace, PumpPlace

LEMMA AtFirst == \A t, op: At(t, op) <=> code[t] # <<>> /\ Op(code[t]) = op
BY Zenon DEF At, Op

\* A thread takes a lock that nobody else has.
LEMMA AcquireKeeps ==
    ASSUME LockInv, NEW t \in Threads, Acquire(t)
    PROVE  LockInv'
<1> DEFINE c == code[t]
           l == Lk(code[t])
<1>1. /\ c # <<>> /\ Op(c) = "lock" /\ Available(t, l) /\ Goes(t, After(c))
      /\ held' = [held EXCEPT ![t][l] = @ + 1]
      /\ UNCHANGED <<callback, address, traced, allocated>>
  BY AtFirst, Zenon DEF Acquire, Continues, Lk, After
<1>2. Counted /\ Placed /\ Exclusive /\ OneBuffer
  BY PlacedParts, Zenon DEF LockInv
<1>3. /\ l \in Locks
      /\ t \in Guests => GuestPlace(Registers, After(c), held[t].state + If(c, "state"),
                            held[t].tracer + If(c, "tracer"), held[t].section + If(c, "section"))
      /\ t = Pump => PumpPlace(callback, After(c), held[t].state + If(c, "state"),
                            held[t].tracer + If(c, "tracer"), held[t].section + If(c, "section"))
  <2>1. CASE t \in Guests
    <3>1. GuestPlace(Registers, c, held[t].state, held[t].tracer, held[t].section) /\ t # Pump
      BY <1>2, <2>1, Where, Zenon DEF GuestAt
    <3> QED BY <1>1, <3>1, GuestTable
  <2>2. CASE t \notin Guests
    <3>1. PumpPlace(callback, c, held[t].state, held[t].tracer, held[t].section)
      BY <1>2, <2>2, Where, Zenon DEF PumpAt
    <3> QED BY <1>1, <2>2, <3>1, PumpTable
  <2> QED BY <2>1, <2>2
<1>4. /\ Counted' /\ \A u \in Threads: u # t => held'[u] = held[u]
      /\ \A k \in Locks: held'[t][k] = held[t][k] + (IF l = k THEN 1 ELSE 0)
  BY <1>1, <1>2, <1>3, Taking, Zenon
<1>5. /\ held'[t].state = held[t].state + If(c, "state")
      /\ held'[t].tracer = held[t].tracer + If(c, "tracer")
      /\ held'[t].section = held[t].section + If(c, "section")
  BY <1>4 DEF If, Locks
<1>6. Registers' = Registers /\ callback' = callback /\ callback \in BOOLEAN
      /\ (callback => Registers)
  BY <1>1, <1>2, PlacedParts DEF Registers
<1> HIDE DEF c, l
<1>7. /\ t \in Guests => GuestPlace(Registers', After(c), held'[t].state, held'[t].tracer, held'[t].section)
      /\ t = Pump => PumpPlace(callback', After(c), held'[Pump].state, held'[Pump].tracer, held'[Pump].section)
  BY <1>3, <1>5, <1>6, Zenon
<1>8. Placed'
  <2>1. (Registers => Registers') /\ (callback => callback') /\ callback' \in BOOLEAN
        /\ (callback' => Registers')
    BY <1>6
  <2> QED BY <1>1, <1>2, <1>4, <1>7, <2>1, PlacedKept, Zenon
<1>9. Exclusive'
  <2> SUFFICES ASSUME NEW u \in Threads, NEW v \in Threads, NEW k \in Locks,
                      held'[u][k] > 0, held'[v][k] > 0
               PROVE  u = v
    BY DEF Exclusive, Holds
  <2>1. CASE l = k
    <3>1. \A w \in Threads \ {t}: ~(held[w][k] > 0)
      BY <1>1, <2>1 DEF Available, Holds
    <3> QED BY <1>4, <3>1
  <2>2. CASE l # k
    <3>1. held[u][k] > 0 /\ held[v][k] > 0
      BY <1>2, <1>4, <2>2 DEF Counted
    <3> QED BY <1>2, <3>1 DEF Exclusive, Holds
  <2> QED BY <2>1, <2>2
<1>10. t \in Guests => /\ After(c) \in {A2, A3} <=> code[t] \in {A2, A3}
                       /\ After(c) = A1 => code[t] = A1 \/ address = 0
  <2> SUFFICES ASSUME t \in Guests
               PROVE  /\ After(c) \in {A2, A3} <=> c \in {A2, A3}
                      /\ After(c) # A1
    BY DEF c
  <2>1. GuestPlace(Registers, c, held[t].state, held[t].tracer, held[t].section)
    BY <1>2, Where, Zenon DEF GuestAt, c
  <2> QED BY <1>1, <2>1, BufferSteps, NoBuffer
<1>11. OneBuffer'
  BY <1>1, <1>2, <1>10, OneBufferKept, Zenon
<1> QED BY <1>8, <1>9, <1>11 DEF LockInv

\* A thread gives back a lock it has.
LEMMA ReleaseKeeps ==
    ASSUME LockInv, NEW t \in Threads, Release(t)
    PROVE  LockInv'
<1> DEFINE c == code[t]
           l == Lk(code[t])
<1>1. /\ c # <<>> /\ Op(c) = "unlock" /\ Goes(t, After(c))
      /\ held' = [held EXCEPT ![t][l] = @ - 1]
      /\ UNCHANGED <<callback, address, traced, allocated>>
  BY AtFirst, Zenon DEF Release, Continues, Lk, After
<1>2. Counted /\ Placed /\ Exclusive /\ OneBuffer
  BY PlacedParts, Zenon DEF LockInv
<1>3. /\ Counts(c, held[t].state, held[t].tracer, held[t].section)
      /\ t \in Guests => GuestPlace(Registers, After(c), held[t].state - If(c, "state"),
                            held[t].tracer - If(c, "tracer"), held[t].section - If(c, "section"))
      /\ t = Pump => PumpPlace(callback, After(c), held[t].state - If(c, "state"),
                            held[t].tracer - If(c, "tracer"), held[t].section - If(c, "section"))
  <2>1. CASE t \in Guests
    <3>1. GuestPlace(Registers, c, held[t].state, held[t].tracer, held[t].section) /\ t # Pump
      BY <1>2, <2>1, Where, Zenon DEF GuestAt
    <3> QED BY <1>1, <3>1, GuestTable
  <2>2. CASE t \notin Guests
    <3>1. PumpPlace(callback, c, held[t].state, held[t].tracer, held[t].section)
      BY <1>2, <2>2, Where, Zenon DEF PumpAt
    <3> QED BY <1>1, <2>2, <3>1, PumpTable
  <2> QED BY <2>1, <2>2
<1>4. l \in Locks /\ held[t][l] > 0
  BY <1>3 DEF Counts, Locks
<1>5. /\ Counted' /\ \A u \in Threads: u # t => held'[u] = held[u]
      /\ \A k \in Locks: held'[t][k] = held[t][k] - (IF l = k THEN 1 ELSE 0)
  BY <1>1, <1>2, <1>4, Dropping, Zenon
<1>6. /\ held'[t].state = held[t].state - If(c, "state")
      /\ held'[t].tracer = held[t].tracer - If(c, "tracer")
      /\ held'[t].section = held[t].section - If(c, "section")
  BY <1>5 DEF If, Locks
<1>7. Registers' = Registers /\ callback' = callback /\ callback \in BOOLEAN
      /\ (callback => Registers)
  BY <1>1, <1>2, PlacedParts DEF Registers
<1> HIDE DEF c, l
<1>8. /\ t \in Guests => GuestPlace(Registers', After(c), held'[t].state, held'[t].tracer, held'[t].section)
      /\ t = Pump => PumpPlace(callback', After(c), held'[Pump].state, held'[Pump].tracer, held'[Pump].section)
  BY <1>3, <1>6, <1>7, Zenon
<1>9. Placed'
  <2>1. (Registers => Registers') /\ (callback => callback') /\ callback' \in BOOLEAN
        /\ (callback' => Registers')
    BY <1>7
  <2> QED BY <1>1, <1>2, <1>5, <1>8, <2>1, PlacedKept, Zenon
<1>10. Exclusive'
  <2> SUFFICES ASSUME NEW u \in Threads, NEW v \in Threads, NEW k \in Locks,
                      held'[u][k] > 0, held'[v][k] > 0
               PROVE  u = v
    BY DEF Exclusive, Holds
  <2>1. \A w \in Threads: held'[w][k] > 0 => held[w][k] > 0
    BY <1>2, <1>5 DEF Counted
  <2> QED BY <1>2, <2>1 DEF Exclusive, Holds
<1>11. t \in Guests => /\ After(c) \in {A2, A3} <=> code[t] \in {A2, A3}
                       /\ After(c) = A1 => code[t] = A1 \/ address = 0
  <2> SUFFICES ASSUME t \in Guests
               PROVE  /\ After(c) \in {A2, A3} <=> c \in {A2, A3}
                      /\ After(c) # A1
    BY DEF c
  <2>1. GuestPlace(Registers, c, held[t].state, held[t].tracer, held[t].section)
    BY <1>2, Where, Zenon DEF GuestAt, c
  <2> QED BY <1>1, <2>1, BufferSteps, NoBuffer
<1>12. OneBuffer'
  BY <1>1, <1>2, <1>11, OneBufferKept, Zenon
<1> QED BY <1>9, <1>10, <1>12 DEF LockInv

\* A step that only changes what the thread has left to do
LEMMA CodeStep ==
    ASSUME LockInv, NEW t \in Threads, NEW r, Goes(t, r),
           UNCHANGED <<held, callback, address, traced, allocated>>,
           t \in Guests => GuestPlace(Registers, r, held[t].state, held[t].tracer, held[t].section),
           t = Pump => PumpPlace(callback, r, held[Pump].state, held[Pump].tracer, held[Pump].section),
           t \in Guests => /\ r \in {A2, A3} <=> code[t] \in {A2, A3}
                           /\ r = A1 => code[t] = A1 \/ address = 0
    PROVE  LockInv'
<1>1. Placed /\ Exclusive /\ OneBuffer
  BY DEF LockInv
<1>2. /\ Counted' /\ callback' = callback /\ callback' \in BOOLEAN
      /\ Registers' = Registers /\ (callback' => Registers')
      /\ (\A u: held'[u] = held[u]) /\ Exclusive'
  BY <1>1, Same
<1>3. /\ t \in Guests => GuestPlace(Registers', r, held'[t].state, held'[t].tracer, held'[t].section)
      /\ t = Pump => PumpPlace(callback', r, held'[Pump].state, held'[Pump].tracer, held'[Pump].section)
  BY <1>2, Zenon
<1>4. (Registers => Registers') /\ (callback => callback') /\ (\A u \in Threads: u # t => held'[u] = held[u])
  BY <1>2
<1>5. Placed'
  BY <1>1, <1>2, <1>3, <1>4, PlacedKept, Zenon
<1>6. OneBuffer'
  BY <1>1, OneBufferKept, Zenon
<1> QED BY <1>2, <1>5, <1>6 DEF LockInv

\* A guest thread at an operation that is not one of a lock
LEMMA GuestOperation ==
    ASSUME LockInv, NEW t \in Threads, NEW op, At(t, op),
           op \in {"check", "recheck", "allocate", "trace", "register"}
    PROVE  /\ t \in Guests /\ t # Pump /\ code[t] # <<>> /\ Op(code[t]) = op
           /\ GuestPlace(Registers, code[t], held[t].state, held[t].tracer, held[t].section)
<1>1. code[t] # <<>> /\ Op(code[t]) = op /\ Placed
  BY AtFirst, Zenon DEF LockInv
<1>2. ASSUME t \notin Guests
      PROVE  FALSE
  <2>1. PumpPlace(callback, code[t], held[t].state, held[t].tracer, held[t].section)
    BY <1>1, <1>2, Where, Zenon DEF PumpAt
  <2> QED BY <1>1, <2>1, PumpTable
<1>3. GuestAt(t) /\ t # Pump
  BY <1>1, <1>2, Where, Zenon
<1> QED BY <1>1, <1>2, <1>3, Zenon DEF GuestAt

\* VdGetSystemCommandBuffer is answered, or goes on to the mutex.
LEMMA CheckKeeps ==
    ASSUME LockInv, NEW t \in Threads, Check(t)
    PROVE  LockInv'
<1>1. At(t, "check")
  BY DEF Check
<1>2. /\ t \in Guests /\ t # Pump /\ code[t] # <<>> /\ Op(code[t]) = "check"
      /\ GuestPlace(Registers, code[t], held[t].state, held[t].tracer, held[t].section)
  BY <1>1, GuestOperation
<1>3. /\ code[t] = C1 /\ held[t].state = 0 /\ held[t].tracer = 0 /\ held[t].section = 0
  BY <1>2, GuestTable
<1>4. After(code[t]) = <<>>
  BY <1>3, CallCodes DEF Is
<1>5. PICK r \in {S1, <<>>}: Goes(t, r)
  BY <1>4, Beginnings, Zenon DEF Check, After
<1>6. GuestPlace(Registers, r, held[t].state, held[t].tracer, held[t].section)
  BY <1>3, <1>5 DEF GuestPlace, CallPlace
<1>7. r \notin {A1, A2, A3} /\ code[t] \notin {A1, A2, A3}
  BY <1>3, <1>5, NoBuffer
<1>8. UNCHANGED <<held, callback, address, traced, allocated>>
  BY DEF Check
<1>9. (r \in {A2, A3} <=> code[t] \in {A2, A3}) /\ (r = A1 => code[t] = A1 \/ address = 0)
  BY <1>7
<1> QED BY <1>2, <1>5, <1>6, <1>8, <1>9, CodeStep, Zenon

\* Under the mutex it allocates only what nobody has allocated.
LEMMA RecheckKeeps ==
    ASSUME LockInv, NEW t \in Threads, Recheck(t)
    PROVE  LockInv'
<1>1. At(t, "recheck")
  BY DEF Recheck
<1>2. /\ t \in Guests /\ t # Pump /\ code[t] # <<>> /\ Op(code[t]) = "recheck"
      /\ GuestPlace(Registers, code[t], held[t].state, held[t].tracer, held[t].section)
  BY <1>1, GuestOperation
<1>3. /\ code[t] = S2 /\ held[t].state = 1 /\ held[t].tracer = 0 /\ held[t].section = 0
  BY <1>2, GuestTable
<1>4. After(code[t]) = <<>>
  BY <1>3, CallCodes DEF Is
<1>5. \/ address = 0 /\ Goes(t, A1)
      \/ address # 0 /\ Goes(t, K2)
  BY <1>4, Beginnings, Zenon DEF Recheck, After
<1>6. PICK r \in {A1, K2}: Goes(t, r) /\ (r = A1 => address = 0)
  <2>1. A1 # K2
    BY NoBuffer
  <2> QED BY <1>5, <2>1
<1>7. GuestPlace(Registers, r, held[t].state, held[t].tracer, held[t].section)
  BY <1>3, <1>6 DEF GuestPlace, CallPlace
<1>8. (r \in {A2, A3} <=> code[t] \in {A2, A3}) /\ (r = A1 => code[t] = A1 \/ address = 0)
  BY <1>3, <1>6, NoBuffer
<1>9. UNCHANGED <<held, callback, address, traced, allocated>>
  BY DEF Recheck
<1> QED BY <1>2, <1>6, <1>7, <1>8, <1>9, CodeStep, Zenon

\* The buffer is allocated once: only one thread can be there, and no address is set.
LEMMA AllocateKeeps ==
    ASSUME LockInv, NEW t \in Threads, Allocate(t)
    PROVE  LockInv'
<1>1. At(t, "allocate")
  BY DEF Allocate
<1>2. /\ t \in Guests /\ t # Pump /\ code[t] # <<>> /\ Op(code[t]) = "allocate"
      /\ GuestPlace(Registers, code[t], held[t].state, held[t].tracer, held[t].section)
  BY <1>1, GuestOperation
<1>3. /\ code[t] = A1 /\ held[t].state = 1 /\ held[t].tracer = 0 /\ held[t].section = 0
  BY <1>2, GuestTable
<1>4. Goes(t, A2)
  <2>1. After(code[t]) = A2
    BY <1>3, CallCodes DEF Is
  <2> QED BY <2>1, Zenon DEF Allocate, Continues, After
<1>5. Placed /\ Exclusive /\ OneBuffer
  BY DEF LockInv
<1>6. UNCHANGED <<held, callback, traced>>
  BY DEF Allocate
<1>7. /\ Counted' /\ Registers' = Registers /\ callback' \in BOOLEAN /\ (callback' => Registers')
      /\ (\A u: held'[u] = held[u]) /\ Exclusive'
  BY <1>5, <1>6, PlacedParts DEF Counted, Registers, Exclusive, Holds
<1>8. Placed'
  <2>1. GuestPlace(Registers', A2, held'[t].state, held'[t].tracer, held'[t].section)
    BY <1>3, <1>7 DEF GuestPlace, CallPlace
  <2>2. (Registers => Registers') /\ (callback => callback') /\ (\A u \in Threads: u # t => held'[u] = held[u])
    BY <1>6, <1>7, Zenon
  <2> QED BY <1>2, <1>4, <1>5, <1>7, <2>1, <2>2, PlacedKept, Zenon
<1>9. \A u \in Guests: u # t => code[u] \notin {A1, A2, A3}
  <2> SUFFICES ASSUME NEW u \in Guests, u # t, code[u] \in {A1, A2, A3}
               PROVE  FALSE
    OBVIOUS
  <2>1. u \in Threads /\ GuestPlace(Registers, code[u], held[u].state, held[u].tracer, held[u].section)
    BY <1>5, Where, Zenon DEF Threads, GuestAt
  <2>2. code[u] # <<>>
    BY NoBuffer
  <2>3. held[u].state = 1
    BY <2>1, <2>2, BufferSteps, Zenon
  <2> QED BY <1>3, <1>5, <2>1, <2>3 DEF Exclusive, Holds, Locks
<1>10. code'[t] = A2 /\ \A u \in Threads: u # t => code'[u] = code[u]
  BY <1>4, <1>5, Going, PlacedParts, Zenon
<1>11. OneBuffer'
  <2>1. address = 0 /\ allocated = 0 /\ traced = 0
    BY <1>2, <1>3, <1>5 DEF OneBuffer
  <2>2. address' = 1 /\ allocated' = 1 /\ traced' = 0
    BY <2>1 DEF Allocate
  <2>3. \A u \in Guests: code'[u] # A1
    BY <1>9, <1>10, NoBuffer DEF Threads
  <2>4. Tells(t)'
    BY <1>10 DEF Tells
  <2> QED BY <1>2, <2>2, <2>3, <2>4 DEF OneBuffer
<1> QED BY <1>7, <1>8, <1>11 DEF LockInv

\* The tracer is told of the one buffer there is.
LEMMA TraceKeeps ==
    ASSUME LockInv, NEW t \in Threads, Trace(t)
    PROVE  LockInv'
<1>1. At(t, "trace")
  BY DEF Trace
<1>2. /\ t \in Guests /\ t # Pump /\ code[t] # <<>> /\ Op(code[t]) = "trace"
      /\ GuestPlace(Registers, code[t], held[t].state, held[t].tracer, held[t].section)
  BY <1>1, GuestOperation
<1>3. /\ code[t] = A3 /\ held[t].state = 1 /\ held[t].tracer = 1 /\ held[t].section = 0
  BY <1>2, GuestTable
<1>4. Goes(t, A4)
  <2>1. After(code[t]) = A4
    BY <1>3, CallCodes DEF Is
  <2> QED BY <2>1, Zenon DEF Trace, Continues, After
<1>5. Placed /\ Exclusive /\ OneBuffer
  BY DEF LockInv
<1>6. UNCHANGED <<held, callback, address, allocated>>
  BY DEF Trace
<1>7. address # 0 /\ traced = 0 /\ traced' = address
  <2>1. Tells(t)
    BY <1>3 DEF Tells
  <2> QED BY <1>2, <1>5, <2>1 DEF OneBuffer, Trace
<1>8. /\ Counted' /\ (Registers => Registers') /\ callback' \in BOOLEAN /\ (callback' => Registers')
      /\ (callback => callback') /\ (\A u: held'[u] = held[u]) /\ Exclusive'
  BY <1>5, <1>6, <1>7, PlacedParts DEF Counted, Registers, Exclusive, Holds
<1>9. Placed'
  <2>1. GuestPlace(Registers', A4, held'[t].state, held'[t].tracer, held'[t].section)
    BY <1>3, <1>8 DEF GuestPlace, CallPlace
  <2>2. \A u \in Threads: u # t => held'[u] = held[u]
    BY <1>8, Zenon
  <2> QED BY <1>2, <1>4, <1>5, <1>8, <2>1, <2>2, PlacedKept, Zenon
<1>10. \A u \in Guests: u # t => code[u] \notin {A1, A2, A3}
  <2> SUFFICES ASSUME NEW u \in Guests, u # t, code[u] \in {A1, A2, A3}
               PROVE  FALSE
    OBVIOUS
  <2>1. u \in Threads /\ GuestPlace(Registers, code[u], held[u].state, held[u].tracer, held[u].section)
    BY <1>5, Where, Zenon DEF Threads, GuestAt
  <2>2. code[u] # <<>>
    BY NoBuffer
  <2>3. held[u].state = 1
    BY <2>1, <2>2, BufferSteps, Zenon
  <2> QED BY <1>3, <1>5, <2>1, <2>3 DEF Exclusive, Holds, Locks
<1>11. code'[t] = A4 /\ \A u \in Threads: u # t => code'[u] = code[u]
  BY <1>4, <1>5, Going, PlacedParts, Zenon
<1>12. OneBuffer'
  <2>1. \A u \in Guests: code'[u] \notin {A1, A2, A3}
    BY <1>10, <1>11, NoBuffer DEF Threads
  <2> QED BY <1>5, <1>6, <1>7, <2>1 DEF OneBuffer, Tells
<1> QED BY <1>8, <1>9, <1>12 DEF LockInv

\* The callback is registered by a guest that may have one.
LEMMA RegisterKeeps ==
    ASSUME LockInv, NEW t \in Threads, Register(t)
    PROVE  LockInv'
<1>1. At(t, "register")
  BY DEF Register
<1>2. /\ t \in Guests /\ t # Pump /\ code[t] # <<>> /\ Op(code[t]) = "register"
      /\ GuestPlace(Registers, code[t], held[t].state, held[t].tracer, held[t].section)
  BY <1>1, GuestOperation
<1>3. /\ code[t] = R2 /\ held[t].state = 0 /\ held[t].tracer = 1 /\ held[t].section = 0
  <2>1. ASSUME NEW r, NEW c, NEW s, NEW x, NEW e,
               GuestPlace(r, c, s, x, e), c # <<>>, Op(c) = "register"
        PROVE  c = R2 /\ s = 0 /\ x = 1 /\ e = 0
    <3>1. CASE CallPlace(c, s, x, e)
      BY <2>1, <3>1, CallTable
    <3>2. CASE RegisterPlace(c, s, x, e)
      <4>1. c = R1 \/ (c = R2 /\ s = 0 /\ x = 1 /\ e = 0)
        BY <3>2 DEF RegisterPlace
      <4>2. Op(R1) = "lock"
        BY CallCodes, Zenon DEF Is
      <4> QED BY <2>1, <4>1, <4>2
    <3>3. CASE \E name \in InSection: SectionPlace(name, c, s, x, e)
      BY <2>1, <3>3, SectionTable
    <3> QED BY <2>1, <3>1, <3>2, <3>3, Zenon DEF GuestPlace
  <2> QED BY <1>2, <2>1, Zenon
<1>4. Registers
  <2>1. ~CallPlace(R2, 0, 1, 0) /\ \A name: ~SectionPlace(name, R2, 0, 1, 0)
    BY CallCodes, SectionCodes DEF CallPlace, SectionPlace, Is
  <2> QED BY <1>2, <1>3, <2>1, Zenon DEF GuestPlace
<1>5. Goes(t, T2)
  <2>1. After(code[t]) = T2
    BY <1>3, CallCodes DEF Is
  <2> QED BY <2>1, Zenon DEF Register, Continues, After
<1>6. Placed /\ Exclusive /\ OneBuffer
  BY DEF LockInv
<1>7. callback' = TRUE /\ UNCHANGED <<held, address, traced, allocated>>
  BY DEF Register
<1>8. /\ Counted' /\ (Registers => Registers') /\ callback' \in BOOLEAN /\ (callback' => Registers')
      /\ (callback => callback') /\ (\A u: held'[u] = held[u]) /\ Exclusive'
  BY <1>4, <1>6, <1>7, PlacedParts DEF Counted, Registers, Exclusive, Holds
<1>9. Placed'
  <2>1. GuestPlace(Registers', T2, held'[t].state, held'[t].tracer, held'[t].section)
    BY <1>3, <1>8 DEF GuestPlace, CallPlace
  <2>2. \A u \in Threads: u # t => held'[u] = held[u]
    BY <1>8, Zenon
  <2> QED BY <1>2, <1>5, <1>6, <1>8, <2>1, <2>2, PlacedKept, Zenon
<1>10. OneBuffer'
  <2>1. (T2 \in {A2, A3} <=> code[t] \in {A2, A3}) /\ T2 # A1
    BY <1>3, NoBuffer
  <2>2. UNCHANGED <<address, traced, allocated>>
    BY <1>7
  <2> QED BY <1>5, <1>6, <2>1, <2>2, OneBufferKept, Zenon
<1> QED BY <1>8, <1>9, <1>10 DEF LockInv

\* Only the pump scans, with the tracer locked.
LEMMA AtScan ==
    ASSUME LockInv, NEW t \in Threads, At(t, "scan")
    PROVE  /\ t = Pump /\ t \notin Guests /\ code[t] = P6
           /\ held[t].state = 0 /\ held[t].tracer = 1 /\ held[t].section = 0
<1>1. code[t] # <<>> /\ Op(code[t]) = "scan" /\ Placed
  BY AtFirst, Zenon DEF LockInv
<1>2. ASSUME t \in Guests
      PROVE  FALSE
  <2>1. GuestPlace(Registers, code[t], held[t].state, held[t].tracer, held[t].section)
    BY <1>1, <1>2, Where, Zenon DEF GuestAt
  <2> QED BY <1>1, <2>1, GuestTable
<1>3. t = Pump /\ PumpPlace(callback, code[t], held[t].state, held[t].tracer, held[t].section)
  BY <1>1, <1>2, Where, Zenon DEF PumpAt
<1>4. code[t] = P6 /\ held[t].state = 0 /\ held[t].tracer = 1 /\ held[t].section = 0
  BY <1>1, <1>3, PumpTable
<1> QED BY <1>2, <1>3, <1>4, Zenon

\* The guest's callback runs within the scan.
LEMMA InterruptKeeps ==
    ASSUME LockInv, NEW t \in Threads, Interrupt(t)
    PROVE  LockInv'
<1>1. At(t, "scan") /\ callback
  BY DEF Interrupt
<1>2. /\ t = Pump /\ t \notin Guests /\ code[t] = P6
      /\ held[t].state = 0 /\ held[t].tracer = 1 /\ held[t].section = 0
  BY <1>1, AtScan, Zenon
<1>3. PICK name \in InCallback: Goes(t, Body(name) \o P6)
  BY <1>2 DEF Interrupt
<1>4. BodyPlace(name, Body(name) \o P6, 0, 1, 0)
  <2>1. name \in {"kernel", "tracer", "section"}
    BY LockAssumption DEF CallNames
  <2>2. CASE name = "kernel"
    BY <2>2, Beginnings, Zenon DEF BodyPlace
  <2>3. CASE name = "tracer"
    BY <2>3, Beginnings, Zenon DEF BodyPlace
  <2>4. CASE name = "section"
    <3>1. PE1 \in {PE1, PE3}
      OBVIOUS
    <3> QED BY <2>4, <3>1, Beginnings, Zenon DEF BodyPlace
  <2> QED BY <2>1, <2>2, <2>3, <2>4
<1>5. PumpPlace(callback, Body(name) \o P6, held[Pump].state, held[Pump].tracer, held[Pump].section)
  BY <1>1, <1>2, <1>4, Zenon DEF PumpPlace
<1>6. UNCHANGED <<held, callback, address, traced, allocated>>
  BY DEF Interrupt
<1> QED BY <1>2, <1>3, <1>5, <1>6, CodeStep, Zenon

LEMMA ScanEndsKeeps ==
    ASSUME LockInv, NEW t \in Threads, ScanEnds(t)
    PROVE  LockInv'
<1>1. At(t, "scan")
  BY DEF ScanEnds
<1>2. /\ t = Pump /\ t \notin Guests /\ code[t] = P6
      /\ held[t].state = 0 /\ held[t].tracer = 1 /\ held[t].section = 0
  BY <1>1, AtScan, Zenon
<1>3. Goes(t, T2)
  <2>1. After(code[t]) = <<>>
    BY <1>2, PumpCodes DEF Is
  <2> QED BY <2>1, Beginnings, Zenon DEF ScanEnds, After
<1>4. PumpPlace(callback, T2, held[Pump].state, held[Pump].tracer, held[Pump].section)
  BY <1>2 DEF PumpPlace, TickPlace
<1>5. UNCHANGED <<held, callback, address, traced, allocated>>
  BY DEF ScanEnds
<1> QED BY <1>2, <1>3, <1>4, <1>5, CodeStep, Zenon

\* A guest thread in no call holds nothing, and starts one of the calls.
LEMMA GuestStarts ==
    ASSUME LockInv, NEW t \in Guests, NEW r, Idle(t), Goes(t, r),
           UNCHANGED <<held, callback, address, traced, allocated>>,
           GuestPlace(Registers, r, 0, 0, 0), r \notin {A1, A2, A3}
    PROVE  LockInv'
<1>1. t \in Threads /\ t # Pump /\ code[t] = <<>>
  BY LockAssumption DEF Threads, Idle
<1>2. held[t].state = 0 /\ held[t].tracer = 0 /\ held[t].section = 0
  <2>1. GuestPlace(Registers, <<>>, held[t].state, held[t].tracer, held[t].section)
    BY <1>1, Where, Zenon DEF GuestAt, LockInv
  <2> QED BY <2>1, IdlePlace, Zenon
<1>3. GuestPlace(Registers, r, held[t].state, held[t].tracer, held[t].section)
  BY <1>2, Zenon
<1>4. (r \in {A2, A3} <=> code[t] \in {A2, A3}) /\ (r = A1 => code[t] = A1 \/ address = 0)
  BY <1>1, NoBuffer
<1> QED BY <1>1, <1>3, <1>4, CodeStep, Zenon

LEMMA GuestCallsKeeps ==
    ASSUME LockInv, NEW t \in Threads, GuestCalls(t)
    PROVE  LockInv'
<1>1. /\ t \in Guests /\ Idle(t)
      /\ UNCHANGED <<held, callback, address, traced, allocated>>
  BY DEF GuestCalls
<1>2. PICK r \in {K1, T1, C1}: Goes(t, r)
  BY Beginnings DEF GuestCalls
<1>3. GuestPlace(Registers, r, 0, 0, 0) /\ r \notin {A1, A2, A3}
  BY <1>2, NoBuffer DEF GuestPlace, CallPlace
<1> QED BY <1>1, <1>2, <1>3, GuestStarts, Zenon

LEMMA GuestSectionKeeps ==
    ASSUME LockInv, NEW t \in Threads, GuestSection(t)
    PROVE  LockInv'
<1>1. /\ t \in Guests /\ Idle(t)
      /\ UNCHANGED <<held, callback, address, traced, allocated>>
  BY DEF GuestSection
<1>2. PICK name \in InSection:
         Goes(t, RtlEnterCriticalSection \o Body(name) \o RtlLeaveCriticalSection)
  BY DEF GuestSection
<1>3. PICK r \in {EK1, ET1}: Goes(t, r) /\ SectionPlace(name, r, 0, 0, 0)
  <2>1. name \in {"kernel", "tracer"}
    BY LockAssumption DEF CallNames
  <2>2. CASE name = "kernel"
    <3>1. Goes(t, EK1)
      BY <1>2, <2>2, Beginnings, Zenon
    <3> QED BY <2>2, <3>1 DEF SectionPlace
  <2>3. CASE name = "tracer"
    <3>1. Goes(t, ET1)
      BY <1>2, <2>3, Beginnings, Zenon
    <3> QED BY <2>3, <3>1 DEF SectionPlace
  <2> QED BY <2>1, <2>2, <2>3
<1>4. GuestPlace(Registers, r, 0, 0, 0)
  BY <1>3, Zenon DEF GuestPlace
<1>5. r \notin {A1, A2, A3}
  BY <1>3, NoBuffer
<1> QED BY <1>1, <1>3, <1>4, <1>5, GuestStarts, Zenon

LEMMA GuestRegistersKeeps ==
    ASSUME LockInv, NEW t \in Threads, GuestRegisters(t)
    PROVE  LockInv'
<1>1. /\ t \in Guests /\ Idle(t) /\ Registers /\ Goes(t, R1)
      /\ UNCHANGED <<held, callback, address, traced, allocated>>
  BY Beginnings, Zenon DEF GuestRegisters, Registers
<1>2. GuestPlace(Registers, R1, 0, 0, 0)
  BY <1>1 DEF GuestPlace, RegisterPlace
<1>3. R1 \notin {A1, A2, A3}
  BY NoBuffer
<1> QED BY <1>1, <1>2, <1>3, GuestStarts, Zenon

LEMMA PumpTickKeeps ==
    ASSUME LockInv, PumpTick
    PROVE  LockInv'
<1>1. Pump \in Threads /\ Pump \notin Guests /\ code[Pump] = <<>>
  BY LockAssumption DEF Threads, PumpTick, Idle
<1>2. Goes(Pump, P1) /\ UNCHANGED <<held, callback, address, traced, allocated>>
  BY Beginnings, Zenon DEF PumpTick
<1>3. held[Pump].state = 0 /\ held[Pump].tracer = 0 /\ held[Pump].section = 0
  <2>1. PumpPlace(callback, <<>>, held[Pump].state, held[Pump].tracer, held[Pump].section)
    BY <1>1, Where, Zenon DEF PumpAt, LockInv
  <2> QED BY <2>1, IdlePlace, Zenon
<1>4. PumpPlace(callback, P1, held[Pump].state, held[Pump].tracer, held[Pump].section)
  BY <1>3 DEF PumpPlace, TickPlace
<1> QED BY <1>1, <1>2, <1>4, CodeStep, Zenon

-----------------------------------------------------------------------------
(* The invariant, and the two properties.                                  *)

LEMMA LockInit == Init => LockInv
<1> SUFFICES ASSUME Init
             PROVE  LockInv
  OBVIOUS
<1>1. /\ Counted /\ code = [t \in Threads |-> code[t]]
      /\ \A t \in Threads: /\ code[t] = <<>> /\ held[t].state = 0 /\ held[t].tracer = 0
                           /\ held[t].section = 0 /\ \A l \in Locks: ~(held[t][l] > 0)
  BY DEF Init, Counted, Locks
<1>2. \A t \in Guests: GuestAt(t)
  <2> SUFFICES ASSUME NEW t \in Guests
               PROVE  GuestAt(t)
    OBVIOUS
  <2>1. t \in Threads
    BY DEF Threads
  <2> QED BY <1>1, <2>1 DEF GuestAt, GuestPlace, CallPlace
<1>3. PumpAt
  BY <1>1 DEF PumpAt, PumpPlace, TickPlace, Threads
<1>4. Placed
  BY <1>1, <1>2, <1>3, PlacedParts DEF Init
<1>5. Exclusive
  BY <1>1 DEF Exclusive, Holds
<1>6. OneBuffer
  <2>1. \A t \in Guests: code[t] \notin {A1, A2, A3}
    BY <1>1, NoBuffer DEF Threads
  <2> QED BY <2>1 DEF OneBuffer, Tells, Init
<1> QED BY <1>4, <1>5, <1>6 DEF LockInv

LEMMA LockStep == LockInv /\ [Next]_vars => LockInv'
<1>1. ASSUME LockInv, UNCHANGED vars
      PROVE  LockInv'
  <2>1. /\ code' = code /\ held' = held /\ callback' = callback
        /\ address' = address /\ traced' = traced /\ allocated' = allocated
    BY <1>1 DEF vars
  <2>2. /\ Placed' = Placed /\ Exclusive' = Exclusive /\ OneBuffer' = OneBuffer
    BY <2>1 DEF Placed, GuestPlace, PumpPlace, Registers, Exclusive, Holds, OneBuffer, Tells
  <2> QED BY <1>1, <2>2 DEF LockInv
<1>2. ASSUME LockInv, NEW t \in Threads, Steps(t)
      PROVE  LockInv'
  <2>1. CASE Acquire(t)        BY <1>2, <2>1, AcquireKeeps
  <2>2. CASE Release(t)        BY <1>2, <2>2, ReleaseKeeps
  <2>3. CASE Check(t)          BY <1>2, <2>3, CheckKeeps
  <2>4. CASE Recheck(t)        BY <1>2, <2>4, RecheckKeeps
  <2>5. CASE Allocate(t)       BY <1>2, <2>5, AllocateKeeps
  <2>6. CASE Trace(t)          BY <1>2, <2>6, TraceKeeps
  <2>7. CASE Register(t)       BY <1>2, <2>7, RegisterKeeps
  <2>8. CASE Interrupt(t)      BY <1>2, <2>8, InterruptKeeps
  <2>9. CASE ScanEnds(t)       BY <1>2, <2>9, ScanEndsKeeps
  <2>10. CASE GuestCalls(t)    BY <1>2, <2>10, GuestCallsKeeps
  <2>11. CASE GuestSection(t)  BY <1>2, <2>11, GuestSectionKeeps
  <2>12. CASE GuestRegisters(t) BY <1>2, <2>12, GuestRegistersKeeps
  <2> QED
    BY <1>2, <2>1, <2>2, <2>3, <2>4, <2>5, <2>6, <2>7, <2>8, <2>9, <2>10, <2>11, <2>12 DEF Steps
<1> QED BY <1>1, <1>2, PumpTickKeeps DEF Next

\* The kernel allocates one system command buffer, and the tracer scans the one the
\* kernel hands out, but for the thread that is between the two with the mutex locked.
THEOREM OneBufferForBoth == Spec => []OneSystemBuffer
<1>1. LockInv => OneSystemBuffer
  <2> SUFFICES ASSUME LockInv
               PROVE  OneSystemBuffer
    OBVIOUS
  <2>1. Placed /\ OneBuffer
    BY DEF LockInv
  <2>2. allocated <= 1
    BY <2>1 DEF OneBuffer
  <2>3. ASSUME traced # address
        PROVE  \E t \in Threads: Holds(t, "state")
    <3>1. PICK t \in Guests: Tells(t)
      BY <2>1, <2>3 DEF OneBuffer
    <3>2. t \in Threads /\ GuestPlace(Registers, code[t], held[t].state, held[t].tracer, held[t].section)
      BY <2>1, Where, Zenon DEF Threads, GuestAt
    <3>3. code[t] \in {A1, A2, A3} /\ code[t] # <<>>
      BY <3>1, NoBuffer DEF Tells
    <3>4. held[t].state = 1
      BY <3>2, <3>3, BufferSteps, Zenon
    <3> QED BY <3>2, <3>4 DEF Holds
  <2> QED BY <2>2, <2>3 DEF OneSystemBuffer
<1> QED BY <1>1, LockInit, LockStep, PTL DEF Spec

-----------------------------------------------------------------------------
(* No deadlock.  The guest keeps two rules: it has the buffer before it    *)
(* registers a callback, or the callback makes no kernel call; and it does *)
(* not both enter the section in the callback and call the tracer inside   *)
(* the section.                                                            *)

Ordered ==
    /\ BufferFirst \/ InCallback \subseteq {"tracer"}
    /\ "tracer" \notin InSection \/ "section" \notin InCallback

\* A thread that waits for a lock, and what it may hold meanwhile
LEMMA CallWaits ==
    ASSUME NEW c, NEW s, NEW t, NEW e, CallPlace(c, s, t, e), c # <<>>, Op(c) = "lock"
    PROVE  /\ t = 0 /\ e = 0 /\ Lk(c) \in Locks
           /\ Lk(c) = "state" => s = 0
           /\ s # 0 => c = A2 /\ Lk(c) = "tracer"
BY CallCodes DEF Is, CallPlace, Locks

LEMMA SectionLocks ==
    /\ Op(L2) = "unlock" /\ Op(L3) = "unlock" /\ Op(EK2) = "unlock" /\ Op(ET2) = "unlock"
    /\ Op(IK2) = "unlock" /\ Op(IT2) = "unlock"
    /\ Lk(L1) = "state" /\ Lk(EK1) = "state" /\ Lk(ET1) = "state" /\ Lk(IK1) = "state"
    /\ Lk(EK3) = "section" /\ Lk(ET3) = "section" /\ Lk(IT1) = "tracer"
BY SectionCodes, Zenon DEF Is

LEMMA SectionWaits ==
    ASSUME NEW c, NEW s, NEW t, NEW e, NEW name, SectionPlace(name, c, s, t, e), Op(c) = "lock"
    PROVE  /\ t = 0 /\ s = 0 /\ Lk(c) \in Locks
           /\ e # 0 => Lk(c) = "state" \/ (Lk(c) = "tracer" /\ name = "tracer")
BY SectionLocks DEF SectionPlace, Locks

LEMMA GuestWaits ==
    ASSUME NEW r, NEW c, NEW s, NEW t, NEW e, GuestPlace(r, c, s, t, e), c # <<>>, Op(c) = "lock"
    PROVE  /\ t = 0 /\ Lk(c) \in Locks
           /\ Lk(c) = "state" => s = 0
           /\ s # 0 => c = A2 /\ Lk(c) = "tracer"
           /\ e # 0 => Lk(c) = "state" \/ (Lk(c) = "tracer" /\ "tracer" \in InSection)
<1>1. CASE CallPlace(c, s, t, e)
  BY <1>1, CallWaits
<1>2. CASE r /\ RegisterPlace(c, s, t, e)
  BY <1>2, CallCodes DEF Is, RegisterPlace, Locks
<1>3. CASE \E name \in InSection: SectionPlace(name, c, s, t, e)
  BY <1>3, SectionWaits
<1> QED BY <1>1, <1>2, <1>3, Zenon DEF GuestPlace

LEMMA PumpWaits ==
    ASSUME NEW i, NEW c, NEW s, NEW t, NEW e, PumpPlace(i, c, s, t, e), c # <<>>, Op(c) = "lock"
    PROVE  /\ s = 0 /\ Lk(c) \in Locks
           /\ e # 0 => Lk(c) = "state"
           /\ t # 0 => i
           /\ Lk(c) = "state" /\ t # 0 => ~(InCallback \subseteq {"tracer"})
           /\ Lk(c) = "section" => e = 0 /\ "section" \in InCallback /\ ~(InCallback \subseteq {"tracer"})
<1>1. CASE TickPlace(c, s, t, e)
  BY <1>1, CallCodes, PumpCodes DEF Is, TickPlace, Locks
<1>2. CASE i /\ \E name \in InCallback: BodyPlace(name, c, s, t, e)
  <2>1. PICK name \in InCallback: BodyPlace(name, c, s, t, e)
    BY <1>2
  <2>2. /\ s = 0 /\ Lk(c) \in Locks
        /\ e # 0 => Lk(c) = "state"
        /\ Lk(c) = "state" => name \in {"kernel", "section"}
        /\ Lk(c) = "section" => e = 0 /\ name = "section"
    BY <2>1, PumpCodes DEF Is, BodyPlace, Locks
  <2>3. name # "tracer" => ~(InCallback \subseteq {"tracer"})
    BY <2>1
  <2> QED BY <1>2, <2>1, <2>2, <2>3
<1> QED BY <1>1, <1>2, Zenon DEF PumpPlace

Wants(t, l) == code[t] # <<>> /\ Op(code[t]) = "lock" /\ Lk(code[t]) = l

LEMMA BlocksWants ==
    \A u, t: Blocks(u, t) =>
        \E l: Wants(t, l) /\ held[u][l] > 0 /\ (u = t => l \notin Recursive)
BY Zenon DEF Blocks, At, Holds, Wants, Op, Lk

\* A guest thread that waits, and what it may hold
LEMMA GuestWaiting ==
    ASSUME LockInv, NEW t \in Guests, NEW l, Wants(t, l)
    PROVE  /\ held[t].tracer = 0 /\ l \in Locks
           /\ l = "state" => held[t].state = 0
           /\ held[t].state # 0 => code[t] = A2 /\ l = "tracer"
           /\ held[t].section # 0 => l = "state" \/ (l = "tracer" /\ "tracer" \in InSection)
<1>1. t \in Threads /\ code[t] # <<>> /\ Op(code[t]) = "lock" /\ Lk(code[t]) = l /\ Placed
  BY DEF Wants, Threads, LockInv
<1>2. GuestPlace(Registers, code[t], held[t].state, held[t].tracer, held[t].section)
  BY <1>1, Where, Zenon DEF GuestAt
<1>3. /\ held[t].tracer = 0 /\ Lk(code[t]) \in Locks
      /\ Lk(code[t]) = "state" => held[t].state = 0
      /\ held[t].state # 0 => code[t] = A2 /\ Lk(code[t]) = "tracer"
      /\ held[t].section # 0 =>
            Lk(code[t]) = "state" \/ (Lk(code[t]) = "tracer" /\ "tracer" \in InSection)
  <2>1. ASSUME NEW r, NEW c, NEW x, NEW y, NEW e, GuestPlace(r, c, x, y, e), c # <<>>, Op(c) = "lock"
        PROVE  /\ y = 0 /\ Lk(c) \in Locks
               /\ Lk(c) = "state" => x = 0
               /\ x # 0 => c = A2 /\ Lk(c) = "tracer"
               /\ e # 0 => Lk(c) = "state" \/ (Lk(c) = "tracer" /\ "tracer" \in InSection)
    BY <2>1, GuestWaits
  <2> QED BY <1>1, <1>2, <2>1
<1> QED BY <1>1, <1>3

\* The pump when it waits
LEMMA PumpWaiting ==
    ASSUME LockInv, NEW l, Wants(Pump, l)
    PROVE  /\ held[Pump].state = 0 /\ l \in Locks
           /\ held[Pump].section # 0 => l = "state"
           /\ held[Pump].tracer # 0 => callback
           /\ l = "state" /\ held[Pump].tracer # 0 => ~(InCallback \subseteq {"tracer"})
           /\ l = "section" => /\ held[Pump].section = 0 /\ "section" \in InCallback
                               /\ ~(InCallback \subseteq {"tracer"})
<1>1. /\ Pump \in Threads /\ code[Pump] # <<>> /\ Op(code[Pump]) = "lock" /\ Lk(code[Pump]) = l
      /\ Pump \notin Guests /\ Placed
  BY LockAssumption DEF Wants, Threads, LockInv
<1>2. PumpPlace(callback, code[Pump], held[Pump].state, held[Pump].tracer, held[Pump].section)
  BY <1>1, Where, Zenon DEF PumpAt
<1> DEFINE c == code[Pump]
<1>3. /\ held[Pump].state = 0 /\ Lk(c) \in Locks
      /\ held[Pump].section # 0 => Lk(c) = "state"
      /\ held[Pump].tracer # 0 => callback
      /\ Lk(c) = "state" /\ held[Pump].tracer # 0 => ~(InCallback \subseteq {"tracer"})
      /\ Lk(c) = "section" => /\ held[Pump].section = 0 /\ "section" \in InCallback
                              /\ ~(InCallback \subseteq {"tracer"})
  BY <1>1, <1>2, PumpWaits, Zenon
<1> QED BY <1>1, <1>3

\* No lock that is wanted is held by a thread that waits, when the guest keeps its rules.
LEMMA NobodyWaitsForAWaiter ==
    ASSUME Ordered, LockInv, NEW S \in SUBSET Threads,
           \A t \in S: \E u \in S: Blocks(u, t)
    PROVE  S = {}
<1>1. \A t \in S: \E u \in S: \E l:
         Wants(t, l) /\ held[u][l] > 0 /\ (u = t => l \notin Recursive)
  BY BlocksWants, Zenon
<1>2. \A t \in S: \E l: Wants(t, l)
  BY <1>1, Zenon
<1>3. \A t, k, l: Wants(t, k) /\ Wants(t, l) => k = l
  BY DEF Wants
<1>4. /\ Placed /\ Exclusive /\ OneBuffer /\ Counted /\ (callback => Registers)
  BY PlacedParts, Zenon DEF LockInv
<1>5. \A t \in S: t \in Guests \/ t = Pump
  BY DEF Threads
\* Whoever waits with the tracer's mutex is the pump, in a callback.
<1>6. ASSUME NEW v \in S, held[v].tracer > 0
      PROVE  v = Pump /\ callback
  <2>1. PICK k: Wants(v, k)
    BY <1>2
  <2>2. v = Pump
    <3>1. CASE v \in Guests
      BY <1>6, <2>1, <3>1, GuestWaiting
    <3> QED BY <1>5, <3>1
  <2> QED BY <1>6, <2>1, <2>2, PumpWaiting
\* Its thread does not wait for that mutex itself.
<1>7. ASSUME NEW v \in S, held[v].tracer > 0
      PROVE  ~Wants(v, "tracer")
  <2> SUFFICES ASSUME Wants(v, "tracer")
               PROVE  FALSE
    OBVIOUS
  <2>1. PICK u \in S: held[u].tracer > 0 /\ (u = v => "tracer" \notin Recursive)
    BY <1>1, <1>3
  <2>2. u = v
    BY <1>6, <1>7, <2>1
  <2> QED BY <2>1, <2>2 DEF Recursive
\* Nobody waits for the state mutex: its holder would wait for the tracer's.
<1>8. ASSUME NEW t \in S, Wants(t, "state")
      PROVE  FALSE
  <2>1. PICK u \in S: held[u].state > 0
    BY <1>1, <1>3, <1>8
  <2>2. PICK k: Wants(u, k)
    BY <1>2
  <2>3. u \in Guests
    BY <1>5, <2>1, <2>2, PumpWaiting
  <2>4. code[u] = A2 /\ k = "tracer"
    BY <2>1, <2>2, <2>3, GuestWaiting
  <2>5. PICK v \in S: held[v].tracer > 0
    BY <1>1, <1>3, <2>2, <2>4
  <2>6. v = Pump /\ callback
    BY <1>6, <2>5
  <2>7. traced = 0
    BY <1>4, <2>3, <2>4 DEF OneBuffer, Tells
  <2>8. InCallback \subseteq {"tracer"}
    BY <1>4, <2>6, <2>7 DEF Ordered, Registers
  <2>9. PICK m: Wants(Pump, m)
    BY <1>2, <2>5, <2>6
  <2>10. m \in Locks /\ m # "state" /\ m # "section"
    BY <2>5, <2>6, <2>8, <2>9, PumpWaiting
  <2> QED BY <1>7, <2>5, <2>6, <2>9, <2>10 DEF Locks
\* Nobody waits for the tracer's mutex: the pump would wait for the section.
<1>9. ASSUME NEW t \in S, Wants(t, "tracer")
      PROVE  FALSE
  <2>1. PICK v \in S: held[v].tracer > 0
    BY <1>1, <1>3, <1>9
  <2>2. v = Pump
    BY <1>6, <2>1
  <2>3. PICK m: Wants(Pump, m)
    BY <1>2, <2>1, <2>2
  <2>4. m = "section"
    <3>1. m \in Locks
      BY <2>3, PumpWaiting
    <3> QED BY <1>7, <1>8, <2>1, <2>2, <2>3, <3>1 DEF Locks
  <2>5. "section" \in InCallback /\ held[Pump].section = 0
    BY <2>3, <2>4, PumpWaiting
  <2>6. PICK w \in S: held[w].section > 0
    BY <1>1, <1>3, <2>1, <2>2, <2>3, <2>4
  <2>7. w \in Guests
    BY <1>5, <2>5, <2>6
  <2>8. PICK k: Wants(w, k)
    BY <1>2
  <2>9. k = "state"
    BY <2>5, <2>6, <2>7, <2>8, GuestWaiting DEF Ordered
  <2> QED BY <1>8, <2>8, <2>9
\* Then nobody waits for the section.
<1>10. ASSUME NEW t \in S, Wants(t, "section")
       PROVE  FALSE
  <2>1. PICK w \in S: held[w].section > 0
    BY <1>1, <1>3, <1>10
  <2>2. PICK k: Wants(w, k)
    BY <1>2
  <2>3. k \in {"state", "tracer"}
    <3>1. CASE w \in Guests
      BY <2>1, <2>2, <3>1, GuestWaiting
    <3>2. CASE w = Pump
      BY <2>1, <2>2, <3>2, PumpWaiting
    <3> QED BY <1>5, <3>1, <3>2
  <2> QED BY <1>8, <1>9, <2>2, <2>3
<1>11. ASSUME NEW t \in S
       PROVE  FALSE
  <2>1. PICK l: Wants(t, l)
    BY <1>2
  <2>2. l \in Locks
    BY <1>5, <2>1, GuestWaiting, PumpWaiting
  <2> QED BY <1>8, <1>9, <1>10, <2>1, <2>2 DEF Locks
<1> QED BY <1>11

\* When the guest keeps the two rules no set of threads waits for itself: the state mutex
\* is held over the tracer's while the buffer is allocated, and the tracer's over the
\* state mutex in the callback, but never both in one run.
THEOREM NoDeadlock ==
    ASSUME Ordered
    PROVE  Spec => []NoWaitCycle
<1>1. LockInv => NoWaitCycle
  <2> SUFFICES ASSUME LockInv, NEW S \in (SUBSET Threads) \ {{}}
               PROVE  \E t \in S: \A u \in S: ~Blocks(u, t)
    BY DEF NoWaitCycle
  <2> QED BY NobodyWaitsForAWaiter, Zenon
<1> QED BY <1>1, LockInit, LockStep, PTL DEF Spec
=============================================================================

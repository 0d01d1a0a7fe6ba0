------------------------ MODULE BumpAllocatorProofs ------------------------
(***************************************************************************)
(* What holds of BumpAllocator for every size of the address space, every  *)
(* granularity and every request.                                          *)
(***************************************************************************)
EXTENDS BumpAllocator, TLAPS

-----------------------------------------------------------------------------
(* The inductive invariant: until the counter wraps it is beyond every     *)
(* region handed out.  Stated of values, so that one call which hands out  *)
(* two regions is two uses of the lemma about one.                         *)

Numbered(rs, ct) == \A r \in rs: r.id < ct

Below(n, rs) == \A r \in rs: r.first + r.size + Gap <= n

PairwiseApart(rs) == \A r, s \in rs: r.id # s.id => Apart(r, s)

Isolated(b, rs) ==
    \E r \in rs: /\ r.first = b /\ r.size = SystemSize
                 /\ \A s \in rs: s.id > r.id => Precedes(r, s)

Typed(n, b, rs, ct, w) ==
    /\ n \in 0..(Space - 1) /\ b \in 0..(Space - 1)
    /\ rs \subseteq Regions /\ ct \in Nat /\ w \in BOOLEAN

Orderly(n, b, rs, ct, w) ==
    /\ Typed(n, b, rs, ct, w)
    /\ Numbered(rs, ct)
    /\ ~w => Below(n, rs) /\ PairwiseApart(rs) /\ (b # 0 => Isolated(b, rs))

AllocInv == Orderly(next, systemBuffer, regions, count, wrapped)

-----------------------------------------------------------------------------
(* Rounding up never loses anything. *)

LEMMA RoundUpGrows ==
    ASSUME NEW x \in Nat, NEW n \in Nat \ {0}
    PROVE  RoundUp(x, n) \in Nat /\ RoundUp(x, n) >= x
<1> DEFINE m == (x + n - 1) % n
<1>1. x + n - 1 \in Int
  OBVIOUS
<1>2. m \in 0..(n - 1)
  BY <1>1
<1>3. RoundUp(x, n) = x + ((n - 1) - m)
  BY DEF RoundUp
<1> HIDE DEF m
<1>4. QED
  BY <1>2, <1>3

(* One region of size bytes at addr, which is at or beyond the counter, and *)
(* the counter moved past it: from the old values to those with a 2.  The   *)
(* system buffer is the old one or this region.                             *)
Grows(n, b, rs, ct, w, addr, size, n2, b2, rs2, ct2, w2) ==
    /\ addr \in 0..(Space - 1) /\ size \in Nat
    /\ n2 = (addr + size + Gap) % Space
    /\ b2 = b \/ (b2 = addr /\ size = SystemSize)
    /\ rs2 = rs \cup {[id |-> ct, first |-> addr, size |-> size]}
    /\ ct2 = ct + 1
    /\ w2 \in BOOLEAN
    /\ ~w2 => ~w /\ addr >= n /\ addr + size + Gap < Space

LEMMA OneMore ==
    ASSUME NEW n, NEW b, NEW rs, NEW ct, NEW w, Orderly(n, b, rs, ct, w),
           NEW addr, NEW size, NEW n2, NEW b2, NEW rs2, NEW ct2, NEW w2,
           Grows(n, b, rs, ct, w, addr, size, n2, b2, rs2, ct2, w2)
    PROVE  Orderly(n2, b2, rs2, ct2, w2)
<1> USE SpaceAssumption DEF Grows
<1> DEFINE new == [id |-> ct, first |-> addr, size |-> size]
<1>1. Typed(n, b, rs, ct, w) /\ Numbered(rs, ct)
  BY DEF Orderly
<1>2. addr + size + Gap \in Nat /\ n2 \in 0..(Space - 1)
  OBVIOUS
<1>3. new \in Regions /\ new.id = ct /\ new.first = addr /\ new.size = size
  BY <1>1 DEF Typed, Regions
<1>4. rs2 = rs \cup {new}
  OBVIOUS
<1>5. addr + size + Gap < Space => n2 = addr + size + Gap
  BY <1>2
<1> HIDE DEF new
<1>6. Typed(n2, b2, rs2, ct2, w2)
  BY <1>1, <1>2, <1>3, <1>4 DEF Typed
<1>7. Numbered(rs2, ct2)
  BY <1>1, <1>3, <1>4 DEF Typed, Numbered, Regions
<1>8. ASSUME ~w2
      PROVE  Below(n2, rs2) /\ PairwiseApart(rs2) /\ (b2 # 0 => Isolated(b2, rs2))
  <2>1. ~w
    BY <1>8
  <2>2. n2 = addr + size + Gap /\ addr >= n
    BY <1>5, <1>8
  <2>3. Below(n, rs) /\ PairwiseApart(rs) /\ (b # 0 => Isolated(b, rs))
    BY <2>1 DEF Orderly
  <2>4. \A r \in rs: r \in Regions /\ r.id < new.id /\ Precedes(r, new)
    BY <1>1, <1>3, <2>2, <2>3 DEF Typed, Numbered, Below, Precedes, Regions
  <2>5. Below(n2, rs2)
    BY <1>1, <1>3, <1>4, <2>2, <2>3 DEF Below, Typed, Regions
  <2>6. PairwiseApart(rs2)
    BY <1>4, <2>3, <2>4 DEF PairwiseApart, Apart
  <2>7. ASSUME b2 # 0
        PROVE  Isolated(b2, rs2)
    <3>1. CASE b2 = b
      <4>1. PICK r \in rs: /\ r.first = b /\ r.size = SystemSize
                           /\ \A s \in rs: s.id > r.id => Precedes(r, s)
        BY <2>3, <2>7, <3>1 DEF Isolated
      <4>2. \A s \in rs2: s.id > r.id => Precedes(r, s)
        BY <1>4, <2>4, <4>1
      <4>3. QED
        BY <1>4, <3>1, <4>1, <4>2 DEF Isolated
    <3>2. CASE b2 = addr /\ size = SystemSize
      <4>1. \A s \in rs2: ~ (s.id > new.id)
        BY <1>1, <1>3, <1>4, <2>4 DEF Typed, Regions
      <4>2. QED
        BY <1>3, <1>4, <3>2, <4>1 DEF Isolated
    <3>3. QED
      BY <3>1, <3>2
  <2>8. QED
    BY <2>5, <2>6, <2>7
<1>9. QED
  BY <1>6, <1>7, <1>8 DEF Orderly

-----------------------------------------------------------------------------
(* Each call. *)

LEMMA NextTyped ==
    ASSUME AllocInv
    PROVE  /\ next \in 0..(Space - 1) /\ next \in Nat /\ count \in Nat
           /\ wrapped \in BOOLEAN
BY SpaceAssumption DEF AllocInv, Orderly, Typed

LEMMA TakeStep ==
    ASSUME AllocInv,
           NEW addr \in 0..(Space - 1), NEW size \in Nat, NEW wraps \in BOOLEAN,
           ~wraps => addr >= next,
           Take(addr, size, wraps),
           systemBuffer' = systemBuffer \/ (systemBuffer' = addr /\ size = SystemSize)
    PROVE  AllocInv'
<1>1. /\ next' = (addr + size + Gap) % Space /\ count' = count + 1
      /\ regions' = regions \cup {[id |-> count, first |-> addr, size |-> size]}
  BY DEF Take
<1>2. wrapped' = (wrapped \/ wraps \/ addr + size + Gap >= Space)
  BY DEF Take
<1>3. wrapped' \in BOOLEAN
  BY <1>2
<1>4. ~wrapped' => ~wrapped /\ ~wraps /\ ~ (addr + size + Gap >= Space)
  BY <1>2
<1>5. ~ (addr + size + Gap >= Space) <=> addr + size + Gap < Space
  BY SpaceAssumption
<1>6. ~wrapped' => ~wrapped /\ addr >= next /\ addr + size + Gap < Space
  BY <1>4, <1>5
<1>7. Grows(next, systemBuffer, regions, count, wrapped, addr, size,
            next', systemBuffer', regions', count', wrapped')
  BY <1>1, <1>3, <1>6 DEF Grows
<1>8. Orderly(next', systemBuffer', regions', count', wrapped')
  BY <1>7, OneMore DEF AllocInv
<1>9. QED
  BY <1>8 DEF AllocInv

LEMMA VirtualStep ==
    ASSUME AllocInv, NEW request \in Sizes, NtAllocateVirtualMemory(request)
    PROVE  AllocInv'
<1> USE SpaceAssumption
<1> DEFINE rounded == RoundUp(request, Gran)
<1>1. rounded \in Nat /\ rounded % Space \in Nat /\ (rounded >= Space) \in BOOLEAN
  BY RoundUpGrows
<1>2. Take(next, rounded % Space, rounded >= Space) /\ systemBuffer' = systemBuffer
  BY DEF NtAllocateVirtualMemory
<1>3. ~ (rounded >= Space) => next >= next
  BY NextTyped
<1> HIDE DEF rounded
<1>4. QED
  BY <1>1, <1>2, <1>3, NextTyped, TakeStep

LEMMA PhysicalStep ==
    ASSUME AllocInv, NEW request \in Sizes, NEW alignment \in Alignments,
           MmAllocatePhysicalMemoryEx(request, alignment)
    PROVE  AllocInv'
<1> USE SpaceAssumption
<1> DEFINE rounded == RoundUp(request, Gran) % Space
           size == IF rounded < Gran \/ rounded > MaxSize THEN Gran ELSE rounded
           addr == IF alignment > 1 THEN RoundUp(next, alignment) ELSE next
<1>1. rounded \in Nat
  BY RoundUpGrows
<1>2. size \in Nat
  BY <1>1
<1>3. addr \in Nat /\ addr >= next
  BY NextTyped, RoundUpGrows
<1>4. Take(addr % Space, size, addr >= Space) /\ systemBuffer' = systemBuffer
  BY DEF MmAllocatePhysicalMemoryEx
<1> HIDE DEF size, addr
<1>5. addr % Space \in 0..(Space - 1) /\ (addr < Space => addr % Space = addr)
  BY <1>3
<1>6. ~ (addr >= Space) => addr % Space >= next
  BY <1>3, <1>5
<1>7. (addr >= Space) \in BOOLEAN
  BY <1>3
<1>8. QED
  BY <1>2, <1>4, <1>5, <1>6, <1>7, TakeStep

LEMMA ThreadStep ==
    ASSUME AllocInv, ExCreateThread
    PROVE  AllocInv'
<1> USE SpaceAssumption
<1> DEFINE tls == next + StackSize + Gap
           tlsAddr == tls % Space
           end == tlsAddr + TlsSize + Gap
           withStack == regions \cup {[id |-> count, first |-> next, size |-> StackSize]}
           tlsRegion == [id |-> count + 1, first |-> tlsAddr, size |-> TlsSize]
           stackWraps == wrapped \/ tls >= Space
<1>1. /\ next \in 0..(Space - 1) /\ next \in Nat /\ count \in Nat
      /\ wrapped \in BOOLEAN /\ Orderly(next, systemBuffer, regions, count, wrapped)
  BY NextTyped DEF AllocInv
<1>2. tlsAddr \in 0..(Space - 1)
  BY <1>1
<1>3. /\ regions' = withStack \cup {tlsRegion} /\ next' = end % Space
      /\ count' = (count + 1) + 1 /\ systemBuffer' = systemBuffer
  BY <1>1 DEF ExCreateThread
<1>4. wrapped' = (wrapped \/ tls >= Space \/ end >= Space)
  BY DEF ExCreateThread
<1>5. (~ (tls >= Space) <=> tls < Space) /\ (~ (end >= Space) <=> end < Space)
  BY <1>1, <1>2
<1>6. stackWraps \in BOOLEAN /\ (~stackWraps => ~wrapped /\ ~ (tls >= Space))
  OBVIOUS
<1>7. wrapped' \in BOOLEAN /\ (~wrapped' => ~stackWraps /\ ~ (end >= Space))
  BY <1>4
<1>8. next >= next /\ tlsAddr >= tlsAddr
  BY <1>1, <1>2
<1>9. ~stackWraps => ~wrapped /\ next >= next /\ tls < Space
  BY <1>5, <1>6, <1>8
<1>10. ~wrapped' => ~stackWraps /\ tlsAddr >= tlsAddr /\ end < Space
  BY <1>5, <1>7, <1>8
<1> HIDE DEF stackWraps
<1>11. Orderly(tlsAddr, systemBuffer, withStack, count + 1, stackWraps)
  <2>1. Grows(next, systemBuffer, regions, count, wrapped, next, StackSize,
              tlsAddr, systemBuffer, withStack, count + 1, stackWraps)
    BY <1>1, <1>6, <1>9 DEF Grows
  <2> HIDE DEF tlsAddr, withStack
  <2>2. QED
    BY <1>1, <2>1, OneMore
<1>12. Orderly(next', systemBuffer', regions', count', wrapped')
  <2>1. Grows(tlsAddr, systemBuffer, withStack, count + 1, stackWraps, tlsAddr, TlsSize,
              next', systemBuffer', regions', count', wrapped')
    BY <1>2, <1>3, <1>7, <1>10 DEF Grows
  <2> HIDE DEF tlsAddr, withStack
  <2>2. QED
    BY <1>11, <2>1, OneMore
<1>13. QED
  BY <1>12 DEF AllocInv

LEMMA SystemStep ==
    ASSUME AllocInv, VdGetSystemCommandBuffer
    PROVE  AllocInv'
<1>1. /\ systemBuffer' = next /\ Take(next, SystemSize, FALSE)
  BY DEF VdGetSystemCommandBuffer
<1>2. ~FALSE => next >= next
  BY NextTyped
<1>3. QED
  BY <1>1, <1>2, NextTyped, TakeStep, SpaceAssumption

-----------------------------------------------------------------------------
LEMMA InvInit == Init => AllocInv
<1> SUFFICES ASSUME Init
             PROVE  AllocInv
  OBVIOUS
<1>1. next = Base /\ systemBuffer = 0 /\ regions = {} /\ count = 0 /\ wrapped = FALSE
  BY DEF Init
<1>2. Typed(next, systemBuffer, regions, count, wrapped)
  <2>1. regions \subseteq Regions
    BY <1>1
  <2>2. wrapped \in BOOLEAN
    BY <1>1
  <2>3. next \in 0..(Space - 1) /\ systemBuffer \in 0..(Space - 1) /\ count \in Nat
    BY <1>1, SpaceAssumption
  <2>4. QED
    BY <2>1, <2>2, <2>3 DEF Typed
<1>3. Numbered(regions, count) /\ Below(next, regions) /\ PairwiseApart(regions)
  BY <1>1 DEF Numbered, Below, PairwiseApart
<1>4. QED
  BY <1>1, <1>2, <1>3 DEF AllocInv, Orderly

LEMMA InvStep == AllocInv /\ [Next]_vars => AllocInv'
<1> SUFFICES ASSUME AllocInv, [Next]_vars
             PROVE  AllocInv'
  OBVIOUS
<1>1. CASE \E s \in Sizes: NtAllocateVirtualMemory(s)
  BY <1>1, VirtualStep
<1>2. CASE \E s \in Sizes, a \in Alignments: MmAllocatePhysicalMemoryEx(s, a)
  BY <1>2, PhysicalStep
<1>3. CASE ExCreateThread
  BY <1>3, ThreadStep
<1>4. CASE VdGetSystemCommandBuffer
  BY <1>4, SystemStep
<1>5. CASE UNCHANGED vars
  BY <1>5 DEF AllocInv, vars
<1>6. QED
  BY <1>1, <1>2, <1>3, <1>4, <1>5 DEF Next

LEMMA InvAlways == Spec => []AllocInv
BY InvInit, InvStep, PTL DEF Spec

(* Two regions that any sequence of the four allocating calls hands out before the *)
(* counter wraps are disjoint, and separated by the margin of kBumpAllocatorGap.   *)
THEOREM RegionsStayApart == Spec => []ApartUntilWrap
<1>1. AllocInv => ApartUntilWrap
  BY DEF AllocInv, Orderly, PairwiseApart, ApartUntilWrap
<1>2. QED
  BY <1>1, InvAlways, PTL

(* The buffer that VdGetSystemCommandBuffer keeps returning is a region of its own  *)
(* size that every later allocation stays clear of.                                 *)
THEOREM SystemBufferStaysIsolated == Spec => []SystemBufferIsolated
<1>1. AllocInv => SystemBufferIsolated
  BY DEF AllocInv, Orderly, Isolated, SystemBufferIsolated
<1>2. QED
  BY <1>1, InvAlways, PTL

(* The counter and the addresses it gives stay in 32 bits, past the wrap too.       *)
THEOREM TypeCorrect == Spec => []TypeOK
<1>1. AllocInv => TypeOK
  BY DEF AllocInv, Orderly, Typed, TypeOK
<1>2. QED
  BY <1>1, InvAlways, PTL
=============================================================================

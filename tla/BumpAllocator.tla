--------------------------- MODULE BumpAllocator ---------------------------
(***************************************************************************)
(* The guest heap of host/kernel_impl.cpp: one counter, that four kernel   *)
(* calls advance under g_stateMutex and nothing ever moves back.  All      *)
(* arithmetic is uint32_t: modulo Space.                                   *)
(***************************************************************************)
EXTENDS Integers

CONSTANTS
    Space,        \* 2^32
    Base,         \* 0xA0000000
    Gran,         \* kMinGranularity, kAllocGranularity
    Gap,          \* kBumpAllocatorGap
    MaxSize,      \* 0x20000000: a larger request is taken for garbage
    StackSize, TlsSize, SystemSize,
    Sizes,        \* sizes the guest asks for
    Alignments,   \* alignments the guest asks for: 0 or powers of two
    MaxRegions    \* bound: regions in a run

ASSUME SpaceAssumption ==
    /\ Space \in Nat \ {0} /\ Base \in 0..(Space - 1)
    /\ Gran \in Nat \ {0} /\ Gap \in Nat \ {0} /\ MaxSize \in Nat
    /\ StackSize \in Nat /\ TlsSize \in Nat /\ SystemSize \in Nat
    /\ Sizes \subseteq 0..(Space - 1) /\ Alignments \subseteq Nat /\ MaxRegions \in Nat

VARIABLES
    next,         \* g_bumpAllocatorNext
    systemBuffer, \* g_systemCommandBufferAddr, 0 before the first call
    regions,      \* history: the regions handed out, in order of their number
    count,        \* history: how many
    wrapped       \* history: a sum has gone past Space

vars == <<next, systemBuffer, regions, count, wrapped>>

\* (x + n - 1) & ~(n - 1) before it is cut to 32 bits
RoundUp(x, n) == x + ((n - 1) - ((x + n - 1) % n))

\* Hand out size bytes at addr: the counter moves to addr + size + gap.
Take(addr, size, wraps) ==
    /\ next' = (addr + size + Gap) % Space
    /\ regions' = regions \cup {[id |-> count, first |-> addr, size |-> size]}
    /\ count' = count + 1
    /\ wrapped' = (wrapped \/ wraps \/ addr + size + Gap >= Space)

\* Rounded to 64 KiB in 32 bits, with no check of the result.
NtAllocateVirtualMemory(request) ==
    LET rounded == RoundUp(request, Gran)
    IN  /\ count < MaxRegions
        /\ Take(next, rounded % Space, rounded >= Space)
        /\ UNCHANGED systemBuffer

\* Variant: the region starts where the counter was before it was aligned.
BugAlignsDown(request, alignment) ==
    LET rounded == RoundUp(request, Gran) % Space
        size == IF rounded < Gran \/ rounded > MaxSize THEN Gran ELSE rounded
        addr == IF alignment > 1 THEN next - (next % alignment) ELSE next
    IN  /\ count < MaxRegions
        /\ Take(addr % Space, size, addr >= Space)
        /\ UNCHANGED systemBuffer

\* A size that is zero or absurd after rounding becomes one granule; the start is
\* aligned when the alignment is a power of two above one.
MmAllocatePhysicalMemoryEx(request, alignment) ==
    LET rounded == RoundUp(request, Gran) % Space
        size == IF rounded < Gran \/ rounded > MaxSize THEN Gran ELSE rounded
        addr == IF alignment > 1 THEN RoundUp(next, alignment) ELSE next
    IN  /\ count < MaxRegions
        /\ Take(addr % Space, size, addr >= Space)
        /\ UNCHANGED systemBuffer

\* The stack, then the thread's TLS block, in one critical section.
ExCreateThread ==
    LET tls == next + StackSize + Gap
        end == (tls % Space) + TlsSize + Gap
    IN  /\ count + 1 < MaxRegions
        /\ regions' = regions \cup
              {[id |-> count, first |-> next, size |-> StackSize],
               [id |-> count + 1, first |-> tls % Space, size |-> TlsSize]}
        /\ next' = end % Space
        /\ count' = count + 2
        /\ wrapped' = (wrapped \/ tls >= Space \/ end >= Space)
        /\ UNCHANGED systemBuffer

\* Variant: the first call keeps an address that it does not reserve.
BugUnreserved ==
    /\ systemBuffer = 0 /\ count < MaxRegions
    /\ systemBuffer' = next
    /\ count' = count + 1
    /\ regions' = regions \cup {[id |-> count, first |-> next, size |-> SystemSize]}
    /\ UNCHANGED <<next, wrapped>>

\* Allocated by the first call only; the address is what a later call returns.
VdGetSystemCommandBuffer ==
    /\ systemBuffer = 0 /\ count < MaxRegions
    /\ systemBuffer' = next
    /\ Take(next, SystemSize, FALSE)

Init ==
    /\ next = Base
    /\ systemBuffer = 0
    /\ regions = {}
    /\ count = 0
    /\ wrapped = FALSE

Next ==
    \/ \E s \in Sizes: NtAllocateVirtualMemory(s)
    \/ \E s \in Sizes, a \in Alignments: MmAllocatePhysicalMemoryEx(s, a)
    \/ ExCreateThread
    \/ VdGetSystemCommandBuffer

Spec == Init /\ [][Next]_vars

-----------------------------------------------------------------------------
Regions == [id: Nat, first: 0..(Space - 1), size: Nat]

TypeOK ==
    /\ next \in 0..(Space - 1) /\ systemBuffer \in 0..(Space - 1)
    /\ regions \subseteq Regions /\ count \in Nat /\ wrapped \in BOOLEAN

\* r ends, and its safety margin too, before s begins
Precedes(r, s) == r.first + r.size + Gap <= s.first

Apart(r, s) == Precedes(r, s) \/ Precedes(s, r)

\* Until the counter wraps, any two regions are disjoint, with the safety margin
\* between them that a host-side stream read may overrun into.
ApartUntilWrap ==
    ~wrapped => \A r, s \in regions: r.id # s.id => Apart(r, s)

\* The address that VdGetSystemCommandBuffer keeps returning is that of a region
\* which nothing allocated since reaches into.
SystemBufferIsolated ==
    systemBuffer # 0 /\ ~wrapped =>
        \E r \in regions: /\ r.first = systemBuffer /\ r.size = SystemSize
                          /\ \A s \in regions: s.id > r.id => Precedes(r, s)
=============================================================================

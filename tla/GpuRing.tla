------------------------------ MODULE GpuRing ------------------------------
(***************************************************************************)
(* The main command ring of host/gpu_trace.cpp.  The guest's driver writes *)
(* packets and announces them in the CP_RB_WPTR register; the pump thread  *)
(* of host/main.cpp samples that register, scans what was announced and    *)
(* writes back how far it came, which is the driver's account of the free  *)
(* space.  No lock is common to the two: the ring, wptr and rptr are plain *)
(* guest memory.                                                           *)
(*                                                                         *)
(* The driver is guest code and not in the repository.  What is assumed of *)
(* it: it never writes over what rptr does not release, never announces a  *)
(* packet before it is whole, does not split a packet at the end of the    *)
(* ring, and leaves zeros or TYPE2 fillers in a tail it skips.             *)
(***************************************************************************)
EXTENDS Integers, Sequences

CONSTANTS
    Size,         \* ringBufferSize_, in dwords
    Lengths,      \* dwords of a packet: header and payload
    Fillings,     \* what the driver leaves in a skipped tail
    MaxPackets    \* bound: packets in a run

ASSUME RingAssumption ==
    /\ Size \in Nat \ {0} /\ MaxPackets \in Nat
    /\ Lengths \subseteq 1..Size /\ \A l \in Lengths: 2 * l <= Size
    /\ Fillings \subseteq {"zero", "filler"}

VARIABLES
    ring,         \* guest memory from ringBufferBase_ on
    wptr,         \* the CP_RB_WPTR register
    rptr,         \* the dword at rptrWriteBackAddr_
    writeBack,    \* rptrWriteBackAddr_ is set
    cursor,       \* driver: where it writes next
    drafted,      \* driver: length of the packet whose header is written, 0: none
    written,      \* driver: packets that are whole
    announced,    \* history: packets below wptr
    pump,         \* what the pump thread is doing
    parsed,       \* lastParsedOffset_
    target,       \* lastWptrDwords_
    bound,        \* sizeBytes of the scan under way
    wrapPending,
    offset,       \* offsetBytes of the scan under way
    executed      \* history: the packets executed; 0 for what is not one packet

driver == <<cursor, drafted, written, announced>>
scan == <<parsed, target, bound, wrapPending, offset>>
vars == <<ring, wptr, rptr, writeBack, pump, executed, driver, scan>>

Zero == [kind |-> "zero", id |-> 0, len |-> 0]
Filler == [kind |-> "filler", id |-> 0, len |-> 0]
Header(id, len) == [kind |-> "header", id |-> id, len |-> len]
Payload(id) == [kind |-> "payload", id |-> id, len |-> 0]

-----------------------------------------------------------------------------
(* The driver. *)

\* Dwords it may write before it would reach the read pointer it knows
Free == (rptr - cursor - 1) % Size

Rest == Size - cursor

SkipTail(l, filling) ==
    /\ drafted = 0 /\ written < MaxPackets
    /\ l > Rest /\ Rest + l <= Free
    /\ ring' = [i \in 0..(Size - 1) |->
                  IF i < cursor THEN ring[i] ELSE IF filling = "zero" THEN Zero ELSE Filler]
    /\ cursor' = 0
    /\ UNCHANGED <<wptr, rptr, writeBack, pump, executed, drafted, written, announced, scan>>

WriteHeader(l) ==
    /\ drafted = 0 /\ written < MaxPackets
    /\ l <= Rest /\ l <= Free
    /\ ring' = [ring EXCEPT ![cursor] = Header(written + 1, l)]
    /\ drafted' = l
    /\ UNCHANGED <<wptr, rptr, writeBack, pump, executed, cursor, written, announced, scan>>

WritePayload ==
    /\ drafted # 0
    /\ ring' = [i \in 0..(Size - 1) |->
                  IF i \in (cursor + 1)..(cursor + drafted - 1)
                  THEN Payload(written + 1) ELSE ring[i]]
    /\ cursor' = (cursor + drafted) % Size
    /\ written' = written + 1
    /\ drafted' = 0
    /\ UNCHANGED <<wptr, rptr, writeBack, pump, executed, announced, scan>>

\* Several packets may be announced at once.
Doorbell ==
    /\ drafted = 0 /\ announced < written
    /\ wptr' = cursor
    /\ announced' = written
    /\ UNCHANGED <<ring, rptr, writeBack, pump, executed, cursor, drafted, written, scan>>

\* VdEnableRingBufferRPtrWriteBack
SetRptrWriteBackAddr ==
    /\ ~writeBack
    /\ writeBack' = TRUE
    /\ UNCHANGED <<ring, wptr, rptr, pump, executed, driver, scan>>

-----------------------------------------------------------------------------
(* The pump thread. *)

\* Variant: the whole ring is scanned, the zero header alone ends the scan.
BugNoBound ==
    /\ pump = "sleep"
    /\ pump' = "tail"
    /\ target' = wptr
    /\ wrapPending' = (wptr < parsed)
    /\ bound' = Size
    /\ offset' = parsed
    /\ UNCHANGED <<ring, wptr, rptr, writeBack, executed, driver, parsed>>

\* Sample the register, then choose what to scan: up to the write pointer when it is
\* ahead; when it is behind it has wrapped, and the scan goes to the end of the ring.
ObserveWritePointer ==
    /\ pump = "sleep"
    /\ pump' = "tail"
    /\ target' = wptr
    /\ wrapPending' = (wptr < parsed)
    /\ bound' = IF wptr < parsed THEN Size ELSE wptr
    /\ offset' = parsed
    /\ UNCHANGED <<ring, wptr, rptr, writeBack, executed, driver, parsed>>

Scanning == pump \in {"tail", "wrapped"}
There == ring[offset]

\* Short of the bound there is a dword that is not zero, and when it is a header the
\* payload it announces does not run past the bound.
Decodable ==
    /\ offset < bound /\ There.kind # "zero"
    /\ There.kind = "header" => offset + There.len <= bound

SkipFiller ==
    /\ Scanning /\ Decodable /\ There.kind = "filler"
    /\ offset' = offset + 1
    /\ UNCHANGED <<ring, wptr, rptr, writeBack, pump, executed, driver, parsed, target, bound,
                   wrapPending>>

Whole(o) ==
    \A i \in (o + 1)..(o + ring[o].len - 1): ring[i] = Payload(ring[o].id)

\* One packet.  A payload dword met as a header is decoded as some packet or other.
ExecutePacket ==
    /\ Scanning /\ Decodable /\ There.kind # "filler"
    /\ offset' = IF There.kind = "header" THEN offset + There.len ELSE offset + 1
    /\ executed' = Append(executed, IF There.kind = "header" /\ Whole(offset)
                                    THEN There.id ELSE 0)
    /\ UNCHANGED <<ring, wptr, rptr, writeBack, pump, driver, parsed, target, bound, wrapPending>>

ScanOver == Scanning /\ ~Decodable

\* Variant: the scan came to the end of the ring.
BugExhaustedAtEnd == pump = "tail" /\ wrapPending /\ offset >= bound

\* Nothing was found between the last packet and the end of the ring.
TailExhausted == pump = "tail" /\ wrapPending /\ offset = parsed

\* Go on from the start of the ring.
FollowWrap ==
    /\ ScanOver /\ TailExhausted
    /\ pump' = "wrapped"
    /\ offset' = 0
    /\ bound' = target
    /\ UNCHANGED <<ring, wptr, rptr, writeBack, executed, driver, parsed, target, wrapPending>>

\* Variant: what is written back is the write pointer, as it is now.
BugReportsWptr ==
    /\ ScanOver /\ ~TailExhausted
    /\ pump' = "sleep"
    /\ parsed' = offset
    /\ rptr' = IF writeBack THEN wptr ELSE rptr
    /\ UNCHANGED <<ring, wptr, writeBack, executed, driver, target, bound, wrapPending, offset>>

ScanEnds ==
    /\ ScanOver /\ ~TailExhausted
    /\ pump' = "sleep"
    /\ parsed' = offset
    /\ rptr' = IF writeBack THEN offset ELSE rptr
    /\ UNCHANGED <<ring, wptr, writeBack, executed, driver, target, bound, wrapPending, offset>>

-----------------------------------------------------------------------------
\* The ring is registered and its memory is still zero.
Init ==
    /\ ring = [i \in 0..(Size - 1) |-> Zero]
    /\ wptr = 0 /\ rptr = 0 /\ writeBack = FALSE
    /\ cursor = 0 /\ drafted = 0 /\ written = 0 /\ announced = 0
    /\ pump = "sleep" /\ parsed = 0 /\ target = 0 /\ bound = 0
    /\ wrapPending = FALSE /\ offset = 0
    /\ executed = <<>>

Driver ==
    \/ \E l \in Lengths, f \in Fillings: SkipTail(l, f)
    \/ \E l \in Lengths: WriteHeader(l)
    \/ WritePayload \/ Doorbell \/ SetRptrWriteBackAddr

Pump ==
    \/ ObserveWritePointer \/ SkipFiller \/ ExecutePacket \/ FollowWrap \/ ScanEnds

Next == Driver \/ Pump

Spec == Init /\ [][Next]_vars

\* The pump loop never exits; the driver goes on while it has room.
FairSpec ==
    /\ Spec /\ WF_vars(Pump)
    /\ WF_vars(WritePayload) /\ WF_vars(Doorbell) /\ WF_vars(SetRptrWriteBackAddr)
    /\ WF_vars(\E l \in Lengths, f \in Fillings: WriteHeader(l) \/ SkipTail(l, f))

-----------------------------------------------------------------------------
Cells == [kind: {"zero", "filler", "header", "payload"}, id: 0..MaxPackets, len: 0..Size]

TypeOK ==
    /\ ring \in [0..(Size - 1) -> Cells]
    /\ wptr \in 0..(Size - 1) /\ rptr \in 0..Size /\ writeBack \in BOOLEAN
    /\ cursor \in 0..(Size - 1) /\ drafted \in 0..Size
    /\ written \in 0..MaxPackets /\ announced \in 0..written
    /\ pump \in {"sleep", "tail", "wrapped"}
    /\ parsed \in 0..Size /\ target \in 0..(Size - 1) /\ bound \in 0..Size
    /\ wrapPending \in BOOLEAN /\ offset \in 0..Size
    /\ executed \in Seq(0..MaxPackets)

\* Every packet announced and not yet executed is in the ring, whole: the read pointer
\* the pump writes back never lets the driver overwrite what is still to be read.
UnreadIntact ==
    \A p \in (Len(executed) + 1)..announced:
        \E o \in 0..(Size - 1): ring[o].kind = "header" /\ ring[o].id = p /\ Whole(o)

\* What the pump executes is what was announced, in order, nothing twice, nothing torn,
\* and nothing that was announced is left: the ring implements the command stream.
Stream == INSTANCE CommandStream WITH announced <- announced, executed <- executed
ImplementsStream == Stream!Spec

\* A driver that waits for ring space gets it: all its packets are announced one day.
\* This is the wait of sub_820B4EE8 that the pump thread was made for.
SpaceComes == <>(announced = MaxPackets)
=============================================================================

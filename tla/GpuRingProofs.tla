---------------------------- MODULE GpuRingProofs ----------------------------
(***************************************************************************)
(* Proofs about GpuRing, for a ring and packets of any size and any number *)
(* of packets: what the pump has not read is not overwritten, and what it  *)
(* executes is the command stream.                                         *)
(*                                                                         *)
(* The ring is described by where its unread packets end.  Either pump and *)
(* driver are in the same lap, and the packets lie end to end from the     *)
(* pump's offset to the driver's cursor; or the driver is a lap ahead, and *)
(* they fill the end of the ring first and then its start, with the read   *)
(* pointer the driver knows between its cursor and the pump.               *)
(***************************************************************************)
EXTENDS GpuRing, TLAPS

Done == Len(executed)

\* The ends of packets a .. b; the one of a is where packet a + 1 starts.
Ends(a, b) == [a..b -> 0..Size]

\* Packets a + 1 .. b lie in r whole and end to end.
Tiled(r, e, a, b) ==
    /\ \A p, q \in a..b: p < q => e[p] < e[q]
    /\ \A p \in (a + 1)..b:
          /\ r[e[p - 1]] = Header(p, e[p] - e[p - 1])
          /\ \A i \in (e[p - 1] + 1)..(e[p] - 1): r[i] = Payload(p)

\* A packet whose header alone is written ends before x.
DraftEndsBefore(x) ==
    drafted # 0 => /\ written < MaxPackets
                   /\ ring[cursor] = Header(written + 1, drafted)
                   /\ cursor + drafted < x

\* Pump and driver in one lap.  Only a pump that has just followed the wrap has the
\* read pointer in front of the cursor still.
OneLap(e) ==
    /\ Tiled(ring, e, Done, written) /\ e[Done] = offset /\ e[written] = cursor
    /\ wptr = e[announced]
    /\ \/ /\ pump # "wrapped" /\ rptr <= offset
          /\ DraftEndsBefore(IF rptr = 0 THEN Size ELSE Size + 1)
       \/ /\ pump = "wrapped" /\ cursor < rptr
          /\ DraftEndsBefore(rptr)
    /\ pump # "sleep" => bound = target /\ \E k \in Done..announced: target = e[k]
    /\ pump = "tail" => ~wrapPending

\* The driver is a lap ahead: packets up to m are at the end of the ring.
TwoLaps(e, f, m) ==
    /\ Tiled(ring, e, Done, m) /\ e[Done] = offset
    /\ \A i \in e[m]..(Size - 1): ring[i] \in {Zero, Filler}
    /\ Tiled(ring, f, m, written) /\ f[m] = 0 /\ f[written] = cursor
    /\ cursor < rptr /\ rptr <= offset
    /\ DraftEndsBefore(rptr)
    /\ pump # "wrapped"
    /\ \/ announced <= m /\ wptr = e[announced]
       \/ announced >= m /\ wptr = f[announced]
    /\ pump = "tail" =>
         \/ /\ ~wrapPending /\ bound = target
            /\ \E k \in Done..m: k <= announced /\ target = e[k]
         \/ /\ wrapPending /\ bound = Size
            /\ announced >= m /\ wptr = f[announced]
            /\ \E k \in m..announced: target = f[k]

Layout ==
    \/ \E e \in Ends(Done, written): OneLap(e)
    \/ \E m \in Done..written: \E e \in Ends(Done, m), f \in Ends(m, written): TwoLaps(e, f, m)

RingInv ==
    /\ TypeOK
    /\ Done <= announced
    /\ ~writeBack => rptr = 0
    /\ pump = "sleep" => offset = parsed
    /\ Layout

-----------------------------------------------------------------------------
(* Arithmetic and types. *)

LEMMA Modulo ==
    /\ \A x \in 0..(Size - 1): x % Size = x
    /\ Size % Size = 0
    /\ \A x \in (-Size)..(-1): x % Size = x + Size
<1>1. \A x \in 0..(Size - 1): x % Size = x
  BY RingAssumption
<1>2. Size % Size = 0
  BY RingAssumption
<1>3. \A x \in (-Size)..(-1): x % Size = x + Size
  BY RingAssumption
<1> QED BY <1>1, <1>2, <1>3

\* How much the driver may write, by where the read pointer it knows is.
LEMMA FreeSpace ==
    ASSUME TypeOK
    PROVE  /\ cursor < rptr => Free = rptr - cursor - 1
           /\ rptr <= cursor => Free = Size + rptr - cursor - 1
<1>1. rptr \in 0..Size /\ cursor \in 0..(Size - 1) /\ Size \in Nat
  BY RingAssumption DEF TypeOK
<1>2. CASE cursor < rptr
  BY <1>1, <1>2, Modulo DEF Free
<1>3. CASE rptr <= cursor
  BY <1>1, <1>3, Modulo DEF Free
<1> QED BY <1>1, <1>2, <1>3

LEMMA CellTypes ==
    /\ Zero \in Cells /\ Filler \in Cells
    /\ \A p \in 0..MaxPackets: Payload(p) \in Cells
    /\ \A p \in 0..MaxPackets, l \in 0..Size: Header(p, l) \in Cells
BY RingAssumption DEF Cells, Zero, Filler, Payload, Header


\* A drafted packet, in every layout.
LEMMA Draft ==
    ASSUME RingInv, drafted # 0
    PROVE  /\ written < MaxPackets /\ ring[cursor] = Header(written + 1, drafted)
           /\ cursor + drafted <= Size
<1>1. rptr \in 0..Size /\ cursor \in 0..(Size - 1) /\ drafted \in 0..Size /\ Size \in Nat
  BY RingAssumption DEF RingInv, TypeOK
<1>2. ASSUME NEW e, OneLap(e)
      PROVE  /\ written < MaxPackets /\ ring[cursor] = Header(written + 1, drafted)
             /\ cursor + drafted <= Size
  BY <1>1, <1>2 DEF OneLap, DraftEndsBefore
<1>3. ASSUME NEW e, NEW f, NEW m, TwoLaps(e, f, m)
      PROVE  /\ written < MaxPackets /\ ring[cursor] = Header(written + 1, drafted)
             /\ cursor + drafted <= Size
  BY <1>1, <1>3 DEF TwoLaps, DraftEndsBefore
<1> QED BY <1>2, <1>3 DEF RingInv, Layout

LEMMA TypeStep ==
    ASSUME RingInv, [Next]_vars
    PROVE  TypeOK'
<1>0. /\ TypeOK
      /\ Size \in Nat \ {0} /\ MaxPackets \in Nat /\ Lengths \subseteq 1..Size
      /\ TRUE \in BOOLEAN /\ FALSE \in BOOLEAN
  BY RingAssumption DEF RingInv
<1>1. CASE UNCHANGED vars
  BY <1>0, <1>1 DEF TypeOK, vars, driver, scan
<1>2. ASSUME NEW l \in Lengths, NEW f \in Fillings, SkipTail(l, f) PROVE TypeOK'
  <2>1. ring' \in [0..(Size - 1) -> Cells]
    BY <1>0, <1>2, CellTypes DEF SkipTail, TypeOK
  <2> QED BY <1>0, <1>2, <2>1 DEF SkipTail, TypeOK, scan
<1>3. ASSUME NEW l \in Lengths, WriteHeader(l) PROVE TypeOK'
  <2>1. l \in 0..Size /\ written + 1 \in 0..MaxPackets /\ cursor \in 0..(Size - 1)
    BY <1>0, <1>3 DEF WriteHeader, TypeOK
  <2>2. Header(written + 1, l) \in Cells
    BY <2>1, CellTypes
  <2> QED BY <1>0, <1>3, <2>1, <2>2 DEF WriteHeader, TypeOK, scan
<1>4. ASSUME WritePayload PROVE TypeOK'
  <2>1. drafted # 0 /\ written < MaxPackets /\ cursor + drafted <= Size
    BY <1>4, Draft DEF WritePayload
  <2>2. written + 1 \in 0..MaxPackets /\ written' = written + 1
    BY <1>0, <1>4, <2>1 DEF WritePayload, TypeOK
  <2>3. ring' \in [0..(Size - 1) -> Cells]
    BY <1>0, <1>4, <2>2, CellTypes DEF WritePayload, TypeOK
  <2>4. cursor' \in 0..(Size - 1)
    BY <1>0, <1>4, <2>1, Modulo DEF WritePayload, TypeOK
  <2> QED BY <1>0, <1>4, <2>1, <2>2, <2>3, <2>4 DEF WritePayload, TypeOK, scan
<1>5. ASSUME Doorbell PROVE TypeOK'
  BY <1>0, <1>5 DEF Doorbell, TypeOK, scan
<1>6. ASSUME SetRptrWriteBackAddr PROVE TypeOK'
  BY <1>0, <1>6 DEF SetRptrWriteBackAddr, TypeOK, scan, driver
<1>7. ASSUME ObserveWritePointer PROVE TypeOK'
  <2>1. wrapPending' \in BOOLEAN
    BY <1>7 DEF ObserveWritePointer
  <2>2. bound' \in 0..Size
    BY <1>0, <1>7 DEF ObserveWritePointer, TypeOK
  <2> QED BY <1>0, <1>7, <2>1, <2>2 DEF ObserveWritePointer, TypeOK, driver
<1>8. ASSUME SkipFiller PROVE TypeOK'
  BY <1>0, <1>8 DEF SkipFiller, Decodable, TypeOK, driver
<1>9. ASSUME ExecutePacket PROVE TypeOK'
  <2>1. /\ offset \in 0..(Size - 1) /\ There \in Cells /\ offset < bound /\ bound \in 0..Size
        /\ There.kind = "header" => offset + There.len <= bound
    BY <1>0, <1>9 DEF ExecutePacket, Decodable, TypeOK, There
  <2>2. There.id \in 0..MaxPackets /\ There.len \in 0..Size /\ 0 \in 0..MaxPackets
    BY <1>0, <2>1 DEF Cells
  <2>3. executed' \in Seq(0..MaxPackets)
    BY <1>9, <2>2, <1>0 DEF ExecutePacket, TypeOK
  <2>4. offset' \in 0..Size
    BY <1>0, <1>9, <2>1, <2>2 DEF ExecutePacket
  <2> QED BY <1>0, <1>9, <2>3, <2>4 DEF ExecutePacket, TypeOK, driver
<1>10. ASSUME FollowWrap PROVE TypeOK'
  BY <1>0, <1>10 DEF FollowWrap, TypeOK, driver
<1>11. ASSUME ScanEnds PROVE TypeOK'
  BY <1>0, <1>11 DEF ScanEnds, TypeOK, driver
<1> QED
  BY <1>1, <1>2, <1>3, <1>4, <1>5, <1>6, <1>7, <1>8, <1>9, <1>10, <1>11
     DEF Next, Driver, Pump

-----------------------------------------------------------------------------
(* Tilings. *)

\* The ends of a tiling are ordered.
LEMMA EndsOrdered ==
    ASSUME NEW r, NEW a \in Nat, NEW b \in Nat, a <= b, NEW e \in Ends(a, b), Tiled(r, e, a, b)
    PROVE  \A p \in a..b: e[p] \in 0..Size /\ e[a] <= e[p] /\ e[p] <= e[b]
<1> SUFFICES ASSUME NEW p \in a..b PROVE e[p] \in 0..Size /\ e[a] <= e[p] /\ e[p] <= e[b]
  OBVIOUS
<1>1. a \in a..b /\ b \in a..b /\ (a = p \/ a < p) /\ (p = b \/ p < b)
  OBVIOUS
<1>2. e[p] \in 0..Size /\ e[a] \in 0..Size /\ e[b] \in 0..Size /\ Size \in Nat
  BY <1>1, RingAssumption DEF Ends
<1> QED BY <1>1, <1>2 DEF Tiled

\* A tiling is unaffected by what is written elsewhere.
LEMMA TiledKept ==
    ASSUME NEW r, NEW s, NEW a \in Nat, NEW b \in Nat, a <= b,
           NEW e \in Ends(a, b), Tiled(r, e, a, b),
           \A i \in e[a]..(e[b] - 1): s[i] = r[i]
    PROVE  Tiled(s, e, a, b)
<1> SUFFICES ASSUME NEW p \in (a + 1)..b
             PROVE  /\ s[e[p - 1]] = Header(p, e[p] - e[p - 1])
                    /\ \A i \in (e[p - 1] + 1)..(e[p] - 1): s[i] = Payload(p)
  BY DEF Tiled
<1>1. p - 1 \in a..b /\ p \in a..b /\ p - 1 < p
  OBVIOUS
<1>2. /\ e[p - 1] \in 0..Size /\ e[p] \in 0..Size /\ e[a] \in 0..Size /\ e[b] \in 0..Size
      /\ e[a] <= e[p - 1] /\ e[p] <= e[b] /\ Size \in Nat
  BY <1>1, EndsOrdered, RingAssumption
<1>3. e[p - 1] < e[p]
  BY <1>1 DEF Tiled
<1>4. \A i \in e[p - 1]..(e[p] - 1): s[i] = r[i]
  BY <1>2, <1>3
<1>5. e[p - 1] \in e[p - 1]..(e[p] - 1)
  BY <1>2, <1>3
<1> QED BY <1>2, <1>4, <1>5 DEF Tiled

\* One more packet at the end.
LEMMA TiledMore ==
    ASSUME NEW s, NEW a \in Nat, NEW b \in Nat, a <= b,
           NEW e \in Ends(a, b), Tiled(s, e, a, b),
           NEW y \in 0..Size, NEW l \in 1..Size, y + l <= Size, e[b] = y,
           s[y] = Header(b + 1, l),
           \A i \in (y + 1)..(y + l - 1): s[i] = Payload(b + 1)
    PROVE  \E g \in Ends(a, b + 1):
              /\ Tiled(s, g, a, b + 1)
              /\ \A p \in a..b: g[p] = e[p]
              /\ g[b + 1] = y + l
<1> DEFINE g == [p \in a..(b + 1) |-> IF p = b + 1 THEN y + l ELSE e[p]]
<1>0. Size \in Nat /\ y + l \in 0..Size /\ (y + l) - y = l /\ y < y + l
  BY RingAssumption
<1>1. g \in Ends(a, b + 1)
  BY <1>0 DEF Ends
<1>2. /\ \A p \in a..b: g[p] = e[p]
      /\ g[b + 1] = y + l
  OBVIOUS
<1>4. \A p, q \in a..(b + 1): p < q => g[p] < g[q]
  <2> SUFFICES ASSUME NEW p \in a..(b + 1), NEW q \in a..(b + 1), p < q PROVE g[p] < g[q]
    OBVIOUS
  <2>1. p \in a..b /\ e[p] \in 0..Size /\ e[b] \in 0..Size /\ e[p] <= e[b] /\ Size \in Nat
    BY EndsOrdered, RingAssumption DEF Ends
  <2>2. CASE q = b + 1
    BY <1>0, <1>2, <2>1, <2>2
  <2>3. CASE q \in a..b
    BY <1>2, <2>1, <2>3 DEF Tiled
  <2> QED BY <2>2, <2>3
<1>5. ASSUME NEW p \in (a + 1)..(b + 1)
      PROVE  /\ s[g[p - 1]] = Header(p, g[p] - g[p - 1])
             /\ \A i \in (g[p - 1] + 1)..(g[p] - 1): s[i] = Payload(p)
  <2>1. CASE p = b + 1
    <3>1. g[p] = y + l /\ g[p - 1] = y
      BY <1>2, <2>1
    <3> QED BY <1>0, <2>1, <3>1
  <2>2. CASE p \in (a + 1)..b
    <3>1. g[p] = e[p] /\ g[p - 1] = e[p - 1]
      BY <1>2, <2>2
    <3> QED BY <2>2, <3>1 DEF Tiled
  <2>3. p = b + 1 \/ p \in (a + 1)..b
    OBVIOUS
  <2> HIDE DEF g
  <2> QED BY <2>1, <2>2, <2>3
<1>6. Tiled(s, g, a, b + 1)
  BY <1>4, <1>5 DEF Tiled
<1> HIDE DEF g
<1> QED BY <1>1, <1>2, <1>6

\* One packet less at the start.
LEMMA TiledLess ==
    ASSUME NEW r, NEW a \in Nat, NEW b \in Nat, a < b, NEW e \in Ends(a, b), Tiled(r, e, a, b)
    PROVE  \E g \in Ends(a + 1, b):
              /\ Tiled(r, g, a + 1, b)
              /\ \A p \in (a + 1)..b: g[p] = e[p]
<1> DEFINE g == [p \in (a + 1)..b |-> e[p]]
<1>1. g \in Ends(a + 1, b)
  BY DEF Ends
<1>2. \A p \in (a + 1)..b: g[p] = e[p]
  OBVIOUS
<1>3. \A p, q \in (a + 1)..b: p < q => g[p] < g[q]
  BY DEF Tiled
<1>4. ASSUME NEW p \in (a + 2)..b
      PROVE  /\ r[g[p - 1]] = Header(p, g[p] - g[p - 1])
             /\ \A i \in (g[p - 1] + 1)..(g[p] - 1): r[i] = Payload(p)
  <2>1. p \in (a + 1)..b /\ p - 1 \in (a + 1)..b
    OBVIOUS
  <2>2. g[p] = e[p] /\ g[p - 1] = e[p - 1]
    BY <2>1
  <2> QED BY <2>1, <2>2 DEF Tiled
<1>5. (a + 1) + 1 = a + 2
  OBVIOUS
<1>6. Tiled(r, g, a + 1, b)
  BY <1>3, <1>4, <1>5 DEF Tiled
<1> HIDE DEF g
<1> QED BY <1>1, <1>2, <1>6

\* The first packet of a tiling, as the pump finds it.
LEMMA FirstPacket ==
    ASSUME TypeOK, NEW a \in Nat, NEW b \in Nat, a < b, NEW e \in Ends(a, b),
           Tiled(ring, e, a, b), e[a] = offset
    PROVE  /\ offset < e[a + 1] /\ e[a + 1] \in 0..Size /\ e[a + 1] <= e[b]
           /\ There = Header(a + 1, e[a + 1] - offset)
           /\ There.kind = "header" /\ There.id = a + 1 /\ offset + There.len = e[a + 1]
           /\ Whole(offset)
<1>1. a \in a..b /\ a + 1 \in a..b /\ a < a + 1 /\ a + 1 \in (a + 1)..b /\ (a + 1) - 1 = a
  OBVIOUS
<1>2. e[a + 1] \in 0..Size /\ e[a + 1] <= e[b] /\ offset \in 0..Size /\ Size \in Nat
  BY <1>1, EndsOrdered, RingAssumption DEF TypeOK
<1>3. offset < e[a + 1]
  BY <1>1 DEF Tiled
<1>4. There = Header(a + 1, e[a + 1] - offset)
  BY <1>1 DEF Tiled, There
<1>5. There.kind = "header" /\ There.id = a + 1 /\ There.len = e[a + 1] - offset
  BY <1>4 DEF Header
<1>6. \A i \in (offset + 1)..(e[a + 1] - 1): ring[i] = Payload(a + 1)
  BY <1>1 DEF Tiled
<1>7. offset + There.len = e[a + 1]
  BY <1>2, <1>5
<1>8. Whole(offset)
  <2>1. offset + ring[offset].len - 1 = e[a + 1] - 1 /\ ring[offset].id = a + 1
    BY <1>2, <1>5, <1>7 DEF There
  <2> QED BY <1>6, <2>1 DEF Whole
<1> QED BY <1>2, <1>3, <1>4, <1>5, <1>7, <1>8

-----------------------------------------------------------------------------
(* The invariant, one action at a time. *)

LEMMA Numbers ==
    ASSUME RingInv
    PROVE  /\ TypeOK /\ Size \in Nat /\ Size > 0 /\ MaxPackets \in Nat
           /\ Done \in Nat /\ announced \in Nat /\ written \in Nat
           /\ Done <= announced /\ announced <= written /\ Done <= written
           /\ cursor \in 0..(Size - 1) /\ rptr \in 0..Size /\ offset \in 0..Size
           /\ drafted \in 0..Size /\ bound \in 0..Size /\ target \in 0..(Size - 1)
<1>1. TypeOK /\ executed \in Seq(0..MaxPackets)
  BY DEF RingInv, TypeOK
<1>2. Done \in Nat
  BY <1>1 DEF Done
<1> QED BY <1>1, <1>2, RingAssumption DEF RingInv, TypeOK

\* What both layouts say of places in the ring.
LEMMA OneLapPlaces ==
    ASSUME RingInv, NEW e \in Ends(Done, written), OneLap(e)
    PROVE  /\ \A p \in Done..written: e[p] \in 0..Size /\ offset <= e[p] /\ e[p] <= cursor
           /\ offset <= cursor
<1>1. Tiled(ring, e, Done, written) /\ e[Done] = offset /\ e[written] = cursor
  BY DEF OneLap
<1>2. \A p \in Done..written: e[p] \in 0..Size /\ e[Done] <= e[p] /\ e[p] <= e[written]
  BY <1>1, Numbers, EndsOrdered
<1>3. Done \in Done..written
  BY Numbers
<1> QED BY <1>1, <1>2, <1>3

LEMMA TwoLapsPlaces ==
    ASSUME RingInv, NEW m \in Done..written, NEW e \in Ends(Done, m), NEW f \in Ends(m, written),
           TwoLaps(e, f, m)
    PROVE  /\ m \in Nat /\ Done <= m /\ m <= written
           /\ \A p \in Done..m: e[p] \in 0..Size /\ offset <= e[p] /\ e[p] <= e[m]
           /\ \A p \in m..written: f[p] \in 0..Size /\ f[p] <= cursor
           /\ cursor < rptr /\ rptr <= offset
<1>0. m \in Nat /\ Done <= m /\ m <= written
  BY Numbers
<1>1. /\ Tiled(ring, e, Done, m) /\ e[Done] = offset
      /\ Tiled(ring, f, m, written) /\ f[written] = cursor
      /\ cursor < rptr /\ rptr <= offset
  BY DEF TwoLaps
<1>2. \A p \in Done..m: e[p] \in 0..Size /\ e[Done] <= e[p] /\ e[p] <= e[m]
  BY <1>0, <1>1, Numbers, EndsOrdered
<1>3. \A p \in m..written: f[p] \in 0..Size /\ f[p] <= f[written]
  BY <1>0, <1>1, Numbers, EndsOrdered
<1> QED BY <1>0, <1>1, <1>2, <1>3

LEMMA SetRptrLayout ==
    ASSUME RingInv, SetRptrWriteBackAddr
    PROVE  Layout'
BY DEF RingInv, SetRptrWriteBackAddr, Layout, OneLap, TwoLaps, DraftEndsBefore, Done, driver, scan

LEMMA DoorbellLayout ==
    ASSUME RingInv, Doorbell
    PROVE  Layout'
<1>0. /\ UNCHANGED <<ring, rptr, pump, executed, cursor, drafted, written, target, bound,
                    wrapPending, offset>>
      /\ wptr' = cursor /\ announced' = written /\ Done' = Done
  BY DEF Doorbell, Done, scan
<1>1. ASSUME NEW e \in Ends(Done, written), OneLap(e) PROVE OneLap(e)'
  <2>1. \A k \in Done..announced: k \in Done..announced'
    BY <1>0, Numbers
  <2> QED BY <1>0, <1>1, <2>1 DEF OneLap, DraftEndsBefore
<1>2. ASSUME NEW m \in Done..written, NEW e \in Ends(Done, m), NEW f \in Ends(m, written),
             TwoLaps(e, f, m)
      PROVE  TwoLaps(e, f, m)'
  <2>1. announced' >= m /\ wptr' = f[announced'] /\ announced <= announced'
    BY <1>0, <1>2, Numbers DEF TwoLaps
  <2>2. \A k \in Done..m: k <= announced => k <= announced'
    BY <2>1, <1>0, Numbers
  <2>3. \A k \in m..announced: k \in m..announced'
    BY <2>1, <1>0, Numbers
  <2> QED BY <1>0, <1>2, <2>1, <2>2, <2>3 DEF TwoLaps, DraftEndsBefore
<1> QED BY <1>0, <1>1, <1>2 DEF RingInv, Layout

LEMMA SkipTailLayout ==
    ASSUME RingInv, NEW l \in Lengths, NEW x \in Fillings, SkipTail(l, x)
    PROVE  Layout'
<1>0. /\ UNCHANGED <<wptr, rptr, pump, executed, drafted, written, announced, target, bound,
                    wrapPending, offset>>
      /\ drafted = 0 /\ cursor' = 0 /\ Done' = Done
      /\ l > Rest /\ Rest + l <= Free /\ l \in Nat
  BY RingAssumption DEF SkipTail, Done, scan
<1>1. rptr # 0 /\ rptr <= cursor
  <2>1. Free = rptr - cursor - 1 \/ (rptr <= cursor /\ Free = Size + rptr - cursor - 1)
    BY FreeSpace, Numbers
  <2> QED BY <1>0, <2>1, Numbers DEF Rest
<1>2. ASSUME NEW e \in Ends(Done, written), OneLap(e) PROVE Layout'
  <2>0. PICK w \in Nat: w = written
    BY Numbers
  <2> DEFINE f == [p \in w..w |-> 0]
  <2>1. f \in Ends(w, w) /\ f[w] = 0
    BY Numbers DEF Ends
  <2>2. Tiled(ring', f, w, w)
    BY Numbers DEF Tiled
  <2> HIDE DEF f
  <2>3. Tiled(ring', e, Done, w)
    <3>1. \A i \in e[Done]..(e[written] - 1): ring'[i] = ring[i]
      BY <1>2, OneLapPlaces, Numbers DEF SkipTail, OneLap
    <3> QED BY <1>2, <2>0, <3>1, TiledKept, Numbers DEF OneLap
  <2>4. \A i \in e[w]..(Size - 1): ring'[i] \in {Zero, Filler}
    BY <1>2, <2>0, Numbers DEF SkipTail, OneLap
  <2>5. /\ e[Done] = offset /\ e[w] = cursor /\ wptr = e[announced] /\ announced <= w
        /\ pump # "wrapped" /\ rptr <= offset
        /\ pump # "sleep" => bound = target /\ \E k \in Done..announced: target = e[k]
        /\ pump = "tail" => ~wrapPending
    BY <1>1, <1>2, <2>0, Numbers DEF OneLap
  <2>6. \A k \in Done..announced: k \in Done..w /\ k <= announced
    BY <2>0, Numbers
  <2>7. DraftEndsBefore(rptr)'
    BY <1>0 DEF DraftEndsBefore
  <2>8. pump = "tail" => /\ ~wrapPending /\ bound = target
                         /\ \E k \in Done..w: k <= announced /\ target = e[k]
    BY <2>5, <2>6
  <2>9. 0 < rptr
    BY <1>1, Numbers
  <2>10. TwoLaps(e, f, w)'
    BY <1>0, <2>0, <2>1, <2>2, <2>3, <2>4, <2>5, <2>7, <2>8, <2>9 DEF TwoLaps
  <2>11. w \in Done'..written' /\ e \in Ends(Done', w) /\ f \in Ends(w, written')
    BY <1>0, <1>2, <2>0, <2>1, Numbers
  <2> QED BY <2>10, <2>11 DEF Layout
<1>3. ASSUME NEW m \in Done..written, NEW e \in Ends(Done, m), NEW f \in Ends(m, written),
             TwoLaps(e, f, m)
      PROVE  FALSE
  BY <1>1, <1>3, Numbers DEF TwoLaps
<1> QED BY <1>2, <1>3 DEF RingInv, Layout

LEMMA WriteHeaderLayout ==
    ASSUME RingInv, NEW l \in Lengths, WriteHeader(l)
    PROVE  Layout'
<1>0. /\ UNCHANGED <<wptr, rptr, pump, executed, cursor, written, announced, target, bound,
                    wrapPending, offset>>
      /\ drafted' = l /\ Done' = Done /\ written < MaxPackets
      /\ l <= Rest /\ l <= Free /\ l \in Nat
  BY RingAssumption DEF WriteHeader, Done, scan
<1>1. ring' = [ring EXCEPT ![cursor] = Header(written + 1, l)]
      /\ ring \in [0..(Size - 1) -> Cells] /\ cursor \in 0..(Size - 1)
  BY Numbers DEF WriteHeader, TypeOK
<1>2. ASSUME NEW e \in Ends(Done, written), OneLap(e) PROVE OneLap(e)'
  <2>1. Tiled(ring', e, Done, written)
    <3>1. \A i \in e[Done]..(e[written] - 1): ring'[i] = ring[i]
      BY <1>1, <1>2, OneLapPlaces, Numbers DEF OneLap
    <3> QED BY <1>2, <3>1, TiledKept, Numbers DEF OneLap
  <2>2. CASE pump # "wrapped" /\ rptr <= offset
    <3>1. rptr <= cursor
      BY <1>2, <2>2, OneLapPlaces, Numbers
    <3>2. cursor + l < IF rptr = 0 THEN Size ELSE Size + 1
      BY <1>0, <3>1, FreeSpace, Numbers DEF Rest
    <3>3. DraftEndsBefore(IF rptr = 0 THEN Size ELSE Size + 1)'
      BY <1>0, <1>1, <3>2 DEF DraftEndsBefore
    <3> QED BY <1>0, <1>2, <2>1, <2>2, <3>3 DEF OneLap
  <2>3. CASE pump = "wrapped" /\ cursor < rptr
    <3>1. cursor + l < rptr
      BY <1>0, <2>3, FreeSpace, Numbers
    <3>2. DraftEndsBefore(rptr)'
      BY <1>0, <1>1, <3>1 DEF DraftEndsBefore
    <3> QED BY <1>0, <1>2, <2>1, <2>3, <3>2 DEF OneLap
  <2> QED BY <1>2, <2>2, <2>3 DEF OneLap
<1>3. ASSUME NEW m \in Done..written, NEW e \in Ends(Done, m), NEW f \in Ends(m, written),
             TwoLaps(e, f, m)
      PROVE  TwoLaps(e, f, m)'
  <2>1. /\ Tiled(ring, e, Done, m) /\ e[Done] = offset /\ f[m] = 0 /\ f[written] = cursor
        /\ Tiled(ring, f, m, written)
        /\ \A i \in e[m]..(Size - 1): ring[i] \in {Zero, Filler}
    BY <1>3 DEF TwoLaps
  <2>2. m \in Nat /\ Done <= m /\ m <= written /\ cursor < offset /\ cursor < rptr
        /\ e[m] \in 0..Size /\ offset <= e[m]
    <3>1. m \in Done..m
      BY Numbers
    <3> QED BY <1>3, <3>1, TwoLapsPlaces, Numbers
  <2>3. Tiled(ring', e, Done, m)
    <3>1. \A i \in e[Done]..(e[m] - 1): ring'[i] = ring[i]
      BY <1>1, <2>1, <2>2, Numbers
    <3> QED BY <2>1, <2>2, <3>1, TiledKept, Numbers
  <2>4. Tiled(ring', f, m, written)
    <3>1. \A i \in f[m]..(f[written] - 1): ring'[i] = ring[i]
      BY <1>1, <2>1, <2>2, Numbers
    <3> QED BY <2>1, <2>2, <3>1, TiledKept, Numbers
  <2>5. \A i \in e[m]..(Size - 1): ring'[i] \in {Zero, Filler}
    BY <1>1, <2>1, <2>2, Numbers
  <2>6. cursor + l < rptr
    BY <1>0, <2>2, FreeSpace, Numbers
  <2>7. DraftEndsBefore(rptr)'
    BY <1>0, <1>1, <2>6 DEF DraftEndsBefore
  <2> QED BY <1>0, <1>3, <2>3, <2>4, <2>5, <2>7 DEF TwoLaps
<1> QED BY <1>0, <1>2, <1>3 DEF RingInv, Layout

\* The driver completes a packet: the last tiling grows by one.
LEMMA WritePayloadLayout ==
    ASSUME RingInv, WritePayload
    PROVE  Layout'
<1>0. /\ UNCHANGED <<wptr, rptr, pump, executed, announced, target, bound, wrapPending, offset>>
      /\ drafted # 0 /\ drafted' = 0 /\ Done' = Done /\ written' = written + 1
      /\ cursor' = (cursor + drafted) % Size
  BY DEF WritePayload, Done, scan
<1>1. /\ ring[cursor] = Header(written + 1, drafted) /\ cursor + drafted <= Size
      /\ drafted > 0 /\ drafted \in 1..Size /\ cursor + drafted \in 0..Size
  BY <1>0, Draft, Numbers
<1>2. /\ \A i \in 0..(Size - 1): i <= cursor \/ i >= cursor + drafted => ring'[i] = ring[i]
      /\ \A i \in (cursor + 1)..(cursor + drafted - 1): ring'[i] = Payload(written + 1)
      /\ ring'[cursor] = Header(written + 1, drafted)
  <2>1. ring' = [i \in 0..(Size - 1) |->
                   IF i \in (cursor + 1)..(cursor + drafted - 1)
                   THEN Payload(written + 1) ELSE ring[i]]
    BY DEF WritePayload
  <2>2. \A i \in 0..(Size - 1): i <= cursor \/ i >= cursor + drafted => ring'[i] = ring[i]
    BY <2>1, Numbers
  <2>3. \A i \in (cursor + 1)..(cursor + drafted - 1): ring'[i] = Payload(written + 1)
    <3>1. \A i \in (cursor + 1)..(cursor + drafted - 1): i \in 0..(Size - 1)
      BY <1>1, Numbers
    <3> QED BY <2>1, <3>1
  <2> QED BY <1>1, <2>2, <2>3, Numbers
<1>3. DraftEndsBefore(IF rptr = 0 THEN Size ELSE Size + 1)' /\ DraftEndsBefore(rptr)'
  BY <1>0 DEF DraftEndsBefore
<1>4. cursor + drafted < Size => cursor' = cursor + drafted
  BY <1>0, <1>1, Modulo, Numbers
<1>5. cursor + drafted = Size => cursor' = 0
  BY <1>0, Modulo
<1>6. PICK w \in Nat: w = written
  BY Numbers
<1>7. ASSUME NEW e \in Ends(Done, written), OneLap(e) PROVE Layout'
  <2>0. /\ Tiled(ring, e, Done, written) /\ e[Done] = offset /\ e[written] = cursor
        /\ wptr = e[announced]
        /\ pump # "sleep" => bound = target /\ \E k \in Done..announced: target = e[k]
        /\ pump = "tail" => ~wrapPending
    BY <1>7 DEF OneLap
  <2>1. Tiled(ring', e, Done, written)
    <3>1. \A i \in e[Done]..(e[written] - 1): ring'[i] = ring[i]
      BY <1>2, <1>7, <2>0, OneLapPlaces, Numbers
    <3> QED BY <1>7, <2>0, <3>1, TiledKept, Numbers
  <2>2. PICK d \in Ends(Done, written + 1):
           /\ Tiled(ring', d, Done, written + 1)
           /\ \A p \in Done..written: d[p] = e[p]
           /\ d[written + 1] = cursor + drafted
    <3>1. /\ Done \in Nat /\ written \in Nat /\ Done <= written
          /\ cursor \in 0..Size /\ drafted \in 1..Size /\ cursor + drafted <= Size
          /\ e[written] = cursor /\ ring'[cursor] = Header(written + 1, drafted)
      BY <1>1, <1>2, <2>0, Numbers
    <3>2. \A i \in (cursor + 1)..(cursor + drafted - 1): ring'[i] = Payload(written + 1)
      BY <1>2
    <3> QED BY <1>7, <2>1, <3>1, <3>2, TiledMore
  <2>3. /\ d[Done] = offset /\ wptr = d[announced]
        /\ pump # "sleep" => bound = target /\ \E k \in Done..announced: target = d[k]
    <3>1. Done \in Done..written /\ announced \in Done..written
          /\ \A k \in Done..announced: k \in Done..written
      BY Numbers
    <3> QED BY <2>0, <2>2, <3>1
  <2>4. CASE cursor + drafted < Size
    <3>1. \/ pump # "wrapped" /\ rptr <= offset
          \/ pump = "wrapped" /\ cursor' < rptr
      BY <1>0, <1>4, <1>7, <2>4 DEF OneLap, DraftEndsBefore
    <3>2. OneLap(d)'
      BY <1>0, <1>3, <1>4, <2>0, <2>2, <2>3, <2>4, <3>1 DEF OneLap
    <3> QED BY <1>0, <2>2, <3>2 DEF Layout
  <2>5. CASE cursor + drafted = Size
    <3>1. pump # "wrapped" /\ rptr <= offset /\ 0 < rptr
      BY <1>0, <1>7, <2>5, Numbers DEF OneLap, DraftEndsBefore
    <3> DEFINE f == [p \in (w + 1)..(w + 1) |-> 0]
    <3>2. f \in Ends(w + 1, w + 1) /\ f[w + 1] = 0
      BY Numbers DEF Ends
    <3>3. Tiled(ring', f, w + 1, w + 1)
      BY DEF Tiled
    <3> HIDE DEF f
    <3>4. \A i \in d[w + 1]..(Size - 1): ring'[i] \in {Zero, Filler}
      BY <1>6, <2>2, <2>5, Numbers
    <3>5. pump = "tail" => /\ ~wrapPending /\ bound = target
                           /\ \E k \in Done..(w + 1): k <= announced /\ target = d[k]
      <4>1. \A k \in Done..announced: k \in Done..(w + 1) /\ k <= announced
        BY <1>6, Numbers
      <4> QED BY <2>0, <2>3, <4>1
    <3>6. announced <= w + 1
      BY <1>6, Numbers
    <3>7. TwoLaps(d, f, w + 1)'
      BY <1>0, <1>3, <1>5, <1>6, <2>2, <2>3, <2>5, <3>1, <3>2, <3>3, <3>4, <3>5, <3>6
         DEF TwoLaps
    <3>8. w + 1 \in Done'..written' /\ d \in Ends(Done', w + 1) /\ f \in Ends(w + 1, written')
      BY <1>0, <1>6, <2>2, <3>2, Numbers
    <3> QED BY <3>7, <3>8 DEF Layout
  <2> QED BY <1>1, <2>4, <2>5, Numbers
<1>8. ASSUME NEW m \in Done..written, NEW e \in Ends(Done, m), NEW f \in Ends(m, written),
             TwoLaps(e, f, m)
      PROVE  Layout'
  <2>0. /\ Tiled(ring, e, Done, m) /\ e[Done] = offset /\ f[m] = 0 /\ f[written] = cursor
        /\ Tiled(ring, f, m, written)
        /\ \A i \in e[m]..(Size - 1): ring[i] \in {Zero, Filler}
        /\ rptr <= offset /\ cursor + drafted < rptr /\ pump # "wrapped"
    BY <1>0, <1>8 DEF TwoLaps, DraftEndsBefore
  <2>1. m \in Nat /\ Done <= m /\ m <= written /\ e[m] \in 0..Size /\ offset <= e[m]
    <3>1. m \in Done..m
      BY Numbers
    <3> QED BY <1>8, <3>1, TwoLapsPlaces, Numbers
  <2>2. Tiled(ring', e, Done, m)
    <3>1. \A i \in e[Done]..(e[m] - 1): ring'[i] = ring[i]
      BY <1>1, <1>2, <2>0, <2>1, Numbers
    <3> QED BY <2>0, <2>1, <3>1, TiledKept, Numbers
  <2>3. \A i \in e[m]..(Size - 1): ring'[i] \in {Zero, Filler}
    BY <1>1, <1>2, <2>0, <2>1, Numbers
  <2>4. Tiled(ring', f, m, written)
    <3>1. \A i \in f[m]..(f[written] - 1): ring'[i] = ring[i]
      BY <1>2, <2>0, Numbers
    <3> QED BY <2>0, <2>1, <3>1, TiledKept, Numbers
  <2>5. PICK g \in Ends(m, written + 1):
           /\ Tiled(ring', g, m, written + 1)
           /\ \A p \in m..written: g[p] = f[p]
           /\ g[written + 1] = cursor + drafted
    <3>1. /\ m \in Nat /\ written \in Nat /\ m <= written
          /\ cursor \in 0..Size /\ drafted \in 1..Size /\ cursor + drafted <= Size
          /\ f[written] = cursor /\ ring'[cursor] = Header(written + 1, drafted)
      BY <1>1, <1>2, <2>0, <2>1, Numbers
    <3>2. \A i \in (cursor + 1)..(cursor + drafted - 1): ring'[i] = Payload(written + 1)
      BY <1>2
    <3> QED BY <1>8, <2>4, <3>1, <3>2, TiledMore
  <2>6. cursor' = cursor + drafted
    BY <1>4, <2>0, Numbers
  <2>7. g[m] = 0 /\ \A k \in m..announced: g[k] = f[k]
    <3>1. m \in m..written /\ \A k \in m..announced: k \in m..written
      BY <2>1, Numbers
    <3> QED BY <2>0, <2>5, <3>1
  <2>8. announced >= m => g[announced] = f[announced]
    BY <2>1, <2>7, Numbers
  <2>9. /\ \/ announced <= m /\ wptr = e[announced]
           \/ announced >= m /\ wptr = g[announced]
        /\ pump = "tail" =>
             \/ /\ ~wrapPending /\ bound = target
                /\ \E k \in Done..m: k <= announced /\ target = e[k]
             \/ /\ wrapPending /\ bound = Size
                /\ announced >= m /\ wptr = g[announced]
                /\ \E k \in m..announced: target = g[k]
    BY <1>8, <2>7, <2>8 DEF TwoLaps
  <2>10. TwoLaps(e, g, m)'
    BY <1>0, <1>3, <2>0, <2>2, <2>3, <2>5, <2>6, <2>7, <2>9 DEF TwoLaps
  <2>11. m \in Done'..written' /\ e \in Ends(Done', m) /\ g \in Ends(m, written')
    BY <1>0, <2>1, <2>5, Numbers
  <2> QED BY <2>10, <2>11 DEF Layout
<1> QED BY <1>7, <1>8 DEF RingInv, Layout

\* The pump samples the write pointer.
LEMMA ObserveLayout ==
    ASSUME RingInv, ObserveWritePointer
    PROVE  Layout'
<1>0. /\ UNCHANGED <<ring, wptr, rptr, executed, cursor, drafted, written, announced, offset>>
      /\ pump = "sleep" /\ pump' = "tail" /\ target' = wptr /\ Done' = Done /\ offset = parsed
      /\ bound' = IF wptr < parsed THEN Size ELSE wptr
  BY DEF ObserveWritePointer, Done, driver, RingInv
<1>1. wrapPending' <=> wptr < parsed
  <2>1. wrapPending' = (wptr < parsed)
    BY DEF ObserveWritePointer
  <2> QED BY <2>1, Zenon
<1>2. announced \in Done..announced /\ announced \in Done..written
  BY Numbers
<1>3. ASSUME NEW e \in Ends(Done, written), OneLap(e) PROVE OneLap(e)'
  <2>1. ~(wptr < parsed)
    BY <1>0, <1>2, <1>3, OneLapPlaces, Numbers DEF OneLap
  <2>2. bound' = wptr /\ ~wrapPending'
    BY <1>0, <1>1, <2>1
  <2>3. wptr = e[announced]
    BY <1>3 DEF OneLap
  <2> QED BY <1>0, <1>2, <1>3, <2>2, <2>3 DEF OneLap, DraftEndsBefore
<1>4. ASSUME NEW m \in Done..written, NEW e \in Ends(Done, m), NEW f \in Ends(m, written),
             TwoLaps(e, f, m)
      PROVE  TwoLaps(e, f, m)'
  <2>0. m \in Nat /\ Done <= m /\ m <= written
    BY <1>4, TwoLapsPlaces
  <2>1. CASE announced <= m /\ wptr = e[announced]
    <3>1. announced \in Done..m
      BY <2>0, <2>1, Numbers
    <3>2. ~(wptr < parsed)
      BY <1>0, <1>4, <2>1, <3>1, TwoLapsPlaces, Numbers
    <3>3. bound' = wptr /\ ~wrapPending'
      BY <1>0, <1>1, <3>2
    <3>4. \E k \in Done..m: k <= announced /\ wptr = e[k]
      BY <2>1, <3>1, Numbers
    <3> QED BY <1>0, <1>4, <2>1, <3>3, <3>4 DEF TwoLaps, DraftEndsBefore
  <2>2. CASE announced >= m /\ wptr = f[announced]
    <3>1. announced \in m..written /\ announced \in m..announced
      BY <2>0, <2>2, Numbers
    <3>2. wptr < parsed
      BY <1>0, <1>4, <2>2, <3>1, TwoLapsPlaces, Numbers
    <3>3. bound' = Size /\ wrapPending'
      BY <1>0, <1>1, <3>2
    <3>4. \E k \in m..announced: wptr = f[k]
      BY <2>2, <3>1
    <3> QED BY <1>0, <1>4, <2>2, <3>3, <3>4 DEF TwoLaps, DraftEndsBefore
  <2> QED BY <1>4, <2>1, <2>2 DEF TwoLaps
<1> QED BY <1>0, <1>3, <1>4 DEF RingInv, Layout

\* The pump passes a filler: only at the end of the ring, a lap behind the driver.
LEMMA SkipFillerLayout ==
    ASSUME RingInv, SkipFiller
    PROVE  Layout'
<1>0. /\ UNCHANGED <<ring, wptr, rptr, pump, executed, cursor, drafted, written, announced,
                    target, bound, wrapPending>>
      /\ pump \in {"tail", "wrapped"} /\ offset < bound /\ There.kind = "filler"
      /\ offset' = offset + 1 /\ Done' = Done
  BY DEF SkipFiller, Scanning, Decodable, Done, driver
<1>1. ASSUME NEW b \in Nat, Done < b, NEW e \in Ends(Done, b), Tiled(ring, e, Done, b),
             e[Done] = offset
      PROVE  FALSE
  BY <1>0, <1>1, FirstPacket, Numbers
<1>2. ASSUME NEW e \in Ends(Done, written), OneLap(e) PROVE FALSE
  <2>1. PICK k \in Done..announced: bound = e[k]
    BY <1>0, <1>2 DEF OneLap
  <2>2. k # Done
    BY <1>0, <1>2, <2>1, Numbers DEF OneLap
  <2>3. Done < written
    BY <2>2, Numbers
  <2> QED BY <1>1, <1>2, <2>3, Numbers DEF OneLap
<1>3. ASSUME NEW m \in Done..written, NEW e \in Ends(Done, m), NEW f \in Ends(m, written),
             TwoLaps(e, f, m)
      PROVE  Layout'
  <2>0. /\ Tiled(ring, e, Done, m) /\ e[Done] = offset
        /\ \A i \in e[m]..(Size - 1): ring[i] \in {Zero, Filler}
        /\ Tiled(ring, f, m, written) /\ f[m] = 0 /\ f[written] = cursor
        /\ cursor < rptr /\ rptr <= offset /\ DraftEndsBefore(rptr) /\ pump = "tail"
    BY <1>0, <1>3 DEF TwoLaps
  <2>1. m = Done
    BY <1>1, <1>3, <2>0, Numbers
  <2>2. /\ wrapPending /\ bound = Size /\ announced >= m /\ wptr = f[announced]
        /\ \E k \in m..announced: target = f[k]
    <3>1. \A k \in Done..m: e[k] = offset
      BY <2>0, <2>1, Numbers
    <3>2. ~(bound = target /\ \E k \in Done..m: target = e[k])
      BY <1>0, <3>1, Numbers
    <3> QED BY <1>3, <2>0, <3>2 DEF TwoLaps
  <2>2a. PICK o \in 0..Size: o = offset + 1
    BY <1>0, Numbers
  <2> DEFINE d == [p \in m..m |-> o]
  <2>3. d \in Ends(m, m) /\ d[m] = offset + 1
    BY <2>1, <2>2a, Numbers DEF Ends
  <2>4. Tiled(ring', d, m, m)
    BY <2>1, Numbers DEF Tiled
  <2> HIDE DEF d
  <2>5. \A i \in d[m]..(Size - 1): ring'[i] \in {Zero, Filler}
    BY <1>0, <2>0, <2>1, <2>3, Numbers
  <2>6. DraftEndsBefore(rptr)' /\ rptr <= offset + 1
    BY <1>0, <2>0, Numbers DEF DraftEndsBefore
  <2>7. TwoLaps(d, f, m)'
    BY <1>0, <2>0, <2>1, <2>2, <2>3, <2>4, <2>5, <2>6 DEF TwoLaps
  <2>8. m \in Done'..written' /\ d \in Ends(Done', m) /\ f \in Ends(m, written')
    BY <1>0, <1>3, <2>1, <2>3, Numbers
  <2> QED BY <2>7, <2>8 DEF Layout
<1> QED BY <1>2, <1>3 DEF RingInv, Layout

\* What the pump executes is the next packet, whole, and it was announced.
LEMMA ExecutesNext ==
    ASSUME RingInv, ExecutePacket
    PROVE  /\ Done < announced /\ Layout'
           /\ executed' = Append(executed, Done + 1)
<1>0. /\ UNCHANGED <<ring, wptr, rptr, pump, cursor, drafted, written, announced,
                    target, bound, wrapPending>>
      /\ pump \in {"tail", "wrapped"} /\ offset < bound
      /\ There.kind # "filler" /\ There.kind # "zero"
      /\ offset' = IF There.kind = "header" THEN offset + There.len ELSE offset + 1
      /\ executed' = Append(executed, IF There.kind = "header" /\ Whole(offset)
                                      THEN There.id ELSE 0)
  BY DEF ExecutePacket, Scanning, Decodable, driver
<1>1. PICK n \in Nat: n = Done
  BY Numbers
<1>2. executed \in Seq(0..MaxPackets)
  BY Numbers DEF TypeOK
<1>3. ASSUME NEW b \in Nat, Done < b, NEW e \in Ends(Done, b), Tiled(ring, e, Done, b),
             e[Done] = offset
      PROVE  /\ offset' = e[n + 1] /\ offset < offset'
             /\ executed' = Append(executed, Done + 1) /\ Done' = n + 1
             /\ \E d \in Ends(n + 1, b):
                   Tiled(ring', d, n + 1, b) /\ \A p \in (n + 1)..b: d[p] = e[p]
  <2>1. /\ offset < e[n + 1] /\ There.kind = "header" /\ There.id = n + 1
        /\ offset + There.len = e[n + 1] /\ Whole(offset)
    BY <1>1, <1>3, FirstPacket, Numbers
  <2>2. offset' = e[n + 1] /\ executed' = Append(executed, Done + 1)
    BY <1>0, <1>1, <2>1
  <2>3. Done' = n + 1
    BY <1>1, <1>2, <2>2, Numbers DEF Done
  <2>4. \E d \in Ends(n + 1, b):
           Tiled(ring, d, n + 1, b) /\ \A p \in (n + 1)..b: d[p] = e[p]
    BY <1>1, <1>3, TiledLess
  <2> QED BY <1>0, <2>1, <2>2, <2>3, <2>4
<1>4. ASSUME NEW e \in Ends(Done, written), OneLap(e)
      PROVE  Done < announced /\ Layout' /\ executed' = Append(executed, Done + 1)
  <2>0. /\ Tiled(ring, e, Done, written) /\ e[Done] = offset /\ e[written] = cursor
        /\ wptr = e[announced] /\ bound = target
        /\ pump = "tail" => ~wrapPending
    BY <1>0, <1>4 DEF OneLap
  <2>1. PICK k \in Done..announced: bound = e[k]
    BY <1>0, <1>4 DEF OneLap
  <2>2. k # Done
    BY <1>0, <2>0, <2>1, Numbers
  <2>3. Done < announced /\ Done < written /\ k \in (n + 1)..announced /\ k \in (n + 1)..written
        /\ announced \in (n + 1)..written /\ written \in (n + 1)..written
        /\ n + 1 \in (n + 1)..written
    BY <1>1, <2>2, Numbers
  <2>4. PICK d \in Ends(n + 1, written):
           Tiled(ring', d, n + 1, written) /\ \A p \in (n + 1)..written: d[p] = e[p]
    BY <1>3, <1>4, <2>0, <2>3, Numbers
  <2>5. offset' = e[n + 1] /\ offset < offset' /\ Done' = n + 1
        /\ executed' = Append(executed, Done + 1)
    BY <1>3, <1>4, <2>0, <2>3, Numbers
  <2>6. /\ d[n + 1] = offset' /\ d[written] = cursor /\ wptr = d[announced] /\ target = d[k]
    BY <2>0, <2>1, <2>3, <2>4, <2>5
  <2>7. e[n + 1] \in 0..Size
    BY <1>1, <1>4, <2>3, OneLapPlaces, Numbers
  <2>8. \/ /\ pump # "wrapped" /\ rptr <= offset'
           /\ DraftEndsBefore(IF rptr = 0 THEN Size ELSE Size + 1)'
        \/ /\ pump = "wrapped" /\ cursor < rptr
           /\ DraftEndsBefore(rptr)'
    <3>1. rptr <= offset => rptr <= offset'
      BY <2>5, <2>7, Numbers
    <3> QED BY <1>0, <1>4, <3>1 DEF OneLap, DraftEndsBefore
  <2>9. OneLap(d)'
    BY <1>0, <2>0, <2>3, <2>4, <2>5, <2>6, <2>8 DEF OneLap
  <2> QED BY <1>0, <2>3, <2>4, <2>5, <2>9 DEF Layout
<1>5. ASSUME NEW m \in Done..written, NEW e \in Ends(Done, m), NEW f \in Ends(m, written),
             TwoLaps(e, f, m)
      PROVE  Done < announced /\ Layout' /\ executed' = Append(executed, Done + 1)
  <2>0. /\ Tiled(ring, e, Done, m) /\ e[Done] = offset
        /\ \A i \in e[m]..(Size - 1): ring[i] \in {Zero, Filler}
        /\ Tiled(ring, f, m, written) /\ f[m] = 0 /\ f[written] = cursor
        /\ cursor < rptr /\ rptr <= offset /\ DraftEndsBefore(rptr) /\ pump = "tail"
    BY <1>0, <1>5 DEF TwoLaps
  <2>1. Done < m
    <3>1. SUFFICES ASSUME m = Done PROVE FALSE
      BY Numbers
    <3>2. ring[offset] \in {Zero, Filler}
      BY <1>0, <2>0, <3>1, Numbers
    <3> QED BY <1>0, <3>2 DEF There, Zero, Filler
  <2>2. m \in Nat /\ m <= written /\ m \in (n + 1)..m /\ n + 1 \in (n + 1)..m /\ n + 1 \in Done..m
    BY <1>1, <2>1, Numbers
  <2>3. PICK d \in Ends(n + 1, m):
           Tiled(ring', d, n + 1, m) /\ \A p \in (n + 1)..m: d[p] = e[p]
    BY <1>3, <1>5, <2>0, <2>1, <2>2
  <2>4. offset' = e[n + 1] /\ offset < offset' /\ Done' = n + 1
        /\ executed' = Append(executed, Done + 1)
    BY <1>3, <1>5, <2>0, <2>1, <2>2
  <2>5. e[n + 1] \in 0..Size /\ rptr <= offset'
    BY <1>5, <2>0, <2>2, <2>4, TwoLapsPlaces, Numbers
  <2>6. d[n + 1] = offset' /\ d[m] = e[m]
    BY <2>2, <2>3, <2>4
  <2>7. \/ /\ ~wrapPending /\ bound = target
           /\ \E k \in (n + 1)..m: k <= announced /\ target = d[k]
        \/ /\ wrapPending /\ bound = Size
           /\ announced >= m /\ wptr = f[announced]
           /\ \E k \in m..announced: target = f[k]
    <3>1. CASE /\ ~wrapPending /\ bound = target
               /\ \E k \in Done..m: k <= announced /\ target = e[k]
      <4>1. PICK k \in Done..m: k <= announced /\ target = e[k]
        BY <3>1
      <4>2. k # Done
        BY <1>0, <2>0, <3>1, <4>1, Numbers
      <4>3. k \in (n + 1)..m
        BY <1>1, <2>2, <4>2, Numbers
      <4> QED BY <2>3, <3>1, <4>1, <4>3
    <3> QED BY <1>5, <2>0, <3>1 DEF TwoLaps
  <2>8. Done < announced
    BY <1>1, <2>1, <2>2, <2>7, Numbers
  <2>9. \/ announced <= m /\ wptr = d[announced]
        \/ announced >= m /\ wptr = f[announced]
    <3>1. announced <= m => announced \in (n + 1)..m
      BY <1>1, <2>2, <2>8, Numbers
    <3> QED BY <1>5, <2>3, <3>1 DEF TwoLaps
  <2>10. DraftEndsBefore(rptr)'
    BY <1>0, <2>0 DEF DraftEndsBefore
  <2>11. TwoLaps(d, f, m)'
    BY <1>0, <2>0, <2>3, <2>4, <2>5, <2>6, <2>7, <2>9, <2>10 DEF TwoLaps
  <2>12. m \in Done'..written' /\ d \in Ends(Done', m) /\ f \in Ends(m, written')
    BY <1>0, <1>5, <2>2, <2>3, <2>4, Numbers
  <2> QED BY <2>4, <2>8, <2>11, <2>12 DEF Layout
<1> QED BY <1>4, <1>5 DEF RingInv, Layout

\* The pump goes on at the start of the ring: it is in the driver's lap again.
LEMMA FollowWrapLayout ==
    ASSUME RingInv, FollowWrap
    PROVE  Layout'
<1>0. /\ UNCHANGED <<ring, wptr, rptr, executed, cursor, drafted, written, announced,
                    target, wrapPending>>
      /\ pump = "tail" /\ wrapPending /\ ~Decodable
      /\ pump' = "wrapped" /\ offset' = 0 /\ bound' = target /\ Done' = Done
  BY DEF FollowWrap, ScanOver, TailExhausted, Done, driver
<1>1. ASSUME NEW e \in Ends(Done, written), OneLap(e) PROVE FALSE
  BY <1>0, <1>1 DEF OneLap
<1>2. ASSUME NEW m \in Done..written, NEW e \in Ends(Done, m), NEW f \in Ends(m, written),
             TwoLaps(e, f, m)
      PROVE  Layout'
  <2>0. /\ Tiled(ring, e, Done, m) /\ e[Done] = offset
        /\ Tiled(ring, f, m, written) /\ f[m] = 0 /\ f[written] = cursor
        /\ cursor < rptr /\ DraftEndsBefore(rptr)
        /\ bound = Size /\ announced >= m /\ wptr = f[announced]
        /\ \E k \in m..announced: target = f[k]
    BY <1>0, <1>2 DEF TwoLaps
  <2>1. m = Done
    <3>1. SUFFICES ASSUME Done < m PROVE FALSE
      BY Numbers
    <3>2. /\ offset < e[Done + 1] /\ e[Done + 1] \in 0..Size /\ There.kind = "header"
          /\ offset + There.len = e[Done + 1]
      BY <1>2, <2>0, <3>1, FirstPacket, Numbers
    <3>3. offset < bound /\ offset + There.len <= bound /\ There.kind # "zero"
      BY <2>0, <3>2, Numbers
    <3> QED BY <1>0, <3>3 DEF Decodable
  <2>2. DraftEndsBefore(rptr)'
    BY <1>0, <2>0 DEF DraftEndsBefore
  <2>3. OneLap(f)'
    BY <1>0, <2>0, <2>1, <2>2 DEF OneLap
  <2>4. f \in Ends(Done', written')
    BY <1>0, <1>2, <2>1
  <2> QED BY <2>3, <2>4 DEF Layout
<1> QED BY <1>1, <1>2 DEF RingInv, Layout

\* The scan ends and reports how far it came.
LEMMA ScanEndsLayout ==
    ASSUME RingInv, ScanEnds
    PROVE  Layout'
<1>0. /\ UNCHANGED <<ring, wptr, executed, cursor, drafted, written, announced,
                    target, bound, wrapPending, offset>>
      /\ pump' = "sleep" /\ Done' = Done /\ pump \in {"tail", "wrapped"}
      /\ rptr' = IF writeBack THEN offset ELSE rptr
  BY DEF ScanEnds, ScanOver, Scanning, Done, driver
<1>1. rptr' = offset \/ (rptr' = rptr /\ rptr = 0)
  BY <1>0 DEF RingInv
<1>2. ASSUME NEW e \in Ends(Done, written), OneLap(e) PROVE OneLap(e)'
  <2>1. rptr' <= offset' /\ (rptr' = 0 => rptr = 0 \/ cursor < rptr)
    BY <1>0, <1>1, <1>2, Numbers DEF OneLap
  <2>2. DraftEndsBefore(IF rptr = 0 THEN Size ELSE Size + 1)'
    BY <1>0, <1>1, <1>2, <2>1, Numbers DEF OneLap, DraftEndsBefore
  <2> QED BY <1>0, <1>2, <2>1, <2>2 DEF OneLap
<1>3. ASSUME NEW m \in Done..written, NEW e \in Ends(Done, m), NEW f \in Ends(m, written),
             TwoLaps(e, f, m)
      PROVE  TwoLaps(e, f, m)'
  <2>1. cursor < rptr /\ rptr <= offset
    BY <1>3 DEF TwoLaps
  <2>2. rptr' = offset
    BY <1>1, <2>1, Numbers
  <2>3. DraftEndsBefore(rptr)' /\ cursor < rptr' /\ rptr' <= offset
    BY <1>0, <1>3, <2>1, <2>2, Numbers DEF TwoLaps, DraftEndsBefore
  <2> QED BY <1>0, <1>3, <2>3 DEF TwoLaps
<1> QED BY <1>0, <1>2, <1>3 DEF RingInv, Layout

\* Every step keeps the invariant.
LEMMA InvStep ==
    ASSUME RingInv, [Next]_vars
    PROVE  RingInv'
<1>0. TypeOK'
  BY TypeStep
<1>1. Layout'
  <2>1. CASE UNCHANGED vars
    BY <2>1 DEF RingInv, Layout, OneLap, TwoLaps, DraftEndsBefore, Done, vars, driver, scan
  <2>2. CASE Driver
    BY <2>2, SkipTailLayout, WriteHeaderLayout, WritePayloadLayout, DoorbellLayout, SetRptrLayout
       DEF Driver
  <2>3. CASE Pump
    BY <2>3, ObserveLayout, SkipFillerLayout, ExecutesNext, FollowWrapLayout, ScanEndsLayout
       DEF Pump
  <2> QED BY <2>1, <2>2, <2>3 DEF Next
<1>2. (~writeBack => rptr = 0)'
  BY DEF RingInv, Next, Driver, Pump, SkipTail, WriteHeader, WritePayload, Doorbell,
     SetRptrWriteBackAddr, ObserveWritePointer, SkipFiller, ExecutePacket, FollowWrap, ScanEnds,
     vars
<1>3. (pump = "sleep" => offset = parsed)'
  BY DEF RingInv, Next, Driver, Pump, SkipTail, WriteHeader, WritePayload, Doorbell,
     SetRptrWriteBackAddr, ObserveWritePointer, SkipFiller, ExecutePacket, FollowWrap, ScanEnds,
     Scanning, vars, scan
<1>4. Done' <= announced'
  <2>1. CASE ExecutePacket
    <3>1. Done < announced /\ announced' = announced /\ executed' = Append(executed, Done + 1)
      BY <2>1, ExecutesNext DEF ExecutePacket, driver
    <3> QED BY <3>1, Numbers DEF Done, TypeOK
  <2>2. CASE Doorbell
    BY <2>2, Numbers DEF Doorbell, Done
  <2>3. CASE ~ExecutePacket /\ ~Doorbell
    <3>1. UNCHANGED <<executed, announced>>
      BY <2>3 DEF Next, Driver, Pump, SkipTail, WriteHeader, WritePayload,
         SetRptrWriteBackAddr, ObserveWritePointer, SkipFiller, FollowWrap, ScanEnds, vars, driver
    <3> QED BY <3>1, Numbers DEF Done
  <2> QED BY <2>1, <2>2, <2>3
<1> QED BY <1>0, <1>1, <1>2, <1>3, <1>4 DEF RingInv

LEMMA InvInit == Init => RingInv
<1> SUFFICES ASSUME Init PROVE RingInv
  OBVIOUS
<1>0. Size \in Nat /\ Size > 0 /\ MaxPackets \in Nat /\ executed \in Seq(0..MaxPackets)
      /\ Done = 0
  BY RingAssumption DEF Init, Done
<1>1. TypeOK
  <2>1. ring \in [0..(Size - 1) -> Cells]
    BY CellTypes DEF Init
  <2>2. writeBack \in BOOLEAN /\ wrapPending \in BOOLEAN
    BY DEF Init
  <2> QED BY <1>0, <2>1, <2>2 DEF Init, TypeOK
<1> DEFINE e == [p \in 0..0 |-> 0]
<1>2. e \in Ends(0, 0) /\ e[0] = 0
  BY <1>0 DEF Ends
<1>3. Tiled(ring, e, 0, 0)
  BY DEF Tiled
<1> HIDE DEF e
<1>4. OneLap(e)
  BY <1>0, <1>2, <1>3 DEF OneLap, DraftEndsBefore, Init
<1> QED BY <1>0, <1>1, <1>2, <1>4 DEF RingInv, Layout, Init

-----------------------------------------------------------------------------
(* The theorems. *)

LEMMA InvHolds == Spec => []RingInv
BY InvInit, InvStep, PTL DEF Spec

\* Type correctness: offsets stay inside the ring, in every behaviour.
THEOREM TypeCorrect == Spec => []TypeOK
<1>1. RingInv => TypeOK
  BY DEF RingInv
<1> QED BY <1>1, InvHolds, PTL

\* What was announced and not yet executed lies in the ring, whole, however the driver
\* fills it and wherever the pump is: the read pointer written back releases nothing
\* that is still to be read.
THEOREM UnreadStaysIntact == Spec => []UnreadIntact
<1>1. ASSUME RingInv PROVE UnreadIntact
  <2> SUFFICES ASSUME NEW p \in (Done + 1)..announced
               PROVE  \E o \in 0..(Size - 1):
                         ring[o].kind = "header" /\ ring[o].id = p /\ Whole(o)
    BY DEF UnreadIntact, Done
  <2>1. p \in Nat /\ p - 1 \in Nat /\ p - 1 < p /\ Done <= p - 1 /\ p <= written
    BY <1>1, Numbers
  <2>2. ASSUME NEW a \in Nat, NEW b \in Nat, NEW e \in Ends(a, b), Tiled(ring, e, a, b),
               a <= p - 1, p <= b
        PROVE  \E o \in 0..(Size - 1):
                  ring[o].kind = "header" /\ ring[o].id = p /\ Whole(o)
    <3>1. p \in (a + 1)..b /\ p \in a..b /\ p - 1 \in a..b
      BY <2>1, <2>2
    <3>2. e[p] \in 0..Size /\ e[p - 1] \in 0..Size /\ e[p - 1] < e[p] /\ Size \in Nat
      BY <2>1, <2>2, <3>1, RingAssumption DEF Ends, Tiled
    <3>3. ring[e[p - 1]] = Header(p, e[p] - e[p - 1])
          /\ \A i \in (e[p - 1] + 1)..(e[p] - 1): ring[i] = Payload(p)
      BY <2>2, <3>1 DEF Tiled
    <3>4. /\ ring[e[p - 1]].kind = "header" /\ ring[e[p - 1]].id = p
          /\ ring[e[p - 1]].len = e[p] - e[p - 1]
      BY <3>3 DEF Header
    <3>5. e[p - 1] + ring[e[p - 1]].len - 1 = e[p] - 1
      BY <3>2, <3>4
    <3>6. Whole(e[p - 1])
      BY <3>3, <3>4, <3>5 DEF Whole
    <3>7. e[p - 1] \in 0..(Size - 1)
      BY <3>2
    <3> QED BY <3>4, <3>6, <3>7
  <2>3. ASSUME NEW e \in Ends(Done, written), OneLap(e)
        PROVE  \E o \in 0..(Size - 1):
                  ring[o].kind = "header" /\ ring[o].id = p /\ Whole(o)
    BY <1>1, <2>1, <2>2, <2>3, Numbers DEF OneLap
  <2>4. ASSUME NEW m \in Done..written, NEW e \in Ends(Done, m), NEW f \in Ends(m, written),
               TwoLaps(e, f, m)
        PROVE  \E o \in 0..(Size - 1):
                  ring[o].kind = "header" /\ ring[o].id = p /\ Whole(o)
    <3>1. m \in Nat /\ (p <= m \/ m <= p - 1)
      BY <1>1, <2>1, <2>4, Numbers
    <3> QED BY <1>1, <2>1, <2>2, <2>4, <3>1, Numbers DEF TwoLaps
  <2> QED BY <1>1, <2>3, <2>4 DEF RingInv, Layout
<1> QED BY <1>1, InvHolds, PTL

\* The ring implements the command stream as far as safety goes: every step of driver
\* and pump is a step of the stream or leaves it as it is, so the packets are executed
\* once each, whole, in the order they were announced, and never before.
THEOREM StepsOfTheStream == Spec => Stream!Init /\ [][Stream!Next]_<<announced, executed>>
<1>1. Init => Stream!Init
  BY DEF Init, Stream!Init
<1>2. RingInv /\ [Next]_vars => [Stream!Next]_<<announced, executed>>
  <2> SUFFICES ASSUME RingInv, [Next]_vars PROVE [Stream!Next]_<<announced, executed>>
    OBVIOUS
  <2>1. CASE ExecutePacket
    <3>1. Done < announced /\ announced' = announced /\ executed' = Append(executed, Done + 1)
      BY <2>1, ExecutesNext DEF ExecutePacket, driver
    <3> QED BY <3>1 DEF Done, Stream!Next, Stream!Execute
  <2>2. CASE Doorbell
    BY <2>2, Numbers DEF Doorbell, Stream!Next, Stream!Announce
  <2>3. CASE ~ExecutePacket /\ ~Doorbell
    BY <2>3 DEF Next, Driver, Pump, SkipTail, WriteHeader, WritePayload,
       SetRptrWriteBackAddr, ObserveWritePointer, SkipFiller, FollowWrap, ScanEnds, vars, driver
  <2> QED BY <2>1, <2>2, <2>3
<1> QED BY <1>1, <1>2, InvHolds, PTL DEF Spec
=============================================================================

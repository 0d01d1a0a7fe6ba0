--------------------------- MODULE FenceWaitProofs ---------------------------
(***************************************************************************)
(* Proofs about FrameDrawList, CommandProcessor and FenceWait, for any     *)
(* number of draws, packets and indirect buffers: the order of the draws,  *)
(* the registers a draw is made of, when vertex data may be rewritten, and *)
(* the order in which the packets of nested buffers are executed.          *)
(***************************************************************************)
EXTENDS FenceWait, SequenceTheorems, WellFoundedInduction, FiniteSetTheorems, TLAPS

-----------------------------------------------------------------------------
(* Sequences and sets of numbers.                                          *)

\* Appending keeps what was there and puts one element after it.
LEMMA AppendFacts ==
    ASSUME NEW S, NEW s \in Seq(S), NEW e \in S
    PROVE  /\ Append(s, e) \in Seq(S) /\ Append(s, e) # <<>>
           /\ Len(Append(s, e)) = Len(s) + 1 /\ Append(s, e)[Len(s) + 1] = e
           /\ \A i \in DOMAIN Append(s, e):
                 (i \in DOMAIN s /\ Append(s, e)[i] = s[i]) \/ (i = Len(s) + 1)
OBVIOUS

\* A non-empty sequence has a last element.
LEMMA LastFacts ==
    ASSUME NEW S, NEW s \in Seq(S), s # <<>>
    PROVE  Len(s) \in DOMAIN s /\ s[Len(s)] \in S
OBVIOUS

\* Reading a sequence inside its domain gives one of its elements.
LEMMA ElementFacts ==
    ASSUME NEW S, NEW s \in Seq(S), NEW i \in DOMAIN s
    PROVE  s[i] \in S
<1>1. DOMAIN s = 1..Len(s) /\ s \in [1..Len(s) -> S]
  OBVIOUS
<1> QED BY <1>1

\* Every draw in a list has been parsed already.
Parsed(s) == \A i \in DOMAIN s: s[i] < nextDraw
AllParsed == Parsed(building) /\ Parsed(ready) /\ Parsed(lastDrawn)

DrawInv == TypeOK /\ AllParsed /\ DrawOrder /\ NewestKept

LEMMA DrawInit == Init => DrawInv
BY DrawAssumption DEF Init, DrawInv, TypeOK, Draws, AllParsed, Parsed, DrawOrder, Sorted,
   Before, NewestKept

\* AddDrawCommand puts the newest draw behind everything.
LEMMA AddStep == ASSUME DrawInv, AddDrawCommand PROVE DrawInv'
<1>0. /\ nextDraw \in 1..MaxDraws /\ building \in Seq(1..MaxDraws)
      /\ building' = Append(building, nextDraw) /\ nextDraw' = nextDraw + 1
      /\ UNCHANGED <<ready, lastDrawn>>
  BY DrawAssumption DEF DrawInv, TypeOK, Draws, AddDrawCommand
<1>1. /\ building' \in Seq(1..MaxDraws) /\ building' # <<>>
      /\ Len(building') = Len(building) + 1 /\ building'[Len(building) + 1] = nextDraw
      /\ \A i \in DOMAIN building':
            (i \in DOMAIN building /\ building'[i] = building[i]) \/ (i = Len(building) + 1)
  BY <1>0, AppendFacts
<1>2. TypeOK'
  BY <1>0, <1>1, DrawAssumption DEF DrawInv, TypeOK, Draws
<1>3. AllParsed'
  <2>1. ASSUME NEW s \in Seq(1..MaxDraws), Parsed(s), NEW i \in DOMAIN s
        PROVE  s[i] < nextDraw + 1
    <3>1. s[i] \in 1..MaxDraws
      BY ElementFacts
    <3>2. s[i] < nextDraw
      BY <2>1 DEF Parsed
    <3> QED BY <1>0, <3>1, <3>2
  <2>2. Parsed(ready)' /\ Parsed(lastDrawn)'
    BY <1>0, <2>1 DEF DrawInv, TypeOK, Draws, AllParsed, Parsed
  <2>3. Parsed(building)'
    BY <1>0, <1>1, <2>1 DEF DrawInv, AllParsed, Parsed
  <2> QED BY <2>2, <2>3 DEF AllParsed
<1>4. NewestKept'
  <2>1. building' # <<>> /\ Len(building') = Len(building) + 1 /\ nextDraw' - 1 = nextDraw
    BY <1>0, <1>1
  <2>2. building'[Len(building')] = nextDraw' - 1
    BY <1>1, <2>1
  <2> QED BY <2>1, <2>2 DEF NewestKept, EndsWith
<1>5. Sorted(building')
  BY <1>0, <1>1 DEF DrawInv, DrawOrder, AllParsed, Parsed, Sorted
<1>6. Before(lastDrawn, building') /\ Before(ready, building')
  BY <1>0, <1>1 DEF DrawInv, DrawOrder, AllParsed, Parsed, Before
<1> QED BY <1>0, <1>2, <1>3, <1>4, <1>5, <1>6 DEF DrawInv, DrawOrder, Sorted, Before

\* SwapReady drops a ready batch only when there is a newer one to put there.
LEMMA SwapStep == ASSUME DrawInv, SwapReady PROVE DrawInv'
<1>1. CASE building # <<>>
  <2>1. ready' = building /\ building' = <<>> /\ UNCHANGED <<lastDrawn, nextDraw>>
    BY <1>1 DEF SwapReady
  <2>2. TypeOK' /\ AllParsed'
    BY <2>1 DEF DrawInv, TypeOK, Draws, AllParsed, Parsed
  <2>3. DrawOrder'
    BY <2>1 DEF DrawInv, DrawOrder, Sorted, Before
  <2>4. NewestKept'
    <3>1. CASE EndsWith(ready, nextDraw - 1) /\ nextDraw # 1
      \* impossible: what is being built is newer still
      <4>0. building \in Seq(1..MaxDraws) /\ ready \in Seq(1..MaxDraws) /\ nextDraw \in Int
        BY DEF DrawInv, TypeOK, Draws
      <4>1. Len(building) \in DOMAIN building /\ Len(ready) \in DOMAIN ready
            /\ building[Len(building)] \in 1..MaxDraws
        BY <1>1, <3>1, <4>0, LastFacts DEF EndsWith
      <4>2. building[Len(building)] < nextDraw /\ ready[Len(ready)] < building[Len(building)]
        BY <4>1 DEF DrawInv, AllParsed, Parsed, DrawOrder, Before
      <4> QED BY <3>1, <4>0, <4>1, <4>2 DEF EndsWith
    <3>2. CASE ~EndsWith(ready, nextDraw - 1) \/ nextDraw = 1
      BY <2>1, <3>2 DEF DrawInv, NewestKept
    <3> QED BY <3>1, <3>2
  <2> QED BY <2>2, <2>3, <2>4 DEF DrawInv
<1>2. CASE building = <<>>
  BY <1>2 DEF SwapReady, DrawInv, TypeOK, Draws, AllParsed, Parsed, DrawOrder, Sorted, Before,
     NewestKept, EndsWith
<1> QED BY <1>1, <1>2

\* TakeReady replaces what is shown only by something newer.
LEMMA TakeStep == ASSUME DrawInv, TakeReady PROVE DrawInv'
<1>1. CASE ready # <<>>
  <2>1. lastDrawn' = ready /\ ready' = <<>> /\ UNCHANGED <<building, nextDraw>>
    BY <1>1 DEF TakeReady
  <2>2. TypeOK' /\ AllParsed'
    BY <2>1 DEF DrawInv, TypeOK, Draws, AllParsed, Parsed
  <2>3. DrawOrder'
    BY <2>1 DEF DrawInv, DrawOrder, Sorted, Before
  <2>4. NewestKept'
    <3>1. CASE EndsWith(lastDrawn, nextDraw - 1) /\ nextDraw # 1
      \* impossible: the batch that is ready is newer
      <4>0. ready \in Seq(1..MaxDraws) /\ lastDrawn \in Seq(1..MaxDraws) /\ nextDraw \in Int
        BY DEF DrawInv, TypeOK, Draws
      <4>1. Len(ready) \in DOMAIN ready /\ Len(lastDrawn) \in DOMAIN lastDrawn
            /\ ready[Len(ready)] \in 1..MaxDraws
        BY <1>1, <3>1, <4>0, LastFacts DEF EndsWith
      <4>2. ready[Len(ready)] < nextDraw /\ lastDrawn[Len(lastDrawn)] < ready[Len(ready)]
        BY <4>1 DEF DrawInv, AllParsed, Parsed, DrawOrder, Before
      <4> QED BY <3>1, <4>0, <4>1, <4>2 DEF EndsWith
    <3>2. CASE ~EndsWith(lastDrawn, nextDraw - 1) \/ nextDraw = 1
      BY <2>1, <3>2 DEF DrawInv, NewestKept
    <3> QED BY <3>1, <3>2
  <2> QED BY <2>2, <2>3, <2>4 DEF DrawInv
<1>2. CASE ready = <<>>
  BY <1>2 DEF TakeReady, DrawInv, TypeOK, Draws, AllParsed, Parsed, DrawOrder, Sorted, Before,
     NewestKept, EndsWith
<1> QED BY <1>1, <1>2

LEMMA DrawStep == DrawInv /\ [Next]_vars => DrawInv'
<1>1. CASE UNCHANGED vars
  BY <1>1 DEF vars, DrawInv, TypeOK, AllParsed, Parsed, DrawOrder, NewestKept
<1> QED BY <1>1, AddStep, SwapStep, TakeStep DEF Next

LEMMA BeginningOf ==
    ASSUME NEW S, NEW s \in Seq(S), NEW n \in 0..Len(s)
    PROVE  SubSeq(s, 1, n) \in Seq(S) /\ Len(SubSeq(s, 1, n)) = n
OBVIOUS

\* A sequence without its last element, and that element
LEMMA FrontAndLast ==
    ASSUME NEW S, NEW s \in Seq(S), s # <<>>
    PROVE  /\ Last(s) \in S /\ Len(s) \in Nat \ {0}
           /\ Front(s) \in Seq(S) /\ Len(Front(s)) = Len(s) - 1
           /\ \A e \in S: Front(s) \o <<e>> \in Seq(S) /\ Len(Front(s) \o <<e>>) = Len(s)
                          /\ Front(s) \o <<e>> # <<>>
<1>1. Len(s) \in Nat \ {0} /\ s[Len(s)] \in S
  BY LastFacts
<1>2. SubSeq(s, 1, Len(s) - 1) \in Seq(S) /\ Len(SubSeq(s, 1, Len(s) - 1)) = Len(s) - 1
  <2>1. \A n \in 0..Len(s): SubSeq(s, 1, n) \in Seq(S) /\ Len(SubSeq(s, 1, n)) = n
    BY BeginningOf
  <2>2. Len(s) - 1 \in 0..Len(s)
    BY <1>1
  <2> QED BY <2>1, <2>2, Zenon
<1> DEFINE f == SubSeq(s, 1, Len(s) - 1)
<1>3. f \in Seq(S) /\ Len(f) = Len(s) - 1
  BY <1>2
<1> HIDE DEF f
<1>4. \A e \in S: f \o <<e>> \in Seq(S) /\ Len(f \o <<e>>) = Len(f) + 1
  BY <1>3
<1>5. \A e \in S: f \o <<e>> # <<>>
  BY <1>1, <1>3, <1>4
<1>6. Front(s) = f /\ Last(s) = s[Len(s)]
  BY DEF Front, Last, f
<1> QED BY <1>1, <1>3, <1>4, <1>5, <1>6

LEMMA LeastOf ==
    ASSUME NEW T \in SUBSET Nat, T # {}
    PROVE  \E x \in T: \A y \in T: x <= y
<1> DEFINE R == OpToRel(<, Nat)
<1>1. IsWellFoundedOn(R, Nat)
  BY NatLessThanWellFounded
<1>2. \A x, y \in Nat: <<x, y>> \in R <=> x < y
  BY DEF OpToRel
<1> HIDE DEF R
<1>3. PICK x \in T: \A y \in T: <<y, x>> \notin R
  BY <1>1, WFMin
<1>4. ASSUME NEW y \in T
      PROVE  x <= y
  <2>1. x \in Nat /\ y \in Nat
    OBVIOUS
  <2>2. ~(y < x)
    BY <1>2, <1>3, <2>1, Zenon
  <2> QED BY <2>1, <2>2
<1> QED BY <1>4

LEMMA GreatestOf ==
    ASSUME NEW n \in Nat, NEW S \in SUBSET (1..n), S # {}
    PROVE  \E x \in S: \A y \in S: x >= y
<1> DEFINE T == {n - x: x \in S}
<1>0. \A x \in S: x \in 1..n /\ n - x \in Nat
  OBVIOUS
<1>1. T \in SUBSET Nat /\ T # {}
  <2>1. \A z \in T: z \in Nat
    BY <1>0
  <2>2. PICK x \in S: TRUE
    OBVIOUS
  <2>3. n - x \in T
    BY <2>2
  <2> QED BY <2>1, <2>3
<1>2. PICK z \in T: \A y \in T: z <= y
  BY <1>1, LeastOf
<1>3. PICK x \in S: z = n - x
  OBVIOUS
<1>4. \A y \in S: n - y \in T /\ y \in Int
  OBVIOUS
<1>5. \A y \in S: n - x <= n - y
  BY <1>2, <1>3, <1>4
<1> QED BY <1>4, <1>5

LEMMA MaxIsThere ==
    ASSUME NEW n \in Nat, NEW S \in SUBSET (1..n), S # {}
    PROVE  Max(S) \in S /\ \A y \in S: Max(S) >= y
BY GreatestOf DEF Max

LEMMA MaxIs ==
    ASSUME NEW S \in SUBSET Int, NEW x \in S, \A y \in S: x >= y
    PROVE  Max(S) = x
<1>1. \E m \in S: \A y \in S: m >= y
  OBVIOUS
<1>2. Max(S) \in S /\ \A y \in S: Max(S) >= y
  BY <1>1 DEF Max
<1>3. Max(S) >= x /\ x >= Max(S) /\ Max(S) \in Int /\ x \in Int
  BY <1>2
<1> QED BY <1>3

-----------------------------------------------------------------------------
(* The scan of one buffer within another.                                  *)

Frames == [buffer: DOMAIN Buffer, next: Nat \ {0}]

\* The scan is inside an indirect buffer only behind the packet that leads to it.
ScanInv ==
    /\ stream \in Seq(PM4) /\ executed \in Seq(PM4)
    /\ next \in 1..(Len(stream) + 1)
    /\ nested \in Seq(Frames) /\ Len(nested) <= MaxDepth
    /\ nested # <<>> => next >= 2 /\ stream[next - 1].op = "indirect"

\* What is still to be executed, or being executed
Pending(i) == i \in DOMAIN stream /\ (i >= next \/ (nested # <<>> /\ i = next - 1))

LEMMA PacketDecoded ==
    ASSUME ScanInv, Decodable
    PROVE  /\ Packet \in PM4
           /\ nested = <<>> => next \in DOMAIN stream /\ Packet = stream[next]
           /\ nested # <<>> => \E b \in DOMAIN Buffer: \E i \in DOMAIN Buffer[b]: Packet = Buffer[b][i]
<1>1. CASE nested = <<>>
  <2>1. next \in 1..Len(stream) /\ Packet = stream[next]
    BY <1>1 DEF ScanInv, Decodable, Packet, Position, Packets
  <2>2. stream[next] \in PM4 /\ next \in DOMAIN stream
    BY <2>1 DEF ScanInv
  <2> QED BY <1>1, <2>1, <2>2
<1>2. CASE nested # <<>>
  <2>1. Last(nested) \in Frames
    BY <1>2, FrontAndLast DEF ScanInv
  <2> DEFINE b == Last(nested).buffer
             i == Last(nested).next
  <2>2. b \in DOMAIN Buffer /\ i \in Nat \ {0} /\ Buffer[b] \in Seq(PM4)
    BY <2>1, ProcessorAssumption DEF Frames
  <2>3. i <= Len(Buffer[b]) /\ Packet = Buffer[b][i]
    BY <1>2 DEF Decodable, Packet, Position, Packets
  <2> HIDE DEF b, i
  <2>4. i \in DOMAIN Buffer[b] /\ Buffer[b][i] \in PM4
    BY <2>2, <2>3
  <2> QED BY <1>2, <2>2, <2>3, <2>4
<1> QED BY <1>1, <1>2

\* Behind the packet in the buffer it is in
LEMMA AdvancedFacts ==
    ASSUME ScanInv
    PROVE  /\ Advanced \in Seq(Frames) /\ Len(Advanced) = Len(nested)
           /\ Advanced = <<>> <=> nested = <<>>
<1>1. CASE nested = <<>>
  BY <1>1 DEF Advanced
<1>2. CASE nested # <<>>
  <2>1. Last(nested) \in Frames
    BY <1>2, FrontAndLast DEF ScanInv
  <2> DEFINE f == [Last(nested) EXCEPT !.next = @ + 1]
  <2>2. f \in Frames
    BY <2>1 DEF Frames
  <2>3. Advanced = Front(nested) \o <<f>>
    BY <1>2 DEF Advanced
  <2> HIDE DEF f
  <2>4. /\ Front(nested) \o <<f>> \in Seq(Frames) /\ Len(Front(nested) \o <<f>>) = Len(nested)
        /\ Front(nested) \o <<f>> # <<>>
    BY <1>2, <2>2, FrontAndLast DEF ScanInv
  <2> QED BY <1>2, <2>3, <2>4
<1> QED BY <1>1, <1>2

\* A step of the scan: the stream and the vertex data stay, and nothing becomes pending.
LEMMA ScanMoves ==
    ASSUME ScanInv, ScanBuffer
    PROVE  /\ ScanInv' /\ stream' = stream /\ content' = content
           /\ next' >= next
           /\ \A i: Pending(i)' => Pending(i)
<1>0. /\ stream \in Seq(PM4) /\ executed \in Seq(PM4) /\ next \in 1..(Len(stream) + 1)
      /\ nested \in Seq(Frames) /\ Len(nested) <= MaxDepth /\ Len(nested) \in Nat
      /\ MaxDepth \in Nat /\ Len(stream) \in Nat
  BY ProcessorAssumption DEF ScanInv
<1>1. CASE Return
  <2>1. /\ nested # <<>> /\ nested' = Front(nested)
        /\ UNCHANGED <<stream, next, content, executed>>
    BY <1>1 DEF Return
  <2>2. nested' \in Seq(Frames) /\ Len(nested') = Len(nested) - 1
    BY <1>0, <2>1, FrontAndLast
  <2>3. ScanInv'
    BY <1>0, <2>1, <2>2 DEF ScanInv
  <2> QED BY <1>0, <2>1, <2>3 DEF Pending
<1>2. ASSUME Decodable, Step, NEW n, nested' = n, n \in Seq(Frames), Len(n) <= MaxDepth,
             nested = <<>> => \/ n = <<>>
                              \/ Packet.op = "indirect"
      PROVE  /\ ScanInv' /\ stream' = stream /\ content' = content
             /\ next' >= next
             /\ \A i: Pending(i)' => Pending(i)
  <2>1. /\ Packet \in PM4
        /\ nested = <<>> => next \in DOMAIN stream /\ Packet = stream[next]
    BY <1>2, PacketDecoded
  <2>2. /\ stream' = stream /\ content' = content /\ executed' = Append(executed, Packet)
        /\ next' = IF nested = <<>> THEN next + 1 ELSE next
    BY <1>2 DEF Step
  <2>3. executed' \in Seq(PM4)
    BY <1>0, <2>1, <2>2, AppendFacts
  <2>4. next' \in 1..(Len(stream) + 1) /\ next' >= next
    BY <1>0, <2>1, <2>2
  <2>5. n # <<>> => next' >= 2 /\ stream[next' - 1].op = "indirect"
    BY <1>0, <1>2, <2>1, <2>2 DEF ScanInv
  <2>6. ScanInv'
    BY <1>0, <1>2, <2>2, <2>3, <2>4, <2>5 DEF ScanInv
  <2>7. \A i: Pending(i)' => Pending(i)
    BY <1>0, <1>2, <2>2 DEF Pending
  <2> QED BY <2>2, <2>4, <2>6, <2>7
<1>3. CASE Executes
  BY <1>0, <1>2, <1>3, AdvancedFacts DEF Executes
<1>4. CASE IndirectBuffer
  <2>1. /\ Decodable /\ Step /\ Packet.op = "indirect" /\ Len(nested) < MaxDepth
        /\ nested' = Append(Advanced, [buffer |-> Packet.to, next |-> 1])
    BY <1>4 DEF IndirectBuffer, Follows
  <2>2. Packet \in PM4
    BY <2>1, PacketDecoded
  <2>3. [buffer |-> Packet.to, next |-> 1] \in Frames
    BY <2>1, <2>2 DEF PM4, Frames
  <2> DEFINE f == [buffer |-> Packet.to, next |-> 1]
             n == Append(Advanced, f)
  <2>4. f \in Frames /\ nested' = n
    BY <2>1, <2>3
  <2> HIDE DEF f
  <2>5. n \in Seq(Frames) /\ Len(n) = Len(nested) + 1
    BY <2>4, AdvancedFacts, AppendFacts
  <2> HIDE DEF n
  <2>6. Len(n) <= MaxDepth
    BY <1>0, <2>1, <2>5
  <2> QED BY <1>2, <2>1, <2>4, <2>5, <2>6
<1> QED
  BY <1>1, <1>3, <1>4 DEF ScanBuffer, PassOver, Type0, SetConstant, DrawIndx, ImLoadImmediate,
     EventWriteShd, DrawIndx2

-----------------------------------------------------------------------------
(* What a packet writes to the registers.                                  *)

LEMMA PacketFields ==
    ASSUME NEW p \in PM4
    PROVE  /\ p.op = "type0" => p.base \in Nat /\ p.one \in BOOLEAN /\ p.values \in Seq(Nat)
                                /\ p.values # <<>>
           /\ p.op = "constant" => p.bank \in Nat /\ p.index \in Nat /\ p.values \in Seq(Nat)
           /\ p.op = "draw" => p.count \in Nat /\ p.words \in Nat /\ p.initiator \in Nat
           /\ p.op = "draw_indx" => p.count \in Nat /\ p.initiator \in Nat
           /\ p.op = "load" => p.hash \in DOMAIN Translation
           /\ p.op = "event" => p.word \in Words /\ p.value \in Nat /\ p.count \in Nat
BY DEF PM4

\* The places in a packet of the values for register r
WritersOf(p, r) == {i \in DOMAIN Values(p): Target(p, i) = r}

\* A run of registers is written, each once.
LEMMA RunOfRegisters ==
    ASSUME NEW base \in Nat, NEW values \in Seq(Nat), NEW r \in Nat
    PROVE  LET w == [i \in base..(base + Len(values) - 1) |-> values[i - base + 1]]
               places == {i \in DOMAIN values: base + i - 1 = r}
           IN /\ r \in DOMAIN w <=> places # {}
              /\ places # {} => w[r] = values[Max(places)] /\ w[r] \in Nat
<1> DEFINE w == [i \in base..(base + Len(values) - 1) |-> values[i - base + 1]]
           places == {i \in DOMAIN values: base + i - 1 = r}
<1>1. DOMAIN values = 1..Len(values) /\ Len(values) \in Nat
  OBVIOUS
<1>2. r \in DOMAIN w <=> r - base + 1 \in DOMAIN values
  BY <1>1
<1>3. \A i \in places: i = r - base + 1
  BY <1>1
<1>4. r - base + 1 \in DOMAIN values <=> r - base + 1 \in places
  BY <1>1
<1>5. ASSUME places # {}
      PROVE  w[r] = values[Max(places)] /\ w[r] \in Nat
  <2>1. r - base + 1 \in places
    BY <1>3, <1>5
  <2>2. places \in SUBSET Int
    BY <1>1
  <2>3. Max(places) = r - base + 1
    <3>1. \A y \in places: r - base + 1 >= y
      BY <1>3
    <3> HIDE DEF places
    <3> QED BY <2>1, <2>2, <3>1, MaxIs
  <2>4. w[r] = values[r - base + 1] /\ values[r - base + 1] \in Nat
    BY <1>2, <1>4, <2>1
  <2> QED BY <2>3, <2>4
<1>6. r \in DOMAIN w <=> places # {}
  BY <1>2, <1>3, <1>4
<1> QED BY <1>5, <1>6

\* One register is written once.
LEMMA OneRegister ==
    ASSUME NEW reg \in Nat, NEW v \in Nat, NEW r \in Nat
    PROVE  LET places == {i \in DOMAIN <<v>>: reg = r}
           IN /\ r = reg <=> places # {}
              /\ places # {} => v = <<v>>[Max(places)]
<1> DEFINE places == {i \in DOMAIN <<v>>: reg = r}
<1>1. DOMAIN <<v>> = {1} /\ <<v>>[1] = v
  OBVIOUS
<1>2. CASE reg = r
  <2>1. places = {1}
    BY <1>1, <1>2
  <2>2. Max({1}) = 1
    <3>1. {1} \in SUBSET Int /\ 1 \in {1} /\ \A y \in {1}: 1 >= y
      OBVIOUS
    <3> QED BY <3>1, MaxIs
  <2> QED BY <1>1, <1>2, <2>1, <2>2
<1>3. CASE reg # r
  BY <1>3
<1> QED BY <1>2, <1>3

\* The registers as a step of the scan leaves them, when it executes packet p
Written(p) ==
    \A r \in Watched:
        regs'[r] = IF WritersOf(p, r) # {} /\ r < RegisterCount
                   THEN Values(p)[Max(WritersOf(p, r))] ELSE regs[r]

RegsTyped ==
    regs \in [Watched -> Nat] /\ \A i \in Watched: i >= RegisterCount => regs[i] = 0

LEMMA WriteIsWritten ==
    ASSUME RegsTyped, NEW p, NEW w, regs' = WriteRegisters(w),
           \A r \in Watched: /\ r \in DOMAIN w <=> WritersOf(p, r) # {}
                             /\ r \in DOMAIN w => w[r] = Values(p)[Max(WritersOf(p, r))] /\ w[r] \in Nat
    PROVE  Written(p) /\ RegsTyped'
<1>1. \A r \in Watched: regs'[r] = IF r \in DOMAIN w /\ r < RegisterCount THEN w[r] ELSE regs[r]
  BY DEF WriteRegisters, Stored
<1>2. Written(p)
  BY <1>1 DEF Written
<1>3. regs' = [r \in Watched |-> regs'[r]]
  BY DEF WriteRegisters
<1>4. \A r \in Watched: regs'[r] \in Nat /\ (r >= RegisterCount => regs'[r] = 0)
  <2> SUFFICES ASSUME NEW r \in Watched
               PROVE  regs'[r] \in Nat /\ (r >= RegisterCount => regs'[r] = 0)
    OBVIOUS
  <2>1. r \in Nat /\ regs[r] \in Nat /\ (r >= RegisterCount => regs[r] = 0)
    BY ProcessorAssumption DEF RegsTyped
  <2> QED BY <1>1, <2>1 DEF RegisterCount
<1> QED BY <1>2, <1>3, <1>4 DEF RegsTyped

LEMMA NothingWritten ==
    ASSUME RegsTyped, NEW p, regs' = regs, Values(p) = <<>>
    PROVE  Written(p) /\ RegsTyped'
<1>1. \A r: WritersOf(p, r) = {}
  BY DEF WritersOf
<1> QED BY <1>1 DEF Written, RegsTyped

LEMMA BankFacts ==
    /\ Len(Bank) = 5
    /\ \A b \in Nat: b < 5 => Bank[b + 1] \in Nat
BY DEF Bank

\* The write of each packet, as the specification of DrawsSeeTheirState has it
LEMMA Type0Written ==
    ASSUME ScanInv, RegsTyped, Type0
    PROVE  Written(Packet) /\ RegsTyped'
<1> DEFINE p == Packet
<1>1. p \in PM4 /\ p.op = "type0" /\ regs' = WriteRegisters(Type0Writes(p))
  BY PacketDecoded DEF Type0, Executes
<1> HIDE DEF p
<1>2. /\ p.base \in Nat /\ p.one \in BOOLEAN /\ p.values \in Seq(Nat) /\ p.values # <<>>
  BY <1>1, PacketFields
<1>3. Values(p) = p.values /\ \A i: Target(p, i) = IF p.one THEN p.base ELSE p.base + i - 1
  BY <1>1 DEF Values, Target
<1>4. \A r \in Watched: r \in Nat
  BY ProcessorAssumption
<1>5. CASE p.one
  <2>1. \A r: WritersOf(p, r) = {i \in DOMAIN p.values: p.base = r}
    BY <1>3, <1>5 DEF WritersOf
  <2>2. Type0Writes(p) = [i \in {p.base} |-> Last(p.values)]
    BY <1>5 DEF Type0Writes
  <2>3. ASSUME NEW r \in Watched
        PROVE  /\ r = p.base <=> WritersOf(p, r) # {}
               /\ WritersOf(p, r) # {} => /\ Last(p.values) = p.values[Max(WritersOf(p, r))]
                                          /\ Last(p.values) \in Nat
    <3> DEFINE b == p.base
               v == p.values
               places == WritersOf(p, r)
    <3>1. /\ r \in Nat /\ b \in Nat /\ v \in Seq(Nat) /\ v # <<>>
          /\ \A i: i \in places <=> i \in DOMAIN v /\ b = r
      BY <1>2, <1>4, <2>1
    <3> HIDE DEF b, v, places
    <3>2. Len(v) \in DOMAIN v /\ v[Len(v)] \in Nat /\ \A i \in DOMAIN v: i \in Int /\ Len(v) >= i
      BY <3>1, LastFacts
    <3>3. CASE b = r
      <4>1. places \in SUBSET Int /\ Len(v) \in places /\ \A i \in places: Len(v) >= i
        BY <3>1, <3>2, <3>3
      <4>2. Max(places) = Len(v)
        BY <4>1, MaxIs
      <4>3. Last(v) = v[Len(v)] /\ places # {}
        BY <4>1 DEF Last
      <4> QED BY <3>2, <3>3, <4>2, <4>3 DEF b, v, places
    <3>4. CASE b # r
      <4>1. places = {}
        BY <3>1, <3>4
      <4> QED BY <3>4, <4>1 DEF b, v, places
    <3> QED BY <3>3, <3>4
  <2>4. \A r \in Watched:
           LET w == Type0Writes(p)
           IN /\ r \in DOMAIN w <=> WritersOf(p, r) # {}
              /\ r \in DOMAIN w => w[r] = Values(p)[Max(WritersOf(p, r))] /\ w[r] \in Nat
    BY <1>3, <2>2, <2>3
  <2> QED BY <1>1, <2>4, WriteIsWritten DEF p
<1>6. CASE ~p.one
  <2>1. \A r: WritersOf(p, r) = {i \in DOMAIN p.values: p.base + i - 1 = r}
    BY <1>3, <1>6 DEF WritersOf
  <2>2. Type0Writes(p) = [i \in p.base..(p.base + Len(p.values) - 1) |-> p.values[i - p.base + 1]]
    BY <1>6 DEF Type0Writes
  <2>3. ASSUME NEW r \in Watched
        PROVE  LET w == Type0Writes(p)
               IN /\ r \in DOMAIN w <=> WritersOf(p, r) # {}
                  /\ r \in DOMAIN w => w[r] = Values(p)[Max(WritersOf(p, r))] /\ w[r] \in Nat
    <3>1. LET w == [i \in p.base..(p.base + Len(p.values) - 1) |-> p.values[i - p.base + 1]]
              places == {i \in DOMAIN p.values: p.base + i - 1 = r}
          IN /\ r \in DOMAIN w <=> places # {}
             /\ places # {} => w[r] = p.values[Max(places)] /\ w[r] \in Nat
      BY <1>2, <1>4, RunOfRegisters
    <3> QED BY <1>3, <2>1, <2>2, <3>1, Zenon
  <2> QED BY <1>1, <2>3, WriteIsWritten DEF p
<1> QED BY <1>2, <1>5, <1>6

LEMMA SetConstantWritten ==
    ASSUME ScanInv, RegsTyped, SetConstant
    PROVE  Written(Packet) /\ RegsTyped'
<1> DEFINE p == Packet
<1>1. p \in PM4 /\ p.op = "constant" /\ regs' = WriteRegisters(ConstantWrites(p))
  BY PacketDecoded DEF SetConstant, Executes
<1> HIDE DEF p
<1>2. /\ p.bank \in Nat /\ p.index \in Nat /\ p.values \in Seq(Nat)
  BY <1>1, PacketFields
<1>3. \A r \in Watched: r \in Nat
  BY ProcessorAssumption
<1>4. CASE p.bank >= Len(Bank)
  <2>1. Values(p) = <<>> /\ ConstantWrites(p) = <<>>
    BY <1>1, <1>2, <1>4, BankFacts DEF Values, ConstantWrites
  <2>2. \A r \in Watched: WritersOf(p, r) = {} /\ r \notin DOMAIN ConstantWrites(p)
    BY <2>1 DEF WritersOf
  <2> QED BY <1>1, <2>2, WriteIsWritten DEF p
<1>5. CASE ~(p.bank >= Len(Bank))
  <2> DEFINE base == Bank[p.bank + 1] + p.index
  <2>1. p.bank < Len(Bank) /\ base \in Nat /\ Bank[p.bank + 1] \in Nat
    <3>1. p.bank < 5 /\ p.bank < Len(Bank)
      BY <1>2, <1>5, BankFacts
    <3>2. Bank[p.bank + 1] \in Nat
      BY <1>2, <3>1, BankFacts
    <3> QED BY <1>2, <3>1, <3>2
  <2>2. Values(p) = p.values /\ \A i: Target(p, i) = base + i - 1
    BY <1>1, <2>1 DEF Values, Target
  <2>3. ConstantWrites(p) = [i \in base..(base + Len(p.values) - 1) |-> p.values[i - base + 1]]
    BY <1>5 DEF ConstantWrites
  <2> HIDE DEF base
  <2>4. \A r: WritersOf(p, r) = {i \in DOMAIN p.values: base + i - 1 = r}
    BY <2>2 DEF WritersOf
  <2>5. ASSUME NEW r \in Watched
        PROVE  LET w == ConstantWrites(p)
               IN /\ r \in DOMAIN w <=> WritersOf(p, r) # {}
                  /\ r \in DOMAIN w => w[r] = Values(p)[Max(WritersOf(p, r))] /\ w[r] \in Nat
    <3>1. LET w == [i \in base..(base + Len(p.values) - 1) |-> p.values[i - base + 1]]
              places == {i \in DOMAIN p.values: base + i - 1 = r}
          IN /\ r \in DOMAIN w <=> places # {}
             /\ places # {} => w[r] = p.values[Max(places)] /\ w[r] \in Nat
      BY <1>2, <1>3, <2>1, RunOfRegisters
    <3> QED BY <2>2, <2>3, <2>4, <3>1, Zenon
  <2> QED BY <1>1, <2>5, WriteIsWritten DEF p
<1> QED BY <1>4, <1>5

\* The initiator of a draw
LEMMA InitiatorWritten ==
    ASSUME RegsTyped, NEW p, p.initiator \in Nat, regs' = WriteRegisters(Initiator(p)),
           Values(p) = <<p.initiator>>, \A i: Target(p, i) = DrawInitiatorRegister
    PROVE  Written(p) /\ RegsTyped' /\ regs'[8700] = p.initiator
<1> DEFINE v == p.initiator
<1>1. /\ DrawInitiatorRegister \in Nat /\ DrawInitiatorRegister = 8700 /\ 8700 \in Watched
      /\ \A r \in Watched: r \in Nat
  BY ProcessorAssumption DEF DrawInitiatorRegister
<1>2. \A r: WritersOf(p, r) = {i \in DOMAIN <<v>>: DrawInitiatorRegister = r}
  BY DEF WritersOf
<1>3. Initiator(p) = [i \in {DrawInitiatorRegister} |-> v]
  BY DEF Initiator
<1>4. \A r \in Watched:
         /\ r = DrawInitiatorRegister <=> WritersOf(p, r) # {}
         /\ WritersOf(p, r) # {} => v = <<v>>[Max(WritersOf(p, r))]
  BY <1>1, <1>2, OneRegister
<1>5. \A r \in Watched:
         LET w == Initiator(p)
         IN /\ r \in DOMAIN w <=> WritersOf(p, r) # {}
            /\ r \in DOMAIN w => w[r] = Values(p)[Max(WritersOf(p, r))] /\ w[r] \in Nat
  BY <1>3, <1>4
<1>6. regs'[8700] = v
  BY <1>1, <1>3 DEF WriteRegisters, Stored, RegisterCount
<1> QED BY <1>5, <1>6, WriteIsWritten

LEMMA DrawIndxWritten ==
    ASSUME ScanInv, RegsTyped, DrawIndx
    PROVE  Written(Packet) /\ RegsTyped'
<1> DEFINE p == Packet
<1>1. /\ p \in PM4 /\ p.op = "draw_indx"
      /\ regs' = IF p.count >= 2 THEN WriteRegisters(Initiator(p)) ELSE regs
  BY PacketDecoded DEF DrawIndx, Executes
<1> HIDE DEF p
<1>2. p.count \in Nat /\ p.initiator \in Nat
  BY <1>1, PacketFields
<1>3. CASE p.count >= 2
  <2>1. Values(p) = <<p.initiator>> /\ \A i: Target(p, i) = DrawInitiatorRegister
    BY <1>1, <1>3 DEF Values, Target
  <2> QED BY <1>1, <1>2, <1>3, <2>1, InitiatorWritten DEF p
<1>4. CASE ~(p.count >= 2)
  <2>1. Values(p) = <<>>
    BY <1>1, <1>4 DEF Values
  <2> QED BY <1>1, <1>4, <2>1, NothingWritten DEF p
<1> QED BY <1>3, <1>4

LEMMA DrawWritten ==
    ASSUME ScanInv, RegsTyped, DrawIndx2
    PROVE  Written(Packet) /\ RegsTyped' /\ regs'[8700] = Packet.initiator
<1> DEFINE p == Packet
<1>1. p \in PM4 /\ p.op = "draw" /\ regs' = WriteRegisters(Initiator(p))
  BY PacketDecoded DEF DrawIndx2, Executes
<1> HIDE DEF p
<1>2. p.initiator \in Nat
  BY <1>1, PacketFields
<1>3. Values(p) = <<p.initiator>> /\ \A i: Target(p, i) = DrawInitiatorRegister
  BY <1>1 DEF Values, Target
<1> QED BY <1>1, <1>2, <1>3, InitiatorWritten DEF p

\* A packet of any other kind
LEMMA OthersWriteNothing ==
    ASSUME NEW p, p.op \in {"load", "event", "indirect", "filler", "interrupt", "unknown"}
    PROVE  Values(p) = <<>>
BY DEF Values

\* Every packet that is executed leaves the registers as its values say.
LEMMA RegistersFollow ==
    ASSUME ScanInv, RegsTyped, ScanBuffer, ~Return
    PROVE  Written(Packet) /\ RegsTyped' /\ executed' = Append(executed, Packet) /\ Packet \in PM4
<1>1. executed' = Append(executed, Packet) /\ Decodable
  BY DEF ScanBuffer, IndirectBuffer, PassOver, Type0, SetConstant, DrawIndx, ImLoadImmediate,
     EventWriteShd, DrawIndx2, Executes, Step
<1>2. Packet \in PM4
  BY <1>1, PacketDecoded
<1>3. CASE IndirectBuffer \/ PassOver \/ ImLoadImmediate \/ EventWriteShd
  <2>1. regs' = regs
    BY <1>3 DEF IndirectBuffer, PassOver, ImLoadImmediate, EventWriteShd, machine
  <2>2. Packet.op \in {"load", "event", "indirect", "filler", "interrupt", "unknown"}
    BY <1>3 DEF IndirectBuffer, Follows, PassOver, NoEffect, ImLoadImmediate, EventWriteShd
  <2> QED BY <1>1, <1>2, <2>1, <2>2, OthersWriteNothing, NothingWritten
<1> QED
  BY <1>1, <1>2, <1>3, Type0Written, SetConstantWritten, DrawIndxWritten, DrawWritten DEF ScanBuffer

-----------------------------------------------------------------------------
(* What a register held for each packet executed.                          *)

PacketsFor(e, r, n) == {k \in 1..(n - 1): WritersOf(e[k], r) # {}}
ValueIn(e, r, n) ==
    IF PacketsFor(e, r, n) = {} \/ r >= RegisterCount THEN 0
    ELSE Values(e[Max(PacketsFor(e, r, n))])[Max(WritersOf(e[Max(PacketsFor(e, r, n))], r))]

LEMMA ValueAtIs == \A r, n: ValueAt(r, n) = ValueIn(executed, r, n)
BY DEF ValueAt, ValueIn, PacketsFor, WritersOf

\* What follows changes nothing of what came before.
LEMMA ValueKept ==
    ASSUME NEW e \in Seq(PM4), NEW p \in PM4, NEW r, NEW n \in 1..(Len(e) + 1)
    PROVE  ValueIn(Append(e, p), r, n) = ValueIn(e, r, n)
<1> DEFINE f == Append(e, p)
           packets == PacketsFor(e, r, n)
<1>1. \A k \in 1..(n - 1): f[k] = e[k]
  OBVIOUS
<1>2. PacketsFor(f, r, n) = packets
  BY <1>1 DEF PacketsFor
<1>3. CASE packets = {}
  BY <1>2, <1>3 DEF ValueIn
<1>4. CASE packets # {}
  <2>1. packets \in SUBSET (1..(n - 1)) /\ n - 1 \in Nat
    BY DEF PacketsFor
  <2>2. Max(packets) \in packets
    <3> HIDE DEF packets
    <3> QED BY <1>4, <2>1, MaxIsThere
  <2>3. f[Max(packets)] = e[Max(packets)]
    BY <1>1, <2>1, <2>2
  <2> QED BY <1>2, <2>3, Zenon DEF ValueIn
<1> QED BY <1>3, <1>4

\* The packet executed last decides of the registers it writes.
LEMMA ValueNext ==
    ASSUME NEW e \in Seq(PM4), NEW p \in PM4, NEW r
    PROVE  ValueIn(Append(e, p), r, Len(e) + 2) =
              IF WritersOf(p, r) # {} /\ ~(r >= RegisterCount) THEN Values(p)[Max(WritersOf(p, r))]
              ELSE ValueIn(e, r, Len(e) + 1)
<1> DEFINE f == Append(e, p)
           n == Len(e) + 1
           packets == PacketsFor(e, r, n)
           all == PacketsFor(f, r, n + 1)
<1>1. n \in Nat \ {0} /\ f[n] = p /\ \A k \in 1..(n - 1): f[k] = e[k]
  OBVIOUS
<1>2. all = packets \cup {k \in {n}: WritersOf(p, r) # {}}
  <2>1. \A k: k \in 1..n <=> k \in 1..(n - 1) \/ k = n
    BY <1>1
  <2>2. n + 1 - 1 = n
    BY <1>1
  <2> QED BY <1>1, <2>1, <2>2 DEF PacketsFor
<1>3. packets \in SUBSET (1..(n - 1)) /\ n - 1 \in Nat
  BY <1>1 DEF PacketsFor
<1>4. n + 1 = Len(e) + 2
  OBVIOUS
<1> HIDE DEF packets, all
<1>5. CASE WritersOf(p, r) # {}
  <2>1. n \in all /\ all \in SUBSET Int /\ \A k \in all: n >= k
    <3> HIDE DEF n
    <3>1. n \in all
      BY <1>2, <1>5
    <3>2. \A k \in all: k = n \/ k \in 1..(n - 1)
      BY <1>2, <1>3
    <3> QED BY <1>1, <3>1, <3>2
  <2>2. Max(all) = n
    BY <2>1, MaxIs
  <2>3. all # {}
    BY <2>1
  <2>4. ValueIn(f, r, n + 1) = IF r >= RegisterCount THEN 0 ELSE Values(f[n])[Max(WritersOf(f[n], r))]
    BY <2>2, <2>3, Zenon DEF ValueIn, all
  <2>5. r >= RegisterCount => ValueIn(e, r, n) = 0
    BY DEF ValueIn
  <2> QED BY <1>1, <1>4, <1>5, <2>4, <2>5
<1>6. CASE WritersOf(p, r) = {}
  <2>1. all = packets
    BY <1>2, <1>6
  <2>2. CASE packets = {}
    BY <1>4, <1>6, <2>1, <2>2 DEF ValueIn, all, packets
  <2>3. CASE packets # {}
    <3>1. Max(packets) \in packets
      BY <1>3, <2>3, MaxIsThere
    <3>2. f[Max(packets)] = e[Max(packets)]
      BY <1>1, <1>3, <3>1
    <3>3. ValueIn(f, r, n + 1) = ValueIn(e, r, n)
      BY <2>1, <3>2, Zenon DEF ValueIn, all, packets
    <3> QED BY <1>4, <1>6, <3>3
  <2> QED BY <2>2, <2>3
<1> QED BY <1>5, <1>6

\* The same for the vertex shader that a packet found.
LoadsFor(e, n) == {k \in 1..(n - 1): LoadsVertexShader(e[k])}
ShaderIn(e, n) == IF LoadsFor(e, n) = {} THEN 0 ELSE e[Max(LoadsFor(e, n))].hash

LEMMA ShaderAtIs == \A n: ShaderAt(n) = ShaderIn(executed, n)
BY DEF ShaderAt, ShaderIn, LoadsFor

LEMMA ShaderKept ==
    ASSUME NEW e \in Seq(PM4), NEW p \in PM4, NEW n \in 1..(Len(e) + 1)
    PROVE  ShaderIn(Append(e, p), n) = ShaderIn(e, n)
<1> DEFINE f == Append(e, p)
           loads == LoadsFor(e, n)
<1>1. \A k \in 1..(n - 1): f[k] = e[k]
  OBVIOUS
<1>2. LoadsFor(f, n) = loads
  BY <1>1 DEF LoadsFor
<1>3. CASE loads = {}
  BY <1>2, <1>3 DEF ShaderIn
<1>4. CASE loads # {}
  <2>1. loads \in SUBSET (1..(n - 1)) /\ n - 1 \in Nat
    BY DEF LoadsFor
  <2>2. Max(loads) \in loads
    <3> HIDE DEF loads
    <3> QED BY <1>4, <2>1, MaxIsThere
  <2>3. f[Max(loads)] = e[Max(loads)]
    BY <1>1, <2>1, <2>2
  <2> QED BY <1>2, <2>3, Zenon DEF ShaderIn
<1> QED BY <1>3, <1>4

LEMMA ShaderNext ==
    ASSUME NEW e \in Seq(PM4), NEW p \in PM4
    PROVE  ShaderIn(Append(e, p), Len(e) + 2) =
              IF LoadsVertexShader(p) THEN p.hash ELSE ShaderIn(e, Len(e) + 1)
<1> DEFINE f == Append(e, p)
           n == Len(e) + 1
           loads == LoadsFor(e, n)
           all == LoadsFor(f, n + 1)
<1>1. n \in Nat \ {0} /\ f[n] = p /\ \A k \in 1..(n - 1): f[k] = e[k]
  OBVIOUS
<1>2. all = loads \cup {k \in {n}: LoadsVertexShader(p)}
  <2>1. \A k: k \in 1..n <=> k \in 1..(n - 1) \/ k = n
    BY <1>1
  <2>2. n + 1 - 1 = n
    BY <1>1
  <2> QED BY <1>1, <2>1, <2>2 DEF LoadsFor
<1>3. loads \in SUBSET (1..(n - 1)) /\ n - 1 \in Nat
  BY <1>1 DEF LoadsFor
<1>4. n + 1 = Len(e) + 2
  OBVIOUS
<1> HIDE DEF loads, all
<1>5. CASE LoadsVertexShader(p)
  <2>1. n \in all /\ all \in SUBSET Int /\ \A k \in all: n >= k
    <3> HIDE DEF n
    <3>1. n \in all
      BY <1>2, <1>5
    <3>2. \A k \in all: k = n \/ k \in 1..(n - 1)
      BY <1>2, <1>3
    <3> QED BY <1>1, <3>1, <3>2
  <2>2. Max(all) = n
    BY <2>1, MaxIs
  <2>3. all # {}
    BY <2>1
  <2>4. ShaderIn(f, n + 1) = f[n].hash
    BY <2>2, <2>3, Zenon DEF ShaderIn, all
  <2> QED BY <1>1, <1>4, <1>5, <2>4
<1>6. CASE ~LoadsVertexShader(p)
  <2>1. all = loads
    BY <1>2, <1>6
  <2>2. CASE loads = {}
    BY <1>4, <1>6, <2>1, <2>2 DEF ShaderIn, all, loads
  <2>3. CASE loads # {}
    <3>1. Max(loads) \in loads
      BY <1>3, <2>3, MaxIsThere
    <3>2. f[Max(loads)] = e[Max(loads)]
      BY <1>1, <1>3, <3>1
    <3>3. ShaderIn(f, n + 1) = ShaderIn(e, n)
      BY <2>1, <3>2, Zenon DEF ShaderIn, all, loads
    <3> QED BY <1>4, <1>6, <3>3
  <2> QED BY <2>2, <2>3
<1> QED BY <1>5, <1>6

\* The cache holds the shader of the packet executed last that loads one.
ShaderInv == vertexShader = ShaderIn(executed, Len(executed) + 1)

LEMMA ShaderStep ==
    ASSUME ScanInv, ShaderInv, ScanBuffer
    PROVE  ShaderInv'
<1>1. CASE Return
  BY <1>1 DEF Return, machine, ShaderInv
<1>2. CASE ~Return
  <2> DEFINE p == Packet
  <2>1. executed' = Append(executed, p) /\ Decodable
    BY <1>2 DEF ScanBuffer, IndirectBuffer, PassOver, Type0, SetConstant, DrawIndx,
       ImLoadImmediate, EventWriteShd, DrawIndx2, Executes, Step
  <2>2. p \in PM4 /\ executed \in Seq(PM4)
    BY <2>1, PacketDecoded DEF ScanInv
  <2>3. vertexShader' = IF LoadsVertexShader(p) THEN p.hash ELSE vertexShader
    <3>1. CASE ImLoadImmediate
      BY <3>1 DEF ImLoadImmediate
    <3>2. CASE ~ImLoadImmediate
      <4>1. vertexShader' = vertexShader /\ p.op # "load"
        BY <1>2, <3>2 DEF ScanBuffer, IndirectBuffer, Follows, PassOver, NoEffect, Type0,
           SetConstant, DrawIndx, EventWriteShd, DrawIndx2, machine
      <4> QED BY <4>1 DEF LoadsVertexShader
    <3> QED BY <3>1, <3>2
  <2> HIDE DEF p
  <2>4. Len(executed') + 1 = Len(executed) + 2
    BY <2>1, <2>2
  <2>5. ShaderIn(executed', Len(executed') + 1) =
           IF LoadsVertexShader(p) THEN p.hash ELSE ShaderIn(executed, Len(executed) + 1)
    BY <2>1, <2>2, <2>4, ShaderNext
  <2> QED BY <2>3, <2>5 DEF ShaderInv
<1> QED BY <1>1, <1>2

\* The registers hold what the packets executed so far have left there.
RegistersInv == RegsTyped /\ \A r \in Watched: regs[r] = ValueIn(executed, r, Len(executed) + 1)

LEMMA RegistersStep ==
    ASSUME ScanInv, RegistersInv, ScanBuffer
    PROVE  RegistersInv'
<1>1. CASE Return
  <2>1. regs' = regs /\ executed' = executed
    BY <1>1 DEF Return, machine
  <2> QED BY <2>1 DEF RegistersInv, RegsTyped
<1>2. CASE ~Return
  <2>1. Written(Packet) /\ RegsTyped' /\ executed' = Append(executed, Packet) /\ Packet \in PM4
    BY <1>2, RegistersFollow DEF RegistersInv
  <2>2. executed \in Seq(PM4)
    BY DEF ScanInv
  <2> DEFINE p == Packet
  <2> HIDE DEF p
  <2>3. p \in PM4 /\ executed' = Append(executed, p)
    BY <2>1 DEF p
  <2>4. Len(executed') + 1 = Len(executed) + 2
    BY <2>2, <2>3
  <2>5. ASSUME NEW r \in Watched
        PROVE  regs'[r] = ValueIn(executed', r, Len(executed') + 1)
    <3>1. regs'[r] = IF WritersOf(p, r) # {} /\ r < RegisterCount
                     THEN Values(p)[Max(WritersOf(p, r))] ELSE regs[r]
      BY <2>1 DEF Written, p
    <3>2. regs[r] = ValueIn(executed, r, Len(executed) + 1)
      BY DEF RegistersInv
    <3>3. r < RegisterCount <=> ~(r >= RegisterCount)
      BY ProcessorAssumption DEF RegisterCount
    <3>4. ValueIn(executed', r, Len(executed') + 1) =
             IF WritersOf(p, r) # {} /\ ~(r >= RegisterCount) THEN Values(p)[Max(WritersOf(p, r))]
             ELSE ValueIn(executed, r, Len(executed) + 1)
      BY <2>2, <2>3, <2>4, ValueNext
    <3> QED BY <3>1, <3>2, <3>3, <3>4
  <2> QED BY <2>1, <2>5 DEF RegistersInv
<1> QED BY <1>1, <1>2

-----------------------------------------------------------------------------
(* The draws.                                                              *)

LEMMA TimesKeeps ==
    ASSUME NEW a \in Nat, NEW b \in Nat, NEW k \in Nat, a <= b
    PROVE  a * k <= b * k
OBVIOUS

LEMMA DivTimes ==
    ASSUME NEW b \in Nat, NEW k \in Nat \ {0}
    PROVE  b \div k \in Nat /\ (b \div k) * k <= b
OBVIOUS

LEMMA FewerFacts ==
    \A a, b \in Nat: Fewer(a, b) \in Nat /\ Fewer(a, b) <= a /\ Fewer(a, b) <= b
BY DEF Fewer

LEMMA InitiatorFields ==
    ASSUME NEW v \in Nat
    PROVE  DrawInitiator(v).numIndices \in Nat
BY DEF DrawInitiator

LEMMA BytesAreNumbers ==
    ASSUME NEW v \in Nat
    PROVE  BytesOf(v) \in Nat
BY DEF BytesOf

LEMMA SourcesAreNumbers ==
    ASSUME NEW p, p.words \in Nat, NEW di, di.numIndices \in Nat, NEW bytes,
           IsIndexed(di) => IndicesResolved(p, di), Capacity(bytes) \in Nat
    PROVE  Sources(p, di, bytes) \in Seq(Nat)
<1>1. CASE IsIndexed(di)
  <2> DEFINE n == IndexCount(p, di)
  <2>1. n \in Nat /\ n <= p.words
    BY FewerFacts DEF IndexCount
  <2>2. p.words <= Len(Indices) /\ Len(Indices) \in Nat
    <3>1. IndexBytes(p, di) <= MaxBufferBytes /\ MaxBufferBytes <= 2 * Len(Indices)
          /\ Len(Indices) \in Nat /\ MaxBufferBytes \in Nat
      BY <1>1, ProcessorAssumption DEF IndicesResolved
    <3>2. IndexBytes(p, di) = p.words * 4 \/ IndexBytes(p, di) = p.words * 2
      BY DEF IndexBytes
    <3> QED BY <3>1, <3>2
  <2>3. n \in 0..Len(Indices) /\ Indices \in Seq(Nat)
    BY <2>1, <2>2, ProcessorAssumption
  <2>4. Sources(p, di, bytes) = SubSeq(Indices, 1, n)
    BY <1>1 DEF Sources
  <2> HIDE DEF n
  <2> QED BY <2>3, <2>4, BeginningOf
<1>2. CASE ~IsIndexed(di)
  <2> DEFINE n == Fewer(Capacity(bytes), di.numIndices)
  <2>1. n \in Nat
    BY FewerFacts
  <2>2. Sources(p, di, bytes) = [k \in 1..n |-> k - 1]
    BY <1>2 DEF Sources
  <2> HIDE DEF n
  <2> QED BY <2>1, <2>2
<1> QED BY <1>1, <1>2

LEMMA RectanglesFacts ==
    ASSUME NEW s \in Seq(Nat), NEW capacity \in Nat
    PROVE  /\ Cardinality(Rectangles(s, capacity)) \in Nat
           /\ \A r \in Rectangles(s, capacity): \A k \in (3 * r - 2)..(3 * r):
                 s[k] \in Nat /\ s[k] < capacity
<1> DEFINE n == Len(s) \div 3
<1>1. n \in Nat /\ 3 * n <= Len(s) /\ Len(s) \in Nat
  OBVIOUS
<1>2. Rectangles(s, capacity) \subseteq 1..n
  BY DEF Rectangles
<1>3. Cardinality(Rectangles(s, capacity)) \in Nat
  <2>1. IsFiniteSet(1..n)
    BY <1>1, FS_Interval
  <2> QED BY <1>2, <2>1, FS_Subset, FS_CardinalityType
<1>4. ASSUME NEW r \in Rectangles(s, capacity), NEW k \in (3 * r - 2)..(3 * r)
      PROVE  s[k] \in Nat /\ s[k] < capacity
  <2>1. r \in 1..n /\ s[k] < capacity
    BY DEF Rectangles
  <2>2. r \in Nat /\ 1 <= r /\ r <= n
    BY <1>1, <2>1
  <2> HIDE DEF n
  <2>3. k \in 1..Len(s)
    BY <1>1, <2>2
  <2> QED BY <2>1, <2>3
<1> QED BY <1>3, <1>4

LEMMA StrideFacts ==
    ASSUME vertexShader \in DOMAIN Translation
    PROVE  Stride \in Nat \ {0}
BY TranslationAssumption DEF Stride, StrideOf

\* What a command is made of stays within the data it carries.
Contained(c, di, bytes) ==
    /\ c.vertexCount * c.stride <= c.bytes
    /\ c.indexCount <= c.indicesHeld /\ c.indexCount <= di.numIndices
    /\ \A k \in c.corners: (k + 1) * c.stride <= bytes
    /\ IsIndexed(di) /\ ~IsRectList(di) => c.indicesHeld > 0

LEMMA CommandContained ==
    ASSUME vertexShader \in DOMAIN Translation,
           NEW p, p.words \in Nat, NEW di, di.numIndices \in Nat, NEW bytes \in Nat,
           IsIndexed(di) => IndicesResolved(p, di)
    PROVE  Contained(Command(p, di, bytes), di, bytes)
<1> DEFINE c == Command(p, di, bytes)
           s == Sources(p, di, bytes)
           capacity == Capacity(bytes)
           rects == Rectangles(s, capacity)
<1>1. Stride \in Nat \ {0}
  BY StrideFacts
<1>2. capacity \in Nat /\ capacity * Stride <= bytes
  BY <1>1, DivTimes DEF Capacity
<1>3. s \in Seq(Nat)
  BY <1>2, SourcesAreNumbers
<1>4. /\ Cardinality(rects) \in Nat
      /\ \A r \in rects: \A k \in (3 * r - 2)..(3 * r): s[k] \in Nat /\ s[k] < capacity
  <2> HIDE DEF s, capacity
  <2> QED BY <1>2, <1>3, RectanglesFacts
<1>5. /\ c.stride = Stride
      /\ c.vertexCount = IF IsRectList(di) THEN 6 * Cardinality(rects)
                         ELSE IF IsIndexed(di) THEN capacity ELSE Fewer(capacity, di.numIndices)
      /\ c.bytes = IF IsRectList(di) THEN c.vertexCount * Stride ELSE bytes
      /\ c.indexCount = IF IsIndexed(di) /\ ~IsRectList(di) THEN IndexCount(p, di) ELSE 0
      /\ c.indicesHeld = IF IsIndexed(di) /\ ~IsRectList(di) THEN p.words ELSE 0
      /\ c.corners = IF IsRectList(di)
                     THEN UNION {{s[k]: k \in (3 * r - 2)..(3 * r)}: r \in rects} ELSE {}
  BY DEF Command
<1> HIDE DEF c, s, capacity, rects
<1>6. c.vertexCount * c.stride <= c.bytes
  <2>1. CASE IsRectList(di)
    <3>1. c.vertexCount \in Nat
      BY <1>4, <1>5, <2>1
    <3>2. c.vertexCount * Stride \in Nat
      BY <1>1, <3>1
    <3> QED BY <1>5, <2>1, <3>2
  <2>2. CASE ~IsRectList(di)
    <3>1. c.vertexCount \in Nat /\ c.vertexCount <= capacity
      <4>1. Fewer(capacity, di.numIndices) \in Nat /\ Fewer(capacity, di.numIndices) <= capacity
        BY <1>2, FewerFacts
      <4>2. c.vertexCount = capacity \/ c.vertexCount = Fewer(capacity, di.numIndices)
        BY <1>5, <2>2
      <4> QED BY <1>2, <4>1, <4>2
    <3>2. c.vertexCount * Stride <= capacity * Stride
      BY <1>1, <1>2, <3>1, TimesKeeps
    <3>3. c.vertexCount * Stride \in Nat /\ capacity * Stride \in Nat
      BY <1>1, <1>2, <3>1
    <3> QED BY <1>2, <1>5, <2>2, <3>2, <3>3
  <2> QED BY <2>1, <2>2
<1>7. c.indexCount <= c.indicesHeld /\ c.indexCount <= di.numIndices
  <2>1. /\ IndexCount(p, di) <= p.words /\ IndexCount(p, di) <= di.numIndices
        /\ IndexCount(p, di) \in Nat
    BY FewerFacts DEF IndexCount
  <2>2. \/ c.indexCount = IndexCount(p, di) /\ c.indicesHeld = p.words
        \/ c.indexCount = 0 /\ c.indicesHeld = 0
    BY <1>5
  <2> QED BY <2>1, <2>2
<1>8. ASSUME NEW v \in c.corners
      PROVE  (v + 1) * c.stride <= bytes
  <2>1. PICK r \in rects: \E k \in (3 * r - 2)..(3 * r): v = s[k]
    BY <1>5, <1>8
  <2>2. v \in Nat /\ v < capacity
    BY <1>4, <2>1
  <2>3. v + 1 \in Nat /\ v + 1 <= capacity
    BY <1>2, <2>2
  <2>4. (v + 1) * Stride <= capacity * Stride
    BY <1>1, <1>2, <2>3, TimesKeeps
  <2>5. (v + 1) * Stride \in Nat /\ capacity * Stride \in Nat
    BY <1>1, <1>2, <2>3
  <2> QED BY <1>2, <1>5, <2>4, <2>5
<1>9. ASSUME IsIndexed(di), ~IsRectList(di)
      PROVE  c.indicesHeld > 0
  <2>1. c.indicesHeld = p.words
    BY <1>5, <1>9
  <2>2. IndexBytes(p, di) \in 1..MaxBufferBytes
    BY <1>9 DEF IndicesResolved
  <2>3. p.words # 0
    BY <2>2 DEF IndexBytes
  <2> QED BY <2>1, <2>3
<1> QED BY <1>6, <1>7, <1>8, <1>9 DEF Contained, c

\* A command is made of the state its packet, one of those executed, has found.
Seen(e, c) ==
    LET di == DrawInitiator(e[c.at].initiator)
        bytes == BytesOf(ValueIn(e, VertexFetchConstantBase + 1, c.at))
    IN /\ c.primitive = Primitive[di.primType] /\ c.stride = StrideOf(ShaderIn(e, c.at))
       /\ IF IsRectList(di) THEN c.window = (ValueIn(e, ViewportControl, c.at) % 64 = 0)
          ELSE c.bytes = bytes
       /\ Contained(c, di, bytes)

LEMMA SeenLater ==
    ASSUME NEW e \in Seq(PM4), NEW p \in PM4, NEW c, c.at \in 1..Len(e), Seen(e, c)
    PROVE  Seen(Append(e, p), c)
<1>1. Append(e, p)[c.at] = e[c.at] /\ c.at \in 1..(Len(e) + 1)
  OBVIOUS
<1>2. /\ \A r: ValueIn(Append(e, p), r, c.at) = ValueIn(e, r, c.at)
      /\ ShaderIn(Append(e, p), c.at) = ShaderIn(e, c.at)
  BY <1>1, ValueKept, ShaderKept
<1> QED BY <1>1, <1>2, Zenon DEF Seen

\* Another command in the list
LEMMA AppendCommand ==
    ASSUME NEW s, \E S: s \in Seq(S), NEW c
    PROVE  /\ \E S: Append(s, c) \in Seq(S)
           /\ Len(s) \in Nat /\ Len(Append(s, c)) = Len(s) + 1
           /\ \A i \in DOMAIN Append(s, c):
                 (i \in DOMAIN s /\ Append(s, c)[i] = s[i]) \/ Append(s, c)[i] = c
<1>1. PICK S: s \in Seq(S)
  OBVIOUS
<1> DEFINE T == S \cup {c}
<1>2. s \in Seq(T) /\ c \in T
  BY <1>1
<1> HIDE DEF T
<1>3. /\ Append(s, c) \in Seq(T) /\ Len(Append(s, c)) = Len(s) + 1
      /\ Append(s, c)[Len(s) + 1] = c
      /\ \A i \in DOMAIN Append(s, c):
            (i \in DOMAIN s /\ Append(s, c)[i] = s[i]) \/ (i = Len(s) + 1)
  BY <1>2, AppendFacts
<1>4. Len(s) \in Nat
  BY <1>2
<1> QED BY <1>3, <1>4

MachineTyped ==
    /\ vertexShader \in DOMAIN Translation
    /\ memory \in [Words -> Nat] /\ content \in Nat

Made(c, e, s) == c.root \in 1..Len(s) /\ c.at \in 1..Len(e) /\ Seen(e, c)

CommandsInv ==
    /\ (\E S: commands \in Seq(S)) /\ Len(commands) = nextDraw - 1
    /\ \A i \in DOMAIN commands: Made(commands[i], executed, stream)

ProcessorInv ==
    DrawInv /\ ScanInv /\ MachineTyped /\ RegistersInv /\ ShaderInv /\ CommandsInv

\* What the list holds was made earlier, and stays so.
LEMMA MadeStays ==
    ASSUME ScanInv, RegistersInv, ScanBuffer, NEW c, Made(c, executed, stream)
    PROVE  Made(c, executed', stream')
<1>1. stream' = stream /\ executed \in Seq(PM4)
  BY ScanMoves DEF ScanInv
<1>2. CASE Return
  BY <1>1, <1>2 DEF Return, Made
<1>3. CASE ~Return
  <2>1. executed' = Append(executed, Packet) /\ Packet \in PM4
    BY <1>3, RegistersFollow DEF RegistersInv
  <2> DEFINE p == Packet
  <2>2. executed' = Append(executed, p) /\ p \in PM4
    BY <2>1
  <2> HIDE DEF p
  <2>3. Len(executed') = Len(executed) + 1 /\ Len(executed) \in Nat
    BY <1>1, <2>2
  <2>4. Seen(executed, c) /\ c.at \in 1..Len(executed) /\ c.root \in 1..Len(stream)
    BY DEF Made
  <2>5. Seen(executed', c)
    BY <1>1, <2>2, <2>4, SeenLater, Zenon
  <2> QED BY <1>1, <2>3, <2>4, <2>5 DEF Made
<1> QED BY <1>2, <1>3

\* A draw that is taken is made of the registers as they are.
LEMMA DrawMade ==
    ASSUME ScanInv, MachineTyped, RegistersInv, ShaderInv, DrawIndx2, NEW di,
           di = DrawInitiator(ReadRegister(DrawInitiatorRegister, regs')),
           Drawable(Packet, di, VertexBytes(regs))
    PROVE  Made(Command(Packet, di, VertexBytes(regs)), executed', stream')
<1> DEFINE p == Packet
           n == Len(executed) + 1
           bytes == VertexBytes(regs)
           c == Command(p, di, bytes)
<1>1. /\ p \in PM4 /\ p.op = "draw" /\ executed' = Append(executed, p) /\ stream' = stream
      /\ executed \in Seq(PM4) /\ Decodable
  BY PacketDecoded DEF DrawIndx2, Executes, Step, ScanInv
<1>2. regs'[8700] = p.initiator
  BY DrawWritten DEF RegistersInv
<1>3. p.initiator \in Nat /\ p.words \in Nat
  <2> HIDE DEF p
  <2> QED BY <1>1, PacketFields
<1>4. di = DrawInitiator(p.initiator)
  BY <1>2 DEF ReadRegister, Stored, DrawInitiatorRegister, RegisterCount
<1>5. /\ bytes = BytesOf(regs[18433])
      /\ WindowCoordinates(regs) <=> regs[8710] % 64 = 0
      /\ regs[18433] \in Nat
  BY ProcessorAssumption DEF VertexBytes, WindowCoordinates, ReadRegister, Stored, RegisterCount,
     VertexFetchConstantBase, ViewportControl, RegistersInv, RegsTyped
<1>6. /\ c.primitive = Primitive[di.primType] /\ c.at = n /\ c.stride = StrideOf(vertexShader)
      /\ c.root = (IF nested = <<>> THEN next ELSE next - 1)
      /\ c.window = (IsRectList(di) /\ WindowCoordinates(regs))
      /\ ~IsRectList(di) => c.bytes = bytes
  BY DEF Command, Stride
<1>7. Contained(c, di, bytes)
  <2>1. di.numIndices \in Nat /\ bytes \in Nat /\ (IsIndexed(di) => IndicesResolved(p, di))
    BY <1>3, <1>4, <1>5, InitiatorFields, BytesAreNumbers DEF Drawable
  <2> HIDE DEF p, bytes
  <2> QED BY <1>3, <2>1, CommandContained DEF MachineTyped, c
<1>8. c.root \in 1..Len(stream)
  <2> HIDE DEF c
  <2> QED BY <1>1, <1>6, PacketDecoded DEF ScanInv
<1> HIDE DEF p, c, bytes
<1>9. n \in 1..Len(executed') /\ executed'[n] = p
  BY <1>1
<1>10. /\ ValueIn(executed', 18433, n) = regs[18433]
       /\ ValueIn(executed', 8710, n) = regs[8710]
  <2>1. n \in 1..(Len(executed) + 1)
    BY <1>1
  <2>2. \A r: ValueIn(executed', r, n) = ValueIn(executed, r, n)
    BY <1>1, <2>1, ValueKept
  <2> QED BY <2>2, ProcessorAssumption DEF RegistersInv
<1>12. c.stride = StrideOf(ShaderIn(executed', c.at))
  <2>1. n \in 1..(Len(executed) + 1)
    BY <1>1
  <2>2. ShaderIn(executed', n) = ShaderIn(executed, n)
    BY <1>1, <2>1, ShaderKept
  <2> QED BY <1>6, <2>2 DEF ShaderInv
<1>11. Seen(executed', c)
  <2>0. VertexFetchConstantBase + 1 = 18433 /\ ViewportControl = 8710
    BY DEF VertexFetchConstantBase, ViewportControl
  <2>1. /\ executed'[c.at].initiator = p.initiator
        /\ BytesOf(ValueIn(executed', VertexFetchConstantBase + 1, c.at)) = bytes
        /\ WindowCoordinates(regs) <=> ValueIn(executed', ViewportControl, c.at) % 64 = 0
    <3>1. c.at = n
      BY <1>6
    <3>2. executed'[c.at].initiator = p.initiator
      BY <1>9, <3>1
    <3>3. BytesOf(ValueIn(executed', VertexFetchConstantBase + 1, c.at)) = bytes
      BY <1>5, <1>10, <2>0, <3>1
    <3>4. ValueIn(executed', ViewportControl, c.at) = regs[8710]
      BY <1>10, <2>0, <3>1
    <3> QED BY <1>5, <3>2, <3>3, <3>4
  <2>2. IF IsRectList(di) THEN c.window = (ValueIn(executed', ViewportControl, c.at) % 64 = 0)
        ELSE c.bytes = bytes
    BY <1>6, <2>1, Zenon
  <2> QED BY <1>4, <1>6, <1>7, <1>12, <2>1, <2>2, Zenon DEF Seen
<1> QED BY <1>1, <1>6, <1>8, <1>9, <1>11, Zenon DEF Made, p, c, bytes

\* What AddDrawCommand and the command list make of a draw, and of any other packet
LEMMA CommandsStep ==
    ASSUME DrawInv, ScanInv, MachineTyped, RegistersInv, ShaderInv, CommandsInv, ScanBuffer
    PROVE  CommandsInv' /\ [Next]_vars
<1>1. ASSUME commands' = commands, UNCHANGED vars
      PROVE  CommandsInv' /\ [Next]_vars
  <2>1. \A i \in DOMAIN commands: Made(commands[i], executed', stream')
    BY MadeStays DEF CommandsInv
  <2> QED BY <1>1, <2>1 DEF CommandsInv, vars
<1>2. CASE DrawIndx2
  <2> DEFINE di == DrawInitiator(ReadRegister(DrawInitiatorRegister, regs'))
             c == Command(Packet, di, VertexBytes(regs))
  <2>1. CASE Drawable(Packet, di, VertexBytes(regs))
    <3>1. AddDrawCommand /\ commands' = Append(commands, c)
      BY <1>2, <2>1 DEF DrawIndx2
    <3>2. Made(c, executed', stream')
      BY <1>2, <2>1, DrawMade
    <3>3. \A i \in DOMAIN commands: Made(commands[i], executed', stream')
      BY MadeStays DEF CommandsInv
    <3> HIDE DEF c
    <3>4. /\ \E S: commands' \in Seq(S)
          /\ Len(commands') = Len(commands) + 1 /\ Len(commands) \in Nat
          /\ \A i \in DOMAIN commands':
                (i \in DOMAIN commands /\ commands'[i] = commands[i]) \/ commands'[i] = c
      BY <3>1, AppendCommand DEF CommandsInv
    <3>5. Len(commands') = nextDraw' - 1
      <4>1. nextDraw \in Int /\ nextDraw' = nextDraw + 1
        BY <3>1, DrawAssumption DEF AddDrawCommand, DrawInv, TypeOK
      <4> QED BY <3>4, <4>1 DEF CommandsInv
    <3>6. [Next]_vars
      BY <3>1 DEF Next
    <3> QED BY <3>2, <3>3, <3>4, <3>5, <3>6, Zenon DEF CommandsInv
  <2>2. CASE ~Drawable(Packet, di, VertexBytes(regs))
    <3>1. commands' = commands /\ UNCHANGED vars
      BY <1>2, <2>2 DEF DrawIndx2
    <3> QED BY <1>1, <3>1
  <2> QED BY <2>1, <2>2
<1> QED
  BY <1>1, <1>2 DEF ScanBuffer, IndirectBuffer, Return, PassOver, Type0, SetConstant, DrawIndx,
     ImLoadImmediate, EventWriteShd, machine

LEMMA MachineStep ==
    ASSUME ScanInv, MachineTyped, ScanBuffer
    PROVE  MachineTyped'
<1>1. content' = content
  BY ScanMoves
<1>2. CASE EventWriteShd
  <2> DEFINE p == Packet
  <2>1. /\ p \in PM4 /\ p.op = "event" /\ vertexShader' = vertexShader
        /\ \E v \in EventValues(p):
              memory' = IF p.count = 3 THEN [memory EXCEPT ![p.word] = v] ELSE memory
    BY <1>2, PacketDecoded DEF EventWriteShd, Executes
  <2> HIDE DEF p
  <2>2. p.word \in Words /\ EventValues(p) \subseteq Nat
    BY <2>1, PacketFields, VblankAssumption DEF EventValues
  <2> QED BY <1>1, <2>1, <2>2 DEF MachineTyped
<1>3. CASE ImLoadImmediate
  <2> DEFINE p == Packet
  <2>1. /\ p \in PM4 /\ p.op = "load" /\ memory' = memory
        /\ vertexShader' \in {p.hash, vertexShader}
    BY <1>3, PacketDecoded DEF ImLoadImmediate, Executes
  <2> HIDE DEF p
  <2>2. p.hash \in DOMAIN Translation
    BY <2>1, PacketFields
  <2> QED BY <1>1, <2>1, <2>2 DEF MachineTyped
<1> QED
  BY <1>1, <1>2, <1>3 DEF ScanBuffer, IndirectBuffer, Return, PassOver, Type0, SetConstant,
     DrawIndx, DrawIndx2, machine, MachineTyped

LEMMA ProcessorStep ==
    ASSUME ProcessorInv, ScanBuffer
    PROVE  ProcessorInv' /\ [Next]_vars
BY ScanMoves, MachineStep, RegistersStep, ShaderStep, CommandsStep, DrawStep DEF ProcessorInv

LEMMA ProcessorStart == ProcessorInit => ProcessorInv
<1> SUFFICES ASSUME ProcessorInit PROVE ProcessorInv
  OBVIOUS
<1>1. DrawInv /\ nextDraw = 1
  BY DrawInit DEF ProcessorInit, Init
<1>2. ScanInv
  BY ProcessorAssumption DEF ProcessorInit, ScanInv
<1>3. MachineTyped
  BY TranslationAssumption DEF ProcessorInit, MachineTyped
<1>4. RegistersInv
  <2>1. executed = <<>> /\ regs = [i \in Watched |-> 0]
    BY DEF ProcessorInit
  <2>2. \A r: PacketsFor(executed, r, Len(executed) + 1) = {}
    BY <2>1 DEF PacketsFor
  <2> QED BY <2>1, <2>2 DEF RegistersInv, RegsTyped, ValueIn
<1>5. CommandsInv
  <2>1. commands = <<>>
    BY DEF ProcessorInit
  <2>2. commands \in Seq({})
    BY <2>1
  <2> QED BY <1>1, <2>1, <2>2 DEF CommandsInv
<1>6. ShaderInv
  <2>1. executed = <<>> /\ vertexShader = 0
    BY DEF ProcessorInit
  <2>2. LoadsFor(executed, Len(executed) + 1) = {}
    BY <2>1 DEF LoadsFor
  <2> QED BY <2>1, <2>2 DEF ShaderInv, ShaderIn
<1> QED BY <1>1, <1>2, <1>3, <1>4, <1>5, <1>6 DEF ProcessorInv

\* A packet more leaves the packets before it where they are.
LEMMA Appended ==
    ASSUME NEW s \in Seq(PM4), NEW p \in PM4
    PROVE  /\ Append(s, p) \in Seq(PM4) /\ Len(Append(s, p)) >= Len(s)
           /\ Len(s) \in Nat /\ Len(Append(s, p)) \in Nat
           /\ \A i \in 1..Len(s): Append(s, p)[i] = s[i]
OBVIOUS

\* The guest and the overrides: packets are announced, memory and vertex data are written.
LEMMA GuestWrites ==
    ASSUME ProcessorInv, UNCHANGED <<vars, scan, regs, vertexShader, commands, executed>>,
           memory' \in [Words -> Nat], content' \in Nat,
           \/ stream' = stream
           \/ \E p \in PM4: stream' = Append(stream, p)
    PROVE  ProcessorInv'
<1>0. /\ UNCHANGED <<building, ready, lastDrawn, nextDraw, next, nested, regs, vertexShader,
                     commands, executed>>
      /\ stream \in Seq(PM4)
  BY DEF vars, scan, ProcessorInv, ScanInv
<1>1. /\ stream' \in Seq(PM4) /\ Len(stream') >= Len(stream) /\ Len(stream) \in Nat
      /\ Len(stream') \in Nat /\ \A i \in 1..Len(stream): stream'[i] = stream[i]
  <2>1. CASE stream' = stream
    BY <1>0, <2>1
  <2>2. CASE \E p \in PM4: stream' = Append(stream, p)
    <3>1. PICK p \in PM4: stream' = Append(stream, p)
      BY <2>2
    <3> QED BY <1>0, <3>1, Appended
  <2> QED BY <2>1, <2>2
<1>2. DrawInv'
  BY DrawStep DEF ProcessorInv
<1>3. ScanInv'
  <2>1. nested # <<>> => next - 1 \in 1..Len(stream)
    BY <1>1 DEF ProcessorInv, ScanInv
  <2>2. next' \in 1..(Len(stream') + 1)
    BY <1>0, <1>1 DEF ProcessorInv, ScanInv
  <2>3. nested' # <<>> => next' >= 2 /\ stream'[next' - 1].op = "indirect"
    BY <1>0, <1>1, <2>1 DEF ProcessorInv, ScanInv
  <2> QED BY <1>0, <1>1, <2>2, <2>3 DEF ProcessorInv, ScanInv
<1>4. MachineTyped'
  BY <1>0 DEF ProcessorInv, MachineTyped
<1>5. RegistersInv' /\ ShaderInv'
  BY <1>0 DEF ProcessorInv, RegistersInv, RegsTyped, ShaderInv
<1>6. CommandsInv'
  <2>1. \A c: Made(c, executed, stream) => Made(c, executed, stream')
    BY <1>1 DEF Made
  <2> QED BY <1>0, <2>1 DEF ProcessorInv, CommandsInv
<1> QED BY <1>2, <1>3, <1>4, <1>5, <1>6 DEF ProcessorInv

-----------------------------------------------------------------------------
(* When vertex data may be rewritten.                                      *)

GuestTyped ==
    /\ menu \in Menus \cup FenceMenus /\ fenceBlock \in BOOLEAN
    /\ expectation \in 2..MaxExpectation /\ expectation % 2 = 0 /\ lastUse \in 0..expectation
    /\ waiter \in [pc: {"out", "fence", "cursor"}, value: Nat, own: BOOLEAN]
    /\ late \in BOOLEAN /\ ahead \in BOOLEAN /\ trusting \in BOOLEAN
    /\ intended \in Seq(Nat) /\ Len(intended) = Len(stream)

Reads(p) == p.op \in {"draw", "indirect"}
IsFence(p) == p.op = "event" /\ p.word = "fence"

\* A fence of the GPU says that the scan is behind the packet that wrote it.
FenceIsBehind ==
    ~ahead /\ memory["fence"] # 0 =>
        \E j \in 1..(next - 1): IsFence(stream[j]) /\ stream[j].value = memory["fence"]

\* The fences of the stream are those of chunks that have been closed.
FencesClosed ==
    \A j \in DOMAIN stream:
        IsFence(stream[j]) => stream[j].value \in Nat /\ stream[j].value < expectation
                              /\ stream[j].count = 3 /\ ~stream[j].counter

\* A fence in front of a draw is not the one the draw is waited for.
DrawsAfterFence ==
    \A j, i \in DOMAIN stream:
        j < i /\ IsFence(stream[j]) /\ Reads(stream[i]) =>
            lastUse = 0 \/ stream[j].value < lastUse

\* No draw is to come that the guest does not wait for ...
NonePending ==
    ~trusting /\ lastUse = 0 => \A i \in DOMAIN stream: Pending(i) => ~Reads(stream[i])

\* ... and the data it was announced with is there.
DataIsThere ==
    ~trusting => \A i \in DOMAIN stream: Pending(i) /\ Reads(stream[i]) => intended[i] = content

ReuseInv ==
    FenceIsBehind /\ FencesClosed /\ DrawsAfterFence /\ NonePending /\ DataIsThere /\ ReuseIsSafe

FenceInv == ProcessorInv /\ GuestTyped /\ ReuseInv

\* The fence a wait has seen is that of the last draw, or a later one.
LEMMA WaitIsOver ==
    ASSUME ProcessorInv, GuestTyped, ReuseInv, ~ahead, NEW target \in Nat,
           target <= memory["fence"], target >= lastUse, lastUse # 0
    PROVE  \A i \in DOMAIN stream: Pending(i) => ~Reads(stream[i])
<1>1. /\ memory["fence"] \in Nat /\ lastUse \in Nat /\ stream \in Seq(PM4)
      /\ next \in 1..(Len(stream) + 1)
  BY FenceAssumption DEF ProcessorInv, MachineTyped, GuestTyped, ScanInv
<1>2. PICK j \in 1..(next - 1): IsFence(stream[j]) /\ stream[j].value = memory["fence"]
  BY <1>1 DEF ReuseInv, FenceIsBehind
<1>3. j \in DOMAIN stream /\ j \in Nat
  BY <1>1
<1>4. SUFFICES ASSUME NEW i \in DOMAIN stream, Pending(i), Reads(stream[i]) PROVE FALSE
  OBVIOUS
<1>5. i \in Nat /\ i >= next - 1
  BY <1>1, <1>4 DEF Pending
<1>6. i # j
  BY <1>2, <1>4 DEF Reads, IsFence
<1>7. j < i
  BY <1>1, <1>3, <1>5, <1>6
<1>8. stream[j].value < lastUse
  BY <1>1, <1>2, <1>3, <1>4, <1>7 DEF ReuseInv, DrawsAfterFence
<1> QED BY <1>1, <1>2, <1>8

\* The end of a wait: the guest waits for no draw, or for the same.
LEMMA WaitStep ==
    ASSUME FenceInv, UNCHANGED <<processorVars, expectation, intended, ahead>>,
           trusting => trusting',
           \/ lastUse' = lastUse
           \/ lastUse' = 0 /\ trusting'
           \/ lastUse' = 0 /\ \A i \in DOMAIN stream: Pending(i) => ~Reads(stream[i])
    PROVE  ReuseInv'
<1>0. UNCHANGED <<stream, next, nested, memory, content, commands, expectation, intended, ahead>>
  BY DEF processorVars, scan, machine
<1>1. FenceIsBehind' /\ FencesClosed'
  BY <1>0 DEF FenceInv, ReuseInv, FenceIsBehind, FencesClosed
<1>2. DrawsAfterFence'
  BY <1>0 DEF FenceInv, ReuseInv, DrawsAfterFence
<1>3. \A i: Pending(i)' <=> Pending(i)
  BY <1>0 DEF Pending
<1>4. NonePending'
  BY <1>0, <1>3 DEF FenceInv, ReuseInv, NonePending
<1>5. DataIsThere' /\ ReuseIsSafe'
  BY <1>0, <1>3 DEF FenceInv, ReuseInv, DataIsThere, ReuseIsSafe
<1> QED BY <1>1, <1>2, <1>4, <1>5 DEF ReuseInv

\* A packet more in the stream
LEMMA StreamGrows ==
    ASSUME FenceInv, NEW p \in PM4, stream' = Append(stream, p),
           intended' = Append(intended, content), UNCHANGED <<next, nested>>,
           NEW n, n = Len(stream)
    PROVE  /\ n \in Nat /\ DOMAIN stream = 1..n /\ DOMAIN stream' = 1..(n + 1)
           /\ intended' \in Seq(Nat) /\ Len(intended') = Len(stream')
           /\ \A i \in 1..n: /\ stream'[i] = stream[i] /\ intended'[i] = intended[i]
                             /\ Pending(i)' => Pending(i)
           /\ stream'[n + 1] = p /\ intended'[n + 1] = content
           /\ next \in Nat /\ next - 1 <= n
           /\ \A c \in Range(commands): c.root \in 1..n
<1>1. /\ stream \in Seq(PM4) /\ intended \in Seq(Nat) /\ Len(intended) = n /\ content \in Nat
      /\ next \in 1..(n + 1) /\ n \in Nat
  BY DEF FenceInv, ProcessorInv, ScanInv, MachineTyped, GuestTyped
<1>2. /\ DOMAIN stream = 1..n /\ DOMAIN stream' = 1..(n + 1) /\ Len(stream') = n + 1
      /\ \A i \in 1..n: stream'[i] = stream[i]
      /\ stream'[n + 1] = p
  BY <1>1
<1>3. /\ intended' \in Seq(Nat) /\ Len(intended') = n + 1
      /\ \A i \in 1..n: intended'[i] = intended[i]
      /\ intended'[n + 1] = content
  BY <1>1
<1>4. \A i \in 1..n: Pending(i)' => Pending(i)
  BY <1>1, <1>2 DEF Pending
<1>5. \A c \in Range(commands): c.root \in 1..n
  BY DEF FenceInv, ProcessorInv, CommandsInv, Made, Range
<1> QED BY <1>1, <1>2, <1>3, <1>4, <1>5

LEMMA AnnounceStep ==
    ASSUME FenceInv, NEW p \in PM4, LeavesFence(p), Announce(p)
    PROVE  FenceInv'
<1>1. /\ stream' = Append(stream, p) /\ intended' = Append(intended, content)
      /\ UNCHANGED <<vars, scan, next, nested, regs, vertexShader, memory, commands, content,
                     executed, menu, fenceBlock, expectation, waiter, late, ahead, trusting>>
      /\ lastUse' = IF Reads(p) THEN expectation ELSE lastUse
  BY DEF Announce, Announces, Reads, machine, scan
<1> DEFINE n == Len(stream)
<1>2. /\ n \in Nat /\ DOMAIN stream = 1..n /\ DOMAIN stream' = 1..(n + 1)
      /\ intended' \in Seq(Nat) /\ Len(intended') = Len(stream')
      /\ \A i \in 1..n: /\ stream'[i] = stream[i] /\ intended'[i] = intended[i]
                        /\ Pending(i)' => Pending(i)
      /\ stream'[n + 1] = p /\ intended'[n + 1] = content
      /\ next \in Nat /\ next - 1 <= n
      /\ \A c \in Range(commands): c.root \in 1..n
  BY <1>1, StreamGrows
<1> HIDE DEF n
<1>3. ProcessorInv'
  <2>1. memory' \in [Words -> Nat] /\ content' \in Nat
    BY <1>1 DEF FenceInv, ProcessorInv, MachineTyped
  <2> QED BY <1>1, <2>1, GuestWrites DEF FenceInv
<1>4. expectation \in Nat /\ expectation # 0 /\ ~IsFence(p)
  BY FenceAssumption DEF FenceInv, GuestTyped, LeavesFence, IsFence
<1>5. GuestTyped'
  <2>1. lastUse' \in 0..expectation'
    BY <1>1, <1>4 DEF FenceInv, GuestTyped
  <2> QED BY <1>1, <1>2, <2>1 DEF FenceInv, GuestTyped
<1>6. FenceIsBehind'
  <2> SUFFICES ASSUME ~ahead', memory'["fence"] # 0
               PROVE  \E j \in 1..(next - 1): /\ IsFence(stream'[j])
                                              /\ stream'[j].value = memory'["fence"]
    BY <1>1 DEF FenceIsBehind
  <2>1. ~ahead /\ memory' = memory
    BY <1>1
  <2>2. PICK j \in 1..(next - 1): IsFence(stream[j]) /\ stream[j].value = memory["fence"]
    BY <2>1 DEF FenceInv, ReuseInv, FenceIsBehind
  <2>3. stream'[j] = stream[j]
    BY <1>2
  <2> QED BY <2>1, <2>2, <2>3
<1>7. FencesClosed'
  <2>1. \A j \in 1..(n + 1): j \in 1..n \/ j = n + 1
    BY <1>2
  <2> QED BY <1>1, <1>2, <1>4, <2>1 DEF FenceInv, ReuseInv, FencesClosed
<1>8. DrawsAfterFence'
  <2> SUFFICES ASSUME NEW j \in 1..(n + 1), NEW i \in 1..(n + 1), j < i, IsFence(stream'[j]),
                      Reads(stream'[i])
               PROVE  lastUse' = 0 \/ stream'[j].value < lastUse'
    BY <1>2 DEF DrawsAfterFence
  <2>1. j \in 1..n /\ stream'[j] = stream[j] /\ IsFence(stream[j])
    BY <1>2
  <2>2. stream[j].value < expectation
    BY <1>2, <2>1 DEF FenceInv, ReuseInv, FencesClosed
  <2>3. CASE Reads(p)
    BY <1>1, <2>1, <2>2, <2>3
  <2>4. CASE ~Reads(p)
    <3>1. i # n + 1
      BY <1>2, <2>4, Zenon
    <3>2. i \in 1..n
      BY <1>2, <3>1
    <3>3. stream'[i] = stream[i] /\ lastUse' = lastUse
      BY <1>1, <1>2, <2>4, <3>2, Zenon
    <3> QED BY <1>2, <2>1, <3>2, <3>3 DEF FenceInv, ReuseInv, DrawsAfterFence
  <2> QED BY <2>3, <2>4
<1>9. NonePending'
  <2> SUFFICES ASSUME ~trusting', lastUse' = 0, NEW i \in 1..(n + 1), Pending(i)',
                      Reads(stream'[i])
               PROVE  FALSE
    BY <1>2 DEF NonePending
  <2>1. ~Reads(p) /\ lastUse = 0 /\ ~trusting
    BY <1>1, <1>4
  <2>2. i \in 1..n /\ Pending(i) /\ Reads(stream[i])
    BY <1>2, <2>1
  <2> QED BY <1>2, <2>1, <2>2 DEF FenceInv, ReuseInv, NonePending
<1>10. DataIsThere'
  <2> SUFFICES ASSUME ~trusting', NEW i \in 1..(n + 1), Pending(i)', Reads(stream'[i])
               PROVE  intended'[i] = content
    BY <1>1, <1>2 DEF DataIsThere
  <2>1. CASE i = n + 1
    BY <1>2, <2>1
  <2>2. CASE i \in 1..n
    BY <1>1, <1>2, <2>2 DEF FenceInv, ReuseInv, DataIsThere
  <2> QED BY <1>2, <2>1, <2>2
<1>11. ReuseIsSafe'
  BY <1>1, <1>2 DEF FenceInv, ReuseInv, ReuseIsSafe
<1> QED BY <1>3, <1>5, <1>6, <1>7, <1>8, <1>9, <1>10, <1>11 DEF FenceInv, ReuseInv

\* sub_820B5A28 and its override, whoever calls it
LEMMA CloseStep ==
    ASSUME FenceInv, NEW c \in Cursors, CloseChunk(c),
           UNCHANGED <<vars, scan, regs, vertexShader, commands, content, executed, menu,
                       fenceBlock, lastUse, trusting>>,
           waiter' \in [pc: {"out", "fence", "cursor"}, value: Nat, own: BOOLEAN],
           late' \in BOOLEAN
    PROVE  FenceInv'
<1> DEFINE p == FencePacket
           n == Len(stream)
<1>0. /\ expectation \in Nat /\ expectation' = expectation + 2 /\ expectation' \in 2..MaxExpectation
      /\ expectation' % 2 = 0 /\ lastUse \in 0..expectation'
  BY FenceAssumption DEF FenceInv, GuestTyped, CloseChunk
<1>1. /\ stream' = Append(stream, p) /\ intended' = Append(intended, content)
      /\ UNCHANGED <<next, nested>>
      /\ ahead' = (fenceBlock \/ ahead) /\ (fenceBlock \/ memory' = memory)
  BY DEF CloseChunk, scan
<1>2. /\ p \in PM4 /\ IsFence(p) /\ p.value = expectation /\ p.count = 3 /\ ~p.counter
      /\ ~Reads(p)
  BY <1>0, FenceAssumption DEF FencePacket, PM4, IsFence, Reads
<1> HIDE DEF p
<1>3. /\ n \in Nat /\ DOMAIN stream = 1..n /\ DOMAIN stream' = 1..(n + 1)
      /\ intended' \in Seq(Nat) /\ Len(intended') = Len(stream')
      /\ \A i \in 1..n: /\ stream'[i] = stream[i] /\ intended'[i] = intended[i]
                        /\ Pending(i)' => Pending(i)
      /\ stream'[n + 1] = p /\ intended'[n + 1] = content
      /\ next \in Nat /\ next - 1 <= n
      /\ \A d \in Range(commands): d.root \in 1..n
  BY <1>1, <1>2, StreamGrows
<1> HIDE DEF n
<1>4. ProcessorInv'
  <2>1. memory' \in [Words -> Nat] /\ content' \in Nat
    BY <1>0, FenceAssumption DEF CloseChunk, FenceInv, ProcessorInv, MachineTyped
  <2> QED BY <1>1, <1>2, <2>1, GuestWrites DEF FenceInv
<1>5. GuestTyped'
  <2>1. ahead' \in BOOLEAN
    BY <1>1
  <2> QED BY <1>0, <1>3, <2>1 DEF FenceInv, GuestTyped
<1>6. FenceIsBehind'
  <2> SUFFICES ASSUME ~ahead', memory'["fence"] # 0
               PROVE  \E j \in 1..(next - 1): /\ IsFence(stream'[j])
                                              /\ stream'[j].value = memory'["fence"]
    BY <1>1 DEF FenceIsBehind
  <2>1. ~ahead /\ memory' = memory
    BY <1>1
  <2>2. PICK j \in 1..(next - 1): IsFence(stream[j]) /\ stream[j].value = memory["fence"]
    BY <2>1 DEF FenceInv, ReuseInv, FenceIsBehind
  <2>3. stream'[j] = stream[j]
    BY <1>3
  <2> QED BY <2>1, <2>2, <2>3
<1>7. FencesClosed'
  <2> SUFFICES ASSUME NEW j \in 1..(n + 1), IsFence(stream'[j])
               PROVE  /\ stream'[j].value \in Nat /\ stream'[j].value < expectation'
                      /\ stream'[j].count = 3 /\ ~stream'[j].counter
    BY <1>3 DEF FencesClosed
  <2>1. CASE j = n + 1
    BY <1>0, <1>2, <1>3, <2>1
  <2>2. CASE j \in 1..n
    <3>1. /\ stream[j].value \in Nat /\ stream[j].value < expectation /\ stream[j].count = 3
          /\ ~stream[j].counter
      BY <1>3, <2>2 DEF FenceInv, ReuseInv, FencesClosed
    <3>2. stream'[j] = stream[j]
      BY <1>3, <2>2, Zenon
    <3>3. stream[j].value < expectation'
      BY <1>0, <3>1
    <3> QED BY <3>1, <3>2, <3>3, Zenon
  <2> QED BY <1>3, <2>1, <2>2
<1>8. DrawsAfterFence'
  <2> SUFFICES ASSUME NEW j \in 1..(n + 1), NEW i \in 1..(n + 1), j < i, IsFence(stream'[j]),
                      Reads(stream'[i])
               PROVE  lastUse' = 0 \/ stream'[j].value < lastUse'
    BY <1>3 DEF DrawsAfterFence
  <2>1. i \in 1..n /\ j \in 1..n
    BY <1>2, <1>3
  <2> QED BY <1>3, <2>1 DEF FenceInv, ReuseInv, DrawsAfterFence
<1>9. NonePending'
  <2> SUFFICES ASSUME ~trusting', lastUse' = 0, NEW i \in 1..(n + 1), Pending(i)',
                      Reads(stream'[i])
               PROVE  FALSE
    BY <1>3 DEF NonePending
  <2>1. i \in 1..n /\ Pending(i) /\ Reads(stream[i])
    BY <1>2, <1>3
  <2> QED BY <1>3, <2>1 DEF FenceInv, ReuseInv, NonePending
<1>10. DataIsThere'
  <2> SUFFICES ASSUME ~trusting', NEW i \in 1..(n + 1), Pending(i)', Reads(stream'[i])
               PROVE  intended'[i] = content
    BY <1>3 DEF DataIsThere
  <2>1. i \in 1..n
    BY <1>2, <1>3
  <2> QED BY <1>3, <2>1 DEF FenceInv, ReuseInv, DataIsThere
<1>11. ReuseIsSafe'
  BY <1>3 DEF FenceInv, ReuseInv, ReuseIsSafe
<1> QED BY <1>4, <1>5, <1>6, <1>7, <1>8, <1>9, <1>10, <1>11 DEF FenceInv, ReuseInv

LEMMA LongerRange == \A a, b \in Int: b >= a => \A j \in 1..(a - 1): j \in 1..(b - 1)
OBVIOUS

\* The fence is written by a packet of the stream itself, and by no packet behind it.
LEMMA FenceMoves ==
    ASSUME FenceInv, Pump
    PROVE  FenceIsBehind'
<1>1. /\ ScanBuffer /\ stream' = stream /\ ahead' = (ahead /\ ~WritesFence)
      /\ next' >= next /\ next \in 1..(Len(stream) + 1) /\ next' \in Int /\ Len(stream) \in Nat
  BY ScanMoves DEF Pump, FenceInv, ProcessorInv, ScanInv
<1>2. SUFFICES ASSUME ~ahead', memory'["fence"] # 0
               PROVE  \E j \in 1..(next' - 1): /\ IsFence(stream[j])
                                               /\ stream[j].value = memory'["fence"]
  BY <1>1 DEF FenceIsBehind
<1>3. /\ memory \in [Words -> Nat] /\ "fence" \in Words
      /\ \A b \in DOMAIN Buffer: \A i \in DOMAIN Buffer[b]: LeavesFence(Buffer[b][i])
  BY FenceAssumption DEF FenceInv, ProcessorInv, MachineTyped
<1>4. CASE WritesFence
  <2>1. Decodable /\ Packet.op = "event" /\ Packet.count = 3 /\ Packet.word = "fence"
    BY <1>4 DEF WritesFence
  <2>2. EventWriteShd
    BY <1>1, <2>1 DEF ScanBuffer, IndirectBuffer, Follows, Return, PassOver, NoEffect, Type0,
       SetConstant, DrawIndx, ImLoadImmediate, DrawIndx2
  <2>4. nested = <<>>
    BY <1>3, <2>1, PacketDecoded DEF FenceInv, ProcessorInv, LeavesFence
  <2>5. next \in DOMAIN stream /\ Packet = stream[next]
    BY <2>1, <2>4, PacketDecoded DEF FenceInv, ProcessorInv
  <2>3. memory'["fence"] = Packet.value
    <3>1. ~Packet.counter
      BY <2>1, <2>5 DEF FenceInv, ReuseInv, FencesClosed, IsFence
    <3> QED BY <1>3, <2>1, <2>2, <3>1 DEF EventWriteShd, EventValues
  <2>6. next' = next + 1
    BY <2>2, <2>4 DEF EventWriteShd, Executes, Step
  <2>7. next \in 1..(next' - 1)
    BY <1>1, <2>6
  <2> QED BY <2>1, <2>3, <2>5, <2>7 DEF IsFence
<1>5. CASE ~WritesFence
  <2>1. memory'["fence"] = memory["fence"]
    <3>1. CASE EventWriteShd
      <4>1. /\ Packet.count # 3 \/ Packet.word # "fence"
            /\ \E v: memory' = IF Packet.count = 3 THEN [memory EXCEPT ![Packet.word] = v]
                               ELSE memory
        BY <1>5, <3>1 DEF EventWriteShd, Executes, WritesFence
      <4> QED BY <1>3, <4>1
    <3>2. CASE ~EventWriteShd
      BY <1>1, <3>2 DEF ScanBuffer, IndirectBuffer, Return, PassOver, Type0, SetConstant,
         DrawIndx, ImLoadImmediate, DrawIndx2, machine
    <3> QED BY <3>1, <3>2
  <2>2. PICK j \in 1..(next - 1): IsFence(stream[j]) /\ stream[j].value = memory["fence"]
    BY <1>1, <1>2, <1>5, <2>1 DEF FenceInv, ReuseInv, FenceIsBehind
  <2>3. j \in 1..(next' - 1)
    <3>1. next \in Int /\ next' \in Int /\ next' >= next
      BY <1>1
    <3> QED BY <2>2, <3>1, LongerRange, Zenon
  <2> QED BY <2>1, <2>2, <2>3
<1> QED BY <1>4, <1>5

\* A draw copies the vertex data while the packet that leads to it is pending.
LEMMA DrawCopies ==
    ASSUME FenceInv, DrawIndx2, NEW di, NEW bytes
    PROVE  LET c == Command(Packet, di, bytes)
           IN  c.content = content /\ (trusting \/ intended[c.root] = content)
<1> DEFINE c == Command(Packet, di, bytes)
<1>1. c.content = content /\ c.root = IF nested = <<>> THEN next ELSE next - 1
  BY DEF Command
<1> HIDE DEF c
<1>2. ScanInv /\ Decodable /\ Packet.op = "draw"
  BY DEF FenceInv, ProcessorInv, DrawIndx2, Executes
<1>3. Pending(c.root) /\ c.root \in DOMAIN stream /\ Reads(stream[c.root])
  <2>1. CASE nested = <<>>
    <3>1. c.root = next /\ next \in DOMAIN stream /\ Packet = stream[next] /\ next \in Int
      BY <1>1, <1>2, <2>1, PacketDecoded DEF ScanInv
    <3> QED BY <1>2, <3>1 DEF Pending, Reads
  <2>2. CASE nested # <<>>
    <3>1. /\ c.root = next - 1 /\ stream[next - 1].op = "indirect" /\ next >= 2
          /\ next \in 1..(Len(stream) + 1) /\ stream \in Seq(PM4)
      BY <1>1, <1>2, <2>2 DEF ScanInv
    <3>2. c.root \in DOMAIN stream
      BY <3>1
    <3> QED BY <2>2, <3>1, <3>2 DEF Pending, Reads
  <2> QED BY <2>1, <2>2
<1>4. trusting \/ intended[c.root] = content
  BY <1>3 DEF FenceInv, ReuseInv, DataIsThere
<1> QED BY <1>1, <1>4 DEF c

LEMMA PumpStep ==
    ASSUME FenceInv, Pump
    PROVE  FenceInv' /\ [Next]_vars
<1>1. /\ ScanBuffer /\ ahead' = (ahead /\ ~WritesFence)
      /\ UNCHANGED <<menu, fenceBlock, expectation, lastUse, waiter, late, intended, trusting>>
  BY DEF Pump, guestVars
<1>2. ProcessorInv' /\ [Next]_vars
  BY <1>1, ProcessorStep DEF FenceInv
<1>3. stream' = stream /\ content' = content /\ \A i: Pending(i)' => Pending(i)
  BY <1>1, ScanMoves DEF FenceInv, ProcessorInv
<1>4. GuestTyped'
  <2>1. ahead' \in BOOLEAN
    BY <1>1
  <2> QED BY <1>1, <1>3, <2>1 DEF FenceInv, GuestTyped
<1>5. FencesClosed' /\ DrawsAfterFence'
  BY <1>1, <1>3 DEF FenceInv, ReuseInv, FencesClosed, DrawsAfterFence
<1>6. NonePending' /\ DataIsThere'
  BY <1>1, <1>3 DEF FenceInv, ReuseInv, NonePending, DataIsThere
<1>7. ReuseIsSafe'
  <2>1. CASE commands' = commands
    BY <1>1, <2>1 DEF FenceInv, ReuseInv, ReuseIsSafe
  <2>2. CASE DrawIndx2 /\ commands' # commands
    <3> DEFINE di == DrawInitiator(ReadRegister(DrawInitiatorRegister, regs'))
               c == Command(Packet, di, VertexBytes(regs))
    <3>1. commands' = Append(commands, c)
      BY <2>2 DEF DrawIndx2
    <3>2. c.content = content /\ (trusting \/ intended[c.root] = content)
      BY <2>2, DrawCopies
    <3> HIDE DEF c
    <3>3. \A i \in DOMAIN commands':
             (i \in DOMAIN commands /\ commands'[i] = commands[i]) \/ commands'[i] = c
      BY <3>1, AppendCommand DEF FenceInv, ProcessorInv, CommandsInv
    <3>4. \A d \in Range(commands'): d \in Range(commands) \/ d = c
      BY <3>3 DEF Range
    <3> QED BY <1>1, <3>2, <3>4 DEF FenceInv, ReuseInv, ReuseIsSafe
  <2> QED
    BY <1>1, <2>1, <2>2 DEF ScanBuffer, IndirectBuffer, Return, PassOver, Type0, SetConstant,
       DrawIndx, ImLoadImmediate, EventWriteShd, machine
<1> QED BY <1>2, <1>4, <1>5, <1>6, <1>7, FenceMoves DEF FenceInv, ReuseInv

LEMMA RewriteStep ==
    ASSUME FenceInv, Rewrite
    PROVE  FenceInv'
<1>1. /\ lastUse = 0 /\ content' = content + 1
      /\ UNCHANGED <<vars, stream, next, nested, scan, regs, vertexShader, memory, commands,
                     executed, menu, fenceBlock, expectation, lastUse, waiter, late, intended,
                     ahead, trusting>>
  BY DEF Rewrite, scan, machine, guestVars
<1>2. ProcessorInv'
  <2>1. memory' \in [Words -> Nat] /\ content' \in Nat
    BY <1>1 DEF FenceInv, ProcessorInv, MachineTyped
  <2> QED BY <1>1, <2>1, GuestWrites DEF FenceInv
<1>3. GuestTyped' /\ FenceIsBehind' /\ FencesClosed' /\ DrawsAfterFence' /\ ReuseIsSafe'
  BY <1>1 DEF FenceInv, GuestTyped, ReuseInv, FenceIsBehind, FencesClosed, DrawsAfterFence,
     ReuseIsSafe
<1>4. \A i: Pending(i)' <=> Pending(i)
  BY <1>1 DEF Pending
<1>5. NonePending' /\ DataIsThere'
  BY <1>1, <1>4 DEF FenceInv, ReuseInv, NonePending, DataIsThere
<1> QED BY <1>2, <1>3, <1>5 DEF FenceInv, ReuseInv

\* A step of the guest that leaves what the GPU sees alone
LEMMA OnlyGuest ==
    ASSUME FenceInv, UNCHANGED <<processorVars, menu, fenceBlock, expectation, intended, ahead>>,
           waiter' \in [pc: {"out", "fence", "cursor"}, value: Nat, own: BOOLEAN],
           late' \in BOOLEAN, trusting' \in BOOLEAN, trusting => trusting',
           \/ lastUse' = lastUse
           \/ lastUse' = 0 /\ trusting'
           \/ lastUse' = 0 /\ \A i \in DOMAIN stream: Pending(i) => ~Reads(stream[i])
    PROVE  FenceInv'
<1>1. ReuseInv'
  BY WaitStep
<1>2. UNCHANGED <<vars, stream, scan, regs, vertexShader, memory, commands, content, executed>>
  BY DEF processorVars, machine
<1>3. ProcessorInv'
  <2>1. memory' \in [Words -> Nat] /\ content' \in Nat
    BY <1>2 DEF FenceInv, ProcessorInv, MachineTyped
  <2> QED BY <1>2, <2>1, GuestWrites DEF FenceInv
<1>4. lastUse' \in 0..expectation
  <2>1. lastUse \in 0..expectation /\ 0 \in 0..expectation
    BY FenceAssumption DEF FenceInv, GuestTyped
  <2> QED BY <2>1
<1>5. GuestTyped'
  BY <1>2, <1>4 DEF FenceInv, GuestTyped
<1> QED BY <1>1, <1>3, <1>5 DEF FenceInv

LEMMA PassStep ==
    ASSUME FenceInv, NEW target \in Nat, WaitPassesAtOnce(target)
    PROVE  FenceInv'
<1>1. /\ target <= memory["fence"]
      /\ lastUse' = IF target >= lastUse THEN 0 ELSE lastUse
      /\ trusting' = (trusting \/ ahead)
      /\ UNCHANGED <<processorVars, menu, fenceBlock, expectation, waiter, late, intended, ahead>>
  BY DEF WaitPassesAtOnce, Passed
<1>2. \/ lastUse' = lastUse
      \/ lastUse' = 0 /\ trusting'
      \/ lastUse' = 0 /\ \A i \in DOMAIN stream: Pending(i) => ~Reads(stream[i])
  BY <1>1, WaitIsOver DEF FenceInv
<1>3. /\ waiter' \in [pc: {"out", "fence", "cursor"}, value: Nat, own: BOOLEAN]
      /\ late' \in BOOLEAN
  BY <1>1 DEF FenceInv, GuestTyped
<1>4. trusting' \in BOOLEAN /\ (trusting => trusting')
  BY <1>1
<1> QED BY <1>1, <1>2, <1>3, <1>4, OnlyGuest

LEMMA RecheckStep ==
    ASSUME FenceInv, Recheck
    PROVE  FenceInv'
<1>1. /\ waiter' = Out
      /\ lastUse' = IF waiter.pc = "fence" /\ waiter.value >= lastUse THEN 0 ELSE lastUse
      /\ trusting' = (trusting \/ (waiter.pc = "fence" /\ (~FencePassed \/ ahead)))
      /\ UNCHANGED <<processorVars, menu, fenceBlock, expectation, late, intended, ahead>>
  BY DEF Recheck
<1>2. waiter.value \in Nat /\ late' \in BOOLEAN
  BY <1>1 DEF FenceInv, GuestTyped
<1>3. waiter' \in [pc: {"out", "fence", "cursor"}, value: Nat, own: BOOLEAN]
  BY <1>1 DEF Out
<1>4. \/ lastUse' = lastUse
      \/ lastUse' = 0 /\ trusting'
      \/ lastUse' = 0 /\ \A i \in DOMAIN stream: Pending(i) => ~Reads(stream[i])
  <2>1. CASE trusting' \/ lastUse' = lastUse
    BY <1>1, <2>1
  <2>2. CASE ~trusting' /\ lastUse' # lastUse
    <3>1. /\ waiter.value >= lastUse /\ lastUse' = 0 /\ lastUse # 0 /\ ~ahead
          /\ waiter.value <= memory["fence"]
      BY <1>1, <2>2 DEF FencePassed, Passed
    <3> DEFINE target == waiter.value
    <3>2. target \in Nat /\ target >= lastUse /\ target <= memory["fence"]
      BY <1>2, <3>1
    <3> HIDE DEF target
    <3> QED BY <3>1, <3>2, WaitIsOver DEF FenceInv
  <2> QED BY <2>1, <2>2
<1>5. trusting' \in BOOLEAN /\ (trusting => trusting')
  BY <1>1
<1> QED BY <1>1, <1>2, <1>3, <1>4, <1>5, OnlyGuest

\* The value a wait is for, and whose chunk it is
LEMMA WaiterTyped ==
    ASSUME NEW pc \in {"fence", "cursor"}, NEW v \in Nat, NEW own \in BOOLEAN
    PROVE  [pc |-> pc, value |-> v, own |-> own]
              \in [pc: {"out", "fence", "cursor"}, value: Nat, own: BOOLEAN]
OBVIOUS

LEMMA BeginStep ==
    ASSUME FenceInv, NEW target \in Nat, NEW inProgress \in BOOLEAN, NEW c \in Cursors,
           sub_820B5BC8(target, inProgress, c)
    PROVE  FenceInv'
<1> DEFINE own == target = expectation /\ ~inProgress
<1>1. waiter' = [pc |-> "fence", value |-> target, own |-> own] /\ late' = FALSE
  BY DEF sub_820B5BC8
<1>2. waiter' \in [pc: {"out", "fence", "cursor"}, value: Nat, own: BOOLEAN]
  <2>1. own \in BOOLEAN
    OBVIOUS
  <2> HIDE DEF own
  <2> QED BY <1>1, <2>1, WaiterTyped
<1>3. UNCHANGED <<vars, scan, regs, vertexShader, commands, content, executed, menu, fenceBlock,
                  lastUse, trusting>>
  BY DEF sub_820B5BC8
<1>4. CASE Flushes(target, inProgress)
  <2>1. CloseChunk(c)
    BY <1>4 DEF sub_820B5BC8
  <2> QED BY <1>1, <1>2, <1>3, <2>1, CloseStep
<1>5. CASE ~Flushes(target, inProgress)
  <2>1. UNCHANGED <<memory, ahead, stream, intended, expectation>>
    BY <1>5 DEF sub_820B5BC8
  <2>2. UNCHANGED <<processorVars, menu, fenceBlock, expectation, intended, ahead>>
    BY <1>3, <2>1 DEF processorVars, machine
  <2>3. trusting' = trusting /\ trusting' \in BOOLEAN /\ lastUse' = lastUse
    BY <1>3 DEF FenceInv, GuestTyped
  <2> QED BY <1>1, <1>2, <2>2, <2>3, OnlyGuest
<1> QED BY <1>4, <1>5

LEMMA CursorStep ==
    ASSUME FenceInv, NEW x \in Cursors, NEW target, sub_820B4EE8(x, target)
    PROVE  FenceInv'
<1>1. /\ waiter' = [pc |-> "cursor", value |-> x, own |-> FALSE] /\ late' = FALSE
      /\ UNCHANGED <<processorVars, menu, fenceBlock, expectation, lastUse, intended, ahead,
                     trusting>>
  BY DEF sub_820B4EE8
<1>2. waiter' \in [pc: {"out", "fence", "cursor"}, value: Nat, own: BOOLEAN]
  BY <1>1, WaiterTyped, FenceAssumption
<1>3. trusting' \in BOOLEAN
  BY <1>1 DEF FenceInv, GuestTyped
<1> QED BY <1>1, <1>2, <1>3, OnlyGuest

LEMMA TimeStep ==
    ASSUME FenceInv, TimePasses
    PROVE  FenceInv'
<1>1. /\ late' = TRUE
      /\ UNCHANGED <<processorVars, menu, fenceBlock, expectation, lastUse, waiter, intended,
                     ahead, trusting>>
  BY DEF TimePasses
<1>2. /\ waiter' \in [pc: {"out", "fence", "cursor"}, value: Nat, own: BOOLEAN]
      /\ trusting' \in BOOLEAN
  BY <1>1 DEF FenceInv, GuestTyped
<1> QED BY <1>1, <1>2, OnlyGuest

\* The other two users of the draw list
LEMMA ListMoves ==
    ASSUME FenceInv, List
    PROVE  FenceInv' /\ [Next]_vars
<1>1. /\ SwapReady \/ TakeReady
      /\ UNCHANGED <<stream, next, nested, regs, vertexShader, memory, commands, content, executed,
                     menu, fenceBlock, expectation, lastUse, waiter, late, intended, ahead,
                     trusting>>
  BY DEF List, ListStep, scan, machine, guestVars
<1>2. [Next]_vars /\ nextDraw' = nextDraw
  BY <1>1 DEF Next, SwapReady, TakeReady
<1>3. DrawInv'
  BY <1>2, DrawStep DEF FenceInv, ProcessorInv
<1>4. ScanInv' /\ MachineTyped' /\ RegistersInv' /\ ShaderInv' /\ CommandsInv'
  BY <1>1, <1>2 DEF FenceInv, ProcessorInv, ScanInv, MachineTyped, RegistersInv, RegsTyped,
     ShaderInv, CommandsInv
<1>5. \A i: Pending(i)' <=> Pending(i)
  BY <1>1 DEF Pending
<1>6. /\ GuestTyped' /\ FenceIsBehind' /\ FencesClosed' /\ DrawsAfterFence' /\ ReuseIsSafe'
  BY <1>1 DEF FenceInv, GuestTyped, ReuseInv, FenceIsBehind, FencesClosed, DrawsAfterFence,
     ReuseIsSafe
<1>7. NonePending' /\ DataIsThere'
  BY <1>1, <1>5 DEF FenceInv, ReuseInv, NonePending, DataIsThere
<1> QED BY <1>2, <1>3, <1>4, <1>6, <1>7 DEF FenceInv, ProcessorInv, ReuseInv

LEMMA GuestStep ==
    ASSUME FenceInv, Guest
    PROVE  FenceInv'
<1>1. CASE Rewrite
  BY <1>1, RewriteStep
<1>2. ASSUME NEW p \in menu, Announce(p)
      PROVE  FenceInv'
  <2>1. menu \in Menus \cup FenceMenus
    BY DEF FenceInv, GuestTyped
  <2>2. p \in PM4 /\ LeavesFence(p)
    BY <2>1, FenceAssumption
  <2> QED BY <1>2, <2>2, AnnounceStep
<1>3. ASSUME NEW c \in Cursors, sub_820B5A28(c)
      PROVE  FenceInv'
  <2>1. /\ CloseChunk(c)
        /\ UNCHANGED <<vars, scan, regs, vertexShader, commands, content, executed, menu,
                       fenceBlock, lastUse, waiter, late, trusting>>
    BY <1>3 DEF sub_820B5A28
  <2>2. /\ waiter' \in [pc: {"out", "fence", "cursor"}, value: Nat, own: BOOLEAN]
        /\ late' \in BOOLEAN
    BY <2>1 DEF FenceInv, GuestTyped
  <2> QED BY <2>1, <2>2, CloseStep
<1>4. 0..expectation \subseteq Nat
  OBVIOUS
<1>5. ASSUME NEW t \in 0..expectation, WaitPassesAtOnce(t)
      PROVE  FenceInv'
  BY <1>4, <1>5, PassStep
<1>6. ASSUME NEW t \in 0..expectation, NEW inProgress \in BOOLEAN, NEW c \in Cursors,
             sub_820B5BC8(t, inProgress, c)
      PROVE  FenceInv'
  BY <1>4, <1>6, BeginStep
<1>7. ASSUME NEW x \in Cursors, NEW t \in Cursors, sub_820B4EE8(x, t)
      PROVE  FenceInv'
  BY <1>7, CursorStep
<1> QED BY <1>1, <1>2, <1>3, <1>5, <1>6, <1>7 DEF Guest

LEMMA FenceStart == FenceInit => FenceInv
<1> SUFFICES ASSUME FenceInit PROVE FenceInv
  OBVIOUS
<1>1. ProcessorInv
  BY ProcessorStart DEF FenceInit
<1>2. /\ stream = <<>> /\ memory = [w \in Words |-> 0] /\ commands = <<>> /\ intended = <<>>
      /\ expectation = 2 /\ lastUse = 0 /\ waiter = Out /\ ~late /\ late \in BOOLEAN
      /\ ahead = FALSE /\ trusting = FALSE
      /\ menu \in Menus \cup FenceMenus /\ fenceBlock \in BOOLEAN
  BY DEF FenceInit, ProcessorInit
<1>3. GuestTyped
  <2>1. expectation \in 2..MaxExpectation /\ expectation % 2 = 0 /\ lastUse \in 0..expectation
    BY <1>2, FenceAssumption
  <2>2. waiter \in [pc: {"out", "fence", "cursor"}, value: Nat, own: BOOLEAN]
    BY <1>2 DEF Out
  <2>3. intended \in Seq(Nat) /\ Len(intended) = Len(stream)
    BY <1>2
  <2>4. ahead \in BOOLEAN /\ trusting \in BOOLEAN
    BY <1>2
  <2> QED BY <1>2, <2>1, <2>2, <2>3, <2>4 DEF GuestTyped
<1>4. FenceIsBehind
  BY <1>2, FenceAssumption DEF FenceIsBehind
<1>5. DOMAIN stream = {} /\ Range(commands) = {}
  BY <1>2 DEF Range
<1>6. FencesClosed /\ DrawsAfterFence /\ NonePending /\ DataIsThere /\ ReuseIsSafe
  BY <1>5 DEF FencesClosed, DrawsAfterFence, NonePending, DataIsThere, ReuseIsSafe
<1> QED BY <1>1, <1>3, <1>4, <1>6 DEF FenceInv, ReuseInv

\* A step of the composition is a step of the draw list, or none of its.
LEMMA FenceStep ==
    ASSUME FenceInv, [FenceNext]_fenceVars
    PROVE  FenceInv' /\ [Next]_vars
<1>1. CASE Guest
  <2>1. UNCHANGED vars
    BY <1>1 DEF Guest, Rewrite, Announce, Announces, sub_820B5A28, WaitPassesAtOnce, sub_820B5BC8,
       sub_820B4EE8, processorVars
  <2> QED BY <1>1, <2>1, GuestStep
<1>2. CASE Recheck
  <2>1. UNCHANGED vars
    BY <1>2 DEF Recheck, processorVars
  <2> QED BY <1>2, <2>1, RecheckStep
<1>3. CASE TimePasses
  <2>1. UNCHANGED vars
    BY <1>3 DEF TimePasses, processorVars
  <2> QED BY <1>3, <2>1, TimeStep
<1>4. CASE UNCHANGED fenceVars
  <2>1. /\ UNCHANGED <<processorVars, menu, fenceBlock, expectation, lastUse, waiter, late,
                       intended, ahead, trusting>>
        /\ UNCHANGED vars
    BY <1>4 DEF fenceVars, guestVars, processorVars
  <2>2. /\ waiter' \in [pc: {"out", "fence", "cursor"}, value: Nat, own: BOOLEAN]
        /\ late' \in BOOLEAN /\ trusting' \in BOOLEAN
    BY <2>1 DEF FenceInv, GuestTyped
  <2> QED BY <2>1, <2>2, OnlyGuest
<1> QED BY <1>1, <1>2, <1>3, <1>4, PumpStep, ListMoves DEF FenceNext

\* Guest, overrides, command processor and draw list keep the invariant the theorems below
\* rest on, whatever packets the guest announces and whichever way the overrides pass.
THEOREM FenceInvariant == FenceSpec => []FenceInv
<1>1. FenceInv /\ [FenceNext]_fenceVars => FenceInv'
  BY FenceStep
<1> QED BY <1>1, FenceStart, PTL DEF FenceSpec

\* With guest, overrides, command processor and the three threads of the draw list at work,
\* the draw list does nothing that FrameDrawList does not allow: no packet loses a draw,
\* makes one twice or puts it in front of an older one.
THEOREM UsesTheDrawList == FenceSpec => Spec
<1>1. FenceInit => Init
  BY DEF FenceInit, ProcessorInit
<1>2. FenceInv /\ [FenceNext]_fenceVars => [Next]_vars
  BY FenceStep
<1> QED BY <1>1, <1>2, FenceInvariant, PTL DEF FenceSpec, Spec

\* The types of the composition, for any packets a guest may announce: a register behind the
\* end of the file is never stored.
THEOREM FenceTypes == FenceSpec => []FenceTypeOK
<1>1. FenceInv => FenceTypeOK
  <2> SUFFICES ASSUME FenceInv PROVE FenceTypeOK
    OBVIOUS
  <2>1. TypeOK
    BY DEF FenceInv, ProcessorInv, DrawInv
  <2>2. ProcessorTypeOK
    BY DEF FenceInv, ProcessorInv, ScanInv, MachineTyped, RegistersInv, RegsTyped, ShaderInv, CommandsInv,
       ProcessorTypeOK
  <2> QED BY <2>1, <2>2 DEF FenceInv, GuestTyped, FenceTypeOK
<1> QED BY <1>1, FenceInvariant, PTL

\* Vertex data that a guest rewrites after its wait is not drawn by a draw announced with
\* the data it replaced, unless a wait gave up or sub_820B5A28 wrote the fence first.
THEOREM RewritingIsSafe == FenceSpec => []ReuseIsSafe
<1>1. FenceInv => ReuseIsSafe
  BY DEF FenceInv, ReuseInv
<1> QED BY <1>1, FenceInvariant, PTL

\* Every draw is made of the registers as the packets before it left them, however they
\* were written and in whatever buffers.
THEOREM DrawsSeeState == FenceSpec => []DrawsSeeTheirState
<1>1. FenceInv => DrawsSeeTheirState
  <2> SUFFICES ASSUME FenceInv, NEW c \in Range(commands)
               PROVE  LET di == DrawInitiator(executed[c.at].initiator)
                          bytes == BytesOf(ValueAt(VertexFetchConstantBase + 1, c.at))
                      IN /\ c.primitive = Primitive[di.primType]
                         /\ c.stride = StrideOf(ShaderAt(c.at))
                         /\ IF IsRectList(di)
                            THEN c.window = (ValueAt(ViewportControl, c.at) % 64 = 0)
                            ELSE c.bytes = bytes
    BY DEF DrawsSeeTheirState
  <2>1. Seen(executed, c)
    BY DEF FenceInv, ProcessorInv, CommandsInv, Made, Range
  <2> QED BY <2>1, ValueAtIs, ShaderAtIs, Zenon DEF Seen
<1> QED BY <1>1, FenceInvariant, PTL

\* No draw is given more vertices or indices than it carries, nor a corner of a rectangle
\* that its vertices do not have, whatever sizes, strides and counts the packets claim.
THEOREM CountsStayInside == FenceSpec => []CountsInsideBuffers
<1>1. FenceInv => CountsInsideBuffers
  <2> SUFFICES ASSUME FenceInv, NEW c \in Range(commands)
               PROVE  LET di == DrawInitiator(executed[c.at].initiator)
                          bytes == BytesOf(ValueAt(VertexFetchConstantBase + 1, c.at))
                      IN Contained(c, di, bytes)
    BY DEF CountsInsideBuffers, Contained
  <2>1. Seen(executed, c)
    BY DEF FenceInv, ProcessorInv, CommandsInv, Made, Range
  <2> QED BY <2>1, ValueAtIs, Zenon DEF Seen
<1> QED BY <1>1, FenceInvariant, PTL

\* Draws are shown in the order the pump thread parsed them.
THEOREM DrawsStayInOrder == Spec => []DrawOrder
<1>1. DrawInv => DrawOrder
  BY DEF DrawInv
<1> QED BY <1>1, DrawInit, DrawStep, PTL DEF Spec

\* However the three threads interleave, the newest parsed draw is on screen or on
\* its way there: no swap and no refresh destroys it.
THEOREM NewestDrawIsKept == Spec => []NewestKept
<1>1. DrawInv => NewestKept
  BY DEF DrawInv
<1> QED BY <1>1, DrawInit, DrawStep, PTL DEF Spec

\* The three lists hold nothing but draws that were parsed, whatever the rates of the
\* three threads.
THEOREM TypeCorrect == Spec => []TypeOK
<1>1. DrawInv => TypeOK
  BY DEF DrawInv
<1> QED BY <1>1, DrawInit, DrawStep, PTL DEF Spec

-----------------------------------------------------------------------------
(* FlattenSeq, whose recursive function is unfolded step by step.          *)

\* The concatenations of the first sequences of ss, up to n of them
Joins(f, ss, n) == f = [i \in 1..n |-> IF i = 1 THEN ss[i] ELSE f[i - 1] \o ss[i]]

\* By the least n for which there would be none
LEMMA JoinsExist ==
    ASSUME NEW ss, NEW n \in Nat
    PROVE  \E f: Joins(f, ss, n)
<1> DEFINE Bad == {m \in Nat: ~\E f: Joins(f, ss, m)}
<1>1. SUFFICES ASSUME Bad # {} PROVE FALSE
  OBVIOUS
<1>2. PICK m \in Bad: \A k \in Bad: m <= k
  BY <1>1, LeastOf
<1>3. m # 0
  <2>1. Joins([i \in 1..0 |-> 0], ss, 0)
    BY DEF Joins
  <2> QED BY <1>2, <2>1
<1>4. m - 1 \in Nat /\ m - 1 \notin Bad
  BY <1>2, <1>3
<1>5. PICK f: Joins(f, ss, m - 1)
  BY <1>4
<1> DEFINE g == [i \in 1..m |-> IF i < m THEN f[i] ELSE IF m = 1 THEN ss[m] ELSE f[m - 1] \o ss[m]]
<1>6. \A i \in 1..m: g[i] = IF i = 1 THEN ss[i] ELSE g[i - 1] \o ss[i]
  <2> SUFFICES ASSUME NEW i \in 1..m PROVE g[i] = IF i = 1 THEN ss[i] ELSE g[i - 1] \o ss[i]
    OBVIOUS
  <2>1. CASE i < m
    <3>1. i \in 1..(m - 1)
      BY <2>1, <1>2
    <3>2. f[i] = IF i = 1 THEN ss[i] ELSE f[i - 1] \o ss[i]
      BY <3>1, <1>5 DEF Joins
    <3>3. i # 1 => g[i - 1] = f[i - 1]
      BY <1>2, <2>1
    <3> QED BY <2>1, <3>2, <3>3
  <2>2. CASE i = m
    <3>1. i # 1 => g[i - 1] = f[i - 1]
      BY <1>2, <2>2
    <3> QED BY <2>2, <3>1
  <2> QED BY <2>1, <2>2, <1>2
<1>7. g = [i \in 1..m |-> IF i = 1 THEN ss[i] ELSE g[i - 1] \o ss[i]]
  <2>1. g = [i \in 1..m |-> g[i]]
    OBVIOUS
  <2> HIDE DEF g
  <2> QED BY <2>1, <1>6
<1>8. Joins(g, ss, m)
  BY <1>7 DEF Joins
<1> QED BY <1>2, <1>8

\* Read at one place
LEMMA JoinsAt ==
    ASSUME NEW ss, NEW n, NEW f, Joins(f, ss, n), NEW i \in 1..n
    PROVE  f[i] = IF i = 1 THEN ss[i] ELSE f[i - 1] \o ss[i]
BY DEF Joins

\* Sequences of sequences that agree up to n have the same concatenations up to n.
LEMMA JoinsAgree ==
    ASSUME NEW ss, NEW tt, NEW n \in Nat, NEW k \in Nat, n <= k, NEW f, NEW g,
           Joins(f, ss, n), Joins(g, tt, k), \A i \in 1..n: tt[i] = ss[i]
    PROVE  \A i \in 1..n: g[i] = f[i]
<1> DEFINE Bad == {m \in 1..n: g[m] # f[m]}
<1>1. SUFFICES ASSUME Bad # {} PROVE FALSE
  OBVIOUS
<1>2. Bad \in SUBSET Nat
  OBVIOUS
<1>3. PICK m \in Bad: \A j \in Bad: m <= j
  BY <1>1, <1>2, LeastOf
<1>4. f[m] = IF m = 1 THEN ss[m] ELSE f[m - 1] \o ss[m]
  BY <1>3 DEF Joins
<1>5. g[m] = IF m = 1 THEN tt[m] ELSE g[m - 1] \o tt[m]
  <2>1. m \in 1..k
    BY <1>3
  <2> QED BY <2>1 DEF Joins
<1>6. m # 1 => g[m - 1] = f[m - 1]
  <2> SUFFICES ASSUME m # 1 PROVE g[m - 1] = f[m - 1]
    OBVIOUS
  <2>1. m - 1 \in 1..n /\ m - 1 \notin Bad
    BY <1>3
  <2> QED BY <2>1
<1> QED BY <1>3, <1>4, <1>5, <1>6

\* FlattenSeq is the last of the concatenations.
LEMMA FlattenIsLast ==
    ASSUME NEW S, NEW ss \in Seq(S), ss # <<>>, NEW f, Joins(f, ss, Len(ss))
    PROVE  FlattenSeq(ss) = f[Len(ss)]
<1> DEFINE g == CHOOSE h: Joins(h, ss, Len(ss))
<1>1. FlattenSeq(ss) = g[Len(ss)]
  BY DEF FlattenSeq, Joins
<1>2. Joins(g, ss, Len(ss))
  OBVIOUS
<1> HIDE DEF g
<1>3. \A i \in 1..Len(ss): g[i] = f[i]
  BY <1>2, JoinsAgree
<1> QED BY <1>1, <1>3

LEMMA FlattenEmpty == FlattenSeq(<<>>) = <<>>
  BY DEF FlattenSeq

\* One sequence more
LEMMA FlattenMore ==
    ASSUME NEW S, NEW ss \in Seq(S), NEW tt \in Seq(S), Len(tt) = Len(ss) + 1, ss # <<>>,
           \A i \in 1..Len(ss): tt[i] = ss[i]
    PROVE  FlattenSeq(tt) = FlattenSeq(ss) \o tt[Len(tt)]
<1>1. PICK n \in Nat: n = Len(ss)
  OBVIOUS
<1>2. PICK m \in Nat: m = n + 1
  BY <1>1
<1>3. Len(tt) = m /\ tt # <<>> /\ n <= m /\ n \in 1..n /\ m \in 1..m /\ m # 1 /\ m - 1 = n
  BY <1>1, <1>2
<1>4. PICK f: Joins(f, ss, n)
  BY JoinsExist
<1>5. PICK g: Joins(g, tt, m)
  BY JoinsExist
<1>6. \A i \in 1..n: g[i] = f[i]
  <2>1. \A i \in 1..n: tt[i] = ss[i]
    BY <1>1
  <2>2. n \in Nat /\ m \in Nat /\ n <= m
    BY <1>1, <1>2, <1>3
  <2> QED BY <1>4, <1>5, <2>1, <2>2, JoinsAgree
<1>7. FlattenSeq(ss) = f[n] /\ FlattenSeq(tt) = g[m]
  BY <1>1, <1>3, <1>4, <1>5, FlattenIsLast
<1>8. g[m] = g[n] \o tt[m]
  <2>1. m \in 1..m
    BY <1>3
  <2>2. g[m] = IF m = 1 THEN tt[m] ELSE g[m - 1] \o tt[m]
    BY <1>5, <2>1, JoinsAt
  <2> QED BY <1>3, <2>2
<1> QED BY <1>3, <1>6, <1>7, <1>8

\* One sequence only
LEMMA FlattenOne ==
    ASSUME NEW x
    PROVE  FlattenSeq(<<x>>) = x
<1>1. PICK f: Joins(f, <<x>>, 1)
  BY JoinsExist
<1>2. f[1] = x
  BY <1>1, JoinsAt
<1>3. <<x>> \in Seq({x}) /\ <<x>> # <<>> /\ Len(<<x>>) = 1
  OBVIOUS
<1> QED BY <1>1, <1>2, <1>3, FlattenIsLast

\* A sequence more is concatenated last.
LEMMA FlattenAppend ==
    ASSUME NEW S, NEW ss \in Seq(Seq(S)), NEW x \in Seq(S)
    PROVE  FlattenSeq(Append(ss, x)) = FlattenSeq(ss) \o x
<1>1. CASE ss = <<>>
  <2>1. Append(ss, x) = <<x>>
    BY <1>1
  <2>2. <<>> \o x = x
    OBVIOUS
  <2> QED BY <1>1, <2>1, <2>2, FlattenEmpty, FlattenOne
<1>2. CASE ss # <<>>
  <2>1. PICK tt: tt = Append(ss, x)
    OBVIOUS
  <2>2. tt \in Seq(Seq(S)) /\ Len(tt) = Len(ss) + 1
    BY <2>1
  <2>3. \A i \in 1..Len(ss): tt[i] = ss[i]
    BY <2>1
  <2>4. tt[Len(tt)] = x
    BY <2>1
  <2>5. FlattenSeq(tt) = FlattenSeq(ss) \o tt[Len(tt)]
    BY <1>2, <2>2, <2>3, FlattenMore
  <2> QED BY <2>1, <2>4, <2>5
<1> QED BY <1>1, <1>2

\* What is joined is a sequence.
LEMMA FlattenTyped ==
    ASSUME NEW S, NEW ss \in Seq(Seq(S))
    PROVE  FlattenSeq(ss) \in Seq(S)
<1> DEFINE n == Len(ss)
<1>1. n \in Nat /\ \A i \in 1..n: ss[i] \in Seq(S)
  OBVIOUS
<1> HIDE DEF n
<1>2. PICK f: Joins(f, ss, n)
  BY <1>1, JoinsExist
<1> DEFINE Bad == {m \in 1..n: f[m] \notin Seq(S)}
<1>3. Bad = {}
  <2> SUFFICES ASSUME Bad # {} PROVE FALSE
    OBVIOUS
  <2>1. Bad \in SUBSET Nat
    BY <1>1
  <2>2. PICK m \in Bad: \A j \in Bad: m <= j
    BY <2>1, LeastOf
  <2>3. f[m] = IF m = 1 THEN ss[m] ELSE f[m - 1] \o ss[m]
    BY <1>2, <2>2 DEF Joins
  <2>4. m # 1 => m - 1 \in 1..n /\ m - 1 \notin Bad
    BY <1>1, <2>2
  <2>5. m # 1 => f[m - 1] \in Seq(S)
    BY <2>4
  <2>6. ss[m] \in Seq(S)
    BY <1>1, <2>2
  <2>7. m # 1 => f[m - 1] \o ss[m] \in Seq(S)
    BY <2>5, <2>6
  <2> QED BY <2>2, <2>3, <2>6, <2>7
<1>4. CASE ss = <<>>
  <2>1. <<>> \in Seq(S)
    OBVIOUS
  <2> QED BY <1>4, <2>1, FlattenEmpty
<1>5. CASE ss # <<>>
  <2>1. n \in 1..n
    BY <1>1, <1>5 DEF n
  <2>2. FlattenSeq(ss) = f[n]
    BY <1>2, <1>5, FlattenIsLast DEF n
  <2> QED BY <1>3, <2>1, <2>2
<1> QED BY <1>4, <1>5

-----------------------------------------------------------------------------
(* Beginnings of sequences.                                                *)

\* A prefix is no longer, and agrees place by place.
LEMMA PrefixIs ==
    ASSUME NEW S, NEW s \in Seq(S), NEW t \in Seq(S)
    PROVE  IsPrefix(s, t) <=> Len(s) <= Len(t) /\ \A i \in 1..Len(s): s[i] = t[i]
<1>1. Len(s) \in Nat /\ Len(t) \in Nat
  OBVIOUS
<1>2. SubSeq(s, 1, Len(s)) = s
  BY <1>1
<1>3. ASSUME Len(s) <= Len(t)
      PROVE  /\ Len(SubSeq(t, 1, Len(s))) = Len(s) /\ SubSeq(t, 1, Len(s)) \in Seq(S)
             /\ \A i \in 1..Len(s): SubSeq(t, 1, Len(s))[i] = t[i]
  BY <1>1, <1>3
<1>4. ASSUME NEW u \in Seq(S), Len(u) = Len(s)
      PROVE  s = u <=> \A i \in 1..Len(s): s[i] = u[i]
  BY <1>4
<1> QED BY <1>2, <1>3, <1>4 DEF IsPrefix

LEMMA PrefixOfConcat ==
    ASSUME NEW S, NEW s \in Seq(S), NEW t \in Seq(S)
    PROVE  IsPrefix(s, s \o t)
<1>1. /\ s \o t \in Seq(S) /\ Len(s) <= Len(s \o t)
      /\ \A i \in 1..Len(s): (s \o t)[i] = s[i]
  OBVIOUS
<1> QED BY <1>1, PrefixIs

LEMMA PrefixTransitive ==
    ASSUME NEW S, NEW s \in Seq(S), NEW t \in Seq(S), NEW u \in Seq(S),
           IsPrefix(s, t), IsPrefix(t, u)
    PROVE  IsPrefix(s, u)
<1>1. Len(s) \in Nat /\ Len(t) \in Nat /\ Len(u) \in Nat
  OBVIOUS
<1>2. /\ Len(s) <= Len(t) /\ \A i \in 1..Len(s): s[i] = t[i]
      /\ Len(t) <= Len(u) /\ \A i \in 1..Len(t): t[i] = u[i]
  BY PrefixIs
<1>3. Len(s) <= Len(u) /\ \A i \in 1..Len(s): s[i] = u[i]
  BY <1>1, <1>2
<1> QED BY <1>3, PrefixIs

\* What is a prefix stays one behind the same beginning.
LEMMA PrefixBehind ==
    ASSUME NEW S, NEW s \in Seq(S), NEW t \in Seq(S), NEW u \in Seq(S), IsPrefix(t, u)
    PROVE  IsPrefix(s \o t, s \o u)
<1>1. Len(s) \in Nat /\ Len(t) \in Nat /\ Len(u) \in Nat
  OBVIOUS
<1>2. Len(t) <= Len(u) /\ \A i \in 1..Len(t): t[i] = u[i]
  BY PrefixIs
<1>3. /\ s \o t \in Seq(S) /\ s \o u \in Seq(S)
      /\ Len(s \o t) = Len(s) + Len(t) /\ Len(s \o u) = Len(s) + Len(u)
      /\ \A i \in 1..(Len(s) + Len(t)):
            (s \o t)[i] = IF i <= Len(s) THEN s[i] ELSE t[i - Len(s)]
      /\ \A i \in 1..(Len(s) + Len(u)):
            (s \o u)[i] = IF i <= Len(s) THEN s[i] ELSE u[i - Len(s)]
  BY ConcatProperties
<1>4. ASSUME NEW i \in 1..(Len(s) + Len(t))
      PROVE  (s \o t)[i] = (s \o u)[i]
  <2>1. i \in 1..(Len(s) + Len(u)) /\ (i > Len(s) => i - Len(s) \in 1..Len(t))
    BY <1>1, <1>2
  <2> QED BY <1>1, <1>2, <1>3, <2>1
<1>5. Len(s \o t) <= Len(s \o u)
  BY <1>1, <1>2, <1>3
<1> QED BY <1>3, <1>4, <1>5, PrefixIs

-----------------------------------------------------------------------------
(* What decodes of a buffer.                                               *)

\* Nothing of what decodes is a stop, and a stop is what comes behind it, if anything does.
LEMMA LiveFacts ==
    ASSUME NEW S, NEW s \in Seq(S)
    PROVE  /\ Live(s) \in Seq(S) /\ Len(Live(s)) \in 0..Len(s)
           /\ \A i \in 1..Len(Live(s)): Live(s)[i] = s[i] /\ s[i].op # "stop"
           /\ Len(Live(s)) < Len(s) => s[Len(Live(s)) + 1].op = "stop"
<1> DEFINE stops == {i \in DOMAIN s: s[i].op = "stop"}
<1>1. Len(s) \in Nat /\ DOMAIN s = 1..Len(s)
  OBVIOUS
<1>2. CASE stops = {}
  <2>1. Live(s) = s
    BY <1>2 DEF Live
  <2>2. \A i \in 1..Len(s): s[i].op # "stop"
    BY <1>1, <1>2
  <2> QED BY <1>1, <2>1, <2>2
<1>3. CASE stops # {}
  <2>0. stops \in SUBSET Nat
    BY <1>1
  <2>1. PICK m \in stops: \A k \in stops: m <= k
    BY <1>3, <2>0, LeastOf
  <2>2. m \in 1..Len(s) /\ s[m].op = "stop"
    BY <1>1, <2>1
  <2>3. Min(stops) = m
    <3>1. Min(stops) \in stops /\ \A k \in stops: Min(stops) <= k
      BY <2>1 DEF Min
    <3>2. Min(stops) \in Nat /\ Min(stops) <= m /\ m <= Min(stops)
      BY <1>1, <2>1, <3>1
    <3> QED BY <2>2, <3>2
  <2>4. Live(s) = SubSeq(s, 1, m - 1)
    BY <1>3, <2>3 DEF Live
  <2>5. \A i \in 1..(m - 1): s[i].op # "stop"
    BY <1>1, <2>1, <2>2
  <2>6. /\ SubSeq(s, 1, m - 1) \in Seq(S) /\ Len(SubSeq(s, 1, m - 1)) = m - 1
        /\ \A i \in 1..(m - 1): SubSeq(s, 1, m - 1)[i] = s[i]
    BY <1>1, <2>2
  <2> QED BY <1>1, <2>2, <2>4, <2>5, <2>6
<1> QED BY <1>2, <1>3

\* A packet more takes nothing away.
LEMMA LiveGrows ==
    ASSUME NEW S, NEW s \in Seq(S), NEW t \in Seq(S), Len(s) <= Len(t),
           \A i \in 1..Len(s): t[i] = s[i]
    PROVE  Len(Live(s)) <= Len(Live(t))
<1> DEFINE l == Len(Live(s))
           m == Len(Live(t))
<1>1. /\ l \in 0..Len(s) /\ \A i \in 1..l: s[i].op # "stop"
      /\ m \in 0..Len(t) /\ (m < Len(t) => t[m + 1].op = "stop")
  BY LiveFacts
<1>2. Len(s) \in Nat /\ Len(t) \in Nat
  OBVIOUS
<1> HIDE DEF l, m
<1>3. SUFFICES ASSUME m < l PROVE FALSE
  BY <1>1, <1>2 DEF l, m
<1>4. m + 1 \in 1..l /\ m + 1 \in 1..Len(s) /\ m < Len(t)
  BY <1>1, <1>2, <1>3
<1> QED BY <1>1, <1>4

-----------------------------------------------------------------------------
(* A buffer in line.                                                       *)

\* The packets of a buffer that is scanned at a depth, in line
InLineAt(s, depth) ==
    CASE depth = 0 -> InLine(s) [] depth = 1 -> InLine2(s) [] depth = 2 -> InLine1(s)
      [] depth = 3 -> InLine0(s)

\* A packet, and behind it the buffer it leads to
Piece(p, depth) ==
    IF Follows(p, depth) THEN <<p>> \o InLineAt(Buffer[p.to], depth + 1) ELSE <<p>>

\* The first n packets of a buffer, in line
Pieces(s, n, depth) == [i \in 1..n |-> Piece(s[i], depth)]
Beginning(s, n, depth) == FlattenSeq(Pieces(s, n, depth))

\* At the third level nothing is followed.
LEMMA DepthIs == MaxDepth \in 0..3 /\ \A p: ~Follows(p, 3)
<1>1. MaxDepth \in 0..3
  BY ProcessorAssumption
<1> QED BY <1>1 DEF Follows

LEMMA LeadsToBuffer ==
    ASSUME NEW p \in PM4, NEW depth, Follows(p, depth)
    PROVE  p.to \in DOMAIN Buffer
BY DEF PM4, Follows

\* InLine, InLine2 and InLine1 put together what each packet is replaced by.
LEMMA PiecesInLine ==
    ASSUME NEW s \in Seq(PM4), NEW depth \in 0..2
    PROVE  InLineAt(s, depth) = Beginning(s, Len(Live(s)), depth)
<1>1. /\ Live(s) \in Seq(PM4) /\ \A i \in 1..Len(Live(s)): Live(s)[i] = s[i]
      /\ DOMAIN Live(s) = 1..Len(Live(s))
  BY LiveFacts
<1>2. CASE depth = 0
  <2>1. InLineAt(s, depth) = InLine(s)
    BY <1>2 DEF InLineAt
  <2>2. \A p: Piece(p, 0) = IF p.op = "indirect" /\ p.count = 2 /\ 0 < MaxDepth
                            THEN <<p>> \o InLine2(Buffer[p.to]) ELSE <<p>>
    BY DEF Piece, Follows, InLineAt
  <2>3. Pieces(s, Len(Live(s)), 0) =
          [i \in DOMAIN Live(s) |->
             IF Live(s)[i].op = "indirect" /\ Live(s)[i].count = 2 /\ 0 < MaxDepth
             THEN <<Live(s)[i]>> \o InLine2(Buffer[Live(s)[i].to]) ELSE <<Live(s)[i]>>]
    BY <1>1, <2>2 DEF Pieces
  <2> QED BY <1>2, <2>1, <2>3 DEF InLine, Splice, Beginning
<1>3. CASE depth = 1
  <2>1. InLineAt(s, depth) = InLine2(s)
    BY <1>3 DEF InLineAt
  <2>2. \A p: Piece(p, 1) = IF p.op = "indirect" /\ p.count = 2 /\ 1 < MaxDepth
                            THEN <<p>> \o InLine1(Buffer[p.to]) ELSE <<p>>
    BY DEF Piece, Follows, InLineAt
  <2>3. Pieces(s, Len(Live(s)), 1) =
          [i \in DOMAIN Live(s) |->
             IF Live(s)[i].op = "indirect" /\ Live(s)[i].count = 2 /\ 1 < MaxDepth
             THEN <<Live(s)[i]>> \o InLine1(Buffer[Live(s)[i].to]) ELSE <<Live(s)[i]>>]
    BY <1>1, <2>2 DEF Pieces
  <2> QED BY <1>3, <2>1, <2>3 DEF InLine2, Splice, Beginning
<1>4. CASE depth = 2
  <2>1. InLineAt(s, depth) = InLine1(s)
    BY <1>4 DEF InLineAt
  <2>2. \A p: Piece(p, 2) = IF p.op = "indirect" /\ p.count = 2 /\ 2 < MaxDepth
                            THEN <<p>> \o InLine0(Buffer[p.to]) ELSE <<p>>
    BY DEF Piece, Follows, InLineAt
  <2>3. Pieces(s, Len(Live(s)), 2) =
          [i \in DOMAIN Live(s) |->
             IF Live(s)[i].op = "indirect" /\ Live(s)[i].count = 2 /\ 2 < MaxDepth
             THEN <<Live(s)[i]>> \o InLine0(Buffer[Live(s)[i].to]) ELSE <<Live(s)[i]>>]
    BY <1>1, <2>2 DEF Pieces
  <2> QED BY <1>4, <2>1, <2>3 DEF InLine1, Splice, Beginning
<1> QED BY <1>2, <1>3, <1>4

\* From the innermost level outwards
LEMMA InLineTyped ==
    \A depth \in 0..3: \A s \in Seq(PM4): InLineAt(s, depth) \in Seq(PM4)
<1>1. \A b \in DOMAIN Buffer: Buffer[b] \in Seq(PM4)
  BY ProcessorAssumption
<1>2. \A p \in PM4: \A depth: Follows(p, depth) => p.to \in DOMAIN Buffer
  BY LeadsToBuffer
<1>3. \A s \in Seq(PM4): InLineAt(s, 3) \in Seq(PM4)
  BY LiveFacts DEF InLineAt, InLine0
<1>4. ASSUME NEW depth \in 0..2, \A s \in Seq(PM4): InLineAt(s, depth + 1) \in Seq(PM4)
      PROVE  \A s \in Seq(PM4): InLineAt(s, depth) \in Seq(PM4)
  <2> SUFFICES ASSUME NEW s \in Seq(PM4) PROVE InLineAt(s, depth) \in Seq(PM4)
    OBVIOUS
  <2>1. \A p \in PM4: Piece(p, depth) \in Seq(PM4)
    <3> SUFFICES ASSUME NEW p \in PM4 PROVE Piece(p, depth) \in Seq(PM4)
      OBVIOUS
    <3>1. <<p>> \in Seq(PM4)
      OBVIOUS
    <3>2. CASE Follows(p, depth)
      <4> DEFINE t == InLineAt(Buffer[p.to], depth + 1)
      <4>1. t \in Seq(PM4)
        BY <1>1, <1>2, <1>4, <3>2
      <4>2. Piece(p, depth) = <<p>> \o t
        BY <3>2 DEF Piece
      <4> HIDE DEF t
      <4> QED BY <3>1, <4>1, <4>2
    <3> QED BY <3>1, <3>2 DEF Piece
  <2>2. Len(Live(s)) \in Nat /\ \A i \in 1..Len(Live(s)): s[i] \in PM4
    <3>1. Len(s) \in Nat /\ Len(Live(s)) \in 0..Len(s)
      BY LiveFacts
    <3>2. \A i \in 1..Len(s): s[i] \in PM4
      OBVIOUS
    <3> QED BY <3>1, <3>2
  <2>3. Pieces(s, Len(Live(s)), depth) \in Seq(Seq(PM4))
    BY <2>1, <2>2 DEF Pieces
  <2> QED BY <2>3, PiecesInLine, FlattenTyped DEF Beginning
<1>5. \A s \in Seq(PM4): InLineAt(s, 2) \in Seq(PM4)
  BY <1>3, <1>4
<1>6. \A s \in Seq(PM4): InLineAt(s, 1) \in Seq(PM4)
  BY <1>4, <1>5
<1>7. \A s \in Seq(PM4): InLineAt(s, 0) \in Seq(PM4)
  BY <1>4, <1>6
<1> QED BY <1>3, <1>5, <1>6, <1>7

\* What a packet is replaced by
LEMMA PieceTyped ==
    ASSUME NEW p \in PM4, NEW depth \in 0..3
    PROVE  /\ Piece(p, depth) \in Seq(PM4)
           /\ Follows(p, depth) => /\ depth + 1 \in 0..3 /\ p.to \in DOMAIN Buffer
                                   /\ Buffer[p.to] \in Seq(PM4)
                                   /\ InLineAt(Buffer[p.to], depth + 1) \in Seq(PM4)
                                   /\ Piece(p, depth) = <<p>> \o InLineAt(Buffer[p.to], depth + 1)
           /\ ~Follows(p, depth) => Piece(p, depth) = <<p>>
<1>1. CASE Follows(p, depth)
  <2>1. depth + 1 \in 0..3
    BY <1>1, DepthIs DEF Follows
  <2>2. p.to \in DOMAIN Buffer /\ Buffer[p.to] \in Seq(PM4)
    BY <1>1, LeadsToBuffer, ProcessorAssumption
  <2> DEFINE t == InLineAt(Buffer[p.to], depth + 1)
  <2>3. t \in Seq(PM4)
    BY <2>1, <2>2, InLineTyped
  <2>4. Piece(p, depth) = <<p>> \o t
    BY <1>1 DEF Piece
  <2> HIDE DEF t
  <2>5. <<p>> \o t \in Seq(PM4)
    BY <2>3
  <2> QED BY <1>1, <2>1, <2>2, <2>3, <2>4, <2>5 DEF t
<1>2. CASE ~Follows(p, depth)
  BY <1>2 DEF Piece
<1> QED BY <1>1, <1>2

\* One packet more
LEMMA BeginningMore ==
    ASSUME NEW s \in Seq(PM4), NEW n \in 0..Len(s), NEW depth \in 0..3
    PROVE  /\ Beginning(s, n, depth) \in Seq(PM4)
           /\ Beginning(s, 0, depth) = <<>>
           /\ n < Len(s) => /\ s[n + 1] \in PM4
                            /\ Beginning(s, n + 1, depth) =
                                  Beginning(s, n, depth) \o Piece(s[n + 1], depth)
<1>1. n \in Nat /\ Len(s) \in Nat /\ \A i \in 1..Len(s): s[i] \in PM4
  OBVIOUS
<1>2. \A i \in 1..Len(s): Piece(s[i], depth) \in Seq(PM4)
  BY <1>1, PieceTyped
<1>3. Pieces(s, n, depth) \in Seq(Seq(PM4))
  BY <1>1, <1>2 DEF Pieces
<1>4. Beginning(s, n, depth) \in Seq(PM4)
  BY <1>3, FlattenTyped DEF Beginning
<1>5. Beginning(s, 0, depth) = <<>>
  <2>1. Pieces(s, 0, depth) = <<>>
    BY DEF Pieces
  <2> QED BY <2>1, FlattenEmpty DEF Beginning
<1>6. ASSUME n < Len(s)
      PROVE  /\ s[n + 1] \in PM4
             /\ Beginning(s, n + 1, depth) = Beginning(s, n, depth) \o Piece(s[n + 1], depth)
  <2>1. n + 1 \in 1..Len(s)
    BY <1>1, <1>6
  <2>2. Piece(s[n + 1], depth) \in Seq(PM4)
    BY <1>2, <2>1
  <2>3. Pieces(s, n + 1, depth) = Append(Pieces(s, n, depth), Piece(s[n + 1], depth))
    <3> DEFINE x == Piece(s[n + 1], depth)
               u == Pieces(s, n, depth)
    <3>1. Len(u) = n /\ u \in Seq(Seq(PM4)) /\ \A i \in 1..n: u[i] = Piece(s[i], depth)
      BY <1>1, <1>3 DEF Pieces
    <3>2. x \in Seq(PM4) /\ x = Piece(s[n + 1], depth)
      BY <2>2
    <3>3. Pieces(s, n + 1, depth) = [i \in 1..(n + 1) |-> Piece(s[i], depth)]
      BY DEF Pieces
    <3> HIDE DEF x, u
    <3>4. Append(u, x) = [i \in 1..(n + 1) |-> IF i = n + 1 THEN x ELSE u[i]]
      BY <1>1, <3>1, <3>2
    <3>5. \A i \in 1..(n + 1): i # n + 1 => i \in 1..n
      BY <1>1
    <3> QED BY <3>1, <3>2, <3>3, <3>4, <3>5 DEF x, u
  <2> QED BY <1>1, <1>3, <2>1, <2>2, <2>3, FlattenAppend DEF Beginning
<1> QED BY <1>4, <1>5, <1>6

\* Sequences of one packet each flatten to the packets.
LEMMA SinglesFlat ==
    ASSUME NEW S, NEW s \in Seq(S), NEW n \in 0..Len(s)
    PROVE  FlattenSeq([i \in 1..n |-> <<s[i]>>]) = SubSeq(s, 1, n)
<1> DEFINE F(m) == [i \in 1..m |-> <<s[i]>>]
           Bad == {m \in 0..Len(s): FlattenSeq(F(m)) # SubSeq(s, 1, m)}
<1>0. Len(s) \in Nat /\ \A i \in 1..Len(s): s[i] \in S
  OBVIOUS
<1>1. SUFFICES ASSUME Bad # {} PROVE FALSE
  OBVIOUS
<1>2. Bad \in SUBSET Nat
  BY <1>0
<1>3. PICK m \in Bad: \A k \in Bad: m <= k
  BY <1>1, <1>2, LeastOf
<1>4. m \in 0..Len(s) /\ FlattenSeq(F(m)) # SubSeq(s, 1, m)
  BY <1>3
<1>5. m # 0
  <2>1. F(0) = <<>> /\ SubSeq(s, 1, 0) = <<>>
    OBVIOUS
  <2> QED BY <1>4, <2>1, FlattenEmpty
<1>6. m - 1 \in 0..Len(s) /\ m \in 1..Len(s) /\ ~(m <= m - 1)
  BY <1>0, <1>4, <1>5
<1>7. FlattenSeq(F(m - 1)) = SubSeq(s, 1, m - 1)
  <2> SUFFICES ASSUME m - 1 \in Bad PROVE FALSE
    BY <1>6
  <2> HIDE DEF Bad
  <2> QED BY <1>3, <1>6
<1>8. F(m - 1) \in Seq(Seq(S)) /\ <<s[m]>> \in Seq(S)
  BY <1>0, <1>6
<1>9. F(m) = Append(F(m - 1), <<s[m]>>)
  BY <1>0, <1>6
<1>10. SubSeq(s, 1, m) = SubSeq(s, 1, m - 1) \o <<s[m]>>
  BY <1>0, <1>6
<1> HIDE DEF F
<1> QED BY <1>4, <1>7, <1>8, <1>9, <1>10, FlattenAppend

\* At whatever depth, a buffer in line is what decodes of it, in line.
LEMMA InLineIs ==
    ASSUME NEW s \in Seq(PM4), NEW depth \in 0..3
    PROVE  InLineAt(s, depth) = Beginning(s, Len(Live(s)), depth)
<1>1. CASE depth \in 0..2
  BY <1>1, PiecesInLine
<1>2. CASE depth = 3
  <2> DEFINE l == Live(s)
             n == Len(l)
  <2>1. l \in Seq(PM4) /\ n \in Nat /\ \A i \in 1..n: l[i] = s[i]
    BY LiveFacts
  <2>2. InLineAt(s, 3) = l
    BY DEF InLineAt, InLine0
  <2> HIDE DEF l
  <2>3. Pieces(s, n, 3) = [i \in 1..n |-> <<l[i]>>]
    BY <2>1, DepthIs DEF Pieces, Piece
  <2>4. SubSeq(l, 1, n) = l
    BY <2>1
  <2>5. n \in 0..Len(l)
    BY <2>1
  <2>6. FlattenSeq([i \in 1..n |-> <<l[i]>>]) = l
    BY <2>1, <2>4, <2>5, SinglesFlat
  <2> QED BY <1>2, <2>2, <2>3, <2>6 DEF Beginning, l
<1> QED BY <1>1, <1>2

\* The beginnings of a buffer in line are beginnings of one another.
LEMMA BeginningIsPrefix ==
    ASSUME NEW s \in Seq(PM4), NEW n \in 0..Len(Live(s)), NEW depth \in 0..3
    PROVE  IsPrefix(Beginning(s, n, depth), InLineAt(s, depth))
<1> DEFINE l == Len(Live(s))
<1>1. l \in Nat /\ l <= Len(s) /\ Len(s) \in Nat /\ n \in 0..l
  BY LiveFacts
<1> DEFINE Bad == {m \in Nat: n <= m /\ m <= l
                              /\ ~IsPrefix(Beginning(s, n, depth), Beginning(s, m, depth))}
<1>2. Bad = {}
  <2> SUFFICES ASSUME Bad # {} PROVE FALSE
    OBVIOUS
  <2> HIDE DEF l
  <2>1. PICK m \in Bad: \A k \in Bad: m <= k
    <3>1. Bad \in SUBSET Nat
      OBVIOUS
    <3> HIDE DEF Bad
    <3> QED BY <3>1, LeastOf
  <2>2. \A k \in 0..l: Beginning(s, k, depth) \in Seq(PM4)
    BY <1>1, BeginningMore
  <2>3. m # n
    <3>1. IsPrefix(Beginning(s, n, depth), Beginning(s, n, depth))
      BY <1>1, <2>2, PrefixIs
    <3> QED BY <2>1, <3>1
  <2>4. m - 1 \in Nat /\ n <= m - 1 /\ m - 1 <= l /\ m - 1 \in 0..l /\ m \in 0..l /\ m - 1 < Len(s)
        /\ m - 1 \in 0..Len(s) /\ m - 1 + 1 = m
    BY <1>1, <2>1, <2>3
  <2>5. IsPrefix(Beginning(s, n, depth), Beginning(s, m - 1, depth))
    BY <1>1, <2>1, <2>4
  <2> DEFINE b == Beginning(s, m - 1, depth)
             x == Piece(s[m], depth)
  <2>6. b \in Seq(PM4) /\ s[m] \in PM4 /\ Beginning(s, m, depth) = b \o x
    BY <2>4, BeginningMore
  <2>7. x \in Seq(PM4)
    BY <2>6, PieceTyped
  <2> HIDE DEF b, x
  <2>8. IsPrefix(b, b \o x) /\ b \o x \in Seq(PM4)
    BY <2>6, <2>7, PrefixOfConcat
  <2>9. Beginning(s, n, depth) \in Seq(PM4)
    BY <1>1, <2>2
  <2>10. IsPrefix(Beginning(s, n, depth), Beginning(s, m, depth))
    <3>1. IsPrefix(Beginning(s, n, depth), b)
      BY <2>5 DEF b
    <3> QED BY <2>6, <2>8, <2>9, <3>1, PrefixTransitive
  <2> QED BY <2>1, <2>10
<1>3. IsPrefix(Beginning(s, n, depth), Beginning(s, l, depth))
  BY <1>1, <1>2
<1> QED BY <1>3, InLineIs

-----------------------------------------------------------------------------
(* The buffers being scanned, one within the other, and what was executed. *)

\* Of source[k], at depth k, count[k] packets have been begun; the last one of them leads to
\* the next buffer, but in the innermost.
Leads(depth, source, count) ==
    \A k \in 0..depth:
        /\ source[k] \in Seq(PM4) /\ count[k] \in 0..Len(Live(source[k]))
        /\ k < depth => /\ count[k] # 0 /\ Follows(source[k][count[k]], k)
                        /\ source[k + 1] = Buffer[source[k][count[k]].to]

\* before[k] had been executed when the scan of source[k] was begun.
Thread(done, depth, source, count, before) ==
    /\ before \in [0..depth -> Seq(PM4)] /\ before[0] = <<>>
    /\ \A k \in 0..(depth - 1):
          before[k + 1] = (before[k] \o Beginning(source[k], count[k] - 1, k))
                             \o <<source[k][count[k]]>>
    /\ done = before[depth] \o Beginning(source[depth], count[depth], depth)

LEMMA ThreadIs ==
    ASSUME NEW depth, NEW source, NEW count, NEW before, NEW done,
           before \in [0..depth -> Seq(PM4)], before[0] = <<>>,
           \A k \in 0..(depth - 1):
              before[k + 1] = (before[k] \o Beginning(source[k], count[k] - 1, k))
                                 \o <<source[k][count[k]]>>,
           done = before[depth] \o Beginning(source[depth], count[depth], depth)
    PROVE  Thread(done, depth, source, count, before)
BY DEF Thread

LEMMA Associates ==
    \A s, t, u \in Seq(PM4): (s \o t) \o u = s \o (t \o u)
BY ConcatAssociative

\* A packet behind the first n of a buffer
LEMMA NextBegun ==
    ASSUME NEW depth \in 0..3, NEW s \in Seq(PM4), NEW n \in 0..Len(Live(s)), n < Len(Live(s)),
           NEW b \in Seq(PM4)
    PROVE  /\ s[n + 1] \in PM4 /\ n + 1 \in 1..Len(Live(s))
           /\ b \o Beginning(s, n, depth) \in Seq(PM4)
           /\ (b \o Beginning(s, n, depth)) \o <<s[n + 1]>> \in Seq(PM4)
           /\ (b \o Beginning(s, n, depth)) \o Piece(s[n + 1], depth)
                 = b \o Beginning(s, n + 1, depth)
           /\ ~Follows(s[n + 1], depth) => Piece(s[n + 1], depth) = <<s[n + 1]>>
<1> DEFINE g == Beginning(s, n, depth)
           p == s[n + 1]
           x == Piece(p, depth)
<1>1. Len(Live(s)) \in 0..Len(s) /\ Len(s) \in Nat
  BY LiveFacts
<1>2. n \in 0..Len(s) /\ n < Len(s) /\ n + 1 \in 1..Len(Live(s))
  BY <1>1
<1>3. g \in Seq(PM4) /\ p \in PM4 /\ Beginning(s, n + 1, depth) = g \o x
  BY <1>2, BeginningMore
<1> HIDE DEF p
<1>4. x \in Seq(PM4) /\ (~Follows(p, depth) => x = <<p>>)
  BY <1>3, PieceTyped
<1> HIDE DEF g, x
<1>5. b \o g \in Seq(PM4)
  BY <1>3, ConcatProperties
<1>6. <<p>> \in Seq(PM4)
  BY <1>3
<1>7. (b \o g) \o <<p>> \in Seq(PM4)
  BY <1>5, <1>6, ConcatProperties
<1>8. (b \o g) \o x = b \o (g \o x)
  BY <1>3, <1>4, Associates, Zenon
<1> QED BY <1>2, <1>3, <1>4, <1>5, <1>7, <1>8, Zenon DEF g, p, x

\* The innermost buffer, and what was executed before it
LEMMA InnermostTyped ==
    ASSUME NEW depth \in 0..3, NEW source, NEW count, Leads(depth, source, count),
           NEW before, NEW done, Thread(done, depth, source, count, before)
    PROVE  /\ source[depth] \in Seq(PM4) /\ count[depth] \in 0..Len(Live(source[depth]))
           /\ before[depth] \in Seq(PM4)
           /\ done = before[depth] \o Beginning(source[depth], count[depth], depth)
<1>1. depth \in 0..depth
  OBVIOUS
<1> QED BY <1>1 DEF Leads, Thread

\* A packet that leads nowhere
LEMMA ThreadExecutes ==
    ASSUME NEW depth \in 0..3, NEW source, NEW count, Leads(depth, source, count),
           NEW before, NEW done, Thread(done, depth, source, count, before),
           NEW p, count[depth] < Len(Live(source[depth])), p = source[depth][count[depth] + 1],
           ~Follows(p, depth),
           NEW count2, \A k \in 0..(depth - 1): count2[k] = count[k],
           count2[depth] = count[depth] + 1
    PROVE  Leads(depth, source, count2) /\ Thread(done \o <<p>>, depth, source, count2, before)
<1> DEFINE s == source[depth]
           n == count[depth]
           b == before[depth]
<1>0. /\ s \in Seq(PM4) /\ n \in 0..Len(Live(s)) /\ b \in Seq(PM4)
      /\ done = b \o Beginning(s, n, depth) /\ n < Len(Live(s))
      /\ p = s[n + 1] /\ count2[depth] = n + 1
  BY InnermostTyped
<1> HIDE DEF s, n, b
<1>1. /\ done \o <<p>> = before[depth] \o Beginning(source[depth], count2[depth], depth)
      /\ count2[depth] \in 1..Len(Live(source[depth])) /\ source[depth] \in Seq(PM4)
  <2>1. /\ n + 1 \in 1..Len(Live(s)) /\ Piece(s[n + 1], depth) = <<s[n + 1]>>
        /\ (b \o Beginning(s, n, depth)) \o Piece(s[n + 1], depth)
              = b \o Beginning(s, n + 1, depth)
    BY <1>0, NextBegun
  <2>2. (b \o Beginning(s, n, depth)) \o <<p>> = b \o Beginning(s, n + 1, depth)
    BY <1>0, <2>1
  <2> QED BY <1>0, <2>1, <2>2 DEF s, n, b
<1>2. \A k \in 0..depth: k < depth => k \in 0..(depth - 1) /\ count2[k] = count[k]
  OBVIOUS
<1>3. \A k \in 0..depth: ~(k < depth) => k = depth
  OBVIOUS
<1>4. Leads(depth, source, count2)
  <2> SUFFICES ASSUME NEW k \in 0..depth
               PROVE  /\ source[k] \in Seq(PM4) /\ count2[k] \in 0..Len(Live(source[k]))
                      /\ k < depth => /\ count2[k] # 0 /\ Follows(source[k][count2[k]], k)
                                      /\ source[k + 1] = Buffer[source[k][count2[k]].to]
    BY DEF Leads
  <2>1. CASE k < depth
    BY <1>2, <2>1 DEF Leads
  <2>2. CASE ~(k < depth)
    BY <1>1, <1>3, <2>2
  <2> QED BY <2>1, <2>2
<1>5. Thread(done \o <<p>>, depth, source, count2, before)
  BY <1>1 DEF Thread
<1> QED BY <1>4, <1>5

\* A packet that leads to a buffer
LEMMA ThreadEnters ==
    ASSUME NEW depth \in 0..2, NEW source, NEW count, Leads(depth, source, count),
           NEW before, NEW done, Thread(done, depth, source, count, before),
           NEW p, count[depth] < Len(Live(source[depth])), p = source[depth][count[depth] + 1],
           Follows(p, depth),
           NEW source2, \A k \in 0..depth: source2[k] = source[k],
           source2[depth + 1] = Buffer[p.to],
           NEW count2, \A k \in 0..(depth - 1): count2[k] = count[k],
           count2[depth] = count[depth] + 1, count2[depth + 1] = 0
    PROVE  /\ Leads(depth + 1, source2, count2)
           /\ \E b: Thread(done \o <<p>>, depth + 1, source2, count2, b)
<1> DEFINE b == [k \in 0..(depth + 1) |-> IF k = depth + 1 THEN done \o <<p>> ELSE before[k]]
<1>0. depth \in 0..3
  OBVIOUS
<1>1. /\ done \o <<p>> \in Seq(PM4) /\ p \in PM4
      /\ count2[depth] \in 1..Len(Live(source[depth])) /\ source[depth] \in Seq(PM4)
      /\ done \o <<p>> = (before[depth] \o Beginning(source[depth], count[depth], depth)) \o <<p>>
  <2>0. /\ source[depth] \in Seq(PM4) /\ count[depth] \in 0..Len(Live(source[depth]))
        /\ before[depth] \in Seq(PM4)
        /\ done = before[depth] \o Beginning(source[depth], count[depth], depth)
    BY <1>0, InnermostTyped
  <2>1. /\ done \o <<p>> \in Seq(PM4) /\ p \in PM4
        /\ count[depth] + 1 \in 1..Len(Live(source[depth])) /\ source[depth] \in Seq(PM4)
        /\ done \o <<p>> =
              (before[depth] \o Beginning(source[depth], count[depth], depth)) \o <<p>>
    BY <1>0, <2>0, NextBegun, Zenon
  <2> QED BY <2>1, Zenon
<1>2. source2[depth + 1] \in Seq(PM4) /\ 0 \in 0..Len(Live(source2[depth + 1]))
  <2>1. source2[depth + 1] \in Seq(PM4)
    <3>1. Buffer[p.to] \in Seq(PM4)
      BY <1>0, <1>1, PieceTyped, Zenon
    <3> QED BY <3>1
  <2>2. Len(Live(source2[depth + 1])) \in Nat
    BY <2>1, LiveFacts
  <2> QED BY <2>1, <2>2
<1>3. \A k \in 0..depth: k < depth => k \in 0..(depth - 1) /\ count2[k] = count[k]
                                      /\ k + 1 \in 0..depth
  OBVIOUS
<1>4. depth \in 0..depth /\ count[depth] \in Nat /\ count2[depth] - 1 = count[depth]
  BY DEF Leads
<1>5. Leads(depth + 1, source2, count2)
  <2> SUFFICES ASSUME NEW k \in 0..(depth + 1)
               PROVE  /\ source2[k] \in Seq(PM4) /\ count2[k] \in 0..Len(Live(source2[k]))
                      /\ k < depth + 1 => /\ count2[k] # 0 /\ Follows(source2[k][count2[k]], k)
                                          /\ source2[k + 1] = Buffer[source2[k][count2[k]].to]
    BY DEF Leads
  <2>1. CASE k < depth
    <3>1. /\ k \in 0..depth /\ source2[k] = source[k] /\ count2[k] = count[k]
          /\ source2[k + 1] = source[k + 1]
      BY <1>3, <2>1
    <3>2. /\ source[k] \in Seq(PM4) /\ count[k] \in 0..Len(Live(source[k]))
          /\ count[k] # 0 /\ Follows(source[k][count[k]], k)
          /\ source[k + 1] = Buffer[source[k][count[k]].to]
      BY <2>1, <3>1 DEF Leads
    <3> QED BY <3>1, <3>2, Zenon
  <2>2. CASE k = depth
    <3>1. source2[k] = source[k] /\ source[k] \in Seq(PM4) /\ source[k][count2[k]] = p
      BY <1>1, <1>4, <2>2
    <3>2. count2[k] \in 0..Len(Live(source[k])) /\ count2[k] # 0
      BY <1>1, <2>2
    <3> QED BY <2>2, <3>1, <3>2
  <2>3. CASE k = depth + 1
    BY <1>2, <2>3
  <2> QED BY <2>1, <2>2, <2>3
<1>6. /\ b \in [0..(depth + 1) -> Seq(PM4)] /\ b[depth + 1] = done \o <<p>>
      /\ \A k \in 0..depth: b[k] = before[k]
  <2>1. \A k \in 0..depth: before[k] \in Seq(PM4)
    BY DEF Thread
  <2>2. ASSUME NEW k \in 0..(depth + 1)
        PROVE  (IF k = depth + 1 THEN done \o <<p>> ELSE before[k]) \in Seq(PM4)
    <3>1. k # depth + 1 => k \in 0..depth
      OBVIOUS
    <3> QED BY <1>1, <2>1, <3>1
  <2>3. b \in [0..(depth + 1) -> Seq(PM4)]
    BY <2>2
  <2>4. \A k \in 0..depth: k \in 0..(depth + 1) /\ k # depth + 1
    OBVIOUS
  <2>5. depth + 1 \in 0..(depth + 1)
    OBVIOUS
  <2> QED BY <2>3, <2>4, <2>5
<1> HIDE DEF b
<1>7. \A k \in 0..depth:
          b[k + 1] = (b[k] \o Beginning(source2[k], count2[k] - 1, k)) \o <<source2[k][count2[k]]>>
  <2> SUFFICES ASSUME NEW k \in 0..depth
               PROVE  b[k + 1] = (b[k] \o Beginning(source2[k], count2[k] - 1, k))
                                    \o <<source2[k][count2[k]]>>
    OBVIOUS
  <2>1. CASE k < depth
    <3>1. /\ b[k + 1] = before[k + 1] /\ b[k] = before[k] /\ source2[k] = source[k]
          /\ count2[k] = count[k] /\ k \in 0..(depth - 1)
      BY <1>3, <1>6, <2>1
    <3>2. before[k + 1] = (before[k] \o Beginning(source[k], count[k] - 1, k))
                             \o <<source[k][count[k]]>>
      BY <3>1 DEF Thread
    <3> QED BY <3>1, <3>2, Zenon
  <2>2. CASE k = depth
    <3>1. /\ b[k + 1] = done \o <<p>> /\ b[k] = before[k] /\ source2[k] = source[k]
          /\ count2[k] - 1 = count[k] /\ source2[k][count2[k]] = p
      BY <1>4, <1>6, <2>2
    <3> QED BY <1>1, <2>2, <3>1, Zenon
  <2>3. k < depth \/ k = depth
    OBVIOUS
  <2> QED BY <2>1, <2>2, <2>3, Zenon
<1>8. Beginning(source2[depth + 1], 0, depth + 1) = <<>>
  BY <1>2, BeginningMore
<1>9. b[0] = <<>>
  <2>1. before[0] = <<>>
    BY DEF Thread
  <2>2. 0 \in 0..depth
    OBVIOUS
  <2> QED BY <1>6, <2>1, <2>2
<1>10. done \o <<p>> = b[depth + 1] \o Beginning(source2[depth + 1], count2[depth + 1], depth + 1)
  <2>1. (done \o <<p>>) \o <<>> = done \o <<p>>
    BY <1>1, ConcatEmptySeq
  <2> QED BY <1>6, <1>8, <2>1, Zenon
<1> DEFINE e == depth + 1
<1>11. b \in [0..e -> Seq(PM4)] /\ \A k \in 0..(e - 1): k \in 0..depth
  BY <1>6
<1>12. done \o <<p>> = b[e] \o Beginning(source2[e], count2[e], e)
  BY <1>10
<1> HIDE DEF e
<1>13. \A k \in 0..(e - 1):
          b[k + 1] = (b[k] \o Beginning(source2[k], count2[k] - 1, k)) \o <<source2[k][count2[k]]>>
  BY <1>7, <1>11, Zenon
<1>14. Thread(done \o <<p>>, e, source2, count2, b)
  BY <1>9, <1>11, <1>12, <1>13, ThreadIs, Zenon
<1> QED BY <1>5, <1>14 DEF e

\* The end of an inner buffer
LEMMA ThreadReturns ==
    ASSUME NEW depth \in 1..3, NEW source, NEW count, Leads(depth, source, count),
           NEW before, NEW done, Thread(done, depth, source, count, before),
           count[depth] = Len(Live(source[depth]))
    PROVE  /\ Leads(depth - 1, source, count)
           /\ \E b: Thread(done, depth - 1, source, count, b)
<1> DEFINE d == depth - 1
           s == source[d]
           n == count[d]
           p == s[n]
           a == before[d]
           b == [k \in 0..d |-> before[k]]
<1>0. d \in 0..2 /\ d \in 0..3 /\ depth \in 0..3 /\ d + 1 = depth /\ d \in 0..depth /\ d < depth
      /\ d \in 0..(depth - 1)
  OBVIOUS
<1>1. Leads(d, source, count)
  <2>1. \A k \in 0..d: k \in 0..depth /\ (k < d => k < depth)
    BY <1>0
  <2> QED BY <2>1 DEF Leads
<1>2. /\ s \in Seq(PM4) /\ n \in 0..Len(Live(s)) /\ n # 0 /\ Follows(p, d)
      /\ source[depth] = Buffer[p.to]
  BY <1>0 DEF Leads
<1>3. /\ a \in Seq(PM4) /\ before[depth] = (a \o Beginning(s, n - 1, d)) \o <<p>>
  BY <1>0 DEF Thread
<1>4. done = before[depth] \o InLineAt(Buffer[p.to], depth)
  <2>1. /\ source[depth] \in Seq(PM4)
        /\ done = before[depth] \o Beginning(source[depth], count[depth], depth)
    BY <1>0, InnermostTyped
  <2>2. InLineAt(source[depth], depth) = Beginning(source[depth], count[depth], depth)
    BY <1>0, <2>1, InLineIs
  <2> QED BY <1>2, <2>1, <2>2
<1>5. /\ b \in [0..d -> Seq(PM4)] /\ b[d] = a /\ \A k \in 0..d: b[k] = before[k]
  <2>1. \A k \in 0..d: k \in 0..depth
    BY <1>0
  <2>2. before \in [0..depth -> Seq(PM4)] /\ d \in 0..d
    BY <1>0 DEF Thread
  <2> QED BY <2>1, <2>2
<1> HIDE DEF d, s, n, p, a, b
<1>6. /\ n - 1 \in 0..Len(Live(s)) /\ n - 1 < Len(Live(s)) /\ n - 1 + 1 = n
  <2>1. Len(Live(s)) \in Nat
    BY <1>2, LiveFacts
  <2> QED BY <1>2, <2>1
<1> DEFINE g == Beginning(s, n - 1, d)
           t == InLineAt(Buffer[p.to], d + 1)
<1>7. /\ (a \o g) \o Piece(p, d) = a \o Beginning(s, n, d)
      /\ p \in PM4 /\ a \o g \in Seq(PM4)
  <2> DEFINE m == n - 1
  <2>1. m \in 0..Len(Live(s)) /\ m < Len(Live(s)) /\ m + 1 = n /\ s[m + 1] = p
    BY <1>6 DEF p
  <2> HIDE DEF m, p
  <2>2. /\ (a \o Beginning(s, m, d)) \o Piece(s[m + 1], d) = a \o Beginning(s, m + 1, d)
        /\ s[m + 1] \in PM4 /\ a \o Beginning(s, m, d) \in Seq(PM4)
    BY <1>0, <1>2, <1>3, <2>1, NextBegun
  <2> QED BY <2>1, <2>2, Zenon DEF m
<1>8. t \in Seq(PM4) /\ Piece(p, d) = <<p>> \o t
  BY <1>0, <1>2, <1>7, PieceTyped
<1> HIDE DEF g, t
<1>9. ((a \o g) \o <<p>>) \o t = (a \o g) \o (<<p>> \o t)
  <2>1. <<p>> \in Seq(PM4)
    BY <1>7
  <2> QED BY <1>7, <1>8, <2>1, Associates, Zenon
<1>10. done = a \o Beginning(s, n, d)
  <2>1. done = ((a \o g) \o <<p>>) \o t
    BY <1>0, <1>3, <1>4 DEF g, t
  <2> QED BY <1>7, <1>8, <1>9, <2>1, Zenon
<1>11. b[0] = <<>>
  <2>1. before[0] = <<>>
    BY DEF Thread
  <2>2. 0 \in 0..d
    BY <1>0
  <2> QED BY <1>5, <2>1, <2>2
<1>12. ASSUME NEW k \in 0..(d - 1)
       PROVE  b[k + 1] = (b[k] \o Beginning(source[k], count[k] - 1, k)) \o <<source[k][count[k]]>>
  <2>1. k \in 0..d /\ k + 1 \in 0..d /\ k \in 0..(depth - 1)
    BY <1>0
  <2>2. before[k + 1] = (before[k] \o Beginning(source[k], count[k] - 1, k))
                           \o <<source[k][count[k]]>>
    BY <2>1 DEF Thread
  <2> QED BY <1>5, <2>1, <2>2, Zenon
<1>13. done = b[d] \o Beginning(source[d], count[d], d)
  BY <1>5, <1>10 DEF s, n
<1>14. Thread(done, d, source, count, b)
  BY <1>5, <1>11, <1>12, <1>13, ThreadIs, Zenon
<1> QED BY <1>1, <1>14 DEF d

\* A packet more in the stream
LEMMA ThreadGrows ==
    ASSUME NEW depth \in 0..3, NEW source, NEW count, Leads(depth, source, count),
           NEW before, NEW done, Thread(done, depth, source, count, before),
           NEW source2, \A k \in 1..depth: source2[k] = source[k], source2[0] \in Seq(PM4),
           Len(source[0]) <= Len(source2[0]),
           \A i \in 1..Len(source[0]): source2[0][i] = source[0][i]
    PROVE  Leads(depth, source2, count) /\ Thread(done, depth, source2, count, before)
<1>0. 0 \in 0..depth /\ \A k \in 0..depth: k = 0 \/ k \in 1..depth
  OBVIOUS
<1>1. source[0] \in Seq(PM4) /\ count[0] \in 0..Len(Live(source[0]))
  BY <1>0 DEF Leads
<1>2. /\ Len(Live(source[0])) <= Len(Live(source2[0])) /\ Len(Live(source2[0])) \in Nat
      /\ Len(Live(source[0])) \in 0..Len(source[0]) /\ Len(source[0]) \in Nat
  <2>1. Len(Live(source[0])) <= Len(Live(source2[0]))
    BY <1>1, LiveGrows
  <2>2. Len(Live(source[0])) \in 0..Len(source[0]) /\ Len(Live(source2[0])) \in 0..Len(source2[0])
    BY <1>1, LiveFacts
  <2> QED BY <1>1, <2>1, <2>2
<1>3. count[0] \in 0..Len(Live(source2[0])) /\ count[0] \in 0..Len(source[0])
  BY <1>1, <1>2
<1>4. count[0] # 0 => source2[0][count[0]] = source[0][count[0]]
  BY <1>3
<1>5. \A n \in 0..Len(source[0]): Beginning(source2[0], n, 0) = Beginning(source[0], n, 0)
  <2> SUFFICES ASSUME NEW n \in 0..Len(source[0])
               PROVE  Pieces(source2[0], n, 0) = Pieces(source[0], n, 0)
    BY DEF Beginning
  <2>1. \A i \in 1..n: source2[0][i] = source[0][i]
    BY <1>2
  <2> QED BY <2>1 DEF Pieces
<1>6. \A k \in 0..depth: k < depth => source2[k + 1] = source[k + 1]
  <2> SUFFICES ASSUME NEW k \in 0..depth, k < depth PROVE source2[k + 1] = source[k + 1]
    OBVIOUS
  <2>1. k + 1 \in 1..depth
    OBVIOUS
  <2> QED BY <2>1
<1>7. Leads(depth, source2, count)
  <2> SUFFICES ASSUME NEW k \in 0..depth
               PROVE  /\ source2[k] \in Seq(PM4) /\ count[k] \in 0..Len(Live(source2[k]))
                      /\ k < depth => /\ count[k] # 0 /\ Follows(source2[k][count[k]], k)
                                      /\ source2[k + 1] = Buffer[source2[k][count[k]].to]
    BY DEF Leads
  <2>1. k < depth => /\ count[k] # 0 /\ Follows(source[k][count[k]], k)
                     /\ source2[k + 1] = Buffer[source[k][count[k]].to]
    BY <1>6 DEF Leads
  <2>2. CASE k = 0
    BY <1>3, <1>4, <2>1, <2>2
  <2>3. CASE k \in 1..depth
    BY <2>1, <2>3 DEF Leads
  <2> QED BY <1>0, <2>2, <2>3
<1>8. \A k \in 0..depth: k < depth =>
         /\ Beginning(source2[k], count[k] - 1, k) = Beginning(source[k], count[k] - 1, k)
         /\ source2[k][count[k]] = source[k][count[k]]
  <2> SUFFICES ASSUME NEW k \in 0..depth, k < depth
               PROVE  /\ Beginning(source2[k], count[k] - 1, k)
                            = Beginning(source[k], count[k] - 1, k)
                      /\ source2[k][count[k]] = source[k][count[k]]
    OBVIOUS
  <2>1. CASE k = 0
    <3>1. count[0] # 0
      BY <1>0, <2>1 DEF Leads
    <3>2. count[0] - 1 \in 0..Len(source[0])
      BY <1>2, <1>3, <3>1
    <3> QED BY <1>4, <1>5, <2>1, <3>1, <3>2
  <2>2. CASE k \in 1..depth
    BY <2>2
  <2> QED BY <1>0, <2>1, <2>2
<1>9. Beginning(source2[depth], count[depth], depth) = Beginning(source[depth], count[depth], depth)
  <2>1. CASE depth = 0
    BY <1>3, <1>5, <2>1
  <2>2. CASE depth # 0
    <3>1. depth \in 1..depth
      BY <2>2
    <3> QED BY <3>1
  <2> QED BY <2>1, <2>2
<1>10. ASSUME NEW k \in 0..(depth - 1)
       PROVE  before[k + 1] = (before[k] \o Beginning(source2[k], count[k] - 1, k))
                                 \o <<source2[k][count[k]]>>
  <2>1. k \in 0..depth /\ k < depth
    OBVIOUS
  <2>2. before[k + 1] = (before[k] \o Beginning(source[k], count[k] - 1, k))
                           \o <<source[k][count[k]]>>
    BY DEF Thread
  <2> QED BY <1>8, <2>1, <2>2, Zenon
<1>11. /\ before \in [0..depth -> Seq(PM4)] /\ before[0] = <<>>
       /\ done = before[depth] \o Beginning(source2[depth], count[depth], depth)
  BY <1>9 DEF Thread
<1>12. Thread(done, depth, source2, count, before)
  BY <1>10, <1>11, ThreadIs, Zenon
<1> QED BY <1>7, <1>12

\* What was executed is a beginning of the outermost buffer in line.
LEMMA ThreadIsPrefix ==
    ASSUME NEW depth \in 0..3, NEW source, NEW count, Leads(depth, source, count),
           NEW before, NEW done, Thread(done, depth, source, count, before)
    PROVE  IsPrefix(done, InLineAt(source[0], 0))
<1> DEFINE Within(k) == IsPrefix(done, before[k] \o InLineAt(source[k], k))
<1>0. \A k \in 0..depth: /\ k \in 0..3 /\ source[k] \in Seq(PM4) /\ before[k] \in Seq(PM4)
                         /\ count[k] \in 0..Len(Live(source[k]))
                         /\ InLineAt(source[k], k) \in Seq(PM4)
                         /\ before[k] \o InLineAt(source[k], k) \in Seq(PM4)
  <2> SUFFICES ASSUME NEW k \in 0..depth
               PROVE  /\ k \in 0..3 /\ source[k] \in Seq(PM4) /\ before[k] \in Seq(PM4)
                      /\ count[k] \in 0..Len(Live(source[k]))
                      /\ InLineAt(source[k], k) \in Seq(PM4)
                      /\ before[k] \o InLineAt(source[k], k) \in Seq(PM4)
    OBVIOUS
  <2>1. k \in 0..3 /\ source[k] \in Seq(PM4) /\ count[k] \in 0..Len(Live(source[k]))
    BY DEF Leads
  <2>2. before[k] \in Seq(PM4)
    BY DEF Thread
  <2>3. InLineAt(source[k], k) \in Seq(PM4)
    BY <2>1, InLineTyped
  <2>4. before[k] \o InLineAt(source[k], k) \in Seq(PM4)
    BY <2>2, <2>3, ConcatProperties
  <2> QED BY <2>1, <2>2, <2>3, <2>4
<1>1. \A k \in 0..depth, n \in Nat: n <= count[k] =>
         /\ Beginning(source[k], n, k) \in Seq(PM4)
         /\ IsPrefix(Beginning(source[k], n, k), InLineAt(source[k], k))
         /\ IsPrefix(before[k] \o Beginning(source[k], n, k), before[k] \o InLineAt(source[k], k))
         /\ before[k] \o Beginning(source[k], n, k) \in Seq(PM4)
  <2> SUFFICES ASSUME NEW k \in 0..depth, NEW n \in Nat, n <= count[k]
               PROVE  /\ Beginning(source[k], n, k) \in Seq(PM4)
                      /\ IsPrefix(Beginning(source[k], n, k), InLineAt(source[k], k))
                      /\ IsPrefix(before[k] \o Beginning(source[k], n, k),
                                  before[k] \o InLineAt(source[k], k))
                      /\ before[k] \o Beginning(source[k], n, k) \in Seq(PM4)
    OBVIOUS
  <2>1. Len(Live(source[k])) \in 0..Len(source[k]) /\ Len(source[k]) \in Nat
    BY <1>0, LiveFacts
  <2>2. n \in 0..Len(Live(source[k])) /\ n \in 0..Len(source[k])
    <3> DEFINE l == Len(Live(source[k]))
               m == Len(source[k])
               c == count[k]
    <3>1. l \in 0..m /\ m \in Nat /\ c \in 0..l /\ n <= c /\ n \in Nat
      BY <1>0, <2>1
    <3> HIDE DEF l, m, c
    <3>2. n \in 0..l /\ n \in 0..m
      BY <3>1
    <3> QED BY <3>2 DEF l, m
  <2>3. Beginning(source[k], n, k) \in Seq(PM4)
    BY <1>0, <2>2, BeginningMore
  <2>4. IsPrefix(Beginning(source[k], n, k), InLineAt(source[k], k))
    BY <1>0, <2>2, BeginningIsPrefix
  <2>5. IsPrefix(before[k] \o Beginning(source[k], n, k), before[k] \o InLineAt(source[k], k))
    BY <1>0, <2>3, <2>4, PrefixBehind
  <2>6. before[k] \o Beginning(source[k], n, k) \in Seq(PM4)
    BY <1>0, <2>3, ConcatProperties
  <2> QED BY <2>3, <2>4, <2>5, <2>6
<1>2. done \in Seq(PM4) /\ Within(depth)
  <2>1. depth \in 0..depth /\ count[depth] \in Nat /\ count[depth] <= count[depth]
    BY <1>0
  <2>2. done = before[depth] \o Beginning(source[depth], count[depth], depth)
    BY DEF Thread
  <2> QED BY <1>1, <2>1, <2>2
<1>3. ASSUME NEW k \in 0..depth, k < depth, Within(k + 1)
      PROVE  Within(k)
  <2> DEFINE n == count[k]
             s == source[k]
             p == s[n]
             a == before[k]
             g == Beginning(s, n - 1, k)
             t == InLineAt(Buffer[p.to], k + 1)
  <2>1. /\ k \in 0..3 /\ k + 1 \in 0..depth /\ k \in 0..(depth - 1)
        /\ s \in Seq(PM4) /\ n \in 0..Len(Live(s)) /\ a \in Seq(PM4)
    BY <1>0, <1>3
  <2>2. n # 0 /\ Follows(p, k) /\ source[k + 1] = Buffer[p.to]
    BY <1>3 DEF Leads
  <2>3. before[k + 1] = (a \o g) \o <<p>>
    BY <2>1 DEF Thread
  <2>4. IsPrefix(done, ((a \o g) \o <<p>>) \o t)
    BY <1>3, <2>2, <2>3
  <2>5. ((a \o g) \o <<p>>) \o t \in Seq(PM4)
    BY <1>0, <2>1, <2>2, <2>3
  <2>6. /\ IsPrefix(a \o Beginning(s, n, k), a \o InLineAt(s, k))
        /\ a \o Beginning(s, n, k) \in Seq(PM4)
    BY <1>1, <2>1
  <2>7. a \o InLineAt(s, k) \in Seq(PM4)
    BY <1>0
  <2> HIDE DEF n, s, a
  <2>8. /\ n - 1 \in 0..Len(Live(s)) /\ n - 1 < Len(Live(s)) /\ n - 1 + 1 = n
    <3>1. Len(Live(s)) \in Nat
      BY <2>1, LiveFacts
    <3> QED BY <2>1, <2>2, <3>1
  <2>9. /\ (a \o g) \o Piece(p, k) = a \o Beginning(s, n, k)
        /\ p \in PM4 /\ a \o g \in Seq(PM4)
    <3> DEFINE m == n - 1
    <3>1. m \in 0..Len(Live(s)) /\ m < Len(Live(s)) /\ m + 1 = n /\ s[m + 1] = p
      BY <2>8
    <3> HIDE DEF m, p
    <3>2. /\ (a \o Beginning(s, m, k)) \o Piece(s[m + 1], k) = a \o Beginning(s, m + 1, k)
          /\ s[m + 1] \in PM4 /\ a \o Beginning(s, m, k) \in Seq(PM4)
      BY <2>1, <3>1, NextBegun
    <3> QED BY <3>1, <3>2, Zenon DEF m
  <2> HIDE DEF p
  <2>10. t \in Seq(PM4) /\ Piece(p, k) = <<p>> \o t
    BY <2>1, <2>2, <2>9, PieceTyped
  <2> HIDE DEF g, t
  <2>11. ((a \o g) \o <<p>>) \o t = (a \o g) \o (<<p>> \o t)
    <3>1. <<p>> \in Seq(PM4)
      BY <2>9
    <3> QED BY <2>9, <2>10, <3>1, Associates, Zenon
  <2>12. ((a \o g) \o <<p>>) \o t = a \o Beginning(s, n, k)
    BY <2>9, <2>10, <2>11, Zenon
  <2>13. IsPrefix(done, a \o Beginning(s, n, k))
    BY <2>4, <2>12, Zenon
  <2>14. IsPrefix(done, a \o InLineAt(s, k))
    BY <1>2, <2>6, <2>7, <2>13, PrefixTransitive
  <2> QED BY <2>14 DEF a, s
<1> HIDE DEF Within
<1>4. \A k \in 0..3: k = depth => Within(k)
  BY <1>2
<1>5. 2 < depth => Within(2)
  BY <1>3, <1>4
<1>6. 1 < depth => Within(1)
  BY <1>3, <1>4, <1>5
<1>7. Within(0)
  BY <1>3, <1>4, <1>5, <1>6
<1>8. before[0] \o InLineAt(source[0], 0) = InLineAt(source[0], 0)
  <2>1. before[0] = <<>> /\ InLineAt(source[0], 0) \in Seq(PM4)
    BY <1>0 DEF Thread
  <2> QED BY <2>1, ConcatEmptySeq
<1> QED BY <1>7, <1>8 DEF Within


\* The buffers of the stack and the stream below them, and how far each has been scanned
Scanned == [k \in 0..Len(nested) |-> IF k = 0 THEN stream ELSE Buffer[nested[k].buffer]]
Begun == [k \in 0..Len(nested) |-> IF k = 0 THEN next - 1 ELSE nested[k].next - 1]

\* What was executed has been executed in line, whichever buffers the scan is in.
InLineInv ==
    /\ Leads(Len(nested), Scanned, Begun)
    /\ \E before: Thread(executed, Len(nested), Scanned, Begun, before)

\* The scan is at the innermost buffer, behind what has been begun of it.
LEMMA InnermostFacts ==
    ASSUME ScanInv, InLineInv
    PROVE  /\ Len(nested) \in 0..3
           /\ Packets = Scanned[Len(nested)] /\ Position = Begun[Len(nested)] + 1
           /\ Decodable <=> Begun[Len(nested)] < Len(Live(Scanned[Len(nested)]))
           /\ ~Decodable <=> Begun[Len(nested)] = Len(Live(Scanned[Len(nested)]))
<1> DEFINE d == Len(nested)
           s == Scanned[d]
           n == Begun[d]
<1>1. d \in 0..3 /\ d \in 0..d /\ (nested = <<>> <=> d = 0)
  <2>1. nested \in Seq(Frames) /\ d <= MaxDepth /\ MaxDepth \in 0..3
    BY DepthIs DEF ScanInv
  <2>2. d \in Nat /\ (nested = <<>> <=> d = 0)
    BY <2>1
  <2> HIDE DEF d
  <2> QED BY <2>1, <2>2
<1>2. s \in Seq(PM4) /\ n \in 0..Len(Live(s))
  BY <1>1 DEF InLineInv, Leads
<1>3. Packets = s /\ Position = n + 1
  <2>1. CASE nested = <<>>
    <3>1. s = stream /\ n = next - 1 /\ next \in Int
      BY <1>1, <2>1 DEF Scanned, Begun, ScanInv
    <3> QED BY <2>1, <3>1 DEF Packets, Position
  <2>2. CASE nested # <<>>
    <3>1. Last(nested) = nested[d]
      BY DEF Last
    <3>2. s = Buffer[nested[d].buffer] /\ n = nested[d].next - 1
      BY <1>1, <2>2 DEF Scanned, Begun
    <3>3. nested[d].next \in Nat
      <4>1. nested[d] \in Frames
        BY <2>2, LastFacts DEF ScanInv
      <4> QED BY <4>1 DEF Frames
    <3> HIDE DEF d, n
    <3> QED BY <2>2, <3>1, <3>2, <3>3 DEF Packets, Position
  <2> QED BY <2>1, <2>2
<1> HIDE DEF s, n
<1>4. /\ Len(Live(s)) \in 0..Len(s) /\ Len(s) \in Nat
      /\ \A i \in 1..Len(Live(s)): s[i].op # "stop"
      /\ Len(Live(s)) < Len(s) => s[Len(Live(s)) + 1].op = "stop"
  BY <1>2, LiveFacts
<1>5. Decodable <=> n + 1 <= Len(s) /\ s[n + 1].op # "stop"
  BY <1>3 DEF Decodable
<1>6. n < Len(Live(s)) => Decodable
  <2> SUFFICES ASSUME n < Len(Live(s)) PROVE Decodable
    OBVIOUS
  <2>1. n + 1 \in 1..Len(Live(s)) /\ n + 1 <= Len(s)
    BY <1>2, <1>4
  <2> QED BY <1>4, <1>5, <2>1
<1>7. n = Len(Live(s)) => ~Decodable
  <2> SUFFICES ASSUME n = Len(Live(s)), n + 1 <= Len(s) PROVE s[n + 1].op = "stop"
    BY <1>5
  <2>1. Len(Live(s)) < Len(s)
    BY <1>2, <1>4
  <2> QED BY <1>4, <2>1
<1>8. n < Len(Live(s)) \/ n = Len(Live(s))
  BY <1>2, <1>4
<1>9. ~(n < Len(Live(s)) /\ n = Len(Live(s)))
  BY <1>2
<1> QED BY <1>1, <1>3, <1>6, <1>7, <1>8, <1>9 DEF s, n

\* Without the innermost buffer
LEMMA FrontPlaces ==
    ASSUME NEW S, NEW s \in Seq(S), Len(s) \in Nat \ {0}
    PROVE  /\ SubSeq(s, 1, Len(s) - 1) \in Seq(S)
           /\ Len(SubSeq(s, 1, Len(s) - 1)) = Len(s) - 1
           /\ \A k \in 1..(Len(s) - 1): SubSeq(s, 1, Len(s) - 1)[k] = s[k]
<1> DEFINE n == Len(s) - 1
<1>1. n \in 0..Len(s)
  OBVIOUS
<1> HIDE DEF n
<1>2. SubSeq(s, 1, n) \in Seq(S) /\ Len(SubSeq(s, 1, n)) = n
  BY <1>1, BeginningOf
<1>3. \A k \in 1..n: SubSeq(s, 1, n)[k] = s[k]
  BY <1>1
<1> QED BY <1>2, <1>3 DEF n

\* Behind the packet, buffer by buffer
LEMMA AdvancedPlaces ==
    ASSUME ScanInv, nested # <<>>
    PROVE  /\ Len(Advanced) = Len(nested) /\ Len(nested) \in Nat \ {0}
           /\ \A k \in 1..(Len(nested) - 1): Advanced[k] = nested[k]
           /\ Advanced[Len(nested)].buffer = nested[Len(nested)].buffer
           /\ Advanced[Len(nested)].next = nested[Len(nested)].next + 1
<1> DEFINE d == Len(nested)
           f == [nested[d] EXCEPT !.next = @ + 1]
           u == SubSeq(nested, 1, d - 1)
<1>1. nested \in Seq(Frames) /\ d \in Nat \ {0} /\ nested[d] \in Frames
  BY LastFacts DEF ScanInv
<1>2. Advanced = u \o <<f>>
  BY DEF Advanced, Front, Last
<1>3. u \in Seq(Frames) /\ Len(u) = d - 1 /\ \A k \in 1..(d - 1): u[k] = nested[k]
  BY <1>1, FrontPlaces
<1>4. f \in Frames /\ f.buffer = nested[d].buffer /\ f.next = nested[d].next + 1
  BY <1>1 DEF Frames
<1> HIDE DEF d, f, u
<1>5. Len(u \o <<f>>) = d /\ (u \o <<f>>)[d] = f /\ \A k \in 1..(d - 1): (u \o <<f>>)[k] = u[k]
  BY <1>1, <1>3, <1>4
<1> QED BY <1>1, <1>2, <1>3, <1>4, <1>5 DEF d

\* A packet is executed that leads nowhere.
LEMMA InLineExecutes ==
    ASSUME ScanInv, InLineInv, Executes, ~Follows(Packet, Len(nested))
    PROVE  InLineInv'
<1> DEFINE d == Len(nested)
<1>1. /\ d \in 0..3 /\ Packet = Scanned[d][Begun[d] + 1]
      /\ Begun[d] < Len(Live(Scanned[d]))
  BY InnermostFacts DEF Executes, Packet
<1>2. /\ executed \in Seq(PM4) /\ Packet \in PM4 /\ executed' = Append(executed, Packet)
      /\ stream' = stream /\ nested' = Advanced
      /\ next' = IF nested = <<>> THEN next + 1 ELSE next
      /\ nested \in Seq(Frames) /\ next \in Nat
  BY PacketDecoded DEF Executes, Step, ScanInv
<1>3. executed' = executed \o <<Packet>>
  BY <1>2, AppendIsConcat
<1>4. Len(nested') = d
  BY <1>2, AdvancedFacts
<1>5. /\ Scanned' = Scanned /\ \A k \in 0..(d - 1): Begun'[k] = Begun[k]
      /\ Begun'[d] = Begun[d] + 1
  <2>1. CASE nested = <<>>
    <3>1. d = 0 /\ next' = next + 1 /\ Len(nested') = 0
      BY <1>2, <1>4, <2>1
    <3> HIDE DEF d
    <3>2. Scanned' = Scanned
      BY <1>2, <2>1, <3>1 DEF Scanned
    <3>3. Begun[0] = next - 1 /\ Begun'[0] = next' - 1
      BY <2>1, <3>1 DEF Begun
    <3> QED BY <1>2, <3>1, <3>2, <3>3
  <2>2. CASE nested # <<>>
    <3>1. /\ d \in Nat \ {0} /\ next' = next
          /\ \A k \in 1..(d - 1): nested'[k] = nested[k]
          /\ nested'[d].buffer = nested[d].buffer /\ nested'[d].next = nested[d].next + 1
      BY <1>2, <2>2, AdvancedPlaces
    <3>2. nested[d].next \in Nat
      <4>1. nested[d] \in Frames
        BY <1>2, <2>2, LastFacts
      <4> QED BY <4>1 DEF Frames
    <3>3. /\ Scanned = [k \in 0..d |-> IF k = 0 THEN stream ELSE Buffer[nested[k].buffer]]
          /\ Scanned' = [k \in 0..d |-> IF k = 0 THEN stream ELSE Buffer[nested'[k].buffer]]
          /\ Begun = [k \in 0..d |-> IF k = 0 THEN next - 1 ELSE nested[k].next - 1]
          /\ Begun' = [k \in 0..d |-> IF k = 0 THEN next - 1 ELSE nested'[k].next - 1]
      BY <1>2, <1>4, <3>1 DEF Scanned, Begun
    <3> HIDE DEF d
    <3>4. \A k \in 0..d: k # 0 => k \in 1..(d - 1) \/ k = d
      BY <3>1
    <3>5. Scanned' = Scanned
      BY <3>1, <3>3, <3>4
    <3>6. \A k \in 0..(d - 1): Begun'[k] = Begun[k]
      BY <3>1, <3>3
    <3>7. Begun'[d] = Begun[d] + 1
      BY <3>1, <3>2, <3>3
    <3> QED BY <3>5, <3>6, <3>7
  <2> QED BY <2>1, <2>2
<1>6. PICK before: Thread(executed, d, Scanned, Begun, before)
  BY DEF InLineInv
<1>7. Leads(d, Scanned, Begun)
  BY DEF InLineInv
<1>8. ~Follows(Packet, d)
  OBVIOUS
<1> HIDE DEF d
<1>9. Leads(d, Scanned, Begun') /\ Thread(executed \o <<Packet>>, d, Scanned, Begun', before)
  BY <1>1, <1>5, <1>6, <1>7, <1>8, ThreadExecutes
<1>10. /\ Leads(Len(nested'), Scanned', Begun')
       /\ Thread(executed', Len(nested'), Scanned', Begun', before)
  BY <1>3, <1>4, <1>5, <1>9
<1> QED BY <1>10 DEF InLineInv

\* A buffer is entered behind the packet that leads to it.
LEMMA InLineEnters ==
    ASSUME ScanInv, InLineInv, IndirectBuffer
    PROVE  InLineInv'
<1> DEFINE d == Len(nested)
           f == [buffer |-> Packet.to, next |-> 1]
<1>1. /\ d \in 0..3 /\ Packet = Scanned[d][Begun[d] + 1]
      /\ Begun[d] < Len(Live(Scanned[d]))
  BY InnermostFacts DEF IndirectBuffer, Packet
<1>2. /\ executed \in Seq(PM4) /\ Packet \in PM4 /\ executed' = Append(executed, Packet)
      /\ stream' = stream /\ nested' = Append(Advanced, f)
      /\ next' = IF nested = <<>> THEN next + 1 ELSE next
      /\ nested \in Seq(Frames) /\ next \in Nat /\ Follows(Packet, d)
  BY PacketDecoded DEF IndirectBuffer, Step, ScanInv
<1>3. executed' = executed \o <<Packet>>
  BY <1>2, AppendIsConcat
<1>4. d \in 0..2 /\ f \in Frames
  <2>1. MaxDepth \in 0..3 /\ d < MaxDepth
    BY <1>2, DepthIs DEF Follows
  <2>2. Packet.to \in DOMAIN Buffer
    BY <1>2, LeadsToBuffer
  <2> HIDE DEF d
  <2>3. f \in Frames
    BY <2>2 DEF Frames
  <2> QED BY <1>1, <2>1, <2>3
<1>5. f.buffer = Packet.to /\ f.next = 1
  OBVIOUS
<1>6. /\ Advanced \in Seq(Frames) /\ Len(Advanced) = d
      /\ nested = <<>> => d = 0
      /\ nested # <<>> => /\ d \in Nat \ {0} /\ nested[d] \in Frames
                          /\ \A k \in 1..(d - 1): Advanced[k] = nested[k]
                          /\ Advanced[d].buffer = nested[d].buffer
                          /\ Advanced[d].next = nested[d].next + 1
  BY <1>2, AdvancedFacts, AdvancedPlaces, LastFacts
<1> HIDE DEF d, f
<1>7. /\ Len(nested') = d + 1 /\ nested'[d + 1] = f
      /\ \A k \in 1..d: nested'[k] = Advanced[k]
  BY <1>1, <1>2, <1>4, <1>6
<1>8. /\ Scanned = [k \in 0..d |-> IF k = 0 THEN stream ELSE Buffer[nested[k].buffer]]
      /\ Scanned' = [k \in 0..(d + 1) |-> IF k = 0 THEN stream ELSE Buffer[nested'[k].buffer]]
      /\ Begun = [k \in 0..d |-> IF k = 0 THEN next - 1 ELSE nested[k].next - 1]
      /\ Begun' = [k \in 0..(d + 1) |-> IF k = 0 THEN next' - 1 ELSE nested'[k].next - 1]
  BY <1>2, <1>7 DEF Scanned, Begun, d
<1>9. Scanned'[d + 1] = Buffer[Packet.to] /\ Begun'[d + 1] = 0
  BY <1>4, <1>5, <1>7, <1>8
<1>10. /\ \A k \in 0..d: Scanned'[k] = Scanned[k]
       /\ \A k \in 0..(d - 1): Begun'[k] = Begun[k]
       /\ Begun'[d] = Begun[d] + 1
  <2>1. CASE nested = <<>>
    <3>1. d = 0 /\ next' = next + 1
      BY <1>2, <1>6, <2>1
    <3> QED BY <1>2, <1>8, <3>1
  <2>2. CASE nested # <<>>
    <3>1. /\ d \in Nat \ {0} /\ next' = next
          /\ \A k \in 1..(d - 1): nested'[k] = nested[k]
          /\ nested'[d].buffer = nested[d].buffer /\ nested'[d].next = nested[d].next + 1
          /\ nested[d].next \in Nat
      <4>1. d \in Nat \ {0} /\ next' = next /\ nested[d] \in Frames
        BY <1>2, <1>6, <2>2
      <4>2. d \in 1..d /\ \A k \in 1..(d - 1): k \in 1..d
        BY <4>1
      <4> QED BY <1>6, <1>7, <2>2, <4>1, <4>2 DEF Frames
    <3>2. \A k \in 0..d: k \in 0..(d + 1) /\ (k = 0 \/ k \in 1..(d - 1) \/ k = d)
      BY <3>1
    <3>3. ASSUME NEW k \in 0..d PROVE Scanned'[k] = Scanned[k]
      <4>1. k # 0 => nested'[k].buffer = nested[k].buffer
        BY <3>1, <3>2
      <4>2. Scanned'[k] = IF k = 0 THEN stream ELSE Buffer[nested'[k].buffer]
        BY <1>8, <3>2
      <4>3. Scanned[k] = IF k = 0 THEN stream ELSE Buffer[nested[k].buffer]
        BY <1>8
      <4> QED BY <4>1, <4>2, <4>3
    <3>4. \A k \in 0..(d - 1): Begun'[k] = Begun[k]
      BY <1>8, <3>1
    <3>5. Begun'[d] = Begun[d] + 1
      BY <1>8, <3>1
    <3> QED BY <3>3, <3>4, <3>5
  <2> QED BY <2>1, <2>2
<1>11. PICK before: Thread(executed, d, Scanned, Begun, before)
  BY DEF InLineInv, d
<1>12. Leads(d, Scanned, Begun)
  BY DEF InLineInv, d
<1>13. /\ Leads(d + 1, Scanned', Begun')
       /\ \E b: Thread(executed \o <<Packet>>, d + 1, Scanned', Begun', b)
  <2>1. Follows(Packet, d) /\ d \in 0..2
    BY <1>2, <1>4
  <2> QED BY <1>1, <1>9, <1>10, <1>11, <1>12, <2>1, ThreadEnters, SMTT(60)
<1> QED BY <1>3, <1>7, <1>13 DEF InLineInv

\* The same buffers, scanned as far
LEMMA ThreadAgrees ==
    ASSUME NEW depth \in 0..3, NEW source, NEW count, Leads(depth, source, count),
           NEW before, NEW done, Thread(done, depth, source, count, before),
           NEW source2, \A k \in 0..depth: source2[k] = source[k],
           NEW count2, \A k \in 0..depth: count2[k] = count[k]
    PROVE  Leads(depth, source2, count2) /\ Thread(done, depth, source2, count2, before)
<1>1. /\ depth \in 0..depth /\ \A k \in 0..(depth - 1): k \in 0..depth
      /\ \A k \in 0..depth: k < depth => k + 1 \in 0..depth
  OBVIOUS
<1>2. Leads(depth, source2, count2)
  BY <1>1 DEF Leads
<1>3. ASSUME NEW k \in 0..(depth - 1)
      PROVE  before[k + 1] = (before[k] \o Beginning(source2[k], count2[k] - 1, k))
                                \o <<source2[k][count2[k]]>>
  <2>1. before[k + 1] = (before[k] \o Beginning(source[k], count[k] - 1, k))
                           \o <<source[k][count[k]]>>
    BY DEF Thread
  <2>2. source2[k] = source[k] /\ count2[k] = count[k]
    BY <1>1
  <2> QED BY <2>1, <2>2, Zenon
<1>4. /\ before \in [0..depth -> Seq(PM4)] /\ before[0] = <<>>
      /\ done = before[depth] \o Beginning(source2[depth], count2[depth], depth)
  BY <1>1 DEF Thread
<1> QED BY <1>2, <1>3, <1>4, ThreadIs, Zenon

\* The innermost buffer ends, and the packet that led to it is over.
LEMMA InLineReturns ==
    ASSUME ScanInv, InLineInv, Return
    PROVE  InLineInv'
<1> DEFINE d == Len(nested)
           m == Len(nested) - 1
<1>1. /\ d \in 1..3 /\ Begun[d] = Len(Live(Scanned[d]))
  <2>1. nested # <<>> /\ ~Decodable /\ nested \in Seq(Frames)
    BY DEF Return, ScanInv
  <2>2. d \in 0..3 /\ Begun[d] = Len(Live(Scanned[d]))
    BY <2>1, InnermostFacts
  <2>3. d \in Nat \ {0}
    BY <2>1, LastFacts
  <2> HIDE DEF d
  <2> QED BY <2>2, <2>3
<1>2. /\ UNCHANGED <<stream, next, executed>> /\ nested \in Seq(Frames)
      /\ nested' = SubSeq(nested, 1, m)
  BY DEF Return, ScanInv, Front
<1>3. m \in 0..2 /\ m = d - 1 /\ m \in 0..3 /\ d \in Nat \ {0}
  <2> HIDE DEF d
  <2>1. m = d - 1
    BY DEF d
  <2> HIDE DEF m
  <2> QED BY <1>1, <2>1
<1>4. Len(nested') = m /\ \A k \in 1..m: nested'[k] = nested[k]
  BY <1>2, <1>3, FrontPlaces
<1> HIDE DEF m
<1>5. /\ Scanned = [k \in 0..d |-> IF k = 0 THEN stream ELSE Buffer[nested[k].buffer]]
      /\ Scanned' = [k \in 0..m |-> IF k = 0 THEN stream ELSE Buffer[nested'[k].buffer]]
      /\ Begun = [k \in 0..d |-> IF k = 0 THEN next - 1 ELSE nested[k].next - 1]
      /\ Begun' = [k \in 0..m |-> IF k = 0 THEN next - 1 ELSE nested'[k].next - 1]
  BY <1>2, <1>4 DEF Scanned, Begun
<1>6. PICK before: Thread(executed, d, Scanned, Begun, before)
  BY DEF InLineInv
<1>7. Leads(d, Scanned, Begun)
  BY DEF InLineInv
<1> HIDE DEF d
<1>8. Leads(d - 1, Scanned, Begun) /\ \E b: Thread(executed, d - 1, Scanned, Begun, b)
  BY <1>1, <1>6, <1>7, ThreadReturns
<1>9. \A k \in 0..m: Scanned'[k] = Scanned[k] /\ Begun'[k] = Begun[k]
  <2>1. \A k \in 0..m: k \in 0..d /\ (k = 0 \/ k \in 1..m)
    BY <1>3
  <2> QED BY <1>4, <1>5, <2>1
<1>10. Leads(m, Scanned', Begun') /\ \E b: Thread(executed, m, Scanned', Begun', b)
  BY <1>3, <1>8, <1>9, ThreadAgrees
<1> QED BY <1>2, <1>4, <1>10 DEF InLineInv

\* The stream as it was, or with a packet more
LEMMA InLineGrows ==
    ASSUME ScanInv, InLineInv, UNCHANGED <<next, nested, executed>>,
           stream' = stream \/ \E p \in PM4: stream' = Append(stream, p)
    PROVE  InLineInv'
<1> DEFINE d == Len(nested)
<1>1. /\ stream' \in Seq(PM4) /\ Len(stream) <= Len(stream')
      /\ \A i \in 1..Len(stream): stream'[i] = stream[i]
  <2>1. CASE stream' = stream
    BY <2>1 DEF ScanInv
  <2>2. CASE \E p \in PM4: stream' = Append(stream, p)
    <3>1. PICK p \in PM4: stream' = Append(stream, p)
      BY <2>2
    <3>2. stream \in Seq(PM4)
      BY DEF ScanInv
    <3> QED BY <3>1, <3>2, Appended
  <2> QED BY <2>1, <2>2
<1>2. d \in 0..3
  BY InnermostFacts
<1>3. /\ Scanned = [k \in 0..d |-> IF k = 0 THEN stream ELSE Buffer[nested[k].buffer]]
      /\ Scanned' = [k \in 0..d |-> IF k = 0 THEN stream' ELSE Buffer[nested[k].buffer]]
      /\ Begun' = Begun
  BY DEF Scanned, Begun
<1>4. PICK before: Thread(executed, d, Scanned, Begun, before)
  BY DEF InLineInv
<1>5. Leads(d, Scanned, Begun)
  BY DEF InLineInv
<1> HIDE DEF d
<1>6. /\ Scanned[0] = stream /\ Scanned'[0] = stream'
      /\ \A k \in 1..d: Scanned'[k] = Scanned[k]
  BY <1>2, <1>3
<1>7. Leads(d, Scanned', Begun) /\ Thread(executed, d, Scanned', Begun, before)
  BY <1>1, <1>2, <1>4, <1>5, <1>6, ThreadGrows
<1> QED BY <1>3, <1>7 DEF InLineInv, d

\* A step of the scan
LEMMA InLineScans ==
    ASSUME ScanInv, InLineInv, ScanBuffer
    PROVE  InLineInv'
<1>1. CASE IndirectBuffer
  BY <1>1, InLineEnters
<1>2. CASE Return
  BY <1>2, InLineReturns
<1>3. CASE PassOver
  BY <1>3, InLineExecutes DEF PassOver
<1>4. CASE Executes /\ Packet.op # "indirect"
  BY <1>4, InLineExecutes DEF Follows
<1> QED
  BY <1>1, <1>2, <1>3, <1>4 DEF ScanBuffer, Type0, SetConstant, DrawIndx, ImLoadImmediate,
     EventWriteShd, DrawIndx2

\* The guest and the overrides announce packets, and leave the scan where it is.
LEMMA InLineWrites ==
    ASSUME FenceInv, Guest
    PROVE  /\ UNCHANGED <<next, nested, executed>>
           /\ stream' = stream \/ \E p \in PM4: stream' = Append(stream, p)
<1>1. CASE Rewrite
  BY <1>1 DEF Rewrite, scan
<1>2. ASSUME NEW p \in menu, Announce(p)
      PROVE  /\ UNCHANGED <<next, nested, executed>>
             /\ \E q \in PM4: stream' = Append(stream, q)
  <2>1. menu \in Menus \cup FenceMenus
    BY DEF FenceInv, GuestTyped
  <2>2. p \in PM4
    BY <2>1, FenceAssumption
  <2> QED BY <1>2, <2>2 DEF Announce, Announces, scan
<1>3. FencePacket \in PM4
  BY FenceAssumption DEF FencePacket, PM4, FenceInv, GuestTyped
<1>4. \A c \in Cursors: CloseChunk(c) => \E q \in PM4: stream' = Append(stream, q)
  BY <1>3 DEF CloseChunk
<1>5. ASSUME NEW c \in Cursors, sub_820B5A28(c)
      PROVE  /\ UNCHANGED <<next, nested, executed>>
             /\ \E q \in PM4: stream' = Append(stream, q)
  BY <1>4, <1>5 DEF sub_820B5A28, scan
<1>6. ASSUME NEW t, WaitPassesAtOnce(t)
      PROVE  UNCHANGED <<next, nested, executed, stream>>
  BY <1>6 DEF WaitPassesAtOnce, processorVars, scan
<1>7. ASSUME NEW t, NEW inProgress, NEW c \in Cursors, sub_820B5BC8(t, inProgress, c)
      PROVE  /\ UNCHANGED <<next, nested, executed>>
             /\ stream' = stream \/ \E q \in PM4: stream' = Append(stream, q)
  BY <1>4, <1>7 DEF sub_820B5BC8, scan
<1>8. ASSUME NEW x, NEW t, sub_820B4EE8(x, t)
      PROVE  UNCHANGED <<next, nested, executed, stream>>
  BY <1>8 DEF sub_820B4EE8, processorVars, scan
<1> QED BY <1>1, <1>2, <1>5, <1>6, <1>7, <1>8 DEF Guest

\* Only the pump scans; every other step leaves the scan or adds to the stream.
LEMMA InLineStep ==
    ASSUME FenceInv, InLineInv, [FenceNext]_fenceVars
    PROVE  InLineInv'
<1>1. ScanInv
  BY DEF FenceInv, ProcessorInv
<1>2. CASE Pump
  BY <1>1, <1>2, InLineScans DEF Pump
<1>3. CASE Guest
  BY <1>1, <1>3, InLineWrites, InLineGrows
<1>4. CASE Recheck \/ TimePasses \/ List \/ UNCHANGED fenceVars
  <2>1. UNCHANGED <<stream, next, nested, executed>>
    BY <1>4 DEF Recheck, TimePasses, List, ListStep, fenceVars, processorVars, scan
  <2> QED BY <1>1, <2>1, InLineGrows
<1> QED BY <1>2, <1>3, <1>4 DEF FenceNext

LEMMA InLineStart == FenceInit => InLineInv
<1> SUFFICES ASSUME FenceInit PROVE InLineInv
  OBVIOUS
<1>1. stream = <<>> /\ next = 1 /\ nested = <<>> /\ executed = <<>>
  BY DEF FenceInit, ProcessorInit
<1>2. <<>> \in Seq(PM4) /\ Len(nested) = 0
  BY <1>1
<1>3. Scanned[0] = <<>> /\ Begun[0] = 0
  BY <1>1, <1>2 DEF Scanned, Begun
<1>4. Len(Live(<<>>)) \in Nat
  BY <1>2, LiveFacts
<1>5. Leads(0, Scanned, Begun)
  <2> SUFFICES ASSUME NEW k \in 0..0
               PROVE  /\ Scanned[k] \in Seq(PM4) /\ Begun[k] \in 0..Len(Live(Scanned[k]))
                      /\ k < 0 => /\ Begun[k] # 0 /\ Follows(Scanned[k][Begun[k]], k)
                                  /\ Scanned[k + 1] = Buffer[Scanned[k][Begun[k]].to]
    BY DEF Leads
  <2>1. k = 0 /\ ~(k < 0)
    OBVIOUS
  <2>2. Begun[k] \in 0..Len(Live(Scanned[k]))
    BY <1>3, <1>4, <2>1
  <2> QED BY <1>2, <1>3, <2>1, <2>2
<1>6. Thread(<<>>, 0, Scanned, Begun, [k \in 0..0 |-> <<>>])
  <2>1. Beginning(<<>>, 0, 0) = <<>>
    <3>1. \A s \in Seq(PM4): 0 \in 0..Len(s)
      OBVIOUS
    <3>2. \A s \in Seq(PM4): Beginning(s, 0, 0) = <<>>
      BY <3>1, BeginningMore
    <3> QED BY <1>2, <3>2
  <2>2. <<>> \o <<>> = <<>>
    OBVIOUS
  <2> QED BY <1>2, <1>3, <2>1, <2>2 DEF Thread
<1> QED BY <1>1, <1>2, <1>5, <1>6 DEF InLineInv

\* Whatever packets are announced and however the buffers lead to one another, packets are
\* executed in the order in which they stand in line: those of an inner buffer where the
\* packet that leads to it stands, and those behind it when the scan returns.
THEOREM PacketsExecuteInLine == FenceSpec => []ExecutesInLine
<1>1. FenceInv /\ InLineInv /\ [FenceNext]_fenceVars => InLineInv'
  BY InLineStep
<1>2. FenceInv /\ InLineInv => ExecutesInLine
  <2> SUFFICES ASSUME FenceInv, InLineInv PROVE ExecutesInLine
    OBVIOUS
  <2> DEFINE d == Len(nested)
  <2>1. d \in 0..3
    BY InnermostFacts DEF FenceInv, ProcessorInv
  <2>2. PICK before: Thread(executed, d, Scanned, Begun, before)
    BY DEF InLineInv
  <2>3. Leads(d, Scanned, Begun)
    BY DEF InLineInv
  <2>4. Scanned[0] = stream
    BY <2>1 DEF Scanned
  <2> HIDE DEF d
  <2>5. IsPrefix(executed, InLineAt(Scanned[0], 0))
    BY <2>1, <2>2, <2>3, ThreadIsPrefix
  <2> QED BY <2>4, <2>5 DEF ExecutesInLine, InLineAt
<1> QED BY <1>1, <1>2, InLineStart, FenceInvariant, PTL DEF FenceSpec
=============================================================================

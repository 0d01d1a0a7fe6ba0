-------------------------- MODULE CommandProcessor --------------------------
(***************************************************************************)
(* What GpuCommandTracer::ScanBuffer of host/gpu_trace.cpp makes of the    *)
(* packets it decodes, with the register file of host/gpu_state.cpp, and   *)
(* with FrameDrawList, which takes its draws.  GpuRing says which packets  *)
(* of the ring are decoded; here they are a stream, each packet at once.   *)
(*                                                                         *)
(* A dword is a number, decoded by arithmetic where the code decodes it.   *)
(***************************************************************************)
EXTENDS FrameDrawList, SequencesExt, FiniteSetsExt

CONSTANTS
    Buffer,           \* the packets of each indirect buffer, in guest memory
    Indices,          \* guest memory from the address of every kDMA draw's index buffer on
    Watched,          \* the registers looked at; some behind the register file
    Words,            \* the words of guest memory that packets write
    Translation,      \* of each vertex shader, by the hash of its microcode: the success
                      \* and the stride of its TranslationResult; of 0 the default one
    Vblanks,          \* values of vblankCounter_, which counts the scans
    MaxBufferBytes,   \* kMaxVertexBufferBytes
    MaxDepth          \* kMaxIndirectDepth

\* What a packet decodes to: the dwords of its payload and what is made of its header
PM4 ==
    [op: {"type0"}, base: Nat, one: BOOLEAN, values: Seq(Nat) \ {<<>>}]
    \cup [op: {"constant"}, bank: Nat, index: Nat, values: Seq(Nat)]
    \cup [op: {"draw"}, count: Nat, words: Nat, initiator: Nat]
    \cup [op: {"draw_indx"}, count: Nat, initiator: Nat]
    \cup [op: {"load"}, count: Nat, start: Nat, size: Nat, type: Nat,
          hash: DOMAIN Translation \ {0}]
    \cup [op: {"event"}, count: Nat, counter: BOOLEAN, word: Words, value: Nat]
    \cup [op: {"indirect"}, count: Nat, to: DOMAIN Buffer]
    \cup [op: {"filler", "interrupt", "unknown", "stop"}, count: Nat]

ASSUME ProcessorAssumption ==
    /\ {8700, 8710, 18433} \subseteq Watched /\ Watched \subseteq Nat /\ Indices \in Seq(Nat)
    /\ \A b \in DOMAIN Buffer: Buffer[b] \in Seq(PM4)
    /\ MaxBufferBytes \in Nat /\ MaxDepth \in 0..3
    /\ MaxBufferBytes <= 2 * Len(Indices)     \* guest memory goes on behind any index buffer

ASSUME TranslationAssumption ==
    /\ 0 \in DOMAIN Translation /\ ~Translation[0].success
    /\ \A h \in DOMAIN Translation: Translation[h] \in [success: BOOLEAN, stride: Nat]

ASSUME VblankAssumption == Vblanks \subseteq Nat

VARIABLES
    stream,       \* the packets announced in the main ring
    next,         \* the packet of the stream to be decoded next
    nested,       \* the indirect buffers being scanned, the innermost last
    regs,         \* GpuRegisterState::regs_
    vertexShader, \* vertexHash_ of the ShaderTranslationCache, which stands for the result
    memory,       \* guest memory at Words
    content,      \* guest memory at the vertex buffer: the version of its data
    commands,     \* the DrawCommands made; FrameDrawList holds their numbers
    executed      \* history: the packets executed, in order

machine == <<regs, vertexShader, memory, commands>>
scan == <<next, nested>>
processorVars == <<vars, stream, scan, machine, content, executed>>

RegisterCount == 20483             \* 0x5003
DrawInitiatorRegister == 8700      \* 0x21FC
VertexFetchConstantBase == 18432   \* 0x4800
ViewportControl == 8710            \* 0x2206, PA_CL_VTE_CNTL

-----------------------------------------------------------------------------
(* The register file. *)

\* Variant: the boundary is off by one.
BugStored(i) == i <= RegisterCount

Stored(i) == i < RegisterCount

WriteRegisters(writes) ==
    [i \in Watched |-> IF i \in DOMAIN writes /\ Stored(i) THEN writes[i] ELSE regs[i]]

ReadRegister(i, r) == IF Stored(i) THEN r[i] ELSE 0

DrawInitiator(v) ==
    [primType |-> v % 64, sourceSelect |-> (v \div 64) % 4,
     indexSize |-> (v \div 2048) % 2, numIndices |-> v \div 65536]

\* The size in the second dword of a vertex fetch constant
BytesOf(v) == 4 * ((v \div 4) % 16777216)
VertexBytes(r) == BytesOf(ReadRegister(VertexFetchConstantBase + 1, r))

\* No viewport transformation: positions are window coordinates.
WindowCoordinates(r) == ReadRegister(ViewportControl, r) % 64 = 0

-----------------------------------------------------------------------------
(* The scan of one buffer within another. *)

Packets == IF nested = <<>> THEN stream ELSE Buffer[Last(nested).buffer]
Position == IF nested = <<>> THEN next ELSE Last(nested).next
Decodable == Position <= Len(Packets) /\ Packets[Position].op # "stop"
Packet == Packets[Position]

Advanced == IF nested = <<>> THEN <<>> ELSE Front(nested) \o <<[Last(nested) EXCEPT !.next = @ + 1]>>

Step ==
    /\ next' = IF nested = <<>> THEN next + 1 ELSE next
    /\ executed' = Append(executed, Packet)
    /\ UNCHANGED <<stream, content>>

Executes == Decodable /\ Step /\ nested' = Advanced

\* Variant: one level less is followed.
BugFollows(p, depth) == p.op = "indirect" /\ p.count = 2 /\ depth + 1 < MaxDepth

Follows(p, depth) == p.op = "indirect" /\ p.count = 2 /\ depth < MaxDepth

IndirectBuffer ==
    /\ Decodable /\ Follows(Packet, Len(nested))
    /\ Step
    /\ nested' = Append(Advanced, [buffer |-> Packet.to, next |-> 1])
    /\ UNCHANGED <<vars, machine>>

\* The inner scan ends at its size or at what does not decode; its offset is dropped.
Return ==
    /\ nested # <<>> /\ ~Decodable
    /\ nested' = Front(nested)
    /\ UNCHANGED <<vars, stream, next, machine, content, executed>>

-----------------------------------------------------------------------------
(* The packets that set state. *)

\* Variant: the flag for one register is ignored.
BugType0Writes(p) ==
    [i \in p.base..(p.base + Len(p.values) - 1) |-> p.values[i - p.base + 1]]

\* header bit 15: every value goes to the one register
Type0Writes(p) ==
    IF p.one THEN [i \in {p.base} |-> Last(p.values)]
    ELSE [i \in p.base..(p.base + Len(p.values) - 1) |-> p.values[i - p.base + 1]]

Type0 ==
    /\ Executes /\ Packet.op = "type0"
    /\ regs' = WriteRegisters(Type0Writes(Packet))
    /\ UNCHANGED <<vars, vertexShader, memory, commands>>

Bank == <<16384, 18432, 18688, 18696, 8192>>    \* 0x4000, 0x4800, 0x4900, 0x4908, 0x2000

ConstantWrites(p) ==
    IF p.bank >= Len(Bank) THEN <<>>
    ELSE LET base == Bank[p.bank + 1] + p.index
         IN [i \in base..(base + Len(p.values) - 1) |-> p.values[i - base + 1]]

SetConstant ==
    /\ Executes /\ Packet.op = "constant"
    /\ regs' = WriteRegisters(ConstantWrites(Packet))
    /\ UNCHANGED <<vars, vertexShader, memory, commands>>

Initiator(p) == [i \in {DrawInitiatorRegister} |-> p.initiator]

\* DRAW_INDX leaves the initiator behind and draws nothing.
DrawIndx ==
    /\ Executes /\ Packet.op = "draw_indx"
    /\ regs' = IF Packet.count >= 2 THEN WriteRegisters(Initiator(Packet)) ELSE regs
    /\ UNCHANGED <<vars, vertexShader, memory, commands>>

\* Whole microcode for a vertex shader; a pixel shader is of no concern to the draws.
LoadsVertexShader(p) ==
    p.op = "load" /\ p.count >= 2 /\ p.start = 0 /\ p.size <= p.count - 2 /\ p.type = 0

\* A hash that is the cached one is not translated again.
ImLoadImmediate ==
    /\ Executes /\ Packet.op = "load"
    /\ vertexShader' = IF LoadsVertexShader(Packet) /\ Packet.hash # vertexShader
                       THEN Packet.hash ELSE vertexShader
    /\ UNCHANGED <<vars, regs, memory, commands>>

\* initiator bit 31: the GPU's own vblank counter, whatever it is by now
EventValues(p) == IF p.counter THEN Vblanks ELSE {p.value}

EventWriteShd ==
    /\ Executes /\ Packet.op = "event"
    /\ \E v \in EventValues(Packet):
          memory' = IF Packet.count = 3 THEN [memory EXCEPT ![Packet.word] = v] ELSE memory
    /\ UNCHANGED <<vars, regs, vertexShader, commands>>

\* TYPE2, INTERRUPT (its callback is in LockOrder), an opcode that is not known, and an
\* INDIRECT_BUFFER that is too deep or of another size
NoEffect(p) == p.op \in {"filler", "interrupt", "unknown", "indirect"}

PassOver ==
    /\ Executes /\ NoEffect(Packet) /\ ~Follows(Packet, Len(nested))
    /\ UNCHANGED <<vars, machine>>

-----------------------------------------------------------------------------
(* DRAW_INDX_2. *)

Primitive ==
    [t \in {1, 2, 3, 4, 6, 8} |->
        CASE t = 1 -> "point" [] t = 2 -> "line" [] t = 3 -> "lineStrip"
          [] t \in {4, 8} -> "triangle" [] t = 6 -> "triangleStrip"]
IsRectList(di) == di.primType = 8
IsIndexed(di) == di.sourceSelect = 0

IndexBytes(p, di) == p.words * (IF di.indexSize = 1 THEN 4 ELSE 2)

IndicesResolved(p, di) ==
    p.count >= 3 /\ IndexBytes(p, di) \in 1..MaxBufferBytes

Drawable(p, di, bytes) ==
    /\ di.primType \in DOMAIN Primitive
    /\ di.sourceSelect \in {0, 2}
    /\ bytes \in 1..MaxBufferBytes
    /\ IsIndexed(di) => IndicesResolved(p, di)

\* The stride a vertex shader has been translated with, or that of a float3 position
StrideOf(hash) ==
    IF Translation[hash].success /\ Translation[hash].stride # 0 THEN Translation[hash].stride
    ELSE 12

\* That of the shader that is current now
Stride == StrideOf(vertexShader)

Fewer(a, b) == IF a < b THEN a ELSE b

\* Variant: what the initiator claims is drawn.
BugIndexCount(p, di) == di.numIndices

IndexCount(p, di) == Fewer(p.words, di.numIndices)

Capacity(bytes) == bytes \div Stride

\* Where a rectangle list takes its vertices from
Sources(p, di, bytes) ==
    IF IsIndexed(di) THEN SubSeq(Indices, 1, IndexCount(p, di))
    ELSE [k \in 1..Fewer(Capacity(bytes), di.numIndices) |-> k - 1]

\* The rectangles of which all three vertices are in the buffer; what is left over of
\* the last one is cut off.
Rectangles(s, capacity) ==
    {r \in 1..(Len(s) \div 3): \A k \in (3 * r - 2)..(3 * r): s[k] < capacity}

\* A rectangle list is expanded to two triangles for each rectangle.
Command(p, di, bytes) ==
    LET s == Sources(p, di, bytes)
        rects == Rectangles(s, Capacity(bytes))
        expanded == IsRectList(di)
        indexed == IsIndexed(di) /\ ~expanded
        count == IF expanded THEN 6 * Cardinality(rects)
                 ELSE IF indexed THEN Capacity(bytes) ELSE Fewer(Capacity(bytes), di.numIndices)
    IN [primitive |-> Primitive[di.primType], stride |-> Stride, content |-> content,
        root |-> IF nested = <<>> THEN next ELSE next - 1, at |-> Len(executed) + 1,
        vertexCount |-> count,
        bytes |-> IF expanded THEN count * Stride ELSE bytes,
        indexCount |-> IF indexed THEN IndexCount(p, di) ELSE 0,
        indicesHeld |-> IF indexed THEN p.words ELSE 0,
        window |-> expanded /\ WindowCoordinates(regs),
        corners |-> IF expanded THEN UNION {{s[k]: k \in (3 * r - 2)..(3 * r)}: r \in rects}
                    ELSE {}]

\* The initiator in the packet is mirrored into the register file and read back from it.
DrawIndx2 ==
    /\ Executes /\ Packet.op = "draw"
    /\ regs' = WriteRegisters(Initiator(Packet))
    /\ LET di == DrawInitiator(ReadRegister(DrawInitiatorRegister, regs'))
       IN IF Drawable(Packet, di, VertexBytes(regs))
          THEN /\ AddDrawCommand
               /\ commands' = Append(commands, Command(Packet, di, VertexBytes(regs)))
          ELSE UNCHANGED <<vars, commands>>
    /\ UNCHANGED <<vertexShader, memory>>

-----------------------------------------------------------------------------
ProcessorInit ==
    /\ Init
    /\ stream = <<>> /\ next = 1 /\ nested = <<>>
    /\ regs = [i \in Watched |-> 0]
    /\ vertexShader = 0
    /\ memory = [w \in Words |-> 0] /\ content = 0
    /\ commands = <<>> /\ executed = <<>>

ScanBuffer ==
    \/ IndirectBuffer \/ Return \/ PassOver
    \/ Type0 \/ SetConstant \/ DrawIndx \/ ImLoadImmediate \/ EventWriteShd
    \/ DrawIndx2

\* The other two users of the draw list
ListStep ==
    /\ SwapReady \/ TakeReady
    /\ UNCHANGED <<stream, scan, machine, content, executed>>

-----------------------------------------------------------------------------
(* What the stream means, without the scan. *)

\* The packets of a buffer up to what does not decode
Live(s) ==
    LET stops == {i \in DOMAIN s: s[i].op = "stop"}
    IN IF stops = {} THEN s ELSE SubSeq(s, 1, Min(stops) - 1)

\* A buffer's packets in line, the buffers they lead to being expanded one level less
InLine0(s) == Live(s)
Splice(s, Inner(_), depth) ==
    FlattenSeq([i \in DOMAIN Live(s) |->
        IF Live(s)[i].op = "indirect" /\ Live(s)[i].count = 2 /\ depth < MaxDepth
        THEN <<Live(s)[i]>> \o Inner(Buffer[Live(s)[i].to]) ELSE <<Live(s)[i]>>])
InLine1(s) == Splice(s, InLine0, 2)
InLine2(s) == Splice(s, InLine1, 1)
InLine(s) == Splice(s, InLine2, 0)

\* The register the i-th value of a packet goes to, and the values
Target(p, i) ==
    CASE p.op = "type0" -> IF p.one THEN p.base ELSE p.base + i - 1
      [] p.op = "constant" -> Bank[p.bank + 1] + p.index + i - 1
      [] OTHER -> DrawInitiatorRegister
Values(p) ==
    CASE p.op = "type0" \/ (p.op = "constant" /\ p.bank < Len(Bank)) -> p.values
      [] p.op = "draw" \/ (p.op = "draw_indx" /\ p.count >= 2) -> <<p.initiator>>
      [] OTHER -> <<>>

\* The value register r had for the n-th packet executed: the last one written to it
ValueAt(r, n) ==
    LET Writers(k) == {i \in DOMAIN Values(executed[k]): Target(executed[k], i) = r}
        packets == {k \in 1..(n - 1): Writers(k) # {}}
    IN IF packets = {} \/ r >= RegisterCount THEN 0
       ELSE Values(executed[Max(packets)])[Max(Writers(Max(packets)))]

\* The vertex shader the n-th packet executed found: the last one loaded
ShaderAt(n) ==
    LET loads == {k \in 1..(n - 1): LoadsVertexShader(executed[k])}
    IN IF loads = {} THEN 0 ELSE executed[Max(loads)].hash

-----------------------------------------------------------------------------
ProcessorTypeOK ==
    /\ regs \in [Watched -> Nat] /\ \A i \in Watched: i >= RegisterCount => regs[i] = 0
    /\ next \in 1..(Len(stream) + 1) /\ Len(nested) <= MaxDepth
    /\ memory \in [Words -> Nat]
    /\ Len(commands) = nextDraw - 1

\* A packet of an indirect buffer takes effect where the packet that leads to it stands
\* in the stream, down to the third level; what does not decode in an inner buffer
\* costs the rest of that buffer only.
ExecutesInLine == IsPrefix(executed, InLine(stream))

\* A draw is made of the state that all packets before it have set, whichever buffers
\* they were in, registers and vertex shader alike, and of its own initiator.
DrawsSeeTheirState ==
    \A c \in Range(commands):
        LET di == DrawInitiator(executed[c.at].initiator)
            bytes == BytesOf(ValueAt(VertexFetchConstantBase + 1, c.at))
        IN /\ c.primitive = Primitive[di.primType] /\ c.stride = StrideOf(ShaderAt(c.at))
           /\ IF IsRectList(di) THEN c.window = (ValueAt(ViewportControl, c.at) % 64 = 0)
              ELSE c.bytes = bytes

\* The counts a draw gives the renderer are of what the draw carries, whatever size,
\* stride and counts the packets claim: as many vertices as are drawn without indices, as
\* many indices as are drawn with, and every corner that the index values of a rectangle
\* list pick.  The index values of other draws are handed on as they are: the code does
\* not compare them with the vertices, and nothing is said of what they pick.
CountsInsideBuffers ==
    \A c \in Range(commands):
        LET di == DrawInitiator(executed[c.at].initiator)
            bytes == BytesOf(ValueAt(VertexFetchConstantBase + 1, c.at))
        IN /\ c.vertexCount * c.stride <= c.bytes
           /\ c.indexCount <= c.indicesHeld /\ c.indexCount <= di.numIndices
           /\ \A k \in c.corners: (k + 1) * c.stride <= bytes
           /\ IsIndexed(di) /\ ~IsRectList(di) => c.indicesHeld > 0
=============================================================================

-------------------------- MODULE ShaderTranslate --------------------------
(***************************************************************************)
(* What IM_LOAD_IMMEDIATE does with a shader's microcode: the disassembler *)
(* of host/shader_decode.cpp lists it, then TranslateShader of             *)
(* host/shader_translate.cpp walks it again and either recognizes all of   *)
(* it or fails.  The two walks are written apart and must agree.           *)
(*                                                                         *)
(* Microcode is a sequence of slots of three dwords.  Nothing marks where  *)
(* its control flow ends and its instructions begin, so a slot has three   *)
(* readings: a pair of control-flow instructions, a fetch, an ALU          *)
(* instruction.                                                            *)
(***************************************************************************)
EXTENDS Integers, Sequences, SequencesExt

CONSTANTS
    Slots,        \* what a slot may be: [flow |-> <<a, b>>, fetch |-> f, alu |-> a]
    MaxSlots      \* bound: slots of a program

ASSUME SlotAssumption ==
    /\ MaxSlots \in Nat
    /\ \A s \in Slots:
          /\ \A k \in 1..2: s.flow[k].address \in Nat /\ s.flow[k].count \in Nat
          /\ s.fetch.const \in Nat

VARIABLES
    stage,        \* shaderType
    code,         \* the slots of the program
    spare,        \* the dwords behind the last whole slot
    reader,       \* which walk is under way
    pair, which,  \* i and which of the two loops
    end,          \* cfEndDword
    todo,         \* what is left of the block of an EXEC
    furthest,     \* history: the dwords below this one were read
    listed,       \* slots in the order DecodeShaderMicrocode listed them
    taken,        \* slots in the order TranslateShader took them
    fullFetch,    \* lastFullFetchConstantIndex, or NoFetch
    translation        \* the TranslationResult

input == <<stage, code, spare>>
walk == <<pair, which, end, todo, furthest>>
shaderVars == <<input, reader, walk, listed, taken, fullFetch, translation>>

NoFetch == -1
DwordCount == 3 * Len(code) + spare
Least(a, b) == IF a < b THEN a ELSE b

Failed == [success |-> FALSE, attributes |-> <<>>, exports |-> <<>>, stride |-> 0]
Fresh == [Failed EXCEPT !.success = TRUE]

-----------------------------------------------------------------------------
(* The walk, as both write it. *)

IsExecFamily(cf) == cf.op \in {"exec", "cond"}

\* The bound of the loop is looked at once for the two instructions of a pair.
AtFlow == todo = <<>> /\ (which = 1 \/ pair * 3 < end)
WalkOver == todo = <<>> /\ which = 0 /\ pair * 3 >= end

Flow == code[pair + 1].flow[which + 1]

Reads(dwords) == furthest' = IF dwords > furthest THEN dwords ELSE furthest

NextFlow ==
    /\ which' = 1 - which
    /\ pair' = pair + which
    /\ Reads(3 * pair + 3)

\* bit 2*j of the 12-bit sequence: 1 for a fetch
Block(cf) ==
    [n \in 1..cf.count |-> [slot |-> cf.address + n - 1, fetch |-> (n - 1) \in cf.fetches]]

\* Instructions begin where an EXEC says: what lies there is not control flow.
EnterBlock(cf) ==
    /\ todo' = Block(cf)
    /\ end' = Least(end, 3 * cf.address)

SkipFlow == UNCHANGED <<todo, end>>

\* Variant: the first dword of the slot is looked at only.
BugInRange(slot) == 3 * slot < DwordCount

InRange(slot) == 3 * slot + 2 < DwordCount

Here == Head(todo)
TakeHere == todo' = Tail(todo) /\ UNCHANGED <<pair, which, end>>

-----------------------------------------------------------------------------
(* DecodeShaderMicrocode. *)

DecodeFlow ==
    /\ reader = "decode" /\ AtFlow
    /\ NextFlow
    /\ IF IsExecFamily(Flow) THEN EnterBlock(Flow) ELSE SkipFlow
    /\ UNCHANGED <<input, reader, listed, taken, fullFetch, translation>>

\* Variant: a slot that ends with the microcode is one too many.
BugDecodeInstruction ==
    /\ reader = "decode" /\ todo # <<>>
    /\ TakeHere
    /\ IF 3 * Here.slot + 3 < DwordCount
       THEN Reads(3 * Here.slot + 3) /\ listed' = Append(listed, Here)
       ELSE UNCHANGED <<furthest, listed>>
    /\ UNCHANGED <<input, reader, taken, fullFetch, translation>>

DecodeInstruction ==
    /\ reader = "decode" /\ todo # <<>>
    /\ TakeHere
    /\ IF InRange(Here.slot)
       THEN Reads(3 * Here.slot + 3) /\ listed' = Append(listed, Here)
       ELSE UNCHANGED <<furthest, listed>>
    /\ UNCHANGED <<input, reader, taken, fullFetch, translation>>

\* The hash of the microcode is not the cached one.
StartTranslation ==
    /\ reader = "decode" /\ WalkOver
    /\ reader' = "translate"
    /\ pair' = 0 /\ which' = 0 /\ end' = 3 * Len(code)
    /\ UNCHANGED <<input, todo, furthest, listed, taken, fullFetch, translation>>

-----------------------------------------------------------------------------
(* TranslateShader. *)

Fail ==
    /\ reader' = "over"
    /\ translation' = Failed
    /\ UNCHANGED <<input, walk, listed, taken, fullFetch>>

Translating == reader = "translate"

\* Variant: only the disassembler looks where the instructions begin.
BugTranslateFlow ==
    /\ Translating /\ AtFlow
    /\ Flow.op \in {"nop", "alloc", "exec"}
    /\ NextFlow
    /\ IF Flow.op = "exec" THEN todo' = Block(Flow) /\ UNCHANGED end ELSE SkipFlow
    /\ UNCHANGED <<input, reader, listed, taken, fullFetch, translation>>

TranslateFlow ==
    /\ Translating /\ AtFlow
    /\ Flow.op \in {"nop", "alloc", "exec"}
    /\ NextFlow
    /\ IF Flow.op = "exec" THEN EnterBlock(Flow) ELSE SkipFlow
    /\ UNCHANGED <<input, reader, listed, taken, fullFetch, translation>>

\* A condition, a loop, a call or a jump
UnsupportedFlow == Translating /\ AtFlow /\ Flow.op \in {"cond", "other"} /\ Fail

Takes ==
    /\ Translating /\ todo # <<>> /\ InRange(Here.slot)
    /\ TakeHere
    /\ Reads(3 * Here.slot + 3)
    /\ taken' = Append(taken, Here)
    /\ UNCHANGED <<input, reader, listed>>

Fetch == code[Here.slot + 1].fetch
Alu == code[Here.slot + 1].alu

Formats == {"float3", "float4"}

FetchSupported(f) == f.vertex /\ f.format \in Formats /\ f.plain

FetchConstant(f) == IF f.mini THEN fullFetch ELSE f.const

TakeFetch ==
    /\ Takes /\ Here.fetch
    /\ FetchSupported(Fetch) /\ (Fetch.mini => fullFetch # NoFetch)
    /\ fullFetch' = FetchConstant(Fetch)
    /\ translation' = [translation EXCEPT
          !.attributes = Append(@, [const |-> FetchConstant(Fetch), dest |-> Fetch.dest]),
          !.stride = IF Fetch.mini THEN @ ELSE Fetch.stride]

\* No vector component is written, and no scalar one but by kRetainPrev.
Idle(a) == ~a.scalar /\ ~a.writes

ExportRegisters(s) == IF s = "vertex" THEN {0, 62} ELSE {0}

\* max(r, r) of one register, nothing negated, predicated or swizzled
AluSupported(a, s) ==
    /\ ~a.scalar
    /\ a.writes => a.selfMov /\ a.plain /\ a.dest \in ExportRegisters(s)

Fetched(r) == \E n \in DOMAIN translation.attributes: translation.attributes[n].dest = r

TakeAlu ==
    /\ Takes /\ ~Here.fetch
    /\ AluSupported(Alu, stage)
    /\ \/ Idle(Alu) /\ UNCHANGED translation
       \/ /\ Alu.writes /\ (stage = "vertex" => Fetched(Alu.src))
          /\ translation' = [translation EXCEPT
                !.exports = Append(@, [register |-> Alu.dest, source |-> Alu.src])]
    /\ UNCHANGED fullFetch

UnsupportedInstruction ==
    /\ Translating /\ todo # <<>>
    /\ \/ ~InRange(Here.slot)
       \/ InRange(Here.slot) /\ Here.fetch
          /\ (~FetchSupported(Fetch) \/ (Fetch.mini /\ fullFetch = NoFetch))
       \/ InRange(Here.slot) /\ ~Here.fetch
          /\ (\/ ~AluSupported(Alu, stage)
              \/ Alu.writes /\ stage = "vertex" /\ ~Fetched(Alu.src))
    /\ Fail

\* A vertex shader needs both; a pixel shader exports r0, the only one it is given.
Complete ==
    IF stage = "vertex"
    THEN translation.attributes # <<>> /\ translation.exports # <<>>
    ELSE translation.exports # <<>> /\ translation.exports[1].source = 0

Finish ==
    /\ Translating /\ WalkOver
    /\ reader' = "over"
    /\ translation' = IF Complete THEN translation ELSE Failed
    /\ UNCHANGED <<input, walk, listed, taken, fullFetch>>

-----------------------------------------------------------------------------
ShaderInit ==
    /\ stage \in {"vertex", "pixel"}
    /\ code \in UNION {[1..n -> Slots]: n \in 0..MaxSlots}
    /\ spare \in 0..2
    /\ reader = "decode"
    /\ pair = 0 /\ which = 0 /\ end = 3 * Len(code) /\ todo = <<>> /\ furthest = 0
    /\ listed = <<>> /\ taken = <<>>
    /\ fullFetch = NoFetch /\ translation = Fresh

Decode == DecodeFlow \/ DecodeInstruction \/ StartTranslation

Translate ==
    \/ TranslateFlow \/ UnsupportedFlow
    \/ TakeFetch \/ TakeAlu \/ UnsupportedInstruction \/ Finish

ShaderNext == Decode \/ Translate

ShaderSpec == ShaderInit /\ [][ShaderNext]_shaderVars

-----------------------------------------------------------------------------
(* What the walk should find, said without walking. *)

Execs(c, n) == {k \in 1..2: IsExecFamily(c[n + 1].flow[k])}

\* A pair is control flow when every EXEC of an earlier pair points behind it.
FlowPairs(c) ==
    {n \in 0..(Len(c) - 1):
        \A m \in 0..(n - 1): \A k \in Execs(c, m): c[m + 1].flow[k].address > n}

BlockOf(c, n, k) == IF k \in Execs(c, n) THEN Block(c[n + 1].flow[k]) ELSE <<>>
PairBlocks(c, n) == BlockOf(c, n, 1) \o BlockOf(c, n, 2)

\* The instructions of a program, in order: those of its first pairs, and all
InstructionsOf(c, pairs) ==
    FlattenSeq([n \in 1..pairs |->
                   IF n - 1 \in FlowPairs(c) THEN PairBlocks(c, n - 1) ELSE <<>>])
Instructions == InstructionsOf(code, Len(code))

IsFull(c, s, n) == s[n].fetch /\ ~c[s[n].slot + 1].fetch.mini

\* The fetch constant of the last full fetch up to the n-th instruction
IsLastFull(c, s, m, n) == IsFull(c, s, m) /\ \A k \in (m + 1)..n: ~IsFull(c, s, k)
Inherited(c, s, n) ==
    LET m == CHOOSE m \in 1..n: IsLastFull(c, s, m, n) IN c[s[m].slot + 1].fetch.const

\* Whether the n-th instruction is one that is recognized, behind those before it
InstructionSupported(c, type, s, n) ==
    LET f == c[s[n].slot + 1].fetch
        a == c[s[n].slot + 1].alu
    IN /\ s[n].fetch => FetchSupported(f) /\ (f.mini => \E m \in 1..(n - 1): IsFull(c, s, m))
       /\ ~s[n].fetch =>
            /\ AluSupported(a, type)
            /\ a.writes /\ type = "vertex" =>
                 \E m \in 1..(n - 1): s[m].fetch /\ c[s[m].slot + 1].fetch.dest = a.src

IsExport(c, s, n) == ~s[n].fetch /\ c[s[n].slot + 1].alu.writes
IsFirstExport(c, s, n) == IsExport(c, s, n) /\ \A m \in 1..(n - 1): ~IsExport(c, s, m)

\* A vertex shader fetches and exports; the first export of a pixel shader is of r0.
Whole(c, type, s) ==
    IF type = "vertex"
    THEN (\E n \in DOMAIN s: s[n].fetch) /\ (\E n \in DOMAIN s: IsExport(c, s, n))
    ELSE \E n \in DOMAIN s: IsFirstExport(c, s, n) /\ c[s[n].slot + 1].alu.src = 0

FlowSupported(cf) == cf.op \in {"nop", "alloc", "exec"}

Supported ==
    /\ \A n \in FlowPairs(code), k \in 1..2: FlowSupported(code[n + 1].flow[k])
    /\ \A n \in DOMAIN Instructions:
          /\ InRange(Instructions[n].slot)
          /\ InstructionSupported(code, stage, Instructions, n)
    /\ Whole(code, stage, Instructions)

\* The place of the n-th instruction among the fetches, if it is one
FetchesUpTo(s, n) == Cardinality({m \in 1..n: s[m].fetch})

-----------------------------------------------------------------------------
\* Neither walk reads behind the microcode of the packet, whatever addresses and counts
\* its control flow holds and however many dwords are left over behind the last slot.
ReadsInside == furthest <= DwordCount

\* The translation succeeds for the programs of the recognized pattern and for no other:
\* nothing unsupported is skipped over, and nothing behind the control flow is taken
\* for control flow.
SucceedsExactly == reader = "over" => (translation.success <=> Supported)

\* A program that is translated was disassembled alike: the two loops, written twice in
\* the source, take the same instructions in the same order; and a mini-fetch reuses the
\* fetch constant of the full fetch before it, in whichever block that was.
FollowsListing ==
    reader = "over" /\ translation.success =>
        LET s == Instructions
            a == translation.attributes
        IN /\ taken = listed /\ taken = s
           /\ Len(a) = FetchesUpTo(s, Len(s))
           /\ \A n \in DOMAIN s: s[n].fetch => a[FetchesUpTo(s, n)].const = Inherited(code, s, n)
=============================================================================

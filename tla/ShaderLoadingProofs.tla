------------------------- MODULE ShaderLoadingProofs -------------------------
(***************************************************************************)
(* Proofs about the two halves of the shader path.  ShaderTranslate: for   *)
(* microcode of any length made of any slots, that the walks stay inside   *)
(* it, agree with each other and find what is said of a program without    *)
(* walking: Instructions and Supported.  ShaderPipeline: for any           *)
(* programs, any that fail to be translated or compiled and any number of  *)
(* loads, whether or not a stage comes back to a program it had: that a    *)
(* pipeline of a torn read is remembered for programs that are past.       *)
(***************************************************************************)
EXTENDS ShaderLoading, FiniteSetTheorems, WellFoundedInduction, TLAPS

-----------------------------------------------------------------------------
(* ShaderTranslate.                                                        *)

\* The instructions of a block
Items == [slot: Nat, fetch: BOOLEAN]

\* The part of the state that the walks read by: where they are, and what is left of
\* the block they are in.
WalkInv ==
    /\ code \in Seq(Slots) /\ spare \in 0..2
    /\ pair \in Nat /\ which \in {0, 1}
    /\ end \in Int /\ end <= 3 * Len(code)
    /\ which = 1 => pair < Len(code)
    /\ todo \in Seq(Items)
    /\ furthest \in Nat /\ furthest <= DwordCount

\* What is left of a sequence and its head
LEMMA TailFacts ==
    ASSUME NEW S, NEW s \in Seq(S), s # <<>>
    PROVE  Head(s) \in S /\ Tail(s) \in Seq(S)
OBVIOUS

\* The pair at hand is in the microcode, and what its EXEC points at is a block.
LEMMA FlowFacts ==
    ASSUME WalkInv, AtFlow
    PROVE  /\ pair \in 0..(Len(code) - 1)
           /\ Flow.address \in Nat /\ Flow.count \in Nat
<1>1. pair \in 0..(Len(code) - 1)
  BY DEF WalkInv, AtFlow
<1>2. code[pair + 1] \in Slots /\ which + 1 \in 1..2
  BY <1>1 DEF WalkInv
<1> QED BY <1>1, <1>2, SlotAssumption DEF Flow

LEMMA BlockTyped ==
    ASSUME NEW cf, cf.address \in Nat, cf.count \in Nat
    PROVE  Block(cf) \in Seq(Items)
<1>1. \A n \in 1..cf.count:
         [slot |-> cf.address + n - 1, fetch |-> (n - 1) \in cf.fetches] \in Items
  BY DEF Items
<1>2. Block(cf) \in [1..cf.count -> Items]
  BY <1>1 DEF Block
<1> QED BY <1>2

\* Going on to the next control-flow instruction, with or without its block
LEMMA FlowStep ==
    ASSUME WalkInv, AtFlow, NextFlow, EnterBlock(Flow) \/ SkipFlow, UNCHANGED input
    PROVE  WalkInv'
<1>1. /\ pair \in 0..(Len(code) - 1)
      /\ Flow.address \in Nat /\ Flow.count \in Nat
  BY FlowFacts
<1>2. code' \in Seq(Slots) /\ spare' \in 0..2 /\ code' = code /\ spare' = spare
  BY DEF WalkInv, input
<1>3. pair' \in Nat /\ which' \in {0, 1} /\ (which' = 1 => pair' < Len(code))
  BY <1>1 DEF WalkInv, NextFlow
<1>4. end' \in Int /\ end' <= 3 * Len(code) /\ todo' \in Seq(Items)
  <2>1. CASE EnterBlock(Flow)
    BY <1>1, <2>1, BlockTyped DEF WalkInv, EnterBlock, Least
  <2>2. CASE SkipFlow
    BY <2>2 DEF WalkInv, SkipFlow
  <2> QED BY <2>1, <2>2
<1>5. furthest' \in Nat /\ furthest' <= DwordCount
  BY <1>1 DEF WalkInv, NextFlow, Reads, DwordCount
<1> QED BY <1>2, <1>3, <1>4, <1>5 DEF WalkInv, DwordCount

\* Taking one instruction of a block, and looking at it only when it is inside
LEMMA InstructionStep ==
    ASSUME WalkInv, todo # <<>>, TakeHere, UNCHANGED input,
           \/ InRange(Here.slot) /\ Reads(3 * Here.slot + 3)
           \/ UNCHANGED furthest
    PROVE  WalkInv'
<1>1. Here \in Items /\ todo' \in Seq(Items)
  BY TailFacts DEF WalkInv, TakeHere, Here
<1>2. code' = code /\ spare' = spare /\ pair' = pair /\ which' = which /\ end' = end
  BY DEF input, TakeHere
<1>3. furthest' \in Nat /\ furthest' <= DwordCount
  <2>1. CASE InRange(Here.slot) /\ Reads(3 * Here.slot + 3)
    <3>1. PICK n \in Nat: n = Here.slot
      BY <1>1 DEF Items
    <3>2. furthest \in Nat /\ furthest <= DwordCount /\ DwordCount \in Int
      BY DEF WalkInv, DwordCount
    <3>3. 3 * n + 2 < DwordCount
      BY <2>1, <3>1 DEF InRange
    <3>4. furthest' = IF 3 * n + 3 > furthest THEN 3 * n + 3 ELSE furthest
      BY <2>1, <3>1 DEF Reads
    <3> QED BY <3>1, <3>2, <3>3, <3>4
  <2>2. CASE UNCHANGED furthest
    BY <2>2 DEF WalkInv
  <2> QED BY <2>1, <2>2
<1> QED BY <1>1, <1>2, <1>3 DEF WalkInv, DwordCount

LEMMA WalkInit == ShaderInit => WalkInv
<1> SUFFICES ASSUME ShaderInit PROVE WalkInv
  OBVIOUS
<1>1. code \in Seq(Slots)
  BY DEF ShaderInit
<1>2. Len(code) \in Nat /\ spare \in 0..2
  BY <1>1 DEF ShaderInit
<1> QED BY <1>1, <1>2 DEF ShaderInit, WalkInv, DwordCount, Items

LEMMA DecodeStep == ASSUME WalkInv, Decode PROVE WalkInv'
<1>1. CASE DecodeFlow
  BY <1>1, FlowStep DEF DecodeFlow
<1>2. CASE DecodeInstruction
  BY <1>2, InstructionStep DEF DecodeInstruction
<1>3. CASE StartTranslation
  BY <1>3 DEF StartTranslation, WalkInv, input, DwordCount
<1> QED BY <1>1, <1>2, <1>3 DEF Decode

LEMMA FailStep == ASSUME WalkInv, Fail PROVE WalkInv'
BY DEF WalkInv, Fail, input, walk, DwordCount

LEMMA TranslateStep == ASSUME WalkInv, Translate PROVE WalkInv'
<1>1. CASE TranslateFlow
  BY <1>1, FlowStep DEF TranslateFlow
<1>2. CASE TakeFetch \/ TakeAlu
  BY <1>2, InstructionStep DEF TakeFetch, TakeAlu, Takes
<1>3. CASE UnsupportedFlow \/ UnsupportedInstruction
  BY <1>3, FailStep DEF UnsupportedFlow, UnsupportedInstruction
<1>4. CASE Finish
  BY <1>4 DEF Finish, WalkInv, input, walk, DwordCount
<1> QED BY <1>1, <1>2, <1>3, <1>4 DEF Translate

LEMMA WalkStep == WalkInv /\ [ShaderNext]_shaderVars => WalkInv'
<1>1. CASE UNCHANGED shaderVars
  BY <1>1 DEF shaderVars, input, walk, WalkInv, DwordCount
<1> QED BY <1>1, DecodeStep, TranslateStep DEF ShaderNext

\* Whatever its control flow claims, no walk over the microcode of a shader reads
\* behind it.
THEOREM ReadsStayInside == ShaderSpec => []ReadsInside
<1>1. WalkInv => ReadsInside
  BY DEF WalkInv, ReadsInside
<1> QED BY <1>1, WalkInit, WalkStep, PTL DEF ShaderSpec

-----------------------------------------------------------------------------
(* FlattenSeq, of which its recursive function is to be unfolded step by step. *)

\* A set of naturals has a least element: what induction there is rests on this.
LEMMA LeastOf ==
    ASSUME NEW T \in SUBSET Nat, T # {}
    PROVE  \E x \in T: \A y \in T: x <= y
<1> DEFINE R == OpToRel(<, Nat)
<1>1. IsWellFoundedOn(R, Nat)
  BY NatLessThanWellFounded
<1>2. \A x, y \in Nat: <<x, y>> \in R <=> x < y
  BY DEF OpToRel
<1> HIDE DEF R
<1>3. PICK x \in T: \A y \in T: <<y, x>> \notin R
  BY <1>1, WFMin
<1>4. ASSUME NEW y \in T
      PROVE  x <= y
  <2>1. x \in Nat /\ y \in Nat
    OBVIOUS
  <2>2. ~(y < x)
    BY <1>2, <1>3, <2>1, Zenon
  <2> QED BY <2>1, <2>2
<1> QED BY <1>4

\* The concatenations of the first sequences of ss, up to n of them
Joins(f, ss, n) == f = [i \in 1..n |-> IF i = 1 THEN ss[i] ELSE f[i - 1] \o ss[i]]

LEMMA JoinsExist ==
    ASSUME NEW ss, NEW n \in Nat
    PROVE  \E f: Joins(f, ss, n)
<1> DEFINE Bad == {m \in Nat: ~\E f: Joins(f, ss, m)}
<1>1. SUFFICES ASSUME Bad # {} PROVE FALSE
  OBVIOUS
<1>2. PICK m \in Bad: \A k \in Bad: m <= k
  BY <1>1, LeastOf
<1>3. m # 0
  <2>1. Joins([i \in 1..0 |-> 0], ss, 0)
    BY DEF Joins
  <2> QED
    BY <1>2, <2>1
<1>4. m - 1 \in Nat /\ m - 1 \notin Bad
  BY <1>2, <1>3
<1>5. PICK f: Joins(f, ss, m - 1)
  BY <1>4
<1> DEFINE g == [i \in 1..m |-> IF i < m THEN f[i] ELSE IF m = 1 THEN ss[m] ELSE f[m - 1] \o ss[m]]
<1>6. \A i \in 1..m: g[i] = IF i = 1 THEN ss[i] ELSE g[i - 1] \o ss[i]
  <2> SUFFICES ASSUME NEW i \in 1..m PROVE g[i] = IF i = 1 THEN ss[i] ELSE g[i - 1] \o ss[i]
    OBVIOUS
  <2>1. CASE i < m
    <3>1. i \in 1..(m - 1)
      BY <2>1, <1>2
    <3>2. f[i] = IF i = 1 THEN ss[i] ELSE f[i - 1] \o ss[i]
      BY <3>1, <1>5 DEF Joins
    <3>3. i # 1 => g[i - 1] = f[i - 1]
      BY <1>2, <2>1
    <3> QED
      BY <2>1, <3>2, <3>3
  <2>2. CASE i = m
    <3>1. i # 1 => g[i - 1] = f[i - 1]
      BY <1>2, <2>2
    <3> QED
      BY <2>2, <3>1
  <2> QED
    BY <2>1, <2>2, <1>2
<1>7. g = [i \in 1..m |-> IF i = 1 THEN ss[i] ELSE g[i - 1] \o ss[i]]
  <2>1. g = [i \in 1..m |-> g[i]]
    OBVIOUS
  <2> HIDE DEF g
  <2> QED
    BY <2>1, <1>6
<1>8. Joins(g, ss, m)
  BY <1>7 DEF Joins
<1> QED
  BY <1>2, <1>8

LEMMA JoinsAt ==
    ASSUME NEW ss, NEW n, NEW f, Joins(f, ss, n), NEW i \in 1..n
    PROVE  f[i] = IF i = 1 THEN ss[i] ELSE f[i - 1] \o ss[i]
BY DEF Joins

LEMMA JoinsAgree ==
    ASSUME NEW ss, NEW tt, NEW n \in Nat, NEW k \in Nat, n <= k, NEW f, NEW g,
           Joins(f, ss, n), Joins(g, tt, k), \A i \in 1..n: tt[i] = ss[i]
    PROVE  \A i \in 1..n: g[i] = f[i]
<1> DEFINE Bad == {m \in 1..n: g[m] # f[m]}
<1>1. SUFFICES ASSUME Bad # {} PROVE FALSE
  OBVIOUS
<1>2. Bad \in SUBSET Nat
  OBVIOUS
<1>3. PICK m \in Bad: \A j \in Bad: m <= j
  BY <1>1, <1>2, LeastOf
<1>4. f[m] = IF m = 1 THEN ss[m] ELSE f[m - 1] \o ss[m]
  BY <1>3 DEF Joins
<1>5. g[m] = IF m = 1 THEN tt[m] ELSE g[m - 1] \o tt[m]
  <2>1. m \in 1..k
    BY <1>3
  <2> QED
    BY <2>1 DEF Joins
<1>6. m # 1 => g[m - 1] = f[m - 1]
  <2> SUFFICES ASSUME m # 1 PROVE g[m - 1] = f[m - 1]
    OBVIOUS
  <2>1. m - 1 \in 1..n /\ m - 1 \notin Bad
    BY <1>3
  <2> QED
    BY <2>1
<1> QED
  BY <1>3, <1>4, <1>5, <1>6

LEMMA FlattenIsLast ==
    ASSUME NEW S, NEW ss \in Seq(S), ss # <<>>, NEW f, Joins(f, ss, Len(ss))
    PROVE  FlattenSeq(ss) = f[Len(ss)]
<1> DEFINE g == CHOOSE h: Joins(h, ss, Len(ss))
<1>1. FlattenSeq(ss) = g[Len(ss)]
  BY DEF FlattenSeq, Joins
<1>2. Joins(g, ss, Len(ss))
  OBVIOUS
<1> HIDE DEF g
<1>3. \A i \in 1..Len(ss): g[i] = f[i]
  BY <1>2, JoinsAgree
<1> QED
  BY <1>1, <1>3

LEMMA FlattenEmpty == FlattenSeq(<<>>) = <<>>
  BY DEF FlattenSeq

\* One sequence more
LEMMA FlattenMore ==
    ASSUME NEW S, NEW ss \in Seq(S), NEW tt \in Seq(S), Len(tt) = Len(ss) + 1, ss # <<>>,
           \A i \in 1..Len(ss): tt[i] = ss[i]
    PROVE  FlattenSeq(tt) = FlattenSeq(ss) \o tt[Len(tt)]
<1>1. PICK n \in Nat: n = Len(ss)
  OBVIOUS
<1>2. PICK m \in Nat: m = n + 1
  BY <1>1
<1>3. Len(tt) = m /\ tt # <<>> /\ n <= m /\ n \in 1..n /\ m \in 1..m /\ m # 1 /\ m - 1 = n
  BY <1>1, <1>2
<1>4. PICK f: Joins(f, ss, n)
  BY JoinsExist
<1>5. PICK g: Joins(g, tt, m)
  BY JoinsExist
<1>6. \A i \in 1..n: g[i] = f[i]
  <2>1. \A i \in 1..n: tt[i] = ss[i]
    BY <1>1
  <2>2. n \in Nat /\ m \in Nat /\ n <= m
    BY <1>1, <1>2, <1>3
  <2> QED
    BY <1>4, <1>5, <2>1, <2>2, JoinsAgree
<1>7. FlattenSeq(ss) = f[n] /\ FlattenSeq(tt) = g[m]
  BY <1>1, <1>3, <1>4, <1>5, FlattenIsLast
<1>8. g[m] = g[n] \o tt[m]
  <2>1. m \in 1..m
    BY <1>3
  <2>2. g[m] = IF m = 1 THEN tt[m] ELSE g[m - 1] \o tt[m]
    BY <1>5, <2>1, JoinsAt
  <2> QED
    BY <1>3, <2>2
<1> QED
  BY <1>3, <1>6, <1>7, <1>8

LEMMA FlattenOne ==
    ASSUME NEW x
    PROVE  FlattenSeq(<<x>>) = x
<1>1. PICK f: Joins(f, <<x>>, 1)
  BY JoinsExist
<1>2. f[1] = x
  BY <1>1, JoinsAt
<1>3. <<x>> \in Seq({x}) /\ <<x>> # <<>> /\ Len(<<x>>) = 1
  OBVIOUS
<1> QED
  BY <1>1, <1>2, <1>3, FlattenIsLast

LEMMA FlattenAppend ==
    ASSUME NEW S, NEW ss \in Seq(Seq(S)), NEW x \in Seq(S)
    PROVE  FlattenSeq(Append(ss, x)) = FlattenSeq(ss) \o x
<1>1. CASE ss = <<>>
  <2>1. Append(ss, x) = <<x>>
    BY <1>1
  <2>2. <<>> \o x = x
    OBVIOUS
  <2> QED
    BY <1>1, <2>1, <2>2, FlattenEmpty, FlattenOne
<1>2. CASE ss # <<>>
  <2>1. PICK tt: tt = Append(ss, x)
    OBVIOUS
  <2>2. tt \in Seq(Seq(S)) /\ Len(tt) = Len(ss) + 1
    BY <2>1
  <2>3. \A i \in 1..Len(ss): tt[i] = ss[i]
    BY <2>1
  <2>4. tt[Len(tt)] = x
    BY <2>1
  <2>5. FlattenSeq(tt) = FlattenSeq(ss) \o tt[Len(tt)]
    BY <1>2, <2>2, <2>3, FlattenMore
  <2> QED
    BY <2>1, <2>4, <2>5
<1> QED
  BY <1>1, <1>2

\* What is joined is a sequence.
LEMMA FlattenTyped ==
    ASSUME NEW S, NEW ss \in Seq(Seq(S))
    PROVE  FlattenSeq(ss) \in Seq(S)
<1> DEFINE n == Len(ss)
<1>1. n \in Nat /\ \A i \in 1..n: ss[i] \in Seq(S)
  OBVIOUS
<1> HIDE DEF n
<1>2. PICK f: Joins(f, ss, n)
  BY <1>1, JoinsExist
<1> DEFINE Bad == {m \in 1..n: f[m] \notin Seq(S)}
<1>3. Bad = {}
  <2> SUFFICES ASSUME Bad # {} PROVE FALSE
    OBVIOUS
  <2>1. Bad \in SUBSET Nat
    BY <1>1
  <2>2. PICK m \in Bad: \A j \in Bad: m <= j
    BY <2>1, LeastOf
  <2>3. f[m] = IF m = 1 THEN ss[m] ELSE f[m - 1] \o ss[m]
    BY <1>2, <2>2 DEF Joins
  <2>4. m # 1 => m - 1 \in 1..n /\ m - 1 \notin Bad
    BY <1>1, <2>2
  <2>5. m # 1 => f[m - 1] \in Seq(S)
    BY <2>4
  <2>6. ss[m] \in Seq(S)
    BY <1>1, <2>2
  <2>7. m # 1 => f[m - 1] \o ss[m] \in Seq(S)
    BY <2>5, <2>6
  <2> QED
    BY <2>2, <2>3, <2>6, <2>7
<1>4. CASE ss = <<>>
  <2>1. <<>> \in Seq(S)
    OBVIOUS
  <2> QED
    BY <1>4, <2>1, FlattenEmpty
<1>5. CASE ss # <<>>
  <2>1. n \in 1..n
    BY <1>1, <1>5 DEF n
  <2>2. FlattenSeq(ss) = f[n]
    BY <1>2, <1>5, FlattenIsLast DEF n
  <2> QED
    BY <1>3, <2>1, <2>2
<1> QED
  BY <1>4, <1>5

-----------------------------------------------------------------------------
(* What the walks have passed.                                             *)

\* The instructions of the control flow passed so far
Passed(c, p, w) ==
    IF w = 1 THEN InstructionsOf(c, p) \o BlockOf(c, p, 1) ELSE InstructionsOf(c, p)

\* The k-th instruction of the m-th pair is one of it.
IsPassed(p, w, m, k) == m < p \/ (m = p /\ w = 1 /\ k = 1)

\* The loop's bound is the first slot that an EXEC passed points at.
WalkAt(c, p, w, e) ==
    /\ p \in 0..Len(c) /\ w \in {0, 1} /\ e \in Int
    /\ w = 1 => p \in FlowPairs(c)
    /\ \A n \in 0..(p - 1): n \in FlowPairs(c)
    /\ \A q \in Nat:
          3 * q < e <=>
            /\ q < Len(c)
            /\ \A m \in 0..(Len(c) - 1): \A k \in Execs(c, m):
                  IsPassed(p, w, m, k) => c[m + 1].flow[k].address > q

LEMMA FlowTyped ==
    ASSUME NEW c \in Seq(Slots), NEW n \in 0..(Len(c) - 1), NEW k \in 1..2
    PROVE  /\ c[n + 1] \in Slots
           /\ c[n + 1].flow[k].address \in Nat /\ c[n + 1].flow[k].count \in Nat
<1>1. c[n + 1] \in Slots
  OBVIOUS
<1> QED BY <1>1, SlotAssumption

LEMMA BlockOfTyped ==
    ASSUME NEW c \in Seq(Slots), NEW n \in 0..(Len(c) - 1), NEW k \in 1..2
    PROVE  BlockOf(c, n, k) \in Seq(Items)
<1>1. Block(c[n + 1].flow[k]) \in Seq(Items)
  BY FlowTyped, BlockTyped
<1>2. <<>> \in Seq(Items)
  OBVIOUS
<1> QED BY <1>1, <1>2 DEF BlockOf

LEMMA JoinsAlike ==
    ASSUME NEW a \in Seq(Items), NEW d \in Seq(Items), NEW b \in Seq(Items)
    PROVE  (a \o d) \o b = a \o (d \o b)
OBVIOUS

LEMMA JoinTyped ==
    ASSUME NEW S, NEW s \in Seq(S), NEW t \in Seq(S)
    PROVE  s \o t \in Seq(S)
OBVIOUS

\* The blocks of the first pairs, of those that are control flow
Blocks(c, p) == [n \in 1..p |-> IF n - 1 \in FlowPairs(c) THEN PairBlocks(c, n - 1) ELSE <<>>]

LEMMA BlocksTyped ==
    ASSUME NEW c \in Seq(Slots), NEW p \in 0..Len(c)
    PROVE  Blocks(c, p) \in Seq(Seq(Items)) /\ Len(Blocks(c, p)) = p
<1>1. ASSUME NEW n \in 1..p
      PROVE  (IF n - 1 \in FlowPairs(c) THEN PairBlocks(c, n - 1) ELSE <<>>) \in Seq(Items)
  <2>1. n - 1 \in 0..(Len(c) - 1) /\ 1 \in 1..2 /\ 2 \in 1..2
    OBVIOUS
  <2>2. BlockOf(c, n - 1, 1) \in Seq(Items) /\ BlockOf(c, n - 1, 2) \in Seq(Items)
    BY <2>1, BlockOfTyped
  <2>3. PairBlocks(c, n - 1) \in Seq(Items)
    BY <2>2, JoinTyped DEF PairBlocks
  <2>4. <<>> \in Seq(Items)
    OBVIOUS
  <2> QED BY <2>3, <2>4
<1>2. Blocks(c, p) \in [1..p -> Seq(Items)]
  BY <1>1 DEF Blocks
<1>3. p \in Nat
  OBVIOUS
<1> QED BY <1>2, <1>3

LEMMA InstructionsTyped ==
    ASSUME NEW c \in Seq(Slots), NEW p \in 0..Len(c)
    PROVE  InstructionsOf(c, p) \in Seq(Items)
<1>1. InstructionsOf(c, p) = FlattenSeq(Blocks(c, p))
  BY DEF InstructionsOf, Blocks
<1> QED BY <1>1, BlocksTyped, FlattenTyped

\* One pair more
LEMMA InstructionsMore ==
    ASSUME NEW c \in Seq(Slots), NEW p \in 0..(Len(c) - 1), NEW q \in 0..Len(c), q = p + 1
    PROVE  /\ p \in FlowPairs(c) =>
                InstructionsOf(c, q) = InstructionsOf(c, p) \o PairBlocks(c, p)
           /\ p \notin FlowPairs(c) => InstructionsOf(c, q) = InstructionsOf(c, p)
<1> DEFINE x == IF p \in FlowPairs(c) THEN PairBlocks(c, p) ELSE <<>>
<1>1. p \in 0..Len(c)
  OBVIOUS
<1>2. /\ Blocks(c, p) \in Seq(Seq(Items)) /\ Len(Blocks(c, p)) = p
      /\ Blocks(c, q) \in Seq(Seq(Items)) /\ Len(Blocks(c, q)) = q
  BY <1>1, BlocksTyped
<1>3. Blocks(c, q)[q] = x
  BY DEF Blocks
<1>4. \A n \in 1..p: Blocks(c, q)[n] = Blocks(c, p)[n]
  BY DEF Blocks
<1>5. x \in Seq(Items)
  BY <1>2, <1>3
<1> HIDE DEF x
<1>6. Blocks(c, q) = Append(Blocks(c, p), x)
  BY <1>2, <1>3, <1>4
<1>7. InstructionsOf(c, q) = InstructionsOf(c, p) \o x
  BY <1>2, <1>5, <1>6, FlattenAppend DEF InstructionsOf, Blocks
<1>8. InstructionsOf(c, p) \o <<>> = InstructionsOf(c, p)
  BY <1>1, InstructionsTyped
<1> QED BY <1>7, <1>8 DEF x

\* What a longer part of the control flow adds to a shorter one
LEMMA InstructionsGrow ==
    ASSUME NEW c \in Seq(Slots), NEW p \in 0..Len(c), NEW n \in 0..Len(c), p <= n
    PROVE  /\ \E d \in Seq(Items): InstructionsOf(c, n) = InstructionsOf(c, p) \o d
           /\ (\A i \in p..(Len(c) - 1): i \notin FlowPairs(c)) =>
                InstructionsOf(c, n) = InstructionsOf(c, p)
<1> DEFINE P(j) == /\ \E d \in Seq(Items): InstructionsOf(c, j) = InstructionsOf(c, p) \o d
                   /\ (\A i \in p..(Len(c) - 1): i \notin FlowPairs(c)) =>
                         InstructionsOf(c, j) = InstructionsOf(c, p)
           Bad == {j \in p..Len(c): ~P(j)}
<1>1. SUFFICES ASSUME Bad # {} PROVE FALSE
  <2>1. n \in p..Len(c)
    OBVIOUS
  <2> QED BY <2>1
<1>2. Bad \in SUBSET Nat
  OBVIOUS
<1>3. PICK j \in Bad: \A i \in Bad: j <= i
  BY <1>1, <1>2, LeastOf
<1>4. InstructionsOf(c, p) \in Seq(Items)
  BY InstructionsTyped
<1>5. P(p)
  <2>1. <<>> \in Seq(Items) /\ InstructionsOf(c, p) = InstructionsOf(c, p) \o <<>>
    BY <1>4
  <2> QED BY <2>1
<1>6. j # p /\ j \in p..Len(c)
  BY <1>3, <1>5
<1>7. PICK i \in p..(Len(c) - 1): j = i + 1
  <2>1. j - 1 \in p..(Len(c) - 1) /\ j = (j - 1) + 1
    BY <1>6
  <2> QED BY <2>1
<1>8. i \notin Bad /\ i \in p..Len(c) /\ i \in 0..(Len(c) - 1) /\ j \in 0..Len(c)
  <2>1. i \in p..Len(c) /\ i \in 0..(Len(c) - 1) /\ j \in 0..Len(c) /\ ~(j <= i)
    BY <1>6, <1>7
  <2>2. i \notin Bad
    BY <1>3, <2>1
  <2> QED BY <2>1, <2>2
<1>9. P(i)
  BY <1>8
<1> HIDE DEF P
<1>10. P(j)
  <2>1. PICK d \in Seq(Items): InstructionsOf(c, i) = InstructionsOf(c, p) \o d
    BY <1>9 DEF P
  <2>2. /\ i \in FlowPairs(c) =>
             InstructionsOf(c, j) = InstructionsOf(c, i) \o PairBlocks(c, i)
        /\ i \notin FlowPairs(c) => InstructionsOf(c, j) = InstructionsOf(c, i)
    BY <1>7, <1>8, InstructionsMore
  <2>3. CASE i \in FlowPairs(c)
    <3>1. 1 \in 1..2 /\ 2 \in 1..2
      OBVIOUS
    <3>2. PairBlocks(c, i) \in Seq(Items)
      <4>1. BlockOf(c, i, 1) \in Seq(Items) /\ BlockOf(c, i, 2) \in Seq(Items)
        BY <1>8, <3>1, BlockOfTyped
      <4> QED BY <4>1, JoinTyped DEF PairBlocks
    <3>3. PICK b \in Seq(Items): b = PairBlocks(c, i)
      BY <3>2
    <3>4. d \o b \in Seq(Items)
      BY <2>1, <3>3, JoinTyped
    <3>5. PICK a \in Seq(Items): a = InstructionsOf(c, p)
      BY <1>4
    <3>6. (a \o d) \o b = a \o (d \o b)
      BY <2>1, <3>3, <3>5, JoinsAlike, Zenon
    <3>7. InstructionsOf(c, j) = a \o (d \o b)
      BY <2>1, <2>2, <2>3, <3>3, <3>5, <3>6
    <3> QED BY <2>3, <3>4, <3>5, <3>7, <1>7 DEF P
  <2>4. CASE i \notin FlowPairs(c)
    BY <1>9, <2>2, <2>4 DEF P
  <2> QED BY <2>3, <2>4
<1> QED BY <1>3, <1>10

\* What is passed with one instruction of control flow more
LEMMA PassedSecond ==
    ASSUME NEW c \in Seq(Slots), NEW p \in 0..(Len(c) - 1), p \in FlowPairs(c),
           NEW q \in 0..Len(c), q = p + 1
    PROVE  Passed(c, q, 0) = Passed(c, p, 1) \o BlockOf(c, p, 2)
<1>1. 1 \in 1..2 /\ 2 \in 1..2 /\ p \in 0..Len(c)
  OBVIOUS
<1>2. PICK s \in Seq(Items): s = InstructionsOf(c, p)
  BY <1>1, InstructionsTyped
<1>3. PICK a \in Seq(Items): a = BlockOf(c, p, 1)
  BY <1>1, BlockOfTyped
<1>4. PICK b \in Seq(Items): b = BlockOf(c, p, 2)
  BY <1>1, BlockOfTyped
<1>5. InstructionsOf(c, q) = s \o (a \o b)
  BY <1>2, <1>3, <1>4, InstructionsMore DEF PairBlocks
<1>6. s \o (a \o b) = (s \o a) \o b
  BY JoinsAlike, Zenon
<1>7. Passed(c, q, 0) = InstructionsOf(c, q)
  BY DEF Passed
<1>8. Passed(c, p, 1) = s \o a
  BY <1>2, <1>3 DEF Passed
<1> QED BY <1>4, <1>5, <1>6, <1>7, <1>8

LEMMA PassedTyped ==
    ASSUME NEW c \in Seq(Slots), NEW p, NEW w, NEW e, WalkAt(c, p, w, e)
    PROVE  Passed(c, p, w) \in Seq(Items)
<1>1. p \in 0..Len(c) /\ InstructionsOf(c, p) \in Seq(Items)
  BY InstructionsTyped DEF WalkAt
<1>2. CASE w = 1
  <2>1. p \in 0..(Len(c) - 1) /\ 1 \in 1..2
    BY <1>2 DEF WalkAt, FlowPairs
  <2>2. BlockOf(c, p, 1) \in Seq(Items)
    BY <2>1, BlockOfTyped
  <2> QED BY <1>1, <1>2, <2>2, JoinTyped DEF Passed
<1>3. CASE w # 1
  BY <1>1, <1>3 DEF Passed
<1> QED BY <1>2, <1>3

\* A pair that the loop enters is control flow.
LEMMA EntersFlow ==
    ASSUME NEW c \in Seq(Slots), NEW p, NEW w, NEW e, WalkAt(c, p, w, e), w = 1 \/ p * 3 < e
    PROVE  p \in FlowPairs(c) /\ p \in 0..(Len(c) - 1)
<1>1. CASE w = 1
  BY <1>1 DEF WalkAt, FlowPairs
<1>2. CASE w # 1
  <2>1. p \in Nat /\ e \in Int /\ 3 * p < e
    BY <1>2 DEF WalkAt
  <2>2. /\ p < Len(c)
        /\ \A m \in 0..(Len(c) - 1): \A k \in Execs(c, m):
              IsPassed(p, w, m, k) => c[m + 1].flow[k].address > p
    BY <2>1 DEF WalkAt
  <2>3. ASSUME NEW m \in 0..(p - 1), NEW k \in Execs(c, m)
        PROVE  c[m + 1].flow[k].address > p
    <3>1. m \in 0..(Len(c) - 1) /\ IsPassed(p, w, m, k)
      BY <2>1, <2>2 DEF IsPassed
    <3> QED BY <2>2, <3>1
  <2>4. p \in 0..(Len(c) - 1)
    BY <2>1, <2>2
  <2> QED BY <2>3, <2>4 DEF FlowPairs
<1> QED BY <1>1, <1>2

\* One instruction of control flow more, and the bound is right again.
LEMMA WalkAdvances ==
    ASSUME NEW c \in Seq(Slots), NEW p, NEW w, NEW e, WalkAt(c, p, w, e), w = 1 \/ p * 3 < e,
           NEW q, q = p + w, NEW v, v = 1 - w, NEW k, k = w + 1, NEW f,
           k \in Execs(c, p) => f = Least(e, 3 * c[p + 1].flow[k].address),
           k \notin Execs(c, p) => f = e
    PROVE  WalkAt(c, q, v, f)
<1>1. p \in FlowPairs(c) /\ p \in 0..(Len(c) - 1)
  BY EntersFlow
<1>2. /\ w \in {0, 1} /\ v \in {0, 1} /\ k \in 1..2 /\ q \in 0..Len(c)
      /\ (v = 1 => q = p) /\ e \in Int
  BY <1>1 DEF WalkAt
<1>3. c[p + 1].flow[k].address \in Nat
  BY <1>1, <1>2, FlowTyped
<1>4. f \in Int
  BY <1>2, <1>3 DEF Least
<1>5. \A n \in 0..(q - 1): n \in FlowPairs(c)
  <2>1. \A n \in 0..(q - 1): n \in 0..(p - 1) \/ n = p
    BY <1>1, <1>2
  <2> QED BY <1>1, <2>1 DEF WalkAt
<1>6. ASSUME NEW m \in 0..(Len(c) - 1), NEW j \in 1..2
      PROVE  IsPassed(q, v, m, j) <=> IsPassed(p, w, m, j) \/ (m = p /\ j = k)
  <2>1. CASE w = 0
    BY <1>1, <2>1 DEF IsPassed
  <2>2. CASE w = 1
    BY <1>1, <2>2 DEF IsPassed
  <2> QED BY <1>2, <2>1, <2>2
<1>7. ASSUME NEW n \in Nat
      PROVE  3 * n < f <=>
               /\ n < Len(c)
               /\ \A m \in 0..(Len(c) - 1): \A j \in Execs(c, m):
                     IsPassed(q, v, m, j) => c[m + 1].flow[j].address > n
  <2>1. 3 * n < e <=>
          /\ n < Len(c)
          /\ \A m \in 0..(Len(c) - 1): \A j \in Execs(c, m):
                IsPassed(p, w, m, j) => c[m + 1].flow[j].address > n
    BY DEF WalkAt
  <2>2. \A m \in 0..(Len(c) - 1): \A j \in Execs(c, m): j \in 1..2
    BY DEF Execs
  <2>3. CASE k \in Execs(c, p)
    <3>1. 3 * n < f <=> 3 * n < e /\ c[p + 1].flow[k].address > n
      <4>1. PICK a \in Nat: a = c[p + 1].flow[k].address
        BY <1>3
      <4>2. f = IF e < 3 * a THEN e ELSE 3 * a
        BY <2>3, <4>1 DEF Least
      <4>3. e \in Int /\ n \in Int /\ a \in Int
        BY <1>2, <4>1
      <4>4. CASE e < 3 * a
        <5>1. f = e
          BY <4>2, <4>4
        <5>2. 3 * n < e => a > n
          BY <4>3, <4>4
        <5> QED BY <4>1, <5>1, <5>2
      <4>5. CASE ~(e < 3 * a)
        <5>1. f = 3 * a
          BY <4>2, <4>5
        <5>2. 3 * n < 3 * a <=> a > n
          BY <4>3
        <5>3. 3 * n < 3 * a => 3 * n < e
          BY <4>3, <4>5
        <5> QED BY <4>1, <5>1, <5>2, <5>3
      <4> QED BY <4>4, <4>5
    <3> QED BY <1>1, <1>6, <2>1, <2>2, <2>3, <3>1
  <2>4. CASE k \notin Execs(c, p)
    BY <1>1, <1>6, <2>1, <2>2, <2>4
  <2> QED BY <2>3, <2>4
<1> QED BY <1>1, <1>2, <1>4, <1>5, <1>7 DEF WalkAt

\* Behind the last pair there is no control flow any more, and everything was passed.
LEMMA WalkEnds ==
    ASSUME NEW c \in Seq(Slots), NEW p, NEW e, WalkAt(c, p, 0, e), ~(p * 3 < e)
    PROVE  /\ FlowPairs(c) = 0..(p - 1)
           /\ Passed(c, p, 0) = InstructionsOf(c, Len(c))
<1>1. p \in 0..Len(c) /\ e \in Int /\ ~(3 * p < e)
  BY DEF WalkAt
<1>2. ASSUME NEW n \in p..(Len(c) - 1), n \in FlowPairs(c)
      PROVE  FALSE
  <2>1. p < Len(c) /\ n \in Nat /\ p <= n
    BY <1>1
  <2>2. PICK m \in 0..(Len(c) - 1):
           \E k \in Execs(c, m): IsPassed(p, 0, m, k) /\ ~(c[m + 1].flow[k].address > p)
    <3>1. p \in Nat /\ p < Len(c) /\ ~(3 * p < e)
      BY <1>1, <2>1
    <3>2. 3 * p < e <=>
            /\ p < Len(c)
            /\ \A m \in 0..(Len(c) - 1): \A k \in Execs(c, m):
                  IsPassed(p, 0, m, k) => c[m + 1].flow[k].address > p
      BY <3>1 DEF WalkAt
    <3> QED BY <3>1, <3>2
  <2> PICK k \in Execs(c, m): IsPassed(p, 0, m, k) /\ ~(c[m + 1].flow[k].address > p)
    BY <2>2
  <2>3. m \in 0..(n - 1)
    BY <1>1, <2>1, <2>2 DEF IsPassed
  <2>4. c[m + 1].flow[k].address > n
    BY <1>2, <2>2, <2>3 DEF FlowPairs
  <2>5. c[m + 1].flow[k].address \in Nat
    BY <2>2, FlowTyped DEF Execs
  <2> QED BY <1>1, <2>1, <2>2, <2>4, <2>5
<1>3. \A n \in FlowPairs(c): n \in 0..(Len(c) - 1)
  BY DEF FlowPairs
<1>4. \A n \in FlowPairs(c): n \in 0..(p - 1)
  BY <1>1, <1>2, <1>3
<1>5. \A n \in 0..(p - 1): n \in FlowPairs(c)
  BY DEF WalkAt
<1>6. Len(c) \in 0..Len(c) /\ p <= Len(c) /\ \A i \in p..(Len(c) - 1): i \notin FlowPairs(c)
  BY <1>1, <1>2
<1>7. InstructionsOf(c, Len(c)) = InstructionsOf(c, p)
  BY <1>1, <1>6, InstructionsGrow
<1>8. FlowPairs(c) = 0..(p - 1)
  BY <1>4, <1>5
<1>9. Passed(c, p, 0) = InstructionsOf(c, p)
  BY DEF Passed
<1> QED BY <1>7, <1>8, <1>9

\* What was passed is where the instructions begin.
LEMMA PassedBegins ==
    ASSUME NEW c \in Seq(Slots), NEW p, NEW w, NEW e, WalkAt(c, p, w, e)
    PROVE  \E d \in Seq(Items): InstructionsOf(c, Len(c)) = Passed(c, p, w) \o d
<1>1. p \in 0..Len(c) /\ w \in {0, 1}
  BY DEF WalkAt
<1>2. CASE w = 0
  <2>1. Len(c) \in 0..Len(c) /\ p <= Len(c)
    BY <1>1
  <2>2. PICK d \in Seq(Items): InstructionsOf(c, Len(c)) = InstructionsOf(c, p) \o d
    BY <1>1, <2>1, InstructionsGrow
  <2>3. Passed(c, p, w) = InstructionsOf(c, p)
    BY <1>2 DEF Passed
  <2> QED BY <2>2, <2>3
<1>3. CASE w = 1
  <2>1. p \in FlowPairs(c) /\ p \in 0..(Len(c) - 1) /\ 1 \in 1..2 /\ 2 \in 1..2
    BY <1>3 DEF WalkAt, FlowPairs
  <2>2. PICK q \in 0..Len(c): q = p + 1
    BY <2>1
  <2>3. PICK d \in Seq(Items): InstructionsOf(c, Len(c)) = InstructionsOf(c, q) \o d
    <3>1. Len(c) \in 0..Len(c) /\ q <= Len(c)
      BY <2>2
    <3> QED BY <3>1, InstructionsGrow
  <2>4. PICK b \in Seq(Items): b = BlockOf(c, p, 2)
    BY <2>1, BlockOfTyped
  <2>5. PICK s \in Seq(Items): s = Passed(c, p, 1)
    BY <1>3, PassedTyped
  <2>6. InstructionsOf(c, q) = s \o b
    <3>1. Passed(c, q, 0) = s \o b
      BY <2>1, <2>2, <2>4, <2>5, PassedSecond
    <3> QED BY <3>1 DEF Passed
  <2>7. b \o d \in Seq(Items) /\ (s \o b) \o d = s \o (b \o d)
    OBVIOUS
  <2> QED BY <1>3, <2>3, <2>5, <2>6, <2>7
<1> QED BY <1>1, <1>2, <1>3

-----------------------------------------------------------------------------
(* What the translation knows of the instructions it has taken.            *)

FetchOf(c, s, n) == c[s[n].slot + 1].fetch
AluOf(c, s, n) == c[s[n].slot + 1].alu

\* f is the fetch constant of the last full fetch, if there was one.
Carries(c, s, f) ==
    \/ f = NoFetch /\ \A n \in DOMAIN s: ~IsFull(c, s, n)
    \/ \E n \in DOMAIN s: IsLastFull(c, s, n, Len(s)) /\ f = FetchOf(c, s, n).const

\* A full fetch has been taken, and f is the fetch constant of the last.
HasFull(c, s, f) ==
    \E m \in 1..Len(s): IsLastFull(c, s, m, Len(s)) /\ f = FetchOf(c, s, m).const

\* a has one attribute for every fetch, in order, and none besides.
Places(s, a) ==
    /\ Len(a) = FetchesUpTo(s, Len(s))
    /\ \A n \in DOMAIN s: s[n].fetch => FetchesUpTo(s, n) \in DOMAIN a
Constants(c, s, a) ==
    \A n \in DOMAIN s:
        s[n].fetch =>
            \E m \in 1..n:
                /\ IsLastFull(c, s, m, n)
                /\ a[FetchesUpTo(s, n)].const = FetchOf(c, s, m).const
Dests(c, s, a) ==
    /\ \A n \in DOMAIN s: s[n].fetch => \E j \in DOMAIN a: a[j].dest = FetchOf(c, s, n).dest
    /\ \A j \in DOMAIN a: \E n \in DOMAIN s: s[n].fetch /\ a[j].dest = FetchOf(c, s, n).dest

\* x begins with the first export.
Exports(c, s, x) ==
    /\ x = <<>> => \A n \in DOMAIN s: ~IsExport(c, s, n)
    /\ x # <<>> => \E n \in DOMAIN s:
                      IsFirstExport(c, s, n) /\ x[1].source = AluOf(c, s, n).src

AllSupported(c, type, s) == \A n \in DOMAIN s: InstructionSupported(c, type, s, n)

\* What is said of the first n instructions holds in whatever begins with them.
LEMMA Prefixed ==
    ASSUME NEW c, NEW type, NEW s \in Seq(Items), NEW t \in Seq(Items), NEW n \in DOMAIN s,
           \A m \in 1..n: t[m] = s[m]
    PROVE  /\ IsFull(c, t, n) <=> IsFull(c, s, n)
           /\ IsExport(c, t, n) <=> IsExport(c, s, n)
           /\ IsFirstExport(c, t, n) <=> IsFirstExport(c, s, n)
           /\ \A m \in 1..n: IsLastFull(c, t, m, n) <=> IsLastFull(c, s, m, n)
           /\ FetchesUpTo(t, n) = FetchesUpTo(s, n)
           /\ FetchOf(c, t, n) = FetchOf(c, s, n) /\ AluOf(c, t, n) = AluOf(c, s, n)
           /\ InstructionSupported(c, type, t, n) <=> InstructionSupported(c, type, s, n)
<1>1. n \in Nat /\ n \in 1..n /\ t[n] = s[n]
  OBVIOUS
<1>2. \A m \in 1..n: IsFull(c, t, m) <=> IsFull(c, s, m)
  BY DEF IsFull
<1>3. \A m \in 1..n: IsExport(c, t, m) <=> IsExport(c, s, m)
  BY DEF IsExport
<1>4. \A m \in 1..(n - 1): m \in 1..n
  BY <1>1
<1>5. IsFirstExport(c, t, n) <=> IsFirstExport(c, s, n)
  BY <1>1, <1>3, <1>4 DEF IsFirstExport
<1>6. ASSUME NEW m \in 1..n
      PROVE  IsLastFull(c, t, m, n) <=> IsLastFull(c, s, m, n)
  <2>1. \A k \in (m + 1)..n: k \in 1..n
    BY <1>1
  <2> QED BY <1>2, <2>1 DEF IsLastFull
<1>7. {m \in 1..n: t[m].fetch} = {m \in 1..n: s[m].fetch}
  OBVIOUS
<1>8. FetchesUpTo(t, n) = FetchesUpTo(s, n)
  BY <1>7 DEF FetchesUpTo
<1>9. FetchOf(c, t, n) = FetchOf(c, s, n) /\ AluOf(c, t, n) = AluOf(c, s, n)
  BY <1>1 DEF FetchOf, AluOf
<1>10. InstructionSupported(c, type, t, n) <=> InstructionSupported(c, type, s, n)
  <2>1. \A m \in 1..(n - 1): t[m] = s[m] /\ (IsFull(c, t, m) <=> IsFull(c, s, m))
    BY <1>2, <1>4
  <2>2. (\E m \in 1..(n - 1): IsFull(c, t, m)) <=> (\E m \in 1..(n - 1): IsFull(c, s, m))
    BY <2>1
  <2>3. ASSUME NEW r
        PROVE  (\E m \in 1..(n - 1): t[m].fetch /\ c[t[m].slot + 1].fetch.dest = r)
                 <=> (\E m \in 1..(n - 1): s[m].fetch /\ c[s[m].slot + 1].fetch.dest = r)
    BY <2>1
  <2>4. PICK r: r = AluOf(c, s, n).src
    OBVIOUS
  <2>5. (\E m \in 1..(n - 1): t[m].fetch /\ c[t[m].slot + 1].fetch.dest = r)
          <=> (\E m \in 1..(n - 1): s[m].fetch /\ c[s[m].slot + 1].fetch.dest = r)
    BY <2>3
  <2> QED BY <1>1, <2>2, <2>4, <2>5 DEF InstructionSupported, AluOf
<1> QED BY <1>1, <1>2, <1>3, <1>5, <1>6, <1>8, <1>9, <1>10

\* One instruction more
LEMMA OneMore ==
    ASSUME NEW s \in Seq(Items), NEW i \in Items, NEW t, t = Append(s, i)
    PROVE  /\ t \in Seq(Items) /\ Len(s) \in Nat /\ Len(t) = Len(s) + 1
           /\ DOMAIN s = 1..Len(s) /\ DOMAIN t = 1..Len(t)
           /\ Len(t) \in DOMAIN t /\ t[Len(t)] = i
           /\ \A n \in DOMAIN t: n \in DOMAIN s \/ n = Len(t)
           /\ \A n \in DOMAIN s: n \in DOMAIN t /\ t[n] = s[n] /\ \A m \in 1..n: t[m] = s[m]
<1>1. t \in Seq(Items) /\ Len(s) \in Nat /\ Len(t) = Len(s) + 1 /\ t[Len(t)] = i
  OBVIOUS
<1>2. DOMAIN s = 1..Len(s) /\ DOMAIN t = 1..Len(t)
  BY <1>1
<1>3. Len(t) \in DOMAIN t /\ \A n \in DOMAIN t: n \in DOMAIN s \/ n = Len(t)
  BY <1>1, <1>2
<1>4. \A n \in DOMAIN s: t[n] = s[n]
  OBVIOUS
<1>5. \A n \in DOMAIN s: n \in DOMAIN t /\ \A m \in 1..n: m \in DOMAIN s
  BY <1>1, <1>2
<1> QED BY <1>1, <1>2, <1>3, <1>4, <1>5

LEMMA CountMore ==
    ASSUME NEW s \in Seq(Items), NEW i \in Items, NEW t, t = Append(s, i)
    PROVE  /\ FetchesUpTo(s, Len(s)) \in Nat
           /\ i.fetch => FetchesUpTo(t, Len(t)) = FetchesUpTo(s, Len(s)) + 1
           /\ ~i.fetch => FetchesUpTo(t, Len(t)) = FetchesUpTo(s, Len(s))
<1>1. PICK l \in Nat: l = Len(s)
  OBVIOUS
<1>2. PICK k \in Nat: k = l + 1
  BY <1>1
<1>3. Len(t) = k /\ t[k] = i /\ \A n \in 1..l: t[n] = s[n]
  BY <1>1, <1>2, OneMore
<1> DEFINE F == {m \in 1..l: s[m].fetch}
           G == {m \in 1..k: t[m].fetch}
<1>4. IsFiniteSet(F) /\ Cardinality(F) \in Nat
  <2>1. IsFiniteSet(1..l)
    BY <1>1, FS_Interval
  <2>2. IsFiniteSet(F)
    BY <2>1, FS_Subset
  <2> QED BY <2>2, FS_CardinalityType
<1>5. ASSUME i.fetch PROVE Cardinality(G) = Cardinality(F) + 1
  <2>1. k \notin F
    BY <1>1, <1>2
  <2>2. G = F \cup {k}
    BY <1>1, <1>2, <1>3, <1>5
  <2>3. Cardinality(F \cup {k}) = Cardinality(F) + 1
    BY <1>4, <2>1, FS_AddElement
  <2> QED BY <2>2, <2>3
<1>6. ASSUME ~i.fetch PROVE G = F
  BY <1>1, <1>2, <1>3, <1>6
<1> QED BY <1>1, <1>3, <1>4, <1>5, <1>6 DEF FetchesUpTo

\* The fetch constant at hand behind one instruction more
LEMMA CarriesMore ==
    ASSUME NEW c, NEW s \in Seq(Items), NEW i \in Items, NEW t, t = Append(s, i),
           NEW f, NEW g, Carries(c, s, f),
           ~i.fetch => g = f,
           i.fetch /\ c[i.slot + 1].fetch.mini => g = f /\ f # NoFetch,
           i.fetch /\ ~c[i.slot + 1].fetch.mini => g = c[i.slot + 1].fetch.const
    PROVE  /\ Carries(c, t, g)
           /\ i.fetch => HasFull(c, t, g)
<1>1. PICK l \in Nat: l = Len(s)
  OBVIOUS
<1>2. PICK k \in Nat: k = l + 1
  BY <1>1
<1>3. /\ t \in Seq(Items) /\ Len(t) = k /\ t[k] = i /\ DOMAIN t = 1..k /\ DOMAIN s = 1..l
      /\ \A n \in 1..l: t[n] = s[n]
  BY <1>1, <1>2, OneMore
<1>4. \A n \in 1..l: IsFull(c, t, n) <=> IsFull(c, s, n)
  BY <1>3 DEF IsFull
<1>5. \A n \in 1..l: FetchOf(c, t, n) = FetchOf(c, s, n)
  BY <1>3 DEF FetchOf
<1>6. FetchOf(c, t, k) = c[i.slot + 1].fetch
  BY <1>3 DEF FetchOf
<1>7. IsFull(c, t, k) <=> i.fetch /\ ~c[i.slot + 1].fetch.mini
  BY <1>3 DEF IsFull
<1>8. CASE IsFull(c, t, k)
  <2>1. IsLastFull(c, t, k, k)
    BY <1>8 DEF IsLastFull
  <2>2. g = FetchOf(c, t, k).const /\ k \in 1..k
    BY <1>2, <1>6, <1>7, <1>8
  <2> QED BY <1>3, <2>1, <2>2 DEF Carries, HasFull
<1>9. CASE ~IsFull(c, t, k)
  <2>1. g = f /\ (i.fetch => f # NoFetch)
    BY <1>7, <1>9
  <2>2. CASE f = NoFetch /\ \A n \in DOMAIN s: ~IsFull(c, s, n)
    <3>1. \A n \in 1..k: n \in 1..l \/ n = k
      BY <1>2
    <3>2. \A n \in 1..k: ~IsFull(c, t, n)
      BY <1>3, <1>4, <1>9, <2>2, <3>1
    <3>3. ~i.fetch
      BY <2>1, <2>2
    <3> QED BY <1>3, <2>1, <2>2, <3>2, <3>3 DEF Carries, HasFull
  <2>3. ASSUME NEW n \in DOMAIN s, IsLastFull(c, s, n, Len(s)), f = FetchOf(c, s, n).const
        PROVE  \E m \in 1..k: IsLastFull(c, t, m, k) /\ g = FetchOf(c, t, m).const
    <3>1. n \in 1..l /\ n \in 1..k
      BY <1>2, <1>3
    <3>2. ASSUME NEW j \in (n + 1)..k
          PROVE  ~IsFull(c, t, j)
      <4>1. (j \in 1..l /\ j \in (n + 1)..l) \/ j = k
        BY <1>2, <3>1
      <4> QED BY <1>1, <1>4, <1>9, <2>3, <4>1 DEF IsLastFull
    <3>3. IsLastFull(c, t, n, k)
      BY <1>4, <2>3, <3>1, <3>2 DEF IsLastFull
    <3> QED BY <1>5, <2>1, <2>3, <3>1, <3>3
  <2>4. CASE \E n \in DOMAIN s: IsLastFull(c, s, n, Len(s)) /\ f = FetchOf(c, s, n).const
    BY <1>3, <2>3, <2>4 DEF Carries, HasFull
  <2> QED BY <2>2, <2>4 DEF Carries
<1> QED BY <1>8, <1>9

LEMMA FetchTaken ==
    ASSUME NEW c, NEW s \in Seq(Items), NEW i \in Items, NEW t, t = Append(s, i), i.fetch,
           NEW A, NEW a \in Seq(A), NEW x \in A, NEW b, b = Append(a, x),
           Places(s, a), Constants(c, s, a), Dests(c, s, a),
           x.dest = c[i.slot + 1].fetch.dest,
           HasFull(c, t, x.const)
    PROVE  Places(t, b) /\ Constants(c, t, b) /\ Dests(c, t, b)
<1> DEFINE k == Len(t)
           z == Len(b)
<1>1. /\ t \in Seq(Items) /\ DOMAIN t = 1..k /\ k \in DOMAIN t /\ t[k] = i
      /\ \A n \in DOMAIN t: n \in DOMAIN s \/ n = k
      /\ \A n \in DOMAIN s: n \in DOMAIN t /\ t[n] = s[n] /\ \A m \in 1..n: t[m] = s[m]
  BY OneMore
<1>2. /\ Len(b) = Len(a) + 1 /\ Len(a) \in Nat /\ b[Len(b)] = x
      /\ DOMAIN a = 1..Len(a) /\ DOMAIN b = 1..Len(b)
      /\ \A j \in DOMAIN a: b[j] = a[j]
  OBVIOUS
<1>3. /\ z \in DOMAIN b /\ b[z] = x
      /\ \A j \in DOMAIN a: j \in DOMAIN b /\ b[j] = a[j]
      /\ \A j \in DOMAIN b: j \in DOMAIN a \/ j = z
  BY <1>2
<1>4. FetchesUpTo(t, k) = z
  <2>1. FetchesUpTo(t, Len(t)) = FetchesUpTo(s, Len(s)) + 1
    BY CountMore
  <2>2. FetchesUpTo(s, Len(s)) = Len(a)
    BY DEF Places
  <2> QED BY <1>2, <2>1, <2>2
<1> HIDE DEF k, z
<1>5. ASSUME NEW n \in DOMAIN s
      PROVE  /\ FetchesUpTo(t, n) = FetchesUpTo(s, n)
             /\ \A m \in 1..n: IsLastFull(c, t, m, n) <=> IsLastFull(c, s, m, n)
             /\ \A m \in 1..n: FetchOf(c, t, m) = FetchOf(c, s, m)
  <2>1. \A m \in 1..n: t[m] = s[m]
    BY <1>1
  <2>2. \A m \in 1..n: FetchOf(c, t, m) = FetchOf(c, s, m)
    BY <2>1 DEF FetchOf
  <2> QED BY <1>1, <2>1, <2>2, Prefixed
<1>6. ASSUME NEW n \in DOMAIN s PROVE FetchOf(c, t, n) = FetchOf(c, s, n)
  BY <1>1 DEF FetchOf
<1>7. Places(t, b)
  <2>1. \A n \in DOMAIN t: t[n].fetch => FetchesUpTo(t, n) \in DOMAIN b
    BY <1>1, <1>3, <1>4, <1>5 DEF Places
  <2> QED BY <1>4, <2>1 DEF Places, k, z
<1>8. Constants(c, t, b)
  <2> SUFFICES ASSUME NEW n \in DOMAIN t, t[n].fetch
               PROVE  \E m \in 1..n:
                         /\ IsLastFull(c, t, m, n)
                         /\ b[FetchesUpTo(t, n)].const = FetchOf(c, t, m).const
    BY DEF Constants
  <2>1. CASE n = k
    BY <1>3, <1>4, <2>1 DEF k, HasFull
  <2>2. CASE n \in DOMAIN s
    <3>1. s[n].fetch /\ FetchesUpTo(s, n) \in DOMAIN a
      BY <1>1, <2>2 DEF Places
    <3>2. PICK m \in 1..n: /\ IsLastFull(c, s, m, n)
                           /\ a[FetchesUpTo(s, n)].const = FetchOf(c, s, m).const
      BY <2>2, <3>1 DEF Constants
    <3>3. b[FetchesUpTo(t, n)] = a[FetchesUpTo(s, n)]
      BY <1>3, <1>5, <2>2, <3>1
    <3> QED BY <1>5, <2>2, <3>2, <3>3
  <2> QED BY <1>1, <2>1, <2>2
<1>9. Dests(c, t, b)
  <2>1. FetchOf(c, t, k).dest = x.dest /\ t[k].fetch
    BY <1>1 DEF FetchOf
  <2>2. ASSUME NEW n \in DOMAIN t, t[n].fetch
        PROVE  \E j \in DOMAIN b: b[j].dest = FetchOf(c, t, n).dest
    <3>1. CASE n = k
      BY <1>3, <2>1, <3>1
    <3>2. CASE n \in DOMAIN s
      <4>1. PICK j \in DOMAIN a: a[j].dest = FetchOf(c, s, n).dest
        BY <1>1, <2>2, <3>2 DEF Dests
      <4> QED BY <1>3, <1>6, <3>2, <4>1
    <3> QED BY <1>1, <3>1, <3>2
  <2>3. ASSUME NEW j \in DOMAIN b
        PROVE  \E n \in DOMAIN t: t[n].fetch /\ b[j].dest = FetchOf(c, t, n).dest
    <3>1. CASE j = z
      BY <1>1, <1>3, <2>1, <3>1
    <3>2. CASE j \in DOMAIN a
      <4>1. PICK n \in DOMAIN s: s[n].fetch /\ a[j].dest = FetchOf(c, s, n).dest
        BY <3>2 DEF Dests
      <4> QED BY <1>1, <1>3, <1>6, <3>2, <4>1
    <3> QED BY <1>3, <3>1, <3>2
  <2> QED BY <2>2, <2>3 DEF Dests
<1> QED BY <1>7, <1>8, <1>9

LEMMA AluTaken ==
    ASSUME NEW c, NEW s \in Seq(Items), NEW i \in Items, NEW t, t = Append(s, i), ~i.fetch,
           NEW a, Places(s, a), Constants(c, s, a), Dests(c, s, a)
    PROVE  Places(t, a) /\ Constants(c, t, a) /\ Dests(c, t, a)
<1> DEFINE k == Len(t)
<1>1. /\ t \in Seq(Items) /\ k \in DOMAIN t /\ t[k] = i
      /\ \A n \in DOMAIN t: n \in DOMAIN s \/ n = k
      /\ \A n \in DOMAIN s: n \in DOMAIN t /\ t[n] = s[n] /\ \A m \in 1..n: t[m] = s[m]
  BY OneMore
<1>2. FetchesUpTo(t, k) = Len(a)
  BY CountMore DEF Places
<1> HIDE DEF k
<1>3. \A n \in DOMAIN t: t[n].fetch => n \in DOMAIN s /\ s[n].fetch
  BY <1>1
<1>4. ASSUME NEW n \in DOMAIN s
      PROVE  /\ FetchesUpTo(t, n) = FetchesUpTo(s, n)
             /\ \A m \in 1..n: IsLastFull(c, t, m, n) <=> IsLastFull(c, s, m, n)
             /\ \A m \in 1..n: FetchOf(c, t, m) = FetchOf(c, s, m)
  <2>1. \A m \in 1..n: t[m] = s[m]
    BY <1>1
  <2>2. \A m \in 1..n: FetchOf(c, t, m) = FetchOf(c, s, m)
    BY <2>1 DEF FetchOf
  <2> QED BY <1>1, <2>1, <2>2, Prefixed
<1>5. ASSUME NEW n \in DOMAIN s PROVE FetchOf(c, t, n) = FetchOf(c, s, n)
  BY <1>1 DEF FetchOf
<1>6. Places(t, a)
  BY <1>2, <1>3, <1>4 DEF Places, k
<1>7. Constants(c, t, a)
  <2> SUFFICES ASSUME NEW n \in DOMAIN t, t[n].fetch
               PROVE  \E m \in 1..n:
                         /\ IsLastFull(c, t, m, n)
                         /\ a[FetchesUpTo(t, n)].const = FetchOf(c, t, m).const
    BY DEF Constants
  <2>1. n \in DOMAIN s /\ s[n].fetch
    BY <1>3
  <2>2. PICK m \in 1..n: /\ IsLastFull(c, s, m, n)
                         /\ a[FetchesUpTo(s, n)].const = FetchOf(c, s, m).const
    BY <2>1 DEF Constants
  <2> QED BY <1>4, <2>1, <2>2
<1>8. Dests(c, t, a)
  <2>1. ASSUME NEW n \in DOMAIN t, t[n].fetch
        PROVE  \E j \in DOMAIN a: a[j].dest = FetchOf(c, t, n).dest
    BY <1>3, <1>5, <2>1 DEF Dests
  <2>2. ASSUME NEW j \in DOMAIN a
        PROVE  \E n \in DOMAIN t: t[n].fetch /\ a[j].dest = FetchOf(c, t, n).dest
    BY <1>1, <1>5 DEF Dests
  <2> QED BY <2>1, <2>2 DEF Dests
<1> QED BY <1>6, <1>7, <1>8

LEMMA ExportsMore ==
    ASSUME NEW c, NEW s \in Seq(Items), NEW i \in Items, NEW t, t = Append(s, i),
           NEW X, NEW x \in Seq(X), Exports(c, s, x), NEW y,
           ~(~i.fetch /\ c[i.slot + 1].alu.writes) => y = x,
           ~i.fetch /\ c[i.slot + 1].alu.writes =>
               \E e \in X: y = Append(x, e) /\ e.source = c[i.slot + 1].alu.src
    PROVE  Exports(c, t, y)
<1> DEFINE k == Len(t)
<1>1. /\ t \in Seq(Items) /\ k \in DOMAIN t /\ t[k] = i
      /\ \A n \in DOMAIN t: n \in DOMAIN s \/ n = k
      /\ \A n \in 1..(k - 1): n \in DOMAIN s
      /\ \A n \in DOMAIN s: n \in DOMAIN t /\ t[n] = s[n] /\ \A m \in 1..n: t[m] = s[m]
  BY OneMore
<1> HIDE DEF k
<1>2. ASSUME NEW n \in DOMAIN s
      PROVE  /\ IsExport(c, t, n) <=> IsExport(c, s, n)
             /\ IsFirstExport(c, t, n) <=> IsFirstExport(c, s, n)
             /\ AluOf(c, t, n) = AluOf(c, s, n)
  BY <1>1, Prefixed
<1>3. /\ IsExport(c, t, k) <=> ~i.fetch /\ c[i.slot + 1].alu.writes
      /\ AluOf(c, t, k) = c[i.slot + 1].alu
  BY <1>1 DEF IsExport, AluOf
<1>4. CASE x = <<>>
  <2>1. \A n \in DOMAIN s: ~IsExport(c, t, n)
    BY <1>2, <1>4 DEF Exports
  <2>2. CASE IsExport(c, t, k)
    <3>1. IsFirstExport(c, t, k)
      BY <1>1, <2>1, <2>2 DEF IsFirstExport
    <3>2. PICK e \in X: y = Append(x, e) /\ e.source = c[i.slot + 1].alu.src
      BY <1>3, <2>2
    <3>3. y = <<e>>
      BY <1>4, <3>2
    <3>4. y # <<>> /\ y[1] = e
      BY <3>3
    <3> QED BY <1>1, <1>3, <3>1, <3>2, <3>4 DEF Exports
  <2>3. CASE ~IsExport(c, t, k)
    BY <1>1, <1>3, <1>4, <2>1, <2>3 DEF Exports
  <2> QED BY <2>2, <2>3
<1>5. CASE x # <<>>
  <2>1. PICK n \in DOMAIN s: IsFirstExport(c, s, n) /\ x[1].source = AluOf(c, s, n).src
    BY <1>5 DEF Exports
  <2>2. y # <<>> /\ y[1] = x[1]
    <3>1. CASE y = x
      BY <1>5, <3>1
    <3>2. ASSUME NEW e \in X, y = Append(x, e) PROVE y # <<>> /\ y[1] = x[1]
      BY <1>5, <3>2
    <3> QED BY <3>1, <3>2
  <2> QED BY <1>1, <1>2, <2>1, <2>2 DEF Exports
<1> QED BY <1>4, <1>5

LEMMA SupportedMore ==
    ASSUME NEW c, NEW type, NEW s \in Seq(Items), NEW i \in Items, NEW t, t = Append(s, i),
           AllSupported(c, type, s), InstructionSupported(c, type, t, Len(t))
    PROVE  AllSupported(c, type, t)
<1> DEFINE k == Len(t)
<1>1. /\ t \in Seq(Items) /\ \A n \in DOMAIN t: n \in DOMAIN s \/ n = k
      /\ \A n \in DOMAIN s: \A m \in 1..n: t[m] = s[m]
  BY OneMore
<1> HIDE DEF k
<1>2. ASSUME NEW n \in DOMAIN s PROVE InstructionSupported(c, type, t, n)
  BY <1>1, Prefixed DEF AllSupported
<1> QED BY <1>1, <1>2 DEF AllSupported, k

-----------------------------------------------------------------------------
(* The two walks.                                                          *)

All(c) == InstructionsOf(c, Len(c))

Fits(c, rest, slot) == 3 * slot + 2 < 3 * Len(c) + rest
AllFit(c, rest, s) == \A n \in DOMAIN s: Fits(c, rest, s[n].slot)

\* The disassembler listed what it passed, if that lies inside.
Lists(c, rest, p, w, left, l) ==
    \E d \in Seq(Items): d \o left = Passed(c, p, w) /\ (AllFit(c, rest, d) => l = d)

\* The control flow passed is supported.
FlowsFine(c, p, w) ==
    \A m \in 0..(Len(c) - 1): \A k \in 1..2:
        IsPassed(p, w, m, k) => FlowSupported(c[m + 1].flow[k])

Translations ==
    [success: {TRUE},
     attributes: Seq([const: Int, dest: {s.fetch.dest: s \in Slots}]),
     exports: Seq([register: {s.alu.dest: s \in Slots}, source: {s.alu.src: s \in Slots}]),
     stride: {0} \cup {s.fetch.stride: s \in Slots}]

\* What the translation made of the instructions taken
Made(c, rest, type, s, f, made) ==
    /\ AllFit(c, rest, s) /\ AllSupported(c, type, s)
    /\ Carries(c, s, f)
    /\ Places(s, made.attributes) /\ Constants(c, s, made.attributes)
    /\ Dests(c, s, made.attributes) /\ Exports(c, s, made.exports)

SupportedBy(c, rest, type) ==
    /\ \A n \in FlowPairs(c), k \in 1..2: FlowSupported(c[n + 1].flow[k])
    /\ AllFit(c, rest, All(c)) /\ AllSupported(c, type, All(c))
    /\ Whole(c, type, All(c))

\* What SucceedsExactly and FollowsListing say
Right(c, rest, type, l, s, made) ==
    /\ made.success <=> SupportedBy(c, rest, type)
    /\ made.success =>
          /\ s = l /\ s = All(c)
          /\ Places(s, made.attributes) /\ Constants(c, s, made.attributes)

TranslateInv ==
    /\ WalkInv
    /\ stage \in {"vertex", "pixel"} /\ reader \in {"decode", "translate", "over"}
    /\ reader # "over" => WalkAt(code, pair, which, end)
    /\ reader = "decode" =>
          /\ Lists(code, spare, pair, which, todo, listed)
          /\ taken = <<>> /\ fullFetch = NoFetch /\ translation = Fresh
    /\ reader # "decode" => (AllFit(code, spare, All(code)) => listed = All(code))
    /\ reader = "translate" =>
          /\ taken \in Seq(Items) /\ fullFetch \in Int /\ translation \in Translations
          /\ taken \o todo = Passed(code, pair, which)
          /\ FlowsFine(code, pair, which)
          /\ Made(code, spare, stage, taken, fullFetch, translation)
    /\ reader = "over" => Right(code, spare, stage, listed, taken, translation)

LEMMA FlowMoves ==
    ASSUME WalkInv, WalkAt(code, pair, which, end), AtFlow, NextFlow,
           IsExecFamily(Flow) => EnterBlock(Flow), ~IsExecFamily(Flow) => SkipFlow
    PROVE  /\ WalkAt(code, pair', which', end')
           /\ todo' \in Seq(Items)
           /\ Passed(code, pair', which') = Passed(code, pair, which) \o todo'
           /\ pair \in FlowPairs(code) /\ pair \in 0..(Len(code) - 1) /\ which + 1 \in 1..2
           /\ \A m \in 0..(Len(code) - 1): \A j \in 1..2:
                 IsPassed(pair', which', m, j) =>
                     IsPassed(pair, which, m, j) \/ (m = pair /\ j = which + 1)
<1>1. code \in Seq(Slots) /\ which \in {0, 1} /\ todo = <<>> /\ (which = 1 \/ pair * 3 < end)
  BY DEF WalkInv, AtFlow
<1>2. pair \in FlowPairs(code) /\ pair \in 0..(Len(code) - 1)
  BY <1>1, EntersFlow
<1>3. PICK k: k = which + 1
  OBVIOUS
<1>4. PICK q: q = pair + which
  OBVIOUS
<1>5. PICK v: v = 1 - which
  OBVIOUS
<1>6. pair' = q /\ which' = v /\ k \in 1..2
  BY <1>1, <1>3, <1>4, <1>5 DEF NextFlow
<1>7. Flow = code[pair + 1].flow[k]
  BY <1>3 DEF Flow
<1>8. IsExecFamily(Flow) <=> k \in Execs(code, pair)
  BY <1>6, <1>7 DEF Execs
<1>9. /\ todo' = BlockOf(code, pair, k)
      /\ k \in Execs(code, pair) => end' = Least(end, 3 * code[pair + 1].flow[k].address)
      /\ k \notin Execs(code, pair) => end' = end
  BY <1>1, <1>7, <1>8 DEF EnterBlock, SkipFlow, BlockOf
<1>10. WalkAt(code, q, v, end')
  BY <1>1, <1>3, <1>4, <1>5, <1>9, WalkAdvances
<1>11. q \in 0..Len(code)
  BY <1>10 DEF WalkAt
<1>12. Passed(code, q, v) = Passed(code, pair, which) \o BlockOf(code, pair, k)
  <2>1. CASE which = 0
    <3>1. q = pair /\ v = 1 /\ k = 1
      BY <1>2, <1>3, <1>4, <1>5, <2>1
    <3>2. Passed(code, pair, 1) = Passed(code, pair, 0) \o BlockOf(code, pair, 1)
      BY DEF Passed
    <3> QED BY <2>1, <3>1, <3>2
  <2>2. CASE which = 1
    <3>1. q = pair + 1 /\ v = 0 /\ k = 2
      BY <1>2, <1>3, <1>4, <1>5, <2>2
    <3>2. Passed(code, q, 0) = Passed(code, pair, 1) \o BlockOf(code, pair, 2)
      BY <1>1, <1>2, <1>11, <3>1, PassedSecond
    <3> QED BY <2>2, <3>1, <3>2
  <2> QED BY <1>1, <2>1, <2>2
<1>13. todo' \in Seq(Items)
  BY <1>1, <1>2, <1>6, <1>9, BlockOfTyped
<1>14. ASSUME NEW m \in 0..(Len(code) - 1), NEW j \in 1..2, IsPassed(q, v, m, j)
       PROVE  IsPassed(pair, which, m, j) \/ (m = pair /\ j = k)
  <2>1. CASE which = 0
    BY <1>2, <1>3, <1>4, <1>5, <1>14, <2>1 DEF IsPassed
  <2>2. CASE which = 1
    BY <1>2, <1>3, <1>4, <1>5, <1>14, <2>2 DEF IsPassed
  <2> QED BY <1>1, <2>1, <2>2
<1> QED BY <1>2, <1>3, <1>6, <1>9, <1>10, <1>12, <1>13, <1>14

\* An instruction is taken off what is left and put behind what was passed.
LEMMA Moved ==
    ASSUME NEW d \in Seq(Items), NEW left \in Seq(Items), left # <<>>
    PROVE  /\ Head(left) \in Items /\ Append(d, Head(left)) \in Seq(Items)
           /\ Append(d, Head(left)) \o Tail(left) = d \o left
OBVIOUS

LEMMA FitsMore ==
    ASSUME NEW c, NEW rest, NEW d \in Seq(Items), NEW i \in Items
    PROVE  AllFit(c, rest, Append(d, i)) <=> AllFit(c, rest, d) /\ Fits(c, rest, i.slot)
<1>1. PICK t: t = Append(d, i)
  OBVIOUS
<1>2. /\ \A n \in DOMAIN t: n \in DOMAIN d \/ n = Len(t)
      /\ \A n \in DOMAIN d: n \in DOMAIN t /\ t[n] = d[n]
      /\ Len(t) \in DOMAIN t /\ t[Len(t)] = i
  BY <1>1, OneMore
<1> QED BY <1>1, <1>2 DEF AllFit

LEMMA ListsFlow ==
    ASSUME NEW c, NEW rest, NEW p, NEW w, NEW l, NEW left \in Seq(Items), NEW q, NEW v,
           Lists(c, rest, p, w, <<>>, l), Passed(c, q, v) = Passed(c, p, w) \o left
    PROVE  Lists(c, rest, q, v, left, l)
<1>1. PICK d \in Seq(Items): d \o <<>> = Passed(c, p, w) /\ (AllFit(c, rest, d) => l = d)
  BY DEF Lists
<1>2. d \o <<>> = d
  OBVIOUS
<1> QED BY <1>1, <1>2 DEF Lists

LEMMA ListsItem ==
    ASSUME NEW c, NEW rest, NEW p, NEW w, NEW l, NEW left \in Seq(Items), left # <<>>,
           Lists(c, rest, p, w, left, l), NEW m,
           Fits(c, rest, Head(left).slot) => m = Append(l, Head(left))
    PROVE  Lists(c, rest, p, w, Tail(left), m)
<1>1. PICK d \in Seq(Items): d \o left = Passed(c, p, w) /\ (AllFit(c, rest, d) => l = d)
  BY DEF Lists
<1>2. PICK i \in Items: i = Head(left)
  BY TailFacts
<1>3. PICK t: t = Append(d, i)
  OBVIOUS
<1>4. t \in Seq(Items) /\ t \o Tail(left) = d \o left
  BY <1>2, <1>3, Moved
<1>5. AllFit(c, rest, t) => AllFit(c, rest, d) /\ Fits(c, rest, i.slot)
  BY <1>3, FitsMore
<1>6. AllFit(c, rest, t) => m = t
  BY <1>1, <1>2, <1>3, <1>5
<1> QED BY <1>1, <1>4, <1>6 DEF Lists

LEMMA SlotTyped ==
    ASSUME NEW c \in Seq(Slots), NEW rest \in 0..2, NEW n \in Nat, Fits(c, rest, n)
    PROVE  c[n + 1] \in Slots /\ c[n + 1].fetch.const \in Nat
<1>1. n + 1 \in 1..Len(c)
  BY DEF Fits
<1>2. c[n + 1] \in Slots
  BY <1>1
<1> QED BY <1>2, SlotAssumption

\* The instruction at hand is among all, behind those taken.
LEMMA AtHand ==
    ASSUME NEW s \in Seq(Items), NEW left \in Seq(Items), left # <<>>, NEW d \in Seq(Items),
           NEW t, t = (s \o left) \o d
    PROVE  /\ t \in Seq(Items) /\ Len(s) + 1 \in DOMAIN t /\ t[Len(s) + 1] = Head(left)
           /\ \A m \in 1..Len(s): t[m] = s[m]
<1>1. PICK u \in Seq(Items): u = s \o left
  BY JoinTyped
<1>2. Len(left) \in Nat /\ Len(left) >= 1 /\ Len(s) \in Nat
  OBVIOUS
<1>3. Len(u) = Len(s) + Len(left) /\ u[Len(s) + 1] = left[1] /\ \A m \in 1..Len(s): u[m] = s[m]
  BY <1>1, <1>2
<1>4. t \in Seq(Items) /\ Len(t) = Len(u) + Len(d) /\ Len(d) \in Nat
  BY <1>1
<1>5. \A m \in 1..Len(u): t[m] = u[m]
  BY <1>1
<1>6. Len(s) + 1 \in 1..Len(u) /\ \A m \in 1..Len(s): m \in 1..Len(u)
  BY <1>2, <1>3
<1>7. DOMAIN t = 1..Len(t) /\ Len(s) + 1 \in 1..Len(t)
  BY <1>2, <1>3, <1>4
<1> QED BY <1>3, <1>4, <1>5, <1>6, <1>7

\* What an instruction must be to be supported, behind those taken
Recognized(c, type, i, f, a) ==
    LET e == c[i.slot + 1].fetch
        u == c[i.slot + 1].alu
    IN /\ i.fetch => FetchSupported(e) /\ (e.mini => f # NoFetch)
       /\ ~i.fetch =>
            /\ AluSupported(u, type)
            /\ u.writes /\ type = "vertex" => \E j \in DOMAIN a: a[j].dest = u.src

LEMMA SupportedIsRecognized ==
    ASSUME NEW c \in Seq(Slots), NEW rest \in 0..2, NEW type, NEW s \in Seq(Items),
           NEW f, NEW a, NEW t \in Seq(Items), NEW k \in DOMAIN t, k = Len(s) + 1,
           \A m \in 1..Len(s): t[m] = s[m],
           AllFit(c, rest, s), Carries(c, s, f), Dests(c, s, a)
    PROVE  InstructionSupported(c, type, t, k) <=> Recognized(c, type, t[k], f, a)
<1>1. PICK l \in Nat: l = Len(s)
  OBVIOUS
<1>2. DOMAIN s = 1..l /\ k = l + 1 /\ \A m \in 1..(k - 1): m \in 1..l
  BY <1>1
<1>3. 1..(k - 1) = 1..l
  BY <1>2
<1>4. \A m \in 1..l: t[m] = s[m] /\ s[m].slot \in Nat
  <2>1. \A m \in 1..l: s[m] \in Items
    BY <1>1
  <2> QED BY <1>1, <2>1 DEF Items
<1>5. (\E m \in 1..(k - 1): IsFull(c, t, m)) <=> f # NoFetch
  <2>1. \A m \in 1..l: IsFull(c, t, m) <=> IsFull(c, s, m)
    BY <1>4 DEF IsFull
  <2>2. CASE f = NoFetch /\ \A n \in DOMAIN s: ~IsFull(c, s, n)
    BY <1>2, <1>3, <2>1, <2>2
  <2>3. CASE \E n \in DOMAIN s: IsLastFull(c, s, n, Len(s)) /\ f = FetchOf(c, s, n).const
    <3>1. PICK n \in DOMAIN s: IsLastFull(c, s, n, Len(s)) /\ f = FetchOf(c, s, n).const
      BY <2>3
    <3>2. IsFull(c, s, n)
      BY <3>1 DEF IsLastFull
    <3>3. Fits(c, rest, s[n].slot) /\ s[n].slot \in Nat
      BY <1>2, <1>4, <3>1 DEF AllFit
    <3>4. c[s[n].slot + 1].fetch.const \in Nat
      BY <3>3, SlotTyped
    <3>5. f \in Nat
      BY <3>1, <3>4 DEF FetchOf
    <3>6. f # NoFetch
      BY <3>5 DEF NoFetch
    <3> QED BY <1>2, <1>3, <2>1, <3>2, <3>6
  <2> QED BY <2>2, <2>3 DEF Carries
<1>6. PICK r: r = c[t[k].slot + 1].alu.src
  OBVIOUS
<1>7. (\E m \in 1..(k - 1): t[m].fetch /\ c[t[m].slot + 1].fetch.dest = r)
        <=> \E j \in DOMAIN a: a[j].dest = r
  <2>1. ASSUME NEW m \in 1..(k - 1), t[m].fetch, c[t[m].slot + 1].fetch.dest = r
        PROVE  \E j \in DOMAIN a: a[j].dest = r
    <3>1. m \in DOMAIN s /\ s[m].fetch /\ FetchOf(c, s, m).dest = r
      BY <1>2, <1>4, <2>1 DEF FetchOf
    <3> QED BY <3>1 DEF Dests
  <2>2. ASSUME NEW j \in DOMAIN a, a[j].dest = r
        PROVE  \E m \in 1..(k - 1): t[m].fetch /\ c[t[m].slot + 1].fetch.dest = r
    <3>1. PICK n \in DOMAIN s: s[n].fetch /\ a[j].dest = FetchOf(c, s, n).dest
      BY DEF Dests
    <3> QED BY <1>2, <1>3, <1>4, <2>2, <3>1 DEF FetchOf
  <2> QED BY <2>1, <2>2
<1> QED BY <1>5, <1>6, <1>7 DEF InstructionSupported, Recognized

\* The program ends as one that is recognized, or does not.
LEMMA CompleteIsWhole ==
    ASSUME NEW c, NEW type \in {"vertex", "pixel"}, NEW s \in Seq(Items), NEW a, NEW X,
           NEW x \in Seq(X), a = <<>> <=> DOMAIN a = {}, Dests(c, s, a), Exports(c, s, x)
    PROVE  (IF type = "vertex" THEN a # <<>> /\ x # <<>> ELSE x # <<>> /\ x[1].source = 0)
             <=> Whole(c, type, s)
<1>1. x = <<>> <=> \A n \in DOMAIN s: ~IsExport(c, s, n)
  BY DEF Exports, IsFirstExport
<1>2. CASE type = "vertex"
  <2>1. a # <<>> <=> \E n \in DOMAIN s: s[n].fetch
    BY DEF Dests
  <2> QED BY <1>1, <1>2, <2>1 DEF Whole
<1>3. CASE type = "pixel"
  <2>1. ASSUME NEW n \in DOMAIN s, NEW m \in DOMAIN s,
               IsFirstExport(c, s, n), IsFirstExport(c, s, m)
        PROVE  n = m
    <3>1. n \in Nat /\ m \in Nat /\ ~(n < m) /\ ~(m < n)
      BY <2>1 DEF IsFirstExport
    <3> QED BY <3>1
  <2>2. ASSUME x # <<>>, x[1].source = 0 PROVE Whole(c, type, s)
    BY <1>3, <2>2 DEF Exports, Whole, AluOf
  <2>3. ASSUME Whole(c, type, s) PROVE x # <<>> /\ x[1].source = 0
    <3>1. PICK n \in DOMAIN s: IsFirstExport(c, s, n) /\ c[s[n].slot + 1].alu.src = 0
      BY <1>3, <2>3 DEF Whole
    <3>2. x # <<>>
      BY <1>1, <3>1 DEF IsFirstExport
    <3>3. PICK m \in DOMAIN s: IsFirstExport(c, s, m) /\ x[1].source = AluOf(c, s, m).src
      BY <3>2 DEF Exports
    <3>4. m = n
      BY <2>1, <3>1, <3>3
    <3> QED BY <3>1, <3>2, <3>3, <3>4 DEF AluOf
  <2> QED BY <1>3, <2>2, <2>3
<1> QED BY <1>2, <1>3

-----------------------------------------------------------------------------
(* Every step keeps to what is said of both walks.                         *)

\* Where a walk begins
LEMMA Begins ==
    ASSUME NEW c \in Seq(Slots), NEW e, e = 3 * Len(c)
    PROVE  WalkAt(c, 0, 0, e) /\ Passed(c, 0, 0) = <<>> /\ FlowsFine(c, 0, 0)
<1>1. Len(c) \in Nat /\ 0 \in 0..Len(c) /\ e \in Int
  OBVIOUS
<1>2. ASSUME NEW m \in 0..(Len(c) - 1), NEW k PROVE ~IsPassed(0, 0, m, k)
  BY <1>1 DEF IsPassed
<1>3. ASSUME NEW q \in Nat
      PROVE  3 * q < e <=>
               /\ q < Len(c)
               /\ \A m \in 0..(Len(c) - 1): \A k \in Execs(c, m):
                     IsPassed(0, 0, m, k) => c[m + 1].flow[k].address > q
  <2>1. 3 * q < e <=> q < Len(c)
    BY <1>1
  <2> QED BY <1>2, <2>1
<1>4. \A n \in 0..(0 - 1): n \in FlowPairs(c)
  OBVIOUS
<1>5. WalkAt(c, 0, 0, e)
  BY <1>1, <1>3, <1>4 DEF WalkAt
<1>6. Blocks(c, 0) = <<>>
  BY <1>1, BlocksTyped
<1>7. Passed(c, 0, 0) = <<>>
  BY <1>6, FlattenEmpty DEF Blocks, InstructionsOf, Passed
<1> QED BY <1>2, <1>5, <1>7 DEF FlowsFine

LEMMA AtFirst == ShaderInit => TranslateInv
<1> SUFFICES ASSUME ShaderInit PROVE TranslateInv
  OBVIOUS
<1>1. WalkInv /\ code \in Seq(Slots) /\ reader = "decode"
  BY WalkInit DEF ShaderInit, WalkInv
<1>2. pair = 0 /\ which = 0 /\ todo = <<>> /\ listed = <<>> /\ end = 3 * Len(code)
  BY DEF ShaderInit
<1>3. WalkAt(code, 0, 0, end) /\ Passed(code, 0, 0) = <<>>
  BY <1>1, <1>2, Begins
<1>4. Lists(code, spare, 0, 0, <<>>, <<>>)
  <2>1. <<>> \in Seq(Items) /\ <<>> \o <<>> = Passed(code, 0, 0)
    BY <1>3
  <2> QED BY <2>1 DEF Lists
<1> QED BY <1>1, <1>2, <1>3, <1>4 DEF ShaderInit, TranslateInv

LEMMA DecodingFlow ==
    ASSUME TranslateInv, DecodeFlow, WalkInv'
    PROVE  TranslateInv'
<1>1. /\ WalkInv /\ reader = "decode" /\ AtFlow /\ NextFlow /\ todo = <<>>
      /\ IsExecFamily(Flow) => EnterBlock(Flow)
      /\ ~IsExecFamily(Flow) => SkipFlow
      /\ WalkAt(code, pair, which, end) /\ Lists(code, spare, pair, which, <<>>, listed)
      /\ stage \in {"vertex", "pixel"}
      /\ taken = <<>> /\ fullFetch = NoFetch /\ translation = Fresh
  BY DEF TranslateInv, DecodeFlow, AtFlow
<1>2. /\ code' = code /\ spare' = spare /\ stage' = stage /\ reader' = reader
      /\ listed' = listed /\ taken' = taken /\ fullFetch' = fullFetch
      /\ translation' = translation
  BY DEF DecodeFlow, input
<1>3. /\ WalkAt(code, pair', which', end') /\ todo' \in Seq(Items)
      /\ Passed(code, pair', which') = Passed(code, pair, which) \o todo'
  BY <1>1, FlowMoves
<1>4. Lists(code, spare, pair', which', todo', listed)
  BY <1>1, <1>3, ListsFlow
<1>5. NoFetch' = NoFetch /\ Fresh' = Fresh
  BY DEF NoFetch, Fresh, Failed
<1> QED BY <1>1, <1>2, <1>3, <1>4, <1>5 DEF TranslateInv

LEMMA DecodingInstruction ==
    ASSUME TranslateInv, DecodeInstruction, WalkInv'
    PROVE  TranslateInv'
<1>1. /\ WalkInv /\ reader = "decode" /\ todo # <<>> /\ todo \in Seq(Items)
      /\ WalkAt(code, pair, which, end) /\ Lists(code, spare, pair, which, todo, listed)
      /\ stage \in {"vertex", "pixel"}
      /\ taken = <<>> /\ fullFetch = NoFetch /\ translation = Fresh
  BY DEF TranslateInv, DecodeInstruction, WalkInv
<1>2. /\ code' = code /\ spare' = spare /\ stage' = stage /\ reader' = reader
      /\ taken' = taken /\ fullFetch' = fullFetch /\ translation' = translation
      /\ pair' = pair /\ which' = which /\ end' = end /\ todo' = Tail(todo)
  BY DEF DecodeInstruction, input, TakeHere
<1>3. Fits(code, spare, Head(todo).slot) => listed' = Append(listed, Head(todo))
  BY DEF DecodeInstruction, InRange, DwordCount, Fits, Here
<1>4. Lists(code, spare, pair, which, Tail(todo), listed')
  BY <1>1, <1>3, ListsItem
<1>5. NoFetch' = NoFetch /\ Fresh' = Fresh
  BY DEF NoFetch, Fresh, Failed
<1> QED BY <1>1, <1>2, <1>4, <1>5 DEF TranslateInv

\* When the disassembler is through, it has listed all; the translation begins with
\* nothing taken.
LEMMA Starting ==
    ASSUME TranslateInv, StartTranslation, WalkInv'
    PROVE  TranslateInv'
<1>1. /\ WalkInv /\ reader = "decode" /\ todo = <<>> /\ which = 0 /\ pair * 3 >= end
      /\ WalkAt(code, pair, 0, end) /\ Lists(code, spare, pair, 0, <<>>, listed)
      /\ stage \in {"vertex", "pixel"} /\ code \in Seq(Slots)
      /\ taken = <<>> /\ fullFetch = NoFetch /\ translation = Fresh
  BY DEF TranslateInv, StartTranslation, WalkOver, WalkInv
<1>2. /\ code' = code /\ spare' = spare /\ stage' = stage /\ reader' = "translate"
      /\ taken' = taken /\ fullFetch' = fullFetch /\ translation' = translation
      /\ pair' = 0 /\ which' = 0 /\ end' = 3 * Len(code) /\ todo' = todo /\ listed' = listed
  BY DEF StartTranslation, input
<1>3. AllFit(code, spare, All(code)) => listed = All(code)
  <2>1. ~(pair * 3 < end)
    BY <1>1 DEF WalkInv
  <2>2. Passed(code, pair, 0) = All(code)
    BY <1>1, <2>1, WalkEnds DEF All
  <2>3. PICK d \in Seq(Items):
           d \o <<>> = Passed(code, pair, 0) /\ (AllFit(code, spare, d) => listed = d)
    BY <1>1 DEF Lists
  <2>4. d \o <<>> = d
    OBVIOUS
  <2> QED BY <2>2, <2>3, <2>4
<1>4. WalkAt(code, 0, 0, end') /\ Passed(code, 0, 0) = <<>> /\ FlowsFine(code, 0, 0)
  BY <1>1, <1>2, Begins
<1>5. <<>> \in Seq(Items) /\ NoFetch \in Int /\ <<>> \o <<>> = <<>>
  BY DEF NoFetch
<1>6. Fresh \in Translations
  <2>1. PICK r \in [success: {FALSE}, attributes: {<<>>}, exports: {<<>>}, stride: {0}]: r = Failed
    BY DEF Failed
  <2>2. [r EXCEPT !.success = TRUE]
          \in [success: {TRUE}, attributes: {<<>>}, exports: {<<>>}, stride: {0}]
    OBVIOUS
  <2>3. \A S: <<>> \in Seq(S)
    OBVIOUS
  <2>4. Fresh \in [success: {TRUE}, attributes: {<<>>}, exports: {<<>>}, stride: {0}]
    BY <2>1, <2>2 DEF Fresh
  <2> QED BY <2>3, <2>4 DEF Translations
<1>7. Made(code, spare, stage, <<>>, NoFetch, Fresh)
  <2>1. DOMAIN <<>> = {} /\ Len(<<>>) = 0
    OBVIOUS
  <2>2. FetchesUpTo(<<>>, Len(<<>>)) = 0
    <3>1. {m \in 1..0: (<<>>)[m].fetch} = {}
      OBVIOUS
    <3> QED BY <2>1, <3>1, FS_EmptySet DEF FetchesUpTo
  <2>3. Fresh.attributes = <<>> /\ Fresh.exports = <<>>
    BY DEF Fresh, Failed
  <2>4. AllFit(code, spare, <<>>) /\ AllSupported(code, stage, <<>>) /\ Carries(code, <<>>, NoFetch)
    BY <2>1 DEF AllFit, AllSupported, Carries
  <2>5. Places(<<>>, <<>>) /\ Constants(code, <<>>, <<>>) /\ Dests(code, <<>>, <<>>)
    BY <2>1, <2>2 DEF Places, Constants, Dests
  <2>6. Exports(code, <<>>, <<>>)
    BY <2>1 DEF Exports
  <2> QED BY <2>3, <2>4, <2>5, <2>6 DEF Made
<1> QED BY <1>1, <1>2, <1>3, <1>4, <1>5, <1>6, <1>7 DEF TranslateInv

LEMMA TakingFlow ==
    ASSUME TranslateInv, TranslateFlow, WalkInv'
    PROVE  TranslateInv'
<1>1. /\ WalkInv /\ reader = "translate" /\ AtFlow /\ NextFlow /\ todo = <<>>
      /\ WalkAt(code, pair, which, end) /\ stage \in {"vertex", "pixel"}
      /\ AllFit(code, spare, All(code)) => listed = All(code)
      /\ taken \in Seq(Items) /\ fullFetch \in Int /\ translation \in Translations
      /\ taken \o <<>> = Passed(code, pair, which)
      /\ FlowsFine(code, pair, which)
      /\ Made(code, spare, stage, taken, fullFetch, translation)
  BY DEF TranslateInv, TranslateFlow, AtFlow, Translating
<1>2. /\ code' = code /\ spare' = spare /\ stage' = stage /\ reader' = reader
      /\ listed' = listed /\ taken' = taken /\ fullFetch' = fullFetch
      /\ translation' = translation
  BY DEF TranslateFlow, input
<1>3. /\ IsExecFamily(Flow) => EnterBlock(Flow)
      /\ ~IsExecFamily(Flow) => SkipFlow
      /\ FlowSupported(Flow)
  BY DEF TranslateFlow, IsExecFamily, FlowSupported
<1>4. /\ WalkAt(code, pair', which', end') /\ todo' \in Seq(Items)
      /\ Passed(code, pair', which') = Passed(code, pair, which) \o todo'
      /\ \A m \in 0..(Len(code) - 1): \A j \in 1..2:
            IsPassed(pair', which', m, j) =>
                IsPassed(pair, which, m, j) \/ (m = pair /\ j = which + 1)
  BY <1>1, <1>3, FlowMoves
<1>5. taken \o todo' = Passed(code, pair', which')
  <2>1. taken \o <<>> = taken
    BY <1>1
  <2> QED BY <1>1, <1>4, <2>1
<1>6. FlowsFine(code, pair', which')
  BY <1>1, <1>3, <1>4 DEF FlowsFine, Flow
<1> QED BY <1>1, <1>2, <1>4, <1>5, <1>6 DEF TranslateInv

\* What both ways of taking an instruction have in common
LEMMA Taking ==
    ASSUME TranslateInv, Takes, Recognized(code, stage, Here, fullFetch, translation.attributes)
    PROVE  /\ reader = "translate" /\ code \in Seq(Slots) /\ spare \in 0..2
           /\ todo \in Seq(Items) /\ todo # <<>> /\ Here = Head(todo) /\ Here \in Items
           /\ code[Here.slot + 1] \in Slots
           /\ taken \in Seq(Items) /\ taken' = Append(taken, Here) /\ taken' \in Seq(Items)
           /\ taken' \o Tail(todo) = Passed(code, pair, which)
           /\ AllFit(code, spare, taken') /\ AllSupported(code, stage, taken')
           /\ Made(code, spare, stage, taken, fullFetch, translation)
           /\ fullFetch \in Int /\ translation \in Translations
<1>1. /\ reader = "translate" /\ code \in Seq(Slots) /\ spare \in 0..2
      /\ todo \in Seq(Items) /\ todo # <<>>
      /\ taken \in Seq(Items) /\ fullFetch \in Int /\ translation \in Translations
      /\ taken \o todo = Passed(code, pair, which)
      /\ Made(code, spare, stage, taken, fullFetch, translation)
  BY DEF TranslateInv, WalkInv, Takes, Translating
<1>2. Here = Head(todo) /\ Here \in Items /\ taken' = Append(taken, Here)
  BY <1>1, TailFacts DEF Here, Takes
<1>3. Fits(code, spare, Here.slot) /\ Here.slot \in Nat
  BY <1>2 DEF Takes, InRange, DwordCount, Fits, Items
<1>4. code[Here.slot + 1] \in Slots
  BY <1>1, <1>3, SlotTyped
<1>5. taken' \in Seq(Items) /\ taken' \o Tail(todo) = taken \o todo
  BY <1>1, <1>2, Moved
<1>6. AllFit(code, spare, taken) /\ AllSupported(code, stage, taken)
      /\ Carries(code, taken, fullFetch) /\ Dests(code, taken, translation.attributes)
  BY <1>1 DEF Made
<1>7. AllFit(code, spare, taken')
  BY <1>1, <1>2, <1>3, <1>6, FitsMore
<1>8. InstructionSupported(code, stage, taken', Len(taken'))
  <2>1. PICK t: t = taken'
    OBVIOUS
  <2>2. PICK k: k = Len(t)
    OBVIOUS
  <2>3. /\ t \in Seq(Items) /\ k \in DOMAIN t /\ k = Len(taken) + 1 /\ t[k] = Here
        /\ \A n \in DOMAIN taken: t[n] = taken[n]
        /\ DOMAIN taken = 1..Len(taken)
    BY <1>1, <1>2, <2>1, <2>2, OneMore
  <2>4. \A n \in 1..Len(taken): t[n] = taken[n]
    BY <2>3
  <2>5. InstructionSupported(code, stage, t, k)
          <=> Recognized(code, stage, t[k], fullFetch, translation.attributes)
    BY <1>1, <1>6, <2>3, <2>4, SupportedIsRecognized
  <2> QED BY <2>1, <2>2, <2>3, <2>5
<1>9. AllSupported(code, stage, taken')
  BY <1>1, <1>2, <1>6, <1>8, SupportedMore
<1> QED BY <1>1, <1>2, <1>4, <1>5, <1>7, <1>9

\* An instruction that is taken leaves the walk where it was.
LEMMA TakenStays ==
    ASSUME TranslateInv, Takes, WalkInv', taken' \in Seq(Items),
           taken' \o Tail(todo) = Passed(code, pair, which),
           fullFetch' \in Int, translation' \in Translations,
           Made(code, spare, stage, taken', fullFetch', translation')
    PROVE  TranslateInv'
<1>1. /\ reader = "translate" /\ WalkAt(code, pair, which, end) /\ stage \in {"vertex", "pixel"}
      /\ AllFit(code, spare, All(code)) => listed = All(code)
      /\ FlowsFine(code, pair, which)
  BY DEF TranslateInv, Takes, Translating
<1>2. /\ code' = code /\ spare' = spare /\ stage' = stage /\ reader' = reader
      /\ listed' = listed /\ pair' = pair /\ which' = which /\ end' = end
      /\ todo' = Tail(todo)
  BY DEF Takes, TakeHere, input
<1>3. Translations' = Translations
  BY DEF Translations
<1> QED BY <1>1, <1>2 DEF TranslateInv

LEMMA TakingFetch ==
    ASSUME TranslateInv, TakeFetch, WalkInv'
    PROVE  TranslateInv'
<1>1. /\ Takes /\ Here.fetch
      /\ FetchSupported(Fetch) /\ (Fetch.mini => fullFetch # NoFetch)
      /\ fullFetch' = FetchConstant(Fetch)
      /\ Fetch = code[Here.slot + 1].fetch
  BY DEF TakeFetch, Fetch
<1>2. Recognized(code, stage, Here, fullFetch, translation.attributes)
  BY <1>1 DEF Recognized
<1>3. /\ Here \in Items /\ code[Here.slot + 1] \in Slots
      /\ taken \in Seq(Items) /\ taken' = Append(taken, Here) /\ taken' \in Seq(Items)
      /\ taken' \o Tail(todo) = Passed(code, pair, which)
      /\ AllFit(code, spare, taken') /\ AllSupported(code, stage, taken')
      /\ Made(code, spare, stage, taken, fullFetch, translation)
      /\ fullFetch \in Int /\ translation \in Translations
  BY <1>1, <1>2, Taking
<1>4. /\ Carries(code, taken, fullFetch) /\ Places(taken, translation.attributes)
      /\ Constants(code, taken, translation.attributes)
      /\ Dests(code, taken, translation.attributes)
      /\ Exports(code, taken, translation.exports)
  BY <1>3 DEF Made
<1>5. /\ Fetch.mini => fullFetch' = fullFetch
      /\ ~Fetch.mini => fullFetch' = Fetch.const
      /\ fullFetch' \in Int
  BY <1>1, <1>3, SlotAssumption DEF FetchConstant
<1>6. Carries(code, taken', fullFetch') /\ HasFull(code, taken', fullFetch')
  <2>1. PICK i \in Items: i = Here
    BY <1>3
  <2>2. PICK t: t = taken'
    OBVIOUS
  <2>3. PICK g: g = fullFetch'
    OBVIOUS
  <2>4. /\ t = Append(taken, i) /\ i.fetch
        /\ ~i.fetch => g = fullFetch
        /\ i.fetch /\ code[i.slot + 1].fetch.mini => g = fullFetch /\ fullFetch # NoFetch
        /\ i.fetch /\ ~code[i.slot + 1].fetch.mini => g = code[i.slot + 1].fetch.const
    BY <1>1, <1>3, <1>5, <2>1, <2>2, <2>3
  <2>5. Carries(code, t, g) /\ HasFull(code, t, g)
    BY <1>3, <1>4, <2>4, CarriesMore
  <2> QED BY <2>2, <2>3, <2>5
<1> DEFINE D == {s.fetch.dest: s \in Slots}
           A == [const: Int, dest: D]
<1>7. PICK x: x = [const |-> fullFetch', dest |-> Fetch.dest]
  OBVIOUS
<1>8. x \in A /\ x.const = fullFetch' /\ x.dest = code[Here.slot + 1].fetch.dest
  <2>1. Fetch.dest \in D
    BY <1>1, <1>3
  <2> QED BY <1>1, <1>5, <1>7, <2>1
<1>9. translation.attributes \in Seq(A) /\ translation.exports \in
         Seq([register: {s.alu.dest: s \in Slots}, source: {s.alu.src: s \in Slots}])
      /\ translation.stride \in {0} \cup {s.fetch.stride: s \in Slots}
      /\ translation.success
  BY <1>3 DEF Translations
<1>10. /\ translation'.attributes = Append(translation.attributes, x)
       /\ translation'.exports = translation.exports
       /\ translation' \in Translations
  <2>1. Fetch.stride \in {s.fetch.stride: s \in Slots}
    BY <1>1, <1>3
  <2>2. translation' = [translation EXCEPT
           !.attributes = Append(translation.attributes, x),
           !.stride = IF Fetch.mini THEN translation.stride ELSE Fetch.stride]
    BY <1>1, <1>7 DEF TakeFetch
  <2>3. PICK g: g = IF Fetch.mini THEN translation.stride ELSE Fetch.stride
    OBVIOUS
  <2>4. g \in {0} \cup {s.fetch.stride: s \in Slots}
    BY <1>9, <2>1, <2>3
  <2>5. PICK b: b = Append(translation.attributes, x)
    OBVIOUS
  <2>6. b \in Seq(A)
    BY <1>8, <1>9, <2>5
  <2>7. translation' = [translation EXCEPT !.attributes = b, !.stride = g]
    BY <2>2, <2>3, <2>5
  <2> QED BY <1>3, <2>4, <2>5, <2>6, <2>7 DEF Translations
<1> HIDE DEF A
<1>11. /\ Places(taken', translation'.attributes)
       /\ Constants(code, taken', translation'.attributes)
       /\ Dests(code, taken', translation'.attributes)
  <2>1. PICK i \in Items: i = Here
    BY <1>3
  <2>2. PICK t: t = taken'
    OBVIOUS
  <2>3. PICK a \in Seq(A): a = translation.attributes
    BY <1>9
  <2>4. PICK b: b = translation'.attributes
    OBVIOUS
  <2>5. /\ t = Append(taken, i) /\ i.fetch /\ b = Append(a, x)
        /\ Places(taken, a) /\ Constants(code, taken, a) /\ Dests(code, taken, a)
        /\ x.dest = code[i.slot + 1].fetch.dest
    BY <1>1, <1>3, <1>4, <1>8, <1>10, <2>1, <2>2, <2>3, <2>4
  <2>6. HasFull(code, t, x.const)
    BY <1>6, <1>8, <2>2
  <2>7. Places(t, b) /\ Constants(code, t, b) /\ Dests(code, t, b)
    BY <1>3, <1>8, <2>5, <2>6, FetchTaken
  <2> QED BY <2>2, <2>4, <2>7
<1>12. Exports(code, taken', translation'.exports)
  BY <1>1, <1>3, <1>4, <1>9, <1>10, ExportsMore
<1>13. Made(code, spare, stage, taken', fullFetch', translation')
  BY <1>3, <1>6, <1>11, <1>12 DEF Made
<1> QED BY <1>1, <1>3, <1>5, <1>10, <1>13, TakenStays

LEMMA AppendTyped ==
    ASSUME NEW S, NEW s \in Seq(S), NEW e \in S
    PROVE  Append(s, e) \in Seq(S)
OBVIOUS

LEMMA TakingAlu ==
    ASSUME TranslateInv, TakeAlu, WalkInv'
    PROVE  TranslateInv'
<1>1. /\ Takes /\ ~Here.fetch /\ AluSupported(Alu, stage)
      /\ fullFetch' = fullFetch /\ Alu = code[Here.slot + 1].alu
  BY DEF TakeAlu, Alu
<1>2. \/ ~Alu.writes /\ translation' = translation
      \/ /\ Alu.writes /\ (stage = "vertex" => Fetched(Alu.src))
         /\ translation' = [translation EXCEPT
               !.exports = Append(translation.exports,
                                  [register |-> Alu.dest, source |-> Alu.src])]
  BY DEF TakeAlu, Idle
<1>3. Recognized(code, stage, Here, fullFetch, translation.attributes)
  <2>1. Alu.writes /\ stage = "vertex" =>
           \E j \in DOMAIN translation.attributes: translation.attributes[j].dest = Alu.src
    BY <1>2 DEF Fetched
  <2> QED BY <1>1, <2>1 DEF Recognized
<1>4. /\ Here \in Items /\ code[Here.slot + 1] \in Slots
      /\ taken \in Seq(Items) /\ taken' = Append(taken, Here) /\ taken' \in Seq(Items)
      /\ taken' \o Tail(todo) = Passed(code, pair, which)
      /\ AllFit(code, spare, taken') /\ AllSupported(code, stage, taken')
      /\ Made(code, spare, stage, taken, fullFetch, translation)
      /\ fullFetch \in Int /\ translation \in Translations
  BY <1>1, <1>3, Taking
<1>5. /\ Carries(code, taken, fullFetch) /\ Places(taken, translation.attributes)
      /\ Constants(code, taken, translation.attributes)
      /\ Dests(code, taken, translation.attributes)
      /\ Exports(code, taken, translation.exports)
  BY <1>4 DEF Made
<1> DEFINE X == [register: {s.alu.dest: s \in Slots}, source: {s.alu.src: s \in Slots}]
<1>6. translation.exports \in Seq(X)
  BY <1>4 DEF Translations
<1>7. PICK e \in X: e = [register |-> Alu.dest, source |-> Alu.src]
  BY <1>1, <1>4
<1>8. e.source = Alu.src
  BY <1>7
<1>9. /\ ~Alu.writes => translation' = translation
      /\ Alu.writes => /\ translation'.exports = Append(translation.exports, e)
                       /\ translation'.attributes = translation.attributes
                       /\ translation' \in Translations
  <2>1. CASE ~Alu.writes
    BY <1>2, <2>1
  <2>2. CASE Alu.writes
    <3>1. PICK b \in Seq(X): b = Append(translation.exports, e)
      BY <1>6, <1>7, AppendTyped
    <3>2. translation' = [translation EXCEPT !.exports = b]
      BY <1>2, <1>7, <2>2, <3>1
    <3> QED BY <1>4, <2>2, <3>1, <3>2 DEF Translations
  <2> QED BY <2>1, <2>2
<1> HIDE DEF X
<1>10. PICK i \in Items: i = Here
  BY <1>4
<1>11. PICK t: t = taken'
  OBVIOUS
<1>12. t = Append(taken, i) /\ ~i.fetch /\ Alu = code[i.slot + 1].alu
  BY <1>1, <1>4, <1>10, <1>11
<1>13. Carries(code, t, fullFetch)
  BY <1>4, <1>5, <1>12, CarriesMore
<1>14. /\ Places(t, translation.attributes) /\ Constants(code, t, translation.attributes)
       /\ Dests(code, t, translation.attributes)
  BY <1>4, <1>5, <1>12, AluTaken
<1>15. Exports(code, t, translation'.exports)
  <2>1. PICK y: y = translation'.exports
    OBVIOUS
  <2>2. /\ ~(~i.fetch /\ code[i.slot + 1].alu.writes) => y = translation.exports
        /\ ~i.fetch /\ code[i.slot + 1].alu.writes =>
             \E d \in X: y = Append(translation.exports, d) /\ d.source = code[i.slot + 1].alu.src
    BY <1>8, <1>9, <1>12, <2>1
  <2>3. Exports(code, t, y)
    BY <1>4, <1>5, <1>6, <1>12, <2>2, ExportsMore
  <2> QED BY <2>1, <2>3
<1>16. /\ translation'.attributes = translation.attributes
       /\ translation' \in Translations
  BY <1>4, <1>9
<1>17. Made(code, spare, stage, taken', fullFetch', translation')
  BY <1>1, <1>4, <1>11, <1>13, <1>14, <1>15, <1>16 DEF Made
<1> QED BY <1>1, <1>4, <1>16, <1>17, TakenStays

\* A failure is right when something is not supported.
LEMMA Failing ==
    ASSUME TranslateInv, Translating, Fail, WalkInv', ~SupportedBy(code, spare, stage)
    PROVE  TranslateInv'
<1>1. /\ code' = code /\ spare' = spare /\ stage' = stage /\ reader' = "over"
      /\ listed' = listed /\ taken' = taken /\ translation' = Failed
  BY DEF Fail, input
<1>2. stage \in {"vertex", "pixel"} /\ (AllFit(code, spare, All(code)) => listed = All(code))
  BY DEF TranslateInv, Translating
<1>3. Failed.success = FALSE
  BY DEF Failed
<1>4. Right(code, spare, stage, listed, taken, Failed)
  BY <1>3 DEF Right
<1>5. Right(code', spare', stage', listed', taken', translation')
  BY <1>1, <1>4
<1> QED BY <1>1, <1>2, <1>5 DEF TranslateInv

LEMMA FailingFlow ==
    ASSUME TranslateInv, UnsupportedFlow, WalkInv'
    PROVE  TranslateInv'
<1>1. /\ WalkAt(code, pair, which, end) /\ code \in Seq(Slots) /\ which \in {0, 1}
      /\ which = 1 \/ pair * 3 < end
  BY DEF TranslateInv, UnsupportedFlow, Translating, AtFlow, WalkInv
<1>2. pair \in FlowPairs(code) /\ which + 1 \in 1..2
  BY <1>1, EntersFlow
<1>3. ~FlowSupported(code[pair + 1].flow[which + 1])
  BY DEF UnsupportedFlow, Flow, FlowSupported
<1>4. ~SupportedBy(code, spare, stage)
  BY <1>2, <1>3 DEF SupportedBy
<1> QED BY <1>4, Failing DEF UnsupportedFlow

LEMMA FailingInstruction ==
    ASSUME TranslateInv, UnsupportedInstruction, WalkInv'
    PROVE  TranslateInv'
<1>1. /\ WalkAt(code, pair, which, end) /\ code \in Seq(Slots) /\ spare \in 0..2
      /\ todo # <<>> /\ todo \in Seq(Items) /\ taken \in Seq(Items)
      /\ taken \o todo = Passed(code, pair, which)
      /\ Made(code, spare, stage, taken, fullFetch, translation)
  BY DEF TranslateInv, UnsupportedInstruction, Translating, WalkInv
<1>2. PICK d \in Seq(Items): All(code) = Passed(code, pair, which) \o d
  BY <1>1, PassedBegins DEF All
<1>3. PICK t: t = All(code)
  OBVIOUS
<1>4. PICK k: k = Len(taken) + 1
  OBVIOUS
<1>5. t \in Seq(Items) /\ k \in DOMAIN t /\ t[k] = Here /\ \A m \in 1..Len(taken): t[m] = taken[m]
  <2>1. PICK s \in Seq(Items): s = taken
    BY <1>1
  <2>2. PICK left \in Seq(Items): left = todo /\ left # <<>>
    BY <1>1
  <2>3. t = (s \o left) \o d
    BY <1>1, <1>2, <1>3, <2>1, <2>2
  <2>4. /\ t \in Seq(Items) /\ Len(s) + 1 \in DOMAIN t /\ t[Len(s) + 1] = Head(left)
        /\ \A m \in 1..Len(s): t[m] = s[m]
    BY <2>2, <2>3, AtHand
  <2> QED BY <1>4, <2>1, <2>2, <2>4 DEF Here
<1>6. /\ AllFit(code, spare, taken) /\ Carries(code, taken, fullFetch)
      /\ Dests(code, taken, translation.attributes)
  BY <1>1 DEF Made
<1>7. InstructionSupported(code, stage, t, k)
        <=> Recognized(code, stage, Here, fullFetch, translation.attributes)
  BY <1>1, <1>4, <1>5, <1>6, SupportedIsRecognized
<1>8. ~Fits(code, spare, Here.slot)
        \/ ~Recognized(code, stage, Here, fullFetch, translation.attributes)
  BY DEF UnsupportedInstruction, InRange, DwordCount, Fits, Recognized, Fetch, Alu, Fetched
<1>9. ~AllFit(code, spare, t) \/ ~AllSupported(code, stage, t)
  BY <1>5, <1>7, <1>8 DEF AllFit, AllSupported
<1>10. ~SupportedBy(code, spare, stage)
  BY <1>3, <1>9 DEF SupportedBy
<1> QED BY <1>10, Failing DEF UnsupportedInstruction

LEMMA Finishing ==
    ASSUME TranslateInv, Finish, WalkInv'
    PROVE  TranslateInv'
<1>1. /\ WalkAt(code, pair, 0, end) /\ code \in Seq(Slots) /\ todo = <<>> /\ which = 0
      /\ end \in Int /\ pair \in Nat /\ pair * 3 >= end /\ stage \in {"vertex", "pixel"}
      /\ AllFit(code, spare, All(code)) => listed = All(code)
      /\ taken \in Seq(Items) /\ translation \in Translations
      /\ taken \o <<>> = Passed(code, pair, 0)
      /\ FlowsFine(code, pair, 0)
      /\ Made(code, spare, stage, taken, fullFetch, translation)
  BY DEF TranslateInv, Finish, Translating, WalkOver, WalkInv
<1>2. ~(pair * 3 < end)
  BY <1>1
<1>3. FlowPairs(code) = 0..(pair - 1) /\ Passed(code, pair, 0) = All(code)
  BY <1>1, <1>2, WalkEnds DEF All
<1>4. taken = All(code)
  BY <1>1, <1>3
<1>5. \A n \in FlowPairs(code), k \in 1..2: FlowSupported(code[n + 1].flow[k])
  <2>1. ASSUME NEW n \in FlowPairs(code), NEW k \in 1..2
        PROVE  FlowSupported(code[n + 1].flow[k])
    <3>1. n \in 0..(Len(code) - 1)
      BY DEF FlowPairs
    <3>2. n < pair
      BY <1>1, <1>3
    <3> QED BY <1>1, <3>1, <3>2 DEF FlowsFine, IsPassed
  <2> QED BY <2>1
<1>6. /\ AllFit(code, spare, taken) /\ AllSupported(code, stage, taken)
      /\ Places(taken, translation.attributes)
      /\ Constants(code, taken, translation.attributes)
      /\ Dests(code, taken, translation.attributes)
      /\ Exports(code, taken, translation.exports)
  BY <1>1 DEF Made
<1>7. Complete <=> Whole(code, stage, taken)
  <2>1. PICK a: a = translation.attributes
    OBVIOUS
  <2>2. PICK x: x = translation.exports
    OBVIOUS
  <2>3. a \in Seq([const: Int, dest: {s.fetch.dest: s \in Slots}])
        /\ x \in Seq([register: {s.alu.dest: s \in Slots}, source: {s.alu.src: s \in Slots}])
    BY <1>1, <2>1, <2>2 DEF Translations
  <2>4. a = <<>> <=> DOMAIN a = {}
    BY <2>3
  <2>5. (IF stage = "vertex" THEN a # <<>> /\ x # <<>> ELSE x # <<>> /\ x[1].source = 0)
          <=> Whole(code, stage, taken)
    BY <1>1, <1>6, <2>1, <2>2, <2>3, <2>4, CompleteIsWhole
  <2> QED BY <2>1, <2>2, <2>5 DEF Complete
<1>8. SupportedBy(code, spare, stage) <=> Complete
  BY <1>4, <1>5, <1>6, <1>7 DEF SupportedBy
<1>9. /\ code' = code /\ spare' = spare /\ stage' = stage /\ reader' = "over"
      /\ listed' = listed /\ taken' = taken
      /\ translation' = IF Complete THEN translation ELSE Failed
  BY DEF Finish, input
<1>10. translation.success = TRUE /\ Failed.success = FALSE
  BY <1>1 DEF Translations, Failed
<1>11. CASE Complete
  <2>1. Right(code, spare, stage, listed, taken, translation)
    BY <1>1, <1>4, <1>6, <1>8, <1>10, <1>11 DEF Right
  <2> QED BY <1>1, <1>4, <1>9, <1>11, <2>1 DEF TranslateInv
<1>12. CASE ~Complete
  <2>1. Right(code, spare, stage, listed, taken, Failed)
    BY <1>8, <1>10, <1>12 DEF Right
  <2> QED BY <1>1, <1>9, <1>12, <2>1 DEF TranslateInv
<1> QED BY <1>11, <1>12

LEMMA TranslateInvStep == TranslateInv /\ [ShaderNext]_shaderVars => TranslateInv'
<1> SUFFICES ASSUME TranslateInv, [ShaderNext]_shaderVars PROVE TranslateInv'
  OBVIOUS
<1>1. WalkInv'
  BY WalkStep DEF TranslateInv
<1>2. CASE Decode
  BY <1>1, <1>2, DecodingFlow, DecodingInstruction, Starting DEF Decode
<1>3. CASE TranslateFlow \/ TakeFetch \/ TakeAlu
  BY <1>1, <1>3, TakingFlow, TakingFetch, TakingAlu
<1>4. CASE UnsupportedFlow \/ UnsupportedInstruction \/ Finish
  BY <1>1, <1>4, FailingFlow, FailingInstruction, Finishing
<1>5. CASE UNCHANGED shaderVars
  <2>1. /\ code' = code /\ spare' = spare /\ stage' = stage /\ reader' = reader
        /\ pair' = pair /\ which' = which /\ end' = end /\ todo' = todo
        /\ listed' = listed /\ taken' = taken /\ fullFetch' = fullFetch
        /\ translation' = translation
    BY <1>5 DEF shaderVars, input, walk
  <2>2. NoFetch' = NoFetch /\ Fresh' = Fresh /\ Translations' = Translations
    BY DEF NoFetch, Fresh, Failed, Translations
  <2> QED BY <1>1, <2>1, <2>2 DEF TranslateInv
<1> QED BY <1>2, <1>3, <1>4, <1>5 DEF ShaderNext, Translate

LEMMA TranslateAlways == ShaderSpec => []TranslateInv
  BY AtFirst, TranslateInvStep, PTL DEF ShaderSpec

\* The translation succeeds exactly for the programs of the recognized pattern, for
\* microcode of any length made of any slots: the control flow ends where the first EXEC
\* points, nothing unsupported is skipped over and nothing supported is refused.
THEOREM TranslatesExactly == ShaderSpec => []SucceedsExactly
<1>1. TranslateInv => SucceedsExactly
  <2> SUFFICES ASSUME TranslateInv, reader = "over"
               PROVE  translation.success <=> Supported
    BY DEF SucceedsExactly
  <2>1. translation.success <=> SupportedBy(code, spare, stage)
    BY DEF TranslateInv, Right
  <2>2. Supported <=> SupportedBy(code, spare, stage)
    BY DEF Supported, SupportedBy, Instructions, All, AllFit, AllSupported, Fits, InRange,
           DwordCount
  <2> QED BY <2>1, <2>2
<1> QED BY <1>1, TranslateAlways, PTL

\* Of what is translated the disassembler listed the same instructions in the same order,
\* and every fetch has its attribute in its place, with the fetch constant of the last
\* full fetch up to it.
THEOREM TranslatesWhatIsListed == ShaderSpec => []FollowsListing
<1>1. TranslateInv => FollowsListing
  <2> SUFFICES ASSUME TranslateInv, reader = "over", translation.success
               PROVE  /\ taken = listed /\ taken = Instructions
                      /\ Len(translation.attributes)
                           = FetchesUpTo(Instructions, Len(Instructions))
                      /\ \A n \in DOMAIN Instructions:
                            Instructions[n].fetch =>
                               translation.attributes[FetchesUpTo(Instructions, n)].const
                                 = Inherited(code, Instructions, n)
    BY DEF FollowsListing
  <2>1. /\ taken = listed /\ taken = Instructions
        /\ Places(taken, translation.attributes)
        /\ Constants(code, taken, translation.attributes)
        /\ code \in Seq(Slots)
    BY DEF TranslateInv, Right, WalkInv, All, Instructions
  <2>2. taken \in Seq(Items)
    <3>1. Len(code) \in 0..Len(code)
      BY <2>1
    <3> QED BY <2>1, <3>1, InstructionsTyped DEF Instructions
  <2>3. ASSUME NEW n \in DOMAIN taken, taken[n].fetch
        PROVE  translation.attributes[FetchesUpTo(taken, n)].const = Inherited(code, taken, n)
    <3>1. PICK m \in 1..n:
             /\ IsLastFull(code, taken, m, n)
             /\ translation.attributes[FetchesUpTo(taken, n)].const = FetchOf(code, taken, m).const
      BY <2>1, <2>3 DEF Constants
    <3>2. ASSUME NEW j \in 1..n, IsLastFull(code, taken, j, n)
          PROVE  j = m
      <4>1. m \in Nat /\ j \in Nat /\ n \in Nat /\ m <= n /\ j <= n
        BY <2>2
      <4>2. ~(m < j) /\ ~(j < m)
        BY <3>1, <3>2, <4>1 DEF IsLastFull
      <4> QED BY <4>1, <4>2
    <3> DEFINE z == CHOOSE j \in 1..n: IsLastFull(code, taken, j, n)
    <3>3. z = m
      <4>1. z \in 1..n /\ IsLastFull(code, taken, z, n)
        BY <3>1
      <4> HIDE DEF z
      <4> QED BY <3>2, <4>1
    <3>4. Inherited(code, taken, n) = code[taken[z].slot + 1].fetch.const
      BY DEF Inherited
    <3> HIDE DEF z
    <3> QED BY <3>1, <3>3, <3>4 DEF FetchOf
  <2> QED BY <2>1, <2>3 DEF Places
<1> QED BY <1>1, TranslateAlways, PTL

-----------------------------------------------------------------------------
(* ShaderPipeline.                                                         *)

\* Counting keeps to the naturals.
LEMMA NextIsNat == ASSUME NEW n \in Nat PROVE n + 1 \in Nat
  OBVIOUS

\* The renderer type checks and its memory is of programs that have been loaded.
THEOREM TypeCorrect == Spec => []TypeOK
<1>1. Init => TypeOK
  BY ProgramAssumption DEF Init, TypeOK, Selection, Known, Nothing, NeverYet, Stages
<1>2. TypeOK /\ [Next]_vars => TypeOK'
  <2> SUFFICES ASSUME TypeOK, [Next]_vars PROVE TypeOK'
    OBVIOUS
  <2> USE DEF TypeOK, Selection, Known
  <2>1. ASSUME NEW s \in Stages, NEW p \in Programs, LoadImmediate(s, p) PROVE TypeOK'
    <3>1. cache' \in Selection
      BY <2>1 DEF LoadImmediate
    <3>2. UNCHANGED <<step, hash, readAt, result, compiledFor, compiledAt, pipeline>>
      BY <2>1 DEF LoadImmediate, render, compiled
    <3>3. version' \in [Stages -> Nat]
      <4>1. version[s] + 1 \in Nat
        BY NextIsNat
      <4> QED
        BY <2>1, <4>1 DEF LoadImmediate
    <3>4. loaded' \in [Stages -> SUBSET Programs]
      <4>1. loaded[s] \cup {p} \in SUBSET Programs
        OBVIOUS
      <4> QED
        BY <2>1, <4>1 DEF LoadImmediate
    <3>5. ASSUME NEW r \in Stages
          PROVE  loaded[r] \subseteq loaded'[r] /\ cache'[r] \in loaded'[r] \cup {None}
      BY <2>1 DEF LoadImmediate
    <3> QED
      BY <3>1, <3>2, <3>3, <3>4, <3>5
  <2>2. ASSUME NEW s \in Stages, NEW at, NEW next \in {"frame", "pixel hash", "vertex result",
                   "pixel result", "compile"}, ReadHash(s, at, next) PROVE TypeOK'
    <3>1. hash' \in Selection /\ readAt' \in [Stages -> Nat]
          /\ step' \in {"frame", "pixel hash", "vertex result", "pixel result", "compile"}
      BY <2>2 DEF ReadHash
    <3>2. ASSUME NEW r \in Stages PROVE hash'[r] \in {hash[r], cache[r]}
      BY <2>2 DEF ReadHash
    <3>3. UNCHANGED <<cache, loaded, version, result, compiledFor, compiledAt, pipeline>>
      BY <2>2 DEF ReadHash, pump, compiled
    <3> QED
      BY <3>1, <3>2, <3>3
  <2>3. ASSUME NEW s \in Stages, NEW at, NEW next \in {"frame", "pixel hash", "vertex result",
                   "pixel result", "compile"}, ReadResult(s, at, next) PROVE TypeOK'
    <3>1. result' \in Selection /\ step' \in {"frame", "pixel hash", "vertex result",
                                             "pixel result", "compile"}
      BY <2>3 DEF ReadResult
    <3>2. ASSUME NEW r \in Stages PROVE result'[r] \in {result[r], cache[r]}
      BY <2>3 DEF ReadResult
    <3>3. UNCHANGED <<cache, loaded, version, hash, readAt, compiledFor, compiledAt, pipeline>>
      BY <2>3 DEF ReadResult, pump, compiled
    <3> QED
      BY <3>1, <3>2, <3>3
  <2>4. ASSUME ReadCache PROVE TypeOK'
    BY <2>2, <2>3, <2>4 DEF ReadCache, Stages
  <2>5. ASSUME KeepPipeline PROVE TypeOK'
    BY <2>5 DEF KeepPipeline, pump, compiled
  <2>6. ASSUME NewPipeline PROVE TypeOK'
    BY <2>6 DEF NewPipeline, pump
  <2>7. ASSUME UNCHANGED vars PROVE TypeOK'
    BY <2>7 DEF vars, pump, render, compiled
  <2> QED
    BY <2>1, <2>4, <2>5, <2>6, <2>7 DEF Next, TryUpdateRealPipeline
<1> QED
  BY <1>1, <1>2, PTL DEF Spec

-----------------------------------------------------------------------------
(* What a frame in progress has read of a stage. *)

HashRead(s) ==
    \/ step \in {"vertex result", "pixel result", "compile"}
    \/ s = "vertex" /\ step = "pixel hash"

ResultRead(s) == step = "compile" \/ (s = "vertex" /\ step = "pixel result")

\* A version that has been read is not ahead, and the hash of the present version is
\* the stage's; so is what the result is of, for it is read behind the hash.
FrameInv(s) ==
    /\ HashRead(s) => readAt[s] <= version[s]
    /\ HashRead(s) /\ readAt[s] = version[s] => hash[s] = cache[s]
    /\ ResultRead(s) /\ readAt[s] = version[s] => result[s] = cache[s]

\* The same for what the pipeline was made of and what it is remembered for.
CompiledInv(s) ==
    /\ compiledAt[s] <= version[s]
    /\ compiledAt[s] = version[s] => compiledFor[s] = cache[s] /\ pipeline[s] = cache[s]

PipelineInv == TypeOK /\ \A s \in Stages: FrameInv(s) /\ CompiledInv(s)

LEMMA PipelineInit == Init => PipelineInv
<1> SUFFICES ASSUME Init PROVE PipelineInv
  OBVIOUS
<1>1. TypeOK
  BY ProgramAssumption DEF Init, TypeOK, Selection, Known, Nothing, NeverYet, Stages
<1> QED
  BY <1>1 DEF Init, PipelineInv, FrameInv, CompiledInv, HashRead, ResultRead, Nothing, NeverYet

\* A stage that is given another program is one version ahead of all that was read of it.
LEMMA LoadStep ==
    ASSUME PipelineInv, TypeOK', NEW r \in Stages, NEW p \in Programs, LoadImmediate(r, p)
    PROVE  PipelineInv'
<1> SUFFICES ASSUME NEW s \in Stages PROVE (FrameInv(s) /\ CompiledInv(s))'
  BY DEF PipelineInv
<1>1. UNCHANGED <<step, hash, readAt, result, compiledFor, compiledAt, pipeline>>
  BY DEF LoadImmediate, render, compiled
<1>2. /\ readAt[s] \in Nat /\ compiledAt[s] \in Nat /\ version[s] \in Nat
      /\ FrameInv(s) /\ CompiledInv(s)
  BY DEF PipelineInv, TypeOK
<1>3. CASE s = r
  <2>1. version'[s] = version[s] + 1
    BY <1>3 DEF LoadImmediate, PipelineInv, TypeOK
  <2>2. compiledAt[s] <= version[s] /\ (HashRead(s) => readAt[s] <= version[s])
    BY <1>2 DEF FrameInv, CompiledInv
  <2>3. compiledAt'[s] <= version'[s] /\ compiledAt'[s] # version'[s]
    BY <1>1, <1>2, <2>1, <2>2
  <2>4. HashRead(s)' => readAt'[s] <= version'[s] /\ readAt'[s] # version'[s]
    <3>1. HashRead(s)' => HashRead(s)
      BY <1>1 DEF HashRead
    <3>2. readAt'[s] = readAt[s]
      BY <1>1
    <3>3. readAt[s] <= version[s] => readAt[s] <= version[s] + 1 /\ readAt[s] # version[s] + 1
      BY <1>2
    <3> QED
      BY <2>1, <2>2, <3>1, <3>2, <3>3
  <2>5. ResultRead(s)' => HashRead(s)'
    BY DEF HashRead, ResultRead
  <2> QED
    BY <2>3, <2>4, <2>5 DEF FrameInv, CompiledInv
<1>4. CASE s # r
  <2>1. version'[s] = version[s] /\ cache'[s] = cache[s]
    BY <1>4 DEF LoadImmediate, PipelineInv, TypeOK, Selection
  <2> QED
    BY <1>1, <1>2, <2>1 DEF FrameInv, CompiledInv, HashRead, ResultRead
<1> QED
  BY <1>3, <1>4

LEMMA ReadStep ==
    ASSUME PipelineInv, TypeOK', ReadCache
    PROVE  PipelineInv'
<1> SUFFICES ASSUME NEW s \in Stages PROVE (FrameInv(s) /\ CompiledInv(s))'
  BY DEF PipelineInv
<1>1. /\ readAt[s] \in Nat /\ version[s] \in Nat /\ FrameInv(s) /\ CompiledInv(s)
      /\ hash \in Selection /\ result \in Selection /\ readAt \in [Stages -> Nat]
      /\ version \in [Stages -> Nat] /\ s \in {"vertex", "pixel"}
  BY DEF PipelineInv, TypeOK, Stages
<1>2. ASSUME NEW r \in Stages, NEW at, NEW next, ReadHash(r, at, next)
      PROVE  /\ step = at /\ step' = next
             /\ UNCHANGED <<cache, version, result, compiledFor, compiledAt, pipeline>>
             /\ s = r => hash'[s] = cache[s] /\ readAt'[s] = version[s]
             /\ s # r => hash'[s] = hash[s] /\ readAt'[s] = readAt[s]
  BY <1>1, <1>2 DEF ReadHash, pump, compiled, Selection
<1>3. ASSUME NEW r \in Stages, NEW at, NEW next, ReadResult(r, at, next)
      PROVE  /\ step = at /\ step' = next
             /\ UNCHANGED <<cache, version, hash, readAt, compiledFor, compiledAt, pipeline>>
             /\ s = r => result'[s] = cache[s]
             /\ s # r => result'[s] = result[s]
  BY <1>1, <1>3 DEF ReadResult, pump, compiled, Selection
<1>4. "vertex" \in Stages /\ "pixel" \in Stages
  BY DEF Stages
<1>5. CASE ReadHash("vertex", "frame", "pixel hash")
  <2>1. step = "frame" /\ step' = "pixel hash"
    BY <1>5, <1>4, <1>2
  <2>2. CASE s = "vertex"
    <3>1. hash'[s] = cache'[s] /\ readAt'[s] = version'[s] /\ readAt'[s] <= version'[s]
      <4>1. UNCHANGED <<cache, version>> /\ hash'[s] = cache[s] /\ readAt'[s] = version[s]
        BY <1>5, <1>4, <1>2, <2>2
      <4>2. version[s] <= version[s]
        BY <1>1
      <4> QED
        BY <4>1, <4>2
    <3>2. ~ResultRead(s)'
      BY <2>1, <2>2 DEF ResultRead
    <3>3. CompiledInv(s)'
      BY <1>1, <1>5, <1>4, <1>2 DEF CompiledInv
    <3> QED
      BY <3>1, <3>2, <3>3 DEF FrameInv
  <2>3. CASE s # "vertex"
    BY <1>1, <1>5, <1>4, <1>2, <2>1, <2>3 DEF FrameInv, CompiledInv, HashRead, ResultRead
  <2> QED
    BY <2>2, <2>3
<1>6. CASE ReadHash("pixel", "pixel hash", "vertex result")
  <2>1. step = "pixel hash" /\ step' = "vertex result"
    BY <1>6, <1>4, <1>2
  <2>2. CASE s = "pixel"
    <3>1. hash'[s] = cache'[s] /\ readAt'[s] = version'[s] /\ readAt'[s] <= version'[s]
      <4>1. UNCHANGED <<cache, version>> /\ hash'[s] = cache[s] /\ readAt'[s] = version[s]
        BY <1>6, <1>4, <1>2, <2>2
      <4>2. version[s] <= version[s]
        BY <1>1
      <4> QED
        BY <4>1, <4>2
    <3>2. ~ResultRead(s)'
      BY <2>1, <2>2 DEF ResultRead
    <3>3. CompiledInv(s)'
      BY <1>1, <1>6, <1>4, <1>2 DEF CompiledInv
    <3> QED
      BY <3>1, <3>2, <3>3 DEF FrameInv
  <2>3. CASE s # "pixel"
    BY <1>1, <1>6, <1>4, <1>2, <2>1, <2>3 DEF FrameInv, CompiledInv, HashRead, ResultRead
  <2> QED
    BY <2>2, <2>3
<1>7. CASE ReadResult("vertex", "vertex result", "pixel result")
  <2>1. step = "vertex result" /\ step' = "pixel result"
    BY <1>7, <1>4, <1>3
  <2>2. CASE s = "vertex"
    BY <1>1, <1>7, <1>4, <1>3, <2>1, <2>2 DEF FrameInv, CompiledInv, HashRead, ResultRead
  <2>3. CASE s # "vertex"
    BY <1>1, <1>7, <1>4, <1>3, <2>1, <2>3 DEF FrameInv, CompiledInv, HashRead, ResultRead
  <2> QED
    BY <2>2, <2>3
<1>8. CASE ReadResult("pixel", "pixel result", "compile")
  <2>1. step = "pixel result" /\ step' = "compile"
    BY <1>8, <1>4, <1>3
  <2>2. CASE s = "pixel"
    BY <1>1, <1>8, <1>4, <1>3, <2>1, <2>2 DEF FrameInv, CompiledInv, HashRead, ResultRead
  <2>3. CASE s # "pixel"
    BY <1>1, <1>8, <1>4, <1>3, <2>1, <2>3 DEF FrameInv, CompiledInv, HashRead, ResultRead
  <2> QED
    BY <2>2, <2>3
<1> QED
  BY <1>5, <1>6, <1>7, <1>8 DEF ReadCache

LEMMA DecideStep ==
    ASSUME PipelineInv, TypeOK', KeepPipeline \/ NewPipeline
    PROVE  PipelineInv'
<1> SUFFICES ASSUME NEW s \in Stages PROVE (FrameInv(s) /\ CompiledInv(s))'
  BY DEF PipelineInv
<1> USE DEF PipelineInv, FrameInv, CompiledInv, HashRead, ResultRead
<1>1. CASE KeepPipeline
  BY <1>1 DEF KeepPipeline, pump, compiled
<1>2. CASE NewPipeline
  <2>1. /\ step = "compile" /\ step' = "frame" /\ pipeline' = result
        /\ compiledFor' = hash /\ compiledAt' = readAt
        /\ UNCHANGED <<cache, version>>
    BY <1>2 DEF NewPipeline, pump
  <2> QED
    BY <2>1
<1> QED
  BY <1>1, <1>2

LEMMA PipelineStep ==
    ASSUME PipelineInv, [Next]_vars, TypeOK'
    PROVE  PipelineInv'
<1>1. ASSUME NEW s \in Stages, NEW p \in Programs, LoadImmediate(s, p) PROVE PipelineInv'
  BY <1>1, LoadStep
<1>2. ASSUME UNCHANGED vars PROVE PipelineInv'
  BY <1>2 DEF vars, pump, render, compiled, PipelineInv, TypeOK, FrameInv, CompiledInv, HashRead,
              ResultRead
<1> QED
  BY <1>1, <1>2, ReadStep, DecideStep DEF Next, TryUpdateRealPipeline

LEMMA PipelineAlways == Spec => []PipelineInv
<1>1. PipelineInv /\ TypeOK' /\ [Next]_vars => PipelineInv'
  BY PipelineStep
<1> QED
  BY <1>1, PipelineInit, TypeCorrect, PTL DEF Spec

\* A pipeline of other programs than it is remembered for is remembered for a program that
\* its stage has moved on from since: for any programs, loaded in any order and however
\* often, between any two reads of any frame.
THEOREM TornPipelinesArePast == Spec => []TornHasMovedOn
<1>1. PipelineInv => TornHasMovedOn
  BY DEF PipelineInv, CompiledInv, TornHasMovedOn
<1> QED
  BY <1>1, PipelineAlways, PTL

-----------------------------------------------------------------------------
(* The two side by side.                                                   *)

\* What is proved of each half holds of the two together: a step of the one is none of the
\* other.
THEOREM HalvesKeepToTheirSpecs == LoadingSpec => Spec /\ ShaderSpec
<1>1. LoadingInit => Init /\ ShaderInit
  BY DEF LoadingInit
<1>2. [Translates \/ Loads \/ Renders]_loadingVars => [Next]_vars /\ [ShaderNext]_shaderVars
  BY DEF Translates, Loads, Renders, loadingVars, Next
<1> QED BY <1>1, <1>2, PTL DEF LoadingSpec, Spec, ShaderSpec
=============================================================================

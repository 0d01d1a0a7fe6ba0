--------------------------- MODULE ShaderPipeline ---------------------------
(***************************************************************************)
(* How the guest's shaders reach the screen.  The pump thread translates   *)
(* the microcode of an IM_LOAD_IMMEDIATE packet and puts hash and result   *)
(* of its stage into the ShaderTranslationCache (host/shader_translate.cpp *)
(* and host/gpu_trace.cpp).  Once per frame the render thread reads the    *)
(* two hashes, then the two results, each under a lock of its own, and     *)
(* compiles a pipeline when the pair of hashes is not the one it compiled  *)
(* last (TryUpdateRealPipeline of host/renderer_metal.mm).                 *)
(*                                                                         *)
(* A program stands for its microcode and for the hash of it: collisions   *)
(* of the 32-bit hash are left out.  Translation and compilation are       *)
(* functions of the programs, given by the sets of those that succeed.     *)
(***************************************************************************)
EXTENDS Naturals

CONSTANTS
    Programs,       \* shader programs of the guest, for either stage
    Translatable,   \* those TranslateShader succeeds for
    Rejected,       \* pairs <<vertex, pixel>> the Metal compiler refuses
    None,           \* no program: a hash of 0, a default TranslationResult
    MaxLoads        \* bound: changes of program in a run

Stages == {"vertex", "pixel"}

ASSUME ProgramAssumption ==
    /\ None \notin Programs /\ Translatable \subseteq Programs
    /\ MaxLoads \in Nat

VARIABLES
    cache,        \* vertexHash_, pixelHash_ and the results they came with
    loaded,       \* history: the programs each stage has had
    version,      \* history: how many times the program of each stage has changed
    readAt,       \* history: the version at which vsHash and psHash were read
    compiledAt,   \* history: the versions of the hashes in compiledFor
    step,         \* what TryUpdateRealPipeline does next, "frame" between two calls
    hash,         \* vsHash, psHash
    result,       \* vs, ps: the programs they are the translations of
    compiledFor,  \* g_lastCompiledRealShaderHashPair
    pipeline      \* g_drawPipelineState: the programs in it, None in the placeholder

pump == <<cache, loaded, version>>
compiled == <<compiledFor, compiledAt, pipeline>>
render == <<step, hash, readAt, result, compiled>>
vars == <<pump, render>>

Nothing == [s \in Stages |-> None]
NeverYet == [s \in Stages |-> 0]

-----------------------------------------------------------------------------
(* The pump. *)

\* The microcode hash differs from the cached one: translate, and store both, whether
\* or not the translation succeeded, and whatever programs the stage had before.  Only
\* the pump writes the cache, so nothing can come between the comparison and the update.
LoadImmediate(s, p) ==
    /\ p # cache[s] /\ version["vertex"] + version["pixel"] < MaxLoads
    /\ cache' = [cache EXCEPT ![s] = p]
    /\ loaded' = [loaded EXCEPT ![s] = @ \cup {p}]
    /\ version' = [version EXCEPT ![s] = @ + 1]
    /\ UNCHANGED render

-----------------------------------------------------------------------------
(* TryUpdateRealPipeline. *)

ReadHash(s, at, next) ==
    /\ step = at
    /\ hash' = [hash EXCEPT ![s] = cache[s]]
    /\ readAt' = [readAt EXCEPT ![s] = version[s]]
    /\ step' = next
    /\ UNCHANGED <<pump, result, compiled>>

ReadResult(s, at, next) ==
    /\ step = at
    /\ result' = [result EXCEPT ![s] = cache[s]]
    /\ step' = next
    /\ UNCHANGED <<pump, hash, readAt, compiled>>

\* Variant: the results are read before the hashes.
BugResultsFirst ==
    \/ ReadResult("vertex", "frame", "pixel hash")
    \/ ReadResult("pixel", "pixel hash", "vertex result")
    \/ ReadHash("vertex", "vertex result", "pixel result")
    \/ ReadHash("pixel", "pixel result", "compile")

ReadCache ==
    \/ ReadHash("vertex", "frame", "pixel hash")
    \/ ReadHash("pixel", "pixel hash", "vertex result")
    \/ ReadResult("vertex", "vertex result", "pixel result")
    \/ ReadResult("pixel", "pixel result", "compile")

Translated == \A s \in Stages: result[s] \in Translatable
Accepted(p) == <<p["vertex"], p["pixel"]>> \notin Rejected

\* Variant: only the vertex shader's hash is compared.
BugComparesVertex == Translated /\ hash["vertex"] = compiledFor["vertex"]

AlreadyCompiled == Translated /\ hash = compiledFor

\* One of the three returns that keep the pipeline.
KeepPipeline ==
    /\ step = "compile"
    /\ ~Translated \/ AlreadyCompiled \/ ~Accepted(result)
    /\ step' = "frame"
    /\ UNCHANGED <<pump, hash, readAt, result, compiled>>

NewPipeline ==
    /\ step = "compile"
    /\ Translated /\ ~AlreadyCompiled /\ Accepted(result)
    /\ pipeline' = result
    /\ compiledFor' = hash /\ compiledAt' = readAt
    /\ step' = "frame"
    /\ UNCHANGED <<pump, hash, readAt, result>>

TryUpdateRealPipeline == ReadCache \/ KeepPipeline \/ NewPipeline

-----------------------------------------------------------------------------
Init ==
    /\ cache = Nothing /\ loaded = [s \in Stages |-> {}] /\ version = NeverYet
    /\ step = "frame" /\ hash = Nothing /\ readAt = NeverYet /\ result = Nothing
    /\ compiledFor = Nothing /\ compiledAt = NeverYet /\ pipeline = Nothing

Next ==
    \/ \E s \in Stages, p \in Programs: LoadImmediate(s, p)
    \/ TryUpdateRealPipeline

Spec == Init /\ [][Next]_vars

\* Frames go on being drawn; the guest may stop loading shaders at any time.
FairSpec == Spec /\ WF_vars(TryUpdateRealPipeline)

-----------------------------------------------------------------------------
Selection == [Stages -> Programs \cup {None}]

\* A selection of programs that the stages have really had.
Known(f) == \A s \in Stages: f[s] \in loaded[s] \cup {None}

TypeOK ==
    /\ cache \in Selection /\ loaded \in [Stages -> SUBSET Programs]
    /\ version \in [Stages -> Nat] /\ readAt \in [Stages -> Nat] /\ compiledAt \in [Stages -> Nat]
    /\ step \in {"frame", "pixel hash", "vertex result", "pixel result", "compile"}
    /\ hash \in Selection /\ result \in Selection
    /\ compiledFor \in Selection /\ pipeline \in Selection
    /\ Known(cache) /\ Known(hash) /\ Known(result) /\ Known(compiledFor)

\* While a stage has not changed since the hash that the renderer remembers of it was
\* read, the pipeline is made of this program and it is the stage's, whatever was loaded
\* between the reads of hashes and results: a torn pipeline is remembered for a program
\* that its stage has moved on from.  The code compares hashes, not versions, and a stage
\* may come back to a hash: what follows from that is KeptForThisPair.
TornHasMovedOn ==
    \A s \in Stages:
        version[s] = compiledAt[s] => pipeline[s] = compiledFor[s] /\ compiledFor[s] = cache[s]

\* The renderer keeps its pipeline for being "already compiled this exact pair" only
\* if it is the pipeline of the pair it has just read.
KeptForThisPair == step = "compile" /\ AlreadyCompiled => pipeline = hash

Is(f, v, p) == f["vertex"] = v /\ f["pixel"] = p

\* When the guest goes on with one pair of programs that can be shown, that pair is shown
\* from some frame on, although frames have compiled torn pairs and been refused others
\* meanwhile.  The one exception is what violates KeptForThisPair: the renderer remembers
\* the pair by hashes it had read before the pair was loaded this time.
Settles ==
    \A v, p \in Translatable:
        <<v, p>> \notin Rejected =>
            (<>[]Is(cache, v, p) =>
             <>[](Is(pipeline, v, p) \/ (Is(compiledFor, v, p) /\ compiledAt # version)))
=============================================================================

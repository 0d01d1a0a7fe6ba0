--------------------------- MODULE ShaderLoading ---------------------------
(***************************************************************************)
(* The two halves of the shader path side by side: one program read by the *)
(* pump (ShaderTranslate), and the hand-over of what it makes of programs  *)
(* to the renderer (ShaderPipeline).  The pump touches the cache when a    *)
(* translation is over and keeps nothing of it, so that no step of one     *)
(* half can meet a step of the other but through the cache: a behaviour    *)
(* follows the one half or the other.                                      *)
(***************************************************************************)
EXTENDS ShaderPipeline, ShaderTranslate

VARIABLE half

loadingVars == <<vars, shaderVars, half>>

LoadingInit ==
    /\ Init /\ ShaderInit
    /\ half \in {"translation", "pipeline"}
    /\ half = "pipeline" => code = <<>> /\ spare = 0 /\ stage = "vertex"

Translates == half = "translation" /\ ShaderNext /\ UNCHANGED <<vars, half>>
Loads ==
    /\ half = "pipeline"
    /\ \E s \in Stages, p \in Programs: LoadImmediate(s, p)
    /\ UNCHANGED <<shaderVars, half>>
Renders == half = "pipeline" /\ TryUpdateRealPipeline /\ UNCHANGED <<shaderVars, half>>

LoadingSpec ==
    LoadingInit /\ [][Translates \/ Loads \/ Renders]_loadingVars /\ WF_loadingVars(Renders)
=============================================================================

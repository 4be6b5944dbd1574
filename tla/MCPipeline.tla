----------------------------- MODULE MCPipeline -----------------------------
(***************************************************************************)
(* Model checking of the pipeline on small instances: see the cfg files.   *)
(***************************************************************************)
EXTENDS PipelineOrder

=============================================================================

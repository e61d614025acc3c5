---------------------------- MODULE MCGenerationRuns ---------------------------
(***************************************************************************)
(* Instances of GenerationRuns: two chunks, so that one can fail while the *)
(* other yields an atom; a worker for the creation and one for a retry.    *)
(***************************************************************************)
EXTENDS GenerationRuns

=============================================================================

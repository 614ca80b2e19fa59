------------------------- MODULE MCDocumentPipeline -------------------------
(***************************************************************************)
(* Small instances of DocumentPipeline: identities are model values and    *)
(* may be permuted in the runs that check no liveness.                     *)
(***************************************************************************)
EXTENDS DocumentPipelineRefinement, TLC

Symmetry == Permutations(Docs) \cup Permutations(Reviews)
                \cup Permutations(Sessions) \cup Permutations(Workers)
=============================================================================

------------------------ MODULE MCDocumentPipeline ------------------------
(* Instances of DocumentPipeline for TLC. *)
EXTENDS DocumentPipeline, TLC

RunSymmetry == Permutations(Runs)
=============================================================================

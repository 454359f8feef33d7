------------------------- MODULE MCBatchProcessor -------------------------
(* Instances of BatchProcessor for TLC. *)
EXTENDS BatchProcessor, TLC

CONSTANTS BackgroundRuns

\* A run for every task, and the runs of background tasks.
MCRuns == (Batches \X Docs) \cup BackgroundRuns

Symmetry == Permutations(Docs) \cup Permutations(Batches)
=============================================================================

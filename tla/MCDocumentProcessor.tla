------------------------ MODULE MCDocumentProcessor -----------------------
(* Instances of DocumentProcessor for TLC. *)
EXTENDS DocumentProcessor

CONSTANTS BackgroundRuns

\* A run for every task of a batch, and the runs of background tasks.
MCRuns == (Batches \X Docs) \cup BackgroundRuns

=============================================================================

SPECIFICATION ProcessorSpec
CONSTANTS
  Registered = {"invoice"}
  Docs = {d1, d2}
  Batches = {b1, b2}
  BackgroundRuns = {}
  Runs <- MCRuns
  NoDoc = NoDoc
  NoBatch = NoBatch
  Cap = 1
CHECK_DEADLOCK FALSE
SYMMETRY Symmetry
INVARIANTS
  BatchTypeOK
  BatchConcurrencyBounded
  CountsMatchDocuments
  FinalStatusIsHonest
  CountsAddUp
  ClosedBatchIsQuiet
PROPERTY BatchStatusMovesForward

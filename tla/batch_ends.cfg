SPECIFICATION FairProcessorSpec
CONSTANTS
  Registered = {"invoice"}
  Docs = {d1, d2}
  Batches = {b1}
  BackgroundRuns = {g1}
  Runs <- MCRuns
  NoDoc = NoDoc
  NoBatch = NoBatch
  Cap = 1
CHECK_DEADLOCK FALSE
PROPERTIES
  EveryBatchEnds
  EveryTaskEnds

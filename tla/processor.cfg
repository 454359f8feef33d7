SPECIFICATION FairSpec
CONSTANTS
  Registered = {"invoice"}
  Docs = {d1}
  Batches = {b1}
  BackgroundRuns = {g1, g2}
  Runs <- MCRuns
  NoDoc = NoDoc
  NoBatch = NoBatch
  Cap = 1
CHECK_DEADLOCK FALSE
INVARIANTS
  ApiTypeOK
  WorkIsOnStoredDocuments
  InProgressIsExplained
  UploadedMeansUntouched
PROPERTY AcceptedTasksEnd

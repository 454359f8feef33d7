SPECIFICATION FairSpec
CONSTANTS
  Registered = {"invoice", "contract"}
  Docs = {d1}
  Runs = {r1, r2}
  NoDoc = NoDoc
  NoData = NoData
  Payloads = {p1, p2}
  MaxAttempts = 3
CHECK_DEADLOCK FALSE
INVARIANTS
  TypeOK
  StatusBackedByAudit
  SettledRowsAreWhole
  SessionsAreCurrent
  DataMatchesType
  AuditTellsOutcome
  GivesUpAfterMaxAttempts
  ReturnedRunsLeaveSettled
  ErrorsAreKept
PROPERTIES
  StatusFollowsLifecycle
  EveryRunEnds
  ImplementsLifecycle

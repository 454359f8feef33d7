SPECIFICATION FairSpec
CONSTANTS
  Batches = {b1, b2}
  Documents = {d1}
  Background = {g1}
  Requests = {q1}
  Cap = 1
  Capacity = 2
  MoreStages = 1
CHECK_DEADLOCK FALSE
INVARIANTS
  PoolTypeOK
  NoConnectionIsLost
  StagesBoundedByPool
  SomebodyCanGoOn
PROPERTIES
  EveryStepIsProgress
  EveryUserEnds
  EveryRequestEnds

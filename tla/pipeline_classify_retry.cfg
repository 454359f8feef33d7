SPECIFICATION Spec
CONSTANTS
  Registered = {"invoice", "contract"}
  Docs = {d1}
  Runs = {r1, r2}
  NoDoc = NoDoc
  NoData = NoData
  Payloads = {p1}
  MaxAttempts = 3
CHECK_DEADLOCK FALSE
SYMMETRY RunSymmetry
INVARIANT TransientErrorsAreRetried

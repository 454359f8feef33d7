SPECIFICATION Spec
CONSTANTS
  Registered = {"invoice", "support_ticket", "contract"}
  Files <- MCFiles
  Chars <- MCChars
  Scalars <- MCScalars
  Money <- MCMoney
  MaxDepth = 2
  HeadRoom = 4
  ClassifyLimit = 8
  ExtractLimit = 12
  StoredLimit = 16
  MaxName = 4
  MaxAmounts = 3
  MaxItems = 2
CHECK_DEADLOCK FALSE
INVARIANTS
  ContentTypeOK
  OnlyDotDotCannotBeStored
  LeavesAreTold
  OwnPromptOwnShape
  ReadyHasOwnShape
  OwnShapeIsAccepted
  InventedOnlyWhenDeclared

SPECIFICATION FairSpec
CONSTANTS
  Request <- SessionsRequest
  Client <- SessionsClient
  Session <- MCSession
  None = None
  On <- SessionsOn
  Joins <- SessionsJoins
  Stage = {"ripup"}
  Bad = {"edit"}
  Cmds <- SessionsCmds
INVARIANTS CaptureIsExclusive NoTornRead
PROPERTIES EveryRequestAnswered
CHECK_DEADLOCK FALSE

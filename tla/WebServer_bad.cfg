SPECIFICATION FairSpec
CONSTANTS
  Request <- BadRequest
  Client <- SessionsClient
  Session <- MCSession
  None = None
  On <- BadOn
  Joins <- SessionsJoins
  Stage = {"ripup"}
  Bad = {"edit"}
  Cmds <- BadCmds
INVARIANTS NoTornRead
CHECK_DEADLOCK FALSE

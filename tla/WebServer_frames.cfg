SPECIFICATION FairSpec
CONSTANTS
  Request <- FramesRequest
  Client <- FramesClient
  Session <- MCSession
  None = None
  On <- FramesOn
  Joins <- FramesJoins
  Stage = {"ripup", "nuts"}
  Bad = {}
  Cmds <- FramesCmds
INVARIANTS FramesInOrder DoneReachesClients
CHECK_DEADLOCK FALSE

SPECIFICATION Spec
CONSTANTS
  None = None
  Bundle <- MCBundle
  Pool <- MCPool
  Locked <- MCLocked
  Batch <- MCBatch
  Layers <- MCLayers
  Overlaps <- MCOverlaps
  Slack <- MCSlack
  Parties <- MCParties
  Splits <- MCSplits
  MaxIter = 2
  NegIter = 1
  TopN = 1
PROPERTIES MoveIsMade

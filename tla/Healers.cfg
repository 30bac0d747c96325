SPECIFICATION FairSpec
CONSTANTS
  None = None
  Bundle <- MCBundle
  Pool <- MCPool
  Locked <- MCLocked
  Batch <- MCBatch
  Layers <- MCLayers
  Overlaps <- MCOverlaps
  Slack <- MCSlack
  Parties <- MCParties
  Splits <- MCSplits
  MaxIter = 2
  NegIter = 1
  TopN = 1
INVARIANTS TrialsLeaveNoTrace CheckpointIsLive InjectedNeverLeaks
PROPERTIES IterationsEndWhole StoredAtRest MovesLowerTheMetric StopIsCertified HealersReturn

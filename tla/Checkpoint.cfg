SPECIFICATION Spec
CONSTANTS
  n1 = n1
  i1 = i1
  i2 = i2
  t1 = t1
  t2 = t2
  l1 = l1
  l2 = l2
  None = None
  NoLayer = NoLayer
  Normal <- MCNormal
  Instance <- MCInstance
  Topo <- MCTopo
  Layer <- MCLayer
  Outcome <- MCOutcome
  MaxCommands = 9
  MaxFaults = 1
  MaxRestarts = 1
INVARIANTS TypeOK SnapshotDescribesTheRows MemoIsTrue DetailedOverPlaced
PROPERTIES WritesWholeSaves
CHECK_DEADLOCK FALSE

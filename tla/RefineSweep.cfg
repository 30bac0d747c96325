CONSTANTS
  w1 = w1
  w2 = w2
  none = none
  None = none
  Worker = {w1, w2}
  NThreads = 2
  N <- MCN
  Session <- MCSession
  Start <- MCStart
  Eligible <- MCEligible
  Alternates <- MCAlternates
  Screened <- MCScreened
  Accepts <- MCAccepts
  Moved <- MCMoved
  TopN = 2
  MaxMoves = 3
  ChunkMin = 3
  ChunkMax = 6
SPECIFICATION FairSpec
INVARIANTS SweepIsComplete OutcomesAreFresh
PROPERTIES MatchesSequential RefineEnds
CHECK_DEADLOCK FALSE

SPECIFICATION FairSpec
CONSTANTS
  Bundle <- MCBundle
  Band <- MCBand
  Budget <- MCBudget
  Plan <- MCPlan
  None = None
  Upto <- MCUpto
  Sees <- MCSees
  Cap <- MCCap
  InWindow <- MCInWindow
  Pool <- MCPool
  Pin <- MCPin
  Reserve <- MCReserve
  Locked <- MCLocked
  Priority <- MCPriority
  Width <- MCWidth
  Passes = 2
INVARIANTS BooksBalance BooksAreDelivered HardDemandFits
PROPERTIES StrictLeavesRoom MovesAreSound RunEnds

SPECIFICATION FairSpec
CONSTANTS
  Bundle <- MCBundle
  Band <- MCBand
  Budget <- MCBudget
  Plan <- MCPlan
  None = None
  Upto <- MCUpto
  Sees <- MCSees
  Cap <- MCCap
  InWindow <- MCInWindow
  Pool <- MCPool
  Group <- MCGroup
  Locked <- MCLocked
  StartRoute <- MCStartRoute
  StartPinned <- MCStartPinned
  Target <- MCTarget
  Prices <- MCPrices
INVARIANTS BooksMatchTheRecord
PROPERTIES KeepsTheContract CallsReturn

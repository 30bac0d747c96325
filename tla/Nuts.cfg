SPECIFICATION Spec
CONSTANTS
  None = None
  Extent = 4
  Seg <- MCSeg
  Bundle <- MCBundle
  Layer <- MCLayer
  Order <- MCOrder
  Lead <- MCLead
  Window <- MCWindow
  Nominal <- MCNominal
  Junction <- MCJunction
  Faces <- MCFaces
  Jog = {3}
  Pull <- MCPull
  Aligned = {{6, 7}}
  Crossing <- MCCrossing
INVARIANTS
  JunctionsAreReached
  NeverWorse
PROPERTIES
  ScopedSettleIsExact
  AnchorsStayCovered

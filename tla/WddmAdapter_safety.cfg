\* A table of one, two allocations that cannot both be local, four blocks.
\* OneKind: not contexts and allocations at once.
SPECIFICATION Spec
CONSTANTS
  None = None
  Ctx = {c1}
  Slots = 1
  Alloc = {a1, a2}
  Sizes = {0}
  Vram = 1
  Page = {p1, p2, p3, p4}
  Bar5 = 5
  MaxFbBytes = 190
  Wrap = 64
  Modes <- MCModes
  SafeMode <- MCSafeMode
  Displays <- MCDisplays
  Lists <- MCLists
  Rects <- MCRects
  GfxFails = {"fence", "handshake"}
INVARIANTS
  RingsOwned
  StoppedHoldsNothing
  VramAccounted
  MmioIsBar5
  ModeSetsRight
  FbWritesInside
CONSTRAINT OneKind
SYMMETRY Symmetry

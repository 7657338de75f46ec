SPECIFICATION FairSpec
CONSTANTS
  Size = 3
  MaxEntries = 5
INVARIANTS
  OnceInOrder
  WritesHitRing
PROPERTIES
  LineDrops

SPECIFICATION Spec
CONSTANTS
  Sectors = 3
  PerSector = 2
  BlockSectors = 2
  Batch = 2
  QueueLen = 2
  Overtakes = 1
  MarginTarget = 3
  MaxSeq = 7
  MaxListed = 2
  Watched = {2}
INVARIANTS MarginIsErased OldestFirst
PROPERTIES KeepsLog EverythingIsFlushed

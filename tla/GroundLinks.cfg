SPECIFICATION Spec
CONSTANTS
  TxQueueLen = 2
  BleQueueLen = 2
INVARIANTS NewestFrameTaken StreamBack
PROPERTIES Reachable

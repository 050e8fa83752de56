SPECIFICATION Spec
CONSTANTS
  Script <- MCScript
  Sends <- MCSends
  Record = 2
  BioSize = 2
  BufSize = 1
  PeerSends = 2
INVARIANTS OneTransfer InOrder
PROPERTY OperationsComplete
CHECK_DEADLOCK FALSE

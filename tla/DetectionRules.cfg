\* One, two or three loans in a transaction, two scans of it.
CONSTANTS
  None = None
  Official <- MCOfficial
  TokenOf <- MCTokenOf
  Txs <- MCTxs
  MaxScans = 2
  MaxErrors = 1
SPECIFICATION Spec
CHECK_DEADLOCK FALSE
INVARIANTS
  TypeOK
  VerdictIsRight
  StrictIsBacked
  VerdictCoherent
  LegsAsExtracted
  EventsCovered
  NodeAskedOnce
PROPERTIES
  TraceOnlyLowers

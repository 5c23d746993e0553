\* Every transaction of one loan with up to two token calls in its callback,
\* and some longer ones; three of them are scanned twice while they are shown:
\* for the same loan, for one loan more, and for a loan of another protocol
\* under the ordinal of the first.
CONSTANTS
  None = None
  NoAddress = ""
  ZeroAddress = "zero"
  DebtAssets = {"D"}
  MaxCalls = 2
  Txs <- MCTxs
  MaxQueries = 1
  MaxFailures = 1
SPECIFICATION Spec
CHECK_DEADLOCK FALSE
INVARIANTS
  TypeOK
  PageHoldsTogether
  EvidenceIsTheCallback
  FlowsInCallOrder
  LanesTellTheLoan
  ExecutionReached
  TransfersDrawnOnce

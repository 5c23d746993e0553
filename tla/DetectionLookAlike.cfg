\* An Aave loan with debt around a loan of the same receiver without.
CONSTANTS
  None = None
  Official <- MCOfficial
  TokenOf <- MCTokenOf
  Txs <- MCTxs
  MaxScans = 2
  MaxErrors = 1
SPECIFICATION Spec
CHECK_DEADLOCK FALSE
INVARIANT DebtIsNeverStrict

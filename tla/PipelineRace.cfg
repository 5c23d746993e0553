\* Aave and Balancer aggregate one transaction.
CONSTANTS
  aave = aave
  balancer = balancer
  job = job
  service = service
  t1 = t1
  t2 = t2
  t3 = t3
  None = None
  Runners = {job, service}
  Protocols <- MCProtocols
  Txs = {t1, t2, t3}
  Ordinals = {0, 1}
  Legless <- MCLegless
  Rejected <- NoneRejected
  Judge <- MCJudge
  ProtocolOf <- EachItsOwn
  Detects <- Shared
  SkipFetch = {}
  MaxRuns = 1
  MaxFailures = 0
SPECIFICATION Spec
CHECK_DEADLOCK FALSE
INVARIANTS
  SummariesSettle

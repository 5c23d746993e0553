\* Disjoint transactions: each scan ends as if it ran alone.
CONSTANTS
  aave = aave
  balancer = balancer
  job = job
  service = service
  t1 = t1
  t2 = t2
  t3 = t3
  None = None
  Runners = {job, service}
  Protocols <- MCProtocols
  Txs = {t1, t2, t3}
  Ordinals = {0, 1}
  Legless <- MCLegless
  Rejected <- MCRejected
  Judge <- MCJudge
  ProtocolOf <- EachItsOwn
  Detects <- Apart
  SkipFetch = {service}
  MaxRuns = 2
  MaxFailures = 2
SPECIFICATION Spec
CHECK_DEADLOCK FALSE
INVARIANTS
  TypeOK
  InteractionsRecordedSeparately
  VerdictsEarned
  SummaryFollowsRows
  FindingsComplete
  NothingInvented

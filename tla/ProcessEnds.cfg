\* Two processes, one after the other, of one failed call each.
CONSTANTS
  Protocols = {"aave_v3", "uniswap_v2"}
  Config <- MCConfig
  Others <- MCOthers
  None = None
  MaxAttempts = 2
  MaxJobs = 2
  MaxFaults = 1
  MaxBoots = 2
SPECIFICATION FairSpec
CHECK_DEADLOCK FALSE
INVARIANTS
  TypeOK
  StatusTellsTheRun
  ClosedInTurn
  RegistryCovers
PROPERTY EndsWhenAsked

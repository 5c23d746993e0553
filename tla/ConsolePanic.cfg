\* The page starts a second job as soon as it sees the end of the first.
CONSTANTS
  Pages = {a}
  MayLeave = {}
  MayRepeat = {a}
  Protocols = {p}
  None = None
  MaxJobs = 2
  MaxFindings <- FirstFinds
  Buffer = 20
SPECIFICATION FairSpec
CHECK_DEADLOCK FALSE
PROPERTIES
  JobsEnd

\* A job of each page, no buffer overflows, the pages stay open.
CONSTANTS
  Pages = {a, b}
  MayLeave = {}
  MayRepeat = {}
  Protocols = {p}
  None = None
  MaxJobs = 2
  MaxFindings <- FirstFinds
  Buffer = 20
SPECIFICATION FairSpec
CHECK_DEADLOCK FALSE
PROPERTIES
  JobsEnd
  PageShowsEnd

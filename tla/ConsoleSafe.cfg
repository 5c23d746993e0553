\* Two pages, one of which may be closed, and two jobs.
CONSTANTS
  Pages = {a, b}
  MayLeave = {a}
  MayRepeat = {a, b}
  Protocols = {p}
  None = None
  MaxJobs = 2
  MaxFindings <- FirstFinds
  Buffer = 1
SPECIFICATION Spec
CHECK_DEADLOCK FALSE
INVARIANTS
  TypeOK
  OneActiveJob
  EndAccountedFor

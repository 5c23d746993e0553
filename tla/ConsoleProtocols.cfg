\* One job, two protocols, no buffer overflows.
CONSTANTS
  Pages = {a}
  MayLeave = {}
  MayRepeat = {}
  Protocols = {p, q}
  None = None
  MaxJobs = 1
  MaxFindings <- NoFindings
  Buffer = 40
SPECIFICATION Spec
CHECK_DEADLOCK FALSE
INVARIANTS
  PageShowsJob
PROPERTIES
  TerminalIsFinal
SYMMETRY ProtocolSymmetry

\* A chain of seven blocks, batches of two, a node one block behind, an
\* indexer that keeps up with the chain or is one block late, and uint64 just
\* wide enough for MaxHead + BatchSize.
CONSTANTS
  MaxHead = 6
  BatchSize = 2
  WordSize = 8
  NodeLag = 1
  IndexLags = {0, 1}
  MaxFailures = 2
  NoCursor = NoCursor
SPECIFICATION FairSpec
INVARIANTS
  TypeOK
  NoSkippedBlock
  ReworkBounded
  CursorBehindHead
PROPERTIES
  KeepsPromise
  CursorForward
  CatchesUp

-------------------------------- MODULE RunLoop --------------------------------
(***************************************************************************)
(* ProtocolRunner.RunLoop (scanner/orchestrator/protocol_runner.go): the   *)
(* loop that asks the node for the latest block, reads the scanner_cursors *)
(* row, scans the next batch with RunOnce and saves the row.  Any call may *)
(* fail; the error leaves the loop, the service asks the application to    *)
(* shut down, and a supervisor may start the program again.  A crash or a  *)
(* cancelled context ends the loop at any point too.  The row is the only  *)
(* state that survives.                                                    *)
(*                                                                         *)
(* Outside the program: the chain (head), the node that answers            *)
(* eth_blockNumber, possibly behind the head, and the indexer that fills   *)
(* contract_events before the scanner reads it.                            *)
(***************************************************************************)
EXTENDS Naturals

CONSTANTS
  MaxHead,        \* the chain grows to this block (bound of the model)
  BatchSize,      \* scanner.batch_size
  WordSize,       \* 2^64 in the program: uint64 arithmetic wraps here
  NodeLag,        \* how far behind the head eth_blockNumber may answer
  IndexLags,      \* how many mined blocks contract_events may be missing:
                  \* a set, of which a deployment has one
  MaxFailures,    \* how many errors, crashes and stops a behaviour has (bound)
  NoCursor        \* "no scanner_cursors row yet"

ASSUME RunLoopAssumption ==
  /\ MaxHead \in Nat
  /\ BatchSize \in Nat \ {0}
  /\ WordSize \in Nat
  /\ MaxHead + 1 < WordSize
  /\ BatchSize < WordSize
  /\ NodeLag \in Nat
  /\ IndexLags \subseteq Nat
  /\ MaxFailures \in Nat
  /\ NoCursor \notin Nat

VARIABLES
  head,           \* the latest block of the chain
  indexed,        \* contract_events holds every block up to this one
  lag,            \* how far the indexer of this deployment may be behind
  cursor,         \* scanner_cursors.block_number, or NoCursor
  pc,             \* where the loop is
  latest,         \* latestBlock
  from, to,       \* nextBlock and toBlock
  fetched,        \* blocks of from..to whose events RunOnce has read
  cancelled,      \* the context of the loop is done
  scanned,        \* blocks whose events a RunOnce that returned nil has read
  failures        \* errors, crashes and stops so far

chain == <<head, indexed, lag>>
locals == <<latest, from, to>>
vars == <<head, indexed, lag, cursor, pc, latest, from, to, fetched,
          cancelled, scanned, failures>>

Labels == {"top", "cursor", "range", "fetch", "process", "save", "sleep",
           "exited"}

Words == 0 .. WordSize - 1

TypeOK ==
  /\ head \in 0 .. MaxHead
  /\ indexed \in 0 .. MaxHead
  /\ lag \in IndexLags
  /\ cursor \in Words \cup {NoCursor}
  /\ pc \in Labels
  /\ latest \in 0 .. MaxHead
  /\ from \in Words
  /\ to \in Words
  /\ fetched \in SUBSET (0 .. MaxHead)
  /\ cancelled \in BOOLEAN
  /\ scanned \in SUBSET (0 .. MaxHead)
  /\ failures \in 0 .. MaxFailures

-------------------------------------------------------------------------------
(* The chain, the node and the indexer.                                    *)

Behind(block, by) == IF block > by THEN block - by ELSE 0

(* What LatestBlockNumber may answer.                                      *)
NodeAnswers == Behind(head, NodeLag) .. head

Mine ==
  /\ head < MaxHead
  /\ head' = head + 1
  /\ indexed' = IF indexed < Behind(head + 1, lag)
                THEN Behind(head + 1, lag)
                ELSE indexed
  /\ UNCHANGED <<lag, cursor, pc, locals, fetched, cancelled, scanned,
                 failures>>

IndexBlock ==
  /\ indexed < head
  /\ indexed' = indexed + 1
  /\ UNCHANGED <<head, lag, cursor, pc, locals, fetched, cancelled, scanned,
                 failures>>

-------------------------------------------------------------------------------
(* The loop.                                                               *)

(* GormManager.Get: a missing row reads as block 0.                        *)
CursorGet == IF cursor = NoCursor THEN 0 ELSE cursor

(* The sum of two words in uint64: it wraps at WordSize.                   *)
AddWord(x, y) == IF x + y < WordSize THEN x + y ELSE x + y - WordSize

(* nextBlock: block 0 is scanned first, whether or not there is a row.     *)
NextBlock(lastProcessed) ==
  IF lastProcessed > 0 THEN AddWord(lastProcessed, 1) ELSE lastProcessed

(* Slips in toBlock: no cap, no "- 1", an end-exclusive end without a cap.  *)
ToBlockUncapped(nextBlock, latestBlock) == AddWord(nextBlock, BatchSize - 1)
ToBlockOneMore(nextBlock, latestBlock) ==
  LET end == AddWord(nextBlock, BatchSize)
  IN IF end > latestBlock THEN latestBlock ELSE end
ToBlockExclusive(nextBlock, latestBlock) == nextBlock + BatchSize

(* toBlock := nextBlock + batchSize - 1, in uint64, capped at the head.    *)
ToBlock(nextBlock, latestBlock) ==
  LET end == AddWord(nextBlock, BatchSize - 1)
  IN IF end > latestBlock THEN latestBlock ELSE end

(* The head of the loop: leave when the context is done, else ask the node.*)
ReadHead ==
  /\ pc = "top"
  /\ ~cancelled
  /\ latest' \in NodeAnswers
  /\ pc' = "cursor"
  /\ UNCHANGED <<chain, cursor, from, to, fetched, cancelled, scanned,
                 failures>>

ReadCursor ==
  /\ pc = "cursor"
  /\ from' = NextBlock(CursorGet)
  /\ pc' = "range"
  /\ UNCHANGED <<chain, cursor, latest, to, fetched, cancelled, scanned,
                 failures>>

(* A slip: ">=" sleeps with one block left, until another is mined.         *)
CaughtUpEarly ==
  /\ pc = "range"
  /\ from >= latest
  /\ pc' = "sleep"
  /\ UNCHANGED <<chain, cursor, locals, fetched, cancelled, scanned, failures>>

(* Nothing new: sleep, and start over.                                     *)
CaughtUp ==
  /\ pc = "range"
  /\ from > latest
  /\ pc' = "sleep"
  /\ UNCHANGED <<chain, cursor, locals, fetched, cancelled, scanned, failures>>

(* A slip: the test for "nothing new" is missing, so a node that lags       *)
(* behind the cursor gives a batch that ends before it starts.             *)
PlanBatchAlways ==
  /\ pc = "range"
  /\ to' = ToBlock(from, latest)
  /\ pc' = "fetch"
  /\ UNCHANGED <<chain, cursor, latest, from, fetched, cancelled, scanned,
                 failures>>

PlanBatch ==
  /\ pc = "range"
  /\ from <= latest
  /\ to' = ToBlock(from, latest)
  /\ pc' = "fetch"
  /\ UNCHANGED <<chain, cursor, latest, from, fetched, cancelled, scanned,
                 failures>>

(* RunOnce reads the events of the range; what the indexer has not filled  *)
(* yet looks like a block without flash loans.                             *)
RunOnceFetch ==
  /\ pc = "fetch"
  /\ fetched' = {b \in from .. to : b <= indexed}
  /\ pc' = "process"
  /\ UNCHANGED <<chain, cursor, locals, cancelled, scanned, failures>>

RunOnceReturn ==
  /\ pc = "process"
  /\ scanned' = scanned \cup fetched
  /\ fetched' = {}
  /\ pc' = "save"
  /\ UNCHANGED <<chain, cursor, locals, cancelled, failures>>

(* A slip: the row takes the head that was read, not the end of the batch.  *)
SaveLatest ==
  /\ pc = "save"
  /\ cursor' = latest
  /\ pc' = IF to >= latest THEN "sleep" ELSE "top"
  /\ UNCHANGED <<chain, locals, fetched, cancelled, scanned, failures>>

(* Save overwrites the row; the loop sleeps when it has reached the head.  *)
SaveCursor ==
  /\ pc = "save"
  /\ cursor' = to
  /\ pc' = IF to >= latest THEN "sleep" ELSE "top"
  /\ UNCHANGED <<chain, locals, fetched, cancelled, scanned, failures>>

(* sleepWithContext: the timer fires, first if it likes, or the context    *)
(* ends the loop.                                                          *)
Wake ==
  /\ pc = "sleep"
  /\ pc' = "top"
  /\ UNCHANGED <<chain, cursor, locals, fetched, cancelled, scanned, failures>>

LeaveLoop ==
  /\ pc \in {"top", "sleep"}
  /\ cancelled
  /\ pc' = "exited"
  /\ UNCHANGED <<chain, cursor, locals, fetched, cancelled, scanned, failures>>

(* A call returns an error and RunLoop returns it, or the process dies.    *)
(* What RunOnce wrote before stays in the tables, the row is not saved.    *)
Fail ==
  /\ pc # "exited"
  /\ failures < MaxFailures
  /\ failures' = failures + 1
  /\ pc' = "exited"
  /\ fetched' = {}
  /\ UNCHANGED <<chain, cursor, locals, cancelled, scanned>>

(* The operator stops the service: its context is cancelled.               *)
Cancel ==
  /\ pc # "exited"
  /\ ~cancelled
  /\ failures < MaxFailures
  /\ failures' = failures + 1
  /\ cancelled' = TRUE
  /\ UNCHANGED <<chain, cursor, pc, locals, fetched, scanned>>

(* A new process: a new context, new locals, the row as it was left.       *)
Restart ==
  /\ pc = "exited"
  /\ pc' = "top"
  /\ cancelled' = FALSE
  /\ latest' = 0
  /\ from' = 0
  /\ to' = 0
  /\ UNCHANGED <<chain, cursor, fetched, scanned, failures>>

-------------------------------------------------------------------------------
Init ==
  /\ head \in 0 .. MaxHead
  /\ lag \in IndexLags
  /\ indexed \in Behind(head, lag) .. head
  /\ cursor = NoCursor
  /\ pc = "top"
  /\ latest = 0
  /\ from = 0
  /\ to = 0
  /\ fetched = {}
  /\ cancelled = FALSE
  /\ scanned = {}
  /\ failures = 0

LoopStep ==
  \/ ReadHead \/ ReadCursor \/ CaughtUp \/ PlanBatch
  \/ RunOnceFetch \/ RunOnceReturn \/ SaveCursor
  \/ Wake \/ LeaveLoop

Next == LoopStep \/ Fail \/ Cancel \/ Restart \/ Mine \/ IndexBlock

Spec == Init /\ [][Next]_vars

(* The goroutine keeps running, a call that does not fail returns, the     *)
(* supervisor restarts the program.  Nothing is promised about the chain.  *)
FairSpec == Spec /\ WF_vars(LoopStep) /\ WF_vars(Restart)

-------------------------------------------------------------------------------
(* The properties.  That no block is skipped, and the promise of the row,  *)
(* need the events of a block to be in contract_events before the          *)
(* scanner's node reports the block (lag = 0); the proofs need             *)
(* nextBlock + batchSize to stay in uint64 too (NoWrap).                   *)

NoWrap == MaxHead + BatchSize <= WordSize

(* The first block the cursor row does not vouch for.                      *)
Frontier == IF cursor = NoCursor THEN 0 ELSE cursor + 1

(* A saved cursor never covers a block whose events RunOnce has not        *)
(* scanned: no moving head, lagging node, error, crash or restart between  *)
(* RunOnce and Save makes the loop step over a block.                      *)
(* block can be read while its events are missing, and is stepped over.    *)
NoSkippedBlock == lag = 0 => \A b \in 0 .. Frontier - 1 : b \in scanned

(* What an error or a crash can cost: the blocks scanned but not covered   *)
(* by the row are those of one batch.  RunOnce is repeated for no more     *)
(* than batchSize blocks after a restart.                                  *)
ReworkBounded == \A b \in scanned : b < Frontier + BatchSize

(* The row never names a block the chain does not have, and a save never   *)
(* takes it back: whatever the node answers, and even where the indexer    *)
(* lags and NoSkippedBlock is lost.                                        *)
CursorBehindHead == cursor # NoCursor => cursor <= head
CursorForward == [][Frontier' >= Frontier]_cursor

(* The loop keeps the promise of the cursor row: scan first, then move the *)
(* frontier, and only forward.  It has a promise to keep where the indexer *)
(* does not lag; elsewhere nothing is said of it.                          *)
Promise == INSTANCE Checkpoint WITH
             LastBlock <- MaxHead,
             frontier <- IF lag = 0 THEN Frontier ELSE 0,
             scanned <- IF lag = 0 THEN scanned ELSE {}
KeepsPromise == Promise!Spec

(* The row comes to cover every block the node can no longer hide,         *)
(* whatever errors, crashes and stops come first.                          *)
CatchesUp ==
  \A b \in 0 .. MaxHead : (head >= b + NodeLag) ~> (Frontier > b)
===============================================================================

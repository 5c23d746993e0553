---------------------------- MODULE RunLoopProofs ----------------------------
(***************************************************************************)
(* Proofs about RunLoop, for every chain length, batch size, word size,    *)
(* lag and number of failures.                                             *)
(***************************************************************************)
EXTENDS RunLoop, TLAPS

(* Arithmetic of the loop on words, with no hypothesis on the batch size.  *)
LEMMA AddWordType ==
  ASSUME NEW x \in Words, NEW y \in Words
  PROVE  AddWord(x, y) \in Words
BY RunLoopAssumption DEF Words, AddWord

(* NextBlock and ToBlock stay in uint64 and behind the head they are given.*)
LEMMA NextBlockType ==
  ASSUME NEW b \in Words
  PROVE  NextBlock(b) \in Words
<1>1. 1 \in Words
  BY RunLoopAssumption DEF Words
<1>2. QED
  BY <1>1, AddWordType DEF NextBlock

LEMMA ToBlockType ==
  ASSUME NEW b \in Words, NEW l \in 0 .. MaxHead
  PROVE  ToBlock(b, l) \in Words
<1>1. BatchSize - 1 \in Words
  BY RunLoopAssumption DEF Words
<1>2. AddWord(b, BatchSize - 1) \in Words
  BY <1>1, AddWordType
<1>3. l \in Words
  BY RunLoopAssumption DEF Words
<1>4. QED
  BY <1>2, <1>3 DEF ToBlock

(* Type correctness of RunLoop: every variable keeps its type whatever the *)
(* node answers and wherever the loop fails.                               *)
THEOREM TypeCorrect == Spec => []TypeOK
<1> USE RunLoopAssumption
<1>1. Init => TypeOK
  <2> SUFFICES ASSUME Init
               PROVE  TypeOK
    OBVIOUS
  <2>1. head \in 0 .. MaxHead /\ indexed \in 0 .. MaxHead /\ lag \in IndexLags
    BY DEF Init, Behind
  <2>2. latest \in 0 .. MaxHead /\ from \in Words /\ to \in Words
    BY DEF Init, Words
  <2>3. cancelled \in BOOLEAN /\ pc \in Labels
    BY DEF Init, Labels
  <2>4. failures \in 0 .. MaxFailures
    BY DEF Init
  <2>5. QED
    BY <2>1, <2>2, <2>3, <2>4 DEF Init, TypeOK
<1>2. TypeOK /\ [Next]_vars => TypeOK'
  <2> SUFFICES ASSUME TypeOK, [Next]_vars
               PROVE  TypeOK'
    OBVIOUS
  <2> USE DEF TypeOK, Labels
  <2>1. CASE ReadHead
    BY <2>1 DEF ReadHead, NodeAnswers, Behind, chain
  <2>2. CASE ReadCursor
    <3>1. CursorGet \in Words
      BY DEF CursorGet, Words
    <3>2. from' \in Words
      BY <2>2, <3>1, NextBlockType DEF ReadCursor
    <3>3. QED
      BY <2>2, <3>2 DEF ReadCursor, chain
  <2>3. CASE CaughtUp
    BY <2>3 DEF CaughtUp, chain, locals
  <2>4. CASE PlanBatch
    <3>1. to' \in Words
      BY <2>4, ToBlockType DEF PlanBatch
    <3>2. QED
      BY <2>4, <3>1 DEF PlanBatch, chain
  <2>5. CASE RunOnceFetch
    <3>1. fetched' \in SUBSET (0 .. MaxHead)
      BY <2>5 DEF RunOnceFetch, Words
    <3>2. QED
      BY <2>5, <3>1 DEF RunOnceFetch, chain, locals
  <2>6. CASE RunOnceReturn
    BY <2>6 DEF RunOnceReturn, chain, locals
  <2>7. CASE SaveCursor
    BY <2>7 DEF SaveCursor, chain, locals
  <2>8. CASE Wake
    BY <2>8 DEF Wake, chain, locals
  <2>9. CASE LeaveLoop
    BY <2>9 DEF LeaveLoop, chain, locals
  <2>10. CASE Fail
    BY <2>10 DEF Fail, chain, locals
  <2>11. CASE Cancel
    BY <2>11 DEF Cancel, chain, locals
  <2>12. CASE Restart
    <3>1. cancelled' \in BOOLEAN
      BY <2>12 DEF Restart
    <3>2. 0 \in Words /\ 0 \in 0 .. MaxHead
      BY DEF Words
    <3>3. QED
      BY <2>12, <3>1, <3>2 DEF Restart, chain
  <2>13. CASE Mine
    BY <2>13 DEF Mine, Behind, locals
  <2>14. CASE IndexBlock
    BY <2>14 DEF IndexBlock, locals
  <2>15. CASE UNCHANGED vars
    BY <2>15 DEF vars
  <2>16. QED
    BY <2>1, <2>2, <2>3, <2>4, <2>5, <2>6, <2>7, <2>8, <2>9, <2>10, <2>11,
       <2>12, <2>13, <2>14, <2>15 DEF Next, LoopStep
<1>3. QED
  BY <1>1, <1>2, PTL DEF Spec

-------------------------------------------------------------------------------
(* Where the batch in hand lies: between the row and the head that was     *)
(* read, and no longer than batchSize.                                     *)
Planned == {"fetch", "process", "save"}

BatchInv ==
  /\ latest <= head
  /\ CursorBehindHead
  /\ pc \in {"range"} \cup Planned => from = NextBlock(CursorGet)
  /\ pc \in Planned => from <= to /\ to <= latest /\ to < from + BatchSize
  /\ \A b \in fetched : b <= to /\ pc = "process"
  /\ ReworkBounded

(* With batch size and chain inside uint64, the plan of a batch is exact.  *)
LEMMA NextBlockExact ==
  ASSUME NEW b \in 0 .. MaxHead
  PROVE  NextBlock(b) = IF b > 0 THEN b + 1 ELSE 0
BY RunLoopAssumption DEF NextBlock, AddWord

LEMMA ToBlockExact ==
  ASSUME NoWrap, NEW l \in 0 .. MaxHead, NEW b \in 0 .. l
  PROVE  /\ ToBlock(b, l) \in b .. l
         /\ ToBlock(b, l) < b + BatchSize
BY RunLoopAssumption DEF NoWrap, ToBlock, AddWord

(* The invariant behind the safety theorems of the loop.                   *)
THEOREM BatchInvariant ==
  ASSUME NoWrap
  PROVE  Spec => []BatchInv
<1> USE RunLoopAssumption
<1>1. Init => BatchInv
  <2> SUFFICES ASSUME Init
               PROVE  BatchInv
    OBVIOUS
  <2>1. pc \notin {"range"} \cup Planned
    BY DEF Init, Planned
  <2>2. latest <= head
    BY DEF Init
  <2>3. CursorBehindHead /\ ReworkBounded
    BY DEF Init, CursorBehindHead, ReworkBounded
  <2>4. QED
    BY <2>1, <2>2, <2>3 DEF Init, BatchInv
<1>2. TypeOK /\ BatchInv /\ [Next]_vars => BatchInv'
  <2> SUFFICES ASSUME TypeOK, BatchInv, [Next]_vars
               PROVE  BatchInv'
    OBVIOUS
  <2>type. /\ head \in 0 .. MaxHead /\ latest \in 0 .. MaxHead
           /\ cursor \in Words \cup {NoCursor}
           /\ from \in Words /\ to \in Words
           /\ fetched \in SUBSET (0 .. MaxHead)
           /\ scanned \in SUBSET (0 .. MaxHead)
    BY DEF TypeOK
  <2>row. /\ CursorGet \in 0 .. MaxHead
          /\ CursorGet <= head
          /\ Frontier \in Nat
          /\ NextBlock(CursorGet) <= Frontier
          /\ NextBlock(CursorGet) >= CursorGet
    <3>1. CursorGet \in 0 .. MaxHead /\ CursorGet <= head
      BY <2>type DEF BatchInv, CursorBehindHead, CursorGet, Words
    <3>2. QED
      BY <3>1, <2>type, NextBlockExact DEF CursorGet, Frontier, Words
  \* The steps that leave the row, the batch and the scanned blocks alone.
  <2>quiet. ASSUME UNCHANGED <<head, cursor, scanned>>, latest' <= head,
                   pc' \notin {"range"} \cup Planned, fetched' = {}
            PROVE  BatchInv'
    <3>1. CursorBehindHead' /\ (latest <= head)'
      BY <2>quiet DEF BatchInv, CursorBehindHead
    <3>2. ReworkBounded'
      BY <2>quiet DEF BatchInv, ReworkBounded, Frontier
    <3>3. QED
      BY <2>quiet, <3>1, <3>2 DEF BatchInv, Planned
  \* The steps of the environment, which the loop does not notice.
  <2>aside. ASSUME UNCHANGED <<cursor, pc, locals, fetched, scanned>>,
                   head <= head', head' \in Nat
            PROVE  BatchInv'
    <3>1. (latest <= head)' /\ CursorBehindHead'
      BY <2>aside, <2>type DEF BatchInv, CursorBehindHead, locals, Words
    <3>2. ReworkBounded'
      BY <2>aside DEF BatchInv, ReworkBounded, Frontier
    <3>3. NextBlock(CursorGet)' = NextBlock(CursorGet)
      BY <2>aside DEF CursorGet, NextBlock, AddWord
    <3>4. QED
      BY <2>aside, <3>1, <3>2, <3>3 DEF BatchInv, locals
  <2>idle. pc # "process" => fetched = {}
    BY DEF BatchInv
  <2>1. CASE ReadHead
    <3>1. latest' <= head' /\ head' = head
      BY <2>1, <2>type DEF ReadHead, NodeAnswers, Behind, chain
    <3>2. CursorBehindHead' /\ ReworkBounded'
      BY <2>1, <3>1 DEF ReadHead, BatchInv, CursorBehindHead, ReworkBounded,
                        Frontier
    <3>3. QED
      BY <2>1, <2>idle, <3>1, <3>2 DEF ReadHead, BatchInv, Planned
  <2>2. CASE ReadCursor
    <3>1. pc' = "range" /\ from' = NextBlock(CursorGet)' /\ fetched' = {}
      BY <2>2, <2>idle DEF ReadCursor, CursorGet, NextBlock, AddWord, Planned
    <3>2. (latest <= head)' /\ CursorBehindHead' /\ ReworkBounded'
      BY <2>2 DEF ReadCursor, chain, BatchInv, CursorBehindHead,
                  ReworkBounded, Frontier
    <3>3. QED
      BY <3>1, <3>2 DEF BatchInv, Planned
  <2>3. CASE CaughtUp
    BY <2>3, <2>quiet, <2>idle DEF CaughtUp, BatchInv, chain, locals, Planned
  <2>4. CASE PlanBatch
    <3>1. from = NextBlock(CursorGet) /\ from \in 0 .. latest
      BY <2>4, <2>type DEF PlanBatch, BatchInv, Words
    <3>2. to' \in from .. latest /\ to' < from + BatchSize
      BY <2>4, <3>1, <2>type, ToBlockExact DEF PlanBatch
    <3>3. /\ pc' = "fetch" /\ fetched' = {}
          /\ from' = from /\ latest' = latest /\ head' = head
          /\ cursor' = cursor /\ scanned' = scanned
      BY <2>4, <2>idle DEF PlanBatch, chain, Planned
    <3>4. from' = NextBlock(CursorGet)'
      BY <3>1, <3>3 DEF CursorGet, NextBlock, AddWord
    <3>5. (latest <= head)' /\ CursorBehindHead' /\ ReworkBounded'
      BY <3>3 DEF BatchInv, CursorBehindHead, ReworkBounded, Frontier
    <3>6. from' <= to' /\ to' <= latest' /\ to' < from' + BatchSize
      BY <3>2, <3>3, <2>type DEF Words
    <3>7. QED
      BY <3>3, <3>4, <3>5, <3>6 DEF BatchInv, Planned
  <2>5. CASE RunOnceFetch
    <3>1. \A b \in fetched' : b <= to'
      BY <2>5, <2>type DEF RunOnceFetch, locals, Words
    <3>2. /\ pc' = "process" /\ pc = "fetch" /\ head' = head
          /\ UNCHANGED <<cursor, scanned, latest, from, to>>
      BY <2>5 DEF RunOnceFetch, chain, locals
    <3>3. from' = NextBlock(CursorGet)'
      BY <3>2 DEF BatchInv, Planned, CursorGet, NextBlock, AddWord
    <3>4. CursorBehindHead' /\ ReworkBounded'
      BY <3>2 DEF BatchInv, CursorBehindHead, ReworkBounded, Frontier
    <3>5. QED
      BY <3>1, <3>2, <3>3, <3>4 DEF BatchInv, Planned
  <2>6. CASE RunOnceReturn
    <3>1. /\ pc' = "save" /\ pc = "process" /\ head' = head
          /\ scanned' = scanned \cup fetched /\ fetched' = {}
          /\ UNCHANGED <<cursor, latest, from, to>>
      BY <2>6 DEF RunOnceReturn, chain, locals
    <3>2. ASSUME NEW b \in fetched
          PROVE  b < Frontier + BatchSize
      <4>1. b <= to /\ to < from + BatchSize /\ from <= Frontier
        BY <3>1, <2>row DEF BatchInv, Planned
      <4>2. QED
        BY <4>1, <2>type, <2>row DEF Words
    <3>3. ReworkBounded'
      BY <3>1, <3>2 DEF BatchInv, ReworkBounded, Frontier
    <3>4. from' = NextBlock(CursorGet)'
      BY <3>1 DEF BatchInv, Planned, CursorGet, NextBlock, AddWord
    <3>5. CursorBehindHead'
      BY <3>1 DEF BatchInv, CursorBehindHead
    <3>6. QED
      BY <3>1, <3>3, <3>4, <3>5 DEF BatchInv, Planned
  <2>7. CASE SaveCursor
    <3>1. /\ cursor' = to /\ pc' \notin {"range"} \cup Planned
          /\ fetched' = fetched /\ pc = "save"
          /\ UNCHANGED <<head, latest, scanned>>
      BY <2>7 DEF SaveCursor, chain, locals, Planned
    <3>2. /\ from = NextBlock(CursorGet) /\ from <= to /\ to <= latest
          /\ to < from + BatchSize
      BY <3>1 DEF BatchInv, Planned
    <3>3. CursorBehindHead'
      BY <3>1, <3>2, <2>type DEF BatchInv, CursorBehindHead, Words
    <3>4. Frontier' = to + 1 /\ Frontier <= to + 1
      <4>1. cursor' \in Nat /\ to \in Nat
        BY <3>1, <2>type DEF Words
      <4>2. Frontier' = to + 1
        BY <4>1, <3>1 DEF Frontier
      <4>3. CursorGet <= to
        BY <3>2, <2>row, <2>type DEF Words
      <4>4. Frontier <= CursorGet + 1
        BY <2>row, <2>type DEF Frontier, CursorGet, Words
      <4>5. QED
        BY <4>1, <4>2, <4>3, <4>4, <2>row
    <3>5. ReworkBounded'
      <4> SUFFICES ASSUME NEW b \in scanned
                   PROVE  b < Frontier' + BatchSize
        BY <3>1 DEF ReworkBounded
      <4>1. b < Frontier + BatchSize
        BY DEF BatchInv, ReworkBounded
      <4>2. QED
        BY <4>1, <3>4, <2>row, <2>type DEF Words
    <3>6. fetched' = {}
      BY <3>1, <2>idle
    <3>7. QED
      BY <3>1, <3>3, <3>5, <3>6 DEF BatchInv
  <2>8. CASE Wake
    BY <2>8, <2>quiet, <2>idle DEF Wake, BatchInv, chain, locals, Planned
  <2>9. CASE LeaveLoop
    BY <2>9, <2>quiet, <2>idle DEF LeaveLoop, BatchInv, chain, locals, Planned
  <2>10. CASE Fail
    BY <2>10, <2>quiet DEF Fail, BatchInv, chain, locals, Planned
  <2>11. CASE Cancel
    BY <2>11, <2>aside, <2>type DEF Cancel, chain
  <2>12. CASE Restart
    BY <2>12, <2>quiet, <2>idle, <2>type DEF Restart, chain, Planned
  <2>13. CASE Mine
    BY <2>13, <2>aside, <2>type DEF Mine
  <2>14. CASE IndexBlock
    BY <2>14, <2>aside, <2>type DEF IndexBlock
  <2>15. CASE UNCHANGED vars
    BY <2>15, <2>aside, <2>type DEF vars, locals
  <2>16. QED
    BY <2>1, <2>2, <2>3, <2>4, <2>5, <2>6, <2>7, <2>8, <2>9, <2>10, <2>11,
       <2>12, <2>13, <2>14, <2>15 DEF Next, LoopStep
<1>3. QED
  BY <1>1, <1>2, TypeCorrect, PTL DEF Spec

-------------------------------------------------------------------------------
(* What a saved row vouches for where the indexer does not lag: it has     *)
(* written the events of every block the node can report.                  *)
Vouched == \A b \in 0 .. Frontier - 1 : b \in scanned

Covered ==
  /\ indexed = head
  /\ pc = "process" => \A b \in from .. to : b \in fetched
  /\ pc = "save" => \A b \in from .. to : b \in scanned
  /\ Vouched

CoverInv == lag = 0 => Covered

(* The invariant holds of every chain, batch size, failure and restart:    *)
(* RunOnce returns before the row is saved, and the next batch starts      *)
(* right after the row.                                                    *)
THEOREM CoverInvariant ==
  ASSUME NoWrap
  PROVE  Spec => []CoverInv
<1> USE RunLoopAssumption
<1>1. Init => CoverInv
  BY DEF Init, Behind, CoverInv, Covered, Vouched, Frontier
<1>2. TypeOK /\ BatchInv /\ CoverInv /\ [Next]_vars => CoverInv'
  <2> SUFFICES ASSUME TypeOK, BatchInv, CoverInv, [Next]_vars, lag' = 0
               PROVE  Covered'
    BY DEF CoverInv
  <2>lag. lag = 0
    BY DEF Next, LoopStep, ReadHead, ReadCursor, CaughtUp, PlanBatch,
           RunOnceFetch, RunOnceReturn, SaveCursor, Wake, LeaveLoop, Fail,
           Cancel, Restart, Mine, IndexBlock, chain, vars
  <2>cov. Covered
    BY <2>lag DEF CoverInv
  <2>type. /\ head \in 0 .. MaxHead /\ latest \in 0 .. MaxHead
           /\ cursor \in Words \cup {NoCursor}
           /\ from \in Words /\ to \in Words /\ indexed \in Nat
    BY DEF TypeOK
  \* No step but SaveCursor moves the row, and no step shrinks scanned.
  <2>keep. ASSUME UNCHANGED <<indexed, head, cursor>>, scanned \subseteq scanned',
                  pc' \notin {"process", "save"}
           PROVE  Covered'
    BY <2>cov, <2>keep DEF Covered, Vouched, Frontier
  <2>1. CASE ReadHead
    BY <2>1, <2>keep DEF ReadHead, chain
  <2>2. CASE ReadCursor
    BY <2>2, <2>keep DEF ReadCursor, chain
  <2>3. CASE CaughtUp
    BY <2>3, <2>keep DEF CaughtUp, chain
  <2>4. CASE PlanBatch
    BY <2>4, <2>keep DEF PlanBatch, chain
  <2>5. CASE RunOnceFetch
    <3>1. /\ pc = "fetch" /\ pc' = "process"
          /\ fetched' = {b \in from .. to : b <= indexed}
          /\ UNCHANGED <<indexed, head, cursor, from, to, scanned>>
      BY <2>5 DEF RunOnceFetch, chain, locals
    <3>2. to <= indexed
      BY <2>cov, <3>1, <2>type DEF BatchInv, Planned, Covered, Words
    <3>3. \A b \in from .. to : b \in fetched'
      BY <3>1, <3>2, <2>type DEF Words
    <3>4. Vouched'
      BY <2>cov, <3>1 DEF Covered, Vouched, Frontier
    <3>5. QED
      BY <2>cov, <3>1, <3>3, <3>4 DEF Covered
  <2>6. CASE RunOnceReturn
    <3>1. /\ pc = "process" /\ pc' = "save"
          /\ scanned' = scanned \cup fetched
          /\ UNCHANGED <<indexed, head, cursor, from, to>>
      BY <2>6 DEF RunOnceReturn, chain, locals
    <3>2. \A b \in from .. to : b \in scanned'
      BY <2>cov, <3>1 DEF Covered
    <3>3. Vouched'
      BY <2>cov, <3>1 DEF Covered, Vouched, Frontier
    <3>4. QED
      BY <2>cov, <3>1, <3>2, <3>3 DEF Covered
  <2>7. CASE SaveCursor
    <3>1. /\ pc = "save" /\ pc' \notin {"process", "save"}
          /\ cursor' = to /\ UNCHANGED <<indexed, head, scanned>>
      BY <2>7 DEF SaveCursor, chain
    <3>2. Frontier' = to + 1
      BY <3>1, <2>type DEF Frontier, Words
    <3>3. from = 0 \/ from <= Frontier
      <4>1. from = NextBlock(CursorGet)
        BY <3>1 DEF BatchInv, Planned
      <4>2. CursorGet \in 0 .. MaxHead
        BY <2>type DEF BatchInv, CursorBehindHead, CursorGet, Words
      <4>3. from = IF CursorGet > 0 THEN CursorGet + 1 ELSE 0
        BY <4>1, <4>2, NextBlockExact
      <4>4. QED
        BY <4>2, <4>3, <2>type DEF CursorGet, Frontier, Words
    <3>4. Frontier \in Nat
      BY <2>type DEF Frontier, Words
    <3>5. ASSUME NEW b \in 0 .. to
          PROVE  b \in scanned
      <4>1. CASE b \in from .. to
        BY <2>cov, <4>1, <3>1 DEF Covered
      <4>2. CASE b < from
        <5>1. b \in 0 .. Frontier - 1
          BY <4>2, <3>3, <3>4, <2>type DEF Words
        <5>2. QED
          BY <2>cov, <5>1 DEF Covered, Vouched
      <4>3. QED
        BY <4>1, <4>2, <2>type DEF Words
    <3>6. Vouched'
      BY <3>1, <3>2, <3>5, <2>type DEF Vouched, Words
    <3>7. QED
      BY <2>cov, <3>1, <3>6 DEF Covered
  <2>8. CASE Wake
    BY <2>8, <2>keep DEF Wake, chain
  <2>9. CASE LeaveLoop
    BY <2>9, <2>keep DEF LeaveLoop, chain
  <2>10. CASE Fail
    BY <2>10, <2>keep DEF Fail, chain
  \* The steps that leave the loop where it is.
  <2>aside. ASSUME UNCHANGED <<cursor, pc, locals, fetched, scanned>>,
                   indexed' = head'
            PROVE  Covered'
    BY <2>cov, <2>aside DEF Covered, Vouched, Frontier, locals
  <2>11. CASE Cancel
    BY <2>cov, <2>11, <2>aside DEF Cancel, Covered, chain
  <2>12. CASE Restart
    BY <2>12, <2>keep DEF Restart, chain
  <2>13. CASE Mine
    <3>1. indexed' = head'
      BY <2>cov, <2>13, <2>type DEF Mine, Covered, Behind
    <3>2. QED
      BY <2>13, <3>1, <2>aside DEF Mine
  <2>14. CASE IndexBlock
    BY <2>cov, <2>14, <2>type DEF IndexBlock, Covered
  <2>15. CASE UNCHANGED vars
    BY <2>cov, <2>15, <2>aside DEF vars, Covered, locals
  <2>16. QED
    BY <2>1, <2>2, <2>3, <2>4, <2>5, <2>6, <2>7, <2>8, <2>9, <2>10, <2>11,
       <2>12, <2>13, <2>14, <2>15 DEF Next, LoopStep
<1>3. QED
  BY <1>1, <1>2, TypeCorrect, BatchInvariant, PTL DEF Spec

(* A saved row never covers a block RunOnce has not scanned.               *)
THEOREM NothingSkipped ==
  ASSUME NoWrap
  PROVE  Spec => []NoSkippedBlock
<1>1. CoverInv => NoSkippedBlock
  BY DEF CoverInv, Covered, Vouched, NoSkippedBlock
<1>2. QED
  BY <1>1, CoverInvariant, PTL

(* An error or a crash costs at most one batch of work, and the row stays  *)
(* behind the head, wherever the indexer is.                               *)
THEOREM BoundedRework ==
  ASSUME NoWrap
  PROVE  Spec => [](ReworkBounded /\ CursorBehindHead)
<1>1. BatchInv => ReworkBounded /\ CursorBehindHead
  BY DEF BatchInv
<1>2. QED
  BY <1>1, BatchInvariant, PTL

(* The row never names a block the chain does not have (Get, Save), however*)
(* far the node and the indexer lag.                                       *)
THEOREM RowBehindHead ==
  ASSUME NoWrap
  PROVE  Spec => []CursorBehindHead
<1>1. BatchInv => CursorBehindHead
  BY DEF BatchInv
<1>2. QED
  BY <1>1, BatchInvariant, PTL

(* A save never takes the row back (cursorManager.Save), though the head it*)
(* was planned with may be older than the one the row was saved from, and  *)
(* wherever the indexer is.                                                *)
THEOREM RowMovesForward ==
  ASSUME NoWrap
  PROVE  Spec => CursorForward
<1> USE RunLoopAssumption
<1>1. TypeOK /\ BatchInv /\ [Next]_vars => [Frontier' >= Frontier]_cursor
  <2> SUFFICES ASSUME TypeOK, BatchInv, [Next]_vars
               PROVE  [Frontier' >= Frontier]_cursor
    OBVIOUS
  <2>1. CASE SaveCursor
    <3>1. /\ pc = "save" /\ cursor' = to /\ to \in Nat /\ from \in Nat
          /\ cursor \in Words \cup {NoCursor}
      BY <2>1 DEF SaveCursor, TypeOK, Words
    <3>2. from = NextBlock(CursorGet) /\ from <= to
      BY <3>1 DEF BatchInv, Planned
    <3>3. CursorGet \in 0 .. MaxHead
      BY DEF TypeOK, BatchInv, CursorBehindHead, CursorGet, Words
    <3>4. CursorGet <= from
      BY <3>2, <3>3, NextBlockExact
    <3>5. Frontier \in Nat /\ Frontier <= CursorGet + 1
      BY <3>1, <3>3 DEF Frontier, CursorGet, Words
    <3>6. Frontier' = to + 1
      BY <3>1 DEF Frontier
    <3>7. QED
      BY <3>1, <3>2, <3>3, <3>4, <3>5, <3>6
  <2>2. CASE UNCHANGED cursor
    BY <2>2
  <2>3. QED
    BY <2>1, <2>2
       DEF Next, LoopStep, ReadHead, ReadCursor, CaughtUp, PlanBatch,
           RunOnceFetch, RunOnceReturn, Wake, LeaveLoop, Fail, Cancel, Restart,
           Mine, IndexBlock, vars
<1>2. QED
  BY <1>1, TypeCorrect, BatchInvariant, PTL DEF Spec, CursorForward

(* RunLoop implements the promise of the scanner_cursors row: every step   *)
(* of the loop scans, or moves the frontier forward over scanned blocks,   *)
(* or changes nothing the promise speaks of.  Where the indexer lags the   *)
(* row makes no promise.                                                   *)
THEOREM RunLoopKeepsPromise ==
  ASSUME NoWrap
  PROVE  Spec => KeepsPromise
<1> USE RunLoopAssumption
<1>1. Init => Promise!Init
  BY DEF Init, Promise!Init, Frontier
<1>2. TypeOK /\ TypeOK' /\ BatchInv /\ CoverInv' /\ [Next]_vars
        => [Promise!Next]_(Promise!vars)
  <2> SUFFICES ASSUME TypeOK, TypeOK', BatchInv, CoverInv', [Next]_vars
               PROVE  [Promise!Next]_(Promise!vars)
    OBVIOUS
  <2>lag. lag' = lag
    BY DEF Next, LoopStep, ReadHead, ReadCursor, CaughtUp, PlanBatch,
           RunOnceFetch, RunOnceReturn, SaveCursor, Wake, LeaveLoop, Fail,
           Cancel, Restart, Mine, IndexBlock, chain, vars
  <2>0. CASE lag # 0
    BY <2>0, <2>lag DEF Promise!vars
  <2>1. CASE lag = 0 /\ RunOnceReturn
    <3>1. fetched \in SUBSET (0 .. MaxHead) /\ scanned' = scanned \cup fetched
      BY <2>1 DEF RunOnceReturn, TypeOK
    <3>2. UNCHANGED Frontier
      BY <2>1 DEF RunOnceReturn, Frontier
    <3>3. Promise!Scan
      BY <2>1, <2>lag, <3>1, <3>2 DEF Promise!Scan
    <3>4. QED
      BY <3>3 DEF Promise!Next
  <2>2. CASE lag = 0 /\ SaveCursor
    <3>1. Frontier' \in Frontier .. MaxHead + 1
      <4>1. /\ pc = "save" /\ cursor' = to /\ to \in Nat
            /\ cursor \in Words \cup {NoCursor}
        BY <2>2 DEF SaveCursor, TypeOK, Words
      <4>2. from = NextBlock(CursorGet) /\ from <= to /\ to <= latest
        BY <4>1 DEF BatchInv, Planned
      <4>3. CursorGet \in 0 .. MaxHead
        BY DEF TypeOK, BatchInv, CursorBehindHead, CursorGet, Words
      <4>4. CursorGet <= from
        BY <4>2, <4>3, NextBlockExact
      <4>5. latest \in 0 .. MaxHead /\ from \in Nat
        BY DEF TypeOK, Words
      <4>6. to \in 0 .. MaxHead /\ CursorGet <= to
        BY <4>1, <4>2, <4>3, <4>4, <4>5
      <4>7. Frontier' = to + 1
        BY <4>1 DEF Frontier
      <4>8. Frontier \in Nat /\ Frontier <= CursorGet + 1
        BY <4>1, <4>3 DEF Frontier, CursorGet, Words
      <4>9. QED
        BY <4>3, <4>6, <4>7, <4>8
    <3>2. \A b \in 0 .. Frontier' - 1 : b \in scanned
      BY <2>2, <2>lag DEF SaveCursor, CoverInv, Covered, Vouched
    <3>3. UNCHANGED scanned
      BY <2>2 DEF SaveCursor
    <3>4. Promise!Commit
      BY <2>2, <2>lag, <3>1, <3>2, <3>3 DEF Promise!Commit
    <3>5. QED
      BY <3>4 DEF Promise!Next
  <2>3. CASE UNCHANGED <<cursor, scanned>>
    BY <2>3, <2>lag DEF Promise!vars, Frontier
  <2>4. QED
    BY <2>0, <2>1, <2>2, <2>3
       DEF Next, LoopStep, ReadHead, ReadCursor, CaughtUp, PlanBatch,
           RunOnceFetch, Wake, LeaveLoop, Fail, Cancel, Restart, Mine,
           IndexBlock, vars
<1>3. QED
  BY <1>1, <1>2, TypeCorrect, BatchInvariant, CoverInvariant, PTL
     DEF Spec, KeepsPromise, Promise!Spec
===============================================================================

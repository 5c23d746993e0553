-------------------------- MODULE ScanPipelineProofs --------------------------
(***************************************************************************)
(* Theorems about ScanPipeline, for any runners, protocols, transactions   *)
(* and verdicts, and any number of runs and failures.                      *)
(***************************************************************************)
EXTENDS ScanPipeline, FiniteSetTheorems, TLAPS

(* The rows of a transaction are finitely many.                            *)
LEMMA IdsFinite ==
  ASSUME NEW S \in SUBSET Ids
  PROVE  IsFiniteSet(S) /\ Cardinality(S) \in Nat
<1>1. IsFiniteSet(Ids)
  BY PipelineAssumption, FS_Product DEF Ids
<1>2. IsFiniteSet(S)
  BY <1>1, FS_Subset
<1>3. QED
  BY <1>2, FS_CardinalityType

(* AggregateByTx gives a row of flashloan_transactions, or nothing when    *)
(* there is no interaction.                                                *)
LEMMA SummariseType ==
  ASSUME NEW R \in [Ids -> [protocol : Protocols \cup {None}, verdict : Verdicts]],
         NEW t \in Txs
  PROVE  /\ Summarise(R, t) \in Summaries \cup {None}
         /\ RowsOf(R, t) # {} => Summarise(R, t) # None
<1> DEFINE strictRows == {i \in RowsOf(R, t) : R[i].verdict = "strict"}
<1>1. RowsOf(R, t) \in SUBSET Ids /\ strictRows \in SUBSET Ids
  BY DEF RowsOf
<1>2. Cardinality(RowsOf(R, t)) \in Nat /\ Cardinality(strictRows) \in Nat
  BY <1>1, IdsFinite
<1>3. {R[i].protocol : i \in RowsOf(R, t)} \in SUBSET Protocols
  BY DEF RowsOf
<1>4. [verified    |-> \E i \in RowsOf(R, t) : R[i].verdict # "unverified",
       strict      |-> \E i \in RowsOf(R, t) : R[i].verdict = "strict",
       count       |-> Cardinality(RowsOf(R, t)),
       strictCount |-> Cardinality(strictRows),
       protocols   |-> {R[i].protocol : i \in RowsOf(R, t)}] \in Summaries
  <2>1. (\E i \in RowsOf(R, t) : R[i].verdict # "unverified") \in BOOLEAN
    OBVIOUS
  <2>2. (\E i \in RowsOf(R, t) : R[i].verdict = "strict") \in BOOLEAN
    OBVIOUS
  <2>3. QED
    BY <1>2, <1>3, <2>1, <2>2, Zenon DEF Summaries
<1>5. QED
  BY <1>4, PipelineAssumption DEF Summarise

(* A verifier answers with a verdict.                                      *)
LEMMA VerdictsOnType ==
  ASSUME NEW r \in Runners, NEW i \in Ids, NEW stored
  PROVE  VerdictsOn(r, i, stored) \subseteq Verdicts
BY PipelineAssumption DEF VerdictsOn, Verdicts

(* Extract finds ids of the transactions it is given.                      *)
LEMMA ExtractType ==
  ASSUME NEW r \in Runners, NEW S
  PROVE  /\ Extract(r, S) \in SUBSET Ids
         /\ TxOf(Extract(r, S)) \in SUBSET Txs
BY PipelineAssumption DEF Extract, TxOf, Ids

-------------------------------------------------------------------------------
(* Every variable keeps its type.                                          *)
THEOREM TypeCorrect == Spec => []TypeOK
<1>1. Init => TypeOK
  BY PipelineAssumption DEF Init, TypeOK, NoRow, Verdicts, Labels
<1>2. TypeOK /\ [Next]_vars => TypeOK'
  <2> SUFFICES ASSUME TypeOK, [Next]_vars
               PROVE  TypeOK'
    OBVIOUS
  <2> USE DEF TypeOK, Goto
  <2>1. ASSUME NEW r \in Runners, Start(r)
        PROVE  TypeOK'
    <3>1. pc' \in [Runners -> Labels]
      BY <2>1 DEF Start, Labels
    <3>2. runs' \in [Runners -> 0 .. MaxRuns]
      BY <2>1, PipelineAssumption DEF Start
    <3>3. QED
      BY <2>1, <3>1, <3>2 DEF Start, tables, batch
  <2>2. ASSUME NEW r \in Runners, FetchByTxHash(r)
        PROVE  TypeOK'
    BY <2>2 DEF FetchByTxHash, batch, aggregation, bounds
  <2>3. ASSUME NEW r \in Runners, FetchRangeReturn(r)
        PROVE  TypeOK'
    BY <2>3 DEF FetchRangeReturn, tables, batch, aggregation, bounds, Labels
  <2>4. ASSUME NEW r \in Runners, ListObserved(r)
        PROVE  TypeOK'
    BY <2>4 DEF ListObserved, tables, aggregation, bounds, Labels
  <2>5. ASSUME NEW r \in Runners, UpsertInteractions(r)
        PROVE  TypeOK'
    <3>1. Extract(r, listed[r]) \in SUBSET Ids
      BY ExtractType
    <3>2. rows' \in [Ids -> [protocol : Protocols \cup {None}, verdict : Verdicts]]
      BY <2>5, PipelineAssumption DEF UpsertInteractions, Upserted, Verdicts
    <3>3. legTodo' \in [Runners -> SUBSET Ids] /\ todo' \in [Runners -> SUBSET Ids]
      BY <2>5, <3>1 DEF UpsertInteractions, WithLegs
    <3>4. pc' \in [Runners -> Labels]
      BY <2>5 DEF UpsertInteractions, Labels
    <3>5. QED
      BY <2>5, <3>2, <3>3, <3>4 DEF UpsertInteractions, aggregation, bounds
  <2>6. ASSUME NEW r \in Runners, ReplaceLegs(r)
        PROVE  TypeOK'
    <3>1. pc' \in [Runners -> Labels]
      BY <2>6 DEF ReplaceLegs, Labels
    <3>2. legs' \in [Ids -> Protocols \cup {None}]
      <4>1. PICK i \in legTodo[r] : legs' = [legs EXCEPT ![i] = ProtocolOf[r]]
        BY <2>6 DEF ReplaceLegs
      <4>2. ProtocolOf[r] \in Protocols
        BY PipelineAssumption
      <4>3. QED
        BY <4>1, <4>2
    <3>3. QED
      BY <2>6, <3>1, <3>2 DEF ReplaceLegs, aggregation, bounds
  <2>7. ASSUME NEW r \in Runners, Verify(r)
        PROVE  TypeOK'
    <3>1. PICK i \in todo[r] :
            /\ cur' = [cur EXCEPT ![r] = i]
            /\ todo' = [todo EXCEPT ![r] = @ \ {i}]
            /\ readLegs' = [readLegs EXCEPT ![r] = legs[i]]
            /\ \E v \in VerdictsOn(r, i, legs[i]) :
                 result' = [result EXCEPT ![r] = v]
      BY <2>7 DEF Verify
    <3>2. i \in Ids
      OBVIOUS
    <3>3. result' \in [Runners -> Verdicts]
      BY <3>1, <3>2, VerdictsOnType
    <3>4. pc' \in [Runners -> Labels]
      BY <2>7 DEF Verify, Labels
    <3>5. cur' \in [Runners -> Ids \cup {None}] /\ todo' \in [Runners -> SUBSET Ids]
      BY <3>1, <3>2
    <3>6. readLegs' \in [Runners -> Protocols \cup {None}]
      BY <3>1, <3>2
    <3>7. QED
      BY <2>7, <3>3, <3>4, <3>5, <3>6 DEF Verify, tables, aggregation, bounds
  <2>8. ASSUME NEW r \in Runners, NextInteraction(r)
        PROVE  pc' \in [Runners -> Labels] /\ aggTodo' \in [Runners -> SUBSET Txs]
    BY <2>8, ExtractType DEF NextInteraction, Labels
  <2>9. ASSUME NEW r \in Runners, UpdateVerificationResult(r)
        PROVE  TypeOK'
    <3>1. rows' \in [Ids -> [protocol : Protocols \cup {None}, verdict : Verdicts]]
      <4>1. rows' = [rows EXCEPT ![cur[r]] = [rows[cur[r]] EXCEPT !.verdict = result[r]]]
        BY <2>9 DEF UpdateVerificationResult
      <4>2. \A i \in Ids : [rows[i] EXCEPT !.verdict = result[r]]
                            \in [protocol : Protocols \cup {None}, verdict : Verdicts]
        OBVIOUS
      <4>3. QED
        BY <4>1, <4>2
    <3>2. pc' \in [Runners -> Labels] /\ aggTodo' \in [Runners -> SUBSET Txs]
      BY <2>9, <2>8 DEF UpdateVerificationResult, Labels
    <3>3. QED
      BY <2>9, <3>1, <3>2 DEF UpdateVerificationResult, batch, bounds
  <2>10. ASSUME NEW r \in Runners, RewriteLegs(r)
         PROVE  TypeOK'
    BY <2>10, <2>8 DEF RewriteLegs, batch, bounds
  <2>11. ASSUME NEW r \in Runners, AggregateRead(r)
         PROVE  TypeOK'
    <3>1. summary' \in [Runners -> Summaries \cup {None}]
      BY <2>11, SummariseType DEF AggregateRead
    <3>2. pc' \in [Runners -> Labels]
      BY <2>11 DEF AggregateRead, Labels
    <3>3. QED
      BY <2>11, <3>1, <3>2 DEF AggregateRead, tables, batch, bounds
  <2>12. ASSUME NEW r \in Runners, AggregateWrite(r)
         PROVE  TypeOK'
    <3>1. pc' \in [Runners -> Labels]
      BY <2>12 DEF AggregateWrite, Labels
    <3>2. summaries' \in [Txs -> Summaries \cup {None}]
      BY <2>12 DEF AggregateWrite
    <3>3. QED
      BY <2>12, <3>1, <3>2 DEF AggregateWrite, batch, bounds
  <2>13. ASSUME NEW r \in Runners, Fail(r)
         PROVE  TypeOK'
    <3>1. rows' \in [Ids -> [protocol : Protocols \cup {None}, verdict : Verdicts]]
      <4>1. PICK I : rows' = Upserted(r, I)
        BY <2>13 DEF Fail
      <4>2. ProtocolOf[r] \in Protocols
        BY PipelineAssumption
      <4>3. QED
        BY <4>1, <4>2 DEF Upserted, Verdicts
    <3>2. QED
      BY <2>13, <3>1, PipelineAssumption DEF Fail, batch, aggregation, Labels
  <2>14. CASE UNCHANGED vars
    BY <2>14 DEF vars, tables, batch, aggregation, bounds
  <2>15. QED
    BY <2>1, <2>2, <2>3, <2>4, <2>5, <2>6, <2>7, <2>9, <2>10, <2>11, <2>12,
       <2>13, <2>14 DEF Next, Step
<1>3. QED
  BY <1>1, <1>2, PTL DEF Spec

-------------------------------------------------------------------------------
(* The inductive invariants.  Each rests on the ones before it.            *)

(* RunOnce is past the upsert of its interactions.                         *)
PastUpsert == {"legs", "verify", "update", "rewrite", "aggread", "aggwrite", "done"}

PastLegs == PastUpsert \ {"legs"}

PastVerify == {"aggread", "aggwrite", "done"}

(* What a runner has upserted has a row, and of the transactions it found  *)
(* each is reported, being reported, or still to aggregate.                *)
ReportInvOf(r) ==
  /\ pc[r] \in PastUpsert => \A i \in Detected(r) : rows[i].protocol # None
  /\ pc[r] \notin PastVerify \cup Resting => found[r] = {}
  /\ pc[r] = "aggread" => found[r] \cup aggTodo[r] = TxOf(Detected(r))
  /\ pc[r] = "aggwrite" =>
       found[r] \cup aggTodo[r] \cup {curTx[r]} = TxOf(Detected(r))
  /\ pc[r] = "done" => found[r] = TxOf(Detected(r))

ReportInv == \A r \in Runners : ReportInvOf(r)

(* A row is never removed, nor its label: only overwritten.                *)
LEMMA RowsStay ==
  ASSUME TypeOK, [Next]_vars, NEW i \in Ids, rows[i].protocol # None
  PROVE  rows'[i].protocol # None
<1> USE DEF TypeOK
<1>1. \A r \in Runners : ProtocolOf[r] # None
  BY PipelineAssumption
<1>2. ASSUME NEW r \in Runners, NEW I, rows' = Upserted(r, I)
      PROVE  rows'[i].protocol # None
  BY <1>1, <1>2 DEF Upserted
<1>3. ASSUME NEW r \in Runners, UpdateVerificationResult(r)
      PROVE  rows'[i].protocol # None
  BY <1>3 DEF UpdateVerificationResult
<1>4. CASE rows' = rows
  BY <1>4
<1>5. QED
  BY <1>2, <1>3, <1>4 DEF Next, Step, vars, tables, Start, FetchByTxHash,
     FetchRangeReturn, ListObserved, UpsertInteractions, ReplaceLegs, Verify,
     RewriteLegs, AggregateRead, AggregateWrite, Fail

(* A step of one runner leaves the variables of the others alone.          *)
LEMMA OthersKeepTheirs ==
  ASSUME TypeOK, NEW r \in Runners, Start(r) \/ Step(r) \/ Fail(r),
         NEW s \in Runners, s # r
  PROVE  /\ pc'[s] = pc[s] /\ listed'[s] = listed[s]
         /\ legTodo'[s] = legTodo[s] /\ todo'[s] = todo[s]
         /\ cur'[s] = cur[s] /\ result'[s] = result[s]
         /\ readLegs'[s] = readLegs[s] /\ aggTodo'[s] = aggTodo[s]
         /\ curTx'[s] = curTx[s] /\ summary'[s] = summary[s]
         /\ found'[s] = found[s]
BY DEF TypeOK, Step, Goto, NextInteraction, batch, aggregation, tables, Start,
   FetchByTxHash, FetchRangeReturn, ListObserved, UpsertInteractions,
   ReplaceLegs, Verify, UpdateVerificationResult, RewriteLegs, AggregateRead,
   AggregateWrite, Fail

(* The reports of a runner cover what it found.                            *)
LEMMA ReportsInduct == Spec => []ReportInv
<1>1. Init => ReportInv
  BY DEF Init, ReportInv, ReportInvOf, PastUpsert, PastVerify, Resting
<1>2. TypeOK /\ ReportInv /\ [Next]_vars => ReportInv'
  <2> SUFFICES ASSUME TypeOK, ReportInv, [Next]_vars, NEW s \in Runners
               PROVE  ReportInvOf(s)'
    BY DEF ReportInv
  <2> USE DEF PastUpsert, PastVerify, Resting, Goto, Detected, ReportInvOf, TypeOK
  <2>1. ReportInvOf(s) /\ Detected(s) \in SUBSET Ids
    BY ExtractType DEF ReportInv
  <2>2. \A i \in Ids : rows[i].protocol # None => rows'[i].protocol # None
    BY RowsStay
  <2>3. ASSUME NEW r \in Runners, Start(r) \/ Step(r) \/ Fail(r), r # s
        PROVE  ReportInvOf(s)'
    <3>1. /\ pc'[s] = pc[s] /\ found'[s] = found[s] /\ curTx'[s] = curTx[s]
          /\ aggTodo'[s] = aggTodo[s] /\ listed'[s] = listed[s]
      BY <2>3, OthersKeepTheirs
    <3>2. Detected(s)' = Detected(s) /\ TxOf(Detected(s))' = TxOf(Detected(s))
      BY <3>1 DEF Extract, TxOf
    <3>3. QED
      BY <2>1, <2>2, <3>1, <3>2 DEF ReportInvOf
  <2>4. ASSUME Start(s)
        PROVE  ReportInvOf(s)'
    BY <2>4 DEF Start
  <2>5. ASSUME FetchByTxHash(s) \/ FetchRangeReturn(s)
        PROVE  ReportInvOf(s)'
    BY <2>1, <2>5 DEF FetchByTxHash, FetchRangeReturn, tables, batch, aggregation
  <2>6. ASSUME ListObserved(s)
        PROVE  ReportInvOf(s)'
    BY <2>1, <2>6 DEF ListObserved, tables, aggregation, Extract, TxOf
  <2>7. ASSUME UpsertInteractions(s)
        PROVE  ReportInvOf(s)'
    <3>1. \A i \in Detected(s) : rows'[i].protocol # None
      <4>1. ProtocolOf[s] # None
        BY PipelineAssumption
      <4>2. rows' = Upserted(s, Detected(s))
        BY <2>7 DEF UpsertInteractions
      <4>3. QED
        BY <2>1, <4>1, <4>2 DEF Upserted
    <3>2. QED
      BY <2>1, <2>7, <3>1 DEF UpsertInteractions, aggregation, Extract
  <2>8. ASSUME ReplaceLegs(s) \/ Verify(s)
        PROVE  ReportInvOf(s)'
    <3>1. /\ pc[s] \in {"legs", "verify"} /\ pc'[s] \in {"legs", "verify", "update"}
          /\ found' = found /\ listed' = listed
      BY <2>8 DEF ReplaceLegs, Verify, aggregation
    <3>2. Detected(s)' = Detected(s)
      BY <3>1 DEF Extract
    <3>3. QED
      BY <2>1, <2>2, <3>1, <3>2
  <2>9. ASSUME UpdateVerificationResult(s) \/ RewriteLegs(s)
        PROVE  ReportInvOf(s)'
    <3>1. /\ pc[s] \in {"update", "rewrite"}
          /\ found' = found /\ listed' = listed
      BY <2>9 DEF UpdateVerificationResult, RewriteLegs, batch
    <3>2. /\ Detected(s)' = Detected(s)
          /\ TxOf(Detected(s))' = TxOf(Detected(s))
      BY <3>1 DEF Extract, TxOf
    <3>3. \/ pc'[s] = "aggread" /\ aggTodo'[s] = TxOf(Detected(s))
          \/ pc'[s] \in {"verify", "rewrite"}
      BY <2>9 DEF UpdateVerificationResult, RewriteLegs, NextInteraction
    <3>4. QED
      BY <2>1, <2>2, <3>1, <3>2, <3>3
  <2>10. ASSUME AggregateRead(s)
         PROVE  ReportInvOf(s)'
    <3>1. PICK t \in aggTodo[s] :
            /\ curTx' = [curTx EXCEPT ![s] = t]
            /\ aggTodo' = [aggTodo EXCEPT ![s] = @ \ {t}]
            /\ pc' = [pc EXCEPT ![s] =
                        IF Summarise(rows, t) # None THEN "aggwrite"
                        ELSE IF aggTodo[s] = {t} THEN "done" ELSE "aggread"]
      BY <2>10 DEF AggregateRead
    <3>2. \E i \in Detected(s) : i[1] = t /\ rows[i].protocol # None
      <4>1. pc[s] = "aggread"
        BY <2>10 DEF AggregateRead
      <4>2. /\ aggTodo[s] \subseteq TxOf(Detected(s))
            /\ \A i \in Detected(s) : rows[i].protocol # None
        BY <2>1, <4>1
      <4>3. PICK i \in Detected(s) : i[1] = t
        BY <3>1, <4>2 DEF TxOf
      <4>4. QED
        BY <4>2, <4>3
    <3>3. RowsOf(rows, t) # {}
      BY <2>1, <3>2 DEF RowsOf
    <3>4. pc'[s] = "aggwrite"
      BY <3>1, <3>3, SummariseType
    <3>5. QED
      BY <2>1, <2>10, <3>1, <3>4 DEF AggregateRead, tables, batch, Extract
  <2>11. ASSUME AggregateWrite(s)
         PROVE  ReportInvOf(s)'
    BY <2>1, <2>2, <2>11 DEF AggregateWrite, batch, Extract
  <2>12. ASSUME Fail(s)
         PROVE  ReportInvOf(s)'
    BY <2>12 DEF Fail
  <2>13. CASE UNCHANGED vars
    BY <2>1, <2>13 DEF vars, tables, batch, aggregation, Extract
  <2>14. QED
    BY <2>3, <2>4, <2>5, <2>6, <2>7, <2>8, <2>9, <2>10, <2>11, <2>12, <2>13
       DEF Next, Step
<1>3. QED
  BY <1>1, <1>2, TypeCorrect, PTL DEF Spec

(* A scan that returned nil has reported all it found, whatever else runs  *)
(* on the tables: rows are overwritten but never removed, so AggregateByTx *)
(* finds an interaction in every transaction.                              *)
THEOREM FindingsReported == Spec => []FindingsComplete
<1>1. ReportInv => FindingsComplete
  BY DEF ReportInv, ReportInvOf, FindingsComplete
<1>2. QED
  BY <1>1, ReportsInduct, PTL

(* Stored legs are those of a protocol that finds the id; a runner past    *)
(* its legs phase has its own legs stored for everything it found.         *)
StoredLegs ==
  \A i \in Ids :
    legs[i] = None \/ \E r \in Runners : /\ i \in Detects[ProtocolOf[r]]
                                        /\ legs[i] = LegsOf(r, i)

LegsInvOf(r) ==
  /\ pc[r] = "legs" =>
       /\ legTodo[r] \subseteq WithLegs(r, Detected(r))
       /\ \A i \in Detected(r) \ legTodo[r] : legs[i] = LegsOf(r, i)
  /\ pc[r] \in PastUpsert \ {"done"} => todo[r] \subseteq Detected(r)
  /\ pc[r] \in PastLegs => \A i \in Detected(r) : legs[i] = LegsOf(r, i)
  /\ pc[r] \in {"update", "rewrite"} =>
       cur[r] \in Detected(r) /\ readLegs[r] = LegsOf(r, cur[r])

LegsInv == StoredLegs /\ \A r \in Runners : LegsInvOf(r)

(* An id is found by one protocol only, so its runners agree on the legs   *)
(* and on the verdicts.                                                    *)
LEMMA SameProtocol ==
  ASSUME OneProtocolPerId, NEW r \in Runners, NEW s \in Runners,
         NEW i \in Detects[ProtocolOf[r]], i \in Detects[ProtocolOf[s]]
  PROVE  ProtocolOf[r] = ProtocolOf[s] /\ LegsOf(r, i) = LegsOf(s, i)
BY DEF OneProtocolPerId, LegsOf

(* What verification reads are the legs its own extractor gave, if no two  *)
(* protocols find the same id.                                             *)
THEOREM LegsAreOwn ==
  ASSUME OneProtocolPerId
  PROVE  Spec => []LegsInv
<1>1. Init => LegsInv
  BY DEF Init, LegsInv, StoredLegs, LegsInvOf, PastUpsert, PastLegs
<1>2. TypeOK /\ LegsInv /\ [Next]_vars => LegsInv'
  <2> SUFFICES ASSUME TypeOK, LegsInv, [Next]_vars
               PROVE  LegsInv'
    OBVIOUS
  <2> USE DEF TypeOK
  <2>1. \A r \in Runners : /\ LegsInvOf(r)
                           /\ Detected(r) \subseteq Detects[ProtocolOf[r]]
                           /\ Detected(r) \in SUBSET Ids
    <3>1. \A r \in Runners : Detected(r) \in SUBSET Ids
      BY ExtractType DEF Detected
    <3>2. \A r \in Runners : Detected(r) \subseteq Detects[ProtocolOf[r]]
      BY DEF Detected, Extract
    <3>3. QED
      BY <3>1, <3>2 DEF LegsInv
  <2>2. \A i \in Ids :
          \/ legs'[i] = legs[i]
          \/ \E r \in Runners : /\ i \in Detects[ProtocolOf[r]]
                              /\ legs'[i] = LegsOf(r, i)
    <3>1. ASSUME NEW r \in Runners, ReplaceLegs(r)
          PROVE  \A i \in Ids : \/ legs'[i] = legs[i]
                                \/ /\ i \in Detects[ProtocolOf[r]]
                                   /\ legs'[i] = LegsOf(r, i)
      <4>1. PICK j \in legTodo[r] : legs' = [legs EXCEPT ![j] = ProtocolOf[r]]
        BY <3>1 DEF ReplaceLegs
      <4>2. j \in Detected(r) /\ LegsOf(r, j) = ProtocolOf[r]
        BY <2>1, <3>1, <4>1 DEF ReplaceLegs, LegsInvOf, WithLegs, LegsOf
      <4>3. QED
        BY <2>1, <4>1, <4>2
    <3>2. ASSUME NEW r \in Runners, RewriteLegs(r)
          PROVE  \A i \in Ids : \/ legs'[i] = legs[i]
                                \/ /\ i \in Detects[ProtocolOf[r]]
                                   /\ legs'[i] = LegsOf(r, i)
      BY <2>1, <3>2 DEF RewriteLegs, LegsInvOf
    <3>3. CASE legs' = legs
      BY <3>3
    <3>4. QED
      BY <3>1, <3>2, <3>3 DEF Next, Step, vars, tables, Start, FetchByTxHash,
         FetchRangeReturn, ListObserved, UpsertInteractions, Verify,
         UpdateVerificationResult, AggregateRead, AggregateWrite, Fail
  <2>3. StoredLegs'
    BY <2>2 DEF LegsInv, StoredLegs
  <2>4. ASSUME NEW s \in Runners, NEW i \in Detected(s), legs[i] = LegsOf(s, i)
        PROVE  legs'[i] = LegsOf(s, i)
    BY <2>1, <2>2, <2>4, SameProtocol
  <2>5. ASSUME NEW s \in Runners
        PROVE  LegsInvOf(s)'
    <3> USE DEF PastUpsert, PastLegs, Goto, LegsInvOf
    <3>1. LegsInvOf(s)
      BY <2>1
    <3>2. CASE listed'[s] = listed[s] /\ legTodo'[s] = legTodo[s]
               /\ todo'[s] = todo[s] /\ cur'[s] = cur[s]
               /\ readLegs'[s] = readLegs[s] /\ pc'[s] = pc[s]
      <4>1. Detected(s)' = Detected(s)
        BY <3>2 DEF Detected, Extract
      <4>2. QED
        BY <2>4, <3>1, <3>2, <4>1 DEF WithLegs
    <3>3. ASSUME NEW r \in Runners, Start(r) \/ Step(r) \/ Fail(r), r # s
          PROVE  LegsInvOf(s)'
      BY <3>2, <3>3, OthersKeepTheirs
    <3>4. ASSUME Start(s) \/ FetchByTxHash(s) \/ FetchRangeReturn(s)
          PROVE  LegsInvOf(s)'
      BY <3>4 DEF Start, FetchByTxHash, FetchRangeReturn
    <3>5. ASSUME ListObserved(s)
          PROVE  LegsInvOf(s)'
      BY <3>5 DEF ListObserved, Detected
    <3>6. ASSUME UpsertInteractions(s)
          PROVE  LegsInvOf(s)'
      <4>1. /\ legs' = legs /\ Detected(s)' = Detected(s)
            /\ legTodo'[s] = WithLegs(s, Detected(s)) /\ todo'[s] = Detected(s)
            /\ pc'[s] = IF WithLegs(s, Detected(s)) = {} THEN "verify" ELSE "legs"
        BY <3>6 DEF UpsertInteractions, Detected, Extract
      <4>2. ASSUME NEW i \in Detected(s) \ WithLegs(s, Detected(s))
            PROVE  legs[i] = LegsOf(s, i)
        <5>1. LegsOf(s, i) = None /\ i \in Ids
          BY <2>1 DEF WithLegs
        <5>2. ASSUME NEW r \in Runners, i \in Detects[ProtocolOf[r]], legs[i] = LegsOf(r, i)
              PROVE  legs[i] = LegsOf(s, i)
          BY <2>1, <5>2, SameProtocol
        <5>3. QED
          BY <5>1, <5>2 DEF LegsInv, StoredLegs
      <4>3. WithLegs(s, Detected(s))' = WithLegs(s, Detected(s))
        BY <4>1 DEF WithLegs
      <4>4. QED
        BY <4>1, <4>2, <4>3
    <3>7. ASSUME ReplaceLegs(s)
          PROVE  LegsInvOf(s)'
      <4>1. PICK j \in legTodo[s] :
              /\ legs' = [legs EXCEPT ![j] = ProtocolOf[s]]
              /\ legTodo' = [legTodo EXCEPT ![s] = @ \ {j}]
              /\ pc' = [pc EXCEPT ![s] = IF legTodo[s] = {j} THEN "verify" ELSE "legs"]
        BY <3>7 DEF ReplaceLegs
      <4>2. /\ pc[s] = "legs" /\ todo' = todo
            /\ Detected(s)' = Detected(s)
            /\ WithLegs(s, Detected(s))' = WithLegs(s, Detected(s))
        BY <3>7 DEF ReplaceLegs, Detected, Extract, WithLegs
      <4>3. j \in Ids /\ legs'[j] = LegsOf(s, j)
        BY <2>1, <3>1, <4>1, <4>2 DEF WithLegs, LegsOf
      <4>4. \A i \in Detected(s) \ legTodo'[s] : legs'[i] = LegsOf(s, i)
        BY <2>4, <3>1, <4>1, <4>2, <4>3
      <4>5. QED
        BY <3>1, <4>1, <4>2, <4>4
    <3>8. ASSUME Verify(s)
          PROVE  LegsInvOf(s)'
      <4>1. PICK j \in todo[s] :
              /\ cur' = [cur EXCEPT ![s] = j]
              /\ todo' = [todo EXCEPT ![s] = @ \ {j}]
              /\ readLegs' = [readLegs EXCEPT ![s] = legs[j]]
        BY <3>8 DEF Verify
      <4>2. /\ pc[s] = "verify" /\ pc'[s] = "update" /\ legs' = legs
            /\ Detected(s)' = Detected(s)
        BY <3>8 DEF Verify, Detected, Extract, tables
      <4>3. QED
        BY <3>1, <4>1, <4>2
    <3>9. ASSUME UpdateVerificationResult(s) \/ RewriteLegs(s)
          PROVE  LegsInvOf(s)'
      <4>1. /\ pc[s] \in {"update", "rewrite"}
            /\ \/ pc[s] = "update" /\ pc'[s] = "rewrite"
               \/ pc'[s] \in {"verify", "aggread"}
            /\ todo' = todo /\ cur' = cur /\ readLegs' = readLegs
            /\ Detected(s)' = Detected(s)
        BY <3>9 DEF UpdateVerificationResult, RewriteLegs, NextInteraction,
           batch, Detected, Extract
      <4>2. QED
        BY <2>4, <3>1, <4>1
    <3>10. ASSUME AggregateRead(s) \/ AggregateWrite(s)
           PROVE  LegsInvOf(s)'
      <4>1. /\ pc[s] \in {"aggread", "aggwrite"}
            /\ pc'[s] \in {"aggread", "aggwrite", "done"}
            /\ todo' = todo /\ Detected(s)' = Detected(s)
        BY <3>10 DEF AggregateRead, AggregateWrite, batch, Detected, Extract
      <4>2. QED
        BY <2>4, <3>1, <4>1
    <3>11. ASSUME Fail(s)
           PROVE  LegsInvOf(s)'
      BY <3>11 DEF Fail
    <3>12. CASE UNCHANGED vars
      BY <3>2, <3>12 DEF vars, batch
    <3>13. QED
      BY <3>3, <3>4, <3>5, <3>6, <3>7, <3>8, <3>9, <3>10, <3>11, <3>12
         DEF Next, Step
  <2>6. QED
    BY <2>3, <2>5 DEF LegsInv
<1>3. QED
  BY <1>1, <1>2, TypeCorrect, PTL DEF Spec

(* Some verifier may judge an interaction of t strict on its own legs.     *)
MayBeStrict(t) ==
  \E r \in Runners : \E i \in Extract(r, {t}) :
    "strict" \in VerdictsOn(r, i, LegsOf(r, i))

(* Where a strict verdict may stand: a row, a stored summary, a result in  *)
(* hand, a summary read from the rows.                                     *)
StrictInv ==
  /\ \A i \in Ids : rows[i].verdict = "strict" => MayBeStrict(i[1])
  /\ \A t \in Txs : summaries[t] # None /\ summaries[t].strict => MayBeStrict(t)
  /\ \A r \in Runners :
       /\ pc[r] = "update" /\ result[r] = "strict" => MayBeStrict(cur[r][1])
       /\ pc[r] = "aggwrite" =>
            /\ summary[r] # None /\ curTx[r] \in Txs
            /\ summary[r].strict => MayBeStrict(curTx[r])

(* A strict summary has a strict row below it.                             *)
LEMMA StrictSummary ==
  ASSUME NEW R, NEW t, Summarise(R, t) # None, Summarise(R, t).strict
  PROVE  \E i \in Ids : i[1] = t /\ R[i].verdict = "strict"
<1>1. Summarise(R, t).strict = \E i \in RowsOf(R, t) : R[i].verdict = "strict"
  BY DEF Summarise
<1>2. QED
  BY <1>1 DEF RowsOf

(* No failure, rescan or interleaving makes a strict flash loan of an      *)
(* interaction that no verifier would judge strict on its own legs.        *)
THEOREM NothingIsInvented ==
  ASSUME OneProtocolPerId
  PROVE  Spec => []NothingInvented
<1>1. Init => StrictInv
  BY DEF Init, StrictInv, NoRow
<1>2. TypeOK /\ LegsInv /\ StrictInv /\ [Next]_vars => StrictInv'
  <2> SUFFICES ASSUME TypeOK, LegsInv, StrictInv, [Next]_vars
               PROVE  StrictInv'
    OBVIOUS
  <2> USE DEF TypeOK, Goto
  <2>1. \A i \in Ids : rows'[i].verdict = "strict" => MayBeStrict(i[1])
    <3>1. ASSUME NEW r \in Runners, NEW I, rows' = Upserted(r, I)
          PROVE  \A i \in Ids : rows'[i].verdict = "strict" => MayBeStrict(i[1])
      BY <3>1 DEF Upserted, StrictInv
    <3>2. ASSUME NEW r \in Runners, UpdateVerificationResult(r)
          PROVE  \A i \in Ids : rows'[i].verdict = "strict" => MayBeStrict(i[1])
      <4>1. \A i \in Ids : \/ rows'[i] = rows[i]
                           \/ i = cur[r] /\ rows'[i].verdict = result[r]
        BY <3>2 DEF UpdateVerificationResult
      <4>2. pc[r] = "update"
        BY <3>2 DEF UpdateVerificationResult
      <4>3. QED
        BY <4>1, <4>2 DEF StrictInv
    <3>3. CASE rows' = rows
      BY <3>3 DEF StrictInv
    <3>4. QED
      BY <3>1, <3>2, <3>3 DEF Next, Step, vars, tables, Start, FetchByTxHash,
         FetchRangeReturn, ListObserved, UpsertInteractions, ReplaceLegs, Verify,
         RewriteLegs, AggregateRead, AggregateWrite, Fail
  <2>2. \A t \in Txs : summaries'[t] # None /\ summaries'[t].strict => MayBeStrict(t)
    <3>1. ASSUME NEW r \in Runners, AggregateWrite(r)
          PROVE  \A t \in Txs : summaries'[t] # None /\ summaries'[t].strict => MayBeStrict(t)
      <4>1. \A t \in Txs : \/ summaries'[t] = summaries[t]
                           \/ t = curTx[r] /\ summaries'[t] = summary[r]
        BY <3>1 DEF AggregateWrite
      <4>2. pc[r] = "aggwrite"
        BY <3>1 DEF AggregateWrite
      <4>3. QED
        BY <4>1, <4>2 DEF StrictInv
    <3>2. CASE summaries' = summaries
      BY <3>2 DEF StrictInv
    <3>3. QED
      BY <3>1, <3>2 DEF Next, Step, vars, tables, Start, FetchByTxHash,
         FetchRangeReturn, ListObserved, UpsertInteractions, ReplaceLegs, Verify,
         UpdateVerificationResult, RewriteLegs, AggregateRead, Fail
  <2>3. ASSUME NEW s \in Runners, pc'[s] = "update", result'[s] = "strict"
        PROVE  MayBeStrict(cur'[s][1])
    <3>1. ASSUME Verify(s)
          PROVE  MayBeStrict(cur'[s][1])
      <4>1. PICK i \in todo[s] :
              /\ cur' = [cur EXCEPT ![s] = i]
              /\ \E v \in VerdictsOn(s, i, legs[i]) :
                   result' = [result EXCEPT ![s] = v]
        BY <3>1 DEF Verify
      <4>2. "strict" \in VerdictsOn(s, i, legs[i])
        BY <2>3, <4>1
      <4>3. i \in Detected(s) /\ legs[i] = LegsOf(s, i)
        BY <3>1, <4>1 DEF Verify, LegsInv, LegsInvOf, PastUpsert, PastLegs
      <4>4. i \in Extract(s, {i[1]})
        BY <4>3 DEF Detected, Extract
      <4>5. QED
        BY <4>1, <4>2, <4>3, <4>4 DEF MayBeStrict
    <3>2. CASE pc'[s] = pc[s] /\ result'[s] = result[s] /\ cur'[s] = cur[s]
      BY <2>3, <3>2 DEF StrictInv
    <3>3. QED
      <4>1. ASSUME NEW r \in Runners, Start(r) \/ Step(r) \/ Fail(r), r # s
            PROVE  MayBeStrict(cur'[s][1])
        BY <3>2, <4>1, OthersKeepTheirs
      <4>2. ASSUME Start(s) \/ Step(s) \/ Fail(s)
            PROVE  Verify(s)
        BY <2>3, <4>2 DEF Step, NextInteraction, Start, FetchByTxHash,
           FetchRangeReturn, ListObserved, UpsertInteractions, ReplaceLegs,
           UpdateVerificationResult, RewriteLegs, AggregateRead,
           AggregateWrite, Fail, Resting
      <4>3. CASE UNCHANGED vars
        BY <3>2, <4>3 DEF vars, batch
      <4>4. QED
        BY <3>1, <4>1, <4>2, <4>3 DEF Next
  <2>4. ASSUME NEW s \in Runners, pc'[s] = "aggwrite"
        PROVE  /\ summary'[s] # None /\ curTx'[s] \in Txs
               /\ summary'[s].strict => MayBeStrict(curTx'[s])
    <3> DEFINE Goal == /\ summary'[s] # None /\ curTx'[s] \in Txs
                       /\ summary'[s].strict => MayBeStrict(curTx'[s])
    <3>1. ASSUME AggregateRead(s)
          PROVE  Goal
      <4>1. PICK t \in aggTodo[s] :
              /\ curTx' = [curTx EXCEPT ![s] = t]
              /\ summary' = [summary EXCEPT ![s] = Summarise(rows, t)]
              /\ pc' = [pc EXCEPT ![s] =
                          IF Summarise(rows, t) # None THEN "aggwrite"
                          ELSE IF aggTodo[s] = {t} THEN "done" ELSE "aggread"]
        BY <3>1 DEF AggregateRead
      <4>2. Summarise(rows, t) # None
        BY <2>4, <4>1
      <4>3. curTx'[s] = t /\ summary'[s] = Summarise(rows, t)
        BY <4>1
      <4>4. Summarise(rows, t).strict => MayBeStrict(t)
        BY <4>2, StrictSummary DEF StrictInv
      <4>5. QED
        BY <4>2, <4>3, <4>4
    <3>2. CASE pc'[s] = pc[s] /\ summary'[s] = summary[s] /\ curTx'[s] = curTx[s]
      BY <2>4, <3>2 DEF StrictInv
    <3>3. QED
      <4>1. ASSUME NEW r \in Runners, Start(r) \/ Step(r) \/ Fail(r), r # s
            PROVE  Goal
        BY <3>2, <4>1, OthersKeepTheirs
      <4>2. ASSUME Start(s) \/ Step(s) \/ Fail(s)
            PROVE  AggregateRead(s)
        BY <2>4, <4>2 DEF Step, NextInteraction, Start, FetchByTxHash,
           FetchRangeReturn, ListObserved, UpsertInteractions, ReplaceLegs,
           Verify, UpdateVerificationResult, RewriteLegs, AggregateWrite, Fail,
           Resting
      <4>3. CASE UNCHANGED vars
        BY <3>2, <4>3 DEF vars, aggregation
      <4>4. QED
        BY <3>1, <4>1, <4>2, <4>3 DEF Next
  <2>5. QED
    BY <2>1, <2>2, <2>3, <2>4 DEF StrictInv, MayBeStrict, Extract, VerdictsOn,
       LegsOf, Excluded
<1>3. StrictInv => NothingInvented
  BY DEF StrictInv, NothingInvented, MayBeStrict
<1>4. QED
  BY <1>1, <1>2, <1>3, TypeCorrect, LegsAreOwn, PTL DEF Spec

-------------------------------------------------------------------------------
(* Runners that may share transactions, but no id across protocols.        *)

(* What a runner has upserted is labelled with its protocol.               *)
LabelInv ==
  \A r \in Runners : pc[r] \in PastUpsert =>
    \A i \in Detected(r) : rows[i].protocol = ProtocolOf[r]

(* A step relabels only ids its runner finds, and with its own protocol.   *)
LEMMA LabelsOwn ==
  ASSUME TypeOK, LegsInv, NEW r \in Runners, Start(r) \/ Step(r) \/ Fail(r), NEW i \in Ids
  PROVE  \/ rows'[i].protocol = rows[i].protocol
         \/ i \in Detected(r) /\ rows'[i].protocol = ProtocolOf[r]
<1> USE DEF TypeOK
<1>1. ASSUME NEW I \in SUBSET Detected(r), rows' = Upserted(r, I)
      PROVE  \/ rows'[i].protocol = rows[i].protocol
             \/ i \in Detected(r) /\ rows'[i].protocol = ProtocolOf[r]
  BY <1>1 DEF Upserted
<1>2. UpsertInteractions(r) => rows' = Upserted(r, Detected(r))
  BY DEF UpsertInteractions, Detected
<1>3. Fail(r) => \E I \in SUBSET Detected(r) : rows' = Upserted(r, I)
  BY DEF Fail, Detected
<1>4. UpdateVerificationResult(r) => rows'[i].protocol = rows[i].protocol
  BY DEF UpdateVerificationResult
<1>5. CASE rows' = rows
  BY <1>5
<1>6. QED
  BY <1>1, <1>2, <1>3, <1>4, <1>5 DEF Step, tables, Start, FetchByTxHash,
     FetchRangeReturn, ListObserved, ReplaceLegs, Verify, RewriteLegs,
     AggregateRead, AggregateWrite

(* Where no two protocols find an interaction under one id, each has a row *)
(* of its own with the label of its protocol after a scan that returned    *)
(* nil, even if runners scan the same transactions at the same time.       *)
THEOREM InteractionsAreSeparate ==
  ASSUME OneProtocolPerId
  PROVE  Spec => []InteractionsRecordedSeparately
<1>1. Init => LabelInv
  BY DEF Init, LabelInv, PastUpsert
<1>2. TypeOK /\ LegsInv /\ LabelInv /\ [Next]_vars => LabelInv'
  <2> SUFFICES ASSUME TypeOK, LegsInv, LabelInv, [Next]_vars, NEW s \in Runners,
                      pc'[s] \in PastUpsert, NEW i \in Detected(s)'
               PROVE  rows'[i].protocol = ProtocolOf[s]
    BY DEF LabelInv
  <2> USE DEF TypeOK, PastUpsert, Goto
  <2>1. CASE UNCHANGED vars
    BY <2>1 DEF vars, tables, batch, LabelInv, Detected
  <2>2. ASSUME NEW r \in Runners, Start(r) \/ Step(r) \/ Fail(r), r # s
        PROVE  rows'[i].protocol = ProtocolOf[s]
    <3>1. pc'[s] = pc[s] /\ listed'[s] = listed[s]
      BY <2>2, OthersKeepTheirs
    <3>2. i \in Detected(s) /\ i \in Ids
      BY <3>1, ExtractType DEF Detected
    <3>3. rows[i].protocol = ProtocolOf[s]
      BY <3>1, <3>2 DEF LabelInv
    <3>4. i \in Detected(r) => ProtocolOf[r] = ProtocolOf[s]
      BY <3>2, SameProtocol DEF Detected, Extract
    <3>5. QED
      BY <2>2, <3>2, <3>3, <3>4, LabelsOwn
  <2>3. ASSUME UpsertInteractions(s)
        PROVE  rows'[i].protocol = ProtocolOf[s]
    <3>1. rows' = Upserted(s, Detected(s)) /\ listed' = listed
      BY <2>3 DEF UpsertInteractions, Detected
    <3>2. i \in Detected(s) /\ i \in Ids
      BY <3>1, ExtractType DEF Detected
    <3>3. QED
      BY <3>1, <3>2 DEF Upserted
  <2>4. ASSUME Start(s) \/ FetchByTxHash(s) \/ FetchRangeReturn(s) \/ Fail(s)
        PROVE  rows'[i].protocol = ProtocolOf[s]
    <3>1. pc'[s] \in {"fetch", "list", "failed"}
      BY <2>4 DEF Start, FetchByTxHash, FetchRangeReturn, Fail
    <3>2. QED
      BY <3>1
  <2>5. ASSUME ListObserved(s)
        PROVE  rows'[i].protocol = ProtocolOf[s]
    <3>1. pc'[s] = "done" /\ listed'[s] = observed /\ Extract(s, observed) = {}
      BY <2>5 DEF ListObserved
    <3>2. QED
      BY <3>1 DEF Detected
  <2>6. ASSUME ReplaceLegs(s) \/ Verify(s) \/ UpdateVerificationResult(s)
                 \/ RewriteLegs(s) \/ AggregateRead(s) \/ AggregateWrite(s)
        PROVE  rows'[i].protocol = ProtocolOf[s]
    <3>1. pc[s] \in PastUpsert /\ listed' = listed
      BY <2>6 DEF ReplaceLegs, Verify, UpdateVerificationResult, RewriteLegs,
         AggregateRead, AggregateWrite, batch
    <3>2. i \in Detected(s) /\ i \in Ids
      BY <3>1, ExtractType DEF Detected
    <3>3. rows[i].protocol = ProtocolOf[s]
      BY <3>1, <3>2 DEF LabelInv
    <3>4. QED
      BY <2>6, <3>2, <3>3, LabelsOwn DEF Step
  <2>7. QED
    BY <2>1, <2>2, <2>3, <2>4, <2>5, <2>6 DEF Next, Step
<1>3. LabelInv => InteractionsRecordedSeparately
  BY DEF LabelInv, InteractionsRecordedSeparately, PastUpsert
<1>4. QED
  BY <1>1, <1>2, <1>3, TypeCorrect, LegsAreOwn, PTL DEF Spec

-------------------------------------------------------------------------------
(* Runners that find nothing in the same transaction.                      *)

(* The rows of a runner: labelled once upserted, and with a verdict of     *)
(* their own once verified.                                                *)
VerdictInvOf(r) ==
  /\ pc[r] \in PastUpsert => \A i \in Detected(r) : rows[i].protocol = ProtocolOf[r]
  /\ pc[r] = "legs" => todo[r] = Detected(r)
  /\ pc[r] \in PastLegs =>
       \A i \in Detected(r) \ todo[r] :
         \/ pc[r] = "update" /\ i = cur[r]
         \/ rows[i].verdict \in VerdictsOn(r, i, LegsOf(r, i))
  /\ pc[r] = "update" => result[r] \in VerdictsOn(r, cur[r], LegsOf(r, cur[r]))
  /\ pc[r] \in PastVerify => Detected(r) \cap todo[r] = {}

VerdictInv == \A r \in Runners : VerdictInvOf(r)

(* The summaries it has written, and the one it is about to write.         *)
SummaryInvOf(r) ==
  /\ pc[r] \in PastVerify => \A t \in found[r] : summaries[t] = Summarise(rows, t)
  /\ pc[r] = "aggwrite" => summary[r] = Summarise(rows, curTx[r])

SummaryInv == \A r \in Runners : SummaryInvOf(r)

(* No shared transaction, so no shared id.                                 *)
LEMMA ApartById ==
  ASSUME NoOverlap
  PROVE  OneProtocolPerId
BY DEF NoOverlap, OneProtocolPerId, TxOf

(* A step writes only rows of ids its runner finds, and only summaries of  *)
(* transactions it found.                                                  *)
LEMMA WritesOwn ==
  ASSUME TypeOK, ReportInv, LegsInv, NEW r \in Runners,
         Start(r) \/ Step(r) \/ Fail(r)
  PROVE  /\ \A i \in Ids : i \notin Detected(r) => rows'[i] = rows[i]
         /\ \A t \in Txs : t \notin TxOf(Detected(r)) => summaries'[t] = summaries[t]
<1> USE DEF TypeOK
<1>1. \A i \in Ids : i \notin Detected(r) => rows'[i] = rows[i]
  <2>1. ASSUME NEW I \in SUBSET Detected(r), rows' = Upserted(r, I)
        PROVE  \A i \in Ids : i \notin Detected(r) => rows'[i] = rows[i]
    BY <2>1 DEF Upserted
  <2>2. ASSUME UpdateVerificationResult(r)
        PROVE  \A i \in Ids : i \notin Detected(r) => rows'[i] = rows[i]
    <3>1. cur[r] \in Detected(r)
      BY <2>2 DEF UpdateVerificationResult, LegsInv, LegsInvOf
    <3>2. QED
      BY <2>2, <3>1 DEF UpdateVerificationResult
  <2>3. CASE rows' = rows
    BY <2>3
  <2>4. UpsertInteractions(r) => rows' = Upserted(r, Detected(r))
    BY DEF UpsertInteractions, Detected
  <2>5. Fail(r) => \E I \in SUBSET Detected(r) : rows' = Upserted(r, I)
    BY DEF Fail, Detected
  <2>6. QED
    BY <2>1, <2>2, <2>3, <2>4, <2>5 DEF Step, tables, Start, FetchByTxHash,
       FetchRangeReturn, ListObserved, ReplaceLegs, Verify, RewriteLegs,
       AggregateRead, AggregateWrite
<1>2. \A t \in Txs : t \notin TxOf(Detected(r)) => summaries'[t] = summaries[t]
  <2>1. ASSUME AggregateWrite(r)
        PROVE  \A t \in Txs : t \notin TxOf(Detected(r)) => summaries'[t] = summaries[t]
    <3>1. curTx[r] \in TxOf(Detected(r))
      BY <2>1 DEF AggregateWrite, ReportInv, ReportInvOf
    <3>2. QED
      BY <2>1, <3>1 DEF AggregateWrite
  <2>2. CASE summaries' = summaries
    BY <2>2
  <2>3. QED
    BY <2>1, <2>2 DEF Step, tables, Start, FetchByTxHash, FetchRangeReturn,
       ListObserved, UpsertInteractions, ReplaceLegs, Verify,
       UpdateVerificationResult, RewriteLegs, AggregateRead, Fail
<1>3. QED
  BY <1>1, <1>2

(* So under NoOverlap a step of another runner leaves what s found alone.  *)
LEMMA OthersLeaveMine ==
  ASSUME NoOverlap, TypeOK, ReportInv, LegsInv,
         NEW r \in Runners, Start(r) \/ Step(r) \/ Fail(r),
         NEW s \in Runners, s # r,
         NEW t \in TxOf(Detected(s))
  PROVE  /\ \A i \in Ids : i[1] = t => rows'[i] = rows[i]
         /\ summaries'[t] = summaries[t]
<1>1. t \notin TxOf(Detected(r)) /\ t \in Txs
  BY ExtractType DEF NoOverlap, TxOf, Detected, Extract
<1>2. \A i \in Ids : i[1] = t => i \notin Detected(r)
  BY <1>1 DEF TxOf
<1>3. QED
  BY <1>1, <1>2, WritesOwn

(* Summarise looks at the rows of its transaction only.                    *)
LEMMA SummariseSame ==
  ASSUME NEW R, NEW S, NEW t, \A i \in Ids : i[1] = t => R[i] = S[i]
  PROVE  Summarise(R, t) = Summarise(S, t)
<1>1. RowsOf(R, t) = RowsOf(S, t)
  BY DEF RowsOf
<1>2. \A i \in RowsOf(R, t) : R[i] = S[i]
  BY DEF RowsOf
<1>3. /\ {i \in RowsOf(R, t) : R[i].verdict = "strict"}
           = {i \in RowsOf(S, t) : S[i].verdict = "strict"}
      /\ {R[i].protocol : i \in RowsOf(R, t)} = {S[i].protocol : i \in RowsOf(S, t)}
      /\ (\E i \in RowsOf(R, t) : R[i].verdict # "unverified")
           = (\E i \in RowsOf(S, t) : S[i].verdict # "unverified")
      /\ (\E i \in RowsOf(R, t) : R[i].verdict = "strict")
           = (\E i \in RowsOf(S, t) : S[i].verdict = "strict")
  BY <1>1, <1>2
<1>4. QED
  BY <1>1, <1>3 DEF Summarise

(* A scan that returned nil leaves each interaction it found labelled with *)
(* its protocol and with the verdict its own legs earn, whatever failed    *)
(* scans left in the tables before.                                        *)
THEOREM VerdictsAreEarned ==
  ASSUME NoOverlap
  PROVE  Spec => [](InteractionsRecordedSeparately /\ VerdictsEarned)
<1>1. Init => VerdictInv
  BY DEF Init, VerdictInv, VerdictInvOf, PastUpsert, PastLegs, PastVerify
<1>2. TypeOK /\ ReportInv /\ LegsInv /\ VerdictInv /\ [Next]_vars => VerdictInv'
  <2> SUFFICES ASSUME TypeOK, ReportInv, LegsInv, VerdictInv, [Next]_vars,
                      NEW s \in Runners
               PROVE  VerdictInvOf(s)'
    BY DEF VerdictInv
  <2> USE DEF TypeOK, PastUpsert, PastLegs, PastVerify, Goto, VerdictInvOf
  <2>1. /\ VerdictInvOf(s) /\ LegsInvOf(s)
        /\ Detected(s) \in SUBSET Ids
    BY ExtractType DEF VerdictInv, LegsInv, Detected
  <2>2. CASE /\ pc'[s] = pc[s] /\ listed'[s] = listed[s] /\ todo'[s] = todo[s]
             /\ cur'[s] = cur[s] /\ result'[s] = result[s]
             /\ \A i \in Detected(s) : rows'[i] = rows[i]
    <3>1. Detected(s)' = Detected(s)
      BY <2>2 DEF Detected, Extract
    <3>2. QED
      BY <2>1, <2>2, <3>1
  <2>3. ASSUME NEW r \in Runners, Start(r) \/ Step(r) \/ Fail(r), r # s
        PROVE  VerdictInvOf(s)'
    <3>1. \A i \in Detected(s) : rows'[i] = rows[i]
      <4>1. ASSUME NEW i \in Detected(s)
            PROVE  rows'[i] = rows[i]
        <5>1. i[1] \in TxOf(Detected(s)) /\ i \in Ids
          BY <2>1 DEF TxOf
        <5>2. QED
          BY <2>3, <5>1, OthersLeaveMine
      <4>2. QED
        BY <4>1
    <3>2. QED
      BY <2>2, <2>3, <3>1, OthersKeepTheirs
  <2>4. ASSUME Start(s) \/ FetchByTxHash(s) \/ FetchRangeReturn(s) \/ Fail(s)
        PROVE  VerdictInvOf(s)'
    BY <2>4 DEF Start, FetchByTxHash, FetchRangeReturn, Fail
  <2>5. ASSUME ListObserved(s)
        PROVE  VerdictInvOf(s)'
    BY <2>5 DEF ListObserved, Detected
  <2>6. ASSUME UpsertInteractions(s)
        PROVE  VerdictInvOf(s)'
    <3>1. /\ rows' = Upserted(s, Detected(s)) /\ Detected(s)' = Detected(s)
          /\ todo'[s] = Detected(s) /\ pc'[s] \in {"legs", "verify"}
      BY <2>6 DEF UpsertInteractions, Detected, Extract
    <3>2. \A i \in Detected(s) : rows'[i].protocol = ProtocolOf[s]
      BY <2>1, <3>1 DEF Upserted
    <3>3. QED
      BY <3>1, <3>2
  <2>7. ASSUME ReplaceLegs(s)
        PROVE  VerdictInvOf(s)'
    <3>1. /\ pc[s] = "legs" /\ pc'[s] \in {"legs", "verify"} /\ rows' = rows
          /\ todo' = todo /\ Detected(s)' = Detected(s)
      BY <2>7 DEF ReplaceLegs, Detected, Extract
    <3>2. QED
      BY <2>1, <3>1
  <2>8. ASSUME Verify(s)
        PROVE  VerdictInvOf(s)'
    <3>1. PICK i \in todo[s] :
            /\ cur' = [cur EXCEPT ![s] = i]
            /\ todo' = [todo EXCEPT ![s] = @ \ {i}]
            /\ \E v \in VerdictsOn(s, i, legs[i]) :
                 result' = [result EXCEPT ![s] = v]
      BY <2>8 DEF Verify
    <3>2. /\ pc[s] = "verify" /\ pc'[s] = "update" /\ rows' = rows
          /\ Detected(s)' = Detected(s)
      BY <2>8 DEF Verify, Detected, Extract, tables
    <3>3. legs[i] = LegsOf(s, i)
      BY <2>1, <3>1, <3>2 DEF LegsInvOf
    <3>4. result'[s] \in VerdictsOn(s, i, LegsOf(s, i)) /\ cur'[s] = i
      BY <3>1, <3>3
    <3>5. QED
      BY <2>1, <3>1, <3>2, <3>4
  <2>9. ASSUME UpdateVerificationResult(s)
         PROVE  VerdictInvOf(s)'
    <3>1. /\ pc[s] = "update" /\ Detected(s)' = Detected(s) /\ todo' = todo
          /\ \/ pc'[s] \in {"rewrite", "verify"}
             \/ pc'[s] = "aggread" /\ todo[s] = {}
      BY <2>9 DEF UpdateVerificationResult, NextInteraction, batch, Detected, Extract
    <3>2. cur[s] \in Detected(s)
      BY <2>1, <3>1 DEF LegsInvOf
    <3>3. \A i \in Detected(s) : rows'[i].protocol = rows[i].protocol
      BY <2>1, <2>9 DEF UpdateVerificationResult
    <3>4. rows'[cur[s]].verdict = result[s]
      BY <2>1, <2>9, <3>2 DEF UpdateVerificationResult
    <3>5. \A i \in Detected(s) : i # cur[s] => rows'[i] = rows[i]
      BY <2>1, <2>9 DEF UpdateVerificationResult
    <3>6. QED
      BY <2>1, <3>1, <3>2, <3>3, <3>4, <3>5
  <2>10. ASSUME RewriteLegs(s)
         PROVE  VerdictInvOf(s)'
    <3>1. /\ pc[s] = "rewrite" /\ Detected(s)' = Detected(s) /\ todo' = todo
          /\ rows' = rows
          /\ \/ pc'[s] = "verify"
             \/ pc'[s] = "aggread" /\ todo[s] = {}
      BY <2>10 DEF RewriteLegs, NextInteraction, batch, Detected, Extract
    <3>2. QED
      BY <2>1, <3>1
  <2>11. ASSUME AggregateRead(s) \/ AggregateWrite(s)
         PROVE  VerdictInvOf(s)'
    <3>1. /\ pc[s] \in {"aggread", "aggwrite"}
          /\ pc'[s] \in {"aggread", "aggwrite", "done"}
          /\ Detected(s)' = Detected(s) /\ todo' = todo /\ rows' = rows
      BY <2>11 DEF AggregateRead, AggregateWrite, batch, tables, Detected, Extract
    <3>2. QED
      BY <2>1, <3>1
  <2>12. CASE UNCHANGED vars
    BY <2>2, <2>12 DEF vars, tables, batch
  <2>13. QED
    BY <2>3, <2>4, <2>5, <2>6, <2>7, <2>8, <2>9, <2>10, <2>11, <2>12
       DEF Next, Step
<1>3. LegsInv /\ VerdictInv => InteractionsRecordedSeparately /\ VerdictsEarned
  BY DEF LegsInv, LegsInvOf, VerdictInv, VerdictInvOf, PastUpsert, PastLegs,
     PastVerify, InteractionsRecordedSeparately, VerdictsEarned
<1>4. Spec => []ReportInv
  BY ReportsInduct
<1>5. QED
  BY <1>1, <1>2, <1>3, <1>4, TypeCorrect, LegsAreOwn, ApartById, PTL DEF Spec

(* A scan that returned nil leaves summaries that follow its rows.         *)
THEOREM SummariesFollowRows ==
  ASSUME NoOverlap
  PROVE  Spec => []SummaryFollowsRows
<1>1. Init => SummaryInv
  BY DEF Init, SummaryInv, SummaryInvOf, PastVerify
<1>2. TypeOK /\ ReportInv /\ LegsInv /\ SummaryInv /\ [Next]_vars => SummaryInv'
  <2> SUFFICES ASSUME TypeOK, ReportInv, LegsInv, SummaryInv, [Next]_vars,
                      NEW s \in Runners
               PROVE  SummaryInvOf(s)'
    BY DEF SummaryInv
  <2> USE DEF TypeOK, PastVerify, Goto, SummaryInvOf
  <2>1. SummaryInvOf(s) /\ ReportInvOf(s)
    BY DEF SummaryInv, ReportInv
  <2>2. /\ pc[s] \in PastVerify => found[s] \subseteq TxOf(Detected(s))
        /\ pc[s] = "aggwrite" => curTx[s] \in TxOf(Detected(s))
        /\ TxOf(Detected(s)) \in SUBSET Txs
    BY <2>1, ExtractType DEF ReportInvOf, Detected
  <2>3. ASSUME NEW r \in Runners, Start(r) \/ Step(r) \/ Fail(r), r # s
        PROVE  SummaryInvOf(s)'
    <3>1. ASSUME NEW t \in TxOf(Detected(s))
          PROVE  Summarise(rows', t) = Summarise(rows, t) /\ summaries'[t] = summaries[t]
      BY <2>3, OthersLeaveMine, SummariseSame
    <3>2. /\ pc'[s] = pc[s] /\ found'[s] = found[s]
          /\ summary'[s] = summary[s] /\ curTx'[s] = curTx[s]
      BY <2>3, OthersKeepTheirs
    <3>3. QED
      BY <2>1, <2>2, <3>1, <3>2
  <2>4. ASSUME Start(s) \/ FetchByTxHash(s) \/ FetchRangeReturn(s)
                \/ UpsertInteractions(s) \/ ReplaceLegs(s) \/ Verify(s) \/ Fail(s)
        PROVE  SummaryInvOf(s)'
    BY <2>4 DEF Start, FetchByTxHash, FetchRangeReturn, UpsertInteractions,
       ReplaceLegs, Verify, Fail
  <2>5. ASSUME ListObserved(s) \/ UpdateVerificationResult(s) \/ RewriteLegs(s)
        PROVE  SummaryInvOf(s)'
    <3>1. found[s] = {} /\ found' = found /\ pc'[s] # "aggwrite"
      BY <2>1, <2>5 DEF ListObserved, UpdateVerificationResult, RewriteLegs,
         NextInteraction, ReportInvOf, Resting, aggregation
    <3>2. QED
      BY <3>1
  <2>6. ASSUME AggregateRead(s)
        PROVE  SummaryInvOf(s)'
    <3>1. PICK t \in aggTodo[s] :
            /\ curTx' = [curTx EXCEPT ![s] = t]
            /\ summary' = [summary EXCEPT ![s] = Summarise(rows, t)]
      BY <2>6 DEF AggregateRead
    <3>2. /\ pc[s] \in PastVerify /\ rows' = rows /\ summaries' = summaries
          /\ found' = found
      BY <2>6 DEF AggregateRead, tables
    <3>3. curTx'[s] = t /\ summary'[s] = Summarise(rows, t)
      BY <3>1
    <3>4. QED
      BY <2>1, <3>2, <3>3
  <2>7. ASSUME AggregateWrite(s)
        PROVE  SummaryInvOf(s)'
    <3>1. /\ pc[s] = "aggwrite" /\ pc'[s] # "aggwrite" /\ rows' = rows
          /\ summaries' = [summaries EXCEPT ![curTx[s]] = summary[s]]
          /\ found'[s] = found[s] \cup {curTx[s]}
      BY <2>7 DEF AggregateWrite
    <3>2. curTx[s] \in Txs
      BY <2>2, <3>1
    <3>3. \A t \in found[s] : t \in Txs /\ summaries[t] = Summarise(rows, t)
      BY <2>1, <3>1
    <3>4. summary[s] = Summarise(rows, curTx[s])
      BY <2>1, <3>1
    <3>5. QED
      BY <3>1, <3>2, <3>3, <3>4
  <2>8. CASE UNCHANGED vars
    BY <2>1, <2>8 DEF vars, tables, aggregation
  <2>9. QED
    BY <2>3, <2>4, <2>5, <2>6, <2>7, <2>8 DEF Next, Step
<1>3. TypeOK /\ ReportInv /\ SummaryInv => SummaryFollowsRows
  <2> SUFFICES ASSUME TypeOK, ReportInv, SummaryInv,
                      NEW r \in Runners, pc[r] = "done",
                      NEW t \in TxOf(Detected(r))
               PROVE  FollowsRows(t)
    BY DEF SummaryFollowsRows
  <2>1. summaries[t] = Summarise(rows, t)
    BY DEF ReportInv, ReportInvOf, SummaryInv, SummaryInvOf, PastVerify
  <2>2. t \in Txs /\ RowsOf(rows, t) # {}
    <3>1. PICK i \in Detected(r) : i[1] = t
      BY DEF TxOf
    <3>2. i \in Ids /\ rows[i].protocol # None
      BY ExtractType DEF Detected, ReportInv, ReportInvOf, PastUpsert
    <3>3. QED
      BY <3>1, <3>2, ExtractType DEF RowsOf, Detected
  <2>3. Summarise(rows, t) # None
    BY <2>2, SummariseType DEF TypeOK
  <2>4. QED
    BY <2>1, <2>2, <2>3 DEF FollowsRows, Summarise
<1>4. QED
  BY <1>1, <1>2, <1>3, ReportsInduct, TypeCorrect, LegsAreOwn, ApartById, PTL
     DEF Spec
===============================================================================

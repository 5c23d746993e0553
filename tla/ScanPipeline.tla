----------------------------- MODULE ScanPipeline -----------------------------
(***************************************************************************)
(* ProtocolRunner.RunOnce (scanner/orchestrator/protocol_runner.go) over   *)
(* the tables it shares with every other runner: a runner per protocol in  *)
(* a console job, or a second process on the same database.  Each call to  *)
(* the database is a step, and each may fail: RunOnce then returns, what   *)
(* it wrote stays, and a later call (the next RunLoop iteration after a    *)
(* restart, the next console job) scans the range again.                   *)
(*                                                                         *)
(* The interaction_id is the SHA-1 of chain:tx:ordinal (extractor/*.go),   *)
(* and the upsert conflicts on (chain_id, tx_hash, interaction_ordinal),   *)
(* so a pair <<tx, ordinal>> stands for the row and for its legs.  The     *)
(* order of the interactions and of the transactions inside a phase is     *)
(* left open: the code ranges over a map for the legs, and over the list   *)
(* of observed transactions for the rest.                                  *)
(***************************************************************************)
EXTENDS Naturals, FiniteSets

CONSTANTS
  Runners,        \* the runners that share the database
  ProtocolOf,     \* the protocol of each runner
  SkipFetch,      \* runners with scanner.skip_tx_fetch
  Protocols,
  Txs,            \* the transactions of the scanned block range
  Ordinals,       \* interaction_ordinal
  Detects,        \* what each protocol's extractor finds: ids per protocol
  Legless,        \* ids each protocol's extractor gives no leg
  Rejected,       \* ids excluded before the legs are read (failed tx, empty data)
  Judge,          \* the verdicts a protocol's verifier may reach on its own legs
  MaxRuns,        \* calls of RunOnce per runner (bound)
  MaxFailures,    \* errors and crashes (bound)
  None            \* no row, no legs, no summary, nothing in hand

Ids == Txs \X Ordinals

(* exclusion, verified but not strict, verified and strict                 *)
Verdicts == {"unverified", "verified", "strict"}

(* A row of flashloan_transactions.                                        *)
Summaries == [verified : BOOLEAN, strict : BOOLEAN, count : Nat,
              strictCount : Nat, protocols : SUBSET Protocols]

ASSUME PipelineAssumption ==
  /\ IsFiniteSet(Txs)
  /\ IsFiniteSet(Ordinals)
  /\ ProtocolOf \in [Runners -> Protocols]
  /\ SkipFetch \subseteq Runners
  /\ Detects \in [Protocols -> SUBSET Ids]
  /\ Legless \in [Protocols -> SUBSET Ids]
  /\ Rejected \in [Protocols -> SUBSET Ids]
  /\ Judge \in [Protocols -> [Ids -> SUBSET Verdicts]]
  /\ \A p \in Protocols, i \in Ids : Judge[p][i] # {}
  /\ MaxRuns \in Nat
  /\ MaxFailures \in Nat
  /\ None \notin Protocols \cup Ids \cup Txs
  /\ None \notin Summaries

VARIABLES
  \* the tables
  observed,       \* observed_transactions
  rows,           \* protocol_interactions: the label and the verdict of an id
  legs,           \* interaction_asset_legs: whose legs an id has
  summaries,      \* flashloan_transactions
  \* one RunOnce per runner
  pc,
  listed,         \* the observed transactions it works on
  legTodo,        \* ids whose extracted legs are not written yet
  todo,           \* interactions not verified yet
  cur,            \* the interaction being verified
  result,         \* what Verify returned: the verdict
  readLegs,       \* what Verify returned: the legs it read, or None
  aggTodo,        \* orderedTxHashes still to aggregate
  curTx,          \* the transaction being aggregated
  summary,        \* the summary AggregateByTx has built
  found,          \* transactions reported with notifyFinding
  runs, failures

tables == <<observed, rows, legs, summaries>>
batch == <<listed, legTodo, todo, cur, result, readLegs>>
aggregation == <<aggTodo, curTx, summary, found>>
bounds == <<runs, failures>>
vars == <<tables, pc, batch, aggregation, bounds>>

NoRow == [protocol |-> None, verdict |-> "unverified"]

Labels == {"idle", "fetch", "list", "upsert", "legs", "verify", "update",
           "rewrite", "aggread", "aggwrite", "done", "failed"}

Resting == {"idle", "done", "failed"}

-------------------------------------------------------------------------------
(* Pure parts of the pipeline.                                             *)

(* Extract, on the transactions S.                                         *)
Extract(r, S) == {i \in Detects[ProtocolOf[r]] : i[1] \in S}

(* A slip: interactions taken for transactions.                             *)
TxOfIds(I) == I

TxOf(I) == {i[1] : i \in I}

(* The legs the extractor of r gives an interaction.                       *)
LegsOf(r, i) == IF i \in Legless[ProtocolOf[r]] THEN None ELSE ProtocolOf[r]

WithLegs(r, I) == {i \in I : LegsOf(r, i) # None}

Excluded(r, i) == i \in Rejected[ProtocolOf[r]]

(* Verify reads the legs stored for the id.  On its own legs the verdict   *)
(* is one of Judge (the events alone, or the events and a trace when there *)
(* is one); on other legs the events may match, or not, in any way.        *)
VerdictsOn(r, i, stored) ==
  IF Excluded(r, i) THEN {"unverified"}
  ELSE IF stored = LegsOf(r, i) THEN Judge[ProtocolOf[r]][i]
  ELSE Verdicts

RowsOf(R, t) == {i \in Ids : i[1] = t /\ R[i].protocol # None}

(* A slip: a verified interaction counts as strict.                        *)
SummariseVerified(R, t) ==
  LET verifiedRows == {i \in RowsOf(R, t) : R[i].verdict # "unverified"}
  IN IF RowsOf(R, t) = {} THEN None
     ELSE [verified    |-> verifiedRows # {},
           strict      |-> verifiedRows # {},
           count       |-> Cardinality(RowsOf(R, t)),
           strictCount |-> Cardinality(verifiedRows),
           protocols   |-> {R[i].protocol : i \in RowsOf(R, t)}]

(* SimpleTxAggregator.AggregateByTx: the summary of the rows of one tx.    *)
Summarise(R, t) ==
  IF RowsOf(R, t) = {} THEN None
  ELSE [verified    |-> \E i \in RowsOf(R, t) : R[i].verdict # "unverified",
        strict      |-> \E i \in RowsOf(R, t) : R[i].verdict = "strict",
        count       |-> Cardinality(RowsOf(R, t)),
        strictCount |-> Cardinality({i \in RowsOf(R, t) : R[i].verdict = "strict"}),
        protocols   |-> {R[i].protocol : i \in RowsOf(R, t)}]

TypeOK ==
  /\ observed \in SUBSET Txs
  /\ rows \in [Ids -> [protocol : Protocols \cup {None}, verdict : Verdicts]]
  /\ legs \in [Ids -> Protocols \cup {None}]
  /\ summaries \in [Txs -> Summaries \cup {None}]
  /\ pc \in [Runners -> Labels]
  /\ listed \in [Runners -> SUBSET Txs]
  /\ legTodo \in [Runners -> SUBSET Ids]
  /\ todo \in [Runners -> SUBSET Ids]
  /\ cur \in [Runners -> Ids \cup {None}]
  /\ result \in [Runners -> Verdicts]
  /\ readLegs \in [Runners -> Protocols \cup {None}]
  /\ aggTodo \in [Runners -> SUBSET Txs]
  /\ curTx \in [Runners -> Txs \cup {None}]
  /\ summary \in [Runners -> Summaries \cup {None}]
  /\ found \in [Runners -> SUBSET Txs]
  /\ runs \in [Runners -> 0 .. MaxRuns]
  /\ failures \in 0 .. MaxFailures

-------------------------------------------------------------------------------
(* RunOnce.                                                                *)

Goto(r, label) == pc' = [pc EXCEPT ![r] = label]

(* RunOnce is called: fresh locals.  FetchRange comes first, unless        *)
(* skip_tx_fetch.                                                          *)
Start(r) ==
  /\ pc[r] \in Resting
  /\ runs[r] < MaxRuns
  /\ runs' = [runs EXCEPT ![r] = @ + 1]
  /\ Goto(r, IF r \in SkipFetch THEN "list" ELSE "fetch")
  /\ found' = [found EXCEPT ![r] = {}]
  /\ UNCHANGED <<tables, batch, aggTodo, curTx, summary, failures>>

(* FetchRange stores one by one the transactions the events of the range   *)
(* name; one that is stored already is written again as it was.            *)
FetchByTxHash(r) ==
  /\ pc[r] = "fetch"
  /\ \E t \in Txs \ observed : observed' = observed \cup {t}
  /\ UNCHANGED <<rows, legs, summaries, pc, batch, aggregation, bounds>>

FetchRangeReturn(r) ==
  /\ pc[r] = "fetch"
  /\ observed = Txs
  /\ Goto(r, "list")
  /\ UNCHANGED <<tables, batch, aggregation, bounds>>

(* ListObservedTransactionsByBlockRange and Extract.  No transaction or no *)
(* interaction: RunOnce returns nil here.                                  *)
ListObserved(r) ==
  /\ pc[r] = "list"
  /\ listed' = [listed EXCEPT ![r] = observed]
  /\ Goto(r, IF Extract(r, observed) = {} THEN "done" ELSE "upsert")
  /\ UNCHANGED <<tables, legTodo, todo, cur, result, readLegs, aggregation,
                 bounds>>

(* A slip: the upsert conflicts on (chain_id, tx_hash), a row per tx.       *)
UpsertedPerTx(r, I) ==
  [i \in Ids |-> IF i \in I /\ i = (CHOOSE j \in I : j[1] = i[1])
                 THEN [protocol |-> ProtocolOf[r], verdict |-> "unverified"]
                 ELSE rows[i]]

Upserted(r, I) ==
  [i \in Ids |-> IF i \in I
                 THEN [protocol |-> ProtocolOf[r], verdict |-> "unverified"]
                 ELSE rows[i]]

(* UpsertInteractions: a new row, or the whole old row overwritten, its    *)
(* protocol, verdict and notes included.                                   *)
UpsertInteractions(r) ==
  /\ pc[r] = "upsert"
  /\ LET I == Extract(r, listed[r])
     IN /\ rows' = Upserted(r, I)
        /\ legTodo' = [legTodo EXCEPT ![r] = WithLegs(r, I)]
        /\ todo' = [todo EXCEPT ![r] = I]
        /\ Goto(r, IF WithLegs(r, I) = {} THEN "verify" ELSE "legs")
  /\ UNCHANGED <<observed, legs, summaries, listed, cur, result, readLegs,
                 aggregation, bounds>>

(* ReplaceInteractionLegs of the extracted legs, in the order of a map;    *)
(* an interaction without legs keeps what is stored.                       *)
ReplaceLegs(r) ==
  /\ pc[r] = "legs"
  /\ \E i \in legTodo[r] :
       /\ legs' = [legs EXCEPT ![i] = ProtocolOf[r]]
       /\ legTodo' = [legTodo EXCEPT ![r] = @ \ {i}]
       /\ Goto(r, IF legTodo[r] = {i} THEN "verify" ELSE "legs")
  /\ UNCHANGED <<observed, rows, summaries, listed, todo, cur, result,
                 readLegs, aggregation, bounds>>

(* Verify reads the transaction, the stored legs, the events and, when     *)
(* tracing, the trace of the next interaction.                             *)
Verify(r) ==
  /\ pc[r] = "verify"
  /\ \E i \in todo[r] :
       /\ cur' = [cur EXCEPT ![r] = i]
       /\ todo' = [todo EXCEPT ![r] = @ \ {i}]
       /\ readLegs' = [readLegs EXCEPT ![r] = legs[i]]
       /\ \E v \in VerdictsOn(r, i, legs[i]) :
            result' = [result EXCEPT ![r] = v]
  /\ Goto(r, "update")
  /\ UNCHANGED <<tables, listed, legTodo, aggregation, bounds>>

(* Slips: the test of seenTxs stands before the verification, and a        *)
(* rejected interaction leaves its transaction out of orderedTxHashes.     *)
NextInteractionSeen(r) ==
  LET rest == {i \in todo[r] : i[1] # cur[r][1]}
  IN /\ Goto(r, IF rest = {} THEN "aggread" ELSE "verify")
     /\ aggTodo' = [aggTodo EXCEPT
                      ![r] = IF rest = {} THEN TxOf(Extract(r, listed[r])) ELSE @]
NextInteractionRejected(r) ==
  LET kept == {i \in Extract(r, listed[r]) : ~Excluded(r, i)}
  IN /\ Goto(r, IF todo[r] = {} THEN "aggread" ELSE "verify")
     /\ aggTodo' = [aggTodo EXCEPT ![r] = IF todo[r] = {} THEN TxOf(kept) ELSE @]

(* After the last interaction the transactions are aggregated.             *)
NextInteraction(r) ==
  /\ Goto(r, IF todo[r] = {} THEN "aggread" ELSE "verify")
  /\ aggTodo' = [aggTodo EXCEPT
                   ![r] = IF todo[r] = {} THEN TxOf(Extract(r, listed[r])) ELSE @]

(* A slip: the rows are addressed by their transaction.                    *)
UpdateVerificationResultByTx(r) ==
  /\ pc[r] = "update"
  /\ rows' = [i \in Ids |-> IF i[1] = cur[r][1] THEN [rows[i] EXCEPT !.verdict = result[r]]
                            ELSE rows[i]]
  /\ IF Excluded(r, cur[r])
     THEN NextInteraction(r)
     ELSE Goto(r, "rewrite") /\ UNCHANGED aggTodo
  /\ UNCHANGED <<observed, legs, summaries, batch, curTx, summary, found,
                 bounds>>

(* UpdateVerificationResult addresses the row by its interaction_id alone. *)
UpdateVerificationResult(r) ==
  /\ pc[r] = "update"
  /\ rows' = [rows EXCEPT ![cur[r]].verdict = result[r]]
  /\ IF Excluded(r, cur[r])
     THEN NextInteraction(r)
     ELSE Goto(r, "rewrite") /\ UNCHANGED aggTodo
  /\ UNCHANGED <<observed, legs, summaries, batch, curTx, summary, found,
                 bounds>>

(* The legs Verify returned, with what the events said of them, replace    *)
(* those stored.                                                           *)
RewriteLegs(r) ==
  /\ pc[r] = "rewrite"
  /\ legs' = [legs EXCEPT ![cur[r]] = readLegs[r]]
  /\ NextInteraction(r)
  /\ UNCHANGED <<observed, rows, summaries, batch, curTx, summary, found,
                 bounds>>

(* AggregateByTx reads the rows of one transaction, whoever wrote them.  A *)
(* transaction without rows has no summary and no finding.                 *)
AggregateRead(r) ==
  /\ pc[r] = "aggread"
  /\ \E t \in aggTodo[r] :
       /\ curTx' = [curTx EXCEPT ![r] = t]
       /\ aggTodo' = [aggTodo EXCEPT ![r] = @ \ {t}]
       /\ summary' = [summary EXCEPT ![r] = Summarise(rows, t)]
       /\ Goto(r, IF Summarise(rows, t) # None THEN "aggwrite"
                  ELSE IF aggTodo[r] = {t} THEN "done" ELSE "aggread")
  /\ UNCHANGED <<tables, batch, found, bounds>>

(* UpsertFlashloanTransactions overwrites the summary with the one built   *)
(* from that read; then notifyFinding.                                     *)
AggregateWrite(r) ==
  /\ pc[r] = "aggwrite"
  /\ summaries' = [summaries EXCEPT ![curTx[r]] = summary[r]]
  /\ found' = [found EXCEPT ![r] = @ \cup {curTx[r]}]
  /\ Goto(r, IF aggTodo[r] = {} THEN "done" ELSE "aggread")
  /\ UNCHANGED <<observed, rows, legs, batch, aggTodo, curTx, summary, bounds>>

(* A call returns an error and so does RunOnce, or the process dies.  The  *)
(* rows of an upsert may be written in part: gorm sends them in batches of *)
(* CreateBatchSize without a transaction around them.                      *)
Fail(r) ==
  /\ pc[r] \notin Resting
  /\ failures < MaxFailures
  /\ failures' = failures + 1
  /\ Goto(r, "failed")
  /\ \E I \in SUBSET (IF pc[r] = "upsert" THEN Extract(r, listed[r]) ELSE {}) :
       rows' = Upserted(r, I)
  /\ UNCHANGED <<observed, legs, summaries, batch, aggregation, runs>>

-------------------------------------------------------------------------------
Init ==
  /\ observed = {}
  /\ rows = [i \in Ids |-> NoRow]
  /\ legs = [i \in Ids |-> None]
  /\ summaries = [t \in Txs |-> None]
  /\ pc = [r \in Runners |-> "idle"]
  /\ listed = [r \in Runners |-> {}]
  /\ legTodo = [r \in Runners |-> {}]
  /\ todo = [r \in Runners |-> {}]
  /\ cur = [r \in Runners |-> None]
  /\ result = [r \in Runners |-> "unverified"]
  /\ readLegs = [r \in Runners |-> None]
  /\ aggTodo = [r \in Runners |-> {}]
  /\ curTx = [r \in Runners |-> None]
  /\ summary = [r \in Runners |-> None]
  /\ found = [r \in Runners |-> {}]
  /\ runs = [r \in Runners |-> 0]
  /\ failures = 0

Step(r) ==
  \/ FetchByTxHash(r) \/ FetchRangeReturn(r) \/ ListObserved(r)
  \/ UpsertInteractions(r)
  \/ ReplaceLegs(r) \/ Verify(r) \/ UpdateVerificationResult(r)
  \/ RewriteLegs(r) \/ AggregateRead(r) \/ AggregateWrite(r)

Next == \E r \in Runners : Start(r) \/ Step(r) \/ Fail(r)

Spec == Init /\ [][Next]_vars

-------------------------------------------------------------------------------
(* The properties.                                                         *)

Detected(r) == Extract(r, listed[r])

(* Where no two runners find anything in the same transaction.             *)
NoOverlap ==
  \A r, s \in Runners :
    r # s => TxOf(Detects[ProtocolOf[r]]) \cap TxOf(Detects[ProtocolOf[s]]) = {}

(* Where no two protocols find an interaction under the same id; two       *)
(* runners of one protocol may scan the same transactions.                 *)
OneProtocolPerId ==
  \A r, s \in Runners :
    ProtocolOf[r] # ProtocolOf[s] =>
      Detects[ProtocolOf[r]] \cap Detects[ProtocolOf[s]] = {}

(* "If one tx holds several interactions, the interaction level records    *)
(* them separately" (docs/flash-loan-pattern-discussion.md:1671): after a  *)
(* scan that returned nil each interaction the extractor found has a row   *)
(* of its own, labelled with the protocol that found it.                   *)
InteractionsRecordedSeparately ==
  \A r \in Runners : pc[r] = "done" =>
    \A i \in Detected(r) : rows[i].protocol = ProtocolOf[r]

(* After a scan that returned nil the verdict and the legs of each of its  *)
(* interactions are what verification of its own legs gives, whatever      *)
(* failed scans, by this runner or others, left in the tables before.      *)
VerdictsEarned ==
  \A r \in Runners : pc[r] = "done" =>
    \A i \in Detected(r) :
      /\ legs[i] = LegsOf(r, i)
      /\ rows[i].verdict \in VerdictsOn(r, i, LegsOf(r, i))

(* The summary of a transaction says what its rows say: verified, and      *)
(* strict, when at least one interaction is, and how many there are.       *)
FollowsRows(t) ==
  LET strictRows == {i \in RowsOf(rows, t) : rows[i].verdict = "strict"}
  IN /\ summaries[t] # None
     /\ summaries[t].count = Cardinality(RowsOf(rows, t))
     /\ summaries[t].strict <=> strictRows # {}
     /\ summaries[t].strictCount = Cardinality(strictRows)
     /\ summaries[t].verified <=>
          \E i \in RowsOf(rows, t) : rows[i].verdict # "unverified"

(* After a scan that returned nil the summary of each transaction follows  *)
(* its rows, although RunOnce may fail and start over between the two.     *)
SummaryFollowsRows ==
  \A r \in Runners : pc[r] = "done" => \A t \in TxOf(Detected(r)) : FollowsRows(t)

(* When the runners of a job have all returned nil, the summaries follow   *)
(* the rows: nothing is left of the order in which they read and wrote     *)
(* (AggregateByTx reads the rows, then overwrites the summary).            *)
SummariesSettle ==
  (\A r \in Runners : pc[r] = "done") =>
    \A t \in UNION {TxOf(Detected(r)) : r \in Runners} : FollowsRows(t)

(* A scan that returned nil has reported every transaction it found an     *)
(* interaction in, the rejected ones too, even if others scanned the same  *)
(* transactions meanwhile (notifyFinding).                                 *)
FindingsComplete ==
  \A r \in Runners : pc[r] = "done" => found[r] = TxOf(Detected(r))

(* No summary says strict without an interaction of that transaction that  *)
(* some verifier may judge strict on its own legs: no failure, rescan or   *)
(* interleaving makes a strict flash loan of a plain one.                  *)
NothingInvented ==
  \A t \in Txs :
    (summaries[t] # None /\ summaries[t].strict) =>
      \E r \in Runners : \E i \in Extract(r, {t}) :
        "strict" \in VerdictsOn(r, i, LegsOf(r, i))
===============================================================================

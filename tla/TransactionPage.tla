---------------------------- MODULE TransactionPage ----------------------------
(***************************************************************************)
(* GET /transactions/:hash: QueryService.GetTransactionDetail              *)
(* (api/service/query_service.go) reads the tables a runner may be writing *)
(* at the same time (scanner/store/gorm.go), takes the stored trace of the *)
(* transaction or asks the node for one, and builds the page: the summary, *)
(* the trace and the fund flow graph.  Every read and every write of a     *)
(* table is a step, and each may fail.                                     *)
(*                                                                         *)
(* One transaction is scanned and shown.  It is a record of                *)
(*   trace   its call trace, as TraceTree has it                           *)
(*   sender  who sent it                                                   *)
(*   loans   the interactions that its scans may find; grouped when the    *)
(*           extractor took the legs from events, fees included            *)
(*   places  how many ordinals they are stored under; the ids of the rows  *)
(*           and of the legs are built on the ordinal, not on the protocol *)
(*   scans   what each RunOnce finds (bound): the loan at each place, or 0 *)
(* A scan may be of the same protocol as the one before, and find the same *)
(* interactions or more of them, or of another protocol, whose first       *)
(* interaction has the same ordinal.  Scans take turns here; ScanPipeline  *)
(* has two runners at work at once.  What the events say of a loan is left *)
(* open: Detection computes it.                                            *)
(***************************************************************************)
EXTENDS FundFlow

CONSTANTS
  Txs,
  None,
  MaxQueries,     \* requests of the page (bound)
  MaxFailures     \* failed calls, to the database or the node (bound)

VARIABLES
  tx,
  \* the tables
  rows,           \* protocol_interactions, by place: the loan and its verdict, or None
  legs,           \* interaction_asset_legs, by place: whose they are and whether as
                  \* "extracted" or as "verified", or None
  summary,        \* flashloan_transactions: the aggregated row, or None
  stored,         \* transaction_traces: "whole", "null" (a null answer), or None
  \* the runner
  scan,           \* pc, the places without new legs, those to verify, the one at
                  \* hand, whether its events match, the verdict, CachedProvider
  scans,
  \* the request
  query,          \* pc, the places whose legs are not read, and what it has read
  page,           \* the response, or None
  queries,
  failures

tables == <<rows, legs, summary, stored>>
vars == <<tx, tables, scan, scans, query, page, queries, failures>>

Verdicts == {"unverified", "verified", "strict"}

Loans == DOMAIN tx.loans
Places == 1 .. tx.places

Listed(table) == {o \in Places : table[o] # None}

-------------------------------------------------------------------------------
(* Pure parts.                                                             *)

(* A null answer is decoded into a call frame with nothing in it.          *)
NullTrace ==
  [path \in {<< >>} |->
     [from |-> NoAddress, to |-> NoAddress, error |-> FALSE,
      input |-> [method |-> "other", whole |-> FALSE]]]

TraceIn(answer) == IF answer = "whole" THEN tx.trace ELSE NullTrace

(* The legs of a loan as a scan has left them: the premium, and the fee of *)
(* a called loan, come with the verification.                              *)
LegsAs(loan, form) ==
  IF form = "verified" THEN loan.legs
  ELSE [n \in DOMAIN loan.legs |->
          [loan.legs[n] EXCEPT !.premium = << >>,
                               !.fee = IF loan.grouped THEN @ ELSE << >>]]

LegsRead(found) == IF found = None THEN << >> ELSE LegsAs(tx.loans[found.loan], found.form)

(* strict_leg: a verified leg in whose event the mode is 0.                *)
StrictLegs(found) ==
  {n \in DOMAIN LegsRead(found) : found.form = "verified" /\ ~LegsRead(found)[n].debt}

(* AggregateByTx, over the rows of all protocols.                          *)
Aggregate ==
  [verified    |-> \E o \in Listed(rows) : rows[o].verdict # "unverified",
   strict      |-> \E o \in Listed(rows) : rows[o].verdict = "strict",
   count       |-> Cardinality(Listed(rows)),
   strictCount |-> Cardinality({o \in Listed(rows) : rows[o].verdict = "strict"})]

(* mapInteractionDetail over what the request has read: the interactions   *)
(* listed, in the order of their ordinals.                                 *)
Details(read) ==
  LET listed == Taken([o \in Places |-> o], Listed(read.rows))
  IN [n \in DOMAIN listed |-> [tx.loans[read.rows[listed[n]].loan]
                                 EXCEPT !.legs = LegsRead(read.legs[listed[n]])]]

(* buildAddressRoleSummaries, on the addresses that are ever set.          *)
AddressRoles(loans) ==
  UNION {{<<loans[n].receiver, "receiver">>, <<loans[n].provider, "provider">>} :
           n \in DOMAIN loans}
    \cup {<<leg.repaidTo, "repayment_target">> :
            leg \in {l \in UNION {ToSet(loans[n].legs) : n \in DOMAIN loans} :
                       l.repaidTo # NoAddress}}

(* buildTimeline: the entry of a loan, its legs, its evidence.             *)
Timeline(loans) ==
  FlattenSeq([n \in DOMAIN loans |->
                <<<<"entrypoint", n>>>>
                  \o [k \in DOMAIN loans[n].legs |-> <<"asset_leg", n>>]
                  \o <<<<"evidence", n>>>>])

(* buildDetectionConclusion: the verdict and the counts are those of the   *)
(* aggregated row; the strict legs of all interactions are counted,        *)
(* whatever the verdicts of these.                                         *)
Conclusion(read) ==
  [verdict     |-> CASE read.summary.strict -> "strict"
                     [] ~read.summary.strict /\ read.summary.verified -> "verified"
                     [] OTHER -> "candidate",
   count       |-> read.summary.count,
   strictCount |-> read.summary.strictCount,
   strictLegs  |-> UNION {{o} \X StrictLegs(read.legs[o]) : o \in Listed(read.rows)}]

(* The response, given the interactions and the trace summary.             *)
Response(read, loans, traceSummary) ==
  [read       |-> read,
   roles      |-> AddressRoles(loans),
   timeline   |-> Timeline(loans),
   conclusion |-> Conclusion(read),
   trace      |-> traceSummary,
   graph      |-> Graph(traceSummary, loans, tx.sender)]

(* buildTraceSummary, from the answer of a trace or the lack of one.       *)
TraceSummary(loans, answer) ==
  IF answer \in {"whole", "null"} THEN SummaryOf(TraceIn(answer), loans)
  ELSE NoSummary(answer)

ResponseTo(read, loans, answer) == Response(read, loans, TraceSummary(loans, answer))

Idle == [pc |-> "idle", left |-> {}, todo |-> {}, place |-> 0, matched |-> FALSE,
         verdict |-> "unverified", cache |-> None]

(* For the properties: found is what transaction_traces held when the      *)
(* request came, had the places that had legs, and since the scans begun   *)
(* by then, if none was running.                                           *)
Closed == [pc |-> "closed", left |-> {}, summary |-> None, rows |-> << >>,
           legs |-> << >>, found |-> None, had |-> {}, since |-> None]

-------------------------------------------------------------------------------
(* The runner.                                                             *)

Least(S, o) == o \in S /\ \A p \in S : o <= p

(* RunOnce by a new runner: UpsertInteractions, which overwrites loan and  *)
(* verdict of the rows it finds and leaves the others.  An interaction     *)
(* without legs gets no new ones, and those stored stay.                   *)
UpsertInteractions ==
  /\ scan.pc = "idle"
  /\ scans < Len(tx.scans)
  /\ LET finds == tx.scans[scans + 1]
         found == {o \in Places : finds[o] # 0}
         owed == {o \in found : tx.loans[finds[o]].legs # << >>}
     IN /\ rows' = [o \in Places |->
                      IF o \in found THEN [loan |-> finds[o], verdict |-> "unverified"]
                      ELSE rows[o]]
        /\ scan' = [Idle EXCEPT !.pc = IF owed = {} THEN "verify" ELSE "legs",
                                !.left = owed, !.todo = found]
  /\ scans' = scans + 1
  /\ UNCHANGED <<tx, legs, summary, stored, query, page, queries, failures>>

Extracted(o) == [legs EXCEPT ![o] = [loan |-> rows[o].loan, form |-> "extracted"]]

(* The legs of one more interaction are stored.                            *)
Replaced(o) ==
  [scan EXCEPT !.left = @ \ {o}, !.pc = IF scan.left = {o} THEN "verify" ELSE "legs"]

(* A slip: the old legs are deleted first, in a statement of their own.    *)
ReplaceLegsInTwo ==
  /\ scan.pc = "legs"
  /\ \E o \in scan.left :
       /\ legs' = IF legs[o] = None THEN Extracted(o) ELSE [legs EXCEPT ![o] = None]
       /\ scan' = IF legs[o] = None THEN Replaced(o) ELSE scan
  /\ UNCHANGED <<tx, rows, summary, stored, scans, query, page, queries, failures>>

(* ReplaceInteractionLegs of what was extracted, in the order of a map:    *)
(* deleted and inserted in one transaction of the database.                *)
ReplaceLegs ==
  /\ scan.pc = "legs"
  /\ \E o \in scan.left : legs' = Extracted(o) /\ scan' = Replaced(o)
  /\ UNCHANGED <<tx, rows, summary, stored, scans, query, page, queries, failures>>

(* A leg of those stored opens debt.                                       *)
Debt(found) == \E n \in DOMAIN LegsRead(found) : LegsRead(found)[n].debt

(* The verdicts that the events of an interaction and its trace, if there  *)
(* is one, leave open.  A null trace has no callback.                      *)
VerdictsOn(matched, debt, trace) ==
  CASE ~matched -> {"unverified"}
    [] matched /\ debt -> {"verified"}
    [] matched /\ ~debt /\ trace = None -> {"strict"}
    [] matched /\ ~debt /\ trace = "null" -> {"unverified"}
    [] OTHER -> Verdicts

(* Verify, of the interactions in the order of their ordinals: the legs    *)
(* stored are judged.  When the events match it may ask for the trace,     *)
(* which CachedProvider asks of the node once; PersistingProvider stores   *)
(* what comes, a null answer too, and an error of the store ends nothing.  *)
Verify ==
  /\ scan.pc = "verify"
  /\ \E o \in scan.todo, matched \in BOOLEAN, answer \in {None, "whole", "null"} :
       LET trace == IF scan.cache = None THEN answer ELSE scan.cache
       IN /\ Least(scan.todo, o)
          /\ scan.cache # None \/ ~matched => answer = None
          /\ \E verdict \in VerdictsOn(matched, Debt(legs[o]), trace) :
               scan' = [scan EXCEPT !.pc = "update", !.place = o, !.matched = matched,
                                    !.verdict = verdict, !.cache = trace]
          /\ \/ stored' = (IF answer = None THEN stored ELSE answer) /\ UNCHANGED failures
             \/ /\ answer # None
                /\ failures < MaxFailures
                /\ failures' = failures + 1
                /\ UNCHANGED stored
  /\ UNCHANGED <<tx, rows, legs, summary, scans, query, page, queries>>

UpdateVerificationResult ==
  /\ scan.pc = "update"
  /\ rows' = [rows EXCEPT ![scan.place].verdict = scan.verdict]
  /\ scan' = [scan EXCEPT !.pc = "rewrite"]
  /\ UNCHANGED <<tx, legs, summary, stored, scans, query, page, queries, failures>>

(* A slip: one interaction too many.                                       *)
AdvanceLate ==
  [Idle EXCEPT !.pc = IF scan.todo = {} THEN "aggregate" ELSE "verify",
               !.todo = scan.todo \ {scan.place}, !.cache = scan.cache]

(* The loop over the interactions goes on, or is done.                     *)
Advance ==
  [Idle EXCEPT !.pc = IF scan.todo = {scan.place} THEN "aggregate" ELSE "verify",
               !.todo = scan.todo \ {scan.place}, !.cache = scan.cache]

(* What Verify returns of the legs: where the events match they are those  *)
(* verified, also when the trace has taken the verdict back; else nil, or  *)
(* the legs as they were read.                                             *)
RewriteLegs ==
  /\ scan.pc = "rewrite"
  /\ legs' = IF scan.matched /\ legs[scan.place] # None
             THEN [legs EXCEPT ![scan.place].form = "verified"]
             ELSE legs
  /\ scan' = Advance
  /\ UNCHANGED <<tx, rows, summary, stored, scans, query, page, queries, failures>>

AggregateByTx ==
  /\ scan.pc = "aggregate"
  /\ summary' = Aggregate
  /\ scan' = Idle
  /\ UNCHANGED <<tx, rows, legs, stored, scans, query, page, queries, failures>>

(* A call of RunOnce fails: what is written stays.                         *)
ScanFails ==
  /\ scan.pc # "idle"
  /\ failures < MaxFailures
  /\ failures' = failures + 1
  /\ scan' = Idle
  /\ UNCHANGED <<tx, tables, scans, query, page, queries>>

-------------------------------------------------------------------------------
(* The request.                                                            *)

(* LoadReports reads the aggregated row; without one there is no page.     *)
GetFlashloanTransaction ==
  /\ query.pc = "closed"
  /\ queries < MaxQueries
  /\ queries' = queries + 1
  /\ page' = None
  /\ query' = [Closed EXCEPT !.pc = IF summary = None THEN "absent" ELSE "interactions",
                             !.summary = summary,
                             !.found = stored,
                             !.had = Listed(legs),
                             !.since = IF scan.pc = "idle" THEN scans ELSE None]
  /\ UNCHANGED <<tx, tables, scan, scans, failures>>

(* ListProtocolInteractionsByTx: the rows of all protocols.                *)
ListInteractions ==
  /\ query.pc = "interactions"
  /\ query' = [query EXCEPT !.pc = IF Listed(rows) = {} THEN "stored" ELSE "legs",
                            !.rows = rows,
                            !.legs = [o \in Places |-> None],
                            !.left = Listed(rows)]
  /\ UNCHANGED <<tx, tables, scan, scans, page, queries, failures>>

(* The legs of one interaction after the other.                            *)
ListLegs ==
  /\ query.pc = "legs"
  /\ \E o \in query.left :
       /\ Least(query.left, o)
       /\ query' = [query EXCEPT !.legs[o] = legs[o],
                                 !.left = @ \ {o},
                                 !.pc = IF query.left = {o} THEN "stored" ELSE "legs"]
  /\ UNCHANGED <<tx, tables, scan, scans, page, queries, failures>>

Show(answer) ==
  /\ query' = [query EXCEPT !.pc = "shown"]
  /\ page' = ResponseTo(query, Details(query), answer)

(* The observed transaction and the timestamp of its block, which do not   *)
(* change, then the stored trace: it always decodes.                       *)
GetTransactionTrace ==
  /\ query.pc = "stored"
  /\ IF stored # None
     THEN Show(stored)
     ELSE query' = [query EXCEPT !.pc = "node"] /\ UNCHANGED page
  /\ UNCHANGED <<tx, tables, scan, scans, queries, failures>>

(* Without a stored trace the node is asked each time, and its answer is   *)
(* not stored.  No provider: unavailable; an error of the node: error.     *)
TraceTransaction ==
  /\ query.pc = "node"
  /\ \E answer \in {"whole", "null", "unavailable", "error"} : Show(answer)
  /\ UNCHANGED <<tx, tables, scan, scans, queries, failures>>

(* A read fails: the handler answers with an error.                        *)
QueryFails ==
  /\ query.pc \in {"interactions", "legs", "stored"}
  /\ failures < MaxFailures
  /\ failures' = failures + 1
  /\ query' = [query EXCEPT !.pc = "failed"]
  /\ UNCHANGED <<tx, tables, scan, scans, page, queries>>

(* The answer is sent; the page may be opened again.                       *)
Close ==
  /\ query.pc \in {"shown", "absent", "failed"}
  /\ query' = Closed
  /\ page' = None
  /\ UNCHANGED <<tx, tables, scan, scans, queries, failures>>

-------------------------------------------------------------------------------
Init ==
  /\ tx \in Txs
  /\ rows = [o \in Places |-> None]
  /\ legs = [o \in Places |-> None]
  /\ summary = None
  /\ stored = None
  /\ scan = Idle
  /\ scans = 0
  /\ query = Closed
  /\ page = None
  /\ queries = 0
  /\ failures = 0

Scan ==
  \/ UpsertInteractions \/ ReplaceLegs \/ Verify \/ UpdateVerificationResult
  \/ RewriteLegs \/ AggregateByTx \/ ScanFails

Query ==
  \/ GetFlashloanTransaction \/ ListInteractions \/ ListLegs
  \/ GetTransactionTrace \/ TraceTransaction \/ QueryFails \/ Close

Next == Scan \/ Query

Spec == Init /\ [][Next]_vars

-------------------------------------------------------------------------------
(* The properties.                                                         *)

Stages == {"idle", "legs", "verify", "update", "rewrite", "aggregate"}
Answers == {"whole", "null", None}
Rows == [loan : Loans, verdict : Verdicts]
StoredLegs == [loan : Loans, form : {"extracted", "verified"}]
Summaries == [verified : BOOLEAN, strict : BOOLEAN, count : Nat, strictCount : Nat]

(* What big.Int prints, or nothing.                                        *)
Decimals == {d \in Seq(48 .. 57) : Len(d) > 1 => d[1] # 48}

IsLeg(leg) ==
  leg \in [asset : {leg.asset}, borrowed : Decimals, repaid : Decimals,
           premium : Decimals, fee : Decimals, repaidTo : {leg.repaidTo},
           debt : BOOLEAN]

IsLoan(loan) ==
  /\ loan \in [provider : {loan.provider}, receiver : {loan.receiver},
                legs : Seq(ToSet(loan.legs)), grouped : BOOLEAN]
  /\ \A leg \in ToSet(loan.legs) : IsLeg(leg)

(* A transaction has loans and a trace that is a tree; a scan of it finds  *)
(* something, or RunOnce does nothing.  None is no value of a table.       *)
ASSUME PageAssumption ==
  /\ \A t \in Txs : /\ t.loans \in Seq(ToSet(t.loans)) /\ t.places \in Nat
                    /\ \A loan \in ToSet(t.loans) : IsLoan(loan)
                    /\ t.scans \in Seq([1 .. t.places -> {0} \cup DOMAIN t.loans])
                    /\ \A k \in DOMAIN t.scans : \E o \in 1 .. t.places : t.scans[k][o] # 0
                    /\ IsTrace(t.trace)
                    /\ \A n \in DOMAIN t.loans : /\ None # [loan |-> n, form |-> "extracted"]
                                                 /\ None # [loan |-> n, form |-> "verified"]
                                                 /\ \A verdict \in Verdicts :
                                                      None # [loan |-> n, verdict |-> verdict]
  /\ MaxQueries \in Nat /\ MaxFailures \in Nat
  /\ None \notin Nat \cup Summaries
  /\ None \notin {"whole", "null"}

Runners ==
  [pc : Stages, left : SUBSET Places, todo : SUBSET Places, place : {0} \cup Places,
   matched : BOOLEAN, verdict : Verdicts, cache : Answers]

Requests ==
  [pc : {"closed", "interactions", "legs", "stored", "node", "shown", "absent", "failed"},
   left : SUBSET Places, summary : Summaries \cup {None},
   rows : {<< >>} \cup [Places -> Rows \cup {None}],
   legs : {<< >>} \cup [Places -> StoredLegs \cup {None}],
   found : Answers, had : SUBSET Places, since : Nat \cup {None}]

(* What the tables, the runner and the request hold: the runner verifies   *)
(* as long as there is an interaction left, and the one at hand is one of  *)
(* them; a page is there as long as it is shown.                           *)
TypeOK ==
  /\ tx \in Txs
  /\ rows \in [Places -> Rows \cup {None}]
  /\ legs \in [Places -> StoredLegs \cup {None}]
  /\ summary \in Summaries \cup {None}
  /\ stored \in Answers
  /\ scan \in Runners
  /\ scan.left \subseteq scan.todo
  /\ scan.todo = {} <=> scan.pc \in {"idle", "aggregate"}
  /\ scan.pc \in {"update", "rewrite"} => scan.place \in scan.todo
  /\ scans \in 0 .. Len(tx.scans)
  /\ query \in Requests
  /\ query.since \in 0 .. scans \cup {None}
  /\ IF query.pc = "shown"
     THEN DOMAIN page = {"read", "roles", "timeline", "conclusion", "trace", "graph"}
     ELSE page = None
  /\ queries \in 0 .. MaxQueries
  /\ failures \in 0 .. MaxFailures

Shown == query.pc = "shown"

(* The tables of a page are read one by one while a scan may rewrite them. *)
(* An interaction that had legs when the page was asked for is shown with  *)
(* legs, though a scan replaces them meanwhile; and once its trace is      *)
(* stored the transaction is shown with one, whether the node answers or   *)
(* not.  (One whose first scan has stored the row and not yet the legs,    *)
(* or has failed there, is shown without.)  A page that was read after a   *)
(* scan and before the next, nothing having failed, agrees with itself:    *)
(* each interaction has its own legs and not those another loan had under  *)
(* the same id, the conclusion has the verdict and the counts of the       *)
(* interactions shown, verified ones have the premium of their legs, and   *)
(* every leg of a strict one is counted as strict (GetTransactionDetail,   *)
(* ReplaceInteractionLegs, AggregateByTx).                                 *)
PageHoldsTogether ==
  Shown =>
    /\ \A o \in query.had : page.read.legs[o] # None
    /\ query.found # None => page.trace.status = "available"
    /\ (failures = 0 /\ scan.pc = "idle" /\ query.since = scans) =>
         LET row == page.read.rows
             found == page.read.legs
             strict == {o \in Listed(row) : row[o].verdict = "strict"}
             verified == {o \in Listed(row) : row[o].verdict # "unverified"}
         IN /\ \A o \in Listed(row) : tx.loans[row[o].loan].legs # << >> =>
                 found[o] # None /\ found[o].loan = row[o].loan
            /\ \A o \in verified : found[o] # None => found[o].form = "verified"
            /\ page.conclusion.verdict = "strict" <=> strict # {}
            /\ page.conclusion.verdict = "candidate" <=> verified = {}
            /\ page.conclusion.count = Cardinality(Listed(row))
            /\ page.conclusion.strictCount = Cardinality(strict)
            /\ \A o \in strict : \A n \in DOMAIN LegsRead(found[o]) :
                 <<o, n>> \in page.conclusion.strictLegs

(* The frames under some roots, by the links to their parents.             *)
Under(frames, roots) ==
  LET below[depth \in 0 .. Len(frames)] ==
        IF depth = 0 THEN roots
        ELSE below[depth - 1] \cup
               {f.id : f \in {g \in ToSet(frames) :
                               g.depth = depth /\ g.parent \in below[depth - 1]}}
  IN below[Max({0} \cup {f.depth : f \in ToSet(frames)})]

(* callback_subtree_ids are the callbacks of the loan and all that was     *)
(* called under them, and nothing else: the prefix test on ids takes no    *)
(* frame with a longer number for a child (collectSubtreeFrameIDs).        *)
EvidenceIsTheCallback ==
  Shown =>
    \A e \in ToSet(page.trace.evidence) :
      e.subtree = Under(page.trace.frames, e.callbacks)

(* The order of two flows is the order of their calls, as long as their    *)
(* frames are less than ten calls deep (sortFundFlowsByTrace).             *)
FlowsInCallOrder ==
  Shown =>
    LET frameOf(flow) == CHOOSE f \in ToSet(page.trace.frames) : f.id = flow.frame
        flows == SortedFlows(page.trace)
    IN \A i, j \in DOMAIN flows :
         (i < j /\ frameOf(flows[i]).depth < 10 /\ frameOf(flows[j]).depth < 10)
           => frameOf(flows[i]).callIndex < frameOf(flows[j]).callIndex

(* The number an amount says.                                              *)
Amount(digits) ==
  LET value[n \in 0 .. Len(digits)] ==
        IF n = 0 THEN 0 ELSE 10 * value[n - 1] + (digits[n] - 48)
  IN value[Len(digits)]

(* What is owed for a leg.                                                 *)
Owed(leg) ==
  (IF Amount(leg.repaid) > 0 THEN Amount(leg.repaid) ELSE Amount(leg.borrowed))
    + Amount(leg.premium) + Amount(leg.fee)

Ends2(segment) == {segment.from, segment.to}

(* A lane begins with the loan of its leg, ends with a repayment of all    *)
(* that is owed, and has a node for each end of its segments.              *)
TellsTheLoan(lane, loan, leg) ==
  LET first == lane.segments[1]
      last == Last(lane.segments)
  IN /\ lane.provider = loan.provider /\ lane.asset = leg.asset
     /\ Amount(leg.borrowed) > 0 =>
          /\ first.action = "Borrow" /\ first.to = loan.receiver
          /\ first.amount = Compact(leg.borrowed)
     /\ last.action = "Repay" /\ last.from = loan.receiver
     /\ last.amount = Compact(ExpectedRepayment(leg))
     /\ Amount(ExpectedRepayment(leg)) = Owed(leg)
     /\ UNION {Ends2(s) : s \in ToSet(lane.segments)} = {node[1] : node \in lane.nodes}

(* Whatever the trace holds, and without one too, each leg for which       *)
(* something is owed has its lane, in order, and the lane tells that loan  *)
(* (buildFundFlowLane or, failing that, buildFallbackFundFlowLane); no     *)
(* other lane shows a repayment.                                           *)
LanesTellTheLoan ==
  Shown =>
    LET loans == Details(page.read)
        lanes == page.graph.lanes
        owed == Keep(LegsOf(loans), {l \in ToSet(LegsOf(loans)) : Owed(l.leg) > 0})
        repaid == Keep(lanes, {lane \in ToSet(lanes) :
                                 \E s \in ToSet(lane.segments) : s.action = "Repay"})
    IN /\ Len(repaid) = Len(owed)
       /\ \A n \in DOMAIN owed : TellsTheLoan(repaid[n], loans[owed[n].loan], owed[n].leg)

Swaps(lane) == {s \in ToSet(lane.segments) : s.tone = "swap"}

(* Where the execution branches come within four transfers.               *)
Reached(lane) ==
  LET reached[hops \in 0 .. MaxHops] ==
        IF hops = 0 THEN {lane.receiver}
        ELSE reached[hops - 1] \cup
               {s.to : s \in {t \in Swaps(lane) : t.from \in reached[hops - 1]}}
  IN reached[MaxHops]

(* Every execution branch of a lane starts at the receiver and goes on     *)
(* where another one arrived, within four transfers, and none gives the    *)
(* loan back or repays it: that is the last segment                        *)
(* (extractKeyExecutionSegments).                                          *)
ExecutionReached ==
  Shown =>
    \A lane \in ToSet(page.graph.lanes) : \A s \in Swaps(lane) :
      /\ s.from \in Reached(lane)
      /\ s.from = lane.receiver =>
           \A e \in ToSet(lane.segments) :
             e.action \in {"Borrow", "Repay"} => s.to \notin Ends2(e)

(* No transfer is drawn twice in a lane, as an execution branch and again  *)
(* as a top-up (executionFrameIDs).                                        *)
TransfersDrawnOnce ==
  Shown =>
    \A lane \in ToSet(page.graph.lanes) :
      \A s \in Swaps(lane) :
        LET alike == <<s.from, s.to, s.asset, s.amount>>
            drawn == {n \in DOMAIN lane.segments :
                        LET t == lane.segments[n]
                        IN /\ t.tone = "swap" \/ t.action = "Top-up"
                           /\ <<t.from, t.to, t.asset, t.amount>> = alike}
            made == {n \in DOMAIN page.trace.flows :
                       LET f == page.trace.flows[n]
                       IN <<f.source, f.target, f.asset, Compact(f.amount)>> = alike}
        IN Cardinality(drawn) <= Cardinality(made)
===============================================================================

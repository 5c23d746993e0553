------------------------- MODULE TransactionPageProofs -------------------------
(***************************************************************************)
(* Theorems about TransactionPage: what a page holds while a runner        *)
(* rewrites the rows it is read from.                                      *)
(***************************************************************************)
EXTENDS TransactionPage, TraceTreeProofs

Active == {"interactions", "legs", "stored", "node", "shown"}
Listing == Active \ {"interactions"}

(* A request reads the legs of one interaction after the other, and has    *)
(* read those of all of them when it comes to the trace.                   *)
Reading ==
  /\ query.pc \in Listing => /\ query.rows \in [Places -> Rows \cup {None}]
                             /\ query.legs \in [Places -> StoredLegs \cup {None}]
  /\ query.pc \in Listing \ {"legs"} => query.left = {}

(* Legs are those of an interaction, and are never taken away: a request   *)
(* that comes to the legs of an interaction that had some finds some.      *)
HaveLegs ==
  /\ Listed(legs) \cup scan.todo \subseteq Listed(rows)
  /\ query.pc \in Active => summary # None /\ query.had \subseteq Listed(legs)
  /\ query.pc \in Listing => \A o \in query.had \ query.left : query.legs[o] # None

(* A trace that was stored when the request came is still stored when it   *)
(* is read.                                                                *)
HaveTrace ==
  /\ query.found # None => stored # None
  /\ query.pc = "node" => query.found = None
  /\ query.pc = "shown" /\ query.found # None => page.trace.status = "available"

(* The legs of an interaction are its own, ...                             *)
HasOwn(o) ==
  (rows[o] # None /\ tx.loans[rows[o].loan].legs # << >>) =>
    legs[o] # None /\ legs[o].loan = rows[o].loan

(* ... and as its verdict says.                                            *)
Agrees(o) ==
  rows[o] # None =>
    /\ HasOwn(o)
    /\ legs[o] # None /\ rows[o].verdict # "unverified" => legs[o].form = "verified"
    /\ legs[o] # None /\ rows[o].verdict = "strict" => ~Debt(legs[o])

(* As long as nothing has failed the runner has put in order all but the   *)
(* interactions it has still to verify, and those have their own legs once *)
(* they are replaced.  A verdict comes from events that match.             *)
Progress ==
  /\ scan.pc # "legs" => scan.left = {}
  /\ scan.pc \in {"update", "rewrite"} =>
       /\ scan.verdict # "unverified" => scan.matched
       /\ scan.verdict = "strict" => ~Debt(legs[scan.place])
  /\ scan.pc = "rewrite" => rows[scan.place].verdict = scan.verdict
  /\ failures = 0 => /\ \A o \in Places \ scan.todo : Agrees(o)
                     /\ \A o \in scan.todo \ scan.left : HasOwn(o)

(* Between two scans, as long as nothing has failed, the tables agree.     *)
Settled == (failures = 0 /\ scan.pc = "idle" /\ summary # None) => summary = Aggregate

(* A request that came after the last scan has read what they still hold.  *)
ReadsThem ==
  /\ query.since = scans => scan.pc = "idle"
  /\ (failures = 0 /\ query.since = scans /\ query.pc \in Active) =>
       /\ query.summary = summary
       /\ query.pc \in Listing =>
            /\ query.rows = rows
            /\ \A o \in Listed(rows) \ query.left : query.legs[o] = legs[o]

(* The page is made of what the request has read.                          *)
PageIsRead ==
  query.pc = "shown" =>
    /\ page.read.legs = query.legs
    /\ page.read.rows = query.rows
    /\ page.conclusion = Conclusion(query)

IInv ==
  /\ TypeOK /\ Reading /\ HaveLegs /\ HaveTrace /\ Progress /\ Settled /\ ReadsThem
  /\ PageIsRead

-------------------------------------------------------------------------------
(* The operators.                                                          *)

(* Places and loans are numbered from 1, and a scan finds something.       *)
LEMMA LoansNumbered ==
  ASSUME tx \in Txs
  PROVE  /\ Len(tx.loans) \in Nat /\ Loans = 1 .. Len(tx.loans)
         /\ tx.places \in Nat /\ Places = 1 .. tx.places
         /\ Len(tx.scans) \in Nat
         /\ \A k \in 1 .. Len(tx.scans) :
              /\ tx.scans[k] \in [Places -> {0} \cup Loans]
              /\ \E o \in Places : tx.scans[k][o] # 0
<1>1. PICK S, T :
        /\ tx.loans \in Seq(S) /\ tx.places \in Nat /\ tx.scans \in Seq(T)
        /\ T = [1 .. tx.places -> {0} \cup DOMAIN tx.loans]
        /\ \A k \in DOMAIN tx.scans : \E o \in 1 .. tx.places : tx.scans[k][o] # 0
  BY PageAssumption
<1>2. \A k \in 1 .. Len(tx.scans) : tx.scans[k] \in T
  BY <1>1
<1> QED
  BY <1>1, <1>2 DEF Loans, Places

(* None is no row, and no legs.                                            *)
LEMMA RowsAreThere ==
  ASSUME tx \in Txs
  PROVE  None \notin Rows /\ None \notin StoredLegs
<1>1. \A n \in DOMAIN tx.loans :
        /\ None # [loan |-> n, form |-> "extracted"]
        /\ None # [loan |-> n, form |-> "verified"]
        /\ \A verdict \in Verdicts : None # [loan |-> n, verdict |-> verdict]
  BY PageAssumption
<1>2. \A row \in Rows : row = [loan |-> row.loan, verdict |-> row.verdict]
  BY DEF Rows
<1>3. \A found \in StoredLegs : found = [loan |-> found.loan, form |-> found.form]
  BY DEF StoredLegs
<1> QED
  BY <1>1, <1>2, <1>3 DEF Rows, StoredLegs, Loans

(* The legs of a loan are debt or not, whatever else is known of them.     *)
LEMMA LegsKeepDebt ==
  ASSUME tx \in Txs, NEW n \in Loans, NEW form
  PROVE  /\ DOMAIN LegsAs(tx.loans[n], form) = DOMAIN tx.loans[n].legs
         /\ \A k \in DOMAIN tx.loans[n].legs :
              LegsAs(tx.loans[n], form)[k].debt = tx.loans[n].legs[k].debt
<1> DEFINE loan == tx.loans[n]
<1>1. PICK S : tx.loans \in Seq(S) /\ \A l \in ToSet(tx.loans) : IsLoan(l)
  BY PageAssumption
<1>2. IsLoan(loan)
  BY <1>1 DEF Loans, ToSet
<1>3. \A k \in DOMAIN loan.legs : IsLeg(loan.legs[k])
  BY <1>2 DEF IsLoan, ToSet
<1>4. \A k \in DOMAIN loan.legs :
        DOMAIN loan.legs[k] =
          {"asset", "borrowed", "repaid", "premium", "fee", "repaidTo", "debt"}
  BY <1>3 DEF IsLeg
<1>5. CASE form = "verified"
  BY <1>5 DEF LegsAs
<1>6. CASE form # "verified"
  BY <1>4, <1>6 DEF LegsAs
<1> QED
  BY <1>5, <1>6

LEMMA DebtStays ==
  ASSUME tx \in Txs, NEW found \in StoredLegs, NEW form \in {"extracted", "verified"}
  PROVE  Debt([found EXCEPT !.form = form]) <=> Debt(found)
<1> DEFINE other == [found EXCEPT !.form = form]
<1>1. /\ found.loan \in Loans /\ other \in StoredLegs
      /\ other.loan = found.loan /\ other.form = form
  BY DEF StoredLegs
<1>2. found # None /\ other # None
  BY <1>1, RowsAreThere
<1>3. /\ LegsRead(found) = LegsAs(tx.loans[found.loan], found.form)
      /\ LegsRead(other) = LegsAs(tx.loans[found.loan], form)
  BY <1>1, <1>2 DEF LegsRead
<1> DEFINE kept == tx.loans[found.loan].legs
           as(f) == LegsAs(tx.loans[found.loan], f)
<1> HIDE DEF other
<1>4. \A f : /\ DOMAIN as(f) = DOMAIN kept
              /\ \A k \in DOMAIN kept : as(f)[k].debt = kept[k].debt
  BY <1>1, LegsKeepDebt
<1> HIDE DEF kept, as
<1>5. LegsRead(found) = as(found.form) /\ LegsRead(other) = as(form)
  BY <1>3 DEF as
<1>6. /\ DOMAIN LegsRead(found) = DOMAIN kept /\ DOMAIN LegsRead(other) = DOMAIN kept
      /\ \A k \in DOMAIN kept : LegsRead(found)[k].debt = LegsRead(other)[k].debt
  BY <1>4, <1>5
<1>7. ASSUME NEW a, NEW b, DOMAIN LegsRead(a) = DOMAIN kept,
             DOMAIN LegsRead(b) = DOMAIN kept,
             \A k \in DOMAIN kept : LegsRead(a)[k].debt = LegsRead(b)[k].debt,
             Debt(a)
      PROVE  Debt(b)
  <2>1. PICK k \in DOMAIN LegsRead(a) : LegsRead(a)[k].debt
    BY <1>7 DEF Debt
  <2>2. k \in DOMAIN LegsRead(b) /\ LegsRead(a)[k].debt = LegsRead(b)[k].debt
    BY <1>7
  <2>3. LegsRead(b)[k].debt
    BY <2>1, <2>2
  <2> QED
    BY <2>2, <2>3 DEF Debt
<1>8. Debt(other) <=> Debt(found)
  BY <1>6, <1>7
<1> QED
  BY <1>8 DEF other

(* AggregateByTx writes a whole row.                                       *)
LEMMA AggregateIsRow ==
  ASSUME tx \in Txs
  PROVE  Aggregate \in Summaries
<1> DEFINE listed == Listed(rows)
           strict == {o \in Listed(rows) : rows[o].verdict = "strict"}
<1>1. IsFiniteSet(Places)
  <2>1. tx.places \in Nat /\ Places = 1 .. tx.places
    BY LoansNumbered
  <2>2. QED
    BY <2>1, FS_Interval
<1>2. listed \subseteq Places /\ strict \subseteq Places
  BY DEF Listed
<1>3. Cardinality(listed) \in Nat /\ Cardinality(strict) \in Nat
  BY <1>1, <1>2, FS_Subset, FS_CardinalityType
<1> QED
  BY <1>3 DEF Aggregate, Summaries

(* A scan that stored the last legs goes on to verify.                     *)
LEMMA ReplacedGoesOn ==
  ASSUME scan \in Runners, NEW o \in scan.left
  PROVE  /\ Replaced(o) \in Runners
         /\ Replaced(o).left = scan.left \ {o} /\ Replaced(o).todo = scan.todo
         /\ Replaced(o).pc = IF scan.left = {o} THEN "verify" ELSE "legs"
BY DEF Replaced, Runners, Stages

(* Advance leaves the interaction at hand, and is done after the last.     *)
LEMMA AdvanceGoesOn ==
  ASSUME scan \in Runners
  PROVE  /\ Advance \in Runners
         /\ Advance.left = {} /\ Advance.todo = scan.todo \ {scan.place}
         /\ Advance.pc = IF scan.todo = {scan.place} THEN "aggregate" ELSE "verify"
BY DEF Advance, Idle, Runners, Stages, Verdicts

(* What the events leave open: no verdict without them, none that is       *)
(* strict where there is debt.                                             *)
LEMMA VerdictsAllowed ==
  ASSUME NEW matched \in BOOLEAN, NEW debt \in BOOLEAN, NEW trace,
         NEW verdict \in VerdictsOn(matched, debt, trace)
  PROVE  /\ verdict \in Verdicts
         /\ verdict # "unverified" => matched
         /\ verdict = "strict" => ~debt
<1>1. CASE ~matched
  BY <1>1 DEF VerdictsOn, Verdicts
<1>2. CASE matched /\ debt
  BY <1>2 DEF VerdictsOn, Verdicts
<1>3. CASE matched /\ ~debt
  <2>1. VerdictsOn(matched, debt, trace) \subseteq Verdicts
    BY <1>3 DEF VerdictsOn, Verdicts
  <2> QED
    BY <1>3, <2>1
<1> QED
  BY <1>1, <1>2, <1>3

-------------------------------------------------------------------------------
(* The steps of the runner, in terms of its record.                        *)

LEMMA ScanLeaves ==
  ASSUME TypeOK, Scan
  PROVE  /\ tx' = tx /\ query' = query /\ page' = page /\ queries' = queries
         /\ Loans' = Loans /\ Places' = Places
         /\ failures \in Nat /\ failures' \in Nat /\ failures' >= failures
         /\ scans \in Nat /\ scans' \in Nat
         /\ scans' = scans \/ (scan.pc = "idle" /\ scans' = scans + 1)
<1>1. Len(tx.scans) \in Nat /\ MaxFailures \in Nat
  BY LoansNumbered, PageAssumption DEF TypeOK
<1>2. tx' = tx /\ query' = query /\ page' = page /\ queries' = queries
  BY DEF Scan, UpsertInteractions, ReplaceLegs, Verify, UpdateVerificationResult,
         RewriteLegs, AggregateByTx, ScanFails
<1>3. failures' = failures \/ failures' = failures + 1
  <2>1. CASE Verify
    BY <2>1 DEF Verify
  <2>2. CASE Scan /\ ~Verify
    BY <2>2 DEF Scan, UpsertInteractions, ReplaceLegs, UpdateVerificationResult,
                RewriteLegs, AggregateByTx, ScanFails
  <2> QED
    BY <2>1, <2>2
<1>4. scans' = scans \/ (scan.pc = "idle" /\ scans' = scans + 1)
  <2>1. CASE UpsertInteractions
    BY <2>1 DEF UpsertInteractions
  <2>2. CASE Scan /\ ~UpsertInteractions
    BY <2>2 DEF Scan, ReplaceLegs, Verify, UpdateVerificationResult, RewriteLegs,
                AggregateByTx, ScanFails
  <2> QED
    BY <2>1, <2>2
<1>5. failures \in Nat /\ scans \in Nat
  BY <1>1 DEF TypeOK
<1> QED
  BY <1>2, <1>3, <1>4, <1>5 DEF Loans, Places

(* Rows are upserted for what is found, and legs owed for what has some.   *)
Upserts ==
  /\ scan.pc = "idle" /\ scan'.todo \subseteq Places /\ scan'.todo # {}
  /\ scan'.left \subseteq scan'.todo
  /\ scan'.pc = IF scan'.left = {} THEN "verify" ELSE "legs"
  /\ \A o \in Places \ scan'.todo : rows'[o] = rows[o]
  /\ \A o \in scan'.todo : rows'[o] \in Rows
  /\ \A o \in scan'.todo \ scan'.left : tx.loans[rows'[o].loan].legs = << >>
  /\ legs' = legs /\ summary' = summary /\ stored' = stored /\ scans' = scans + 1

StoresLegs ==
  /\ scan.pc = "legs" /\ scan'.todo = scan.todo
  /\ \E o \in scan.left :
       /\ legs' = Extracted(o) /\ scan'.left = scan.left \ {o}
       /\ scan'.pc = IF scan.left = {o} THEN "verify" ELSE "legs"
  /\ rows' = rows /\ summary' = summary /\ stored' = stored /\ scans' = scans

Verifies ==
  /\ scan.pc = "verify" /\ scan'.pc = "update"
  /\ scan'.todo = scan.todo /\ scan'.left = scan.left /\ scan'.place \in scan.todo
  /\ scan'.verdict # "unverified" => scan'.matched
  /\ scan'.verdict = "strict" => ~Debt(legs[scan'.place])
  /\ stored' \in {stored, "whole", "null"}
  /\ rows' = rows /\ legs' = legs /\ summary' = summary /\ scans' = scans

Updates ==
  /\ scan.pc = "update" /\ scan' = [scan EXCEPT !.pc = "rewrite"]
  /\ rows' = [rows EXCEPT ![scan.place].verdict = scan.verdict]
  /\ legs' = legs /\ summary' = summary /\ stored' = stored /\ scans' = scans

Rewrites ==
  /\ scan.pc = "rewrite" /\ scan'.left = {}
  /\ scan'.todo = scan.todo \ {scan.place}
  /\ scan'.pc = IF scan.todo = {scan.place} THEN "aggregate" ELSE "verify"
  /\ legs' = IF scan.matched /\ legs[scan.place] # None
             THEN [legs EXCEPT ![scan.place].form = "verified"] ELSE legs
  /\ rows' = rows /\ summary' = summary /\ stored' = stored /\ scans' = scans

Aggregates ==
  /\ scan.pc = "aggregate" /\ scan' = Idle /\ summary' = Aggregate
  /\ rows' = rows /\ legs' = legs /\ stored' = stored /\ scans' = scans

Fails ==
  /\ scan.pc # "idle" /\ scan' = Idle /\ failures' = failures + 1
  /\ rows' = rows /\ legs' = legs /\ summary' = summary /\ stored' = stored
  /\ scans' = scans

(* Each action is one of these, and keeps the runner's record in its type. *)
LEMMA ScanMoves ==
  ASSUME TypeOK, Scan
  PROVE  /\ scan' \in Runners
         /\ Upserts \/ StoresLegs \/ Verifies \/ Updates \/ Rewrites \/ Aggregates \/ Fails
<1>1. /\ tx \in Txs /\ scan \in Runners /\ scans \in 0 .. Len(tx.scans)
      /\ legs \in [Places -> StoredLegs \cup {None}]
  BY DEF TypeOK
<1>2. Idle \in Runners
  BY DEF Idle, Runners, Stages, Verdicts, Answers
<1>3. CASE UpsertInteractions
  <2> DEFINE finds == tx.scans[scans + 1]
             found == {o \in Places : finds[o] # 0}
             owed == {o \in found : tx.loans[finds[o]].legs # << >>}
  <2>1. /\ scan.pc = "idle" /\ scans < Len(tx.scans) /\ scans' = scans + 1
        /\ rows' = [o \in Places |->
                      IF o \in found THEN [loan |-> finds[o], verdict |-> "unverified"]
                      ELSE rows[o]]
        /\ scan' = [Idle EXCEPT !.pc = IF owed = {} THEN "verify" ELSE "legs",
                                !.left = owed, !.todo = found]
        /\ UNCHANGED <<legs, summary, stored>>
    BY <1>3 DEF UpsertInteractions
  <2>2. finds \in [Places -> {0} \cup Loans] /\ \E o \in Places : finds[o] # 0
    <3>1. /\ Len(tx.scans) \in Nat
          /\ \A k \in 1 .. Len(tx.scans) :
               /\ tx.scans[k] \in [Places -> {0} \cup Loans]
               /\ \E o \in Places : tx.scans[k][o] # 0
      BY <1>1, LoansNumbered
    <3>2. scans + 1 \in 1 .. Len(tx.scans)
      BY <1>1, <2>1, <3>1
    <3>3. QED
      BY <3>1, <3>2
  <2>3. found \subseteq Places /\ owed \subseteq found /\ found # {}
    BY <2>2
  <2>4. \A o \in found : finds[o] \in Loans
    BY <2>2
  <2>5. /\ scan' \in Runners
        /\ scan'.pc = (IF owed = {} THEN "verify" ELSE "legs")
        /\ scan'.left = owed /\ scan'.todo = found
    BY <1>2, <2>1, <2>3 DEF Runners, Stages, Idle
  <2>6. /\ \A o \in Places \ found : rows'[o] = rows[o]
        /\ \A o \in found : rows'[o] = [loan |-> finds[o], verdict |-> "unverified"]
    BY <2>1, <2>3
  <2>7. ASSUME NEW o \in found
        PROVE  rows'[o] \in Rows /\ rows'[o].loan = finds[o]
    <3>1. finds[o] \in Loans /\ rows'[o] = [loan |-> finds[o], verdict |-> "unverified"]
      BY <2>4, <2>6
    <3> HIDE DEF finds
    <3> QED
      BY <3>1 DEF Rows, Verdicts
  <2>8. \A o \in found \ owed : tx.loans[rows'[o].loan].legs = << >>
    BY <2>7
  <2> HIDE DEF finds, found, owed
  <2> QED
    BY <2>1, <2>3, <2>5, <2>6, <2>7, <2>8 DEF Upserts
<1>4. CASE ReplaceLegs
  <2>1. PICK o \in scan.left : legs' = Extracted(o) /\ scan' = Replaced(o)
    BY <1>4 DEF ReplaceLegs
  <2> QED
    BY <1>1, <1>4, <2>1, ReplacedGoesOn DEF ReplaceLegs, StoresLegs
<1>5. CASE Verify
  <2>1. PICK o \in scan.todo, matched \in BOOLEAN, answer \in {None, "whole", "null"} :
          LET trace == IF scan.cache = None THEN answer ELSE scan.cache
          IN /\ Least(scan.todo, o)
             /\ scan.cache # None \/ ~matched => answer = None
             /\ \E verdict \in VerdictsOn(matched, Debt(legs[o]), trace) :
                  scan' = [scan EXCEPT !.pc = "update", !.place = o, !.matched = matched,
                                       !.verdict = verdict, !.cache = trace]
             /\ \/ stored' = (IF answer = None THEN stored ELSE answer) /\ UNCHANGED failures
                \/ /\ answer # None
                   /\ failures < MaxFailures
                   /\ failures' = failures + 1
                   /\ UNCHANGED stored
    BY <1>5 DEF Verify
  <2> DEFINE trace == IF scan.cache = None THEN answer ELSE scan.cache
  <2>2. PICK verdict \in VerdictsOn(matched, Debt(legs[o]), trace) :
          scan' = [scan EXCEPT !.pc = "update", !.place = o, !.matched = matched,
                               !.verdict = verdict, !.cache = trace]
    BY <2>1
  <2>3. Debt(legs[o]) \in BOOLEAN
    BY DEF Debt
  <2>4. /\ verdict \in Verdicts
        /\ verdict # "unverified" => matched
        /\ verdict = "strict" => ~Debt(legs[o])
    BY <2>2, <2>3, VerdictsAllowed
  <2>5. o \in Places /\ trace \in Answers
    BY <1>1 DEF Runners, Answers
  <2>6. /\ scan' \in Runners /\ scan'.pc = "update" /\ scan'.place = o
        /\ scan'.todo = scan.todo /\ scan'.left = scan.left
        /\ scan'.verdict = verdict /\ scan'.matched = matched
    BY <1>1, <2>2, <2>4, <2>5 DEF Runners, Stages
  <2>7. stored' \in {stored, "whole", "null"}
    BY <2>1
  <2> QED
    BY <1>5, <2>4, <2>6, <2>7 DEF Verify, Verifies
<1>6. CASE UpdateVerificationResult
  <2>1. scan' \in Runners
    BY <1>1, <1>6 DEF UpdateVerificationResult, Runners, Stages
  <2> QED
    BY <1>6, <2>1 DEF UpdateVerificationResult, Updates
<1>7. CASE RewriteLegs
  <2>1. /\ scan' \in Runners
        /\ scan'.left = {} /\ scan'.todo = scan.todo \ {scan.place}
        /\ scan'.pc = IF scan.todo = {scan.place} THEN "aggregate" ELSE "verify"
    BY <1>1, <1>7, AdvanceGoesOn DEF RewriteLegs
  <2> QED
    BY <1>7, <2>1 DEF RewriteLegs, Rewrites
<1>8. CASE AggregateByTx
  BY <1>2, <1>8 DEF AggregateByTx, Aggregates
<1>9. CASE ScanFails
  BY <1>2, <1>9 DEF ScanFails, tables, Fails
<1> QED
  BY <1>3, <1>4, <1>5, <1>6, <1>7, <1>8, <1>9 DEF Scan

-------------------------------------------------------------------------------
(* The steps of a request, in terms of its record.                         *)

LEMMA QueryLeaves ==
  ASSUME TypeOK, Query
  PROVE  /\ tx' = tx /\ rows' = rows /\ legs' = legs /\ summary' = summary
         /\ stored' = stored /\ scan' = scan /\ scans' = scans
         /\ Loans' = Loans /\ Places' = Places
         /\ failures \in Nat /\ failures' \in Nat /\ failures' >= failures
<1>1. MaxFailures \in Nat
  BY PageAssumption
<1>2. UNCHANGED <<tx, tables, scan, scans>> /\ failures' \in {failures, failures + 1}
  BY DEF Query, GetFlashloanTransaction, ListInteractions, ListLegs,
         GetTransactionTrace, TraceTransaction, QueryFails, Close
<1>3. failures \in Nat
  BY <1>1 DEF TypeOK
<1> QED
  BY <1>2, <1>3 DEF tables, Loans, Places

LEMMA StutterLeaves ==
  ASSUME UNCHANGED vars
  PROVE  /\ tx' = tx /\ rows' = rows /\ legs' = legs /\ summary' = summary
         /\ stored' = stored /\ scan' = scan /\ scans' = scans /\ query' = query
         /\ page' = page /\ queries' = queries /\ failures' = failures
         /\ Loans' = Loans /\ Places' = Places
BY DEF vars, tables, Loans, Places

(* What a request keeps from its start, and what it has read since.        *)
SameRequest ==
  /\ query'.summary = query.summary /\ query'.found = query.found
  /\ query'.had = query.had /\ query'.since = query.since
SameRead ==
  query'.rows = query.rows /\ query'.legs = query.legs /\ query'.left = query.left

Opens ==
  /\ query.pc = "closed"
  /\ query'.pc = IF summary = None THEN "absent" ELSE "interactions"
  /\ query'.summary = summary /\ query'.found = stored /\ query'.had = Listed(legs)
  /\ query'.since = IF scan.pc = "idle" THEN scans ELSE None

ListsThem ==
  /\ query.pc = "interactions" /\ query'.pc \in {"legs", "stored"}
  /\ query'.rows = rows /\ query'.left = Listed(rows)
  /\ query'.legs = [o \in Places |-> None]
  /\ query'.pc = "stored" => query'.left = {}
  /\ SameRequest

ReadsLegs ==
  /\ query.pc = "legs" /\ query'.pc \in {"legs", "stored"}
  /\ \E o \in query.left : /\ query'.legs = [query.legs EXCEPT ![o] = legs[o]]
                           /\ query'.left = query.left \ {o}
  /\ query'.pc = "stored" => query'.left = {}
  /\ query'.rows = query.rows
  /\ SameRequest

AsksNode ==
  query.pc = "stored" /\ stored = None /\ query'.pc = "node" /\ SameRequest /\ SameRead

ShowsPage ==
  /\ query.pc \in {"stored", "node"} /\ query'.pc = "shown" /\ SameRequest /\ SameRead
  /\ \E answer : /\ page' = ResponseTo(query, Details(query), answer)
                 /\ query.pc = "stored" => answer = stored /\ stored # None

Finishes ==
  \/ query'.pc = "failed" /\ SameRequest
  \/ query' = Closed

LEMMA QueryMoves ==
  ASSUME TypeOK, Reading, Query
  PROVE  /\ query' \in Requests
         /\ Opens \/ ListsThem \/ ReadsLegs \/ AsksNode \/ ShowsPage \/ Finishes
         /\ query'.pc # "shown" => page' = None
<1>1. /\ query \in Requests /\ rows \in [Places -> Rows \cup {None}]
      /\ legs \in [Places -> StoredLegs \cup {None}]
      /\ query.pc # "shown" => page = None
  BY DEF TypeOK
<1>2. /\ Listed(rows) \subseteq Places /\ Listed(legs) \subseteq Places
  BY DEF Listed
<1>3. Closed \in Requests
  <2>1. {} \in SUBSET Places /\ << >> \in {<< >>} \cup [Places -> Rows \cup {None}]
        /\ << >> \in {<< >>} \cup [Places -> StoredLegs \cup {None}]
    OBVIOUS
  <2> QED
    BY <2>1 DEF Closed, Requests, Answers
<1>4. CASE GetFlashloanTransaction
  <2> DEFINE pc == IF summary = None THEN "absent" ELSE "interactions"
             since == IF scan.pc = "idle" THEN scans ELSE None
  <2>1. /\ query.pc = "closed" /\ page' = None
        /\ query' = [Closed EXCEPT !.pc = pc, !.summary = summary, !.found = stored,
                                   !.had = Listed(legs), !.since = since]
    BY <1>4 DEF GetFlashloanTransaction
  <2>2. /\ pc \in {"absent", "interactions"} /\ since \in Nat \cup {None}
        /\ summary \in Summaries \cup {None} /\ stored \in Answers
    BY DEF TypeOK
  <2> HIDE DEF pc, since
  <2>3. /\ query' \in Requests /\ query'.pc = pc /\ query'.since = since
        /\ query'.summary = summary /\ query'.found = stored /\ query'.had = Listed(legs)
    <3>1. DOMAIN Closed = {"pc", "left", "summary", "rows", "legs", "found", "had", "since"}
      BY DEF Closed
    <3> QED
      BY <1>2, <1>3, <2>1, <2>2, <3>1 DEF Requests
  <2> QED
    BY <2>1, <2>2, <2>3 DEF Opens, pc, since
<1>5. CASE ListInteractions
  <2>1. /\ query.pc = "interactions" /\ UNCHANGED page
        /\ query' = [query EXCEPT !.pc = IF Listed(rows) = {} THEN "stored" ELSE "legs",
                                  !.rows = rows,
                                  !.legs = [o \in Places |-> None],
                                  !.left = Listed(rows)]
    BY <1>5 DEF ListInteractions
  <2>2. [o \in Places |-> None] \in [Places -> StoredLegs \cup {None}]
    OBVIOUS
  <2>3. query' \in Requests
    BY <1>1, <1>2, <2>1, <2>2 DEF Requests
  <2>4. ListsThem
    BY <1>1, <2>1 DEF Requests, ListsThem, SameRequest
  <2> QED
    BY <1>1, <2>1, <2>3, <2>4
<1>6. CASE ListLegs
  <2>1. /\ query.pc = "legs" /\ UNCHANGED page
        /\ \E o \in query.left :
             query' = [query EXCEPT !.legs[o] = legs[o],
                                    !.left = @ \ {o},
                                    !.pc = IF query.left = {o} THEN "stored" ELSE "legs"]
    BY <1>6 DEF ListLegs
  <2>2. PICK o \in query.left :
          query' = [query EXCEPT !.legs = [query.legs EXCEPT ![o] = legs[o]],
                                 !.left = query.left \ {o},
                                 !.pc = IF query.left = {o} THEN "stored" ELSE "legs"]
    BY <1>1, <2>1 DEF Requests
  <2>3. o \in Places /\ query.legs \in [Places -> StoredLegs \cup {None}]
    BY <1>1, <2>1 DEF Requests, Reading, Listing, Active
  <2>4. [query.legs EXCEPT ![o] = legs[o]] \in [Places -> StoredLegs \cup {None}]
    BY <1>1, <2>3
  <2>5. query' \in Requests
    BY <1>1, <2>2, <2>4 DEF Requests
  <2>6. ReadsLegs
    BY <1>1, <2>1, <2>2 DEF Requests, ReadsLegs, SameRequest
  <2> QED
    BY <1>1, <2>1, <2>5, <2>6
<1>7. ASSUME NEW pc \in {"node", "shown", "failed"}, query' = [query EXCEPT !.pc = pc]
      PROVE  query' \in Requests /\ query'.pc = pc /\ SameRequest /\ SameRead
  BY <1>1, <1>7 DEF Requests, SameRequest, SameRead
<1>8. CASE GetTransactionTrace
  BY <1>1, <1>7, <1>8 DEF GetTransactionTrace, Show, AsksNode, ShowsPage
<1>9. CASE TraceTransaction
  <2>1. query.pc = "node" /\ \E answer : Show(answer)
    BY <1>9 DEF TraceTransaction
  <2> QED
    BY <1>7, <2>1 DEF Show, ShowsPage
<1>10. CASE QueryFails
  BY <1>1, <1>7, <1>10 DEF QueryFails, Finishes
<1>11. CASE Close
  BY <1>3, <1>11 DEF Close, Finishes
<1> QED
  BY <1>4, <1>5, <1>6, <1>8, <1>9, <1>10, <1>11 DEF Query

-------------------------------------------------------------------------------
(* The types.                                                              *)

LEMMA InitTypes == Init => TypeOK
<1> SUFFICES ASSUME Init PROVE TypeOK
  OBVIOUS
<1>1. tx \in Txs /\ Len(tx.scans) \in Nat /\ MaxQueries \in Nat /\ MaxFailures \in Nat
  BY LoansNumbered, PageAssumption DEF Init
<1>2. Idle \in Runners /\ Idle.left = {} /\ Idle.todo = {} /\ Idle.pc = "idle"
  BY DEF Idle, Runners, Stages, Verdicts, Answers
<1>3. /\ << >> \in {<< >>} \cup [Places -> Rows \cup {None}]
      /\ << >> \in {<< >>} \cup [Places -> StoredLegs \cup {None}]
  OBVIOUS
<1>4. Closed \in Requests /\ Closed.pc = "closed" /\ Closed.since = None
  BY <1>3 DEF Closed, Requests, Answers
<1> QED
  BY <1>1, <1>2, <1>4 DEF Init, TypeOK, Answers

(* What the runner does leaves a request and its page alone.               *)
LEMMA ScanTypes ==
  ASSUME TypeOK, HaveLegs, Progress, Scan
  PROVE  TypeOK'
<1>1. /\ tx \in Txs /\ scan \in Runners /\ scan.left \subseteq scan.todo
      /\ scan.todo = {} <=> scan.pc \in {"idle", "aggregate"}
      /\ scan.pc \in {"update", "rewrite"} => scan.place \in scan.todo
      /\ scan.todo \subseteq Places
      /\ rows \in [Places -> Rows \cup {None}]
      /\ legs \in [Places -> StoredLegs \cup {None}]
      /\ summary \in Summaries \cup {None} /\ stored \in Answers
      /\ \A o \in scan.todo : rows[o] \in Rows
  BY DEF TypeOK, HaveLegs, Runners, Listed
<1>2. /\ UNCHANGED <<tx, query, page, queries>> /\ Places' = Places
      /\ Rows' = Rows /\ StoredLegs' = StoredLegs
      /\ Runners' = Runners /\ Requests' = Requests
  BY ScanLeaves DEF Rows, StoredLegs, Runners, Requests
<1>3. /\ scans' \in scans .. Len(tx.scans) /\ failures' \in 0 .. MaxFailures
  <2>1. /\ scans \in 0 .. Len(tx.scans) /\ failures \in 0 .. MaxFailures
        /\ Len(tx.scans) \in Nat /\ MaxFailures \in Nat
    BY <1>1, LoansNumbered, PageAssumption DEF TypeOK
  <2>2. scans' = scans \/ (scans < Len(tx.scans) /\ scans' = scans + 1)
    <3>1. CASE UpsertInteractions
      BY <3>1 DEF UpsertInteractions
    <3>2. CASE Scan /\ ~UpsertInteractions
      BY <3>2 DEF Scan, ReplaceLegs, Verify, UpdateVerificationResult, RewriteLegs,
                  AggregateByTx, ScanFails
    <3> QED
      BY <3>1, <3>2
  <2>3. failures' = failures \/ (failures < MaxFailures /\ failures' = failures + 1)
    <3>1. CASE Verify
      BY <3>1 DEF Verify
    <3>2. CASE Scan /\ ~Verify
      BY <3>2 DEF Scan, UpsertInteractions, ReplaceLegs, UpdateVerificationResult,
                  RewriteLegs, AggregateByTx, ScanFails
    <3> QED
      BY <3>1, <3>2
  <2> QED
    BY <2>1, <2>2, <2>3
<1>4. scan' \in Runners
  BY ScanMoves
<1>5. SUFFICES /\ rows' \in [Places -> Rows \cup {None}]
               /\ legs' \in [Places -> StoredLegs \cup {None}]
               /\ summary' \in Summaries \cup {None} /\ stored' \in Answers
               /\ scan'.left \subseteq scan'.todo
               /\ scan'.todo = {} <=> scan'.pc \in {"idle", "aggregate"}
               /\ scan'.pc \in {"update", "rewrite"} => scan'.place \in scan'.todo
  <2>1. scans' \in 0 .. Len(tx.scans) /\ query.since \in 0 .. scans' \cup {None}
    <3>1. scans \in 0 .. Len(tx.scans) /\ query.since \in 0 .. scans \cup {None}
          /\ Len(tx.scans) \in Nat
      BY <1>1, LoansNumbered DEF TypeOK
    <3> QED
      BY <1>3, <3>1
  <2> QED
    BY <1>2, <1>3, <1>4, <1>5, <2>1 DEF TypeOK
<1>6. CASE Upserts
  <2>1. rows' \in [Places -> Rows \cup {None}]
    <3>1. \A o \in Places : rows'[o] \in Rows \cup {None}
      BY <1>1, <1>6 DEF Upserts
    <3>2. \E f : rows' = [o \in Places |-> f[o]]
      <4>1. CASE UpsertInteractions
        <5> DEFINE finds == tx.scans[scans + 1]
                   found == {o \in Places : finds[o] # 0}
                   f == [o \in Places |->
                           IF o \in found THEN [loan |-> finds[o], verdict |-> "unverified"]
                           ELSE rows[o]]
        <5>1. rows' = f
          BY <4>1 DEF UpsertInteractions
        <5> HIDE DEF finds, found
        <5>2. f = [o \in Places |-> f[o]]
          OBVIOUS
        <5> QED
          BY <5>1, <5>2
      <4>2. CASE Scan /\ ~UpsertInteractions
        BY <1>6, <4>2 DEF Upserts, Scan, ReplaceLegs, Verify, UpdateVerificationResult,
                          RewriteLegs, AggregateByTx, ScanFails
      <4> QED
        BY <4>1, <4>2
    <3> QED
      BY <3>1, <3>2
  <2> QED
    BY <1>1, <1>6, <2>1 DEF Upserts
<1>7. CASE StoresLegs
  <2>1. PICK o \in scan.left : legs' = Extracted(o) /\ scan'.left = scan.left \ {o}
                               /\ scan'.pc = IF scan.left = {o} THEN "verify" ELSE "legs"
    BY <1>7 DEF StoresLegs
  <2>2. [loan |-> rows[o].loan, form |-> "extracted"] \in StoredLegs
    BY <1>1 DEF StoredLegs, Rows
  <2>3. legs' \in [Places -> StoredLegs \cup {None}]
    BY <1>1, <2>1, <2>2 DEF Extracted
  <2> QED
    BY <1>1, <1>7, <2>1, <2>3 DEF StoresLegs
<1>8. CASE Verifies
  BY <1>1, <1>8 DEF Verifies, Answers
<1>9. CASE Updates
  <2>1. /\ scan'.pc = "rewrite" /\ scan'.left = scan.left /\ scan'.todo = scan.todo
        /\ scan'.place = scan.place
    BY <1>1, <1>9 DEF Updates, Runners
  <2>2. rows' \in [Places -> Rows \cup {None}]
    <3>1. [rows[scan.place] EXCEPT !.verdict = scan.verdict] \in Rows
      BY <1>1, <1>9 DEF Updates, Rows, Runners
    <3>2. rows' = [rows EXCEPT ![scan.place] =
                     [rows[scan.place] EXCEPT !.verdict = scan.verdict]]
      BY <1>1, <1>9 DEF Updates
    <3> QED
      BY <1>1, <3>1, <3>2
  <2> QED
    BY <1>1, <1>9, <2>1, <2>2 DEF Updates
<1>10. CASE Rewrites
  <2>1. legs' \in [Places -> StoredLegs \cup {None}]
    <3>1. CASE scan.matched /\ legs[scan.place] # None
      <4>1. scan.place \in Places /\ legs[scan.place] \in StoredLegs
        BY <1>1, <1>10, <3>1 DEF Rewrites
      <4>2. [legs[scan.place] EXCEPT !.form = "verified"] \in StoredLegs
        BY <4>1 DEF StoredLegs
      <4>3. legs' = [legs EXCEPT ![scan.place] =
                       [legs[scan.place] EXCEPT !.form = "verified"]]
        BY <1>1, <1>10, <3>1, <4>1 DEF Rewrites
      <4> QED
        BY <1>1, <4>2, <4>3
    <3>2. CASE ~(scan.matched /\ legs[scan.place] # None)
      BY <1>1, <1>10, <3>2 DEF Rewrites
    <3> QED
      BY <3>1, <3>2
  <2> QED
    BY <1>1, <1>10, <2>1 DEF Rewrites
<1>11. CASE Aggregates
  BY <1>1, <1>11, AggregateIsRow DEF Aggregates, Idle
<1>12. CASE Fails
  BY <1>1, <1>12 DEF Fails, Idle
<1> QED
  BY <1>6, <1>7, <1>8, <1>9, <1>10, <1>11, <1>12, ScanMoves

(* What a response consists of.                                            *)
LEMMA PageParts ==
  ASSUME NEW read, NEW loans, NEW answer
  PROVE  /\ DOMAIN ResponseTo(read, loans, answer) =
              {"read", "roles", "timeline", "conclusion", "trace", "graph"}
         /\ ResponseTo(read, loans, answer).read = read
         /\ ResponseTo(read, loans, answer).conclusion = Conclusion(read)
         /\ answer \in {"whole", "null"} =>
              ResponseTo(read, loans, answer).trace.status = "available"
<1>1. answer \in {"whole", "null"} => TraceSummary(loans, answer).status = "available"
  BY DEF TraceSummary, SummaryOf
<1> QED
  BY <1>1 DEF ResponseTo, Response

(* What a request does leaves the tables and the runner alone.             *)
LEMMA QueryTypes ==
  ASSUME TypeOK, Reading, Query
  PROVE  TypeOK'
<1>1. /\ UNCHANGED <<tx, rows, legs, summary, stored, scan, scans>> /\ Places' = Places
      /\ Rows' = Rows /\ StoredLegs' = StoredLegs
      /\ Runners' = Runners /\ Requests' = Requests
  BY QueryLeaves DEF Rows, StoredLegs, Runners, Requests
<1>2. query' \in Requests /\ (query'.pc # "shown" => page' = None)
  BY QueryMoves
<1>3. query'.since \in 0 .. scans \cup {None}
  <2>1. scans \in 0 .. scans /\ query.since \in 0 .. scans \cup {None}
    BY LoansNumbered DEF TypeOK
  <2>2. query'.since \in {query.since, scans, None}
    BY QueryMoves DEF Opens, ListsThem, ReadsLegs, AsksNode, ShowsPage, Finishes,
                      SameRequest, Closed
  <2> QED
    BY <2>1, <2>2
<1>4. query'.pc = "shown" =>
        DOMAIN page' = {"read", "roles", "timeline", "conclusion", "trace", "graph"}
  BY QueryMoves, PageParts DEF Opens, ListsThem, ReadsLegs, AsksNode, ShowsPage, Finishes,
                               Closed
<1>5. queries' \in 0 .. MaxQueries /\ failures' \in 0 .. MaxFailures
  <2>1. queries \in 0 .. MaxQueries /\ failures \in 0 .. MaxFailures
        /\ MaxQueries \in Nat /\ MaxFailures \in Nat
    BY PageAssumption DEF TypeOK
  <2>2. /\ queries' = queries \/ (queries < MaxQueries /\ queries' = queries + 1)
        /\ failures' = failures \/ (failures < MaxFailures /\ failures' = failures + 1)
    BY DEF Query, GetFlashloanTransaction, ListInteractions, ListLegs,
           GetTransactionTrace, TraceTransaction, QueryFails, Close
  <2> QED
    BY <2>1, <2>2
<1> QED
  BY <1>1, <1>2, <1>3, <1>4, <1>5 DEF TypeOK

-------------------------------------------------------------------------------
(* Every step preserves the parts of the invariant.                        *)

LEMMA ReadingHolds ==
  ASSUME TypeOK, Reading, [Next]_vars
  PROVE  Reading'
<1>1. /\ Rows' = Rows /\ StoredLegs' = StoredLegs /\ Places' = Places
      /\ rows \in [Places -> Rows \cup {None}] /\ legs \in [Places -> StoredLegs \cup {None}]
  BY ScanLeaves, QueryLeaves, StutterLeaves DEF Rows, StoredLegs, TypeOK, Next
<1>2. CASE Query
  <2>1. CASE Opens \/ Finishes
    BY <2>1 DEF Opens, Finishes, Closed, Reading, Listing, Active
  <2>2. CASE ListsThem
    BY <1>1, <2>2 DEF ListsThem, Reading
  <2>3. CASE ReadsLegs
    <3>1. query.pc \in Listing
      BY <2>3 DEF ReadsLegs, Listing, Active
    <3>2. /\ query.rows \in [Places -> Rows \cup {None}]
          /\ query.legs \in [Places -> StoredLegs \cup {None}]
          /\ query.left \subseteq Places
      BY <3>1 DEF Reading, TypeOK, Requests
    <3>3. query'.legs \in [Places -> StoredLegs \cup {None}]
      BY <1>1, <2>3, <3>2 DEF ReadsLegs
    <3> QED
      BY <1>1, <2>3, <3>2, <3>3 DEF ReadsLegs, Reading
  <2>4. CASE AsksNode \/ ShowsPage
    BY <1>1, <2>4 DEF AsksNode, ShowsPage, SameRead, Reading, Listing, Active
  <2> QED
    BY <1>2, <2>1, <2>2, <2>3, <2>4, QueryMoves
<1>3. CASE Scan \/ UNCHANGED vars
  BY <1>1, <1>3, ScanLeaves, StutterLeaves DEF Reading, Listing
<1> QED
  BY <1>2, <1>3 DEF Next

(* No legs are taken away, and no row.                                     *)
LEMMA NothingLost ==
  ASSUME TypeOK, HaveLegs, Progress, Scan
  PROVE  /\ Listed(rows) \subseteq Listed(rows') /\ Listed(legs) \subseteq Listed(legs')
         /\ Listed(legs') \cup scan'.todo \subseteq Listed(rows')
         /\ summary # None => summary' # None
<1>1. /\ tx \in Txs /\ scan \in Runners /\ scan.left \subseteq scan.todo
      /\ scan.todo \subseteq Places
      /\ rows \in [Places -> Rows \cup {None}] /\ legs \in [Places -> StoredLegs \cup {None}]
      /\ Listed(legs) \subseteq Listed(rows) /\ scan.todo \subseteq Listed(rows)
      /\ scan.pc \in {"update", "rewrite"} => scan.place \in scan.todo
      /\ Places' = Places
  BY ScanLeaves DEF TypeOK, Runners, HaveLegs
<1>2. None \notin Rows /\ None \notin StoredLegs /\ None \notin Summaries
  BY <1>1, RowsAreThere, PageAssumption
<1>3. /\ rows' \in [Places -> Rows \cup {None}] /\ legs' \in [Places -> StoredLegs \cup {None}]
  <2>1. TypeOK' /\ Rows' = Rows /\ StoredLegs' = StoredLegs
    BY ScanTypes, ScanLeaves DEF Rows, StoredLegs
  <2> QED
    BY <1>1, <2>1 DEF TypeOK
<1>4. SUFFICES /\ \A o \in Places : rows[o] # None => rows'[o] # None
               /\ \A o \in Places : legs[o] # None => legs'[o] # None
               /\ \A o \in Places : legs'[o] # None => rows'[o] # None
               /\ \A o \in scan'.todo : o \in Places /\ rows'[o] # None
               /\ summary # None => summary' # None
  BY <1>1, <1>4 DEF Listed
<1>5. /\ \A o \in Places : legs[o] # None => rows[o] # None
      /\ \A o \in scan.todo : rows[o] # None
  BY <1>1 DEF Listed
<1>6. CASE Upserts
  <2>1. \A o \in Places : rows'[o] = rows[o] \/ rows'[o] # None
    BY <1>2, <1>6 DEF Upserts
  <2> QED
    BY <1>2, <1>5, <1>6, <2>1 DEF Upserts
<1>7. CASE StoresLegs
  <2>1. PICK o \in scan.left : legs' = Extracted(o)
    BY <1>7 DEF StoresLegs
  <2>2. \A p \in Places : p # o => legs'[p] = legs[p]
    BY <1>1, <2>1 DEF Extracted
  <2>3. legs'[o] # None
    <3>1. legs'[o] = [loan |-> rows[o].loan, form |-> "extracted"]
      BY <1>1, <2>1 DEF Extracted
    <3>2. rows[o] \in Rows
      BY <1>1, <1>5
    <3>3. legs'[o] \in StoredLegs
      BY <3>1, <3>2 DEF Rows, StoredLegs
    <3> QED
      BY <1>2, <3>3
  <2> QED
    BY <1>1, <1>5, <1>7, <2>2, <2>3 DEF StoresLegs
<1>8. CASE Verifies
  BY <1>1, <1>5, <1>8 DEF Verifies
<1>9. CASE Updates
  <2>1. scan'.todo = scan.todo
    BY <1>1, <1>9 DEF Updates, Runners
  <2>2. \A o \in Places : o # scan.place => rows'[o] = rows[o]
    BY <1>1, <1>9 DEF Updates
  <2>3. rows'[scan.place] # None
    <3>1. [rows[scan.place] EXCEPT !.verdict = scan.verdict] \in Rows
      BY <1>1, <1>5, <1>9 DEF Updates, Rows, Runners
    <3>2. rows'[scan.place] = [rows[scan.place] EXCEPT !.verdict = scan.verdict]
      BY <1>1, <1>9 DEF Updates
    <3> QED
      BY <1>2, <3>1, <3>2
  <2> QED
    BY <1>1, <1>5, <1>9, <2>1, <2>2, <2>3 DEF Updates
<1>10. CASE Rewrites
  <2>1. \A o \in Places : legs'[o] # None <=> legs[o] # None
    <3>1. CASE scan.matched /\ legs[scan.place] # None
      <4>1. scan.place \in Places /\ legs[scan.place] \in StoredLegs
        BY <1>1, <1>10, <3>1 DEF Rewrites
      <4>2. [legs[scan.place] EXCEPT !.form = "verified"] \in StoredLegs
        BY <4>1 DEF StoredLegs
      <4>3. legs' = [legs EXCEPT ![scan.place] =
                       [legs[scan.place] EXCEPT !.form = "verified"]]
        BY <1>1, <1>10, <3>1, <4>1 DEF Rewrites
      <4> QED
        BY <1>1, <1>2, <3>1, <4>2, <4>3
    <3>2. CASE ~(scan.matched /\ legs[scan.place] # None)
      BY <1>10, <3>2 DEF Rewrites
    <3> QED
      BY <3>1, <3>2
  <2> QED
    BY <1>1, <1>5, <1>10, <2>1 DEF Rewrites
<1>11. CASE Aggregates
  BY <1>1, <1>2, <1>5, <1>11, AggregateIsRow DEF Aggregates, Idle
<1>12. CASE Fails
  BY <1>1, <1>5, <1>12 DEF Fails, Idle
<1> QED
  BY <1>6, <1>7, <1>8, <1>9, <1>10, <1>11, <1>12, ScanMoves

LEMMA HaveLegsHolds ==
  ASSUME TypeOK, Reading, HaveLegs, Progress, [Next]_vars
  PROVE  HaveLegs'
<1>1. CASE Scan
  <2>1. query' = query /\ Places' = Places
    BY <1>1, ScanLeaves
  <2>2. Listed(rows)' = Listed(rows') /\ Listed(legs)' = Listed(legs')
    BY <2>1 DEF Listed
  <2> QED
    BY <1>1, <2>1, <2>2, NothingLost DEF HaveLegs, Active, Listing
<1>2. CASE Query
  <2>1. /\ rows' = rows /\ legs' = legs /\ summary' = summary /\ scan' = scan
        /\ Listed(rows)' = Listed(rows) /\ Listed(legs)' = Listed(legs)
    BY <1>2, QueryLeaves DEF Listed
  <2>2. Listed(legs) \subseteq Listed(rows)
    BY DEF HaveLegs
  <2>3. SUFFICES ASSUME query'.pc \in Active
                 PROVE  /\ summary # None /\ query'.had \subseteq Listed(legs)
                        /\ query'.pc \in Listing =>
                             \A o \in query'.had \ query'.left : query'.legs[o] # None
    BY <2>1, <2>3 DEF HaveLegs, Active, Listing
  <2>4. CASE Opens
    BY <2>3, <2>4 DEF Opens, Active, Listing
  <2>5. CASE ListsThem
    <3>1. /\ summary # None /\ query'.had \subseteq Listed(legs)
          /\ query'.left = Listed(rows)
      BY <2>5 DEF ListsThem, SameRequest, HaveLegs, Active
    <3> QED
      BY <2>2, <3>1
  <2>6. CASE ReadsLegs
    <3>1. PICK o \in query.left : /\ query'.legs = [query.legs EXCEPT ![o] = legs[o]]
                                  /\ query'.left = query.left \ {o}
      BY <2>6 DEF ReadsLegs
    <3>2. /\ summary # None /\ query.had \subseteq Listed(legs) /\ query'.had = query.had
          /\ \A p \in query.had \ query.left : query.legs[p] # None
          /\ query.legs \in [Places -> StoredLegs \cup {None}]
      BY <2>6 DEF ReadsLegs, SameRequest, HaveLegs, Reading, Active, Listing
    <3>3. \A p \in query.had : p \in Places /\ legs[p] # None
      BY <3>2 DEF Listed
    <3>4. \A p \in query'.had \ query'.left : query'.legs[p] # None
      BY <3>1, <3>2, <3>3
    <3> QED
      BY <3>2, <3>4
  <2>7. CASE AsksNode \/ ShowsPage
    BY <2>7 DEF AsksNode, ShowsPage, SameRequest, SameRead, HaveLegs, Active, Listing
  <2>8. CASE Finishes
    BY <2>3, <2>8 DEF Finishes, Closed, Active
  <2> QED
    BY <1>2, <2>4, <2>5, <2>6, <2>7, <2>8, QueryMoves
<1>3. CASE UNCHANGED vars
  BY <1>3, StutterLeaves DEF HaveLegs, Active, Listing, Listed
<1> QED
  BY <1>1, <1>2, <1>3 DEF Next

LEMMA HaveTraceHolds ==
  ASSUME TypeOK, Reading, HaveTrace, [Next]_vars
  PROVE  HaveTrace'
<1>1. stored \in Answers /\ None \notin {"whole", "null"}
  BY PageAssumption DEF TypeOK
<1>2. CASE Scan
  <2>1. query' = query /\ page' = page
    BY <1>2, ScanLeaves
  <2>2. stored # None => stored' # None
    BY <1>1, <1>2, ScanMoves DEF Upserts, StoresLegs, Verifies, Updates, Rewrites,
                                 Aggregates, Fails
  <2> QED
    BY <2>1, <2>2 DEF HaveTrace
<1>3. CASE Query
  <2>1. stored' = stored
    BY <1>3, QueryLeaves
  <2>2. CASE Opens
    BY <2>1, <2>2 DEF Opens, HaveTrace
  <2>3. CASE ListsThem \/ ReadsLegs \/ AsksNode
    BY <2>1, <2>3 DEF ListsThem, ReadsLegs, AsksNode, SameRequest, HaveTrace
  <2>4. CASE ShowsPage
    <3>1. PICK answer : /\ page' = ResponseTo(query, Details(query), answer)
                        /\ query.pc = "stored" => answer = stored /\ stored # None
      BY <2>4 DEF ShowsPage
    <3>2. query'.found = query.found /\ query'.pc = "shown"
      BY <2>4 DEF ShowsPage, SameRequest
    <3>3. CASE query.pc = "stored"
      <4>1. answer \in {"whole", "null"}
        BY <1>1, <3>1, <3>3 DEF Answers
      <4>2. page'.trace.status = "available"
        BY <3>1, <4>1, PageParts
      <4> QED
        BY <2>1, <3>2, <4>2 DEF HaveTrace
    <3>4. CASE query.pc = "node"
      BY <2>1, <3>2, <3>4 DEF HaveTrace
    <3> QED
      BY <2>4, <3>3, <3>4 DEF ShowsPage
  <2>5. CASE Finishes
    BY <2>1, <2>5 DEF Finishes, SameRequest, HaveTrace, Closed
  <2> QED
    BY <1>3, <2>2, <2>3, <2>4, <2>5, QueryMoves
<1>4. CASE UNCHANGED vars
  BY <1>4, StutterLeaves DEF HaveTrace
<1> QED
  BY <1>2, <1>3, <1>4 DEF Next

(* What an interaction has is its rows and legs, and nothing else.         *)
LEMMA AgreesStays ==
  ASSUME TypeOK, tx' = tx, NEW o \in Places, rows'[o] = rows[o], legs'[o] = legs[o]
  PROVE  /\ HasOwn(o) => HasOwn(o)'
         /\ Agrees(o) => Agrees(o)'
<1>1. \A found : Debt(found)' <=> Debt(found)
  BY DEF Debt, LegsRead
<1>2. HasOwn(o)' <=> HasOwn(o)
  BY DEF HasOwn
<1> QED
  BY <1>1, <1>2 DEF Agrees

LEMMA ProgressHolds ==
  ASSUME TypeOK, HaveLegs, Progress, [Next]_vars
  PROVE  Progress'
<1>1. /\ tx \in Txs /\ scan \in Runners /\ scan.left \subseteq scan.todo
      /\ scan.todo = {} <=> scan.pc \in {"idle", "aggregate"}
      /\ scan.pc \in {"update", "rewrite"} => scan.place \in scan.todo
      /\ scan.todo \subseteq Places /\ failures \in Nat
      /\ rows \in [Places -> Rows \cup {None}]
      /\ legs \in [Places -> StoredLegs \cup {None}]
      /\ \A o \in scan.todo : rows[o] \in Rows
  BY PageAssumption DEF TypeOK, HaveLegs, Runners, Listed
<1>2. CASE Scan
  <2>1. /\ tx' = tx /\ Places' = Places
        /\ failures' = 0 => failures = 0
    BY <1>2, ScanLeaves
  <2>2. None \notin Rows /\ None \notin StoredLegs
    BY <1>1, RowsAreThere
  <2>3. \A found : Debt(found)' <=> Debt(found)
    BY <2>1 DEF Debt, LegsRead
  <2>4. failures = 0 => /\ \A o \in Places \ scan.todo : Agrees(o)
                        /\ \A o \in scan.todo \ scan.left : HasOwn(o)
    BY DEF Progress
  <2>5. CASE Upserts
    <3>1. ASSUME failures = 0, NEW o \in Places \ scan'.todo
          PROVE  Agrees(o)'
      BY <1>1, <2>1, <2>4, <2>5, <3>1, AgreesStays DEF Upserts
    <3>2. ASSUME NEW o \in scan'.todo \ scan'.left
          PROVE  HasOwn(o)'
      BY <2>1, <2>5 DEF Upserts, HasOwn
    <3> QED
      BY <2>1, <2>5, <3>1, <3>2 DEF Upserts, Progress
  <2>6. CASE StoresLegs
    <3>1. PICK o \in scan.left : /\ legs' = Extracted(o) /\ scan'.left = scan.left \ {o}
                                 /\ scan'.pc = IF scan.left = {o} THEN "verify" ELSE "legs"
      BY <2>6 DEF StoresLegs
    <3>2. /\ legs'[o] = [loan |-> rows[o].loan, form |-> "extracted"]
          /\ \A p \in Places : p # o => legs'[p] = legs[p]
      BY <1>1, <3>1 DEF Extracted
    <3>3. rows' = rows /\ scan'.todo = scan.todo
      BY <2>6 DEF StoresLegs
    <3>4. HasOwn(o)'
      <4>1. legs'[o] \in StoredLegs /\ legs'[o].loan = rows[o].loan
        BY <1>1, <3>2 DEF Rows, StoredLegs
      <4> QED
        BY <2>2, <3>3, <4>1 DEF HasOwn
    <3>5. ASSUME failures = 0, NEW p \in Places \ scan.todo
          PROVE  Agrees(p)'
      BY <1>1, <2>1, <2>4, <3>2, <3>3, <3>5, AgreesStays
    <3>6. ASSUME failures = 0, NEW p \in scan.todo \ scan'.left
          PROVE  HasOwn(p)'
      <4>1. CASE p = o
        BY <3>4, <4>1
      <4>2. CASE p # o
        BY <1>1, <2>1, <2>4, <3>1, <3>2, <3>3, <3>6, <4>2, AgreesStays
      <4> QED
        BY <4>1, <4>2
    <3> QED
      BY <2>1, <3>1, <3>3, <3>5, <3>6 DEF Progress
  <2>7. CASE Verifies
    <3>1. rows' = rows /\ legs' = legs /\ scan'.todo = scan.todo /\ scan'.left = scan.left
          /\ scan'.pc = "update" /\ scan.left = {}
      BY <2>7 DEF Verifies, Progress
    <3>2. failures = 0 => /\ \A o \in Places \ scan.todo : Agrees(o)'
                          /\ \A o \in scan.todo \ scan.left : HasOwn(o)'
      BY <1>1, <2>1, <2>4, <3>1, AgreesStays
    <3> QED
      BY <2>1, <2>3, <2>7, <3>1, <3>2 DEF Verifies, Progress
  <2>8. CASE Updates
    <3>1. /\ scan'.pc = "rewrite" /\ scan'.left = scan.left /\ scan'.todo = scan.todo
          /\ scan'.place = scan.place /\ scan'.verdict = scan.verdict
          /\ scan'.matched = scan.matched /\ scan.left = {} /\ legs' = legs
      BY <1>1, <2>8 DEF Updates, Runners, Progress
    <3>2. /\ rows'[scan.place] = [rows[scan.place] EXCEPT !.verdict = scan.verdict]
          /\ \A o \in Places : o # scan.place => rows'[o] = rows[o]
          /\ scan.place \in scan.todo
      BY <1>1, <2>8 DEF Updates
    <3>3. /\ rows'[scan.place].verdict = scan.verdict
          /\ rows'[scan.place].loan = rows[scan.place].loan
          /\ rows[scan.place] # None
      BY <1>1, <2>2, <3>2 DEF Rows
    <3>4. ASSUME failures = 0, NEW o \in Places \ scan.todo
          PROVE  Agrees(o)'
      BY <1>1, <2>1, <2>4, <3>1, <3>2, <3>4, AgreesStays
    <3>5. ASSUME failures = 0, NEW o \in scan.todo
          PROVE  HasOwn(o)'
      <4>1. HasOwn(o)
        BY <2>4, <3>1, <3>5
      <4>2. CASE o = scan.place
        BY <2>1, <3>1, <3>3, <4>1, <4>2 DEF HasOwn
      <4>3. CASE o # scan.place
        BY <1>1, <2>1, <3>1, <3>2, <4>1, <4>3, AgreesStays
      <4> QED
        BY <4>2, <4>3
    <3>6. /\ scan.verdict # "unverified" => scan.matched
          /\ scan.verdict = "strict" => ~Debt(legs[scan.place])
      BY <2>8 DEF Updates, Progress
    <3> QED
      BY <2>1, <2>3, <3>1, <3>3, <3>4, <3>5, <3>6 DEF Progress
  <2>9. CASE Rewrites
    <3>1. /\ scan'.left = {} /\ scan'.todo = scan.todo \ {scan.place} /\ rows' = rows
          /\ scan'.pc \in {"aggregate", "verify"} /\ scan.left = {}
          /\ scan.place \in scan.todo
      BY <1>1, <2>9 DEF Rewrites, Progress
    <3>2. /\ rows[scan.place].verdict = scan.verdict
          /\ scan.verdict # "unverified" => scan.matched
          /\ scan.verdict = "strict" => ~Debt(legs[scan.place])
      BY <2>9 DEF Rewrites, Progress
    <3>3. /\ \A o \in Places : o # scan.place => legs'[o] = legs[o]
          /\ legs[scan.place] = None => legs'[scan.place] = None
          /\ (legs[scan.place] # None /\ ~scan.matched) =>
               legs'[scan.place] = legs[scan.place]
          /\ (legs[scan.place] # None /\ scan.matched) =>
               legs'[scan.place] = [legs[scan.place] EXCEPT !.form = "verified"]
      BY <1>1, <2>9, <3>1 DEF Rewrites
    <3>4. ASSUME failures = 0, NEW o \in Places \ scan.todo
          PROVE  Agrees(o)'
      BY <1>1, <2>1, <2>4, <3>1, <3>3, <3>4, AgreesStays
    <3>5. ASSUME failures = 0, NEW o \in scan.todo \ {scan.place}
          PROVE  HasOwn(o)'
      BY <1>1, <2>1, <2>4, <3>1, <3>3, <3>5, AgreesStays
    <3>6. ASSUME failures = 0, NEW o \in scan.todo, o = scan.place
          PROVE  Agrees(o)'
      <4> DEFINE old == legs[o]
                 new == legs'[o]
      <4>1. HasOwn(o)
        BY <2>4, <3>1, <3>6
      <4>2. ASSUME old # None
            PROVE  /\ new # None /\ new.loan = old.loan
                   /\ scan.matched => new.form = "verified"
                   /\ Debt(new) <=> Debt(old)
        <5>1. old \in StoredLegs
          BY <1>1, <4>2
        <5>2. CASE scan.matched
          <6>1. new = [old EXCEPT !.form = "verified"]
            BY <3>3, <3>6, <4>2, <5>2
          <6> HIDE DEF old, new
          <6>2. new \in StoredLegs /\ new.loan = old.loan /\ new.form = "verified"
            BY <5>1, <6>1 DEF StoredLegs
          <6>3. Debt(new) <=> Debt(old)
            <7>1. Debt([old EXCEPT !.form = "verified"]) <=> Debt(old)
              BY <1>1, <5>1, DebtStays
            <7> QED
              BY <6>1, <7>1
          <6> QED
            BY <2>2, <6>2, <6>3
        <5>3. CASE ~scan.matched
          BY <3>3, <3>6, <4>2, <5>3
        <5> QED
          BY <5>2, <5>3
      <4>3. old = None => new = None
        BY <3>3, <3>6
      <4>4. HasOwn(o)'
        BY <2>1, <3>1, <4>1, <4>2 DEF HasOwn
      <4>5. rows'[o] = rows[o] /\ rows[o].verdict = scan.verdict
        BY <3>1, <3>2, <3>6
      <4>6. new # None => /\ rows'[o].verdict # "unverified" => new.form = "verified"
                          /\ rows'[o].verdict = "strict" => ~Debt(new)
        BY <3>2, <3>6, <4>2, <4>3, <4>5
      <4> QED
        BY <2>3, <4>4, <4>6 DEF Agrees
    <3>7. failures = 0 => \A o \in Places \ (scan.todo \ {scan.place}) : Agrees(o)'
      BY <3>4, <3>6
    <3> QED
      BY <2>1, <3>1, <3>5, <3>7 DEF Progress
  <2>10. CASE Aggregates
    <3>1. rows' = rows /\ legs' = legs /\ scan' = Idle /\ scan.todo = {}
      BY <1>1, <2>10 DEF Aggregates
    <3>2. failures = 0 => \A o \in Places : Agrees(o)'
      BY <2>1, <2>4, <3>1, AgreesStays
    <3> QED
      BY <2>1, <3>1, <3>2 DEF Progress, Idle
  <2>11. CASE Fails
    BY <1>1, <2>11 DEF Fails, Progress, Idle
  <2> QED
    BY <1>2, <2>5, <2>6, <2>7, <2>8, <2>9, <2>10, <2>11, ScanMoves
<1>3. CASE Query \/ UNCHANGED vars
  <2>1. /\ tx' = tx /\ rows' = rows /\ legs' = legs /\ scan' = scan /\ Places' = Places
        /\ failures' = 0 => failures = 0
    BY <1>3, QueryLeaves, StutterLeaves
  <2>2. \A found : Debt(found)' <=> Debt(found)
    BY <2>1 DEF Debt, LegsRead
  <2>3. \A o \in Places : (HasOwn(o) => HasOwn(o)') /\ (Agrees(o) => Agrees(o)')
    BY <2>1, AgreesStays
  <2> QED
    BY <1>1, <2>1, <2>2, <2>3 DEF Progress
<1> QED
  BY <1>2, <1>3 DEF Next

LEMMA SettledHolds ==
  ASSUME TypeOK, Reading, Settled, [Next]_vars
  PROVE  Settled'
<1>1. CASE Scan
  <2>1. /\ tx' = tx /\ Places' = Places /\ failures \in Nat
    BY <1>1, ScanLeaves
  <2>2. CASE Upserts \/ StoresLegs \/ Verifies \/ Updates \/ Rewrites
    <3>1. scan'.pc # "idle"
      BY <2>2 DEF Upserts, StoresLegs, Verifies, Updates, Rewrites, TypeOK, Runners
    <3> QED
      BY <3>1 DEF Settled
  <2>3. CASE Aggregates
    <3>1. Aggregate' = Aggregate
      BY <2>1, <2>3 DEF Aggregates, Aggregate, Listed
    <3> QED
      BY <2>3, <3>1 DEF Aggregates, Settled
  <2>4. CASE Fails
    BY <2>1, <2>4 DEF Fails, Settled
  <2> QED
    BY <1>1, <2>2, <2>3, <2>4, ScanMoves
<1>2. CASE Query \/ UNCHANGED vars
  <2>1. /\ rows' = rows /\ summary' = summary /\ scan' = scan /\ Places' = Places
        /\ failures' = 0 => failures = 0
    BY <1>2, QueryLeaves, StutterLeaves
  <2>2. Aggregate' = Aggregate
    BY <2>1 DEF Aggregate, Listed
  <2> QED
    BY <2>1, <2>2 DEF Settled
<1> QED
  BY <1>1, <1>2 DEF Next

LEMMA ReadsThemHolds ==
  ASSUME TypeOK, Reading, ReadsThem, [Next]_vars
  PROVE  ReadsThem'
<1>1. /\ query.since \in 0 .. scans \cup {None} /\ scans \in Nat /\ None \notin Nat
  BY LoansNumbered, PageAssumption DEF TypeOK
<1>2. CASE Scan
  <2>1. query' = query /\ scans' \in Nat
    BY <1>2, ScanLeaves
  <2>2. scans' = scans + 1 \/ (scans' = scans /\ scan.pc # "idle")
    BY <1>2, ScanMoves DEF Upserts, StoresLegs, Verifies, Updates, Rewrites, Aggregates,
                           Fails
  <2>3. query'.since # scans'
    BY <1>1, <2>1, <2>2 DEF ReadsThem
  <2> QED
    BY <2>3 DEF ReadsThem
<1>3. CASE Query
  <2>1. /\ legs' = legs /\ rows' = rows /\ summary' = summary /\ scan' = scan
        /\ scans' = scans /\ (failures' = 0 => failures = 0)
        /\ Listed(rows)' = Listed(rows)
    BY <1>3, QueryLeaves DEF Listed
  <2>2. CASE Opens
    BY <1>1, <2>1, <2>2 DEF Opens, ReadsThem, Listing, Active
  <2>3. CASE ListsThem
    BY <2>1, <2>3 DEF ListsThem, SameRequest, ReadsThem, Active
  <2>4. CASE ReadsLegs
    <3>1. PICK o \in query.left : /\ query'.legs = [query.legs EXCEPT ![o] = legs[o]]
                                  /\ query'.left = query.left \ {o}
      BY <2>4 DEF ReadsLegs
    <3>2. query.legs \in [Places -> StoredLegs \cup {None}]
      BY <2>4 DEF ReadsLegs, Reading, Active, Listing
    <3>3. \A p \in Listed(rows) \ query'.left :
            query'.legs[p] = IF p = o THEN legs[p] ELSE query.legs[p]
      BY <3>1, <3>2 DEF Listed
    <3>4. \A p \in Listed(rows) \ query'.left : p = o \/ p \notin query.left
      BY <3>1
    <3> QED
      BY <2>1, <2>4, <3>3, <3>4 DEF ReadsLegs, SameRequest, ReadsThem, Active, Listing
  <2>5. CASE AsksNode \/ ShowsPage
    BY <2>1, <2>5 DEF AsksNode, ShowsPage, SameRequest, SameRead, ReadsThem, Active, Listing
  <2>6. CASE Finishes
    BY <1>1, <2>1, <2>6 DEF Finishes, SameRequest, ReadsThem, Closed, Active
  <2> QED
    BY <1>3, <2>2, <2>3, <2>4, <2>5, <2>6, QueryMoves
<1>4. CASE UNCHANGED vars
  BY <1>4, StutterLeaves DEF ReadsThem, Active, Listing, Listed
<1> QED
  BY <1>2, <1>3, <1>4 DEF Next

LEMMA PageIsReadHolds ==
  ASSUME TypeOK, Reading, PageIsRead, [Next]_vars
  PROVE  PageIsRead'
<1>1. CASE Scan \/ UNCHANGED vars
  <2>1. tx' = tx /\ query' = query /\ page' = page /\ Places' = Places
    BY <1>1, ScanLeaves, StutterLeaves
  <2>2. Conclusion(query)' = Conclusion(query)
    BY <2>1 DEF Conclusion, Listed, StrictLegs, LegsRead
  <2> QED
    BY <2>1, <2>2 DEF PageIsRead
<1>2. CASE Query
  <2>1. tx' = tx /\ Places' = Places
    BY <1>2, QueryLeaves
  <2>2. CASE Opens \/ ListsThem \/ ReadsLegs \/ AsksNode \/ Finishes
    <3>1. query'.pc # "shown"
      BY <2>2 DEF Opens, ListsThem, ReadsLegs, AsksNode, Finishes, Closed
    <3> QED
      BY <3>1 DEF PageIsRead
  <2>3. CASE ShowsPage
    <3>1. /\ query'.legs = query.legs /\ query'.rows = query.rows
          /\ query'.summary = query.summary
      BY <2>3 DEF ShowsPage, SameRequest, SameRead
    <3>2. page'.read = query /\ page'.conclusion = Conclusion(query)
      BY <2>3, PageParts DEF ShowsPage
    <3>3. Conclusion(query)' = Conclusion(query)
      BY <2>1, <3>1 DEF Conclusion, Listed, StrictLegs, LegsRead
    <3> QED
      BY <3>1, <3>2, <3>3 DEF PageIsRead
  <2> QED
    BY <1>2, <2>2, <2>3, QueryMoves
<1> QED
  BY <1>1, <1>2 DEF Next

LEMMA InvariantHolds == Spec => []IInv
<1>1. Init => IInv
  <2> SUFFICES ASSUME Init PROVE IInv
    OBVIOUS
  <2>1. /\ scan.pc = "idle" /\ scan.left = {} /\ scan.todo = {} /\ summary = None
        /\ query.pc = "closed" /\ query.found = None /\ query.since = None /\ scans = 0
        /\ Listed(legs) = {} /\ \A o \in Places : rows[o] = None
    BY DEF Init, Idle, Closed, Listed
  <2>2. None # 0
    BY PageAssumption
  <2>3. HaveLegs /\ Progress
    BY <2>1 DEF HaveLegs, Progress, Agrees, Active, Listing
  <2> QED
    BY <2>1, <2>2, <2>3, InitTypes DEF IInv, Reading, HaveTrace, Settled, ReadsThem,
                                       PageIsRead, Active, Listing
<1>2. IInv /\ [Next]_vars => IInv'
  <2> SUFFICES ASSUME IInv, [Next]_vars PROVE IInv'
    OBVIOUS
  <2>1. TypeOK'
    <3>1. CASE UNCHANGED vars
      <4>1. Runners' = Runners /\ Requests' = Requests /\ Rows' = Rows
            /\ StoredLegs' = StoredLegs
        BY <3>1, StutterLeaves DEF Runners, Requests, Rows, StoredLegs
      <4> QED
        BY <3>1, <4>1, StutterLeaves DEF IInv, TypeOK
    <3> QED
      BY <3>1, ScanTypes, QueryTypes DEF Next, IInv
  <2> QED
    BY <2>1, ReadingHolds, HaveLegsHolds, HaveTraceHolds, ProgressHolds, SettledHolds,
       ReadsThemHolds, PageIsReadHolds DEF IInv
<1> QED
  BY <1>1, <1>2, PTL DEF Spec

-------------------------------------------------------------------------------
(* The theorems.                                                           *)

(* The tables, the runner and the request hold what their types say, and a *)
(* page is there as long as it is shown (GetTransactionDetail, RunOnce).   *)
THEOREM TypeCorrect == Spec => []TypeOK
BY InvariantHolds, PTL DEF IInv

LEMMA HoldsTogether == IInv => PageHoldsTogether
<1> SUFFICES ASSUME IInv, Shown PROVE PageHoldsTogether
  BY DEF PageHoldsTogether
<1>1. /\ TypeOK /\ HaveLegs /\ query.pc = "shown" /\ query.pc \in Listing
      /\ query.pc \in Active /\ query.left = {}
      /\ page.read.legs = query.legs /\ page.read.rows = query.rows
      /\ page.conclusion = Conclusion(query)
  BY DEF IInv, Reading, PageIsRead, Shown, Active, Listing
<1>2. \A o \in query.had : page.read.legs[o] # None
  BY <1>1 DEF HaveLegs
<1>3. query.found # None => page.trace.status = "available"
  BY <1>1 DEF IInv, HaveTrace
<1> DEFINE row == page.read.rows
           found == page.read.legs
           strict == {o \in Listed(row) : row[o].verdict = "strict"}
           verified == {o \in Listed(row) : row[o].verdict # "unverified"}
<1>4. ASSUME failures = 0, scan.pc = "idle", query.since = scans
      PROVE  /\ \A o \in Listed(row) : tx.loans[row[o].loan].legs # << >> =>
                  found[o] # None /\ found[o].loan = row[o].loan
             /\ \A o \in verified : found[o] # None => found[o].form = "verified"
             /\ page.conclusion.verdict = "strict" <=> strict # {}
             /\ page.conclusion.verdict = "candidate" <=> verified = {}
             /\ page.conclusion.count = Cardinality(Listed(row))
             /\ page.conclusion.strictCount = Cardinality(strict)
             /\ \A o \in strict : \A n \in DOMAIN LegsRead(found[o]) :
                  <<o, n>> \in page.conclusion.strictLegs
  <2>1. /\ query.summary = summary /\ row = rows
        /\ \A o \in Listed(rows) : found[o] = legs[o]
    BY <1>1, <1>4 DEF IInv, ReadsThem
  <2>2. query.summary = Aggregate
    BY <1>1, <1>4, <2>1 DEF IInv, HaveLegs, Settled
  <2>3. \A o \in Listed(rows) : Agrees(o) /\ rows[o] # None
    BY <1>1, <1>4 DEF IInv, Progress, TypeOK, Listed
  <2>4. \A o \in Listed(row) : tx.loans[row[o].loan].legs # << >> =>
          found[o] # None /\ found[o].loan = row[o].loan
    BY <2>1, <2>3 DEF Agrees, HasOwn
  <2>5. \A o \in verified : found[o] # None => found[o].form = "verified"
    BY <2>1, <2>3 DEF Agrees
  <2>6. /\ query.summary.strict <=> strict # {}
        /\ query.summary.verified <=> verified # {}
        /\ query.summary.count = Cardinality(Listed(row))
        /\ query.summary.strictCount = Cardinality(strict)
    <3>1. Listed(row) = Listed(rows)
          /\ strict = {o \in Listed(rows) : rows[o].verdict = "strict"}
      BY <2>1
    <3>2. /\ verified # {} <=> \E o \in Listed(rows) : rows[o].verdict # "unverified"
          /\ strict # {} <=> \E o \in Listed(rows) : rows[o].verdict = "strict"
      BY <2>1
    <3> HIDE DEF strict, verified, row
    <3>3. /\ query.summary.verified
               <=> \E o \in Listed(rows) : rows[o].verdict # "unverified"
          /\ query.summary.strict
               <=> \E o \in Listed(rows) : rows[o].verdict = "strict"
      BY <2>2 DEF Aggregate
    <3>4. /\ query.summary.count = Cardinality(Listed(row))
          /\ query.summary.strictCount = Cardinality(strict)
      BY <2>2, <3>1 DEF Aggregate
    <3> QED
      BY <3>2, <3>3, <3>4
  <2>7. /\ query.summary.strict => page.conclusion.verdict = "strict"
        /\ (~query.summary.strict /\ query.summary.verified) =>
             page.conclusion.verdict = "verified"
        /\ (~query.summary.strict /\ ~query.summary.verified) =>
             page.conclusion.verdict = "candidate"
        /\ page.conclusion.count = query.summary.count
        /\ page.conclusion.strictCount = query.summary.strictCount
        /\ page.conclusion.strictLegs =
             UNION {{o} \X StrictLegs(query.legs[o]) : o \in Listed(query.rows)}
    BY <1>1 DEF Conclusion
  <2>8. /\ page.conclusion.verdict = "strict" <=> strict # {}
        /\ page.conclusion.verdict = "candidate" <=> verified = {}
    <3>1. strict \subseteq verified
      OBVIOUS
    <3> HIDE DEF strict, verified
    <3> QED
      BY <2>6, <2>7, <3>1
  <2>9. ASSUME NEW o \in strict, NEW n \in DOMAIN LegsRead(found[o])
        PROVE  <<o, n>> \in page.conclusion.strictLegs
    <3>1. found[o] # None
      BY <2>9 DEF LegsRead
    <3>2. o \in Listed(rows) /\ found[o] = legs[o] /\ rows[o].verdict = "strict"
      BY <2>1
    <3>3. found[o].form = "verified" /\ ~Debt(found[o])
      BY <2>3, <3>1, <3>2 DEF Agrees
    <3>4. ~LegsRead(found[o])[n].debt
      BY <3>3 DEF Debt
    <3>5. n \in StrictLegs(found[o])
      BY <3>3, <3>4 DEF StrictLegs
    <3>6. <<o, n>> \in {o} \X StrictLegs(query.legs[o]) /\ o \in Listed(query.rows)
      BY <1>1, <2>1, <3>2, <3>5
    <3> QED
      BY <2>7, <3>6
  <2> HIDE DEF strict, verified, row, found
  <2> QED
    BY <2>4, <2>5, <2>6, <2>7, <2>8, <2>9
<1> QED
  BY <1>2, <1>3, <1>4 DEF PageHoldsTogether

(* An interaction that had legs when a page was asked for is never shown   *)
(* without, whatever scans do meanwhile, new loans and other protocols'    *)
(* under the same ids included.  A page read between two scans, nothing    *)
(* having failed, says of the transaction what it says of its              *)
(* interactions, and shows each with its own legs, verified ones with      *)
(* verified legs and strict ones with legs counted as strict.  And a page  *)
(* whose trace was stored when it was asked for is shown with one          *)
(* (GetTransactionDetail against UpsertInteractions,                       *)
(* ReplaceInteractionLegs, AggregateByTx).                                 *)
THEOREM PagesHoldTogether == Spec => []PageHoldsTogether
BY InvariantHolds, HoldsTogether, PTL

-------------------------------------------------------------------------------
(* The evidence on a page.                                                 *)

(* The frames of a depth whose parents are among some.                     *)
CalledAt(frames, depth, parents) ==
  {f.id : f \in {g \in ToSet(frames) : g.depth = depth /\ g.parent \in parents}}

(* The steps of Under.                                                     *)
LEMMA UnderSteps ==
  ASSUME NEW frames, Len(frames) \in Nat, NEW roots
  PROVE  \E below :
           /\ below[0] = roots
           /\ \A d \in 1 .. Len(frames) :
                below[d] = below[d - 1] \cup CalledAt(frames, d, below[d - 1])
           /\ Under(frames, roots) = below[Max({0} \cup {f.depth : f \in ToSet(frames)})]
<1> DEFINE S == 0 .. Len(frames)
           T == SUBSET (roots \cup {f.id : f \in ToSet(frames)})
           m == [d \in S |-> d]
           next(b, d) == IF d = 0 THEN roots ELSE b[d - 1] \cup CalledAt(frames, d, b[d - 1])
           F == [q \in [S -> T] \X S |-> next(q[1], q[2])]
           right(b) == b = [d \in S |-> next(b, d)]
           h == CHOOSE b : right(b)
<1>1. T # {} /\ m \in [S -> Nat]
  <2>1. {} \in T
    OBVIOUS
  <2>2. m \in [S -> Nat]
    OBVIOUS
  <2>3. QED
    BY <2>1, <2>2
<1>2. ASSUME NEW b \in [S -> T], NEW d \in S PROVE next(b, d) \in T
  <2>1. d # 0 => d - 1 \in S
    OBVIOUS
  <2>2. QED
    BY <2>1 DEF CalledAt
<1>3. ASSUME NEW b \in [S -> T], NEW c \in [S -> T], NEW d \in S,
             \A r \in S : m[r] < m[d] => b[r] = c[r]
      PROVE  next(b, d) = next(c, d)
  <2>1. d # 0 => d - 1 \in S /\ m[d - 1] < m[d]
    OBVIOUS
  <2>2. QED
    BY <1>3, <2>1
<1>4. Under(frames, roots) = h[Max({0} \cup {f.depth : f \in ToSet(frames)})]
  BY DEF Under, CalledAt
<1>5. /\ \A b : next(b, 0) = roots
      /\ \A b : \A d \in 1 .. Len(frames) : next(b, d) = b[d - 1] \cup CalledAt(frames, d, b[d - 1])
      /\ 0 \in S /\ \A d \in 1 .. Len(frames) : d \in S
  OBVIOUS
<1> HIDE DEF next, T, m, S
<1>6. F \in [[S -> T] \X S -> T]
  BY <1>2
<1>7. LooksBelow(F, S, T, m)
  BY <1>3 DEF LooksBelow
<1>8. PICK b \in Solutions(F, S, T) : TRUE
  <2>1. Recursive(F, S, T, m)
    BY <1>1, <1>6, <1>7 DEF Recursive
  <2> HIDE DEF F
  <2>2. Solutions(F, S, T) # {}
    BY <2>1, Recursion
  <2>3. QED
    BY <2>2
<1>9. right(b)
  <2>1. b \in [S -> T] /\ \A d \in S : b[d] = F[<<b, d>>]
    BY <1>8 DEF Solutions
  <2>2. \A d \in S : b[d] = next(b, d)
    BY <2>1
  <2>3. QED
    BY <2>1, <2>2
<1>10. right(h)
  <2> HIDE DEF right
  <2>1. QED
    BY <1>9
<1> HIDE DEF h
<1>11. \A d \in S : h[d] = next(h, d)
  BY <1>10
<1>12. QED
  BY <1>4, <1>5, <1>11

(* The greatest of some numbers with a bound.                              *)
LEMMA Greatest ==
  ASSUME NEW L \in Nat, NEW S \in SUBSET (0 .. L), S # {}
  PROVE  Max(S) \in S /\ \A x \in S : x <= Max(S)
<1> DEFINE P == {n \in Nat : L - n \in S => \E y \in S : \A x \in S : x <= y}
<1>1. ASSUME NEW n \in Nat, \A i \in Nat : i < n => i \in P PROVE n \in P
  <2>1. SUFFICES ASSUME L - n \in S, ~ \E y \in S : \A x \in S : x <= y PROVE FALSE
    OBVIOUS
  <2>2. PICK x \in S : ~ (x <= L - n)
    BY <2>1
  <2>3. L - x \in Nat /\ L - x < n /\ L - (L - x) = x
    BY <2>1, <2>2
  <2>4. L - x \in P
    BY <1>1, <2>3
  <2>5. QED
    BY <2>1, <2>2, <2>3, <2>4
<1>2. P \in SUBSET Nat
  OBVIOUS
<1>3. P = Nat
  <2> HIDE DEF P
  <2>1. QED
    BY <1>1, <1>2, CourseOfValues
<1>4. PICK x \in S : TRUE
  OBVIOUS
<1>5. L - x \in Nat /\ L - (L - x) = x
  BY <1>4
<1>6. \E y \in S : \A z \in S : z <= y
  BY <1>3, <1>4, <1>5
<1>7. QED
  BY <1>6 DEF Max

(* The links to the parents lead to the frames below the roots.            *)
LEMMA UnderIsBelow ==
  ASSUME NEW trace, IsTrace(trace), NEW C \in SUBSET DOMAIN trace
  PROVE  Under(Flatten(trace), {Id(p) : p \in C}) =
           UNION {{Id(q) : q \in Below(trace, p)} : p \in C}
<1> DEFINE D == DOMAIN trace  frames == Flatten(trace)  roots == {Id(p) : p \in C}
           L == Len(frames)
           upto(d) == {q \in D : Len(q) <= d /\ \E p \in C : Above(p, q)}
           depths == {0} \cup {f.depth : f \in ToSet(frames)}
<1>1. D \subseteq Seq(Nat)
  BY DEF IsTrace
<1>2. /\ L \in Nat
      /\ \A f \in ToSet(frames) : \E p \in D : IsFrameOf(f, p)
      /\ \A p \in D : \E f \in ToSet(frames) : IsFrameOf(f, p)
      /\ \A p \in D : Len(p) < L
  <2>1. Cardinality(D) \in Nat
    BY FS_CardinalityType DEF IsTrace
  <2>2. QED
    BY <2>1, FramesOfPaths, DepthBounded
<1> HIDE DEF D, frames, L
<1>3. PICK below :
        /\ below[0] = roots
        /\ \A d \in 1 .. L : below[d] = below[d - 1] \cup CalledAt(frames, d, below[d - 1])
        /\ Under(frames, roots) = below[Max(depths)]
  BY <1>2, UnderSteps DEF L
<1>4. ASSUME NEW d \in 1 .. L, below[d - 1] = roots \cup {Id(q) : q \in upto(d - 1)}
      PROVE  below[d] = roots \cup {Id(q) : q \in upto(d)}
  <2>1. d - 1 \in Nat /\ below[d] = below[d - 1] \cup CalledAt(frames, d, below[d - 1])
    BY <1>3
  <2>2. ASSUME NEW s \in D, NEW k \in Nat, Append(s, k) \in D, Len(Append(s, k)) = d
        PROVE  ParentId(Append(s, k)) \in below[d - 1] <=> \E p \in C : Above(p, s)
    <3>1. s \in Seq(Nat) /\ ParentId(Append(s, k)) = Id(s) /\ Len(s) <= d - 1
      BY <1>1, <2>2, ParentIs, Longer
    <3>2. ASSUME Id(s) \in below[d - 1] PROVE \E p \in C : Above(p, s)
      <4>1. CASE \E p \in C : Id(s) = Id(p)
        <5>1. s \in C
          BY <1>1, <3>1, <4>1, IdsDiffer DEF D
        <5>2. QED
          BY <5>1 DEF Above
      <4>2. CASE \E q \in upto(d - 1) : Id(s) = Id(q)
        <5>1. s \in upto(d - 1)
          BY <1>1, <3>1, <4>2, IdsDiffer
        <5>2. QED
          BY <5>1
      <4>3. QED
        BY <1>4, <3>2, <4>1, <4>2
    <3>3. ASSUME \E p \in C : Above(p, s) PROVE Id(s) \in below[d - 1]
      <4>1. s \in upto(d - 1)
        BY <3>1, <3>3
      <4>2. QED
        BY <1>4, <4>1
    <3>4. QED
      BY <3>1, <3>2, <3>3
  <2>3. ASSUME NEW q \in D, Len(q) = d
        PROVE  \E s \in D, k \in Nat : q = Append(s, k)
    <3>1. q \in Seq(Nat) /\ q # << >>
      BY <1>1, <2>3
    <3>2. PICK s \in Seq(Nat), k \in Nat : q = Append(s, k)
      BY <3>1, PathEmptyOrAppend
    <3>3. s \in D
      BY <3>2, TracePaths DEF D
    <3>4. QED
      BY <3>2, <3>3
  <2>4. ASSUME NEW q \in D, Len(q) = d
        PROVE  /\ ParentId(q) \in below[d - 1] => q \in upto(d)
               /\ q \in upto(d) => q \in C \/ ParentId(q) \in below[d - 1]
    <3>1. PICK s \in D, k \in Nat : q = Append(s, k)
      BY <2>3, <2>4
    <3>2. ParentId(q) \in below[d - 1] <=> \E p \in C : Above(p, s)
      BY <2>2, <2>4, <3>1
    <3>3. \A p \in C : Above(p, q) <=> (p = q \/ Above(p, s))
      BY <1>1, <3>1, AboveLast DEF D
    <3>4. QED
      BY <2>4, <3>2, <3>3
  <2>5. CalledAt(frames, d, below[d - 1]) =
          {Id(q) : q \in {r \in D : Len(r) = d /\ ParentId(r) \in below[d - 1]}}
    BY <1>2 DEF CalledAt, IsFrameOf
  <2>6. \A q \in D : q \in upto(d) <=> q \in upto(d - 1) \/ (q \in upto(d) /\ Len(q) = d)
    BY <1>1, <2>1
  <2> DEFINE called == {r \in D : Len(r) = d /\ ParentId(r) \in below[d - 1]}
  <2>7. /\ called \subseteq upto(d) /\ upto(d - 1) \subseteq upto(d)
        /\ upto(d) \subseteq upto(d - 1) \cup called \cup C
    BY <2>4, <2>6
  <2> HIDE DEF upto, called
  <2>8. below[d] = roots \cup {Id(q) : q \in upto(d - 1)} \cup {Id(q) : q \in called}
    BY <1>4, <2>1, <2>5 DEF called
  <2>9. QED
    BY <2>7, <2>8
<1> DEFINE P == {d \in Nat : d <= L => below[d] = roots \cup {Id(q) : q \in upto(d)}}
<1>5. P = Nat
  <2>1. 0 \in P
    <3>1. ASSUME NEW q \in upto(0) PROVE q \in C
      <4>1. PICK p \in C : Above(p, q) /\ Len(q) <= 0 /\ q \in D
        OBVIOUS
      <4>2. q = << >> /\ p = << >>
        BY <1>1, <4>1 DEF Above, D
      <4>3. QED
        BY <4>1, <4>2
    <3>2. {Id(q) : q \in upto(0)} \subseteq roots
      BY <3>1
    <3>3. QED
      BY <1>3, <3>2
  <2>2. ASSUME NEW d \in P PROVE d + 1 \in P
    <3> HIDE DEF upto
    <3>1. SUFFICES ASSUME d + 1 <= L
                   PROVE  below[d + 1] = roots \cup {Id(q) : q \in upto(d + 1)}
      OBVIOUS
    <3>2. d + 1 \in 1 .. L /\ (d + 1) - 1 = d /\ d <= L
      BY <1>2, <3>1
    <3>3. QED
      BY <1>4, <3>2
  <2>3. P \in SUBSET Nat
    OBVIOUS
  <2> HIDE DEF P
  <2>4. QED
    BY <2>1, <2>2, <2>3, Induction
<1>6. Max(depths) \in 0 .. L /\ \A q \in D : Len(q) <= Max(depths)
  <2>1. \A q \in D : Len(q) \in depths
    BY <1>2 DEF IsFrameOf
  <2>2. depths \in SUBSET (0 .. L) /\ depths # {}
    <3>1. \A p \in D : Len(p) \in 0 .. L
      BY <1>1, <1>2
    <3>2. \A f \in ToSet(frames) : f.depth \in 0 .. L
      BY <1>2, <3>1 DEF IsFrameOf
    <3>3. 0 \in 0 .. L
      BY <1>2
    <3>4. QED
      BY <3>2, <3>3
  <2> HIDE DEF depths
  <2>3. Max(depths) \in depths /\ \A x \in depths : x <= Max(depths)
    BY <1>2, <2>2, Greatest
  <2>4. QED
    BY <2>1, <2>2, <2>3
<1>7. Under(frames, roots) = roots \cup {Id(q) : q \in upto(Max(depths))}
  <2> DEFINE M == Max(depths)
  <2>1. M \in Nat /\ M <= L
    BY <1>2, <1>6
  <2> HIDE DEF M, P, upto
  <2>2. M \in P
    BY <1>5, <2>1
  <2>3. below[M] = roots \cup {Id(q) : q \in upto(M)}
    BY <2>1, <2>2 DEF P
  <2>4. QED
    BY <1>3, <2>3 DEF M
<1>8. upto(Max(depths)) = {q \in D : \E p \in C : Above(p, q)}
  BY <1>6
<1>9. C \subseteq {q \in D : \E p \in C : Above(p, q)}
  BY DEF Above, D
<1>10. Under(frames, roots) = {Id(q) : q \in {r \in D : \E p \in C : Above(p, r)}}
  <2> HIDE DEF upto, depths
  <2>1. QED
    BY <1>7, <1>8, <1>9
<1>11. QED
  BY <1>10 DEF Below, frames, D

(* What the evidence of a loan is.                                         *)
LEMMA EvidenceIsUnder ==
  ASSUME NEW trace, IsTrace(trace), NEW loan
  PROVE  Evidence(Flatten(trace), loan).subtree =
           Under(Flatten(trace), Evidence(Flatten(trace), loan).callbacks)
<1> DEFINE frames == Flatten(trace)
           callbacks == {f.id : f \in {g \in ToSet(frames) : IsCallback(g, loan)}}
           C == {p \in DOMAIN trace : Id(p) \in callbacks}
<1>1. callbacks = {Id(p) : p \in C}
  BY FramesOfPaths DEF IsFrameOf
<1>2. /\ Evidence(frames, loan).callbacks = callbacks
      /\ Evidence(frames, loan).subtree = UNION {Subtree(frames, id) : id \in callbacks}
  BY DEF Evidence
<1>3. C \in SUBSET DOMAIN trace
  OBVIOUS
<1>4. \A p \in C : Subtree(frames, Id(p)) = {Id(q) : q \in Below(trace, p)}
  BY SubtreeIsBelow
<1> HIDE DEF frames, callbacks, C
<1>5. UNION {Subtree(frames, id) : id \in callbacks} =
        UNION {{Id(q) : q \in Below(trace, p)} : p \in C}
  BY <1>1, <1>4
<1>6. Under(frames, callbacks) = UNION {{Id(q) : q \in Below(trace, p)} : p \in C}
  BY <1>1, <1>3, UnderIsBelow DEF frames
<1>7. QED
  BY <1>2, <1>5, <1>6 DEF frames

(* A null answer is a trace of one frame.                                  *)
LEMMA TracesAreTrees ==
  ASSUME tx \in Txs, NEW answer
  PROVE  IsTrace(TraceIn(answer))
<1>1. IsTrace(tx.trace)
  BY PageAssumption
<1>2. IsTrace(NullTrace)
  <2>1. DOMAIN NullTrace = {<< >>}
    BY DEF NullTrace
  <2>2. IsFiniteSet({<< >>})
    <3> DEFINE root == << >>
    <3> HIDE DEF root
    <3>1. IsFiniteSet({root})
      BY FS_Singleton
    <3>2. QED
      BY <3>1 DEF root
  <2>3. << >> \in Seq(Nat)
    OBVIOUS
  <2>4. QED
    BY <2>1, <2>2, <2>3 DEF IsTrace
<1>3. QED
  BY <1>1, <1>2 DEF TraceIn

LEMMA EvidenceHolds ==
  ASSUME IInv, EvidenceIsTheCallback, [Next]_vars
  PROVE  EvidenceIsTheCallback'
<1>1. TypeOK /\ Reading /\ tx \in Txs
  BY DEF IInv, TypeOK
<1>2. CASE Scan \/ UNCHANGED vars
  <2>1. query' = query /\ page' = page
    BY <1>1, <1>2, ScanLeaves, StutterLeaves
  <2>2. QED
    BY <2>1 DEF EvidenceIsTheCallback, Shown
<1>3. CASE Query
  <2>1. CASE query'.pc # "shown"
    BY <2>1 DEF EvidenceIsTheCallback, Shown
  <2>2. ASSUME NEW answer, page' = ResponseTo(query, Details(query), answer)
        PROVE  EvidenceIsTheCallback'
    <3> DEFINE loans == Details(query)  frames == Flatten(TraceIn(answer))
    <3>1. page'.trace = TraceSummary(loans, answer)
      BY <2>2 DEF ResponseTo, Response
    <3>2. CASE answer \in {"whole", "null"}
      <4>1. /\ page'.trace.frames = frames
            /\ page'.trace.evidence = [n \in DOMAIN loans |-> Evidence(frames, loans[n])]
        BY <3>1, <3>2 DEF TraceSummary, SummaryOf
      <4>2. ASSUME NEW n \in DOMAIN loans
            PROVE  Evidence(frames, loans[n]).subtree =
                     Under(frames, Evidence(frames, loans[n]).callbacks)
        BY <1>1, TracesAreTrees, EvidenceIsUnder
      <4> HIDE DEF loans, frames
      <4>3. QED
        BY <4>1, <4>2 DEF EvidenceIsTheCallback, ToSet
    <3>3. CASE answer \notin {"whole", "null"}
      <4>1. page'.trace.evidence = << >>
        BY <3>1, <3>3 DEF TraceSummary, NoSummary
      <4>2. ToSet(page'.trace.evidence) = {}
        BY <4>1 DEF ToSet
      <4>3. QED
        BY <4>2 DEF EvidenceIsTheCallback
    <3>4. QED
      BY <3>2, <3>3
  <2>3. query'.pc # "shown" \/ ShowsPage
    BY <1>1, <1>3, QueryMoves DEF Opens, ListsThem, ReadsLegs, AsksNode, Finishes, Closed
  <2>4. QED
    BY <2>1, <2>2, <2>3 DEF ShowsPage
<1>4. QED
  BY <1>2, <1>3 DEF Next

(* For every call trace and whatever the node answers, the frames marked   *)
(* as a loan's callback are its callbacks and all that was called under    *)
(* them, at any depth and however many calls a frame makes: the prefix     *)
(* test on frame ids takes no call 10 for a child of call 1                *)
(* (collectSubtreeFrameIDs, flattenTraceFrames).                           *)
THEOREM EvidenceIsAlwaysTheCallback == Spec => []EvidenceIsTheCallback
<1>1. Init => EvidenceIsTheCallback
  BY DEF Init, Closed, EvidenceIsTheCallback, Shown
<1>2. IInv /\ EvidenceIsTheCallback /\ [Next]_vars => EvidenceIsTheCallback'
  BY EvidenceHolds
<1>3. QED
  BY <1>1, <1>2, InvariantHolds, PTL DEF Spec

--------------------------------------------------------------------------------
(* Sequences: sorting, and the members kept of one.                        *)

(* What is taken of a sequence that grows.                                 *)
LEMMA TakenLast ==
  ASSUME NEW T, NEW s \in Seq(T), NEW x \in T, NEW places
  PROVE  Taken(Append(s, x), places)
           = Taken(s, places) \o (IF Len(s) + 1 \in places THEN <<x>> ELSE << >>)
<1> DEFINE more == Append(s, x)
           part(t, n) == IF n \in places THEN <<t[n]>> ELSE << >>
           parts == [n \in 1 .. Len(s) |-> part(s, n)]
           last == IF Len(s) + 1 \in places THEN <<x>> ELSE << >>
           all == [n \in 1 .. Len(s) + 1 |-> part(more, n)]
<1>1. Len(s) \in Nat /\ DOMAIN s = 1 .. Len(s) /\ \A n \in 1 .. Len(s) : s[n] \in T
  OBVIOUS
<1>2. /\ more \in Seq(T) /\ Len(more) = Len(s) + 1
      /\ \A n \in 1 .. Len(s) : more[n] = s[n]
      /\ more[Len(s) + 1] = x
  BY AppendProperties
<1>3. DOMAIN more = 1 .. Len(s) + 1
  BY <1>2, LenProperties
<1>4. last \in Seq(T)
  OBVIOUS
<1>5. parts \in Seq(Seq(T)) /\ Len(parts) = Len(s)
  <2>1. \A n \in 1 .. Len(s) : part(s, n) \in Seq(T)
    BY <1>1
  <2> HIDE DEF part
  <2>2. QED
    BY <1>1, <2>1
<1>6. all \in Seq(Seq(T)) /\ Len(all) = Len(s) + 1
  <2>1. \A n \in 1 .. Len(s) + 1 : more[n] \in T
    BY <1>2, <1>3
  <2> HIDE DEF more
  <2>2. \A n \in 1 .. Len(s) + 1 : part(more, n) \in Seq(T)
    BY <2>1
  <2> HIDE DEF part
  <2>3. QED
    BY <1>1, <2>2
<1>7. /\ \A n \in 1 .. Len(s) : all[n] = parts[n]
      /\ all[Len(s) + 1] = last
  <2>1. Len(s) + 1 \in 1 .. Len(s) + 1 /\ \A n \in 1 .. Len(s) : n \in 1 .. Len(s) + 1
    BY <1>1
  <2> HIDE DEF more
  <2>2. QED
    BY <1>2, <2>1
<1> HIDE DEF part, more, parts, last, all
<1>8. all = Append(parts, last)
  <2>1. /\ Append(parts, last) \in Seq(Seq(T)) /\ Len(Append(parts, last)) = Len(s) + 1
        /\ \A n \in 1 .. Len(s) : Append(parts, last)[n] = parts[n]
        /\ Append(parts, last)[Len(s) + 1] = last
    BY <1>4, <1>5, AppendProperties
  <2> DEFINE b == Append(parts, last)
  <2> HIDE DEF b
  <2>2. \A n \in 1 .. Len(s) + 1 : n \in 1 .. Len(s) \/ n = Len(s) + 1
    BY <1>1
  <2>3. \A n \in 1 .. Len(all) : all[n] = b[n]
    BY <1>6, <1>7, <2>1, <2>2 DEF b
  <2>4. b \in Seq(Seq(T)) /\ Len(all) = Len(b)
    BY <1>6, <2>1 DEF b
  <2>5. all = b
    BY <1>6, <2>3, <2>4, SeqEqual
  <2>6. QED
    BY <2>5 DEF b
<1>9. FlattenSeq(Append(parts, last)) = FlattenSeq(parts) \o last
  BY <1>4, <1>5, FlattenLast
<1>10. Taken(s, places) = FlattenSeq(parts) /\ Taken(more, places) = FlattenSeq(all)
  BY <1>1, <1>3 DEF Taken, parts, part, all
<1>11. QED
  BY <1>8, <1>9, <1>10 DEF more, last

(* t is what is at some places of s, at[k] being the place of its k-th     *)
(* member.                                                                 *)
TakenAt(s, places, t, at) ==
  /\ at \in [1 .. Len(t) -> 1 .. Len(s)]
  /\ \A k \in 1 .. Len(t) : at[k] \in places /\ t[k] = s[at[k]]
  /\ \A j, k \in 1 .. Len(t) : j < k => at[j] < at[k]
  /\ \A n \in 1 .. Len(s) : n \in places => \E k \in 1 .. Len(t) : at[k] = n

LEMMA TakenAtLast ==
  ASSUME NEW T, NEW s \in Seq(T), NEW x \in T, NEW places, NEW t \in Seq(T),
         NEW at, TakenAt(s, places, t, at)
  PROVE  \E bt : TakenAt(Append(s, x), places,
                         t \o (IF Len(s) + 1 \in places THEN <<x>> ELSE << >>), bt)
<1> DEFINE more == Append(s, x)
           N == Len(s)
           M == Len(t)
<1>1. N \in Nat /\ M \in Nat
  OBVIOUS
<1>2. Len(more) = N + 1 /\ (\A n \in 1 .. N : more[n] = s[n]) /\ more[N + 1] = x
  BY AppendProperties
<1>3. /\ at \in [1 .. M -> 1 .. N]
      /\ \A k \in 1 .. M : at[k] \in places /\ t[k] = s[at[k]]
      /\ \A j, k \in 1 .. M : j < k => at[j] < at[k]
      /\ \A n \in 1 .. N : n \in places => \E k \in 1 .. M : at[k] = n
  BY DEF TakenAt
<1>4. CASE N + 1 \notin places
  <2>1. t \o << >> = t
    BY ConcatEmptySeq
  <2> HIDE DEF more, N, M
  <2>2. /\ at \in [1 .. M -> 1 .. N + 1]
        /\ \A k \in 1 .. M : at[k] \in places /\ t[k] = more[at[k]]
        /\ \A n \in 1 .. N + 1 : n \in places => \E k \in 1 .. M : at[k] = n
    <3>1. \A k \in 1 .. M : at[k] \in 1 .. N /\ at[k] \in 1 .. N + 1
      BY <1>1, <1>3
    <3>2. \A n \in 1 .. N + 1 : n \in places => n \in 1 .. N
      BY <1>1, <1>4
    <3>3. QED
      BY <1>2, <1>3, <3>1, <3>2
  <2>3. TakenAt(more, places, t, at)
    BY <1>2, <1>3, <2>2 DEF TakenAt, M
  <2>4. QED
    BY <1>4, <2>1, <2>3 DEF more, N
<1>5. CASE N + 1 \in places
  <2> DEFINE u == t \o <<x>>
             bt == [k \in 1 .. M + 1 |-> IF k = M + 1 THEN N + 1 ELSE at[k]]
  <2>1. Len(u) = M + 1 /\ (\A k \in 1 .. M : u[k] = t[k]) /\ u[M + 1] = x
    BY AppendIsConcat, AppendProperties
  <2> HIDE DEF more, N, M, u
  <2>2. M + 1 \in 1 .. M + 1 /\ N + 1 \in 1 .. N + 1
        /\ \A k \in 1 .. M + 1 : k = M + 1 \/ (k \in 1 .. M /\ k # M + 1)
    BY <1>1
  <2>3. \A k \in 1 .. M : at[k] \in 1 .. N /\ at[k] \in 1 .. N + 1 /\ k \in 1 .. M + 1 /\ at[k] < N + 1
    BY <1>1, <1>3
  <2>4. bt[M + 1] = N + 1 /\ \A k \in 1 .. M : bt[k] = at[k]
    <3>1. \A k \in 1 .. M : k # M + 1
      BY <1>1
    <3>2. QED
      BY <2>2, <2>3, <3>1
  <2>5. bt \in [1 .. M + 1 -> 1 .. N + 1]
    BY <2>2, <2>3
  <2> HIDE DEF bt
  <2>6. \A k \in 1 .. M + 1 : bt[k] \in places /\ u[k] = more[bt[k]]
    BY <1>2, <1>3, <1>5, <2>1, <2>2, <2>3, <2>4
  <2>7. ASSUME NEW j \in 1 .. M + 1, NEW k \in 1 .. M + 1, j < k
        PROVE  bt[j] < bt[k]
    <3>1. j \in 1 .. M
      BY <1>1, <2>7
    <3>2. QED
      BY <1>3, <2>2, <2>3, <2>4, <2>7, <3>1
  <2>8. ASSUME NEW n \in 1 .. N + 1, n \in places
        PROVE  \E k \in 1 .. M + 1 : bt[k] = n
    <3>1. CASE n = N + 1
      BY <2>2, <2>4, <3>1
    <3>2. CASE n # N + 1
      <4>1. n \in 1 .. N
        BY <1>1, <3>2
      <4>2. PICK k \in 1 .. M : at[k] = n
        BY <1>3, <2>8, <4>1
      <4>3. QED
        BY <2>3, <2>4, <4>2
    <3>3. QED
      BY <3>1, <3>2
  <2>9. TakenAt(more, places, u, bt)
    BY <1>2, <2>1, <2>5, <2>6, <2>7, <2>8 DEF TakenAt
  <2>10. QED
    BY <1>5, <2>9 DEF more, N, u
<1>6. QED
  BY <1>4, <1>5

LEMMA TakenPlaces ==
  ASSUME NEW T, NEW s \in Seq(T), NEW places
  PROVE  /\ Taken(s, places) \in Seq(T)
         /\ \E at : TakenAt(s, places, Taken(s, places), at)
<1> DEFINE good(r) == /\ Taken(r, places) \in Seq(T)
                      /\ \E at : TakenAt(r, places, Taken(r, places), at)
           P == {n \in Nat : \A r \in Seq(T) : Len(r) = n => good(r)}
<1>1. 0 \in P
  <2>1. SUFFICES ASSUME NEW r \in Seq(T), Len(r) = 0 PROVE good(r)
    OBVIOUS
  <2>2. r = << >> /\ DOMAIN r = 1 .. 0
    BY <2>1
  <2>3. Taken(r, places) = << >>
    <3>1. \A e : [n \in 1 .. 0 |-> IF n \in places THEN <<r[n]>> ELSE << >>] = << >>
      OBVIOUS
    <3>2. FlattenSeq(<< >>) = << >>
      BY DEF FlattenSeq
    <3>3. QED
      BY <2>2, <3>1, <3>2 DEF Taken
  <2>4. TakenAt(r, places, << >>, << >>)
    BY <2>2 DEF TakenAt
  <2>5. QED
    BY <2>3, <2>4
<1>2. ASSUME NEW n \in P PROVE n + 1 \in P
  <2>1. SUFFICES ASSUME NEW r \in Seq(T), Len(r) = n + 1 PROVE good(r)
    OBVIOUS
  <2>2. n \in Nat /\ \A q \in Seq(T) : Len(q) = n => good(q)
    OBVIOUS
  <2>3. r # << >>
    BY <2>1, <2>2
  <2>4. PICK q \in Seq(T), x \in T : r = Append(q, x)
    BY <2>3, SequenceEmptyOrAppend
  <2>5. Len(q) = n
    BY <2>1, <2>2, <2>4
  <2> HIDE DEF P
  <2>6. Taken(q, places) \in Seq(T) /\ \E at : TakenAt(q, places, Taken(q, places), at)
    BY <2>2, <2>5
  <2> DEFINE last == IF Len(q) + 1 \in places THEN <<x>> ELSE << >>
  <2>7. Taken(r, places) = Taken(q, places) \o last
    BY <2>4, TakenLast
  <2>8. last \in Seq(T)
    OBVIOUS
  <2>9. \E bt : TakenAt(Append(q, x), places, Taken(q, places) \o last, bt)
    BY <2>6, TakenAtLast
  <2> HIDE DEF last
  <2>10. QED
    BY <2>4, <2>6, <2>7, <2>8, <2>9, ConcatProperties
<1>3. P \in SUBSET Nat
  OBVIOUS
<1> HIDE DEF P
<1>4. P = Nat
  BY <1>1, <1>2, <1>3, Induction
<1>5. Len(s) \in P
  BY <1>4
<1>6. QED
  BY <1>5 DEF P

LEMMA TakenSame ==
  ASSUME NEW T, NEW s \in Seq(T), NEW p, NEW q, \A n \in 1 .. Len(s) : n \in p <=> n \in q
  PROVE  Taken(s, p) = Taken(s, q)
<1>1. DOMAIN s = 1 .. Len(s)
  OBVIOUS
<1>2. [n \in DOMAIN s |-> IF n \in p THEN <<s[n]>> ELSE << >>]
        = [n \in DOMAIN s |-> IF n \in q THEN <<s[n]>> ELSE << >>]
  BY <1>1
<1>3. QED
  BY <1>2 DEF Taken

LEMMA ToSetIs ==
  ASSUME NEW T, NEW s \in Seq(T)
  PROVE  ToSet(s) = {s[n] : n \in 1 .. Len(s)} /\ ToSet(s) \subseteq T
<1>1. DOMAIN s = 1 .. Len(s)
  OBVIOUS
<1>2. QED
  BY <1>1 DEF ToSet

LEMMA KeepLast ==
  ASSUME NEW T, NEW s \in Seq(T), NEW x \in T, NEW S
  PROVE  Keep(Append(s, x), S) = Keep(s, S) \o (IF x \in S THEN <<x>> ELSE << >>)
<1> DEFINE more == Append(s, x)
           p == {n \in DOMAIN s : s[n] \in S}
           q == {n \in DOMAIN more : more[n] \in S}
<1>1. Len(s) \in Nat /\ DOMAIN s = 1 .. Len(s)
  OBVIOUS
<1>2. /\ more \in Seq(T) /\ Len(more) = Len(s) + 1
      /\ (\A n \in 1 .. Len(s) : more[n] = s[n]) /\ more[Len(s) + 1] = x
  BY AppendProperties
<1>3. DOMAIN more = 1 .. Len(s) + 1
  BY <1>2, LenProperties
<1>4. (\A n \in 1 .. Len(s) : n \in p <=> n \in q) /\ (Len(s) + 1 \in q <=> x \in S)
  <2> HIDE DEF more
  <2>1. (\A n \in 1 .. Len(s) : n \in 1 .. Len(s) + 1) /\ Len(s) + 1 \in 1 .. Len(s) + 1
    BY <1>1
  <2>2. QED
    BY <1>1, <1>2, <1>3, <2>1
<1>5. Keep(s, S) = Taken(s, p) /\ Keep(more, S) = Taken(more, q)
  BY DEF Keep
<1> HIDE DEF p, q
<1>6. Taken(s, p) = Taken(s, q)
  BY <1>4, TakenSame
<1>7. Taken(Append(s, x), q) = Taken(s, q) \o (IF Len(s) + 1 \in q THEN <<x>> ELSE << >>)
  BY TakenLast
<1>8. QED
  BY <1>4, <1>5, <1>6, <1>7 DEF more

LEMMA KeepMembers ==
  ASSUME NEW T, NEW s \in Seq(T), NEW S
  PROVE  Keep(s, S) \in Seq(T) /\ ToSet(Keep(s, S)) = ToSet(s) \cap S
<1> DEFINE p == {n \in DOMAIN s : s[n] \in S}
           t == Keep(s, S)
<1>1. DOMAIN s = 1 .. Len(s) /\ t = Taken(s, p)
  BY DEF Keep
<1> HIDE DEF p, t
<1>2. t \in Seq(T) /\ \E at : TakenAt(s, p, t, at)
  BY <1>1, TakenPlaces
<1>3. PICK at : /\ at \in [1 .. Len(t) -> 1 .. Len(s)]
                /\ \A k \in 1 .. Len(t) : at[k] \in p /\ t[k] = s[at[k]]
                /\ \A n \in 1 .. Len(s) : n \in p => \E k \in 1 .. Len(t) : at[k] = n
  BY <1>2 DEF TakenAt
<1>4. \A n \in 1 .. Len(s) : n \in p <=> s[n] \in S
  BY <1>1 DEF p
<1>5. ToSet(t) = {t[k] : k \in 1 .. Len(t)} /\ ToSet(s) = {s[n] : n \in 1 .. Len(s)}
  BY <1>2, ToSetIs
<1>6. ASSUME NEW k \in 1 .. Len(t) PROVE t[k] \in ToSet(s) \cap S
  BY <1>3, <1>4, <1>5
<1>7. ASSUME NEW n \in 1 .. Len(s), s[n] \in S PROVE s[n] \in ToSet(t)
  <2>1. PICK k \in 1 .. Len(t) : at[k] = n
    BY <1>3, <1>4, <1>7
  <2>2. QED
    BY <1>3, <1>5, <2>1
<1>8. QED
  BY <1>2, <1>5, <1>6, <1>7 DEF t

(* t has the first of s for each key.                                      *)
FirstsAt(s, keys, t, at) ==
  /\ at \in [1 .. Len(t) -> 1 .. Len(s)]
  /\ \A k \in 1 .. Len(t) : t[k] = s[at[k]]
  /\ \A j, k \in 1 .. Len(t) : j < k => at[j] < at[k]
  /\ \A j, k \in 1 .. Len(t) : keys[at[j]] = keys[at[k]] => j = k
  /\ \A n \in 1 .. Len(s) : \E k \in 1 .. Len(t) : at[k] <= n /\ keys[at[k]] = keys[n]

LEMMA FirstsTaken ==
  ASSUME NEW T, NEW s \in Seq(T), NEW keys
  PROVE  /\ FirstsOf(s, keys) \in Seq(T)
         /\ \E at : FirstsAt(s, keys, FirstsOf(s, keys), at)
<1> DEFINE p == {n \in DOMAIN s : \A m \in 1 .. n - 1 : keys[m] # keys[n]}
           t == FirstsOf(s, keys)
<1>1. DOMAIN s = 1 .. Len(s) /\ Len(s) \in Nat /\ t = Taken(s, p)
  BY DEF FirstsOf
<1> HIDE DEF p, t
<1>2. t \in Seq(T) /\ \E at : TakenAt(s, p, t, at)
  BY <1>1, TakenPlaces
<1>3. PICK at : /\ at \in [1 .. Len(t) -> 1 .. Len(s)]
                /\ \A k \in 1 .. Len(t) : at[k] \in p /\ t[k] = s[at[k]]
                /\ \A j, k \in 1 .. Len(t) : j < k => at[j] < at[k]
                /\ \A n \in 1 .. Len(s) : n \in p => \E k \in 1 .. Len(t) : at[k] = n
  BY <1>2 DEF TakenAt
<1>4. \A n \in 1 .. Len(s) : n \in p <=> \A m \in 1 .. n - 1 : keys[m] # keys[n]
  BY <1>1 DEF p
<1>5. Len(t) \in Nat
  BY <1>2, LenProperties
<1>6. ASSUME NEW j \in 1 .. Len(t), NEW k \in 1 .. Len(t), keys[at[j]] = keys[at[k]]
      PROVE  j = k
  <2>1. at[j] \in 1 .. Len(s) /\ at[k] \in 1 .. Len(s) /\ at[j] \in p /\ at[k] \in p
    BY <1>3
  <2>2. ~(j < k)
    <3>1. SUFFICES ASSUME j < k PROVE FALSE
      OBVIOUS
    <3>2. at[j] < at[k]
      BY <1>3, <3>1
    <3>3. at[j] \in 1 .. at[k] - 1
      BY <1>1, <2>1, <3>2
    <3>4. QED
      BY <1>4, <1>6, <2>1, <3>3
  <2>3. ~(k < j)
    <3>1. SUFFICES ASSUME k < j PROVE FALSE
      OBVIOUS
    <3>2. at[k] < at[j]
      BY <1>3, <3>1
    <3>3. at[k] \in 1 .. at[j] - 1
      BY <1>1, <2>1, <3>2
    <3>4. QED
      BY <1>4, <1>6, <2>1, <3>3
  <2>4. QED
    BY <1>5, <2>2, <2>3
<1> DEFINE found(n) == \E k \in 1 .. Len(t) : at[k] <= n /\ keys[at[k]] = keys[n]
           P == {n \in Nat : n \in 1 .. Len(s) => found(n)}
<1>7. ASSUME NEW n \in Nat, \A m \in Nat : m < n => m \in P PROVE n \in P
  <2>1. SUFFICES ASSUME n \in 1 .. Len(s) PROVE found(n)
    OBVIOUS
  <2>2. CASE n \in p
    <3>1. PICK k \in 1 .. Len(t) : at[k] = n
      BY <1>3, <2>1, <2>2
    <3>2. QED
      BY <3>1
  <2>3. CASE n \notin p
    <3>1. PICK m \in 1 .. n - 1 : keys[m] = keys[n]
      BY <1>4, <2>1, <2>3
    <3>2. m \in Nat /\ m < n /\ m \in 1 .. Len(s)
      BY <1>1, <2>1
    <3>3. found(m)
      BY <1>7, <3>2
    <3>4. PICK k \in 1 .. Len(t) : at[k] <= m /\ keys[at[k]] = keys[m]
      BY <3>3
    <3>5. at[k] \in 1 .. Len(s)
      BY <1>3
    <3>6. at[k] <= n
      BY <1>1, <3>2, <3>4, <3>5
    <3>7. QED
      BY <3>1, <3>4, <3>6
  <2>4. QED
    BY <2>2, <2>3
<1>8. P \in SUBSET Nat
  OBVIOUS
<1> HIDE DEF P
<1>9. P = Nat
  BY <1>7, <1>8, CourseOfValues
<1>10. ASSUME NEW n \in 1 .. Len(s) PROVE found(n)
  <2>1. n \in P
    BY <1>1, <1>9
  <2>2. QED
    BY <2>1 DEF P
<1>11. FirstsAt(s, keys, t, at)
  BY <1>3, <1>6, <1>10 DEF FirstsAt
<1>12. QED
  BY <1>2, <1>11 DEF t

(* SubSeq from the first on.                                               *)
LEMMA FirstOfMembers ==
  ASSUME NEW T, NEW s \in Seq(T), NEW n \in Nat
  PROVE  FirstOf(s, n) \in Seq(T) /\ ToSet(FirstOf(s, n)) \subseteq ToSet(s)
<1> DEFINE m == Min({n, Len(s)})
           t == SubSeq(s, 1, m)
<1>1. Len(s) \in Nat
  OBVIOUS
<1>2. m \in Nat /\ m <= Len(s)
  <2>1. \E x \in {n, Len(s)} : \A y \in {n, Len(s)} : x <= y
    <3>1. n <= Len(s) \/ Len(s) <= n
      BY <1>1
    <3>2. n <= n /\ Len(s) <= Len(s)
      BY <1>1
    <3>3. QED
      BY <3>1, <3>2
  <2>2. m = CHOOSE x \in {n, Len(s)} : \A y \in {n, Len(s)} : x <= y
    BY DEF Min
  <2>3. m \in {n, Len(s)} /\ \A y \in {n, Len(s)} : m <= y
    BY <2>1, <2>2
  <2>4. QED
    BY <1>1, <2>3
<1> HIDE DEF m
<1>3. \A i \in 1 .. m : i \in 1 .. Len(s) /\ s[i] \in T
  BY <1>1, <1>2
<1>4. /\ t \in Seq(T) /\ Len(t) = m
      /\ \A i \in 1 .. m : t[i] = s[i]
  <2>1. 1 \in Int /\ m \in Int
    BY <1>2
  <2>2. /\ t \in Seq(T) /\ Len(t) = IF 1 <= m THEN m - 1 + 1 ELSE 0
        /\ \A i \in 1 .. m - 1 + 1 : t[i] = s[1 + i - 1]
    BY <1>3, <2>1, SubSeqProperties
  <2> HIDE DEF t
  <2>3. Len(t) = m
    BY <1>2, <2>2
  <2>4. \A i \in 1 .. m : i \in 1 .. m - 1 + 1 /\ 1 + i - 1 = i
    BY <1>2
  <2>5. QED
    BY <2>2, <2>3, <2>4
<1>5. ToSet(t) = {t[i] : i \in 1 .. m} /\ ToSet(s) = {s[i] : i \in 1 .. Len(s)}
  BY <1>4, ToSetIs
<1>6. FirstOf(s, n) = t
  BY DEF FirstOf, m
<1> HIDE DEF t
<1>7. QED
  BY <1>3, <1>4, <1>5, <1>6

(* The order of the flows.                                                 *)

(* The order of strings is that of their characters, the end of a string   *)
(* first.                                                                  *)
At(s, n) == IF n <= Len(s) THEN s[n] + 1 ELSE 0

Parting(s, t, n) == At(s, n) < At(t, n) /\ \A k \in 1 .. n - 1 : At(s, k) = At(t, k)

LEMMA AtType ==
  ASSUME NEW s \in Seq(Nat), NEW n \in Nat \ {0}
  PROVE  At(s, n) \in Nat /\ (At(s, n) = 0 <=> n > Len(s))
<1>1. Len(s) \in Nat /\ DOMAIN s = 1 .. Len(s) /\ (n <= Len(s) => s[n] \in Nat)
  OBVIOUS
<1>2. QED
  BY <1>1 DEF At

(* A string that is as another as far as it goes begins it.                *)
LEMMA SamePrefix ==
  ASSUME NEW s \in Seq(Nat), NEW t \in Seq(Nat)
  PROVE  IsPrefix(s, t) <=> Len(s) <= Len(t) /\ \A k \in 1 .. Len(s) : s[k] = t[k]
<1>1. Len(s) \in Nat /\ Len(t) \in Nat /\ SubSeq(s, 1, Len(s)) = s
  BY SubSeqFull
<1>2. ASSUME Len(s) <= Len(t)
      PROVE  s = SubSeq(t, 1, Len(s)) <=> \A k \in 1 .. Len(s) : s[k] = t[k]
  <2>1. /\ SubSeq(t, 1, Len(s)) \in Seq(Nat)
        /\ Len(SubSeq(t, 1, Len(s))) = Len(s)
        /\ \A k \in 1 .. Len(s) : SubSeq(t, 1, Len(s))[k] = t[k]
    BY <1>1, <1>2
  <2> DEFINE u == SubSeq(t, 1, Len(s))
  <2> HIDE DEF u
  <2>2. s = u <=> \A k \in 1 .. Len(s) : s[k] = u[k]
    BY <2>1, SeqEqual DEF u
  <2>3. QED
    BY <2>1, <2>2 DEF u
<1>3. QED
  BY <1>1, <1>2 DEF IsPrefix

LEMMA IdBeforeParts ==
  ASSUME NEW s \in Seq(Nat), NEW t \in Seq(Nat)
  PROVE  IdBefore(s, t) <=> \E n \in Nat \ {0} : Parting(s, t, n)
<1>1. /\ Len(s) \in Nat /\ DOMAIN s = 1 .. Len(s)
      /\ Len(t) \in Nat /\ DOMAIN t = 1 .. Len(t)
      /\ \A k \in 1 .. Len(s) : s[k] \in Nat
      /\ \A k \in 1 .. Len(t) : t[k] \in Nat
  OBVIOUS
<1>2. ASSUME IsStrictPrefix(s, t) PROVE \E n \in Nat \ {0} : Parting(s, t, n)
  <2>1. Len(s) <= Len(t) /\ (\A k \in 1 .. Len(s) : s[k] = t[k]) /\ s # t
    BY <1>2, SamePrefix DEF IsStrictPrefix
  <2>2. Len(s) < Len(t)
    <3>1. Len(s) = Len(t) => s = t
      BY <2>1, SeqEqual
    <3>2. Len(s) # Len(t)
      BY <2>1, <3>1
    <3>3. Len(s) \in Nat /\ Len(t) \in Nat /\ Len(s) <= Len(t)
      BY <1>1, <2>1
    <3>4. QED
      BY <3>2, <3>3
  <2>3. Parting(s, t, Len(s) + 1)
    BY <1>1, <2>1, <2>2 DEF Parting, At
  <2>4. QED
    BY <1>1, <2>3
<1>3. ASSUME NEW n \in DOMAIN s \cap DOMAIN t, s[n] < t[n], \A k \in 1 .. n - 1 : s[k] = t[k]
      PROVE  n \in Nat \ {0} /\ Parting(s, t, n)
  BY <1>1, <1>3 DEF Parting, At
<1>4. ASSUME NEW n \in Nat \ {0}, Parting(s, t, n) PROVE IdBefore(s, t)
  <2>1. n <= Len(t)
    BY <1>1, <1>4, AtType DEF Parting
  <2>2. \A k \in 1 .. n - 1 : k <= Len(t) /\ At(s, k) = At(t, k) /\ At(t, k) # 0
    <3> SUFFICES ASSUME NEW k \in 1 .. n - 1
                 PROVE  k <= Len(t) /\ At(s, k) = At(t, k) /\ At(t, k) # 0
      OBVIOUS
    <3>1. k \in Nat \ {0} /\ k <= Len(t)
      BY <1>1, <2>1
    <3>2. At(t, k) # 0
      BY <1>1, <3>1, AtType
    <3>3. At(s, k) = At(t, k)
      BY <1>4 DEF Parting
    <3>4. QED
      BY <3>1, <3>2, <3>3
  <2>3. \A k \in 1 .. n - 1 : k <= Len(s) /\ s[k] = t[k]
    BY <1>1, <2>2 DEF At
  <2>4. CASE n <= Len(s)
    <3>1. n \in DOMAIN s \cap DOMAIN t /\ s[n] < t[n]
      BY <1>1, <1>4, <2>1, <2>4 DEF Parting, At
    <3>2. QED
      BY <2>3, <3>1 DEF IdBefore
  <2>5. CASE n > Len(s)
    <3>1. n - 1 = Len(s)
      <4>1. n - 1 >= 1 => n - 1 <= Len(s)
        BY <2>3
      <4>2. QED
        BY <1>1, <2>5, <4>1
    <3>2. IsPrefix(s, t)
      <4>1. Len(s) <= Len(t)
        BY <1>1, <2>1, <2>5
      <4>2. \A k \in 1 .. Len(s) : s[k] = t[k]
        BY <2>3, <3>1
      <4>3. QED
        BY <4>1, <4>2, SamePrefix
    <3>3. Len(s) # Len(t)
      <4>1. n > Len(s) /\ n <= Len(t)
        BY <2>1, <2>5
      <4> DEFINE a == Len(s)  b == Len(t)
      <4>2. a \in Nat /\ b \in Nat /\ n > a /\ n <= b
        BY <1>1, <4>1
      <4> HIDE DEF a, b
      <4>3. a # b
        BY <4>2
      <4>4. QED
        BY <4>3 DEF a, b
    <3>4. QED
      BY <3>2, <3>3 DEF IdBefore, IsStrictPrefix
  <2>6. QED
    BY <1>1, <2>4, <2>5
<1>5. QED
  BY <1>2, <1>3, <1>4 DEF IdBefore

LEMMA IdsOrdered ==
  ASSUME NEW s \in Seq(Nat), NEW t \in Seq(Nat)
  PROVE  /\ ~IdBefore(s, s)
         /\ s # t => IdBefore(s, t) \/ IdBefore(t, s)
         /\ \A u \in Seq(Nat) : IdBefore(s, t) /\ IdBefore(t, u) => IdBefore(s, u)
<1>1. ~IdBefore(s, s)
  BY IdBeforeParts, AtType DEF Parting
<1>2. ASSUME s # t PROVE IdBefore(s, t) \/ IdBefore(t, s)
  <2> DEFINE P == {n \in Nat : n = 0 \/ At(s, n) = At(t, n)}
  <2>1. P # Nat
    <3>1. SUFFICES ASSUME P = Nat PROVE FALSE
      OBVIOUS
    <3>2. \A n \in Nat \ {0} : At(s, n) = At(t, n)
      BY <3>1
    <3>3. Len(s) \in Nat /\ Len(t) \in Nat /\ DOMAIN s = 1 .. Len(s) /\ DOMAIN t = 1 .. Len(t)
          /\ (\A k \in 1 .. Len(s) : s[k] \in Nat) /\ \A k \in 1 .. Len(t) : t[k] \in Nat
      OBVIOUS
    <3>4. Len(s) = Len(t)
      <4>1. At(s, Len(s) + 1) = At(t, Len(s) + 1) /\ At(s, Len(t) + 1) = At(t, Len(t) + 1)
        BY <3>2, <3>3
      <4>2. Len(s) + 1 > Len(t) /\ Len(t) + 1 > Len(s)
        BY <3>3, <4>1, AtType
      <4> DEFINE a == Len(s)  b == Len(t)
      <4>3. a \in Nat /\ b \in Nat /\ a + 1 > b /\ b + 1 > a
        BY <3>3, <4>2
      <4> HIDE DEF a, b
      <4>4. a = b
        BY <4>3
      <4>5. QED
        BY <4>4 DEF a, b
    <3>5. \A k \in 1 .. Len(s) : s[k] = t[k]
      <4> SUFFICES ASSUME NEW k \in 1 .. Len(s) PROVE s[k] = t[k]
        OBVIOUS
      <4>1. At(s, k) = At(t, k) /\ k <= Len(s) /\ k <= Len(t)
        BY <3>2, <3>3, <3>4
      <4>2. s[k] + 1 = t[k] + 1 /\ s[k] \in Nat /\ t[k] \in Nat
        BY <3>3, <3>4, <4>1 DEF At
      <4>3. QED
        BY <4>2
    <3>6. QED
      BY <1>2, <3>4, <3>5, SeqEqual
  <2>2. PICK n \in Nat : n \notin P /\ \A k \in Nat : k < n => k \in P
    <3> HIDE DEF P
    <3>1. P \cap Nat \in SUBSET Nat /\ P \cap Nat # Nat
      BY <2>1 DEF P
    <3>2. QED
      BY <3>1, CourseOfValues DEF P
  <2>3. n \in Nat \ {0} /\ At(s, n) # At(t, n) /\ \A k \in 1 .. n - 1 : At(s, k) = At(t, k)
    BY <2>2
  <2>4. At(s, n) \in Nat /\ At(t, n) \in Nat
    BY <2>3, AtType
  <2>5. Parting(s, t, n) \/ Parting(t, s, n)
    BY <2>3, <2>4 DEF Parting
  <2>6. QED
    BY <2>3, <2>5, IdBeforeParts
<1>3. ASSUME NEW u \in Seq(Nat), IdBefore(s, t), IdBefore(t, u) PROVE IdBefore(s, u)
  <2>1. PICK m \in Nat \ {0} : Parting(s, t, m)
    BY <1>3, IdBeforeParts
  <2>2. PICK n \in Nat \ {0} : Parting(t, u, n)
    BY <1>3, IdBeforeParts
  <2>3. \A k \in Nat \ {0} : At(s, k) \in Nat /\ At(t, k) \in Nat /\ At(u, k) \in Nat
    BY AtType
  <2>4. CASE m <= n
    <3>1. At(s, m) < At(t, m) /\ At(t, m) <= At(u, m)
      <4>1. CASE m = n
        BY <2>1, <2>2, <2>3, <4>1 DEF Parting
      <4>2. CASE m # n
        <5>1. m \in 1 .. n - 1
          BY <2>4, <4>2
        <5>2. At(t, m) = At(u, m)
          BY <2>2, <5>1 DEF Parting
        <5>3. QED
          BY <2>1, <2>3, <5>2 DEF Parting
      <4>3. QED
        BY <4>1, <4>2
    <3>2. At(s, m) < At(u, m)
      BY <2>3, <3>1
    <3>3. \A k \in 1 .. m - 1 : At(s, k) = At(t, k) /\ At(t, k) = At(u, k)
      BY <2>1, <2>2, <2>4 DEF Parting
    <3>4. Parting(s, u, m)
      BY <3>2, <3>3 DEF Parting
    <3>5. QED
      BY <3>4, IdBeforeParts
  <2>5. CASE n < m
    <3>1. Parting(s, u, n)
      BY <2>1, <2>2, <2>3, <2>5 DEF Parting
    <3>2. QED
      BY <3>1, IdBeforeParts
  <2>6. QED
    BY <2>4, <2>5
<1>4. QED
  BY <1>1, <1>2, <1>3

(* Numbers in a strict total order have as many before them as their place *)
(* says, and every place is taken.                                         *)
Ahead(R, N, i) == {j \in 1 .. N : <<j, i>> \in R}

LEMMA PlacesFill ==
  ASSUME NEW N \in Nat, NEW R,
         \A i \in 1 .. N : <<i, i>> \notin R,
         \A i, j \in 1 .. N : i # j => <<i, j>> \in R \/ <<j, i>> \in R,
         \A i, j, k \in 1 .. N : <<i, j>> \in R /\ <<j, k>> \in R => <<i, k>> \in R
  PROVE  /\ \A n \in 1 .. N : \E i \in 1 .. N : Cardinality(Ahead(R, N, i)) = n - 1
         /\ \A i, j \in 1 .. N :
              Cardinality(Ahead(R, N, i)) < Cardinality(Ahead(R, N, j)) => <<i, j>> \in R
<1> DEFINE S == 1 .. N
           place == [i \in S |-> Cardinality(Ahead(R, N, i)) + 1]
<1>1. IsFiniteSet(S) /\ Cardinality(S) = N
  <2>1. 1 \in Int /\ N \in Int
    OBVIOUS
  <2>2. IsFiniteSet(1 .. N) /\ Cardinality(1 .. N) = IF 1 > N THEN 0 ELSE N - 1 + 1
    BY <2>1, FS_Interval
  <2>3. QED
    BY <2>2
<1>2. ASSUME NEW i \in S
      PROVE  /\ IsFiniteSet(Ahead(R, N, i)) /\ Cardinality(Ahead(R, N, i)) \in Nat
             /\ Cardinality(Ahead(R, N, i)) < N
  <2>1. Ahead(R, N, i) \in SUBSET S /\ i \notin Ahead(R, N, i)
    BY DEF Ahead
  <2>2. /\ IsFiniteSet(Ahead(R, N, i))
        /\ Cardinality(Ahead(R, N, i)) <= N
        /\ Cardinality(Ahead(R, N, i)) = N => S = Ahead(R, N, i)
    <3> HIDE DEF S
    <3>1. QED
      BY <1>1, <2>1, FS_Subset
  <2>3. Cardinality(Ahead(R, N, i)) \in Nat
    BY <2>2, FS_CardinalityType
  <2>4. Cardinality(Ahead(R, N, i)) # N
    BY <2>1, <2>2
  <2>5. QED
    BY <2>2, <2>3, <2>4
<1>3. ASSUME NEW i \in S, NEW j \in S, <<i, j>> \in R
      PROVE  Cardinality(Ahead(R, N, i)) < Cardinality(Ahead(R, N, j))
  <2>1. Ahead(R, N, i) \in SUBSET Ahead(R, N, j)
    BY <1>3 DEF Ahead
  <2>2. i \in Ahead(R, N, j) /\ i \notin Ahead(R, N, i)
    BY <1>3 DEF Ahead
  <2>3. /\ Cardinality(Ahead(R, N, i)) <= Cardinality(Ahead(R, N, j))
        /\ Cardinality(Ahead(R, N, i)) = Cardinality(Ahead(R, N, j))
             => Ahead(R, N, j) = Ahead(R, N, i)
    BY <1>2, <2>1, FS_Subset
  <2>4. Cardinality(Ahead(R, N, i)) # Cardinality(Ahead(R, N, j))
    BY <2>2, <2>3
  <2>5. QED
    BY <1>2, <2>3, <2>4
<1>4. \A i, j \in S :
        Cardinality(Ahead(R, N, i)) < Cardinality(Ahead(R, N, j)) => <<i, j>> \in R
  <2> SUFFICES ASSUME NEW i \in S, NEW j \in S,
                      Cardinality(Ahead(R, N, i)) < Cardinality(Ahead(R, N, j))
               PROVE  <<i, j>> \in R
    OBVIOUS
  <2>1. i # j
    BY <1>2
  <2>2. <<j, i>> \notin R
    BY <1>2, <1>3
  <2>3. QED
    BY <2>1, <2>2
<1>5. place \in Injection(S, S)
  <2>1. place \in [S -> S]
    BY <1>2
  <2>2. ASSUME NEW i \in S, NEW j \in S, place[i] = place[j] PROVE i = j
    <3>1. Cardinality(Ahead(R, N, i)) = Cardinality(Ahead(R, N, j))
      BY <1>2, <2>2
    <3>2. <<i, j>> \notin R /\ <<j, i>> \notin R
      BY <1>2, <1>3, <3>1
    <3>3. QED
      BY <3>2
  <2> HIDE DEF place, S
  <2>3. QED
    BY <2>1, <2>2 DEF Injection, IsInjective
<1>6. place \in Surjection(S, S)
  <2> HIDE DEF place, S
  <2>1. QED
    BY <1>1, <1>5, FS_Injection
<1>7. ASSUME NEW n \in S PROVE \E i \in S : Cardinality(Ahead(R, N, i)) = n - 1
  <2>1. PICK i \in S : place[i] = n
    BY <1>6 DEF Surjection
  <2>2. QED
    BY <1>2, <2>1
<1>8. QED
  BY <1>4, <1>7

(* less is a strict weak order of the numbers up to N.                     *)
WeakOrder(less, N) ==
  /\ \A i, j \in 1 .. N : <<i, j>> \in less => <<j, i>> \notin less
  /\ \A i, j, k \in 1 .. N : <<i, k>> \in less => <<i, j>> \in less \/ <<j, k>> \in less

(* t is s in the order less, at[k] being the place of its k-th member, and *)
(* what is not ordered stays as it was.                                    *)
SortedAt(s, less, t, at) ==
  /\ at \in [1 .. Len(s) -> 1 .. Len(s)]
  /\ \A k \in 1 .. Len(s) : t[k] = s[at[k]]
  /\ \A j, k \in 1 .. Len(s) : j < k =>
       \/ <<at[j], at[k]>> \in less
       \/ at[j] < at[k] /\ <<at[k], at[j]>> \notin less

LEMMA InOrderSorts ==
  ASSUME NEW T, NEW s \in Seq(T), NEW less, WeakOrder(less, Len(s))
  PROVE  /\ InOrder(s, less) \in Seq(T) /\ Len(InOrder(s, less)) = Len(s)
         /\ ToSet(InOrder(s, less)) = ToSet(s)
         /\ \E at : SortedAt(s, less, InOrder(s, less), at)
<1> DEFINE N == Len(s)
           S == 1 .. N
           lower(i, j) == <<i, j>> \in less \/ (i < j /\ <<j, i>> \notin less)
           R == {q \in S \X S : lower(q[1], q[2])}
           ahead(i) == {j \in DOMAIN s : lower(j, i)}
           where(n) == CHOOSE i \in DOMAIN s : Cardinality(ahead(i)) = n - 1
           at == [n \in S |-> where(n)]
           t == InOrder(s, less)
<1>1. N \in Nat /\ DOMAIN s = S /\ \A n \in S : s[n] \in T
  OBVIOUS
<1>2. \A i, j \in S : <<i, j>> \in R <=> lower(i, j)
  OBVIOUS
<1>3. \A i, j \in S : <<i, j>> \in less => <<j, i>> \notin less
  BY DEF WeakOrder
<1>4. \A i, j, k \in S : <<i, k>> \in less => <<i, j>> \in less \/ <<j, k>> \in less
  BY DEF WeakOrder
<1> HIDE DEF R, ahead, where, at, t, S
<1>5. \A i \in S : i \in Nat
  BY <1>1 DEF S
<1>6. \A i \in S : <<i, i>> \notin R
  BY <1>2, <1>3, <1>5
<1>7. \A i, j \in S : i # j => <<i, j>> \in R \/ <<j, i>> \in R
  <2> SUFFICES ASSUME NEW i \in S, NEW j \in S, i # j PROVE lower(i, j) \/ lower(j, i)
    BY <1>2
  <2>1. i < j \/ j < i
    BY <1>5
  <2>2. QED
    BY <2>1
<1>8. \A i, j, k \in S : <<i, j>> \in R /\ <<j, k>> \in R => <<i, k>> \in R
  <2> SUFFICES ASSUME NEW i \in S, NEW j \in S, NEW k \in S, lower(i, j), lower(j, k)
               PROVE  lower(i, k)
    BY <1>2
  <2>1. i \in Nat /\ j \in Nat /\ k \in Nat
    BY <1>5
  <2>2. /\ <<i, j>> \in less => <<j, i>> \notin less
        /\ <<j, k>> \in less => <<k, j>> \notin less
        /\ <<i, j>> \in less => <<i, k>> \in less \/ <<k, j>> \in less
        /\ <<j, k>> \in less => <<j, i>> \in less \/ <<i, k>> \in less
        /\ <<k, i>> \in less => <<k, j>> \in less \/ <<j, i>> \in less
    BY <1>3, <1>4
  <2>3. CASE <<i, j>> \in less
    BY <2>2, <2>3
  <2>4. CASE <<j, k>> \in less
    BY <2>2, <2>4
  <2>5. CASE i < j /\ j < k /\ <<j, i>> \notin less /\ <<k, j>> \notin less
    <3>1. i < k
      BY <2>1, <2>5
    <3>2. QED
      BY <2>2, <2>5, <3>1
  <2>6. QED
    BY <2>3, <2>4, <2>5
<1>9. \A i \in S : ahead(i) = Ahead(R, N, i)
  BY <1>1, <1>2 DEF Ahead, ahead, S
<1>10. /\ \A n \in S : \E i \in S : Cardinality(Ahead(R, N, i)) = n - 1
       /\ \A i, j \in S :
            Cardinality(Ahead(R, N, i)) < Cardinality(Ahead(R, N, j)) => <<i, j>> \in R
  <2>1. /\ \A i \in 1 .. N : <<i, i>> \notin R
        /\ \A i, j \in 1 .. N : i # j => <<i, j>> \in R \/ <<j, i>> \in R
        /\ \A i, j, k \in 1 .. N : <<i, j>> \in R /\ <<j, k>> \in R => <<i, k>> \in R
    BY <1>6, <1>7, <1>8 DEF S
  <2> HIDE DEF N
  <2>2. QED
    BY <1>1, <2>1, PlacesFill DEF S
<1>11. ASSUME NEW n \in S
       PROVE  where(n) \in S /\ Cardinality(Ahead(R, N, where(n))) = n - 1
  <2>1. \E i \in DOMAIN s : Cardinality(ahead(i)) = n - 1
    BY <1>1, <1>9, <1>10
  <2>2. where(n) \in DOMAIN s /\ Cardinality(ahead(where(n))) = n - 1
    BY <2>1 DEF where
  <2>3. QED
    BY <1>1, <1>9, <2>2
<1>12. at \in [S -> S] /\ \A n \in S : at[n] = where(n)
  BY <1>11 DEF at
<1>13. t = [n \in S |-> s[where(n)]]
  BY <1>1 DEF InOrder, t, where, ahead
<1>14. \A n \in S : t[n] = s[at[n]] /\ s[at[n]] \in T
  BY <1>1, <1>12, <1>13
<1>15. t \in Seq(T) /\ Len(t) = N
  <2>1. \A n \in S : s[where(n)] \in T
    BY <1>1, <1>11
  <2>2. QED
    BY <1>1, <1>13, <2>1 DEF S
<1>16. ASSUME NEW j \in S, NEW k \in S, j < k PROVE lower(at[j], at[k])
  <2>1. j - 1 < k - 1
    BY <1>5, <1>16
  <2>2. <<where(j), where(k)>> \in R
    BY <1>10, <1>11, <2>1
  <2>3. QED
    BY <1>2, <1>11, <1>12, <2>2
<1>17. SortedAt(s, less, t, at)
  BY <1>12, <1>14, <1>16 DEF SortedAt, S
<1>18. ToSet(t) = ToSet(s)
  <2>1. ToSet(t) = {t[n] : n \in S} /\ ToSet(s) = {s[n] : n \in S}
    BY <1>15, ToSetIs DEF S
  <2>2. ASSUME NEW j \in S, NEW k \in S, at[j] = at[k] PROVE j = k
    <3>1. j - 1 = k - 1
      BY <1>11, <1>12, <2>2
    <3>2. QED
      BY <1>5, <3>1
  <2>3. at \in Injection(S, S)
    BY <1>12, <2>2 DEF Injection, IsInjective
  <2>4. IsFiniteSet(S) /\ Cardinality(S) = Cardinality(S)
    BY <1>1, FS_Interval DEF S
  <2>5. at \in Surjection(S, S)
    BY <2>3, <2>4, FS_Injection
  <2>6. \A n \in S : \E k \in S : at[k] = n
    BY <2>5 DEF Surjection
  <2>7. ToSet(s) \subseteq ToSet(t)
    BY <1>14, <2>1, <2>6
  <2>8. ToSet(t) \subseteq ToSet(s)
    BY <1>12, <1>14, <2>1
  <2>9. QED
    BY <2>7, <2>8
<1>19. QED
  BY <1>15, <1>17, <1>18 DEF t

LEMMA IdsWeaklyOrdered ==
  ASSUME NEW s \in Seq(Nat), NEW t \in Seq(Nat), NEW u \in Seq(Nat)
  PROVE  /\ IdBefore(s, t) => ~IdBefore(t, s)
         /\ IdBefore(s, u) => IdBefore(s, t) \/ IdBefore(t, u)
<1>1. /\ ~IdBefore(s, s)
      /\ s # t => IdBefore(s, t) \/ IdBefore(t, s)
      /\ IdBefore(s, t) /\ IdBefore(t, s) => IdBefore(s, s)
  BY IdsOrdered
<1>2. IdBefore(t, s) /\ IdBefore(s, u) => IdBefore(t, u)
  BY IdsOrdered
<1>3. QED
  BY <1>1, <1>2

(* A flow has its place in the trace.                                      *)
Placed(f) == f.order \in Nat /\ f.frame \in Seq(Nat)

LEMMA FlowsWeaklyOrdered ==
  ASSUME NEW f, NEW g, NEW h, Placed(f), Placed(g), Placed(h)
  PROVE  /\ FlowBefore(f, g) => ~FlowBefore(g, f)
         /\ FlowBefore(f, h) => FlowBefore(f, g) \/ FlowBefore(g, h)
<1>1. f.order \in Nat /\ g.order \in Nat /\ h.order \in Nat
  BY DEF Placed
<1>2. /\ IdBefore(f.frame, g.frame) => ~IdBefore(g.frame, f.frame)
      /\ IdBefore(f.frame, h.frame)
           => IdBefore(f.frame, g.frame) \/ IdBefore(g.frame, h.frame)
  BY IdsWeaklyOrdered DEF Placed
<1>3. QED
  BY <1>1, <1>2 DEF FlowBefore

LEMMA TraceOrderSorts ==
  ASSUME NEW T, NEW flows \in Seq(T), \A f \in T : Placed(f)
  PROVE  LET less == {p \in Pairs(flows) : FlowBefore(flows[p[1]], flows[p[2]])}
             sorted == InTraceOrder(flows)
         IN /\ sorted \in Seq(T) /\ Len(sorted) = Len(flows)
            /\ ToSet(sorted) = ToSet(flows)
            /\ \E at : SortedAt(flows, less, sorted, at)
<1> DEFINE N == Len(flows)
           less == {p \in Pairs(flows) : FlowBefore(flows[p[1]], flows[p[2]])}
<1>1. DOMAIN flows = 1 .. N /\ \A n \in 1 .. N : Placed(flows[n])
  OBVIOUS
<1>2. \A i, j \in 1 .. N : <<i, j>> \in less <=> FlowBefore(flows[i], flows[j])
  BY <1>1 DEF Pairs
<1> HIDE DEF less
<1>3. WeakOrder(less, N)
  BY <1>1, <1>2, FlowsWeaklyOrdered DEF WeakOrder
<1>4. InTraceOrder(flows) = InOrder(flows, less)
  BY DEF InTraceOrder, less
<1>5. QED
  BY <1>3, <1>4, InOrderSorts DEF less

LEMMA NearestSorts ==
  ASSUME NEW T, NEW slice \in Seq(T), NEW flow \in T, \A f \in T : Placed(f)
  PROVE  /\ NearestFirst(slice, flow) \in Seq(T)
         /\ Len(NearestFirst(slice, flow)) = Len(slice)
         /\ ToSet(NearestFirst(slice, flow)) \subseteq ToSet(slice)
<1> DEFINE N == Len(slice)
           less == {p \in Pairs(slice) : NearestAfter(flow, slice[p[1]], slice[p[2]])}
<1>1. DOMAIN slice = 1 .. N /\ \A n \in 1 .. N : slice[n] \in T
  OBVIOUS
<1>2. \A i, j \in 1 .. N : <<i, j>> \in less <=> NearestAfter(flow, slice[i], slice[j])
  BY <1>1 DEF Pairs
<1> HIDE DEF less
<1>3. ASSUME NEW f \in T, NEW g \in T, NEW h \in T
      PROVE  /\ NearestAfter(flow, f, g) => ~NearestAfter(flow, g, f)
             /\ NearestAfter(flow, f, h) => NearestAfter(flow, f, g) \/ NearestAfter(flow, g, h)
  <2> DEFINE early(x) == IF x.order >= flow.order THEN 0 ELSE 1
             distance(x) == IF x.order >= flow.order THEN x.order - flow.order
                            ELSE flow.order - x.order
  <2>1. \A x \in T : early(x) \in Int /\ distance(x) \in Int
    BY DEF Placed
  <2>2. /\ IdBefore(f.frame, g.frame) => ~IdBefore(g.frame, f.frame)
        /\ IdBefore(f.frame, h.frame)
             => IdBefore(f.frame, g.frame) \/ IdBefore(g.frame, h.frame)
    BY IdsWeaklyOrdered DEF Placed
  <2>3. \A x, y \in T : NearestAfter(flow, x, y) <=>
          \/ early(x) < early(y)
          \/ early(x) = early(y) /\ distance(x) < distance(y)
          \/ early(x) = early(y) /\ distance(x) = distance(y) /\ IdBefore(x.frame, y.frame)
    BY DEF NearestAfter
  <2> HIDE DEF early, distance
  <2>4. QED
    BY <2>1, <2>2, <2>3
<1>4. WeakOrder(less, N)
  BY <1>1, <1>2, <1>3 DEF WeakOrder
<1>5. NearestFirst(slice, flow) = InOrder(slice, less)
  BY DEF NearestFirst, less
<1>6. QED
  BY <1>4, <1>5, InOrderSorts

LEMMA TopUpsAreCandidates ==
  ASSUME NEW T, NEW candidates \in Seq(T), \A f \in T : Placed(f), NEW leg, NEW sender
  PROVE  /\ PickTopUps(candidates, leg, sender) \in Seq(T)
         /\ ToSet(PickTopUps(candidates, leg, sender)) \subseteq ToSet(candidates)
<1> DEFINE N == Len(candidates)
           rank(f) == (IF f.source = sender THEN 0 ELSE 2)
                        + (IF f.amount = ExpectedRepayment(leg) THEN 0 ELSE 1)
           before(f, g) == rank(f) < rank(g) \/ (rank(f) = rank(g) /\ f.order < g.order)
           less == {p \in Pairs(candidates) : before(candidates[p[1]], candidates[p[2]])}
           sorted == InOrder(candidates, less)
           keys == [n \in DOMAIN sorted |->
                      <<sorted[n].source, sorted[n].asset, sorted[n].amount>>]
           firsts == FirstsOf(sorted, keys)
<1>1. DOMAIN candidates = 1 .. N /\ \A n \in 1 .. N : candidates[n] \in T
  OBVIOUS
<1>2. \A i, j \in 1 .. N : <<i, j>> \in less <=> before(candidates[i], candidates[j])
  BY <1>1 DEF Pairs
<1>3. \A f \in T : rank(f) \in Int
  OBVIOUS
<1> HIDE DEF less, rank
<1>4. ASSUME NEW f \in T, NEW g \in T, NEW h \in T
      PROVE  /\ before(f, g) => ~before(g, f)
             /\ before(f, h) => before(f, g) \/ before(g, h)
  <2>1. f.order \in Int /\ g.order \in Int /\ h.order \in Int
    BY DEF Placed
  <2>2. QED
    BY <1>3, <2>1
<1>5. WeakOrder(less, N)
  <2> HIDE DEF before
  <2>1. QED
    BY <1>1, <1>2, <1>4 DEF WeakOrder
<1>6. sorted \in Seq(T) /\ ToSet(sorted) \subseteq ToSet(candidates)
  <2> HIDE DEF before
  <2>1. QED
    BY <1>5, InOrderSorts
<1>7. PickTopUps(candidates, leg, sender) = FirstOf(firsts, MaxTopUps)
  BY DEF PickTopUps, less, rank
<1> HIDE DEF sorted, keys
<1>8. firsts \in Seq(T) /\ \E at : FirstsAt(sorted, keys, firsts, at)
  BY <1>6, FirstsTaken
<1> HIDE DEF firsts
<1>9. PICK at : /\ at \in [1 .. Len(firsts) -> 1 .. Len(sorted)]
                /\ \A k \in 1 .. Len(firsts) : firsts[k] = sorted[at[k]]
  BY <1>8 DEF FirstsAt
<1>10. /\ ToSet(firsts) = {firsts[k] : k \in 1 .. Len(firsts)}
       /\ ToSet(sorted) = {sorted[k] : k \in 1 .. Len(sorted)}
  BY <1>6, <1>8, ToSetIs
<1>11. ToSet(firsts) \subseteq ToSet(sorted)
  BY <1>9, <1>10
<1>12. FirstOf(firsts, MaxTopUps) \in Seq(T) /\ ToSet(FirstOf(firsts, MaxTopUps)) \subseteq ToSet(firsts)
  BY <1>8, FirstOfMembers DEF MaxTopUps
<1>13. QED
  BY <1>6, <1>7, <1>11, <1>12

--------------------------------------------------------------------------------
(* The search for the execution branches.                                  *)

(* A transfer with which a branch may begin.                               *)
IsSeed(f, lane) ==
  /\ f.source = lane.receiver
  /\ f.target \notin {lane.receiver, lane.repaymentTarget, lane.borrowSource}

(* p is a way of n transfers of S from the receiver on, each from where    *)
(* the one before arrived.                                                 *)
Way(p, n, S, lane) ==
  /\ n \in 0 .. MaxHops + 1
  /\ \A i \in 1 .. n : p[i] \in S
  /\ n > 0 => IsSeed(p[1], lane)
  /\ \A i \in 1 .. n - 1 : p[i + 1].source = p[i].target /\ ~Ends(p[i], lane)

Walked(f, S, lane) ==
  \E n \in 1 .. MaxHops + 1 : \E p \in [1 .. n -> S] : Way(p, n, S, lane) /\ p[n] = f

Chain(calls) == [k \in 1 .. Len(calls) |-> calls[k].flow]

Touched(T) == {f.source : f \in T} \cup {f.target : f \in T}

Searches(T) ==
  [adjacency : [Touched(T) -> Seq(T)], seen : SUBSET {f.frame : f \in T},
   segments : Seq(T), seeds : Seq(T), calls : Seq([flow : T, place : Nat \ {0}, count : Nat])]

(* The slices hold the flows that leave an address; the calls under way    *)
(* are a way, and there is one to each segment.                            *)
Searching(search, T, lane) ==
  /\ search \in Searches(T)
  /\ \A a \in Touched(T) : \A n \in 1 .. Len(search.adjacency[a]) :
       search.adjacency[a][n].source = a
  /\ \A n \in 1 .. Len(search.seeds) : IsSeed(search.seeds[n], lane)
  /\ \A f \in ToSet(search.segments) : Walked(f, ToSet(search.segments), lane)
  /\ Way(Chain(search.calls), Len(search.calls), ToSet(search.segments), lane)
  /\ \A k \in 1 .. Len(search.calls) : ~Ends(search.calls[k].flow, lane)

(* What may be called next.                                                *)
MayFollow(f, search, lane) ==
  LET depth == Len(search.calls)
  IN IF depth = 0 THEN IsSeed(f, lane) ELSE f.source = search.calls[depth].flow.target

LEMMA WayOn ==
  ASSUME NEW lane, NEW S, NEW U, S \subseteq U, NEW n \in Nat, n <= MaxHops, NEW p,
         Way(p, n, S, lane), \A i \in 1 .. n : ~Ends(p[i], lane),
         NEW f \in U,
         IF n = 0 THEN IsSeed(f, lane) ELSE f.source = p[n].target
  PROVE  Way([i \in 1 .. n + 1 |-> IF i = n + 1 THEN f ELSE p[i]], n + 1, U, lane)
<1> DEFINE q == [i \in 1 .. n + 1 |-> IF i = n + 1 THEN f ELSE p[i]]
<1>1. q[n + 1] = f /\ \A i \in 1 .. n : q[i] = p[i] /\ i \in 1 .. n + 1
  OBVIOUS
<1>2. n + 1 \in 0 .. MaxHops + 1 /\ n + 1 > 0
  BY DEF MaxHops
<1> HIDE DEF q
<1>3. \A i \in 1 .. n + 1 : i \in 1 .. n \/ i = n + 1
  OBVIOUS
<1>4. \A i \in 1 .. n + 1 : q[i] \in U
  BY <1>1, <1>3 DEF Way
<1>5. IsSeed(q[1], lane)
  <2>1. CASE n = 0
    BY <1>1, <2>1
  <2>2. CASE n > 0
    <3>1. 1 \in 1 .. n
      BY <2>2
    <3>2. QED
      BY <1>1, <2>2, <3>1 DEF Way
  <2>3. QED
    BY <2>1, <2>2
<1>6. ASSUME NEW i \in 1 .. n
      PROVE  q[i + 1].source = q[i].target /\ ~Ends(q[i], lane)
  <2>1. CASE i = n
    BY <1>1, <2>1
  <2>2. CASE i # n
    <3>1. i \in 1 .. n - 1 /\ i + 1 \in 1 .. n
      BY <2>2
    <3>2. QED
      BY <1>1, <3>1 DEF Way
  <2>3. QED
    BY <2>1, <2>2
<1>7. (n + 1) - 1 = n
  OBVIOUS
<1>8. QED
  BY <1>2, <1>4, <1>5, <1>6, <1>7 DEF Way, q

LEMMA WayInMore ==
  ASSUME NEW lane, NEW S, NEW U, S \subseteq U, NEW n, NEW p, Way(p, n, S, lane)
  PROVE  Way(p, n, U, lane)
BY DEF Way

LEMMA WalkedInMore ==
  ASSUME NEW lane, NEW S, NEW U, S \subseteq U, NEW f, Walked(f, S, lane)
  PROVE  Walked(f, U, lane)
<1>1. PICK n \in 1 .. MaxHops + 1 : \E p \in [1 .. n -> S] : Way(p, n, S, lane) /\ p[n] = f
  BY DEF Walked
<1>2. PICK p \in [1 .. n -> S] : Way(p, n, S, lane) /\ p[n] = f
  BY <1>1
<1>3. p \in [1 .. n -> U] /\ Way(p, n, U, lane)
  BY <1>2, WayInMore
<1>4. QED
  BY <1>2, <1>3 DEF Walked

(* A call of walkBranch.                                                   *)
LEMMA EnterKeeps ==
  ASSUME NEW T, \A f \in T : Placed(f), NEW lane, NEW search, Searching(search, T, lane),
         NEW flow \in T, MayFollow(flow, search, lane)
  PROVE  Searching(Enter(search, lane, flow), T, lane)
<1> DEFINE depth == Len(search.calls)
           segments == Append(search.segments, flow)
           S == ToSet(search.segments)
           U == ToSet(segments)
           chain == Chain(search.calls)
           call == [flow |-> flow, place |-> 1, count |-> 0]
           nearest == NearestFirst(search.adjacency[flow.target], flow)
           Pending == [flow : T, place : Nat \ {0}, count : Nat]
<1>1. CASE depth > MaxHops \/ flow.frame \in search.seen
  BY <1>1 DEF Enter
<1>2. CASE ~(depth > MaxHops \/ flow.frame \in search.seen)
  <2>1. /\ search \in Searches(T)
        /\ search.segments \in Seq(T) /\ search.seeds \in Seq(T)
        /\ search.calls \in Seq(Pending)
        /\ search.adjacency \in [Touched(T) -> Seq(T)]
        /\ flow.target \in Touched(T)
    BY DEF Searching, Searches, Touched
  <2>2. /\ segments \in Seq(T) /\ Len(segments) = Len(search.segments) + 1
        /\ \A n \in 1 .. Len(search.segments) : segments[n] = search.segments[n]
        /\ segments[Len(search.segments) + 1] = flow
    BY <2>1, AppendProperties
  <2>3. U = S \cup {flow}
    <3>1. /\ S = {search.segments[n] : n \in 1 .. Len(search.segments)}
          /\ U = {segments[n] : n \in 1 .. Len(segments)}
      BY <2>1, <2>2, ToSetIs
    <3>2. Len(search.segments) \in Nat
      BY <2>1
    <3> HIDE DEF segments, S, U
    <3>3. \A n \in 1 .. Len(segments) :
            n \in 1 .. Len(search.segments) \/ n = Len(search.segments) + 1
      BY <2>2, <3>2
    <3>4. \A n \in 1 .. Len(search.segments) + 1 : n \in 1 .. Len(segments)
      BY <2>2
    <3>5. /\ Len(search.segments) + 1 \in 1 .. Len(segments)
          /\ \A n \in 1 .. Len(search.segments) : n \in 1 .. Len(segments)
      BY <2>2, <3>2
    <3>6. U \subseteq S \cup {flow}
      BY <2>2, <3>1, <3>3
    <3>7. S \cup {flow} \subseteq U
      BY <2>2, <3>1, <3>5
    <3>8. QED
      BY <3>6, <3>7
  <2>4. depth \in Nat /\ depth <= MaxHops /\ \A k \in 1 .. depth : search.calls[k] \in Pending
    <3>1. depth \in Nat /\ \A k \in 1 .. depth : search.calls[k] \in Pending
      BY <2>1, LenProperties, ElementOfSeq
    <3>2. QED
      BY <1>2, <3>1 DEF MaxHops
  <2>5. /\ Way(chain, depth, S, lane)
        /\ \A k \in 1 .. depth : chain[k] = search.calls[k].flow /\ ~Ends(chain[k], lane)
    BY DEF Searching, Chain
  <2>6. IF depth = 0 THEN IsSeed(flow, lane) ELSE flow.source = chain[depth].target
    BY <2>4, <2>5 DEF MayFollow
  <2> DEFINE way == [i \in 1 .. depth + 1 |-> IF i = depth + 1 THEN flow ELSE chain[i]]
  <2> HIDE DEF depth, segments, S, U, chain, call, nearest, Pending
  <2>7. Way(way, depth + 1, U, lane)
    BY <2>3, <2>4, <2>5, <2>6, WayOn
  <2>8. Walked(flow, U, lane)
    <3>1. depth + 1 \in 1 .. MaxHops + 1 /\ way[depth + 1] = flow
      BY <2>4 DEF MaxHops
    <3>2. way \in [1 .. depth + 1 -> U]
      <4>1. \A i \in 1 .. depth + 1 : way[i] \in U
        BY <2>7 DEF Way
      <4>2. QED
        BY <4>1
    <3> HIDE DEF way
    <3>3. QED
      BY <2>7, <3>1, <3>2 DEF Walked
  <2>9. \A f \in U : Walked(f, U, lane)
    <3>1. \A f \in S : Walked(f, S, lane)
      BY DEF Searching, S
    <3>2. QED
      BY <2>3, <2>8, <3>1, WalkedInMore
  <2>10. Way(chain, depth, U, lane)
    BY <2>3, <2>5, WayInMore
  <2> DEFINE marked == Mark(search, flow)
  <2>11. /\ marked \in Searches(T)
         /\ marked.adjacency = search.adjacency /\ marked.seeds = search.seeds
         /\ marked.calls = search.calls /\ marked.segments = segments
    BY <2>1, <2>2 DEF Mark, Searches, segments
  <2> HIDE DEF marked
  <2>12. CASE Ends(flow, lane)
    <3>1. Enter(search, lane, flow) = marked
      BY <1>2, <2>12 DEF Enter, marked, depth
    <3>2. Searching(marked, T, lane)
      BY <2>5, <2>9, <2>10, <2>11 DEF Searching, U, depth, chain
    <3>3. QED
      BY <3>1, <3>2
  <2>13. CASE ~Ends(flow, lane)
    <3> DEFINE pushed == Append(search.calls, call)
               next == [marked EXCEPT !.adjacency[flow.target] = nearest,
                                      !.calls = pushed]
    <3>1. Enter(search, lane, flow) = next
      BY <1>2, <2>11, <2>13 DEF Enter, marked, depth, nearest, call, CallFor
    <3>2. /\ nearest \in Seq(T)
          /\ ToSet(nearest) \subseteq ToSet(search.adjacency[flow.target])
      BY <2>1, NearestSorts DEF nearest
    <3>3. /\ pushed \in Seq(Pending) /\ Len(pushed) = depth + 1
          /\ \A k \in 1 .. depth : pushed[k] = search.calls[k]
          /\ pushed[depth + 1] = call
      <4>1. call \in Pending
        BY DEF call, Pending
      <4>2. QED
        BY <2>1, <4>1, AppendProperties DEF depth
    <3> HIDE DEF pushed
    <3>4. /\ next \in Searches(T) /\ next.seeds = search.seeds /\ next.segments = segments
          /\ next.calls = pushed
          /\ next.adjacency = [search.adjacency EXCEPT ![flow.target] = nearest]
      BY <2>1, <2>11, <3>2, <3>3 DEF Searches, Pending
    <3> HIDE DEF next
    <3>5. ASSUME NEW a \in Touched(T), NEW n \in 1 .. Len(next.adjacency[a])
          PROVE  next.adjacency[a][n].source = a
      <4>1. \A b \in Touched(T) : \A m \in 1 .. Len(search.adjacency[b]) :
              search.adjacency[b][m].source = b
        BY DEF Searching
      <4>2. CASE a # flow.target
        <5>1. next.adjacency[a] = search.adjacency[a]
          BY <2>1, <3>4, <4>2
        <5>2. QED
          BY <3>5, <4>1, <5>1
      <4>3. CASE a = flow.target
        <5>1. next.adjacency[a] = nearest
          BY <2>1, <3>4, <4>3
        <5>2. nearest[n] \in ToSet(nearest)
          BY <3>2, <3>5, <5>1, ToSetIs
        <5>3. PICK m \in 1 .. Len(search.adjacency[a]) : nearest[n] = search.adjacency[a][m]
          <6>1. ToSet(search.adjacency[a]) =
                  {search.adjacency[a][m] : m \in 1 .. Len(search.adjacency[a])}
            BY <2>1, ToSetIs
          <6>2. QED
            BY <3>2, <4>3, <5>2, <6>1
        <5>4. QED
          BY <4>1, <5>1, <5>3
      <4>4. QED
        BY <4>2, <4>3
    <3>6. call.flow = flow
      BY DEF call
    <3>7. \A k \in 1 .. depth + 1 : k = depth + 1 \/ (k \in 1 .. depth /\ k # depth + 1)
      BY <2>4
    <3>8. \A k \in 1 .. depth + 1 : pushed[k].flow = way[k] /\ ~Ends(pushed[k].flow, lane)
      BY <2>4, <2>5, <2>13, <3>3, <3>6, <3>7
    <3>9. Chain(pushed) = way
      BY <3>3, <3>8 DEF Chain
    <3>10. Searching(next, T, lane)
      BY <2>7, <2>9, <3>3, <3>4, <3>5, <3>8, <3>9 DEF Searching, U
    <3>11. QED
      BY <3>1, <3>10
  <2>14. QED
    BY <2>12, <2>13
<1>3. QED
  BY <1>1, <1>2

(* The loop of a call.                                                     *)
LEMMA LoopKeeps ==
  ASSUME NEW T, \A f \in T : Placed(f), NEW lane, NEW search, Searching(search, T, lane),
         search.calls # << >>
  PROVE  Searching(Loop(search, lane), T, lane)
<1> DEFINE depth == Len(search.calls)
           Pending == [flow : T, place : Nat \ {0}, count : Nat]
           call == search.calls[depth]
           slice == search.adjacency[call.flow.target]
           next == slice[call.place]
           on(branch) == [search EXCEPT !.calls[depth].place = @ + 1,
                                        !.calls[depth].count = @ + branch]
           away == next.target = lane.borrowSource /\ next.target # lane.receiver
           popped == [search EXCEPT !.calls = Front(@)]
           S == ToSet(search.segments)
           chain == Chain(search.calls)
<1>1. /\ search \in Searches(T) /\ search.calls \in Seq(Pending)
      /\ search.adjacency \in [Touched(T) -> Seq(T)]
  BY DEF Searching, Searches
<1>2. /\ depth \in Nat /\ depth \in 1 .. depth
      /\ \A k \in 1 .. depth : search.calls[k] \in Pending
  <2>1. depth \in Nat \ {0}
    BY <1>1, EmptySeq
  <2>2. \A k \in 1 .. depth : search.calls[k] \in Pending
    BY <1>1, ElementOfSeq
  <2>3. QED
    BY <2>1, <2>2
<1>3. /\ call \in Pending /\ call.flow \in T /\ call.place \in Nat \ {0} /\ call.count \in Nat
      /\ call.flow.target \in Touched(T) /\ slice \in Seq(T) /\ Len(slice) \in Nat
  <2>1. call \in Pending
    BY <1>2
  <2>2. call.flow \in T /\ call.place \in Nat \ {0} /\ call.count \in Nat
    BY <2>1
  <2>3. call.flow.target \in Touched(T)
    BY <2>2 DEF Touched
  <2> HIDE DEF call, Pending
  <2>4. slice \in Seq(T)
    BY <1>1, <2>3
  <2>5. QED
    BY <2>1, <2>2, <2>3, <2>4, LenProperties
<1>4. /\ Way(chain, depth, S, lane)
      /\ \A k \in 1 .. depth : chain[k] = search.calls[k].flow /\ ~Ends(chain[k], lane)
  BY DEF Searching, Chain
<1>5. /\ \A a \in Touched(T) : \A n \in 1 .. Len(search.adjacency[a]) :
           search.adjacency[a][n].source = a
      /\ \A n \in 1 .. Len(search.seeds) : IsSeed(search.seeds[n], lane)
      /\ \A f \in S : Walked(f, S, lane)
  BY DEF Searching
<1>6. Loop(search, lane) =
        IF call.count = MaxBranches \/ call.place > Len(slice) THEN popped
        ELSE IF next.frame = call.flow.frame \/ away THEN on(0)
        ELSE Enter(on(1), lane, next)
  BY DEF Loop
<1> HIDE DEF depth, call, slice, next, on, away, popped, S, chain
<1>7. Searching(popped, T, lane)
  <2> DEFINE less == Front(search.calls)
  <2>1. /\ less \in Seq(Pending) /\ Len(less) = depth - 1
        /\ \A k \in 1 .. depth - 1 : less[k] = search.calls[k]
    <3>1. less = SubSeq(search.calls, 1, depth - 1)
      BY DEF Front, depth
    <3>2. 1 \in Int /\ depth - 1 \in Int /\ \A k \in 1 .. depth - 1 : search.calls[k] \in Pending
      BY <1>2
    <3> DEFINE m == depth - 1
    <3>3. m \in Int /\ m >= 0
      BY <1>2
    <3> HIDE DEF Pending, less, m
    <3>4. /\ less \in Seq(Pending) /\ Len(less) = IF 1 <= m THEN m - 1 + 1 ELSE 0
          /\ \A k \in 1 .. m - 1 + 1 : less[k] = search.calls[1 + k - 1]
      BY <3>1, <3>2, SubSeqProperties DEF m
    <3>5. Len(less) = m /\ \A k \in 1 .. m : less[k] = search.calls[k]
      <4>1. \A k \in 1 .. m : k \in 1 .. m - 1 + 1 /\ 1 + k - 1 = k
        BY <3>3
      <4>2. QED
        BY <3>3, <3>4, <4>1
    <3>6. QED
      BY <3>4, <3>5 DEF m
  <2> HIDE DEF less
  <2>2. /\ popped \in Searches(T) /\ popped.calls = less /\ popped.seeds = search.seeds
        /\ popped.segments = search.segments /\ popped.adjacency = search.adjacency
    BY <1>1, <2>1 DEF popped, Searches, less
  <2>3. \A k \in 1 .. depth - 1 : k \in 1 .. depth /\ Chain(less)[k] = chain[k]
                                  /\ less[k].flow = chain[k]
    <3>1. \A k \in 1 .. depth - 1 : k \in 1 .. depth
      BY <1>2
    <3>2. QED
      BY <1>4, <2>1, <3>1 DEF Chain
  <2>4. Way(Chain(less), depth - 1, S, lane)
    <3>1. depth - 1 \in 0 .. MaxHops + 1
      <4>1. depth \in 0 .. MaxHops + 1
        BY <1>4 DEF Way
      <4>2. QED
        BY <1>2, <4>1 DEF MaxHops
    <3>2. \A i \in 1 .. depth - 1 : Chain(less)[i] \in S
      BY <1>4, <2>3 DEF Way
    <3>3. depth - 1 > 0 => IsSeed(Chain(less)[1], lane)
      <4>1. SUFFICES ASSUME depth - 1 > 0 PROVE IsSeed(Chain(less)[1], lane)
        OBVIOUS
      <4>2. 1 \in 1 .. depth - 1 /\ depth > 0
        BY <1>2, <4>1
      <4>3. QED
        BY <1>4, <2>3, <4>2 DEF Way
    <3>4. ASSUME NEW i \in 1 .. (depth - 1) - 1
          PROVE  /\ Chain(less)[i + 1].source = Chain(less)[i].target
                 /\ ~Ends(Chain(less)[i], lane)
      <4>1. i \in 1 .. depth - 1 /\ i + 1 \in 1 .. depth - 1
        BY <1>2
      <4>2. QED
        BY <1>4, <2>3, <4>1 DEF Way
    <3>5. QED
      BY <3>1, <3>2, <3>3, <3>4 DEF Way
  <2>5. \A k \in 1 .. depth - 1 : ~Ends(less[k].flow, lane)
    BY <1>4, <2>3
  <2>6. QED
    BY <1>5, <2>1, <2>2, <2>4, <2>5 DEF Searching, S
<1>8. ASSUME NEW b \in {0, 1}
      PROVE  /\ Searching(on(b), T, lane) /\ Len(on(b).calls) = depth
             /\ on(b).calls[depth].flow = call.flow
  <2> DEFINE new == [call EXCEPT !.place = @ + 1, !.count = @ + b]
             more == [search.calls EXCEPT ![depth] = new]
  <2>1. on(b) = [search EXCEPT !.calls = more]
    <3> DEFINE first == [search EXCEPT !.calls[depth].place = @ + 1]
               placed == [search.calls EXCEPT ![depth] = [call EXCEPT !.place = @ + 1]]
    <3>1. DOMAIN search.calls = 1 .. depth
      BY <1>1, <1>2 DEF depth, Searches
    <3>2. first = [search EXCEPT !.calls = placed]
      BY <1>1 DEF call, Searches
    <3>3. on(b) = [first EXCEPT !.calls[depth].count = @ + b]
      BY DEF on
    <3>4. on(b) = [first EXCEPT !.calls = [placed EXCEPT ![depth].count = @ + b]]
      BY <3>2, <3>3, <1>1 DEF Searches
    <3>5. placed[depth] = [call EXCEPT !.place = @ + 1] 
      BY <3>1, <1>2
    <3>6. [placed EXCEPT ![depth].count = @ + b] = more
      BY <3>1, <3>5, <1>2, <1>3
    <3>7. QED
      BY <3>2, <3>4, <3>6, <1>1 DEF Searches
  <2>2. new \in Pending /\ new.flow = call.flow
    <3>1. call \in Pending
      BY <1>3
    <3>2. call.place + 1 \in Nat \ {0} /\ call.count + b \in Nat
      <4>1. call.place \in Nat /\ call.count \in Nat /\ b \in Nat
        BY <1>3
      <4>2. QED
        BY <4>1
    <3>3. QED
      BY <3>1, <3>2
  <2> HIDE DEF new
  <2>3. /\ more \in Seq(Pending) /\ Len(more) = depth
        /\ \A k \in 1 .. depth : more[k] = IF k = depth THEN new ELSE search.calls[k]
    <3> HIDE DEF Pending
    <3>1. QED
      BY <1>1, <1>2, <2>2, ExceptSeq DEF depth
  <2> HIDE DEF more
  <2>4. /\ on(b) \in Searches(T) /\ on(b).calls = more /\ on(b).seeds = search.seeds
        /\ on(b).segments = search.segments /\ on(b).adjacency = search.adjacency
    BY <1>1, <2>1, <2>3 DEF Searches
  <2>5. \A k \in 1 .. depth : more[k].flow = search.calls[k].flow
    BY <2>2, <2>3 DEF call
  <2>6. Chain(more) = chain
    BY <2>3, <2>5 DEF Chain, chain, depth
  <2>7. \A k \in 1 .. depth : ~Ends(more[k].flow, lane)
    BY <1>4, <2>5
  <2>8. Searching(on(b), T, lane)
    BY <1>4, <1>5, <2>3, <2>4, <2>6, <2>7 DEF Searching, S
  <2>9. QED
    BY <1>2, <2>2, <2>3, <2>4, <2>8
<1>9. CASE call.count = MaxBranches \/ call.place > Len(slice)
  BY <1>6, <1>7, <1>9
<1>10. CASE ~(call.count = MaxBranches \/ call.place > Len(slice))
  <2>1. CASE next.frame = call.flow.frame \/ away
    BY <1>6, <1>8, <1>10, <2>1
  <2>2. CASE ~(next.frame = call.flow.frame \/ away)
    <3>1. call.place \in 1 .. Len(slice)
      BY <1>3, <1>10
    <3>2. next \in T
      BY <1>3, <3>1 DEF next
    <3>3. next.source = call.flow.target
      BY <1>3, <1>5, <3>1 DEF next, slice
    <3>4. MayFollow(next, on(1), lane)
      <4>1. Len(on(1).calls) = depth /\ on(1).calls[depth].flow = call.flow /\ depth # 0
        BY <1>2, <1>8
      <4> HIDE DEF MayFollow
      <4>2. QED
        BY <3>3, <4>1 DEF MayFollow
    <3>5. Searching(on(1), T, lane)
      BY <1>8
    <3>6. Searching(Enter(on(1), lane, next), T, lane)
      BY <3>2, <3>4, <3>5, EnterKeeps
    <3>7. QED
      BY <1>6, <1>10, <2>2, <3>6
  <2>3. QED
    BY <2>1, <2>2
<1>11. QED
  BY <1>9, <1>10

LEMMA StepKeeps ==
  ASSUME NEW T, \A f \in T : Placed(f), NEW lane, NEW search, Searching(search, T, lane)
  PROVE  Searching(Step(search, lane), T, lane)
<1>1. CASE search.calls # << >>
  BY <1>1, LoopKeeps DEF Step
<1>2. CASE search.calls = << >> /\ search.seeds # << >>
  <2> DEFINE rest == Tail(search.seeds)
             less == [search EXCEPT !.seeds = rest]
             seed == Head(search.seeds)
  <2>1. /\ search \in Searches(T) /\ search.seeds \in Seq(T)
        /\ \A n \in 1 .. Len(search.seeds) : IsSeed(search.seeds[n], lane)
    BY DEF Searching, Searches
  <2>2. /\ seed \in T /\ rest \in Seq(T) /\ Len(rest) = Len(search.seeds) - 1
        /\ \A n \in 1 .. Len(rest) : rest[n] = search.seeds[n + 1]
    BY <1>2, <2>1, HeadTailProperties
  <2>3. seed = search.seeds[1] /\ Len(search.seeds) \in Nat \ {0}
    BY <1>2, <2>1, EmptySeq
  <2> HIDE DEF rest, seed
  <2>4. IsSeed(seed, lane)
    BY <2>1, <2>3
  <2>5. \A n \in 1 .. Len(rest) : IsSeed(rest[n], lane)
    <3>1. \A n \in 1 .. Len(rest) : n + 1 \in 1 .. Len(search.seeds)
      BY <2>2, <2>3
    <3>2. QED
      BY <2>1, <2>2, <3>1
  <2>6. /\ less \in Searches(T) /\ less.seeds = rest /\ less.calls = search.calls
        /\ less.segments = search.segments /\ less.adjacency = search.adjacency
    BY <2>1, <2>2 DEF Searches
  <2> HIDE DEF less
  <2>7. Searching(less, T, lane)
    BY <2>5, <2>6 DEF Searching
  <2>8. MayFollow(seed, less, lane)
    <3>1. Len(less.calls) = 0
      BY <1>2, <2>6
    <3>2. QED
      BY <2>4, <3>1 DEF MayFollow
  <2>9. Searching(Enter(less, lane, seed), T, lane)
    BY <2>2, <2>7, <2>8, EnterKeeps
  <2>10. Step(search, lane) = Enter(less, lane, seed)
    BY <1>2 DEF Step, less, rest, seed
  <2>11. QED
    BY <2>9, <2>10
<1>3. CASE search.calls = << >> /\ search.seeds = << >>
  BY <1>3 DEF Step
<1>4. QED
  BY <1>1, <1>2, <1>3

(* A function that takes the n-th of N steps from its value at n - 1.      *)
Iterates(f, N, V, start, step) ==
  /\ f \in [0 .. N -> V]
  /\ f[0] = start
  /\ \A n \in 1 .. N : f[n] = step[<<f[n - 1], n>>]

LEMMA Iterated ==
  ASSUME NEW N \in Nat, NEW V, NEW start \in V, NEW step \in [V \X (1 .. N) -> V]
  PROVE  \E f : Iterates(f, N, V, start, step)
<1> DEFINE S == 0 .. N
           m == [n \in S |-> n]
           next(f, n) == IF n = 0 THEN start ELSE step[<<f[n - 1], n>>]
           F == [q \in [S -> V] \X S |-> next(q[1], q[2])]
<1>1. V # {} /\ m \in [S -> Nat]
  OBVIOUS
<1>2. \A n \in S : n # 0 => n - 1 \in S /\ n \in 1 .. N /\ m[n - 1] < m[n]
  OBVIOUS
<1> HIDE DEF S, m
<1>3. ASSUME NEW f \in [S -> V], NEW n \in S PROVE next(f, n) \in V
  BY <1>2
<1>4. ASSUME NEW f \in [S -> V], NEW g \in [S -> V], NEW n \in S,
             \A r \in S : m[r] < m[n] => f[r] = g[r]
      PROVE  next(f, n) = next(g, n)
  BY <1>2, <1>4
<1> HIDE DEF next
<1>5. F \in [[S -> V] \X S -> V]
  BY <1>3
<1>6. LooksBelow(F, S, V, m)
  BY <1>4 DEF LooksBelow
<1>7. PICK f \in Solutions(F, S, V) : TRUE
  <2>1. Recursive(F, S, V, m)
    BY <1>1, <1>5, <1>6 DEF Recursive
  <2> HIDE DEF F
  <2>2. Solutions(F, S, V) # {}
    BY <2>1, Recursion
  <2>3. QED
    BY <2>2
<1>8. f \in [S -> V] /\ \A n \in S : f[n] = next(f, n)
  BY <1>7 DEF Solutions
<1>9. /\ 0 \in S /\ next(f, 0) = start
      /\ \A n \in 1 .. N : n \in S /\ next(f, n) = step[<<f[n - 1], n>>]
  BY DEF S, next
<1>10. Iterates(f, N, V, start, step)
  BY <1>8, <1>9 DEF Iterates, S
<1>11. QED
  BY <1>10

(* What each step leaves in V stays in V.                                  *)
LEMMA StaysIn ==
  ASSUME NEW N \in Nat, NEW V, NEW f, f[0] \in V,
         \A n \in 1 .. N : f[n - 1] \in V => f[n] \in V
  PROVE  \A n \in 0 .. N : f[n] \in V
<1> DEFINE P == {n \in Nat : n <= N => f[n] \in V}
<1>1. P \in SUBSET Nat /\ 0 \in P
  OBVIOUS
<1>2. ASSUME NEW n \in P PROVE n + 1 \in P
  <2>1. SUFFICES ASSUME n + 1 <= N PROVE f[n + 1] \in V
    OBVIOUS
  <2>2. n + 1 \in 1 .. N /\ (n + 1) - 1 = n /\ f[n] \in V
    BY <2>1
  <2>3. QED
    BY <2>2
<1> HIDE DEF P
<1>3. P = Nat
  BY <1>1, <1>2, Induction
<1>4. QED
  BY <1>3 DEF P

LEMMA StartSearches ==
  ASSUME NEW T, NEW flows \in Seq(T), \A f \in T : Placed(f), NEW lane
  PROVE  LET U == ToSet(flows)
             adjacency == Adjacency(flows, lane.start)
             leaving == IF lane.receiver \in DOMAIN adjacency
                        THEN adjacency[lane.receiver] ELSE << >>
         IN Searching([adjacency |-> adjacency, seen |-> {}, segments |-> << >>,
                       seeds |-> Seeds(leaving, lane), calls |-> << >>], U, lane)
<1> DEFINE U == ToSet(flows)
           adjacency == Adjacency(flows, lane.start)
           leaving == IF lane.receiver \in DOMAIN adjacency
                      THEN adjacency[lane.receiver] ELSE << >>
           ends == {lane.receiver, lane.repaymentTarget, lane.borrowSource}
           seeds == Seeds(leaving, lane)
           kept == Keep(leaving, {f \in ToSet(leaving) : f.target \notin ends})
           start == [adjacency |-> adjacency, seen |-> {}, segments |-> << >>,
                     seeds |-> seeds, calls |-> << >>]
           from(a) == {f \in U : f.order > lane.start /\ f.source = a}
<1>1. flows \in Seq(U)
  <2>1. DOMAIN flows = 1 .. Len(flows) /\ Len(flows) \in Nat /\ flows = [n \in 1 .. Len(flows) |-> flows[n]]
    BY LenProperties
  <2>2. \A n \in 1 .. Len(flows) : flows[n] \in U
    BY ToSetIs
  <2>3. QED
    BY <2>1, <2>2
<1>2. adjacency = [a \in Touched(U) |-> Keep(flows, from(a))]
  BY DEF Adjacency, Touched
<1> HIDE DEF U, adjacency, from
<1>3. \A a \in Touched(U) : /\ adjacency[a] \in Seq(U)
                           /\ ToSet(adjacency[a]) = U \cap from(a)
  BY <1>1, <1>2, KeepMembers DEF U
<1>4. DOMAIN adjacency = Touched(U) /\ adjacency \in [Touched(U) -> Seq(U)]
  BY <1>2, <1>3
<1>5. ASSUME NEW a \in Touched(U), NEW n \in 1 .. Len(adjacency[a])
      PROVE  adjacency[a][n].source = a
  <2>1. adjacency[a][n] \in ToSet(adjacency[a])
    BY <1>3, ToSetIs
  <2>2. QED
    BY <1>3, <2>1 DEF from
<1>6. leaving \in Seq(U) /\ \A f \in ToSet(leaving) : f.source = lane.receiver
  <2>1. CASE lane.receiver \in DOMAIN adjacency
    BY <1>3, <1>4, <2>1 DEF from
  <2>2. CASE lane.receiver \notin DOMAIN adjacency
    <3>1. << >> \in Seq(U) /\ ToSet(<< >>) = {}
      BY DEF ToSet
    <3>2. QED
      BY <2>2, <3>1
  <2>3. QED
    BY <2>1, <2>2
<1> HIDE DEF leaving
<1>7. /\ kept \in Seq(U) /\ seeds = FirstOf(kept, MaxSeeds)
      /\ \A f \in ToSet(kept) : IsSeed(f, lane)
  <2>1. seeds = FirstOf(kept, MaxSeeds)
    BY DEF Seeds
  <2> DEFINE away == {f \in ToSet(leaving) : f.target \notin ends}
  <2>2. Keep(leaving, away) \in Seq(U) /\ ToSet(Keep(leaving, away)) = ToSet(leaving) \cap away
    <3> HIDE DEF away
    <3>1. QED
      BY <1>6, KeepMembers
  <2>3. \A f \in ToSet(leaving) \cap away : IsSeed(f, lane)
    BY <1>6 DEF IsSeed
  <2>4. QED
    BY <2>1, <2>2, <2>3
<1> HIDE DEF kept, seeds
<1>8. seeds \in Seq(U) /\ \A n \in 1 .. Len(seeds) : IsSeed(seeds[n], lane)
  <2>1. seeds \in Seq(U) /\ ToSet(seeds) \subseteq ToSet(kept)
    BY <1>7, FirstOfMembers DEF MaxSeeds
  <2>2. \A n \in 1 .. Len(seeds) : seeds[n] \in ToSet(seeds)
    BY <2>1, ToSetIs
  <2>3. QED
    BY <1>7, <2>1, <2>2
<1>9. start \in Searches(U)
  BY <1>4, <1>8 DEF Searches
<1>10. /\ start.adjacency = adjacency /\ start.seeds = seeds /\ ToSet(start.segments) = {}
       /\ start.calls = << >> /\ Len(start.calls) = 0
  BY DEF ToSet
<1> HIDE DEF start
<1>11. Way(Chain(start.calls), 0, {}, lane)
  BY DEF Way, MaxHops
<1>12. Searching(start, U, lane)
  BY <1>5, <1>8, <1>9, <1>10, <1>11 DEF Searching
<1>13. QED
  BY <1>12 DEF start, seeds, leaving, adjacency, U

LEMMA SearchKeeps ==
  ASSUME NEW T, NEW flows \in Seq(T), \A f \in T : Placed(f), NEW lane
  PROVE  Searching(Search(flows, lane), ToSet(flows), lane)
<1> DEFINE U == ToSet(flows)
           N == MaxSteps(flows)
           adjacency == Adjacency(flows, lane.start)
           leaving == IF lane.receiver \in DOMAIN adjacency
                      THEN adjacency[lane.receiver] ELSE << >>
           start == [adjacency |-> adjacency, seen |-> {}, segments |-> << >>,
                     seeds |-> Seeds(leaving, lane), calls |-> << >>]
           V == {search \in Searches(U) : Searching(search, U, lane)}
           step == [q \in V \X (1 .. N) |-> Step(q[1], lane)]
           right(f) == f = [n \in 0 .. N |-> IF n = 0 THEN start ELSE Step(f[n - 1], lane)]
           h == CHOOSE f : right(f)
<1>1. Search(flows, lane) = h[N]
  BY DEF Search
<1>2. \A f \in U : Placed(f)
  BY ToSetIs
<1>3. N \in Nat
  <2>1. \A k \in Nat : k * (k + 1) \in Nat
    OBVIOUS
  <2>2. Len(flows) \in Nat
    OBVIOUS
  <2>3. Len(flows) * (Len(flows) + 1) \in Nat
    BY <2>1, <2>2
  <2> DEFINE k == Len(flows) * (Len(flows) + 1)
  <2> HIDE DEF k
  <2>4. 4 + k \in Nat
    BY <2>3 DEF k
  <2>5. QED
    BY <2>4 DEF MaxSteps, MaxSeeds, k
<1>4. start \in V
  <2>1. Searching(start, U, lane)
    BY StartSearches
  <2>2. QED
    BY <2>1 DEF Searching
<1> HIDE DEF start, N, U, h
<1>5. \A search \in V : Step(search, lane) \in V
  <2>1. ASSUME NEW search, Searching(search, U, lane)
        PROVE  Searching(Step(search, lane), U, lane) /\ Step(search, lane) \in Searches(U)
    <3>1. Searching(Step(search, lane), U, lane)
      BY <1>2, <2>1, StepKeeps
    <3>2. QED
      BY <3>1 DEF Searching
  <2>2. QED
    BY <2>1
<1> HIDE DEF V
<1>6. step \in [V \X (1 .. N) -> V]
  BY <1>5
<1>7. \A v \in V, n \in 1 .. N : step[<<v, n>>] = Step(v, lane)
  OBVIOUS
<1> HIDE DEF step
<1>8. PICK f : Iterates(f, N, V, start, step)
  BY <1>3, <1>4, <1>6, Iterated
<1>9. right(f)
  <2>1. \A n \in 0 .. N : n # 0 => n - 1 \in 0 .. N /\ n \in 1 .. N
    BY <1>3
  <2>2. /\ f \in [0 .. N -> V] /\ f[0] = start
        /\ \A n \in 1 .. N : f[n] = step[<<f[n - 1], n>>]
    BY <1>8 DEF Iterates
  <2>3. \A n \in 0 .. N : n # 0 => f[n] = Step(f[n - 1], lane)
    BY <1>7, <2>1, <2>2
  <2>4. \A n \in 0 .. N : f[n] = IF n = 0 THEN start ELSE Step(f[n - 1], lane)
    BY <2>2, <2>3
  <2>5. QED
    BY <2>2, <2>4
<1>10. right(h)
  <2> HIDE DEF right
  <2>1. QED
    BY <1>9 DEF h
<1>11. h[0] = start /\ \A n \in 1 .. N : h[n] = Step(h[n - 1], lane)
  <2>1. 0 \in 0 .. N /\ \A n \in 1 .. N : n \in 0 .. N /\ n # 0
    BY <1>3
  <2>2. QED
    BY <1>10, <2>1
<1>12. \A n \in 0 .. N : h[n] \in V
  BY <1>3, <1>4, <1>5, <1>11, StaysIn
<1>13. h[N] \in V
  BY <1>3, <1>12
<1>14. QED
  BY <1>1, <1>13 DEF V, U

(* What is drawn of a lane comes from the search: its branches are walked  *)
(* from the receiver on, along branches that are drawn too                 *)
(* (extractKeyExecutionSegments).                                          *)
LEMMA BranchesAreWalked ==
  ASSUME NEW T, NEW flows \in Seq(T), \A f \in T : Placed(f), NEW lane
  PROVE  LET execution == KeySegments(flows, lane)
         IN /\ execution \in Seq(ToSet(flows))
            /\ \A f \in ToSet(execution) : Walked(f, ToSet(execution), lane)
<1> DEFINE U == ToSet(flows)
           segments == Search(flows, lane).segments
<1>1. \A f \in U : Placed(f)
  BY ToSetIs
<1>2. Searching(Search(flows, lane), U, lane)
  BY SearchKeeps
<1> HIDE DEF U
<1>3. segments \in Seq(U) /\ \A f \in ToSet(segments) : Walked(f, ToSet(segments), lane)
  BY <1>2 DEF Searching, Searches
<1>4. KeySegments(flows, lane) = InTraceOrder(segments)
  BY DEF KeySegments
<1> HIDE DEF segments
<1>5. /\ InTraceOrder(segments) \in Seq(U)
      /\ ToSet(InTraceOrder(segments)) = ToSet(segments)
  BY <1>1, <1>3, TraceOrderSorts
<1>6. QED
  BY <1>3, <1>4, <1>5 DEF U

(* Reached, one hop after the other.                                       *)
LEMMA ReachedIs ==
  ASSUME NEW lane
  PROVE  \E reached :
           /\ reached[0] = {lane.receiver}
           /\ \A n \in 1 .. MaxHops :
                reached[n] = reached[n - 1] \cup
                               {s.to : s \in {t \in Swaps(lane) : t.from \in reached[n - 1]}}
           /\ Reached(lane) = reached[MaxHops]
<1> DEFINE S == Swaps(lane)
           more(A) == A \cup {s.to : s \in {t \in S : t.from \in A}}
           V == SUBSET ({lane.receiver} \cup {s.to : s \in S})
           step == [q \in V \X (1 .. MaxHops) |-> more(q[1])]
           right(f) == f = [n \in 0 .. MaxHops |->
                              IF n = 0 THEN {lane.receiver} ELSE more(f[n - 1])]
           h == CHOOSE f : right(f)
<1>1. Reached(lane) = h[MaxHops]
  BY DEF Reached
<1>2. MaxHops \in Nat /\ {lane.receiver} \in V
  BY DEF MaxHops
<1>3. \A A \in V : more(A) \in V
  OBVIOUS
<1> HIDE DEF V, more, S
<1>4. step \in [V \X (1 .. MaxHops) -> V] /\ \A A \in V, n \in 1 .. MaxHops : step[<<A, n>>] = more(A)
  BY <1>3
<1> HIDE DEF step
<1>5. PICK f : Iterates(f, MaxHops, V, {lane.receiver}, step)
  BY <1>2, <1>4, Iterated
<1>6. \A n \in 0 .. MaxHops : n # 0 => n - 1 \in 0 .. MaxHops /\ n \in 1 .. MaxHops
  BY <1>2
<1>7. right(f)
  <2>1. /\ f \in [0 .. MaxHops -> V] /\ f[0] = {lane.receiver}
        /\ \A n \in 1 .. MaxHops : f[n] = step[<<f[n - 1], n>>]
    BY <1>5 DEF Iterates
  <2>2. \A n \in 0 .. MaxHops : n # 0 => f[n] = more(f[n - 1])
    BY <1>4, <1>6, <2>1
  <2>3. QED
    BY <2>1, <2>2
<1>8. right(h)
  <2> HIDE DEF right
  <2>1. QED
    BY <1>7 DEF h
<1> HIDE DEF h
<1>9. h[0] = {lane.receiver} /\ \A n \in 1 .. MaxHops : h[n] = more(h[n - 1])
  <2>1. 0 \in 0 .. MaxHops /\ \A n \in 1 .. MaxHops : n \in 0 .. MaxHops /\ n # 0
    BY <1>2
  <2>2. QED
    BY <1>8, <2>1
<1>10. QED
  BY <1>1, <1>9 DEF more, S

(* A branch leaves a place that is reached, when the drawn transfers of S  *)
(* are branches of the lane; where it leaves the receiver it starts there. *)
LEMMA WalkedIsReached ==
  ASSUME NEW lane, NEW around, around.receiver = lane.receiver, NEW S,
         \A f \in S : \E s \in Swaps(lane) : s.from = f.source /\ s.to = f.target,
         NEW f, Walked(f, S, around)
  PROVE  /\ f.source \in Reached(lane)
         /\ f.source = lane.receiver => IsSeed(f, around)
<1>0. PICK n \in 1 .. MaxHops + 1 : \E p \in [1 .. n -> S] : Way(p, n, S, around) /\ p[n] = f
  BY DEF Walked
<1>1. PICK p \in [1 .. n -> S] : Way(p, n, S, around) /\ p[n] = f
  BY <1>0
<1>2. PICK reached :
        /\ reached[0] = {lane.receiver}
        /\ \A k \in 1 .. MaxHops :
             reached[k] = reached[k - 1] \cup
                            {s.to : s \in {t \in Swaps(lane) : t.from \in reached[k - 1]}}
        /\ Reached(lane) = reached[MaxHops]
  BY ReachedIs
<1>3. /\ n \in Nat /\ 1 <= n /\ n <= 4
      /\ \A i \in 1 .. n : p[i] \in S
      /\ IsSeed(p[1], around)
      /\ \A i \in 1 .. n - 1 : p[i + 1].source = p[i].target /\ ~Ends(p[i], around)
  BY <1>1 DEF Way, MaxHops
<1>4. /\ reached[0] = {lane.receiver} /\ Reached(lane) = reached[3]
      /\ \A k \in 1 .. 3 : reached[k - 1] \subseteq reached[k]
      /\ \A k \in 1 .. 3 : \A s \in Swaps(lane) : s.from \in reached[k - 1] => s.to \in reached[k]
  BY <1>2 DEF MaxHops
<1> DEFINE P == {i \in Nat : 1 <= i /\ i <= n => p[i].source \in reached[i - 1]}
<1>5. 0 \in P
  OBVIOUS
<1>6. ASSUME NEW i \in P PROVE i + 1 \in P
  <2>1. SUFFICES ASSUME i + 1 <= n PROVE p[i + 1].source \in reached[i]
    OBVIOUS
  <2>2. CASE i = 0
    BY <1>3, <1>4, <2>2 DEF IsSeed
  <2>3. CASE i # 0
    <3>1. i \in 1 .. n - 1 /\ i \in 1 .. n /\ i \in 1 .. 3 /\ p[i].source \in reached[i - 1]
      BY <1>3, <2>1, <2>3
    <3>2. PICK s \in Swaps(lane) : s.from = p[i].source /\ s.to = p[i].target
      BY <1>3, <3>1
    <3>3. s.to \in reached[i] /\ p[i + 1].source = s.to
      BY <1>3, <1>4, <3>1, <3>2
    <3>4. QED
      BY <3>3
  <2>4. QED
    BY <2>2, <2>3
<1>7. P \in SUBSET Nat
  OBVIOUS
<1> HIDE DEF P
<1>8. P = Nat
  BY <1>5, <1>6, <1>7, Induction
<1>9. p[n].source \in reached[n - 1]
  BY <1>3, <1>8 DEF P
<1>10. reached[n - 1] \subseteq reached[3]
  <2>1. /\ reached[0] \subseteq reached[1] /\ reached[1] \subseteq reached[2]
        /\ reached[2] \subseteq reached[3]
    BY <1>4
  <2>2. n \in 1 .. 4
    BY <1>3
  <2>3. QED
    BY <2>1, <2>2
<1>11. f.source = lane.receiver => n = 1
  <2>1. SUFFICES ASSUME f.source = lane.receiver, n # 1 PROVE FALSE
    OBVIOUS
  <2>2. n - 1 \in 1 .. n - 1 /\ (n - 1) + 1 = n
    BY <1>3, <2>1
  <2>3. p[n].source = p[n - 1].target /\ ~Ends(p[n - 1], around)
    BY <1>3, <2>2
  <2>4. QED
    BY <1>1, <2>1, <2>3 DEF Ends
<1>12. QED
  BY <1>1, <1>3, <1>4, <1>9, <1>10, <1>11

-------------------------------------------------------------------------------
(* What the segments of a lane are made from.                              *)

Branch(f) == Segment(f.source, f.target, f.action, f.asset, f.amount, "swap")

TopUp(f, receiver) == Segment(f.source, receiver, "Top-up", f.asset, f.amount, "repay")

Key(s) == <<s.from, s.to, s.asset, s.tone, s.action>>

(* dedupeFundFlowSegments keeps one segment of each key, the first one.    *)
LEMMA DedupeKeeps ==
  ASSUME NEW T, NEW segments \in Seq(T)
  PROVE  LET kept == Dedupe(segments)
         IN /\ kept \in Seq(T) /\ ToSet(kept) \subseteq ToSet(segments)
            /\ \A i, j \in 1 .. Len(kept) : Key(kept[i]) = Key(kept[j]) => i = j
            /\ \A s \in ToSet(segments) : \E t \in ToSet(kept) : Key(t) = Key(s)
            /\ Len(segments) > 0 => /\ Len(kept) > 0
                                    /\ kept[1] = segments[1]
            /\ (/\ Len(segments) > 0
                /\ \A n \in 1 .. Len(segments) - 1 :
                     Key(segments[n]) # Key(segments[Len(segments)]))
                 => kept[Len(kept)] = segments[Len(segments)]
<1> DEFINE N == Len(segments)
           keys == [n \in DOMAIN segments |-> Key(segments[n])]
           kept == FirstsOf(segments, keys)
<1>1. Dedupe(segments) = kept
  BY DEF Dedupe, Key
<1>2. N \in Nat /\ \A n \in 1 .. N : keys[n] = Key(segments[n])
  OBVIOUS
<1> HIDE DEF keys
<1>3. kept \in Seq(T) /\ \E at : FirstsAt(segments, keys, kept, at)
  BY FirstsTaken
<1> HIDE DEF kept
<1>4. PICK at : FirstsAt(segments, keys, kept, at)
  BY <1>3
<1> DEFINE L == Len(kept)
<1>5. L \in Nat
  BY <1>3
<1> HIDE DEF L
<1>6. /\ at \in [1 .. L -> 1 .. N]
      /\ \A k \in 1 .. L : kept[k] = segments[at[k]]
      /\ \A j, k \in 1 .. L : j < k => at[j] < at[k]
      /\ \A j, k \in 1 .. L : Key(segments[at[j]]) = Key(segments[at[k]]) => j = k
      /\ \A n \in 1 .. N : \E k \in 1 .. L : at[k] <= n /\ Key(segments[at[k]]) = Key(segments[n])
  <2>1. at \in [1 .. L -> 1 .. N] /\ \A k \in 1 .. L : kept[k] = segments[at[k]]
    BY <1>4 DEF FirstsAt, L
  <2>2. /\ \A j, k \in 1 .. L : j < k => at[j] < at[k]
        /\ \A j, k \in 1 .. L : keys[at[j]] = keys[at[k]] => j = k
        /\ \A n \in 1 .. N : \E k \in 1 .. L : at[k] <= n /\ keys[at[k]] = keys[n]
    BY <1>4 DEF FirstsAt, L
  <2>3. \A k \in 1 .. L : at[k] \in 1 .. N /\ keys[at[k]] = Key(segments[at[k]])
    BY <1>2, <2>1
  <2>4. \A j, k \in 1 .. L : Key(segments[at[j]]) = Key(segments[at[k]]) => j = k
    BY <2>2, <2>3
  <2>5. ASSUME NEW n \in 1 .. N
        PROVE  \E k \in 1 .. L : at[k] <= n /\ Key(segments[at[k]]) = Key(segments[n])
    <3>1. PICK k \in 1 .. L : at[k] <= n /\ keys[at[k]] = keys[n]
      BY <2>2
    <3>2. QED
      BY <1>2, <2>3, <3>1
  <2>6. QED
    BY <2>1, <2>2, <2>4, <2>5
<1>7. ToSet(segments) = {segments[n] : n \in 1 .. N} /\ ToSet(kept) = {kept[k] : k \in 1 .. L}
  BY <1>3, ToSetIs DEF L
<1>8. ToSet(kept) \subseteq ToSet(segments)
  BY <1>6, <1>7
<1>9. \A i, j \in 1 .. L : Key(kept[i]) = Key(kept[j]) => i = j
  BY <1>6
<1>10. ASSUME NEW s \in ToSet(segments) PROVE \E t \in ToSet(kept) : Key(t) = Key(s)
  <2>1. PICK n \in 1 .. N : s = segments[n]
    BY <1>7
  <2>2. PICK k \in 1 .. L : Key(segments[at[k]]) = Key(segments[n])
    BY <1>6
  <2>3. QED
    BY <1>6, <1>7, <2>1, <2>2
<1>11. ASSUME N > 0 PROVE L > 0 /\ kept[1] = segments[1]
  <2>1. PICK k \in 1 .. L : at[k] <= 1
    BY <1>2, <1>6, <1>11
  <2>2. 1 \in 1 .. L /\ at[1] \in 1 .. N /\ at[k] \in 1 .. N
    BY <1>5, <1>6, <2>1
  <2>3. at[1] = 1
    BY <1>5, <1>6, <2>1, <2>2
  <2>4. kept[1] = segments[1]
    BY <1>6, <2>2, <2>3
  <2>5. L > 0
    BY <1>5, <2>2
  <2>6. QED
    BY <2>4, <2>5
<1>12. ASSUME N > 0, \A n \in 1 .. N - 1 : Key(segments[n]) # Key(segments[N])
       PROVE  kept[L] = segments[N]
  <2>1. PICK k \in 1 .. L : Key(segments[at[k]]) = Key(segments[N])
    BY <1>2, <1>6, <1>12
  <2>2. at[k] \in 1 .. N /\ L \in 1 .. L /\ at[L] \in 1 .. N
    BY <1>5, <1>6, <2>1
  <2>3. at[k] = N
    BY <1>2, <1>12, <2>1, <2>2
  <2>4. k = L
    BY <1>5, <1>6, <2>2, <2>3
  <2>5. QED
    BY <1>6, <2>2, <2>3, <2>4
<1>13. QED
  BY <1>1, <1>3, <1>8, <1>9, <1>10, <1>11, <1>12 DEF L

LEMMA Joins ==
  ASSUME NEW T, NEW s \in Seq(T), NEW t \in Seq(T)
  PROVE  /\ s \o t \in Seq(T) /\ Len(s \o t) = Len(s) + Len(t)
         /\ ToSet(s \o t) = ToSet(s) \cup ToSet(t)
<1>1. /\ s \o t \in Seq(T) /\ Len(s \o t) = Len(s) + Len(t)
      /\ Len(s) \in Nat /\ Len(t) \in Nat
      /\ \A n \in 1 .. Len(s) : (s \o t)[n] = s[n]
      /\ \A n \in 1 .. Len(t) : (s \o t)[Len(s) + n] = t[n]
  OBVIOUS
<1> DEFINE u == s \o t
<1> HIDE DEF u
<1>2. /\ ToSet(u) = {u[n] : n \in 1 .. Len(u)} /\ ToSet(s) = {s[n] : n \in 1 .. Len(s)}
      /\ ToSet(t) = {t[n] : n \in 1 .. Len(t)}
  BY <1>1, ToSetIs DEF u
<1>3. ASSUME NEW n \in 1 .. Len(u) PROVE u[n] \in ToSet(s) \cup ToSet(t)
  <2>1. CASE n <= Len(s)
    BY <1>1, <1>2, <2>1 DEF u
  <2>2. CASE n > Len(s)
    <3>1. n - Len(s) \in 1 .. Len(t) /\ n = Len(s) + (n - Len(s))
      BY <1>1, <2>2 DEF u
    <3>2. QED
      BY <1>1, <1>2, <3>1 DEF u
  <2>3. QED
    BY <1>1, <2>1, <2>2
<1>4. ASSUME NEW n \in 1 .. Len(s) PROVE s[n] \in ToSet(u)
  <2>1. n \in 1 .. Len(u) /\ u[n] = s[n]
    BY <1>1 DEF u
  <2>2. QED
    BY <1>2, <2>1
<1>5. ASSUME NEW n \in 1 .. Len(t) PROVE t[n] \in ToSet(u)
  <2>1. Len(s) + n \in 1 .. Len(u) /\ u[Len(s) + n] = t[n]
    BY <1>1 DEF u
  <2>2. QED
    BY <1>2, <2>1
<1>6. ToSet(u) = ToSet(s) \cup ToSet(t)
  <2>1. ToSet(u) \subseteq ToSet(s) \cup ToSet(t)
    BY <1>2, <1>3
  <2>2. ToSet(s) \subseteq ToSet(u)
    BY <1>2, <1>4
  <2>3. ToSet(t) \subseteq ToSet(u)
    BY <1>2, <1>5
  <2>4. QED
    BY <2>1, <2>2, <2>3
<1>7. QED
  BY <1>1, <1>6 DEF u

Borrow(source, loan, leg) ==
  Segment(source, loan.receiver, "Borrow", leg.asset, leg.borrowed, "borrow")

Repay(target, loan, leg) ==
  Segment(loan.receiver, target, "Repay", leg.asset, ExpectedRepayment(leg), "repay")

Borrows(leg) == NormalizeAmount(leg.borrowed) # Zero

Repays(leg) == ExpectedRepayment(leg) # Zero

EndsOf(segments) == UNION {Ends2(s) : s \in ToSet(segments)}

LEMMA OneSegment ==
  ASSUME NEW x
  PROVE  <<x>> \in Seq({x}) /\ Len(<<x>>) = 1 /\ <<x>>[1] = x /\ ToSet(<<x>>) = {x}
<1>1. <<x>> \in Seq({x}) /\ Len(<<x>>) = 1 /\ <<x>>[1] = x /\ DOMAIN <<x>> = 1 .. 1
  OBVIOUS
<1>2. QED
  BY <1>1 DEF ToSet

LEMMA NoSegment == \A T : << >> \in Seq(T) /\ Len(<< >>) = 0 /\ ToSet(<< >>) = {}
BY DEF ToSet

LEMMA BorrowIs ==
  ASSUME NEW source, NEW loan, NEW leg
  PROVE  LET first == BorrowSegment(source, loan, leg)
         IN /\ first \in Seq({Borrow(source, loan, leg)})
            /\ IF Borrows(leg) THEN first = <<Borrow(source, loan, leg)>> ELSE first = << >>
BY OneSegment, NoSegment DEF BorrowSegment, Borrows, Borrow

LEMMA RepayIs ==
  ASSUME NEW target, NEW loan, NEW leg
  PROVE  LET last == RepaySegment(target, loan, leg)
         IN /\ last \in Seq({Repay(target, loan, leg)})
            /\ IF Repays(leg) THEN last = <<Repay(target, loan, leg)>> ELSE last = << >>
BY OneSegment, NoSegment DEF RepaySegment, Repays, Repay

LEMMA InOwnMembers ==
  ASSUME NEW T, NEW s \in Seq(T)
  PROVE  s \in Seq(ToSet(s))
<1>1. s = [n \in 1 .. Len(s) |-> s[n]] /\ Len(s) \in Nat
  OBVIOUS
<1>2. \A n \in 1 .. Len(s) : s[n] \in ToSet(s)
  BY ToSetIs
<1>3. QED
  BY <1>1, <1>2

LEMMA SeqGrows ==
  ASSUME NEW S, NEW T, S \subseteq T, NEW s \in Seq(S)
  PROVE  s \in Seq(T)
<1>1. s = [n \in 1 .. Len(s) |-> s[n]] /\ Len(s) \in Nat /\ \A n \in 1 .. Len(s) : s[n] \in T
  OBVIOUS
<1>2. QED
  BY <1>1

(* The segments of a lane, before the repeated ones are dropped: the loan  *)
(* first, its repayment last.                                              *)
Between(loan, leg, around, execution, topUps) ==
  BorrowSegment(around.borrowSource, loan, leg)
    \o [n \in DOMAIN execution |-> Branch(execution[n])]
    \o [n \in DOMAIN topUps |-> TopUp(topUps[n], loan.receiver)]
    \o RepaySegment(around.repaymentTarget, loan, leg)

LEMMA MembersBetween ==
  ASSUME NEW T, NEW execution \in Seq(T), NEW topUps \in Seq(T), NEW loan, NEW leg, NEW around
  PROVE  LET segments == Between(loan, leg, around, execution, topUps)
             borrow == Borrow(around.borrowSource, loan, leg)
             repay == Repay(around.repaymentTarget, loan, leg)
             branches == {Branch(f) : f \in ToSet(execution)}
             others == {TopUp(f, loan.receiver) : f \in ToSet(topUps)}
         IN /\ segments \in Seq(ToSet(segments))
            /\ ToSet(segments) = (IF Borrows(leg) THEN {borrow} ELSE {}) \cup branches
                                   \cup others \cup (IF Repays(leg) THEN {repay} ELSE {})
            /\ Borrows(leg) => Len(segments) > 0 /\ segments[1] = borrow
            /\ Repays(leg) =>
                 /\ Len(segments) > 0 /\ segments[Len(segments)] = repay
                 /\ \A n \in 1 .. Len(segments) - 1 :
                      segments[n] \in (IF Borrows(leg) THEN {borrow} ELSE {})
                                        \cup branches \cup others
<1> DEFINE r == loan.receiver
           borrow == Borrow(around.borrowSource, loan, leg)
           repay == Repay(around.repaymentTarget, loan, leg)
           branches == {Branch(f) : f \in ToSet(execution)}
           others == {TopUp(f, r) : f \in ToSet(topUps)}
           b == BorrowSegment(around.borrowSource, loan, leg)
           e == [n \in DOMAIN execution |-> Branch(execution[n])]
           t == [n \in DOMAIN topUps |-> TopUp(topUps[n], r)]
           c == RepaySegment(around.repaymentTarget, loan, leg)
           V == {borrow} \cup branches \cup others \cup {repay}
           segments == b \o e \o t \o c
<1>1. /\ b \in Seq(V) /\ ToSet(b) = (IF Borrows(leg) THEN {borrow} ELSE {})
      /\ Len(b) = (IF Borrows(leg) THEN 1 ELSE 0) /\ (Borrows(leg) => b[1] = borrow)
  <2> HIDE DEF borrow, repay, branches, others, b
  <2>1. b \in Seq({borrow}) /\ (IF Borrows(leg) THEN b = <<borrow>> ELSE b = << >>)
    BY BorrowIs DEF b, borrow
  <2>2. b \in Seq(V)
    BY <2>1, SeqGrows
  <2>3. QED
    BY <2>1, <2>2, OneSegment, NoSegment
<1>2. /\ c \in Seq(V) /\ ToSet(c) = (IF Repays(leg) THEN {repay} ELSE {})
      /\ Len(c) = (IF Repays(leg) THEN 1 ELSE 0) /\ (Repays(leg) => c[1] = repay)
  <2> HIDE DEF borrow, repay, branches, others, c
  <2>1. c \in Seq({repay}) /\ (IF Repays(leg) THEN c = <<repay>> ELSE c = << >>)
    BY RepayIs DEF c, repay
  <2>2. c \in Seq(V)
    BY <2>1, SeqGrows
  <2>3. QED
    BY <2>1, <2>2, OneSegment, NoSegment
<1>3. e \in Seq(V) /\ ToSet(e) = branches
  <2>1. DOMAIN execution = 1 .. Len(execution) /\ Len(execution) \in Nat
    OBVIOUS
  <2>2. ToSet(execution) = {execution[n] : n \in 1 .. Len(execution)}
    BY ToSetIs
  <2>3. \A n \in 1 .. Len(execution) : Branch(execution[n]) \in V
    BY <2>2
  <2> HIDE DEF V, branches
  <2>4. e \in Seq(V)
    BY <2>1, <2>3
  <2>5. ToSet(e) = {Branch(execution[n]) : n \in 1 .. Len(execution)}
    BY <2>1 DEF ToSet
  <2>6. QED
    BY <2>2, <2>4, <2>5 DEF branches
<1>4. t \in Seq(V) /\ ToSet(t) = others
  <2>1. DOMAIN topUps = 1 .. Len(topUps) /\ Len(topUps) \in Nat
    OBVIOUS
  <2>2. ToSet(topUps) = {topUps[n] : n \in 1 .. Len(topUps)}
    BY ToSetIs
  <2>3. \A n \in 1 .. Len(topUps) : TopUp(topUps[n], r) \in V
    BY <2>2
  <2> HIDE DEF V, others
  <2>4. t \in Seq(V)
    BY <2>1, <2>3
  <2>5. ToSet(t) = {TopUp(topUps[n], r) : n \in 1 .. Len(topUps)}
    BY <2>1 DEF ToSet
  <2>6. QED
    BY <2>2, <2>4, <2>5 DEF others
<1>5. Between(loan, leg, around, execution, topUps) = segments
  BY DEF Between
<1> HIDE DEF b, e, t, c, V, borrow, repay, branches, others
<1> DEFINE be == b \o e  bet == be \o t
<1>6. be \in Seq(V) /\ Len(be) = Len(b) + Len(e) /\ ToSet(be) = ToSet(b) \cup ToSet(e)
  <2>1. b \in Seq(V) /\ e \in Seq(V)
    BY <1>1, <1>3
  <2>2. /\ b \o e \in Seq(V) /\ Len(b \o e) = Len(b) + Len(e)
        /\ ToSet(b \o e) = ToSet(b) \cup ToSet(e)
    BY <2>1, Joins
  <2>3. QED
    BY <2>2
<1>7. bet \in Seq(V) /\ Len(bet) = Len(be) + Len(t) /\ ToSet(bet) = ToSet(be) \cup ToSet(t)
  <2> HIDE DEF be
  <2>1. QED
    BY <1>6, <1>4, Joins
<1>8. /\ segments = bet \o c /\ segments \in Seq(V) /\ Len(segments) = Len(bet) + Len(c)
      /\ ToSet(segments) = ToSet(bet) \cup ToSet(c)
  <2>1. segments = bet \o c
    OBVIOUS
  <2> HIDE DEF bet, segments
  <2>2. QED
    <3>1. bet \in Seq(V) /\ c \in Seq(V)
      BY <1>2, <1>7
    <3>2. bet \o c \in Seq(V) /\ Len(bet \o c) = Len(bet) + Len(c)
            /\ ToSet(bet \o c) = ToSet(bet) \cup ToSet(c)
      BY <3>1, Joins
    <3>3. QED
      BY <2>1, <3>2
<1>9. /\ Len(b) \in Nat /\ Len(e) \in Nat /\ Len(t) \in Nat /\ Len(c) \in Nat
  BY <1>1, <1>2, <1>3, <1>4
<1>10. Borrows(leg) => Len(segments) > 0 /\ segments[1] = borrow
  <2>1. SUFFICES ASSUME Borrows(leg) PROVE Len(segments) > 0 /\ segments[1] = borrow
    OBVIOUS
  <2>2. 1 \in 1 .. Len(b) /\ 1 \in 1 .. Len(be) /\ 1 \in 1 .. Len(bet) /\ Len(segments) > 0
    BY <1>1, <1>6, <1>7, <1>8, <1>9, <2>1
  <2>3. be[1] = b[1]
    BY <1>1, <1>3, <2>2
  <2>4. bet[1] = be[1]
    <3> HIDE DEF be
    <3>1. QED
      BY <1>4, <1>6, <2>2
  <2>5. segments[1] = bet[1]
    <3> HIDE DEF bet, segments
    <3>1. QED
      BY <1>2, <1>7, <1>8, <2>2
  <2>6. QED
    BY <1>1, <2>1, <2>2, <2>3, <2>4, <2>5
<1>11. Repays(leg) => /\ Len(segments) > 0 /\ segments[Len(segments)] = repay
                      /\ \A n \in 1 .. Len(segments) - 1 : segments[n] \in ToSet(bet)
  <2>1. SUFFICES ASSUME Repays(leg)
                 PROVE  /\ Len(segments) > 0 /\ segments[Len(segments)] = repay
                        /\ \A n \in 1 .. Len(segments) - 1 : segments[n] \in ToSet(bet)
    OBVIOUS
  <2> HIDE DEF bet, segments
  <2>2. Len(c) = 1 /\ Len(segments) = Len(bet) + 1 /\ Len(bet) \in Nat
    BY <1>2, <1>7, <1>8, <2>1
  <2>3. segments[Len(bet) + 1] = c[1]
    BY <1>2, <1>7, <1>8, <2>2
  <2>4. \A n \in 1 .. Len(bet) : segments[n] = bet[n] /\ bet[n] \in ToSet(bet)
    BY <1>2, <1>7, <1>8, ToSetIs
  <2>5. QED
    BY <1>2, <2>1, <2>2, <2>3, <2>4
<1>12. segments \in Seq(ToSet(segments))
  <2>1. segments \in Seq(V)
    BY <1>8, Zenon
  <2> HIDE DEF segments
  <2>2. QED
    BY <2>1, InOwnMembers, Zenon
<1>13. /\ ToSet(bet) = (IF Borrows(leg) THEN {borrow} ELSE {}) \cup branches \cup others
       /\ ToSet(segments) = ToSet(bet) \cup (IF Repays(leg) THEN {repay} ELSE {})
  <2> HIDE DEF segments, bet, be
  <2>1. QED
    BY <1>1, <1>2, <1>3, <1>4, <1>6, <1>7, <1>8
<1> HIDE DEF segments, bet, be
<1>14. QED
  BY <1>5, <1>10, <1>11, <1>12, <1>13 DEF borrow, repay, branches, others

Transfers == {"transfer", "transferFrom"}

(* The segment s of a lane: the loan, a branch, a top-up or the repayment. *)
DrawnFrom(s, loan, leg, around, execution, topUps) ==
  \/ Borrows(leg) /\ s = Borrow(around.borrowSource, loan, leg)
  \/ \E f \in ToSet(execution) : s = Branch(f)
  \/ \E f \in ToSet(topUps) : s = TopUp(f, loan.receiver)
  \/ Repays(leg) /\ s = Repay(around.repaymentTarget, loan, leg)

NodeEnds(nodes) == {node[1] : node \in nodes}

LEMMA NodesAreEnds ==
  ASSUME NEW segments, NEW receiver
  PROVE  NodeEnds(Nodes(segments, receiver)) = EndsOf(segments)
<1>1. ASSUME NEW s
      PROVE  \E x, y : RolesOf(s, receiver) = <<<<s.from, x>>, <<s.to, y>>>>
  BY DEF RolesOf
<1>2. ASSUME NEW s PROVE NodeEnds(ToSet(RolesOf(s, receiver))) = Ends2(s)
  <2>1. PICK x, y : RolesOf(s, receiver) = <<<<s.from, x>>, <<s.to, y>>>>
    BY <1>1
  <2>2. ToSet(<<<<s.from, x>>, <<s.to, y>>>>) = {<<s.from, x>>, <<s.to, y>>}
    <3> DEFINE p == <<s.from, x>>  q == <<s.to, y>>  roles == <<p, q>>
    <3> HIDE DEF p, q
    <3>1. DOMAIN roles = 1 .. 2 /\ roles[1] = p /\ roles[2] = q
      OBVIOUS
    <3>2. ToSet(roles) = {roles[n] : n \in 1 .. 2}
      BY <3>1 DEF ToSet
    <3>3. ToSet(roles) = {p, q}
      BY <3>1, <3>2
    <3>4. QED
      BY <3>3 DEF p, q
  <2>3. QED
    BY <2>1, <2>2 DEF NodeEnds, Ends2
<1>3. QED
  BY <1>2 DEF NodeEnds, EndsOf, Nodes

LEMMA FirstRolesAreEnds ==
  ASSUME NEW T, NEW segments \in Seq(T), NEW receiver
  PROVE  NodeEnds(FirstRoles(segments, receiver)) = EndsOf(segments)
<1> DEFINE N == Len(segments)
           U == UNION {ToSet(RolesOf(s, receiver)) : s \in ToSet(segments)}
           parts == [n \in DOMAIN segments |-> RolesOf(segments[n], receiver)]
           roles == FlattenSeq(parts)
           keys == [n \in DOMAIN roles |-> roles[n][1]]
           firsts == FirstsOf(roles, keys)
<1>1. N \in Nat /\ DOMAIN segments = 1 .. N /\ ToSet(segments) = {segments[n] : n \in 1 .. N}
  BY ToSetIs
<1>2. ASSUME NEW s \in ToSet(segments)
      PROVE  RolesOf(s, receiver) \in Seq(U)
  <2>1. PICK x, y : RolesOf(s, receiver) = <<<<s.from, x>>, <<s.to, y>>>>
    BY DEF RolesOf
  <2> DEFINE p == <<s.from, x>>  q == <<s.to, y>>  two == <<p, q>>
  <2>2. two \in Seq({p, q})
    <3> HIDE DEF p, q
    <3>1. QED
      OBVIOUS
  <2>3. two = RolesOf(s, receiver) /\ ToSet(two) \subseteq U
    BY <2>1
  <2> HIDE DEF two
  <2>4. two \in Seq(ToSet(two))
    BY <2>2, InOwnMembers
  <2> HIDE DEF U
  <2>5. QED
    BY <2>3, <2>4, SeqGrows
<1>3. parts \in Seq(Seq(U)) /\ Len(parts) = N /\ \A n \in 1 .. N : parts[n] = RolesOf(segments[n], receiver)
  <2> HIDE DEF U
  <2>1. \A n \in 1 .. N : RolesOf(segments[n], receiver) \in Seq(U)
    BY <1>1, <1>2
  <2> HIDE DEF N
  <2>2. parts = [n \in 1 .. N |-> RolesOf(segments[n], receiver)]
    BY <1>1
  <2>3. QED
    BY <1>1, <2>1, <2>2
<1>4. FirstRoles(segments, receiver) = ToSet(firsts)
  BY DEF FirstRoles
<1> HIDE DEF parts, N
<1>5. roles \in Seq(U) /\ ToSet(roles) = UNION {ToSet(parts[n]) : n \in 1 .. N}
  <2> HIDE DEF U
  <2>1. QED
    BY <1>3, Flattened
<1>6. ToSet(roles) = U
  <2>1. {ToSet(RolesOf(s, receiver)) : s \in ToSet(segments)} =
          {ToSet(RolesOf(segments[n], receiver)) : n \in 1 .. N}
    BY <1>1
  <2>2. {ToSet(parts[n]) : n \in 1 .. N} = {ToSet(RolesOf(segments[n], receiver)) : n \in 1 .. N}
    BY <1>3
  <2>3. QED
    BY <1>5, <2>1, <2>2
<1>7. NodeEnds(U) = EndsOf(segments)
  <2>1. U = Nodes(segments, receiver)
    BY DEF Nodes
  <2>2. QED
    BY <2>1, NodesAreEnds
<1> HIDE DEF roles, U
<1>8. \A n \in 1 .. Len(roles) : keys[n] = roles[n][1]
  BY <1>5
<1> HIDE DEF keys
<1>9. firsts \in Seq(U) /\ \E at : FirstsAt(roles, keys, firsts, at)
  BY <1>5, FirstsTaken
<1> HIDE DEF firsts
<1>10. PICK at : FirstsAt(roles, keys, firsts, at)
  BY <1>9
<1>11. /\ \A k \in 1 .. Len(firsts) : at[k] \in 1 .. Len(roles) /\ firsts[k] = roles[at[k]]
       /\ \A n \in 1 .. Len(roles) : \E k \in 1 .. Len(firsts) : keys[at[k]] = keys[n]
  BY <1>10 DEF FirstsAt
<1>12. /\ ToSet(roles) = {roles[n] : n \in 1 .. Len(roles)}
       /\ ToSet(firsts) = {firsts[k] : k \in 1 .. Len(firsts)}
  BY <1>5, <1>9, ToSetIs
<1>13. ASSUME NEW r \in ToSet(roles) PROVE \E t \in ToSet(firsts) : t[1] = r[1]
  <2>1. PICK n \in 1 .. Len(roles) : r = roles[n]
    BY <1>12
  <2>2. PICK k \in 1 .. Len(firsts) : keys[at[k]] = keys[n]
    BY <1>11
  <2>3. firsts[k] \in ToSet(firsts) /\ firsts[k][1] = r[1]
    BY <1>8, <1>11, <1>12, <2>1, <2>2
  <2>4. QED
    BY <2>3
<1>14. ToSet(firsts) \subseteq ToSet(roles)
  BY <1>11, <1>12
<1>15. NodeEnds(ToSet(firsts)) = NodeEnds(ToSet(roles))
  BY <1>13, <1>14 DEF NodeEnds
<1>16. QED
  BY <1>4, <1>6, <1>7, <1>15

LEMMA SameKeysSameEnds ==
  ASSUME NEW A, NEW B, ToSet(A) \subseteq ToSet(B),
         \A s \in ToSet(B) : \E t \in ToSet(A) : Key(t) = Key(s)
  PROVE  EndsOf(A) = EndsOf(B)
<1>1. \A s, t : Key(t) = Key(s) => Ends2(t) = Ends2(s)
  BY DEF Key, Ends2
<1>2. QED
  BY <1>1 DEF EndsOf

(* What a lane is made of: the loan, the branches, the top-ups, the        *)
(* repayment, and a node for each of their ends.                           *)
LEMMA LaneIsDrawn ==
  ASSUME NEW T, NEW execution \in Seq(T), NEW topUps \in Seq(T),
         \A f \in T : f.action \in Transfers, NEW loan, NEW leg, NEW around, NEW nodes,
         NodeEnds(nodes) = EndsOf(Between(loan, leg, around, execution, topUps))
  PROVE  LET drawn == LaneOf(loan, leg, Between(loan, leg, around, execution, topUps), nodes)
             lane == drawn[1]
             segments == lane.segments
         IN /\ Borrows(leg) \/ Repays(leg) => drawn # << >>
            /\ drawn # << >> =>
                 /\ drawn = <<lane>>
                 /\ lane.provider = loan.provider /\ lane.receiver = loan.receiver
                 /\ lane.asset = leg.asset
                 /\ segments \in Seq(ToSet(segments))
                 /\ \A s \in ToSet(segments) :
                      DrawnFrom(s, loan, leg, around, execution, topUps)
                 /\ \A i, j \in 1 .. Len(segments) : Key(segments[i]) = Key(segments[j]) => i = j
                 /\ \A f \in ToSet(execution) :
                      \E s \in Swaps(lane) : s.from = f.source /\ s.to = f.target
                 /\ Borrows(leg) => segments[1] = Borrow(around.borrowSource, loan, leg)
                 /\ Repays(leg) =>
                      /\ Len(segments) > 0
                      /\ segments[Len(segments)] = Repay(around.repaymentTarget, loan, leg)
                 /\ NodeEnds(lane.nodes) = EndsOf(segments)
<1> DEFINE r == loan.receiver
           borrow == Borrow(around.borrowSource, loan, leg)
           repay == Repay(around.repaymentTarget, loan, leg)
           branches == {Branch(f) : f \in ToSet(execution)}
           others == {TopUp(f, r) : f \in ToSet(topUps)}
           made == Between(loan, leg, around, execution, topUps)
           kept == Dedupe(made)
           drawn == LaneOf(loan, leg, made, nodes)
           record == [provider |-> loan.provider, receiver |-> r, asset |-> leg.asset,
                      nodes |-> nodes, segments |-> kept]
<1>1. drawn = IF made = << >> THEN << >> ELSE <<record>>
  BY DEF LaneOf
<1>2. /\ made \in Seq(ToSet(made))
      /\ ToSet(made) = (IF Borrows(leg) THEN {borrow} ELSE {}) \cup branches
                         \cup others \cup (IF Repays(leg) THEN {repay} ELSE {})
      /\ Borrows(leg) => Len(made) > 0 /\ made[1] = borrow
      /\ Repays(leg) =>
           /\ Len(made) > 0 /\ made[Len(made)] = repay
           /\ \A n \in 1 .. Len(made) - 1 :
                made[n] \in (IF Borrows(leg) THEN {borrow} ELSE {}) \cup branches \cup others
  BY MembersBetween
<1>3. Borrows(leg) \/ Repays(leg) => drawn # << >>
  <2>1. Borrows(leg) \/ Repays(leg) => made # << >>
    <3>1. Len(<< >>) = 0
      OBVIOUS
    <3> HIDE DEF made
    <3>2. QED
      BY <1>2, <3>1
  <2> HIDE DEF drawn, made, record
  <2>2. <<record>> # << >>
    OBVIOUS
  <2>3. QED
    BY <1>1, <2>1, <2>2
<1>4. SUFFICES ASSUME drawn # << >>
      PROVE  /\ drawn = <<record>>
             /\ record \in [provider : {loan.provider}, receiver : {r}, asset : {leg.asset},
                            nodes : {nodes}, segments : {kept}]
             /\ kept \in Seq(ToSet(kept))
             /\ \A s \in ToSet(kept) : DrawnFrom(s, loan, leg, around, execution, topUps)
             /\ \A i, j \in 1 .. Len(kept) : Key(kept[i]) = Key(kept[j]) => i = j
             /\ \A f \in ToSet(execution) :
                  \E s \in Swaps(record) : s.from = f.source /\ s.to = f.target
             /\ Borrows(leg) => kept[1] = borrow
             /\ Repays(leg) => Len(kept) > 0 /\ kept[Len(kept)] = repay
             /\ NodeEnds(nodes) = EndsOf(kept)
  <2> DEFINE lane == drawn[1]
  <2>1. drawn = <<record>> => lane = record
    <3> HIDE DEF record, drawn
    <3>1. QED
      OBVIOUS
  <2> HIDE DEF drawn
  <2>2. /\ record.segments = kept /\ record.provider = loan.provider /\ record.receiver = r
        /\ record.asset = leg.asset /\ record.nodes = nodes
    BY DEF record
  <2> HIDE DEF record, made, kept
  <2>3. QED
    BY <1>3, <1>4, <2>1, <2>2 DEF drawn, made
<1>5. drawn = <<record>> /\ record.segments = kept
  <2>1. record.segments = kept
    OBVIOUS
  <2>2. QED
    BY <1>1, <1>4, <2>1
<1>6. record \in [provider : {loan.provider}, receiver : {r}, asset : {leg.asset},
                  nodes : {nodes}, segments : {kept}]
  <2> HIDE DEF made, kept
  <2>1. QED
    OBVIOUS
<1> HIDE DEF made, kept, record, drawn, borrow, repay, branches, others
<1>7. /\ kept \in Seq(ToSet(made)) /\ ToSet(kept) \subseteq ToSet(made)
      /\ \A i, j \in 1 .. Len(kept) : Key(kept[i]) = Key(kept[j]) => i = j
      /\ \A s \in ToSet(made) : \E t \in ToSet(kept) : Key(t) = Key(s)
      /\ Len(made) > 0 => Len(kept) > 0 /\ kept[1] = made[1]
      /\ (/\ Len(made) > 0
          /\ \A n \in 1 .. Len(made) - 1 : Key(made[n]) # Key(made[Len(made)]))
           => kept[Len(kept)] = made[Len(made)]
  BY <1>2, DedupeKeeps DEF kept
<1>8. kept \in Seq(ToSet(kept))
  BY <1>7, InOwnMembers
<1>9. \A s \in ToSet(kept) : DrawnFrom(s, loan, leg, around, execution, topUps)
  BY <1>2, <1>7 DEF DrawnFrom, borrow, repay, branches, others
<1>10. ASSUME NEW f \in ToSet(execution)
       PROVE  \E s \in Swaps(record) : s.from = f.source /\ s.to = f.target
  <2>1. Branch(f) \in ToSet(made)
    BY <1>2 DEF branches
  <2>2. PICK t \in ToSet(kept) : Key(t) = Key(Branch(f))
    BY <1>7, <2>1
  <2>3. /\ Branch(f).tone = "swap" /\ Branch(f).from = f.source /\ Branch(f).to = f.target
    BY DEF Branch, Segment
  <2>4. t.tone = "swap" /\ t.from = f.source /\ t.to = f.target
    BY <2>2, <2>3 DEF Key
  <2>5. QED
    BY <1>5, <2>2, <2>4 DEF Swaps
<1>11. Borrows(leg) => kept[1] = borrow
  BY <1>2, <1>7
<1>12. Repays(leg) => Len(kept) > 0 /\ kept[Len(kept)] = repay
  <2>1. SUFFICES ASSUME Repays(leg) PROVE Len(kept) > 0 /\ kept[Len(kept)] = repay
    OBVIOUS
  <2>2. repay.action = "Repay" /\ borrow.action = "Borrow"
    BY DEF repay, Repay, borrow, Borrow, Segment
  <2>3. \A s \in branches \cup others : s.action \in {"transfer", "transferFrom", "Top-up"}
    <3>1. \A f \in ToSet(execution) : f.action \in Transfers
      BY ToSetIs
    <3>2. \A f : Branch(f).action = f.action /\ TopUp(f, r).action = "Top-up"
      BY DEF Branch, TopUp, Segment
    <3>3. QED
      BY <3>1, <3>2 DEF branches, others, Transfers
  <2>4. ASSUME NEW n \in 1 .. Len(made) - 1 PROVE Key(made[n]) # Key(made[Len(made)])
    <3>1. made[n].action # "Repay"
      BY <1>2, <2>1, <2>2, <2>3
    <3>2. made[Len(made)].action = "Repay"
      BY <1>2, <2>1, <2>2
    <3>3. QED
      BY <3>1, <3>2 DEF Key
  <2>5. QED
    BY <1>2, <1>7, <2>1, <2>4
<1>13. NodeEnds(nodes) = EndsOf(kept)
  <2>1. EndsOf(kept) = EndsOf(made)
    BY <1>7, SameKeysSameEnds
  <2>2. QED
    BY <2>1 DEF made
<1>14. QED
  BY <1>5, <1>6, <1>7, <1>8, <1>9, <1>10, <1>11, <1>12, <1>13

(* Flows with a place in the trace each, no two of one frame.              *)
Ordered(flows) ==
  /\ flows \in Seq(ToSet(flows))
  /\ \A f \in ToSet(flows) : Placed(f)
  /\ \A i, j \in 1 .. Len(flows) : flows[i].frame = flows[j].frame => i = j

(* Sorted they are the same flows, each before those after it.             *)
LEMMA FlowsSorted ==
  ASSUME NEW flows, Ordered(flows)
  PROVE  LET sorted == InTraceOrder(flows)
         IN /\ sorted \in Seq(ToSet(flows)) /\ Len(sorted) = Len(flows)
            /\ ToSet(sorted) = ToSet(flows)
            /\ \A m, n \in 1 .. Len(flows) : m < n => FlowBefore(sorted[m], sorted[n])
<1> DEFINE N == Len(flows)
           less == {p \in Pairs(flows) : FlowBefore(flows[p[1]], flows[p[2]])}
           sorted == InTraceOrder(flows)
<1>1. /\ flows \in Seq(ToSet(flows)) /\ N \in Nat /\ DOMAIN flows = 1 .. N
      /\ \A n \in 1 .. N : Placed(flows[n])
      /\ \A i, j \in 1 .. N : flows[i].frame = flows[j].frame => i = j
  BY DEF Ordered
<1>2. /\ sorted \in Seq(ToSet(flows)) /\ Len(sorted) = N /\ ToSet(sorted) = ToSet(flows)
      /\ \E at : SortedAt(flows, less, sorted, at)
  BY TraceOrderSorts DEF Ordered
<1>3. \A i, j \in 1 .. N : <<i, j>> \in less <=> FlowBefore(flows[i], flows[j])
  BY <1>1 DEF Pairs
<1>4. ASSUME NEW i \in 1 .. N, NEW j \in 1 .. N, i # j, ~FlowBefore(flows[j], flows[i])
      PROVE  FlowBefore(flows[i], flows[j])
  <2>1. /\ flows[i].order \in Nat /\ flows[i].frame \in Seq(Nat)
        /\ flows[j].order \in Nat /\ flows[j].frame \in Seq(Nat)
        /\ flows[i].frame # flows[j].frame
    BY <1>1, <1>4 DEF Placed
  <2>2. IdBefore(flows[i].frame, flows[j].frame) \/ IdBefore(flows[j].frame, flows[i].frame)
    BY <2>1, IdsOrdered
  <2>3. QED
    BY <1>4, <2>1, <2>2 DEF FlowBefore
<1> HIDE DEF less, sorted
<1>5. PICK at : /\ at \in [1 .. N -> 1 .. N]
                /\ \A k \in 1 .. N : sorted[k] = flows[at[k]]
                /\ \A j, k \in 1 .. N : j < k =>
                     \/ <<at[j], at[k]>> \in less
                     \/ at[j] < at[k] /\ <<at[k], at[j]>> \notin less
  BY <1>2 DEF SortedAt
<1>6. ASSUME NEW m \in 1 .. N, NEW n \in 1 .. N, m < n
      PROVE  FlowBefore(sorted[m], sorted[n])
  <2>1. at[m] \in 1 .. N /\ at[n] \in 1 .. N
    BY <1>5
  <2>2. \/ FlowBefore(flows[at[m]], flows[at[n]])
        \/ at[m] < at[n] /\ ~FlowBefore(flows[at[n]], flows[at[m]])
    BY <1>3, <1>5, <1>6, <2>1
  <2>3. FlowBefore(flows[at[m]], flows[at[n]])
    BY <1>4, <2>1, <2>2
  <2>4. QED
    BY <1>5, <2>3
<1>7. QED
  BY <1>2, <1>6 DEF sorted

(* The flows of a summary are shown in the order of their calls.           *)
InCallOrder(shown) ==
  LET frameOf(flow) == CHOOSE f \in ToSet(shown.frames) : f.id = flow.frame
      flows == SortedFlows(shown)
  IN \A i, j \in DOMAIN flows :
       (i < j /\ frameOf(flows[i]).depth < 10 /\ frameOf(flows[j]).depth < 10)
         => frameOf(flows[i]).callIndex < frameOf(flows[j]).callIndex

FrameNamed(shown, id) == CHOOSE f \in ToSet(shown.frames) : f.id = id

SameTransfer(f, g) ==
  /\ f.frame = g.frame /\ f.action = g.action /\ f.asset = g.asset
  /\ f.source = g.source /\ f.target = g.target /\ f.amount = g.amount

(* The flows of a summary in order: each has the place of its frame.       *)
LEMMA FlowsPlaced ==
  ASSUME NEW trace, IsTrace(trace), NEW shown,
         shown.frames = Flatten(trace), shown.flows = AssetFlows(shown.frames)
  PROVE  LET sorted == SortedFlows(shown)
         IN /\ sorted \in Seq(ToSet(sorted))
            /\ \A f \in ToSet(sorted) :
                 /\ Placed(f)
                 /\ \E i \in DOMAIN shown.flows : SameTransfer(f, shown.flows[i])
                 /\ \E n \in DOMAIN shown.frames :
                      /\ f.frame = shown.frames[n].id
                      /\ FrameNamed(shown, f.frame) = shown.frames[n]
                      /\ f.order = (n - 1) * 10 + shown.frames[n].depth
            /\ \A m, n \in DOMAIN sorted : m < n => FlowBefore(sorted[m], sorted[n])
<1> DEFINE frames == shown.frames
           N == Len(shown.flows)
           frameNamed(id) == FrameNamed(shown, id)
           withOrder(flow) == [frame |-> flow.frame, action |-> flow.action,
                               asset |-> flow.asset, source |-> flow.source,
                               target |-> flow.target, amount |-> flow.amount,
                               order |-> FrameOrder(frameNamed(flow.frame))]
           flows == [n \in DOMAIN shown.flows |-> withOrder(shown.flows[n])]
           sorted == InTraceOrder(flows)
<1>1. /\ DOMAIN frames = 1 .. Len(frames)
      /\ \A n \in DOMAIN frames : /\ frames[n].id \in Seq(Nat)
                                  /\ frames[n].callIndex = n - 1
                                  /\ frames[n].depth \in Nat
      /\ \A m, n \in DOMAIN frames : frames[m].id = frames[n].id => m = n
      /\ Len(frames) \in Nat
  BY FramesDiffer
<1>2. /\ N \in Nat /\ DOMAIN shown.flows = 1 .. N
      /\ \A i \in 1 .. N : \E n \in DOMAIN frames : shown.flows[i].frame = frames[n].id
      /\ \A i, j \in 1 .. N : shown.flows[i].frame = shown.flows[j].frame => i = j
  BY FlowsOfFrames
<1>3. \A n \in DOMAIN frames : frameNamed(frames[n].id) = frames[n]
  <2> SUFFICES ASSUME NEW n \in DOMAIN frames PROVE frameNamed(frames[n].id) = frames[n]
    OBVIOUS
  <2>1. ToSet(frames) = {frames[m] : m \in DOMAIN frames}
    BY <1>1 DEF ToSet
  <2>2. frameNamed(frames[n].id) = CHOOSE f \in ToSet(frames) : f.id = frames[n].id
    BY DEF FrameNamed
  <2> HIDE DEF frames, frameNamed
  <2>3. \A f \in ToSet(frames) : f.id = frames[n].id => f = frames[n]
    BY <1>1, <2>1
  <2>4. frames[n] \in ToSet(frames)
    BY <2>1
  <2>5. QED
    BY <2>2, <2>3, <2>4
<1>4. \A i \in 1 .. N : /\ SameTransfer(flows[i], shown.flows[i])
                        /\ flows[i].order = FrameOrder(frameNamed(shown.flows[i].frame))
  BY <1>2 DEF SameTransfer
<1>5. SortedFlows(shown) = sorted
  BY DEF SortedFlows, FrameNamed
<1>6. Len(flows) = N /\ flows \in Seq(ToSet(flows))
  <2> DEFINE T == {withOrder(shown.flows[i]) : i \in 1 .. N}
  <2>1. DOMAIN flows = 1 .. N /\ \A i \in 1 .. N : flows[i] \in T
    BY <1>2
  <2>2. flows = [i \in 1 .. N |-> flows[i]]
    BY <1>2
  <2> HIDE DEF T, flows
  <2>3. flows \in Seq(T) /\ Len(flows) = N
    BY <1>2, <2>1, <2>2
  <2>4. QED
    BY <2>3, InOwnMembers
<1> HIDE DEF frames, flows, sorted, frameNamed, N
<1>7. \A i \in 1 .. N : \E n \in DOMAIN frames :
        /\ flows[i].frame = frames[n].id
        /\ frameNamed(flows[i].frame) = frames[n]
        /\ flows[i].order = (n - 1) * 10 + frames[n].depth
  <2> SUFFICES ASSUME NEW i \in 1 .. N
               PROVE  \E n \in DOMAIN frames :
                        /\ flows[i].frame = frames[n].id
                        /\ frameNamed(flows[i].frame) = frames[n]
                        /\ flows[i].order = (n - 1) * 10 + frames[n].depth
    OBVIOUS
  <2>1. PICK n \in DOMAIN frames : shown.flows[i].frame = frames[n].id
    BY <1>2
  <2>2. flows[i].frame = frames[n].id /\ flows[i].order = FrameOrder(frameNamed(frames[n].id))
    BY <1>4, <2>1 DEF SameTransfer
  <2>3. frameNamed(frames[n].id) = frames[n] /\ frames[n].callIndex = n - 1
    BY <1>1, <1>3
  <2>4. flows[i].order = (n - 1) * 10 + frames[n].depth
    BY <2>2, <2>3 DEF FrameOrder
  <2>5. QED
    BY <2>2, <2>3, <2>4
<1>8. \A i \in 1 .. N : Placed(flows[i])
  BY <1>1, <1>7 DEF Placed
<1>9. ToSet(flows) = {flows[i] : i \in 1 .. N}
  BY <1>6, ToSetIs
<1>10. Ordered(flows)
  BY <1>2, <1>4, <1>6, <1>8, <1>9 DEF Ordered, SameTransfer
<1>11. /\ sorted \in Seq(ToSet(flows)) /\ Len(sorted) = N /\ ToSet(sorted) = ToSet(flows)
       /\ \A m, n \in 1 .. N : m < n => FlowBefore(sorted[m], sorted[n])
  BY <1>6, <1>10, FlowsSorted DEF sorted
<1>12. DOMAIN sorted = 1 .. N
  BY <1>11
<1>13. ASSUME NEW f \in ToSet(sorted)
       PROVE  /\ Placed(f)
              /\ \E i \in DOMAIN shown.flows : SameTransfer(f, shown.flows[i])
              /\ \E n \in DOMAIN frames : /\ f.frame = frames[n].id
                                          /\ frameNamed(f.frame) = frames[n]
                                          /\ f.order = (n - 1) * 10 + frames[n].depth
  <2>1. PICK i \in 1 .. N : f = flows[i]
    BY <1>9, <1>11
  <2>2. QED
    BY <1>2, <1>4, <1>7, <1>8, <2>1
<1>14. QED
  BY <1>5, <1>11, <1>12, <1>13 DEF frames, frameNamed

LEMMA TraceInCallOrder ==
  ASSUME NEW trace, IsTrace(trace), NEW shown,
         shown.frames = Flatten(trace), shown.flows = AssetFlows(shown.frames)
  PROVE  InCallOrder(shown)
<1> DEFINE frames == shown.frames
           frameNamed(id) == FrameNamed(shown, id)
           sorted == SortedFlows(shown)
           S == DOMAIN sorted
<1>1. /\ DOMAIN frames = 1 .. Len(frames)
      /\ \A n \in DOMAIN frames : /\ frames[n].id \in Seq(Nat)
                                  /\ frames[n].callIndex = n - 1
                                  /\ frames[n].depth \in Nat
  BY FramesDiffer
<1>2. /\ sorted \in Seq(ToSet(sorted))
      /\ \A f \in ToSet(sorted) : \E n \in DOMAIN frames :
           /\ f.frame = frames[n].id
           /\ frameNamed(f.frame) = frames[n]
           /\ f.order = (n - 1) * 10 + frames[n].depth
      /\ \A m, n \in S : m < n => FlowBefore(sorted[m], sorted[n])
  BY FlowsPlaced
<1> HIDE DEF frames, sorted, frameNamed
<1>3. \A i \in S : sorted[i] \in ToSet(sorted)
  BY <1>2, ToSetIs
<1>4. ASSUME NEW i \in S, NEW j \in S, i < j,
             frameNamed(sorted[i].frame).depth < 10, frameNamed(sorted[j].frame).depth < 10
      PROVE  frameNamed(sorted[i].frame).callIndex < frameNamed(sorted[j].frame).callIndex
  <2>1. PICK m \in DOMAIN frames : /\ sorted[i].frame = frames[m].id
                                   /\ frameNamed(sorted[i].frame) = frames[m]
                                   /\ sorted[i].order = (m - 1) * 10 + frames[m].depth
    BY <1>2, <1>3
  <2>2. PICK n \in DOMAIN frames : /\ sorted[j].frame = frames[n].id
                                   /\ frameNamed(sorted[j].frame) = frames[n]
                                   /\ sorted[j].order = (n - 1) * 10 + frames[n].depth
    BY <1>2, <1>3
  <2>3. FlowBefore(sorted[i], sorted[j])
    BY <1>2, <1>4
  <2>4. m # n
    <3>1. SUFFICES ASSUME m = n PROVE FALSE
      OBVIOUS
    <3>2. sorted[i].order \in Nat /\ sorted[i].order = sorted[j].order
      BY <1>1, <2>1, <2>2, <3>1
    <3>3. IdBefore(sorted[i].frame, sorted[j].frame)
      BY <2>3, <3>2 DEF FlowBefore
    <3>4. sorted[i].frame = sorted[j].frame /\ sorted[i].frame \in Seq(Nat)
      BY <1>1, <2>1, <2>2, <3>1
    <3>5. QED
      BY <3>3, <3>4, IdsOrdered
  <2>5. (m - 1) * 10 + frames[m].depth <= (n - 1) * 10 + frames[n].depth
    BY <1>1, <2>1, <2>2, <2>3 DEF FlowBefore
  <2>6. m \in Nat /\ n \in Nat /\ frames[m].depth \in 0 .. 9 /\ frames[n].depth \in 0 .. 9
    <3>1. m \in Nat /\ n \in Nat /\ frames[m].depth \in Nat /\ frames[n].depth \in Nat
      BY <1>1
    <3>2. frames[m].depth < 10 /\ frames[n].depth < 10
      BY <1>4, <2>1, <2>2
    <3>3. QED
      BY <3>1, <3>2
  <2>7. m < n
    BY <2>4, <2>5, <2>6
  <2>8. QED
    BY <1>1, <2>1, <2>2, <2>6, <2>7
<1>5. QED
  BY <1>4 DEF InCallOrder, FrameNamed, frameNamed, sorted

(* A flow of a page: it has a place and is a transfer of its trace.        *)
FlowOf(f, shown) ==
  /\ Placed(f) /\ f.action \in Transfers
  /\ \E i \in DOMAIN shown.flows : SameTransfer(f, shown.flows[i])

(* The flows a lane is drawn from.                                         *)
LEMMA FlowsForLane ==
  ASSUME NEW trace, IsTrace(trace), NEW shown,
         shown.frames = Flatten(trace), shown.flows = AssetFlows(shown.frames), NEW evidence
  PROVE  LET flows == FlowsOf(MeaningfulFlows(shown), evidence)
         IN flows \in Seq(ToSet(flows)) /\ \A f \in ToSet(flows) : FlowOf(f, shown)
<1> DEFINE sorted == SortedFlows(shown)
           M == {f \in ToSet(sorted) : /\ f.amount # Zero
                                       /\ f.action \in {"transfer", "transferFrom"}
                                       /\ ZeroAddress \notin {f.source, f.target}}
           meaningful == MeaningfulFlows(shown)
           flows == FlowsOf(meaningful, evidence)
           frames == evidence.callbacks \cup evidence.subtree \cup evidence.repayments
           K == {f \in ToSet(meaningful) : f.frame \in frames}
<1>1. /\ sorted \in Seq(ToSet(sorted))
      /\ \A f \in ToSet(sorted) :
           Placed(f) /\ \E i \in DOMAIN shown.flows : SameTransfer(f, shown.flows[i])
  BY FlowsPlaced
<1>2. meaningful = Keep(sorted, M)
  BY DEF MeaningfulFlows
<1>3. \A f \in ToSet(sorted) \cap M : FlowOf(f, shown)
  BY <1>1 DEF FlowOf, Transfers
<1> HIDE DEF sorted, M
<1>4. /\ Keep(sorted, M) \in Seq(ToSet(sorted))
      /\ ToSet(Keep(sorted, M)) = ToSet(sorted) \cap M
  BY <1>1, KeepMembers
<1>5. flows = IF Keep(meaningful, K) = << >> THEN meaningful ELSE Keep(meaningful, K)
  BY DEF FlowsOf
<1> HIDE DEF meaningful, K, flows
<1>6. meaningful \in Seq(ToSet(sorted)) /\ \A f \in ToSet(meaningful) : FlowOf(f, shown)
  BY <1>2, <1>3, <1>4
<1>7. /\ Keep(meaningful, K) \in Seq(ToSet(sorted))
      /\ ToSet(Keep(meaningful, K)) = ToSet(meaningful) \cap K
  BY <1>6, KeepMembers
<1>8. flows \in Seq(ToSet(sorted)) /\ ToSet(flows) \subseteq ToSet(meaningful)
  BY <1>5, <1>6, <1>7
<1>9. flows \in Seq(ToSet(flows))
  BY <1>8, InOwnMembers
<1>10. QED
  BY <1>6, <1>8, <1>9 DEF flows, meaningful

(* What the search and the choice of top-ups give a lane.                  *)
Selected(flows, around, execution, topUps) ==
  /\ execution \in Seq(ToSet(flows)) /\ topUps \in Seq(ToSet(flows))
  /\ \A f \in ToSet(execution) : Walked(f, ToSet(execution), around)
  /\ \A f \in ToSet(topUps) : /\ f.target = around.receiver
                              /\ \A e \in ToSet(execution) : f.frame # e.frame

(* A lane drawn from some flows, or << >>.                                 *)
IsDrawn(drawn, flows, loan, leg) ==
  \E around, execution, topUps, nodes :
    /\ around.receiver = loan.receiver
    /\ Selected(flows, around, execution, topUps)
    /\ NodeEnds(nodes) = EndsOf(Between(loan, leg, around, execution, topUps))
    /\ drawn = LaneOf(loan, leg, Between(loan, leg, around, execution, topUps), nodes)

LEMMA LaneSelects ==
  ASSUME NEW flows, flows \in Seq(ToSet(flows)), \A f \in ToSet(flows) : Placed(f),
         NEW loan, NEW leg, NEW sender
  PROVE  IsDrawn(Lane(flows, loan, leg, sender), flows, loan, leg)
<1> DEFINE around == LaneAround(loan, leg, BorrowFlow(flows, loan, leg, sender),
                                RepayFlow(flows, loan, leg))
           execution == KeySegments(flows, around)
           candidates == TopUpCandidates(flows, around, leg, sender, execution)
           topUps == PickTopUps(candidates, leg, sender)
           made == Between(loan, leg, around, execution, topUps)
           C == {f \in ToSet(flows) :
                   /\ f.order > around.start
                   /\ f.target = around.receiver /\ f.source # around.receiver
                   /\ f.frame \notin {e.frame : e \in ToSet(execution)}
                   /\ f.asset \notin DebtAssets
                   /\ \/ f.source \in {sender, around.borrowSource, around.repaymentTarget}
                      \/ f.amount = ExpectedRepayment(leg)
                      \/ f.asset = leg.asset}
<1>1. around.receiver = loan.receiver
  BY DEF LaneAround
<1>2. Lane(flows, loan, leg, sender) = LaneOf(loan, leg, made, Nodes(made, loan.receiver))
  BY DEF Lane, LaneBetween, LaneAlong, LaneWith, DrawnLane, Between, Branch, TopUp
<1>3. candidates = Keep(flows, C)
  BY DEF TopUpCandidates
<1> HIDE DEF around
<1>4. /\ execution \in Seq(ToSet(flows))
      /\ \A f \in ToSet(execution) : Walked(f, ToSet(execution), around)
  BY BranchesAreWalked
<1>5. \A f \in C : /\ f.target = around.receiver
                   /\ \A e \in ToSet(execution) : f.frame # e.frame
  OBVIOUS
<1> HIDE DEF execution, C, candidates
<1>6. /\ Keep(flows, C) \in Seq(ToSet(flows))
      /\ ToSet(Keep(flows, C)) = ToSet(flows) \cap C
  BY KeepMembers
<1>7. candidates \in Seq(ToSet(flows)) /\ ToSet(candidates) \subseteq C
  BY <1>3, <1>6
<1>8. topUps \in Seq(ToSet(flows)) /\ ToSet(topUps) \subseteq ToSet(candidates)
  BY <1>7, TopUpsAreCandidates
<1> HIDE DEF topUps
<1>9. Selected(flows, around, execution, topUps)
  BY <1>4, <1>5, <1>7, <1>8 DEF Selected
<1>10. NodeEnds(Nodes(made, loan.receiver)) = EndsOf(made)
  BY NodesAreEnds
<1>11. QED
  BY <1>1, <1>2, <1>9, <1>10 DEF IsDrawn

LEMMA FallbackSelects ==
  ASSUME NEW loan, NEW leg
  PROVE  IsDrawn(FallbackLane(loan, leg), << >>, loan, leg)
<1> DEFINE target == FirstAddress(leg.repaidTo, loan.provider)
           around == [receiver |-> loan.receiver, borrowSource |-> loan.provider,
                      repaymentTarget |-> target]
           made == Between(loan, leg, around, << >>, << >>)
           b == BorrowSegment(loan.provider, loan, leg)
           c == RepaySegment(target, loan, leg)
           V == {Borrow(loan.provider, loan, leg), Repay(target, loan, leg)}
<1>1. b \in Seq(V) /\ c \in Seq(V)
  <2>1. b \in Seq({Borrow(loan.provider, loan, leg)}) /\ c \in Seq({Repay(target, loan, leg)})
    BY BorrowIs, RepayIs
  <2> HIDE DEF b, c, target
  <2>2. QED
    BY <2>1, SeqGrows
<1>2. made = b \o << >> \o << >> \o c
  <2>1. /\ [n \in DOMAIN << >> |-> Branch(<< >>[n])] = << >>
        /\ [n \in DOMAIN << >> |-> TopUp(<< >>[n], loan.receiver)] = << >>
    OBVIOUS
  <2>2. around.borrowSource = loan.provider /\ around.repaymentTarget = target
    OBVIOUS
  <2>3. QED
    BY <2>1, <2>2 DEF Between
<1>3. made = b \o c
  <2> HIDE DEF b, c, made, V
  <2>1. b \o << >> = b
    BY <1>1
  <2>2. QED
    BY <1>2, <2>1
<1>4. made \in Seq(V)
  <2> HIDE DEF b, c, made, V
  <2>1. QED
    BY <1>1, <1>3, ConcatProperties
<1> DEFINE nodes == FirstRoles(made, loan.receiver)
<1>5. NodeEnds(nodes) = EndsOf(made)
  <2> HIDE DEF made, V
  <2>1. QED
    BY <1>4, FirstRolesAreEnds
<1>6. FallbackLane(loan, leg) = LaneOf(loan, leg, b \o c, FirstRoles(b \o c, loan.receiver))
  BY DEF FallbackLane
<1>7. FallbackLane(loan, leg) = LaneOf(loan, leg, made, nodes)
  <2> HIDE DEF made, b, c
  <2>1. QED
    BY <1>3, <1>6
<1>8. around.receiver = loan.receiver
  OBVIOUS
<1> HIDE DEF around
<1>9. Selected(<< >>, around, << >>, << >>)
  BY NoSegment DEF Selected
<1>10. QED
  BY <1>5, <1>7, <1>8, <1>9 DEF IsDrawn


-------------------------------------------------------------------------------
(* What the three properties say of one lane.                              *)

BranchesReached(lane) ==
  \A s \in Swaps(lane) :
    /\ s.from \in Reached(lane)
    /\ s.from = lane.receiver =>
         \A e \in ToSet(lane.segments) :
           e.action \in {"Borrow", "Repay"} => s.to \notin Ends2(e)

LEMMA DrawnBranches ==
  ASSUME NEW flows, flows \in Seq(ToSet(flows)), NEW shown,
         \A f \in ToSet(flows) : FlowOf(f, shown),
         NEW loan, NEW leg, NEW drawn, IsDrawn(drawn, flows, loan, leg), drawn # << >>
  PROVE  BranchesReached(drawn[1])
<1>1. PICK around, execution, topUps, nodes :
        /\ around.receiver = loan.receiver
        /\ Selected(flows, around, execution, topUps)
        /\ NodeEnds(nodes) = EndsOf(Between(loan, leg, around, execution, topUps))
        /\ drawn = LaneOf(loan, leg, Between(loan, leg, around, execution, topUps), nodes)
  BY DEF IsDrawn
<1> DEFINE lane == drawn[1]
           borrow == Borrow(around.borrowSource, loan, leg)
           repay == Repay(around.repaymentTarget, loan, leg)
<1>2. /\ execution \in Seq(ToSet(flows)) /\ topUps \in Seq(ToSet(flows))
      /\ \A f \in ToSet(execution) : Walked(f, ToSet(execution), around)
      /\ \A f \in ToSet(flows) : f.action \in Transfers
  BY <1>1 DEF Selected, FlowOf
<1>3. /\ lane.receiver = loan.receiver
      /\ \A s \in ToSet(lane.segments) : DrawnFrom(s, loan, leg, around, execution, topUps)
      /\ \A f \in ToSet(execution) : \E s \in Swaps(lane) : s.from = f.source /\ s.to = f.target
  BY <1>1, <1>2, LaneIsDrawn
<1> HIDE DEF lane
<1>4. ToSet(execution) \subseteq ToSet(flows)
  BY <1>2, ToSetIs
<1>5. ASSUME NEW s \in ToSet(lane.segments)
      PROVE  /\ s.tone = "swap" => \E f \in ToSet(execution) : s = Branch(f)
             /\ s.action = "Borrow" => s = borrow
             /\ s.action = "Repay" => s = repay
  <2>1. /\ borrow.tone = "borrow" /\ borrow.action = "Borrow"
        /\ repay.tone = "repay" /\ repay.action = "Repay"
        /\ \A f : Branch(f).tone = "swap" /\ Branch(f).action = f.action
        /\ \A f : /\ TopUp(f, loan.receiver).tone = "repay"
                  /\ TopUp(f, loan.receiver).action = "Top-up"
    BY DEF Borrow, Repay, Branch, TopUp, Segment
  <2>2. \A f \in ToSet(execution) : f.action \notin {"Borrow", "Repay"}
    BY <1>2, <1>4 DEF Transfers
  <2>3. DrawnFrom(s, loan, leg, around, execution, topUps)
    BY <1>3
  <2> HIDE DEF borrow, repay
  <2>4. CASE s = borrow
    BY <2>1, <2>4
  <2>5. CASE \E f \in ToSet(execution) : s = Branch(f)
    BY <2>1, <2>2, <2>5
  <2>6. CASE \E f \in ToSet(topUps) : s = TopUp(f, loan.receiver)
    BY <2>1, <2>6
  <2>7. CASE s = repay
    BY <2>1, <2>7
  <2>8. QED
    BY <2>3, <2>4, <2>5, <2>6, <2>7 DEF DrawnFrom, borrow, repay
<1>6. ASSUME NEW s \in Swaps(lane)
      PROVE  /\ s.from \in Reached(lane)
             /\ s.from = lane.receiver =>
                  \A e \in ToSet(lane.segments) :
                    e.action \in {"Borrow", "Repay"} => s.to \notin Ends2(e)
  <2>1. PICK f \in ToSet(execution) : s = Branch(f)
    BY <1>5 DEF Swaps
  <2>2. s.from = f.source /\ s.to = f.target
    BY <2>1 DEF Branch, Segment
  <2>3. /\ f.source \in Reached(lane)
        /\ f.source = lane.receiver => IsSeed(f, around)
    BY <1>1, <1>2, <1>3, WalkedIsReached
  <2>4. ASSUME s.from = lane.receiver, NEW e \in ToSet(lane.segments),
               e.action \in {"Borrow", "Repay"}
        PROVE  s.to \notin Ends2(e)
    <3>1. f.target \notin {around.receiver, around.repaymentTarget, around.borrowSource}
      BY <2>2, <2>3, <2>4 DEF IsSeed
    <3>2. Ends2(borrow) = {around.borrowSource, loan.receiver}
      BY DEF Ends2, Borrow, Segment
    <3>3. Ends2(repay) = {loan.receiver, around.repaymentTarget}
      BY DEF Ends2, Repay, Segment
    <3>4. e = borrow \/ e = repay
      BY <1>5, <2>4
    <3> HIDE DEF borrow, repay
    <3>5. QED
      BY <1>1, <2>2, <3>1, <3>2, <3>3, <3>4
  <2>5. QED
    BY <2>2, <2>3, <2>4
<1>7. QED
  BY <1>1, <1>6 DEF BranchesReached, lane

LEMMA NoMoreThan ==
  ASSUME NEW S, NEW T, IsFiniteSet(T), NEW f \in [S -> T],
         \A x, y \in S : f[x] = f[y] => x = y
  PROVE  Cardinality(S) <= Cardinality(T)
<1>1. f \in Injection(S, T)
  BY DEF Injection, IsInjective
<1>2. QED
  BY <1>1, FS_Injection

Alike(x) == <<x.from, x.to, x.asset, x.amount>>

DrawnOnce(lane, flows) ==
  \A s \in Swaps(lane) :
    LET alike == <<s.from, s.to, s.asset, s.amount>>
        drawn == {n \in DOMAIN lane.segments :
                    LET t == lane.segments[n]
                    IN /\ t.tone = "swap" \/ t.action = "Top-up"
                       /\ <<t.from, t.to, t.asset, t.amount>> = alike}
        made == {n \in DOMAIN flows :
                   LET f == flows[n]
                   IN <<f.source, f.target, f.asset, Compact(f.amount)>> = alike}
    IN Cardinality(drawn) <= Cardinality(made)

LEMMA DrawnTransfers ==
  ASSUME NEW flows, flows \in Seq(ToSet(flows)), NEW shown,
         IsFiniteSet(DOMAIN shown.flows), \A f \in ToSet(flows) : FlowOf(f, shown),
         NEW loan, NEW leg, NEW drawn, IsDrawn(drawn, flows, loan, leg), drawn # << >>
  PROVE  DrawnOnce(drawn[1], shown.flows)
<1>1. PICK around, execution, topUps, nodes :
        /\ around.receiver = loan.receiver
        /\ Selected(flows, around, execution, topUps)
        /\ NodeEnds(nodes) = EndsOf(Between(loan, leg, around, execution, topUps))
        /\ drawn = LaneOf(loan, leg, Between(loan, leg, around, execution, topUps), nodes)
  BY DEF IsDrawn
<1> DEFINE lane == drawn[1]
           segments == lane.segments
           N == Len(segments)
<1>2. /\ execution \in Seq(ToSet(flows)) /\ topUps \in Seq(ToSet(flows))
      /\ \A f \in ToSet(topUps) : /\ f.target = around.receiver
                                  /\ \A e \in ToSet(execution) : f.frame # e.frame
      /\ \A f \in ToSet(flows) : f.action \in Transfers
  BY <1>1 DEF Selected, FlowOf
<1>3. /\ segments \in Seq(ToSet(segments))
      /\ \A s \in ToSet(segments) : DrawnFrom(s, loan, leg, around, execution, topUps)
      /\ \A i, j \in 1 .. N : Key(segments[i]) = Key(segments[j]) => i = j
  BY <1>1, <1>2, LaneIsDrawn
<1> HIDE DEF lane
<1>4. ToSet(execution) \subseteq ToSet(flows) /\ ToSet(topUps) \subseteq ToSet(flows)
  BY <1>2, ToSetIs
<1>5. DOMAIN segments = 1 .. N /\ \A n \in 1 .. N : segments[n] \in ToSet(segments)
  BY <1>3, ToSetIs
<1> DEFINE Moved(t) == t.tone = "swap" \/ t.action = "Top-up"
           From(t, f) == \/ f \in ToSet(execution) /\ t = Branch(f)
                         \/ f \in ToSet(topUps) /\ t = TopUp(f, loan.receiver)
<1>6. ASSUME NEW t \in ToSet(segments), Moved(t)
      PROVE  \E f : From(t, f)
  <2>1. DrawnFrom(t, loan, leg, around, execution, topUps)
    BY <1>3
  <2>2. /\ t # Borrow(around.borrowSource, loan, leg)
        /\ t # Repay(around.repaymentTarget, loan, leg)
    BY <1>6 DEF Borrow, Repay, Segment
  <2>3. QED
    BY <2>1, <2>2 DEF DrawnFrom
<1>7. ASSUME NEW t, NEW f, From(t, f)
      PROVE  /\ f \in ToSet(flows)
             /\ Alike(t) = <<f.source, f.target, f.asset, Compact(f.amount)>>
             /\ t.tone = (IF t = Branch(f) THEN "swap" ELSE "repay")
             /\ t.action = (IF t = Branch(f) THEN f.action ELSE "Top-up")
  <2>1. /\ Branch(f).tone = "swap" /\ TopUp(f, loan.receiver).tone = "repay"
        /\ Branch(f).action = f.action /\ TopUp(f, loan.receiver).action = "Top-up"
        /\ Alike(Branch(f)) = <<f.source, f.target, f.asset, Compact(f.amount)>>
        /\ Alike(TopUp(f, loan.receiver)) = <<f.source, loan.receiver, f.asset, Compact(f.amount)>>
    BY DEF Branch, TopUp, Segment, Alike
  <2>2. f \in ToSet(flows)
    BY <1>4, <1>7
  <2>3. CASE t = Branch(f)
    BY <2>1, <2>2, <2>3
  <2>4. CASE t # Branch(f)
    <3>1. f \in ToSet(topUps) /\ t = TopUp(f, loan.receiver)
      BY <1>7, <2>4
    <3>2. f.target = loan.receiver
      BY <1>1, <1>2, <3>1
    <3>3. QED
      BY <2>1, <2>2, <2>4, <3>1, <3>2
  <2>5. QED
    BY <2>3, <2>4
<1>8. ASSUME NEW i \in 1 .. N, NEW j \in 1 .. N, NEW f, NEW g,
             From(segments[i], f), From(segments[j], g), f.frame = g.frame, f.action = g.action,
             Alike(segments[i]) = Alike(segments[j])
      PROVE  i = j
  <2>1. CASE segments[i] = Branch(f) <=> segments[j] = Branch(g)
    <3>1. /\ segments[i].tone = segments[j].tone
          /\ segments[i].action = segments[j].action
      BY <1>7, <1>8, <2>1
    <3>2. Key(segments[i]) = Key(segments[j])
      BY <1>8, <3>1 DEF Key, Alike
    <3>3. QED
      BY <1>3, <3>2
  <2>2. CASE segments[i] = Branch(f) /\ segments[j] # Branch(g)
    <3>1. g \in ToSet(topUps)
      BY <1>8, <2>2
    <3>2. f \notin ToSet(execution)
      BY <1>2, <1>8, <3>1
    <3>3. segments[i] = TopUp(f, loan.receiver)
      BY <1>8, <3>2
    <3>4. QED
      BY <2>2, <3>3 DEF Branch, TopUp, Segment
  <2>3. CASE segments[i] # Branch(f) /\ segments[j] = Branch(g)
    <3>1. f \in ToSet(topUps)
      BY <1>8, <2>3
    <3>2. g \notin ToSet(execution)
      BY <1>2, <1>8, <3>1
    <3>3. segments[j] = TopUp(g, loan.receiver)
      BY <1>8, <3>2
    <3>4. QED
      BY <2>3, <3>3 DEF Branch, TopUp, Segment
  <2>4. QED
    BY <2>1, <2>2, <2>3
<1> HIDE DEF From
<1>9. ASSUME NEW s \in Swaps(lane)
      PROVE  LET taken == {n \in DOMAIN segments :
                             Moved(segments[n]) /\ Alike(segments[n]) = Alike(s)}
                 made == {n \in DOMAIN shown.flows :
                            LET f == shown.flows[n]
                            IN <<f.source, f.target, f.asset, Compact(f.amount)>> = Alike(s)}
             IN Cardinality(taken) <= Cardinality(made)
  <2> DEFINE taken == {n \in DOMAIN segments :
                         Moved(segments[n]) /\ Alike(segments[n]) = Alike(s)}
             made == {n \in DOMAIN shown.flows :
                        LET f == shown.flows[n]
                        IN <<f.source, f.target, f.asset, Compact(f.amount)>> = Alike(s)}
             Shows(n, i) == \E f : From(segments[n], f) /\ SameTransfer(f, shown.flows[i])
             flow == [n \in taken |-> CHOOSE i \in made : Shows(n, i)]
  <2>1. ASSUME NEW n \in taken PROVE \E i \in made : Shows(n, i)
    <3>1. segments[n] \in ToSet(segments) /\ Moved(segments[n]) /\ Alike(segments[n]) = Alike(s)
      BY <1>5
    <3>2. PICK f : From(segments[n], f)
      BY <1>6, <3>1
    <3>3. /\ f \in ToSet(flows)
          /\ Alike(s) = <<f.source, f.target, f.asset, Compact(f.amount)>>
      BY <1>7, <3>1, <3>2
    <3>4. PICK i \in DOMAIN shown.flows : SameTransfer(f, shown.flows[i])
      BY <3>3 DEF FlowOf
    <3>5. i \in made
      BY <3>3, <3>4 DEF SameTransfer
    <3>6. QED
      BY <3>2, <3>4, <3>5
  <2>2. taken \subseteq 1 .. N /\ \A n \in taken : Alike(segments[n]) = Alike(s)
    BY <1>5
  <2>3. IsFiniteSet(made)
    BY FS_Subset
  <2> HIDE DEF taken, made, Shows
  <2>4. flow \in [taken -> made] /\ \A n \in taken : Shows(n, flow[n])
    BY <2>1
  <2> HIDE DEF flow
  <2>5. ASSUME NEW m \in taken, NEW n \in taken, flow[m] = flow[n] PROVE m = n
    <3>1. PICK f : From(segments[m], f) /\ SameTransfer(f, shown.flows[flow[m]])
      BY <2>4 DEF Shows
    <3>2. PICK g : From(segments[n], g) /\ SameTransfer(g, shown.flows[flow[n]])
      BY <2>4 DEF Shows
    <3>3. f.frame = g.frame /\ f.action = g.action
      BY <2>5, <3>1, <3>2 DEF SameTransfer
    <3>4. m \in 1 .. N /\ n \in 1 .. N /\ Alike(segments[m]) = Alike(segments[n])
      BY <2>2
    <3>5. QED
      BY <1>8, <3>1, <3>2, <3>3, <3>4
  <2>6. Cardinality(taken) <= Cardinality(made)
    BY <2>3, <2>4, <2>5, NoMoreThan
  <2>7. QED
    BY <2>6 DEF taken, made
<1>10. DrawnOnce(lane, shown.flows)
  BY <1>9 DEF DrawnOnce, Alike
<1>11. QED
  BY <1>1, <1>10 DEF lane

(* A trace summary: of a call trace, or one without flows.                 *)
Summarised(shown) ==
  \/ \E trace : /\ IsTrace(trace)
                /\ shown.frames = Flatten(trace) /\ shown.flows = AssetFlows(shown.frames)
  \/ shown.flows = << >>

LEMMA NoFlowsSorted ==
  ASSUME NEW shown, shown.flows = << >>
  PROVE  SortedFlows(shown) = << >>
<1> DEFINE none == {}
           withOrder(flow) == [frame |-> flow.frame, action |-> flow.action,
                               asset |-> flow.asset, source |-> flow.source,
                               target |-> flow.target, amount |-> flow.amount,
                               order |-> FrameOrder(FrameNamed(shown, flow.frame))]
           flows == [n \in DOMAIN shown.flows |-> withOrder(shown.flows[n])]
           sorted == InTraceOrder(<< >>)
<1>1. flows = << >>
  <2>1. DOMAIN shown.flows = 1 .. 0
    OBVIOUS
  <2>2. flows \in [1 .. 0 -> {withOrder(shown.flows[n]) : n \in 1 .. 0}]
    BY <2>1
  <2> HIDE DEF flows
  <2>3. QED
    BY <2>2
<1>2. SortedFlows(shown) = InTraceOrder(flows)
  BY DEF SortedFlows, FrameNamed
<1> HIDE DEF flows
<1>3. sorted \in Seq({})
  <2>1. << >> \in Seq(none) /\ \A f \in none : Placed(f)
    BY NoSegment
  <2> HIDE DEF none
  <2>2. sorted \in Seq(none)
    BY <2>1, TraceOrderSorts
  <2>3. QED
    BY <2>2 DEF none
<1> HIDE DEF sorted
<1>4. sorted = << >>
  BY <1>3
<1>5. QED
  BY <1>1, <1>2, <1>4 DEF sorted

LEMMA NothingMeaningful ==
  ASSUME NEW shown, shown.flows = << >>
  PROVE  MeaningfulFlows(shown) = << >>
<1>1. ASSUME NEW S PROVE Keep(<< >>, S) = << >>
  <2> DEFINE kept == Keep(<< >>, S)
  <2>1. << >> \in Seq({})
    BY NoSegment
  <2>2. kept \in Seq({})
    BY <2>1, KeepMembers
  <2> HIDE DEF kept
  <2>3. kept = << >>
    BY <2>2
  <2>4. QED
    BY <2>3 DEF kept
<1>2. QED
  BY <1>1, NoFlowsSorted DEF MeaningfulFlows

LEMMA FlowsCounted ==
  ASSUME NEW shown, Summarised(shown)
  PROVE  IsFiniteSet(DOMAIN shown.flows)
<1>1. CASE shown.flows = << >>
  <2>1. DOMAIN shown.flows = {}
    BY <1>1
  <2>2. QED
    BY <2>1, FS_EmptySet
<1>2. CASE \E trace : /\ IsTrace(trace) /\ shown.frames = Flatten(trace)
                      /\ shown.flows = AssetFlows(shown.frames)
  <2>1. Len(shown.flows) \in Nat /\ DOMAIN shown.flows = 1 .. Len(shown.flows)
    BY <1>2, FlowsOfFrames
  <2>2. QED
    BY <2>1, FS_Interval
<1>3. QED
  BY <1>1, <1>2 DEF Summarised

(* The lane of a leg, one or none.                                         *)
Traced(shown) == shown.status = "available" /\ MeaningfulFlows(shown) # << >>

TracedLane(shown, loan, leg, n, sender) ==
  IF Traced(shown) THEN Lane(FlowsOf(MeaningfulFlows(shown), shown.evidence[n]), loan, leg, sender)
  ELSE << >>

LegLane(shown, loan, leg, n, sender) ==
  OrElse(TracedLane(shown, loan, leg, n, sender), FallbackLane(loan, leg))

LEMMA LegLaneIsDrawn ==
  ASSUME NEW shown, Summarised(shown), NEW loan, NEW leg, NEW n, NEW sender
  PROVE  \E flows : /\ flows \in Seq(ToSet(flows)) /\ \A f \in ToSet(flows) : FlowOf(f, shown)
                    /\ IsDrawn(LegLane(shown, loan, leg, n, sender), flows, loan, leg)
<1> DEFINE traced == TracedLane(shown, loan, leg, n, sender)
           flows == FlowsOf(MeaningfulFlows(shown), shown.evidence[n])
<1>1. CASE traced = << >>
  <2>1. LegLane(shown, loan, leg, n, sender) = FallbackLane(loan, leg)
    BY <1>1 DEF LegLane, OrElse
  <2>2. << >> \in Seq(ToSet(<< >>)) /\ \A f \in ToSet(<< >>) : FlowOf(f, shown)
    BY NoSegment
  <2>3. QED
    BY <2>1, <2>2, FallbackSelects
<1>2. CASE traced # << >>
  <2>1. Traced(shown) /\ traced = Lane(flows, loan, leg, sender)
    BY <1>2 DEF TracedLane
  <2>2. LegLane(shown, loan, leg, n, sender) = traced
    BY <1>2 DEF LegLane, OrElse
  <2>3. PICK trace : /\ IsTrace(trace) /\ shown.frames = Flatten(trace)
                     /\ shown.flows = AssetFlows(shown.frames)
    BY <2>1, NothingMeaningful DEF Traced, Summarised
  <2>4. flows \in Seq(ToSet(flows)) /\ \A f \in ToSet(flows) : FlowOf(f, shown)
    BY <2>3, FlowsForLane
  <2> HIDE DEF flows, traced
  <2>5. IsDrawn(Lane(flows, loan, leg, sender), flows, loan, leg)
    BY <2>4, LaneSelects DEF FlowOf
  <2>6. QED
    BY <2>1, <2>2, <2>4, <2>5
<1>3. QED
  BY <1>1, <1>2

LEMMA OneOrNone ==
  ASSUME NEW flows, NEW loan, NEW leg, NEW drawn, IsDrawn(drawn, flows, loan, leg)
  PROVE  drawn = << >> \/ drawn = <<drawn[1]>>
BY DEF IsDrawn, LaneOf

-------------------------------------------------------------------------------
(* The legs and lanes of a graph.                                          *)

LoansInOrder(loans) ==
  /\ loans \in Seq(ToSet(loans))
  /\ \A n \in 1 .. Len(loans) : loans[n].legs \in Seq(ToSet(loans[n].legs))

LEMMA LegsNumbered ==
  ASSUME NEW loans, LoansInOrder(loans)
  PROVE  LET numbered == LegsOf(loans)
         IN /\ numbered \in Seq(ToSet(numbered))
            /\ \A l \in ToSet(numbered) : /\ l.loan \in 1 .. Len(loans)
                                      /\ l.leg \in ToSet(loans[l.loan].legs)
<1> DEFINE N == Len(loans)
           of(n) == {[loan |-> n, leg |-> leg] : leg \in ToSet(loans[n].legs)}
           L == UNION {of(n) : n \in 1 .. N}
           chunk(n) == [k \in DOMAIN loans[n].legs |-> [loan |-> n, leg |-> loans[n].legs[k]]]
           chunks == [n \in DOMAIN loans |-> chunk(n)]
<1>1. N \in Nat /\ DOMAIN loans = 1 .. N
  BY DEF LoansInOrder
<1>2. ASSUME NEW n \in 1 .. N PROVE chunk(n) \in Seq(L)
  <2> DEFINE numbered == loans[n].legs
  <2>1. numbered \in Seq(ToSet(numbered))
    BY DEF LoansInOrder
  <2>2. \A k \in 1 .. Len(numbered) : numbered[k] \in ToSet(numbered)
    BY <2>1, ToSetIs
  <2>3. \A k \in 1 .. Len(numbered) : [loan |-> n, leg |-> numbered[k]] \in L
    <3>1. \A k \in 1 .. Len(numbered) : [loan |-> n, leg |-> numbered[k]] \in of(n)
      BY <2>2
    <3> HIDE DEF of
    <3>2. of(n) \subseteq L
      OBVIOUS
    <3>3. QED
      BY <3>1, <3>2
  <2> HIDE DEF L
  <2>4. DOMAIN numbered = 1 .. Len(numbered) /\ Len(numbered) \in Nat
    BY <2>1
  <2> HIDE DEF numbered
  <2>5. [k \in DOMAIN numbered |-> [loan |-> n, leg |-> numbered[k]]] \in Seq(L)
    BY <2>3, <2>4
  <2>6. QED
    BY <2>5 DEF numbered
<1>3. LegsOf(loans) = FlattenSeq(chunks)
  BY DEF LegsOf
<1>4. \A l \in L : l.loan \in 1 .. N /\ l.leg \in ToSet(loans[l.loan].legs)
  OBVIOUS
<1> HIDE DEF of, L, chunk, N
<1>5. chunks \in Seq(Seq(L))
  BY <1>1, <1>2
<1> HIDE DEF chunks
<1>6. LegsOf(loans) \in Seq(L)
  BY <1>3, <1>5, Flattened
<1> DEFINE numbered == LegsOf(loans)
<1> HIDE DEF numbered
<1>7. numbered \in Seq(L)
  BY <1>6 DEF numbered
<1>8. numbered \in Seq(ToSet(numbered)) /\ ToSet(numbered) \subseteq L
  BY <1>7, InOwnMembers, ToSetIs
<1>9. QED
  BY <1>4, <1>8 DEF numbered, N

(* The lane of a leg, and the lanes of the legs in their order.            *)
LaneFor(l, shown, loans, sender) ==
  LegLane(shown, loans[l.loan], l.leg, l.loan, sender)

LanesDrawn(shown, loans, sender) ==
  [n \in 1 .. Len(LegsOf(loans)) |-> LaneFor(LegsOf(loans)[n], shown, loans, sender)]

FirstLanes(shown, loans, sender) ==
  {LaneFor(l, shown, loans, sender)[1] : l \in ToSet(LegsOf(loans))}

LEMMA GraphLanes ==
  ASSUME NEW shown, Summarised(shown), NEW loans, LoansInOrder(loans), NEW sender
  PROVE  LET numbered == LegsOf(loans)
             chunks == LanesDrawn(shown, loans, sender)
             C == FirstLanes(shown, loans, sender)
         IN /\ Graph(shown, loans, sender).lanes = FlattenSeq(chunks)
            /\ chunks \in Seq(Seq(C)) /\ Len(chunks) = Len(numbered)
            /\ \A n \in 1 .. Len(numbered) :
                 /\ chunks[n] = LaneFor(numbered[n], shown, loans, sender)
                 /\ \/ chunks[n] = << >>
                    \/ chunks[n] = <<LaneFor(numbered[n], shown, loans, sender)[1]>>
<1> DEFINE numbered == LegsOf(loans)
           laneOf(l) == LaneFor(l, shown, loans, sender)
           chunks == [n \in 1 .. Len(numbered) |-> laneOf(numbered[n])]
           C == {laneOf(l)[1] : l \in ToSet(numbered)}
           lanes == Graph(shown, loans, sender).lanes
<1>1. numbered \in Seq(ToSet(numbered))
  BY LegsNumbered
<1>2. DOMAIN numbered = 1 .. Len(numbered) /\ Len(numbered) \in Nat
  BY <1>1
<1>3. Graph(shown, loans, sender).lanes = FlattenSeq([n \in DOMAIN numbered |-> laneOf(numbered[n])])
  BY DEF Graph, GraphOf, LaneFor, LegLane, TracedLane, Traced
<1> HIDE DEF numbered, laneOf
<1>4. \A n \in 1 .. Len(numbered) : numbered[n] \in ToSet(numbered)
  BY <1>1, ToSetIs
<1>5. \A l : laneOf(l) = << >> \/ laneOf(l) = <<laneOf(l)[1]>>
  <2> SUFFICES ASSUME NEW l PROVE laneOf(l) = << >> \/ laneOf(l) = <<laneOf(l)[1]>>
    OBVIOUS
  <2>1. PICK flows : IsDrawn(laneOf(l), flows, loans[l.loan], l.leg)
    BY LegLaneIsDrawn DEF laneOf, LaneFor
  <2>2. QED
    BY <2>1, OneOrNone
<1>6. \A n \in 1 .. Len(numbered) : laneOf(numbered[n]) \in Seq(C)
  <2> SUFFICES ASSUME NEW n \in 1 .. Len(numbered) PROVE laneOf(numbered[n]) \in Seq(C)
    OBVIOUS
  <2> DEFINE x == laneOf(numbered[n])[1]
  <2>1. x \in C
    BY <1>4
  <2> HIDE DEF C, x
  <2>2. <<x>> \in Seq(C) /\ << >> \in Seq(C)
    BY <2>1
  <2>3. QED
    BY <1>5, <2>2 DEF x
<1> HIDE DEF C
<1>7. chunks \in Seq(Seq(C)) /\ Len(chunks) = Len(numbered)
  BY <1>2, <1>6
<1>8. /\ lanes = FlattenSeq(chunks)
      /\ \A n \in 1 .. Len(numbered) :
           /\ chunks[n] = laneOf(numbered[n])
           /\ chunks[n] = << >> \/ chunks[n] = <<laneOf(numbered[n])[1]>>
  BY <1>2, <1>3, <1>5
<1>9. chunks = LanesDrawn(shown, loans, sender) /\ C = FirstLanes(shown, loans, sender)
  BY DEF LanesDrawn, FirstLanes, C, numbered, laneOf
<1> HIDE DEF chunks
<1>10. QED
  BY <1>7, <1>8, <1>9 DEF numbered, laneOf, lanes

LEMMA LanesAreDrawn ==
  ASSUME NEW shown, Summarised(shown), NEW loans, LoansInOrder(loans), NEW sender,
         NEW lane \in ToSet(Graph(shown, loans, sender).lanes)
  PROVE  \E flows, loan, leg, drawn :
           /\ flows \in Seq(ToSet(flows)) /\ \A f \in ToSet(flows) : FlowOf(f, shown)
           /\ IsDrawn(drawn, flows, loan, leg)
           /\ drawn # << >> /\ lane = drawn[1]
<1> DEFINE numbered == LegsOf(loans)
           laneOf(l) == LaneFor(l, shown, loans, sender)
           chunks == LanesDrawn(shown, loans, sender)
           C == FirstLanes(shown, loans, sender)
           lanes == Graph(shown, loans, sender).lanes
<1>1. /\ lanes = FlattenSeq(chunks)
      /\ chunks \in Seq(Seq(C)) /\ Len(chunks) = Len(numbered)
      /\ \A n \in 1 .. Len(numbered) :
           chunks[n] = << >> \/ chunks[n] = <<laneOf(numbered[n])[1]>>
  BY GraphLanes
<1>2. \A n \in 1 .. Len(numbered) : chunks[n] = laneOf(numbered[n])
  BY GraphLanes
<1> HIDE DEF chunks, C, laneOf, numbered
<1>3. ToSet(lanes) = UNION {ToSet(chunks[n]) : n \in 1 .. Len(chunks)}
  BY <1>1, Flattened
<1>4. PICK n \in 1 .. Len(numbered) : lane \in ToSet(chunks[n])
  BY <1>1, <1>3
<1> DEFINE drawn == laneOf(numbered[n])
<1>5. drawn # << >> /\ lane = drawn[1]
  <2>1. CASE chunks[n] = << >>
    BY <1>4, <2>1, NoSegment
  <2>2. CASE chunks[n] = <<drawn[1]>>
    <3> DEFINE x == drawn[1]
    <3> HIDE DEF x, drawn
    <3>1. lane = x
      BY <1>4, <2>2, OneSegment DEF x
    <3>2. <<x>> # << >>
      OBVIOUS
    <3>3. QED
      BY <1>2, <2>2, <3>1, <3>2 DEF x, drawn
  <2>3. QED
    BY <1>1, <2>1, <2>2
<1>6. PICK flows : /\ flows \in Seq(ToSet(flows)) /\ \A f \in ToSet(flows) : FlowOf(f, shown)
                   /\ IsDrawn(drawn, flows, loans[numbered[n].loan], numbered[n].leg)
  BY LegLaneIsDrawn DEF laneOf, LaneFor
<1>7. QED
  BY <1>5, <1>6

(* What a page shows is made of a trace, or of none, and of the legs that  *)
(* the request has read.                                                   *)
Built ==
  Shown => /\ Summarised(page.trace)
           /\ page.graph = Graph(page.trace, Details(page.read), tx.sender)

LEMMA AnswersSummarised ==
  ASSUME tx \in Txs, NEW loans, NEW answer
  PROVE  Summarised(TraceSummary(loans, answer))
<1>1. CASE answer \in {"whole", "null"}
  <2>1. IsTrace(TraceIn(answer))
    BY TracesAreTrees
  <2>2. TraceSummary(loans, answer) = SummaryOf(TraceIn(answer), loans)
    BY <1>1 DEF TraceSummary
  <2> DEFINE shown == SummaryOf(TraceIn(answer), loans)
  <2>3. shown.frames = Flatten(TraceIn(answer)) /\ shown.flows = AssetFlows(shown.frames)
    BY DEF SummaryOf
  <2> HIDE DEF shown
  <2>4. Summarised(shown)
    BY <2>1, <2>3 DEF Summarised
  <2>5. QED
    BY <2>2, <2>4 DEF shown
<1>2. CASE answer \notin {"whole", "null"}
  BY <1>2 DEF TraceSummary, NoSummary, Summarised
<1>3. QED
  BY <1>1, <1>2

LEMMA BuiltHolds ==
  ASSUME IInv, Built, [Next]_vars
  PROVE  Built'
<1>1. TypeOK /\ Reading /\ tx \in Txs
  BY DEF IInv, TypeOK
<1>2. tx' = tx /\ Places' = Places
  BY <1>1, ScanLeaves, QueryLeaves, StutterLeaves DEF Next
<1> DEFINE made(p) == /\ Summarised(p.trace)
                      /\ p.graph = Graph(p.trace, Details(p.read), tx.sender)
<1>3. Built <=> (Shown => made(page))
  BY DEF Built
<1>4. Built' <=> (Shown' => made(page'))
  <2>1. Details(page.read)' = Details(page'.read)
    BY <1>2 DEF Details, Listed, LegsRead, LegsAs
  <2>2. QED
    BY <1>2, <2>1 DEF Built
<1>5. CASE Scan \/ UNCHANGED vars
  <2>1. query' = query /\ page' = page
    BY <1>1, <1>5, ScanLeaves, StutterLeaves
  <2>2. QED
    BY <1>3, <1>4, <2>1 DEF Shown
<1>6. CASE Query
  <2>1. CASE query'.pc # "shown"
    BY <1>4, <2>1 DEF Shown
  <2>2. ASSUME NEW answer, page' = ResponseTo(query, Details(query), answer)
        PROVE  Built'
    <3> DEFINE loans == Details(query)
    <3>1. /\ page'.trace = TraceSummary(loans, answer)
          /\ page'.read = query
          /\ page'.graph = Graph(page'.trace, loans, tx.sender)
      BY <2>2 DEF ResponseTo, Response
    <3>2. Summarised(TraceSummary(loans, answer))
      BY <1>1, AnswersSummarised
    <3>3. made(page')
      <4> HIDE DEF loans
      <4>1. Details(page'.read) = loans
        BY <3>1 DEF loans
      <4>2. QED
        BY <3>1, <3>2, <4>1
    <3>4. QED
      BY <1>4, <3>3
  <2>3. query'.pc # "shown" \/ ShowsPage
    BY <1>1, <1>6, QueryMoves DEF Opens, ListsThem, ReadsLegs, AsksNode, Finishes, Closed
  <2>4. QED
    BY <2>1, <2>2, <2>3 DEF ShowsPage
<1>7. QED
  BY <1>5, <1>6 DEF Next

LEMMA PagesAreBuilt == Spec => []Built
<1>1. Init => Built
  BY DEF Init, Closed, Built, Shown
<1>2. IInv /\ Built /\ [Next]_vars => Built'
  BY BuiltHolds
<1>3. QED
  BY <1>1, <1>2, InvariantHolds, PTL DEF Spec

LEMMA BuiltInCallOrder == Built => FlowsInCallOrder
<1> SUFFICES ASSUME Built, Shown PROVE InCallOrder(page.trace)
  BY DEF FlowsInCallOrder, InCallOrder
<1>1. Summarised(page.trace)
  BY DEF Built
<1> DEFINE shown == page.trace
<1> HIDE DEF shown
<1>2. CASE shown.flows = << >>
  <2>1. DOMAIN SortedFlows(shown) = {}
    BY <1>2, NoFlowsSorted
  <2>2. InCallOrder(shown)
    BY <2>1 DEF InCallOrder
  <2>3. QED
    BY <2>2 DEF shown
<1>3. CASE \E trace : /\ IsTrace(trace)
                      /\ shown.frames = Flatten(trace) /\ shown.flows = AssetFlows(shown.frames)
  <2>1. InCallOrder(shown)
    BY <1>3, TraceInCallOrder
  <2>2. QED
    BY <2>1 DEF shown
<1>4. QED
  BY <1>1, <1>2, <1>3 DEF Summarised, shown

(* For every call trace and whatever the node answers, the flows of a page *)
(* are in the order of their calls where the calls are less than ten deep: *)
(* two flows never have one frame, the place of a frame orders frames by   *)
(* their call index there, and where places are equal the ids decide, so   *)
(* that the stable sort has one outcome (sortFundFlowsByTrace).            *)
THEOREM FlowsAlwaysInCallOrder == Spec => []FlowsInCallOrder
BY PagesAreBuilt, BuiltInCallOrder, PTL

-------------------------------------------------------------------------------
(* What the tables give a page.                                            *)

LEMMA NumberedIsSeq ==
  ASSUME NEW T, NEW N \in Nat, NEW f \in [1 .. N -> T]
  PROVE  f \in Seq(T)
OBVIOUS

LEMMA LegsAsLegs ==
  ASSUME NEW loan, IsLoan(loan), NEW form \in {"extracted", "verified"}
  PROVE  LET given == LegsAs(loan, form)
         IN given \in Seq(ToSet(given)) /\ \A leg \in ToSet(given) : IsLeg(leg)
<1> DEFINE S == loan.legs
           N == Len(S)
<1>1. S \in Seq(ToSet(S)) /\ \A leg \in ToSet(S) : IsLeg(leg)
  BY DEF IsLoan
<1>2. DOMAIN S = 1 .. N /\ N \in Nat /\ \A n \in 1 .. N : S[n] \in ToSet(S)
  BY <1>1, ToSetIs
<1> HIDE DEF S, N
<1>3. CASE form = "verified"
  <2>1. LegsAs(loan, form) = S
    BY <1>3 DEF LegsAs, S
  <2>2. QED
    BY <1>1, <2>1
<1>4. CASE form # "verified"
  <2> DEFINE as(n) == [S[n] EXCEPT !.premium = << >>, !.fee = IF loan.grouped THEN @ ELSE << >>]
             made == [n \in DOMAIN S |-> as(n)]
             T == {as(n) : n \in 1 .. N}
  <2>1. LegsAs(loan, form) = made
    BY <1>4 DEF LegsAs, S
  <2>2. \A leg \in T : IsLeg(leg)
    <3> SUFFICES ASSUME NEW n \in 1 .. N PROVE IsLeg(as(n))
      OBVIOUS
    <3>1. IsLeg(S[n])
      BY <1>1, <1>2
    <3>2. << >> \in Decimals
      BY DEF Decimals
    <3>3. QED
      BY <3>1, <3>2 DEF IsLeg
  <2>3. made \in Seq(T)
    <3>1. \A n \in 1 .. N : as(n) \in T
      OBVIOUS
    <3>2. made \in [1 .. N -> T]
      BY <1>2, <3>1
    <3>3. QED
      BY <1>2, <3>2, NumberedIsSeq
  <2> HIDE DEF made, T
  <2>4. made \in Seq(ToSet(made)) /\ ToSet(made) \subseteq T
    BY <2>3, InOwnMembers, ToSetIs
  <2>5. QED
    BY <2>1, <2>2, <2>4
<1>5. QED
  BY <1>3, <1>4

(* A loan that a row may name.                                             *)
LEMMA LoansAreLoans ==
  ASSUME tx \in Txs, NEW n \in Loans
  PROVE  IsLoan(tx.loans[n])
<1>1. tx.loans \in Seq(ToSet(tx.loans)) /\ \A l \in ToSet(tx.loans) : IsLoan(l)
  BY PageAssumption
<1>2. tx.loans[n] \in ToSet(tx.loans)
  BY <1>1, ToSetIs DEF Loans
<1>3. QED
  BY <1>1, <1>2

(* The legs of an interaction may be there or not, and those of another    *)
(* loan.                                                                   *)
LEMMA LegsReadAreLegs ==
  ASSUME tx \in Txs, NEW found \in StoredLegs \cup {None}
  PROVE  LET given == LegsRead(found)
         IN given \in Seq(ToSet(given)) /\ \A leg \in ToSet(given) : IsLeg(leg)
<1>1. CASE found = None
  <2>1. LegsRead(found) = << >>
    BY <1>1 DEF LegsRead
  <2>2. << >> \in Seq(ToSet(<< >>)) /\ ToSet(<< >>) = {}
    BY NoSegment
  <2>3. QED
    BY <2>1, <2>2
<1>2. CASE found # None
  <2> DEFINE loan == tx.loans[found.loan]
  <2>1. found.loan \in Loans /\ found.form \in {"extracted", "verified"}
    BY <1>2 DEF StoredLegs
  <2>2. IsLoan(loan)
    BY <2>1, LoansAreLoans
  <2>3. LegsRead(found) = LegsAs(loan, found.form)
    BY <1>2 DEF LegsRead
  <2> HIDE DEF loan
  <2>4. QED
    BY <2>1, <2>2, <2>3, LegsAsLegs
<1>3. QED
  BY <1>1, <1>2

LEMMA DetailsInOrder ==
  ASSUME tx \in Txs, NEW read,
         read.rows \in [Places -> Rows \cup {None}],
         read.legs \in [Places -> StoredLegs \cup {None}]
  PROVE  LET loans == Details(read)
         IN /\ LoansInOrder(loans)
            /\ \A n \in 1 .. Len(loans) : \A leg \in ToSet(loans[n].legs) : IsLeg(leg)
<1> DEFINE places == [o \in Places |-> o]
           listed == Taken(places, Listed(read.rows))
           N == Len(listed)
           loan(n) == [tx.loans[read.rows[listed[n]].loan]
                         EXCEPT !.legs = LegsRead(read.legs[listed[n]])]
           loans == [n \in DOMAIN listed |-> loan(n)]
           T == {loan(n) : n \in 1 .. N}
<1>1. /\ listed \in Seq(Places)
      /\ \A n \in 1 .. N : listed[n] \in Listed(read.rows)
  <2>1. places \in Seq(Places) /\ \A o \in 1 .. Len(places) : places[o] = o
    BY LoansNumbered
  <2> HIDE DEF places
  <2>2. listed \in Seq(Places) /\ \E at : TakenAt(places, Listed(read.rows), listed, at)
    BY <2>1, TakenPlaces
  <2> HIDE DEF listed
  <2>3. QED
    BY <2>1, <2>2 DEF TakenAt
<1>2. Details(read) = loans
  BY DEF Details
<1> HIDE DEF places, listed
<1>3. N \in Nat /\ DOMAIN listed = 1 .. N
  BY <1>1
<1>4. ASSUME NEW n \in 1 .. N
      PROVE  /\ IsLoan(tx.loans[read.rows[listed[n]].loan])
             /\ read.legs[listed[n]] \in StoredLegs \cup {None}
  <2>1. listed[n] \in Places /\ read.rows[listed[n]] # None
    BY <1>1 DEF Listed
  <2>2. read.rows[listed[n]] \in Rows
    BY <2>1
  <2>3. read.rows[listed[n]].loan \in Loans
    BY <2>2 DEF Rows
  <2>4. QED
    BY <2>1, <2>3, LoansAreLoans
<1>5. ASSUME NEW n \in 1 .. N
      PROVE  /\ loan(n).legs \in Seq(ToSet(loan(n).legs))
             /\ \A leg \in ToSet(loan(n).legs) : IsLeg(leg)
  <2>1. loan(n).legs = LegsRead(read.legs[listed[n]])
    BY <1>4 DEF IsLoan
  <2>2. QED
    BY <1>4, <2>1, LegsReadAreLegs
<1>6. loans \in Seq(T) /\ Len(loans) = N /\ \A n \in 1 .. N : loans[n] = loan(n)
  <2>1. \A n \in 1 .. N : loan(n) \in T
    OBVIOUS
  <2> HIDE DEF loan, T
  <2>2. QED
    BY <1>3, <2>1
<1> HIDE DEF loan, T, loans
<1>7. loans \in Seq(ToSet(loans))
  BY <1>6, InOwnMembers
<1>8. QED
  BY <1>2, <1>5, <1>6, <1>7 DEF LoansInOrder

LEMMA PageReads ==
  ASSUME IInv, Shown
  PROVE  /\ tx \in Txs
         /\ page.read.rows \in [Places -> Rows \cup {None}]
         /\ page.read.legs \in [Places -> StoredLegs \cup {None}]
BY DEF IInv, TypeOK, Reading, PageIsRead, Shown, Listing, Active

LEMMA PageLanes ==
  ASSUME IInv, Built, Shown, NEW lane \in ToSet(page.graph.lanes)
  PROVE  \E flows, loan, leg, drawn :
           /\ flows \in Seq(ToSet(flows)) /\ \A f \in ToSet(flows) : FlowOf(f, page.trace)
           /\ IsDrawn(drawn, flows, loan, leg)
           /\ drawn # << >> /\ lane = drawn[1]
<1> DEFINE shown == page.trace  loans == Details(page.read)
<1>1. Summarised(shown) /\ page.graph = Graph(shown, loans, tx.sender)
  BY DEF Built
<1>2. LoansInOrder(loans)
  BY PageReads, DetailsInOrder
<1> HIDE DEF shown, loans
<1>3. lane \in ToSet(Graph(shown, loans, tx.sender).lanes)
  BY <1>1
<1>4. \E flows, loan, leg, drawn :
        /\ flows \in Seq(ToSet(flows)) /\ \A f \in ToSet(flows) : FlowOf(f, shown)
        /\ IsDrawn(drawn, flows, loan, leg)
        /\ drawn # << >> /\ lane = drawn[1]
  BY <1>1, <1>2, <1>3, LanesAreDrawn
<1>5. QED
  BY <1>4 DEF shown

LEMMA BuiltReached == IInv /\ Built => ExecutionReached
<1> SUFFICES ASSUME IInv, Built, Shown, NEW lane \in ToSet(page.graph.lanes)
             PROVE  BranchesReached(lane)
  BY DEF ExecutionReached, BranchesReached
<1>1. PICK flows, loan, leg, drawn :
        /\ flows \in Seq(ToSet(flows)) /\ \A f \in ToSet(flows) : FlowOf(f, page.trace)
        /\ IsDrawn(drawn, flows, loan, leg)
        /\ drawn # << >> /\ lane = drawn[1]
  BY PageLanes
<1> DEFINE shown == page.trace
<1> HIDE DEF shown
<1>2. \A f \in ToSet(flows) : FlowOf(f, shown)
  BY <1>1 DEF shown
<1>3. BranchesReached(drawn[1])
  BY <1>1, <1>2, DrawnBranches
<1>4. QED
  BY <1>1, <1>3

LEMMA BuiltDrawnOnce == IInv /\ Built => TransfersDrawnOnce
<1> SUFFICES ASSUME IInv, Built, Shown, NEW lane \in ToSet(page.graph.lanes)
             PROVE  DrawnOnce(lane, page.trace.flows)
  BY DEF TransfersDrawnOnce, DrawnOnce
<1>1. PICK flows, loan, leg, drawn :
        /\ flows \in Seq(ToSet(flows)) /\ \A f \in ToSet(flows) : FlowOf(f, page.trace)
        /\ IsDrawn(drawn, flows, loan, leg)
        /\ drawn # << >> /\ lane = drawn[1]
  BY PageLanes
<1> DEFINE shown == page.trace
<1>2. Summarised(shown)
  BY DEF Built
<1> HIDE DEF shown
<1>3. \A f \in ToSet(flows) : FlowOf(f, shown)
  BY <1>1 DEF shown
<1>4. IsFiniteSet(DOMAIN shown.flows)
  BY <1>2, FlowsCounted
<1>5. DrawnOnce(drawn[1], shown.flows)
  BY <1>1, <1>3, <1>4, DrawnTransfers
<1>6. QED
  BY <1>1, <1>5 DEF shown

(* For every call trace, every interaction of it and every order in which  *)
(* the search meets the transfers, the execution branches of a lane start  *)
(* at the receiver or where another of them arrived, and none leads from   *)
(* the receiver to an end of the loan or of its repayment                  *)
(* (extractKeyExecutionSegments).                                          *)
THEOREM ExecutionAlwaysReached == Spec => []ExecutionReached
BY InvariantHolds, PagesAreBuilt, BuiltReached, PTL

(* For every page, what a lane shows as execution branches and top-ups are *)
(* transfers of the trace, each drawn no more often than it was made: the  *)
(* search marks the frames it has seen and the top-ups leave them out      *)
(* (seenFrameIDs, executionFrameIDs, dedupeFundFlowSegments).              *)
THEOREM TransfersAlwaysDrawnOnce == Spec => []TransfersDrawnOnce
BY InvariantHolds, PagesAreBuilt, BuiltDrawnOnce, PTL

(* The value of the first digits of an amount.                             *)
Values(v, digits) ==
  /\ v[0] = 0
  /\ \A n \in 1 .. Len(digits) : v[n] = 10 * v[n - 1] + (digits[n] - 48)
  /\ \A n \in 0 .. Len(digits) : v[n] \in Nat

LEMMA AmountIs ==
  ASSUME NEW digits \in Seq(48 .. 57)
  PROVE  \E v : Values(v, digits) /\ Amount(digits) = v[Len(digits)]
<1> DEFINE N == Len(digits)
           next(v, n) == 10 * v + (digits[n] - 48)
           step == [q \in Nat \X (1 .. N) |-> next(q[1], q[2])]
           right(f) == f = [n \in 0 .. N |-> IF n = 0 THEN 0 ELSE next(f[n - 1], n)]
           h == CHOOSE f : right(f)
<1>1. Amount(digits) = h[N]
  BY DEF Amount
<1>2. N \in Nat /\ \A n \in 1 .. N : digits[n] \in 48 .. 57
  OBVIOUS
<1> HIDE DEF N, h
<1>3. \A v \in Nat, n \in 1 .. N : next(v, n) \in Nat
  <2> SUFFICES ASSUME NEW v \in Nat, NEW n \in 1 .. N PROVE next(v, n) \in Nat
    OBVIOUS
  <2>1. digits[n] \in 48 .. 57
    BY <1>2
  <2> DEFINE d == digits[n]
  <2> HIDE DEF d
  <2>2. 10 * v + (d - 48) \in Nat
    BY <2>1 DEF d
  <2>3. QED
    BY <2>2 DEF d
<1> HIDE DEF next
<1>4. step \in [Nat \X (1 .. N) -> Nat] /\ \A v \in Nat, n \in 1 .. N : step[<<v, n>>] = next(v, n)
  BY <1>3
<1> HIDE DEF step
<1>5. PICK f : Iterates(f, N, Nat, 0, step)
  BY <1>2, <1>4, Iterated
<1>6. \A n \in 0 .. N : n # 0 => n - 1 \in 0 .. N /\ n \in 1 .. N
  BY <1>2
<1>7. right(f)
  <2>1. /\ f \in [0 .. N -> Nat] /\ f[0] = 0
        /\ \A n \in 1 .. N : f[n] = step[<<f[n - 1], n>>]
    BY <1>5 DEF Iterates
  <2>2. \A n \in 0 .. N : n # 0 => f[n] = next(f[n - 1], n)
    BY <1>4, <1>6, <2>1
  <2>3. QED
    BY <2>1, <2>2
<1>8. right(h)
  <2> HIDE DEF right
  <2>1. QED
    BY <1>7 DEF h
<1>9. h[0] = 0 /\ \A n \in 1 .. N : h[n] = next(h[n - 1], n)
  <2>1. 0 \in 0 .. N /\ \A n \in 1 .. N : n \in 0 .. N /\ n # 0
    BY <1>2
  <2>2. QED
    BY <1>8, <2>1
<1>10. \A n \in 0 .. N : h[n] \in Nat
  <2> DEFINE V == Nat
  <2>1. \A n \in 1 .. N : h[n - 1] \in V => h[n] \in V
    BY <1>3, <1>9
  <2>2. h[0] \in V
    BY <1>9
  <2> HIDE DEF V
  <2>3. \A n \in 0 .. N : h[n] \in V
    BY <1>2, <2>1, <2>2, StaysIn
  <2>4. QED
    BY <2>3 DEF V
<1>11. Values(h, digits)
  BY <1>9, <1>10 DEF Values, N, next
<1>12. QED
  BY <1>1, <1>11 DEF N

LEMMA ValuesAgree ==
  ASSUME NEW digits \in Seq(48 .. 57), NEW v, Values(v, digits)
  PROVE  Amount(digits) = v[Len(digits)]
<1>1. PICK w : Values(w, digits) /\ Amount(digits) = w[Len(digits)]
  BY AmountIs
<1> DEFINE N == Len(digits)
           P == {n \in Nat : n <= N => v[n] = w[n]}
<1>2. N \in Nat
  OBVIOUS
<1>3. P \in SUBSET Nat /\ 0 \in P
  BY <1>1 DEF Values
<1>4. ASSUME NEW n \in P PROVE n + 1 \in P
  <2>1. SUFFICES ASSUME n + 1 <= N PROVE v[n + 1] = w[n + 1]
    OBVIOUS
  <2>2. n + 1 \in 1 .. N /\ (n + 1) - 1 = n /\ v[n] = w[n]
    BY <1>2, <2>1
  <2>3. QED
    BY <1>1, <2>2 DEF Values
<1>5. P = Nat
  BY <1>3, <1>4, Induction
<1>6. QED
  BY <1>1, <1>2, <1>5

(* An amount is nothing exactly when no digit of it says more.             *)
LEMMA NothingIsZero ==
  ASSUME NEW d \in Decimals
  PROVE  /\ Amount(d) \in Nat
         /\ Amount(d) = 0 <=> NormalizeAmount(d) = Zero
<1>1. d \in Seq(48 .. 57) /\ (Len(d) > 1 => d[1] # 48)
  BY DEF Decimals
<1>2. PICK v : Values(v, d) /\ Amount(d) = v[Len(d)]
  BY <1>1, AmountIs
<1> DEFINE N == Len(d)
<1>3. /\ N \in Nat /\ \A n \in 1 .. N : d[n] \in 48 .. 57
      /\ N = 0 <=> d = << >>
  BY <1>1
<1>4. Amount(d) \in Nat
  BY <1>2, <1>3 DEF Values
<1>5. CASE N = 0
  BY <1>2, <1>3, <1>5 DEF Values, NormalizeAmount
<1>6. CASE N = 1
  <2>1. v[1] = d[1] - 48 /\ d[1] \in 48 .. 57
    BY <1>2, <1>3, <1>6 DEF Values
  <2>2. d = <<d[1]>>
    BY <1>1, <1>6
  <2>3. NormalizeAmount(d) = d
    BY <1>3, <1>6 DEF NormalizeAmount
  <2>4. d = <<48>> <=> d[1] = 48
    BY <2>2
  <2>5. QED
    BY <1>2, <1>4, <1>6, <2>1, <2>3, <2>4 DEF Zero
<1>7. CASE N > 1
  <2>1. NormalizeAmount(d) # Zero
    <3>1. Len(Zero) = 1
      BY DEF Zero
    <3>2. QED
      BY <1>3, <1>7, <3>1 DEF NormalizeAmount
  <2> DEFINE Q == {n \in Nat : n + 1 <= N => v[n + 1] > 0}
  <2>2. 0 \in Q /\ Q \in SUBSET Nat
    <3>1. v[1] = d[1] - 48 /\ d[1] \in 48 .. 57 /\ d[1] # 48
      BY <1>1, <1>2, <1>3, <1>7 DEF Values
    <3>2. v[1] > 0
      BY <3>1
    <3>3. QED
      BY <3>2
  <2>3. ASSUME NEW n \in Q PROVE n + 1 \in Q
    <3>1. SUFFICES ASSUME n + 2 <= N PROVE v[n + 2] > 0
      OBVIOUS
    <3>2. v[n + 1] > 0 /\ v[n + 1] \in Nat
      BY <1>2, <1>3, <3>1 DEF Values
    <3>3. n + 2 \in 1 .. N /\ (n + 2) - 1 = n + 1
      BY <1>3, <3>1
    <3>4. v[n + 2] = 10 * v[n + 1] + (d[n + 2] - 48) /\ d[n + 2] \in 48 .. 57
      BY <1>2, <1>3, <3>3 DEF Values
    <3> DEFINE a == v[n + 1]  e == d[n + 2]
    <3> HIDE DEF a, e
    <3>5. 10 * a + (e - 48) > 0
      <4>1. a \in Nat /\ a > 0 /\ e \in 48 .. 57
        BY <3>2, <3>4 DEF a, e
      <4>2. QED
        BY ONLY <4>1
    <3>6. QED
      BY <3>4, <3>5 DEF a, e
  <2>4. Q = Nat
    BY <2>2, <2>3, Induction
  <2>5. N - 1 \in Nat /\ (N - 1) + 1 = N /\ N <= N
    BY <1>3, <1>7
  <2>6. v[N] > 0
    <3>1. N - 1 \in Q
      BY <2>4, <2>5
    <3>2. QED
      BY <2>5, <3>1
  <2>7. QED
    BY <1>2, <1>4, <2>1, <2>6
<1> HIDE DEF N
<1>8. N = 0 \/ N = 1 \/ N > 1
  BY <1>3
<1>9. QED
  BY <1>5, <1>6, <1>7, <1>8

(* The digit that is i places from the right.                              *)
Digit(s, i) == IF i < Len(s) THEN s[Len(s) - i] - 48 ELSE 0

(* What the digits say without the last k of them.                         *)
Without(v, s, k) == IF k <= Len(s) THEN v[Len(s) - k] ELSE 0

LEMMA WithoutIs ==
  ASSUME NEW s \in Seq(48 .. 57), NEW v, Values(v, s), NEW k \in Nat
  PROVE  /\ Digit(s, k) \in 0 .. 9
         /\ Without(v, s, k) \in Nat /\ Without(v, s, k + 1) \in Nat
         /\ Without(v, s, k) = 10 * Without(v, s, k + 1) + Digit(s, k)
<1> DEFINE N == Len(s)
<1>1. N \in Nat /\ \A n \in 1 .. N : s[n] \in 48 .. 57
  OBVIOUS
<1> HIDE DEF N
<1>2. CASE k < N
  <2>1. N - k \in 1 .. N /\ (N - k) - 1 = N - (k + 1) /\ N - (k + 1) \in 0 .. N
    BY <1>1, <1>2
  <2>2. /\ s[N - k] \in 48 .. 57 /\ v[N - k] \in Nat /\ v[N - (k + 1)] \in Nat
        /\ v[N - k] = 10 * v[N - (k + 1)] + (s[N - k] - 48)
    BY <1>1, <2>1 DEF Values, N
  <2>3. /\ Digit(s, k) = s[N - k] - 48 /\ Without(v, s, k) = v[N - k]
        /\ Without(v, s, k + 1) = v[N - (k + 1)]
    BY <1>1, <1>2 DEF Digit, Without, N
  <2>4. QED
    BY <2>2, <2>3
<1>3. CASE k = N
  <2>1. v[0] = 0 /\ N - k = 0
    BY <1>1, <1>3 DEF Values
  <2>2. Digit(s, k) = 0 /\ Without(v, s, k) = 0 /\ Without(v, s, k + 1) = 0
    BY <1>1, <1>3, <2>1 DEF Digit, Without, N
  <2>3. QED
    BY <2>2
<1>4. CASE k > N
  <2>1. Digit(s, k) = 0 /\ Without(v, s, k) = 0 /\ Without(v, s, k + 1) = 0
    BY <1>1, <1>4 DEF Digit, Without, N
  <2>2. QED
    BY <2>1
<1>5. QED
  BY <1>1, <1>2, <1>3, <1>4

LEMMA ColumnIs ==
  ASSUME NEW a \in 0 .. 9, NEW b \in 0 .. 9, NEW c \in 0 .. 1
  PROVE  /\ (a + b + c) \div 10 \in 0 .. 1 /\ (a + b + c) % 10 \in 0 .. 9
         /\ 10 * ((a + b + c) \div 10) + ((a + b + c) % 10) = a + b + c
<1> DEFINE n == a + b + c
<1>1. n \in Nat /\ n <= 19
  OBVIOUS
<1> HIDE DEF n
<1>2. /\ Tens(n) \in Nat /\ Unit(n) \in 48 .. 57
      /\ n = 10 * Tens(n) + (Unit(n) - 48)
  BY <1>1, TensAndUnit DEF Numeral
<1>3. n % 10 = Unit(n) - 48
  <2>1. n % 10 \in 0 .. 9
    BY <1>1
  <2>2. QED
    BY <2>1 DEF Unit
<1>4. Tens(n) \in 0 .. 1 /\ Unit(n) - 48 \in 0 .. 9 /\ 10 * Tens(n) + (Unit(n) - 48) = n
  BY <1>1, <1>2
<1>5. n \div 10 = Tens(n)
  BY DEF Tens
<1>6. QED
  BY <1>3, <1>4, <1>5 DEF n

(* The carries of an addition.                                             *)
Sums(left, right, i, c) == Digit(left, i) + Digit(right, i) + c

Longest(left, right) == Max({Len(left), Len(right)})

Carries(c, left, right) ==
  /\ c[0] = 0
  /\ \A i \in 1 .. Longest(left, right) : c[i] = Sums(left, right, i - 1, c[i - 1]) \div 10
  /\ \A i \in 0 .. Longest(left, right) : c[i] \in 0 .. 1

LEMMA LongestIs ==
  ASSUME NEW left \in Seq(48 .. 57), NEW right \in Seq(48 .. 57)
  PROVE  /\ Longest(left, right) \in Nat
         /\ Len(left) <= Longest(left, right) /\ Len(right) <= Longest(left, right)
<1> DEFINE S == {Len(left), Len(right)}
<1>1. Len(left) \in Nat /\ Len(right) \in Nat
  OBVIOUS
<1>2. \E x \in S : \A y \in S : y <= x
  <2>1. CASE Len(left) <= Len(right)
    BY <1>1, <2>1
  <2>2. CASE Len(right) <= Len(left)
    BY <1>1, <2>2
  <2>3. QED
    BY <1>1, <2>1, <2>2
<1>3. Max(S) \in S /\ \A y \in S : y <= Max(S)
  BY <1>2 DEF Max
<1>4. QED
  BY <1>1, <1>3 DEF Longest

LEMMA AddDecimalStringsIs ==
  ASSUME NEW left \in Seq(48 .. 57), NEW right \in Seq(48 .. 57)
  PROVE  \E c : LET N == Longest(left, right)
                IN /\ Carries(c, left, right)
                   /\ AddDecimalStrings(left, right)
                        = (IF c[N] > 0 THEN <<48 + c[N]>> ELSE << >>)
                            \o [n \in 1 .. N |-> 48 + (Sums(left, right, N - n, c[N - n]) % 10)]
<1> DEFINE N == Longest(left, right)
           V == 0 .. 1
           next(c, i) == Sums(left, right, i - 1, c) \div 10
           step == [q \in V \X (1 .. N) |-> next(q[1], q[2])]
           right_(f) == f = [i \in 0 .. N |-> IF i = 0 THEN 0 ELSE next(f[i - 1], i)]
           h == CHOOSE f : right_(f)
<1>1. AddDecimalStrings(left, right)
        = (IF h[N] > 0 THEN <<48 + h[N]>> ELSE << >>)
            \o [n \in 1 .. N |-> 48 + (Sums(left, right, N - n, h[N - n]) % 10)]
  BY DEF AddDecimalStrings, Sums, Digit, Longest
<1>2. N \in Nat
  BY LongestIs
<1>3. \A k \in Nat : Digit(left, k) \in 0 .. 9 /\ Digit(right, k) \in 0 .. 9
  BY AmountIs, WithoutIs
<1> HIDE DEF N, h
<1>4. \A c \in V, i \in 1 .. N : next(c, i) \in V
  <2> SUFFICES ASSUME NEW c \in V, NEW i \in 1 .. N PROVE next(c, i) \in V
    OBVIOUS
  <2>1. i - 1 \in Nat
    BY <1>2
  <2>2. Digit(left, i - 1) \in 0 .. 9 /\ Digit(right, i - 1) \in 0 .. 9
    BY <1>3, <2>1
  <2>3. QED
    BY <2>2, ColumnIs DEF Sums
<1>5. 0 \in V
  OBVIOUS
<1> HIDE DEF next, V
<1>6. step \in [V \X (1 .. N) -> V] /\ \A c \in V, i \in 1 .. N : step[<<c, i>>] = next(c, i)
  BY <1>4
<1> HIDE DEF step
<1>7. PICK f : Iterates(f, N, V, 0, step)
  BY <1>2, <1>5, <1>6, Iterated
<1>8. \A n \in 0 .. N : n # 0 => n - 1 \in 0 .. N /\ n \in 1 .. N
  BY <1>2
<1>9. right_(f)
  <2>1. /\ f \in [0 .. N -> V] /\ f[0] = 0
        /\ \A n \in 1 .. N : f[n] = step[<<f[n - 1], n>>]
    BY <1>7 DEF Iterates
  <2>2. \A n \in 0 .. N : n # 0 => f[n] = next(f[n - 1], n)
    BY <1>6, <1>8, <2>1
  <2>3. QED
    BY <2>1, <2>2
<1>10. right_(h)
  <2> HIDE DEF right_
  <2>1. QED
    BY <1>9 DEF h
<1>11. h[0] = 0 /\ \A n \in 1 .. N : h[n] = next(h[n - 1], n)
  <2>1. 0 \in 0 .. N /\ \A n \in 1 .. N : n \in 0 .. N /\ n # 0
    BY <1>2
  <2>2. QED
    BY <1>10, <2>1
<1>12. \A n \in 0 .. N : h[n] \in V
  <2>1. \A n \in 1 .. N : h[n - 1] \in V => h[n] \in V
    BY <1>4, <1>11
  <2>2. h[0] \in V
    BY <1>5, <1>11
  <2>3. QED
    BY <1>2, <2>1, <2>2, StaysIn
<1>13. Carries(h, left, right)
  BY <1>11, <1>12 DEF Carries, N, next, V
<1>14. QED
  BY <1>1, <1>13 DEF N

LEMMA OneAfterOther ==
  ASSUME NEW T, NEW s \in Seq(T), NEW t \in Seq(T)
  PROVE  /\ s \o t \in Seq(T) /\ Len(s \o t) = Len(s) + Len(t)
         /\ \A n \in 1 .. Len(s) : (s \o t)[n] = s[n]
         /\ \A n \in 1 .. Len(t) : (s \o t)[Len(s) + n] = t[n]
OBVIOUS

(* The code adds digit by digit what the numbers add up to                 *)
(* (addDecimalStrings).                                                    *)
LEMMA AdditionIs ==
  ASSUME NEW left \in Seq(48 .. 57), NEW right \in Seq(48 .. 57)
  PROVE  /\ AddDecimalStrings(left, right) \in Seq(48 .. 57)
         /\ Amount(AddDecimalStrings(left, right)) = Amount(left) + Amount(right)
<1> DEFINE N == Longest(left, right)
           sum == AddDecimalStrings(left, right)
           D == 48 .. 57
<1>1. PICK u : Values(u, left) /\ Amount(left) = u[Len(left)]
  BY AmountIs
<1>2. PICK w : Values(w, right) /\ Amount(right) = w[Len(right)]
  BY AmountIs
<1>3. PICK c : /\ Carries(c, left, right)
               /\ sum = (IF c[N] > 0 THEN <<48 + c[N]>> ELSE << >>)
                          \o [n \in 1 .. N |-> 48 + (Sums(left, right, N - n, c[N - n]) % 10)]
  BY AddDecimalStringsIs
<1> DEFINE head == IF c[N] > 0 THEN <<48 + c[N]>> ELSE << >>
           unit(k) == Sums(left, right, k, c[k]) % 10
           body == [n \in 1 .. N |-> 48 + unit(N - n)]
           H == Len(head)
<1>4. /\ N \in Nat /\ Len(left) \in Nat /\ Len(right) \in Nat
      /\ Len(left) <= N /\ Len(right) <= N
  BY LongestIs
<1>5. /\ c[0] = 0 /\ \A k \in 0 .. N : c[k] \in 0 .. 1
      /\ \A i \in 1 .. N : c[i] = Sums(left, right, i - 1, c[i - 1]) \div 10
  BY <1>3 DEF Carries
<1> HIDE DEF N
<1>6. ASSUME NEW k \in Nat
      PROVE  /\ Digit(left, k) \in 0 .. 9 /\ Digit(right, k) \in 0 .. 9
             /\ Without(u, left, k) \in Nat /\ Without(w, right, k) \in Nat
             /\ Without(u, left, k + 1) \in Nat /\ Without(w, right, k + 1) \in Nat
             /\ Without(u, left, k) = 10 * Without(u, left, k + 1) + Digit(left, k)
             /\ Without(w, right, k) = 10 * Without(w, right, k + 1) + Digit(right, k)
  BY <1>1, <1>2, WithoutIs
<1>7. ASSUME NEW k \in 0 .. N - 1
      PROVE  /\ unit(k) \in 0 .. 9
             /\ 10 * c[k + 1] + unit(k) = Digit(left, k) + Digit(right, k) + c[k]
  <2> DEFINE a == Digit(left, k)  b == Digit(right, k)  d == c[k]
  <2>1. k \in Nat /\ k + 1 \in 1 .. N /\ (k + 1) - 1 = k /\ k \in 0 .. N
    BY <1>4
  <2>2. a \in 0 .. 9 /\ b \in 0 .. 9 /\ d \in 0 .. 1
    BY <1>5, <1>6, <2>1
  <2>3. c[k + 1] = (a + b + d) \div 10 /\ unit(k) = (a + b + d) % 10
    BY <1>5, <2>1 DEF Sums
  <2> HIDE DEF a, b, d, unit
  <2>4. /\ (a + b + d) % 10 \in 0 .. 9
        /\ 10 * ((a + b + d) \div 10) + ((a + b + d) % 10) = a + b + d
    BY <2>2, ColumnIs
  <2>5. QED
    BY <2>3, <2>4 DEF a, b, d
<1> HIDE DEF unit
<1>8. /\ head \in Seq(D) /\ H \in 0 .. 1
      /\ H = 0 => c[N] = 0
      /\ H = 1 => head[1] = 48 + c[N]
  <2>1. c[N] \in 0 .. 1
    BY <1>4, <1>5
  <2>2. CASE c[N] = 0
    <3>1. head = << >>
      BY <2>2
    <3>2. QED
      BY <2>2, <3>1
  <2>3. CASE c[N] = 1
    <3>1. head = <<49>>
      BY <2>3
    <3>2. QED
      BY <2>3, <3>1
  <2>4. QED
    BY <2>1, <2>2, <2>3
<1>9. body \in Seq(D) /\ Len(body) = N /\ \A n \in 1 .. N : body[n] = 48 + unit(N - n)
  <2>1. \A n \in 1 .. N : 48 + unit(N - n) \in D
    <3> SUFFICES ASSUME NEW n \in 1 .. N PROVE 48 + unit(N - n) \in D
      OBVIOUS
    <3>1. N - n \in 0 .. N - 1
      BY <1>4
    <3>2. unit(N - n) \in 0 .. 9
      BY <1>7, <3>1
    <3>3. QED
      BY <3>2
  <2> HIDE DEF D
  <2>2. QED
    BY <1>4, <2>1
<1>10. sum = head \o body
  BY <1>3 DEF unit
<1> HIDE DEF sum, head, body, D
<1>11. /\ sum \in Seq(D) /\ Len(sum) = H + N
       /\ H = 1 => sum[1] = head[1]
       /\ \A n \in 1 .. N : sum[H + n] = body[n]
  <2>0. head \in Seq(D) /\ body \in Seq(D)
    BY <1>8, <1>9
  <2>1. /\ head \o body \in Seq(D) /\ Len(head \o body) = Len(head) + Len(body)
        /\ \A n \in 1 .. Len(head) : (head \o body)[n] = head[n]
        /\ \A n \in 1 .. Len(body) : (head \o body)[Len(head) + n] = body[n]
    BY <2>0, OneAfterOther
  <2>2. QED
    BY <1>8, <1>9, <1>10, <2>1
<1> HIDE DEF H
<1>12. PICK x : Values(x, sum) /\ Amount(sum) = x[Len(sum)]
  BY <1>11, AmountIs DEF D
<1>13. /\ x[0] = 0 /\ \A n \in 1 .. H + N : x[n] = 10 * x[n - 1] + (sum[n] - 48)
       /\ \A n \in 0 .. H + N : x[n] \in Nat
  BY <1>11, <1>12 DEF Values
<1>14. x[H] = c[N]
  <2>1. CASE H = 0
    BY <1>8, <1>13, <2>1
  <2>2. CASE H = 1
    <3>1. 1 \in 1 .. H + N
      BY <1>4, <2>2
    <3>2. x[1] = 10 * x[0] + (sum[1] - 48) /\ sum[1] = 48 + c[N] /\ c[N] \in 0 .. 1
      <4>1. x[1] = 10 * x[1 - 1] + (sum[1] - 48)
        BY <1>13, <3>1
      <4>2. sum[1] = 48 + c[N]
        BY <1>8, <1>11, <2>2
      <4>3. c[N] \in 0 .. 1
        BY <1>4, <1>5
      <4>4. QED
        BY <4>1, <4>2, <4>3
    <3>3. QED
      BY <1>13, <2>2, <3>2
  <2>3. QED
    BY <1>8, <2>1, <2>2
<1> DEFINE so(k) == Without(u, left, k) + Without(w, right, k) + c[k]
           P == {n \in Nat : n <= N => x[H + n] = so(N - n)}
<1>15. 0 \in P /\ P \in SUBSET Nat
  <2>1. Without(u, left, N) = 0 /\ Without(w, right, N) = 0
    BY <1>1, <1>2, <1>4 DEF Without, Values
  <2>2. so(N) = c[N] /\ H + 0 = H /\ N - 0 = N
    <3>1. c[N] \in 0 .. 1
      BY <1>4, <1>5
    <3>2. QED
      BY <1>4, <1>8, <2>1, <3>1
  <2> HIDE DEF so
  <2>3. QED
    BY <1>14, <2>2
<1>16. ASSUME NEW n \in P PROVE n + 1 \in P
  <2>1. SUFFICES ASSUME n + 1 <= N PROVE x[H + (n + 1)] = so(N - (n + 1))
    OBVIOUS
  <2> DEFINE k == N - (n + 1)
  <2>2. /\ n \in Nat /\ k \in 0 .. N - 1 /\ k \in Nat /\ N - n = k + 1 /\ n + 1 \in 1 .. N
        /\ H + (n + 1) \in 1 .. H + N /\ (H + (n + 1)) - 1 = H + n /\ N - (n + 1) = k
    BY <1>4, <1>8, <2>1
  <2>3. x[H + n] = so(k + 1)
    <3> HIDE DEF so, k
    <3>1. n <= N
      BY <1>4, <2>1, <2>2
    <3>2. x[H + n] = so(N - n)
      BY <3>1
    <3>3. QED
      BY <2>2, <3>2
  <2> HIDE DEF k
  <2>4. x[H + (n + 1)] = 10 * x[H + n] + unit(k)
    <3>1. x[H + (n + 1)] = 10 * x[H + n] + (sum[H + (n + 1)] - 48)
      BY <1>13, <2>2
    <3>2. sum[H + (n + 1)] = 48 + unit(k)
      BY <1>9, <1>11, <2>2
    <3>3. unit(k) \in 0 .. 9
      BY <1>7, <2>2
    <3>4. QED
      BY <3>1, <3>2, <3>3
  <2>5. c[k] \in 0 .. 1 /\ c[k + 1] \in 0 .. 1
    BY <1>4, <1>5, <2>2
  <2>6. /\ unit(k) \in 0 .. 9
        /\ 10 * c[k + 1] + unit(k) = Digit(left, k) + Digit(right, k) + c[k]
    BY <1>7, <2>2
  <2>7. 10 * so(k + 1) + unit(k) = so(k)
    <3> DEFINE a == Digit(left, k)  b == Digit(right, k)
               p == Without(u, left, k + 1)  q == Without(w, right, k + 1)
               d == c[k]  e == c[k + 1]  f == unit(k)
    <3>1. /\ a \in 0 .. 9 /\ b \in 0 .. 9 /\ p \in Nat /\ q \in Nat
          /\ Without(u, left, k) = 10 * p + a /\ Without(w, right, k) = 10 * q + b
      BY <1>6, <2>2
    <3>2. d \in 0 .. 1 /\ e \in 0 .. 1 /\ f \in 0 .. 9 /\ 10 * e + f = a + b + d
      BY <2>5, <2>6
    <3> HIDE DEF a, b, p, q, d, e, f
    <3>3. 10 * (p + q + e) + f = (10 * p + a) + (10 * q + b) + d
      BY <3>1, <3>2
    <3>4. QED
      BY <3>1, <3>3 DEF p, q, d, e, f
  <2>8. QED
    BY <2>2, <2>3, <2>4, <2>7
<1> HIDE DEF P
<1>17. P = Nat
  BY <1>15, <1>16, Induction
<1>18. x[H + N] = so(0)
  BY <1>4, <1>17 DEF P
<1>19. so(0) = Amount(left) + Amount(right)
  <2>1. Without(u, left, 0) = Amount(left) /\ Without(w, right, 0) = Amount(right)
    BY <1>1, <1>2, <1>4 DEF Without
  <2>2. Without(u, left, 0) \in Nat /\ Without(w, right, 0) \in Nat
    BY <1>6
  <2>3. QED
    BY <1>5, <2>1, <2>2
<1>20. QED
  BY <1>11, <1>12, <1>18, <1>19 DEF D, sum

(* A total as sumRawAmounts keeps it: "0", or more than nothing.           *)
IsTotal(total) == total \in Seq(48 .. 57) /\ (Amount(total) = 0 <=> total = Zero)

LEMMA ZeroIsNothing == Zero \in Decimals /\ Amount(Zero) = 0 /\ IsTotal(Zero)
<1>1. Zero \in Decimals
  BY DEF Zero, Decimals
<1>2. NormalizeAmount(Zero) = Zero
  BY DEF NormalizeAmount
<1>3. Amount(Zero) = 0
  BY <1>1, <1>2, NothingIsZero
<1>4. QED
  BY <1>1, <1>3 DEF IsTotal, Decimals

LEMMA AmountsCount ==
  ASSUME NEW digits \in Seq(48 .. 57)
  PROVE  Amount(digits) \in Nat
<1>1. PICK v : Values(v, digits) /\ Amount(digits) = v[Len(digits)]
  BY AmountIs
<1>2. Len(digits) \in 0 .. Len(digits)
  OBVIOUS
<1>3. QED
  BY <1>1, <1>2 DEF Values

LEMMA AddAmountIs ==
  ASSUME NEW total, IsTotal(total), NEW amount \in Decimals
  PROVE  /\ IsTotal(AddAmount(total, amount))
         /\ Amount(AddAmount(total, amount)) = Amount(total) + Amount(amount)
<1> DEFINE more == AddAmount(total, amount)
<1>1. /\ total \in Seq(48 .. 57) /\ amount \in Seq(48 .. 57)
      /\ Amount(total) \in Nat /\ Amount(amount) \in Nat
      /\ Amount(total) = 0 <=> total = Zero
      /\ Amount(amount) = 0 <=> NormalizeAmount(amount) = Zero
  BY AmountsCount, NothingIsZero DEF IsTotal, Decimals
<1>2. CASE NormalizeAmount(amount) = Zero
  <2>1. more = total
    BY <1>2 DEF AddAmount
  <2>2. QED
    BY <1>1, <1>2, <2>1
<1>3. CASE NormalizeAmount(amount) # Zero /\ total = Zero
  <2>1. more = amount
    BY <1>3 DEF AddAmount
  <2>2. amount # Zero
    BY <1>3 DEF NormalizeAmount
  <2>3. QED
    BY <1>1, <1>3, <2>1, <2>2 DEF IsTotal
<1>4. CASE NormalizeAmount(amount) # Zero /\ total # Zero
  <2>1. more = AddDecimalStrings(total, amount)
    BY <1>4 DEF AddAmount
  <2>2. more \in Seq(48 .. 57) /\ Amount(more) = Amount(total) + Amount(amount)
    BY <1>1, <2>1, AdditionIs
  <2>3. Amount(more) # 0
    BY <1>1, <1>4, <2>2
  <2>4. more # Zero
    BY <2>3, ZeroIsNothing
  <2> HIDE DEF more
  <2>5. IsTotal(more)
    BY <2>2, <2>3, <2>4 DEF IsTotal
  <2>6. QED
    BY <2>2, <2>5 DEF more
<1>5. QED
  BY <1>2, <1>3, <1>4

(* What is expected for a leg is what is owed for it (sumRawAmounts).      *)
LEMMA ExpectedIsOwed ==
  ASSUME NEW leg, IsLeg(leg)
  PROVE  /\ Amount(ExpectedRepayment(leg)) = Owed(leg)
         /\ Owed(leg) > 0 <=> Repays(leg)
         /\ Amount(leg.borrowed) > 0 => Borrows(leg)
<1> DEFINE first == FirstNonZero(leg.repaid, leg.borrowed)
           one == AddAmount(Zero, first)
           two == AddAmount(one, leg.premium)
           three == AddAmount(two, leg.fee)
<1>1. /\ leg.repaid \in Decimals /\ leg.borrowed \in Decimals
      /\ leg.premium \in Decimals /\ leg.fee \in Decimals
  BY DEF IsLeg
<1>2. \A d \in Decimals : /\ Amount(d) \in Nat
                          /\ Amount(d) = 0 <=> NormalizeAmount(d) = Zero
  BY NothingIsZero
<1>3. \A d \in Decimals : /\ NormalizeAmount(d) \in Decimals
                          /\ Amount(NormalizeAmount(d)) = Amount(d)
  <2> SUFFICES ASSUME NEW d \in Decimals
               PROVE  NormalizeAmount(d) \in Decimals /\ Amount(NormalizeAmount(d)) = Amount(d)
    OBVIOUS
  <2>1. CASE d = << >>
    <3>1. NormalizeAmount(d) = Zero
      BY <2>1 DEF NormalizeAmount
    <3>2. QED
      BY <1>2, <3>1, ZeroIsNothing
  <2>2. CASE d # << >>
    BY <2>2 DEF NormalizeAmount
  <2>3. QED
    BY <2>1, <2>2
<1>4. /\ first \in Decimals
      /\ Amount(first) = IF Amount(leg.repaid) > 0 THEN Amount(leg.repaid)
                         ELSE Amount(leg.borrowed)
  <2>1. CASE NormalizeAmount(leg.repaid) # Zero
    <3>1. Amount(leg.repaid) > 0
      BY <1>1, <1>2, <2>1
    <3>2. QED
      BY <1>1, <2>1, <3>1 DEF FirstNonZero
  <2>2. CASE NormalizeAmount(leg.repaid) = Zero
    <3>1. ~(Amount(leg.repaid) > 0)
      BY <1>1, <1>2, <2>2
    <3>2. first = NormalizeAmount(leg.borrowed)
      BY <2>2 DEF FirstNonZero
    <3>3. QED
      BY <1>1, <1>3, <3>1, <3>2
  <2>3. QED
    BY <2>1, <2>2
<1>5. ExpectedRepayment(leg) = three
  BY DEF ExpectedRepayment, SumRawAmounts
<1> HIDE DEF first
<1>6. IsTotal(one) /\ Amount(one) = Amount(first)
  <2>1. IsTotal(one) /\ Amount(one) = Amount(Zero) + Amount(first)
    BY <1>4, AddAmountIs, ZeroIsNothing
  <2>2. QED
    BY <1>2, <1>4, <2>1, ZeroIsNothing
<1> HIDE DEF one
<1>7. IsTotal(two) /\ Amount(two) = Amount(one) + Amount(leg.premium)
  BY <1>1, <1>6, AddAmountIs
<1> HIDE DEF two
<1>8. IsTotal(three) /\ Amount(three) = Amount(two) + Amount(leg.fee)
  BY <1>1, <1>7, AddAmountIs
<1> HIDE DEF three
<1>9. /\ Amount(first) \in Nat /\ Amount(leg.premium) \in Nat /\ Amount(leg.fee) \in Nat
      /\ Amount(leg.borrowed) \in Nat
  BY <1>1, <1>2, <1>4
<1>10. Owed(leg) = Amount(first) + Amount(leg.premium) + Amount(leg.fee)
  BY <1>4 DEF Owed
<1>11. Amount(three) = Owed(leg) /\ Owed(leg) \in Nat
  BY <1>6, <1>7, <1>8, <1>9, <1>10
<1>12. Repays(leg) <=> three # Zero
  BY <1>5 DEF Repays
<1>13. Owed(leg) > 0 <=> Repays(leg)
  BY <1>8, <1>11, <1>12 DEF IsTotal
<1>14. Amount(leg.borrowed) > 0 => Borrows(leg)
  BY <1>1, <1>2 DEF Borrows
<1>15. QED
  BY <1>5, <1>11, <1>13, <1>14

Shows(lane) == \E s \in ToSet(lane.segments) : s.action = "Repay"

(* A lane tells the loan of its leg, and shows a repayment only when       *)
(* something is owed.                                                      *)
LEMMA LegTold ==
  ASSUME NEW flows, flows \in Seq(ToSet(flows)), NEW shown,
         \A f \in ToSet(flows) : FlowOf(f, shown),
         NEW loan, NEW leg, IsLeg(leg), NEW drawn, IsDrawn(drawn, flows, loan, leg)
  PROVE  /\ Owed(leg) > 0 =>
              /\ drawn # << >> /\ Shows(drawn[1])
              /\ TellsTheLoan(drawn[1], loan, leg)
         /\ ~(Owed(leg) > 0) /\ drawn # << >> => ~Shows(drawn[1])
<1>1. PICK around, execution, topUps, nodes :
        /\ around.receiver = loan.receiver
        /\ Selected(flows, around, execution, topUps)
        /\ NodeEnds(nodes) = EndsOf(Between(loan, leg, around, execution, topUps))
        /\ drawn = LaneOf(loan, leg, Between(loan, leg, around, execution, topUps), nodes)
  BY DEF IsDrawn
<1> DEFINE lane == drawn[1]
           segments == lane.segments
           borrow == Borrow(around.borrowSource, loan, leg)
           repay == Repay(around.repaymentTarget, loan, leg)
           expected == ExpectedRepayment(leg)
<1>2. /\ execution \in Seq(ToSet(flows)) /\ topUps \in Seq(ToSet(flows))
      /\ \A f \in ToSet(flows) : f.action \in Transfers
  BY <1>1 DEF Selected, FlowOf
<1>3. Amount(expected) = Owed(leg) /\ (Owed(leg) > 0 <=> Repays(leg))
      /\ (Amount(leg.borrowed) > 0 => Borrows(leg))
  BY ExpectedIsOwed
<1>4. Repays(leg) => drawn # << >>
  BY <1>1, <1>2, LaneIsDrawn
<1>5. drawn # << >> =>
        /\ lane.provider = loan.provider /\ lane.asset = leg.asset
        /\ segments \in Seq(ToSet(segments))
        /\ \A s \in ToSet(segments) : DrawnFrom(s, loan, leg, around, execution, topUps)
        /\ Borrows(leg) => segments[1] = borrow
        /\ Repays(leg) => Len(segments) > 0 /\ segments[Len(segments)] = repay
        /\ NodeEnds(lane.nodes) = EndsOf(segments)
  BY <1>1, <1>2, LaneIsDrawn
<1> HIDE DEF lane, segments
<1>6. /\ borrow.action = "Borrow" /\ borrow.to = loan.receiver
      /\ borrow.amount = Compact(leg.borrowed)
      /\ repay.action = "Repay" /\ repay.from = loan.receiver
      /\ repay.amount = Compact(expected)
      /\ \A f : Branch(f).action = f.action /\ TopUp(f, loan.receiver).action = "Top-up"
  BY DEF Borrow, Repay, Branch, TopUp, Segment
<1>7. ASSUME drawn # << >>, NEW s \in ToSet(segments), s.action = "Repay"
      PROVE  Repays(leg)
  <2>1. \A f \in ToSet(execution) : f.action # "Repay"
    <3>1. ToSet(execution) \subseteq ToSet(flows)
      BY <1>2, ToSetIs
    <3>2. QED
      BY <1>2, <3>1 DEF Transfers
  <2>2. DrawnFrom(s, loan, leg, around, execution, topUps)
    BY <1>5, <1>7
  <2> HIDE DEF borrow, repay
  <2>3. s # borrow
    BY <1>6, <1>7
  <2>4. \A f \in ToSet(execution) : s # Branch(f)
    BY <1>6, <1>7, <2>1
  <2>5. \A f \in ToSet(topUps) : s # TopUp(f, loan.receiver)
    BY <1>6, <1>7
  <2>6. QED
    BY <2>2, <2>3, <2>4, <2>5 DEF DrawnFrom, borrow
<1>8. ASSUME Repays(leg)
      PROVE  Shows(drawn[1]) /\ TellsTheLoan(drawn[1], loan, leg)
  <2>1. drawn # << >>
    BY <1>4, <1>8
  <2>2. /\ segments \in Seq(ToSet(segments)) /\ Len(segments) > 0
        /\ segments[Len(segments)] = repay
        /\ Borrows(leg) => segments[1] = borrow
    BY <1>5, <1>8, <2>1
  <2>3. Last(segments) = repay
    BY <2>2 DEF Last
  <2>4. repay \in ToSet(segments)
    <3>1. Len(segments) \in 1 .. Len(segments)
      BY <2>2
    <3>2. QED
      BY <2>2, <3>1, ToSetIs
  <2>5. UNION {Ends2(s) : s \in ToSet(segments)} = {node[1] : node \in lane.nodes}
    BY <1>5, <2>1 DEF NodeEnds, EndsOf
  <2>6. Shows(drawn[1])
    BY <1>6, <2>4 DEF Shows, segments, lane
  <2>7. TellsTheLoan(lane, loan, leg)
    <3> HIDE DEF borrow, repay, expected
    <3>1. /\ lane.provider = loan.provider /\ lane.asset = leg.asset
      BY <1>5, <2>1
    <3>2. Amount(leg.borrowed) > 0 => segments[1] = borrow
      BY <1>3, <2>2
    <3>3. QED
      BY <1>3, <1>6, <2>3, <2>5, <3>1, <3>2 DEF TellsTheLoan, segments, expected
  <2>8. QED
    BY <2>6, <2>7 DEF lane
<1>9. QED
  BY <1>3, <1>4, <1>7, <1>8 DEF Shows, segments, lane

(* Two sequences go together, each member with the one at its place.       *)
Together(s, t, M) == Len(s) = Len(t) /\ \A n \in 1 .. Len(s) : <<s[n], t[n]>> \in M

(* A member to keep has one lane to keep, another one none.                *)
Matches(x, chunk, K, R, M) ==
  \/ x \in K /\ \E y : chunk = <<y>> /\ y \in R /\ <<x, y>> \in M
  \/ x \notin K /\ (chunk = << >> \/ \E y : chunk = <<y>> /\ y \notin R)

LEMMA TogetherOn ==
  ASSUME NEW D, NEW C, NEW M, NEW s \in Seq(D), NEW t \in Seq(C), Together(s, t, M),
         NEW x \in D, NEW y \in C, <<x, y>> \in M
  PROVE  Together(s \o <<x>>, t \o <<y>>, M)
<1> DEFINE u == s \o <<x>>  v == t \o <<y>>  N == Len(s)
<1>1. N \in Nat /\ Len(t) = N /\ \A n \in 1 .. N : <<s[n], t[n]>> \in M
  BY DEF Together
<1>2. Len(u) = N + 1 /\ u[N + 1] = x /\ \A n \in 1 .. N : u[n] = s[n]
  OBVIOUS
<1>3. Len(v) = N + 1 /\ v[N + 1] = y /\ \A n \in 1 .. N : v[n] = t[n]
  BY <1>1
<1> HIDE DEF u, v, N
<1>4. ASSUME NEW n \in 1 .. N + 1 PROVE <<u[n], v[n]>> \in M
  <2>1. n \in 1 .. N \/ n = N + 1
    BY <1>1
  <2>2. QED
    BY <1>1, <1>2, <1>3, <2>1
<1>5. QED
  BY <1>2, <1>3, <1>4 DEF Together, u, v

LEMMA NothingAdded == ASSUME NEW T, NEW s \in Seq(T) PROVE s \o << >> = s
OBVIOUS

LEMMA OneAdded == ASSUME NEW T, NEW s \in Seq(T), NEW x \in T PROVE s \o <<x>> = Append(s, x)
OBVIOUS

LEMMA KeptTogether ==
  ASSUME NEW D, NEW C, NEW K, NEW R, NEW M, NEW s \in Seq(D), NEW ss \in Seq(Seq(C)),
         Len(ss) = Len(s), \A n \in 1 .. Len(s) : Matches(s[n], ss[n], K, R, M)
  PROVE  Together(Keep(s, K), Keep(FlattenSeq(ss), R), M)
<1> DEFINE given(q, qq) == Len(qq) = Len(q) /\ \A n \in 1 .. Len(q) : Matches(q[n], qq[n], K, R, M)
           good(q, qq) == Together(Keep(q, K), Keep(FlattenSeq(qq), R), M)
           P == {n \in Nat : \A q \in Seq(D), qq \in Seq(Seq(C)) :
                               Len(q) = n /\ given(q, qq) => good(q, qq)}
<1>1. 0 \in P
  <2>1. SUFFICES ASSUME NEW q \in Seq(D), NEW qq \in Seq(Seq(C)), Len(q) = 0, Len(qq) = 0
                 PROVE  good(q, qq)
    OBVIOUS
  <2>2. q = << >> /\ qq = << >>
    BY <2>1
  <2>3. FlattenSeq(qq) = << >>
    BY <2>2 DEF FlattenSeq
  <2>4. ASSUME NEW S PROVE Keep(<< >>, S) = << >>
    <3> DEFINE kept == Keep(<< >>, S)
    <3>1. << >> \in Seq({})
      BY NoSegment
    <3>2. kept \in Seq({})
      BY <3>1, KeepMembers
    <3> HIDE DEF kept
    <3>3. kept = << >>
      BY <3>2
    <3>4. QED
      BY <3>3 DEF kept
  <2>5. Together(<< >>, << >>, M)
    BY DEF Together
  <2>6. QED
    BY <2>2, <2>3, <2>4, <2>5
<1>2. ASSUME NEW n \in P PROVE n + 1 \in P
  <2>1. SUFFICES ASSUME NEW r \in Seq(D), NEW rr \in Seq(Seq(C)), Len(r) = n + 1, given(r, rr)
                 PROVE  good(r, rr)
    OBVIOUS
  <2>2. n \in Nat /\ \A q \in Seq(D), qq \in Seq(Seq(C)) :
                       Len(q) = n /\ given(q, qq) => good(q, qq)
    OBVIOUS
  <2> HIDE DEF P
  <2>3. r # << >> /\ rr # << >>
    BY <2>1, <2>2
  <2>4. PICK q \in Seq(D), x \in D : r = Append(q, x)
    BY <2>3, SequenceEmptyOrAppend
  <2>5. PICK qq \in Seq(Seq(C)), chunk \in Seq(C) : rr = Append(qq, chunk)
    BY <2>3, SequenceEmptyOrAppend
  <2>6. /\ Len(q) = n /\ r[n + 1] = x /\ \A k \in 1 .. n : r[k] = q[k]
    BY <2>1, <2>2, <2>4
  <2>7. /\ Len(qq) = n /\ rr[n + 1] = chunk /\ \A k \in 1 .. n : rr[k] = qq[k]
    BY <2>1, <2>2, <2>5
  <2>8. good(q, qq)
    <3>1. \A k \in 1 .. n : k \in 1 .. n + 1
      BY <2>2
    <3>2. \A k \in 1 .. n : Matches(q[k], qq[k], K, R, M)
      BY <2>1, <2>6, <2>7, <3>1
    <3> HIDE DEF good
    <3>3. QED
      BY <2>2, <2>6, <2>7, <3>2
  <2>9. Matches(x, chunk, K, R, M)
    <3>1. n + 1 \in 1 .. n + 1
      BY <2>2
    <3>2. QED
      BY <2>1, <2>6, <2>7, <3>1
  <2> DEFINE F == FlattenSeq(qq)
             a == Keep(q, K)
             b == Keep(F, R)
  <2>10. F \in Seq(C) /\ FlattenSeq(rr) = F \o chunk
    BY <2>5, Flattened, FlattenLast
  <2>11. Keep(r, K) = a \o (IF x \in K THEN <<x>> ELSE << >>)
    BY <2>4, KeepLast
  <2>12. \A y \in C : Keep(Append(F, y), R) = b \o (IF y \in R THEN <<y>> ELSE << >>)
    <3> SUFFICES ASSUME NEW y \in C
                 PROVE  Keep(Append(F, y), R) = b \o (IF y \in R THEN <<y>> ELSE << >>)
      OBVIOUS
    <3>1. F \in Seq(C)
      BY <2>10
    <3> HIDE DEF F
    <3>2. Keep(Append(F, y), R) = Keep(F, R) \o (IF y \in R THEN <<y>> ELSE << >>)
      BY <3>1, KeepLast
    <3>3. QED
      BY <3>2
  <2>13. a \in Seq(D) /\ b \in Seq(C) /\ Together(a, b, M)
    <3>1. Together(a, b, M)
      BY <2>8
    <3> HIDE DEF F
    <3>2. QED
      BY <2>10, <3>1, KeepMembers
  <2> HIDE DEF F, a, b
  <2>14. \A y : chunk = <<y>> => y \in C /\ F \o chunk = Append(F, y)
    <3> SUFFICES ASSUME NEW y, chunk = <<y>> PROVE y \in C /\ F \o chunk = Append(F, y)
      OBVIOUS
    <3>1. chunk[1] \in C /\ chunk[1] = y
      OBVIOUS
    <3>2. y \in C
      BY <3>1
    <3>3. F \o <<y>> = Append(F, y)
      BY <2>10, <3>2, OneAdded
    <3>4. QED
      BY <3>2, <3>3
  <2>15. CASE x \in K
    <3>1. PICK y : chunk = <<y>> /\ y \in R /\ <<x, y>> \in M
      BY <2>9, <2>15 DEF Matches
    <3>2. y \in C /\ Keep(FlattenSeq(rr), R) = b \o <<y>>
      BY <2>10, <2>12, <2>14, <3>1
    <3>3. Keep(r, K) = a \o <<x>>
      BY <2>11, <2>15
    <3>4. Together(a \o <<x>>, b \o <<y>>, M)
      BY <2>13, <3>1, <3>2, TogetherOn
    <3>5. QED
      BY <3>2, <3>3, <3>4
  <2>16. CASE x \notin K
    <3>1. Keep(r, K) = a
      BY <2>11, <2>13, <2>16, NothingAdded
    <3>2. CASE chunk = << >>
      <4>1. FlattenSeq(rr) = F
        BY <2>10, <3>2, NothingAdded
      <4>2. QED
        BY <2>13, <3>1, <4>1 DEF b
    <3>3. CASE \E y : chunk = <<y>> /\ y \notin R
      <4>1. PICK y : chunk = <<y>> /\ y \notin R
        BY <3>3
      <4>2. Keep(FlattenSeq(rr), R) = b \o << >>
        BY <2>10, <2>12, <2>14, <4>1
      <4>3. b \o << >> = b
        BY <2>13, NothingAdded
      <4>4. QED
        BY <2>13, <3>1, <4>2, <4>3
    <3>4. QED
      BY <2>9, <2>16, <3>2, <3>3 DEF Matches
  <2>17. QED
    BY <2>15, <2>16
<1>3. P \in SUBSET Nat
  OBVIOUS
<1> HIDE DEF P
<1>4. P = Nat
  BY <1>1, <1>2, <1>3, Induction
<1>5. Len(s) \in P
  BY <1>4
<1>6. QED
  BY <1>5 DEF P

LegsInForm(loans) ==
  \A n \in 1 .. Len(loans) : \A leg \in ToSet(loans[n].legs) : IsLeg(leg)

(* The lane of each leg for which something is owed tells its loan, and    *)
(* these are the lanes that show a repayment, in the order of the legs.    *)
LEMMA GraphTells ==
  ASSUME NEW shown, Summarised(shown), NEW loans, LoansInOrder(loans), NEW sender,
         LegsInForm(loans)
  PROVE  LET lanes == Graph(shown, loans, sender).lanes
             numbered == LegsOf(loans)
             owed == Keep(numbered, {l \in ToSet(numbered) : Owed(l.leg) > 0})
             repaid == Keep(lanes, {lane \in ToSet(lanes) : Shows(lane)})
         IN /\ Len(repaid) = Len(owed)
            /\ \A n \in DOMAIN owed :
                 TellsTheLoan(repaid[n], loans[owed[n].loan], owed[n].leg)
<1> DEFINE lanes == Graph(shown, loans, sender).lanes
           numbered == LegsOf(loans)
           laneOf(l) == LaneFor(l, shown, loans, sender)
           chunks == LanesDrawn(shown, loans, sender)
           D == ToSet(numbered)
           C == FirstLanes(shown, loans, sender)
           K == {l \in ToSet(numbered) : Owed(l.leg) > 0}
           R == {lane \in ToSet(lanes) : Shows(lane)}
           M == {p \in D \X C : TellsTheLoan(p[2], loans[p[1].loan], p[1].leg)}
<1>1. /\ numbered \in Seq(D)
      /\ \A l \in D : l.loan \in 1 .. Len(loans) /\ l.leg \in ToSet(loans[l.loan].legs)
  BY LegsNumbered
<1>2. /\ lanes = FlattenSeq(chunks)
      /\ chunks \in Seq(Seq(C)) /\ Len(chunks) = Len(numbered)
      /\ \A n \in 1 .. Len(numbered) :
           chunks[n] = << >> \/ chunks[n] = <<laneOf(numbered[n])[1]>>
  BY GraphLanes
<1>3. \A n \in 1 .. Len(numbered) : chunks[n] = laneOf(numbered[n]) /\ numbered[n] \in D
  <2>1. \A n \in 1 .. Len(numbered) : numbered[n] \in D
    BY <1>1, ToSetIs
  <2>2. \A n \in 1 .. Len(numbered) : chunks[n] = laneOf(numbered[n])
    BY GraphLanes
  <2>3. QED
    BY <2>1, <2>2
<1>4. ASSUME NEW l \in D
      PROVE  /\ l \in K =>
                  /\ laneOf(l) # << >> /\ Shows(laneOf(l)[1])
                  /\ TellsTheLoan(laneOf(l)[1], loans[l.loan], l.leg)
             /\ l \notin K /\ laneOf(l) # << >> => ~Shows(laneOf(l)[1])
  <2> DEFINE loan == loans[l.loan]  leg == l.leg  drawn == laneOf(l)
  <2>1. IsLeg(leg)
    BY <1>1 DEF LegsInForm
  <2>2. PICK flows : /\ flows \in Seq(ToSet(flows)) /\ \A f \in ToSet(flows) : FlowOf(f, shown)
                     /\ IsDrawn(drawn, flows, loan, leg)
    BY LegLaneIsDrawn DEF LaneFor
  <2>3. l \in K <=> Owed(leg) > 0
    OBVIOUS
  <2> HIDE DEF loan, leg, drawn, K
  <2>4. /\ Owed(leg) > 0 => /\ drawn # << >> /\ Shows(drawn[1])
                            /\ TellsTheLoan(drawn[1], loan, leg)
        /\ ~(Owed(leg) > 0) /\ drawn # << >> => ~Shows(drawn[1])
    BY <2>1, <2>2, LegTold
  <2>5. QED
    BY <2>3, <2>4 DEF drawn, loan, leg
<1>5. \A l \in D : laneOf(l)[1] \in C
  BY DEF FirstLanes
<1>6. \A l \in D, lane \in C :
        <<l, lane>> \in M <=> TellsTheLoan(lane, loans[l.loan], l.leg)
  <2> HIDE DEF D, C
  <2>1. QED
    OBVIOUS
<1>7. /\ K \subseteq D /\ \A lane : lane \in R <=> lane \in ToSet(lanes) /\ Shows(lane)
  OBVIOUS
<1> HIDE DEF lanes, numbered, laneOf, chunks, D, C, K, R, M
<1>8. ToSet(lanes) = UNION {ToSet(chunks[n]) : n \in 1 .. Len(chunks)}
  BY <1>2, Flattened
<1>9. ASSUME NEW n \in 1 .. Len(numbered)
      PROVE  Matches(numbered[n], chunks[n], K, R, M)
  <2> DEFINE l == numbered[n]  y == laneOf(l)[1]
  <2>1. l \in D /\ chunks[n] = laneOf(l) /\ (chunks[n] = << >> \/ chunks[n] = <<y>>)
    BY <1>2, <1>3
  <2>2. y \in C
    BY <1>5, <2>1
  <2> HIDE DEF l, y
  <2>3. /\ l \in K => chunks[n] # << >> /\ Shows(y) /\ TellsTheLoan(y, loans[l.loan], l.leg)
        /\ l \notin K /\ chunks[n] # << >> => ~Shows(y)
    BY <1>4, <2>1 DEF y
  <2>4. CASE l \in K
    <3>1. chunks[n] = <<y>> /\ Shows(y) /\ TellsTheLoan(y, loans[l.loan], l.leg)
      BY <2>1, <2>3, <2>4
    <3>2. y \in ToSet(lanes)
      <4>1. ToSet(chunks[n]) = {y}
        BY <3>1, OneSegment
      <4>2. QED
        BY <1>2, <1>8, <4>1
    <3>3. y \in R /\ <<l, y>> \in M
      BY <1>6, <1>7, <2>1, <2>2, <3>1, <3>2
    <3>4. QED
      BY <2>4, <3>1, <3>3 DEF Matches, l
  <2>5. CASE l \notin K
    <3>1. chunks[n] = << >> \/ (chunks[n] = <<y>> /\ chunks[n] # << >>)
      BY <2>1
    <3>2. CASE chunks[n] = << >>
      BY <2>5, <3>2 DEF Matches, l
    <3>3. CASE chunks[n] = <<y>> /\ chunks[n] # << >>
      <4>1. y \notin R
        BY <1>7, <2>3, <2>5, <3>3
      <4>2. QED
        BY <2>5, <3>3, <4>1 DEF Matches, l
    <3>4. QED
      BY <3>1, <3>2, <3>3
  <2>6. QED
    BY <2>4, <2>5
<1>10. Together(Keep(numbered, K), Keep(lanes, R), M)
  BY <1>1, <1>2, <1>9, KeptTogether
<1> DEFINE owed == Keep(numbered, K)  repaid == Keep(lanes, R)
<1>11. owed \in Seq(D)
  BY <1>1, KeepMembers
<1> HIDE DEF owed, repaid
<1>12. DOMAIN owed = 1 .. Len(owed) /\ Len(repaid) = Len(owed)
  BY <1>10, <1>11 DEF Together, owed, repaid
<1>13. ASSUME NEW n \in 1 .. Len(owed)
       PROVE  TellsTheLoan(repaid[n], loans[owed[n].loan], owed[n].leg)
  <2> DEFINE p == <<owed[n], repaid[n]>>
  <2>1. p \in M
    BY <1>10, <1>13 DEF Together, owed, repaid
  <2>2. p[1] = owed[n] /\ p[2] = repaid[n]
    OBVIOUS
  <2> HIDE DEF p
  <2>3. TellsTheLoan(p[2], loans[p[1].loan], p[1].leg)
    BY <2>1 DEF M
  <2>4. QED
    BY <2>2, <2>3
<1>14. QED
  BY <1>12, <1>13 DEF owed, repaid, K, R, numbered, lanes, D

LEMMA BuiltTells == IInv /\ Built => LanesTellTheLoan
<1> SUFFICES ASSUME IInv, Built, Shown
             PROVE  LET loans == Details(page.read)
                        lanes == page.graph.lanes
                        owed == Keep(LegsOf(loans), {l \in ToSet(LegsOf(loans)) : Owed(l.leg) > 0})
                        repaid == Keep(lanes, {lane \in ToSet(lanes) : Shows(lane)})
                    IN /\ Len(repaid) = Len(owed)
                       /\ \A n \in DOMAIN owed :
                            TellsTheLoan(repaid[n], loans[owed[n].loan], owed[n].leg)
  BY DEF LanesTellTheLoan, Shows
<1> DEFINE shown == page.trace  loans == Details(page.read)
<1>1. Summarised(shown) /\ page.graph = Graph(shown, loans, tx.sender)
  BY DEF Built
<1>2. LoansInOrder(loans) /\ LegsInForm(loans)
  BY PageReads, DetailsInOrder DEF LegsInForm
<1> HIDE DEF shown, loans
<1> DEFINE lanes == Graph(shown, loans, tx.sender).lanes
           owed == Keep(LegsOf(loans), {l \in ToSet(LegsOf(loans)) : Owed(l.leg) > 0})
           repaid == Keep(lanes, {lane \in ToSet(lanes) : Shows(lane)})
<1>3. /\ Len(repaid) = Len(owed)
      /\ \A n \in DOMAIN owed : TellsTheLoan(repaid[n], loans[owed[n].loan], owed[n].leg)
  BY <1>1, <1>2, GraphTells
<1>4. page.graph.lanes = lanes
  BY <1>1
<1>5. QED
  BY <1>3, <1>4 DEF loans

(* For every page, whatever the trace holds and the node answers, each leg *)
(* for which something is owed has its lane, in order, with the loan       *)
(* first, a repayment of the sum of what is owed last and a node for each  *)
(* end, and no other lane shows a repayment: for amounts of any length     *)
(* (buildFundFlowLane, buildFallbackFundFlowLane, addDecimalStrings).      *)
THEOREM LanesAlwaysTell == Spec => []LanesTellTheLoan
BY InvariantHolds, PagesAreBuilt, BuiltTells, PTL
================================================================================

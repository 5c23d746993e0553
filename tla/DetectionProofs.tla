--------------------------- MODULE DetectionProofs ---------------------------
(***************************************************************************)
(* Theorems about Detection, for any registry and any transactions, of any *)
(* number of events and of frames, whether or not they are those of a      *)
(* chain, and any number of scans and errors; and, for the transactions of *)
(* a chain, that every verdict is the one the transaction deserves.        *)
(***************************************************************************)
EXTENDS Detection, FiniteSetTheorems, WellFoundedInduction, TLAPS

(* A set of positions in a log has a first.                                *)
LEMMA FirstIsIn ==
  ASSUME NEW S \in SUBSET Nat, S # {}
  PROVE  First(S) \in S /\ \A m \in S : First(S) <= m
<1>1. \E n \in S : \A m \in S : ~ (<<m, n>> \in OpToRel(<, Nat))
  BY NatLessThanWellFounded, WFMin, Zenon
<1>2. PICK n \in S : \A m \in S : ~ (<<m, n>> \in OpToRel(<, Nat))
  BY <1>1, Zenon
<1>3. \A m \in S : ~ (m < n)
  BY <1>2 DEF OpToRel
<1>4. \A m \in S : n <= m
  BY <1>3
<1>5. QED
  BY <1>4 DEF First

(* Finitely many positions of a log come before one.                       *)
LEMMA BelowIsFinite ==
  ASSUME NEW S \in SUBSET Nat, NEW n \in Nat
  PROVE  IsFiniteSet({m \in S : m < n})
<1> DEFINE below == {m \in S : m < n}
<1>1. below \in SUBSET Nat
  OBVIOUS
<1>2. ASSUME NEW m \in below
      PROVE  m <= n
  <2>1. m \in Nat /\ m < n
    BY <1>1
  <2>2. QED
    BY <2>1
<1>3. IsFiniteSet(below)
  <2> HIDE DEF below
  <2>1. QED
    BY <1>1, <1>2, FS_BoundedSetOfNaturals
<1>4. QED
  BY <1>3

(* Numbering by what comes before is sound: two positions of S have        *)
(* different numbers.                                                      *)
LEMMA BeforeSeparates ==
  ASSUME NEW S \in SUBSET Nat, NEW m \in S, NEW n \in S, Before(S, m) = Before(S, n)
  PROVE  m = n
<1>1. ASSUME NEW a \in Nat, a \in S, NEW b \in Nat, a < b
      PROVE  Before(S, a) # Before(S, b)
  <2> DEFINE below(k) == {i \in S : i < k}
  <2>1. ASSUME NEW i \in below(a)
        PROVE  i \in below(b)
    <3>1. i \in S /\ i \in Nat /\ i < a
      OBVIOUS
    <3>2. i < b
      BY <1>1, <3>1
    <3>3. QED
      BY <3>1, <3>2
  <2>2. a \in below(b) /\ a \notin below(a)
    BY <1>1
  <2>3. IsFiniteSet(below(b))
    BY BelowIsFinite
  <2>4. Cardinality(below(b)) # Cardinality(below(a))
    <3>1. below(a) \in SUBSET below(b) /\ below(a) # below(b)
      BY <2>1, <2>2
    <3> HIDE DEF below
    <3>2. QED
      BY <3>1, <2>3, FS_Subset
  <2>5. QED
    BY <2>4 DEF Before
<1>2. m \in Nat /\ n \in Nat
  OBVIOUS
<1>3. CASE m < n
  BY <1>1, <1>2, <1>3
<1>4. CASE n < m
  BY <1>1, <1>2, <1>4
<1>5. QED
  BY <1>2, <1>3, <1>4

(* Numbers are naturals.                                                   *)
LEMMA BeforeType ==
  ASSUME NEW S \in SUBSET Nat, NEW n \in Nat
  PROVE  Before(S, n) \in Nat
BY BelowIsFinite, FS_CardinalityType DEF Before

-------------------------------------------------------------------------------
(* Extraction.                                                             *)

Fields == {"index", "side", "asset", "amount", "mode", "debt", "strict", "seen"}

(* The fields of a leg that came out of the database.                      *)
Flagged(leg) ==
  /\ DOMAIN leg = Fields
  /\ leg.debt \in BOOLEAN /\ leg.strict \in BOOLEAN /\ leg.seen \in BOOLEAN

(* A leg as extracted is unverified.                                       *)
Unverified(leg) == Flagged(leg) /\ leg.debt = FALSE

(* So is every leg Borrowed makes.                                         *)
LEMMA BorrowedIsUnverified ==
  \A n, side, asset, amount, mode : Unverified(Borrowed(n, side, asset, amount, mode))
BY DEF Unverified, Flagged, Fields, Borrowed

(* What is extracted comes from an official provider, and its legs are     *)
(* unverified.                                                             *)
LEMMA CandidateForm ==
  ASSUME NEW p \in Protocols, NEW t \in Txs, NEW c \in Candidates(p, t)
  PROVE  /\ c.provider \in Official[p]
         /\ c.ordinal \in Nat
         /\ \A leg \in c.legs : Unverified(leg)
<1>1. CASE Direct(p, t)
  <2>1. c = Called(t)
    BY <1>1 DEF Candidates
  <2>2. c.provider \in Official[p] /\ c.ordinal \in Nat
    BY <1>1, <2>1 DEF Called, Direct
  <2>3. \A leg \in CalledLegs(t) : Unverified(leg)
    <3>1. CASE t.call.abi = "uniswap"
      BY <3>1, BorrowedIsUnverified DEF CalledLegs, SwapLegs
    <3>2. CASE t.call.abi # "uniswap"
      BY <3>2, BorrowedIsUnverified DEF CalledLegs, LoanLegs
    <3>3. QED
      BY <3>1, <3>2
  <2>4. QED
    BY <2>1, <2>2, <2>3 DEF Called
<1>2. CASE ~Direct(p, t)
  <2>1. p = "balancer" /\ c \in Grouped(t)
    BY <1>2 DEF Candidates
  <2>2. PICK n \in Leaders(t) :
          c = [ordinal  |-> Before(Leaders(t), n),
               provider |-> t.log[n].emitter,
               receiver |-> t.log[n].receiver,
               data     |-> FALSE,
               legs     |-> {Borrowed(Before(Group(t, n), m), None, t.log[m].asset,
                                      t.log[m].amount, 0) : m \in Group(t, n)}]
    BY <2>1 DEF Grouped
  <2>3. t.log[n].emitter \in Official["balancer"]
    BY DEF Leaders, VaultEvents
  <2>4. Leaders(t) \in SUBSET Nat
    BY DetectionAssumption DEF Leaders, VaultEvents
  <2>5. Before(Leaders(t), n) \in Nat
    BY <2>4, BeforeType
  <2>6. QED
    BY <2>1, <2>2, <2>3, <2>5, BorrowedIsUnverified
<1>3. QED
  BY <1>1, <1>2

(* No two interactions of a transaction share an ordinal, on which their   *)
(* ids are built.                                                          *)
LEMMA OrdinalsDistinct ==
  ASSUME NEW p \in Protocols, NEW t \in Txs,
         NEW c \in Candidates(p, t), NEW d \in Candidates(p, t), c.ordinal = d.ordinal
  PROVE  c = d
<1>1. CASE Direct(p, t)
  BY <1>1 DEF Candidates
<1>2. CASE ~Direct(p, t)
  <2> DEFINE interaction(n) ==
        [ordinal  |-> Before(Leaders(t), n),
         provider |-> t.log[n].emitter,
         receiver |-> t.log[n].receiver,
         data     |-> FALSE,
         legs     |-> {Borrowed(Before(Group(t, n), m), None, t.log[m].asset,
                                t.log[m].amount, 0) : m \in Group(t, n)}]
  <2>1. c \in Grouped(t) /\ d \in Grouped(t)
    BY <1>2 DEF Candidates
  <2>2. PICK m \in Leaders(t) : c = interaction(m)
    BY <2>1 DEF Grouped
  <2>3. PICK n \in Leaders(t) : d = interaction(n)
    BY <2>1 DEF Grouped
  <2>4. Leaders(t) \in SUBSET Nat
    BY DetectionAssumption DEF Leaders, VaultEvents
  <2>5. Before(Leaders(t), m) = Before(Leaders(t), n)
    <3>1. interaction(m).ordinal = Before(Leaders(t), m) /\ interaction(n).ordinal = Before(Leaders(t), n)
      OBVIOUS
    <3>2. QED
      BY <3>1, <2>2, <2>3
  <2>6. m = n
    BY <2>4, <2>5, BeforeSeparates
  <2>7. QED
    BY <2>2, <2>3, <2>6
<1>3. QED
  BY <1>1, <1>2

-------------------------------------------------------------------------------
(* Verification.                                                           *)

(* A strict interaction has an event without debt behind each of its legs, *)
(* or a Swap event behind all of them.                                     *)
Backed(p, t, c, row, L) ==
  row.strict =>
    /\ t.ok
    /\ c.provider \in Official[p]
    /\ p = "uniswap" => \E n \in DOMAIN t.log : \A leg \in L : Tells(p, t, c, leg, n)
    /\ p # "uniswap" =>
         \A leg \in L : \E n \in DOMAIN t.log :
           Tells(p, t, c, leg, n) /\ (p = "aave" => t.log[n].mode = 0)

(* What a verifier may write about the interaction c.                      *)
Sound(p, t, c, row, L) ==
  /\ Coherent(row, L)
  /\ Backed(p, t, c, row, L)
  /\ Loaned(L) = Loaned(c.legs)
  /\ \A leg \in L : Flagged(leg)

(* An interaction without a verdict is sound with the legs extracted.      *)
LEMMA UnverdictedIsSound ==
  ASSUME NEW p \in Protocols, NEW t \in Txs, NEW c \in Candidates(p, t),
         NEW row \in Results, ~row.verified, ~row.strict, ~row.debt
  PROVE  Sound(p, t, c, row, c.legs)
BY CandidateForm DEF Sound, Coherent, Backed, Unverified

(* What SeenLeg leaves alone, and the flags it sets.                       *)
LEMMA SeenLegForm ==
  ASSUME NEW p, NEW t, NEW c, NEW leg, Unverified(leg)
  PROVE  LET l == SeenLeg(p, t, c, leg)
             mode == IF p = "aave" THEN t.log[First(Reports(p, t, c, leg))].mode ELSE 0
         IN /\ Flagged(l)
            /\ l.index = leg.index /\ l.side = leg.side
            /\ l.asset = leg.asset /\ l.amount = leg.amount
            /\ l.mode = mode
            /\ mode = 0 => l.strict = TRUE /\ l.seen = TRUE /\ l.debt = FALSE
            /\ mode # 0 => l.debt = TRUE
BY DEF SeenLeg, Unverified, Flagged, Fields

SameLoan(l, leg) ==
  /\ l.index = leg.index /\ l.side = leg.side
  /\ l.asset = leg.asset /\ l.amount = leg.amount

(* Legs that differ in their flags and modes only are the same loans.      *)
LEMMA SameLoans ==
  ASSUME NEW L, NEW M,
         \A l \in L : \E m \in M : SameLoan(l, m),
         \A m \in M : \E l \in L : SameLoan(l, m)
  PROVE  Loaned(L) = Loaned(M)
BY DEF Loaned, SameLoan

(* Legs with the same loans are in correspondence.                         *)
LEMMA SameLoansBack ==
  ASSUME NEW L, NEW M, Loaned(L) = Loaned(M), NEW l \in L
  PROVE  \E m \in M : SameLoan(l, m)
<1> DEFINE loan(leg) == [index |-> leg.index, side |-> leg.side, asset |-> leg.asset,
                         amount |-> leg.amount]
<1>1. loan(l) \in Loaned(M)
  BY DEF Loaned
<1>2. PICK m \in M : loan(l) = loan(m)
  BY <1>1 DEF Loaned
<1>3. \A leg : /\ loan(leg).index = leg.index /\ loan(leg).side = leg.side
               /\ loan(leg).asset = leg.asset /\ loan(leg).amount = leg.amount
  OBVIOUS
<1> HIDE DEF loan
<1>4. SameLoan(l, m)
  BY <1>2, <1>3 DEF SameLoan
<1>5. QED
  BY <1>4

(* An exclusion has its reason and nothing else.                           *)
LEMMA ExclusionForm ==
  ASSUME NEW why \in {"transaction_not_successful", "empty_swap_data", "missing_event",
                      "event_mismatch"},
         NEW row, row = [Fresh EXCEPT !.reason = why]
  PROVE  row \in Results /\ ~row.verified /\ ~row.strict /\ ~row.debt
<1>1. Fresh \in Results
  BY DEF Fresh, Results
<1>2. row \in Results
  BY <1>1 DEF Results
<1>3. ~row.verified /\ ~row.strict /\ ~row.debt
  BY DEF Fresh
<1>4. QED
  BY <1>2, <1>3

(* The verdict on events is sound; one that verifies is strict unless debt *)
(* was opened.                                                             *)
LEMMA EventVerdictSound ==
  ASSUME NEW p \in Protocols, NEW t \in Txs, NEW c \in Candidates(p, t),
         NEW v, v = EventVerdict(p, t, c, c.legs)
  PROVE  /\ v = [result |-> v.result, legs |-> v.legs, nil |-> v.nil]
         /\ v.result \in Results
         /\ Sound(p, t, c, v.result, IF v.nil THEN c.legs ELSE v.legs)
         /\ v.result.verified => ~v.nil /\ (v.result.strict <=> ~v.result.debt)
<1> DEFINE read == p = "uniswap" => c.data
           found == Emitted(p, t, c) # {}
           matched == Matched(p, t, c, c.legs)
<1>1. CASE ~t.ok
  <2>1. v = ExcludedUnread("transaction_not_successful")
    BY <1>1 DEF EventVerdict
  <2>2. v.result \in Results /\ v.nil /\ ~v.result.verified /\ ~v.result.strict /\ ~v.result.debt
    <3>1. v.result = [Fresh EXCEPT !.reason = "transaction_not_successful"] /\ v.nil
      BY <2>1 DEF ExcludedUnread
    <3>2. QED
      BY <3>1, ExclusionForm
  <2>3. QED
    BY <2>1, <2>2, UnverdictedIsSound DEF ExcludedUnread
<1>2. CASE t.ok /\ ~read
  <2>1. v = ExcludedUnread("empty_swap_data")
    BY <1>2 DEF EventVerdict
  <2>2. v.result \in Results /\ v.nil /\ ~v.result.verified /\ ~v.result.strict /\ ~v.result.debt
    <3>1. v.result = [Fresh EXCEPT !.reason = "empty_swap_data"] /\ v.nil
      BY <2>1 DEF ExcludedUnread
    <3>2. QED
      BY <3>1, ExclusionForm
  <2>3. QED
    BY <2>1, <2>2, UnverdictedIsSound DEF ExcludedUnread
<1>3. CASE t.ok /\ read /\ ~(found /\ matched)
  <2>1. \E why \in {"missing_event", "event_mismatch"} : v = Excluded(why, c.legs)
    BY <1>3 DEF EventVerdict
  <2>2. /\ v.result \in Results /\ ~v.nil /\ v.legs = c.legs
        /\ ~v.result.verified /\ ~v.result.strict /\ ~v.result.debt
    <3>1. PICK why \in {"missing_event", "event_mismatch"} : v = Excluded(why, c.legs)
      BY <2>1
    <3>2. v.result = [Fresh EXCEPT !.reason = why] /\ ~v.nil /\ v.legs = c.legs
      BY <3>1 DEF Excluded
    <3>3. QED
      BY <3>2, ExclusionForm
  <2>3. QED
    BY <2>1, <2>2, UnverdictedIsSound DEF Excluded
<1>4. CASE t.ok /\ read /\ found /\ matched
  <2> DEFINE seen == {SeenLeg(p, t, c, leg) : leg \in c.legs}
             opened == \E leg \in seen : leg.mode # 0
             row == [verified |-> TRUE, strict |-> ~opened, callback |-> TRUE,
                     settled |-> TRUE, repaid |-> ~opened, debt |-> opened,
                     traced |-> FALSE, reason |-> None]
  <2>1. v = [result |-> row, legs |-> seen, nil |-> FALSE]
    BY <1>4 DEF EventVerdict
  <2>2. row \in Results
    BY DEF Results
  <2>3. ASSUME NEW leg \in c.legs
        PROVE  LET l == SeenLeg(p, t, c, leg)
               IN /\ Flagged(l) /\ SameLoan(l, leg)
                  /\ l.mode = 0 => l.strict /\ l.seen /\ ~l.debt
                  /\ l.mode # 0 => l.debt
    <3> DEFINE l == SeenLeg(p, t, c, leg)
               mode == IF p = "aave"
                       THEN t.log[First(Reports(p, t, c, leg))].mode ELSE 0
    <3>1. Unverified(leg)
      BY CandidateForm
    <3>2. /\ Flagged(l)
          /\ l.index = leg.index /\ l.side = leg.side
          /\ l.asset = leg.asset /\ l.amount = leg.amount
          /\ l.mode = mode
          /\ mode = 0 => l.strict = TRUE /\ l.seen = TRUE /\ l.debt = FALSE
          /\ mode # 0 => l.debt = TRUE
      BY <3>1, SeenLegForm
    <3>3. QED
      BY <3>2 DEF SameLoan
  <2>4. Coherent(row, seen)
    <3> HIDE DEF seen
    <3>1. \A l \in seen : (l.mode = 0 => l.strict /\ l.seen /\ ~l.debt) /\ (l.mode # 0 => l.debt)
      BY <2>3 DEF seen
    <3>2. QED
      BY <3>1 DEF Coherent
  <2>5. Loaned(seen) = Loaned(c.legs)
    BY <2>3, SameLoans
  <2>6. Backed(p, t, c, row, seen)
    <3>1. SUFFICES ASSUME ~opened
                   PROVE  Backed(p, t, c, row, seen)
      BY DEF Backed
    <3>2. c.provider \in Official[p]
      BY CandidateForm
    <3>3. p = "uniswap" => \E n \in DOMAIN t.log : \A l \in seen : Tells(p, t, c, l, n)
      <4>1. HAVE p = "uniswap"
      <4>2. PICK n \in Swaps(t, c, c.legs) : TRUE
        BY <1>4, <4>1 DEF Matched
      <4>3. \A leg \in c.legs : Tells(p, t, c, SeenLeg(p, t, c, leg), n)
        BY <2>3, <4>1, <4>2 DEF Swaps, Emitted, Tells, SameLoan
      <4>4. n \in DOMAIN t.log
        BY <4>2 DEF Swaps, Emitted
      <4>5. QED
        BY <4>3, <4>4
    <3>4. ASSUME p # "uniswap", NEW leg \in c.legs
          PROVE  \E n \in DOMAIN t.log :
                   /\ Tells(p, t, c, SeenLeg(p, t, c, leg), n)
                   /\ p = "aave" => t.log[n].mode = 0
      <4> DEFINE said == Reports(p, t, c, leg)
      <4>1. said \in SUBSET Nat /\ said # {}
        BY <1>4, <3>4, DetectionAssumption DEF Matched, Reports, Emitted
      <4>2. First(said) \in said
        BY <4>1, FirstIsIn
      <4>3. Tells(p, t, c, SeenLeg(p, t, c, leg), First(said))
        BY <2>3, <3>4, <4>2 DEF Reports, Emitted, Tells, SameLoan
      <4>4. p = "aave" => t.log[First(said)].mode = 0
        <5>1. SeenLeg(p, t, c, leg).mode = 0
          BY <3>1
        <5>2. Unverified(leg)
          BY CandidateForm
        <5>3. p = "aave" => SeenLeg(p, t, c, leg).mode = t.log[First(said)].mode
          BY <5>2, SeenLegForm
        <5>4. QED
          BY <5>1, <5>3
      <4>5. First(said) \in DOMAIN t.log
        BY <4>2 DEF Reports, Emitted
      <4>6. QED
        BY <4>3, <4>4, <4>5
    <3>5. QED
      BY <1>4, <3>2, <3>3, <3>4 DEF Backed
  <2>7. \A l \in seen : Flagged(l)
    BY <2>3
  <2>8. Sound(p, t, c, row, seen)
    BY <2>4, <2>5, <2>6, <2>7 DEF Sound
  <2>9. row.strict <=> ~row.debt
    OBVIOUS
  <2> HIDE DEF row, seen
  <2>10. QED
    BY <2>1, <2>2, <2>8, <2>9
<1>5. QED
  BY <1>1, <1>2, <1>3, <1>4

(* A trace takes from the verdict on events and adds nothing to it: it     *)
(* stays sound, debt is what it was, and strict is not gained.             *)
LEMMA TraceVerdictSound ==
  ASSUME NEW p, NEW t, NEW c, NEW v,
         v = [result |-> v.result, legs |-> v.legs, nil |-> v.nil],
         v.result \in Results,
         Sound(p, t, c, v.result, v.legs),
         v.result.verified,
         v.result.strict <=> ~v.result.debt,
         NEW frames, NEW w, w = TraceVerdict(c, v, frames)
  PROVE  /\ w = [result |-> w.result, legs |-> w.legs, nil |-> v.nil]
         /\ w.result \in Results
         /\ Sound(p, t, c, w.result, w.legs)
         /\ w.result.strict => v.result.strict
         /\ w.result.debt = v.result.debt
<1> DEFINE called == CallbackSeen(c, frames)
           repaid == RepaymentSeen(c, v.legs, frames)
           seen == [v.result EXCEPT !.callback = called, !.settled = called,
                                    !.repaid = repaid /\ ~v.result.debt,
                                    !.traced = called \/ v.result.debt]
<1>1. called \in BOOLEAN /\ repaid \in BOOLEAN
  BY DEF CallbackSeen, RepaymentSeen
<1>2. /\ seen \in Results
      /\ seen.verified = v.result.verified /\ seen.strict = v.result.strict
      /\ seen.debt = v.result.debt /\ seen.reason = v.result.reason
      /\ seen.callback = called /\ seen.settled = called
      /\ seen.repaid = (repaid /\ ~v.result.debt)
  <2> HIDE DEF called, repaid
  <2>1. QED
    BY <1>1 DEF Results
<1>3. v.result.debt \in BOOLEAN /\ v.result.reason = None
  BY DEF Results, Sound, Coherent
<1> HIDE DEF seen, called, repaid
<1>4. CASE v.result.debt
  <2>1. w = [v EXCEPT !.result = [seen EXCEPT !.strict = FALSE]]
    BY <1>4 DEF TraceVerdict, seen, called, repaid
  <2>2. w.result = [seen EXCEPT !.strict = FALSE] /\ w.legs = v.legs
        /\ w = [result |-> w.result, legs |-> w.legs, nil |-> v.nil]
    BY <2>1
  <2>3. /\ w.result \in Results /\ ~w.result.strict
        /\ w.result.debt = v.result.debt /\ w.result.reason = None
    BY <1>2, <1>3, <2>2 DEF Results
  <2>4. QED
    BY <2>2, <2>3 DEF Sound, Coherent, Backed
<1>5. CASE ~v.result.debt /\ ~called
  <2> DEFINE row == [seen EXCEPT !.verified = FALSE, !.strict = FALSE,
                                 !.reason = "missing_trace_callback"]
  <2>1. w = [v EXCEPT !.result = row]
    BY <1>5 DEF TraceVerdict, seen, called, repaid
  <2>2. /\ row \in Results /\ ~row.strict /\ ~row.verified /\ row.debt = v.result.debt
    BY <1>2, <1>3 DEF Results
  <2> HIDE DEF row
  <2>3. w = [result |-> row, legs |-> v.legs, nil |-> v.nil]
    BY <2>1
  <2>4. QED
    BY <2>2, <2>3 DEF Sound, Coherent, Backed
<1>6. CASE ~v.result.debt /\ called /\ ~repaid
  <2> DEFINE row == [seen EXCEPT !.strict = FALSE]
  <2>1. w = [v EXCEPT !.result = row]
    BY <1>6 DEF TraceVerdict, seen, called, repaid
  <2>2. row \in Results /\ ~row.strict /\ row.debt = v.result.debt /\ row.reason = None
    BY <1>2, <1>3 DEF Results
  <2> HIDE DEF row
  <2>3. w = [result |-> row, legs |-> v.legs, nil |-> v.nil]
    BY <2>1
  <2>4. QED
    BY <2>2, <2>3 DEF Sound, Coherent, Backed
<1>7. CASE ~v.result.debt /\ called /\ repaid
  <2> DEFINE row == [seen EXCEPT !.strict = TRUE]
             marked(leg) == [leg EXCEPT !.seen = TRUE, !.strict = @ \/ ~leg.debt]
  <2>1. w = [v EXCEPT !.result = row, !.legs = Annotated(v.legs)]
    BY <1>7 DEF TraceVerdict, seen, called, repaid
  <2>2. /\ row \in Results /\ row.strict /\ row.debt = v.result.debt /\ row.reason = None
        /\ row.verified /\ row.callback /\ row.settled /\ row.repaid
    BY <1>2, <1>3, <1>7 DEF Results
  <2> HIDE DEF row
  <2>3. w = [result |-> row, legs |-> Annotated(v.legs), nil |-> v.nil]
    BY <2>1
  <2>4. ASSUME NEW leg \in v.legs
        PROVE  /\ Flagged(marked(leg)) /\ SameLoan(marked(leg), leg)
               /\ marked(leg).seen /\ marked(leg).strict /\ ~marked(leg).debt
    <3>1. Flagged(leg) /\ ~leg.debt
      BY <1>7 DEF Sound, Coherent
    <3>2. QED
      BY <3>1 DEF Flagged, Fields, SameLoan
  <2>5. Annotated(v.legs) = {marked(leg) : leg \in v.legs}
    BY DEF Annotated
  <2> HIDE DEF marked
  <2>6. Coherent(row, Annotated(v.legs))
    BY <1>7, <2>2, <2>4, <2>5 DEF Coherent
  <2>7. Loaned(Annotated(v.legs)) = Loaned(c.legs)
    BY <2>4, <2>5, SameLoans DEF Sound
  <2>8. Backed(p, t, c, row, Annotated(v.legs))
    <3>1. \A leg \in v.legs : \A n : Tells(p, t, c, leg, n) => Tells(p, t, c, marked(leg), n)
      BY <2>4 DEF Tells, SameLoan
    <3>2. QED
      BY <1>7, <2>5, <3>1 DEF Sound, Backed
  <2>9. \A l \in Annotated(v.legs) : Flagged(l)
    BY <2>4, <2>5
  <2>10. Sound(p, t, c, row, Annotated(v.legs))
    BY <2>6, <2>7, <2>8, <2>9 DEF Sound
  <2>11. QED
    BY <1>7, <2>2, <2>3, <2>10
<1>8. QED
  BY <1>1, <1>4, <1>5, <1>6, <1>7

-------------------------------------------------------------------------------
(* The inductive invariant: every verdict in the tables and in hand is     *)
(* sound for its interaction.  An interaction still to do has the legs     *)
(* that were extracted, which is what the verifiers are right about.       *)

Ordinals == {c.ordinal : c \in Candidates(protocol, tx)}

World == protocol \in Protocols /\ tx \in Txs

Tables ==
  /\ DOMAIN legs = DOMAIN rows
  /\ DOMAIN rows \subseteq Ordinals
  /\ \A o \in DOMAIN rows : /\ rows[o] \in Results
                            /\ Sound(protocol, tx, Candidate(o), rows[o], legs[o])

Work ==
  /\ pc \in {"idle", "extract", "verify", "trace", "save", "done", "failed"}
  /\ todo \subseteq DOMAIN rows
  /\ pc = "verify" => todo # {}
  /\ pc \in {"trace", "save"} => cur \in todo
  /\ \A o \in todo : legs[o] = Candidate(o).legs

(* The legs the interaction will have when the verdict is saved.           *)
LegsInHand == IF verdict.nil THEN Candidate(cur).legs ELSE verdict.legs

InHand ==
  pc \in {"trace", "save"} =>
    /\ verdict = [result |-> verdict.result, legs |-> verdict.legs, nil |-> verdict.nil]
    /\ verdict.result \in Results
    /\ Sound(protocol, tx, Candidate(cur), verdict.result, LegsInHand)

AtTrace ==
  pc = "trace" =>
    /\ verdict.result.verified
    /\ ~verdict.nil
    /\ verdict.result.strict <=> ~verdict.result.debt

Asked == answers \in 0 .. 1 /\ (cache = None => answers = 0)

IInv == World /\ Tables /\ Work /\ InHand /\ AtTrace /\ Asked

(* Candidate finds the interaction of an ordinal, and no other has it.     *)
LEMMA CandidateOf ==
  ASSUME World, NEW o \in Ordinals
  PROVE  /\ Candidate(o) \in Candidates(protocol, tx)
         /\ Candidate(o).ordinal = o
         /\ \A c \in Candidates(protocol, tx) : c.ordinal = o => c = Candidate(o)
<1>1. \E c \in Candidates(protocol, tx) : c.ordinal = o
  BY DEF Ordinals
<1>2. Candidate(o) \in Candidates(protocol, tx) /\ Candidate(o).ordinal = o
  BY <1>1 DEF Candidate
<1>3. QED
  BY <1>2, OrdinalsDistinct DEF World

(* No table has a row yet.                                                 *)
LEMMA InitIInv == Init => IInv
<1> SUFFICES ASSUME Init PROVE IInv
  OBVIOUS
<1>1. DOMAIN rows = {} /\ DOMAIN legs = {}
  BY DEF Init
<1>2. World /\ InHand /\ AtTrace /\ Asked
  BY DEF Init, World, InHand, AtTrace, Asked
<1>3. Tables /\ Work
  BY <1>1 DEF Init, Tables, Work
<1>4. QED
  BY <1>2, <1>3 DEF IInv

(* The rows a scan begins with.                                            *)
LEMMA StoredIsSound ==
  ASSUME IInv, StoreCandidates
  PROVE  Tables' /\ Work'
<1> DEFINE stored(o) == IF o \in DOMAIN legs THEN legs[o] ELSE {}
<1>1. /\ DOMAIN rows' = Ordinals /\ DOMAIN legs' = Ordinals
      /\ \A o \in Ordinals : rows'[o] = Fresh
      /\ \A o \in Ordinals :
           legs'[o] = IF Candidate(o).legs = {} THEN stored(o) ELSE Candidate(o).legs
      /\ todo' = Ordinals /\ Ordinals # {} /\ pc' = "verify"
      /\ protocol' = protocol /\ tx' = tx
  BY DEF StoreCandidates, Ordinals, Goto, world
<1>2. Ordinals' = Ordinals /\ \A o : Candidate(o)' = Candidate(o)
  BY <1>1 DEF Ordinals, Candidate
<1>3. ASSUME NEW o \in Ordinals
      PROVE  legs'[o] = Candidate(o).legs
  <2>1. CASE Candidate(o).legs = {} /\ o \in DOMAIN legs
    <3>1. Loaned(legs[o]) = Loaned({})
      BY <2>1 DEF IInv, Tables, Sound
    <3>2. Loaned({}) = {}
      BY DEF Loaned
    <3>3. ASSUME NEW leg \in legs[o] PROVE FALSE
      <4>1. Loaned(legs[o]) # {}
        BY DEF Loaned
      <4>2. QED
        BY <3>1, <3>2, <4>1
    <3>4. legs[o] = {}
      BY <3>3
    <3>5. QED
      BY <1>1, <2>1, <3>4
  <2>2. CASE ~(Candidate(o).legs = {} /\ o \in DOMAIN legs)
    BY <1>1, <2>2
  <2>3. QED
    BY <2>1, <2>2
<1>4. ASSUME NEW o \in Ordinals
      PROVE  Sound(protocol, tx, Candidate(o), Fresh, Candidate(o).legs)
  <2>1. Fresh \in Results /\ ~Fresh.verified /\ ~Fresh.strict /\ ~Fresh.debt
    BY DEF Fresh, Results
  <2>2. protocol \in Protocols /\ tx \in Txs /\ Candidate(o) \in Candidates(protocol, tx)
    BY CandidateOf DEF IInv, World
  <2>3. QED
    BY <2>1, <2>2, UnverdictedIsSound
<1>5. Fresh \in Results
  BY DEF Fresh, Results
<1>6. Tables'
  BY <1>1, <1>2, <1>3, <1>4, <1>5 DEF Tables
<1>7. Work'
  BY <1>1, <1>2, <1>3 DEF Work
<1>8. QED
  BY <1>6, <1>7

(* The verdict a scan has in hand after the events.                        *)
LEMMA VerifiedIsSound ==
  ASSUME IInv, VerifyEvents
  PROVE  Work' /\ InHand' /\ AtTrace'
<1> DEFINE o == First(todo)
           v == EventVerdict(protocol, tx, Candidate(o), legs[o])
<1>1. /\ pc = "verify" /\ cur' = o /\ verdict' = v
      /\ pc' = (IF tracing /\ v.result.verified THEN "trace" ELSE "save")
      /\ protocol' = protocol /\ tx' = tx /\ rows' = rows /\ legs' = legs /\ todo' = todo
  BY DEF VerifyEvents, Goto, world, tables
<1>2. \A i : Candidate(i)' = Candidate(i)
  BY <1>1 DEF Candidate
<1>3. \A i \in Ordinals : i \in Nat
  BY CandidateForm DEF Ordinals, IInv, World
<1>4. o \in todo
  <2>1. todo \in SUBSET Nat /\ todo # {}
    BY <1>1, <1>3 DEF IInv, Tables, Work
  <2>2. QED
    BY <2>1, FirstIsIn
<1>5. /\ protocol \in Protocols /\ tx \in Txs
      /\ Candidate(o) \in Candidates(protocol, tx) /\ legs[o] = Candidate(o).legs
  BY <1>4, CandidateOf DEF IInv, World, Tables, Work
<1>6. /\ v = [result |-> v.result, legs |-> v.legs, nil |-> v.nil]
      /\ v.result \in Results
      /\ Sound(protocol, tx, Candidate(o), v.result, IF v.nil THEN Candidate(o).legs ELSE v.legs)
      /\ v.result.verified => ~v.nil /\ (v.result.strict <=> ~v.result.debt)
  <2> HIDE DEF o
  <2>1. QED
    BY <1>5, EventVerdictSound
<1> HIDE DEF o, v
<1>7. Work'
  BY <1>1, <1>2, <1>4 DEF IInv, Work
<1>8. InHand'
  BY <1>1, <1>2, <1>6 DEF InHand, LegsInHand
<1>9. AtTrace'
  BY <1>1, <1>6 DEF AtTrace
<1>10. QED
  BY <1>7, <1>8, <1>9

(* The verdict after a trace, whichever it is.                             *)
LEMMA TracedIsSound ==
  ASSUME IInv, pc = "trace", NEW frames, NEW w,
         w = TraceVerdict(Candidate(cur), verdict, frames)
  PROVE  /\ w = [result |-> w.result, legs |-> w.legs, nil |-> verdict.nil]
         /\ w.result \in Results
         /\ Sound(protocol, tx, Candidate(cur), w.result, w.legs)
         /\ w.result.strict => verdict.result.strict
         /\ w.result.debt = verdict.result.debt
         /\ verdict.result.verified /\ ~verdict.nil
<1>1. /\ verdict = [result |-> verdict.result, legs |-> verdict.legs, nil |-> verdict.nil]
      /\ verdict.result \in Results
      /\ Sound(protocol, tx, Candidate(cur), verdict.result, verdict.legs)
      /\ verdict.result.verified /\ ~verdict.nil
      /\ verdict.result.strict <=> ~verdict.result.debt
  BY DEF IInv, InHand, LegsInHand, AtTrace
<1>2. QED
  BY <1>1, TraceVerdictSound

(* The steps that trace leave the tables alone and put a sound verdict in  *)
(* hand.                                                                   *)
LEMMA TracingIsSound ==
  ASSUME IInv, pc = "trace", NEW frames,
         verdict' = TraceVerdict(Candidate(cur), verdict, frames),
         pc' = "save", UNCHANGED <<world, tables, todo, cur>>
  PROVE  World' /\ Tables' /\ Work' /\ InHand' /\ AtTrace'
<1>1. /\ protocol' = protocol /\ tx' = tx /\ rows' = rows /\ legs' = legs
      /\ todo' = todo /\ cur' = cur
  BY DEF world, tables
<1>2. Ordinals' = Ordinals /\ \A o : Candidate(o)' = Candidate(o)
  BY <1>1 DEF Ordinals, Candidate
<1>3. World' /\ Tables'
  BY <1>1, <1>2 DEF IInv, World, Tables
<1>4. Work'
  BY <1>1, <1>2 DEF IInv, Work
<1>5. /\ verdict' = [result |-> verdict'.result, legs |-> verdict'.legs, nil |-> verdict.nil]
      /\ verdict'.result \in Results
      /\ Sound(protocol, tx, Candidate(cur), verdict'.result, verdict'.legs)
      /\ ~verdict.nil
  BY TracedIsSound
<1>6. ~verdict'.nil
  BY <1>5
<1>7. InHand'
  BY <1>1, <1>2, <1>5, <1>6 DEF InHand, LegsInHand
<1>8. QED
  BY <1>3, <1>4, <1>7 DEF AtTrace

(* What is saved.                                                          *)
LEMMA SavedIsSound ==
  ASSUME IInv, Save
  PROVE  Tables' /\ Work'
<1>1. /\ pc = "save" /\ pc' \in {"done", "verify"} /\ (pc' = "verify" => todo # {cur})
      /\ rows' = [rows EXCEPT ![cur] = verdict.result]
      /\ legs' = [legs EXCEPT ![cur] = IF verdict.nil THEN @ ELSE verdict.legs]
      /\ todo' = todo \ {cur}
      /\ protocol' = protocol /\ tx' = tx
  BY DEF Save, Goto, world
<1>2. Ordinals' = Ordinals /\ \A o : Candidate(o)' = Candidate(o)
  BY <1>1 DEF Ordinals, Candidate
<1>3. /\ cur \in todo /\ cur \in DOMAIN rows /\ cur \in DOMAIN legs
      /\ legs[cur] = Candidate(cur).legs
  BY <1>1 DEF IInv, Tables, Work
<1>4. /\ DOMAIN rows' = DOMAIN rows /\ DOMAIN legs' = DOMAIN legs
      /\ rows'[cur] = verdict.result /\ legs'[cur] = LegsInHand
      /\ \A o \in DOMAIN rows : o # cur => rows'[o] = rows[o]
      /\ \A o \in DOMAIN legs : o # cur => legs'[o] = legs[o]
  BY <1>1, <1>3 DEF LegsInHand
<1>5. /\ verdict.result \in Results
      /\ Sound(protocol, tx, Candidate(cur), verdict.result, LegsInHand)
  BY <1>1 DEF IInv, InHand
<1>6. Tables'
  BY <1>1, <1>2, <1>4, <1>5 DEF IInv, Tables
<1>7. Work'
  BY <1>1, <1>2, <1>3, <1>4 DEF IInv, Tables, Work
<1>8. QED
  BY <1>6, <1>7

(* Every step keeps the invariant.                                         *)
LEMMA StepIInv ==
  ASSUME IInv, [Next]_vars
  PROVE  IInv'
<1>1. CASE Start \/ ExtractFails \/ NothingFound
  <2>1. /\ protocol' = protocol /\ tx' = tx /\ rows' = rows /\ legs' = legs /\ todo' = todo
        /\ pc' \in {"extract", "failed", "done"}
    BY <1>1 DEF Start, ExtractFails, NothingFound, Goto, world, tables
  <2>2. Ordinals' = Ordinals /\ \A o : Candidate(o)' = Candidate(o)
    BY <2>1 DEF Ordinals, Candidate
  <2>3. World' /\ Tables' /\ InHand' /\ AtTrace'
    BY <2>1, <2>2 DEF IInv, World, Tables, InHand, AtTrace
  <2>4. Work'
    BY <2>1, <2>2 DEF IInv, Work
  <2>5. Asked'
    BY <1>1 DEF IInv, Asked, Start, ExtractFails, NothingFound
  <2>6. QED
    BY <2>3, <2>4, <2>5 DEF IInv
<1>2. CASE StoreCandidates
  <2>1. Tables' /\ Work'
    BY <1>2, StoredIsSound
  <2>2. World' /\ InHand' /\ AtTrace' /\ Asked'
    BY <1>2 DEF StoreCandidates, Goto, world, IInv, World, InHand, AtTrace, Asked
  <2>3. QED
    BY <2>1, <2>2 DEF IInv
<1>3. CASE VerifyEvents
  <2>1. Work' /\ InHand' /\ AtTrace'
    BY <1>3, VerifiedIsSound
  <2>2. /\ protocol' = protocol /\ tx' = tx /\ rows' = rows /\ legs' = legs
        /\ cache' = cache /\ answers' = answers
    BY <1>3 DEF VerifyEvents, world, tables
  <2>3. World' /\ Tables' /\ Asked'
    BY <2>2 DEF IInv, World, Tables, Asked, Ordinals, Candidate
  <2>4. QED
    BY <2>1, <2>3 DEF IInv
<1>4. CASE TraceCached
  <2>1. /\ pc = "trace" /\ pc' = "save" /\ cache' = cache /\ answers' = answers
        /\ verdict' = TraceVerdict(Candidate(cur), verdict, cache)
        /\ UNCHANGED <<world, tables, todo, cur>>
    BY <1>4 DEF TraceCached, Goto
  <2>2. World' /\ Tables' /\ Work' /\ InHand' /\ AtTrace'
    BY <2>1, TracingIsSound
  <2>3. QED
    BY <2>1, <2>2 DEF IInv, Asked
<1>5. CASE TraceAnswered
  <2>1. /\ pc = "trace" /\ pc' = "save" /\ cache = None /\ answers' = answers + 1
        /\ UNCHANGED <<world, tables, todo, cur>>
    BY <1>5 DEF TraceAnswered, Goto
  <2>2. PICK frames \in {tx.frames, {}} :
          cache' = frames /\ verdict' = TraceVerdict(Candidate(cur), verdict, frames)
    BY <1>5 DEF TraceAnswered
  <2>3. World' /\ Tables' /\ Work' /\ InHand' /\ AtTrace'
    BY <2>1, <2>2, TracingIsSound
  <2>4. Asked'
    BY <2>1, <2>2, DetectionAssumption DEF IInv, World, Asked
  <2>5. QED
    BY <2>3, <2>4 DEF IInv
<1>6. CASE TraceUnavailable
  <2>1. /\ protocol' = protocol /\ tx' = tx /\ rows' = rows /\ legs' = legs /\ todo' = todo
        /\ cur' = cur /\ verdict' = verdict /\ cache' = cache /\ answers' = answers
        /\ pc = "trace" /\ pc' = "save"
    BY <1>6 DEF TraceUnavailable, Goto, world, tables
  <2>2. Ordinals' = Ordinals /\ \A o : Candidate(o)' = Candidate(o)
    BY <2>1 DEF Ordinals, Candidate
  <2>3. World' /\ Tables' /\ Asked' /\ AtTrace'
    BY <2>1, <2>2 DEF IInv, World, Tables, Asked, AtTrace
  <2>4. Work' /\ InHand'
    BY <2>1, <2>2 DEF IInv, Work, InHand, LegsInHand
  <2>5. QED
    BY <2>3, <2>4 DEF IInv
<1>7. CASE TraceFails
  <2>1. /\ protocol' = protocol /\ tx' = tx /\ rows' = rows /\ legs' = legs /\ todo' = todo
        /\ cache' = cache /\ answers' = answers /\ pc' = "failed"
    BY <1>7 DEF TraceFails, Goto, world, tables
  <2>2. Ordinals' = Ordinals /\ \A o : Candidate(o)' = Candidate(o)
    BY <2>1 DEF Ordinals, Candidate
  <2>3. QED
    BY <2>1, <2>2 DEF IInv, World, Tables, Work, Asked, AtTrace, InHand
<1>8. CASE Save
  <2>1. Tables' /\ Work'
    BY <1>8, SavedIsSound
  <2>2. World' /\ InHand' /\ AtTrace' /\ Asked'
    BY <1>8 DEF Save, Goto, world, IInv, World, InHand, AtTrace, Asked
  <2>3. QED
    BY <2>1, <2>2 DEF IInv
<1>9. CASE UNCHANGED vars
  <2>1. /\ protocol' = protocol /\ tx' = tx /\ rows' = rows /\ legs' = legs /\ todo' = todo
        /\ cur' = cur /\ verdict' = verdict /\ cache' = cache /\ answers' = answers /\ pc' = pc
    BY <1>9 DEF vars, world, tables, locals
  <2>2. Ordinals' = Ordinals /\ \A o : Candidate(o)' = Candidate(o)
    BY <2>1 DEF Ordinals, Candidate
  <2>3. QED
    BY <2>1, <2>2 DEF IInv, World, Tables, Work, Asked, AtTrace, InHand, LegsInHand
<1>10. QED
  BY <1>1, <1>2, <1>3, <1>4, <1>5, <1>6, <1>7, <1>8, <1>9 DEF Next

(* The parts of the invariant together hold in every state.                *)
THEOREM InvariantHolds == Spec => []IInv
<1>1. Init => IInv
  BY InitIInv
<1>2. IInv /\ [Next]_vars => IInv'
  BY StepIInv
<1>3. QED
  BY <1>1, <1>2, PTL DEF Spec

-------------------------------------------------------------------------------
(* The theorems.                                                           *)

(* A row about an interaction is sound for it.                             *)
LEMMA RowsAreSound ==
  ASSUME IInv, NEW c \in Candidates(protocol, tx), c.ordinal \in DOMAIN rows
  PROVE  Sound(protocol, tx, c, rows[c.ordinal], legs[c.ordinal])
<1>1. c.ordinal \in Ordinals
  BY DEF Ordinals
<1>2. c = Candidate(c.ordinal)
  BY <1>1, CandidateOf DEF IInv
<1>3. QED
  BY <1>2 DEF IInv, Tables

(* An event that tells of a leg tells of the leg that was extracted.       *)
LEMMA ToldOfBoth ==
  ASSUME NEW p, NEW t, NEW c, NEW l, NEW leg, SameLoan(l, leg), NEW n
  PROVE  Tells(p, t, c, l, n) <=> Tells(p, t, c, leg, n)
BY DEF Tells, SameLoan

(* Where no leg has a look-alike, the events that back a strict Aave loan  *)
(* are all without debt, and so was the call.                              *)
LEMMA BackedWithoutDebt ==
  ASSUME NEW t, NEW c, NEW row, row.strict, NEW L, Backed("aave", t, c, row, L),
         Loaned(L) = Loaned(c.legs), ~LookAlike(t, c)
  PROVE  /\ WithoutDebt(c)
         /\ \A leg \in L : \A n \in DOMAIN t.log :
              Tells("aave", t, c, leg, n) => t.log[n].mode = 0
<1>1. ASSUME NEW leg \in c.legs
      PROVE  leg.mode = 0
  <2>1. PICK l \in L : SameLoan(leg, l)
    BY SameLoansBack
  <2>2. PICK n \in DOMAIN t.log : Tells("aave", t, c, l, n) /\ t.log[n].mode = 0
    BY DEF Backed
  <2>3. Tells("aave", t, c, leg, n)
    BY <2>1, <2>2, ToldOfBoth
  <2>4. QED
    BY <2>2, <2>3 DEF LookAlike
<1>2. ASSUME NEW l \in L, NEW n \in DOMAIN t.log, Tells("aave", t, c, l, n)
      PROVE  t.log[n].mode = 0
  <2>1. PICK leg \in c.legs : SameLoan(l, leg)
    BY SameLoansBack
  <2>2. Tells("aave", t, c, leg, n)
    BY <1>2, <2>1, ToldOfBoth
  <2>3. QED
    BY <1>1, <2>2 DEF LookAlike
<1>3. QED
  BY <1>1, <1>2 DEF WithoutDebt

(* Every strict interaction in the tables is backed by the events of an    *)
(* official provider, and but for look-alikes by nothing that tells of     *)
(* debt: what the verifiers promise to the summaries.                      *)
THEOREM StrictAlwaysBacked == Spec => []StrictIsBacked
<1>1. ASSUME IInv, NEW c \in Candidates(protocol, tx), c.ordinal \in DOMAIN rows,
             rows[c.ordinal].strict
      PROVE  /\ tx.ok
             /\ c.provider \in Official[protocol]
             /\ Told(protocol, tx, c, legs[c.ordinal])
             /\ protocol = "aave" /\ ~LookAlike(tx, c) =>
                  /\ WithoutDebt(c)
                  /\ \A leg \in legs[c.ordinal] : \A n \in DOMAIN tx.log :
                       Tells("aave", tx, c, leg, n) => tx.log[n].mode = 0
  <2> DEFINE row == rows[c.ordinal]
             L == legs[c.ordinal]
  <2>1. Backed(protocol, tx, c, row, L) /\ Loaned(L) = Loaned(c.legs)
    BY <1>1, RowsAreSound DEF Sound
  <2>2. row.strict
    BY <1>1
  <2> HIDE DEF row, L
  <2>3. tx.ok /\ c.provider \in Official[protocol] /\ Told(protocol, tx, c, L)
    BY <2>1, <2>2 DEF Backed, Told
  <2>4. protocol = "aave" /\ ~LookAlike(tx, c) =>
          /\ WithoutDebt(c)
          /\ \A leg \in L : \A n \in DOMAIN tx.log :
               Tells("aave", tx, c, leg, n) => tx.log[n].mode = 0
    BY <2>1, <2>2, BackedWithoutDebt
  <2>5. QED
    BY <2>3, <2>4 DEF L
<1>2. IInv => StrictIsBacked
  BY <1>1 DEF StrictIsBacked
<1>3. QED
  BY <1>2, InvariantHolds, PTL

(* The columns UpdateVerificationResult writes and the flags that          *)
(* ReplaceInteractionLegs writes always agree.                             *)
THEOREM VerdictsAlwaysCoherent == Spec => []VerdictCoherent
<1>1. IInv => VerdictCoherent
  BY DEF IInv, Tables, Sound, VerdictCoherent
<1>2. QED
  BY <1>1, InvariantHolds, PTL

(* Deleting and inserting the legs of an interaction anew never loses or   *)
(* changes a loan.                                                         *)
THEOREM LegsAlwaysAsExtracted == Spec => []LegsAsExtracted
<1>1. IInv => LegsAsExtracted
  BY RowsAreSound DEF LegsAsExtracted, Sound, IInv, Tables
<1>2. QED
  BY <1>1, InvariantHolds, PTL

(* CachedProvider spares the node a second question.                       *)
THEOREM NodeAlwaysAskedOnce == Spec => []NodeAskedOnce
<1>1. IInv => NodeAskedOnce
  BY DEF IInv, Asked, NodeAskedOnce
<1>2. QED
  BY <1>1, InvariantHolds, PTL

(* Verifying on a trace only lowers the verdict on events.                 *)
THEOREM TracesOnlyLower == Spec => TraceOnlyLowers
<1> DEFINE Lowers ==
      pc = "trace" /\ pc' = "save" =>
        /\ verdict'.result.verified => verdict.result.verified
        /\ verdict'.result.strict => verdict.result.strict
        /\ verdict'.result.debt = verdict.result.debt
<1>1. ASSUME IInv, Next
      PROVE  Lowers
  <2>1. SUFFICES ASSUME pc = "trace", pc' = "save"
                 PROVE  /\ verdict'.result.verified => verdict.result.verified
                        /\ verdict'.result.strict => verdict.result.strict
                        /\ verdict'.result.debt = verdict.result.debt
    OBVIOUS
  <2>2. CASE TraceUnavailable
    BY <2>2 DEF TraceUnavailable
  <2>3. CASE TraceCached \/ TraceAnswered
    <3>1. PICK frames : verdict' = TraceVerdict(Candidate(cur), verdict, frames)
      BY <2>3 DEF TraceCached, TraceAnswered
    <3>2. QED
      BY <1>1, <2>1, <3>1, TracedIsSound
  <2>4. QED
    BY <1>1, <2>1, <2>2, <2>3
    DEF Next, Start, ExtractFails, NothingFound, StoreCandidates, VerifyEvents,
        TraceFails, Save, Goto
<1>2. IInv /\ [Next]_vars => [Lowers]_vars
  BY <1>1
<1>3. QED
  BY <1>2, InvariantHolds, PTL DEF Spec, TraceOnlyLowers

-------------------------------------------------------------------------------
(* The types, the events, and the verdicts.                                *)


(* The place and the side of a leg, as leg_index and token_side.           *)
Placed(leg) == leg.index \in Nat /\ leg.side \in Sides \cup {None}

(* No two legs of an interaction have one leg_index.                       *)
IndexedOnce(L) == \A l, m \in L : l.index = m.index => l = m

(* The fields of a leg as extracted.                                       *)
LEMMA BorrowedFields ==
  ASSUME NEW n, NEW side, NEW asset, NEW amount, NEW mode
  PROVE  LET leg == Borrowed(n, side, asset, amount, mode)
         IN /\ leg.index = n /\ leg.side = side /\ leg.asset = asset
            /\ leg.amount = amount /\ leg.mode = mode
BY DEF Borrowed

(* The legs of a call have their places in it, each its own.               *)
LEMMA CalledLegsPlaced ==
  ASSUME NEW t \in Txs, t.call # None
  PROVE  (\A leg \in CalledLegs(t) : Placed(leg)) /\ IndexedOnce(CalledLegs(t))
<1>1. CASE t.call.abi # "uniswap"
  <2> DEFINE leg(n) == Borrowed(n - 1, None, t.call.legs[n].asset, t.call.legs[n].amount,
                                t.call.legs[n].mode)
  <2>1. CalledLegs(t) = {leg(n) : n \in DOMAIN t.call.legs}
    BY <1>1 DEF CalledLegs, LoanLegs
  <2>2. DOMAIN t.call.legs \subseteq Nat \ {0}
    BY <1>1, DetectionAssumption
  <2>3. \A n \in DOMAIN t.call.legs : leg(n).index = n - 1 /\ leg(n).side = None
    BY BorrowedFields
  <2> HIDE DEF leg
  <2>4. QED
    BY <2>1, <2>2, <2>3 DEF Placed, IndexedOnce
<1>2. CASE t.call.abi = "uniswap"
  <2> DEFINE place(side) == IF side = "token1" /\ t.call.out["token0"] > 0 THEN 1 ELSE 0
             leg(side) == Borrowed(place(side), side, TokenOf[t.to][side], t.call.out[side], 0)
             going == {s \in Sides : t.call.out[s] > 0}
  <2>1. CalledLegs(t) = {leg(side) : side \in going}
    BY <1>2 DEF CalledLegs, SwapLegs
  <2>2. \A side \in going : leg(side).index = place(side) /\ leg(side).side = side
    BY BorrowedFields
  <2>3. \A side \in going : place(side) \in Nat
    OBVIOUS
  <2>4. \A s, r \in going : place(s) = place(r) => s = r
    BY DEF Sides
  <2> HIDE DEF leg, place
  <2>5. QED
    BY <2>1, <2>2, <2>3, <2>4 DEF Placed, IndexedOnce
<1>3. QED
  BY <1>1, <1>2

(* So have those made of the events of a vault.                            *)
LEMMA GroupedLegsPlaced ==
  ASSUME NEW t \in Txs, NEW n \in VaultEvents(t), NEW L,
         L = {Borrowed(Before(Group(t, n), m), None, t.log[m].asset,
                       t.log[m].amount, 0) : m \in Group(t, n)}
  PROVE  (\A leg \in L : Placed(leg)) /\ IndexedOnce(L)
<1> DEFINE leg(m) == Borrowed(Before(Group(t, n), m), None, t.log[m].asset,
                              t.log[m].amount, 0)
<1>1. Group(t, n) \in SUBSET Nat
  BY DetectionAssumption DEF Group, VaultEvents
<1>2. \A m \in Group(t, n) : /\ leg(m).index = Before(Group(t, n), m)
                             /\ leg(m).side = None
  BY BorrowedFields
<1>3. \A m \in Group(t, n) : Before(Group(t, n), m) \in Nat
  BY <1>1, BeforeType
<1>4. \A k, m \in Group(t, n) :
        Before(Group(t, n), k) = Before(Group(t, n), m) => k = m
  BY <1>1, BeforeSeparates
<1>5. \A l \in L : \E m \in Group(t, n) : l = leg(m)
  OBVIOUS
<1> HIDE DEF leg
<1>6. \A l \in L : Placed(l)
  BY <1>2, <1>3, <1>5 DEF Placed
<1>7. IndexedOnce(L)
  BY <1>2, <1>4, <1>5 DEF IndexedOnce
<1>8. QED
  BY <1>6, <1>7

(* So have the legs of every interaction that is extracted.                *)
LEMMA LegsPlaced ==
  ASSUME NEW p \in Protocols, NEW t \in Txs, NEW c \in Candidates(p, t)
  PROVE  (\A leg \in c.legs : Placed(leg)) /\ IndexedOnce(c.legs)
<1>1. CASE Direct(p, t)
  <2>1. c.legs = CalledLegs(t) /\ t.call # None
    BY <1>1 DEF Candidates, Called, Direct
  <2>2. QED
    BY <2>1, CalledLegsPlaced
<1>2. CASE ~Direct(p, t)
  <2>1. PICK n \in Leaders(t) :
          c.legs = {Borrowed(Before(Group(t, n), m), None, t.log[m].asset,
                             t.log[m].amount, 0) : m \in Group(t, n)}
    BY <1>2 DEF Candidates, Grouped
  <2>2. n \in VaultEvents(t)
    BY DEF Leaders
  <2>3. QED
    BY <2>1, <2>2, GroupedLegsPlaced
<1>3. QED
  BY <1>1, <1>2

-------------------------------------------------------------------------------
(* The types.                                                              *)

(* What IInv does not say of the types: the verdict in hand has its type   *)
(* between two scans too, and the counters are in their bounds.            *)
Counters ==
  /\ verdict.result \in Results
  /\ scans \in 0 .. MaxScans
  /\ errors \in 0 .. MaxErrors

(* The flags of a stored leg are truth values, and its place is that of a  *)
(* leg that was extracted.                                                 *)
LEMMA StoredLegsTyped ==
  ASSUME IInv, NEW o \in DOMAIN legs, NEW leg \in legs[o]
  PROVE  IsLeg(leg)
<1>1. o \in Ordinals /\ Sound(protocol, tx, Candidate(o), rows[o], legs[o])
  BY DEF IInv, Tables
<1>2. Candidate(o) \in Candidates(protocol, tx)
  BY <1>1, CandidateOf DEF IInv
<1>3. Flagged(leg) /\ Loaned(legs[o]) = Loaned(Candidate(o).legs)
  BY <1>1 DEF Sound
<1>4. PICK l \in Candidate(o).legs : SameLoan(leg, l)
  BY <1>3, SameLoansBack
<1>5. Placed(l)
  BY <1>2, LegsPlaced DEF IInv, World
<1>6. QED
  BY <1>3, <1>4, <1>5 DEF IsLeg, Flagged, Fields, Placed, SameLoan

(* The types hold in every state: verdicts, legs and the work of a scan.   *)
THEOREM TypeCorrect == Spec => []TypeOK
<1>1. Init => Counters
  BY DetectionAssumption DEF Init, Counters, Fresh, Results
<1>2. IInv /\ IInv' /\ Counters /\ [Next]_vars => Counters'
  <2> SUFFICES ASSUME IInv', Counters, [Next]_vars
               PROVE  Counters'
    OBVIOUS
  <2> USE DetectionAssumption DEF Counters
  <2>1. CASE Start \/ ExtractFails \/ NothingFound \/ StoreCandidates
             \/ TraceUnavailable \/ TraceFails \/ Save
    BY <2>1 DEF Start, ExtractFails, NothingFound, StoreCandidates,
       TraceUnavailable, TraceFails, Save
  <2>2. CASE VerifyEvents \/ TraceCached \/ TraceAnswered
    <3>1. pc' \in {"trace", "save"} /\ scans' = scans /\ errors' = errors
      BY <2>2 DEF VerifyEvents, TraceCached, TraceAnswered, Goto
    <3>2. verdict'.result \in Results
      BY <3>1 DEF IInv, InHand
    <3>3. QED
      BY <3>1, <3>2
  <2>3. CASE UNCHANGED vars
    BY <2>3 DEF vars, locals
  <2>4. QED
    BY <2>1, <2>2, <2>3 DEF Next
<1>3. IInv /\ Counters => TypeOK
  BY StoredLegsTyped DEF IInv, Tables, Work, Counters, TypeOK
<1>4. QED
  BY <1>1, <1>2, <1>3, InvariantHolds, PTL DEF Spec

-------------------------------------------------------------------------------
(* The events of the vaults.                                               *)

(* The numbers Before gives the members of a finite set are 0, 1, ...      *)
LEMMA RanksFill ==
  ASSUME NEW S \in SUBSET Nat, IsFiniteSet(S)
  PROVE  {Before(S, n) : n \in S} = 0 .. Cardinality({Before(S, n) : n \in S}) - 1
<1> DEFINE size == Cardinality(S)
           ranks == 0 .. size - 1
           rank == [n \in S |-> Before(S, n)]
<1>1. size \in Nat
  BY FS_CardinalityType
<1>2. IsFiniteSet(ranks) /\ Cardinality(ranks) = size
  <2> HIDE DEF size
  <2>1. 0 \in Int /\ size - 1 \in Int
    BY <1>1
  <2>2. /\ IsFiniteSet(ranks)
        /\ Cardinality(ranks) = IF 0 > size - 1 THEN 0 ELSE (size - 1) - 0 + 1
    BY <2>1, FS_Interval
  <2>3. QED
    BY <1>1, <2>2
<1>3. ASSUME NEW n \in S
      PROVE  Before(S, n) \in ranks
  <2> DEFINE below == {m \in S : m < n}
  <2>1. below \in SUBSET S /\ n \notin below
    OBVIOUS
  <2>2. Cardinality(below) <= size /\ (size = Cardinality(below) => S = below)
    <3> HIDE DEF below
    <3>1. QED
      BY <2>1, FS_Subset
  <2>3. Before(S, n) = Cardinality(below) /\ Before(S, n) \in Nat
    BY BeforeType DEF Before
  <2>4. Cardinality(below) # size
    BY <2>1, <2>2
  <2> HIDE DEF below
  <2>5. Before(S, n) <= size /\ Before(S, n) # size
    BY <2>2, <2>3, <2>4
  <2> HIDE DEF size
  <2>6. QED
    BY <1>1, <2>3, <2>5
<1>4. rank \in Injection(S, ranks)
  <2>1. rank \in [S -> ranks]
    BY <1>3
  <2>2. \A m, n \in S : rank[m] = rank[n] => m = n
    BY BeforeSeparates
  <2> HIDE DEF rank, ranks
  <2>3. QED
    BY <2>1, <2>2 DEF Injection, IsInjective
<1>5. rank \in Surjection(S, ranks)
  <2> HIDE DEF rank, ranks
  <2>1. QED
    BY <1>2, <1>4, FS_Injection
<1>6. {Before(S, n) : n \in S} = ranks
  <2>1. \A k \in ranks : \E n \in S : rank[n] = k
    BY <1>5 DEF Surjection
  <2>2. QED
    BY <1>3, <2>1
<1>7. QED
  BY <1>2, <1>6

(* The interaction of the group of events led by the one at k.             *)
Led(t, k) ==
  [ordinal  |-> Before(Leaders(t), k),
   provider |-> t.log[k].emitter,
   receiver |-> t.log[k].receiver,
   data     |-> FALSE,
   legs     |-> {Borrowed(Before(Group(t, k), m), None, t.log[m].asset,
                          t.log[m].amount, 0) : m \in Group(t, k)}]

(* Extraction from events makes one for each leader.                       *)
LEMMA GroupedLed ==
  ASSUME NEW t \in Txs, ~Direct("balancer", t)
  PROVE  Candidates("balancer", t) = {Led(t, k) : k \in Leaders(t)}
BY DEF Candidates, Grouped, Led

(* The leader of the group of an event is the first of the group, and no   *)
(* other event of the emitter and the receiver leads.                      *)
LEMMA LeaderOf ==
  ASSUME NEW t \in Txs, NEW n \in VaultEvents(t)
  PROVE  \E k \in Leaders(t) :
           /\ t.log[k].emitter = t.log[n].emitter /\ t.log[k].receiver = t.log[n].receiver
           /\ \A j \in Leaders(t) :
                t.log[j].emitter = t.log[n].emitter /\ t.log[j].receiver = t.log[n].receiver
                  => j = k
<1> DEFINE group == Group(t, n)
           k == First(group)
<1>1. group \in SUBSET Nat /\ n \in group
  BY DetectionAssumption DEF Group, VaultEvents
<1>2. k \in group /\ \A m \in group : k <= m
  BY <1>1, FirstIsIn
<1> HIDE DEF k
<1>3. \A j \in VaultEvents(t) :
        t.log[j].emitter = t.log[n].emitter /\ t.log[j].receiver = t.log[n].receiver
          => j \in group /\ Group(t, j) = group
  BY DEF Group
<1>4. /\ k \in VaultEvents(t)
      /\ t.log[k].emitter = t.log[n].emitter /\ t.log[k].receiver = t.log[n].receiver
  BY <1>2 DEF Group
<1>5. k \in Leaders(t)
  BY <1>2, <1>3, <1>4 DEF Leaders
<1>6. ASSUME NEW j \in Leaders(t),
             t.log[j].emitter = t.log[n].emitter, t.log[j].receiver = t.log[n].receiver
      PROVE  j = k
  <2>1. j \in group /\ \A m \in group : j <= m
    BY <1>3, <1>6 DEF Leaders
  <2>2. j \in Nat /\ k \in Nat /\ j <= k /\ k <= j
    BY <1>1, <1>2, <2>1
  <2>3. QED
    BY <2>2
<1>7. QED
  BY <1>4, <1>5, <1>6

(* Nor do the verdicts put two legs in one place: on events,               *)
LEMMA EventVerdictIndexed ==
  ASSUME NEW p, NEW t, NEW c, NEW L, IndexedOnce(L), \A leg \in L : Unverified(leg)
  PROVE  IndexedOnce(EventVerdict(p, t, c, L).legs)
<1> DEFINE seen == {SeenLeg(p, t, c, leg) : leg \in L}
           v == EventVerdict(p, t, c, L)
<1>1. v.legs = {} \/ v.legs = L \/ v.legs = seen
  <2>1. \A why : Excluded(why, L).legs = L /\ ExcludedUnread(why).legs = {}
    BY DEF Excluded, ExcludedUnread
  <2>2. \/ \E why : v = Excluded(why, L) \/ v = ExcludedUnread(why)
        \/ \E row : v = [result |-> row, legs |-> seen, nil |-> FALSE]
    BY DEF EventVerdict
  <2> HIDE DEF v, seen
  <2>3. QED
    BY <2>1, <2>2
<1>2. ASSUME NEW leg \in L
      PROVE  SeenLeg(p, t, c, leg).index = leg.index
  <2>1. Unverified(leg)
    OBVIOUS
  <2>2. DOMAIN leg = Fields
    BY <2>1 DEF Unverified, Flagged
  <2>3. QED
    BY <2>2 DEF SeenLeg, Fields
<1>3. IndexedOnce(seen)
  BY <1>2 DEF IndexedOnce
<1>4. IndexedOnce({})
  BY DEF IndexedOnce
<1> HIDE DEF seen, v
<1>5. IndexedOnce(v.legs)
  BY <1>1, <1>3, <1>4
<1>6. QED
  BY <1>5 DEF v

(* and on a trace.                                                         *)
LEMMA TraceVerdictIndexed ==
  ASSUME NEW c, NEW v, NEW frames,
         v = [result |-> v.result, legs |-> v.legs, nil |-> v.nil],
         IndexedOnce(v.legs), \A leg \in v.legs : Flagged(leg)
  PROVE  IndexedOnce(TraceVerdict(c, v, frames).legs)
<1> DEFINE marked(leg) == [leg EXCEPT !.seen = TRUE, !.strict = @ \/ ~leg.debt]
           w == TraceVerdict(c, v, frames)
<1>1. w.legs = v.legs \/ w.legs = Annotated(v.legs)
  <2>1. \A r : [v EXCEPT !.result = r].legs = v.legs
    OBVIOUS
  <2>2. \A r : [v EXCEPT !.result = r, !.legs = Annotated(v.legs)].legs = Annotated(v.legs)
    OBVIOUS
  <2>3. \E r : w = [v EXCEPT !.result = r] \/ w = [v EXCEPT !.result = r, !.legs = Annotated(v.legs)]
    BY DEF TraceVerdict
  <2>4. QED
    BY <2>1, <2>2, <2>3
<1>2. \A leg \in v.legs : marked(leg).index = leg.index
  BY DEF Flagged, Fields
<1>3. Annotated(v.legs) = {marked(leg) : leg \in v.legs}
  BY DEF Annotated
<1> HIDE DEF marked, w
<1>4. IndexedOnce(Annotated(v.legs))
  BY <1>2, <1>3 DEF IndexedOnce
<1>5. IndexedOnce(w.legs)
  BY <1>1, <1>4
<1>6. QED
  BY <1>5 DEF w

(* What IInv leaves open: once the candidates are stored every one has its *)
(* row, and no two legs share a place, in the tables or in hand.           *)
Stored == pc \in {"verify", "trace", "save", "done"} => DOMAIN rows = Ordinals

Indexed ==
  /\ \A o \in DOMAIN legs : IndexedOnce(legs[o])
  /\ pc \in {"trace", "save"} => IndexedOnce(verdict.legs)

LEMMA StoredStep ==
  ASSUME IInv, Stored, [Next]_vars
  PROVE  Stored'
<1>1. protocol' = protocol /\ tx' = tx
  BY DEF Next, vars, world, Start, ExtractFails, NothingFound, StoreCandidates, VerifyEvents,
         TraceCached, TraceAnswered, TraceUnavailable, TraceFails, Save
<1>2. Ordinals' = Ordinals
  BY <1>1 DEF Ordinals
<1>3. CASE Start \/ ExtractFails \/ TraceFails
  BY <1>3 DEF Start, ExtractFails, TraceFails, Goto, Stored
<1>4. CASE NothingFound
  <2>1. Ordinals = {} /\ rows' = rows
    BY <1>4 DEF NothingFound, Ordinals, tables
  <2>2. DOMAIN rows = {}
    BY <2>1 DEF IInv, Tables
  <2>3. QED
    BY <1>2, <2>1, <2>2 DEF Stored
<1>5. CASE StoreCandidates
  BY <1>2, <1>5 DEF StoreCandidates, Ordinals, Stored
<1>6. CASE VerifyEvents \/ TraceCached \/ TraceAnswered \/ TraceUnavailable
  <2>1. rows' = rows /\ pc \in {"verify", "trace"}
    BY <1>6 DEF VerifyEvents, TraceCached, TraceAnswered, TraceUnavailable, tables
  <2>2. QED
    BY <1>2, <2>1 DEF Stored
<1>7. CASE Save
  BY <1>2, <1>7 DEF Save, Stored
<1>8. CASE UNCHANGED vars
  BY <1>2, <1>8 DEF vars, tables, locals, Stored
<1>9. QED
  BY <1>3, <1>4, <1>5, <1>6, <1>7, <1>8 DEF Next

LEMMA IndexedStep ==
  ASSUME IInv, Indexed, [Next]_vars
  PROVE  Indexed'
<1>1. CASE Start \/ ExtractFails \/ NothingFound \/ TraceFails
  BY <1>1 DEF Start, ExtractFails, NothingFound, TraceFails, Goto, tables, Indexed
<1>2. CASE StoreCandidates
  <2>1. /\ DOMAIN legs' = Ordinals /\ pc' = "verify"
        /\ \A o \in Ordinals :
             legs'[o] = IF Candidate(o).legs = {}
                        THEN IF o \in DOMAIN legs THEN legs[o] ELSE {}
                        ELSE Candidate(o).legs
    BY <1>2 DEF StoreCandidates, Ordinals, Goto
  <2>2. \A o \in Ordinals : IndexedOnce(Candidate(o).legs)
    BY CandidateOf, LegsPlaced DEF IInv, World
  <2>3. IndexedOnce({})
    BY DEF IndexedOnce
  <2>4. QED
    BY <2>1, <2>2, <2>3 DEF Indexed
<1>3. CASE VerifyEvents
  <2> DEFINE o == First(todo)
  <2>1. /\ verdict' = EventVerdict(protocol, tx, Candidate(o), legs[o])
        /\ legs' = legs /\ pc = "verify"
    BY <1>3 DEF VerifyEvents, tables
  <2>2. o \in todo
    <3>1. todo \in SUBSET Nat /\ todo # {}
      BY <2>1, CandidateForm DEF IInv, World, Tables, Work, Ordinals
    <3>2. QED
      BY <3>1, FirstIsIn
  <2>3. /\ o \in DOMAIN legs /\ o \in Ordinals /\ legs[o] = Candidate(o).legs
    BY <2>2 DEF IInv, Tables, Work
  <2> HIDE DEF o
  <2>4. \A leg \in legs[o] : Unverified(leg)
    BY <2>3, CandidateOf, CandidateForm DEF IInv, World
  <2>5. IndexedOnce(legs[o])
    BY <2>3 DEF Indexed
  <2>6. IndexedOnce(verdict'.legs)
    BY <2>1, <2>4, <2>5, EventVerdictIndexed
  <2>7. QED
    BY <2>1, <2>6 DEF Indexed
<1>4. CASE TraceCached \/ TraceAnswered
  <2>1. /\ pc = "trace" /\ legs' = legs
        /\ \E frames : verdict' = TraceVerdict(Candidate(cur), verdict, frames)
    BY <1>4 DEF TraceCached, TraceAnswered, tables
  <2>2. PICK frames : verdict' = TraceVerdict(Candidate(cur), verdict, frames)
    BY <2>1
  <2>3. /\ verdict = [result |-> verdict.result, legs |-> verdict.legs, nil |-> verdict.nil]
        /\ \A leg \in verdict.legs : Flagged(leg)
    BY <2>1 DEF IInv, InHand, AtTrace, LegsInHand, Sound
  <2>4. IndexedOnce(verdict'.legs)
    BY <2>1, <2>2, <2>3, TraceVerdictIndexed DEF Indexed
  <2>5. QED
    BY <2>1, <2>4 DEF Indexed
<1>5. CASE TraceUnavailable
  BY <1>5 DEF TraceUnavailable, tables, Goto, Indexed
<1>6. CASE Save
  <2>1. /\ pc = "save" /\ pc' \in {"done", "verify"}
        /\ legs' = [legs EXCEPT ![cur] = IF verdict.nil THEN @ ELSE verdict.legs]
    BY <1>6 DEF Save, Goto
  <2>2. QED
    BY <2>1 DEF Indexed
<1>7. CASE UNCHANGED vars
  BY <1>7 DEF vars, tables, locals, Indexed
<1>8. QED
  BY <1>1, <1>2, <1>3, <1>4, <1>5, <1>6, <1>7 DEF Next

(* The places of the events in the interaction of their group are those    *)
(* that EventsCovered counts.                                              *)
LEMMA PlaceInGroup ==
  ASSUME NEW t \in Txs, NEW k \in Leaders(t), NEW n \in VaultEvents(t)
  PROVE  Cardinality({m \in VaultEvents(t) :
           m < n /\ t.log[m].emitter = Led(t, k).provider
                 /\ t.log[m].receiver = Led(t, k).receiver})
         = Before(Group(t, k), n)
<1>1. Led(t, k).provider = t.log[k].emitter /\ Led(t, k).receiver = t.log[k].receiver
  BY DEF Led
<1>2. {m \in VaultEvents(t) :
         m < n /\ t.log[m].emitter = Led(t, k).provider
               /\ t.log[m].receiver = Led(t, k).receiver}
      = {m \in Group(t, k) : m < n}
  BY <1>1 DEF Group
<1>3. QED
  BY <1>2 DEF Before

(* Event n is leg x[2] of interaction x[1].                                *)
Covers(x, n) ==
  \E c \in Candidates("balancer", tx) :
    /\ c.ordinal = x[1]
    /\ tx.log[n].emitter = c.provider
    /\ tx.log[n].receiver = c.receiver
    /\ tx.log[n].asset = x[2].asset
    /\ tx.log[n].amount = x[2].amount
    /\ x[2].index = Cardinality({m \in VaultEvents(tx) :
         m < n /\ tx.log[m].emitter = c.provider /\ tx.log[m].receiver = c.receiver})

(* Each event of a vault is one leg of one interaction.                    *)
LEMMA CoveredOnce ==
  ASSUME IInv, Stored, Indexed, protocol = "balancer", ~Direct("balancer", tx),
         pc \in {"verify", "trace", "save", "done"}, NEW n \in VaultEvents(tx)
  PROVE  Cardinality({x \in UNION {{o} \X legs[o] : o \in DOMAIN legs} : Covers(x, n)}) = 1
<1> DEFINE stored == UNION {{o} \X legs[o] : o \in DOMAIN legs}
<1>1. tx \in Txs
  BY DEF IInv, World
<1>2. Candidates("balancer", tx) = {Led(tx, k) : k \in Leaders(tx)}
  BY <1>1, GroupedLed
<1>3. PICK k \in Leaders(tx) :
        /\ tx.log[k].emitter = tx.log[n].emitter /\ tx.log[k].receiver = tx.log[n].receiver
        /\ \A j \in Leaders(tx) :
             tx.log[j].emitter = tx.log[n].emitter /\ tx.log[j].receiver = tx.log[n].receiver
               => j = k
  BY <1>1, LeaderOf
<1> DEFINE c == Led(tx, k)
           o == c.ordinal
           place == Before(Group(tx, k), n)
           leg == Borrowed(place, None, tx.log[n].asset, tx.log[n].amount, 0)
<1>4. c \in Candidates(protocol, tx) /\ o \in Ordinals
  BY <1>2 DEF Ordinals
<1>5. c = Candidate(o)
  BY <1>4, CandidateOf DEF IInv
<1>6. o \in DOMAIN legs /\ Loaned(legs[o]) = Loaned(c.legs)
  BY <1>4, <1>5 DEF IInv, Tables, Stored, Sound
<1>7. leg \in c.legs
  <2>1. n \in Group(tx, k)
    BY <1>3 DEF Group
  <2>2. QED
    BY <2>1 DEF Led
<1>8. PICK l \in legs[o] : SameLoan(leg, l)
  BY <1>6, <1>7, SameLoansBack
<1>9. l.index = place /\ l.asset = tx.log[n].asset /\ l.amount = tx.log[n].amount
  BY <1>8, BorrowedFields DEF SameLoan
<1>10. c.provider = tx.log[n].emitter /\ c.receiver = tx.log[n].receiver
  BY <1>3 DEF Led
<1>11. Cardinality({m \in VaultEvents(tx) :
         m < n /\ tx.log[m].emitter = c.provider /\ tx.log[m].receiver = c.receiver}) = place
  BY <1>1, PlaceInGroup
<1> HIDE DEF c, o, place, leg
<1>12. <<o, l>> \in stored /\ Covers(<<o, l>>, n)
  <2>1. <<o, l>> \in stored
    BY <1>6, <1>8
  <2>2. c \in Candidates("balancer", tx) /\ c.ordinal = o
    BY <1>4 DEF o
  <2>3. Covers(<<o, l>>, n)
    BY <1>9, <1>10, <1>11, <2>2 DEF Covers
  <2>4. QED
    BY <2>1, <2>3
<1>13. ASSUME NEW x \in stored, Covers(x, n)
       PROVE  x = <<o, l>>
  <2>1. PICK i \in DOMAIN legs : x \in {i} \X legs[i]
    OBVIOUS
  <2>2. x = <<i, x[2]>> /\ x[1] = i /\ x[2] \in legs[i]
    BY <2>1
  <2>3. PICK d \in Candidates("balancer", tx) :
          /\ d.ordinal = x[1]
          /\ tx.log[n].emitter = d.provider
          /\ tx.log[n].receiver = d.receiver
          /\ x[2].index = Cardinality({m \in VaultEvents(tx) :
               m < n /\ tx.log[m].emitter = d.provider /\ tx.log[m].receiver = d.receiver})
    BY <1>13 DEF Covers
  <2>4. d = c
    <3>1. PICK j \in Leaders(tx) : d = Led(tx, j)
      BY <1>2
    <3>2. d.provider = tx.log[j].emitter /\ d.receiver = tx.log[j].receiver
      BY <3>1 DEF Led
    <3>3. j = k
      BY <1>3, <2>3, <3>2
    <3>4. QED
      BY <3>1, <3>3 DEF c
  <2>5. i = o /\ x[2].index = place
    BY <1>11, <2>2, <2>3, <2>4 DEF o
  <2>6. x[2] = l
    BY <1>6, <1>8, <1>9, <2>2, <2>5 DEF Indexed, IndexedOnce
  <2>7. QED
    BY <2>2, <2>5, <2>6
<1>14. {x \in stored : Covers(x, n)} = {<<o, l>>}
  <2> HIDE DEF stored
  <2>1. QED
    BY <1>12, <1>13
<1>15. QED
  BY <1>14, FS_Singleton

(* The ordinals are 0, 1, ..., and no interaction is without a leg.        *)
LEMMA OrdinalsFill ==
  ASSUME IInv, Stored, protocol = "balancer", ~Direct("balancer", tx),
         pc \in {"verify", "trace", "save", "done"}
  PROVE  /\ DOMAIN rows = 0 .. Cardinality(DOMAIN rows) - 1
         /\ \A o \in DOMAIN rows : legs[o] # {}
<1>1. tx \in Txs
  BY DEF IInv, World
<1>2. Candidates("balancer", tx) = {Led(tx, k) : k \in Leaders(tx)}
  BY <1>1, GroupedLed
<1>3. DOMAIN rows = {Before(Leaders(tx), k) : k \in Leaders(tx)}
  <2>1. \A k : Led(tx, k).ordinal = Before(Leaders(tx), k)
    BY DEF Led
  <2>2. DOMAIN rows = {c.ordinal : c \in {Led(tx, k) : k \in Leaders(tx)}}
    BY <1>2 DEF Stored, Ordinals
  <2>3. QED
    BY <2>1, <2>2
<1>4. Leaders(tx) \in SUBSET Nat /\ IsFiniteSet(Leaders(tx))
  <2>1. Leaders(tx) \in SUBSET DOMAIN tx.log
    BY DEF Leaders, VaultEvents
  <2>2. IsFiniteSet(DOMAIN tx.log) /\ DOMAIN tx.log \subseteq Nat
    BY <1>1, DetectionAssumption
  <2>3. QED
    BY <2>1, <2>2, FS_Subset
<1>5. ASSUME NEW o \in DOMAIN rows
      PROVE  legs[o] # {}
  <2>1. o \in Ordinals /\ Loaned(legs[o]) = Loaned(Candidate(o).legs)
    BY DEF IInv, Tables, Sound
  <2>2. PICK k \in Leaders(tx) : Candidate(o) = Led(tx, k)
    BY <1>2, <2>1, CandidateOf DEF IInv
  <2>3. k \in Group(tx, k)
    BY DEF Leaders, Group
  <2>4. PICK leg \in Candidate(o).legs : TRUE
    BY <2>2, <2>3 DEF Led
  <2>5. \E l \in legs[o] : SameLoan(leg, l)
    BY <2>1, SameLoansBack
  <2>6. QED
    BY <2>5
<1>6. QED
  BY <1>3, <1>4, <1>5, RanksFill

(* No loan event of an official vault is lost, stored twice or out of its  *)
(* place, however many events, vaults and receivers a transaction has.     *)
THEOREM EventsAlwaysCovered == Spec => []EventsCovered
<1>1. Init => Stored /\ Indexed
  BY DEF Init, Stored, Indexed
<1>2. IInv /\ Stored /\ Indexed /\ [Next]_vars => Stored' /\ Indexed'
  BY StoredStep, IndexedStep
<1>3. ASSUME IInv, Stored, Indexed
      PROVE  EventsCovered
  <2>1. SUFFICES ASSUME protocol = "balancer", ~Direct("balancer", tx),
                        pc \in {"verify", "trace", "save", "done"}
                 PROVE  /\ \A n \in VaultEvents(tx) :
                             Cardinality({x \in UNION {{o} \X legs[o] : o \in DOMAIN legs} :
                                            Covers(x, n)}) = 1
                        /\ DOMAIN rows = 0 .. Cardinality(DOMAIN rows) - 1
                        /\ \A o \in DOMAIN rows : legs[o] # {}
    BY DEF EventsCovered, Covers
  <2>2. QED
    BY <1>3, <2>1, CoveredOnce, OrdinalsFill
<1>4. QED
  BY <1>1, <1>2, <1>3, InvariantHolds, PTL DEF Spec

-------------------------------------------------------------------------------
(* The verdicts on the transactions of a chain.                            *)

(* VerdictIsRight is about the interaction c.                              *)
Judged(p, t, c) == c.legs # {} /\ ~(p = "aave" /\ LookAlike(t, c))

(* The verdict that the transaction deserves.                              *)
Right(t, c, row) ==
  /\ row.verified <=> t.ok
  /\ row.strict <=> t.ok /\ WithoutDebt(c)

(* No more than that.                                                      *)
Modest(t, c, row) ==
  /\ row.verified => t.ok
  /\ row.strict => t.ok /\ WithoutDebt(c)

(* Only Aave has loans that open debt.                                     *)
LEMMA OnlyAaveOpensDebt ==
  ASSUME NEW p \in Protocols, p # "aave", NEW t \in Txs, NEW c \in Candidates(p, t),
         NEW leg \in c.legs
  PROVE  leg.mode = 0
<1>1. CASE Direct(p, t)
  <2>1. c.legs = CalledLegs(t) /\ t.call # None /\ t.call.abi = p
    BY <1>1 DEF Candidates, Called, Direct
  <2>2. CASE p = "uniswap"
    <3>1. PICK place, side : leg = Borrowed(place, side, TokenOf[t.to][side], t.call.out[side], 0)
      BY <2>1, <2>2 DEF CalledLegs, SwapLegs
    <3>2. QED
      BY <3>1, BorrowedFields
  <2>3. CASE p = "balancer"
    <3>1. PICK n \in DOMAIN t.call.legs :
            leg = Borrowed(n - 1, None, t.call.legs[n].asset, t.call.legs[n].amount,
                           t.call.legs[n].mode)
      BY <2>1, <2>3 DEF CalledLegs, LoanLegs
    <3>2. t.call.legs[n].mode = 0
      BY <2>1, <2>3, DetectionAssumption
    <3>3. QED
      BY <3>1, <3>2, BorrowedFields
  <2>4. QED
    BY <2>2, <2>3 DEF Protocols
<1>2. CASE ~Direct(p, t)
  <2>1. PICK k \in Leaders(t) : c = Led(t, k)
    BY <1>2 DEF Candidates, Grouped, Led
  <2>2. PICK place, m : leg = Borrowed(place, None, t.log[m].asset, t.log[m].amount, 0)
    BY <2>1 DEF Led
  <2>3. QED
    BY <2>2, BorrowedFields
<1>3. QED
  BY <1>1, <1>2

(* The mode that the events give a leg is the one it was borrowed in,      *)
(* unless an event looks like that of the leg.                             *)
LEMMA SeenMode ==
  ASSUME NEW p \in Protocols, NEW t \in Txs, NEW c \in Candidates(p, t),
         ~(p = "aave" /\ LookAlike(t, c)), NEW leg \in c.legs,
         p = "aave" => Reports(p, t, c, leg) # {}
  PROVE  SeenLeg(p, t, c, leg).mode = leg.mode
<1> DEFINE said == Reports(p, t, c, leg)
           mode == IF p = "aave" THEN t.log[First(said)].mode ELSE 0
<1>1. Unverified(leg)
  BY CandidateForm
<1>2. SeenLeg(p, t, c, leg).mode = mode
  BY <1>1, SeenLegForm
<1>3. CASE p = "aave"
  <2>1. said \in SUBSET Nat /\ said # {}
    BY <1>3, DetectionAssumption DEF Reports, Emitted
  <2>2. First(said) \in said
    BY <2>1, FirstIsIn
  <2>3. First(said) \in DOMAIN t.log /\ Tells("aave", t, c, leg, First(said))
    BY <1>3, <2>2 DEF Reports, Emitted, Tells
  <2>4. t.log[First(said)].mode = leg.mode
    BY <1>3, <2>3 DEF LookAlike
  <2>5. QED
    BY <1>2, <1>3, <2>4
<1>4. CASE p # "aave"
  BY <1>2, <1>4, OnlyAaveOpensDebt
<1>5. QED
  BY <1>3, <1>4

(* The verdict on the events of such a transaction is right.               *)
LEMMA EventVerdictRight ==
  ASSUME NEW p \in Protocols, NEW t \in Txs, Genuine(t), NEW c \in Candidates(p, t),
         Judged(p, t, c)
  PROVE  Right(t, c, EventVerdict(p, t, c, c.legs).result)
<1> DEFINE v == EventVerdict(p, t, c, c.legs)
<1>1. CASE ~t.ok
  <2>1. v.result = [Fresh EXCEPT !.reason = "transaction_not_successful"]
    BY <1>1 DEF EventVerdict, ExcludedUnread
  <2>2. ~v.result.verified /\ ~v.result.strict
    BY <2>1, ExclusionForm
  <2>3. QED
    BY <1>1, <2>2 DEF Right
<1>2. CASE t.ok
  <2>1. WentThrough(p, t, c) /\ c.legs # {}
    BY <1>2 DEF Genuine, Judged
  <2>2. p = "uniswap" => c.data
    BY DEF Candidates
  <2>3. PICK leg \in c.legs : TRUE
    BY <2>1
  <2>4. PICK n \in DOMAIN t.log : Tells(p, t, c, leg, n)
    BY <2>1 DEF WentThrough
  <2>5. Emitted(p, t, c) # {}
    BY <2>4 DEF Emitted, Tells
  <2>6. p # "uniswap" => \A l \in c.legs : Reports(p, t, c, l) # {}
    BY <2>1 DEF WentThrough, Tells, Reports, Emitted
  <2>7. p = "uniswap" => Swaps(t, c, c.legs) # {}
    <3>1. HAVE p = "uniswap"
    <3>2. PICK m \in DOMAIN t.log : \A l \in c.legs : Tells(p, t, c, l, m)
      BY <2>1, <3>1 DEF WentThrough
    <3>3. m \in Swaps(t, c, c.legs)
      BY <2>1, <3>1, <3>2 DEF Swaps, Emitted, Tells
    <3>4. QED
      BY <3>3
  <2>8. Matched(p, t, c, c.legs)
    BY <2>6, <2>7 DEF Matched
  <2> DEFINE seen == {SeenLeg(p, t, c, l) : l \in c.legs}
             opened == \E l \in seen : l.mode # 0
  <2>9. v.result.verified = TRUE /\ v.result.strict = ~opened
    BY <1>2, <2>2, <2>5, <2>8 DEF EventVerdict
  <2>10. ASSUME NEW l \in c.legs
         PROVE  SeenLeg(p, t, c, l).mode = l.mode
    BY <2>6, SeenMode DEF Judged
  <2>11. opened <=> \E l \in c.legs : l.mode # 0
    BY <2>10
  <2> HIDE DEF opened, v
  <2>12. Right(t, c, v.result)
    BY <1>2, <2>9, <2>11 DEF Right, WithoutDebt
  <2>13. QED
    BY <2>12 DEF v
<1>3. QED
  BY <1>1, <1>2

(* Only the assets of the legs matter for the repayment.                   *)
LEMMA RepaymentOfLoans ==
  ASSUME NEW c, NEW frames, NEW L, NEW M, Loaned(L) = Loaned(M)
  PROVE  RepaymentSeen(c, L, frames) = RepaymentSeen(c, M, frames)
<1>1. \A l \in L : \E m \in M : l.asset = m.asset
  BY SameLoansBack DEF SameLoan
<1>2. \A m \in M : \E l \in L : l.asset = m.asset
  BY SameLoansBack DEF SameLoan
<1>3. {leg.asset : leg \in L} = {leg.asset : leg \in M}
  BY <1>1, <1>2
<1>4. QED
  BY <1>3 DEF RepaymentSeen

(* The trace of the transaction leaves a right verdict right.              *)
LEMMA TraceVerdictRight ==
  ASSUME NEW p \in Protocols, NEW t \in Txs, Genuine(t), NEW c \in Candidates(p, t),
         Judged(p, t, c), NEW v,
         v = [result |-> v.result, legs |-> v.legs, nil |-> v.nil],
         v.result \in Results, v.result.verified, v.result.strict <=> ~v.result.debt,
         Loaned(v.legs) = Loaned(c.legs), Right(t, c, v.result)
  PROVE  Right(t, c, TraceVerdict(c, v, t.frames).result)
<1> DEFINE called == CallbackSeen(c, t.frames)
           repaid == RepaymentSeen(c, v.legs, t.frames)
           seen == [v.result EXCEPT !.callback = called, !.settled = called,
                                    !.repaid = repaid /\ ~v.result.debt,
                                    !.traced = called \/ v.result.debt]
           w == TraceVerdict(c, v, t.frames)
<1>1. t.ok /\ WentThrough(p, t, c)
  BY DEF Right, Genuine, Judged
<1>2. called
  BY <1>1 DEF WentThrough
<1>3. /\ [seen EXCEPT !.strict = FALSE].verified = v.result.verified
      /\ [seen EXCEPT !.strict = FALSE].strict = FALSE
      /\ [seen EXCEPT !.strict = TRUE].verified = v.result.verified
      /\ [seen EXCEPT !.strict = TRUE].strict = TRUE
  <2> HIDE DEF called, repaid
  <2>1. QED
    BY DEF Results
<1>4. CASE v.result.debt
  <2>1. w.result = [seen EXCEPT !.strict = FALSE]
    <3> HIDE DEF seen
    <3>1. w = [v EXCEPT !.result = [seen EXCEPT !.strict = FALSE]]
      BY <1>4 DEF TraceVerdict, seen
    <3>2. QED
      BY <3>1
  <2> HIDE DEF seen, w
  <2>2. w.result.verified = v.result.verified /\ w.result.strict = FALSE
    BY <1>3, <2>1
  <2>3. Right(t, c, w.result)
    BY <1>4, <2>2 DEF Right
  <2>4. QED
    BY <2>3 DEF w
<1>5. CASE ~v.result.debt
  <2>1. repaid
    <3>1. \A leg \in c.legs : leg.mode = 0
      BY <1>5 DEF Right, WithoutDebt
    <3>2. QED
      BY <1>1, <3>1, RepaymentOfLoans DEF WentThrough
  <2>2. w.result = [seen EXCEPT !.strict = TRUE]
    <3> HIDE DEF seen, called, repaid
    <3>1. w = [v EXCEPT !.result = [seen EXCEPT !.strict = TRUE], !.legs = Annotated(v.legs)]
      BY <1>2, <1>5, <2>1 DEF TraceVerdict, seen, called, repaid
    <3>2. QED
      BY <3>1
  <2> HIDE DEF seen, w
  <2>3. w.result.verified = v.result.verified /\ w.result.strict = TRUE
    BY <1>3, <2>2
  <2>4. Right(t, c, w.result)
    BY <1>5, <2>3 DEF Right
  <2>5. QED
    BY <2>4 DEF w
<1>6. QED
  BY <1>4, <1>5

(* Whatever is in a trace, it takes from the verdict.                      *)
LEMMA TraceVerdictModest ==
  ASSUME NEW t, NEW c, NEW v, v = [result |-> v.result, legs |-> v.legs, nil |-> v.nil],
         v.result \in Results, v.result.strict <=> ~v.result.debt,
         Modest(t, c, v.result), NEW frames
  PROVE  Modest(t, c, TraceVerdict(c, v, frames).result)
<1> DEFINE called == CallbackSeen(c, frames)
           repaid == RepaymentSeen(c, v.legs, frames)
           seen == [v.result EXCEPT !.callback = called, !.settled = called,
                                    !.repaid = repaid /\ ~v.result.debt,
                                    !.traced = called \/ v.result.debt]
           w == TraceVerdict(c, v, frames)
<1>1. /\ [seen EXCEPT !.strict = FALSE].verified = v.result.verified
      /\ [seen EXCEPT !.strict = FALSE].strict = FALSE
      /\ [seen EXCEPT !.verified = FALSE, !.strict = FALSE,
                      !.reason = "missing_trace_callback"].verified = FALSE
      /\ [seen EXCEPT !.verified = FALSE, !.strict = FALSE,
                      !.reason = "missing_trace_callback"].strict = FALSE
      /\ [seen EXCEPT !.strict = TRUE].verified = v.result.verified
  <2> HIDE DEF called, repaid
  <2>1. QED
    BY DEF Results
<1>2. \/ w.result = [seen EXCEPT !.strict = FALSE]
      \/ w.result = [seen EXCEPT !.verified = FALSE, !.strict = FALSE,
                                 !.reason = "missing_trace_callback"]
      \/ ~v.result.debt /\ w.result = [seen EXCEPT !.strict = TRUE]
  <2> HIDE DEF called, repaid, seen
  <2>1. \/ w = [v EXCEPT !.result = [seen EXCEPT !.strict = FALSE]]
        \/ w = [v EXCEPT !.result = [seen EXCEPT !.verified = FALSE, !.strict = FALSE,
                                                 !.reason = "missing_trace_callback"]]
        \/ /\ ~v.result.debt
           /\ w = [v EXCEPT !.result = [seen EXCEPT !.strict = TRUE],
                            !.legs = Annotated(v.legs)]
    BY DEF TraceVerdict, called, repaid, seen
  <2> HIDE DEF w
  <2>2. QED
    BY <2>1
<1> HIDE DEF seen, w
<1>3. (w.result.verified => v.result.verified) /\ (w.result.strict => v.result.strict)
  BY <1>1, <1>2
<1>4. Modest(t, c, w.result)
  BY <1>3 DEF Modest
<1>5. QED
  BY <1>4 DEF w

(* The trace kept is that of the transaction, or a null answer.  The       *)
(* verdict in hand and those saved are modest, and unless it is the latter *)
(* right; at the end all are saved.                                        *)
Kept == cache \in {None, {}, tx.frames}

Deserved(t, c, row) == Modest(t, c, row) /\ (cache # {} => Right(t, c, row))

RowsRight ==
  pc \in {"verify", "trace", "save", "done"} =>
    \A o \in DOMAIN rows \ todo :
      Judged(protocol, tx, Candidate(o)) => Deserved(tx, Candidate(o), rows[o])

HandRight ==
  pc \in {"trace", "save"} /\ Judged(protocol, tx, Candidate(cur)) =>
    Deserved(tx, Candidate(cur), verdict.result)

AllDone == pc = "done" => todo = {}

RightInv == Stored /\ Kept /\ RowsRight /\ HandRight /\ AllDone

(* The steps before a verdict save no row.                                 *)
LEMMA UnjudgedStep ==
  ASSUME IInv, RightInv,
         Start \/ ExtractFails \/ NothingFound \/ StoreCandidates \/ TraceFails
  PROVE  Kept' /\ RowsRight' /\ HandRight' /\ AllDone'
<1>1. CASE Start \/ ExtractFails \/ TraceFails
  BY <1>1 DEF Start, ExtractFails, TraceFails, Goto, world, RightInv, Kept, RowsRight,
     HandRight, AllDone
<1>2. CASE NothingFound
  <2>1. /\ Ordinals = {} /\ rows' = rows /\ todo' = todo /\ pc' = "done"
        /\ cache' = cache /\ tx' = tx
    BY <1>2 DEF NothingFound, Ordinals, tables, world, Goto
  <2>2. DOMAIN rows = {} /\ todo = {}
    BY <2>1 DEF IInv, Tables, Work
  <2>3. QED
    BY <2>1, <2>2 DEF RightInv, Kept, RowsRight, HandRight, AllDone
<1>3. CASE StoreCandidates
  <2>1. /\ DOMAIN rows' = todo' /\ pc' = "verify" /\ cache' = cache /\ tx' = tx
    BY <1>3 DEF StoreCandidates, world, Goto
  <2>2. QED
    BY <2>1 DEF RightInv, Kept, RowsRight, HandRight, AllDone
<1>4. QED
  BY <1>1, <1>2, <1>3

(* The verdict on events comes into hand.                                  *)
LEMMA JudgedOnEvents ==
  ASSUME IInv, RightInv, VerifyEvents, \A t \in Txs : Genuine(t)
  PROVE  Kept' /\ RowsRight' /\ HandRight' /\ AllDone'
<1> DEFINE o == First(todo)
<1>1. /\ pc = "verify" /\ pc' \in {"trace", "save"} /\ cur' = o
      /\ verdict' = EventVerdict(protocol, tx, Candidate(o), legs[o])
      /\ protocol' = protocol /\ tx' = tx /\ rows' = rows /\ todo' = todo /\ cache' = cache
  BY DEF VerifyEvents, Goto, world, tables
<1>2. \A i : Candidate(i)' = Candidate(i)
  BY <1>1 DEF Candidate
<1>3. o \in todo
  <2>1. todo \in SUBSET Nat /\ todo # {}
    BY <1>1, CandidateForm DEF IInv, World, Tables, Work, Ordinals
  <2>2. QED
    BY <2>1, FirstIsIn
<1>4. /\ protocol \in Protocols /\ tx \in Txs
      /\ Candidate(o) \in Candidates(protocol, tx) /\ legs[o] = Candidate(o).legs
  BY <1>3, CandidateOf DEF IInv, World, Tables, Work
<1> HIDE DEF o
<1>5. Judged(protocol, tx, Candidate(o)) => Right(tx, Candidate(o), verdict'.result)
  BY <1>1, <1>4, EventVerdictRight
<1>6. HandRight'
  BY <1>1, <1>2, <1>5 DEF HandRight, Deserved, Right, Modest
<1>7. Kept' /\ RowsRight' /\ AllDone'
  BY <1>1, <1>2 DEF RightInv, Kept, RowsRight, Deserved, AllDone
<1>8. QED
  BY <1>6, <1>7

(* A trace is looked at, or is missing.                                    *)
LEMMA JudgedOnTrace ==
  ASSUME IInv, RightInv, TraceCached \/ TraceAnswered \/ TraceUnavailable,
         \A t \in Txs : Genuine(t)
  PROVE  Kept' /\ RowsRight' /\ HandRight' /\ AllDone'
<1>1. /\ pc = "trace" /\ pc' = "save" /\ cur' = cur
      /\ protocol' = protocol /\ tx' = tx /\ rows' = rows /\ todo' = todo
  BY DEF TraceCached, TraceAnswered, TraceUnavailable, Goto, world, tables
<1>2. \A i : Candidate(i)' = Candidate(i)
  BY <1>1 DEF Candidate
<1>3. tx \in Txs /\ tx.frames # None /\ None # {}
  BY DetectionAssumption DEF IInv, World
<1>4. /\ Kept' /\ (cache' # {} => cache # {})
      /\ \/ verdict' = verdict
         \/ verdict' = TraceVerdict(Candidate(cur), verdict, cache') /\ cache' # None
  <2>1. CASE TraceCached
    BY <1>1, <2>1 DEF TraceCached, RightInv, Kept
  <2>2. CASE TraceAnswered
    BY <1>1, <1>3, <2>2 DEF TraceAnswered, Kept
  <2>3. CASE TraceUnavailable
    BY <1>1, <2>3 DEF TraceUnavailable, RightInv, Kept
  <2>4. QED
    BY <2>1, <2>2, <2>3
<1>5. ASSUME cache' # {}, Judged(protocol, tx, Candidate(cur))
      PROVE  Right(tx, Candidate(cur), verdict'.result)
  <2>1. Right(tx, Candidate(cur), verdict.result)
    BY <1>1, <1>4, <1>5 DEF RightInv, HandRight, Deserved
  <2>2. CASE verdict' = verdict
    BY <2>1, <2>2
  <2>3. CASE verdict' = TraceVerdict(Candidate(cur), verdict, cache') /\ cache' # None
    <3>1. cache' = tx.frames
      BY <1>1, <1>4, <1>5, <2>3 DEF Kept
    <3>2. protocol \in Protocols /\ Candidate(cur) \in Candidates(protocol, tx)
      BY <1>1, CandidateOf DEF IInv, World, Tables, Work
    <3>3. /\ verdict = [result |-> verdict.result, legs |-> verdict.legs,
                        nil |-> verdict.nil]
          /\ verdict.result \in Results /\ verdict.result.verified
          /\ verdict.result.strict <=> ~verdict.result.debt
          /\ Loaned(verdict.legs) = Loaned(Candidate(cur).legs)
      BY <1>1 DEF IInv, InHand, AtTrace, LegsInHand, Sound
    <3>4. Genuine(tx)
      BY <1>3
    <3>5. Right(tx, Candidate(cur), TraceVerdict(Candidate(cur), verdict, tx.frames).result)
      BY <1>3, <1>5, <2>1, <3>2, <3>3, <3>4, TraceVerdictRight
    <3>6. QED
      BY <2>3, <3>1, <3>5
  <2>4. QED
    BY <1>4, <2>2, <2>3
<1>6. ASSUME Judged(protocol, tx, Candidate(cur))
      PROVE  Modest(tx, Candidate(cur), verdict'.result)
  <2>1. Modest(tx, Candidate(cur), verdict.result)
    BY <1>1, <1>6 DEF RightInv, HandRight, Deserved
  <2>2. /\ verdict = [result |-> verdict.result, legs |-> verdict.legs,
                      nil |-> verdict.nil]
        /\ verdict.result \in Results
        /\ verdict.result.strict <=> ~verdict.result.debt
    BY <1>1 DEF IInv, InHand, AtTrace
  <2>3. QED
    BY <1>4, <2>1, <2>2, TraceVerdictModest
<1>7. HandRight'
  BY <1>1, <1>2, <1>5, <1>6 DEF HandRight, Deserved
<1>8. RowsRight' /\ AllDone'
  BY <1>1, <1>2, <1>4 DEF RightInv, RowsRight, Deserved, AllDone
<1>9. QED
  BY <1>4, <1>7, <1>8

(* The verdict in hand is saved.                                           *)
LEMMA JudgedIsSaved ==
  ASSUME IInv, RightInv, Save
  PROVE  Kept' /\ RowsRight' /\ HandRight' /\ AllDone'
<1>1. /\ pc = "save" /\ pc' = (IF todo = {cur} THEN "done" ELSE "verify")
      /\ rows' = [rows EXCEPT ![cur] = verdict.result] /\ todo' = todo \ {cur}
      /\ protocol' = protocol /\ tx' = tx /\ cache' = cache
  BY DEF Save, Goto, world
<1>2. \A i : Candidate(i)' = Candidate(i)
  BY <1>1 DEF Candidate
<1>3. cur \in todo /\ cur \in DOMAIN rows
  BY <1>1 DEF IInv, Work
<1>4. ASSUME NEW o \in DOMAIN rows \ todo', Judged(protocol, tx, Candidate(o))
      PROVE  Deserved(tx, Candidate(o), rows'[o])
  <2>1. CASE o = cur
    BY <1>1, <1>3, <1>4, <2>1 DEF RightInv, HandRight
  <2>2. CASE o # cur
    BY <1>1, <1>4, <2>2 DEF RightInv, RowsRight
  <2>3. QED
    BY <2>1, <2>2
<1>5. DOMAIN rows' = DOMAIN rows
  BY <1>1
<1>6. RowsRight'
  BY <1>1, <1>2, <1>4, <1>5 DEF RowsRight, Deserved
<1>7. Kept' /\ HandRight' /\ AllDone'
  BY <1>1 DEF RightInv, Kept, HandRight, AllDone
<1>8. QED
  BY <1>6, <1>7

(* On a chain, where a loan that went through has left its events, its     *)
(* callback and its repayment, every scan ends with verdicts that give no  *)
(* interaction more than the transaction deserves, and all of that but for *)
(* null answers and Balancer loans judged on events alone: whatever the    *)
(* earlier scans have left in the tables, and whichever loans are nested   *)
(* in or run beside the one being verified.                                *)
THEOREM VerdictsAlwaysRight ==
  ASSUME \A t \in Txs : Genuine(t)
  PROVE  Spec => []VerdictIsRight
<1>1. Init => RightInv
  BY DEF Init, RightInv, Stored, Kept, RowsRight, HandRight, AllDone
<1>2. ASSUME IInv, RightInv, [Next]_vars
      PROVE  RightInv'
  <2>1. Stored'
    BY <1>2, StoredStep DEF RightInv
  <2>2. CASE Start \/ ExtractFails \/ NothingFound \/ StoreCandidates \/ TraceFails
    BY <1>2, <2>1, <2>2, UnjudgedStep DEF RightInv
  <2>3. CASE VerifyEvents
    BY <1>2, <2>1, <2>3, JudgedOnEvents DEF RightInv
  <2>4. CASE TraceCached \/ TraceAnswered \/ TraceUnavailable
    BY <1>2, <2>1, <2>4, JudgedOnTrace DEF RightInv
  <2>5. CASE Save
    BY <1>2, <2>1, <2>5, JudgedIsSaved DEF RightInv
  <2>6. CASE UNCHANGED vars
    <3>1. /\ protocol' = protocol /\ tx' = tx /\ rows' = rows /\ todo' = todo /\ pc' = pc
          /\ cur' = cur /\ verdict' = verdict /\ cache' = cache
      BY <2>6 DEF vars, world, tables, locals
    <3>2. \A i : Candidate(i)' = Candidate(i)
      BY <3>1 DEF Candidate
    <3>3. QED
      BY <1>2, <2>1, <3>1, <3>2 DEF RightInv, Kept, RowsRight, HandRight, Deserved, AllDone
  <2>7. QED
    BY <1>2, <2>2, <2>3, <2>4, <2>5, <2>6 DEF Next
<1>3. ASSUME IInv, RightInv
      PROVE  VerdictIsRight
  <2>1. SUFFICES ASSUME pc = "done", NEW c \in Candidates(protocol, tx),
                        c.legs # {}, ~(protocol = "aave" /\ LookAlike(tx, c))
                 PROVE  Deserved(tx, c, rows[c.ordinal])
    BY DEF VerdictIsRight, Deserved, Right, Modest
  <2>2. c.ordinal \in Ordinals
    BY DEF Ordinals
  <2>3. c = Candidate(c.ordinal)
    BY <1>3, <2>2, CandidateOf DEF IInv
  <2>4. c.ordinal \in DOMAIN rows \ todo
    BY <1>3, <2>1, <2>2 DEF RightInv, Stored, AllDone
  <2>5. QED
    BY <1>3, <2>1, <2>3, <2>4 DEF RightInv, RowsRight, Judged
<1>4. QED
  BY <1>1, <1>2, <1>3, InvariantHolds, PTL DEF Spec
===============================================================================

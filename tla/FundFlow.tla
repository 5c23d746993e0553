------------------------------- MODULE FundFlow -------------------------------
(***************************************************************************)
(* The fund flow graph of the transaction page                             *)
(* (api/service/fund_flow_graph.go): for each leg of each interaction a    *)
(* lane with the loan, the key transfers that follow it, the top-ups of    *)
(* the receiver and the repayment.  Pure operators; TransactionPage runs   *)
(* them.                                                                   *)
(*                                                                         *)
(* A loan is an interaction with its legs in order: provider and receiver, *)
(* and of each leg the asset, the amounts borrowed, repaid, premium and    *)
(* fee, and the address repaid to.  The provider is never empty, nor is    *)
(* the receiver: every extractor sets both, and where it sets the callback *)
(* target it is the receiver, so the alternatives the code tries after     *)
(* them are never taken.  An amount is the sequence of its decimal digits, *)
(* << >> when there is none.  Of a segment the two ends, the action, the   *)
(* asset, the amount and the tone are kept; titles and labels are wording. *)
(***************************************************************************)
EXTENDS TraceTree, TLC

CONSTANTS
  ZeroAddress,
  DebtAssets      \* assets whose builtin label says debt

Zero == <<48>>

NormalizeAmount(amount) == IF amount = << >> THEN Zero ELSE amount

FirstOf(sequence, n) == SubSeq(sequence, 1, Min({n, Len(sequence)}))

OrElse(drawn, other) == IF drawn # << >> THEN drawn ELSE other

(* The members of a sequence at some of its places; those of a set; the    *)
(* first for each key, the keys being given in a sequence of the same      *)
(* length: in order.                                                       *)
Taken(s, places) == FlattenSeq([n \in DOMAIN s |-> IF n \in places THEN <<s[n]>> ELSE << >>])

Keep(s, S) == Taken(s, {n \in DOMAIN s : s[n] \in S})

FirstsOf(s, keys) == Taken(s, {n \in DOMAIN s : \A m \in 1 .. n - 1 : keys[m] # keys[n]})

(* sort.SliceStable, less being the pairs of places that are in order: the *)
(* place of a member is the number of those ahead of it.                   *)
InOrder(s, less) ==
  LET ahead(i) == {j \in DOMAIN s : <<j, i>> \in less \/ (j < i /\ <<i, j>> \notin less)}
  IN [n \in DOMAIN s |-> s[CHOOSE i \in DOMAIN s : Cardinality(ahead(i)) = n - 1]]

Pairs(s) == (DOMAIN s) \X (DOMAIN s)

(* A slip: the carry of the last digit is lost.                            *)
AddDecimalStringsShort(left, right) ==
  LET len == Max({Len(left), Len(right)})
      digit(s, i) == IF i < Len(s) THEN s[Len(s) - i] - 48 ELSE 0
      carry[i \in 0 .. len] ==
        IF i = 0 THEN 0
        ELSE (digit(left, i - 1) + digit(right, i - 1) + carry[i - 1]) \div 10
      column(i) == (digit(left, i) + digit(right, i) + carry[i]) % 10
  IN [n \in 1 .. len |-> 48 + column(len - n)]

(* addDecimalStrings: digit by digit from the right, with a carry.         *)
AddDecimalStrings(left, right) ==
  LET len == Max({Len(left), Len(right)})
      digit(s, i) == IF i < Len(s) THEN s[Len(s) - i] - 48 ELSE 0
      carry[i \in 0 .. len] ==
        IF i = 0 THEN 0
        ELSE (digit(left, i - 1) + digit(right, i - 1) + carry[i - 1]) \div 10
      column(i) == (digit(left, i) + digit(right, i) + carry[i]) % 10
  IN (IF carry[len] > 0 THEN <<48 + carry[len]>> ELSE << >>)
       \o [n \in 1 .. len |-> 48 + column(len - n)]

AddAmount(total, amount) ==
  CASE NormalizeAmount(amount) = Zero -> total
    [] NormalizeAmount(amount) # Zero /\ total = Zero -> amount
    [] OTHER -> AddDecimalStrings(total, amount)

SumRawAmounts(first, second, third) ==
  AddAmount(AddAmount(AddAmount(Zero, first), second), third)

FirstNonZero(left, right) ==
  IF NormalizeAmount(left) # Zero THEN left ELSE NormalizeAmount(right)

(* What the receiver is expected to give back for a leg.                   *)
ExpectedRepayment(leg) ==
  SumRawAmounts(FirstNonZero(leg.repaid, leg.borrowed), leg.premium, leg.fee)

-------------------------------------------------------------------------------
(* The flows of the summary, in order.                                     *)

(* The order of two strings.                                               *)
IdBefore(left, right) ==
  \/ IsStrictPrefix(left, right)
  \/ \E n \in DOMAIN left \cap DOMAIN right :
       left[n] < right[n] /\ \A k \in 1 .. n - 1 : left[k] = right[k]

FlowBefore(f, g) ==
  f.order < g.order \/ (f.order = g.order /\ IdBefore(f.frame, g.frame))

InTraceOrder(flows) ==
  InOrder(flows, {p \in Pairs(flows) : FlowBefore(flows[p[1]], flows[p[2]])})

(* A slip: the depth comes before the call index.                          *)
FrameOrderByDepth(frame) == frame.callIndex + 10 * frame.depth

(* A frame deeper than nine calls is placed after some that follow it.     *)
FrameOrder(frame) == frame.callIndex * 10 + frame.depth

(* sortFundFlowsByTrace                                                    *)
SortedFlows(summary) ==
  LET frameOf(id) == CHOOSE f \in ToSet(summary.frames) : f.id = id
      withOrder(flow) == [frame |-> flow.frame, action |-> flow.action,
                          asset |-> flow.asset, source |-> flow.source,
                          target |-> flow.target, amount |-> flow.amount,
                          order |-> FrameOrder(frameOf(flow.frame))]
  IN InTraceOrder([n \in DOMAIN summary.flows |-> withOrder(summary.flows[n])])

(* isMeaningfulFundFlow, and both ends are addresses.                      *)
MeaningfulFlows(summary) ==
  LET flows == SortedFlows(summary)
  IN Keep(flows, {f \in ToSet(flows) : /\ f.amount # Zero
                                       /\ f.action \in {"transfer", "transferFrom"}
                                       /\ ZeroAddress \notin {f.source, f.target}})

(* filterFlowsByInteractionEvidence: all the flows when none is evidence   *)
(* of the interaction.                                                     *)
FlowsOf(flows, evidence) ==
  LET frames == evidence.callbacks \cup evidence.subtree \cup evidence.repayments
      filtered == Keep(flows, {f \in ToSet(flows) : f.frame \in frames})
  IN IF filtered = << >> THEN flows ELSE filtered

(* pickPreferredOrderedFlow: the first flow of the first group that has    *)
(* one, the flows being in order.  << >> when there is none, else a        *)
(* sequence of one.                                                        *)
Preferred(groups) ==
  LET filled(group) == group # << >>
      found == SelectSeq(groups, filled)
  IN IF found = << >> THEN << >> ELSE <<found[1][1]>>

(* The transfer taken for the loan of a leg.                               *)
BorrowFlow(flows, loan, leg, sender) ==
  LET candidate(f) == f.target = loan.receiver /\ f.asset = leg.asset
      exact(f) == f.amount = NormalizeAmount(leg.borrowed)
      lent(f) == f.source = loan.provider /\ exact(f)
      received(f) == f.source # sender
      receivedExact(f) == received(f) /\ exact(f)
      candidates == SelectSeq(flows, candidate)
  IN Preferred(<<SelectSeq(candidates, lent), SelectSeq(candidates, receivedExact),
                 SelectSeq(candidates, exact), SelectSeq(candidates, received),
                 candidates>>)

(* The transfer taken for its repayment.                                   *)
RepayFlow(flows, loan, leg) ==
  LET candidate(f) == f.source = loan.receiver /\ f.asset = leg.asset
      exact(f) == f.amount = ExpectedRepayment(leg)
      asVerified(f) == f.target = leg.repaidTo /\ exact(f)
      back(f) == f.target = loan.provider
      backExact(f) == back(f) /\ exact(f)
      candidates == SelectSeq(flows, candidate)
  IN Preferred(<<SelectSeq(candidates, asVerified), SelectSeq(candidates, backExact),
                 SelectSeq(candidates, exact), SelectSeq(candidates, back),
                 candidates>>)

-------------------------------------------------------------------------------
(* extractKeyExecutionSegments.  lane holds the three addresses at which   *)
(* the search turns, receiver, repaymentTarget and borrowSource, and start,*)
(* the place of the loan in the trace.                                     *)

(* The flows after the loan by their source: a map of slices, which        *)
(* walkBranch sorts in place while its callers still range over them.      *)
Adjacency(flows, start) ==
  [a \in {f.source : f \in ToSet(flows)} \cup {f.target : f \in ToSet(flows)} |->
     Keep(flows, {f \in ToSet(flows) : f.order > start /\ f.source = a})]

MaxSeeds == 4
MaxBranches == 3
MaxHops == 3

(* A slip: a branch may start with the repayment.                          *)
SeedsAll(flows, lane) ==
  FirstOf(Keep(flows, {f \in ToSet(flows) : f.target # lane.receiver}), MaxSeeds)

(* Of the flows that leave the receiver.                                   *)
Seeds(flows, lane) ==
  LET ends == {lane.receiver, lane.repaymentTarget, lane.borrowSource}
  IN FirstOf(Keep(flows, {f \in ToSet(flows) : f.target \notin ends}), MaxSeeds)

(* The order in which the flows that leave the target of flow are tried:   *)
(* those from its place in the trace on first, the nearest first.          *)
NearestAfter(flow, f, g) ==
  LET early(h) == IF h.order >= flow.order THEN 0 ELSE 1
      distance(h) == IF h.order >= flow.order THEN h.order - flow.order
                     ELSE flow.order - h.order
  IN \/ early(f) < early(g)
     \/ early(f) = early(g) /\ distance(f) < distance(g)
     \/ early(f) = early(g) /\ distance(f) = distance(g) /\ IdBefore(f.frame, g.frame)

Ends(flow, lane) == flow.target \in {lane.receiver, lane.repaymentTarget}

Mark(search, flow) ==
  [search EXCEPT !.seen = @ \cup {flow.frame}, !.segments = Append(@, flow)]

(* The call of walkBranch for a flow, at the first place of its loop over  *)
(* nextCandidates, with its branchCount.                                   *)
CallFor(flow) == [flow |-> flow, place |-> 1, count |-> 0]

NearestFirst(slice, flow) ==
  InOrder(slice, {p \in Pairs(slice) : NearestAfter(flow, slice[p[1]], slice[p[2]])})

(* walkBranch is called for a flow.  search is adjacency, seenFrameIDs,    *)
(* segments, the seeds to come and the calls under way, the last one       *)
(* called at the end; the depth of the flow is their number.               *)
Enter(search, lane, flow) ==
  IF Len(search.calls) > MaxHops \/ flow.frame \in search.seen THEN search
  ELSE IF Ends(flow, lane) THEN Mark(search, flow)
  ELSE [Mark(search, flow) EXCEPT !.adjacency[flow.target] = NearestFirst(@, flow),
                                  !.calls = Append(@, CallFor(flow))]

(* The last call goes on with its loop: it reads the slice of its target   *)
(* as the calls before have left it.                                       *)
Loop(search, lane) ==
  LET depth == Len(search.calls)
      call == search.calls[depth]
      slice == search.adjacency[call.flow.target]
      next == slice[call.place]
      on(branch) == [search EXCEPT !.calls[depth].place = @ + 1,
                                   !.calls[depth].count = @ + branch]
      away == next.target = lane.borrowSource /\ next.target # lane.receiver
  IN IF call.count = MaxBranches \/ call.place > Len(slice)
     THEN [search EXCEPT !.calls = Front(@)]
     ELSE IF next.frame = call.flow.frame \/ away THEN on(0)
     ELSE Enter(on(1), lane, next)

Step(search, lane) ==
  CASE search.calls # << >> -> Loop(search, lane)
    [] search.calls = << >> /\ search.seeds # << >> ->
         Enter([search EXCEPT !.seeds = Tail(@)], lane, Head(search.seeds))
    [] OTHER -> search

(* Each flow is marked once, and its call goes through one slice.          *)
MaxSteps(flows) == MaxSeeds + Len(flows) * (Len(flows) + 1)

Search(flows, lane) ==
  LET adjacency == Adjacency(flows, lane.start)
      leaving == IF lane.receiver \in DOMAIN adjacency THEN adjacency[lane.receiver] ELSE << >>
      start == [adjacency |-> adjacency, seen |-> {}, segments |-> << >>,
                seeds |-> Seeds(leaving, lane), calls |-> << >>]
      search[n \in 0 .. MaxSteps(flows)] ==
        IF n = 0 THEN start ELSE Step(search[n - 1], lane)
  IN search[MaxSteps(flows)]

KeySegments(flows, lane) ==
  InTraceOrder(Search(flows, lane).segments)

-------------------------------------------------------------------------------
(* The top-ups: other transfers to the receiver after the loan.            *)

MaxTopUps == 3

(* A slip: the transfers of the execution branches are topped up again.    *)
TopUpCandidatesAgain(flows, lane, leg, sender, execution) ==
  Keep(flows, {f \in ToSet(flows) :
    /\ f.order > lane.start
    /\ f.target = lane.receiver /\ f.source # lane.receiver
    /\ f.asset \notin DebtAssets
    /\ \/ f.source \in {sender, lane.borrowSource, lane.repaymentTarget}
       \/ f.amount = ExpectedRepayment(leg)
       \/ f.asset = leg.asset})

TopUpCandidates(flows, lane, leg, sender, execution) ==
  Keep(flows, {f \in ToSet(flows) :
    /\ f.order > lane.start
    /\ f.target = lane.receiver /\ f.source # lane.receiver
    /\ f.frame \notin {e.frame : e \in ToSet(execution)}
    /\ f.asset \notin DebtAssets
    /\ \/ f.source \in {sender, lane.borrowSource, lane.repaymentTarget}
       \/ f.amount = ExpectedRepayment(leg)
       \/ f.asset = leg.asset})

(* pickKeyTopupFlows: those of the sender first, then those of the         *)
(* expected amount; one for each source, asset and amount.                 *)
PickTopUps(candidates, leg, sender) ==
  LET rank(f) == (IF f.source = sender THEN 0 ELSE 2)
                   + (IF f.amount = ExpectedRepayment(leg) THEN 0 ELSE 1)
      before(f, g) == rank(f) < rank(g) \/ (rank(f) = rank(g) /\ f.order < g.order)
      sorted == InOrder(candidates, {p \in Pairs(candidates) :
                                       before(candidates[p[1]], candidates[p[2]])})
      key(f) == <<f.source, f.asset, f.amount>>
  IN FirstOf(FirstsOf(sorted, [n \in DOMAIN sorted |-> key(sorted[n])]), MaxTopUps)

-------------------------------------------------------------------------------
(* Lanes.                                                                  *)

(* compactRawAmount: more than ten digits are shown as "123456...7890".    *)
Compact(amount) ==
  IF Len(amount) <= 10 THEN amount
  ELSE FirstOf(amount, 6) \o <<Dot, Dot, Dot>> \o SubSeq(amount, Len(amount) - 3, Len(amount))

Segment(from, to, action, asset, amount, tone) ==
  [from |-> from, to |-> to, action |-> action, asset |-> asset,
   amount |-> Compact(amount), tone |-> tone]

(* dedupeFundFlowSegments: the first of each; the amount does not count.   *)
Dedupe(segments) ==
  LET key(s) == <<s.from, s.to, s.asset, s.tone, s.action>>
  IN FirstsOf(segments, [n \in DOMAIN segments |-> key(segments[n])])

(* The roles pushNode gives the ends of the segments.                      *)
RolesOf(segment, receiver) ==
  LET hop(a) == IF a = receiver THEN "receiver" ELSE "hop"
  IN CASE segment.tone = "borrow" ->
            <<<<segment.from, "borrow_source">>, <<segment.to, "receiver">>>>
       [] segment.action = "Top-up" ->
            <<<<segment.from, "topup_source">>, <<segment.to, "receiver">>>>
       [] segment.action = "Repay" ->
            <<<<segment.from, "receiver">>, <<segment.to, "repayment_target">>>>
       [] OTHER -> <<<<segment.from, hop(segment.from)>>, <<segment.to, hop(segment.to)>>>>

Nodes(segments, receiver) == UNION {ToSet(RolesOf(s, receiver)) : s \in ToSet(segments)}

(* pushNode of the fallback keeps the first role of an address.            *)
FirstRoles(segments, receiver) ==
  LET roles == FlattenSeq([n \in DOMAIN segments |-> RolesOf(segments[n], receiver)])
  IN ToSet(FirstsOf(roles, [n \in DOMAIN roles |-> roles[n][1]]))

(* No lane when there is nothing to draw.                                  *)
LaneOf(loan, leg, segments, nodes) ==
  IF segments = << >> THEN << >>
  ELSE <<[provider |-> loan.provider, receiver |-> loan.receiver, asset |-> leg.asset,
          nodes |-> nodes, segments |-> Dedupe(segments)]>>

BorrowSegment(source, loan, leg) ==
  IF NormalizeAmount(leg.borrowed) = Zero THEN << >>
  ELSE <<Segment(source, loan.receiver, "Borrow", leg.asset, leg.borrowed, "borrow")>>

RepaySegment(target, loan, leg) ==
  IF ExpectedRepayment(leg) = Zero THEN << >>
  ELSE <<Segment(loan.receiver, target, "Repay", leg.asset, ExpectedRepayment(leg), "repay")>>

FirstAddress(address, other) == IF address # NoAddress THEN address ELSE other

(* The places where the search for a leg begins and turns.                 *)
LaneAround(loan, leg, borrow, repay) ==
  [receiver        |-> loan.receiver,
   borrowSource    |-> IF borrow = << >> THEN loan.provider ELSE borrow[1].source,
   repaymentTarget |-> IF repay = << >> THEN FirstAddress(leg.repaidTo, loan.provider)
                       ELSE repay[1].target,
   start           |-> IF borrow = << >> THEN -1 ELSE borrow[1].order]

DrawnLane(loan, leg, segments) == LaneOf(loan, leg, segments, Nodes(segments, loan.receiver))

LaneWith(loan, leg, lane, execution, topUps) ==
  LET swap(f) == Segment(f.source, f.target, f.action, f.asset, f.amount, "swap")
      topUp(f) == Segment(f.source, loan.receiver, "Top-up", f.asset, f.amount, "repay")
  IN DrawnLane(loan, leg,
               BorrowSegment(lane.borrowSource, loan, leg)
                 \o [n \in DOMAIN execution |-> swap(execution[n])]
                 \o [n \in DOMAIN topUps |-> topUp(topUps[n])]
                 \o RepaySegment(lane.repaymentTarget, loan, leg))

LaneAlong(flows, loan, leg, sender, lane, execution) ==
  LaneWith(loan, leg, lane, execution,
           PickTopUps(TopUpCandidates(flows, lane, leg, sender, execution), leg, sender))

LaneBetween(flows, loan, leg, sender, lane) ==
  LaneAlong(flows, loan, leg, sender, lane, KeySegments(flows, lane))

(* buildFundFlowLane                                                       *)
Lane(flows, loan, leg, sender) ==
  LaneBetween(flows, loan, leg, sender,
              LaneAround(loan, leg, BorrowFlow(flows, loan, leg, sender),
                         RepayFlow(flows, loan, leg)))

(* buildFallbackFundFlowLane: the loan as the tables have it.              *)
FallbackLane(loan, leg) ==
  LET segments == BorrowSegment(loan.provider, loan, leg)
                    \o RepaySegment(FirstAddress(leg.repaidTo, loan.provider), loan, leg)
  IN LaneOf(loan, leg, segments, FirstRoles(segments, loan.receiver))

(* The legs in the order of the page, each with the place of its loan.     *)
LegsOf(loans) ==
  FlattenSeq([n \in DOMAIN loans |->
    [k \in DOMAIN loans[n].legs |-> [loan |-> n, leg |-> loans[n].legs[k]]]])

(* buildFundFlowGraph: the lanes of the legs, and the status.  evidence is *)
(* that of the loan, by its place among the interactions.                  *)
GraphOf(summary, loans, sender, meaningful) ==
  LET traced == summary.status = "available" /\ meaningful # << >>
      legs == LegsOf(loans)
      laneOf(n, leg) ==
        OrElse(IF traced THEN Lane(FlowsOf(meaningful, summary.evidence[n]),
                                   loans[n], leg, sender)
               ELSE << >>,
               FallbackLane(loans[n], leg))
  IN [status |-> summary.status, traced |-> traced,
      lanes  |-> FlattenSeq([n \in DOMAIN legs |-> laneOf(legs[n].loan, legs[n].leg)])]

Graph(summary, loans, sender) ==
  GraphOf(summary, loans, sender, MeaningfulFlows(summary))
===============================================================================

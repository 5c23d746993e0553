------------------------------- MODULE TraceTree -------------------------------
(***************************************************************************)
(* What the transaction page makes of a call trace                         *)
(* (api/service/trace_summary.go): the frames in call order, the token     *)
(* calls among them as asset flows, and the frames that are evidence for   *)
(* an interaction.  Pure operators; TransactionPage runs them.             *)
(*                                                                         *)
(* A trace is a function from paths to frames.  A path is the sequence of  *)
(* child indexes that leads to a frame, << >> for the root, and the        *)
(* domain holds with a path all its prefixes and its left siblings.  Of a  *)
(* frame we keep                                                           *)
(*   from, to   the addresses, in one spelling (the code lowers the case)  *)
(*   error      whether the tracer reports an error of this very frame     *)
(*   input      the decoded call: method "transfer", "transferFrom" or     *)
(*              "approve" with its arguments, or "other"; whole is FALSE   *)
(*              when the input is too short for the arguments              *)
(* The type of a frame is not looked at by this code, and its labels and   *)
(* details are wording.                                                    *)
(***************************************************************************)
EXTENDS Naturals, Sequences, SequencesExt

CONSTANT NoAddress   \* the empty string where an address may stand

(* The paths of a call trace: with a path its prefixes and left siblings.  *)
IsTrace(trace) ==
  /\ IsFiniteSet(DOMAIN trace) /\ DOMAIN trace \subseteq Seq(Nat)
  /\ << >> \in DOMAIN trace
  /\ \A path \in DOMAIN trace \ {<< >>} :
       /\ Front(path) \in DOMAIN trace
       /\ \A n \in 0 .. Last(path) : Append(Front(path), n) \in DOMAIN trace

(* The decimal digits of a number, as characters.                          *)
Digits[n \in Nat] ==
  IF n < 10 THEN <<48 + n>> ELSE Append(Digits[n \div 10], 48 + (n % 10))

Dot == 46

(* The frame id "trace-root.1.0" without its constant head; no two paths   *)
(* have the same.                                                          *)
Id(path) == FlattenSeq([n \in DOMAIN path |-> <<Dot>> \o Digits[path[n]]])

NoId == <<0>>

ParentId(path) == IF path = << >> THEN NoId ELSE Id(Front(path))

NumCalls(trace, path) ==
  Cardinality({p \in DOMAIN trace : Len(p) = Len(path) + 1 /\ Front(p) = path})

(* The closure walk: a frame, then its calls from the first to the last.   *)
Walk(trace) ==
  LET walk[path \in DOMAIN trace] ==
        <<path>> \o FlattenSeq([n \in 1 .. NumCalls(trace, path) |->
                                  walk[Append(path, n - 1)]])
  IN walk[<< >>]

(* decodeTokenAction: the action and who gives what to whom.               *)
NoAction == [action |-> "", amount |-> << >>, source |-> NoAddress,
             target |-> NoAddress]

DecodeTokenAction(frame) ==
  LET input == frame.input
  IN IF ~input.whole \/ input.method = "other" THEN NoAction
     ELSE [action |-> input.method,
           amount |-> input.amount,
           source |-> IF input.method = "transferFrom" THEN input.from ELSE frame.from,
           target |-> input.to]

(* flattenTraceFrames                                                      *)
Flatten(trace) ==
  LET order == Walk(trace)
  IN [n \in DOMAIN order |->
        LET path == order[n]
        IN [id |-> Id(path), parent |-> ParentId(path), depth |-> Len(path),
            callIndex |-> n - 1,
            from |-> trace[path].from, to |-> trace[path].to,
            error |-> trace[path].error, token |-> DecodeTokenAction(trace[path])]]

-------------------------------------------------------------------------------
(* The evidence of one interaction: sets of frame ids (each list is        *)
(* deduplicated, and read as a set by all who read it).                    *)

IsCallback(frame, loan) ==
  ~frame.error /\ frame.from = loan.provider /\ frame.to = loan.receiver

(* matchesRepaymentFrame: a token call, an approval too, that has an asset *)
(* of the loan or its provider at one end.                                 *)
MatchesRepayment(frame, loan) ==
  /\ ~frame.error
  /\ frame.token.action # ""
  /\ {frame.from, frame.to}
       \cap ({leg.asset : leg \in ToSet(loan.legs)} \cup {loan.provider}) # {}

(* A slip: the prefix without the dot that ends it.                        *)
SubtreeByPrefix(frames, root) ==
  {f.id : f \in {g \in ToSet(frames) : IsPrefix(root, g.id)}}

(* collectSubtreeFrameIDs                                                  *)
Subtree(frames, root) ==
  {f.id : f \in {g \in ToSet(frames) :
                   g.id = root \/ IsPrefix(Append(root, Dot), g.id)}}

(* buildTraceInteractionEvidence                                           *)
Evidence(frames, loan) ==
  LET callbacks == {f.id : f \in {g \in ToSet(frames) : IsCallback(g, loan)}}
  IN [callbacks  |-> callbacks,
      subtree    |-> UNION {Subtree(frames, id) : id \in callbacks},
      repayments |-> {f.id : f \in {g \in ToSet(frames) : MatchesRepayment(g, loan)}}]

(* tagTraceFrames: the tags of one frame.                                  *)
Tags(frame, evidence) ==
  {tag \in {"token_action", "callback_path", "repayment_path", "error"} :
     CASE tag = "token_action"   -> frame.token.action # ""
       [] tag = "callback_path"  -> \E e \in ToSet(evidence) : frame.id \in e.subtree
       [] tag = "repayment_path" -> \E e \in ToSet(evidence) : frame.id \in e.repayments
       [] tag = "error"          -> frame.error}

(* The asset flows: one for each token call, whether it reverted or not.   *)
AssetFlows(frames) ==
  LET moving(f) == /\ f.token.action # ""
                   /\ f.token.source # NoAddress
                   /\ f.token.target # NoAddress
      flow(f) == [frame |-> f.id, action |-> f.token.action, asset |-> f.to,
                  source |-> f.token.source, target |-> f.token.target,
                  amount |-> f.token.amount]
  IN FlattenSeq([n \in DOMAIN frames |->
                   IF moving(frames[n]) THEN <<flow(frames[n])>> ELSE << >>])

(* A summary without frames: no trace, or no way to get one.               *)
NoSummary(status) ==
  [status |-> status, frames |-> << >>, tags |-> << >>, flows |-> << >>,
   evidence |-> << >>]

(* buildTransactionTraceSummaryFromRoot, loans in the order of the page.   *)
SummaryOf(trace, loans) ==
  LET frames == Flatten(trace)
      evidence == [n \in DOMAIN loans |-> Evidence(frames, loans[n])]
  IN [status   |-> "available",
      frames   |-> frames,
      tags     |-> [n \in DOMAIN frames |-> Tags(frames[n], evidence)],
      flows    |-> AssetFlows(frames),
      evidence |-> evidence]
===============================================================================

------------------------------ MODULE Detection ------------------------------
(***************************************************************************)
(* What a runner concludes about one transaction: the candidate extractors *)
(* (scanner/extractor), the verifiers on events and on traces              *)
(* (scanner/verifier) and the trace providers (scanner/trace), for each of *)
(* the three protocols.  ScanPipeline has the same RunOnce with its        *)
(* database calls and leaves the verdict open; here the statements between *)
(* two verdicts are one step, and the verdict is computed.                 *)
(*                                                                         *)
(* A transaction is a record of what the chain and contract_events hold:   *)
(*   ok      its receipt status                                            *)
(*   to      the address it calls                                          *)
(*   call    the call, decoded by an ABI, or None when no method of the    *)
(*           three ABIs has its selector; decodes is false when the        *)
(*           arguments cannot be unpacked                                  *)
(*   log     its events in order; topic names the protocol whose loan (or  *)
(*           Swap) event it is, events that do not decode are left out     *)
(*   frames  the frames of its call trace; moves: the input is an approve, *)
(*           a transfer or a transferFrom                                  *)
(* A transaction has one interaction per ordinal.  Of a leg the side, the  *)
(* asset, the amount, the mode and the three flags are kept; fees and      *)
(* settlement_mode (which follows from debt) are not.  Of the notes of a   *)
(* verdict only this is kept: traced, that a trace is behind it.           *)
(***************************************************************************)
EXTENDS Naturals, Sequences, FiniteSets

CONSTANTS
  Official,       \* the addresses the registry accepts, per protocol
  TokenOf,        \* the tokens of a pair of the registry, by side
  Txs,            \* the transactions
  None,
  MaxScans,       \* RunOnce of a new runner over the transaction (bound)
  MaxErrors       \* answers of the node that end a scan (bound)

Protocols == {"aave", "balancer", "uniswap"}
Sides == {"token0", "token1"}

ASSUME DetectionAssumption ==
  /\ DOMAIN Official = Protocols
  /\ MaxScans \in Nat
  /\ MaxErrors \in Nat
  /\ \A t \in Txs : DOMAIN t.log \subseteq Nat /\ IsFiniteSet(DOMAIN t.log)
  /\ \A t \in Txs : t.call # None /\ t.call.abi # "uniswap" =>
       DOMAIN t.call.legs \subseteq Nat \ {0}
  /\ \A t \in Txs : t.call # None /\ t.call.abi = "balancer" =>
       \A n \in DOMAIN t.call.legs : t.call.legs[n].mode = 0
  /\ \A t \in Txs : t.frames # None
  /\ None # {}

VARIABLES
  protocol,       \* of the runner
  tracing,        \* TraceEnabled
  tx,             \* the transaction
  rows,           \* its protocol_interactions: the verdict by ordinal
  legs,           \* their interaction_asset_legs
  pc,
  todo,           \* ordinals not verified yet
  cur,            \* the one being verified
  verdict,        \* what Verify returns: the result, the legs, or nil for the legs
  cache,          \* the trace in CachedProvider, or None
  answers,        \* traces the node has sent in this scan
  scans, errors

world == <<protocol, tracing, tx>>
tables == <<rows, legs>>
locals == <<pc, todo, cur, verdict>>
vars == <<world, tables, locals, cache, answers, scans, errors>>

-------------------------------------------------------------------------------
(* Extraction.                                                             *)

(* A leg as it is extracted.                                               *)
Borrowed(n, side, asset, amount, mode) ==
  [index |-> n, side |-> side, asset |-> asset, amount |-> amount,
   mode |-> mode, debt |-> FALSE, strict |-> FALSE, seen |-> FALSE]

(* extractFlashLoan of Aave and of Balancer, and flashLoanSimple, which is *)
(* a loan of one leg in mode 0.                                            *)
LoanLegs(call) ==
  {Borrowed(n - 1, None, call.legs[n].asset, call.legs[n].amount, call.legs[n].mode) :
     n \in DOMAIN call.legs}

(* extractSwap: a leg for each side with a positive amount.                *)
SwapLegs(pair, call) ==
  {Borrowed(IF side = "token1" /\ call.out["token0"] > 0 THEN 1 ELSE 0,
            side, TokenOf[pair][side], call.out[side], 0) :
     side \in {s \in Sides : call.out[s] > 0}}

CalledLegs(t) == IF t.call.abi = "uniswap" THEN SwapLegs(t.to, t.call) ELSE LoanLegs(t.call)

(* The transaction itself calls an official address of p.                  *)
Direct(p, t) == t.to \in Official[p] /\ t.call # None /\ t.call.abi = p

Called(t) ==
  [ordinal |-> 0, provider |-> t.to, receiver |-> t.call.receiver,
   data |-> t.call.data, legs |-> CalledLegs(t)]

(* matchFlashLoanEvents of the Balancer extractor                          *)
VaultEvents(t) ==
  {n \in DOMAIN t.log : t.log[n].topic = "balancer" /\ t.log[n].emitter \in Official["balancer"]}

(* The events with the groupKey of event n.                                *)
Group(t, n) ==
  {m \in VaultEvents(t) : /\ t.log[m].emitter = t.log[n].emitter
                          /\ t.log[m].receiver = t.log[n].receiver}

(* A slip: groupOrder takes the key of every event.                        *)
LeadersRepeated(t) == VaultEvents(t)

(* The first event of each group: groupOrder.                              *)
Leaders(t) == {n \in VaultEvents(t) : \A m \in Group(t, n) : n <= m}

Before(S, n) == Cardinality({m \in S : m < n})

(* extractFromFlashLoanEvents                                              *)
Grouped(t) ==
  {[ordinal  |-> Before(Leaders(t), n),
    provider |-> t.log[n].emitter,
    receiver |-> t.log[n].receiver,
    data     |-> FALSE,
    legs     |-> {Borrowed(Before(Group(t, n), m), None, t.log[m].asset,
                           t.log[m].amount, 0) : m \in Group(t, n)}] :
     n \in Leaders(t)}

(* Extract: the call, and for Balancer, failing that, the events.  A swap  *)
(* needs data and something to go out.                                     *)
Candidates(p, t) ==
  IF Direct(p, t)
  THEN {c \in {Called(t)} : p = "uniswap" => c.data /\ c.legs # {}}
  ELSE IF p = "balancer" THEN Grouped(t) ELSE {}

Candidate(o) == CHOOSE c \in Candidates(protocol, tx) : c.ordinal = o

-------------------------------------------------------------------------------
(* Verification on events.                                                 *)

Fresh == [verified |-> FALSE, strict |-> FALSE, callback |-> FALSE,
          settled |-> FALSE, repaid |-> FALSE, debt |-> FALSE, traced |-> FALSE,
          reason |-> None]

Excluded(why, L) ==
  [result |-> [Fresh EXCEPT !.reason = why], legs |-> L, nil |-> FALSE]

ExcludedUnread(why) ==
  [result |-> [Fresh EXCEPT !.reason = why], legs |-> {}, nil |-> TRUE]

(* A slip: the events of any emitter count.                                *)
EmittedAnywhere(p, t, c) == {n \in DOMAIN t.log : t.log[n].topic = p}

(* matchFlashLoanEvents and matchSwapEvents of the verifiers               *)
Emitted(p, t, c) ==
  {n \in DOMAIN t.log : t.log[n].topic = p /\ t.log[n].emitter = c.provider}

(* A slip: whom the event names is not compared.                           *)
ReportsToAnyone(p, t, c, leg) ==
  {n \in Emitted(p, t, c) : /\ t.log[n].asset = leg.asset
                            /\ t.log[n].amount = leg.amount}

(* The events findMatchingAaveEvent and findMatchingBalancerEvent accept   *)
(* for a leg.                                                              *)
Reports(p, t, c, leg) ==
  {n \in Emitted(p, t, c) : /\ t.log[n].receiver = c.receiver
                            /\ t.log[n].asset = leg.asset
                            /\ t.log[n].amount = leg.amount}

(* The Swap events matchUniswapSwapEvent accepts for the legs L.           *)
Swaps(t, c, L) ==
  {n \in Emitted("uniswap", t, c) : /\ t.log[n].receiver = c.receiver
                                    /\ L # {}
                                    /\ \A leg \in L : t.log[n].out[leg.side] = leg.amount}

Matched(p, t, c, L) ==
  IF p = "uniswap" THEN Swaps(t, c, L) # {}
  ELSE \A leg \in L : Reports(p, t, c, leg) # {}

First(S) == CHOOSE n \in S : \A m \in S : n <= m

(* What the first matching event makes of a leg; an Aave leg takes the     *)
(* mode of the event.                                                      *)
SeenLeg(p, t, c, leg) ==
  LET mode == IF p = "aave" THEN t.log[First(Reports(p, t, c, leg))].mode ELSE 0
  IN IF mode = 0
     THEN [leg EXCEPT !.mode = 0, !.strict = TRUE, !.seen = TRUE]
     ELSE [leg EXCEPT !.mode = mode, !.debt = TRUE, !.strict = FALSE]

(* Verify of the three verifiers that have no trace.                       *)
EventVerdict(p, t, c, L) ==
  CASE ~t.ok ->
         ExcludedUnread("transaction_not_successful")
    [] t.ok /\ p = "uniswap" /\ ~c.data ->
         ExcludedUnread("empty_swap_data")
    [] t.ok /\ (p = "uniswap" => c.data) /\ Emitted(p, t, c) = {} ->
         Excluded("missing_event", L)
    [] t.ok /\ (p = "uniswap" => c.data) /\ Emitted(p, t, c) # {} /\ ~Matched(p, t, c, L) ->
         Excluded("event_mismatch", L)
    [] OTHER ->
         LET seen == {SeenLeg(p, t, c, leg) : leg \in L}
             opened == \E leg \in seen : leg.mode # 0
         IN [result |-> [verified |-> TRUE, strict |-> ~opened, callback |-> TRUE,
                         settled |-> TRUE, repaid |-> ~opened, debt |-> opened,
                         traced |-> FALSE, reason |-> None],
             legs |-> seen, nil |-> FALSE]

-------------------------------------------------------------------------------
(* Verification on a trace.                                                *)

(* hasSuccessfulDirectCall: the root frame is not looked at.               *)
CallbackSeen(c, frames) ==
  \E f \in frames : ~f.root /\ ~f.error /\ f.from = c.provider /\ f.to = c.receiver

(* hasAaveRepaymentPath, hasBalancerRepaymentPath, hasUniswapInvariantPath *)
RepaymentSeen(c, L, frames) ==
  \E f \in frames :
    /\ ~f.error
    /\ {f.from, f.to} \cap {leg.asset : leg \in L} # {}
    /\ f.moves \/ c.provider \in {f.from, f.to}

Annotated(L) == {[leg EXCEPT !.seen = TRUE, !.strict = @ \/ ~leg.debt] : leg \in L}

(* Slips: the early return on debt is missing; Strict is not reset when    *)
(* the callback is missing.                                                *)
TraceVerdictOnDebt(c, v, frames) ==
  LET called == CallbackSeen(c, frames)
      repaid == RepaymentSeen(c, v.legs, frames)
      seen == [v.result EXCEPT !.callback = called, !.settled = called, !.repaid = repaid,
                               !.traced = called]
  IN CASE ~called ->
            [v EXCEPT !.result = [seen EXCEPT !.verified = FALSE, !.strict = FALSE,
                                              !.reason = "missing_trace_callback"]]
       [] called -> [v EXCEPT !.result = [seen EXCEPT !.strict = repaid],
                              !.legs = Annotated(v.legs)]
TraceVerdictKeepsStrict(c, v, frames) ==
  LET called == CallbackSeen(c, frames)
      repaid == RepaymentSeen(c, v.legs, frames)
      seen == [v.result EXCEPT !.callback = called, !.settled = called,
                               !.repaid = repaid /\ ~v.result.debt,
                               !.traced = called \/ v.result.debt]
  IN CASE v.result.debt -> [v EXCEPT !.result = [seen EXCEPT !.strict = FALSE]]
       [] ~v.result.debt /\ ~called ->
            [v EXCEPT !.result = [seen EXCEPT !.verified = FALSE,
                                              !.reason = "missing_trace_callback"]]
       [] OTHER -> [v EXCEPT !.result = [seen EXCEPT !.strict = repaid],
                             !.legs = Annotated(v.legs)]

(* Verify of the three trace verifiers, once the events have verified and  *)
(* the trace is there.  A loan that opened debt stays verified, whatever   *)
(* the trace says.  The notes name the trace, but for a missing callback,  *)
(* which is the reason.                                                    *)
TraceVerdict(c, v, frames) ==
  LET called == CallbackSeen(c, frames)
      repaid == RepaymentSeen(c, v.legs, frames)
      seen == [v.result EXCEPT !.callback = called, !.settled = called,
                               !.repaid = repaid /\ ~v.result.debt,
                               !.traced = called \/ v.result.debt]
  IN CASE v.result.debt ->
            [v EXCEPT !.result = [seen EXCEPT !.strict = FALSE]]
       [] ~v.result.debt /\ ~called ->
            [v EXCEPT !.result = [seen EXCEPT !.verified = FALSE, !.strict = FALSE,
                                              !.reason = "missing_trace_callback"]]
       [] ~v.result.debt /\ called /\ ~repaid ->
            [v EXCEPT !.result = [seen EXCEPT !.strict = FALSE]]
       [] OTHER ->
            [v EXCEPT !.result = [seen EXCEPT !.strict = TRUE], !.legs = Annotated(v.legs)]

-------------------------------------------------------------------------------
(* The steps of a scan.                                                    *)

Goto(label) == pc' = label

(* RunOnce of a runner that has just been built: its cache is empty.       *)
Start ==
  /\ pc \in {"idle", "done", "failed"}
  /\ scans < MaxScans
  /\ scans' = scans + 1
  /\ cache' = None
  /\ answers' = 0
  /\ Goto("extract")
  /\ UNCHANGED <<world, tables, todo, cur, verdict, errors>>

(* Unpack fails, so Extract does, and RunOnce.                             *)
ExtractFails ==
  /\ pc = "extract"
  /\ Direct(protocol, tx)
  /\ ~tx.decodes
  /\ Goto("failed")
  /\ UNCHANGED <<world, tables, todo, cur, verdict, cache, answers, scans, errors>>

NothingFound ==
  /\ pc = "extract"
  /\ Direct(protocol, tx) => tx.decodes
  /\ Candidates(protocol, tx) = {}
  /\ Goto("done")
  /\ UNCHANGED <<world, tables, todo, cur, verdict, cache, answers, scans, errors>>

(* UpsertInteractions clears the verdicts, ReplaceInteractionLegs the legs *)
(* of every interaction that has some.                                     *)
StoreCandidates ==
  LET found == {c.ordinal : c \in Candidates(protocol, tx)}
      stored(o) == IF o \in DOMAIN legs THEN legs[o] ELSE {}
  IN /\ pc = "extract"
     /\ Direct(protocol, tx) => tx.decodes
     /\ found # {}
     /\ rows' = [o \in found |-> Fresh]
     /\ legs' = [o \in found |-> IF Candidate(o).legs = {} THEN stored(o) ELSE Candidate(o).legs]
     /\ todo' = found
     /\ Goto("verify")
     /\ UNCHANGED <<world, cur, verdict, cache, answers, scans, errors>>

(* The verifier on events, for the next interaction; the trace is asked    *)
(* for only when it has verified.                                          *)
VerifyEvents ==
  LET o == First(todo)
      v == EventVerdict(protocol, tx, Candidate(o), legs[o])
  IN /\ pc = "verify"
     /\ cur' = o
     /\ verdict' = v
     /\ Goto(IF tracing /\ v.result.verified THEN "trace" ELSE "save")
     /\ UNCHANGED <<world, tables, todo, cache, answers, scans, errors>>

(* CachedProvider has the trace.                                           *)
TraceCached ==
  /\ pc = "trace"
  /\ cache # None
  /\ verdict' = TraceVerdict(Candidate(cur), verdict, cache)
  /\ Goto("save")
  /\ UNCHANGED <<world, tables, todo, cur, cache, answers, scans, errors>>

(* A slip: the cache is not filled.                                        *)
TraceAnsweredUncached ==
  /\ pc = "trace"
  /\ cache = None
  /\ answers' = answers + 1
  /\ \E frames \in {tx.frames, {}} :
       /\ verdict' = TraceVerdict(Candidate(cur), verdict, frames)
  /\ Goto("save")
  /\ UNCHANGED <<world, tables, todo, cur, cache, scans, errors>>

(* The node answers, CachedProvider keeps the trace, and PersistingProvider*)
(* stores it, which may fail and changes nothing here: the verifiers do not*)
(* read transaction_traces.  A null answer is a frame with nothing in it.  *)
TraceAnswered ==
  /\ pc = "trace"
  /\ cache = None
  /\ answers' = answers + 1
  /\ \E frames \in {tx.frames, {}} :
       /\ cache' = frames
       /\ verdict' = TraceVerdict(Candidate(cur), verdict, frames)
  /\ Goto("save")
  /\ UNCHANGED <<world, tables, todo, cur, scans, errors>>

(* fallbackOnTraceUnavailable: the verdict on events stands.               *)
TraceUnavailable ==
  /\ pc = "trace"
  /\ cache = None
  /\ Goto("save")
  /\ UNCHANGED <<world, tables, todo, cur, verdict, cache, answers, scans, errors>>

(* Any other error ends RunOnce.                                           *)
TraceFails ==
  /\ pc = "trace"
  /\ cache = None
  /\ errors < MaxErrors
  /\ errors' = errors + 1
  /\ Goto("failed")
  /\ UNCHANGED <<world, tables, todo, cur, verdict, cache, answers, scans>>

(* A slip: the nil slice is written like any other.                        *)
SaveNil ==
  /\ pc = "save"
  /\ rows' = [rows EXCEPT ![cur] = verdict.result]
  /\ legs' = [legs EXCEPT ![cur] = verdict.legs]
  /\ todo' = todo \ {cur}
  /\ Goto(IF todo = {cur} THEN "done" ELSE "verify")
  /\ UNCHANGED <<world, cur, verdict, cache, answers, scans, errors>>

(* A slip: the loop goes on after the last interaction.                    *)
SaveLoops ==
  /\ pc = "save"
  /\ rows' = [rows EXCEPT ![cur] = verdict.result]
  /\ legs' = [legs EXCEPT ![cur] = IF verdict.nil THEN @ ELSE verdict.legs]
  /\ todo' = todo \ {cur}
  /\ Goto("verify")
  /\ UNCHANGED <<world, cur, verdict, cache, answers, scans, errors>>

(* UpdateVerificationResult, and ReplaceInteractionLegs of legs not nil.   *)
Save ==
  /\ pc = "save"
  /\ rows' = [rows EXCEPT ![cur] = verdict.result]
  /\ legs' = [legs EXCEPT ![cur] = IF verdict.nil THEN @ ELSE verdict.legs]
  /\ todo' = todo \ {cur}
  /\ Goto(IF todo = {cur} THEN "done" ELSE "verify")
  /\ UNCHANGED <<world, cur, verdict, cache, answers, scans, errors>>

Init ==
  /\ protocol \in Protocols
  /\ tracing \in BOOLEAN
  /\ tx \in Txs
  /\ rows = <<>>
  /\ legs = <<>>
  /\ pc = "idle"
  /\ todo = {}
  /\ cur = 0
  /\ verdict = [result |-> Fresh, legs |-> {}, nil |-> TRUE]
  /\ cache = None
  /\ answers = 0
  /\ scans = 0
  /\ errors = 0

Next ==
  \/ Start \/ ExtractFails \/ NothingFound \/ StoreCandidates \/ VerifyEvents
  \/ TraceCached \/ TraceAnswered \/ TraceUnavailable \/ TraceFails \/ Save

Spec == Init /\ [][Next]_vars

-------------------------------------------------------------------------------
(* Properties.                                                             *)

Results ==
  [verified : BOOLEAN, strict : BOOLEAN, callback : BOOLEAN, settled : BOOLEAN,
   repaid : BOOLEAN, debt : BOOLEAN, traced : BOOLEAN,
   reason : {None, "transaction_not_successful", "empty_swap_data", "missing_event",
             "event_mismatch", "missing_trace_callback"}]

IsLeg(leg) ==
  /\ DOMAIN leg = {"index", "side", "asset", "amount", "mode", "debt", "strict", "seen"}
  /\ leg.index \in Nat
  /\ leg.side \in Sides \cup {None}
  /\ leg.debt \in BOOLEAN /\ leg.strict \in BOOLEAN /\ leg.seen \in BOOLEAN

(* The types of the tables and of what a scan has in hand: while it        *)
(* verifies there is an interaction left, and cur is one of them.          *)
TypeOK ==
  /\ pc \in {"idle", "extract", "verify", "trace", "save", "done", "failed"}
  /\ DOMAIN rows = DOMAIN legs
  /\ \A o \in DOMAIN rows : rows[o] \in Results
  /\ \A o \in DOMAIN legs : \A leg \in legs[o] : IsLeg(leg)
  /\ todo \subseteq DOMAIN rows
  /\ pc \in {"verify", "trace", "save"} => todo # {}
  /\ pc \in {"trace", "save"} => cur \in todo
  /\ verdict.result \in Results
  /\ scans \in 0 .. MaxScans
  /\ errors \in 0 .. MaxErrors

(* Event n is the provider's word that the receiver got this leg.          *)
Tells(p, t, c, leg, n) ==
  /\ t.log[n].topic = p
  /\ t.log[n].emitter = c.provider
  /\ t.log[n].receiver = c.receiver
  /\ IF p = "uniswap" THEN t.log[n].out[leg.side] = leg.amount
     ELSE t.log[n].asset = leg.asset /\ t.log[n].amount = leg.amount

(* The provider tells of the leg in two modes.                             *)
LookAlike(t, c) ==
  \E leg \in c.legs : \E n \in DOMAIN t.log :
    Tells("aave", t, c, leg, n) /\ t.log[n].mode # leg.mode

(* What the contracts of a protocol leave of a loan that went through: the *)
(* provider has told of each leg, or of the swap, in an event, and called  *)
(* the receiver; and where no leg opens debt, a token call of a loaned     *)
(* asset takes the repayment.                                              *)
WentThrough(p, t, c) ==
  /\ IF p = "uniswap"
     THEN \E n \in DOMAIN t.log : \A leg \in c.legs : Tells(p, t, c, leg, n)
     ELSE \A leg \in c.legs : \E n \in DOMAIN t.log : Tells(p, t, c, leg, n)
  /\ CallbackSeen(c, t.frames)
  /\ (\A leg \in c.legs : leg.mode = 0) => RepaymentSeen(c, c.legs, t.frames)

(* The transaction is one that such contracts have run.                    *)
Genuine(t) ==
  t.ok => \A p \in Protocols : \A c \in Candidates(p, t) :
            c.legs # {} => WentThrough(p, t, c)

(* No trace is behind the verdict: there are none, or it was unavailable.  *)
OnEventsAlone(row) == ~tracing \/ (~row.traced /\ row.reason = None)

WithoutDebt(c) == \A leg \in c.legs : leg.mode = 0

(* When a scan ends no interaction has more than the transaction deserves, *)
(* whatever the node has answered: verified when it succeeded, strict when *)
(* besides no leg opened debt.  And it has all of that, whether the trace  *)
(* was had, kept in the cache or missing, but for two cases: the node has  *)
(* answered null, or a Balancer verdict stands on events alone, where      *)
(* docs/flash-loan-pattern-discussion.md:1003-1009 wants neither           *)
(* (EventOnlyIsCandidate is about the code there).  Not said of an Aave    *)
(* loan without legs, nor of one with a look-alike (DebtIsNeverStrict).    *)
VerdictIsRight ==
  pc = "done" =>
    \A c \in Candidates(protocol, tx) :
      c.legs # {} /\ ~(protocol = "aave" /\ LookAlike(tx, c)) =>
        LET row == rows[c.ordinal]
            bare == cache = {} \/ (protocol = "balancer" /\ OnEventsAlone(row))
        IN /\ row.verified => tx.ok
           /\ row.strict => tx.ok /\ WithoutDebt(c)
           /\ ~bare /\ tx.ok => row.verified
           /\ ~bare /\ tx.ok /\ WithoutDebt(c) => row.strict

(* What the rules document says of a Balancer loan that only its events    *)
(* show: without the call of the vault and without callback or repayment   *)
(* evidence it is a candidate and not strict (15.9.2, lines 951-963, and   *)
(* 1057-1058).  Verify of balancer_v2.go makes it strict on its events.    *)
EventOnlyIsCandidate ==
  protocol = "balancer" /\ ~Direct("balancer", tx) =>
    \A o \in DOMAIN rows : OnEventsAlone(rows[o]) => ~rows[o].strict

(* What the rules document says of debt (lines 684-689 and 1618-1620): an  *)
(* Aave loan with a leg whose mode, in the call, is not 0 is never strict. *)
(* findMatchingAaveEvent of aave_v3.go takes the mode of the first event   *)
(* with the receiver, the asset and the amount.                            *)
DebtIsNeverStrict ==
  protocol = "aave" =>
    \A c \in Candidates("aave", tx) :
      c.ordinal \in DOMAIN rows /\ ~WithoutDebt(c) => ~rows[c.ordinal].strict

(* Each leg, or all legs of a swap together, has an event of the provider. *)
Told(p, t, c, L) ==
  IF p = "uniswap"
  THEN \E n \in DOMAIN t.log : \A leg \in L : Tells(p, t, c, leg, n)
  ELSE \A leg \in L : \E n \in DOMAIN t.log : Tells(p, t, c, leg, n)

(* A strict interaction is in a successful transaction, with a provider    *)
(* that the registry accepts, which has emitted an event for each of its   *)
(* legs that names the receiver, the asset and the amount (for a swap one  *)
(* event for all legs).  An Aave loan without a look-alike, moreover, was  *)
(* called without debt, and no event about a leg of it tells of debt; the  *)
(* loans with one are the subject of DebtIsNeverStrict.                    *)
StrictIsBacked ==
  \A c \in Candidates(protocol, tx) :
    c.ordinal \in DOMAIN rows /\ rows[c.ordinal].strict =>
      /\ tx.ok
      /\ c.provider \in Official[protocol]
      /\ Told(protocol, tx, c, legs[c.ordinal])
      /\ protocol = "aave" /\ ~LookAlike(tx, c) =>
           /\ WithoutDebt(c)
           /\ \A leg \in legs[c.ordinal] : \A n \in DOMAIN tx.log :
                Tells("aave", tx, c, leg, n) => tx.log[n].mode = 0

Coherent(row, L) ==
  /\ row.strict => row.verified /\ row.callback /\ row.settled /\ row.repaid /\ ~row.debt
  /\ row.strict => \A leg \in L : leg.strict /\ leg.seen
  /\ row.verified => row.reason = None
  /\ row.debt <=> \E leg \in L : leg.debt

(* The columns of a row and the flags of its legs tell one story: strict   *)
(* is verified with callback, settlement and repayment, without debt, on   *)
(* legs that are all strict and seen; verified excludes a reason, and debt *)
(* is on the row exactly when it is on a leg.                              *)
VerdictCoherent == \A o \in DOMAIN rows : Coherent(rows[o], legs[o])

Loaned(L) == {[index |-> leg.index, side |-> leg.side, asset |-> leg.asset,
               amount |-> leg.amount] : leg \in L}

(* Whatever the verifiers return, nil included, and however often the      *)
(* transaction is scanned, the legs of an interaction stay those that were *)
(* extracted: ReplaceInteractionLegs, which deletes before it inserts,     *)
(* loses none and adds none.                                               *)
LegsAsExtracted ==
  \A c \in Candidates(protocol, tx) :
    c.ordinal \in DOMAIN legs => Loaned(legs[c.ordinal]) = Loaned(c.legs)

(* A trace never raises the verdict of the events, and says nothing about  *)
(* debt: trace verification only takes away.                               *)
TraceOnlyLowers ==
  [][pc = "trace" /\ pc' = "save" =>
       /\ verdict'.result.verified => verdict.result.verified
       /\ verdict'.result.strict => verdict.result.strict
       /\ verdict'.result.debt = verdict.result.debt]_vars

(* Without a call to the vault, each loan event of an official vault is    *)
(* one leg of one stored interaction, whose legs are in the order of the   *)
(* events, and the ordinals are numbered from 0.                           *)
EventsCovered ==
  protocol = "balancer" /\ ~Direct("balancer", tx) /\ pc \in {"verify", "trace", "save", "done"} =>
    LET covers(o, leg, n) ==
          \E c \in Candidates("balancer", tx) :
            /\ c.ordinal = o
            /\ tx.log[n].emitter = c.provider
            /\ tx.log[n].receiver = c.receiver
            /\ tx.log[n].asset = leg.asset
            /\ tx.log[n].amount = leg.amount
            /\ leg.index = Cardinality({m \in VaultEvents(tx) :
                 m < n /\ tx.log[m].emitter = c.provider /\ tx.log[m].receiver = c.receiver})
    IN /\ \A n \in VaultEvents(tx) :
            Cardinality({x \in UNION {{o} \X legs[o] : o \in DOMAIN legs} : covers(x[1], x[2], n)}) = 1
       /\ DOMAIN rows = 0 .. Cardinality(DOMAIN rows) - 1
       /\ \A o \in DOMAIN rows : legs[o] # {}

(* A runner asks the node for a trace until it has one, then no more,      *)
(* however many interactions the transaction has.                          *)
NodeAskedOnce == answers <= 1
===============================================================================

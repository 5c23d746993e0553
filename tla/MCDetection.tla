----------------------------- MODULE MCDetection -----------------------------
(***************************************************************************)
(* Instances of Detection: the transactions a small chain can hold.  A     *)
(* transaction runs loans; the events of a loan come at its end and its    *)
(* frames are those of a loan that went well, so a nested loan is in the   *)
(* log before the loan the transaction calls.                              *)
(***************************************************************************)
EXTENDS Detection, SequencesExt

(* pool, vault and pair are in the registry, fork and otherPair are not.   *)
MCOfficial ==
  [p \in Protocols |-> CASE p = "aave" -> {"pool"}
                         [] p = "balancer" -> {"vault"}
                         [] p = "uniswap" -> {"pair"}]
MCTokenOf == [q \in {"pair", "otherPair"} |-> [s \in Sides |-> IF s = "token0" THEN "a" ELSE "b"]]

Part(asset, amount, mode) == [asset |-> asset, amount |-> amount, mode |-> mode]

Receivers == {"r", "s"}

AaveLoans ==
  [abi : {"aave"}, provider : {"pool", "fork"}, receiver : Receivers, data : {FALSE},
   legs : {<<>>, <<Part("a", 1, 0)>>, <<Part("a", 1, 2)>>, <<Part("a", 2, 0)>>,
           <<Part("a", 1, 0), Part("b", 1, 2)>>, <<Part("a", 1, 0), Part("b", 1, 0)>>}]
BalancerLoans ==
  [abi : {"balancer"}, provider : {"vault", "fork"}, receiver : Receivers, data : {TRUE},
   legs : {<<Part("a", 1, 0)>>, <<Part("a", 2, 0)>>, <<Part("a", 1, 0), Part("b", 1, 0)>>}]
UniswapSwaps ==
  [abi : {"uniswap"}, provider : {"pair", "otherPair"}, receiver : Receivers, data : BOOLEAN,
   out : {[s \in Sides |-> 1], [s \in Sides |-> IF s = "token0" THEN 2 ELSE 0],
          [s \in Sides |-> IF s = "token0" THEN 0 ELSE 1]}]
Loans == AaveLoans \cup BalancerLoans \cup UniswapSwaps

Events(loan) ==
  IF loan.abi = "uniswap"
  THEN <<[topic |-> "uniswap", emitter |-> loan.provider, receiver |-> loan.receiver,
          out |-> loan.out]>>
  ELSE [n \in DOMAIN loan.legs |->
          [topic |-> loan.abi, emitter |-> loan.provider, receiver |-> loan.receiver,
           asset |-> loan.legs[n].asset, amount |-> loan.legs[n].amount,
           mode |-> loan.legs[n].mode]]

Frame(from, to, moves) ==
  [root |-> FALSE, from |-> from, to |-> to, moves |-> moves, error |-> FALSE]

(* The payout, the callback (a swap without data has none) and, but for    *)
(* debt, the provider taking the asset back.                               *)
Frames(loan) ==
  IF loan.abi = "uniswap"
  THEN {Frame(loan.provider, MCTokenOf[loan.provider][s], TRUE) : s \in {q \in Sides : loan.out[q] > 0}}
       \cup {Frame(loan.provider, loan.receiver, FALSE) : x \in {y \in {1} : loan.data}}
       \cup {Frame(loan.receiver, "b", TRUE)}
  ELSE {Frame(loan.provider, loan.legs[n].asset, TRUE) : n \in DOMAIN loan.legs}
       \cup {Frame(loan.provider, loan.receiver, FALSE)}

Root(to) == [root |-> TRUE, from |-> "eoa", to |-> to, moves |-> FALSE, error |-> FALSE]

(* The transaction that runs the loans, the last of which it calls itself  *)
(* unless it goes through a contract.                                      *)
Tx(loans, direct) ==
  LET top == Last(loans)
      to == IF direct THEN top.provider ELSE "router"
  IN [ok |-> TRUE, to |-> to, decodes |-> TRUE,
      call |-> IF direct THEN top ELSE None,
      log |-> FlattenSeq([n \in DOMAIN loans |-> Events(loans[n])]),
      frames |-> {Root(to)} \cup UNION {Frames(loans[n]) : n \in DOMAIN loans}]

Reverted(t) == [t EXCEPT !.ok = FALSE, !.log = <<>>, !.frames = {Root(t.to)}]

(* Arguments that cannot be unpacked are not those of a call that went     *)
(* through.                                                                *)
Garbled(t) == [Reverted(t) EXCEPT !.decodes = FALSE]

(* A loan that fails inside the transaction and is caught: its frames are  *)
(* there, its events are not.                                              *)
Attempted(t, loan) == [t EXCEPT !.frames = @ \cup {[f EXCEPT !.error = TRUE] : f \in Frames(loan)}]

(* A vault or a pair is locked while it runs a loan.                       *)
CanNest(outer, inner) ==
  outer.abi = "aave" \/ outer.provider # inner.provider

DirectTxs ==
  LET alone == {Tx(<<l>>, TRUE) : l \in Loans}
  IN alone \cup {Reverted(t) : t \in alone} \cup {Garbled(t) : t \in alone}
     \cup {Attempted(t, l) : t \in alone, l \in BalancerLoans}
     \cup {Tx(<<m[1], m[2]>>, TRUE) : m \in {q \in Loans \X Loans : CanNest(q[2], q[1])}}

RoutedTxs ==
  LET vaults == {l \in BalancerLoans : l.provider = "vault"}
  IN {Tx(q, FALSE) : q \in SeqOf(Loans, 2) \ {<<>>}}
     \cup {Tx(<<q[1], q[2], q[3]>>, FALSE) : q \in vaults \X vaults \X vaults}

MCTxs == DirectTxs \cup RoutedTxs

(* The chain as VerdictsAlwaysRight of DetectionProofs takes it: *)
(* transaction above is one that the contracts of the protocols have run.  *)
ASSUME GenuineAssumption == \A t \in Txs : Genuine(t)
===============================================================================

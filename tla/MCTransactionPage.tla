--------------------------- MODULE MCTransactionPage ---------------------------
(***************************************************************************)
(* Transactions for TransactionPage.  A sender S calls the pool P, which   *)
(* lends the receiver R some of the token T, calls it back and takes the   *)
(* loan and a premium; in its callback R makes up to MaxCalls token calls, *)
(* side by side or each inside the one before.  Further transactions have  *)
(* two legs, two loans, more than ten calls side by side or inside each    *)
(* other; some are scanned twice, and the second scan finds the same       *)
(* interactions, one more of them, or one of another protocol.             *)
(***************************************************************************)
EXTENDS TransactionPage

CONSTANT MaxCalls

Number(n) == Digits[n]

Call(from, to) ==
  [from |-> from, to |-> to, error |-> FALSE,
   input |-> [method |-> "other", whole |-> TRUE]]

(* The token call of caller that moves amount from source to target.       *)
Token(token, method, caller, source, target, amount) ==
  [from |-> caller, to |-> token, error |-> FALSE,
   input |-> [method |-> method, whole |-> TRUE, from |-> source, to |-> target,
              amount |-> Number(amount)]]

Transfer(token, source, target, amount) ==
  Token(token, "transfer", source, source, target, amount)

Reverted(frame) == [frame EXCEPT !.error = TRUE]

(* What R and those it deals with may do.                                  *)
Moves ==
  {Transfer("T", "R", "X", 95),
   Reverted(Transfer("T", "R", "X", 95)),
   Transfer("U", "X", "Y", 40),
   Transfer("U", "Y", "X", 7),
   Transfer("U", "Y", "R", 40),
   Transfer("T", "X", "R", 101),
   Transfer("T", "X", "P", 5),
   Token("T", "transferFrom", "R", "S", "R", 6),
   Token("T", "approve", "R", "R", "P", 101),
   Transfer("D", "P", "R", 95),
   Transfer("U", "R", "zero", 3),
   [Transfer("T", "R", "X", 1) EXCEPT !.input.whole = FALSE]}

(* Calls under the frame at path: side by side, or each in the one before. *)
SideBySide(path, calls) ==
  [p \in {Append(path, n - 1) : n \in DOMAIN calls} |-> calls[Last(p) + 1]]

Nested(path, calls) ==
  [p \in {path \o [k \in 1 .. n |-> 0] : n \in DOMAIN calls} |->
     calls[Len(p) - Len(path)]]

Leg(asset, borrowed, premium) ==
  [asset |-> asset, borrowed |-> Number(borrowed), repaid |-> << >>,
   premium |-> IF premium = 0 THEN << >> ELSE Number(premium), fee |-> << >>,
   repaidTo |-> NoAddress, debt |-> FALSE]

Loan(provider, receiver, legs_) ==
  [provider |-> provider, receiver |-> receiver, legs |-> legs_, grouped |-> FALSE]

(* Scans that find so many loans, each at its place.                       *)
Finds(places_, found) ==
  [k \in DOMAIN found |-> [o \in 1 .. places_ |-> IF o <= found[k] THEN o ELSE 0]]

(* flashLoanSimple of 95 T for a premium of 6.                             *)
Simple(inner) ==
  [trace  |-> (<< >> :> Call("S", "P") @@ <<0>> :> Transfer("T", "P", "R", 95)
                @@ <<1>> :> Call("P", "R")
                @@ <<2>> :> Token("T", "transferFrom", "P", "R", "P", 101) @@ inner),
   sender |-> "S",
   loans  |-> <<Loan("P", "R", <<Leg("T", 95, 6)>>)>>,
   places |-> 1,
   scans  |-> Finds(1, <<1>>)]

InnerCalls == UNION {[1 .. n -> Moves] : n \in 0 .. MaxCalls}

SimpleTxs ==
  {Simple(SideBySide(<<1>>, calls)) : calls \in InnerCalls}
    \cup {Simple(Nested(<<1>>, calls)) : calls \in InnerCalls}

(* A longer way through X, Y and Z, and back to X.                         *)
Detour ==
  Simple(SideBySide(<<1>>,
           <<Transfer("T", "R", "X", 95), Transfer("U", "X", "Y", 40),
             Transfer("U", "Y", "Z", 40), Transfer("U", "Z", "X", 40),
             Transfer("U", "X", "Z", 41), Transfer("U", "X", "W", 42),
             Transfer("U", "X", "V", 43), Transfer("T", "X", "R", 101)>>))

(* Calls ten and more below the callback, and a transfer after them.       *)
Deep ==
  Simple(Nested(<<1>>, [n \in 1 .. 11 |-> Call("R", "R")]
                         \o <<Transfer("T", "R", "X", 95)>>)
           @@ <<1, 1>> :> Transfer("T", "X", "R", 101))

(* The callback is call 1 of the root, and call 10 is a token call.        *)
Wide ==
  LET calls == <<Transfer("T", "P", "R", 95), Call("P", "R")>>
                 \o [n \in 1 .. 8 |-> Call("P", "O")]
                 \o <<Transfer("T", "P", "X", 1),
                      Token("T", "transferFrom", "P", "R", "P", 101)>>
  IN [trace  |-> (<< >> :> Call("S", "P") @@ SideBySide(<< >>, calls)
                   @@ <<1, 0>> :> Transfer("T", "R", "X", 95)
                   @@ <<1, 1>> :> Transfer("T", "X", "R", 101)),
      sender |-> "S",
      loans  |-> <<Loan("P", "R", <<Leg("T", 95, 6)>>)>>,
      places |-> 1,
      scans  |-> Finds(1, <<1>>)]

(* A loan of two assets, the second kept as debt, and a leg of nothing.    *)
TwoLegs ==
  [trace  |-> (<< >> :> Call("S", "P") @@ <<0>> :> Transfer("T", "P", "R", 95)
                @@ <<1>> :> Transfer("U", "P", "R", 40) @@ <<2>> :> Call("P", "R")
                @@ <<2, 0>> :> Transfer("T", "R", "X", 95)
                @@ <<2, 1>> :> Transfer("U", "X", "R", 50)
                @@ <<3>> :> Token("T", "transferFrom", "P", "R", "P", 101)),
   sender |-> "S",
   loans  |-> <<Loan("P", "R",
                  <<Leg("T", 95, 6), [Leg("U", 40, 4) EXCEPT !.debt = TRUE],
                    Leg("D", 0, 0)>>)>>,
   places |-> 1,
   scans  |-> Finds(1, <<1, 1>>)]

(* R takes a loan of the vault V and another for Q, in turn; the first     *)
(* scan sees only one of them.                                             *)
TwoLoans ==
  [trace  |-> (<< >> :> Call("S", "R")
                @@ <<0>> :> Call("R", "V") @@ <<0, 0>> :> Transfer("T", "V", "R", 95)
                @@ <<0, 1>> :> Call("V", "R") @@ <<0, 1, 0>> :> Transfer("T", "R", "V", 95)
                @@ <<1>> :> Call("R", "V") @@ <<1, 0>> :> Transfer("U", "V", "Q", 40)
                @@ <<1, 1>> :> Call("V", "Q") @@ <<1, 1, 0>> :> Transfer("U", "Q", "X", 40)
                @@ <<1, 1, 1>> :> Transfer("U", "Q", "V", 40)),
   sender |-> "S",
   loans  |-> <<[Loan("V", "R", <<Leg("T", 95, 0)>>) EXCEPT !.grouped = TRUE],
                [Loan("V", "Q", <<Leg("U", 40, 0)>>) EXCEPT !.grouped = TRUE]>>,
   places |-> 2,
   scans  |-> Finds(2, <<1, 2>>)]

(* A loan of the pool and, in its callback, one of the vault: each is the  *)
(* first interaction of its protocol, which scans them in turn.            *)
Crossed ==
  [trace  |-> (<< >> :> Call("S", "P") @@ <<0>> :> Transfer("T", "P", "R", 95)
                @@ <<1>> :> Call("P", "R") @@ <<1, 0>> :> Call("R", "V")
                @@ <<1, 0, 0>> :> Transfer("U", "V", "R", 40)
                @@ <<1, 0, 1>> :> Call("V", "R")
                @@ <<1, 0, 2>> :> Transfer("U", "R", "V", 40)
                @@ <<2>> :> Token("T", "transferFrom", "P", "R", "P", 101)),
   sender |-> "S",
   loans  |-> <<Loan("P", "R", <<Leg("T", 95, 6)>>),
                [Loan("V", "R", <<Leg("U", 40, 0)>>) EXCEPT !.grouped = TRUE]>>,
   places |-> 1,
   scans  |-> <<<<1>>, <<2>>>>]

MCTxs == SimpleTxs \cup {Detour, Deep, Wide, TwoLegs, TwoLoans, Crossed}
===============================================================================

------------------------- MODULE BridgeQuote_proofs ------------------------
(***************************************************************************)
(* The amounts of a bridge request for every price, amount, rounding, buffer *)
(* and fee: what `requirements` asks for pays every transaction, is used up   *)
(* by them, and what is delivered is what was asked for.                      *)
(*                                                                           *)
(* The argument has three parts.  Arithmetic: rounding up on the way in and   *)
(* down on the way out loses nothing (RelayEnough).  Sums: the requirements   *)
(* of the lists a provider can make, in closed form (Required).  Invariance:  *)
(* the wallet holds what the transactions not sent yet will take (Paying).    *)
(***************************************************************************)
EXTENDS BridgeQuote, TLAPS

---------------------------------------------------------------------------
(* Arithmetic *)

\* Division rounds down.
LEMMA Quotient ==
    ASSUME NEW a \in Nat, NEW b \in Nat \ {0}
    PROVE  /\ a \div b \in Nat
           /\ (a \div b) * b <= a
           /\ a < (a \div b) * b + b
           /\ \A c \in Nat : c * b <= a => c <= a \div b
<1>1. a \div b \in Nat /\ (a \div b) * b <= a /\ a < (a \div b) * b + b
  BY Z3
<1>2. ASSUME NEW c \in Nat, c * b <= a PROVE c <= a \div b
  BY <1>2, Z3
<1> QED
  BY <1>1, <1>2

\* CeilDiv rounds up.
LEMMA RoundedUp ==
    ASSUME NEW a \in Nat, NEW b \in Nat \ {0}
    PROVE  CeilDiv(a, b) \in Nat /\ CeilDiv(a, b) * b >= a
<1> DEFINE n == a + b - 1
<1>1. n \in Nat
  OBVIOUS
<1>2. n \div b \in Nat /\ n < (n \div b) * b + b
  BY <1>1, Quotient
<1>3. CeilDiv(a, b) = n \div b
  BY DEF CeilDiv
<1> DEFINE q == n \div b
<1>4. q \in Nat /\ a + b - 1 < q * b + b /\ CeilDiv(a, b) = q
  BY <1>2, <1>3
<1> HIDE DEF n, q
<1>5. q * b \in Nat
  BY <1>4
<1>6. a <= q * b
  BY <1>4, <1>5
<1> QED
  BY <1>4, <1>5, <1>6

\* What an API delivers is a natural number, whatever goes in.
LEMMA OutputNat ==
    ASSUME NEW price \in Prices, NEW in \in Int PROVE Output(price, in) \in Nat
<1>1. price.num \in Nat \ {0} /\ price.den \in Nat \ {0} /\ price.fee \in Nat
  BY QuoteAssumption
<1> DEFINE a == in * price.num
           b == price.fee * price.den
<1>2. a \in Int /\ b \in Nat /\ b = price.fee * price.den
  BY <1>1
<1>3. Output(price, in) = IF a < b THEN 0 ELSE a \div price.den - price.fee
  BY DEF Output
<1> HIDE DEF a, b
<1>4. CASE a < b
  BY <1>3, <1>4
<1>5. CASE ~(a < b)
  <2>1. a \in Nat /\ price.fee * price.den <= a
    BY <1>2, <1>5
  <2>2. a \div price.den \in Nat /\ price.fee <= a \div price.den
    BY <1>1, <2>1, Quotient
  <2> QED
    BY <1>1, <1>3, <1>5, <2>2
<1> QED
  BY <1>4, <1>5

\* The input that Relay names for an output delivers it: the input was rounded up,
\* the output is rounded down, and nothing is lost.
LEMMA RelayEnough ==
    ASSUME NEW price \in Prices, NEW amount \in Nat \ {0}, NEW in,
           in = CeilDiv((amount + price.fee) * price.den, price.num)
    PROVE  in \in Nat \ {0} /\ Output(price, in) >= amount
<1>1. price.num \in Nat \ {0} /\ price.den \in Nat \ {0} /\ price.fee \in Nat
  BY QuoteAssumption
<1> DEFINE whole == (amount + price.fee) * price.den
           a == in * price.num
<1>2. whole \in Nat /\ whole > 0 /\ whole >= price.fee * price.den
  <2>1. amount + price.fee \in Nat /\ amount + price.fee >= price.fee /\ amount + price.fee >= 1
    BY <1>1
  <2> DEFINE n == amount + price.fee
  <2> HIDE DEF n
  <2>2. ASSUME NEW f \in Nat, NEW d \in Nat \ {0}, n \in Nat, n >= f, n >= 1
        PROVE  n * d \in Nat /\ n * d > 0 /\ n * d >= f * d
    BY <2>2, Z3
  <2> QED
    BY <1>1, <2>1, <2>2 DEF n
<1>3. in \in Nat /\ a >= whole
  BY <1>1, <1>2, RoundedUp
<1>4. a \in Nat
  BY <1>1, <1>3
<1>5. in # 0
  BY <1>1, <1>2, <1>3
<1>6. Output(price, in) = IF a < price.fee * price.den THEN 0 ELSE a \div price.den - price.fee
  BY DEF Output
<1>7. ~(a < price.fee * price.den)
  <2>1. price.fee * price.den \in Nat
    BY <1>1
  <2> HIDE DEF a, whole
  <2> QED
    BY <1>2, <1>3, <1>4, <2>1
<1>8. amount + price.fee <= a \div price.den /\ a \div price.den \in Nat
  <2>1. (amount + price.fee) * price.den <= a
    BY <1>2, <1>3, <1>4
  <2>2. amount + price.fee \in Nat
    BY <1>1
  <2> HIDE DEF a
  <2> QED
    BY <1>1, <1>4, <2>1, <2>2, Quotient
<1> HIDE DEF a, whole
<1> QED
  BY <1>1, <1>3, <1>5, <1>6, <1>7, <1>8

\* A canonical amount loses less than one of its atoms.
LEMMA Canonical ==
    ASSUME NEW out \in Nat PROVE (out \div Cut) * Cut \in Nat /\ (out \div Cut) * Cut + Cut > out
<1>1. Cut \in Nat \ {0}
  BY QuoteAssumption
<1>2. out \div Cut \in Nat /\ out < (out \div Cut) * Cut + Cut
  BY <1>1, Quotient
<1> DEFINE q == out \div Cut
<1>3. q \in Nat /\ out < q * Cut + Cut /\ q = out \div Cut
  BY <1>2
<1> HIDE DEF q
<1>4. q * Cut \in Nat
  BY <1>1, <1>3
<1> QED
  BY <1>1, <1>3, <1>4

---------------------------------------------------------------------------
(* Sums *)

\* One element of a sum is taken after the other.
Summed(f, g) ==
    [s \in SUBSET DOMAIN f |->
        IF s = {} THEN 0 ELSE LET x == CHOOSE x \in s : TRUE IN f[x] + g[s \ {x}]]

\* The partial sums of which SumFunction takes the last.
Partial(f) == CHOOSE g : g = Summed(f, g)

\* The fold of the community modules is the last partial sum.
LEMMA SumIsPartial == ASSUME NEW f PROVE SumFunction(f) = Partial(f)[DOMAIN f]
BY DEF SumFunction, SumFunctionOnSet, FoldFunctionOnSet, MapThenFoldSet, Summed, Partial

\* Partial sums in whatever order, and in some order.
AnyOrder(f, w) ==
    /\ w = [s \in SUBSET DOMAIN f |-> w[s]] /\ w[{}] = 0
    /\ \A s \in SUBSET DOMAIN f : \A x \in s : w[s] = f[x] + w[s \ {x}]

SomeOrder(f, h) ==
    /\ h[{}] = 0
    /\ \A s \in SUBSET DOMAIN f : s # {} => \E x \in s : h[s] = f[x] + h[s \ {x}]

\* If all orders agree, the sum that was chosen follows one of them.
LEMMA PartialUnrolled ==
    ASSUME NEW f, NEW w, AnyOrder(f, w) PROVE SomeOrder(f, Partial(f))
<1>0. /\ w = [s \in SUBSET DOMAIN f |-> w[s]] /\ w[{}] = 0
      /\ \A s \in SUBSET DOMAIN f : \A x \in s : w[s] = f[x] + w[s \ {x}]
  BY DEF AnyOrder
<1> DEFINE h == Partial(f)
<1>2. \E g : g = Summed(f, g)
  <2>1. ASSUME NEW s \in SUBSET DOMAIN f
        PROVE  w[s] = IF s = {} THEN 0 ELSE LET x == CHOOSE x \in s : TRUE IN f[x] + w[s \ {x}]
    <3>1. CASE s = {}
      BY <1>0, <3>1
    <3>2. CASE s # {}
      <4> DEFINE x == CHOOSE x \in s : TRUE
      <4>1. x \in s
        BY <3>2
      <4>2. w[s] = f[x] + w[s \ {x}]
        BY <1>0, <4>1
      <4> QED
        BY <3>2, <4>2, Zenon
    <3> QED
      BY <3>1, <3>2
  <2>2. w = Summed(f, w)
    BY <1>0, <2>1, Zenon DEF Summed
  <2> QED
    BY <2>2
<1>3. h = Summed(f, h)
  BY <1>2 DEF Partial
<1> HIDE DEF h
<1>4. \A s \in SUBSET DOMAIN f : h[s] = IF s = {} THEN 0 ELSE LET x == CHOOSE x \in s : TRUE IN f[x] + h[s \ {x}]
  BY <1>3, Zenon DEF Summed
<1>5. h[{}] = 0
  BY <1>4, Zenon
<1>6. ASSUME NEW s \in SUBSET DOMAIN f, s # {} PROVE \E x \in s : h[s] = f[x] + h[s \ {x}]
  <2> DEFINE x == CHOOSE x \in s : TRUE
  <2>1. x \in s
    BY <1>6
  <2>2. h[s] = f[x] + h[s \ {x}]
    BY <1>4, <1>6, Zenon
  <2> HIDE DEF x
  <2> QED
    BY <2>1, <2>2
<1> QED
  BY <1>5, <1>6 DEF h, SomeOrder

\* The sums of none, one and two numbers, which is as many as a request has
\* transactions.
LEMMA SumOfNone == ASSUME NEW f, DOMAIN f = {} PROVE SumFunction(f) = 0
<1> DEFINE w == [s \in SUBSET DOMAIN f |-> 0]
<1>1. w = [s \in SUBSET DOMAIN f |-> w[s]] /\ w[{}] = 0 /\ \A s \in SUBSET DOMAIN f : s = {}
  OBVIOUS
<1>2. AnyOrder(f, w)
  BY <1>1 DEF AnyOrder
<1> HIDE DEF w
<1>3. Partial(f)[{}] = 0
  BY <1>2, PartialUnrolled DEF SomeOrder
<1> QED
  BY <1>3, SumIsPartial

\* See SumOfNone.
LEMMA SumOfOne == ASSUME NEW f, DOMAIN f = {1}, f[1] \in Int PROVE SumFunction(f) = f[1]
<1> DEFINE w == [s \in SUBSET DOMAIN f |-> IF s = {} THEN 0 ELSE f[1]]
           h == Partial(f)
<1>1. w = [s \in SUBSET DOMAIN f |-> w[s]] /\ w[{}] = 0 /\ w[{1}] = f[1]
  OBVIOUS
<1>2. {1} \ {1} = {} /\ \A s \in SUBSET DOMAIN f : \A x \in s : s = {1} /\ x = 1
  OBVIOUS
<1> HIDE DEF w
<1>3. \A s \in SUBSET DOMAIN f : \A x \in s : w[s] = f[x] + w[s \ {x}]
  <2>1. f[1] = f[1] + 0
    OBVIOUS
  <2>2. w[{1}] = f[1] + w[{1} \ {1}]
    BY <1>1, <1>2, <2>1, Zenon
  <2> QED
    BY <1>2, <2>2, Zenon
<1>4. SomeOrder(f, h)
  <2>1. AnyOrder(f, w)
    BY <1>1, <1>3, Zenon DEF AnyOrder
  <2> QED
    BY <2>1, PartialUnrolled
<1> HIDE DEF h
<1>5. \E x \in {1} : h[{1}] = f[x] + h[{1} \ {x}]
  BY <1>4 DEF SomeOrder
<1>6. h[{1}] = f[1]
  BY <1>2, <1>4, <1>5 DEF SomeOrder
<1> QED
  BY <1>6, SumIsPartial DEF h

\* See SumOfNone.
LEMMA SumOfTwo ==
    ASSUME NEW f, DOMAIN f = {1, 2}, f[1] \in Int, f[2] \in Int
    PROVE  SumFunction(f) = f[1] + f[2]
<1> DEFINE w == [s \in SUBSET DOMAIN f |->
                    IF s = {} THEN 0 ELSE IF s = {1} THEN f[1] ELSE IF s = {2} THEN f[2]
                    ELSE f[1] + f[2]]
           h == Partial(f)
<1>0. {1} \ {1} = {} /\ {2} \ {2} = {} /\ {1, 2} \ {1} = {2} /\ {1, 2} \ {2} = {1}
  OBVIOUS
<1>1. w = [s \in SUBSET DOMAIN f |-> w[s]] /\ w[{}] = 0
  OBVIOUS
<1>2. w[{1}] = f[1] /\ w[{2}] = f[2] /\ w[{1, 2}] = f[1] + f[2]
  OBVIOUS
<1> HIDE DEF w
<1>3. \A s \in SUBSET DOMAIN f : \A x \in s : w[s] = f[x] + w[s \ {x}]
  <2>1. \A s \in SUBSET DOMAIN f : \A x \in s :
            (s = {1} /\ x = 1) \/ (s = {2} /\ x = 2) \/ (s = {1, 2} /\ (x = 1 \/ x = 2))
    OBVIOUS
  <2>2. f[1] = f[1] + 0 /\ f[2] = f[2] + 0 /\ f[1] + f[2] = f[2] + f[1]
    OBVIOUS
  <2>3. w[{1}] = f[1] + w[{1} \ {1}]
    BY <1>0, <1>1, <1>2, <2>2, Zenon
  <2>4. w[{2}] = f[2] + w[{2} \ {2}]
    BY <1>0, <1>1, <1>2, <2>2, Zenon
  <2>5. w[{1, 2}] = f[1] + w[{1, 2} \ {1}]
    BY <1>0, <1>2, Zenon
  <2>6. w[{1, 2}] = f[2] + w[{1, 2} \ {2}]
    BY <1>0, <1>2, <2>2, Zenon
  <2> QED
    BY <2>1, <2>3, <2>4, <2>5, <2>6, Zenon
<1>4. SomeOrder(f, h)
  <2>1. AnyOrder(f, w)
    BY <1>1, <1>3, Zenon DEF AnyOrder
  <2> QED
    BY <2>1, PartialUnrolled
<1> HIDE DEF h
<1>5. /\ h[{}] = 0
      /\ \E x \in {1} : h[{1}] = f[x] + h[{1} \ {x}]
      /\ \E x \in {2} : h[{2}] = f[x] + h[{2} \ {x}]
      /\ \E x \in {1, 2} : h[{1, 2}] = f[x] + h[{1, 2} \ {x}]
  BY <1>4 DEF SomeOrder
<1>6. h[{1}] = f[1] + 0 /\ h[{2}] = f[2] + 0
  <2>1. h[{1}] = f[1] + h[{1} \ {1}] /\ h[{2}] = f[2] + h[{2} \ {2}]
    BY <1>5, Zenon
  <2> QED
    BY <1>0, <1>5, <2>1, Zenon
<1>7. h[{1}] = f[1] /\ h[{2}] = f[2]
  BY <1>6
<1>8. h[{1, 2}] = f[1] + h[{1, 2} \ {1}] \/ h[{1, 2}] = f[2] + h[{1, 2} \ {2}]
  BY <1>5, Zenon
<1>9. h[{1, 2}] = f[1] + f[2] \/ h[{1, 2}] = f[2] + f[1]
  BY <1>0, <1>7, <1>8, Zenon
<1> QED
  BY <1>9, SumIsPartial DEF h

---------------------------------------------------------------------------
(* The lists of transactions *)

Amounts == Nat \ {0}

Fees == {0, Fee}

\* What a provider makes of a quote.
OneCall(list, v) == list = <<Call(v, 0)>>
OneTransfer(list, v) == list = <<Transfer(v)>>
ApproveAndCall(list, v, fee) == list = <<Approve(v), Call(fee, v)>>

Shape(list) ==
    \/ list = <<>>
    \/ \E v \in Amounts, fee \in Fees :
         OneCall(list, v) \/ OneTransfer(list, v) \/ ApproveAndCall(list, v, fee)

\* The constants that the sums add up.
LEMMA Costs == Gas \in Nat /\ Fee \in Nat /\ Fees \subseteq Nat /\ Cut \in Nat \ {0}
BY QuoteAssumption DEF Fees

\* What `requirements` asks for a list of none, one and two transactions.
LEMMA RequiredOfNone == Requirements(<<>>) = [native |-> 0, token |-> 0]
<1> DEFINE list == <<>>
           values == [i \in DOMAIN list |-> list[i].value + Gas]
           amounts == [i \in DOMAIN list |-> list[i].amount]
<1>1. Requirements(<<>>) = [native |-> SumFunction(values), token |-> SumFunction(amounts)]
  BY Zenon DEF Requirements
<1>2. DOMAIN values = {} /\ DOMAIN amounts = {}
  OBVIOUS
<1> HIDE DEF values, amounts
<1>3. SumFunction(values) = 0 /\ SumFunction(amounts) = 0
  BY <1>2, SumOfNone
<1> QED
  BY <1>1, <1>3

\* See RequiredOfNone.
LEMMA RequiredOfOne ==
    ASSUME NEW list, DOMAIN list = {1}, list[1].value \in Nat, list[1].amount \in Nat
    PROVE  Requirements(list) = [native |-> list[1].value + Gas, token |-> list[1].amount]
<1> DEFINE values == [i \in DOMAIN list |-> list[i].value + Gas]
           amounts == [i \in DOMAIN list |-> list[i].amount]
<1>1. Requirements(list) = [native |-> SumFunction(values), token |-> SumFunction(amounts)]
  BY Zenon DEF Requirements
<1>2. /\ DOMAIN values = {1} /\ DOMAIN amounts = {1}
      /\ values[1] = list[1].value + Gas /\ amounts[1] = list[1].amount
  OBVIOUS
<1>3. values[1] \in Int /\ amounts[1] \in Int
  BY <1>2, Costs
<1> HIDE DEF values, amounts
<1>4. SumFunction(values) = values[1] /\ SumFunction(amounts) = amounts[1]
  BY <1>2, <1>3, SumOfOne
<1> QED
  BY <1>1, <1>2, <1>4

\* See RequiredOfNone.
LEMMA RequiredOfTwo ==
    ASSUME NEW list, DOMAIN list = {1, 2}, list[1].value \in Nat, list[1].amount \in Nat,
           list[2].value \in Nat, list[2].amount \in Nat
    PROVE  Requirements(list) =
             [native |-> (list[1].value + Gas) + (list[2].value + Gas),
              token  |-> list[1].amount + list[2].amount]
<1> DEFINE values == [i \in DOMAIN list |-> list[i].value + Gas]
           amounts == [i \in DOMAIN list |-> list[i].amount]
<1>1. Requirements(list) = [native |-> SumFunction(values), token |-> SumFunction(amounts)]
  BY Zenon DEF Requirements
<1>2. /\ DOMAIN values = {1, 2} /\ DOMAIN amounts = {1, 2}
      /\ values[1] = list[1].value + Gas /\ amounts[1] = list[1].amount
      /\ values[2] = list[2].value + Gas /\ amounts[2] = list[2].amount
  OBVIOUS
<1>3. values[1] \in Int /\ amounts[1] \in Int /\ values[2] \in Int /\ amounts[2] \in Int
  BY <1>2, Costs
<1> HIDE DEF values, amounts
<1>4. SumFunction(values) = values[1] + values[2] /\ SumFunction(amounts) = amounts[1] + amounts[2]
  BY <1>2, <1>3, SumOfTwo
<1> QED
  BY <1>1, <1>2, <1>4

\* A list that a provider can make, taken apart, and what it asks for.
LEMMA OneCallFacts ==
    ASSUME NEW list, NEW v \in Amounts, OneCall(list, v)
    PROVE  /\ Len(list) = 1
           /\ list[1].kind = "call" /\ list[1].value = v /\ list[1].pull = 0
           /\ Requirements(list) = [native |-> v + Gas, token |-> 0]
<1>1. /\ Len(list) = 1 /\ DOMAIN list = {1}
      /\ list[1] = [kind |-> "call", amount |-> 0, value |-> v, pull |-> 0]
  BY DEF OneCall, Call
<1>2. /\ list[1].kind = "call" /\ list[1].amount = 0 /\ list[1].value = v /\ list[1].pull = 0
  BY <1>1
<1>3. v \in Nat
  BY DEF Amounts
<1>4. Requirements(list) = [native |-> list[1].value + Gas, token |-> list[1].amount]
  BY <1>1, <1>2, <1>3, RequiredOfOne
<1> QED
  BY <1>1, <1>2, <1>4

\* See OneCallFacts.
LEMMA OneTransferFacts ==
    ASSUME NEW list, NEW v \in Amounts, OneTransfer(list, v)
    PROVE  /\ Len(list) = 1
           /\ list[1].kind = "transfer" /\ list[1].value = 0 /\ list[1].pull = 0
           /\ list[1].amount = v
           /\ Requirements(list) = [native |-> Gas, token |-> v]
<1>1. /\ Len(list) = 1 /\ DOMAIN list = {1}
      /\ list[1] = [kind |-> "transfer", amount |-> v, value |-> 0, pull |-> 0]
  BY DEF OneTransfer, Transfer
<1>2. /\ list[1].kind = "transfer" /\ list[1].amount = v /\ list[1].value = 0 /\ list[1].pull = 0
  BY <1>1
<1>3. v \in Nat
  BY DEF Amounts
<1>4. Requirements(list) = [native |-> list[1].value + Gas, token |-> list[1].amount]
  BY <1>1, <1>2, <1>3, RequiredOfOne
<1>5. 0 + Gas = Gas
  BY Costs
<1> QED
  BY <1>1, <1>2, <1>4, <1>5

\* See OneCallFacts.
LEMMA ApproveAndCallFacts ==
    ASSUME NEW list, NEW v \in Amounts, NEW fee \in Fees, ApproveAndCall(list, v, fee)
    PROVE  /\ Len(list) = 2
           /\ list[1].kind = "approve" /\ list[1].value = 0 /\ list[1].pull = 0
           /\ list[1].amount = v
           /\ list[2].kind = "call" /\ list[2].value = fee /\ list[2].pull = v
           /\ Requirements(list) = [native |-> Gas + fee + Gas, token |-> v]
<1>1. /\ Len(list) = 2 /\ DOMAIN list = {1, 2}
      /\ list[1] = [kind |-> "approve", amount |-> v, value |-> 0, pull |-> 0]
      /\ list[2] = [kind |-> "call", amount |-> 0, value |-> fee, pull |-> v]
  BY DEF ApproveAndCall, Approve, Call
<1>2. /\ list[1].kind = "approve" /\ list[1].amount = v /\ list[1].value = 0 /\ list[1].pull = 0
      /\ list[2].kind = "call" /\ list[2].amount = 0 /\ list[2].value = fee /\ list[2].pull = v
  BY <1>1
<1>3. v \in Nat /\ fee \in Nat
  BY Costs DEF Amounts
<1>4. Requirements(list) =
        [native |-> (list[1].value + Gas) + (list[2].value + Gas),
         token  |-> list[1].amount + list[2].amount]
  BY <1>1, <1>2, <1>3, RequiredOfTwo
<1>5. (0 + Gas) + (fee + Gas) = Gas + fee + Gas /\ v + 0 = v
  BY <1>3, Costs
<1> QED
  BY <1>1, <1>2, <1>4, <1>5

---------------------------------------------------------------------------
(* The inductive invariant *)

Statuses == {"CREATED", "QUOTE_DONE", "QUOTE_FAILED", "EXECUTION_PENDING", "EXECUTION_DONE",
             "EXECUTION_FAILED"}

Quotes ==
    [in : Int, out : Nat, seed : Int, type : Routes \cup {"none"}, swap : BOOLEAN,
     middle : Nat, direct : BOOLEAN, whole : BOOLEAN]

Types ==
    /\ request \in [provider : {"native", "relay", "mayan"}, source : {"native", "token"},
                    amount : Asked, delta : Deltas]
    /\ status \in Statuses
    /\ quote \in Quotes
    /\ step \in Nat
    /\ got \in Nat

\* A quote is only done when its answer is enough.
Quoted ==
    status \notin {"CREATED", "QUOTE_FAILED"} /\ request.amount # 0
        => quote.in \in Amounts /\ quote.out >= request.amount

\* Nothing is sent, and nothing is paid, before the transactions are built.
Unbuilt ==
    /\ status = "CREATED" => step = 0
    /\ step = 0 => txs = <<>> /\ allowed = 0 /\ got = 0

Listed ==
    step # 0 => /\ Shape(txs)
                /\ request.amount = 0 => txs = <<>>
                /\ status \notin {"CREATED", "QUOTE_FAILED"}

\* None of what was asked for is spent yet ...
Before == wallet = Requirements(txs) /\ allowed = 0

\* ... or the approval is mined, and what the call will take is still there and allowed.
Approved ==
    /\ wallet = [native |-> txs[2].value + Gas, token |-> txs[2].pull]
    /\ allowed = txs[1].amount

Paying ==
    /\ step # 0 /\ got # 0 => status = "EXECUTION_PENDING"
    /\ step = 1 => Before
    /\ step = 2 /\ Len(txs) = 2 => Before \/ Approved

Spent ==
    got # 0 => /\ wallet = [native |-> 0, token |-> 0] /\ allowed = 0
               /\ got = Delivered
               /\ request.amount # 0 /\ status = "EXECUTION_PENDING"

IInv == Types /\ Quoted /\ Unbuilt /\ Listed /\ Paying /\ Spent

---------------------------------------------------------------------------
(* Quoting *)

\* The probe asks for a whole number of atoms of the source.
LEMMA SeedInt == ASSUME Types PROVE Seed \in Int
<1>1. request.amount \in Nat /\ request.delta \in Int /\ request.delta \in Deltas
  BY QuoteAssumption DEF Types
<1>2. CASE request.delta >= 0
  <2>1. 10 ^ request.delta \in Int
    BY <1>1, <1>2
  <2>2. request.amount * 10 ^ request.delta \in Int
    BY <1>1, <2>1
  <2> QED
    BY <1>2, <2>2 DEF Seed
<1>3. CASE ~(request.delta >= 0)
  <2> DEFINE scale == 10 ^ (0 - request.delta)
  <2>1. scale \in Nat \ {0}
    BY <1>1, <1>3, PowersAssumption
  <2>2. Seed = IF request.amount < scale THEN 1 ELSE request.amount \div scale
    BY <1>3 DEF Seed
  <2> HIDE DEF scale
  <2>3. request.amount \div scale \in Nat
    BY <1>1, <2>1, Quotient
  <2> QED
    BY <2>2, <2>3
<1> QED
  BY <1>2, <1>3

\* The final amount is a number of atoms too.
LEMMA ScaledInt ==
    ASSUME Types, NEW in \in Int, NEW out \in Nat \ {0} PROVE Scaled(in, out) \in Int
<1>1. request.amount \in Int /\ BufferNum \in Nat /\ BufferDen \in Nat \ {0}
  <2>1. request.amount \in Asked
    BY DEF Types
  <2>2. BufferNum \in Nat /\ BufferDen \in Nat \ {0} /\ Asked \subseteq Nat
    BY QuoteAssumption
  <2>3. request.amount \in Nat
    BY <2>1, <2>2, Zenon
  <2>4. request.amount \in Int
    BY <2>3
  <2> QED
    BY <2>2, <2>4, Zenon
<1> DEFINE a == request.amount * in * (BufferDen + BufferNum)
           b == out * BufferDen
<1>2. a \in Int /\ b \in Nat \ {0}
  <2>1. request.amount * in \in Int /\ BufferDen + BufferNum \in Int
    BY <1>1
  <2>2. \A x, y \in Int : x * y \in Int
    OBVIOUS
  <2>3. \A x, y \in Nat \ {0} : x * y \in Nat \ {0}
    BY Z3
  <2>4. a \in Int
    BY <2>1, <2>2, Zenon
  <2> QED
    BY <1>1, <2>3, <2>4
<1>3. Scaled(in, out) = (a + b - 1) \div b
  BY DEF Scaled, CeilDiv
<1> HIDE DEF a, b
<1> QED
  BY <1>2, <1>3

\* The quotes that the providers store are of the type, from the empty one on.
LEMMA NoQuoteType ==
    /\ NoQuote \in Quotes
    /\ \A in \in Int, out \in Nat, direct \in BOOLEAN :
         [NoQuote EXCEPT !.in = in, !.out = out, !.direct = direct] \in Quotes
    /\ \A amount \in Nat : [NoQuote EXCEPT !.in = amount, !.out = amount] \in Quotes
<1>1. NoQuote \in Quotes
  BY DEF NoQuote, Quotes
<1>2. ASSUME NEW in \in Int, NEW out \in Nat, NEW direct \in BOOLEAN
      PROVE  [NoQuote EXCEPT !.in = in, !.out = out, !.direct = direct] \in Quotes
  BY <1>1 DEF Quotes
<1>3. ASSUME NEW amount \in Nat
      PROVE  [NoQuote EXCEPT !.in = amount, !.out = amount] \in Quotes
  <2>1. amount \in Int
    OBVIOUS
  <2> QED
    BY <1>1, <2>1 DEF Quotes
<1> QED
  BY <1>1, <1>2, <1>3

\* What an answer leaves alone while the request is still quoted: nothing is built, so
\* only the answer itself matters.
LEMMA StillUnbuilt ==
    ASSUME IInv, status = "CREATED", UNCHANGED <<request, txs, step, wallet, allowed, got>>,
           Types', Quoted'
    PROVE  IInv'
<1>1. step = 0 /\ txs = <<>> /\ allowed = 0 /\ got = 0
  BY DEF IInv, Unbuilt
<1>2. step' = 0 /\ txs' = <<>> /\ allowed' = 0 /\ got' = 0
  BY <1>1
<1> QED
  BY <1>2 DEF IInv, Unbuilt, Listed, Paying, Spent

\* An attempt that failed: once more from the start, or not at all.
LEMMA AgainKeeps ==
    ASSUME IInv, status = "CREATED", UNCHANGED <<request, txs, step, wallet, allowed, got>>,
           Again \/ Failed
    PROVE  IInv'
<1>1. /\ status' \in {"CREATED", "QUOTE_FAILED"}
      /\ quote' = quote \/ quote' = NoQuote
  BY DEF Again, Failed
<1>2. Types'
  BY <1>1, NoQuoteType DEF IInv, Types, Statuses
<1>3. Quoted'
  BY <1>1 DEF Quoted
<1> QED
  BY <1>2, <1>3, StillUnbuilt

\* A quote for zero is enough as it is.
LEMMA QuoteZeroKeeps == ASSUME IInv, QuoteZero PROVE IInv'
<1>1. /\ status = "CREATED" /\ UNCHANGED <<request, txs, step, wallet, allowed, got>>
      /\ request.amount = 0 /\ status' = "QUOTE_DONE" /\ quote' = quote
  BY DEF QuoteZero, Quoting
<1>2. Types'
  BY <1>1 DEF IInv, Types, Statuses, Quotes
<1>3. Quoted'
  BY <1>1 DEF Quoted
<1> QED
  BY <1>1, <1>2, <1>3, StillUnbuilt

\* A native bridge is asked for what it will deliver.
LEMMA NativeQuoteKeeps == ASSUME IInv, NativeQuote PROVE IInv'
<1>1. /\ status = "CREATED" /\ UNCHANGED <<request, txs, step, wallet, allowed, got>>
      /\ request.amount > 0 /\ status' = "QUOTE_DONE"
      /\ quote' = [NoQuote EXCEPT !.in = request.amount, !.out = request.amount]
  BY DEF NativeQuote, Quoting
<1>2. request.amount \in Nat
  BY QuoteAssumption DEF IInv, Types
<1>3. Types'
  BY <1>1, <1>2, NoQuoteType DEF IInv, Types, Statuses
<1>4. Quoted'
  BY <1>1, <1>2 DEF Quoted, NoQuote, Amounts
<1> QED
  BY <1>1, <1>3, <1>4, StillUnbuilt

\* Relay names an input for the output asked for (RelayEnough).
LEMMA RelayQuoteKeeps == ASSUME IInv, RelayQuote PROVE IInv'
<1>1. /\ status = "CREATED" /\ UNCHANGED <<request, txs, step, wallet, allowed, got>>
      /\ request.amount > 0
  BY DEF RelayQuote, Quoting
<1>2. request.amount \in Nat
  BY QuoteAssumption DEF IInv, Types
<1>3. CASE Again
  BY <1>1, <1>3, AgainKeeps
<1>4. ASSUME NEW price \in Prices, NEW direct \in BOOLEAN, NEW in,
             in = CeilDiv((request.amount + price.fee) * price.den, price.num),
             quote' = [NoQuote EXCEPT !.in = in, !.out = Output(price, in), !.direct = direct],
             status' = "QUOTE_DONE"
      PROVE  IInv'
  <2>1. in \in Amounts /\ Output(price, in) >= request.amount /\ in \in Int
    BY <1>1, <1>2, <1>4, RelayEnough DEF Amounts
  <2>2. Output(price, in) \in Nat
    BY <2>1, OutputNat DEF Amounts
  <2>3. Types'
    <3>1. quote' \in Quotes
      BY <1>4, <2>1, <2>2, NoQuoteType, Zenon DEF Amounts
    <3> QED
      BY <1>1, <1>4, <3>1 DEF IInv, Types, Statuses
  <2>4. Quoted'
    BY <1>1, <1>4, <2>1 DEF Quoted, NoQuote
  <2> QED
    BY <1>1, <2>3, <2>4, StillUnbuilt
<1> QED
  BY <1>3, <1>4, Zenon DEF RelayQuote

\* The probe of Mayan only chooses what to ask for next.
LEMMA MayanProbeKeeps == ASSUME IInv, MayanProbe PROVE IInv'
<1>1. /\ status = "CREATED" /\ UNCHANGED <<request, txs, step, wallet, allowed, got>>
  BY DEF MayanProbe, Quoting
<1>2. CASE Again \/ Failed
  BY <1>1, <1>2, AgainKeeps
<1>3. ASSUME NEW price \in Prices, NEW out, out = Output(price, Seed), out # 0,
             quote' = [quote EXCEPT !.seed = Seed, !.in = Scaled(Seed, out)],
             UNCHANGED <<status, attempt>>
      PROVE  IInv'
  <2>1. Types /\ Seed \in Int
    BY SeedInt DEF IInv
  <2>2. out \in Nat \ {0}
    BY <1>3, <2>1, OutputNat
  <2>3. Scaled(Seed, out) \in Int
    BY <2>1, <2>2, ScaledInt
  <2>4. Types'
    BY <1>1, <1>3, <2>1, <2>3 DEF Types, Statuses, Quotes
  <2>5. Quoted'
    BY <1>1, <1>3 DEF Quoted
  <2> QED
    BY <1>1, <2>4, <2>5, StillUnbuilt
<1> QED
  BY <1>2, <1>3, Zenon DEF MayanProbe

\* The final answer is taken only if it is enough.
LEMMA MayanFinalKeeps == ASSUME IInv, MayanFinal PROVE IInv'
<1>1. /\ status = "CREATED" /\ UNCHANGED <<request, txs, step, wallet, allowed, got>>
      /\ quote.in > 0 /\ quote.in \in Int
  BY DEF MayanFinal, Quoting, IInv, Types, Quotes
<1>2. CASE Again
  BY <1>1, <1>2, AgainKeeps
<1>3. ASSUME NEW price \in Prices, NEW type \in Routes, NEW swap \in BOOLEAN, NEW whole \in BOOLEAN,
             NEW out, out = Output(price, quote.in), Enough(out),
             quote' = [quote EXCEPT !.out = out, !.type = type, !.whole = whole,
                                    !.swap = swap, !.middle = out],
             status' = "QUOTE_DONE"
      PROVE  IInv'
  <2>1. out \in Nat /\ out >= request.amount
    BY <1>1, <1>3, OutputNat DEF Enough
  <2>2. Types'
    BY <1>1, <1>3, <2>1 DEF IInv, Types, Statuses, Quotes
  <2>3. Quoted'
    BY <1>1, <1>3, <2>1 DEF Quoted, Amounts, IInv, Types, Quotes
  <2> QED
    BY <1>1, <2>2, <2>3, StillUnbuilt
<1> QED
  BY <1>2, <1>3, Zenon DEF MayanFinal

---------------------------------------------------------------------------
(* Building and sending *)

\* Every provider makes one of the lists, of an amount that is not zero.
LEMMA TxsShape ==
    ASSUME Types, request.amount # 0 => quote.in \in Amounts
    PROVE  Shape(Txs) /\ (request.amount = 0 => Txs = <<>>)
<1>1. CASE request.amount = 0
  BY <1>1 DEF Txs, Shape
<1>2. CASE request.amount # 0
  <2>1. request.amount \in Amounts /\ quote.in \in Amounts
    <3>1. request.amount \in Asked /\ Asked \subseteq Nat
      BY QuoteAssumption DEF Types
    <3> QED
      BY <1>2, <3>1 DEF Amounts
  <2>2. 0 \in Fees /\ Fee \in Fees
    BY DEF Fees
  <2>3. ASSUME NEW list, NEW v \in Amounts, NEW fee \in Fees,
               list \in {<<Call(v, 0)>>, <<Transfer(v)>>, <<Approve(v), Call(fee, v)>>}
        PROVE  Shape(list)
    BY <2>3, Zenon DEF Shape, OneCall, OneTransfer, ApproveAndCall
  <2>4. NativeTxs \in {<<Call(request.amount, 0)>>, <<Approve(request.amount), Call(0, request.amount)>>}
    BY DEF NativeTxs
  <2>5. RelayTxs \in {<<Call(quote.in, 0)>>, <<Transfer(quote.in)>>, <<Approve(quote.in), Call(0, quote.in)>>}
    BY DEF RelayTxs
  <2>6. MayanTxs \in {<<Call(quote.in, 0)>>, <<Approve(quote.in), Call(Fee, quote.in)>>}
    BY DEF MayanTxs, MonoTxs, SwiftTxs
  <2>7. Shape(NativeTxs) /\ Shape(RelayTxs) /\ Shape(MayanTxs)
    <3>1. Shape(NativeTxs)
      BY <2>1, <2>2, <2>3, <2>4
    <3>2. Shape(RelayTxs)
      BY <2>1, <2>2, <2>3, <2>5
    <3>3. Shape(MayanTxs)
      BY <2>1, <2>2, <2>3, <2>6
    <3> QED
      BY <3>1, <3>2, <3>3
  <2>8. Txs \in {NativeTxs, RelayTxs, MayanTxs}
    <3>1. request.provider \in {"native", "relay", "mayan"}
      BY DEF Types
    <3> QED
      BY <1>2, <3>1 DEF Txs
  <2> QED
    BY <1>2, <2>7, <2>8
<1> QED
  BY <1>1, <1>2

\* The wallet gets what the transactions just built require.
LEMMA BuildKeeps == ASSUME IInv, Build PROVE IInv'
<1>1. /\ status = "QUOTE_DONE" /\ step = 0 /\ UNCHANGED <<request, attempt, quote, allowed, got>>
      /\ allowed' = 0 /\ got' = 0 /\ txs = <<>>
  BY DEF Build, IInv, Unbuilt
<1>2. Shape(Txs) /\ (request.amount = 0 => Txs = <<>>)
  BY <1>1, TxsShape DEF IInv, Quoted
<1>3. CASE txs' = Txs /\ wallet' = Requirements(Txs) /\ step' = 1 /\ UNCHANGED status
  <2>1. Types' /\ Quoted' /\ Unbuilt'
    BY <1>1, <1>3 DEF IInv, Types, Quoted, Unbuilt
  <2>2. Listed'
    BY <1>1, <1>2, <1>3 DEF Listed, Shape, OneCall, OneTransfer, ApproveAndCall
  <2>3. Before'
    BY <1>1, <1>3 DEF Before, Requirements
  <2>4. Paying' /\ Spent'
    BY <1>1, <1>3, <2>3 DEF Paying, Spent
  <2> QED
    BY <2>1, <2>2, <2>4 DEF IInv
<1>4. CASE status' = "QUOTE_FAILED" /\ UNCHANGED <<txs, wallet, step>>
  <2>1. Types' /\ Quoted' /\ Unbuilt' /\ Listed'
    BY <1>1, <1>4 DEF IInv, Types, Statuses, Quoted, Unbuilt, Listed
  <2>2. Paying' /\ Spent'
    BY <1>1, <1>4 DEF Paying, Spent
  <2> QED
    BY <2>1, <2>2 DEF IInv
<1> QED
  BY <1>3, <1>4 DEF Build

\* What an execution finds: one of the lists, and what it was given.
LEMMA AtSending ==
    ASSUME IInv, Sending
    PROVE  /\ status = "QUOTE_DONE" /\ got = 0 /\ request.amount # 0
           /\ step \in 1 .. Len(txs)
           /\ \E v \in Amounts, fee \in Fees :
                \/ /\ OneCall(txs, v) /\ step = 1 /\ Before
                \/ /\ OneTransfer(txs, v) /\ step = 1 /\ Before
                \/ /\ ApproveAndCall(txs, v, fee) /\ step = 1 /\ Before
                \/ /\ ApproveAndCall(txs, v, fee) /\ step = 2 /\ (Before \/ Approved)
<1>1. status = "QUOTE_DONE" /\ step \in 1 .. Len(txs) /\ step \in Nat
  BY DEF Sending, IInv, Types
<1>2. step # 0 /\ txs # <<>>
  BY <1>1
<1>3. request.amount # 0 /\ got = 0 /\ Shape(txs)
  BY <1>1, <1>2 DEF IInv, Listed, Paying
<1>4. PICK v \in Amounts, fee \in Fees :
        OneCall(txs, v) \/ OneTransfer(txs, v) \/ ApproveAndCall(txs, v, fee)
  BY <1>2, <1>3 DEF Shape
<1>5. /\ OneCall(txs, v) \/ OneTransfer(txs, v) => step = 1
      /\ ApproveAndCall(txs, v, fee) => (step = 1 \/ step = 2) /\ Len(txs) = 2
  <2>1. OneCall(txs, v) => Len(txs) = 1
    BY OneCallFacts
  <2>2. OneTransfer(txs, v) => Len(txs) = 1
    BY OneTransferFacts
  <2>3. ApproveAndCall(txs, v, fee) => Len(txs) = 2
    BY ApproveAndCallFacts
  <2> QED
    BY <1>1, <2>1, <2>2, <2>3
<1>6. (step = 1 => Before) /\ (step = 2 /\ Len(txs) = 2 => Before \/ Approved)
  BY DEF IInv, Paying
<1>7. \/ /\ OneCall(txs, v) /\ step = 1 /\ Before
      \/ /\ OneTransfer(txs, v) /\ step = 1 /\ Before
      \/ /\ ApproveAndCall(txs, v, fee) /\ step = 1 /\ Before
      \/ /\ ApproveAndCall(txs, v, fee) /\ step = 2 /\ (Before \/ Approved)
  BY <1>4, <1>5, <1>6, Zenon
<1> QED
  BY <1>1, <1>3, <1>7

\* What is delivered is a number of atoms, and is not short of the quote by an atom of
\* the canonical amount.
LEMMA DeliveredNat == ASSUME Types PROVE Delivered \in Nat /\ Delivered + Cut > quote.out
<1>1. quote.out \in Nat
  BY DEF Types, Quotes
<1>2. (quote.out \div Cut) * Cut \in Nat /\ (quote.out \div Cut) * Cut + Cut > quote.out
  BY <1>1, Canonical
<1>3. Delivered = (quote.out \div Cut) * Cut \/ Delivered = quote.out
  BY DEF Delivered, SwiftOrder
<1>4. quote.out + Cut > quote.out
  BY <1>1, Costs
<1> QED
  BY <1>1, <1>2, <1>3, <1>4

\* The transaction of a step leaves the quote alone.
LEMMA Sent ==
    ASSUME IInv, Sending, UNCHANGED <<request, attempt, quote, txs>>, step' = step + 1,
           status' = (IF LastStep THEN "EXECUTION_PENDING" ELSE status), got' \in Nat
    PROVE  Types' /\ Quoted' /\ Unbuilt' /\ Listed' /\ step' # 0 /\ step' # 1
<1>1. /\ status = "QUOTE_DONE" /\ step \in Nat /\ step # 0
      /\ status' \in {"QUOTE_DONE", "EXECUTION_PENDING"}
  BY AtSending DEF IInv, Types
<1>2. step' \in Nat /\ step' # 0 /\ step' # 1
  BY <1>1
<1>3. Types'
  BY <1>1, <1>2 DEF IInv, Types, Statuses
<1>4. Quoted' /\ Unbuilt'
  BY <1>1, <1>2 DEF IInv, Quoted, Unbuilt
<1>5. Shape(txs)' <=> Shape(txs)
  BY DEF Shape, OneCall, OneTransfer, ApproveAndCall
<1>6. Listed'
  BY <1>1, <1>2, <1>5 DEF IInv, Listed
<1> QED
  BY <1>2, <1>3, <1>4, <1>6

\* A transaction takes its part of what was given, and the last one leaves nothing.
LEMMA MinedKeeps == ASSUME IInv, Mined PROVE IInv'
<1>1. /\ Sending /\ UNCHANGED <<request, attempt, quote, txs>> /\ step' = step + 1
      /\ status' = IF LastStep THEN "EXECUTION_PENDING" ELSE status
      /\ Payable(txs[step]) /\ Fits(txs[step]) /\ Pays(txs[step])
      /\ allowed' = IF txs[step].kind = "approve" THEN txs[step].amount ELSE allowed - txs[step].pull
      /\ got' = IF LastStep THEN Delivered ELSE got
  BY DEF Mined
<1>2. PICK v \in Amounts, fee \in Fees :
        \/ /\ OneCall(txs, v) /\ step = 1 /\ Before
        \/ /\ OneTransfer(txs, v) /\ step = 1 /\ Before
        \/ /\ ApproveAndCall(txs, v, fee) /\ step = 1 /\ Before
        \/ /\ ApproveAndCall(txs, v, fee) /\ step = 2 /\ (Before \/ Approved)
  BY <1>1, AtSending
<1>3. status = "QUOTE_DONE" /\ got = 0 /\ request.amount # 0
  BY <1>1, AtSending
<1>4. v \in Nat /\ v # 0 /\ fee \in Nat /\ Gas \in Nat
  BY Costs DEF Amounts
<1>5. Delivered \in Nat /\ Delivered' = Delivered
  BY <1>1, DeliveredNat DEF IInv, Delivered, SwiftOrder
<1>6. Types' /\ Quoted' /\ Unbuilt' /\ Listed' /\ step' # 0 /\ step' # 1
  <2>1. got' \in Nat
    BY <1>1, <1>3, <1>5
  <2> QED
    BY <1>1, <2>1, Sent
<1>7. ASSUME LastStep, wallet' = [native |-> 0, token |-> 0], allowed' = 0,
             ~(step' = 2 /\ Len(txs) = 2)
      PROVE  IInv'
  <2>1. got' = Delivered' /\ status' = "EXECUTION_PENDING"
    BY <1>1, <1>5, <1>7
  <2>2. Spent'
    BY <1>1, <1>3, <1>7, <2>1 DEF Spent
  <2>3. Paying'
    BY <1>1, <1>6, <1>7, <2>1 DEF Paying
  <2> QED
    BY <1>6, <2>2, <2>3 DEF IInv
<1>8. CASE OneCall(txs, v) /\ step = 1 /\ Before
  <2>1. /\ Len(txs) = 1 /\ txs[step].kind = "call" /\ txs[step].value = v /\ txs[step].pull = 0
        /\ wallet = [native |-> v + Gas, token |-> 0] /\ allowed = 0
    BY <1>8, OneCallFacts DEF Before
  <2>2. wallet' = [native |-> 0, token |-> 0] /\ allowed' = 0
    BY <1>1, <1>4, <2>1 DEF Pays
  <2> QED
    BY <1>7, <1>8, <2>1, <2>2 DEF LastStep
<1>9. CASE OneTransfer(txs, v) /\ step = 1 /\ Before
  <2>1. /\ Len(txs) = 1 /\ txs[step].kind = "transfer" /\ txs[step].value = 0 /\ txs[step].pull = 0
        /\ txs[step].amount = v
        /\ wallet = [native |-> Gas, token |-> v] /\ allowed = 0
    BY <1>9, OneTransferFacts DEF Before
  <2>2. wallet' = [native |-> 0, token |-> 0] /\ allowed' = 0
    BY <1>1, <1>4, <2>1 DEF Pays
  <2> QED
    BY <1>7, <1>9, <2>1, <2>2 DEF LastStep
<1>10. CASE ApproveAndCall(txs, v, fee) /\ step = 1 /\ Before
  <2>1. /\ Len(txs) = 2 /\ txs[1].kind = "approve" /\ txs[1].value = 0 /\ txs[1].pull = 0
        /\ txs[1].amount = v /\ txs[2].value = fee /\ txs[2].pull = v
        /\ wallet = [native |-> Gas + fee + Gas, token |-> v]
    BY <1>10, ApproveAndCallFacts DEF Before
  <2>2. wallet' = [native |-> fee + Gas, token |-> v] /\ allowed' = v
    BY <1>1, <1>4, <1>10, <2>1 DEF Pays
  <2>3. Approved'
    BY <1>1, <2>1, <2>2 DEF Approved
  <2>4. got' = 0
    BY <1>1, <1>3, <1>10, <2>1 DEF LastStep
  <2>5. Spent' /\ Paying'
    BY <1>6, <2>3, <2>4 DEF Spent, Paying
  <2> QED
    BY <1>6, <2>5 DEF IInv
<1>11. CASE ApproveAndCall(txs, v, fee) /\ step = 2 /\ (Before \/ Approved)
  <2>1. /\ Len(txs) = 2 /\ txs[1].amount = v
        /\ txs[2].kind = "call" /\ txs[2].value = fee /\ txs[2].pull = v
    BY <1>11, ApproveAndCallFacts
  <2>2. v <= allowed
    BY <1>1, <1>11, <2>1 DEF Fits
  <2>3. Approved
    BY <1>4, <1>11, <2>2 DEF Before
  <2>4. wallet = [native |-> fee + Gas, token |-> v] /\ allowed = v
    BY <2>1, <2>3 DEF Approved
  <2>5. wallet' = [native |-> 0, token |-> 0] /\ allowed' = 0
    BY <1>1, <1>4, <1>11, <2>1, <2>4 DEF Pays
  <2>6. step' # 2
    BY <1>1, <1>11
  <2> QED
    BY <1>7, <1>11, <2>1, <2>5, <2>6 DEF LastStep
<1> QED
  BY <1>2, <1>8, <1>9, <1>10, <1>11

\* A transaction that timed out has taken nothing; the call after a lost approval
\* finds nothing allowed.
LEMMA TimedOutKeeps == ASSUME IInv, TimedOut PROVE IInv'
<1>1. /\ Sending /\ UNCHANGED <<request, attempt, quote, txs, wallet, allowed, got>>
      /\ step' = step + 1 /\ status' = IF LastStep THEN "EXECUTION_PENDING" ELSE status
  BY DEF TimedOut
<1>2. /\ status = "QUOTE_DONE" /\ got = 0 /\ step \in 1 .. Len(txs)
  BY <1>1, AtSending
<1>3. got' = 0
  BY <1>1, <1>2
<1>4. Types' /\ Quoted' /\ Unbuilt' /\ Listed' /\ step' # 0 /\ step' # 1
  BY <1>1, <1>3, Sent
<1>5. ASSUME step' = 2, Len(txs) = 2 PROVE Before'
  <2>1. step = 1
    BY <1>1, <1>2, <1>5 DEF IInv, Types
  <2>2. Before
    BY <2>1 DEF IInv, Paying
  <2> QED
    BY <1>1, <2>2 DEF Before, Requirements
<1>6. Paying' /\ Spent'
  BY <1>1, <1>3, <1>4, <1>5 DEF Paying, Spent
<1> QED
  BY <1>4, <1>6 DEF IInv

\* A request that ends without a transaction of its own leaves the money where it is.
LEMMA EndedKeeps == ASSUME IInv, Refused \/ Skipped PROVE IInv'
<1>1. /\ status = "QUOTE_DONE" /\ step # 0 /\ status' \in {"EXECUTION_FAILED", "EXECUTION_DONE"}
      /\ UNCHANGED <<request, attempt, quote, txs, step, wallet, allowed, got>>
  BY AtSending DEF Refused, Skipped
<1>2. Types' /\ Quoted' /\ Unbuilt'
  BY <1>1 DEF IInv, Types, Statuses, Quoted, Unbuilt
<1>3. Shape(txs)' <=> Shape(txs)
  BY <1>1 DEF Shape, OneCall, OneTransfer, ApproveAndCall
<1>4. Listed'
  BY <1>1, <1>3 DEF IInv, Listed
<1>5. got = 0
  BY <1>1 DEF IInv, Paying
<1>6. (Before' <=> Before) /\ (Approved' <=> Approved)
  BY <1>1 DEF Before, Approved, Requirements
<1>7. Paying' /\ Spent'
  BY <1>1, <1>5, <1>6 DEF IInv, Paying, Spent
<1> QED
  BY <1>2, <1>4, <1>7 DEF IInv

\* Nothing moves.
LEMMA QuietKeeps == ASSUME IInv, UNCHANGED vars PROVE IInv'
<1>1. UNCHANGED <<request, status, attempt, quote, txs, step, wallet, allowed, got>>
  BY DEF vars
<1>2. Types' /\ Quoted' /\ Unbuilt'
  BY <1>1 DEF IInv, Types, Quoted, Unbuilt
<1>3. Listed'
  <2>1. Shape(txs)' <=> Shape(txs)
    BY <1>1 DEF Shape, OneCall, OneTransfer, ApproveAndCall
  <2> QED
    BY <1>1, <2>1 DEF IInv, Listed
<1>4. Paying'
  <2>1. (Before' <=> Before) /\ (Approved' <=> Approved)
    BY <1>1 DEF Before, Approved, Requirements
  <2> QED
    BY <1>1, <2>1 DEF IInv, Paying
<1>5. Spent'
  BY <1>1 DEF IInv, Spent, Delivered, SwiftOrder
<1> QED
  BY <1>2, <1>3, <1>4, <1>5 DEF IInv

---------------------------------------------------------------------------
(* The theorems *)

\* No request starts with anything built or paid.
LEMMA InitHolds == Init => IInv
<1> SUFFICES ASSUME Init PROVE IInv
  OBVIOUS
<1>1. Types
  BY NoQuoteType DEF Init, Types, Statuses
<1>2. Quoted /\ Unbuilt /\ Listed /\ Paying /\ Spent
  BY DEF Init, Quoted, Unbuilt, Listed, Paying, Spent
<1> QED
  BY <1>1, <1>2 DEF IInv

\* What holds of every request at every moment: its quote is enough, its transactions are
\* one of three lists, and the wallet holds what those not sent yet will take.
THEOREM Invariance == Spec => []IInv
<1>1. IInv /\ [Next]_vars => IInv'
  <2> SUFFICES ASSUME IInv, [Next]_vars PROVE IInv'
    OBVIOUS
  <2> QED
    BY QuoteZeroKeeps, NativeQuoteKeeps, RelayQuoteKeeps, MayanProbeKeeps, MayanFinalKeeps,
       BuildKeeps, MinedKeeps, TimedOutKeeps, EndedKeeps, QuietKeeps DEF Next
<1> QED
  BY InitHolds, <1>1, PTL DEF Spec

\* Whoever tops up the wallet by what `requirements` asks for can pay every transaction,
\* and none takes more than the approval before it allows, at every price and rounding.
THEOREM RequirementsSuffice == Spec => []Suffices
<1>1. IInv => Suffices
  <2> SUFFICES ASSUME IInv, Sending
               PROVE  /\ Payable(txs[step])
                      /\ (step = 1 \/ allowed = txs[step - 1].amount) => Fits(txs[step])
    BY DEF Suffices
  <2>1. PICK v \in Amounts, fee \in Fees :
          \/ /\ OneCall(txs, v) /\ step = 1 /\ Before
          \/ /\ OneTransfer(txs, v) /\ step = 1 /\ Before
          \/ /\ ApproveAndCall(txs, v, fee) /\ step = 1 /\ Before
          \/ /\ ApproveAndCall(txs, v, fee) /\ step = 2 /\ (Before \/ Approved)
    BY AtSending
  <2>2. v \in Nat /\ v # 0 /\ fee \in Nat /\ Gas \in Nat
    BY Costs DEF Amounts
  <2>3. SwiftOrder.in <= Handed
    <3>1. quote.in \in Int /\ quote.middle \in Int
      BY DEF IInv, Types, Quotes
    <3>2. SwiftOrder.in = Handed /\ Handed \in {quote.in, quote.middle}
      BY DEF SwiftOrder, Handed
    <3> QED
      BY <3>1, <3>2
  <2>4. CASE OneCall(txs, v) /\ step = 1 /\ Before
    <3>1. /\ txs[step].kind = "call" /\ txs[step].value = v /\ txs[step].pull = 0
          /\ wallet = [native |-> v + Gas, token |-> 0] /\ allowed = 0
      BY <2>4, OneCallFacts DEF Before
    <3> QED
      BY <2>2, <2>3, <3>1 DEF Payable, Fits
  <2>5. CASE OneTransfer(txs, v) /\ step = 1 /\ Before
    <3>1. /\ txs[step].kind = "transfer" /\ txs[step].value = 0 /\ txs[step].pull = 0
          /\ txs[step].amount = v
          /\ wallet = [native |-> Gas, token |-> v] /\ allowed = 0
      BY <2>5, OneTransferFacts DEF Before
    <3> QED
      BY <2>2, <2>3, <3>1 DEF Payable, Fits
  <2>6. CASE ApproveAndCall(txs, v, fee) /\ step = 1 /\ Before
    <3>1. /\ txs[step].kind = "approve" /\ txs[step].value = 0 /\ txs[step].pull = 0
          /\ wallet = [native |-> Gas + fee + Gas, token |-> v] /\ allowed = 0
      BY <2>6, ApproveAndCallFacts DEF Before
    <3> QED
      BY <2>2, <2>3, <3>1 DEF Payable, Fits
  <2>7. CASE ApproveAndCall(txs, v, fee) /\ step = 2 /\ (Before \/ Approved)
    <3>1. /\ txs[1].amount = v
          /\ txs[step].kind = "call" /\ txs[step].value = fee /\ txs[step].pull = v
          /\ Requirements(txs) = [native |-> Gas + fee + Gas, token |-> v]
          /\ step - 1 = 1
      BY <2>7, ApproveAndCallFacts
    <3>2. \/ wallet = [native |-> Gas + fee + Gas, token |-> v]
          \/ wallet = [native |-> fee + Gas, token |-> v]
      BY <2>7, <3>1 DEF Before, Approved
    <3>3. Payable(txs[step])
      BY <2>2, <3>1, <3>2 DEF Payable
    <3>4. allowed = txs[step - 1].amount => Fits(txs[step])
      BY <2>2, <2>3, <3>1 DEF Fits
    <3> QED
      BY <2>7, <3>3, <3>4
  <2> QED
    BY <2>1, <2>4, <2>5, <2>6, <2>7
<1> QED
  BY Invariance, <1>1, PTL

\* And it asks for no more than that: a request that delivered has used up all of it and
\* leaves nothing allowed to the bridge.
THEOREM NothingWasted == Spec => []NothingLeft
<1>1. IInv => NothingLeft
  BY DEF IInv, Spent, NothingLeft
<1> QED
  BY Invariance, <1>1, PTL

\* What is delivered is what was asked for, but for the digits that a canonical amount
\* cannot show, however the price moved between the quotes.
THEOREM AskedIsDelivered == Spec => []Delivers
<1>1. IInv => Delivers
  <2> SUFFICES ASSUME IInv, got > 0 PROVE got + Cut > request.amount
    BY DEF Delivers
  <2>1. got = Delivered /\ request.amount # 0 /\ status = "EXECUTION_PENDING"
    BY DEF IInv, Spent
  <2>2. quote.out >= request.amount /\ quote.out \in Nat /\ request.amount \in Nat
    <3>1. request.amount \in Asked /\ Asked \subseteq Nat
      BY QuoteAssumption DEF IInv, Types
    <3> QED
      BY <2>1, <3>1 DEF IInv, Quoted, Types, Quotes
  <2>3. Delivered \in Nat /\ Delivered + Cut > quote.out
    BY DeliveredNat DEF IInv
  <2>4. Cut \in Nat
    BY Costs
  <2> QED
    BY <2>1, <2>2, <2>3, <2>4
<1> QED
  BY Invariance, <1>1, PTL
=============================================================================

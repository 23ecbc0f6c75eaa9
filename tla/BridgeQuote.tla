----------------------------- MODULE BridgeQuote ----------------------------
(***************************************************************************)
(* One bridge request in amounts: how each provider quotes it, which        *)
(* transactions it makes of the quote, what `requirements` asks the user    *)
(* for, and what these transactions then take and deliver.                  *)
(*                                                                          *)
(* The life of the request (statuses, files, kills) is module Bridge; here  *)
(* a quote is executed at once, with exactly what was asked for in the      *)
(* wallet.  Prices may move between any two calls of a provider's API.      *)
(*                                                                          *)
(* Modules: mayan_provider.py, relay_provider.py, native_bridge_provider.py *)
(* and provider.py (requirements, execute).                                 *)
(***************************************************************************)
EXTENDS Integers, Sequences, Functions

CONSTANTS
    Asked,      \* bound: the amounts to deliver, in atoms of the target token
    Prices,     \* bound: the prices of the API, [num, den, fee]
    Deltas,     \* bound: source decimals minus target decimals
    BufferNum, BufferDen, \* MAYAN_SLIPPAGE_BUFFER
    Cut,        \* 10^(decimals - 8), atoms a canonical amount cannot show
    Retries,    \* DEFAULT_MAX_QUOTE_RETRIES
    Gas,        \* what one transaction costs
    Fee         \* bridgeFee of a Mayan quote

ASSUME QuoteAssumption ==
    /\ Asked \subseteq Nat /\ {BufferNum, Retries, Gas, Fee} \subseteq Nat
    /\ {BufferDen, Cut} \subseteq Nat \ {0}
    /\ Prices \subseteq [num : Nat \ {0}, den : Nat \ {0}, fee : Nat]
    /\ Deltas \subseteq Int

\* Powers of ten are positive, which the provers do not know of `^`.
ASSUME PowersAssumption ==
    \A delta \in Deltas : delta < 0 => 10 ^ (0 - delta) \in Nat \ {0}

Routes == {"SWIFT", "MONO_CHAIN"}

VARIABLES
    request,  \* [provider, source, amount, delta]
    status,   \* of the request
    attempt,  \* of the quote
    quote,    \* what the API answered, and what it will take
    txs,      \* the transactions of the quote
    step,     \* the transaction to send next
    wallet,   \* what the Master EOA has
    allowed,  \* what the bridge may take of its token
    got       \* what was delivered

vars == <<request, status, attempt, quote, txs, step, wallet, allowed, got>>

CeilDiv(a, b) == (a + b - 1) \div b

---------------------------------------------------------------------------
(* Quotes *)

NoQuote == [in |-> 0, out |-> 0, seed |-> 0, type |-> "none", swap |-> FALSE, middle |-> 0,
            direct |-> FALSE, whole |-> TRUE]

\* What an API delivers at least for an input.
Output(price, in) ==
    IF in * price.num < price.fee * price.den THEN 0
    ELSE (in * price.num) \div price.den - price.fee

Failed == /\ status' = "QUOTE_FAILED"
          /\ UNCHANGED <<attempt, quote>>

\* A timeout, an HTTP error or an exception while quoting.
Again ==
    IF attempt >= Retries THEN Failed
    ELSE /\ attempt' = attempt + 1
         /\ status' = "CREATED"
         /\ quote' = NoQuote

Quoting(provider) ==
    /\ status = "CREATED"
    /\ request.provider = provider
    /\ UNCHANGED <<request, txs, step, wallet, allowed, got>>

\* Zero is quoted without asking anybody.
QuoteZero ==
    /\ \E provider \in {"native", "relay", "mayan"} : Quoting(provider)
    /\ request.amount = 0
    /\ status' = "QUOTE_DONE"
    /\ UNCHANGED <<attempt, quote>>

\* A native bridge delivers what it takes.
NativeQuote ==
    /\ Quoting("native")
    /\ request.amount > 0
    /\ status' = "QUOTE_DONE"
    /\ quote' = [NoQuote EXCEPT !.in = request.amount, !.out = request.amount]
    /\ UNCHANGED attempt

\* Relay is asked for an output and names the input.  Where the gas of an item is
\* missing it is taken from a second quote or from a table that may lack it.
RelayQuote ==
    /\ Quoting("relay")
    /\ request.amount > 0
    /\ \/ Again
       \/ \E price \in Prices, direct \in BOOLEAN :
            LET in == CeilDiv((request.amount + price.fee) * price.den, price.num)
            IN  /\ quote' = [NoQuote EXCEPT !.in = in, !.out = Output(price, in), !.direct = direct]
                /\ status' = "QUOTE_DONE"
                /\ UNCHANGED attempt

\* The target amount in atoms of the source, at a rate of one to one.
Seed ==
    IF request.delta >= 0 THEN request.amount * 10 ^ request.delta
    ELSE IF request.amount < 10 ^ (0 - request.delta) THEN 1
    ELSE request.amount \div 10 ^ (0 - request.delta)

\* Enough of the source for the target amount at the probed rate, and the buffer.
Scaled(in, out) == CeilDiv(request.amount * in * (BufferDen + BufferNum), out * BufferDen)

MayanProbe ==
    /\ Quoting("mayan")
    /\ request.amount > 0 /\ quote.in = 0
    /\ \/ Failed  \* a chain that Mayan does not know
       \/ Again
       \/ \E price \in Prices :
            LET out == Output(price, Seed)
            IN  IF out = 0 THEN Again
                ELSE /\ quote' = [quote EXCEPT !.seed = Seed, !.in = Scaled(Seed, out)]
                     /\ UNCHANGED <<status, attempt>>

\* Mutant: the second answer is taken as it is.
EnoughAlways(out) == TRUE

Enough(out) == out >= request.amount

\* The answer for the final amount names the route: over a hub token that may have
\* to be bought first, or a swap on one chain; a field may be missing.
MayanFinal ==
    /\ Quoting("mayan")
    /\ quote.in > 0
    /\ \/ Again
       \/ \E price \in Prices, type \in Routes, swap, whole \in BOOLEAN :
            LET out == Output(price, quote.in)
            IN  IF ~Enough(out) THEN Again
                ELSE /\ quote' = [quote EXCEPT !.out = out, !.type = type, !.whole = whole,
                                               !.swap = swap, !.middle = out]
                     /\ status' = "QUOTE_DONE"
                     /\ UNCHANGED attempt

---------------------------------------------------------------------------
(* Transactions *)

\* amount: of an ERC20.approve or ERC20.transfer; value: native sent along;
\* pull: what the bridge takes by its allowance.
Approve(amount)   == [kind |-> "approve", amount |-> amount, value |-> 0, pull |-> 0]
Transfer(amount)  == [kind |-> "transfer", amount |-> amount, value |-> 0, pull |-> 0]
Call(value, pull) == [kind |-> "call", amount |-> 0, value |-> value, pull |-> pull]

Native == request.source = "native"

\* build_bridge_eth_to_tx; or approve, then build_bridge_erc20_to_tx or
\* build_relay_tokens_tx.
NativeTxs ==
    IF Native THEN <<Call(request.amount, 0)>>
    ELSE <<Approve(request.amount), Call(0, request.amount)>>

\* The steps of Relay's answer.
RelayTxs ==
    IF Native THEN <<Call(quote.in, 0)>>
    ELSE IF quote.direct THEN <<Transfer(quote.in)>>
    ELSE <<Approve(quote.in), Call(0, quote.in)>>

\* Mutant: only the amount asked for is approved.
SwiftTxsShort ==
    IF Native THEN <<Call(quote.in, 0)>>
    ELSE <<Approve(request.amount), Call(Fee, quote.in)>>

\* forwardEth or swapAndForwardEth; or approve, then their ERC20 forms.
SwiftTxs ==
    IF Native THEN <<Call(quote.in, 0)>>
    ELSE <<Approve(quote.in), Call(Fee, quote.in)>>

\* swapAndForwardEth, or approve and swapAndForwardERC20.
MonoTxs == SwiftTxs

\* The order inside a SWIFT transaction: after a swap it is about the hub token
\* bought, else about what was handed over; its amounts are canonical.
SwiftOrder ==
    [in |-> IF quote.swap THEN quote.middle ELSE quote.in, out |-> quote.out \div Cut]

\* What the forwarder has for the order.
Handed == IF quote.swap THEN quote.middle ELSE quote.in

MayanTxs == IF quote.type = "MONO_CHAIN" THEN MonoTxs ELSE SwiftTxs

\* Nothing is built for zero.
Txs ==
    IF request.amount = 0 THEN <<>>
    ELSE CASE request.provider = "native" -> NativeTxs
           [] request.provider = "relay" -> RelayTxs
           [] request.provider = "mayan" -> MayanTxs

\* Mutant: an approval and what it allows are both counted.
RequirementsTwice(list) ==
    [native |-> SumFunction([i \in DOMAIN list |-> list[i].value + Gas]),
     token  |-> SumFunction([i \in DOMAIN list |-> list[i].amount + list[i].pull])]

\* requirements: gas and value of all transactions, and the amounts read back from
\* the approvals and transfers.
Requirements(list) ==
    [native |-> SumFunction([i \in DOMAIN list |-> list[i].value + Gas]),
     token  |-> SumFunction([i \in DOMAIN list |-> list[i].amount])]

\* requirements and refill: what cannot be built is a failed quote.
Build ==
    /\ status = "QUOTE_DONE" /\ step = 0
    /\ \/ /\ quote.whole
          /\ txs' = Txs
          /\ wallet' = Requirements(Txs)
          /\ step' = 1
          /\ UNCHANGED status
       \/ /\ ~quote.whole
          /\ status' = "QUOTE_FAILED"
          /\ UNCHANGED <<txs, wallet, step>>
    /\ UNCHANGED <<request, attempt, quote, allowed, got>>

---------------------------------------------------------------------------
(* Execution *)

Sending == status = "QUOTE_DONE" /\ step \in 1 .. Len(txs)

\* external: what the transaction needs when it is mined
Payable(x) ==
    /\ wallet.native >= x.value + Gas
    /\ wallet.token >= IF x.kind = "transfer" THEN x.amount ELSE x.pull

Fits(x) ==
    /\ x.pull <= allowed
    /\ x.kind = "call" /\ quote.type = "SWIFT" => SwiftOrder.in <= Handed

Pays(x) ==
    wallet' = [native |-> wallet.native - x.value - Gas,
               token  |-> wallet.token - IF x.kind = "transfer" THEN x.amount ELSE x.pull]

\* external: at least what the order says; a canonical amount is not exact.
Delivered ==
    IF request.provider = "mayan" /\ quote.type = "SWIFT" THEN SwiftOrder.out * Cut ELSE quote.out

LastStep == step = Len(txs)

\* A transaction is mined.
Mined ==
    /\ Sending
    /\ LET x == txs[step]
       IN  /\ Payable(x) /\ Fits(x)
           /\ Pays(x)
           /\ allowed' = IF x.kind = "approve" THEN x.amount ELSE allowed - x.pull
           /\ got' = IF LastStep THEN Delivered ELSE got
    /\ step' = step + 1
    /\ status' = IF LastStep THEN "EXECUTION_PENDING" ELSE status
    /\ UNCHANGED <<request, attempt, quote, txs>>

\* Its settlement times out, is logged, and the next one is sent all the same.
TimedOut ==
    /\ Sending
    /\ step' = step + 1
    /\ status' = IF LastStep THEN "EXECUTION_PENDING" ELSE status
    /\ UNCHANGED <<request, attempt, quote, txs, wallet, allowed, got>>

\* It is refused or reverted, and the request has failed.
Refused ==
    /\ Sending
    /\ status' = "EXECUTION_FAILED"
    /\ UNCHANGED <<request, attempt, quote, txs, step, wallet, allowed, got>>

\* There was nothing to send.
Skipped ==
    /\ status = "QUOTE_DONE" /\ step = 1 /\ txs = <<>>
    /\ status' = "EXECUTION_DONE"
    /\ UNCHANGED <<request, attempt, quote, txs, step, wallet, allowed, got>>

---------------------------------------------------------------------------
Init ==
    /\ request \in [provider : {"native", "relay", "mayan"}, source : {"native", "token"},
                    amount : Asked, delta : Deltas]
    /\ status = "CREATED"
    /\ attempt = 1
    /\ quote = NoQuote
    /\ txs = <<>>
    /\ step = 0
    /\ wallet = [native |-> 0, token |-> 0]
    /\ allowed = 0
    /\ got = 0

Next ==
    \/ QuoteZero \/ NativeQuote \/ RelayQuote \/ MayanProbe \/ MayanFinal
    \/ Build \/ Mined \/ TimedOut \/ Refused \/ Skipped

Spec == Init /\ [][Next]_vars

---------------------------------------------------------------------------
(* Properties *)

\* Whoever tops up the wallet by what `requirements` asks for can pay every
\* transaction, and no transaction takes more than the approval before it allows,
\* if that was mined.
Suffices ==
    Sending => /\ Payable(txs[step])
               /\ (step = 1 \/ allowed = txs[step - 1].amount) => Fits(txs[step])

\* It asks for no more than that: a request that delivered has used up all of it, and
\* leaves nothing allowed to the bridge.
NothingLeft ==
    got > 0 => wallet = [native |-> 0, token |-> 0] /\ allowed = 0

\* A request that was executed delivers the amount asked for, but for the digits a
\* canonical amount cannot show, however the price moved between the quotes.
Delivers == got > 0 => got + Cut > request.amount
=============================================================================

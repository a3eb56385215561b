------------------------------- MODULE Trades -------------------------------
(***************************************************************************)
(* Routes and trades of several routes (entities/route.go, trade.go): what *)
(* NewRoute and newTrade accept, the amounts quoted along the routes, the  *)
(* prices a trade answers with and what slippage makes of its amounts.     *)
(* A token stands for its address, a currency is a token or, native, the   *)
(* ether that its wrapped token stands for; a pool quotes at its price.    *)
(***************************************************************************)
EXTENDS Integers, SequencesExt

CONSTANTS Token, WETH9

ASSUME TokenAssumption == Token \subseteq Nat /\ WETH9 \in Token

Currency == [token : Token, native : {FALSE}] \cup {[token |-> WETH9, native |-> TRUE]}
Wrapped(currency) == [currency EXCEPT !.native = FALSE]

(* Of a pool the price of token0 is a fraction <<numerator, denominator>>. *)
InvolvesToken(pool, token) == token \in {pool.token0, pool.token1}
Token0Price(pool) == pool.price
Token1Price(pool) == <<pool.price[2], pool.price[1]>>
OtherToken(pool, token) == IF token = pool.token0 THEN pool.token1 ELSE pool.token0

(* GetAddress hashes the sorted tokens and the fee; no override is used. *)
GetAddress(pool) == <<pool.token0, pool.token1, pool.fee>>

(* SortsBefore and ComputePoolAddress: the pair in either order. *)
SortsBefore(a, b) == a < b
PoolAt(pools, tokenA, tokenB, fee) ==
  {pool \in pools : GetAddress(pool) = IF SortsBefore(tokenA, tokenB)
                                       THEN <<tokenA, tokenB, fee>> ELSE <<tokenB, tokenA, fee>>}

Ceiling(x, d) == (x + d - 1) \div d
Times(p, q) == <<p[1] * q[1], p[2] * q[2]>>
SamePrice(p, q) == p[1] * q[2] = q[1] * p[2]

(* The price of what goes into the pool, in terms of what comes out. *)
PriceFrom(pool, token) == IF token = pool.token0 THEN Token0Price(pool) ELSE Token1Price(pool)

GetOutputAmount(pool, tokenIn, amount) ==
  (amount * PriceFrom(pool, tokenIn)[1]) \div PriceFrom(pool, tokenIn)[2]
GetInputAmount(pool, tokenOut, amount) ==
  LET price == PriceFrom(pool, OtherToken(pool, tokenOut))
  IN  Ceiling(amount * price[2], price[1])
-----------------------------------------------------------------------------
TokenPath(pools, input) ==
  LET path[i \in 0 .. Len(pools)] ==
        IF i = 0 THEN input.token ELSE OtherToken(pools[i], path[i-1])
  IN  path

Continuous(pools, input) ==
  \A i \in 1 .. Len(pools) : InvolvesToken(pools[i], TokenPath(pools, input)[i-1])

(* NewRoute asks only that the last pool involves the output. *)
IsRoute(pools, input, output) ==
  /\ pools # <<>>
  /\ Continuous(pools, input)
  /\ InvolvesToken(Last(pools), output.token)

NewRoute(pools, input, output) ==
  [pools |-> pools, tokenPath |-> TokenPath(pools, input), input |-> input, output |-> output]

(* The first pool is entered by Token0.Equal(Input): native input is neither *)
(* of its tokens, which reads as token1.                                     *)
Equal(token, currency) == ~currency.native /\ token = currency.token

reducePriceToken0(nextInput, price, pools) ==                       \* mutant
  FoldLeft(LAMBDA p, pool : Times(p, Token0Price(pool)), price, pools)
reducePrice(nextInput, price, pools) ==
  FoldLeft(LAMBDA at, pool : [token |-> OtherToken(pool, at.token),
                              price |-> Times(at.price, PriceFrom(pool, at.token))],
           [token |-> nextInput, price |-> price], pools).price

MidPrice(route) ==
  LET first == route.pools[1]
  IN  IF Equal(first.token0, route.input)
      THEN reducePrice(first.token1, Token0Price(first), Tail(route.pools))
      ELSE reducePrice(first.token0, Token1Price(first), Tail(route.pools))
-----------------------------------------------------------------------------
(* The amounts of a wrapped route, quoted forwards or backwards. *)
QuotedOutput(route, amount) ==
  FoldLeft(LAMBDA a, i : GetOutputAmount(route.pools[i], route.tokenPath[i-1], a),
           amount, [i \in 1 .. Len(route.pools) |-> i])
QuotedInput(route, amount) ==
  FoldRight(LAMBDA i, a : GetInputAmount(route.pools[i], route.tokenPath[i], a),
            [i \in 1 .. Len(route.pools) |-> i], amount)

QuotedSwap(wrapped, tradeType) ==
  IF tradeType = "ExactInput"
  THEN [route |-> wrapped.route, in |-> wrapped.amount, out |-> QuotedOutput(wrapped.route, wrapped.amount)]
  ELSE [route |-> wrapped.route, in |-> QuotedInput(wrapped.route, wrapped.amount), out |-> wrapped.amount]

AddressesOf(swaps) == {GetAddress(swaps[i].route.pools[j]) : <<i, j>> \in
                         {x \in (1 .. Len(swaps)) \X (1 .. 3) : x[2] <= Len(swaps[x[1]].route.pools)}}
NumPools(swaps) == FoldLeft(LAMBDA k, swap : k + Len(swap.route.pools), 0, swaps)

(* newTrade, with the error that refuses the routes or "nil"; of two         *)
(* mismatches the first route's counts, and of one route's the input's.      *)
InputMismatch(swaps, i) == Wrapped(swaps[i].route.input) # Wrapped(swaps[1].route.input)
OutputMismatch(swaps, i) == Wrapped(swaps[i].route.output) # Wrapped(swaps[1].route.output)
FirstMismatched(swaps) ==
  {i \in 1 .. Len(swaps) : /\ InputMismatch(swaps, i) \/ OutputMismatch(swaps, i)
                           /\ \A k \in 1 .. i-1 : ~InputMismatch(swaps, k) /\ ~OutputMismatch(swaps, k)}

TradeError(swaps) ==
  CASE \E i \in FirstMismatched(swaps) : InputMismatch(swaps, i) -> "ErrInputCurrencyMismatch"
    [] \E i \in FirstMismatched(swaps) : ~InputMismatch(swaps, i) -> "ErrOutputCurrencyMismatch"
    [] NumPools(swaps) # Cardinality(AddressesOf(swaps)) -> "ErrDuplicatePools"
    [] OTHER -> "nil"

(* ExactIn, ExactOut and FromRoute make the trade of one such route; the     *)
(* unchecked constructors hand their swaps to newTrade as they are.          *)
FromRoutes(wrappedRoutes, tradeType) ==
  LET swaps == [i \in 1 .. Len(wrappedRoutes) |-> QuotedSwap(wrappedRoutes[i], tradeType)]
  IN  [swaps |-> swaps, tradeType |-> tradeType, error |-> TradeError(swaps)]

Sum(numbers) == FoldLeft(LAMBDA a, b : a + b, 0, numbers)
InputAmount(trade) == Sum([i \in 1 .. Len(trade.swaps) |-> trade.swaps[i].in])
OutputAmount(trade) == Sum([i \in 1 .. Len(trade.swaps) |-> trade.swaps[i].out])
InputCurrency(trade) == trade.swaps[1].route.input
OutputCurrency(trade) == trade.swaps[1].route.output

(* A tolerance <<n, d>>: at most n/d of the amount is lost or added.         *)
MinimumAmountOutLess(trade, s, amount) ==                           \* mutant
  (amount * (s[2] - s[1])) \div s[2]
MinimumAmountOut(trade, s, amount) ==
  IF trade.tradeType = "ExactOutput" THEN amount ELSE (amount * s[2]) \div (s[2] + s[1])

MaximumAmountIn(trade, s, amount) ==
  IF trade.tradeType = "ExactInput" THEN amount ELSE (amount * (s[2] + s[1])) \div s[2]

(* Output over input, as quoted and after slippage.  ExecutionPrice reads    *)
(* amounts that InputAmount and OutputAmount have kept: its callers have     *)
(* asked for both.                                                           *)
ExecutionPrice(trade) == <<OutputAmount(trade), InputAmount(trade)>>
WorstExecutionPrice(trade, s) ==
  <<MinimumAmountOut(trade, s, OutputAmount(trade)), MaximumAmountIn(trade, s, InputAmount(trade))>>

(* What the trade would give at the mid prices of its routes, a fraction.    *)
Plus(p, q) == <<p[1] * q[2] + q[1] * p[2], p[2] * q[2]>>
SpotOutput(trade) ==
  FoldLeft(LAMBDA total, swap : Plus(total, Times(<<swap.in, 1>>, MidPrice(swap.route))),
           <<0, 1>>, trade.swaps)
PriceImpact(trade) ==
  LET spot == SpotOutput(trade)
  IN  <<spot[1] - OutputAmount(trade) * spot[2], spot[1]>>
=============================================================================

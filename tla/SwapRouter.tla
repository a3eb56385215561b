----------------------------- MODULE SwapRouter -----------------------------
(***************************************************************************)
(* SwapCallParameters (periphery/swaprouter.go), which makes one           *)
(* transaction of a list of trades, and QuoteCallParameters (quoter.go).   *)
(***************************************************************************)
EXTENDS Payments

(* EncodeRouteToPath: tokens and fees in turn, reversed for an exact output. *)
Path(route) ==
  [i \in 1 .. 2 * Len(route.pools) + 1 |->
     IF i % 2 = 1 THEN route.tokenPath[i \div 2] ELSE route.pools[i \div 2].fee]
PathForwards(route, exactOutput) == Path(route)                     \* mutant
EncodeRouteToPath(route, exactOutput) == IF exactOutput THEN Reverse(Path(route)) ELSE Path(route)

SingleHop(route) == Len(route.pools) = 1
-----------------------------------------------------------------------------
MustRefundNever(trade) == FALSE                                     \* mutant
MustRefund(trade) == InputCurrency(trade).native /\ trade.tradeType = "ExactOutput"
OutputIsNative(trade) == OutputCurrency(trade).native
RouterMustCustody(trade, options) == OutputIsNative(trade) \/ options.fee # NoFee

TotalAmountOut(trades, s) ==
  Sum([i \in 1 .. Len(trades) |-> MinimumAmountOut(trades[i], s, OutputAmount(trades[i]))])
TotalValue(trades, s) ==
  IF InputCurrency(trades[1]).native
  THEN Sum([i \in 1 .. Len(trades) |-> MaximumAmountIn(trades[i], s, InputAmount(trades[i]))])
  ELSE 0

(* exactInputSingle and exactOutputSingle, exactInput and exactOutput.       *)
EncodeSwap(trade, swap, options, recipient) ==
  LET exactOutput == trade.tradeType = "ExactOutput"
      single == SingleHop(swap.route)
  IN  [fn |-> IF exactOutput THEN "exactOutput" ELSE "exactInput",
       single |-> single,
       path |-> IF single THEN Path(swap.route) ELSE EncodeRouteToPath(swap.route, exactOutput),
       recipient |-> recipient,
       amountIn |-> MaximumAmountIn(trade, options.slippage, swap.in),
       amountOut |-> MinimumAmountOut(trade, options.slippage, swap.out),
       limit |-> single /\ options.limit]

EncodeSwaps(trades, options, recipient) ==
  FlattenSeq([i \in 1 .. Len(trades) |->
    [j \in 1 .. Len(trades[i].swaps) |-> EncodeSwap(trades[i], trades[i].swaps[j], options, recipient)]])

(* The tokens, not the currencies, of the trades are compared.  A limit is   *)
(* refused only for a swap of several hops.                                  *)
InDiff(trades, i) == InputCurrency(trades[i]).token # InputCurrency(trades[1]).token
OutDiff(trades, i) == OutputCurrency(trades[i]).token # OutputCurrency(trades[1]).token
FirstDifferent(trades) == {i \in 1 .. Len(trades) : /\ InDiff(trades, i) \/ OutDiff(trades, i)
                                                    /\ \A k \in 1 .. i-1 : ~InDiff(trades, k) /\ ~OutDiff(trades, k)}

SwapsError(trades, options) ==
  CASE \E i \in FirstDifferent(trades) : InDiff(trades, i) -> "ErrTokenInDiff"
    [] \E i \in FirstDifferent(trades) : ~InDiff(trades, i) -> "ErrTokenOutDiff"
    [] options.slippage[1] < 0 -> "ErrInvalidSlippageTolerance"
    [] options.permit # NoOption /\ InputCurrency(trades[1]).native -> "ErrNonTokenPermit"
    [] IsInvalid(options.permit) -> "ErrInvalidOptions"
    [] options.limit /\ \E i \in 1 .. Len(trades) : \E j \in 1 .. Len(trades[i].swaps) :
         ~SingleHop(trades[i].swaps[j].route) -> "ErrMultiHopPriceLimit"
    [] OTHER -> "nil"

Unwrap(trades, options) ==
  LET minimum == TotalAmountOut(trades, options.slippage)
  IN  IF OutputIsNative(trades[1]) THEN EncodeUnwrapWETH9(minimum, "recipient", options.fee)
      ELSE EncodeSweepToken(OutputCurrency(trades[1]).token, minimum, "recipient", options.fee)

RecipientOfSwaps(trades, options) ==
  IF RouterMustCustody(trades[1], options) THEN AddressZero ELSE "recipient"

SwapCallParameters(trades, options) ==
  IF SwapsError(trades, options) # "nil" THEN Refused(SwapsError(trades, options))
  ELSE MethodParameters(
         If(options.permit # NoOption, EncodePermit(InputCurrency(trades[1]).token, options.permit))
           \o EncodeSwaps(trades, options, RecipientOfSwaps(trades, options))
           \o If(RouterMustCustody(trades[1], options), Unwrap(trades, options))
           \o If(MustRefund(trades[1]), EncodeRefundETH),
         TotalValue(trades, options.slippage))
-----------------------------------------------------------------------------
(* QuoteOptions are nil, or hold a limit that may be nil.  The limit of a    *)
(* route of several pools is compared as a pointer, so that any options are  *)
(* refused; a nil limit of a single pool is a nil pointer to the encoder.    *)
QuoteCallParameters(route, amount, tradeType, limit) ==
  LET exactOutput == tradeType = "ExactOutput"
  IN  CASE ~SingleHop(route) /\ limit # NoOption -> Refused("ErrMultihopPriceLimit")
        [] SingleHop(route) /\ limit = "options without a limit" -> Refused("panic")
        [] OTHER ->
             MethodParameters(<<[fn |-> IF exactOutput THEN "quoteExactOutput" ELSE "quoteExactInput",
                                 single |-> SingleHop(route),
                                 path |-> IF SingleHop(route) THEN Path(route)
                                          ELSE EncodeRouteToPath(route, exactOutput),
                                 amount |-> amount]>>, 0)
=============================================================================

---------------------------- MODULE MCPeriphery -----------------------------
(* Three tokens, the middle one WETH9, so that ether is the first token of a *)
(* pool or the second; five pools, so that there are routes of one to    *)
(* three pools in both directions, and trades of two routes; rates that move   *)
(* in the caller's favour, within the tolerance, just out of it and far out. *)
EXTENDS Periphery

MCToken == {1, 2, 3}
MCMoves == {<<10, 9>>, <<1, 1>>, <<9, 10>>, <<39, 50>>}
MCMintAmounts == [l \in 0 .. 10 |-> <<5 * l, 7 * l>>]
MCMintMinimum == [l \in 0 .. 10 |-> <<4 * l, 6 * l>>]
MCBurnMinimum == [l \in 0 .. 10 |-> <<3 * l, 5 * l>>]

Pool(a, b, fee, n, d) == [token0 |-> a, token1 |-> b, fee |-> fee, price |-> <<n, d>>]
P12 == Pool(1, 2, 30, 3, 2)
P12b == Pool(1, 2, 5, 4, 3)
P13 == Pool(1, 3, 30, 2, 5)
P23 == Pool(2, 3, 30, 1, 3)
P23b == Pool(2, 3, 5, 2, 5)
MCPools == {P12, P12b, P13, P23, P23b}

T(token) == [token |-> token, native |-> FALSE]
Eth == [token |-> 2, native |-> TRUE]

Part(pools, input, output, amount) == [route |-> NewRoute(pools, input, output), amount |-> amount]
Parts ==
  {<<Part(<<P12>>, T(1), out, 100)>> : out \in {T(2), Eth}}
    \cup {<<Part(<<P12, P23>>, T(1), T(3), 100)>>, <<Part(<<P13, P23>>, T(1), Eth, 100)>>}
    \cup {<<Part(<<P23>>, in, T(3), 100)>> : in \in {T(2), Eth}}
    \cup {<<Part(<<P12>>, in, T(1), 101), Part(<<P23b, P13>>, in, T(1), 99)>> : in \in {T(2), Eth}}
    \cup {<<Part(<<P12, P23, P13>>, T(1), T(1), 100)>>}
    \cup {<<Part(<<P13>>, T(1), T(3), 103), Part(<<P12, P23>>, T(1), T(3), 97)>>}

TradesOf(tradeType) == {t \in {FromRoutes(p, tradeType) : p \in Parts} : t.error = "nil"}
SecondTrades(tradeType) ==
  {FromRoutes(<<Part(<<P23b>>, in, T(3), 50)>>, tradeType) : in \in {T(2), Eth}}
    \cup {FromRoutes(<<Part(<<P12b>>, T(1), T(2), 50)>>, tradeType)}

SameCurrencies(t, u) == InputCurrency(t) = InputCurrency(u) /\ OutputCurrency(t) = OutputCurrency(u)
TradeLists ==
  LET one == TradesOf("ExactInput") \cup TradesOf("ExactOutput")
      second == SecondTrades("ExactInput") \cup SecondTrades("ExactOutput")
  IN  {<<t>> : t \in one}
        \cup {ts \in {<<t, u>> : t \in one, u \in second} :
                SameCurrencies(ts[1], ts[2]) \/ Len(ts[1].swaps[1].route.pools) = 2}

Options(slippages, fees, permits, limits) ==
  [slippage : slippages, fee : fees, permit : permits, limit : limits]
MCOptions ==
  Options({<<0, 1>>, <<1, 4>>}, {NoFee, <<1, 100>>}, {NoOption}, BOOLEAN)
    \cup Options({<<1, 4>>}, {NoFee}, {"Standard", "Allowed", "Empty"}, {FALSE})
    \cup Options({<<-1, 4>>}, {NoFee}, {NoOption}, {FALSE})

SwapRequests == [of : {"swap"}, trades : TradeLists, options : MCOptions]
QuoteRequests ==
  [of : {"quote"}, route : {part[1].route : part \in Parts}, amount : {60},
   tradeType : {"ExactInput", "ExactOutput"}, limit : {NoOption, "options without a limit", "limit"}]

Positions12 == [pool : {P12, P13, P23}, liquidity : {0, 4}]
AddOptions ==
  [mint : {TRUE}, increase : {FALSE}, createPool : BOOLEAN, useNative : BOOLEAN,
   permits : {<<NoOption, NoOption>>, <<"Standard", NoOption>>, <<"Allowed", "Standard">>, <<"Empty", NoOption>>}]
AddRequests ==
  [of : {"mint"}, position : Positions12, opts : AddOptions]
    \cup [of : {"increase"}, position : Positions12,
          opts : {[o EXCEPT !.mint = FALSE, !.increase = TRUE] : o \in AddOptions}]

CurrenciesOf(pool) ==
  {<<T(pool.token0), T(pool.token1)>>}
    \cup {<<IF a = 2 THEN Eth ELSE T(a), IF b = 2 THEN Eth ELSE T(b)>> : <<a, b>> \in {<<pool.token0, pool.token1>>}}
CollectOptions(pool) == [currencies : CurrenciesOf(pool), owed : {<<0, 0>>, <<2, 9>>}]
RemoveRequests(position) ==
  [of : {"collect", "remove"}, position : {position},
   opts : [collect : CollectOptions(position.pool), percentage : {<<1, 10>>, <<1, 2>>, <<1, 1>>},
           burnToken : BOOLEAN, permit : BOOLEAN]]

Key(token, pool, endTime) == [rewardToken |-> token, pool |-> pool, endTime |-> endTime]
K1 == Key(1, P13, 5)
K2 == Key(1, P13, 6)
K3 == Key(3, P13, Ended)
StakeRequests ==
  [of : {"deposit", "collectRewards", "withdraw"}, keys : {<<K1>>, <<K1, K2>>, <<K1, K3>>, <<K2, K1, K3>>},
   amount : {<<>>, <<4>>}, position : {[pool |-> P13, liquidity |-> 4]}]

MCRequests ==
  SwapRequests \cup QuoteRequests \cup AddRequests
    \cup RemoveRequests([pool |-> P12, liquidity |-> 5]) \cup RemoveRequests([pool |-> P23, liquidity |-> 5])
    \cup RemoveRequests([pool |-> P13, liquidity |-> 5])
    \cup StakeRequests
    \cup {[of |-> "create", pool |-> P12], [of |-> "transfer", position |-> [pool |-> P12, liquidity |-> 4]]}
=============================================================================

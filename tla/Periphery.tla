----------------------------- MODULE Periphery ------------------------------
(***************************************************************************)
(* A caller of the periphery asks for call parameters, sends them as a     *)
(* transaction with its value, and the contract carries the calls out one  *)
(* by one on a market that has moved in the meantime.  The contracts are   *)
(* external, modelled from what the calls rely on: a payment takes the     *)
(* ether of the contract if there is enough of it and else tokens of the   *)
(* sender, the zero address as recipient means the contract itself, and a  *)
(* call that fails undoes the transaction.                                 *)
(***************************************************************************)
EXTENDS SwapRouter, PositionManager, TLC

CONSTANTS Pools,           \* the pools of the chain
          Moves,           \* how far a rate moves: <<n, d>> times what was quoted
          Funds,           \* what the sender has of every asset
          Requests         \* what callers ask for

VARIABLES request,
          pc,              \* "asked", "refused", "built", "running", "done", "reverted"
          calls, value,    \* the transaction
          at,              \* the next call
          chain,           \* the state of the chain, see Chain0
          before,          \* and what it was before the transaction
          calm             \* the market stayed within the tolerance so far

vars == <<request, pc, calls, value, at, chain, before, calm>>

Ether == 0                 \* ether among the assets, the others are tokens
Asset == Token \cup {Ether}
Holder == {"sender", "contract", "recipient", "feeTaker"}
AssetOf(currency) == IF currency.native THEN Ether ELSE currency.token

Swaps == {"swap", "quote"}
Stakes == {"collectRewards", "withdraw"}
Positions == {"increase", "collect", "remove", "transfer", "deposit"}

(* Tokens with a permit; the others have been approved before.               *)
WithPermit(r) ==
  CASE r.of = "swap" -> {t \in {InputCurrency(r.trades[1]).token} : r.options.permit # NoOption}
    [] r.of \in {"mint", "increase"} ->
         {t \in {r.position.pool.token0} : r.opts.permits[1] # NoOption}
           \cup {t \in {r.position.pool.token1} : r.opts.permits[2] # NoOption}
    [] OTHER -> {}

(* The position's fees may have grown since the caller asked what is owed.   *)
Chain0(r, grown) ==
  [ledger |-> [h \in Holder |-> [a \in Asset |-> IF h = "sender" THEN Funds ELSE 0]],
   allowed |-> Token \ WithPermit(r),
   owner |-> CASE r.of \in Positions -> "sender" [] r.of \in Stakes -> "staker" [] OTHER -> "none",
   liquidity |-> IF r.of \in Positions THEN r.position.liquidity ELSE 0,
   owed |-> IF r.of \in {"collect", "remove"}
            THEN <<r.opts.collect.owed[1] + grown, r.opts.collect.owed[2] + grown>> ELSE <<0, 0>>,
   stakes |-> IF r.of \in Stakes THEN {encodeIncentiveKey(r.keys[i]) : i \in 1 .. Len(r.keys)} ELSE {},
   rewards |-> [t \in Token |-> 0],
   quoted |-> 0]

Build(r) ==
  CASE r.of = "swap" -> SwapCallParameters(r.trades, r.options)
    [] r.of = "quote" -> QuoteCallParameters(r.route, r.amount, r.tradeType, r.limit)
    [] r.of = "create" -> CreateCallParameters(r.pool)
    [] r.of \in {"mint", "increase"} -> AddCallParameters(r.position, r.opts)
    [] r.of = "collect" -> CollectCallParameters(r.opts.collect)
    [] r.of = "remove" -> RemoveCallParameters(r.position, r.opts)
    [] r.of = "transfer" -> SafeTransferFromParameters("recipient")
    [] r.of = "deposit" -> DepositParameters(r.keys)
    [] r.of = "collectRewards" -> CollectRewards(r.keys, r.amount)
    [] r.of = "withdraw" -> WithdrawToken(r.keys, r.amount)

Init ==
  /\ request \in Requests
  /\ pc = "asked" /\ calls = <<>> /\ value = 0 /\ at = 1
  /\ \E grown \in IF request.of \in {"collect", "remove"} THEN {0, 3} ELSE {0} :
       chain = Chain0(request, grown)
  /\ before = chain
  /\ calm = TRUE

Ask ==
  /\ pc = "asked"
  /\ calls' = Build(request).calls
  /\ value' = Build(request).value
  /\ pc' = IF Build(request).error = "nil" THEN "built" ELSE "refused"
  /\ UNCHANGED <<request, at, chain, before, calm>>

Move(ledger, from, to, asset, amount) ==
  [ledger EXCEPT ![from][asset] = @ - amount, ![to][asset] = @ + amount]
Receive(ledger, to, asset, amount) == [ledger EXCEPT ![to][asset] = @ + amount]
Spend(ledger, from, asset, amount) == [ledger EXCEPT ![from][asset] = @ - amount]

Send ==
  /\ pc = "built"
  /\ IF value <= chain.ledger["sender"][Ether]
       THEN /\ pc' = "running"
            /\ chain' = [chain EXCEPT !.ledger = Move(@, "sender", "contract", Ether, value)]
       ELSE pc' = "reverted" /\ UNCHANGED chain
  /\ UNCHANGED <<request, calls, value, at, before, calm>>
-----------------------------------------------------------------------------
Call == calls[at]
Running(fn) == pc = "running" /\ at <= Len(calls) /\ Call.fn = fn

(* A call succeeds with a new state of the chain, or fails.                  *)
Succeed(new) == /\ chain' = new /\ at' = at + 1
                /\ UNCHANGED <<request, pc, calls, value, before>>
Revert == /\ chain' = before /\ pc' = "reverted"
          /\ UNCHANGED <<request, calls, value, at, before>>
Require(condition, new) == IF condition THEN Succeed(new) ELSE Revert

To(recipient) == IF recipient = AddressZero THEN "contract" ELSE recipient

(* The contract's own ether pays for WETH9, if it is enough.                 *)
PaysEther(c, token, amount) == token = WETH9 /\ c.ledger["contract"][Ether] >= amount
CanPay(c, token, amount) ==
  PaysEther(c, token, amount) \/ (token \in c.allowed /\ c.ledger["sender"][token] >= amount)
Paid(c, token, amount) ==
  IF PaysEther(c, token, amount) THEN [c EXCEPT !.ledger = Spend(@, "contract", Ether, amount)]
  ELSE [c EXCEPT !.ledger = Spend(@, "sender", token, amount)]

(* The contract walks the path, whose pools must be there.                   *)
Forward(call) == IF call.fn \in {"exactOutput", "quoteExactOutput"} /\ ~call.single
                 THEN Reverse(call.path) ELSE call.path
Hop(path, i) == PoolAt(Pools, path[2*i - 1], path[2*i + 1], path[2*i])
IsWay(path) == \A i \in 1 .. Len(path) \div 2 : path[2*i] \notin Token /\ Hop(path, i) # {}
WayOf(path) ==
  [pools |-> [i \in 1 .. Len(path) \div 2 |-> CHOOSE pool \in Hop(path, i) : TRUE],
   tokenPath |-> [i \in 0 .. Len(path) \div 2 |-> path[2*i + 1]]]

Scaled(amount, move) == (amount * move[1]) \div move[2]
RaisedBy(amount, move) == Ceiling(amount * move[2], move[1])

(* A rate within the tolerance: no worse than 1/(1 + s) of the quoted one.   *)
Within(move, s) == move[1] * (s[1] + s[2]) >= move[2] * s[2]

(* A swap that stops at its limit uses part of its amount.                   *)
Fills == IF Call.limit THEN {1, 2} ELSE {1}

ExactInput ==
  /\ Running("exactInput")
  /\ \E move \in Moves, fill \in Fills :
       LET way == WayOf(Call.path)
           amountIn == Call.amountIn \div fill
           out == Scaled(QuotedOutput(way, amountIn), move)
       IN  /\ calm' = (calm /\ fill = 1 /\ Within(move, request.options.slippage))
           /\ IF IsWay(Call.path)
              THEN Require(CanPay(chain, way.tokenPath[0], amountIn) /\ out >= Call.amountOut,
                           [Paid(chain, way.tokenPath[0], amountIn) EXCEPT
                              !.ledger = Receive(@, To(Call.recipient), way.tokenPath[Len(way.pools)], out)])
              ELSE Revert

(* Without a limit the output must be exact.                                 *)
ExactOutput ==
  /\ Running("exactOutput")
  /\ \E move \in Moves, fill \in Fills :
       LET way == WayOf(Forward(Call))
           out == Call.amountOut \div fill
           in == RaisedBy(QuotedInput(way, out), move)
       IN  /\ calm' = (calm /\ fill = 1 /\ Within(move, request.options.slippage))
           /\ IF IsWay(Forward(Call))
              THEN Require(CanPay(chain, way.tokenPath[0], in) /\ in <= Call.amountIn,
                           [Paid(chain, way.tokenPath[0], in) EXCEPT
                              !.ledger = Receive(@, To(Call.recipient), way.tokenPath[Len(way.pools)], out)])
              ELSE Revert

Quote(fn, amount) ==
  /\ Running(fn)
  /\ Require(IsWay(Forward(Call)), [chain EXCEPT !.quoted = amount])
  /\ UNCHANGED calm

QuoteSwap ==
  \/ Quote("quoteExactInput", QuotedOutput(WayOf(Forward(Call)), Call.amount))
  \/ Quote("quoteExactOutput", QuotedInput(WayOf(Forward(Call)), Call.amount))

SelfPermit ==
  /\ Running("selfPermit") \/ Running("selfPermitAllowed")
  /\ Succeed([chain EXCEPT !.allowed = @ \cup {Call.token}])
  /\ UNCHANGED calm

(* Unwrapping and sweeping pay out the whole balance, a part of it as fee.   *)
PayOut(asset, balance) ==
  LET fee == (balance * Call.bips) \div 10000
  IN  [chain EXCEPT !.ledger =
         Receive(Receive([@ EXCEPT !["contract"][Call.token] = 0], "feeTaker", asset, fee),
                 Call.recipient, asset, balance - fee)]

UnwrapOrSweep(fn, asset) ==
  /\ Running(fn)
  /\ LET balance == chain.ledger["contract"][Call.token]
     IN  Require(balance >= Call.amountMinimum, PayOut(asset, balance))
  /\ UNCHANGED calm

RefundETH ==
  /\ Running("refundETH")
  /\ Succeed([chain EXCEPT !.ledger = Move(@, "contract", "sender", Ether, @["contract"][Ether])])
  /\ UNCHANGED calm
-----------------------------------------------------------------------------
(* The amounts the market takes or gives: what was asked for, the least that *)
(* the caller allows or one unit less.                                       *)
Between(least, most) == {x \in {least - 1, least, most} : 0 <= x /\ x <= most}

AddLiquidity(fn) ==
  /\ Running(fn)
  /\ \E x \in Between(Call.minimum[1], Call.desired[1]), y \in Between(Call.minimum[2], Call.desired[2]) :
       LET token0 == Call.pool.token0
           token1 == Call.pool.token1
           enough == x >= Call.minimum[1] /\ y >= Call.minimum[2]
       IN  /\ calm' = (calm /\ enough)
           /\ Require(/\ enough
                      /\ CanPay(chain, token0, x) /\ CanPay(Paid(chain, token0, x), token1, y)
                      /\ fn = "mint" \/ chain.owner # "none",
                      [Paid(Paid(chain, token0, x), token1, y) EXCEPT
                         !.liquidity = @ + Call.liquidity,
                         !.owner = IF fn = "mint" THEN Call.recipient ELSE @])

CreatePool ==
  /\ Running("createAndInitializePoolIfNecessary")
  /\ Succeed(chain)
  /\ UNCHANGED calm

DecreaseLiquidity ==
  /\ Running("decreaseLiquidity")
  /\ \E x \in Between(Call.minimum[1], Call.minimum[1] + 2), y \in Between(Call.minimum[2], Call.minimum[2] + 2) :
       LET enough == x >= Call.minimum[1] /\ y >= Call.minimum[2]
       IN  /\ calm' = (calm /\ enough)
           /\ Require(enough /\ Call.liquidity <= chain.liquidity,
                      [chain EXCEPT !.liquidity = @ - Call.liquidity, !.owed = <<@[1] + x, @[2] + y>>])

Collect ==
  /\ Running("collect")
  /\ LET pool == request.position.pool
     IN  Succeed([chain EXCEPT
           !.ledger = Receive(Receive(@, To(Call.recipient), pool.token0, chain.owed[1]),
                              To(Call.recipient), pool.token1, chain.owed[2]),
           !.owed = <<0, 0>>])
  /\ UNCHANGED calm

Burn ==
  /\ Running("burn")
  /\ Require(chain.liquidity = 0 /\ chain.owed = <<0, 0>>, [chain EXCEPT !.owner = "none"])
  /\ UNCHANGED calm

(* The staker stakes a deposited position in the programs of the data.       *)
SafeTransferFrom ==
  /\ Running("safeTransferFrom")
  /\ Succeed([chain EXCEPT !.owner = Call.recipient,
                           !.stakes = IF Call.recipient = "staker"
                                      THEN {Call.data[i] : i \in 1 .. Len(Call.data)} ELSE @])
  /\ UNCHANGED calm

(* Unstaking books ten of the reward; a claim pays out the part asked for or *)
(* all; a program that has ended takes no stake.                             *)
Reward == 10
Ended == -1
UnstakeToken ==
  /\ Running("unstakeToken")
  /\ Require(Call.key \in chain.stakes,
             [chain EXCEPT !.stakes = @ \ {Call.key}, !.rewards[Call.key.rewardToken] = @ + Reward])
  /\ UNCHANGED calm

ClaimReward ==
  /\ Running("claimReward")
  /\ LET all == chain.rewards[Call.token]
         paid == IF Call.amount = 0 \/ Call.amount > all THEN all ELSE Call.amount
     IN  Succeed([chain EXCEPT !.rewards[Call.token] = @ - paid,
                               !.ledger = Receive(@, "recipient", Call.token, paid)])
  /\ UNCHANGED calm

StakeToken ==
  /\ Running("stakeToken")
  /\ Require(Call.key \notin chain.stakes /\ Call.key.endTime # Ended,
             [chain EXCEPT !.stakes = @ \cup {Call.key}])
  /\ UNCHANGED calm

WithdrawStaked ==
  /\ Running("withdrawToken")
  /\ Require(chain.stakes = {}, [chain EXCEPT !.owner = Call.recipient])
  /\ UNCHANGED calm

Finish ==
  /\ pc = "running" /\ at > Len(calls)
  /\ pc' = "done"
  /\ UNCHANGED <<request, calls, value, at, chain, before, calm>>

Router ==
  \/ ExactInput \/ ExactOutput \/ QuoteSwap
  \/ SelfPermit \/ UnwrapOrSweep("unwrapWETH9", Ether) \/ RefundETH
  \/ pc = "running" /\ at <= Len(calls) /\ Call.fn = "sweepToken" /\ UnwrapOrSweep("sweepToken", Call.token)

Manager ==
  \/ AddLiquidity("mint") \/ AddLiquidity("increaseLiquidity") \/ CreatePool
  \/ DecreaseLiquidity \/ Collect \/ Burn \/ SafeTransferFrom

Staker == UnstakeToken \/ ClaimReward \/ StakeToken \/ WithdrawStaked

Next == Ask \/ Send \/ Finish \/ Router \/ Manager \/ Staker

Spec == Init /\ [][Next]_vars
-----------------------------------------------------------------------------
Gained(holder, asset) == chain.ledger[holder][asset] - before.ledger[holder][asset]
Spent(asset) == -Gained("sender", asset)
SpendsOnly(assets) == \A a \in Asset \ assets : Spent(a) = 0

(* After a transaction the contract, whose ether and tokens anybody can      *)
(* take, holds nothing of the caller's: what was sent too much comes back    *)
(* and what was collected goes on.  The refund is decided by the type of the *)
(* first trade alone, so the trades are of one type and without a limit.     *)
OneType(r) == \A i \in 1 .. Len(r.trades) : r.trades[i].tradeType = r.trades[1].tradeType
NothingStays ==
  pc = "done" /\ (request.of = "swap" => OneType(request) /\ ~request.options.limit) =>
    \A a \in Asset : chain.ledger["contract"][a] = 0

(* What the caller asked for is what the transaction did: the recipient gets *)
(* at least the quoted amount less slippage and fee, in the currency of the  *)
(* output, and the sender pays at most the quoted amount and slippage, in    *)
(* the currency of the input and nothing else.                               *)
LessFee(amount, fee) == IF fee = NoFee THEN amount ELSE amount - (amount * fee[1]) \div fee[2] - 1
SwapTerms(trades, o) ==
  LET in == AssetOf(InputCurrency(trades[1]))
      out == AssetOf(OutputCurrency(trades[1]))
      Least(t) == Sum([j \in 1 .. Len(t.swaps) |->
                        IF t.tradeType = "ExactOutput" THEN t.swaps[j].out
                        ELSE (t.swaps[j].out * o.slippage[2]) \div (o.slippage[1] + o.slippage[2])])
      Most(t) == IF t.tradeType = "ExactInput" THEN InputAmount(t)
                 ELSE InputAmount(t) + (InputAmount(t) * o.slippage[1]) \div o.slippage[2]
      Over(Of(_)) == Sum([i \in 1 .. Len(trades) |-> Of(trades[i])])
  IN  /\ SpendsOnly({in})
      /\ Spent(in) <= Over(Most)
      /\ ~o.limit => Gained("recipient", out) >= LessFee(Over(Least), o.fee)

PositionTerms(r) ==
  LET native == r.opts.useNative
      asset(token) == IF native /\ token = WETH9 THEN Ether ELSE token
      assets == <<asset(r.position.pool.token0), asset(r.position.pool.token1)>>
  IN  /\ SpendsOnly({assets[1], assets[2]})
      /\ \A i \in 1 .. 2 : Spent(assets[i]) <= MintAmounts[r.position.liquidity][i]
      /\ chain.liquidity = before.liquidity + r.position.liquidity
      /\ chain.owner = IF r.of = "mint" THEN "recipient" ELSE before.owner

CollectTerms(opts) ==
  \A i \in 1 .. 2 : Gained("recipient", AssetOf(opts.currencies[i])) >= opts.owed[i]

TermsAreKept ==
  pc = "done" =>
    CASE request.of = "swap" -> SwapTerms(request.trades, request.options)
      [] request.of = "quote" ->
           chain.quoted = IF request.tradeType = "ExactInput" THEN QuotedOutput(request.route, request.amount)
                          ELSE QuotedInput(request.route, request.amount)
      [] request.of \in {"mint", "increase"} -> PositionTerms(request)
      [] request.of = "collect" -> CollectTerms(request.opts.collect)
      [] request.of = "remove" ->
           /\ CollectTerms(request.opts.collect)
           /\ chain.owner = IF request.opts.burnToken THEN "none" ELSE "sender"
      [] OTHER -> TRUE

(* In a market that stays within the tolerance a transaction goes through:   *)
(* permits come before what they permit, the value covers the payments, the  *)
(* paths exist, minimums are met, a burnt position is empty.  Only rewards   *)
(* of a program that has ended cannot be collected, because of the restake.  *)
RestakesEnded(r) == r.of = "collectRewards" /\ \E i \in 1 .. Len(r.keys) : r.keys[i].endTime = Ended
CalmGoesThrough == pc = "reverted" => ~calm \/ RestakesEnded(request)

(* Collecting rewards leaves the position in the programs it was in, a       *)
(* withdrawal and a deposit reach their holder, and unless the caller asked  *)
(* for less all rewards of all programs are paid.                            *)
RewardsOf(keys, token) == Sum([i \in 1 .. Len(keys) |-> IF keys[i].rewardToken = token THEN Reward ELSE 0])
StakesAreKept ==
  pc = "done" =>
    /\ request.of = "collectRewards" => chain.stakes = before.stakes /\ chain.owner = "staker"
    /\ request.of = "withdraw" => chain.stakes = {} /\ chain.owner = "recipient"
    /\ request.of = "deposit" => Cardinality(chain.stakes) = Len(request.keys) /\ chain.owner = "staker"
    /\ request.of \in Stakes /\ request.amount = <<>> =>
         \A t \in Token : Gained("recipient", t) = RewardsOf(request.keys, t)

(* Pools give less than their mid price, and so does every route: the price  *)
(* impact of a trade in tokens is never negative, whatever the directions    *)
(* and the number of its pools, and the price that its minimums and maximums *)
(* allow is no better than the quoted one.                                   *)
AtMost(p, q) == p[1] * q[2] <= q[1] * p[2]
ImpactIsALoss ==
  request.of = "swap" => \A i \in 1 .. Len(request.trades) :
    LET trade == request.trades[i]
        s == request.options.slippage
    IN  /\ InputCurrency(trade).native \/ PriceImpact(trade)[1] >= 0
        /\ s[1] >= 0 => AtMost(WorstExecutionPrice(trade, s), ExecutionPrice(trade))
=============================================================================

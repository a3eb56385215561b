-------------------------- MODULE PositionManager ---------------------------
(***************************************************************************)
(* The calls of the position manager and of the staker                     *)
(* (periphery/nonfungible_position_manager.go, staker.go): adding and      *)
(* removing liquidity, collecting fees, transferring positions, and the    *)
(* staking programs a position takes part in.                              *)
(* The amounts of a position of some liquidity are those of                *)
(* PositionAmounts, taken by their results for one slippage tolerance.     *)
(***************************************************************************)
EXTENDS Payments

CONSTANTS MintAmounts,     \* by liquidity, for token0 and token1
          MintAmountsWithSlippage,
          BurnAmountsWithSlippage

encodeCreate(pool) == [fn |-> "createAndInitializePoolIfNecessary", pool |-> pool]
CreateCallParameters(pool) == MethodParameters(<<encodeCreate(pool)>>, 0)

(* mint and increaseLiquidity take the same amounts.                         *)
EncodeAdd(fn, position) ==
  [fn |-> fn, pool |-> position.pool, liquidity |-> position.liquidity,
   desired |-> MintAmounts[position.liquidity],
   minimum |-> MintAmountsWithSlippage[position.liquidity],
   recipient |-> "recipient"]

Value(position, useNative) ==
  CASE ~useNative -> 0
    [] useNative /\ position.pool.token0 = WETH9 -> MintAmounts[position.liquidity][1]
    [] OTHER -> MintAmounts[position.liquidity][2]

AddError(position, opts) ==
  CASE position.liquidity = 0 -> "ErrZeroLiquidity"
    [] IsInvalid(opts.permits[1]) \/ IsInvalid(opts.permits[2]) -> "ErrInvalidOptions"
    [] opts.useNative /\ ~InvolvesToken(position.pool, WETH9) -> "ErrNoWETH"
    [] OTHER -> "nil"

AddCallParameters(position, opts) ==
  IF AddError(position, opts) # "nil" THEN Refused(AddError(position, opts))
  ELSE LET value == Value(position, opts.useNative)
       IN  MethodParameters(
             If(opts.mint /\ opts.createPool, encodeCreate(position.pool))
               \o If(opts.permits[1] # NoOption, EncodePermit(position.pool.token0, opts.permits[1]))
               \o If(opts.permits[2] # NoOption, EncodePermit(position.pool.token1, opts.permits[2]))
               \o If(opts.mint, EncodeAdd("mint", position))
               \o If(opts.increase, EncodeAdd("increaseLiquidity", position))
               \o If(value > 0, EncodeRefundETH),
             value)
-----------------------------------------------------------------------------
(* An ether side of what is owed makes the manager collect for itself, then  *)
(* unwrap the one token and sweep the other.  opts.owed are the expected     *)
(* amounts and opts.currencies what they are expected in.                    *)
InvolvesETH(opts) == opts.currencies[1].native \/ opts.currencies[2].native

encodeCollect(opts) ==
  LET eth == IF opts.currencies[1].native THEN 1 ELSE 2
      token == 3 - eth
      collect == [fn |-> "collect", recipient |-> IF InvolvesETH(opts) THEN AddressZero ELSE "recipient"]
  IN  IF InvolvesETH(opts)
      THEN <<collect, EncodeUnwrapWETH9(opts.owed[eth], "recipient", NoFee),
             EncodeSweepToken(opts.currencies[token].token, opts.owed[token], "recipient", NoFee)>>
      ELSE <<collect>>

CollectCallParameters(opts) == MethodParameters(encodeCollect(opts), 0)

PartOf(liquidity, percentage) == (liquidity * percentage[1]) \div percentage[2]

(* The permit's spender, r and s are strings where the contract's function   *)
(* takes an address and words: packing them is an error.                     *)
RemoveError(position, opts) ==
  CASE PartOf(position.liquidity, opts.percentage) = 0 -> "ErrZeroLiquidity"
    [] opts.permit -> "abi: cannot use string"
    [] opts.burnToken /\ opts.percentage[1] # opts.percentage[2] -> "ErrCannotBurn"
    [] OTHER -> "nil"

WithAmounts(opts, amounts) == [opts EXCEPT !.owed = <<@[1] + amounts[1], @[2] + amounts[2]>>]

RemoveCallParameters(position, opts) ==
  IF RemoveError(position, opts) # "nil" THEN Refused(RemoveError(position, opts))
  ELSE LET partial == PartOf(position.liquidity, opts.percentage)
           minimum == BurnAmountsWithSlippage[partial]
       IN  MethodParameters(
             <<[fn |-> "decreaseLiquidity", liquidity |-> partial, minimum |-> minimum]>>
               \o encodeCollect(WithAmounts(opts.collect, minimum))
               \o If(opts.burnToken, [fn |-> "burn"]),
             0)

SafeTransferFromParameters(to) == MethodParameters(<<[fn |-> "safeTransferFrom", recipient |-> to]>>, 0)
-----------------------------------------------------------------------------
(* A key names a staking program: what it rewards and in which pool.  An     *)
(* amount of rewards is asked for as <<amount>>; <<>> stands for 0, for all. *)
Requested(amount) == IF amount = <<>> THEN 0 ELSE amount[1]

encodeIncentiveKey(key) == [rewardToken |-> key.rewardToken, pool |-> GetAddress(key.pool), endTime |-> key.endTime]

EncodeClaimFirst(key, amount) ==                                    \* mutant
  <<[fn |-> "claimReward", token |-> key.rewardToken, amount |-> Requested(amount)],
    [fn |-> "unstakeToken", key |-> encodeIncentiveKey(key)]>>
EncodeClaim(key, amount) ==
  <<[fn |-> "unstakeToken", key |-> encodeIncentiveKey(key)],
    [fn |-> "claimReward", token |-> key.rewardToken,
     amount |-> Requested(amount)]>>

CollectRewards(keys, amount) ==
  MethodParameters(FlattenSeq([i \in 1 .. Len(keys) |->
    EncodeClaim(keys[i], amount) \o <<[fn |-> "stakeToken", key |-> encodeIncentiveKey(keys[i])]>>]), 0)

WithdrawToken(keys, amount) ==
  MethodParameters(FlattenSeq([i \in 1 .. Len(keys) |-> EncodeClaim(keys[i], amount)])
                     \o <<[fn |-> "withdrawToken", recipient |-> "recipient"]>>, 0)

(* The data of a transfer to the staker: the programs to be staked in.       *)
EncodeDeposit(keys) == [i \in 1 .. Len(keys) |-> encodeIncentiveKey(keys[i])]
DepositParameters(keys) ==
  MethodParameters(<<[fn |-> "safeTransferFrom", recipient |-> "staker", data |-> EncodeDeposit(keys)]>>, 0)
=============================================================================

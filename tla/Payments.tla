------------------------------ MODULE Payments ------------------------------
(***************************************************************************)
(* What the calldata of every contract shares: payments and permits        *)
(* (periphery/payments.go, selfpermit.go, multicall.go).  A call is a      *)
(* record of the function and those arguments that decide where money and  *)
(* positions go; a transaction is the sequence of its calls, which         *)
(* EncodeMulticall wraps when they are not exactly one.                    *)
(***************************************************************************)
EXTENDS Trades

AddressZero == "zero"
NoOption == "nil"          \* a permit or a limit that is not given
NoFee == <<>>              \* a fee that is not given, others are <<n, d>>

If(condition, call) == IF condition THEN <<call>> ELSE <<>>

Refused(error) == [error |-> error, calls |-> <<>>, value |-> 0]
MethodParameters(calls, value) == [error |-> "nil", calls |-> calls, value |-> value]

(* Standard arguments go before allowed ones; with neither it is an error.   *)
EncodePermit(token, permit) ==
  [fn |-> IF permit = "Standard" THEN "selfPermit" ELSE "selfPermitAllowed", token |-> token]
IsInvalid(permit) == permit = "Empty"

(* A fee in ten-thousandths; without one none is taken.                      *)
encodeFeeBips(fee) == IF fee = NoFee THEN 0 ELSE (fee[1] * 10000) \div fee[2]

EncodeUnwrapWETH9(amountMinimum, recipient, fee) ==
  [fn |-> "unwrapWETH9", token |-> WETH9, amountMinimum |-> amountMinimum,
   recipient |-> recipient, bips |-> encodeFeeBips(fee)]
EncodeSweepToken(token, amountMinimum, recipient, fee) ==
  [fn |-> "sweepToken", token |-> token, amountMinimum |-> amountMinimum,
   recipient |-> recipient, bips |-> encodeFeeBips(fee)]
EncodeRefundETH == [fn |-> "refundETH"]
=============================================================================

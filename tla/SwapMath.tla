------------------------------ MODULE SwapMath ------------------------------
(***************************************************************************)
(* One step of a swap along a range of constant liquidity: the arithmetic  *)
(* of utils/swap_math.go and utils/sqrtprice_math.go on 256-bit words and  *)
(* Q64.96 prices, at any scale.  Word stands for 2^256, Q for 2^96 and     *)
(* MaxFee for 1000000; prices and liquidities are below 2^160 and 2^128.   *)
(* MulDivV2, DivInto and mulRsh96_2x3 are taken by their results: the      *)
(* quotient of a product that is never truncated.                          *)
(***************************************************************************)
EXTENDS Integers

CONSTANTS Q, Word, MaxFee

ASSUME ScaleAssumption ==
  /\ Q \in Nat \ {0}
  /\ Word \in Nat \ {0} /\ Word > Q /\ Word % 2 = 0
  /\ MaxFee \in Nat \ {0}

Failed == -1       \* a price whose error ComputeSwapStep ignores

Negated(x) == (-x) % Word
Minus(x, y) == (x - y) % Word
Plus(x, y) == (x + y) % Word
Times(x, y) == (x * y) % Word

(* FullMath: floor and ceiling of x*y/d; past a word only the low word of    *)
(* the quotient is stored, and it is not rounded.                            *)
MulDiv(x, y, d) == IF d = 0 THEN 0 ELSE ((x * y) \div d) % Word

MulDivRoundingUp(x, y, d) ==
  IF d # 0 /\ (x * y) % d # 0 /\ (x * y) \div d < Word - 1
  THEN (x * y) \div d + 1 ELSE MulDiv(x, y, d)

DivRoundingUp(x, d) == IF x % d = 0 THEN x \div d ELSE x \div d + 1
-----------------------------------------------------------------------------
(* SqrtPriceCalculator.  a is the lower price, b the upper one. *)
Amount0DeltaDown(a, b, liquidity, roundUp) ==                       \* mutant
  MulDiv(liquidity * Q, Minus(b, a), b) \div a
Amount0Delta(a, b, liquidity, roundUp) ==
  IF roundUp THEN DivRoundingUp(MulDivRoundingUp(liquidity * Q, Minus(b, a), b), a)
  ELSE MulDiv(liquidity * Q, Minus(b, a), b) \div a

Amount1Delta(a, b, liquidity, roundUp) ==
  IF roundUp THEN DivRoundingUp(liquidity * Minus(b, a), Q)
  ELSE (liquidity * Minus(b, a)) \div Q

(* The price after amount of token0 is added or removed; the first form is   *)
(* exact, the second avoids its overflow and rounds further up.              *)
AddAmount0(p, liquidity, amount) ==
  LET n == liquidity * Q
      product == Times(amount, p)
      exact == product \div amount = p /\ n + product < Word
  IN  IF exact THEN MulDivRoundingUp(n, p, n + product)
      ELSE DivRoundingUp(n, Plus(n \div p, amount))

RemoveAmount0(p, liquidity, amount) ==
  LET n == liquidity * Q
      product == Times(amount, p)
  IN  IF product \div amount = p /\ n > product
      THEN MulDivRoundingUp(n, p, n - product) ELSE Failed

NextSqrtPriceFromAmount0RoundingUp(p, liquidity, amount, add) ==
  IF amount = 0 THEN p
  ELSE IF add THEN AddAmount0(p, liquidity, amount) ELSE RemoveAmount0(p, liquidity, amount)

AddAmount1(p, liquidity, amount) ==
  LET r == Times(amount, Q) \div liquidity + p
  IN  IF r < Word THEN r ELSE Failed

RemoveAmount1(p, liquidity, amount) ==
  LET r == MulDivRoundingUp(amount, Q, liquidity)
  IN  IF p > r THEN p - r ELSE Failed

NextSqrtPriceFromAmount1RoundingDown(p, liquidity, amount, add) ==
  IF add THEN AddAmount1(p, liquidity, amount) ELSE RemoveAmount1(p, liquidity, amount)

NextSqrtPriceFromInputSwapped(p, liquidity, amountIn, zeroForOne) ==  \* mutant
  IF zeroForOne THEN NextSqrtPriceFromAmount1RoundingDown(p, liquidity, amountIn, TRUE)
  ELSE NextSqrtPriceFromAmount0RoundingUp(p, liquidity, amountIn, TRUE)
NextSqrtPriceFromInput(p, liquidity, amountIn, zeroForOne) ==
  IF zeroForOne THEN NextSqrtPriceFromAmount0RoundingUp(p, liquidity, amountIn, TRUE)
  ELSE NextSqrtPriceFromAmount1RoundingDown(p, liquidity, amountIn, TRUE)

NextSqrtPriceFromOutput(p, liquidity, amountOut, zeroForOne) ==
  IF zeroForOne THEN NextSqrtPriceFromAmount1RoundingDown(p, liquidity, amountOut, FALSE)
  ELSE NextSqrtPriceFromAmount0RoundingUp(p, liquidity, amountOut, FALSE)
-----------------------------------------------------------------------------
(* The input and the output that move the price from p to q. *)
InputBetween(p, q, liquidity, zeroForOne) ==
  IF zeroForOne THEN Amount0Delta(q, p, liquidity, TRUE)
  ELSE Amount1Delta(p, q, liquidity, TRUE)

OutputBetween(p, q, liquidity, zeroForOne) ==
  IF zeroForOne THEN Amount1Delta(q, p, liquidity, FALSE)
  ELSE Amount0Delta(p, q, liquidity, FALSE)

(* amountRemainingU, less the fee when it is an input. *)
AmountLessFeeWhole(amount, fee) == amount                           \* mutant
AmountLessFee(amount, fee) == Times(amount, MaxFee - fee) \div MaxFee

AmountRemainingU(remaining, exactIn) ==
  IF exactIn THEN remaining ELSE Negated(remaining)

(* The price the step ends at: the target when the amount reaches it. *)
SqrtRatioNext(p, target, liquidity, amountU, fee, zeroForOne, exactIn) ==
  LET reaches == IF exactIn
                 THEN AmountLessFee(amountU, fee) >= InputBetween(p, target, liquidity, zeroForOne)
                 ELSE amountU >= OutputBetween(p, target, liquidity, zeroForOne)
  IN  CASE reaches -> target
        [] ~reaches /\ exactIn ->
             NextSqrtPriceFromInput(p, liquidity, AmountLessFee(amountU, fee), zeroForOne)
        [] OTHER -> NextSqrtPriceFromOutput(p, liquidity, amountU, zeroForOne)

(* The output of an exact-output step is capped at what is asked for. *)
CappedOutputNever(out, amountU, exactIn) == out                     \* mutant
CappedOutput(out, amountU, exactIn) ==
  IF ~exactIn /\ out > amountU THEN amountU ELSE out

(* A step that stops short takes the rest of its input as fee. *)
FeeAmountOfInput(amountIn, amountU, fee, short) ==                  \* mutant
  MulDivRoundingUp(amountIn, fee, MaxFee - fee)
FeeAmount(amountIn, amountU, fee, short) ==
  IF short THEN Minus(amountU, amountIn)
  ELSE MulDivRoundingUp(amountIn, fee, MaxFee - fee)

ComputeSwapStep(p, target, liquidity, remaining, fee, zeroForOne, exactIn) ==
  LET amountU == AmountRemainingU(remaining, exactIn)
      next == SqrtRatioNext(p, target, liquidity, amountU, fee, zeroForOne, exactIn)
      amountIn == InputBetween(p, next, liquidity, zeroForOne)
      amountOut == OutputBetween(p, next, liquidity, zeroForOne)
  IN  IF next = Failed THEN [next |-> Failed, in |-> 0, out |-> 0, fee |-> 0]
      ELSE [next |-> next, in |-> amountIn,
            out |-> CappedOutput(amountOut, amountU, exactIn),
            fee |-> FeeAmount(amountIn, amountU, fee, exactIn /\ next # target)]
=============================================================================

------------------------------ MODULE SwapStep ------------------------------
(***************************************************************************)
(* ComputeSwapStep called once with any arguments a swap can give it: the  *)
(* contract that Pool.Swap relies on, over every price, liquidity, amount  *)
(* and fee of a small scale.                                               *)
(***************************************************************************)
EXTENDS SwapMath

CONSTANTS Prices, Liquidities, Amounts, Fees

(* Prices are below 2^160, liquidities below 2^128 and fees below 2^20: two  *)
(* Q96 hold a price, and a word the fee of all token0 above a price of one.  *)
ASSUME ArgumentsAssumption ==
  /\ Prices \subseteq 1 .. Word-1 /\ \A p \in Prices : p <= Q * Q
  /\ \A l \in Liquidities : l \in Nat /\ l * Q < Word
  /\ \A a \in Amounts : a \in Nat \ {0} /\ a * MaxFee < Word /\ a * Q < Word
  /\ \A f \in Fees : f \in Nat /\ f < MaxFee
  /\ \A l \in Liquidities, f \in Fees : (l * Q) * f < Word

VARIABLES call,      \* the arguments
          out,       \* the amounts and the price returned
          returned

stepVars == <<call, out, returned>>

Call ==
  [p : Prices, target : Prices, liquidity : Liquidities, amount : Amounts,
   fee : Fees, zeroForOne : BOOLEAN, exactIn : BOOLEAN]

Nothing == [next |-> 0, in |-> 0, out |-> 0, fee |-> 0]

(* A target is on the side the swap moves to. *)
StepInit ==
  /\ call \in Call
  /\ IF call.zeroForOne THEN call.target <= call.p ELSE call.target >= call.p
  /\ out = Nothing
  /\ returned = FALSE

Compute ==
  /\ ~returned
  /\ out' = ComputeSwapStep(call.p, call.target, call.liquidity,
                            IF call.exactIn THEN call.amount ELSE Negated(call.amount),
                            call.fee, call.zeroForOne, call.exactIn)
  /\ returned' = TRUE
  /\ UNCHANGED call

StepSpec == StepInit /\ [][Compute]_stepVars
-----------------------------------------------------------------------------
Lower == IF call.zeroForOne THEN out.next ELSE call.p
Upper == IF call.zeroForOne THEN call.p ELSE out.next
Short == out.next # call.target

(* The price stays between where it is and the target, in spite of two       *)
(* roundings, and no error that ComputeSwapStep throws away ever occurs.     *)
StaysBeforeTarget ==
  returned => IF call.zeroForOne THEN call.target <= out.next /\ out.next <= call.p
              ELSE call.p <= out.next /\ out.next <= call.target

(* An exact input or output is never exceeded, and used up or delivered in   *)
(* full by a step that stops short of its target: of an input the remainder  *)
(* becomes fee.                                                              *)
AmountIsExact ==
  returned =>
    LET moved == IF call.exactIn THEN out.in + out.fee ELSE out.out
    IN  moved <= call.amount /\ (Short => moved = call.amount)

(* What comes in covers what the curve asks for the move of the price, what  *)
(* goes out is no more than it gives: token0 moves by L*Q*(b-a)/(a*b),       *)
(* token1 by L*(b-a)/Q.  The fee is at least its share of the input.         *)
PoolNeverShort ==
  returned =>
    LET move == call.liquidity * (Upper - Lower)
    IN  /\ IF call.zeroForOne
           THEN /\ out.in * Lower * Upper >= move * Q
                /\ out.out * Q <= move
           ELSE /\ out.in * Q >= move
                /\ out.out * Lower * Upper <= move * Q
        /\ out.fee * (MaxFee - call.fee) >= out.in * call.fee
=============================================================================

---------------------------- MODULE MCArithmetic ----------------------------
(***************************************************************************)
(* The arithmetic below a swap, each part in a run of its own below one    *)
(* initial choice: ticks and prices of TickMath, the steps of SwapStep,    *)
(* and the divisions of WordDivision, all of which this module extends.    *)
(* 25 ticks a factor of 1.25 apart, filled by up to four goroutines, and   *)
(* prices on, near and beyond them.  Words of five bits are the smallest   *)
(* in which all corrections of a division occur.  A new FullMath is used   *)
(* for every division of numbers of up to four words made of a few digits, *)
(* and for products of up to six words; calls with divisors of every       *)
(* length follow each other.  Steps have every price, target, amount and   *)
(* fee of a small scale, with words of eight bits.                         *)
(***************************************************************************)
EXTENDS TickMath, SwapStep, WordDivision

VARIABLE part                \* "ticks", "division" or "step"

(* Three goroutines share 25 entries unevenly; the last of four gets fewer.  *)
MCSqrtConst == [k \in 0 .. 3 |-> CASE k = 0 -> 229 [] k = 1 -> 205 [] k = 2 -> 164 [] k = 3 -> 105]
MCSqrtRatios == {0, 10, 16, 17, 18, 40, 63, 64, 65, 72, 100, 101, 200, 219, 243, 244, 250}
MCPrices == {<<1, 16>>, <<1, 8>>, <<1, 2>>, <<1, 1>>, <<5, 4>>, <<3, 1>>, <<10, 1>>, <<289, 4096>>, <<72*72, 4096>>, <<72*72-1, 4096>>}
MCRequests ==
  [of : {"GetTickAtSqrtRatio"}, sqrtRatioX96 : MCSqrtRatios]
    \cup [of : {"PriceToClosestTick"}, price : MCPrices, sorted : BOOLEAN]
    \cup [of : {"NearestUsableTick"}, tick : Tick, tickSpacing : {1, 5, 7}]

Numbers(top, digits) ==
  {a + 32*b + 32^2*c + 32^3*d : a, b, c \in digits, d \in top}
Ask(op, x, y, d) == [op |-> op, x |-> x, y |-> y, d |-> d]

MCStepPrices == 1 .. 12
MCLiquidities == {0, 1, 5, 20}
MCAmounts == 1 .. 24
MCStepFees == {0, 1, 3}

MCDividends == Numbers({0, 1, 15, 31}, {0, 6, 15, 16, 31})
MCDivisors == Numbers({0, 9, 31}, {0, 1, 9, 31})
MCFactors == {0, 1, 31, 207, 1023, 8000}
MCMoreCalls ==
  {Ask("DivRoundingUp", x, 1, d) : x \in {9, 30000, 900001}, d \in {9, 600, 30001, 900000}}
    \cup {Ask("MulDivRoundingUpV2", 8000, 8000, d) : d \in {7, 600, 900000}}
    \cup {Ask("MulDivV2", 8000, 1000, d) : d \in {600, 900000}}
    \cup {Ask("MulDivV2", 992, y, 600) : y \in {1024, 40000}}
    \cup {Ask("MulDivRoundingUpV2", 2047, 2049, 4)}      \* just above 2^20 - 1
    \cup {Ask("DivByMaxFeeInto", 900001, 1, 9), Ask("mulRsh96_2x3", 1023, 4095, 128)}

ASSUME TickMathAssumption /\ RatiosAssumption /\ RequestsAssumption
-----------------------------------------------------------------------------
(* Variables of the parts that do not run keep one value; the table of a     *)
(* package that is not loaded yet is empty.                                  *)
Unused == -9

TicksUnused ==
  /\ sqrtRatioTable = <<>> /\ next = <<>> /\ started = 0 /\ pc = "starting"
  /\ request = NoRequest /\ idx = 0 /\ result = Unset
DivisionUnused ==
  /\ cache = NoDivisor /\ divisor = NoDivisor /\ asked = Unused /\ un = Unused /\ j = Unused
  /\ quot = Unused /\ rem = Unused /\ remainder = Unused /\ quotient = Unused /\ err = Unused
  /\ at = "unused"
StepUnused == call = Unused /\ out = Unused /\ returned = FALSE

MCInit ==
  \/ part = "ticks" /\ Init /\ DivisionUnused /\ StepUnused
  \/ part = "division" /\ DivisionInit /\ TicksUnused /\ StepUnused
  \/ part = "step" /\ StepInit /\ TicksUnused /\ DivisionUnused

MCNext ==
  \/ part = "ticks" /\ Next /\ UNCHANGED <<part, divisionVars, stepVars>>
  \/ part = "division" /\ DivisionNext /\ UNCHANGED <<part, vars, stepVars>>
  \/ part = "step" /\ Compute /\ UNCHANGED <<part, vars, divisionVars>>

MCSpec == MCInit /\ [][MCNext]_<<part, vars, divisionVars, stepVars>>
=============================================================================

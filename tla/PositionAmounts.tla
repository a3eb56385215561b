--------------------------- MODULE PositionAmounts ---------------------------
(***************************************************************************)
(* entities/position.go and utils/max_liquidity_for_amounts.go: the        *)
(* liquidity that two amounts buy between two ticks, and the amounts that  *)
(* a position is minted with, is burned for, and must reach in spite of    *)
(* slippage; at the scale of SwapMath.                                     *)
(*                                                                         *)
(* The pool under a position moves.  Amount0 and Amount1 keep what they    *)
(* first computed until a caller forces them, the pool keeps its first     *)
(* Token0Price for good, and CalcAmounts, CalcAmount0 and CalcAmount1      *)
(* answer with pointers to two words of the position, which the next call  *)
(* overwrites.                                                             *)
(***************************************************************************)
EXTENDS SwapMath, Sequences

CONSTANTS MinTick, MaxTick,
          SqrtRatio,       \* the price of every tick
          UsableTicks,     \* the multiples of the pool's tick spacing
          Prices,          \* where swaps leave the pool
          Amounts,         \* amounts of a token that callers have
          Tolerances,      \* slippage, as a fraction <<n, d>>
          MaxCalls         \* bound on the calls after the position is made

Tick == MinTick .. MaxTick
MinSqrtRatio == SqrtRatio[MinTick]
MaxSqrtRatio == SqrtRatio[MaxTick]
MaxUint256 == Word - 1
None == -1

(* Swaps stop at the limits of pool.go:27, above the first price and below   *)
(* the last, which is 2^160 up to a part of it: the product with Q96 is a    *)
(* word, the square is not.  What an amount of token0 buys in full precision *)
(* is a word, as what an amount of token1 buys is.                           *)
ASSUME PositionAssumption ==
  /\ MinTick \in Int /\ MaxTick \in Int /\ MinTick < MaxTick
  /\ SqrtRatio \in [Tick -> 1 .. Word-1]
  /\ \A s, t \in MinTick .. MaxTick : s < t => SqrtRatio[s] < SqrtRatio[t]
  /\ UsableTicks \subseteq Tick
  /\ Prices \subseteq MinSqrtRatio+1 .. MaxSqrtRatio-1
  /\ MaxSqrtRatio * Q <= Word /\ 2 * Word <= MaxSqrtRatio * MaxSqrtRatio
  /\ \A a \in Amounts : a \in Nat /\ a * Q < Word
  /\ \A a \in Amounts, t \in UsableTicks : \A p \in Prices \cup {SqrtRatio[u] : u \in UsableTicks} :
       p < SqrtRatio[t] => a * p * SqrtRatio[t] < Word * (Q * (SqrtRatio[t] - p))
  /\ \A s \in Tolerances : s[1] \in 0 .. s[2] /\ s[2] \in Nat \ {0}
  /\ MaxCalls \in Nat

VARIABLES pool,            \* SqrtRatioX96 and TickCurrent
          token0Price,     \* the pool's cached price, or None
          position,        \* its ticks and liquidity, and what it was made from
          cached,          \* token0Amount and token1Amount, or None
          words,           \* amount1Tmp and amount2Tmp
          held,            \* all answers that a caller still has, oldest first
          answer,          \* the last call, its amounts, and the pool it saw
          calls

vars == <<pool, token0Price, position, cached, words, held, answer, calls>>

(* Below the table the first tick, at or past its end the last. *)
TickAtSqrtRatio(p) ==
  CASE p < MinSqrtRatio -> MinTick
    [] p >= MaxSqrtRatio -> MaxTick
    [] OTHER -> CHOOSE t \in Tick : SqrtRatio[t] <= p /\ p < SqrtRatio[t+1]

PoolAt(p) == [sqrtRatio |-> p, tick |-> TickAtSqrtRatio(p)]

(* A swap to the left that ends on a tick leaves the pool at the tick below. *)
PoolStates ==
  {PoolAt(p) : p \in Prices}
    \cup {[sqrtRatio |-> SqrtRatio[t], tick |-> t-1] :
            t \in {u \in Tick \ {MinTick} : SqrtRatio[u] \in Prices}}
-----------------------------------------------------------------------------
(* MaxLiquidityForAmountsCalculator; a is the lower price. *)
maxLiquidityForAmount0ImpreciseUp(a, b, amount0) ==                 \* mutant
  Times(amount0, DivRoundingUp(Times(a, b), Q)) \div Minus(b, a)
maxLiquidityForAmount0Imprecise(a, b, amount0) ==
  Times(amount0, Times(a, b) \div Q) \div Minus(b, a)

maxLiquidityForAmount0PreciseByHalves(a, b, amount0) ==                 \* mutant
  maxLiquidityForAmount0Imprecise(a, b, amount0)
maxLiquidityForAmount0Precise(a, b, amount0) ==
  ((amount0 * a * b) \div (Q * (b - a))) % Word

maxLiquidityForAmount1(a, b, amount1) == Times(amount1, Q) \div Minus(b, a)

Lesser(x, y) == IF x < y THEN x ELSE y

MaxLiquidityForAmounts(p, a, b, amount0, amount1, useFullPrecision) ==
  LET ForAmount0(x, y) ==
        IF useFullPrecision THEN maxLiquidityForAmount0Precise(x, y, amount0)
        ELSE maxLiquidityForAmount0Imprecise(x, y, amount0)
  IN  CASE p <= a -> ForAmount0(a, b)
        [] a < p /\ p < b -> Lesser(ForAmount0(p, b), maxLiquidityForAmount1(a, p, amount1))
        [] OTHER -> maxLiquidityForAmount1(a, b, amount1)
-----------------------------------------------------------------------------
Lower(pos) == SqrtRatio[pos.lower]
Upper(pos) == SqrtRatio[pos.upper]

Amount0(p, pos, roundUp) ==
  CASE p.tick < pos.lower -> Amount0Delta(Lower(pos), Upper(pos), pos.liquidity, roundUp)
    [] pos.lower <= p.tick /\ p.tick < pos.upper ->
         Amount0Delta(p.sqrtRatio, Upper(pos), pos.liquidity, roundUp)
    [] OTHER -> 0

Amount1(p, pos, roundUp) ==
  CASE p.tick < pos.lower -> 0
    [] pos.lower <= p.tick /\ p.tick < pos.upper ->
         Amount1Delta(Lower(pos), p.sqrtRatio, pos.liquidity, roundUp)
    [] OTHER -> Amount1Delta(Lower(pos), Upper(pos), pos.liquidity, roundUp)

MintAmounts(p, pos) == <<Amount0(p, pos, TRUE), Amount1(p, pos, TRUE)>>
BurnAmounts(p, pos) == <<Amount0(p, pos, FALSE), Amount1(p, pos, FALSE)>>

(* The method Amount0 rounds up inside the range. *)
InRange(p, pos) == pos.lower <= p.tick /\ p.tick < pos.upper

(* Numerator of Token0Price, over Q^2: the square is taken in one word. *)
CalcToken0Price(p) == Times(p.sqrtRatio, p.sqrtRatio)
Token0Price == IF token0Price = None THEN CalcToken0Price(pool) ELSE token0Price

SquareRoot(x) == CHOOSE r \in 0 .. x : r * r <= x /\ x < (r+1) * (r+1)

(* The upper clamp subtracts from the minimum, not from the maximum. *)
ClampLower(r) == IF r <= MinSqrtRatio THEN MinSqrtRatio + 1 ELSE r
ClampUpper(r) == IF r >= MaxSqrtRatio THEN MinSqrtRatio - 1 ELSE r

ratiosAfterSlippage(price, s) ==
  [lower |-> ClampLower(SquareRoot((price * (s[2] - s[1])) \div s[2])),
   upper |-> ClampUpper(SquareRoot((price * (s[2] + s[1])) \div s[2]))]

(* Less of token0 at the upper price, less of token1 at the lower. *)
SmallerAtSwapped(ratios) == <<PoolAt(ratios.lower), PoolAt(ratios.upper)>>  \* mutant
SmallerAt(ratios) == <<PoolAt(ratios.upper), PoolAt(ratios.lower)>>

LiquidityFromAmounts(p, lower, upper, amount0, amount1, useFullPrecision) ==
  MaxLiquidityForAmounts(p.sqrtRatio, SqrtRatio[lower], SqrtRatio[upper],
                         amount0, amount1, useFullPrecision)

MintAmountsWithSlippage(p, pos, price, s) ==
  LET desired == MintAmounts(p, pos)
      positionThatWillBeCreated ==
        [pos EXCEPT !.liquidity = LiquidityFromAmounts(p, pos.lower, pos.upper,
                                                       desired[1], desired[2], FALSE)]
      pools == SmallerAt(ratiosAfterSlippage(price, s))
  IN  [i \in {1, 2} |-> MintAmounts(pools[i], positionThatWillBeCreated)[i]]

BurnAmountsWithSlippage(pos, price, s) ==
  LET pools == SmallerAt(ratiosAfterSlippage(price, s))
  IN  [i \in {1, 2} |-> BurnAmounts(pools[i], pos)[i]]
-----------------------------------------------------------------------------
NoAnswer == [of |-> <<"nothing">>, amounts |-> <<0, 0>>, at |-> pool]
Word1 == 1
Word2 == 2
Zero == 0                  \* the package's constant, which nothing writes
NoPointers == <<None, None>>

Pointed(pointer) == IF pointer = Zero THEN 0 ELSE words[pointer]

(* The caller gets an answer and keeps it, with its pointers.                *)
AnswerWith(of, amounts, pointers) ==
  /\ answer' = [of |-> of, amounts |-> amounts, at |-> pool]
  /\ held' = Append(held, [answer |-> answer', pointers |-> pointers])

(* NewPosition refuses ticks out of order or unusable; FromAmounts divides   *)
(* by the width of the range before, so callers have ordered them.           *)
NewPosition(lower, upper, liquidity, from) ==
  /\ position' = [lower |-> lower, upper |-> upper, liquidity |-> liquidity, from |-> from]
  /\ cached' = <<None, None>>
  /\ words' = <<0, 0>>

(* FromAmounts; FromAmount0 and FromAmount1 give MaxUint256 of the other.    *)
(* Callers make positions of a liquidity that the contract takes.            *)
FromAmounts(lower, upper, amount0, amount1, useFullPrecision) ==
  /\ position.liquidity = 0 /\ lower < upper
  /\ LET liquidity == LiquidityFromAmounts(pool, lower, upper, amount0, amount1, useFullPrecision)
     IN  /\ liquidity * Q < Word
         /\ NewPosition(lower, upper, liquidity,
                        [amount0 |-> amount0, amount1 |-> amount1, full |-> useFullPrecision])
  /\ answer' = [NoAnswer EXCEPT !.of = <<"FromAmounts">>]
  /\ UNCHANGED <<pool, token0Price, held, calls>>

FromAmount0(lower, upper, amount0, useFullPrecision) ==
  FromAmounts(lower, upper, amount0, MaxUint256, useFullPrecision)
FromAmount1(lower, upper, amount1) ==
  FromAmounts(lower, upper, MaxUint256, amount1, TRUE)

Init ==
  /\ pool \in PoolStates
  /\ token0Price = None
  /\ position = [lower |-> MinTick, upper |-> MaxTick, liquidity |-> 0,
                 from |-> [amount0 |-> 0, amount1 |-> 0, full |-> FALSE]]
  /\ cached = <<None, None>>
  /\ words = <<0, 0>> /\ held = <<>>
  /\ answer = NoAnswer
  /\ calls = 0

Calling ==
  /\ position.liquidity > 0
  /\ calls < MaxCalls /\ calls' = calls + 1
  /\ UNCHANGED position

(* The owner of the pool applies the result of a swap. *)
MovePool(p) ==
  /\ Calling /\ p # pool
  /\ pool' = p
  /\ UNCHANGED <<token0Price, cached, words, held, answer>>

(* The methods Amount0 and Amount1: inside the range the first rounds up. *)
AmountsAsked == <<Amount0(pool, position, InRange(pool, position)), Amount1(pool, position, FALSE)>>

Recalculated(i, forceRecalc) == forceRecalc \/ cached[i] = None

Amount(i, forceRecalc) ==
  /\ Calling
  /\ cached' = IF Recalculated(i, forceRecalc) THEN [cached EXCEPT ![i] = AmountsAsked[i]] ELSE cached
  /\ AnswerWith(IF forceRecalc THEN <<"Forced", i>> ELSE <<"Amount", i>>, cached', NoPointers)
  /\ UNCHANGED <<pool, token0Price, words>>

(* CalcAmount0 and CalcAmount1 compute into amount2Tmp, each of them. *)
CalcAmount(i) ==
  LET exact == BurnAmounts(pool, position)
      computed == IF i = 1 THEN pool.tick < position.upper ELSE pool.tick >= position.lower
  IN  /\ Calling
      /\ words' = IF computed THEN [words EXCEPT ![Word2] = exact[i]] ELSE words
      /\ AnswerWith(<<"CalcAmount", i>>, [<<0, 0>> EXCEPT ![i] = exact[i]],
                    [NoPointers EXCEPT ![i] = IF computed THEN Word2 ELSE Zero])
      /\ UNCHANGED <<pool, token0Price, cached>>

CalcWordsOne == <<Word2, Word2>>                                    \* mutant
CalcWords == <<Word1, Word2>>

CalcAmounts ==
  LET owed == MintAmounts(pool, position)
      computed == <<pool.tick < position.upper, pool.tick >= position.lower>>
      Stored(w) == {i \in {1, 2} : computed[i] /\ CalcWords[i] = w}
      last(w) == CHOOSE i \in Stored(w) : \A j \in Stored(w) : j <= i
  IN  /\ Calling
      /\ words' = [w \in {Word1, Word2} |-> IF Stored(w) = {} THEN words[w] ELSE owed[last(w)]]
      /\ AnswerWith(<<"CalcAmounts">>, owed, [i \in {1, 2} |-> IF computed[i] THEN CalcWords[i] ELSE Zero])
      /\ UNCHANGED <<pool, token0Price, cached>>

(* MintAmounts keeps nothing: no code fills the field of its name. *)
AskMintAmounts ==
  /\ Calling
  /\ answer' = [of |-> <<"MintAmounts">>, amounts |-> MintAmounts(pool, position), at |-> pool]
  /\ UNCHANGED <<pool, token0Price, cached, words, held>>

(* Both compute into words of the positions they make, and keep the price. *)
AskMintAmountsWithSlippage(s) ==
  /\ Calling
  /\ token0Price' = Token0Price
  /\ answer' = [of |-> <<"Mint", s>>, at |-> pool,
                amounts |-> MintAmountsWithSlippage(pool, position, Token0Price, s)]
  /\ UNCHANGED <<pool, cached, words, held>>

AskBurnAmountsWithSlippage(s) ==
  /\ Calling
  /\ token0Price' = Token0Price
  /\ answer' = [of |-> <<"Burn", s>>, at |-> pool,
                amounts |-> BurnAmountsWithSlippage(position, Token0Price, s)]
  /\ UNCHANGED <<pool, cached, words, held>>

Create ==
  \E lower, upper \in UsableTicks :
    \/ \E amount0, amount1 \in Amounts, full \in BOOLEAN : FromAmounts(lower, upper, amount0, amount1, full)
    \/ \E amount0 \in Amounts, full \in BOOLEAN : FromAmount0(lower, upper, amount0, full)
    \/ \E amount1 \in Amounts : FromAmount1(lower, upper, amount1)

Ask ==
  \/ \E i \in {1, 2} : (\E force \in BOOLEAN : Amount(i, force)) \/ CalcAmount(i)
  \/ CalcAmounts \/ AskMintAmounts
  \/ \E s \in Tolerances : AskMintAmountsWithSlippage(s) \/ AskBurnAmountsWithSlippage(s)

Next == Create \/ Ask \/ \E p \in PoolStates : MovePool(p)

Spec == Init /\ [][Next]_vars
-----------------------------------------------------------------------------
(* The position that FromAmounts makes can be minted with the amounts it was *)
(* made from: no rounding and no product that wraps asks for more of either  *)
(* token.                                                                    *)
FitsTheAmounts ==
  answer.of = <<"FromAmounts">> =>
    /\ MintAmounts(answer.at, position)[1] <= position.from.amount0
    /\ MintAmounts(answer.at, position)[2] <= position.from.amount1

(* Of two amounts that callers have, full precision leaves nothing to gain:  *)
(* one unit of liquidity more would need more of one of them.                *)
PreciseIsMaximal ==
  answer.of = <<"FromAmounts">> /\ position.from.full /\ MaxUint256 \notin {position.from.amount0, position.from.amount1} =>
    LET more == MintAmounts(answer.at, [position EXCEPT !.liquidity = @ + 1])
    IN  more[1] > position.from.amount0 \/ more[2] > position.from.amount1

(* "liquidity will be maximized according to what the router can calculate"  *)
(* (position.go:340): its contract divides without losing a product's high   *)
(* words.                                                                    *)
RouterForAmount0(a, b, amount0) == (amount0 * ((a * b) \div Q)) \div (b - a)
RouterLiquidity(p, pos) ==
  LET a == Lower(pos)
      b == Upper(pos)
  IN  CASE p <= a -> RouterForAmount0(a, b, pos.from.amount0)
        [] a < p /\ p < b -> Lesser(RouterForAmount0(p, b, pos.from.amount0), (pos.from.amount1 * Q) \div (p - a))
        [] OTHER -> (pos.from.amount1 * Q) \div (b - a)

ImpreciseIsTheRouters ==
  answer.of = <<"FromAmounts">> /\ ~position.from.full =>
    position.liquidity = RouterLiquidity(answer.at.sqrtRatio, position)

(* The minimums for a burn or a mint can be met: a burn gives them wherever  *)
(* the price ends up inside the tolerance, and a mint takes them if the      *)
(* price stays, although the ratios come from roots, clamps and roundings.   *)
(* The price must be the pool's, and its square a word.                      *)
PriceIsThePools == Token0Price = pool.sqrtRatio * pool.sqrtRatio

Between(price, s) ==
  {p \in PoolStates : LET r == ratiosAfterSlippage(price, s) IN r.lower <= p.sqrtRatio /\ p.sqrtRatio <= r.upper}

AtLeast(amounts, minimums) == amounts[1] >= minimums[1] /\ amounts[2] >= minimums[2]

MinimumsCanBeMet ==
  answer.at = pool /\ PriceIsThePools =>
    \A s \in Tolerances :
      /\ answer.of = <<"Burn", s>> =>
           \A p \in Between(Token0Price, s) : AtLeast(BurnAmounts(p, position), answer.amounts)
      /\ answer.of = <<"Mint", s>> =>
           AtLeast(MintAmounts(pool, position), answer.amounts)

(* What a caller holds reads as it was answered until its word is answered   *)
(* with again, and then as that answer: amount0 of CalcAmounts until the     *)
(* next CalcAmounts, all others until the next call of CalcAmount0,          *)
(* CalcAmount1 or CalcAmounts that computes, so that in range the answer of  *)
(* CalcAmount0 turns into that of CalcAmount1.  No other call and no move of *)
(* the pool changes what is read.                                            *)
TakesWordOf(j, k, i) ==
  /\ \E t \in {1, 2} : held[j].pointers[t] = held[k].pointers[i]
  /\ i = 1 /\ held[k].answer.of = <<"CalcAmounts">> => held[j].answer.of = <<"CalcAmounts">>

PointersReadTheLast ==
  \A k \in 1 .. Len(held), i \in {1, 2} :
    LET w == held[k].pointers[i]
    IN  w = Zero \/ (w # None /\ \A j \in k+1 .. Len(held) : ~TakesWordOf(j, k, i)) =>
          Pointed(w) = held[k].answer.amounts[i]

(* The answer of Amount0 and Amount1 is the amount of the pool as it was at  *)
(* the last forced call or, without one, at the first, however far the pool  *)
(* has moved since; the first up to a rounding.                              *)
Asks(j, i) == held[j].answer.of \in {<<"Amount", i>>, <<"Forced", i>>}
Forces(j, i) == held[j].answer.of = <<"Forced", i>>
Decides(j, k, i) ==
  /\ Asks(j, i) /\ \A l \in j+1 .. k : ~Forces(l, i)
  /\ Forces(j, i) \/ \A l \in 1 .. j-1 : ~Asks(l, i)

AmountsAreOfTheirPool ==
  \A k \in 1 .. Len(held), i \in {1, 2} :
    Asks(k, i) => \E j \in 1 .. k :
      /\ Decides(j, k, i)
      /\ held[k].answer.amounts[i] - BurnAmounts(held[j].answer.at, position)[i] \in {0, IF i = 1 THEN 1 ELSE 0}

(* A caller that keeps its answers knows what they are worth.                *)
AnswersReadAsOfTheirTime == PointersReadTheLast /\ AmountsAreOfTheirPool
=============================================================================

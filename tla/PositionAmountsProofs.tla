------------------------ MODULE PositionAmountsProofs ------------------------
(***************************************************************************)
(* What holds of the amounts of a position over every table of prices, at  *)
(* any scale and for every sequence of calls: what FromAmounts makes fits  *)
(* the amounts it is made from, in full precision leaves nothing to gain,  *)
(* the minimums for burns and mints can be met, and every answer that is   *)
(* kept reads as the last one given through its word.                      *)
(***************************************************************************)
EXTENDS PositionAmounts, SwapMathProofs, SequenceTheorems

(* A tick up to the pool's has a price up to the pool's, the others not less. *)
InOrder(p) ==
  /\ p.sqrtRatio \in PriceWord /\ p.tick \in Int
  /\ \A t \in Tick : IF p.tick < t THEN p.sqrtRatio <= SqrtRatio[t] ELSE SqrtRatio[t] <= p.sqrtRatio

Spans(pos) == pos.lower \in Tick /\ pos.upper \in Tick /\ pos.lower < pos.upper /\ pos.liquidity \in Nat

(* The price at which the amounts of a position between a and b are taken.   *)
ClampedTo(p, a, b) == IF p <= a THEN a ELSE IF p < b THEN p ELSE b
Clamped(p, pos) == ClampedTo(p.sqrtRatio, Lower(pos), Upper(pos))
-----------------------------------------------------------------------------
(* Prices are words, and ordered as their ticks are.                         *)
LEMMA TicksInOrder ==
  /\ MinTick \in Int /\ MaxTick \in Int /\ MinTick < MaxTick /\ MinTick \in Tick /\ MaxTick \in Tick
  /\ Word \in Nat \ {0} /\ Q \in Nat \ {0} /\ Q < Word
  /\ \A t \in Tick : SqrtRatio[t] \in PriceWord /\ t \in Int
  /\ \A s, t \in Tick : s < t => SqrtRatio[s] < SqrtRatio[t]
  /\ \A s, t \in Tick : s <= t => SqrtRatio[s] <= SqrtRatio[t]
<1>1. /\ MinTick \in Int /\ MaxTick \in Int /\ MinTick < MaxTick
      /\ MinTick \in Tick /\ MaxTick \in Tick /\ \A t \in Tick : t \in Int
  BY PositionAssumption DEF Tick
<1>2. Word \in Nat \ {0} /\ Q \in Nat \ {0} /\ Q < Word
  BY ScaleAssumption
<1>3. \A t \in Tick : SqrtRatio[t] \in PriceWord
  BY PositionAssumption DEF PriceWord
<1>4. \A s, t \in Tick : s < t => SqrtRatio[s] < SqrtRatio[t]
  BY PositionAssumption DEF Tick
<1>5. \A s, t \in Tick : s <= t => SqrtRatio[s] <= SqrtRatio[t]
  <2> TAKE s, t \in Tick
  <2>1. s \in Int /\ t \in Int /\ SqrtRatio[s] \in Int /\ SqrtRatio[t] \in Int
    BY <1>1, <1>2, <1>3 DEF PriceWord
  <2>2. CASE s = t
    BY <2>1, <2>2
  <2>3. CASE s < t
    BY <1>4, <2>1, <2>3
  <2> QED BY <2>1, <2>2, <2>3
<1> QED BY <1>1, <1>2, <1>3, <1>4, <1>5

(* A price in the table has a tick.                                          *)
LEMMA TickOfPrice ==
  ASSUME NEW p \in MinSqrtRatio .. MaxSqrtRatio-1
  PROVE  LET t == TickAtSqrtRatio(p)
         IN  t \in Tick /\ t < MaxTick /\ SqrtRatio[t] <= p /\ p < SqrtRatio[t+1]
<1>1. /\ MinSqrtRatio \in Int /\ MaxSqrtRatio \in Int /\ p \in Int
      /\ MinTick \in Int /\ MaxTick \in Int /\ ~(p < MinSqrtRatio) /\ ~(p >= MaxSqrtRatio)
  BY TicksInOrder DEF MinSqrtRatio, MaxSqrtRatio, PriceWord
<1> DEFINE D == {d \in Nat : MaxTick - d \in Tick /\ SqrtRatio[MaxTick - d] <= p}
<1>2. MaxTick - MinTick \in D
  <2>1. MaxTick - MinTick \in Nat /\ MaxTick - (MaxTick - MinTick) = MinTick
    BY TicksInOrder
  <2>2. SqrtRatio[MinTick] <= p
    BY <1>1 DEF MinSqrtRatio
  <2> QED BY <2>1, <2>2, TicksInOrder
<1>3. PICK d \in D : \A e \in D : d <= e
  BY <1>2, NatMinimum
<1> DEFINE t == MaxTick - d
<1>4. d \in Nat /\ t \in Tick /\ SqrtRatio[t] <= p /\ t \in Int
  BY TicksInOrder
<1>5. d # 0
  <2>1. SqrtRatio[MaxTick - 0] = MaxSqrtRatio
    BY <1>1 DEF MaxSqrtRatio
  <2> QED BY <1>1, <1>4, <2>1
<1>6. t < MaxTick /\ t + 1 \in Tick /\ t + 1 = MaxTick - (d-1) /\ d-1 \in Nat
  BY <1>1, <1>4, <1>5 DEF Tick
<1>7. p < SqrtRatio[t+1]
  <2>1. d-1 \notin D
    <3> SUFFICES ASSUME d-1 \in D PROVE FALSE
      OBVIOUS
    <3>1. d <= d-1
      BY <1>3
    <3> QED BY <1>4, <3>1
  <2>2. ~(SqrtRatio[t+1] <= p)
    BY <1>6, <2>1
  <2> QED BY <1>1, <1>6, <2>2, TicksInOrder DEF PriceWord
<1>8. TickAtSqrtRatio(p) = CHOOSE x \in Tick : SqrtRatio[x] <= p /\ p < SqrtRatio[x+1]
  BY <1>1 DEF TickAtSqrtRatio
<1> HIDE DEF t
<1>9. /\ TickAtSqrtRatio(p) \in Tick
      /\ SqrtRatio[TickAtSqrtRatio(p)] <= p /\ p < SqrtRatio[TickAtSqrtRatio(p) + 1]
  BY <1>4, <1>7, <1>8
<1>10. TickAtSqrtRatio(p) # MaxTick
  BY <1>1, <1>9 DEF MaxSqrtRatio
<1> QED BY <1>1, <1>9, <1>10 DEF Tick

(* The pool at a price is in order, below the table excepted.                *)
LEMMA PoolAtInOrder ==
  ASSUME NEW p \in PriceWord, MinSqrtRatio <= p
  PROVE  InOrder(PoolAt(p)) /\ PoolAt(p).sqrtRatio = p
<1>1. p \in Int /\ MinSqrtRatio \in Int /\ MaxSqrtRatio \in Int /\ ~(p < MinSqrtRatio)
  BY TicksInOrder DEF MinSqrtRatio, MaxSqrtRatio, PriceWord
<1> DEFINE u == TickAtSqrtRatio(p)
<1>2. PoolAt(p).sqrtRatio = p /\ PoolAt(p).tick = u
  BY DEF PoolAt
<1>3. u \in Tick /\ \A t \in Tick : IF u < t THEN p <= SqrtRatio[t] ELSE SqrtRatio[t] <= p
  <2>1. CASE p >= MaxSqrtRatio
    <3>1. u = MaxTick
      BY <1>1, <2>1 DEF TickAtSqrtRatio
    <3>2. ASSUME NEW t \in Tick PROVE ~(u < t) /\ SqrtRatio[t] <= p
      <4>1. t <= MaxTick /\ t \in Int
        BY TicksInOrder DEF Tick
      <4>2. SqrtRatio[t] <= MaxSqrtRatio
        BY <4>1, TicksInOrder DEF MaxSqrtRatio
      <4>3. SqrtRatio[t] \in PriceWord
        BY TicksInOrder
      <4> QED BY <1>1, <2>1, <3>1, <4>1, <4>2, <4>3, TicksInOrder DEF PriceWord
    <3> QED BY <3>1, <3>2, TicksInOrder
  <2>2. CASE ~(p >= MaxSqrtRatio)
    <3>1. p \in MinSqrtRatio .. MaxSqrtRatio-1
      BY <1>1, <2>2
    <3>2. u \in Tick /\ u < MaxTick /\ SqrtRatio[u] <= p /\ p < SqrtRatio[u+1]
      BY <3>1, TickOfPrice
    <3> HIDE DEF u
    <3>3. ASSUME NEW t \in Tick, u < t PROVE p <= SqrtRatio[t]
      <4>1. u + 1 \in Tick /\ u + 1 <= t
        BY <3>2, <3>3, TicksInOrder DEF Tick
      <4>2. SqrtRatio[u+1] <= SqrtRatio[t] /\ SqrtRatio[u+1] \in PriceWord /\ SqrtRatio[t] \in PriceWord
        BY <4>1, TicksInOrder
      <4>3. SqrtRatio[u+1] \in Int /\ SqrtRatio[t] \in Int
        BY <4>2, TicksInOrder DEF PriceWord
      <4> QED BY <1>1, <3>2, <4>2, <4>3
    <3>4. ASSUME NEW t \in Tick, ~(u < t) PROVE SqrtRatio[t] <= p
      <4>1. t <= u
        BY <3>2, <3>4, TicksInOrder
      <4>2. SqrtRatio[t] <= SqrtRatio[u] /\ SqrtRatio[u] \in Int /\ SqrtRatio[t] \in Int
        BY <3>2, <4>1, TicksInOrder DEF PriceWord
      <4> QED BY <1>1, <3>2, <4>2
    <3> QED BY <3>2, <3>3, <3>4
  <2> QED BY <2>1, <2>2
<1> HIDE DEF u
<1> QED BY <1>2, <1>3, TicksInOrder DEF InOrder

(* Every pool that a swap leaves is in order, at a price inside the limits.  *)
LEMMA PoolStatesInOrder ==
  ASSUME NEW p \in PoolStates
  PROVE  InOrder(p) /\ p.sqrtRatio \in Prices /\ p.sqrtRatio > MinSqrtRatio
<1>1. /\ MinSqrtRatio \in PriceWord /\ MaxSqrtRatio \in PriceWord
      /\ \A x \in Prices : x \in PriceWord /\ x > MinSqrtRatio
  <2>1. MinSqrtRatio \in PriceWord /\ MaxSqrtRatio \in PriceWord
    BY TicksInOrder DEF MinSqrtRatio, MaxSqrtRatio
  <2> QED BY <2>1, PositionAssumption, TicksInOrder DEF PriceWord
<1>2. CASE p \in {PoolAt(x) : x \in Prices}
  <2>1. PICK x \in Prices : p = PoolAt(x)
    BY <1>2
  <2>2. x \in PriceWord /\ x > MinSqrtRatio /\ MinSqrtRatio <= x
    BY <1>1 DEF PriceWord
  <2> QED BY <2>1, <2>2, PoolAtInOrder
<1>3. CASE p \notin {PoolAt(x) : x \in Prices}
  <2>1. PICK t \in Tick : SqrtRatio[t] \in Prices /\ p = [sqrtRatio |-> SqrtRatio[t], tick |-> t-1]
    BY <1>3 DEF PoolStates
  <2>2. p.sqrtRatio = SqrtRatio[t] /\ p.tick = t-1 /\ t \in Int /\ SqrtRatio[t] \in PriceWord
    BY <2>1, TicksInOrder
  <2>3. ASSUME NEW s \in Tick
        PROVE  IF p.tick < s THEN p.sqrtRatio <= SqrtRatio[s] ELSE SqrtRatio[s] <= p.sqrtRatio
    <3>1. s \in Int /\ (t <= s => SqrtRatio[t] <= SqrtRatio[s]) /\ (s <= t => SqrtRatio[s] <= SqrtRatio[t])
      BY TicksInOrder
    <3> QED BY <2>2, <3>1
  <2> QED BY <1>1, <2>1, <2>2, <2>3 DEF InOrder
<1> QED BY <1>2, <1>3
-----------------------------------------------------------------------------
(* A position's range, and the clamped price in it.                          *)
LEMMA ClampedInRange ==
  ASSUME NEW p \in Nat, NEW a \in PriceWord, NEW b \in PriceWord, a < b
  PROVE  LET c == ClampedTo(p, a, b) IN c \in PriceWord /\ a <= c /\ c <= b
BY TicksInOrder DEF ClampedTo, PriceWord

LEMMA RangeOfPosition ==
  ASSUME NEW pos, Spans(pos)
  PROVE  Lower(pos) \in PriceWord /\ Upper(pos) \in PriceWord /\ Lower(pos) < Upper(pos)
BY TicksInOrder DEF Spans, Lower, Upper

(* There is no amount between a price and itself.                            *)
LEMMA NothingBetween ==
  ASSUME NEW a \in PriceWord, NEW liquidity \in Nat, NEW up \in BOOLEAN
  PROVE  Amount0Delta(a, a, liquidity, up) = 0 /\ Amount1Delta(a, a, liquidity, up) = 0
<1>1. a \in Nat \ {0} /\ Word \in Nat \ {0} /\ Q \in Nat \ {0} /\ liquidity * Q \in Nat
  BY TicksInOrder DEF PriceWord
<1>2. 0 % a = 0 /\ 0 \div a = 0 /\ 0 % Word = 0 /\ 0 % Q = 0 /\ 0 \div Q = 0
  BY <1>1, SMTT(30)
<1>3. Minus(a, a) = 0
  BY <1>1, <1>2 DEF Minus
<1>4. liquidity * 0 = 0 /\ (liquidity * Q) * 0 = 0
  BY <1>1
<1>5. MulDiv(liquidity * Q, 0, a) = 0 /\ MulDivRoundingUp(liquidity * Q, 0, a) = 0
  BY <1>1, <1>2, <1>4 DEF MulDiv, MulDivRoundingUp
<1> QED BY <1>2, <1>3, <1>4, <1>5 DEF Amount0Delta, Amount1Delta, DivRoundingUp

(* What the tests of the ticks choose is the amounts at the clamped price.   *)
LEMMA AmountsAtClamped ==
  ASSUME NEW p, InOrder(p), NEW pos, Spans(pos), NEW up \in BOOLEAN
  PROVE  /\ Amount0(p, pos, up) = Amount0Delta(Clamped(p, pos), Upper(pos), pos.liquidity, up)
         /\ Amount1(p, pos, up) = Amount1Delta(Lower(pos), Clamped(p, pos), pos.liquidity, up)
<1> DEFINE a == Lower(pos)  b == Upper(pos)  q == p.sqrtRatio
<1>1. /\ a \in PriceWord /\ b \in PriceWord /\ a < b /\ q \in PriceWord /\ pos.liquidity \in Nat
      /\ a = SqrtRatio[pos.lower] /\ b = SqrtRatio[pos.upper]
      /\ pos.lower \in Tick /\ pos.upper \in Tick /\ pos.lower < pos.upper
  BY RangeOfPosition DEF Spans, InOrder, Lower, Upper
<1>2. /\ pos.lower \in Int /\ pos.upper \in Int /\ p.tick \in Int
      /\ a \in Int /\ b \in Int /\ q \in Int
  <2>1. pos.lower \in Int /\ pos.upper \in Int /\ p.tick \in Int
    BY <1>1, TicksInOrder DEF InOrder
  <2>2. PriceWord \subseteq Int
    BY TicksInOrder DEF PriceWord
  <2> QED BY <1>1, <2>1, <2>2
<1>3. /\ IF p.tick < pos.lower THEN q <= a ELSE a <= q
      /\ IF p.tick < pos.upper THEN q <= b ELSE b <= q
  BY <1>1 DEF InOrder
<1>4. /\ Amount0Delta(b, b, pos.liquidity, up) = 0
      /\ Amount1Delta(a, a, pos.liquidity, up) = 0
  BY <1>1, NothingBetween
<1>5. CASE p.tick < pos.lower
  <2>1. ClampedTo(q, a, b) = a
    BY <1>3, <1>5 DEF ClampedTo
  <2>2. ~(pos.lower <= p.tick)
    BY <1>2, <1>5
  <2> QED BY <1>4, <1>5, <2>1, <2>2 DEF Amount0, Amount1, Clamped
<1>6. CASE pos.lower <= p.tick /\ p.tick < pos.upper
  <2>1. ClampedTo(q, a, b) = q
    BY <1>1, <1>2, <1>3, <1>6 DEF ClampedTo
  <2>2. ~(p.tick < pos.lower)
    BY <1>2, <1>6
  <2> QED BY <1>6, <2>1, <2>2 DEF Amount0, Amount1, Clamped
<1>7. CASE ~(p.tick < pos.upper)
  <2>1. ClampedTo(q, a, b) = b
    BY <1>1, <1>2, <1>3, <1>7 DEF ClampedTo
  <2>2. ~(p.tick < pos.lower)
    BY <1>1, <1>2, <1>7
  <2> QED BY <1>4, <1>7, <2>1, <2>2 DEF Amount0, Amount1, Clamped
<1> QED BY <1>2, <1>5, <1>6, <1>7

(* The amounts of a position, rounded either way.                            *)
LEMMA AmountsRounded ==
  ASSUME NEW p, InOrder(p), NEW pos, Spans(pos), Liquid(pos.liquidity)
  PROVE  LET c == Clamped(p, pos)
             x == (pos.liquidity * Q) * (Upper(pos) - c)
             y == pos.liquidity * (c - Lower(pos))
         IN  /\ c \in PriceWord /\ Lower(pos) <= c /\ c <= Upper(pos)
             /\ IsCeiling(Amount0(p, pos, TRUE), x, Upper(pos) * c)
             /\ IsFloor(Amount0(p, pos, FALSE), x, Upper(pos) * c)
             /\ IsCeiling(Amount1(p, pos, TRUE), y, Q)
             /\ IsFloor(Amount1(p, pos, FALSE), y, Q)
<1> DEFINE a == Lower(pos)  b == Upper(pos)  c == Clamped(p, pos)
<1>1. a \in PriceWord /\ b \in PriceWord /\ a < b /\ p.sqrtRatio \in Nat /\ pos.liquidity \in Nat
  BY RangeOfPosition DEF InOrder, PriceWord, Spans
<1>2. c \in PriceWord /\ a <= c /\ c <= b
  BY <1>1, ClampedInRange DEF Clamped
<1>3. \A up \in BOOLEAN : /\ Amount0(p, pos, up) = Amount0Delta(c, b, pos.liquidity, up)
                          /\ Amount1(p, pos, up) = Amount1Delta(a, c, pos.liquidity, up)
  BY AmountsAtClamped
<1> HIDE DEF a, b, c
<1>4. /\ IsCeiling(Amount0Delta(c, b, pos.liquidity, TRUE), (pos.liquidity * Q) * (b - c), b * c)
      /\ IsFloor(Amount0Delta(c, b, pos.liquidity, FALSE), (pos.liquidity * Q) * (b - c), b * c)
      /\ IsCeiling(Amount1Delta(a, c, pos.liquidity, TRUE), pos.liquidity * (c - a), Q)
      /\ IsFloor(Amount1Delta(a, c, pos.liquidity, FALSE), pos.liquidity * (c - a), Q)
  BY <1>1, <1>2, Amount0Rounded, Amount1Rounded
<1>5. /\ IsCeiling(Amount0(p, pos, TRUE), (pos.liquidity * Q) * (b - c), b * c)
      /\ IsFloor(Amount0(p, pos, FALSE), (pos.liquidity * Q) * (b - c), b * c)
      /\ IsCeiling(Amount1(p, pos, TRUE), pos.liquidity * (c - a), Q)
      /\ IsFloor(Amount1(p, pos, FALSE), pos.liquidity * (c - a), Q)
  BY <1>3, <1>4
<1> QED BY <1>2, <1>5 DEF a, b, c
-----------------------------------------------------------------------------
(* What an amount of token0 buys between two prices costs no more than it.   *)
LEMMA ForAmount0Fits ==
  ASSUME NEW a \in PriceWord, NEW b \in PriceWord, a < b, NEW amount \in Nat,
         NEW liquidity \in {maxLiquidityForAmount0Imprecise(a, b, amount),
                            maxLiquidityForAmount0Precise(a, b, amount)}
  PROVE  liquidity \in Nat /\ (liquidity * Q) * (b - a) <= amount * (b * a)
<1> DEFINE d == b - a  n == b * a
<1>1. /\ d \in Nat \ {0} /\ n \in Nat /\ n = a * b /\ Q \in Nat \ {0} /\ Word \in Nat \ {0}
      /\ d < Word /\ a \in Nat /\ b \in Nat
  BY TicksInOrder DEF PriceWord
<1>2. Minus(b, a) = d
  BY <1>1, WordsThatFit DEF Minus
<1>3. (amount * a) * b = amount * n
  BY <1>1, SMTT(30)
<1> HIDE DEF d, n
<1>4. CASE liquidity = maxLiquidityForAmount0Precise(a, b, amount)
  <2> DEFINE e == Q * d  x == amount * n  q == x \div e
  <2>1. e \in Nat \ {0} /\ x \in Nat
    BY <1>1, SMTT(30)
  <2>2. liquidity = q % Word
    BY <1>3, <1>4 DEF maxLiquidityForAmount0Precise, d
  <2>3. IsFloor(q, x, e)
    BY <2>1, DivisionFacts
  <2> HIDE DEF e, x, q
  <2>4. q \in Nat /\ e * q <= x
    BY <2>3 DEF IsFloor
  <2>5. liquidity \in Nat /\ liquidity <= q
    BY <2>2, <2>4, WordsInRange
  <2>6. liquidity * e <= q * e /\ q * e = e * q
    BY <2>1, <2>4, <2>5, TimesMonotonic
  <2>7. (liquidity * Q) * d = liquidity * e
    BY <1>1, <2>5, SMTT(30) DEF e
  <2> QED BY <2>1, <2>4, <2>5, <2>6, <2>7 DEF x, d, n
<1>5. CASE liquidity = maxLiquidityForAmount0Imprecise(a, b, amount)
  <2> DEFINE t == Times(a, b)  k == t \div Q  s == Times(amount, k)  q == s \div d
  <2>1. t \in Nat /\ t <= n
    BY <1>1, WordsInRange DEF Times
  <2>2. IsFloor(k, t, Q)
    BY <1>1, <2>1, DivisionFacts
  <2>3. k \in Nat /\ Q * k <= t
    BY <2>2 DEF IsFloor
  <2> HIDE DEF k, t
  <2>4. amount * k \in Nat
    BY <2>3
  <2>5. s \in Nat /\ s <= amount * k
    BY <2>4, WordsInRange DEF Times
  <2> HIDE DEF s
  <2>6. IsFloor(q, s, d)
    BY <1>1, <2>5, DivisionFacts
  <2>7. liquidity = q
    BY <1>2, <1>5 DEF maxLiquidityForAmount0Imprecise, q, s, k, t
  <2> HIDE DEF q
  <2>8. liquidity \in Nat /\ d * liquidity <= amount * k
    BY <1>1, <2>4, <2>5, <2>6, <2>7 DEF IsFloor
  <2>9. (d * liquidity) * Q <= (amount * k) * Q
    BY <1>1, <2>4, <2>8, TimesMonotonic
  <2>10. (d * liquidity) * Q = (liquidity * Q) * d /\ (amount * k) * Q = (Q * k) * amount
    BY <1>1, <2>3, <2>8, SMTT(30)
  <2>11. (Q * k) * amount <= n * amount /\ n * amount = amount * n
    BY <1>1, <2>1, <2>3, TimesMonotonic
  <2> QED BY <1>1, <2>3, <2>8, <2>9, <2>10, <2>11 DEF d, n
<1> QED BY <1>4, <1>5

(* And what an amount of token1 buys.                                        *)
LEMMA ForAmount1Fits ==
  ASSUME NEW a \in PriceWord, NEW b \in PriceWord, a < b, NEW amount \in Nat
  PROVE  LET liquidity == maxLiquidityForAmount1(a, b, amount)
         IN  liquidity \in Nat /\ liquidity * (b - a) <= amount * Q
<1> DEFINE d == b - a  s == Times(amount, Q)  q == s \div d
<1>1. d \in Nat \ {0} /\ Q \in Nat \ {0} /\ d < Word /\ amount * Q \in Nat
  BY TicksInOrder DEF PriceWord
<1>2. Minus(b, a) = d
  BY <1>1, WordsThatFit DEF Minus
<1>3. s \in Nat /\ s <= amount * Q
  BY <1>1, WordsInRange DEF Times
<1> HIDE DEF d, s
<1>4. IsFloor(q, s, d)
  BY <1>1, <1>3, DivisionFacts
<1>5. maxLiquidityForAmount1(a, b, amount) = q
  BY <1>2 DEF maxLiquidityForAmount1, s
<1> HIDE DEF q
<1>6. q \in Nat /\ q * d <= amount * Q
  BY <1>1, <1>3, <1>4 DEF IsFloor
<1> QED BY <1>5, <1>6 DEF d

(* What two amounts buy at a price costs no more than either of them.        *)
LEMMA LiquidityFits ==
  ASSUME NEW p \in Nat, NEW a \in PriceWord, NEW b \in PriceWord, a < b,
         NEW amount0 \in Nat, NEW amount1 \in Nat, NEW full \in BOOLEAN
  PROVE  LET liquidity == MaxLiquidityForAmounts(p, a, b, amount0, amount1, full)
             c == ClampedTo(p, a, b)
         IN  /\ liquidity \in Nat
             /\ (liquidity * Q) * (b - c) <= amount0 * (b * c)
             /\ liquidity * (c - a) <= amount1 * Q
<1> DEFINE For0(x, y) == IF full THEN maxLiquidityForAmount0Precise(x, y, amount0)
                         ELSE maxLiquidityForAmount0Imprecise(x, y, amount0)
           L == MaxLiquidityForAmounts(p, a, b, amount0, amount1, full)
           c == ClampedTo(p, a, b)
<1>1. a \in Nat /\ b \in Nat /\ Q \in Nat \ {0} /\ amount1 * Q \in Nat /\ amount0 * (b * b) \in Nat
  BY TicksInOrder DEF PriceWord
<1>2. L = CASE p <= a -> For0(a, b)
            [] a < p /\ p < b -> Lesser(For0(p, b), maxLiquidityForAmount1(a, p, amount1))
            [] OTHER -> maxLiquidityForAmount1(a, b, amount1)
  BY DEF MaxLiquidityForAmounts
<1>3. ASSUME NEW x \in PriceWord, x < b
      PROVE  For0(x, b) \in Nat /\ (For0(x, b) * Q) * (b - x) <= amount0 * (b * x)
  BY <1>3, ForAmount0Fits
<1>4. ASSUME NEW y \in PriceWord, a < y
      PROVE  LET l == maxLiquidityForAmount1(a, y, amount1) IN l \in Nat /\ l * (y - a) <= amount1 * Q
  BY <1>4, ForAmount1Fits
<1> HIDE DEF For0
<1>5. CASE p <= a
  <2>1. c = a /\ L = For0(a, b)
    BY <1>1, <1>2, <1>5 DEF ClampedTo
  <2>2. L \in Nat /\ (L * Q) * (b - a) <= amount0 * (b * a)
    BY <1>3, <2>1
  <2>3. L * (a - a) = 0
    BY <1>1, <2>2
  <2> HIDE DEF L, c
  <2>4. L \in Nat /\ (L * Q) * (b - c) <= amount0 * (b * c) /\ L * (c - a) <= amount1 * Q
    BY <1>1, <2>1, <2>2, <2>3
  <2> QED BY <2>4 DEF L, c
<1>6. CASE a < p /\ p < b
  <2> DEFINE l0 == For0(p, b)  l1 == maxLiquidityForAmount1(a, p, amount1)
  <2>1. ~(p <= a) /\ p \in PriceWord /\ p \in Nat
    BY <1>1, <1>6, TicksInOrder DEF PriceWord
  <2>2. c = p /\ L = Lesser(l0, l1)
    BY <1>2, <1>6, <2>1 DEF ClampedTo
  <2>3. /\ l0 \in Nat /\ (l0 * Q) * (b - p) <= amount0 * (b * p)
        /\ l1 \in Nat /\ l1 * (p - a) <= amount1 * Q
    BY <1>3, <1>4, <1>6, <2>1
  <2> HIDE DEF L, c, l0, l1
  <2>4. L \in Nat /\ L <= l0 /\ L <= l1
    BY <2>2, <2>3 DEF Lesser
  <2>5. b - p \in Nat /\ p - a \in Nat /\ amount0 * (b * p) \in Nat
    BY <1>1, <1>6, <2>1
  <2>6. L * (Q * (b - p)) <= l0 * (Q * (b - p)) /\ L * (p - a) <= l1 * (p - a)
    BY <1>1, <2>3, <2>4, <2>5, TimesMonotonic
  <2>7. L * (Q * (b - p)) = (L * Q) * (b - p) /\ l0 * (Q * (b - p)) = (l0 * Q) * (b - p)
    BY <1>1, <2>3, <2>4, <2>5, SMTT(30)
  <2>8. (L * Q) * (b - p) <= amount0 * (b * p) /\ L * (p - a) <= amount1 * Q
    <3>1. /\ L * (Q * (b - p)) \in Int /\ l0 * (Q * (b - p)) \in Int
          /\ L * (p - a) \in Int /\ l1 * (p - a) \in Int
      BY <1>1, <2>3, <2>4, <2>5
    <3> QED BY <1>1, <2>3, <2>5, <2>6, <2>7, <3>1
  <2> QED BY <2>2, <2>4, <2>8 DEF L, c
<1>7. CASE ~(p <= a) /\ ~(p < b)
  <2>1. c = b /\ L = maxLiquidityForAmount1(a, b, amount1)
    BY <1>2, <1>7 DEF ClampedTo
  <2>2. L \in Nat /\ L * (b - a) <= amount1 * Q
    BY <1>4, <2>1
  <2>3. (L * Q) * (b - b) = 0
    BY <1>1, <2>2
  <2> HIDE DEF L, c
  <2>4. L \in Nat /\ (L * Q) * (b - c) <= amount0 * (b * c) /\ L * (c - a) <= amount1 * Q
    BY <1>1, <2>1, <2>2, <2>3
  <2> QED BY <2>4 DEF L, c
<1> HIDE DEF L, c
<1>8. L \in Nat /\ (L * Q) * (b - c) <= amount0 * (b * c) /\ L * (c - a) <= amount1 * Q
  BY <1>1, <1>5, <1>6, <1>7 DEF L, c
<1> QED BY <1>8 DEF L, c
-----------------------------------------------------------------------------
(* Full precision buys all that an amount of token0 pays for, as long as it  *)
(* is a word.                                                                *)
LEMMA ForAmount0IsMost ==
  ASSUME NEW a \in PriceWord, NEW b \in PriceWord, a < b, NEW amount \in Nat,
         amount * a * b < Word * (Q * (b - a))
  PROVE  LET liquidity == maxLiquidityForAmount0Precise(a, b, amount)
         IN  liquidity \in Nat /\ ((liquidity + 1) * Q) * (b - a) > amount * (b * a)
<1> DEFINE d == b - a  e == Q * d  x == (amount * a) * b  q == x \div e
<1>1. /\ d \in Nat \ {0} /\ Q \in Nat \ {0} /\ Word \in Nat \ {0} /\ a \in Nat /\ b \in Nat
  BY TicksInOrder DEF PriceWord
<1>2. x = amount * (b * a)
  BY <1>1, SMTT(30)
<1> HIDE DEF d
<1>3. e \in Nat \ {0} /\ x \in Nat
  BY <1>1, SMTT(30)
<1>4. IsFloor(q, x, e)
  BY <1>3, DivisionFacts
<1>5. x < Word * e
  BY DEF d
<1> HIDE DEF e, x
<1>6. q \in Nat /\ x < e * q + e /\ ~(Word <= q)
  <2>1. ~(e * Word <= x)
    BY <1>1, <1>3, <1>5
  <2>2. ~(Word <= q)
    BY <1>1, <1>3, <1>4, <2>1, FloorIsGreatest
  <2> QED BY <1>4, <2>2 DEF IsFloor
<1>7. maxLiquidityForAmount0Precise(a, b, amount) = q % Word
  BY DEF maxLiquidityForAmount0Precise, q, x, e, d
<1>8. q % Word = q
  BY <1>1, <1>6, WordsThatFit
<1> HIDE DEF q
<1>9. ((q + 1) * Q) * d = e * q + e
  BY <1>1, <1>6, SMTT(30) DEF e
<1> QED BY <1>1, <1>2, <1>3, <1>6, <1>7, <1>8, <1>9 DEF d

(* The same of token1, whose product with Q96 is a word.                     *)
LEMMA ForAmount1IsMost ==
  ASSUME NEW a \in PriceWord, NEW b \in PriceWord, a < b, NEW amount \in Nat, amount * Q < Word
  PROVE  LET liquidity == maxLiquidityForAmount1(a, b, amount)
         IN  liquidity \in Nat /\ (liquidity + 1) * (b - a) > amount * Q
<1> DEFINE d == b - a  s == amount * Q  q == s \div d
<1>1. d \in Nat \ {0} /\ Q \in Nat \ {0} /\ d < Word /\ s \in Nat
  BY TicksInOrder DEF PriceWord
<1>2. Minus(b, a) = d /\ Times(amount, Q) = s
  BY <1>1, WordsThatFit DEF Minus, Times
<1> HIDE DEF d, s
<1>3. IsFloor(q, s, d)
  BY <1>1, DivisionFacts
<1>4. maxLiquidityForAmount1(a, b, amount) = q
  BY <1>2 DEF maxLiquidityForAmount1
<1> HIDE DEF q
<1>5. q \in Nat /\ s < d * q + d /\ (q + 1) * d = d * q + d
  BY <1>1, <1>3 DEF IsFloor
<1> QED BY <1>4, <1>5 DEF d, s

(* One unit more than what two amounts buy costs more than one of them.      *)
LEMMA LiquidityIsMost ==
  ASSUME NEW p \in Nat, NEW a \in PriceWord, NEW b \in PriceWord, a < b,
         NEW amount0 \in Nat, NEW amount1 \in Nat, amount1 * Q < Word,
         \A x \in {a, p} : x < b => amount0 * x * b < Word * (Q * (b - x))
  PROVE  LET liquidity == MaxLiquidityForAmounts(p, a, b, amount0, amount1, TRUE)
             c == ClampedTo(p, a, b)
         IN  \/ ((liquidity + 1) * Q) * (b - c) > amount0 * (b * c)
             \/ (liquidity + 1) * (c - a) > amount1 * Q
<1> DEFINE L == MaxLiquidityForAmounts(p, a, b, amount0, amount1, TRUE)
           c == ClampedTo(p, a, b)
<1>1. a \in Nat /\ b \in Nat /\ Q \in Nat \ {0}
  BY TicksInOrder DEF PriceWord
<1>2. L = CASE p <= a -> maxLiquidityForAmount0Precise(a, b, amount0)
            [] a < p /\ p < b -> Lesser(maxLiquidityForAmount0Precise(p, b, amount0),
                                        maxLiquidityForAmount1(a, p, amount1))
            [] OTHER -> maxLiquidityForAmount1(a, b, amount1)
  BY DEF MaxLiquidityForAmounts
<1>3. ASSUME NEW x \in PriceWord, x \in {a, p}, x < b
      PROVE  LET l == maxLiquidityForAmount0Precise(x, b, amount0)
             IN  l \in Nat /\ ((l + 1) * Q) * (b - x) > amount0 * (b * x)
  BY <1>3, ForAmount0IsMost
<1>4. ASSUME NEW y \in PriceWord, a < y
      PROVE  LET l == maxLiquidityForAmount1(a, y, amount1)
             IN  l \in Nat /\ (l + 1) * (y - a) > amount1 * Q
  BY <1>4, ForAmount1IsMost
<1> DEFINE Most(l, z) == \/ ((l + 1) * Q) * (b - z) > amount0 * (b * z)
                         \/ (l + 1) * (z - a) > amount1 * Q
<1> SUFFICES Most(L, c)
  OBVIOUS
<1>5. CASE p <= a
  <2>1. c = a
    BY <1>5 DEF ClampedTo
  <2>3. ~(a < p /\ p < b)
    BY <1>1, <1>5
  <2>4. L = maxLiquidityForAmount0Precise(a, b, amount0)
    BY <1>2, <1>5, <2>3
  <2>2. Most(maxLiquidityForAmount0Precise(a, b, amount0), a)
    BY <1>3
  <2> HIDE DEF L, c, Most
  <2> QED BY <2>1, <2>2, <2>4
<1>6. CASE a < p /\ p < b
  <2>1. ~(p <= a) /\ p \in PriceWord
    BY <1>1, <1>6, TicksInOrder DEF PriceWord
  <2> DEFINE l0 == maxLiquidityForAmount0Precise(p, b, amount0)  l1 == maxLiquidityForAmount1(a, p, amount1)
  <2>2. c = p /\ L = Lesser(l0, l1)
    BY <1>2, <1>6, <2>1 DEF ClampedTo
  <2>3. ((l0 + 1) * Q) * (b - p) > amount0 * (b * p)
    BY <1>3, <1>6, <2>1
  <2>4. (l1 + 1) * (p - a) > amount1 * Q
    BY <1>4, <1>6, <2>1
  <2>5. L = l0 \/ L = l1
    BY <2>2 DEF Lesser
  <2> HIDE DEF L, c, Most, l0, l1
  <2> QED BY <2>2, <2>3, <2>4, <2>5 DEF Most
<1>7. CASE ~(p <= a) /\ ~(p < b)
  <2>1. c = b /\ L = maxLiquidityForAmount1(a, b, amount1)
    BY <1>1, <1>2, <1>7 DEF ClampedTo
  <2>2. Most(maxLiquidityForAmount1(a, b, amount1), b)
    BY <1>4
  <2> HIDE DEF L, c, Most
  <2> QED BY <2>1, <2>2
<1> HIDE DEF Most, L, c
<1> QED BY <1>1, <1>5, <1>6, <1>7

(* The amount of token0 is exact up to its rounding as long as the quotient  *)
(* of the first division is a word.                                          *)
LEMMA Amount0IsCeiling ==
  ASSUME NEW a \in PriceWord, NEW b \in PriceWord, a <= b, NEW liquidity \in Nat,
         (liquidity * Q) * (b - a) <= b * (Word - 1)
  PROVE  IsCeiling(Amount0Delta(a, b, liquidity, TRUE), (liquidity * Q) * (b - a), b * a)
<1> DEFINE n == liquidity * Q  d == b - a
<1>1. a \in Nat \ {0} /\ b \in Nat \ {0} /\ n \in Nat /\ d \in Nat /\ d < Word
  BY TicksInOrder DEF PriceWord
<1>2. Minus(b, a) = d
  BY <1>1, WordsThatFit DEF Minus
<1>3. n * d <= b * (Word - 1) /\ n * d \in Nat
  BY <1>1
<1> HIDE DEF n, d
<1>4. IsCeiling(MulDivRoundingUp(n, d, b), n * d, b)
  BY <1>1, <1>3, MulDivRoundingUpIsCeiling
<1>5. IsCeiling(DivRoundingUp(MulDivRoundingUp(n, d, b), a), MulDivRoundingUp(n, d, b), a)
  BY <1>1, <1>4, DivRoundingUpIsCeiling DEF IsCeiling
<1>6. IsCeiling(DivRoundingUp(MulDivRoundingUp(n, d, b), a), n * d, b * a)
  BY <1>1, <1>3, <1>4, <1>5, CeilingOfCeiling
<1> QED BY <1>2, <1>6 DEF Amount0Delta, n, d

(* However large the liquidity, no more of token0 is asked for than exact    *)
(* arithmetic would: what wraps only makes it less.                          *)
LEMMA Amount0AtMost ==
  ASSUME NEW a \in PriceWord, NEW b \in PriceWord, a <= b, NEW liquidity \in Nat, NEW k \in Nat,
         (liquidity * Q) * (b - a) <= k * (b * a)
  PROVE  Amount0Delta(a, b, liquidity, TRUE) \in Nat /\ Amount0Delta(a, b, liquidity, TRUE) <= k
<1> DEFINE n == liquidity * Q  d == b - a  x == n * d  q == x \div b  m == MulDivRoundingUp(n, d, b)
<1>1. a \in Nat \ {0} /\ b \in Nat \ {0} /\ n \in Nat /\ d \in Nat /\ d < Word /\ Word \in Nat
  BY TicksInOrder DEF PriceWord
<1>2. Minus(b, a) = d
  BY <1>1, WordsThatFit DEF Minus
<1>3. x \in Nat /\ a * k \in Nat /\ k * (b * a) = b * (a * k)
  BY <1>1, SMTT(30)
<1>4. x <= b * (a * k)
  BY <1>3
<1>5. m = IF b # 0 /\ x % b # 0 /\ q < Word - 1 THEN q + 1 ELSE q % Word
  BY <1>1 DEF MulDivRoundingUp, MulDiv
<1>6. Amount0Delta(a, b, liquidity, TRUE) = DivRoundingUp(m, a)
  BY <1>2 DEF Amount0Delta
<1> HIDE DEF n, d, x, m
<1>7. IsFloor(q, x, b) /\ x % b \in 0 .. b-1 /\ x = b * q + (x % b)
  BY <1>1, <1>3, DivisionFacts
<1> HIDE DEF q
<1>8. q \in Nat /\ b * q <= x
  BY <1>7 DEF IsFloor
<1>9. m \in Nat /\ m <= a * k
  <2>1. q * b <= (a * k) * b
    BY <1>1, <1>3, <1>4, <1>8
  <2>2. q <= a * k
    BY <1>1, <1>3, <1>8, <2>1, TimesMonotonic
  <2>3. CASE b # 0 /\ x % b # 0 /\ q < Word - 1
    <3>1. q * b < (a * k) * b
      <4>1. b * q < x
        BY <1>1, <1>7, <1>8, <2>3
      <4> QED BY <1>1, <1>3, <1>4, <1>8, <4>1
    <3>2. q < a * k
      BY <1>1, <1>3, <1>8, <3>1, TimesMonotonic
    <3> QED BY <1>3, <1>5, <1>8, <2>3, <3>2
  <2>4. CASE ~(b # 0 /\ x % b # 0 /\ q < Word - 1)
    <3>1. m = q % Word
      BY <1>5, <2>4
    <3>2. q % Word \in Nat /\ q % Word <= q
      BY <1>8, WordsInRange
    <3> QED BY <1>3, <1>8, <2>2, <3>1, <3>2
  <2> QED BY <2>3, <2>4
<1>10. IsCeiling(DivRoundingUp(m, a), m, a)
  BY <1>1, <1>9, DivRoundingUpIsCeiling
<1>11. DivRoundingUp(m, a) <= k
  BY <1>1, <1>9, <1>10, CeilingIsLeast
<1> QED BY <1>6, <1>10, <1>11 DEF IsCeiling

LEMMA Amount1AtMost ==
  ASSUME NEW a \in PriceWord, NEW b \in PriceWord, a <= b, NEW liquidity \in Nat, NEW k \in Nat,
         liquidity * (b - a) <= k * Q
  PROVE  Amount1Delta(a, b, liquidity, TRUE) \in Nat /\ Amount1Delta(a, b, liquidity, TRUE) <= k
<1> DEFINE x == liquidity * (b - a)  amount == Amount1Delta(a, b, liquidity, TRUE)
<1>1. x \in Int /\ Q \in Nat \ {0} /\ k * Q = Q * k
  BY TicksInOrder DEF PriceWord
<1>2. IsCeiling(amount, x, Q)
  BY Amount1Rounded
<1>3. x <= Q * k
  BY <1>1
<1> HIDE DEF x, amount
<1>4. amount \in Nat /\ amount <= k
  BY <1>1, <1>2, <1>3, CeilingIsLeast DEF IsCeiling
<1> QED BY <1>4 DEF amount
-----------------------------------------------------------------------------
(* The root that SquareRoot chooses is there.                                *)
LEMMA SquareRootFact ==
  ASSUME NEW x \in Nat
  PROVE  LET r == SquareRoot(x) IN r \in Nat /\ r * r <= x /\ x < (r+1) * (r+1)
<1> DEFINE T == {r \in Nat : x < (r+1) * (r+1)}
<1>1. x \in T
  <2>1. (x+1) * (x+1) = x * x + x + x + 1 /\ x * x >= 0
    BY SMTT(30)
  <2> QED BY <2>1
<1>2. PICK r \in T : \A y \in T : r <= y
  BY <1>1, NatMinimum
<1>3. r \in 0 .. x /\ x < (r+1) * (r+1)
  BY <1>1, <1>2
<1>4. r * r <= x
  <2>1. CASE r = 0
    BY <2>1
  <2>2. CASE r # 0
    <3>1. r-1 \in Nat /\ r-1 < r /\ (r-1) + 1 = r
      BY <1>3, <2>2
    <3>2. r-1 \notin T
      BY <1>2, <1>3, <3>1
    <3>3. ~(x < ((r-1) + 1) * ((r-1) + 1))
      BY <3>1, <3>2
    <3>4. ~(x < r * r)
      BY <3>1, <3>3
    <3> QED BY <1>3, <3>4
  <2> QED BY <2>1, <2>2
<1> DEFINE IsRoot(y) == y * y <= x /\ x < (y+1) * (y+1)
<1>5. SquareRoot(x) = CHOOSE y \in 0 .. x : IsRoot(y)
  BY DEF SquareRoot
<1>6. SquareRoot(x) \in 0 .. x /\ IsRoot(SquareRoot(x))
  <2>1. IsRoot(r)
    BY <1>3, <1>4
  <2> HIDE DEF IsRoot
  <2> QED BY <1>3, <1>5, <2>1
<1> QED BY <1>6

(* Squares are ordered as their roots are.                                   *)
LEMMA SquaresInOrder ==
  ASSUME NEW a \in Nat, NEW b \in Nat
  PROVE  a <= b <=> a * a <= b * b
<1>1. ASSUME a <= b PROVE a * a <= b * b
  <2>1. (b - a) * (b + a) >= 0
    BY <1>1, SMTT(30)
  <2>2. (b - a) * (b + a) = b * b - a * a
    BY SMTT(30)
  <2> QED BY <2>1, <2>2
<1>2. ASSUME b < a PROVE b * b < a * a
  <2>1. (a - b) * (a + b) > 0
    BY <1>2, SMTT(30)
  <2>2. (a - b) * (a + b) = a * a - b * b
    BY SMTT(30)
  <2> QED BY <2>1, <2>2
<1> QED BY <1>1, <1>2

(* The prices at the ends of the tolerance lie around the pool's and in the  *)
(* table: no clamp takes effect but one below the pool's price.              *)
LEMMA RatiosAroundPrice ==
  ASSUME NEW p \in PriceWord, p > MinSqrtRatio, p * p < Word, NEW s \in Tolerances
  PROVE  LET r == ratiosAfterSlippage(p * p, s)
         IN  /\ r.lower \in PriceWord /\ MinSqrtRatio <= r.lower /\ r.lower <= p
             /\ r.upper \in PriceWord /\ p <= r.upper
<1> DEFINE price == p * p  m == s[1]  d == s[2]
           x == (price * (d - m)) \div d  y == (price * (d + m)) \div d
           low == SquareRoot(x)  high == SquareRoot(y)  ratios == ratiosAfterSlippage(price, s)
<1>1. /\ p \in Nat \ {0} /\ price \in Nat /\ d \in Nat \ {0} /\ m \in Nat /\ m <= d
      /\ MinSqrtRatio \in Nat \ {0} /\ MaxSqrtRatio \in Nat /\ MaxSqrtRatio < Word /\ Word \in Nat
      /\ 2 * Word <= MaxSqrtRatio * MaxSqrtRatio
  <2>1. m \in 0 .. d /\ d \in Nat \ {0} /\ 2 * Word <= MaxSqrtRatio * MaxSqrtRatio
    BY PositionAssumption
  <2>2. MinSqrtRatio \in PriceWord /\ MaxSqrtRatio \in PriceWord
    BY TicksInOrder DEF MinSqrtRatio, MaxSqrtRatio
  <2> QED BY <2>1, <2>2, TicksInOrder DEF PriceWord
<1> HIDE DEF m, d
<1>2. /\ d - m \in Nat /\ d - m <= d /\ d + m \in Nat /\ d <= d + m /\ d + m <= 2 * d
      /\ price * (d - m) \in Nat /\ price * (d + m) \in Nat
  BY <1>1
<1>3. IsFloor(x, price * (d - m), d) /\ IsFloor(y, price * (d + m), d)
  BY <1>1, <1>2, DivisionFacts
<1>4. ratios.lower = ClampLower(low) /\ ratios.upper = ClampUpper(high)
  BY DEF ratiosAfterSlippage, m, d
<1>5. x \in Nat /\ x <= price
  <2>1. (d - m) * price <= d * price
    BY <1>1, <1>2, TimesMonotonic
  <2>2. x \in Nat /\ d * x <= price * (d - m)
    BY <1>3 DEF IsFloor
  <2> HIDE DEF x, price
  <2>3. x * d <= price * d
    BY <1>1, <1>2, <2>1, <2>2
  <2> QED BY <1>1, <2>2, <2>3, TimesMonotonic
<1>6. y \in Nat /\ price <= y /\ y <= 2 * price
  <2>1. d * price <= (d + m) * price /\ (d + m) * price <= (2 * d) * price
    BY <1>1, <1>2, TimesMonotonic
  <2>2. y \in Nat /\ d * y <= price * (d + m)
    BY <1>3 DEF IsFloor
  <2>3. d * price <= price * (d + m)
    BY <1>1, <1>2, <2>1
  <2>4. price <= y
    <3> HIDE DEF y
    <3> QED BY <1>1, <1>2, <1>3, <2>3, FloorIsGreatest
  <2> HIDE DEF y, price
  <2>5. y * d <= (2 * price) * d
    BY <1>1, <1>2, <2>1, <2>2, SMTT(30)
  <2>6. y <= 2 * price
    BY <1>1, <2>2, <2>5, TimesMonotonic
  <2> QED BY <2>2, <2>4, <2>6
<1> HIDE DEF x, y
<1>7. /\ low \in Nat /\ low * low <= x
      /\ high \in Nat /\ high * high <= y /\ y < (high + 1) * (high + 1)
  BY <1>5, <1>6, SquareRootFact
<1> HIDE DEF low, high
<1>8. low <= p
  <2>1. low * low <= p * p
    <3>1. low * low \in Int
      BY <1>7
    <3> QED BY <1>1, <1>5, <1>7, <3>1
  <2> QED BY <1>1, <1>7, <2>1, SquaresInOrder
<1>9. p <= high
  <2>1. p * p < (high + 1) * (high + 1)
    <3>1. (high + 1) * (high + 1) \in Int
      BY <1>7
    <3> QED BY <1>1, <1>6, <1>7, <3>1
  <2>2. ~(high + 1 <= p)
    <3>1. high + 1 <= p <=> (high + 1) * (high + 1) <= p * p
      BY <1>1, <1>7, SquaresInOrder
    <3>2. (high + 1) * (high + 1) \in Int
      BY <1>7
    <3> QED BY <1>1, <2>1, <3>1, <3>2
  <2> QED BY <1>1, <1>7, <2>2
<1>10. high < MaxSqrtRatio
  <2>1. MaxSqrtRatio <= high <=> MaxSqrtRatio * MaxSqrtRatio <= high * high
    BY <1>1, <1>7, SquaresInOrder
  <2>2. high * high \in Int /\ MaxSqrtRatio * MaxSqrtRatio \in Int
    BY <1>1, <1>7
  <2>3. high * high < MaxSqrtRatio * MaxSqrtRatio
    BY <1>1, <1>6, <1>7, <2>2
  <2> QED BY <1>1, <1>7, <2>1, <2>2, <2>3
<1>11. /\ ClampLower(low) \in PriceWord /\ MinSqrtRatio <= ClampLower(low) /\ ClampLower(low) <= p
  <2>1. p < Word /\ MinSqrtRatio + 1 <= p
    BY <1>1 DEF PriceWord
  <2> HIDE DEF price
  <2> QED BY <1>1, <1>7, <1>8, <2>1 DEF ClampLower, PriceWord
<1>12. ClampUpper(high) = high /\ high \in PriceWord
  <2> HIDE DEF price
  <2> QED BY <1>1, <1>7, <1>9, <1>10 DEF ClampUpper, PriceWord
<1> QED BY <1>4, <1>9, <1>11, <1>12
-----------------------------------------------------------------------------
(* The price of one pool up to that of another.                              *)
LEMMA ClampedInOrder ==
  ASSUME NEW p \in Nat, NEW q \in Nat, p <= q, NEW a \in PriceWord, NEW b \in PriceWord, a < b
  PROVE  ClampedTo(p, a, b) <= ClampedTo(q, a, b)
BY TicksInOrder DEF ClampedTo, PriceWord

(* At a higher price the same liquidity holds less of token0.                *)
LEMMA Token0Falls ==
  ASSUME NEW n \in Nat, NEW b \in Nat, NEW c \in Nat, NEW e \in Nat, c <= e, e <= b, NEW k \in Nat
  PROVE  /\ (b * e) * k <= n * (b - e) => (b * c) * k <= n * (b - c)
         /\ n * (b - c) <= k * (b * c) => n * (b - e) <= k * (b * e)
<1>1. b * c \in Nat /\ b * e \in Nat /\ b - c \in Nat /\ b - e \in Nat /\ b - e <= b - c
  OBVIOUS
<1>2. c * b <= e * b /\ c * b = b * c /\ e * b = b * e
  BY TimesMonotonic
<1>3. (b * c) * k <= (b * e) * k /\ (b - e) * n <= (b - c) * n
  BY <1>1, <1>2, TimesMonotonic
<1>4. /\ (b * c) * k \in Int /\ (b * e) * k \in Int /\ n * (b - e) \in Int /\ n * (b - c) \in Int
      /\ n * (b - e) = (b - e) * n /\ n * (b - c) = (b - c) * n
      /\ k * (b * c) = (b * c) * k /\ k * (b * e) = (b * e) * k
  BY <1>1
<1> QED BY <1>3, <1>4

(* A burn at a lower price gives no less of token0, at a higher price no     *)
(* less of token1.                                                           *)
LEMMA BurnAlongPrice ==
  ASSUME NEW p, InOrder(p), NEW q, InOrder(q), p.sqrtRatio <= q.sqrtRatio,
         NEW pos, Spans(pos), Liquid(pos.liquidity)
  PROVE  /\ BurnAmounts(p, pos)[1] >= BurnAmounts(q, pos)[1]
         /\ BurnAmounts(q, pos)[2] >= BurnAmounts(p, pos)[2]
<1> DEFINE a == Lower(pos)  b == Upper(pos)  c == Clamped(p, pos)  e == Clamped(q, pos)  n == pos.liquidity * Q
           p0 == Amount0(p, pos, FALSE)  q0 == Amount0(q, pos, FALSE)
           p1 == Amount1(p, pos, FALSE)  q1 == Amount1(q, pos, FALSE)
           l == pos.liquidity
<1>1. /\ c \in PriceWord /\ a <= c /\ c <= b /\ IsFloor(p0, n * (b - c), b * c) /\ IsFloor(p1, l * (c - a), Q)
      /\ e \in PriceWord /\ a <= e /\ e <= b /\ IsFloor(q0, n * (b - e), b * e) /\ IsFloor(q1, l * (e - a), Q)
  BY AmountsRounded
<1>2. c <= e
  BY ClampedInOrder, RangeOfPosition DEF Clamped, InOrder, PriceWord
<1>3. a \in PriceWord /\ b \in PriceWord
  BY RangeOfPosition
<1>4. l \in Nat
  BY DEF Liquid
<1>5. BurnAmounts(p, pos)[1] = p0 /\ BurnAmounts(p, pos)[2] = p1 /\ BurnAmounts(q, pos)[1] = q0 /\ BurnAmounts(q, pos)[2] = q1
  BY DEF BurnAmounts
<1> HIDE DEF a, b, c, e, p0, q0, p1, q1, l
<1>6. /\ a \in Nat \ {0} /\ b \in Nat \ {0} /\ c \in Nat \ {0} /\ e \in Nat \ {0} /\ n \in Nat
      /\ Q \in Nat \ {0} /\ p0 \in Nat /\ q0 \in Nat /\ p1 \in Nat /\ q1 \in Nat
  BY <1>1, <1>3, <1>4, TicksInOrder DEF PriceWord, IsFloor, l
<1> HIDE DEF n
<1>7. q0 <= p0
  <2>1. (b * e) * q0 <= n * (b - e)
    BY <1>1 DEF IsFloor
  <2>2. (b * c) * q0 <= n * (b - c)
    BY <1>1, <1>2, <1>6, <2>1, Token0Falls
  <2>3. n * (b - c) \in Int /\ b * c \in Nat \ {0}
    BY <1>6, SMTT(30)
  <2> QED BY <1>1, <1>6, <2>2, <2>3, FloorIsGreatest
<1>8. p1 <= q1
  <2>1. Q * p1 <= l * (c - a)
    BY <1>1 DEF IsFloor
  <2>2. (c - a) * l <= (e - a) * l
    BY <1>2, <1>4, <1>6, TimesMonotonic
  <2>3. l * (e - a) \in Int /\ l * (c - a) \in Int /\ l * (e - a) = (e - a) * l /\ l * (c - a) = (c - a) * l
    BY <1>4, <1>6
  <2>4. Q * p1 <= l * (e - a)
    BY <1>6, <2>1, <2>2, <2>3
  <2> QED BY <1>1, <1>6, <2>3, <2>4, FloorIsGreatest
<1> QED BY <1>5, <1>6, <1>7, <1>8
-----------------------------------------------------------------------------
Made == [amount0 : Nat, amount1 : Nat, full : BOOLEAN]
Position == [lower : Tick, upper : Tick, liquidity : Nat, from : Made]

(* What is made of two amounts at one price costs no more than they are at   *)
(* the others, for each token on the side where it is the cheaper one.       *)
LEMMA CreatedAlongPrice ==
  ASSUME NEW p, InOrder(p), NEW q, InOrder(q), NEW pos, Spans(pos),
         NEW amount0 \in Nat, NEW amount1 \in Nat, NEW full \in BOOLEAN,
         pos.liquidity = LiquidityFromAmounts(p, pos.lower, pos.upper, amount0, amount1, full)
  PROVE  /\ p.sqrtRatio <= q.sqrtRatio => MintAmounts(q, pos)[1] \in 0 .. amount0
         /\ q.sqrtRatio <= p.sqrtRatio => MintAmounts(q, pos)[2] \in 0 .. amount1
<1> DEFINE a == Lower(pos)  b == Upper(pos)  c == Clamped(p, pos)  e == Clamped(q, pos)  l == pos.liquidity
<1>1. a \in PriceWord /\ b \in PriceWord /\ a < b /\ p.sqrtRatio \in Nat /\ q.sqrtRatio \in Nat
  BY RangeOfPosition, TicksInOrder DEF InOrder, PriceWord
<1>2. /\ c = ClampedTo(p.sqrtRatio, a, b) /\ e = ClampedTo(q.sqrtRatio, a, b)
      /\ l = MaxLiquidityForAmounts(p.sqrtRatio, a, b, amount0, amount1, full)
  BY DEF Clamped, LiquidityFromAmounts, Lower, Upper
<1>3. /\ MintAmounts(q, pos)[1] = Amount0Delta(e, b, l, TRUE)
      /\ MintAmounts(q, pos)[2] = Amount1Delta(a, e, l, TRUE)
  BY AmountsAtClamped DEF MintAmounts
<1> HIDE DEF a, b, c, e, l
<1>4. /\ c \in PriceWord /\ a <= c /\ c <= b
      /\ e \in PriceWord /\ a <= e /\ e <= b
  BY <1>1, <1>2, ClampedInRange
<1>5. /\ l \in Nat /\ (l * Q) * (b - c) <= amount0 * (b * c) /\ l * (c - a) <= amount1 * Q
  BY <1>1, <1>2, LiquidityFits
<1>6. a \in Nat /\ b \in Nat /\ c \in Nat /\ e \in Nat /\ Q \in Nat
  BY <1>1, <1>4, TicksInOrder DEF PriceWord
<1>7. ASSUME p.sqrtRatio <= q.sqrtRatio PROVE MintAmounts(q, pos)[1] \in 0 .. amount0
  <2>1. c <= e
    BY <1>1, <1>2, <1>7, ClampedInOrder
  <2> DEFINE n == l * Q
  <2>2. n \in Nat
    BY <1>5, <1>6
  <2> HIDE DEF n
  <2>3. n * (b - e) <= amount0 * (b * e)
    BY <1>4, <1>5, <1>6, <2>1, <2>2, Token0Falls DEF n
  <2>4. Amount0Delta(e, b, l, TRUE) \in Nat /\ Amount0Delta(e, b, l, TRUE) <= amount0
    BY <1>1, <1>4, <1>5, <2>3, Amount0AtMost DEF n
  <2> DEFINE v == Amount0Delta(e, b, l, TRUE)
  <2> HIDE DEF v
  <2>5. v \in 0 .. amount0
    <3>1. v \in Nat /\ v <= amount0
      BY <2>4 DEF v
    <3> QED BY <3>1
  <2> QED BY <1>3, <2>5, Zenon DEF v
<1>8. ASSUME q.sqrtRatio <= p.sqrtRatio PROVE MintAmounts(q, pos)[2] \in 0 .. amount1
  <2>1. e <= c
    BY <1>1, <1>2, <1>8, ClampedInOrder
  <2>2. (e - a) * l <= (c - a) * l
    BY <1>5, <1>6, <2>1, TimesMonotonic
  <2>3. (e - a) * l = l * (e - a) /\ (c - a) * l = l * (c - a) /\ l * (e - a) \in Int /\ l * (c - a) \in Int /\ amount1 * Q \in Int
    BY <1>5, <1>6
  <2>4. l * (e - a) <= amount1 * Q
    BY <1>5, <2>2, <2>3
  <2>5. Amount1Delta(a, e, l, TRUE) \in Nat /\ Amount1Delta(a, e, l, TRUE) <= amount1
    BY <1>1, <1>4, <1>5, <2>4, Amount1AtMost
  <2> DEFINE v == Amount1Delta(a, e, l, TRUE)
  <2> HIDE DEF v
  <2>6. v \in 0 .. amount1
    <3>1. v \in Nat /\ v <= amount1
      BY <2>5 DEF v
    <3> QED BY <3>1
  <2> QED BY <1>3, <2>6, Zenon DEF v
<1> QED BY <1>7, <1>8

(* The amounts of a position are natural numbers.                            *)
LEMMA AmountsAreNatural ==
  ASSUME NEW p, InOrder(p), NEW pos, Spans(pos), Liquid(pos.liquidity)
  PROVE  /\ MintAmounts(p, pos)[1] \in Nat /\ MintAmounts(p, pos)[2] \in Nat
         /\ BurnAmounts(p, pos)[1] \in Nat /\ BurnAmounts(p, pos)[2] \in Nat
         /\ MintAmounts(p, pos)[1] - BurnAmounts(p, pos)[1] \in {0, 1}
<1> DEFINE x == (pos.liquidity * Q) * (Upper(pos) - Clamped(p, pos))  d == Upper(pos) * Clamped(p, pos)
           up == Amount0(p, pos, TRUE)  down == Amount0(p, pos, FALSE)
<1>1. /\ IsCeiling(up, x, d) /\ IsFloor(down, x, d)
      /\ Amount1(p, pos, TRUE) \in Nat /\ Amount1(p, pos, FALSE) \in Nat /\ Clamped(p, pos) \in PriceWord
  BY AmountsRounded DEF IsCeiling, IsFloor
<1>2. d \in Nat \ {0} /\ x \in Int
  <2>1. Upper(pos) \in Nat \ {0} /\ Clamped(p, pos) \in Nat \ {0} /\ pos.liquidity * Q \in Nat
    BY <1>1, RangeOfPosition, TicksInOrder DEF PriceWord, Liquid
  <2> QED BY <2>1, SMTT(30)
<1>3. MintAmounts(p, pos)[1] = up /\ BurnAmounts(p, pos)[1] = down
  BY DEF MintAmounts, BurnAmounts
<1> HIDE DEF x, d, up, down
<1>4. /\ up \in Nat /\ down \in Nat /\ x <= d * up /\ d * up < x + d /\ d * down <= x /\ x < d * down + d
  BY <1>1 DEF IsCeiling, IsFloor
<1>5. down * d <= up * d /\ up * d < (down + 2) * d /\ d * up = up * d /\ d * down = down * d
  <2>1. d * up = up * d /\ d * down = down * d /\ (down + 2) * d = down * d + d + d
    BY <1>2, <1>4
  <2> QED BY <1>2, <1>4, <2>1
<1>6. down <= up /\ up < down + 2
  BY <1>2, <1>4, <1>5, TimesMonotonic
<1>7. up - down \in {0, 1}
  BY <1>4, <1>6
<1> QED BY <1>1, <1>3, <1>4, <1>7 DEF MintAmounts, BurnAmounts

(* A mint at the price it is quoted for takes the minimums.                  *)
LEMMA MintCanBeMet ==
  ASSUME NEW p, InOrder(p), p.sqrtRatio > MinSqrtRatio, p.sqrtRatio * p.sqrtRatio < Word,
         NEW pos \in Position, Spans(pos), Liquid(pos.liquidity), NEW s \in Tolerances
  PROVE  AtLeast(MintAmounts(p, pos), MintAmountsWithSlippage(p, pos, p.sqrtRatio * p.sqrtRatio, s))
<1> DEFINE r == ratiosAfterSlippage(p.sqrtRatio * p.sqrtRatio, s)
           desired == MintAmounts(p, pos)
           created == [pos EXCEPT !.liquidity =
                         LiquidityFromAmounts(p, pos.lower, pos.upper, desired[1], desired[2], FALSE)]
           above == PoolAt(r.upper)  below == PoolAt(r.lower)
<1>1. p.sqrtRatio \in PriceWord
  BY DEF InOrder
<1>2. /\ r.lower \in PriceWord /\ MinSqrtRatio <= r.lower /\ r.lower <= p.sqrtRatio
      /\ r.upper \in PriceWord /\ p.sqrtRatio <= r.upper
  BY <1>1, RatiosAroundPrice
<1>3. MinSqrtRatio <= r.upper
  <2>1. MinSqrtRatio \in Int /\ r.lower \in Int /\ r.upper \in Int /\ p.sqrtRatio \in Int
    BY <1>1, <1>2, TicksInOrder DEF PriceWord, MinSqrtRatio
  <2> QED BY <1>2, <2>1
<1>4. /\ InOrder(above) /\ above.sqrtRatio = r.upper
      /\ InOrder(below) /\ below.sqrtRatio = r.lower
  BY <1>2, <1>3, PoolAtInOrder
<1>5. MintAmountsWithSlippage(p, pos, p.sqrtRatio * p.sqrtRatio, s)
        = [i \in {1, 2} |-> MintAmounts(SmallerAt(r)[i], created)[i]]
  BY DEF MintAmountsWithSlippage
<1>6. SmallerAt(r)[1] = above /\ SmallerAt(r)[2] = below
  BY DEF SmallerAt
<1>7. desired[1] \in Nat /\ desired[2] \in Nat
  BY AmountsAreNatural
<1>8. /\ created.lower = pos.lower /\ created.upper = pos.upper
      /\ created.liquidity = LiquidityFromAmounts(p, pos.lower, pos.upper, desired[1], desired[2], FALSE)
  BY DEF Position
<1> HIDE DEF r, desired, created, above, below
<1>9. created.liquidity \in Nat
  <2>1. Lower(pos) \in PriceWord /\ Upper(pos) \in PriceWord /\ Lower(pos) < Upper(pos) /\ p.sqrtRatio \in Nat
    BY <1>1, RangeOfPosition, TicksInOrder DEF PriceWord
  <2>2. MaxLiquidityForAmounts(p.sqrtRatio, Lower(pos), Upper(pos), desired[1], desired[2], FALSE) \in Nat
    BY <1>7, <2>1, LiquidityFits
  <2> QED BY <1>8, <2>2 DEF LiquidityFromAmounts, Lower, Upper
<1>10. Spans(created)
  BY <1>8, <1>9 DEF Spans
<1>11. MintAmounts(above, created)[1] \in 0 .. desired[1] /\ MintAmounts(below, created)[2] \in 0 .. desired[2]
  BY <1>2, <1>4, <1>7, <1>8, <1>10, CreatedAlongPrice
<1> QED BY <1>5, <1>6, <1>7, <1>11 DEF AtLeast, desired

(* A burn gives the minimums at every price inside the tolerance.            *)
LEMMA BurnCanBeMet ==
  ASSUME NEW p, InOrder(p), p.sqrtRatio > MinSqrtRatio, p.sqrtRatio * p.sqrtRatio < Word,
         NEW pos, Spans(pos), Liquid(pos.liquidity), NEW s \in Tolerances,
         NEW q \in Between(p.sqrtRatio * p.sqrtRatio, s)
  PROVE  AtLeast(BurnAmounts(q, pos), BurnAmountsWithSlippage(pos, p.sqrtRatio * p.sqrtRatio, s))
<1> DEFINE r == ratiosAfterSlippage(p.sqrtRatio * p.sqrtRatio, s)
           above == PoolAt(r.upper)  below == PoolAt(r.lower)
<1>1. p.sqrtRatio \in PriceWord
  BY DEF InOrder
<1>2. /\ r.lower \in PriceWord /\ MinSqrtRatio <= r.lower /\ r.lower <= p.sqrtRatio
      /\ r.upper \in PriceWord /\ p.sqrtRatio <= r.upper
  BY <1>1, RatiosAroundPrice
<1>3. MinSqrtRatio <= r.upper
  <2>1. MinSqrtRatio \in Int /\ r.lower \in Int /\ r.upper \in Int /\ p.sqrtRatio \in Int
    BY <1>1, <1>2, TicksInOrder DEF PriceWord, MinSqrtRatio
  <2> QED BY <1>2, <2>1
<1>4. /\ InOrder(above) /\ above.sqrtRatio = r.upper
      /\ InOrder(below) /\ below.sqrtRatio = r.lower
  BY <1>2, <1>3, PoolAtInOrder
<1>5. BurnAmountsWithSlippage(pos, p.sqrtRatio * p.sqrtRatio, s)
        = [i \in {1, 2} |-> BurnAmounts(SmallerAt(r)[i], pos)[i]]
  BY DEF BurnAmountsWithSlippage
<1>6. SmallerAt(r)[1] = above /\ SmallerAt(r)[2] = below
  BY DEF SmallerAt
<1>7. InOrder(q) /\ r.lower <= q.sqrtRatio /\ q.sqrtRatio <= r.upper
  BY PoolStatesInOrder DEF Between
<1> HIDE DEF r, above, below
<1>8. /\ BurnAmounts(q, pos)[1] >= BurnAmounts(above, pos)[1]
      /\ BurnAmounts(q, pos)[2] >= BurnAmounts(below, pos)[2]
  BY <1>4, <1>7, BurnAlongPrice
<1> QED BY <1>5, <1>6, <1>8 DEF AtLeast

(* A unit of liquidity more than full precision gives costs more of a token. *)
LEMMA MoreCosts ==
  ASSUME NEW p \in PoolStates, NEW pos \in Position, Spans(pos), Liquid(pos.liquidity),
         pos.lower \in UsableTicks, pos.upper \in UsableTicks,
         NEW amount0 \in Amounts, NEW amount1 \in Amounts,
         pos.liquidity = LiquidityFromAmounts(p, pos.lower, pos.upper, amount0, amount1, TRUE)
  PROVE  LET more == MintAmounts(p, [pos EXCEPT !.liquidity = @ + 1])
         IN  more[1] > amount0 \/ more[2] > amount1
<1> DEFINE a == Lower(pos)  b == Upper(pos)  c == Clamped(p, pos)  q == p.sqrtRatio  l == pos.liquidity + 1
           larger == [pos EXCEPT !.liquidity = @ + 1]
           n == (l * Q) * (b - c)  m == l * (c - a)
<1>1. /\ InOrder(p) /\ q \in Prices /\ q \in Nat /\ a \in PriceWord /\ b \in PriceWord /\ a < b
      /\ c \in PriceWord /\ a <= c /\ c <= b
  BY PoolStatesInOrder, RangeOfPosition, ClampedInRange DEF InOrder, PriceWord, Clamped
<1>2. /\ amount0 \in Nat /\ amount1 \in Nat /\ amount1 * Q < Word
      /\ \A x \in {a, q} : x < b => amount0 * x * b < Word * (Q * (b - x))
  <2>1. amount0 \in Nat /\ amount1 \in Nat /\ amount1 * Q < Word
    BY PositionAssumption
  <2>2. a \in {SqrtRatio[u] : u \in UsableTicks} /\ b = SqrtRatio[pos.upper]
    BY DEF Lower, Upper
  <2>3. \A x \in Prices \cup {SqrtRatio[u] : u \in UsableTicks} :
          x < b => amount0 * x * b < Word * (Q * (b - x))
    BY <2>2, PositionAssumption
  <2> QED BY <1>1, <2>1, <2>2, <2>3
<1>3. (l * Q) * (b - c) > amount0 * (b * c) \/ l * (c - a) > amount1 * Q
  <2>1. pos.liquidity = MaxLiquidityForAmounts(q, a, b, amount0, amount1, TRUE) /\ c = ClampedTo(q, a, b)
    BY DEF LiquidityFromAmounts, Lower, Upper, Clamped
  <2> HIDE DEF a, b, c, q
  <2> QED BY <1>1, <1>2, <2>1, LiquidityIsMost
<1>4. /\ Spans(larger) /\ Lower(larger) = a /\ Upper(larger) = b /\ Clamped(p, larger) = c
      /\ larger.liquidity = l /\ l \in Nat
  <2>1. /\ larger.lower = pos.lower /\ larger.upper = pos.upper /\ larger.liquidity = l
        /\ pos.liquidity \in Nat
    BY DEF Position
  <2> HIDE DEF larger
  <2>2. Lower(larger) = a /\ Upper(larger) = b
    BY <2>1 DEF Lower, Upper
  <2>3. l \in Nat
    <3>1. pos.liquidity \in Nat
      BY <2>1
    <3> DEFINE k == pos.liquidity
    <3>2. k \in Nat /\ l = k + 1
      BY <3>1
    <3> HIDE DEF k, l, a, b, c
    <3> QED BY <3>2
  <2>4. Spans(larger)
    <3>1. pos.lower \in Tick /\ pos.upper \in Tick /\ pos.lower < pos.upper
      BY DEF Spans
    <3> HIDE DEF l
    <3> QED BY <2>1, <2>3, <3>1 DEF Spans
  <2> QED BY <2>1, <2>2, <2>3, <2>4 DEF Clamped
<1>5. /\ MintAmounts(p, larger)[1] = Amount0Delta(c, b, l, TRUE)
      /\ MintAmounts(p, larger)[2] = Amount1Delta(a, c, l, TRUE)
  BY <1>1, <1>4, AmountsAtClamped DEF MintAmounts
<1>6. b * Q <= Word /\ b \in Nat \ {0} /\ c \in Nat \ {0} /\ a \in Nat /\ Q \in Nat \ {0} /\ Word \in Nat
  <2>1. b <= MaxSqrtRatio /\ MaxSqrtRatio \in Nat
    <3>1. pos.upper \in Tick /\ pos.upper <= MaxTick /\ MaxTick \in Tick
      BY TicksInOrder DEF Spans, Tick
    <3>2. SqrtRatio[pos.upper] <= SqrtRatio[MaxTick] /\ SqrtRatio[MaxTick] \in PriceWord
      BY <3>1, TicksInOrder
    <3>3. SqrtRatio[MaxTick] \in Nat
      BY <3>2, TicksInOrder DEF PriceWord
    <3> QED BY <3>2, <3>3 DEF Upper, MaxSqrtRatio
  <2>2. b \in Nat \ {0} /\ c \in Nat \ {0} /\ a \in Nat /\ Q \in Nat \ {0} /\ Word \in Nat
    BY <1>1, TicksInOrder DEF PriceWord
  <2>3. b * Q <= MaxSqrtRatio * Q
    BY <2>1, <2>2, TimesMonotonic
  <2> HIDE DEF b
  <2>4. MaxSqrtRatio * Q <= Word
    BY PositionAssumption
  <2> QED BY <2>1, <2>2, <2>3, <2>4
<1>7. n <= b * (Word - 1)
  <2>1. l * Q <= (Word - 1) + Q /\ l * Q \in Nat
    <3>1. pos.liquidity \in Nat /\ pos.liquidity * Q < Word /\ l = pos.liquidity + 1
      BY DEF Liquid
    <3> DEFINE k == pos.liquidity
    <3>2. k \in Nat /\ k * Q < Word /\ l = k + 1 /\ Q \in Nat \ {0} /\ Word \in Nat
      BY <1>6, <3>1
    <3> HIDE DEF a, b, c, l, k
    <3>3. l * Q = k * Q + Q /\ k * Q \in Nat /\ l * Q \in Nat
      BY <3>2, SMTT(30)
    <3> QED BY <3>2, <3>3
  <2> HIDE DEF l, b, c, a
  <2>2. b - c \in Nat /\ b - c <= b - 1
    BY <1>1, <1>6
  <2>3. (l * Q) * (b - c) <= ((Word - 1) + Q) * (b - c)
    BY <1>6, <2>1, <2>2, TimesMonotonic
  <2>4. (b - c) * ((Word - 1) + Q) <= (b - 1) * ((Word - 1) + Q)
    <3>1. (Word - 1) + Q \in Nat
      BY <1>6
    <3>2. b - c \in Int /\ b - 1 \in Int
      BY <1>6
    <3> QED BY <2>2, <3>1, <3>2, TimesMonotonic
  <2>5. (b - 1) * ((Word - 1) + Q) = b * (Word - 1) + (b * Q - (Word - 1) - Q)
    BY <1>6, SMTT(30)
  <2>6. ((Word - 1) + Q) * (b - c) = (b - c) * ((Word - 1) + Q)
    BY <1>6, SMTT(30)
  <2>7. b * Q - (Word - 1) - Q <= 0
    BY <1>6
  <2>8. /\ b * Q \in Int /\ b * (Word - 1) \in Int /\ (l * Q) * (b - c) \in Int
        /\ ((Word - 1) + Q) * (b - c) \in Int /\ (b - 1) * ((Word - 1) + Q) \in Int
    BY <1>6, <2>1, <2>2
  <2> DEFINE u == (l * Q) * (b - c)  v == ((Word - 1) + Q) * (b - c)  w == (b - 1) * ((Word - 1) + Q)
             z == b * (Word - 1)  h == b * Q - (Word - 1) - Q
  <2>9. /\ u \in Int /\ v \in Int /\ w \in Int /\ z \in Int /\ h \in Int
        /\ u <= v /\ v <= w /\ w = z + h /\ h <= 0
    <3>1. h \in Int
      BY <1>6
    <3>2. v <= w
      BY <2>4, <2>6
    <3> QED BY <2>3, <2>5, <2>7, <2>8, <3>1, <3>2
  <2>10. u <= z
    <3> HIDE DEF u, v, w, z, h
    <3> QED BY <2>9
  <2> QED BY <2>10
<1> DEFINE d == b * c  x == Amount0Delta(c, b, l, TRUE)  y == Amount1Delta(a, c, l, TRUE)
<1>8. IsCeiling(x, n, d) /\ IsCeiling(y, m, Q)
  <2> HIDE DEF a, b, c, l
  <2> QED BY <1>1, <1>4, <1>7, Amount0IsCeiling, Amount1Rounded DEF n, m
<1>9. n \in Int /\ m \in Int /\ b * c \in Nat \ {0}
  <2> HIDE DEF a, b, c, l
  <2> QED BY <1>4, <1>6, SMTT(30)
<1>10. b * c = d /\ amount0 * (b * c) = amount0 * d /\ x = Amount0Delta(c, b, l, TRUE) /\ y = Amount1Delta(a, c, l, TRUE)
  OBVIOUS
<1>11. d \in Nat \ {0}
  BY <1>9
<1>12. n > amount0 * d \/ m > amount1 * Q
  BY <1>3, <1>10
<1> HIDE DEF x, y, n, m, d
<1>13. x \in Nat /\ y \in Nat
  BY <1>8 DEF IsCeiling
<1>14. d * amount0 = amount0 * d /\ Q * amount1 = amount1 * Q /\ d * amount0 \in Int /\ Q * amount1 \in Int
  BY <1>2, <1>6, <1>11
<1>15. x <= amount0 => n <= d * amount0
  BY <1>2, <1>8, <1>9, <1>11, CeilingIsLeast
<1>16. y <= amount1 => m <= Q * amount1
  BY <1>2, <1>6, <1>8, <1>9, CeilingIsLeast
<1>17. x > amount0 \/ y > amount1
  BY <1>2, <1>9, <1>12, <1>13, <1>14, <1>15, <1>16
<1> QED BY <1>5, <1>10, <1>17
-----------------------------------------------------------------------------
(* What the calls keep.  The pool is one that swaps leave, its cached price  *)
(* a word, and the position one that can be made; the last answer is that of *)
(* the pool it saw and of the position as it is.                             *)
KeepsTypes ==
  /\ pool \in PoolStates /\ answer.at \in PoolStates
  /\ token0Price \in {None} \cup 0 .. Word-1
  /\ position \in Position /\ Spans(position) /\ Liquid(position.liquidity)
  /\ DOMAIN cached = {1, 2} /\ DOMAIN words = {1, 2}

AmountsAtHand == Amounts \cup {MaxUint256}

MadeOfAmounts ==
  answer.of = <<"FromAmounts">> =>
    LET made == position.from
    IN  /\ position.lower \in UsableTicks /\ position.upper \in UsableTicks
        /\ made.amount0 \in AmountsAtHand /\ made.amount1 \in AmountsAtHand
        /\ position.liquidity = LiquidityFromAmounts(answer.at, position.lower, position.upper,
                                                     made.amount0, made.amount1, made.full)

MinimumsOfPrice ==
  \A s \in Tolerances :
    /\ answer.of = <<"Burn", s>> =>
         /\ token0Price # None
         /\ answer.amounts = BurnAmountsWithSlippage(position, token0Price, s)
    /\ answer.of = <<"Mint", s>> =>
         /\ token0Price # None
         /\ answer.amounts = MintAmountsWithSlippage(answer.at, position, token0Price, s)

(* Every answer is kept; without a position there is none.                   *)
HeldInOrder ==
  /\ held \in Seq({held[k] : k \in 1 .. Len(held)})
  /\ position.liquidity = 0 => held = <<>>

(* CalcAmounts gives a word to each amount, the others the second or none.   *)
WordsGiven ==
  \A k \in 1 .. Len(held) :
    /\ \A i \in {1, 2} : held[k].pointers[i] \in {None, Zero, Word1, Word2}
    /\ \A i \in {1, 2} : held[k].pointers[i] = Zero => held[k].answer.amounts[i] = 0
    /\ IF held[k].answer.of = <<"CalcAmounts">>
       THEN held[k].pointers[1] # Word2 /\ held[k].pointers[2] # Word1
       ELSE held[k].pointers[1] # Word1 /\ held[k].pointers[2] # Word1

(* What Amount0 and Amount1 compute of a pool.                               *)
MethodAmount(p, i) ==
  IF i = 1 THEN Amount0(p, position, InRange(p, position)) ELSE Amount1(p, position, FALSE)

ComputedAt(j, k, i, amount) ==
  Decides(j, k, i) /\ held[j].answer.at \in PoolStates /\ amount = MethodAmount(held[j].answer.at, i)

(* An amount that is kept was computed at the call that decides it, as were  *)
(* those of all answers.                                                     *)
CachedWhenDecided ==
  \A i \in {1, 2} :
    IF cached[i] = None THEN \A l \in 1 .. Len(held) : ~Asks(l, i)
    ELSE \E j \in 1 .. Len(held) : ComputedAt(j, Len(held), i, cached[i])

AskedWhenDecided ==
  \A k \in 1 .. Len(held), i \in {1, 2} :
    Asks(k, i) => \E j \in 1 .. k : ComputedAt(j, k, i, held[k].answer.amounts[i])

HeldInv == HeldInOrder /\ WordsGiven /\ PointersReadTheLast /\ CachedWhenDecided /\ AskedWhenDecided

PositionInv == KeepsTypes /\ MadeOfAmounts /\ MinimumsOfPrice /\ HeldInv

(* A caller without an answer holds nothing.                                 *)
LEMMA NothingHeld ==
  /\ held = <<>> /\ cached[1] = None /\ cached[2] = None => HeldInv
  /\ held' = <<>> /\ cached'[1] = None /\ cached'[2] = None => HeldInv'
<1>1. <<>> \in Seq({}) /\ Len(<<>>) = 0 /\ 1 .. 0 = {}
  OBVIOUS
<1>2. ASSUME held = <<>>, cached[1] = None, cached[2] = None PROVE HeldInv
  <2>1. 1 .. Len(held) = {} /\ Len(held) = 0
    BY <1>1, <1>2
  <2>2. HeldInOrder
    BY <1>1, <1>2, <2>1 DEF HeldInOrder
  <2> QED BY <1>2, <2>1, <2>2 DEF HeldInv, WordsGiven, PointersReadTheLast, CachedWhenDecided, AskedWhenDecided
<1>3. ASSUME held' = <<>>, cached'[1] = None, cached'[2] = None PROVE HeldInv'
  <2>1. 1 .. Len(held') = {} /\ Len(held') = 0
    BY <1>1, <1>3
  <2>2. HeldInOrder'
    BY <1>1, <1>3, <2>1 DEF HeldInOrder
  <2> QED BY <1>3, <2>1, <2>2 DEF HeldInv, WordsGiven, PointersReadTheLast, CachedWhenDecided, AskedWhenDecided
<1> QED BY <1>2, <1>3

(* Calls that answer with no pointer and no kept amount leave both alone.    *)
LEMMA HeldStays ==
  ASSUME HeldInv, UNCHANGED <<held, words, cached, position>>
  PROVE  HeldInv'
<1>1. HeldInOrder' /\ WordsGiven'
  BY DEF HeldInv, HeldInOrder, WordsGiven
<1>2. PointersReadTheLast'
  <2>1. \A j, k, i : TakesWordOf(j, k, i)' = TakesWordOf(j, k, i)
    BY DEF TakesWordOf
  <2>2. \A k, i : Pointed(held[k].pointers[i])' = Pointed(held[k].pointers[i])
    BY DEF Pointed
  <2> QED BY <2>1, <2>2 DEF HeldInv, PointersReadTheLast
<1>3. \A j, i : Asks(j, i)' = Asks(j, i) /\ Forces(j, i)' = Forces(j, i)
  BY DEF Asks, Forces
<1>4. \A j, k, i : Decides(j, k, i)' = Decides(j, k, i)
  BY <1>3 DEF Decides
<1>5. \A p, i : MethodAmount(p, i)' = MethodAmount(p, i)
  BY DEF MethodAmount, Amount0, Amount1, InRange, Lower, Upper
<1>6. \A j, k, i, amount : ComputedAt(j, k, i, amount)' = ComputedAt(j, k, i, amount)
  BY <1>4, <1>5 DEF ComputedAt
<1>7. CachedWhenDecided'
  BY <1>3, <1>6 DEF HeldInv, CachedWhenDecided
<1>8. AskedWhenDecided'
  BY <1>3, <1>6 DEF HeldInv, AskedWhenDecided
<1> QED BY <1>1, <1>2, <1>7, <1>8 DEF HeldInv

(* An answer goes to the end, and the others stay where they are.            *)
LEMMA HeldGrows ==
  ASSUME HeldInOrder, NEW e, held' = Append(held, e)
  PROVE  /\ held' \in Seq({held'[k] : k \in 1 .. Len(held')})
         /\ Len(held) \in Nat /\ Len(held') = Len(held) + 1
         /\ \A k \in 1 .. Len(held) : held'[k] = held[k]
         /\ held'[Len(held) + 1] = e
<1> DEFINE S == {held[k] : k \in 1 .. Len(held)} \cup {e}
<1>1. held \in Seq(S) /\ e \in S
  <2>1. held \in Seq({held[k] : k \in 1 .. Len(held)})
    BY DEF HeldInOrder
  <2> QED BY <2>1
<1>2. Len(held) \in Nat
  BY <1>1
<1> HIDE DEF S
<1>3. /\ held' \in Seq(S) /\ Len(held') = Len(held) + 1
      /\ \A k \in 1 .. Len(held) : held'[k] = held[k]
      /\ held'[Len(held) + 1] = e
  BY <1>1, AppendProperties
<1>4. held' \in Seq({held'[k] : k \in 1 .. Len(held')})
  BY <1>3
<1> QED BY <1>2, <1>3, <1>4

(* What was decided stays decided, and what was computed computed.           *)
LEMMA DecisionsStay ==
  ASSUME HeldInOrder, NEW e, held' = Append(held, e), UNCHANGED position
  PROVE  \A k \in 1 .. Len(held), i \in {1, 2} :
           /\ Asks(k, i)' = Asks(k, i) /\ Forces(k, i)' = Forces(k, i)
           /\ \A j \in 1 .. k : \A amount : ComputedAt(j, k, i, amount) => ComputedAt(j, k, i, amount)'
<1>1. Len(held) \in Nat /\ \A k \in 1 .. Len(held) : held'[k] = held[k]
  BY HeldGrows
<1>2. \A k \in 1 .. Len(held), i \in {1, 2} : Asks(k, i)' = Asks(k, i) /\ Forces(k, i)' = Forces(k, i)
  BY <1>1 DEF Asks, Forces
<1>3. ASSUME NEW k \in 1 .. Len(held), NEW i \in {1, 2}, NEW j \in 1 .. k, NEW amount, ComputedAt(j, k, i, amount)
      PROVE  ComputedAt(j, k, i, amount)'
  <2>1. j \in 1 .. Len(held) /\ held'[j] = held[j]
    BY <1>1
  <2>2. \A l \in 1 .. k : l \in 1 .. Len(held)
    BY <1>1
  <2>3. Decides(j, k, i)'
    <3>1. Asks(j, i)' /\ (Forces(j, i)' \/ \A l \in 1 .. j-1 : ~Asks(l, i)')
      BY <1>1, <1>2, <1>3, <2>1 DEF ComputedAt, Decides
    <3>2. \A l \in j+1 .. k : ~Forces(l, i)'
      BY <1>1, <1>2, <1>3, <2>1 DEF ComputedAt, Decides
    <3> QED BY <3>1, <3>2 DEF Decides
  <2>4. \A p : MethodAmount(p, i)' = MethodAmount(p, i)
    BY DEF MethodAmount, Amount0, Amount1, InRange, Lower, Upper
  <2>5. held'[j].answer.at \in PoolStates /\ amount = MethodAmount(held[j].answer.at, i)'
    BY <1>3, <2>1, <2>4 DEF ComputedAt
  <2> QED BY <2>3, <2>5 DEF ComputedAt
<1> QED BY <1>2, <1>3

(* An answer that only takes words which it fills is the last through them,  *)
(* and others read what they read.                                           *)
LEMMA LastIsRead ==
  ASSUME HeldInv, NEW e, held' = Append(held, e), UNCHANGED position, position.liquidity > 0,
         \A i \in {1, 2} : e.pointers[i] \in {None, Zero, Word1, Word2},
         \A i \in {1, 2} : e.pointers[i] = Zero => e.answer.amounts[i] = 0,
         IF e.answer.of = <<"CalcAmounts">> THEN e.pointers[1] # Word2 /\ e.pointers[2] # Word1
         ELSE e.pointers[1] # Word1 /\ e.pointers[2] # Word1,
         \A w \in {Word1, Word2} : (\A i \in {1, 2} : e.pointers[i] # w) => words'[w] = words[w],
         \A i \in {1, 2} : e.pointers[i] \in {Word1, Word2} => words'[e.pointers[i]] = e.answer.amounts[i]
  PROVE  HeldInOrder' /\ WordsGiven' /\ PointersReadTheLast'
<1>0. PICK m : m = Len(held)
  OBVIOUS
<1>1. /\ held' \in Seq({held'[k] : k \in 1 .. Len(held')})
      /\ m \in Nat /\ Len(held') = m + 1
      /\ (\A k \in 1 .. m : held'[k] = held[k]) /\ held'[m + 1] = e
  BY <1>0, HeldGrows DEF HeldInv
<1>2. \A k \in 1 .. m+1 : k \in 1 .. m \/ k = m+1
  BY <1>1
<1>3. HeldInOrder'
  BY <1>1 DEF HeldInOrder
<1>4. WordsGiven'
  <2>1. ASSUME NEW k \in 1 .. m
        PROVE  /\ \A i \in {1, 2} : held'[k].pointers[i] \in {None, Zero, Word1, Word2}
               /\ \A i \in {1, 2} : held'[k].pointers[i] = Zero => held'[k].answer.amounts[i] = 0
               /\ IF held'[k].answer.of = <<"CalcAmounts">>
                  THEN held'[k].pointers[1] # Word2 /\ held'[k].pointers[2] # Word1
                  ELSE held'[k].pointers[1] # Word1 /\ held'[k].pointers[2] # Word1
    <3>1. held'[k] = held[k] /\ k \in 1 .. Len(held)
      BY <1>0, <1>1
    <3> QED BY <3>1 DEF HeldInv, WordsGiven
  <2> QED BY <1>0, <1>1, <1>2, <2>1 DEF WordsGiven
<1>5. PointersReadTheLast'
  <2> SUFFICES ASSUME NEW k \in 1 .. m+1, NEW i \in {1, 2},
                      held'[k].pointers[i] = Zero
                        \/ (held'[k].pointers[i] # None /\ \A j \in k+1 .. m+1 : ~TakesWordOf(j, k, i)')
               PROVE  Pointed(held[k].pointers[i])' = held'[k].answer.amounts[i]
    BY <1>1 DEF PointersReadTheLast
  <2> DEFINE w == held'[k].pointers[i]
  <2>1. CASE w = Zero
    <3>1. held'[k].answer.amounts[i] = 0
      BY <1>1, <1>4, <2>1 DEF WordsGiven
    <3> QED BY <2>1, <3>1 DEF Pointed
  <2>2. CASE w # Zero /\ k = m+1
    <3>1. held'[k] = e /\ w \in {Word1, Word2}
      BY <1>1, <2>2
    <3>2. Pointed(held[k].pointers[i])' = words'[w]
      BY <2>2 DEF Pointed
    <3> QED BY <3>1, <3>2
  <2>3. CASE w # Zero /\ k \in 1 .. m
    <3>1. held'[k] = held[k] /\ w = held[k].pointers[i] /\ w # None /\ k \in 1 .. Len(held)
      BY <1>0, <1>1, <2>3
    <3>2. w \in {Word1, Word2}
      BY <2>3, <3>1 DEF HeldInv, WordsGiven
    <3>3. m+1 \in k+1 .. m+1 /\ \A j \in k+1 .. m : j \in k+1 .. m+1 /\ j \in 1 .. m
      BY <1>1, <2>3
    <3>4. ~TakesWordOf(m+1, k, i)'
      BY <2>3, <3>1, <3>3
    <3>5. \A t \in {1, 2} : e.pointers[t] # w
      <4> SUFFICES ASSUME NEW t \in {1, 2}, e.pointers[t] = w PROVE FALSE
        OBVIOUS
      <4>1. held'[m+1].pointers[t] = held'[k].pointers[i] /\ held'[m+1] = e
        BY <1>1
      <4>2. i = 1 /\ held'[k].answer.of = <<"CalcAmounts">> /\ held'[m+1].answer.of # <<"CalcAmounts">>
        BY <3>4, <4>1 DEF TakesWordOf
      <4>3. w = Word1
        BY <3>1, <3>2, <4>2 DEF HeldInv, WordsGiven
      <4> QED BY <4>1, <4>2, <4>3
    <3>6. words'[w] = words[w]
      BY <3>2, <3>5
    <3>7. \A j \in k+1 .. m : ~TakesWordOf(j, k, i)
      <4> SUFFICES ASSUME NEW j \in k+1 .. m PROVE ~TakesWordOf(j, k, i)
        OBVIOUS
      <4>1. ~TakesWordOf(j, k, i)' /\ held'[j] = held[j]
        BY <1>1, <2>3, <3>1, <3>3
      <4> QED BY <3>1, <4>1 DEF TakesWordOf
    <3>8. Pointed(w) = held[k].answer.amounts[i]
      BY <1>0, <3>1, <3>7 DEF HeldInv, PointersReadTheLast
    <3>9. Pointed(held[k].pointers[i])' = words'[w] /\ Pointed(w) = words[w]
      BY <2>3, <3>1 DEF Pointed
    <3> QED BY <3>1, <3>6, <3>8, <3>9
  <2> QED BY <1>2, <2>1, <2>2, <2>3
<1> QED BY <1>3, <1>4, <1>5

(* An answer of another method decides nothing of Amount0 and Amount1.       *)
LEMMA OthersDecideNothing ==
  ASSUME HeldInv, NEW e, held' = Append(held, e), UNCHANGED <<position, cached>>,
         e.answer.of[1] \notin {"Amount", "Forced"}
  PROVE  CachedWhenDecided' /\ AskedWhenDecided'
<1>0. PICK m : m = Len(held)
  OBVIOUS
<1>1. m \in Nat /\ Len(held') = m + 1 /\ (\A k \in 1 .. m : held'[k] = held[k]) /\ held'[m + 1] = e
  BY <1>0, HeldGrows DEF HeldInv
<1>2. \A k \in 1 .. m, i \in {1, 2} :
        /\ Asks(k, i)' = Asks(k, i)
        /\ \A j \in 1 .. k : \A amount : ComputedAt(j, k, i, amount) => ComputedAt(j, k, i, amount)'
  BY <1>0, DecisionsStay DEF HeldInv
<1>3. \A i \in {1, 2} : ~Asks(m+1, i)' /\ ~Forces(m+1, i)'
  <2>1. \A i \in {1, 2} : e.answer.of # <<"Amount", i>> /\ e.answer.of # <<"Forced", i>>
    OBVIOUS
  <2> QED BY <1>1, <2>1 DEF Asks, Forces
<1>4. \A k \in 1 .. m+1 : k \in 1 .. m \/ k = m+1
  BY <1>1
<1>5. CachedWhenDecided'
  <2> SUFFICES ASSUME NEW i \in {1, 2}
               PROVE  IF cached'[i] = None THEN \A l \in 1 .. m+1 : ~Asks(l, i)'
                      ELSE \E j \in 1 .. m+1 : ComputedAt(j, m+1, i, cached[i])'
    BY <1>1 DEF CachedWhenDecided
  <2>1. CASE cached[i] = None
    <3>1. \A l \in 1 .. m : ~Asks(l, i)
      BY <1>0, <2>1 DEF HeldInv, CachedWhenDecided
    <3>2. \A l \in 1 .. m+1 : ~Asks(l, i)'
      BY <1>2, <1>3, <1>4, <3>1
    <3> QED BY <2>1, <3>2
  <2>2. CASE cached[i] # None
    <3>1. PICK j \in 1 .. m : ComputedAt(j, m, i, cached[i])
      BY <1>0, <2>2 DEF HeldInv, CachedWhenDecided
    <3>2. m \in 1 .. m /\ j \in 1 .. m+1
      BY <1>1
    <3>3. PICK amount : amount = cached[i]
      OBVIOUS
    <3>4. ComputedAt(j, m, i, amount)' /\ cached'[i] = amount
      BY <1>2, <3>1, <3>2, <3>3
    <3>5. \A l \in j+1 .. m+1 : l \in j+1 .. m \/ l = m+1
      BY <1>1, <3>2
    <3>6. ComputedAt(j, m+1, i, cached[i])'
      BY <1>3, <3>5, <3>4 DEF ComputedAt, Decides
    <3> QED BY <2>2, <3>2, <3>6
  <2> QED BY <2>1, <2>2
<1>6. AskedWhenDecided'
  <2> SUFFICES ASSUME NEW k \in 1 .. m+1, NEW i \in {1, 2}, Asks(k, i)'
               PROVE  \E j \in 1 .. k : ComputedAt(j, k, i, held[k].answer.amounts[i])'
    BY <1>1 DEF AskedWhenDecided
  <2>1. k \in 1 .. m /\ Asks(k, i) /\ held'[k] = held[k]
    BY <1>1, <1>2, <1>3, <1>4
  <2>2. PICK j \in 1 .. k : ComputedAt(j, k, i, held[k].answer.amounts[i])
    BY <1>0, <2>1 DEF HeldInv, AskedWhenDecided
  <2>3. \A amount : ComputedAt(j, k, i, amount) => ComputedAt(j, k, i, amount)'
    BY <1>2, <2>1
  <2>4. ComputedAt(j, k, i, held[k].answer.amounts[i])'
    BY <2>1, <2>2, <2>3 DEF ComputedAt
  <2> QED BY <2>4
<1> QED BY <1>5, <1>6

(* No price is cached yet, no position made and no question asked.           *)
LEMMA PositionStarts == Init => PositionInv
<1> SUFFICES ASSUME Init PROVE PositionInv
  OBVIOUS
<1>1. answer.of[1] = "nothing" /\ answer.at = pool /\ pool \in PoolStates /\ token0Price = None
  BY DEF Init, NoAnswer
<1>2. position = [lower |-> MinTick, upper |-> MaxTick, liquidity |-> 0,
                  from |-> [amount0 |-> 0, amount1 |-> 0, full |-> FALSE]]
  BY DEF Init
<1>3. /\ position.lower = MinTick /\ position.upper = MaxTick /\ position.liquidity = 0
      /\ position \in Position
  BY <1>2, TicksInOrder DEF Position, Made
<1>4. Spans(position) /\ Liquid(position.liquidity)
  <2>1. 0 * Q < Word
    BY TicksInOrder
  <2> QED BY <1>3, <2>1, TicksInOrder DEF Spans, Liquid
<1>5. DOMAIN cached = {1, 2} /\ DOMAIN words = {1, 2}
  BY DEF Init
<1>6. KeepsTypes
  BY <1>1, <1>3, <1>4, <1>5 DEF KeepsTypes
<1>7. MadeOfAmounts
  BY <1>1 DEF MadeOfAmounts
<1>8. MinimumsOfPrice
  BY <1>1 DEF MinimumsOfPrice
<1>9. HeldInv
  <2>1. held = <<>> /\ cached[1] = None /\ cached[2] = None
    BY DEF Init
  <2> QED BY <2>1, NothingHeld
<1> QED BY <1>6, <1>7, <1>8, <1>9 DEF PositionInv

(* A call that asks the position leaves it as it is, and the pool.           *)
LEMMA AskingKeeps ==
  ASSUME PositionInv, UNCHANGED <<pool, position>>, answer'.at = pool,
         token0Price' \in {None} \cup 0 .. Word-1,
         DOMAIN cached' = {1, 2} /\ DOMAIN words' = {1, 2},
         answer'.of[1] # "FromAmounts"
  PROVE  KeepsTypes' /\ MadeOfAmounts'
<1>1. KeepsTypes'
  BY DEF PositionInv, KeepsTypes
<1>2. MadeOfAmounts'
  BY DEF MadeOfAmounts
<1> QED BY <1>1, <1>2

(* FromAmounts keeps the invariant: what it makes is of the pool it saw.     *)
LEMMA FromAmountsKeeps ==
  ASSUME PositionInv, NEW lower \in UsableTicks, NEW upper \in UsableTicks,
         NEW amount0 \in AmountsAtHand, NEW amount1 \in AmountsAtHand, NEW full \in BOOLEAN,
         FromAmounts(lower, upper, amount0, amount1, full)
  PROVE  PositionInv'
<1> DEFINE L == LiquidityFromAmounts(pool, lower, upper, amount0, amount1, full)
           from == [amount0 |-> amount0, amount1 |-> amount1, full |-> full]
<1>1. /\ lower < upper /\ L * Q < Word /\ position.liquidity = 0
      /\ position' = [lower |-> lower, upper |-> upper, liquidity |-> L, from |-> from]
      /\ cached' = <<None, None>> /\ words' = <<0, 0>>
      /\ answer' = [NoAnswer EXCEPT !.of = <<"FromAmounts">>]
      /\ UNCHANGED <<pool, token0Price, held>>
  BY DEF FromAmounts, NewPosition
<1>2. answer'.of[1] = "FromAmounts" /\ answer'.of = <<"FromAmounts">> /\ answer'.at = pool
  BY <1>1 DEF NoAnswer
<1>3. lower \in Tick /\ upper \in Tick /\ amount0 \in Nat /\ amount1 \in Nat
  <2>1. MaxUint256 \in Nat
    BY TicksInOrder DEF MaxUint256
  <2>2. lower \in Tick /\ upper \in Tick /\ \A a \in Amounts : a \in Nat
    BY PositionAssumption
  <2> QED BY <2>1, <2>2 DEF AmountsAtHand
<1>4. pool \in PoolStates
  BY DEF PositionInv, KeepsTypes
<1>5. L \in Nat
  <2>1. pool.sqrtRatio \in Nat
    BY <1>4, PoolStatesInOrder DEF InOrder, PriceWord
  <2>2. SqrtRatio[lower] \in PriceWord /\ SqrtRatio[upper] \in PriceWord /\ SqrtRatio[lower] < SqrtRatio[upper]
    BY <1>1, <1>3, TicksInOrder
  <2> QED BY <1>3, <2>1, <2>2, LiquidityFits DEF LiquidityFromAmounts
<1> HIDE DEF L
<1>6. /\ position'.lower = lower /\ position'.upper = upper /\ position'.liquidity = L
      /\ position'.from = from /\ position' \in Position
  BY <1>1, <1>3, <1>5 DEF Position, Made
<1>7. Spans(position)' /\ Liquid(position.liquidity)'
  BY <1>1, <1>3, <1>5, <1>6 DEF Spans, Liquid
<1>8. DOMAIN cached' = {1, 2} /\ DOMAIN words' = {1, 2}
  BY <1>1
<1>9. KeepsTypes'
  BY <1>1, <1>2, <1>4, <1>6, <1>7, <1>8 DEF PositionInv, KeepsTypes
<1>10. MadeOfAmounts'
  BY <1>2, <1>6 DEF MadeOfAmounts, L
<1>11. MinimumsOfPrice'
  BY <1>2 DEF MinimumsOfPrice
<1>12. HeldInv'
  <2>1. held = <<>>
    BY <1>1 DEF PositionInv, HeldInv, HeldInOrder
  <2>2. held' = <<>> /\ cached'[1] = None /\ cached'[2] = None
    BY <1>1, <2>1
  <2> QED BY <2>2, NothingHeld
<1> QED BY <1>9, <1>10, <1>11, <1>12 DEF PositionInv

(* A pool that moves changes no answer that was given.                       *)
LEMMA MovePoolKeeps ==
  ASSUME PositionInv, NEW p \in PoolStates, MovePool(p)
  PROVE  PositionInv'
<1>1. pool' = p /\ UNCHANGED <<position, token0Price, cached, words, held, answer>>
  BY DEF MovePool, Calling
<1>2. KeepsTypes'
  BY <1>1 DEF PositionInv, KeepsTypes
<1>3. MadeOfAmounts'
  BY <1>1 DEF PositionInv, MadeOfAmounts
<1>4. MinimumsOfPrice'
  BY <1>1 DEF PositionInv, MinimumsOfPrice
<1>5. HeldInv'
  BY <1>1, HeldStays DEF PositionInv
<1> QED BY <1>2, <1>3, <1>4, <1>5 DEF PositionInv

(* What Amount0 and Amount1 compute is an amount, not the mark for none.     *)
LEMMA MethodAmountIsAmount ==
  ASSUME NEW p \in PoolStates, NEW i \in {1, 2}, KeepsTypes
  PROVE  /\ MethodAmount(p, i) # None
         /\ MethodAmount(p, i) - BurnAmounts(p, position)[i] \in {0, IF i = 1 THEN 1 ELSE 0}
<1>1. InOrder(p) /\ Spans(position) /\ Liquid(position.liquidity)
  BY PoolStatesInOrder DEF KeepsTypes
<1>2. /\ MintAmounts(p, position)[1] \in Nat
      /\ BurnAmounts(p, position)[1] \in Nat /\ BurnAmounts(p, position)[2] \in Nat
      /\ MintAmounts(p, position)[1] - BurnAmounts(p, position)[1] \in {0, 1}
  BY <1>1, AmountsAreNatural
<1>3. CASE i = 1
  <2>1. InRange(p, position) \in BOOLEAN
    BY DEF InRange
  <2>2. MethodAmount(p, 1) \in {MintAmounts(p, position)[1], BurnAmounts(p, position)[1]}
    BY <2>1 DEF MethodAmount, MintAmounts, BurnAmounts
  <2>3. MethodAmount(p, 1) - BurnAmounts(p, position)[1] \in {0, 1} /\ MethodAmount(p, 1) \in Nat
    BY <1>2, <2>2
  <2> QED BY <1>3, <2>3 DEF None
<1>4. CASE i = 2
  <2>1. MethodAmount(p, 2) = BurnAmounts(p, position)[2]
    BY DEF MethodAmount, BurnAmounts
  <2>2. MethodAmount(p, 2) - BurnAmounts(p, position)[2] = 0 /\ MethodAmount(p, 2) \in Nat
    BY <1>2, <2>1
  <2> QED BY <1>4, <2>2 DEF None
<1> QED BY <1>3, <1>4

(* Amount0 and Amount1: what is forced, and what is asked for first, is      *)
(* computed from the pool as it is, and the rest was decided before.         *)
LEMMA AmountKeeps ==
  ASSUME PositionInv, NEW i \in {1, 2}, NEW force \in BOOLEAN, Amount(i, force)
  PROVE  PositionInv'
<1>0. PICK m, e : m = Len(held) /\ e = [answer |-> answer', pointers |-> NoPointers]
  OBVIOUS
<1>1. /\ UNCHANGED <<pool, position, token0Price, words>> /\ position.liquidity > 0
      /\ cached' = IF Recalculated(i, force) THEN [cached EXCEPT ![i] = AmountsAsked[i]] ELSE cached
      /\ answer' = [of |-> IF force THEN <<"Forced", i>> ELSE <<"Amount", i>>, amounts |-> cached', at |-> pool]
      /\ held' = Append(held, e)
  BY <1>0 DEF Amount, Calling, AnswerWith
<1>2. answer'.at = pool /\ answer'.amounts = cached'
  BY <1>1
<1>3. (force => answer'.of = <<"Forced", i>>) /\ (~force => answer'.of = <<"Amount", i>>)
  <2> DEFINE forced == <<"Forced", i>>  asked == <<"Amount", i>>
  <2>1. answer'.of = IF force THEN forced ELSE asked
    BY <1>1
  <2> HIDE DEF forced, asked
  <2>2. (force => answer'.of = forced) /\ (~force => answer'.of = asked)
    BY <2>1
  <2> QED BY <2>2 DEF forced, asked
<1>4. answer'.of[1] \in {"Forced", "Amount"} /\ answer'.of[2] = i /\ (answer'.of[1] = "Forced" <=> force)
  <2>1. CASE force
    BY <1>3, <2>1
  <2>2. CASE ~force
    <3>1. answer'.of[1] = "Amount" /\ answer'.of[2] = i
      BY <1>3, <2>2
    <3> QED BY <2>2, <3>1
  <2> QED BY <2>1, <2>2
<1>5. DOMAIN cached = {1, 2} /\ DOMAIN words = {1, 2} /\ pool \in PoolStates
      /\ token0Price \in {None} \cup 0 .. Word-1
  BY DEF PositionInv, KeepsTypes
<1>6. DOMAIN cached' = {1, 2}
  BY <1>1, <1>5
<1>7. KeepsTypes' /\ MadeOfAmounts'
  <2>1. answer'.of[1] # "FromAmounts"
    BY <1>4
  <2> QED BY <1>1, <1>2, <1>5, <1>6, <2>1, AskingKeeps
<1>8. MinimumsOfPrice'
  BY <1>4 DEF MinimumsOfPrice
<1>9. HeldInOrder' /\ WordsGiven' /\ PointersReadTheLast'
  <2>1. e.answer = answer' /\ e.pointers[1] = None /\ e.pointers[2] = None
    BY <1>0 DEF NoPointers
  <2>2. e.answer.of # <<"CalcAmounts">>
    BY <1>4, <2>1
  <2>3. None # Zero /\ None # Word1 /\ None # Word2
    BY DEF None, Zero, Word1, Word2
  <2>4. \A t \in {1, 2} : e.pointers[t] = None
    BY <2>1
  <2>5. HeldInv
    BY DEF PositionInv
  <2> QED BY <1>1, <2>2, <2>3, <2>4, <2>5, LastIsRead
<1>10. m \in Nat /\ Len(held') = m + 1 /\ (\A k \in 1 .. m : held'[k] = held[k]) /\ held'[m + 1] = e
  BY <1>0, <1>1, HeldGrows DEF PositionInv, HeldInv
<1>11. \A k \in 1 .. m, t \in {1, 2} :
         /\ Asks(k, t)' = Asks(k, t) /\ Forces(k, t)' = Forces(k, t)
         /\ \A j \in 1 .. k : \A amount : ComputedAt(j, k, t, amount) => ComputedAt(j, k, t, amount)'
  BY <1>0, <1>1, DecisionsStay DEF PositionInv, HeldInv
<1>12. /\ Asks(m+1, i)' /\ Forces(m+1, i)' = force
       /\ \A t \in {1, 2} : t # i => ~Asks(m+1, t)' /\ ~Forces(m+1, t)'
  <2>1. held'[m+1].answer = answer'
    BY <1>0, <1>10
  <2>2. answer'.of \in {<<"Amount", i>>, <<"Forced", i>>} /\ (answer'.of = <<"Forced", i>> <=> force)
    BY <1>3, <1>4
  <2>3. \A t \in {1, 2} : t # i => answer'.of \notin {<<"Amount", t>>, <<"Forced", t>>}
    BY <1>4
  <2> QED BY <2>1, <2>2, <2>3 DEF Asks, Forces
<1>13. \A k \in 1 .. m+1 : k \in 1 .. m \/ k = m+1
  BY <1>10
<1>14. \A t \in {1, 2}, j \in 1 .. m : \A amount :
         ComputedAt(j, m, t, amount) /\ ~Forces(m+1, t)' => ComputedAt(j, m+1, t, amount)'
  <2> SUFFICES ASSUME NEW t \in {1, 2}, NEW j \in 1 .. m, NEW amount, ComputedAt(j, m, t, amount), ~Forces(m+1, t)'
               PROVE  ComputedAt(j, m+1, t, amount)'
    OBVIOUS
  <2>1. m \in 1 .. m /\ \A l \in j+1 .. m+1 : l \in j+1 .. m \/ l = m+1
    BY <1>10
  <2>2. ComputedAt(j, m, t, amount)'
    BY <1>11, <2>1
  <2> QED BY <2>1, <2>2 DEF ComputedAt, Decides
<1>15. cached'[i] # None /\ \E j \in 1 .. m+1 : ComputedAt(j, m+1, i, cached[i])'
  <2>1. CASE Recalculated(i, force)
    <3>1. cached'[i] = AmountsAsked[i] /\ \A t \in {1, 2} : t # i => cached'[t] = cached[t]
      BY <1>1, <1>5, <2>1
    <3>2. AmountsAsked[i] = MethodAmount(pool, i)
      <4> DEFINE x == Amount0(pool, position, InRange(pool, position))  y == Amount1(pool, position, FALSE)
      <4>1. AmountsAsked = <<x, y>> /\ MethodAmount(pool, i) = IF i = 1 THEN x ELSE y
        BY DEF AmountsAsked, MethodAmount
      <4> HIDE DEF x, y
      <4> QED BY <4>1
    <3>3. MethodAmount(pool, i)' = MethodAmount(pool, i)
      BY <1>1 DEF MethodAmount, Amount0, Amount1, InRange, Lower, Upper
    <3>4. MethodAmount(pool, i) # None
      BY <1>5, MethodAmountIsAmount DEF PositionInv
    <3>5. Decides(m+1, m+1, i)'
      <4>1. \A l \in m+1+1 .. m+1 : FALSE
        BY <1>10
      <4>2. ~force => \A l \in 1 .. m : ~Asks(l, i)'
        <5> SUFFICES ASSUME ~force PROVE \A l \in 1 .. m : ~Asks(l, i)'
          OBVIOUS
        <5>1. cached[i] = None
          BY <2>1 DEF Recalculated
        <5>2. \A l \in 1 .. m : ~Asks(l, i)
          BY <1>0, <5>1 DEF PositionInv, HeldInv, CachedWhenDecided
        <5> QED BY <1>11, <5>2
      <4>3. \A l \in 1 .. (m+1)-1 : l \in 1 .. m
        BY <1>10
      <4>4. Asks(m+1, i)' /\ (force => Forces(m+1, i)')
        BY <1>12
      <4>5. Forces(m+1, i)' \/ \A l \in 1 .. (m+1)-1 : ~Asks(l, i)'
        BY <4>2, <4>3, <4>4
      <4>6. \A l \in (m+1)+1 .. m+1 : ~Forces(l, i)'
        BY <4>1
      <4> QED BY <4>4, <4>5, <4>6 DEF Decides
    <3>6. ComputedAt(m+1, m+1, i, cached[i])'
      <4>1. held'[m+1].answer.at = pool
        BY <1>0, <1>2, <1>10
      <4>2. MethodAmount(held[m+1].answer.at, i)' = MethodAmount(pool, i)
        BY <1>1, <3>3, <4>1
      <4> QED BY <1>5, <3>1, <3>2, <3>5, <4>1, <4>2 DEF ComputedAt
    <3>7. m+1 \in 1 .. m+1
      BY <1>10
    <3> QED BY <3>1, <3>2, <3>4, <3>6, <3>7
  <2>2. CASE ~Recalculated(i, force)
    <3>1. ~force /\ cached[i] # None /\ cached'[i] = cached[i]
      BY <1>1, <2>2 DEF Recalculated
    <3>2. PICK j \in 1 .. m : ComputedAt(j, m, i, cached[i])
      BY <1>0, <3>1 DEF PositionInv, HeldInv, CachedWhenDecided
    <3>3. ~Forces(m+1, i)' /\ j \in 1 .. m+1
      BY <1>10, <1>12, <3>1
    <3>4. PICK amount : amount = cached[i]
      OBVIOUS
    <3>5. ComputedAt(j, m+1, i, amount)' /\ cached'[i] = amount
      BY <1>14, <3>1, <3>2, <3>3, <3>4
    <3>6. ComputedAt(j, m+1, i, cached[i])'
      BY <3>5 DEF ComputedAt
    <3> QED BY <3>1, <3>3, <3>6
  <2> QED BY <2>1, <2>2
<1>16. CachedWhenDecided'
  <2> SUFFICES ASSUME NEW t \in {1, 2}
               PROVE  IF cached'[t] = None THEN \A l \in 1 .. m+1 : ~Asks(l, t)'
                      ELSE \E j \in 1 .. m+1 : ComputedAt(j, m+1, t, cached[t])'
    BY <1>10 DEF CachedWhenDecided
  <2>1. CASE t = i
    BY <1>15, <2>1
  <2>2. CASE t # i
    <3>1. cached'[t] = cached[t] /\ ~Asks(m+1, t)' /\ ~Forces(m+1, t)'
      BY <1>1, <1>5, <1>12, <2>2
    <3>2. CASE cached[t] = None
      <4>1. \A l \in 1 .. m : ~Asks(l, t)
        BY <1>0, <3>2 DEF PositionInv, HeldInv, CachedWhenDecided
      <4>2. \A l \in 1 .. m+1 : ~Asks(l, t)'
        BY <1>11, <1>13, <3>1, <4>1
      <4> QED BY <3>1, <3>2, <4>2
    <3>3. CASE cached[t] # None
      <4>1. PICK j \in 1 .. m : ComputedAt(j, m, t, cached[t])
        BY <1>0, <3>3 DEF PositionInv, HeldInv, CachedWhenDecided
      <4>2. PICK amount : amount = cached[t]
        OBVIOUS
      <4>3. ComputedAt(j, m+1, t, amount)' /\ j \in 1 .. m+1 /\ cached'[t] = amount
        BY <1>10, <1>14, <3>1, <4>1, <4>2
      <4>4. ComputedAt(j, m+1, t, cached[t])'
        BY <4>3 DEF ComputedAt
      <4> QED BY <3>1, <3>3, <4>3, <4>4
    <3> QED BY <3>2, <3>3
  <2> QED BY <2>1, <2>2
<1>17. AskedWhenDecided'
  <2> SUFFICES ASSUME NEW k \in 1 .. m+1, NEW t \in {1, 2}, Asks(k, t)'
               PROVE  \E j \in 1 .. k : ComputedAt(j, k, t, held[k].answer.amounts[t])'
    BY <1>10 DEF AskedWhenDecided
  <2>1. CASE k \in 1 .. m
    <3>1. Asks(k, t) /\ held'[k] = held[k]
      BY <1>10, <1>11, <2>1
    <3>2. PICK j \in 1 .. k : ComputedAt(j, k, t, held[k].answer.amounts[t])
      BY <1>0, <2>1, <3>1 DEF PositionInv, HeldInv, AskedWhenDecided
    <3>3. \A amount : ComputedAt(j, k, t, amount) => ComputedAt(j, k, t, amount)'
      BY <1>11, <2>1
    <3>4. ComputedAt(j, k, t, held[k].answer.amounts[t])'
      BY <3>1, <3>2, <3>3 DEF ComputedAt
    <3> QED BY <3>4
  <2>2. CASE k = m+1
    <3>1. t = i /\ held'[k].answer.amounts = cached'
      BY <1>0, <1>2, <1>10, <1>12, <2>2
    <3>2. PICK j \in 1 .. k : ComputedAt(j, m+1, i, cached[i])'
      BY <1>15, <2>2
    <3>3. ComputedAt(j, k, t, held[k].answer.amounts[t])'
      BY <2>2, <3>1, <3>2 DEF ComputedAt
    <3> QED BY <3>3
  <2> QED BY <1>13, <2>1, <2>2
<1> QED BY <1>7, <1>8, <1>9, <1>16, <1>17 DEF PositionInv, HeldInv

(* Above its range a position holds no token0, below it no token1.           *)
LEMMA NothingOutside ==
  ASSUME NEW p, InOrder(p), NEW pos, Spans(pos), NEW up \in BOOLEAN
  PROVE  /\ ~(p.tick < pos.upper) => Amount0(p, pos, up) = 0
         /\ ~(p.tick >= pos.lower) => Amount1(p, pos, up) = 0
<1>1. p.tick \in Int /\ pos.lower \in Int /\ pos.upper \in Int /\ pos.lower < pos.upper
  BY TicksInOrder DEF InOrder, Spans
<1>2. ASSUME ~(p.tick < pos.upper) PROVE Amount0(p, pos, up) = 0
  <2>1. ~(p.tick < pos.lower) /\ ~(pos.lower <= p.tick /\ p.tick < pos.upper)
    BY <1>1, <1>2
  <2> QED BY <2>1, Zenon DEF Amount0
<1>3. ASSUME ~(p.tick >= pos.lower) PROVE Amount1(p, pos, up) = 0
  <2>1. p.tick < pos.lower /\ ~(pos.lower <= p.tick /\ p.tick < pos.upper)
    BY <1>1, <1>3
  <2> QED BY <2>1, Zenon DEF Amount1
<1> QED BY <1>2, <1>3

(* CalcAmount0 and CalcAmount1 answer with a word that holds the amount, or  *)
(* with zero where there is none.                                            *)
LEMMA CalcAmountKeeps ==
  ASSUME PositionInv, NEW i \in {1, 2}, CalcAmount(i)
  PROVE  PositionInv'
<1> DEFINE exact == BurnAmounts(pool, position)
           computed == IF i = 1 THEN pool.tick < position.upper ELSE pool.tick >= position.lower
           pointers == [NoPointers EXCEPT ![i] = IF computed THEN Word2 ELSE Zero]
<1>1. /\ UNCHANGED <<pool, position, token0Price, cached>>
      /\ words' = IF computed THEN [words EXCEPT ![Word2] = exact[i]] ELSE words
      /\ held' = Append(held, [answer |-> answer', pointers |-> pointers])
      /\ answer' = [of |-> <<"CalcAmount", i>>, amounts |-> [<<0, 0>> EXCEPT ![i] = exact[i]], at |-> pool]
      /\ position.liquidity > 0
  BY DEF CalcAmount, Calling, AnswerWith
<1>2. answer'.of = <<"CalcAmount", i>> /\ answer'.at = pool /\ answer'.amounts = [<<0, 0>> EXCEPT ![i] = exact[i]]
  BY <1>1
<1>3. /\ answer'.of[1] = "CalcAmount" /\ answer'.of[2] = i /\ answer'.amounts[i] = exact[i]
      /\ answer'.of # <<"CalcAmounts">>
  <2>1. answer'.of[1] = "CalcAmount" /\ answer'.of[2] = i
    BY <1>2
  <2>2. [<<0, 0>> EXCEPT ![i] = exact[i]][i] = exact[i]
    <3> HIDE DEF exact
    <3> QED OBVIOUS
  <2>3. answer'.of # <<"CalcAmounts">>
    BY <2>1
  <2> QED BY <1>2, <2>1, <2>2, <2>3
<1>4. /\ pool \in PoolStates /\ Spans(position) /\ DOMAIN words = {1, 2} /\ DOMAIN cached = {1, 2}
      /\ token0Price \in {None} \cup 0 .. Word-1
  BY DEF PositionInv, KeepsTypes
<1>5. DOMAIN words' = {1, 2}
  BY <1>1, <1>4
<1>6. KeepsTypes' /\ MadeOfAmounts'
  BY <1>1, <1>2, <1>3, <1>4, <1>5, AskingKeeps
<1>7. MinimumsOfPrice'
  BY <1>3 DEF MinimumsOfPrice
<1>8. ~computed => exact[i] = 0
  <2>1. /\ ~(pool.tick < position.upper) => Amount0(pool, position, FALSE) = 0
        /\ ~(pool.tick >= position.lower) => Amount1(pool, position, FALSE) = 0
    BY <1>4, PoolStatesInOrder, NothingOutside
  <2>2. exact[1] = Amount0(pool, position, FALSE) /\ exact[2] = Amount1(pool, position, FALSE)
    BY DEF BurnAmounts
  <2>3. ~computed => IF i = 1 THEN ~(pool.tick < position.upper) ELSE ~(pool.tick >= position.lower)
    OBVIOUS
  <2> HIDE DEF exact, computed
  <2> QED BY <2>1, <2>2, <2>3
<1>0. PICK e : e = [answer |-> answer', pointers |-> pointers]
  OBVIOUS
<1>9. /\ e.answer = answer' /\ e.pointers = pointers /\ held' = Append(held, e)
      /\ pointers[i] = (IF computed THEN Word2 ELSE Zero)
      /\ \A t \in {1, 2} : t # i => pointers[t] = None
  BY <1>0, <1>1 DEF NoPointers
<1>10. words' = (IF computed THEN [words EXCEPT ![Word2] = exact[i]] ELSE words)
  BY <1>1
<1> HIDE DEF pointers, computed, exact
<1>11. None # Zero /\ None # Word1 /\ None # Word2 /\ Zero # Word1 /\ Zero # Word2 /\ Word1 # Word2
       /\ Word1 \in {1, 2} /\ Word2 \in {1, 2}
  BY DEF None, Zero, Word1, Word2
<1>12. HeldInOrder' /\ WordsGiven' /\ PointersReadTheLast'
  <2>1. \A t \in {1, 2} : e.pointers[t] \in {None, Zero, Word2}
    BY <1>9
  <2>2. \A t \in {1, 2} : e.pointers[t] = Zero => e.answer.amounts[t] = 0
    BY <1>3, <1>8, <1>9, <1>11
  <2>3. e.answer.of # <<"CalcAmounts">> /\ e.pointers[1] # Word1 /\ e.pointers[2] # Word1
    BY <1>3, <1>9, <1>11, <2>1
  <2>4. \A w \in {Word1, Word2} : (\A t \in {1, 2} : e.pointers[t] # w) => words'[w] = words[w]
    BY <1>4, <1>9, <1>10, <1>11
  <2>5. \A t \in {1, 2} : e.pointers[t] \in {Word1, Word2} => words'[e.pointers[t]] = e.answer.amounts[t]
    BY <1>3, <1>4, <1>9, <1>10, <1>11
  <2>6. HeldInv
    BY DEF PositionInv
  <2> QED BY <1>1, <1>9, <2>1, <2>2, <2>3, <2>4, <2>5, <2>6, LastIsRead
<1>13. CachedWhenDecided' /\ AskedWhenDecided'
  <2>1. e.answer.of[1] \notin {"Amount", "Forced"}
    BY <1>3, <1>9
  <2> QED BY <1>1, <1>9, <2>1, OthersDecideNothing DEF PositionInv
<1> QED BY <1>6, <1>7, <1>12, <1>13 DEF PositionInv, HeldInv

(* CalcAmounts answers with its two words, one for each amount.              *)
LEMMA CalcAmountsKeeps ==
  ASSUME PositionInv, CalcAmounts
  PROVE  PositionInv'
<1> DEFINE owed == MintAmounts(pool, position)
           computed == <<pool.tick < position.upper, pool.tick >= position.lower>>
           Stored(w) == {i \in {1, 2} : computed[i] /\ CalcWords[i] = w}
           last(w) == CHOOSE i \in Stored(w) : \A j \in Stored(w) : j <= i
           pointers == [i \in {1, 2} |-> IF computed[i] THEN CalcWords[i] ELSE Zero]
<1>1. /\ UNCHANGED <<pool, position, token0Price, cached>>
      /\ words' = [w \in {Word1, Word2} |-> IF Stored(w) = {} THEN words[w] ELSE owed[last(w)]]
      /\ held' = Append(held, [answer |-> answer', pointers |-> pointers])
      /\ answer' = [of |-> <<"CalcAmounts">>, amounts |-> owed, at |-> pool]
      /\ position.liquidity > 0
  BY DEF CalcAmounts, Calling, AnswerWith
<1>2. answer'.of = <<"CalcAmounts">> /\ answer'.at = pool /\ answer'.amounts = owed /\ answer'.of[1] = "CalcAmounts"
  BY <1>1
<1>3. /\ pool \in PoolStates /\ Spans(position) /\ DOMAIN cached = {1, 2}
      /\ token0Price \in {None} \cup 0 .. Word-1
  BY DEF PositionInv, KeepsTypes
<1>4. DOMAIN words' = {1, 2}
  BY <1>1 DEF Word1, Word2
<1>5. KeepsTypes' /\ MadeOfAmounts'
  BY <1>1, <1>2, <1>3, <1>4, AskingKeeps
<1>6. MinimumsOfPrice'
  BY <1>2 DEF MinimumsOfPrice
<1>7. \A i \in {1, 2} : computed[i] => words'[i] = owed[i] /\ pointers[i] = i
  <2> SUFFICES ASSUME NEW i \in {1, 2}, computed[i] PROVE words'[i] = owed[i] /\ pointers[i] = i
    OBVIOUS
  <2>1. CalcWords[i] = i /\ \A j \in {1, 2} : CalcWords[j] = j
    BY DEF CalcWords, Word1, Word2
  <2>2. Stored(i) = {i}
    <3> HIDE DEF computed
    <3> QED BY <2>1
  <2>3. last(i) = i
    <3> HIDE DEF Stored
    <3>1. i \in Stored(i) /\ \A j \in Stored(i) : j <= i
      BY <2>2
    <3>2. last(i) \in Stored(i)
      BY <3>1
    <3> QED BY <2>2, <3>2
  <2>4. pointers[i] = i
    <3> HIDE DEF computed
    <3> QED BY <2>1
  <2> HIDE DEF last, Stored, computed, owed, pointers
  <2> QED BY <1>1, <2>2, <2>3, <2>4 DEF Word1, Word2
<1>8. \A i \in {1, 2} : ~computed[i] => owed[i] = 0 /\ pointers[i] = 0 /\ words'[i] = words[i]
  <2>1. /\ ~(pool.tick < position.upper) => Amount0(pool, position, TRUE) = 0
        /\ ~(pool.tick >= position.lower) => Amount1(pool, position, TRUE) = 0
    BY <1>3, PoolStatesInOrder, NothingOutside
  <2>2. ~computed[1] => Amount0(pool, position, TRUE) = 0
    BY <2>1
  <2>3. ~computed[2] => Amount1(pool, position, TRUE) = 0
    BY <2>1
  <2>4. owed[1] = Amount0(pool, position, TRUE) /\ owed[2] = Amount1(pool, position, TRUE)
    BY DEF MintAmounts
  <2>5. \A i \in {1, 2} : ~computed[i] => pointers[i] = 0
    <3> HIDE DEF computed
    <3> QED BY DEF Zero
  <2>6. \A i \in {1, 2} : ~computed[i] => Stored(i) = {}
    <3>1. \A j \in {1, 2} : CalcWords[j] = j
      BY DEF CalcWords, Word1, Word2
    <3> HIDE DEF computed
    <3> QED BY <3>1
  <2> HIDE DEF owed, computed, pointers, Stored, last
  <2>7. \A i \in {1, 2} : ~computed[i] => words'[i] = words[i]
    BY <1>1, <2>6 DEF Word1, Word2
  <2> QED BY <2>2, <2>3, <2>4, <2>5, <2>7
<1>9. PICK e : e = [answer |-> answer', pointers |-> pointers]
  OBVIOUS
<1>10. e.answer = answer' /\ e.pointers = pointers /\ held' = Append(held, e)
  BY <1>9, <1>1
<1> HIDE DEF pointers, computed, owed
<1>11. HeldInOrder' /\ WordsGiven' /\ PointersReadTheLast'
  <2>1. \A t \in {1, 2} : e.pointers[t] \in {Zero, t}
    BY <1>7, <1>8, <1>10 DEF Zero
  <2>2. \A t \in {1, 2} : e.pointers[t] = Zero => e.answer.amounts[t] = 0
    BY <1>2, <1>7, <1>8, <1>10 DEF Zero
  <2>3. e.answer.of = <<"CalcAmounts">> /\ e.pointers[1] # Word2 /\ e.pointers[2] # Word1
    BY <1>2, <1>10, <2>1 DEF Zero, Word1, Word2
  <2>4. \A w \in {Word1, Word2} : (\A t \in {1, 2} : e.pointers[t] # w) => words'[w] = words[w]
    <3> SUFFICES ASSUME NEW w \in {1, 2}, e.pointers[w] # w PROVE words'[w] = words[w]
      BY DEF Word1, Word2
    <3> QED BY <1>7, <1>8, <1>10
  <2>5. \A t \in {1, 2} : e.pointers[t] \in {Word1, Word2} => words'[e.pointers[t]] = e.answer.amounts[t]
    BY <1>2, <1>7, <1>8, <1>10, <2>1 DEF Zero, Word1, Word2
  <2>6. HeldInv /\ \A t \in {1, 2} : e.pointers[t] \in {None, Zero, Word1, Word2}
    BY <2>1 DEF PositionInv, Word1, Word2
  <2> QED BY <1>1, <1>10, <2>2, <2>3, <2>4, <2>5, <2>6, LastIsRead
<1>12. CachedWhenDecided' /\ AskedWhenDecided'
  <2>1. e.answer.of[1] \notin {"Amount", "Forced"}
    BY <1>2, <1>10
  <2> QED BY <1>1, <1>10, <2>1, OthersDecideNothing DEF PositionInv
<1> QED BY <1>5, <1>6, <1>11, <1>12 DEF PositionInv, HeldInv

(* MintAmounts writes nothing.                                               *)
LEMMA AskMintAmountsKeeps ==
  ASSUME PositionInv, AskMintAmounts
  PROVE  PositionInv'
<1>1. UNCHANGED <<pool, position, token0Price, cached, words, held>>
  BY DEF AskMintAmounts, Calling
<1>2. answer'.at = pool /\ answer'.of[1] = "MintAmounts"
  BY DEF AskMintAmounts
<1>3. KeepsTypes' /\ MadeOfAmounts'
  <2>1. DOMAIN cached = {1, 2} /\ DOMAIN words = {1, 2} /\ token0Price \in {None} \cup 0 .. Word-1
    BY DEF PositionInv, KeepsTypes
  <2> QED BY <1>1, <1>2, <2>1, AskingKeeps
<1>4. MinimumsOfPrice'
  BY <1>2 DEF MinimumsOfPrice
<1>5. HeldInv'
  BY <1>1, HeldStays DEF PositionInv
<1> QED BY <1>3, <1>4, <1>5 DEF PositionInv

(* The price that is asked for is a word, computed now or kept.              *)
LEMMA PriceIsWord ==
  ASSUME KeepsTypes
  PROVE  Token0Price \in 0 .. Word-1 /\ Token0Price # None
<1>1. pool.sqrtRatio \in Nat
  BY PoolStatesInOrder DEF KeepsTypes, InOrder, PriceWord
<1>2. CalcToken0Price(pool) \in 0 .. Word-1
  <2>1. pool.sqrtRatio * pool.sqrtRatio \in Int
    BY <1>1
  <2> QED BY <2>1, WordsInRange, TicksInOrder DEF CalcToken0Price, Times
<1>3. Token0Price \in 0 .. Word-1
  BY <1>2 DEF Token0Price, KeepsTypes
<1> QED BY <1>3 DEF None

(* The minimums of a mint are those of the price that is kept from now on.   *)
LEMMA AskMintAmountsWithSlippageKeeps ==
  ASSUME PositionInv, NEW s \in Tolerances, AskMintAmountsWithSlippage(s)
  PROVE  PositionInv'
<1>1. /\ UNCHANGED <<pool, position, cached, words, held>> /\ token0Price' = Token0Price
      /\ answer' = [of |-> <<"Mint", s>>, at |-> pool,
                    amounts |-> MintAmountsWithSlippage(pool, position, Token0Price, s)]
  BY DEF AskMintAmountsWithSlippage, Calling
<1>2. /\ answer'.at = pool /\ answer'.of = <<"Mint", s>> /\ answer'.of[1] = "Mint" /\ answer'.of[2] = s
      /\ answer'.amounts = MintAmountsWithSlippage(pool, position, Token0Price, s)
  BY <1>1
<1>3. token0Price' \in 0 .. Word-1 /\ token0Price' # None
  BY <1>1, PriceIsWord DEF PositionInv
<1>4. KeepsTypes' /\ MadeOfAmounts'
  <2>1. DOMAIN cached = {1, 2} /\ DOMAIN words = {1, 2}
    BY DEF PositionInv, KeepsTypes
  <2> QED BY <1>1, <1>2, <1>3, <2>1, AskingKeeps
<1>5. MinimumsOfPrice'
  <2>1. \A z \in Tolerances : answer'.of # <<"Burn", z>>
    BY <1>2
  <2>2. \A z \in Tolerances : answer'.of = <<"Mint", z>> => z = s
    BY <1>2
  <2> QED BY <1>1, <1>2, <1>3, <2>1, <2>2 DEF MinimumsOfPrice
<1>6. HeldInv'
  BY <1>1, HeldStays DEF PositionInv
<1> QED BY <1>4, <1>5, <1>6 DEF PositionInv

(* And so are those of a burn.                                               *)
LEMMA AskBurnAmountsWithSlippageKeeps ==
  ASSUME PositionInv, NEW s \in Tolerances, AskBurnAmountsWithSlippage(s)
  PROVE  PositionInv'
<1>1. /\ UNCHANGED <<pool, position, cached, words, held>> /\ token0Price' = Token0Price
      /\ answer' = [of |-> <<"Burn", s>>, at |-> pool,
                    amounts |-> BurnAmountsWithSlippage(position, Token0Price, s)]
  BY DEF AskBurnAmountsWithSlippage, Calling
<1>2. /\ answer'.at = pool /\ answer'.of = <<"Burn", s>> /\ answer'.of[1] = "Burn" /\ answer'.of[2] = s
      /\ answer'.amounts = BurnAmountsWithSlippage(position, Token0Price, s)
  BY <1>1
<1>3. token0Price' \in 0 .. Word-1 /\ token0Price' # None
  BY <1>1, PriceIsWord DEF PositionInv
<1>4. KeepsTypes' /\ MadeOfAmounts'
  <2>1. DOMAIN cached = {1, 2} /\ DOMAIN words = {1, 2}
    BY DEF PositionInv, KeepsTypes
  <2> QED BY <1>1, <1>2, <1>3, <2>1, AskingKeeps
<1>5. MinimumsOfPrice'
  <2>1. \A z \in Tolerances : answer'.of # <<"Mint", z>>
    BY <1>2
  <2>2. \A z \in Tolerances : answer'.of = <<"Burn", z>> => z = s
    BY <1>2
  <2> QED BY <1>1, <1>2, <1>3, <2>1, <2>2 DEF MinimumsOfPrice
<1>6. HeldInv'
  BY <1>1, HeldStays DEF PositionInv
<1> QED BY <1>4, <1>5, <1>6 DEF PositionInv

(* Every call, and every move of the pool, keeps the invariant.              *)
LEMMA PositionStepKeeps == PositionInv /\ [Next]_vars => PositionInv'
<1> SUFFICES ASSUME PositionInv, [Next]_vars PROVE PositionInv'
  OBVIOUS
<1>1. CASE Create
  <2>1. PICK lower \in UsableTicks, upper \in UsableTicks :
          \/ \E amount0, amount1 \in Amounts, full \in BOOLEAN : FromAmounts(lower, upper, amount0, amount1, full)
          \/ \E amount0 \in Amounts, full \in BOOLEAN : FromAmount0(lower, upper, amount0, full)
          \/ \E amount1 \in Amounts : FromAmount1(lower, upper, amount1)
    BY <1>1 DEF Create
  <2>2. \E amount0, amount1 \in AmountsAtHand, full \in BOOLEAN : FromAmounts(lower, upper, amount0, amount1, full)
    BY <2>1 DEF AmountsAtHand, FromAmount0, FromAmount1
  <2> QED BY <2>2, FromAmountsKeeps
<1>2. CASE Ask
  <2>1. CASE \E i \in {1, 2}, force \in BOOLEAN : Amount(i, force)
    BY <2>1, AmountKeeps
  <2>2. CASE \E i \in {1, 2} : CalcAmount(i)
    BY <2>2, CalcAmountKeeps
  <2>3. CASE CalcAmounts
    BY <2>3, CalcAmountsKeeps
  <2>4. CASE AskMintAmounts
    BY <2>4, AskMintAmountsKeeps
  <2>5. CASE \E s \in Tolerances : AskMintAmountsWithSlippage(s)
    BY <2>5, AskMintAmountsWithSlippageKeeps
  <2>6. CASE \E s \in Tolerances : AskBurnAmountsWithSlippage(s)
    BY <2>6, AskBurnAmountsWithSlippageKeeps
  <2> QED BY <1>2, <2>1, <2>2, <2>3, <2>4, <2>5, <2>6 DEF Ask
<1>3. CASE \E p \in PoolStates : MovePool(p)
  BY <1>3, MovePoolKeeps
<1>4. CASE UNCHANGED vars
  <2>1. UNCHANGED <<pool, token0Price, position, cached, words, held, answer>>
    BY <1>4 DEF vars
  <2>2. HeldInv'
    BY <2>1, HeldStays DEF PositionInv
  <2> QED BY <2>1, <2>2 DEF PositionInv, KeepsTypes, MadeOfAmounts, MinimumsOfPrice
<1> QED BY <1>1, <1>2, <1>3, <1>4 DEF Next

(* The invariant of position.go: the pool's price and tick agree with the    *)
(* table, a position has its ticks in order and a liquidity that the amounts *)
(* can be computed with, and an answer is that of the pool it saw.           *)
THEOREM PositionInvariant == Spec => []PositionInv
<1>1. Init => PositionInv
  BY PositionStarts
<1>2. PositionInv /\ [Next]_vars => PositionInv'
  BY PositionStepKeeps
<1> QED BY <1>1, <1>2, PTL DEF Spec
-----------------------------------------------------------------------------
(* Whatever two amounts FromAmounts is given, of all prices, ranges and both *)
(* precisions, minting what it makes takes no more of either.                *)
THEOREM FitsTheAmountsHolds == Spec => []FitsTheAmounts
<1>1. PositionInv => FitsTheAmounts
  <2> SUFFICES ASSUME PositionInv, answer.of = <<"FromAmounts">>
               PROVE  /\ MintAmounts(answer.at, position)[1] <= position.from.amount0
                      /\ MintAmounts(answer.at, position)[2] <= position.from.amount1
    BY DEF FitsTheAmounts
  <2> DEFINE from == position.from  p == answer.at
  <2>1. /\ p \in PoolStates /\ InOrder(p) /\ Spans(position) /\ position \in Position
        /\ position.liquidity = LiquidityFromAmounts(p, position.lower, position.upper,
                                                     from.amount0, from.amount1, from.full)
    BY PoolStatesInOrder DEF PositionInv, KeepsTypes, MadeOfAmounts
  <2>2. from.amount0 \in Nat /\ from.amount1 \in Nat /\ from.full \in BOOLEAN
    BY <2>1 DEF Position, Made
  <2>3. p.sqrtRatio <= p.sqrtRatio
    BY <2>1 DEF InOrder, PriceWord
  <2> HIDE DEF from, p
  <2>4. MintAmounts(p, position)[1] \in 0 .. from.amount0 /\ MintAmounts(p, position)[2] \in 0 .. from.amount1
    BY <2>1, <2>2, <2>3, CreatedAlongPrice
  <2> QED BY <2>2, <2>4 DEF from, p
<1> QED BY <1>1, PositionInvariant, PTL

(* In full precision nothing is left to gain: one unit of liquidity more     *)
(* costs more of a token than the caller has.                                *)
THEOREM PreciseIsMaximalHolds == Spec => []PreciseIsMaximal
<1>1. PositionInv => PreciseIsMaximal
  <2> DEFINE from == position.from  p == answer.at
  <2> SUFFICES ASSUME PositionInv, answer.of = <<"FromAmounts">>, from.full,
                      MaxUint256 \notin {from.amount0, from.amount1}
               PROVE  LET more == MintAmounts(p, [position EXCEPT !.liquidity = @ + 1])
                      IN  more[1] > from.amount0 \/ more[2] > from.amount1
    BY DEF PreciseIsMaximal
  <2>1. /\ p \in PoolStates /\ Spans(position) /\ position \in Position /\ Liquid(position.liquidity)
        /\ position.lower \in UsableTicks /\ position.upper \in UsableTicks
        /\ from.amount0 \in AmountsAtHand /\ from.amount1 \in AmountsAtHand
        /\ position.liquidity = LiquidityFromAmounts(p, position.lower, position.upper,
                                                     from.amount0, from.amount1, from.full)
    BY DEF PositionInv, KeepsTypes, MadeOfAmounts
  <2>2. from.amount0 \in Amounts /\ from.amount1 \in Amounts
    BY <2>1 DEF AmountsAtHand
  <2>3. from.full = TRUE
    BY <2>1 DEF Position, Made
  <2> HIDE DEF from, p
  <2> QED BY <2>1, <2>2, <2>3, MoreCosts
<1> QED BY <1>1, PositionInvariant, PTL

(* The least that a caller may be given or charged, in spite of roots, of    *)
(* clamps and of a price that is rounded: a burn reaches its minimums        *)
(* wherever the price ends inside the tolerance, a mint if the price stays.  *)
THEOREM MinimumsCanBeMetHolds == Spec => []MinimumsCanBeMet
<1>1. PositionInv => MinimumsCanBeMet
  <2> SUFFICES ASSUME PositionInv, answer.at = pool, PriceIsThePools, NEW s \in Tolerances
               PROVE  /\ answer.of = <<"Burn", s>> =>
                           \A p \in Between(Token0Price, s) : AtLeast(BurnAmounts(p, position), answer.amounts)
                      /\ answer.of = <<"Mint", s>> => AtLeast(MintAmounts(pool, position), answer.amounts)
    BY DEF MinimumsCanBeMet
  <2> DEFINE price == pool.sqrtRatio * pool.sqrtRatio
  <2>1. /\ InOrder(pool) /\ pool.sqrtRatio > MinSqrtRatio
        /\ position \in Position /\ Spans(position) /\ Liquid(position.liquidity)
    BY PoolStatesInOrder DEF PositionInv, KeepsTypes
  <2>2. Token0Price = price /\ price < Word
    <3>1. Token0Price = price
      BY DEF PriceIsThePools
    <3>2. Token0Price \in 0 .. Word-1
      BY PriceIsWord DEF PositionInv
    <3> QED BY <3>1, <3>2, TicksInOrder
  <2>3. token0Price # None => token0Price = price
    BY <2>2 DEF Token0Price
  <2>4. ASSUME answer.of = <<"Burn", s>>, NEW p \in Between(price, s)
        PROVE  AtLeast(BurnAmounts(p, position), answer.amounts)
    <3>1. answer.amounts = BurnAmountsWithSlippage(position, price, s)
      BY <2>3, <2>4 DEF PositionInv, MinimumsOfPrice
    <3> QED BY <2>1, <2>2, <2>4, <3>1, BurnCanBeMet
  <2>5. ASSUME answer.of = <<"Mint", s>>
        PROVE  AtLeast(MintAmounts(pool, position), answer.amounts)
    <3>1. answer.amounts = MintAmountsWithSlippage(pool, position, price, s)
      BY <2>3, <2>5 DEF PositionInv, MinimumsOfPrice
    <3> QED BY <2>1, <2>2, <3>1, MintCanBeMet
  <2> QED BY <2>2, <2>4, <2>5
<1> QED BY <1>1, PositionInvariant, PTL

(* Whatever is called and however the pool moves, a pointer that a caller    *)
(* keeps reads what it was answered with until its word is answered with     *)
(* again, then that answer, and an amount is that of the pool it was decided *)
(* by: the last forced call, or the first.                                   *)
THEOREM AnswersReadRight == Spec => []AnswersReadAsOfTheirTime
<1>1. PositionInv => AnswersReadAsOfTheirTime
  <2> SUFFICES ASSUME PositionInv PROVE AmountsAreOfTheirPool
    BY DEF PositionInv, HeldInv, AnswersReadAsOfTheirTime
  <2> SUFFICES ASSUME NEW k \in 1 .. Len(held), NEW i \in {1, 2}, Asks(k, i)
               PROVE  \E j \in 1 .. k :
                        /\ Decides(j, k, i)
                        /\ held[k].answer.amounts[i] - BurnAmounts(held[j].answer.at, position)[i]
                             \in {0, IF i = 1 THEN 1 ELSE 0}
    BY DEF AmountsAreOfTheirPool
  <2>1. PICK j \in 1 .. k : ComputedAt(j, k, i, held[k].answer.amounts[i])
    BY DEF PositionInv, HeldInv, AskedWhenDecided
  <2>2. held[j].answer.at \in PoolStates /\ held[k].answer.amounts[i] = MethodAmount(held[j].answer.at, i)
    BY <2>1 DEF ComputedAt
  <2>3. MethodAmount(held[j].answer.at, i) - BurnAmounts(held[j].answer.at, position)[i]
          \in {0, IF i = 1 THEN 1 ELSE 0}
    BY <2>2, MethodAmountIsAmount DEF PositionInv
  <2> QED BY <2>1, <2>2, <2>3 DEF ComputedAt
<1> QED BY <1>1, PositionInvariant, PTL
=============================================================================

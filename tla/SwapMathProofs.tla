--------------------------- MODULE SwapMathProofs ---------------------------
(***************************************************************************)
(* What the roundings of a swap step add up to, at any scale: the amounts  *)
(* between two prices and the price after an amount, as floors and         *)
(* ceilings of the exact quotients, and what ComputeSwapStep returns for   *)
(* every price, target, liquidity, amount and fee.                         *)
(***************************************************************************)
EXTENDS SwapMath, WellFoundedInduction, TLAPS

IsFloor(q, x, d) == q \in Nat /\ d * q <= x /\ x < d * q + d
IsCeiling(c, x, d) == c \in Nat /\ x <= d * c /\ d * c < x + d
-----------------------------------------------------------------------------
(* Every nonempty set of natural numbers has a least element. *)
LEMMA NatMinimum ==
  ASSUME NEW T, T \subseteq Nat, T # {}
  PROVE  \E x \in T : \A y \in T : x <= y
<1> DEFINE R == {ss \in Nat \X Nat : ss[1] < ss[2]}
<1>1. IsWellFoundedOn(R, Nat)
  BY NatLessThanWellFounded DEF OpToRel
<1>2. \E x \in T : \A y \in T : ~ (<<y, x>> \in R)
  BY <1>1, WFMin
<1>3. PICK x \in T : \A y \in T : ~ (<<y, x>> \in R)
  BY <1>2
<1>4. ASSUME NEW y \in T PROVE x <= y
  <2>1. x \in Nat /\ y \in Nat
    OBVIOUS
  <2>2. ~ (<<y, x>> \in R)
    BY <1>3
  <2>3. ~ (y < x)
    BY <2>1, <2>2
  <2>4. QED
    BY <2>1, <2>3
<1>5. QED
  BY <1>4

(* Products are ordered as their factors are, and the other way round.       *)
LEMMA TimesMonotonic ==
  ASSUME NEW a \in Int, NEW b \in Int, NEW c \in Nat
  PROVE  /\ a <= b => a * c <= b * c
         /\ a * c < b * c => a < b
         /\ c > 0 /\ a < b => a * c < b * c
         /\ c > 0 /\ a * c <= b * c => a <= b
<1>1. ASSUME a <= b PROVE a * c <= b * c
  <2>1. (b - a) * c >= 0
    BY <1>1, SMTT(30)
  <2>2. (b - a) * c = b * c - a * c
    BY SMTT(30)
  <2> QED BY <2>1, <2>2
<1>2. ASSUME c > 0, a < b PROVE a * c < b * c
  <2>1. (b - a - 1) * c >= 0
    BY <1>2, SMTT(30)
  <2>2. (b - a - 1) * c = b * c - a * c - c
    BY SMTT(30)
  <2> QED BY <1>2, <2>1, <2>2
<1>3. ASSUME b <= a PROVE b * c <= a * c
  <2>1. (a - b) * c >= 0
    BY <1>3, SMTT(30)
  <2>2. (a - b) * c = a * c - b * c
    BY SMTT(30)
  <2> QED BY <2>1, <2>2
<1>4. ASSUME c > 0, b < a PROVE b * c < a * c
  <2>1. (a - b - 1) * c >= 0
    BY <1>4, SMTT(30)
  <2>2. (a - b - 1) * c = a * c - b * c - c
    BY SMTT(30)
  <2> QED BY <1>4, <2>1, <2>2
<1> QED BY <1>1, <1>2, <1>3, <1>4

(* The quotient of the division is a floor, and the remainder what is left.  *)
LEMMA DivisionFacts ==
  ASSUME NEW x \in Nat, NEW d \in Nat \ {0}
  PROVE  /\ IsFloor(x \div d, x, d)
         /\ x % d \in 0 .. d-1
         /\ x = d * (x \div d) + (x % d)
<1>1. /\ x \div d \in Int
      /\ d * (x \div d) <= x
      /\ x < d * (x \div d) + d
  BY SMTT(30)
<1>2. x \div d >= 0
  BY SMTT(30)
<1>3. x % d \in 0 .. d-1
  BY SMTT(30)
<1>4. x = d * (x \div d) + (x % d)
  BY SMTT(30)
<1> QED BY <1>1, <1>2, <1>3, <1>4 DEF IsFloor

(* A floor is the greatest number that fits. *)
LEMMA FloorIsGreatest ==
  ASSUME NEW x \in Int, NEW d \in Nat \ {0}, NEW q, IsFloor(q, x, d), NEW k \in Int
  PROVE  d * k <= x <=> k <= q
<1>1. q \in Int /\ d * q <= x /\ x < d * (q+1)
  BY DEF IsFloor
<1>2. ASSUME d * k <= x PROVE k <= q
  <2>1. k * d < (q+1) * d
    BY <1>1, <1>2
  <2> QED BY <1>1, <2>1, TimesMonotonic
<1>3. ASSUME k <= q PROVE d * k <= x
  <2>1. k * d <= q * d
    BY <1>1, <1>3, TimesMonotonic
  <2> QED BY <1>1, <2>1
<1> QED BY <1>2, <1>3

(* A ceiling is the least number that covers. *)
LEMMA CeilingIsLeast ==
  ASSUME NEW x \in Int, NEW d \in Nat \ {0}, NEW c, IsCeiling(c, x, d), NEW k \in Int
  PROVE  x <= d * k <=> c <= k
<1>1. c \in Int /\ x <= d * c /\ d * (c-1) < x
  BY DEF IsCeiling
<1>2. ASSUME x <= d * k PROVE c <= k
  <2>1. (c-1) * d < k * d
    BY <1>1, <1>2
  <2>2. c-1 < k
    BY <1>1, <2>1, TimesMonotonic
  <2> QED BY <1>1, <2>2
<1>3. ASSUME c <= k PROVE x <= d * k
  <2>1. c * d <= k * d
    BY <1>1, <1>3, TimesMonotonic
  <2> QED BY <1>1, <2>1
<1> QED BY <1>2, <1>3

(* A ceiling of a ceiling, a floor of a floor: what two divisions in a row   *)
(* make is what one by the product would.                                    *)
LEMMA CeilingOfCeiling ==
  ASSUME NEW x \in Int, NEW d \in Nat \ {0}, NEW e \in Nat \ {0},
         NEW c, IsCeiling(c, x, d), NEW b, IsCeiling(b, c, e)
  PROVE  IsCeiling(b, x, d * e)
<1>1. /\ b \in Nat /\ c \in Nat /\ x <= d * c /\ d * (c-1) < x
      /\ c <= e * b /\ e * b <= c - 1 + e
  BY DEF IsCeiling
<1>2. c * d <= (e * b) * d /\ (e * b) * d <= (c - 1 + e) * d
  BY <1>1, TimesMonotonic
<1>3. (e * b) * d = (d * e) * b /\ (c - 1 + e) * d = d * (c-1) + d * e /\ c * d = d * c
  BY <1>1, SMTT(30)
<1> QED BY <1>1, <1>2, <1>3 DEF IsCeiling

(* Dividing twice and rounding down each time rounds down once. *)
LEMMA FloorOfFloor ==
  ASSUME NEW x \in Int, NEW d \in Nat \ {0}, NEW e \in Nat \ {0},
         NEW c, IsFloor(c, x, d), NEW b, IsFloor(b, c, e)
  PROVE  IsFloor(b, x, d * e)
<1>1. /\ b \in Nat /\ c \in Nat /\ d * c <= x /\ x < d * (c+1)
      /\ e * b <= c /\ c + 1 <= e * b + e
  BY DEF IsFloor
<1>2. (e * b) * d <= c * d /\ (c + 1) * d <= (e * b + e) * d
  BY <1>1, TimesMonotonic
<1>3. (e * b) * d = (d * e) * b /\ (e * b + e) * d = (d * e) * b + d * e /\ c * d = d * c /\ (c+1) * d = d * (c+1)
  BY <1>1, SMTT(30)
<1> QED BY <1>1, <1>2, <1>3 DEF IsFloor
-----------------------------------------------------------------------------
(* Words are not truncated as long as what they hold fits.                   *)
LEMMA WordsThatFit ==
  ASSUME NEW x \in Nat, x < Word
  PROVE  x % Word = x
BY ScaleAssumption, SMTT(30)

(* A word is a natural number and never above the number it is cut from. *)
LEMMA WordsInRange ==
  ASSUME NEW x \in Int
  PROVE  /\ x % Word \in Nat /\ x % Word < Word
         /\ x \in Nat => x % Word <= x
<1>1. x % Word \in Nat /\ x % Word < Word
  BY ScaleAssumption, SMTT(30)
<1>2. ASSUME x \in Nat PROVE x % Word <= x
  <2>1. CASE x < Word
    BY <1>2, <2>1, WordsThatFit
  <2>2. CASE ~(x < Word)
    BY <1>1, <2>2, ScaleAssumption
  <2> QED BY <2>1, <2>2
<1> QED BY <1>1, <1>2

(* DivRoundingUp rounds up. *)
LEMMA DivRoundingUpIsCeiling ==
  ASSUME NEW x \in Nat, NEW d \in Nat \ {0}
  PROVE  IsCeiling(DivRoundingUp(x, d), x, d)
<1> DEFINE q == x \div d  r == x % d
<1>1. q \in Nat /\ r \in 0 .. d-1 /\ x = d * q + r
  BY DivisionFacts DEF IsFloor
<1>2. DivRoundingUp(x, d) = IF r = 0 THEN q ELSE q + 1
  BY DEF DivRoundingUp
<1> HIDE DEF q, r
<1>3. d * (q + 1) = d * q + d
  BY <1>1
<1> QED BY <1>1, <1>2, <1>3 DEF IsCeiling

(* MulDiv rounds down when its quotient fits a word. *)
LEMMA MulDivIsFloor ==
  ASSUME NEW x \in Nat, NEW y \in Nat, NEW d \in Nat \ {0}, x * y < d * Word
  PROVE  IsFloor(MulDiv(x, y, d), x * y, d)
<1>1. x * y \in Nat /\ Word \in Nat
  BY ScaleAssumption
<1> DEFINE q == (x * y) \div d
<1>2. IsFloor(q, x * y, d)
  BY <1>1, DivisionFacts
<1>3. q < Word
  <2>1. ~(d * Word <= x * y)
    BY <1>1
  <2>2. ~(Word <= q)
    BY <1>1, <1>2, <2>1, FloorIsGreatest
  <2> QED BY <1>1, <1>2, <2>2 DEF IsFloor
<1>4. MulDiv(x, y, d) = q % Word
  BY DEF MulDiv
<1> QED BY <1>2, <1>3, <1>4, WordsThatFit DEF IsFloor

(* MulDivRoundingUp rounds up when its quotient fits a word. *)
LEMMA MulDivRoundingUpIsCeiling ==
  ASSUME NEW x \in Nat, NEW y \in Nat, NEW d \in Nat \ {0}, x * y <= d * (Word-1)
  PROVE  IsCeiling(MulDivRoundingUp(x, y, d), x * y, d)
<1>1. x * y \in Nat /\ Word \in Nat \ {0} /\ d * (Word-1) = d * Word - d
  BY ScaleAssumption
<1> DEFINE q == (x * y) \div d  r == (x * y) % d
<1>2. IsFloor(q, x * y, d) /\ r \in 0 .. d-1 /\ x * y = d * q + r
  BY <1>1, DivisionFacts
<1>3. q \in Nat /\ d * (q+1) = d * q + d
  BY <1>2 DEF IsFloor
<1>4. MulDiv(x, y, d) = q
  <2>1. x * y < d * Word
    BY <1>1
  <2>2. IsFloor(MulDiv(x, y, d), x * y, d)
    BY <2>1, MulDivIsFloor
  <2>3. MulDiv(x, y, d) \in Nat /\ q <= MulDiv(x, y, d) /\ MulDiv(x, y, d) <= q
    <3>1. MulDiv(x, y, d) \in Nat /\ d * MulDiv(x, y, d) <= x * y /\ d * q <= x * y
      BY <1>2, <2>2 DEF IsFloor
    <3> QED BY <1>1, <1>2, <1>3, <2>2, <3>1, FloorIsGreatest
  <2> QED BY <1>3, <2>3
<1>5. ASSUME r # 0 PROVE q < Word - 1
  <2>1. q * d < (Word-1) * d
    BY <1>1, <1>2, <1>3, <1>5
  <2> QED BY <1>1, <1>3, <2>1, TimesMonotonic
<1>6. MulDivRoundingUp(x, y, d) = IF r # 0 THEN q + 1 ELSE q
  BY <1>4, <1>5 DEF MulDivRoundingUp
<1> HIDE DEF q, r
<1> QED BY <1>1, <1>2, <1>3, <1>6 DEF IsCeiling
-----------------------------------------------------------------------------
PriceWord == 1 .. Word-1
Liquid(liquidity) == liquidity \in Nat /\ liquidity * Q < Word

(* The amounts between two prices are exact but for one rounding each.       *)
LEMMA Amount0Rounded ==
  ASSUME NEW a \in PriceWord, NEW b \in PriceWord, a <= b,
         NEW liquidity, Liquid(liquidity)
  PROVE  /\ IsCeiling(Amount0Delta(a, b, liquidity, TRUE), (liquidity * Q) * (b - a), b * a)
         /\ IsFloor(Amount0Delta(a, b, liquidity, FALSE), (liquidity * Q) * (b - a), b * a)
<1> DEFINE n == liquidity * Q  d == b - a
<1>1. /\ a \in Nat \ {0} /\ b \in Nat \ {0} /\ n \in Nat /\ n <= Word - 1 /\ Word \in Nat
      /\ d \in Nat /\ d < b /\ d < Word /\ n * d \in Nat
  BY ScaleAssumption DEF PriceWord, Liquid
<1>2. Minus(b, a) = d
  BY <1>1, WordsThatFit DEF Minus
<1> HIDE DEF n, d
<1>3. n * d <= b * (Word-1)
  <2>1. n * d <= (Word-1) * d /\ d * (Word-1) <= b * (Word-1)
    BY <1>1, TimesMonotonic
  <2> QED BY <1>1, <2>1
<1>4. n * d < b * Word
  BY <1>1, <1>3
<1>5. /\ IsCeiling(MulDivRoundingUp(n, d, b), n * d, b)
      /\ IsFloor(MulDiv(n, d, b), n * d, b)
  BY <1>1, <1>3, <1>4, MulDivRoundingUpIsCeiling, MulDivIsFloor
<1>6. MulDivRoundingUp(n, d, b) \in Nat /\ MulDiv(n, d, b) \in Nat
  BY <1>5 DEF IsCeiling, IsFloor
<1>7. /\ IsCeiling(DivRoundingUp(MulDivRoundingUp(n, d, b), a), MulDivRoundingUp(n, d, b), a)
      /\ IsFloor(MulDiv(n, d, b) \div a, MulDiv(n, d, b), a)
  BY <1>1, <1>6, DivRoundingUpIsCeiling, DivisionFacts
<1>8. /\ IsCeiling(DivRoundingUp(MulDivRoundingUp(n, d, b), a), n * d, b * a)
      /\ IsFloor(MulDiv(n, d, b) \div a, n * d, b * a)
  BY <1>1, <1>5, <1>7, CeilingOfCeiling, FloorOfFloor
<1> QED BY <1>2, <1>8 DEF Amount0Delta, n, d

(* The amount of token1 between two prices, rounded as asked. *)
LEMMA Amount1Rounded ==
  ASSUME NEW a \in PriceWord, NEW b \in PriceWord, a <= b,
         NEW liquidity \in Nat
  PROVE  /\ IsCeiling(Amount1Delta(a, b, liquidity, TRUE), liquidity * (b - a), Q)
         /\ IsFloor(Amount1Delta(a, b, liquidity, FALSE), liquidity * (b - a), Q)
<1>1. b - a \in Nat /\ b - a < Word /\ Q \in Nat \ {0}
  BY ScaleAssumption DEF PriceWord
<1>2. Minus(b, a) = b - a
  BY <1>1, WordsThatFit DEF Minus
<1>3. liquidity * (b - a) \in Nat
  BY <1>1
<1> QED BY <1>1, <1>2, <1>3, DivRoundingUpIsCeiling, DivisionFacts DEF Amount1Delta

(* The input and output of a move from p to q: token0 moves by              *)
(* liquidity*Q*|p-q|/(p*q), token1 by liquidity*|p-q|/Q.                     *)
LEMMA MoveToTheLeft ==
  ASSUME NEW p \in PriceWord, NEW q \in PriceWord, q <= p,
         NEW liquidity, Liquid(liquidity)
  PROVE  /\ IsCeiling(InputBetween(p, q, liquidity, TRUE), (liquidity * Q) * (p - q), p * q)
         /\ IsFloor(OutputBetween(p, q, liquidity, TRUE), liquidity * (p - q), Q)
BY Amount0Rounded, Amount1Rounded DEF InputBetween, OutputBetween, Liquid

(* What a move to the right takes in and gives out. *)
LEMMA MoveToTheRight ==
  ASSUME NEW p \in PriceWord, NEW q \in PriceWord, p <= q,
         NEW liquidity, Liquid(liquidity)
  PROVE  /\ IsCeiling(InputBetween(p, q, liquidity, FALSE), liquidity * (q - p), Q)
         /\ IsFloor(OutputBetween(p, q, liquidity, FALSE), (liquidity * Q) * (q - p), q * p)
BY Amount0Rounded, Amount1Rounded DEF InputBetween, OutputBetween, Liquid
-----------------------------------------------------------------------------
(* The two ways to the price after an input of token0, for an input that     *)
(* does not reach t.                                                         *)
LEMMA ExactPriceBetween ==
  ASSUME NEW n \in Nat, NEW p \in Nat \ {0}, NEW t \in Nat \ {0}, NEW amount \in Nat,
         t <= p, (p * t) * amount < n * (p - t),
         NEW next, IsCeiling(next, n * p, n + amount * p)
  PROVE  next \in t .. p /\ n * (p - next) <= (p * next) * amount
<1> DEFINE d == n + amount * p
<1>1. n > 0
  <2>1. SUFFICES ASSUME n = 0 PROVE FALSE
    OBVIOUS
  <2>2. n * (p - t) = 0 /\ (p * t) * amount \in Nat
    BY <2>1
  <2> QED BY <2>2
<1>2. d \in Nat \ {0} /\ n * p \in Nat /\ n * t \in Nat
  <2>1. amount * p \in Nat /\ n * p \in Nat /\ n * t \in Nat
    OBVIOUS
  <2> QED BY <1>1, <2>1
<1>3. d * t = n * t + (p * t) * amount /\ n * (p - t) = n * p - n * t
  BY SMTT(30)
<1>4. d * p = n * p + (p * p) * amount /\ (p * p) * amount \in Nat
  BY SMTT(30)
<1>5. IsCeiling(next, n * p, d) /\ next \in Nat /\ n * p <= d * next
  BY DEF IsCeiling
<1>6. d * next = n * next + (p * next) * amount /\ n * (p - next) = n * p - n * next
  BY <1>5, SMTT(30)
<1> HIDE DEF d
<1>7. ~(n * p <= d * t) /\ n * p <= d * p
  BY <1>2, <1>3, <1>4
<1>8. ~(next <= t) /\ next <= p
  <2>1. \A k \in Int : n * p <= d * k <=> next <= k
    BY <1>2, <1>5, CeilingIsLeast
  <2> QED BY <1>7, <2>1
<1>9. n * next \in Nat /\ (p * next) * amount \in Nat
  BY <1>5
<1> QED BY <1>2, <1>5, <1>6, <1>8, <1>9

(* The less exact next price, which divides the liquidity by the price, lies *)
(* between target and price and costs no more than the amount.               *)
LEMMA CoarsePriceBetween ==
  ASSUME NEW n \in Nat, NEW p \in Nat \ {0}, NEW t \in Nat \ {0}, NEW amount \in Nat \ {0},
         t <= p, (p * t) * amount < n * (p - t)
  PROVE  /\ (n \div p) + amount <= n
         /\ \A next : IsCeiling(next, n, (n \div p) + amount) =>
              next \in t .. p /\ n * (p - next) <= (p * next) * amount
<1> DEFINE q == n \div p  d == q + amount
<1>1. q \in Nat /\ p * q <= n /\ n < p * q + p
  BY DivisionFacts DEF IsFloor
<1> HIDE DEF q
<1>2. d \in Nat \ {0}
  BY <1>1
<1>3. p * d = p * q + p * amount /\ p * q \in Nat /\ p * amount \in Nat
  BY <1>1, SMTT(30)
<1>4. t * (p * d) < p * n
  <2>1. t * (p * q) <= t * n
    BY <1>1, <1>3, TimesMonotonic
  <2>2. /\ t * (p * d) = t * (p * q) + (p * t) * amount
        /\ n * (p - t) = p * n - t * n
        /\ t * (p * q) \in Int /\ (p * t) * amount \in Int /\ p * n \in Int /\ t * n \in Int
    BY <1>1, SMTT(30)
  <2> HIDE DEF d
  <2> QED BY <2>1, <2>2
<1>5. d * t < n
  <2>1. t * (p * d) = (d * t) * p /\ p * n = n * p /\ d * t \in Int
    BY <1>2, SMTT(30)
  <2> HIDE DEF d
  <2> QED BY <1>4, <2>1, TimesMonotonic
<1>6. d <= n
  <2>1. d * 1 <= d * t
    <3> HIDE DEF d
    <3>1. 1 * d <= t * d
      BY <1>2, TimesMonotonic
    <3> QED BY <1>2, <3>1
  <2> HIDE DEF d
  <2> QED BY <1>2, <1>5, <2>1
<1>7. n <= d * p
  <2>1. p * 1 <= p * amount
    <3>1. 1 * p <= amount * p
      BY TimesMonotonic
    <3> QED BY <3>1
  <2>2. n <= p * d
    BY <1>1, <1>3, <2>1
  <2> QED BY <1>2, <2>2
<1>8. ASSUME NEW next, IsCeiling(next, n, d)
      PROVE  next \in t .. p /\ n * (p - next) <= (p * next) * amount
  <2>1. next \in Nat /\ n <= d * next
    BY <1>8 DEF IsCeiling
  <2>2. ~(next <= t) /\ next <= p
    <3> HIDE DEF d
    <3> QED BY <1>2, <1>5, <1>7, <1>8, CeilingIsLeast
  <2>3. n * p <= n * next + (p * next) * amount
    <3>1. n * p <= (d * next) * p
      <4> HIDE DEF d
      <4> QED BY <1>2, <2>1, TimesMonotonic
    <3>2. (p * q) * next <= n * next
      BY <1>1, <1>3, <2>1, TimesMonotonic
    <3>3. (d * next) * p = (p * q) * next + (p * next) * amount
      BY <1>1, <2>1, SMTT(30)
    <3> HIDE DEF d
    <3> QED BY <1>1, <1>2, <2>1, <3>1, <3>2, <3>3
  <2>4. n * (p - next) = n * p - n * next
    BY <2>1, SMTT(30)
  <2> QED BY <2>1, <2>2, <2>3, <2>4
<1> QED BY <1>6, <1>8 DEF q

(* The price after an output of token0 that does not reach t.                *)
LEMMA RaisedPriceBetween ==
  ASSUME NEW n \in Nat, NEW p \in Nat \ {0}, NEW t \in Nat \ {0}, NEW amount \in Nat,
         p <= t, (t * p) * (amount + 1) <= n * (t - p)
  PROVE  /\ amount * p < n
         /\ n * p <= (n - amount * p) * t
         /\ \A next : IsCeiling(next, n * p, n - amount * p) =>
              next \in p .. t /\ (next * p) * amount <= n * (next - p)
<1> DEFINE m == amount * p  d == n - m
<1>1. m \in Nat
  OBVIOUS
<1>2. /\ (t * p) * (amount + 1) = m * t + t * p
      /\ n * (t - p) = n * t - n * p
      /\ t * p \in Nat \ {0} /\ n * t \in Nat /\ n * p \in Nat /\ m * t \in Nat
  BY SMTT(30)
<1>3. d * t = n * t - m * t
  BY <1>1, SMTT(30)
<1>4. n * p <= d * t /\ m * t < n * t
  <2> HIDE DEF m, d
  <2> QED BY <1>2, <1>3
<1>5. m < n
  <2> HIDE DEF m, d
  <2> QED BY <1>1, <1>4, TimesMonotonic
<1>6. d \in Nat \ {0}
  BY <1>1, <1>5
<1>7. ASSUME NEW next, IsCeiling(next, n * p, d)
      PROVE  next \in p .. t /\ (next * p) * amount <= n * (next - p)
  <2>1. next \in Nat /\ n * p <= d * next
    BY <1>7 DEF IsCeiling
  <2>2. next <= t
    <3> HIDE DEF d
    <3> QED BY <1>2, <1>4, <1>6, <1>7, CeilingIsLeast
  <2>3. /\ d * next = n * next - (next * p) * amount
        /\ n * (next - p) = n * next - n * p
        /\ n * next \in Nat /\ (next * p) * amount \in Nat
    BY <2>1, SMTT(30)
  <2>4. p <= next
    <3> HIDE DEF d, m
    <3>1. n * p <= n * next
      BY <1>2, <2>1, <2>3
    <3>2. n > 0
      BY <1>1, <1>5
    <3>3. p * n <= next * n
      BY <2>1, <3>1
    <3> QED BY <2>1, <3>2, <3>3, TimesMonotonic
  <2> HIDE DEF d, m
  <2> QED BY <1>2, <2>1, <2>2, <2>3, <2>4
<1> QED BY <1>4, <1>5, <1>7
-----------------------------------------------------------------------------
(* An input that does not reach the target leaves the price on this side of  *)
(* it, and pays for the move: with token0 the price falls, ...               *)
LEMMA InputMovesLeft ==
  ASSUME NEW p \in PriceWord, NEW t \in PriceWord, t <= p,
         NEW liquidity, Liquid(liquidity), NEW amount \in Nat,
         amount < InputBetween(p, t, liquidity, TRUE)
  PROVE  LET next == NextSqrtPriceFromInput(p, liquidity, amount, TRUE)
         IN  next \in t .. p /\ InputBetween(p, next, liquidity, TRUE) <= amount
<1> DEFINE n == liquidity * Q
           next == NextSqrtPriceFromInput(p, liquidity, amount, TRUE)
           product == Times(amount, p)
           exact == product \div amount = p /\ n + product < Word
           in == InputBetween(p, t, liquidity, TRUE)
<1>1. /\ p \in Nat \ {0} /\ t \in Nat \ {0} /\ p * t \in Nat \ {0} /\ n \in Nat
      /\ n < Word /\ Word \in Nat /\ p <= Word - 1
  BY ScaleAssumption DEF PriceWord, Liquid
<1>2. (p * t) * amount < n * (p - t)
  <2>1. IsCeiling(in, n * (p - t), p * t) /\ amount < in
    BY MoveToTheLeft
  <2> HIDE DEF n, in
  <2>2. in \in Nat /\ n * (p - t) \in Int /\ (p * t) * amount \in Int
    BY <1>1, <2>1 DEF IsCeiling
  <2>3. n * (p - t) <= (p * t) * amount <=> in <= amount
    BY <1>1, <2>1, <2>2, CeilingIsLeast
  <2> QED BY <2>1, <2>2, <2>3
<1>3. next = IF amount = 0 THEN p
             ELSE IF exact THEN MulDivRoundingUp(n, p, n + product)
             ELSE DivRoundingUp(n, Plus(n \div p, amount))
  BY DEF NextSqrtPriceFromInput, NextSqrtPriceFromAmount0RoundingUp, AddAmount0
<1> HIDE DEF n
<1>4. next \in t .. p /\ n * (p - next) <= (p * next) * amount
  <2>1. CASE amount = 0
    <3>1. next = p
      BY <1>3, <2>1
    <3> HIDE DEF next
    <3>2. t \in Int /\ n * (p - p) = 0 /\ (p * p) * amount = 0
      BY <1>1, <2>1
    <3> QED BY <1>1, <3>1, <3>2
  <2>2. CASE amount # 0 /\ exact
    <3>1. product = amount * p
      <4>1. amount * p \in Nat /\ product \in Nat /\ product <= amount * p
        BY <1>1, WordsInRange DEF Times
      <4>2. amount * (product \div amount) <= product
        BY <2>2, <4>1, DivisionFacts DEF IsFloor
      <4>3. amount * p <= product
        BY <2>2, <4>2
      <4> HIDE DEF product
      <4> QED BY <1>1, <4>1, <4>3
    <3>2. n + amount * p \in Nat \ {0}
      <4>1. amount * p \in Nat
        BY <1>1
      <4>2. CASE n = 0
        <5>1. n * (p - t) = 0 /\ (p * t) * amount \in Nat
          BY <1>1, <4>2
        <5> QED BY <1>2, <5>1
      <4>3. CASE n # 0
        BY <1>1, <4>1, <4>3
      <4> QED BY <4>2, <4>3
    <3>3. n * p <= (n + amount * p) * (Word - 1)
      <4>1. p * n <= (Word - 1) * n
        BY <1>1, TimesMonotonic
      <4>2. n * (Word-1) <= (n + amount * p) * (Word - 1)
        BY <1>1, TimesMonotonic
      <4> QED BY <1>1, <4>1, <4>2
    <3>4. IsCeiling(next, n * p, n + amount * p)
      BY <1>1, <1>3, <2>2, <3>1, <3>2, <3>3, MulDivRoundingUpIsCeiling
    <3> HIDE DEF next
    <3> QED BY <1>1, <1>2, <3>4, ExactPriceBetween
  <2>3. CASE amount # 0 /\ ~exact
    <3>1. (n \div p) + amount <= n
      BY <1>1, <1>2, <2>3, CoarsePriceBetween
    <3>2. n \div p \in Nat
      BY <1>1, DivisionFacts DEF IsFloor
    <3>3. Plus(n \div p, amount) = (n \div p) + amount
      BY <1>1, <3>1, <3>2, WordsThatFit DEF Plus
    <3>4. IsCeiling(next, n, (n \div p) + amount)
      <4>1. (n \div p) + amount \in Nat \ {0}
        BY <2>3, <3>2
      <4>2. next = DivRoundingUp(n, (n \div p) + amount)
        BY <1>3, <2>3, <3>3
      <4> QED BY <1>1, <4>1, <4>2, DivRoundingUpIsCeiling
    <3> HIDE DEF next
    <3> QED BY <1>1, <1>2, <2>3, <3>4, CoarsePriceBetween
  <2> QED BY <2>1, <2>2, <2>3
<1> HIDE DEF next
<1>5. InputBetween(p, next, liquidity, TRUE) <= amount
  <2>1. next \in PriceWord /\ p * next \in Nat \ {0} /\ n * (p - next) \in Int
    BY <1>1, <1>4 DEF PriceWord
  <2>2. next <= p
    BY <1>1, <1>4
  <2> DEFINE paid == InputBetween(p, next, liquidity, TRUE)
  <2>3. IsCeiling(paid, n * (p - next), p * next)
    BY <2>1, <2>2, MoveToTheLeft DEF n
  <2> HIDE DEF paid
  <2>4. n * (p - next) <= (p * next) * amount <=> paid <= amount
    BY <2>1, <2>3, CeilingIsLeast
  <2>5. paid <= amount
    BY <1>4, <2>4
  <2> QED BY <2>5 DEF paid
<1> QED BY <1>4, <1>5 DEF next

(* ... with token1 it rises.                                                 *)
LEMMA InputMovesRight ==
  ASSUME NEW p \in PriceWord, NEW t \in PriceWord, p <= t,
         NEW liquidity, Liquid(liquidity), NEW amount \in Nat,
         amount < InputBetween(p, t, liquidity, FALSE)
  PROVE  LET next == NextSqrtPriceFromInput(p, liquidity, amount, FALSE)
         IN  next \in p .. t /\ InputBetween(p, next, liquidity, FALSE) <= amount
<1> DEFINE next == NextSqrtPriceFromInput(p, liquidity, amount, FALSE)
           r == Times(amount, Q)
           q == r \div liquidity
           in == InputBetween(p, t, liquidity, FALSE)
<1>1. /\ p \in Nat \ {0} /\ t \in Nat \ {0} /\ liquidity \in Nat
      /\ Word \in Nat /\ t <= Word - 1 /\ Q \in Nat \ {0}
  BY ScaleAssumption DEF PriceWord, Liquid
<1>2. Q * amount < liquidity * (t - p)
  <2>1. IsCeiling(in, liquidity * (t - p), Q) /\ amount < in
    BY MoveToTheRight
  <2> HIDE DEF in
  <2>2. in \in Nat /\ liquidity * (t - p) \in Int /\ Q * amount \in Int
    BY <1>1, <2>1 DEF IsCeiling
  <2>3. liquidity * (t - p) <= Q * amount <=> in <= amount
    BY <1>1, <2>1, <2>2, CeilingIsLeast
  <2> QED BY <2>1, <2>2, <2>3
<1>3. liquidity > 0
  <2>1. SUFFICES ASSUME liquidity = 0 PROVE FALSE
    BY <1>1
  <2>2. liquidity * (t - p) = 0 /\ Q * amount \in Nat
    BY <1>1, <2>1
  <2> QED BY <1>2, <2>2
<1>4. r \in Nat /\ r <= Q * amount
  <2>1. amount * Q \in Nat /\ amount * Q = Q * amount
    BY <1>1
  <2> QED BY <2>1, WordsInRange DEF Times
<1>5. q \in Nat /\ liquidity * q <= r
  <2> HIDE DEF r
  <2>1. liquidity \in Nat \ {0}
    BY <1>1, <1>3
  <2>2. IsFloor(q, r, liquidity)
    BY <1>4, <2>1, DivisionFacts
  <2> QED BY <2>2 DEF IsFloor
<1>6. q < t - p
  <2>1. q * liquidity < (t - p) * liquidity
    <3> HIDE DEF q, r
    <3>1. /\ q * liquidity = liquidity * q /\ (t - p) * liquidity = liquidity * (t - p)
          /\ liquidity * q \in Int /\ liquidity * (t - p) \in Int /\ Q * amount \in Int
      BY <1>1, <1>5
    <3> QED BY <1>2, <1>4, <1>5, <3>1
  <2> HIDE DEF q
  <2> QED BY <1>1, <1>5, <2>1, TimesMonotonic
<1>7. next = p + q
  <2>1. next = IF q + p < Word THEN q + p ELSE Failed
    BY DEF NextSqrtPriceFromInput, NextSqrtPriceFromAmount1RoundingDown, AddAmount1
  <2> HIDE DEF q, next
  <2>2. q + p < Word
    BY <1>1, <1>5, <1>6
  <2> QED BY <1>1, <1>5, <2>1, <2>2
<1> HIDE DEF next, q
<1>8. next \in p .. t /\ next \in PriceWord /\ next - p = q
  BY <1>1, <1>5, <1>6, <1>7 DEF PriceWord
<1>9. InputBetween(p, next, liquidity, FALSE) <= amount
  <2> DEFINE paid == InputBetween(p, next, liquidity, FALSE)
  <2>1. IsCeiling(paid, liquidity * (next - p), Q)
    <3>1. p <= next
      BY <1>1, <1>8
    <3> QED BY <1>8, <3>1, MoveToTheRight
  <2> HIDE DEF paid
  <2>2. liquidity * (next - p) \in Int /\ liquidity * (next - p) <= Q * amount
    <3> HIDE DEF r
    <3> QED BY <1>1, <1>4, <1>5, <1>8
  <2>3. liquidity * (next - p) <= Q * amount <=> paid <= amount
    BY <1>1, <2>1, <2>2, CeilingIsLeast
  <2>4. paid <= amount
    BY <2>2, <2>3
  <2> QED BY <2>4 DEF paid
<1> QED BY <1>8, <1>9 DEF next

(* An output that does not reach the target leaves the price on this side of *)
(* it, and the move yields it: with token1 the price falls, ...              *)
LEMMA OutputMovesLeft ==
  ASSUME NEW p \in PriceWord, NEW t \in PriceWord, t <= p,
         NEW liquidity, Liquid(liquidity), NEW amount \in Nat,
         amount < OutputBetween(p, t, liquidity, TRUE)
  PROVE  LET next == NextSqrtPriceFromOutput(p, liquidity, amount, TRUE)
         IN  next \in t .. p /\ amount <= OutputBetween(p, next, liquidity, TRUE)
<1> DEFINE next == NextSqrtPriceFromOutput(p, liquidity, amount, TRUE)
           r == MulDivRoundingUp(amount, Q, liquidity)
           out == OutputBetween(p, t, liquidity, TRUE)
<1>1. /\ p \in Nat \ {0} /\ t \in Nat \ {0} /\ liquidity \in Nat
      /\ Word \in Nat /\ p <= Word - 1 /\ Q \in Nat \ {0} /\ p - t <= Word - 1
  BY ScaleAssumption DEF PriceWord, Liquid
<1>2. Q * amount <= liquidity * (p - t) /\ Q * amount < liquidity * (p - t)
  <2>1. IsFloor(out, liquidity * (p - t), Q) /\ amount < out
    BY MoveToTheLeft
  <2> HIDE DEF out
  <2>2. out \in Nat /\ liquidity * (p - t) \in Int
    BY <1>1, <2>1 DEF IsFloor
  <2>3. Q * (amount + 1) <= liquidity * (p - t) <=> amount + 1 <= out
    BY <1>1, <2>1, <2>2, FloorIsGreatest
  <2>4. Q * (amount + 1) = Q * amount + Q /\ Q * amount \in Int
    BY <1>1, SMTT(30)
  <2> QED BY <1>1, <2>1, <2>2, <2>3, <2>4
<1>3. liquidity \in Nat \ {0}
  <2>1. SUFFICES ASSUME liquidity = 0 PROVE FALSE
    BY <1>1
  <2>2. liquidity * (p - t) = 0 /\ Q * amount \in Nat
    BY <1>1, <2>1
  <2> QED BY <1>2, <2>2
<1>4. IsCeiling(r, amount * Q, liquidity)
  <2>1. (p - t) * liquidity <= (Word - 1) * liquidity
    BY <1>1, TimesMonotonic
  <2>2. /\ amount * Q = Q * amount /\ (p - t) * liquidity = liquidity * (p - t)
        /\ (Word - 1) * liquidity = liquidity * (Word - 1)
        /\ Q * amount \in Int /\ liquidity * (p - t) \in Int /\ liquidity * (Word - 1) \in Int
    BY <1>1
  <2>3. amount * Q <= liquidity * (Word - 1)
    BY <1>2, <2>1, <2>2
  <2> QED BY <1>1, <1>3, <2>3, MulDivRoundingUpIsCeiling
<1> HIDE DEF r
<1>5. r \in Nat /\ r <= p - t /\ amount * Q <= liquidity * r
  <2>1. r \in Nat /\ amount * Q <= liquidity * r
    BY <1>4 DEF IsCeiling
  <2>2. amount * Q <= liquidity * (p - t) <=> r <= p - t
    BY <1>1, <1>3, <1>4, CeilingIsLeast
  <2> QED BY <1>1, <1>2, <2>1, <2>2
<1>6. next = p - r
  <2>1. next = IF p > r THEN p - r ELSE Failed
    BY DEF NextSqrtPriceFromOutput, NextSqrtPriceFromAmount1RoundingDown, RemoveAmount1, r
  <2>2. p > r
    BY <1>1, <1>5
  <2> QED BY <2>1, <2>2
<1> HIDE DEF next
<1>7. next \in t .. p /\ next \in PriceWord /\ next <= p /\ p - next = r
  BY <1>1, <1>5, <1>6 DEF PriceWord
<1>8. amount <= OutputBetween(p, next, liquidity, TRUE)
  <2> DEFINE got == OutputBetween(p, next, liquidity, TRUE)
  <2>1. IsFloor(got, liquidity * (p - next), Q)
    BY <1>7, MoveToTheLeft
  <2> HIDE DEF got
  <2>2. liquidity * (p - next) \in Int /\ Q * amount <= liquidity * (p - next)
    BY <1>1, <1>5, <1>7
  <2>3. Q * amount <= liquidity * (p - next) <=> amount <= got
    BY <1>1, <2>1, <2>2, FloorIsGreatest
  <2>4. amount <= got
    BY <2>2, <2>3
  <2> QED BY <2>4 DEF got
<1> QED BY <1>7, <1>8 DEF next

(* ... with token0 it rises; the price never fails for want of liquidity.    *)
LEMMA OutputMovesRight ==
  ASSUME NEW p \in PriceWord, NEW t \in PriceWord, p <= t,
         NEW liquidity, Liquid(liquidity), NEW amount \in Nat,
         amount < OutputBetween(p, t, liquidity, FALSE)
  PROVE  LET next == NextSqrtPriceFromOutput(p, liquidity, amount, FALSE)
         IN  next \in p .. t /\ amount <= OutputBetween(p, next, liquidity, FALSE)
<1> DEFINE n == liquidity * Q
           next == NextSqrtPriceFromOutput(p, liquidity, amount, FALSE)
           product == Times(amount, p)
           fits == product \div amount = p /\ n > product
           out == OutputBetween(p, t, liquidity, FALSE)
<1>1. /\ p \in Nat \ {0} /\ t \in Nat \ {0} /\ t * p \in Nat \ {0} /\ n \in Nat
      /\ n < Word /\ Word \in Nat /\ t <= Word - 1
  BY ScaleAssumption DEF PriceWord, Liquid
<1>2. (t * p) * (amount + 1) <= n * (t - p)
  <2>1. IsFloor(out, n * (t - p), t * p) /\ amount < out
    BY MoveToTheRight
  <2> HIDE DEF out, n
  <2>2. out \in Nat /\ n * (t - p) \in Int
    BY <1>1, <2>1 DEF IsFloor
  <2>3. (t * p) * (amount + 1) <= n * (t - p) <=> amount + 1 <= out
    BY <1>1, <2>1, <2>2, FloorIsGreatest
  <2> QED BY <1>1, <2>1, <2>2, <2>3
<1>3. next = IF amount = 0 THEN p
             ELSE IF fits THEN MulDivRoundingUp(n, p, n - product) ELSE Failed
  BY DEF NextSqrtPriceFromOutput, NextSqrtPriceFromAmount0RoundingUp, RemoveAmount0
<1> HIDE DEF n
<1>4. /\ amount * p < n
      /\ n * p <= (n - amount * p) * t
      /\ \A c : IsCeiling(c, n * p, n - amount * p) =>
           c \in p .. t /\ (c * p) * amount <= n * (c - p)
  BY <1>1, <1>2, RaisedPriceBetween
<1>5. next \in p .. t /\ (next * p) * amount <= n * (next - p)
  <2>1. CASE amount = 0
    <3>1. next = p
      BY <1>3, <2>1
    <3> HIDE DEF next
    <3>2. p <= t /\ n * (p - p) = 0 /\ (p * p) * amount = 0
      BY <1>1, <2>1
    <3> QED BY <1>1, <3>1, <3>2
  <2>2. CASE amount # 0
    <3>1. amount * p \in Nat /\ product = amount * p
      <4>1. amount * p \in Nat /\ amount * p < Word
        BY <1>1, <1>4
      <4> QED BY <4>1, WordsThatFit DEF Times
    <3>2. (amount * p) \div amount = p
      <4> DEFINE q == (amount * p) \div amount
      <4>1. IsFloor(q, amount * p, amount)
        BY <2>2, <3>1, DivisionFacts
      <4> HIDE DEF q
      <4>2. q \in Nat /\ amount * q <= amount * p /\ amount * p < amount * (q + 1)
        BY <2>2, <4>1 DEF IsFloor
      <4>3. q * amount <= p * amount /\ p * amount < (q + 1) * amount
        BY <1>1, <4>2
      <4>4. q <= p /\ p < q + 1
        BY <1>1, <2>2, <4>2, <4>3, TimesMonotonic
      <4>5. q = p
        BY <1>1, <4>2, <4>4
      <4> QED BY <4>5 DEF q
    <3>3. n - amount * p \in Nat \ {0}
      BY <1>1, <1>4, <3>1
    <3>4. n * p <= (n - amount * p) * (Word - 1)
      <4> DEFINE d == n - amount * p
      <4>1. t * d <= (Word - 1) * d
        <5> HIDE DEF d
        <5> QED BY <1>1, <3>3, TimesMonotonic DEF d
      <4>2. n * p <= d * t
        BY <1>4
      <4> HIDE DEF d
      <4>3. d \in Int
        BY <3>3 DEF d
      <4>4. n * p <= d * (Word - 1)
        BY <1>1, <4>1, <4>2, <4>3
      <4> QED BY <4>4 DEF d
    <3>5. next = MulDivRoundingUp(n, p, n - amount * p)
      BY <1>3, <1>4, <2>2, <3>1, <3>2
    <3>6. IsCeiling(next, n * p, n - amount * p)
      BY <1>1, <3>3, <3>4, <3>5, MulDivRoundingUpIsCeiling
    <3> HIDE DEF next
    <3> QED BY <1>4, <3>6
  <2> QED BY <2>1, <2>2
<1> HIDE DEF next
<1>6. amount <= OutputBetween(p, next, liquidity, FALSE)
  <2> DEFINE got == OutputBetween(p, next, liquidity, FALSE)
  <2>1. next \in PriceWord /\ p <= next /\ next * p \in Nat \ {0} /\ n * (next - p) \in Int
    BY <1>1, <1>5 DEF PriceWord
  <2>2. IsFloor(got, n * (next - p), next * p)
    BY <2>1, MoveToTheRight DEF n
  <2> HIDE DEF got
  <2>3. (next * p) * amount <= n * (next - p) <=> amount <= got
    BY <2>1, <2>2, FloorIsGreatest
  <2>4. amount <= got
    BY <1>5, <2>3
  <2> QED BY <2>4 DEF got
<1> QED BY <1>5, <1>6 DEF next
-----------------------------------------------------------------------------
(* q lies on the way from p to t. *)
OnTheWay(p, q, t, zeroForOne) ==
  /\ q \in PriceWord
  /\ IF zeroForOne THEN t <= q /\ q <= p ELSE p <= q /\ q <= t

(* What the fee leaves of an amount is an amount. *)
LEMMA LessFeeIsNatural ==
  ASSUME NEW amount \in Nat, NEW fee \in 0 .. MaxFee-1
  PROVE  AmountLessFee(amount, fee) \in Nat
<1>1. amount * (MaxFee - fee) \in Int /\ MaxFee \in Nat \ {0}
  BY ScaleAssumption
<1>2. Times(amount, MaxFee - fee) \in Nat
  BY <1>1, WordsInRange DEF Times
<1> QED BY <1>1, <1>2, DivisionFacts DEF AmountLessFee, IsFloor

(* Wherever a step ends, it is on the way to its target, an input pays for   *)
(* the move and an output is had in full if the step stops short.            *)
LEMMA NextIsOnTheWay ==
  ASSUME NEW p \in PriceWord, NEW t \in PriceWord, NEW liquidity, Liquid(liquidity),
         NEW amount \in Nat, NEW fee \in 0 .. MaxFee-1,
         NEW zeroForOne \in BOOLEAN, NEW exactIn \in BOOLEAN,
         IF zeroForOne THEN t <= p ELSE p <= t
  PROVE  LET next == SqrtRatioNext(p, t, liquidity, amount, fee, zeroForOne, exactIn)
         IN  /\ OnTheWay(p, next, t, zeroForOne)
             /\ exactIn => InputBetween(p, next, liquidity, zeroForOne) <= AmountLessFee(amount, fee)
             /\ ~exactIn /\ next # t => amount <= OutputBetween(p, next, liquidity, zeroForOne)
<1> DEFINE next == SqrtRatioNext(p, t, liquidity, amount, fee, zeroForOne, exactIn)
           less == AmountLessFee(amount, fee)
           in == InputBetween(p, t, liquidity, zeroForOne)
           out == OutputBetween(p, t, liquidity, zeroForOne)
<1>1. less \in Nat
  BY LessFeeIsNatural
<1>2. p \in Nat \ {0} /\ t \in Nat \ {0} /\ p < Word /\ t < Word /\ Word \in Nat
      /\ \A q \in Nat : (t <= q /\ q <= p) \/ (p <= q /\ q <= t) => q \in PriceWord
  BY ScaleAssumption DEF PriceWord
<1>3. in \in Nat /\ out \in Nat
  <2>1. CASE zeroForOne
    <3>1. t <= p /\ zeroForOne = TRUE
      BY <2>1
    <3>2. /\ IsCeiling(InputBetween(p, t, liquidity, TRUE), (liquidity * Q) * (p - t), p * t)
          /\ IsFloor(OutputBetween(p, t, liquidity, TRUE), liquidity * (p - t), Q)
      BY <3>1, MoveToTheLeft
    <3> QED BY <3>1, <3>2 DEF IsCeiling, IsFloor
  <2>2. CASE ~zeroForOne
    <3>1. p <= t /\ zeroForOne = FALSE
      BY <2>2
    <3>2. /\ IsCeiling(InputBetween(p, t, liquidity, FALSE), liquidity * (t - p), Q)
          /\ IsFloor(OutputBetween(p, t, liquidity, FALSE), (liquidity * Q) * (t - p), t * p)
      BY <3>1, MoveToTheRight
    <3> QED BY <3>1, <3>2 DEF IsCeiling, IsFloor
  <2> QED BY <2>1, <2>2
<1>4. next = IF exactIn
             THEN IF less >= in THEN t ELSE NextSqrtPriceFromInput(p, liquidity, less, zeroForOne)
             ELSE IF amount >= out THEN t ELSE NextSqrtPriceFromOutput(p, liquidity, amount, zeroForOne)
  BY DEF SqrtRatioNext
<1>5. CASE exactIn /\ less >= in
  <2>1. next = t
    BY <1>4, <1>5
  <2>2. OnTheWay(p, t, t, zeroForOne)
    BY <1>2 DEF OnTheWay
  <2> HIDE DEF next, less
  <2>3. in <= less
    <3> HIDE DEF in
    <3> QED BY <1>1, <1>3, <1>5
  <2> QED BY <1>5, <2>1, <2>2, <2>3 DEF next, less
<1>6. CASE exactIn /\ ~(less >= in)
  <2>1. less < in
    <3> HIDE DEF less, in
    <3> QED BY <1>1, <1>3, <1>6
  <2>2. next = NextSqrtPriceFromInput(p, liquidity, less, zeroForOne)
    BY <1>4, <1>6
  <2>3. CASE zeroForOne
    <3>1. zeroForOne = TRUE /\ t <= p
      BY <2>3
    <3>2. next \in t .. p /\ InputBetween(p, next, liquidity, TRUE) <= less
      <4> HIDE DEF less
      <4> QED BY <1>1, <2>1, <2>2, <3>1, InputMovesLeft
    <3> HIDE DEF next, less
    <3>3. OnTheWay(p, next, t, zeroForOne)
      BY <1>2, <2>3, <3>2 DEF OnTheWay
    <3> QED BY <1>6, <3>1, <3>2, <3>3 DEF next, less
  <2>4. CASE ~zeroForOne
    <3>1. zeroForOne = FALSE /\ p <= t
      BY <2>4
    <3>2. next \in p .. t /\ InputBetween(p, next, liquidity, FALSE) <= less
      <4> HIDE DEF less
      <4> QED BY <1>1, <2>1, <2>2, <3>1, InputMovesRight
    <3> HIDE DEF next, less
    <3>3. OnTheWay(p, next, t, zeroForOne)
      BY <1>2, <2>4, <3>2 DEF OnTheWay
    <3> QED BY <1>6, <3>1, <3>2, <3>3 DEF next, less
  <2> QED BY <2>3, <2>4
<1>7. CASE ~exactIn /\ amount >= out
  <2>1. next = t
    BY <1>4, <1>7
  <2>2. OnTheWay(p, t, t, zeroForOne)
    BY <1>2 DEF OnTheWay
  <2> HIDE DEF next
  <2> QED BY <1>7, <2>1, <2>2 DEF next
<1>8. CASE ~exactIn /\ ~(amount >= out)
  <2>1. amount < out
    <3> HIDE DEF out
    <3> QED BY <1>3, <1>8
  <2>2. next = NextSqrtPriceFromOutput(p, liquidity, amount, zeroForOne)
    BY <1>4, <1>8
  <2>3. CASE zeroForOne
    <3>1. zeroForOne = TRUE /\ t <= p
      BY <2>3
    <3>2. next \in t .. p /\ amount <= OutputBetween(p, next, liquidity, TRUE)
      BY <2>1, <2>2, <3>1, OutputMovesLeft
    <3> HIDE DEF next
    <3>3. OnTheWay(p, next, t, zeroForOne)
      BY <1>2, <2>3, <3>2 DEF OnTheWay
    <3> QED BY <1>8, <3>1, <3>2, <3>3 DEF next
  <2>4. CASE ~zeroForOne
    <3>1. zeroForOne = FALSE /\ p <= t
      BY <2>4
    <3>2. next \in p .. t /\ amount <= OutputBetween(p, next, liquidity, FALSE)
      BY <2>1, <2>2, <3>1, OutputMovesRight
    <3> HIDE DEF next
    <3>3. OnTheWay(p, next, t, zeroForOne)
      BY <1>2, <2>4, <3>2 DEF OnTheWay
    <3> QED BY <1>8, <3>1, <3>2, <3>3 DEF next
  <2> QED BY <2>3, <2>4
<1> QED BY <1>5, <1>6, <1>7, <1>8

(* The amounts between p and q, whichever way the swap goes. *)
LEMMA MoveIsNatural ==
  ASSUME NEW p \in PriceWord, NEW q \in PriceWord, NEW liquidity, Liquid(liquidity),
         NEW zeroForOne \in BOOLEAN, IF zeroForOne THEN q <= p ELSE p <= q
  PROVE  /\ InputBetween(p, q, liquidity, zeroForOne) \in Nat
         /\ OutputBetween(p, q, liquidity, zeroForOne) \in Nat
<1>1. CASE zeroForOne
  <2>1. q <= p /\ zeroForOne = TRUE
    BY <1>1
  <2>2. /\ IsCeiling(InputBetween(p, q, liquidity, TRUE), (liquidity * Q) * (p - q), p * q)
        /\ IsFloor(OutputBetween(p, q, liquidity, TRUE), liquidity * (p - q), Q)
    BY <2>1, MoveToTheLeft
  <2> QED BY <2>1, <2>2 DEF IsCeiling, IsFloor
<1>2. CASE ~zeroForOne
  <2>1. p <= q /\ zeroForOne = FALSE
    BY <1>2
  <2>2. /\ IsCeiling(InputBetween(p, q, liquidity, FALSE), liquidity * (q - p), Q)
        /\ IsFloor(OutputBetween(p, q, liquidity, FALSE), (liquidity * Q) * (q - p), q * p)
    BY <2>1, MoveToTheRight
  <2> QED BY <2>1, <2>2 DEF IsCeiling, IsFloor
<1> QED BY <1>1, <1>2

(* The word the step works with is one, for both signs. *)
LEMMA AmountUIsNatural ==
  ASSUME NEW remaining \in 0 .. Word-1, NEW exactIn \in BOOLEAN
  PROVE  AmountRemainingU(remaining, exactIn) \in 0 .. Word-1
<1>1. -remaining \in Int /\ Word \in Nat
  BY ScaleAssumption
<1>2. Negated(remaining) \in Nat /\ Negated(remaining) < Word
  BY <1>1, WordsInRange DEF Negated
<1> QED BY <1>1, <1>2 DEF AmountRemainingU

(* What a step may be asked: words within the bounds of the contract.        *)
StepArguments(p, t, liquidity, remaining, fee, zeroForOne, exactIn) ==
  /\ p \in PriceWord /\ t \in PriceWord /\ Liquid(liquidity)
  /\ remaining \in 0 .. Word-1 /\ fee \in 0 .. MaxFee-1
  /\ zeroForOne \in BOOLEAN /\ exactIn \in BOOLEAN
  /\ IF zeroForOne THEN t <= p ELSE p <= t

(* The step s stops short of its target.                                     *)
StopsShort(s, t) == s.next # t

(* The amounts of the step s from p are those of the move to where it ends.  *)
IsMove(s, p, liquidity, zeroForOne) ==
  /\ s.in \in Nat /\ s.in = InputBetween(p, s.next, liquidity, zeroForOne)
  /\ s.out \in Nat /\ s.out <= OutputBetween(p, s.next, liquidity, zeroForOne)

(* The step s uses no more than amount, and all of it if it stops short.     *)
Uses(s, t, amount) ==
  s.fee \in Nat /\ s.in + s.fee <= amount /\ (StopsShort(s, t) => s.in + s.fee = amount)

(* The step s delivers no more than amount, and all of it if it stops short. *)
Delivers(s, t, amount) == s.out <= amount /\ (StopsShort(s, t) => s.out = amount)

(* A step ends on the way to its target, no error it ignores occurs, and its *)
(* amounts are those of the move to where it ends.                           *)
LEMMA StepIsAMove ==
  ASSUME NEW p, NEW t, NEW liquidity, NEW remaining, NEW fee, NEW zeroForOne, NEW exactIn,
         StepArguments(p, t, liquidity, remaining, fee, zeroForOne, exactIn)
  PROVE  LET s == ComputeSwapStep(p, t, liquidity, remaining, fee, zeroForOne, exactIn)
             amount == AmountRemainingU(remaining, exactIn)
         IN  /\ OnTheWay(p, s.next, t, zeroForOne)
             /\ IsMove(s, p, liquidity, zeroForOne)
             /\ exactIn => s.in <= AmountLessFee(amount, fee)
             /\ ~exactIn => Delivers(s, t, amount)
<1> DEFINE s == ComputeSwapStep(p, t, liquidity, remaining, fee, zeroForOne, exactIn)
           amount == AmountRemainingU(remaining, exactIn)
           next == SqrtRatioNext(p, t, liquidity, amount, fee, zeroForOne, exactIn)
           in == InputBetween(p, next, liquidity, zeroForOne)
           out == OutputBetween(p, next, liquidity, zeroForOne)
<1>1. /\ p \in PriceWord /\ t \in PriceWord /\ Liquid(liquidity) /\ fee \in 0 .. MaxFee-1
      /\ remaining \in 0 .. Word-1 /\ zeroForOne \in BOOLEAN /\ exactIn \in BOOLEAN
      /\ IF zeroForOne THEN t <= p ELSE p <= t
  BY DEF StepArguments
<1>2. amount \in Nat
  BY <1>1, AmountUIsNatural
<1>3. s = IF next = Failed THEN [next |-> Failed, in |-> 0, out |-> 0, fee |-> 0]
          ELSE [next |-> next, in |-> in, out |-> CappedOutput(out, amount, exactIn),
                fee |-> FeeAmount(in, amount, fee, exactIn /\ next # t)]
  BY DEF ComputeSwapStep
<1> HIDE DEF s, amount
<1>4. /\ OnTheWay(p, next, t, zeroForOne)
      /\ exactIn => in <= AmountLessFee(amount, fee)
      /\ ~exactIn /\ next # t => amount <= out
  BY <1>1, <1>2, NextIsOnTheWay
<1> HIDE DEF next
<1>5. next \in PriceWord /\ IF zeroForOne THEN next <= p ELSE p <= next
  BY <1>1, <1>4 DEF OnTheWay
<1>6. next # Failed
  BY <1>5, ScaleAssumption DEF PriceWord, Failed
<1>7. in \in Nat /\ out \in Nat
  BY <1>1, <1>5, MoveIsNatural
<1> HIDE DEF in, out
<1>8. /\ CappedOutput(out, amount, exactIn) \in Nat
      /\ CappedOutput(out, amount, exactIn) <= out
      /\ ~exactIn => CappedOutput(out, amount, exactIn) <= amount
      /\ ~exactIn /\ next # t => CappedOutput(out, amount, exactIn) = amount
  BY <1>2, <1>4, <1>7 DEF CappedOutput
<1>9. /\ s.next = next /\ s.in = in /\ s.out = CappedOutput(out, amount, exactIn)
  BY <1>3, <1>6
<1>10. IsMove(s, p, liquidity, zeroForOne)
  <2>1. s.in = InputBetween(p, s.next, liquidity, zeroForOne)
    BY <1>9 DEF in
  <2>2. s.out <= OutputBetween(p, s.next, liquidity, zeroForOne)
    <3>1. s.out <= out
      BY <1>8, <1>9
    <3> QED BY <1>9, <3>1 DEF out
  <2> QED BY <1>7, <1>8, <1>9, <2>1, <2>2 DEF IsMove
<1> QED BY <1>4, <1>7, <1>8, <1>9, <1>10 DEF s, amount, StopsShort, Delivers

(* The fee that is due on an input.                                          *)
FeeShare(in, fee) == MulDivRoundingUp(in, fee, MaxFee - fee)
TakesShare(s, fee) == s.fee = FeeShare(s.in, fee)

(* The fee of an exact input: the rest of it when the step stops short.      *)
LEMMA FeeOfInput ==
  ASSUME NEW p, NEW t, NEW liquidity, NEW remaining, NEW fee, NEW zeroForOne,
         StepArguments(p, t, liquidity, remaining, fee, zeroForOne, TRUE)
  PROVE  LET s == ComputeSwapStep(p, t, liquidity, remaining, fee, zeroForOne, TRUE)
         IN  /\ StopsShort(s, t) => s.fee = Minus(AmountRemainingU(remaining, TRUE), s.in)
             /\ ~StopsShort(s, t) => s.fee = FeeShare(s.in, fee)
<1> DEFINE s == ComputeSwapStep(p, t, liquidity, remaining, fee, zeroForOne, TRUE)
           amount == AmountRemainingU(remaining, TRUE)
           next == SqrtRatioNext(p, t, liquidity, amount, fee, zeroForOne, TRUE)
           in == InputBetween(p, next, liquidity, zeroForOne)
           out == OutputBetween(p, next, liquidity, zeroForOne)
<1>1. s = IF next = Failed THEN [next |-> Failed, in |-> 0, out |-> 0, fee |-> 0]
          ELSE [next |-> next, in |-> in, out |-> CappedOutput(out, amount, TRUE),
                fee |-> FeeAmount(in, amount, fee, TRUE /\ next # t)]
  BY DEF ComputeSwapStep
<1>2. OnTheWay(p, s.next, t, zeroForOne)
  BY StepIsAMove
<1> HIDE DEF s, amount, next, in, out
<1>3. s.next # Failed
  BY <1>2, ScaleAssumption DEF OnTheWay, PriceWord, Failed
<1>4. next # Failed
  BY <1>1, <1>3
<1>5. s.fee = IF next # t THEN Minus(amount, in)
              ELSE FeeShare(in, fee)
  BY <1>1, <1>4 DEF FeeAmount, FeeShare
<1>6. s.next = next /\ s.in = in
  BY <1>1, <1>4
<1> QED BY <1>5, <1>6 DEF s, amount, StopsShort

(* The fee of an exact output is the share of its input.                     *)
LEMMA FeeOfOutput ==
  ASSUME NEW p, NEW t, NEW liquidity, NEW remaining, NEW fee, NEW zeroForOne,
         StepArguments(p, t, liquidity, remaining, fee, zeroForOne, FALSE)
  PROVE  LET s == ComputeSwapStep(p, t, liquidity, remaining, fee, zeroForOne, FALSE)
         IN  TakesShare(s, fee)
<1> DEFINE s == ComputeSwapStep(p, t, liquidity, remaining, fee, zeroForOne, FALSE)
           amount == AmountRemainingU(remaining, FALSE)
           next == SqrtRatioNext(p, t, liquidity, amount, fee, zeroForOne, FALSE)
           in == InputBetween(p, next, liquidity, zeroForOne)
           out == OutputBetween(p, next, liquidity, zeroForOne)
<1>1. s = IF next = Failed THEN [next |-> Failed, in |-> 0, out |-> 0, fee |-> 0]
          ELSE [next |-> next, in |-> in, out |-> CappedOutput(out, amount, FALSE),
                fee |-> FeeAmount(in, amount, fee, FALSE /\ next # t)]
  BY DEF ComputeSwapStep
<1>2. OnTheWay(p, s.next, t, zeroForOne)
  BY StepIsAMove
<1> HIDE DEF s, amount, next, in, out
<1>3. s.next # Failed
  BY <1>2, ScaleAssumption DEF OnTheWay, PriceWord, Failed
<1>4. next # Failed
  BY <1>1, <1>3
<1>5. s.fee = FeeShare(in, fee)
  BY <1>1, <1>4 DEF FeeAmount, FeeShare
<1>6. s.next = next /\ s.in = in
  BY <1>1, <1>4
<1> QED BY <1>5, <1>6 DEF s, amount, TakesShare

(* What is left of an amount after its fee has room for the fee.             *)
LEMMA FeeHasRoom ==
  ASSUME NEW amount \in Nat, amount * MaxFee < Word, NEW fee \in 0 .. MaxFee-1,
         NEW in \in Nat, in <= AmountLessFee(amount, fee)
  PROVE  /\ in <= amount
         /\ IsCeiling(FeeShare(in, fee), in * fee, MaxFee - fee)
         /\ in + FeeShare(in, fee) <= amount
         /\ in * fee <= (MaxFee - fee) * (amount - in)
<1> DEFINE d == MaxFee - fee
           less == AmountLessFee(amount, fee)
<1>1. /\ MaxFee \in Nat \ {0} /\ Word \in Nat \ {0} /\ fee \in Nat
      /\ d \in Nat \ {0} /\ d <= MaxFee /\ MaxFee = d + fee
  BY ScaleAssumption
<1> HIDE DEF d
<1>2. amount * d <= amount * MaxFee /\ amount * d \in Nat
  <2>1. d * amount <= MaxFee * amount
    BY <1>1, TimesMonotonic
  <2> QED BY <1>1, <2>1
<1>3. IsFloor(less, amount * d, MaxFee)
  <2>1. amount * d < Word
    BY <1>1, <1>2
  <2>2. Times(amount, d) = amount * d
    BY <1>2, <2>1, WordsThatFit DEF Times
  <2>3. less = (amount * d) \div MaxFee
    BY <2>2 DEF AmountLessFee, d
  <2> HIDE DEF less
  <2> QED BY <1>1, <1>2, <2>3, DivisionFacts
<1>4. MaxFee * in <= amount * d
  <2>1. in <= less
    OBVIOUS
  <2> HIDE DEF less
  <2> QED BY <1>1, <1>2, <1>3, <2>1, FloorIsGreatest
<1>5. in <= amount
  <2>1. MaxFee * in <= amount * MaxFee
    <3>1. MaxFee * in \in Int /\ amount * MaxFee \in Int
      BY <1>1
    <3> QED BY <1>2, <1>4, <3>1
  <2>2. in * MaxFee <= amount * MaxFee
    BY <1>1, <2>1
  <2> QED BY <1>1, <2>2, TimesMonotonic
<1>6. in * fee <= d * (amount - in)
  <2>1. /\ MaxFee * in = d * in + in * fee /\ d * (amount - in) = amount * d - d * in
        /\ d * in \in Int /\ in * fee \in Int
    BY <1>1, SMTT(30)
  <2> QED BY <1>2, <1>4, <2>1
<1>7. amount - in <= Word - 1
  <2>1. 1 * amount <= MaxFee * amount
    BY <1>1, TimesMonotonic
  <2>2. MaxFee * amount = amount * MaxFee /\ amount * MaxFee \in Int
    BY <1>1
  <2> QED BY <1>1, <1>5, <2>1, <2>2
<1>8. in * fee <= d * (Word - 1)
  <2>1. (amount - in) * d <= (Word - 1) * d
    BY <1>1, <1>5, <1>7, TimesMonotonic
  <2>2. /\ (amount - in) * d = d * (amount - in) /\ (Word - 1) * d = d * (Word - 1)
        /\ d * (amount - in) \in Int /\ d * (Word - 1) \in Int /\ in * fee \in Int
    BY <1>1
  <2> QED BY <1>6, <2>1, <2>2
<1> DEFINE f == MulDivRoundingUp(in, fee, d)
<1>9. IsCeiling(f, in * fee, d)
  BY <1>1, <1>8, MulDivRoundingUpIsCeiling
<1> HIDE DEF f
<1>10. f <= amount - in /\ f \in Nat
  <2>1. in * fee \in Int /\ amount - in \in Int
    BY <1>1
  <2>2. in * fee <= d * (amount - in) <=> f <= amount - in
    BY <1>1, <1>9, <2>1, CeilingIsLeast
  <2> QED BY <1>6, <1>9, <2>2 DEF IsCeiling
<1>11. in + f <= amount
  BY <1>10
<1> QED BY <1>5, <1>6, <1>9, <1>11 DEF f, d, FeeShare

(* An exact input is not exceeded, and used up by a step that stops short of *)
(* its target.                                                               *)
LEMMA InputIsUsed ==
  ASSUME NEW p, NEW t, NEW liquidity, NEW remaining, NEW fee, NEW zeroForOne,
         StepArguments(p, t, liquidity, remaining, fee, zeroForOne, TRUE),
         remaining * MaxFee < Word
  PROVE  LET s == ComputeSwapStep(p, t, liquidity, remaining, fee, zeroForOne, TRUE)
         IN  /\ Uses(s, t, remaining)
             /\ s.in * fee <= (MaxFee - fee) * s.fee
<1> DEFINE s == ComputeSwapStep(p, t, liquidity, remaining, fee, zeroForOne, TRUE)
<1>1. AmountRemainingU(remaining, TRUE) = remaining
  BY DEF AmountRemainingU
<1>2. /\ s.in \in Nat /\ s.in <= AmountLessFee(remaining, fee)
      /\ s.fee = IF s.next # t THEN Minus(remaining, s.in)
                 ELSE FeeShare(s.in, fee)
  <2> DEFINE amount == AmountRemainingU(remaining, TRUE)
  <2>1. IsMove(s, p, liquidity, zeroForOne) /\ s.in <= AmountLessFee(amount, fee)
    BY StepIsAMove
  <2>2. StopsShort(s, t) => s.fee = Minus(amount, s.in)
    BY FeeOfInput
  <2>3. ~StopsShort(s, t) => s.fee = FeeShare(s.in, fee)
    BY FeeOfInput
  <2> HIDE DEF s, amount
  <2> QED BY <1>1, <2>1, <2>2, <2>3 DEF amount, StopsShort, IsMove
<1>3. remaining \in Nat /\ remaining < Word /\ Word \in Nat /\ fee \in 0 .. MaxFee-1
  BY ScaleAssumption DEF StepArguments
<1> DEFINE in == s.in  f == FeeShare(in, fee)
<1> HIDE DEF s
<1>4. /\ in <= remaining /\ f \in Nat /\ in + f <= remaining
      /\ in * fee <= (MaxFee - fee) * f
      /\ in * fee <= (MaxFee - fee) * (remaining - in)
  <2>1. in \in Nat /\ in <= AmountLessFee(remaining, fee)
    BY <1>2
  <2> HIDE DEF in
  <2> QED BY <1>3, <2>1, FeeHasRoom DEF IsCeiling
<1>5. CASE s.next # t
  <2>1. s.fee = Minus(remaining, in)
    BY <1>2, <1>5
  <2>2. Minus(remaining, in) = remaining - in
    <3>1. remaining - in \in Nat /\ remaining - in < Word
      BY <1>2, <1>3, <1>4
    <3> QED BY <3>1, WordsThatFit DEF Minus
  <2>3. s.fee \in Nat /\ s.in + s.fee = remaining /\ s.in + s.fee <= remaining
    BY <1>2, <1>3, <1>4, <2>1, <2>2
  <2>4. s.fee = remaining - in
    BY <2>1, <2>2
  <2>5. s.in * fee <= (MaxFee - fee) * s.fee
    BY <1>4, <2>4
  <2> QED BY <2>3, <2>5 DEF s, Uses
<1>6. CASE s.next = t
  <2>1. s.fee = f
    BY <1>2, <1>6
  <2> QED BY <1>2, <1>4, <1>6, <2>1 DEF s, Uses, StopsShort
<1> QED BY <1>5, <1>6

(* An exact output is not exceeded, and delivered by a step that stops short *)
(* of its target.                                                            *)
LEMMA OutputIsDelivered ==
  ASSUME NEW p, NEW t, NEW liquidity, NEW amount, NEW fee, NEW zeroForOne,
         amount \in Nat \ {0}, amount < Word,
         StepArguments(p, t, liquidity, Negated(amount), fee, zeroForOne, FALSE)
  PROVE  LET s == ComputeSwapStep(p, t, liquidity, Negated(amount), fee, zeroForOne, FALSE)
         IN  Delivers(s, t, amount)
<1> DEFINE s == ComputeSwapStep(p, t, liquidity, Negated(amount), fee, zeroForOne, FALSE)
<1>1. Negated(amount) = Word - amount /\ Negated(Word - amount) = amount
  BY ScaleAssumption, SMTT(30) DEF Negated
<1>2. AmountRemainingU(Negated(amount), FALSE) = amount
  BY <1>1 DEF AmountRemainingU
<1> DEFINE asked == AmountRemainingU(Negated(amount), FALSE)
<1>3. Delivers(s, t, asked)
  BY StepIsAMove
<1> HIDE DEF s
<1> QED BY <1>2, <1>3 DEF s

(* The input of a move covers what the curve asks for, the output is covered *)
(* by what it gives, in whole numbers.                                       *)
LEMMA MoveIsCovered ==
  ASSUME NEW p \in PriceWord, NEW q \in PriceWord, q <= p,
         NEW liquidity, Liquid(liquidity)
  PROVE  LET move == liquidity * (p - q)
         IN  /\ InputBetween(p, q, liquidity, TRUE) * q * p >= move * Q
             /\ OutputBetween(p, q, liquidity, TRUE) * Q <= move
             /\ InputBetween(q, p, liquidity, FALSE) * Q >= move
             /\ OutputBetween(q, p, liquidity, FALSE) * q * p <= move * Q
<1>1. /\ liquidity \in Nat /\ Q \in Nat \ {0} /\ p \in Nat /\ q \in Nat
  BY ScaleAssumption DEF Liquid, PriceWord
<1> DEFINE in0 == InputBetween(p, q, liquidity, TRUE)
           out1 == OutputBetween(p, q, liquidity, TRUE)
           in1 == InputBetween(q, p, liquidity, FALSE)
           out0 == OutputBetween(q, p, liquidity, FALSE)
<1>2. /\ IsCeiling(in0, (liquidity * Q) * (p - q), p * q)
      /\ IsFloor(out1, liquidity * (p - q), Q)
  BY MoveToTheLeft
<1>3. /\ IsCeiling(in1, liquidity * (p - q), Q)
      /\ IsFloor(out0, (liquidity * Q) * (p - q), p * q)
  BY MoveToTheRight
<1> HIDE DEF in0, out1, in1, out0
<1>4. /\ in0 \in Nat /\ (liquidity * Q) * (p - q) <= (p * q) * in0
      /\ out1 \in Nat /\ Q * out1 <= liquidity * (p - q)
      /\ in1 \in Nat /\ liquidity * (p - q) <= Q * in1
      /\ out0 \in Nat /\ (p * q) * out0 <= (liquidity * Q) * (p - q)
  BY <1>2, <1>3 DEF IsCeiling, IsFloor
<1>5. /\ (p * q) * in0 = in0 * q * p /\ (p * q) * out0 = out0 * q * p
      /\ (liquidity * Q) * (p - q) = (liquidity * (p - q)) * Q
      /\ Q * out1 = out1 * Q /\ Q * in1 = in1 * Q
  BY <1>1, <1>4, SMTT(30)
<1>6. /\ in0 * q * p >= (liquidity * (p - q)) * Q /\ out0 * q * p <= (liquidity * (p - q)) * Q
  <2>1. (liquidity * (p - q)) * Q \in Int /\ in0 * q * p \in Int /\ out0 * q * p \in Int
    BY <1>1, <1>4
  <2> QED BY <1>4, <1>5, <2>1
<1>7. out1 * Q <= liquidity * (p - q) /\ in1 * Q >= liquidity * (p - q)
  <2>1. liquidity * (p - q) \in Int /\ Q * out1 \in Int /\ Q * in1 \in Int
    BY <1>1, <1>4
  <2> QED BY <1>4, <1>5, <2>1
<1> QED BY <1>6, <1>7 DEF in0, out1, in1, out0

(* No input between prices of up to two Q96 is more than liquidity*Q.        *)
LEMMA InputIsBounded ==
  ASSUME NEW p \in PriceWord, NEW q \in PriceWord, q <= p, p <= Q * Q,
         NEW liquidity, Liquid(liquidity)
  PROVE  /\ InputBetween(p, q, liquidity, TRUE) <= liquidity * Q
         /\ InputBetween(q, p, liquidity, FALSE) <= liquidity * Q
<1>1. /\ liquidity \in Nat /\ Q \in Nat \ {0} /\ p \in Nat \ {0} /\ q \in Nat \ {0}
      /\ p - q \in Nat
  BY ScaleAssumption DEF Liquid, PriceWord
<1> DEFINE n == liquidity * Q
<1>2. n \in Nat /\ p * q \in Nat \ {0}
  BY <1>1, SMTT(30)
<1>3. p - q <= p * q /\ p - q <= Q * Q
  <2>1. 1 * p <= q * p
    BY <1>1, TimesMonotonic
  <2>2. p <= p * q
    BY <1>1, <2>1
  <2> QED BY <1>1, <1>2, <2>2
<1> HIDE DEF n
<1>4. n * (p - q) <= (p * q) * n
  <2>1. (p - q) * n <= (p * q) * n
    BY <1>1, <1>2, <1>3, TimesMonotonic
  <2> QED BY <1>1, <1>2, <2>1
<1>5. liquidity * (p - q) <= Q * n
  <2>1. (p - q) * liquidity <= (Q * Q) * liquidity
    BY <1>1, <1>3, TimesMonotonic
  <2>2. (p - q) * liquidity = liquidity * (p - q) /\ (Q * Q) * liquidity = Q * (liquidity * Q)
    BY <1>1, SMTT(30)
  <2> QED BY <2>1, <2>2 DEF n
<1> DEFINE in0 == InputBetween(p, q, liquidity, TRUE)  in1 == InputBetween(q, p, liquidity, FALSE)
<1>6. /\ IsCeiling(in0, n * (p - q), p * q)
      /\ IsCeiling(in1, liquidity * (p - q), Q)
  BY MoveToTheLeft, MoveToTheRight DEF n
<1> HIDE DEF in0, in1
<1>7. in0 <= n
  <2>1. n * (p - q) \in Int
    BY <1>1, <1>2
  <2>2. n * (p - q) <= (p * q) * n <=> in0 <= n
    BY <1>2, <1>6, <2>1, CeilingIsLeast
  <2> QED BY <1>4, <2>2
<1>8. in1 <= n
  <2>1. liquidity * (p - q) \in Int
    BY <1>1
  <2>2. liquidity * (p - q) <= Q * n <=> in1 <= n
    BY <1>1, <1>2, <1>6, <2>1, CeilingIsLeast
  <2> QED BY <1>5, <2>2
<1> QED BY <1>7, <1>8 DEF in0, in1, n

(* The fee is a natural number, whatever the input.                          *)
LEMMA FeeIsNatural ==
  ASSUME NEW in \in Nat, NEW fee \in 0 .. MaxFee-1
  PROVE  FeeShare(in, fee) \in Nat
<1> DEFINE d == MaxFee - fee  x == in * fee
<1>1. d \in Nat \ {0} /\ x \in Nat
  BY ScaleAssumption
<1>2. FeeShare(in, fee) = MulDivRoundingUp(in, fee, d) /\ x = in * fee
  BY DEF FeeShare
<1> HIDE DEF d, x
<1>3. x \div d \in Nat
  BY <1>1, DivisionFacts DEF IsFloor
<1>4. (x \div d) % Word \in Nat
  BY <1>3, WordsInRange
<1>5. MulDivRoundingUp(in, fee, d) \in {(x \div d) + 1, (x \div d) % Word}
  BY <1>1, <1>2 DEF MulDivRoundingUp, MulDiv
<1> QED BY <1>2, <1>3, <1>4, <1>5

(* The fee of an input whose product with the fee fits a word is its share.  *)
LEMMA FeeIsItsShare ==
  ASSUME NEW in \in Nat, NEW fee \in 0 .. MaxFee-1, in * fee < Word
  PROVE  FeeShare(in, fee) \in Nat /\ in * fee <= (MaxFee - fee) * FeeShare(in, fee)
<1> DEFINE d == MaxFee - fee
<1>1. d \in Nat \ {0} /\ in * fee \in Nat /\ fee \in Nat /\ Word \in Nat \ {0}
  BY ScaleAssumption
<1> HIDE DEF d
<1>2. in * fee <= d * (Word - 1)
  <2>1. 1 * (Word - 1) <= d * (Word - 1)
    BY <1>1, TimesMonotonic
  <2>2. d * (Word - 1) \in Int
    BY <1>1
  <2> QED BY <1>1, <2>1, <2>2
<1>3. IsCeiling(MulDivRoundingUp(in, fee, d), in * fee, d)
  BY <1>1, <1>2, MulDivRoundingUpIsCeiling
<1> QED BY <1>3 DEF FeeShare, IsCeiling, d
=============================================================================

---------------------------- MODULE WordDivision ----------------------------
(***************************************************************************)
(* utils/uint256.go and utils/full_math.go: the divisions of a FullMath    *)
(* with its Uint256Utils, which keeps the normalised form and the          *)
(* reciprocal of the last divisor between calls, and the product that is   *)
(* divided by 2^96 with shifts.  A number is an integer whose words are    *)
(* its digits in base 2^W; a quotient is made digit by digit, as the code  *)
(* makes it, with every word wrapping at the base.                         *)
(***************************************************************************)
EXTENDS Integers

CONSTANTS W,            \* bits of a word
          S,            \* 32: 2^96 is a word and S bits
          FeeDenominator,       \* a number of one word
          Dividends, Factors, Divisors,  \* operands for a new FullMath
          MoreCalls     \* calls of a FullMath that is used again: [op, x, y, d]

PowerOf2[k \in 0 .. W] == IF k = 0 THEN 1 ELSE 2 * PowerOf2[k-1]
Base == PowerOf2[W]
BaseTo[k \in 0 .. 9] == IF k = 0 THEN 1 ELSE Base * BaseTo[k-1]
Full == BaseTo[4]               \* 2^256

Divisions == {"DivInto", "DivRoundingUp"}             \* of x; y is 1
Products == {"MulDivV2", "MulDivRoundingUpV2"}        \* of x*y
ByMaxFee == {"DivByMaxFeeInto"}                       \* of x; d is FeeDenominator
ByShift == {"mulRsh96_2x3"}                           \* of x*y; d is 2^96

TwoTo96 == Base * PowerOf2[S]

Operand == 0 .. Full-1
DivisionCalls ==
  {c \in [op : Divisions \cup Products \cup ByMaxFee \cup ByShift, x : Operand, y : Operand, d : Operand] :
     /\ c.op \in Divisions => c.y = 1 /\ c.d # 0
     /\ c.op \in ByMaxFee => c.y = 1 /\ c.d = FeeDenominator
     /\ c.op \in ByShift => c.x < BaseTo[2] /\ c.y < BaseTo[2] * PowerOf2[S] /\ c.d = TwoTo96}

ASSUME WordAssumption ==
  /\ W \in Nat \ {0} /\ S \in 1 .. W-1 /\ FeeDenominator \in 1 .. Base-1
  /\ Dividends \subseteq Operand /\ Factors \subseteq Operand /\ Divisors \subseteq Operand
  /\ MoreCalls \subseteq DivisionCalls

VARIABLES cache,        \* lastD and what is kept of it
          divisor,      \* the normalised divisor in use
          asked,        \* the call and its arguments
          un,           \* the normalised dividend; in the end the remainder
          j,            \* the digit of the quotient that is made next
          quot,
          rem,          \* m.rem
          remainder,    \* m.remainder
          quotient, err, \* the answer; mulRsh96_2x3 reports a remainder as err
          at

divisionVars == <<cache, divisor, asked, un, j, quot, rem, remainder, quotient, err, at>>

WordOf(x) == x % Base
Digit(x, i) == WordOf(x \div BaseTo[i])
NumWords(x) == CHOOSE k \in 0 .. 8 : x < BaseTo[k] /\ (k = 0 \/ BaseTo[k-1] <= x)
-----------------------------------------------------------------------------
LeadingZeros(w) == CHOOSE s \in 0 .. W-1 : Base \div 2 <= w * PowerOf2[s] /\ w * PowerOf2[s] < Base

(* <^d, ^0> / d *)
Reciprocal2by1(d) == (BaseTo[2] - 1 - d * Base) \div d

Normalised(d) ==
  LET dLen == NumWords(d)
      shift == LeadingZeros(Digit(d, dLen - 1))
      dn == d * PowerOf2[shift]
  IN  [d |-> d, dLen |-> dLen, shift |-> shift, dn |-> dn,
       recip |-> Reciprocal2by1(Digit(dn, dLen - 1))]

NoDivisor == [d |-> 0, dLen |-> 0, shift |-> 0, dn |-> 0, recip |-> 0]

(* A divisor seen last is taken from the cache. *)
PreparedKeepingReciprocal(d) ==                                     \* mutant
  IF cache.dLen = NumWords(d) THEN [Normalised(d) EXCEPT !.recip = cache.recip]
  ELSE Normalised(d)
Prepared(d) == IF cache.dLen > 0 /\ cache.d = d THEN cache ELSE Normalised(d)

(* udivrem2by1: <uh, ul> divided by a normalised word.  The second           *)
(* correction is also made when the first is not.                            *)
CorrectNested(qh, ql, r, d) ==                                      \* mutant
  IF r > ql THEN IF WordOf(r + d) >= d THEN [q |-> qh, r |-> WordOf(r + d) - d]
                 ELSE [q |-> WordOf(qh - 1), r |-> WordOf(r + d)]
  ELSE [q |-> qh, r |-> r]
Correct(qh, ql, r, d) ==
  LET q1 == IF r > ql THEN WordOf(qh - 1) ELSE qh
      r1 == IF r > ql THEN WordOf(r + d) ELSE r
  IN  IF r1 >= d THEN [q |-> WordOf(q1 + 1), r |-> r1 - d] ELSE [q |-> q1, r |-> r1]

UDivRem2by1(uh, ul, d, recip) ==
  LET p == recip * uh + ul
      qh == WordOf(p \div Base + uh + 1)
  IN  Correct(qh, WordOf(p), WordOf(ul - qh * d), d)
-----------------------------------------------------------------------------
(* Knuth's digit: estimated from the top words and lowered by one if the     *)
(* next word says so.                                                        *)
Estimate(u2, u1, u0, dh, dl) ==
  LET e == UDivRem2by1(u2, u1, dh, divisor.recip)
  IN  CASE u2 >= dh -> Base - 1
        [] u2 < dh /\ e.q * dl > e.r * Base + u0 -> e.q - 1
        [] OTHER -> e.q

(* Multiply, subtract, and add back if that was one too much: the digit and  *)
(* the words that are left of those it was made from.                        *)
AddBack(over, digit, low, top) ==
  LET sum == low + divisor.dn
      n == BaseTo[divisor.dLen]
  IN  IF over THEN [q |-> WordOf(digit - 1), left |-> WordOf(top + (sum \div n)) * n + (sum % n)]
      ELSE [q |-> digit, left |-> top * n + low]

subMulTo(words, multiplier) ==
  LET n == BaseTo[divisor.dLen]
      left == words - multiplier * divisor.dn
  IN  [words |-> left % n, borrow |-> -(left \div n)]

KnuthDigit(w) ==
  LET len == divisor.dLen
      u2 == Digit(w, len)
      digit == Estimate(u2, Digit(w, len-1), Digit(w, len-2),
                        Digit(divisor.dn, len-1), Digit(divisor.dn, len-2))
      less == subMulTo(w % BaseTo[len], digit)
  IN  AddBack(u2 < less.borrow, digit, less.words, WordOf(u2 - less.borrow))

(* A divisor of one word needs no correction. *)
By1Digit(w) ==
  LET e == UDivRem2by1(Digit(w, 1), Digit(w, 0), divisor.dn, divisor.recip)
  IN  [q |-> e.q, left |-> e.r]

QuotientDigit(w) == IF divisor.dLen = 1 THEN By1Digit(w) ELSE KnuthDigit(w)

(* The first digit to make: with one word of divisor, the top word of the    *)
(* dividend is skipped when its digit is zero.                               *)
FirstDigit(u, v) ==
  LET uLen == NumWords(u)
      n == u * PowerOf2[v.shift]
  IN  IF /\ v.dLen = 1 /\ uLen >= 2
         /\ Digit(n, uLen) = 0 /\ Digit(n, uLen-1) < v.dn
      THEN uLen - 2 ELSE uLen - v.dLen
-----------------------------------------------------------------------------
(* A product of four words by four: of the numbers that their words make, in *)
(* place.  When the lowest word of x and the highest of y are zero, the       *)
(* others are enough.                                                         *)
Words(x, from, to) == (x % BaseTo[to+1]) - (x % BaseTo[from])
umul(x, y) == Words(x, 0, 3) * Words(y, 0, 3)
umul_lo3(x, y) == Words(x, 1, 3) * Words(y, 0, 2)
ProductOf(x, y) == IF Digit(x, 0) = 0 /\ Digit(y, 3) = 0 THEN umul_lo3(x, y) ELSE umul(x, y)

(* All four words of a remainder are written, whatever its length. *)
Overwritten(old, r) == r

(* Where a call wants the remainder to be. *)
SetRemainder(c, r) ==
  IF c.op = "MulDivRoundingUpV2" THEN remainder' = Overwritten(remainder, r) /\ UNCHANGED rem
  ELSE rem' = Overwritten(rem, r) /\ UNCHANGED remainder

Trivial(c) == c.op \in Products /\ 0 \in {c.x, c.y, c.d}

(* MulDivV2 of a zero, or by zero: all is zero, except m.rem.                *)
Zero(c) ==
  /\ Trivial(c)
  /\ quotient' = 0 /\ err' = "nil"
  /\ remainder' = IF c.op = "MulDivRoundingUpV2" THEN 0 ELSE remainder
  /\ at' = "returned"
  /\ UNCHANGED <<cache, divisor, un, j, quot, rem>>

(* DivByMaxFeeInto has its divisor prepared once and for all; un has one     *)
(* word more than x, but at least two.                                       *)
StartByMaxFee(c) ==
  /\ c.op \in ByMaxFee
  /\ divisor' = Normalised(FeeDenominator)
  /\ un' = c.x * PowerOf2[divisor'.shift]
  /\ j' = IF c.x = 0 THEN 0 ELSE NumWords(c.x) - 1
  /\ quot' = 0
  /\ at' = "digit"
  /\ UNCHANGED <<cache, rem, remainder, quotient, err>>

(* The columns of a product of two words and three, with their carries.      *)
Columns(x, y) ==
  LET lo(a, b) == WordOf(Digit(x, a) * Digit(y, b))
      hi(a, b) == (Digit(x, a) * Digit(y, b)) \div Base
      s1 == hi(0, 0) + lo(0, 1) + lo(1, 0)
      s2 == (s1 \div Base) + hi(0, 1) + hi(1, 0) + lo(0, 2) + lo(1, 1)
      s3 == (s2 \div Base) + hi(0, 2) + hi(1, 1) + lo(1, 2)
  IN  <<lo(0, 0), WordOf(s1), WordOf(s2), WordOf(s3), WordOf((s3 \div Base) + hi(1, 2))>>

(* The words of the product, shifted by a word and S bits. *)
Shift96(c) ==
  LET p == Columns(c.x, c.y)
      joined(k) == (p[k] \div PowerOf2[S]) + WordOf(p[k+1] * PowerOf2[W-S])
  IN  /\ c.op \in ByShift
      /\ quotient' = joined(2) + joined(3) * Base + joined(4) * BaseTo[2] + (p[5] \div PowerOf2[S]) * BaseTo[3]
      /\ err' = IF p[1] # 0 \/ p[2] % PowerOf2[S] # 0 THEN "inexact" ELSE "nil"
      /\ at' = "returned"
      /\ UNCHANGED <<cache, divisor, un, j, quot, rem, remainder>>

StartDivision(c) ==
  LET u == IF c.op \in Products THEN ProductOf(c.x, c.y) ELSE c.x
      v == Prepared(c.d)
  IN  /\ c.op \notin ByMaxFee \cup ByShift /\ ~Trivial(c)
      /\ cache' = v /\ divisor' = v
      /\ quot' = 0
      /\ IF NumWords(u) < v.dLen
           THEN SetRemainder(c, u) /\ at' = "divided" /\ UNCHANGED <<un, j>>
           ELSE /\ un' = u * PowerOf2[v.shift]
                /\ j' = FirstDigit(u, v)
                /\ at' = "digit"
                /\ UNCHANGED <<rem, remainder>>
      /\ UNCHANGED <<quotient, err>>

StartCall(op, x, y, d) ==
  LET c == [op |-> op, x |-> x, y |-> y, d |-> d]
  IN  asked' = c /\ (Zero(c) \/ StartByMaxFee(c) \/ Shift96(c) \/ StartDivision(c))

(* No caller divides by zero, except through MulDivV2, which tests for it.   *)
StartNew ==
  /\ at = "new"
  /\ \/ \E op \in Divisions, x \in Dividends, d \in Divisors \ {0} : StartCall(op, x, 1, d)
     \/ \E op \in Products, x, y \in Factors, d \in Divisors : StartCall(op, x, y, d)
     \/ \E op \in ByMaxFee, x \in Dividends : StartCall(op, x, 1, FeeDenominator)
     \/ \E op \in ByShift, x \in Factors, y \in Divisors :
          x < BaseTo[2] /\ y < BaseTo[2] * PowerOf2[S] /\ StartCall(op, x, y, TwoTo96)

(* MoreCalls follow each other. *)
StartAgain ==
  /\ at = "new" \/ (at = "returned" /\ asked \in MoreCalls)
  /\ \E c \in MoreCalls : StartCall(c.op, c.x, c.y, c.d)

(* One digit of the quotient.  After the last one the remainder is shifted   *)
(* back.                                                                     *)
MakeDigit ==
  /\ at = "digit"
  /\ LET window == (un \div BaseTo[j]) % BaseTo[divisor.dLen + 1]
         digit == QuotientDigit(window)
     IN  /\ un' = un + (digit.left - window) * BaseTo[j]
         /\ quot' = quot + digit.q * BaseTo[j]
  /\ j' = j - 1
  /\ IF j > 0 THEN at' = "digit" /\ UNCHANGED <<rem, remainder>>
     ELSE /\ at' = "divided"
          /\ IF asked.op \in ByMaxFee THEN UNCHANGED <<rem, remainder>>
             ELSE SetRemainder(asked, (un' % BaseTo[divisor.dLen]) \div PowerOf2[divisor.shift])
  /\ UNCHANGED <<cache, divisor, asked, quotient, err>>

(* The quotient has four words, or eight that must be zero in the upper half; *)
(* rounding up adds one unless the remainder is zero.                         *)
RoundUp(q) ==
  CASE asked.op = "DivRoundingUp" /\ rem # 0 -> (q + 1) % Full
    [] asked.op = "MulDivRoundingUpV2" /\ remainder # 0 /\ q < Full-1 -> q + 1
    [] OTHER -> q

Return ==
  /\ at = "divided"
  /\ LET q == quot % Full
         overflow == asked.op \in Products /\ quot >= Full
     IN  /\ quotient' = IF overflow THEN q ELSE RoundUp(q)
         /\ err' = CASE overflow -> "ErrMulDivOverflow"
                     [] /\ asked.op = "MulDivRoundingUpV2" /\ ~overflow
                        /\ remainder # 0 /\ q = Full-1 -> "ErrInvariant"
                     [] OTHER -> "nil"
  /\ at' = "returned"
  /\ UNCHANGED <<cache, divisor, asked, un, j, quot, rem, remainder>>

DivisionInit ==
  /\ cache = NoDivisor /\ divisor = NoDivisor
  /\ asked = [op |-> "DivInto", x |-> 0, y |-> 1, d |-> 1]
  /\ un = 0 /\ j = -1 /\ quot = 0 /\ rem = 0 /\ remainder = 0
  /\ quotient = 0 /\ err = "nil"
  /\ at = "new"

DivisionNext ==
  \/ StartNew
  \/ StartAgain
  \/ MakeDigit
  \/ Return

DivisionSpec == DivisionInit /\ [][DivisionNext]_divisionVars
-----------------------------------------------------------------------------
Dividend == asked.x * asked.y
Ceiling(a, d) == (a + d - 1) \div d

(* Every division answers with the quotient of the integers, rounded the way *)
(* its name says, or with the error of a quotient that needs more than 256   *)
(* bits, and with the remainder that a call asks for: no word of an earlier, *)
(* longer one is left in it.  The product shifted by 96 bits is a quotient   *)
(* too, and "inexact" if a bit was shifted out.                              *)
DivisionExact ==
  at = "returned" =>
    LET exact == IF asked.op \in {"DivRoundingUp", "MulDivRoundingUpV2"}
                 THEN Ceiling(Dividend, asked.d) ELSE Dividend \div asked.d
    IN  CASE asked.op \in ByShift ->
               quotient = Dividend \div TwoTo96 /\ (err = "inexact") = (Dividend % TwoTo96 # 0)
          [] asked.op \notin ByShift /\ Trivial(asked) -> quotient = 0 /\ err = "nil"
          [] OTHER ->
               /\ (err = "nil") = (exact < Full)
               /\ err = "nil" => quotient = exact
               /\ asked.op = "MulDivRoundingUpV2" => remainder = Dividend % asked.d
               /\ asked.op \in Divisions \cup {"MulDivV2"} => rem = Dividend % asked.d

(* The kept divisor is the last one, normalised, with the reciprocal of its  *)
(* own top word, so that a call that hits the cache divides by what it would *)
(* have computed.                                                            *)
CacheOfLastDivisor ==
  cache # NoDivisor =>
    LET top == cache.dn \div BaseTo[cache.dLen - 1]
    IN  /\ cache.dn = cache.d * PowerOf2[cache.shift]
        /\ top \in Base \div 2 .. Base-1
        /\ cache.recip = (BaseTo[2] - 1) \div top - Base
=============================================================================

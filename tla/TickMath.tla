------------------------------ MODULE TickMath ------------------------------
(***************************************************************************)
(* Ticks and prices: the table of square-root prices that the goroutines   *)
(* of utils/tick_math.go fill when the package is loaded, the search that  *)
(* corrects a tick estimated from a logarithm against that table, and what *)
(* stands on it: NearestUsableTick and the conversions between ticks and   *)
(* prices.  One is 2^128, One \div Q32 is the scale 2^96 of a price.       *)
(***************************************************************************)
EXTENDS Integers

CONSTANTS MaxTick,         \* ticks are -MaxTick .. MaxTick
          Bits,            \* an absolute tick is below 2^(Bits+1)
          SqrtConst,       \* sqrtConst1, sqrtConst3 .. sqrtConst21, by bit
          One, Q32,
          Workers,         \* GOMAXPROCS
          Drift,           \* the estimate is off by one tick in every Drift
          Requests         \* the calls made once the package is loaded

MinTick == -MaxTick
Tick == MinTick .. MaxTick
Q96 == One \div Q32
n == MaxTick - MinTick + 1
Unset == -1

Abs(x) == IF x < 0 THEN -x ELSE x

(* getSqrtRatioAtTickSlow: a factor for every bit of the tick, for ticks     *)
(* above 0 the inverse of the product, rounded up to a price.                *)
BitOf(t, k) == (Abs(t) \div 2^k) % 2

Product(t) ==
  LET upTo[k \in 0 .. Bits] ==
        IF k = 0 THEN IF BitOf(t, 0) = 1 THEN SqrtConst[0] ELSE One
        ELSE IF BitOf(t, k) = 1 THEN (upTo[k-1] * SqrtConst[k]) \div One ELSE upTo[k-1]
  IN  upTo[Bits]

Inverted(t, r) == IF t > 0 THEN (One * One - 1) \div r ELSE r

BackToQ96(r) == IF r % Q32 = 0 THEN r \div Q32 ELSE r \div Q32 + 1

getSqrtRatioAtTickSlow(t) == BackToQ96(Inverted(t, Product(t)))

TickMathAssumption ==
  /\ MaxTick \in Nat \ {0} /\ Bits \in Nat /\ MaxTick < 2^(Bits+1)
  /\ SqrtConst \in [0 .. Bits -> 1 .. One]
  /\ One \in Nat \ {0} /\ Q32 \in Nat \ {0}
  /\ Workers \in Nat \ {0} /\ Drift \in Nat \ {0}

RatiosAssumption ==
  /\ \A t \in Tick : getSqrtRatioAtTickSlow(t) \in Nat \ {0}
  /\ \A t, u \in Tick : t < u => getSqrtRatioAtTickSlow(t) < getSqrtRatioAtTickSlow(u)

(* NearestUsableTick panics for any other tick or spacing; a price has two   *)
(* positive parts.                                                           *)
RequestsAssumption ==
  \A r \in Requests :
    /\ r.of = "GetTickAtSqrtRatio" => r.sqrtRatioX96 \in Nat
    /\ r.of = "PriceToClosestTick" =>
         r.price[1] \in Nat \ {0} /\ r.price[2] \in Nat \ {0} /\ r.sorted \in BOOLEAN
    /\ r.of = "NearestUsableTick" => r.tick \in Tick /\ r.tickSpacing \in Nat \ {0}

VARIABLES sqrtRatioTable,  \* by index, from 0
          next,            \* the next entry of every worker
          started,         \* the workers that the loop has started
          pc,
          request,         \* the call at work, NoRequest before the first
          idx,             \* of the search
          result

vars == <<sqrtRatioTable, next, started, pc, request, idx, result>>

Worker == 0 .. Workers-1
chunkSizeDown == n \div Workers                                     \* mutant
chunkSize == (n + Workers - 1) \div Workers
Start(w) == w * chunkSize
End(w) == IF Start(w) + chunkSize > n THEN n ELSE Start(w) + chunkSize

NoRequest == [of |-> "none"]
Panic == MaxTick + 1       \* for an index past the end of the table
-----------------------------------------------------------------------------
Init ==
  /\ sqrtRatioTable = [i \in 0 .. n-1 |-> Unset]
  /\ next = [w \in Worker |-> Start(w)]
  /\ started = 0
  /\ pc = "starting"
  /\ request = NoRequest
  /\ idx = 0 /\ result = Unset

(* The loop starts a goroutine for every chunk that is not empty.            *)
StartWorker ==
  /\ pc = "starting"
  /\ IF started < Workers /\ Start(started) < n
       THEN started' = started + 1 /\ UNCHANGED pc
       ELSE pc' = "waiting" /\ UNCHANGED started
  /\ UNCHANGED <<sqrtRatioTable, next, request, idx, result>>

Fill(w) ==
  /\ w < started /\ next[w] < End(w)
  /\ sqrtRatioTable' = [sqrtRatioTable EXCEPT ![next[w]] = getSqrtRatioAtTickSlow(next[w] + MinTick)]
  /\ next' = [next EXCEPT ![w] = @ + 1]
  /\ UNCHANGED <<started, pc, request, idx, result>>

Finished(w) == next[w] >= End(w)
AllDone == \A w \in 0 .. started-1 : Finished(w)

(* wg.Wait *)
Wait ==
  /\ pc = "waiting" /\ AllDone
  /\ pc' = "ready"
  /\ UNCHANGED <<sqrtRatioTable, next, started, request, idx, result>>
-----------------------------------------------------------------------------
RatioAt(i) == sqrtRatioTable[i]
LowestRatio == getSqrtRatioAtTickSlow(MinTick)

(* The true tick, for the bound on the error of the estimate.                *)
FloorTick(p) ==
  IF p < LowestRatio THEN MinTick
  ELSE CHOOSE t \in Tick : /\ getSqrtRatioAtTickSlow(t) <= p
                           /\ t = MaxTick \/ p < getSqrtRatioAtTickSlow(t+1)

(* The logarithm is multiplied by 2/0.000144269.., which is 10000*2*ln 2 and *)
(* not 2/log2(1.0001): the estimate lags by one part in 20000, and one more  *)
(* for the series and the conversion, which cuts towards zero.               *)
ErrorAt(t) == Abs(t) \div Drift + 1
Estimates(p) == {e \in MinTick-2 .. MaxTick+2 : Abs(e - FloorTick(p)) <= ErrorAt(FloorTick(p))}

Clamped(e) ==
  CASE e < MinTick -> MinTick
    [] e > MaxTick - 1 -> MaxTick - 1
    [] OTHER -> e

SquareRoot(x) == CHOOSE r \in 0 .. x : r * r <= x /\ x < (r+1) * (r+1)

(* EncodeSqrtRatioX96 and its argument for a price <<numerator, denominator>>*)
EncodeSqrtRatioX96(amount1, amount0) == SquareRoot((amount1 * Q96 * Q96) \div amount0)

(* SortsBefore of the base and the quote token decides which way a price is  *)
(* read.                                                                     *)
OfPriceSorted(price, sorted) == EncodeSqrtRatioX96(price[1], price[2])  \* mutant
OfPrice(price, sorted) ==
  IF sorted THEN EncodeSqrtRatioX96(price[1], price[2]) ELSE EncodeSqrtRatioX96(price[2], price[1])

TickToPrice(i, sorted) ==
  LET ratioX192 == RatioAt(i) * RatioAt(i)
  IN  IF sorted THEN <<ratioX192, Q96 * Q96>> ELSE <<Q96 * Q96, ratioX192>>

SqrtRatioX96 ==
  IF request.of = "GetTickAtSqrtRatio" THEN request.sqrtRatioX96
  ELSE OfPrice(request.price, request.sorted)

(* GetTickAtSqrtRatioV2, on its own or for PriceToClosestTick.               *)
StartSearch(r) ==
  /\ pc = "ready" /\ r.of \in {"GetTickAtSqrtRatio", "PriceToClosestTick"}
  /\ request' = r
  /\ LET p == IF r.of = "GetTickAtSqrtRatio" THEN r.sqrtRatioX96 ELSE OfPrice(r.price, r.sorted)
     IN  \E e \in Estimates(p) : idx' = Clamped(e) - MinTick
  /\ pc' = "down"
  /\ UNCHANGED <<sqrtRatioTable, next, started, result>>

TooHigh == idx > 0 /\ RatioAt(idx) > SqrtRatioX96
TooLowStrict == idx < n-1 /\ RatioAt(idx+1) < SqrtRatioX96          \* mutant
TooLow == idx < n-1 /\ RatioAt(idx+1) <= SqrtRatioX96

Down ==
  /\ pc = "down"
  /\ IF TooHigh THEN idx' = idx - 1 /\ UNCHANGED pc
     ELSE pc' = "up" /\ UNCHANGED idx
  /\ UNCHANGED <<sqrtRatioTable, next, started, request, result>>

Up ==
  /\ pc = "up" /\ TooLow
  /\ idx' = idx + 1
  /\ UNCHANGED <<sqrtRatioTable, next, started, pc, request, result>>

(* PriceToClosestTick compares with the next tick's price, past the table's  *)
(* end for a price at or above the last.                                     *)
LessThan(p, q) == p[1] * q[2] < q[1] * p[2]
ReachesNext(price, nextTickPrice, sorted) ==
  IF sorted THEN ~LessThan(price, nextTickPrice) ELSE ~LessThan(nextTickPrice, price)

ClosestTick ==
  IF idx + 1 > n - 1 THEN Panic
  ELSE IF ReachesNext(request.price, TickToPrice(idx+1, request.sorted), request.sorted)
       THEN idx + 1 + MinTick ELSE idx + MinTick

Found ==
  /\ pc = "up" /\ ~TooLow
  /\ result' = IF request.of = "GetTickAtSqrtRatio" THEN idx + MinTick ELSE ClosestTick
  /\ pc' = "done"
  /\ UNCHANGED <<sqrtRatioTable, next, started, request, idx>>

(* Round is the floor of a half more: halves go up, also below zero.         *)
Round(x, d) == (2 * x + d) \div (2 * d)

NearestUsableTickKept(t, spacing) == Round(t, spacing) * spacing    \* mutant
NearestUsableTick(t, spacing) ==
  LET rounded == Round(t, spacing) * spacing
  IN  CASE rounded < MinTick -> rounded + spacing
        [] rounded > MaxTick -> rounded - spacing
        [] OTHER -> rounded

AskNearestUsableTick(r) ==
  /\ pc = "ready" /\ r.of = "NearestUsableTick"
  /\ request' = r
  /\ result' = NearestUsableTick(r.tick, r.tickSpacing)
  /\ pc' = "done"
  /\ UNCHANGED <<sqrtRatioTable, next, started, idx>>

Loading == StartWorker \/ Wait \/ \E w \in Worker : Fill(w)
Searching == Down \/ Up \/ Found

Next == Loading \/ Searching \/ \E r \in Requests : StartSearch(r) \/ AskNearestUsableTick(r)

Spec == Init /\ [][Next]_vars
-----------------------------------------------------------------------------
(* No call sees an entry that its goroutine has not filled, however many     *)
(* processors there are: the chunks cover the table, no entry is filled      *)
(* twice, and wg.Wait waits for every one of them.                           *)
TableIsBuilt ==
  /\ pc \notin {"starting", "waiting"} =>
       \A i \in 0 .. n-1 : sqrtRatioTable[i] = getSqrtRatioAtTickSlow(i + MinTick)
  /\ \A v, w \in 0 .. started-1 : v # w => End(v) <= Start(w) \/ End(w) <= Start(v)

(* Two loops from wherever the estimate lies end on the tick whose price is  *)
(* at or below the one asked for and whose successor's is not, and on the    *)
(* first or last tick outside of the table: without an error.                *)
FoundIsFloor ==
  pc = "done" /\ request.of = "GetTickAtSqrtRatio" => result = FloorTick(request.sqrtRatioX96)

(* NearestUsableTick answers with a multiple of the spacing inside the       *)
(* range of ticks, and none is nearer.                                       *)
Usable(spacing) == {t \in Tick : t % spacing = 0}
UsableIsNearest ==
  pc = "done" /\ request.of = "NearestUsableTick" =>
    /\ result \in Usable(request.tickSpacing)
    /\ \A t \in Usable(request.tickSpacing) : Abs(result - request.tick) <= Abs(t - request.tick)

(* "the price of the returned tick is less than or equal to the input price" *)
(* (price_tick_conversions.go:42), read in pool order, and the next tick's   *)
(* is not: prices of ticks come back as those ticks.                         *)
AtOrBelow(price, i, sorted) ==
  IF sorted THEN ~LessThan(price, TickToPrice(i, TRUE)) ELSE ~LessThan(TickToPrice(i, FALSE), price)
ClosestIsBelow ==
  pc = "done" /\ request.of = "PriceToClosestTick" /\ result # Panic =>
    LET i == result - MinTick
    IN  /\ AtOrBelow(request.price, i, request.sorted) \/ i = 0
        /\ i < n-1 => ~AtOrBelow(request.price, i+1, request.sorted)
=============================================================================

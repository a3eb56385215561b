--------------------------- MODULE PoolSwapProofs ---------------------------
(***************************************************************************)
(* What holds of every swap, on every pool: the price stays within the     *)
(* limit, the tick is the one that holds the price, the liquidity is that  *)
(* of the positions holding the tick, the amounts add up to the one that   *)
(* was specified, and trading back and forth never profits; for every      *)
(* table of prices, book of ticks and sequence of swaps, at any scale.     *)
(***************************************************************************)
EXTENDS PoolSwap, SwapMathProofs

Ticks == MinTick-1 .. MaxTick      \* a swap to the left may end below the first

States == {"idle", "loop", "moved", "returned", "quoted", "failed"}

PoolType ==
  /\ book \in Books
  /\ pool \in [sqrtPrice : Price, tick : Ticks, liquidity : Int, fee : 0 .. MaxFee-1]
  /\ state \in [remaining : 0 .. Word-1, calculated : Int, sqrtPrice : Int, tick : Int,
                liquidity : Int]
  /\ step \in [start : Int, tickNext : Int, initialized : BOOLEAN, priceNext : Int]
  /\ call \in [zeroForOne : BOOLEAN, exactIn : BOOLEAN, amount : Nat, limit : Price]
  /\ paid \in [in : Nat, out : Nat]
  /\ crossed \in Nat /\ aliased \in BOOLEAN /\ pc \in States

(* Tick t holds price p; on the price of the next tick it still does.        *)
Holds(t, p) ==
  /\ t >= MinTick => SqrtRatio[t] <= p
  /\ t < MaxTick => p <= SqrtRatio[t+1]

PoolFits == Holds(pool.tick, pool.sqrtPrice) /\ pool.liquidity = ActiveLiquidity(pool.tick)

Active == pc \in {"loop", "moved", "returned"}

(* A swap at work is between the pool and its limit, in active liquidity.    *)
WalkFits ==
  Active =>
    /\ call.amount \in Amounts
    /\ state.sqrtPrice \in Price /\ state.tick \in Ticks
    /\ state.liquidity = ActiveLiquidity(state.tick)
    /\ IF call.zeroForOne THEN call.limit <= state.sqrtPrice /\ state.sqrtPrice <= pool.sqrtPrice
       ELSE pool.sqrtPrice <= state.sqrtPrice /\ state.sqrtPrice <= call.limit

BetweenSteps == pc \in {"loop", "returned"} => Holds(state.tick, state.sqrtPrice)

(* A move has not passed the next initialised tick.                          *)
Unlisted(from, to) == \A s \in from .. to : s \notin book.listed

MoveFits ==
  pc = "moved" =>
    /\ step.tickNext \in Tick /\ step.priceNext = SqrtRatio[step.tickNext]
    /\ step.initialized <=> step.tickNext \in book.listed
    /\ step.start \in Price /\ Holds(state.tick, step.start)
    /\ call.zeroForOne =>
         /\ step.tickNext <= state.tick /\ Unlisted(step.tickNext + 1, state.tick)
         /\ step.priceNext <= state.sqrtPrice /\ state.sqrtPrice <= step.start
         /\ ~step.initialized => step.tickNext = MinTick
    /\ ~call.zeroForOne =>
         /\ step.tickNext > state.tick /\ Unlisted(state.tick + 1, step.tickNext - 1)
         /\ step.start <= state.sqrtPrice /\ state.sqrtPrice <= step.priceNext
         /\ ~step.initialized => step.tickNext = MaxTick

(* What is left is what is specified less what is paid, in its own encoding. *)
AmountsFit ==
  Active =>
    /\ call.exactIn => paid.in + state.remaining = call.amount
    /\ ~call.exactIn /\ ~aliased =>
         paid.out <= call.amount /\ state.remaining = Negated(call.amount - paid.out)

PoolInv == PoolType /\ PoolFits /\ WalkFits /\ BetweenSteps /\ MoveFits /\ AmountsFit
-----------------------------------------------------------------------------
(* Prices are words, and ordered as their ticks are.                         *)
LEMMA PricesInOrder ==
  /\ MinTick \in Int /\ MaxTick \in Int /\ MinTick < MaxTick
  /\ \A t \in Tick : SqrtRatio[t] \in Price /\ SqrtRatio[t] \in Nat
  /\ \A s, t \in Tick : s < t => SqrtRatio[s] < SqrtRatio[t]
  /\ \A s, t \in Tick : s <= t => SqrtRatio[s] <= SqrtRatio[t]
  /\ Price \subseteq PriceWord /\ Price \subseteq Nat
  /\ \A p \in Price : p \in Int /\ SqrtRatio[MinTick] <= p /\ p <= SqrtRatio[MaxTick]
<1>1. /\ MinTick \in Int /\ MaxTick \in Int /\ MinTick < MaxTick /\ Word \in Nat
      /\ \A s, t \in Tick : s < t => SqrtRatio[s] < SqrtRatio[t]
  BY PoolAssumption, ScaleAssumption
<1>2. \A t \in Tick : SqrtRatio[t] \in 1 .. Word-1
  BY PoolAssumption
<1>3. \A s, t \in Tick : s <= t => SqrtRatio[s] <= SqrtRatio[t]
  <2> TAKE s, t \in Tick
  <2>1. s \in Int /\ t \in Int /\ SqrtRatio[s] \in Int /\ SqrtRatio[t] \in Int
    BY <1>1, <1>2 DEF Tick
  <2>2. CASE s = t
    BY <2>1, <2>2
  <2>3. CASE s < t
    BY <1>1, <2>1, <2>3
  <2> QED BY <2>1, <2>2, <2>3
<1>4. MinTick \in Tick /\ MaxTick \in Tick
  BY <1>1 DEF Tick
<1>5. \A t \in Tick : SqrtRatio[MinTick] <= SqrtRatio[t] /\ SqrtRatio[t] <= SqrtRatio[MaxTick]
  BY <1>1, <1>3, <1>4 DEF Tick
<1>6. \A t \in Tick : SqrtRatio[t] \in Price /\ SqrtRatio[t] \in Nat
  BY <1>1, <1>2, <1>4, <1>5 DEF Price
<1>7. Price \subseteq PriceWord /\ Price \subseteq Nat
  BY <1>1, <1>2, <1>4 DEF Price, PriceWord
<1>8. \A p \in Price : p \in Int /\ SqrtRatio[MinTick] <= p /\ p <= SqrtRatio[MaxTick]
  BY <1>2, <1>4 DEF Price
<1> QED BY <1>1, <1>3, <1>6, <1>7, <1>8

(* Sets of ticks have a last and a first member, as Max and Min return them. *)
LEMMA LastAndFirst ==
  ASSUME NEW S, S \subseteq Tick, S # {}
  PROVE  /\ Max(S) \in S /\ \A s \in S : s <= Max(S)
         /\ Min(S) \in S /\ \A s \in S : Min(S) <= s
<1>1. MinTick \in Int /\ MaxTick \in Int /\ S \subseteq Int
  BY PricesInOrder DEF Tick
<1> DEFINE Up == {MaxTick - s : s \in S}  Low == {s - MinTick : s \in S}
<1>2. Up \subseteq Nat /\ Up # {} /\ Low \subseteq Nat /\ Low # {}
  <2>1. \A s \in S : MaxTick - s \in Nat /\ s - MinTick \in Nat
    BY <1>1 DEF Tick
  <2>2. PICK s \in S : TRUE
    OBVIOUS
  <2>3. MaxTick - s \in Up /\ s - MinTick \in Low
    OBVIOUS
  <2> QED BY <2>1, <2>3
<1>3. PICK u \in Up : \A v \in Up : u <= v
  BY <1>2, NatMinimum
<1>4. PICK l \in Low : \A v \in Low : l <= v
  BY <1>2, NatMinimum
<1>5. PICK a \in S : u = MaxTick - a
  OBVIOUS
<1>6. PICK b \in S : l = b - MinTick
  OBVIOUS
<1>7. ASSUME NEW s \in S PROVE s <= a /\ b <= s
  <2>1. u <= MaxTick - s /\ l <= s - MinTick
    BY <1>3, <1>4
  <2>2. a \in Int /\ b \in Int /\ s \in Int
    BY <1>1
  <2> QED BY <1>1, <1>5, <1>6, <2>1, <2>2
<1>8. /\ a \in S /\ \A s \in S : a >= s
      /\ b \in S /\ \A s \in S : b =< s
  <2>1. \A s \in S : s \in Int
    BY <1>1
  <2> QED BY <1>7, <2>1
<1>9. Max(S) \in S /\ \A s \in S : Max(S) >= s
  BY <1>8 DEF Max
<1>10. Min(S) \in S /\ \A s \in S : Min(S) =< s
  BY <1>8 DEF Min
<1> QED BY <1>1, <1>9, <1>10

(* GetTickAtSqrtRatio answers for every price in range.                      *)
LEMMA TickOfPrice ==
  ASSUME NEW p \in Price
  PROVE  /\ TickAtSqrtRatio(p) \in Tick
         /\ SqrtRatio[TickAtSqrtRatio(p)] <= p
         /\ TickAtSqrtRatio(p) < MaxTick => p < SqrtRatio[TickAtSqrtRatio(p) + 1]
<1> DEFINE S == {t \in Tick : SqrtRatio[t] <= p}
<1>1. MinTick \in Tick /\ SqrtRatio[MinTick] <= p
  BY PricesInOrder DEF Tick
<1>2. S \subseteq Tick /\ S # {}
  BY <1>1
<1>3. PICK t \in S : \A s \in S : s <= t
  BY <1>2, LastAndFirst
<1>4. t \in Tick /\ SqrtRatio[t] <= p
  OBVIOUS
<1>5. ASSUME t < MaxTick PROVE p < SqrtRatio[t+1]
  <2>1. t + 1 \in Tick /\ t + 1 > t /\ t \in Int
    BY <1>4, <1>5, PricesInOrder DEF Tick
  <2>2. t + 1 \notin S
    <3> SUFFICES ASSUME t + 1 \in S PROVE FALSE
      OBVIOUS
    <3>1. t + 1 <= t
      BY <1>3
    <3> QED BY <2>1, <3>1
  <2>3. ~(SqrtRatio[t+1] <= p)
    BY <2>1, <2>2
  <2>4. SqrtRatio[t+1] \in Int /\ p \in Int
    BY <2>1, PricesInOrder
  <2> QED BY <2>3, <2>4
<1>6. \E x \in Tick : SqrtRatio[x] <= p /\ (x < MaxTick => p < SqrtRatio[x+1])
  BY <1>4, <1>5
<1> QED BY <1>6 DEF TickAtSqrtRatio

(* Between initialised ticks the active liquidity is one and the same.       *)
LEMMA ActiveIsConstant ==
  ASSUME book \in Books, NEW s \in Ticks, NEW t \in Ticks, s <= t, Unlisted(s+1, t)
  PROVE  ActiveLiquidity(s) = ActiveLiquidity(t)
<1>1. MinTick \in Int /\ MaxTick \in Int /\ s \in Int /\ t \in Int
  BY PricesInOrder DEF Ticks
<1> DEFINE D == {d \in Nat : s + d <= t /\ book.active[s+d] # book.active[s]}
<1>2. SUFFICES ASSUME D # {} PROVE FALSE
  <2>1. t - s \in Nat /\ s + (t - s) = t
    BY <1>1
  <2>2. ~(t - s \in Nat /\ s + (t - s) <= t /\ book.active[s + (t - s)] # book.active[s])
    BY <1>2
  <2> QED BY <1>1, <2>1, <2>2 DEF ActiveLiquidity
<1>3. PICK d \in D : \A e \in D : d <= e
  <2>1. D \subseteq Nat
    OBVIOUS
  <2> QED BY <1>2, <2>1, NatMinimum
<1>4. d \in Nat /\ s + d <= t /\ book.active[s+d] # book.active[s]
  OBVIOUS
<1>5. d # 0
  BY <1>1, <1>4
<1>6. d - 1 \in Nat /\ s + (d - 1) = (s + d) - 1
  BY <1>1, <1>4, <1>5
<1>7. book.active[s + d - 1] = book.active[s]
  <2>1. d - 1 \notin D
    <3> SUFFICES ASSUME d - 1 \in D PROVE FALSE
      OBVIOUS
    <3>1. d <= d - 1
      BY <1>3
    <3> QED BY <1>4, <3>1
  <2>2. s + (d - 1) <= t
    BY <1>1, <1>4
  <2> QED BY <1>6, <2>1, <2>2
<1>8. s + d \in Tick /\ s + d \in s+1 .. t
  BY <1>1, <1>4, <1>5 DEF Ticks, Tick
<1>9. s + d \notin book.listed
  BY <1>8 DEF Unlisted
<1>10. book.active[s + d] = book.active[s + d - 1]
  <2> DEFINE u == s + d
  <2>1. \A v \in Tick : v \notin book.listed => book.active[v] = book.active[v-1]
    BY BooksAssumption
  <2> HIDE DEF u
  <2>2. u \in Tick /\ u \notin book.listed
    BY <1>8, <1>9 DEF u
  <2>3. book.active[u] = book.active[u-1]
    BY <2>1, <2>2
  <2> QED BY <1>1, <1>4, <2>3 DEF u
<1> QED BY <1>4, <1>7, <1>10

(* The liquidity on the two sides of an initialised tick.                    *)
LEMMA ActiveAcross ==
  ASSUME book \in Books, NEW t \in book.listed
  PROVE  ActiveLiquidity(t) = ActiveLiquidity(t-1) + book.net[t]
BY BooksAssumption, PoolAssumption DEF ActiveLiquidity

(* The liquidity in range is one the arithmetic has room for. *)
LEMMA ActiveIsLiquid ==
  ASSUME book \in Books, NEW t \in Ticks
  PROVE  Liquid(ActiveLiquidity(t)) /\ ActiveLiquidity(t) \in Int
<1>1. book.active \in [Ticks -> Nat] /\ book.active[t] * Q < Word
  BY BooksAssumption, PoolAssumption DEF Ticks
<1> QED BY <1>1 DEF ActiveLiquidity, Liquid
-----------------------------------------------------------------------------
(* The next tick of a step lies ahead, and no initialised tick before it.    *)
NextFits(to, t, zeroForOne) ==
  /\ to.tickNext \in Tick /\ to.initialized \in BOOLEAN
  /\ to.initialized <=> to.tickNext \in book.listed
  /\ zeroForOne => /\ to.tickNext <= t /\ Unlisted(to.tickNext + 1, t)
                   /\ ~to.initialized => to.tickNext = MinTick
  /\ ~zeroForOne => /\ to.tickNext > t /\ Unlisted(t + 1, to.tickNext - 1)
                    /\ ~to.initialized => to.tickNext = MaxTick

(* The next tick to the left is listed or the end, with nothing between. *)
LEMMA NextTickToTheLeft ==
  ASSUME book \in Books, NEW t \in Tick
  PROVE  NextFits(StepTo(t, TRUE), t, TRUE)
<1> DEFINE to == StepTo(t, TRUE)
<1>1. /\ MinTick \in Int /\ MaxTick \in Int /\ MinTick <= t /\ t \in Int
      /\ book.listed \subseteq Tick /\ MinTick \in Tick
  BY PricesInOrder, PoolAssumption DEF Tick
<1>2. CASE AtOrBelow(t) # {}
  <2> DEFINE m == Max(AtOrBelow(t))
  <2>1. AtOrBelow(t) \subseteq Tick
    BY <1>1 DEF AtOrBelow
  <2>2. m \in AtOrBelow(t) /\ \A s \in AtOrBelow(t) : s <= m
    BY <1>2, <2>1, LastAndFirst
  <2>3. to = [tickNext |-> m, initialized |-> TRUE]
    BY <1>2 DEF StepTo
  <2> HIDE DEF to
  <2> HIDE DEF m, to
  <2>4. m \in Tick /\ m \in Int /\ m <= t /\ m \in book.listed
    BY <1>1, <2>2 DEF AtOrBelow, Tick
  <2>5. Unlisted(m + 1, t)
    <3> SUFFICES ASSUME NEW s \in m + 1 .. t, s \in book.listed PROVE FALSE
      BY DEF Unlisted
    <3>1. s \in AtOrBelow(t)
      BY DEF AtOrBelow
    <3>2. s <= m
      BY <2>2, <3>1
    <3> QED BY <1>1, <2>4, <3>2
  <2>6. /\ to.tickNext = m
        /\ to.initialized
    BY <2>3
  <2>7. to \in [tickNext : Tick, initialized : BOOLEAN]
    BY <2>3, <2>4
  <2> QED BY <1>1, <2>4, <2>5, <2>6, <2>7 DEF NextFits, to
<1>3. CASE AtOrBelow(t) = {}
  <2>1. to = [tickNext |-> MinTick, initialized |-> FALSE]
    BY <1>3 DEF StepTo
  <2> HIDE DEF to
  <2>2. \A s \in book.listed : ~(s <= t)
    BY <1>3 DEF AtOrBelow
  <2>3. Unlisted(MinTick + 1, t) /\ MinTick \notin book.listed
    BY <1>1, <2>2 DEF Unlisted
  <2>6. /\ to.tickNext = MinTick
        /\ ~to.initialized
    BY <2>1
  <2>7. to \in [tickNext : Tick, initialized : BOOLEAN]
    BY <1>1, <2>1
  <2> QED BY <1>1, <2>3, <2>6, <2>7 DEF NextFits, to
<1> QED BY <1>2, <1>3

(* The next tick to the right is listed or the end, with nothing between. *)
LEMMA NextTickToTheRight ==
  ASSUME book \in Books, NEW t \in Ticks, t < MaxTick
  PROVE  NextFits(StepTo(t, FALSE), t, FALSE)
<1> DEFINE to == StepTo(t, FALSE)
<1>1. /\ MinTick \in Int /\ MaxTick \in Int /\ MinTick - 1 <= t /\ t \in Int
      /\ book.listed \subseteq Tick /\ MaxTick \in Tick
  BY PricesInOrder, PoolAssumption DEF Tick, Ticks
<1>2. CASE Above(t) # {}
  <2> DEFINE m == Min(Above(t))
  <2>1. Above(t) \subseteq Tick
    BY <1>1 DEF Above
  <2>2. m \in Above(t) /\ \A s \in Above(t) : m <= s
    BY <1>2, <2>1, LastAndFirst
  <2>3. to = [tickNext |-> m, initialized |-> TRUE]
    BY <1>2 DEF StepTo
  <2> HIDE DEF to
  <2> HIDE DEF m, to
  <2>4. m \in Tick /\ m \in Int /\ m > t /\ m \in book.listed
    BY <1>1, <2>2 DEF Above, Tick
  <2>5. Unlisted(t + 1, m - 1)
    <3> SUFFICES ASSUME NEW s \in t + 1 .. m - 1, s \in book.listed PROVE FALSE
      BY DEF Unlisted
    <3>1. s \in Above(t)
      BY <1>1, <2>4 DEF Above
    <3>2. m <= s
      BY <2>2, <3>1
    <3> QED BY <1>1, <2>4, <3>2
  <2>6. /\ to.tickNext = m
        /\ to.initialized
    BY <2>3
  <2>7. to \in [tickNext : Tick, initialized : BOOLEAN]
    BY <2>3, <2>4
  <2> QED BY <1>1, <2>4, <2>5, <2>6, <2>7 DEF NextFits, to
<1>3. CASE Above(t) = {}
  <2>1. to = [tickNext |-> MaxTick, initialized |-> FALSE]
    BY <1>3 DEF StepTo
  <2> HIDE DEF to
  <2>2. \A s \in book.listed : ~(s > t)
    BY <1>3 DEF Above
  <2>3. Unlisted(t + 1, MaxTick - 1) /\ MaxTick \notin book.listed
    BY <1>1, <2>2 DEF Unlisted
  <2>6. /\ to.tickNext = MaxTick
        /\ ~to.initialized
    BY <2>1
  <2>7. to \in [tickNext : Tick, initialized : BOOLEAN]
    BY <1>1, <2>1
  <2> QED BY <1>1, <2>3, <2>6, <2>7 DEF NextFits, to
<1> QED BY <1>2, <1>3

(* A swap that is not at its end has a tick ahead.                           *)
LEMMA TickAhead ==
  ASSUME PoolInv, pc = "loop", ~AtEnd
  PROVE  /\ NextFits(StepTo(state.tick, call.zeroForOne), state.tick, call.zeroForOne)
         /\ call.zeroForOne => state.tick \in Tick
         /\ ~call.zeroForOne => state.tick < MaxTick
<1>1. /\ book \in Books /\ call.zeroForOne \in BOOLEAN /\ call.limit \in Price
      /\ state.sqrtPrice \in Price /\ state.tick \in Ticks /\ state.sqrtPrice # call.limit
      /\ Holds(state.tick, state.sqrtPrice)
      /\ IF call.zeroForOne THEN call.limit <= state.sqrtPrice ELSE state.sqrtPrice <= call.limit
  BY DEF PoolInv, PoolType, WalkFits, BetweenSteps, Active, AtEnd
<1>2. /\ MinTick \in Int /\ MaxTick \in Int /\ state.tick \in Int /\ MinTick < MaxTick
      /\ SqrtRatio[MinTick] <= call.limit /\ call.limit <= SqrtRatio[MaxTick]
      /\ call.limit \in Int /\ state.sqrtPrice \in Int
      /\ SqrtRatio[MinTick] \in Int /\ SqrtRatio[MaxTick] \in Int
      /\ MinTick - 1 <= state.tick /\ state.tick <= MaxTick
  <2>1. MinTick \in Tick /\ MaxTick \in Tick
    BY PricesInOrder DEF Tick
  <2>2. state.tick \in Int /\ MinTick - 1 <= state.tick /\ state.tick <= MaxTick
    BY <1>1, PricesInOrder DEF Ticks
  <2>3. call.limit \in Int /\ state.sqrtPrice \in Int
    <3>1. \A p \in Price : p \in Int
      BY PricesInOrder
    <3>2. call.limit \in Price /\ state.sqrtPrice \in Price
      BY <1>1
    <3> QED BY <3>1, <3>2
  <2> QED BY <1>1, <2>1, <2>2, <2>3, PricesInOrder
<1>3. CASE call.zeroForOne
  <2>1. call.limit < state.sqrtPrice /\ call.zeroForOne = TRUE
    BY <1>1, <1>2, <1>3
  <2>2. state.tick # MinTick - 1
    <3> SUFFICES ASSUME state.tick = MinTick - 1 PROVE FALSE
      OBVIOUS
    <3>1. state.tick < MaxTick /\ state.tick + 1 = MinTick
      BY <1>2
    <3>2. state.sqrtPrice <= SqrtRatio[MinTick]
      BY <1>1, <3>1 DEF Holds
    <3> QED BY <1>2, <2>1, <3>2
  <2>3. state.tick \in Tick
    BY <1>2, <2>2 DEF Tick
  <2> QED BY <1>1, <2>1, <2>3, NextTickToTheLeft
<1>4. CASE ~call.zeroForOne
  <2>1. state.sqrtPrice < call.limit /\ call.zeroForOne = FALSE
    BY <1>1, <1>2, <1>4
  <2>2. state.tick # MaxTick
    <3> SUFFICES ASSUME state.tick = MaxTick PROVE FALSE
      OBVIOUS
    <3>1. state.tick >= MinTick
      BY <1>2
    <3>2. SqrtRatio[MaxTick] <= state.sqrtPrice
      BY <1>1, <3>1 DEF Holds
    <3> QED BY <1>2, <2>1, <3>2
  <2>3. state.tick < MaxTick
    BY <1>2, <2>2
  <2> QED BY <1>1, <2>1, <2>3, NextTickToTheRight
<1> QED BY <1>1, <1>3, <1>4
-----------------------------------------------------------------------------
(* The next tick, the target and the outcome of the step at work.            *)
Ahead == StepTo(state.tick, call.zeroForOne)
AheadPrice == SqrtRatio[Ahead.tickNext]
Taken ==
  ComputeSwapStep(state.sqrtPrice, Target(AheadPrice), state.liquidity, state.remaining,
                  pool.fee, call.zeroForOne, call.exactIn)

(* The target of a step is a price on the way to the limit.                  *)
LEMMA TargetIsAhead ==
  ASSUME PoolInv, pc = "loop", ~AtEnd
  PROVE  /\ Target(AheadPrice) \in Price /\ AheadPrice \in Price
         /\ call.zeroForOne => /\ AheadPrice <= Target(AheadPrice)
                               /\ call.limit <= Target(AheadPrice)
                               /\ Target(AheadPrice) <= state.sqrtPrice
         /\ ~call.zeroForOne => /\ Target(AheadPrice) <= AheadPrice
                                /\ Target(AheadPrice) <= call.limit
                                /\ state.sqrtPrice <= Target(AheadPrice)
<1>1. /\ call.zeroForOne \in BOOLEAN /\ call.limit \in Price /\ state.sqrtPrice \in Price
      /\ Holds(state.tick, state.sqrtPrice) /\ state.tick \in Ticks
      /\ IF call.zeroForOne THEN call.limit <= state.sqrtPrice ELSE state.sqrtPrice <= call.limit
  BY DEF PoolInv, PoolType, WalkFits, BetweenSteps, Active
<1>2. NextFits(Ahead, state.tick, call.zeroForOne)
  BY TickAhead DEF Ahead
<1>3. Ahead.tickNext \in Tick /\ AheadPrice \in Price
  BY <1>2, PricesInOrder DEF NextFits, AheadPrice
<1>4. \A p \in Price : p \in Int
  BY PricesInOrder
<1>5. AheadPrice \in Int /\ call.limit \in Int /\ state.sqrtPrice \in Int
  BY <1>1, <1>3, <1>4
<1>6. CASE call.zeroForOne
  <2>1. state.tick \in Tick /\ Ahead.tickNext <= state.tick
    BY <1>2, <1>6, TickAhead DEF NextFits
  <2>2. AheadPrice <= SqrtRatio[state.tick] /\ SqrtRatio[state.tick] \in Int
    BY <1>3, <2>1, PricesInOrder DEF AheadPrice
  <2>3. SqrtRatio[state.tick] <= state.sqrtPrice
    BY <1>1, <2>1, PricesInOrder DEF Holds, Tick
  <2>4. AheadPrice <= state.sqrtPrice
    BY <1>5, <2>2, <2>3
  <2> QED BY <1>1, <1>3, <1>5, <1>6, <2>4 DEF Target
<1>7. CASE ~call.zeroForOne
  <2>1. state.tick < MaxTick /\ Ahead.tickNext > state.tick
    BY <1>2, <1>7, TickAhead DEF NextFits
  <2>2. state.tick + 1 \in Tick /\ state.tick + 1 <= Ahead.tickNext
    BY <1>1, <1>3, <2>1, PricesInOrder DEF Ticks, Tick
  <2>3. SqrtRatio[state.tick + 1] <= AheadPrice /\ SqrtRatio[state.tick + 1] \in Int
    BY <1>3, <2>2, PricesInOrder DEF AheadPrice
  <2>4. state.sqrtPrice <= SqrtRatio[state.tick + 1]
    BY <1>1, <2>1 DEF Holds
  <2>5. state.sqrtPrice <= AheadPrice
    BY <1>5, <2>3, <2>4
  <2> QED BY <1>1, <1>3, <1>5, <1>7, <2>5 DEF Target
<1> QED BY <1>1, <1>6, <1>7

(* What a step takes for its arguments is what ComputeSwapStep relies on.    *)
LEMMA StepIsPrepared ==
  ASSUME PoolInv, pc = "loop", ~AtEnd
  PROVE  StepArguments(state.sqrtPrice, Target(AheadPrice), state.liquidity, state.remaining,
                       pool.fee, call.zeroForOne, call.exactIn)
<1>1. /\ book \in Books /\ call.zeroForOne \in BOOLEAN /\ call.exactIn \in BOOLEAN
      /\ state.sqrtPrice \in Price /\ state.tick \in Ticks
      /\ state.liquidity = ActiveLiquidity(state.tick)
      /\ state.remaining \in 0 .. Word-1 /\ pool.fee \in 0 .. MaxFee-1
  BY DEF PoolInv, PoolType, WalkFits, Active
<1>2. Liquid(state.liquidity)
  BY <1>1, ActiveIsLiquid
<1>3. state.sqrtPrice \in PriceWord /\ Target(AheadPrice) \in PriceWord
  BY <1>1, TargetIsAhead, PricesInOrder
<1>4. IF call.zeroForOne THEN Target(AheadPrice) <= state.sqrtPrice
      ELSE state.sqrtPrice <= Target(AheadPrice)
  BY TargetIsAhead
<1> QED BY <1>1, <1>2, <1>3, <1>4 DEF StepArguments

(* A step ends between its price and the tick and limit ahead, and moves     *)
(* amounts.                                                                  *)
LEMMA StepMoves ==
  ASSUME PoolInv, pc = "loop", ~AtEnd
  PROVE  /\ Taken.next \in Price
         /\ Taken.in \in Nat /\ Taken.out \in Nat
         /\ call.zeroForOne => /\ AheadPrice <= Taken.next /\ call.limit <= Taken.next
                               /\ Taken.next <= state.sqrtPrice
         /\ ~call.zeroForOne => /\ Taken.next <= AheadPrice /\ Taken.next <= call.limit
                                /\ state.sqrtPrice <= Taken.next
<1> DEFINE target == Target(AheadPrice)
<1>1. /\ call.zeroForOne \in BOOLEAN /\ call.limit \in Price /\ state.sqrtPrice \in Price
  BY DEF PoolInv, PoolType, WalkFits, Active
<1>2. /\ OnTheWay(state.sqrtPrice, Taken.next, target, call.zeroForOne)
      /\ IsMove(Taken, state.sqrtPrice, state.liquidity, call.zeroForOne)
  BY StepIsPrepared, StepIsAMove DEF Taken
<1>3. /\ target \in Price /\ AheadPrice \in Price
      /\ call.zeroForOne => /\ AheadPrice <= target /\ call.limit <= target
      /\ ~call.zeroForOne => /\ target <= AheadPrice /\ target <= call.limit
  BY TargetIsAhead
<1> HIDE DEF target
<1>4. \A p \in Price : p \in Int /\ SqrtRatio[MinTick] <= p /\ p <= SqrtRatio[MaxTick]
  BY PricesInOrder
<1>5. Taken.next \in Int /\ SqrtRatio[MinTick] \in Int /\ SqrtRatio[MaxTick] \in Int
  BY <1>2, ScaleAssumption, PricesInOrder DEF OnTheWay, PriceWord, Tick
<1>6. /\ call.zeroForOne => target <= Taken.next /\ Taken.next <= state.sqrtPrice
      /\ ~call.zeroForOne => state.sqrtPrice <= Taken.next /\ Taken.next <= target
  BY <1>2 DEF OnTheWay
<1>7. /\ target \in Int /\ AheadPrice \in Int /\ call.limit \in Int /\ state.sqrtPrice \in Int
      /\ SqrtRatio[MinTick] <= target /\ target <= SqrtRatio[MaxTick]
      /\ SqrtRatio[MinTick] <= state.sqrtPrice /\ state.sqrtPrice <= SqrtRatio[MaxTick]
  BY <1>1, <1>3, <1>4
<1>8. SqrtRatio[MinTick] <= Taken.next /\ Taken.next <= SqrtRatio[MaxTick]
  BY <1>1, <1>5, <1>6, <1>7
<1>9. Taken.next \in Price
  BY <1>5, <1>8 DEF Price
<1> QED BY <1>2, <1>3, <1>5, <1>6, <1>7, <1>9 DEF IsMove

(* An amount and its product with the fee fit a word. *)
LEMMA AmountFits ==
  ASSUME NEW a \in Amounts
  PROVE  a \in Nat \ {0} /\ a < Word /\ a * MaxFee < Word
<1>1. a \in Nat \ {0} /\ a * MaxFee < Word
  BY PoolAssumption
<1>2. 1 * a <= MaxFee * a
  BY <1>1, ScaleAssumption, TimesMonotonic
<1>3. MaxFee * a = a * MaxFee /\ a * MaxFee \in Int
  BY <1>1, ScaleAssumption
<1> QED BY <1>1, <1>2, <1>3, ScaleAssumption

(* A step takes no more than what is left of an input, and gives no more     *)
(* than what is left of an output that the calculator reads as it is meant.  *)
LEMMA StepPays ==
  ASSUME PoolInv, pc = "loop", ~AtEnd
  PROVE  /\ Taken.fee \in Nat
         /\ call.exactIn => Taken.in + Taken.fee <= state.remaining
         /\ ~call.exactIn /\ ~aliased => Taken.out <= call.amount - paid.out
<1> DEFINE p == state.sqrtPrice  target == Target(AheadPrice)  l == state.liquidity
           remaining == state.remaining  fee == pool.fee  left == call.zeroForOne
<1>1. /\ call.exactIn \in BOOLEAN /\ call.amount \in Amounts /\ remaining \in 0 .. Word-1
      /\ paid.in \in Nat /\ paid.out \in Nat /\ remaining # 0 /\ fee \in 0 .. MaxFee-1
      /\ call.exactIn => paid.in + remaining = call.amount
      /\ ~call.exactIn /\ ~aliased =>
           paid.out <= call.amount /\ remaining = Negated(call.amount - paid.out)
  BY DEF PoolInv, PoolType, WalkFits, AmountsFit, Active, AtEnd
<1>2. /\ call.amount \in Nat \ {0} /\ call.amount < Word /\ call.amount * MaxFee < Word
      /\ MaxFee \in Nat /\ Word \in Nat
  BY <1>1, AmountFits, ScaleAssumption
<1>3. StepArguments(p, target, l, remaining, fee, left, call.exactIn)
  BY StepIsPrepared
<1>4. CASE call.exactIn
  <2>1. call.exactIn = TRUE
    BY <1>1, <1>4
  <2>2. StepArguments(p, target, l, remaining, fee, left, TRUE)
    BY <1>3, <2>1
  <2>3. remaining * MaxFee < Word
    <3>1. remaining \in Nat /\ remaining <= call.amount
      BY <1>1, <1>2, <1>4
    <3> HIDE DEF remaining
    <3>2. remaining * MaxFee <= call.amount * MaxFee
      BY <1>2, <3>1, TimesMonotonic
    <3>3. remaining * MaxFee \in Int /\ call.amount * MaxFee \in Int
      BY <1>2, <3>1
    <3> QED BY <1>2, <3>2, <3>3
  <2> DEFINE s == ComputeSwapStep(p, target, l, remaining, fee, left, TRUE)
  <2> HIDE DEF p, target, l, remaining, fee, left
  <2>4. Uses(s, target, remaining)
    BY <2>2, <2>3, InputIsUsed
  <2>5. Taken = s
    BY <2>1 DEF Taken, p, target, l, remaining, fee, left
  <2> HIDE DEF s
  <2>6. Uses(Taken, target, remaining)
    BY <2>4, <2>5
  <2> QED BY <1>4, <2>6 DEF Uses, remaining
<1>5. CASE ~call.exactIn
  <2>1. call.exactIn = FALSE
    BY <1>1, <1>5
  <2> DEFINE s == ComputeSwapStep(p, target, l, remaining, fee, left, FALSE)
  <2>2. StepArguments(p, target, l, remaining, fee, left, FALSE)
    BY <1>3, <2>1
  <2>3. Taken = s
    BY <2>1 DEF Taken
  <2>4. TakesShare(Taken, fee)
    <3> HIDE DEF p, target, l, remaining, fee, left
    <3>1. TakesShare(s, fee)
      BY <2>2, FeeOfOutput
    <3> HIDE DEF s
    <3> QED BY <2>3, <3>1
  <2>5. Taken.fee \in Nat
    <3>1. Taken.in \in Nat
      BY StepMoves
    <3>2. FeeShare(Taken.in, fee) \in Nat
      BY <1>1, <3>1, FeeIsNatural
    <3> QED BY <2>4, <3>2 DEF TakesShare
  <2>6. ASSUME ~aliased PROVE Taken.out <= call.amount - paid.out
    <3> DEFINE x == call.amount - paid.out
    <3>1. x \in Nat /\ x < Word /\ remaining = Negated(x)
      BY <1>1, <1>2, <1>5, <2>6
    <3>2. x # 0
      <4> SUFFICES ASSUME x = 0 PROVE FALSE
        OBVIOUS
      <4>1. Negated(0) = 0
        BY WordsThatFit, ScaleAssumption DEF Negated
      <4> QED BY <1>1, <3>1, <4>1
    <3> HIDE DEF x, p, target, l, fee, left
    <3> DEFINE o == ComputeSwapStep(p, target, l, Negated(x), fee, left, FALSE)
    <3>3. StepArguments(p, target, l, Negated(x), fee, left, FALSE)
      BY <2>2, <3>1
    <3>4. Delivers(o, target, x)
      BY <3>1, <3>2, <3>3, OutputIsDelivered
    <3>5. Taken = o
      BY <2>3, <3>1
    <3> HIDE DEF o
    <3>6. Delivers(Taken, target, x)
      BY <3>4, <3>5
    <3> QED BY <3>6 DEF Delivers, x
  <2> QED BY <1>5, <2>5, <2>6
<1> QED BY <1>1, <1>4, <1>5
-----------------------------------------------------------------------------
(* Words stay words.                                                         *)
LEMMA WordsAreWords ==
  ASSUME NEW x \in Int, NEW y \in Int
  PROVE  /\ Minus(x, y) \in 0 .. Word-1 /\ Plus(x, y) \in 0 .. Word-1
         /\ Negated(x) \in 0 .. Word-1
         /\ Minus(x, y) \in Int /\ Plus(x, y) \in Int /\ Negated(x) \in Int
<1>1. Word \in Nat /\ x - y \in Int /\ x + y \in Int /\ -x \in Int
  BY ScaleAssumption
<1>2. \A z \in Int : z % Word \in 0 .. Word-1
  <2> TAKE z \in Int
  <2>1. z % Word \in Nat /\ z % Word < Word
    BY WordsInRange
  <2> QED BY <1>1, <2>1
<1> QED BY <1>1, <1>2 DEF Minus, Plus, Negated

(* A step of the loop up to its callback. *)
LEMMA AdvanceKeeps ==
  ASSUME PoolInv, Advance
  PROVE  PoolInv'
<1>1. pc = "loop" /\ ~AtEnd /\ pc' = "moved" /\ aliased' = (aliased \/ call.exactIn)
      /\ UNCHANGED <<book, pool, call, crossed>>
  BY DEF Advance
<1>2. /\ step' = [start |-> state.sqrtPrice, tickNext |-> Ahead.tickNext,
                  initialized |-> Ahead.initialized, priceNext |-> AheadPrice]
      /\ state' = [state EXCEPT
           !.sqrtPrice = Taken.next,
           !.remaining = IF call.exactIn THEN Minus(RemainingRead, Plus(Taken.in, Taken.fee))
                         ELSE Plus(RemainingRead, Taken.out),
           !.calculated = IF call.exactIn THEN Minus(@, Taken.out)
                          ELSE Plus(@, Plus(Taken.in, Taken.fee))]
      /\ paid' = [in |-> paid.in + Taken.in + Taken.fee, out |-> paid.out + Taken.out]
  BY DEF Advance, Ahead, AheadPrice, Taken
<1>3. PoolType /\ PoolFits
  BY DEF PoolInv
<1>4. /\ Taken.next \in Price /\ Taken.in \in Nat /\ Taken.out \in Nat /\ Taken.fee \in Nat
  BY <1>1, StepMoves, StepPays
<1>5. NextFits(Ahead, state.tick, call.zeroForOne)
  BY <1>1, TickAhead DEF Ahead
<1>6. Ahead.tickNext \in Tick /\ Ahead.tickNext \in Int /\ AheadPrice \in Price /\ AheadPrice \in Int
      /\ Ahead.initialized \in BOOLEAN
  BY <1>5, PricesInOrder DEF NextFits, AheadPrice, Tick
<1>7. /\ state.remaining \in 0 .. Word-1 /\ state.calculated \in Int /\ state.sqrtPrice \in Int
      /\ call.exactIn \in BOOLEAN /\ aliased \in BOOLEAN /\ Word \in Nat
      /\ paid.in \in Nat /\ paid.out \in Nat
  BY <1>3, ScaleAssumption DEF PoolType
<1>8. /\ RemainingRead \in Int
      /\ call.exactIn \/ ~aliased => RemainingRead = state.remaining
  <2>1. state.remaining \in Int
    BY <1>7
  <2>2. Negated(state.remaining) \in Int
    BY <2>1, WordsAreWords
  <2> QED BY <1>7, <2>1, <2>2 DEF RemainingRead
<1>9. /\ state'.sqrtPrice = Taken.next /\ state'.tick = state.tick
      /\ state'.liquidity = state.liquidity
      /\ state'.remaining = IF call.exactIn THEN Minus(RemainingRead, Plus(Taken.in, Taken.fee))
                            ELSE Plus(RemainingRead, Taken.out)
  BY <1>2, <1>3 DEF PoolType
<1>10. PoolType'
  <2> DEFINE in == Taken.in  fee == Taken.fee  out == Taken.out  taken == Plus(in, fee)
  <2>0. in \in Int /\ fee \in Int /\ out \in Int
    BY <1>4
  <2> HIDE DEF in, fee, out
  <2>1. taken \in Int
    BY <2>0, WordsAreWords
  <2> HIDE DEF taken
  <2>2. /\ Minus(RemainingRead, taken) \in 0 .. Word-1
        /\ Plus(RemainingRead, out) \in 0 .. Word-1
        /\ Minus(state.calculated, out) \in Int
        /\ Plus(state.calculated, taken) \in Int
    BY <1>7, <1>8, <2>0, <2>1, WordsAreWords
  <2>3. Taken.next \in Int
    BY <1>4, PricesInOrder
  <2>4. state' \in [remaining : 0 .. Word-1, calculated : Int, sqrtPrice : Int, tick : Int,
                    liquidity : Int]
    BY <1>2, <1>3, <2>2, <2>3 DEF PoolType, in, fee, out, taken
  <2>5. step' \in [start : Int, tickNext : Int, initialized : BOOLEAN, priceNext : Int]
    BY <1>2, <1>6, <1>7
  <2>6. paid' \in [in : Nat, out : Nat]
    BY <1>2, <1>4, <1>7
  <2>7. aliased' \in BOOLEAN
    BY <1>1, <1>7
  <2> QED BY <1>1, <1>3, <2>4, <2>5, <2>6, <2>7 DEF PoolType, States
<1>11. PoolFits'
  BY <1>1, <1>3 DEF PoolFits, ActiveLiquidity, Holds
<1>12. WalkFits'
  <2>1. /\ call.amount \in Amounts /\ state.tick \in Ticks
        /\ state.liquidity = ActiveLiquidity(state.tick)
        /\ call.zeroForOne \in BOOLEAN
        /\ IF call.zeroForOne THEN state.sqrtPrice <= pool.sqrtPrice
           ELSE pool.sqrtPrice <= state.sqrtPrice
    BY <1>1, <1>3 DEF PoolInv, WalkFits, Active, PoolType
  <2>2. state.sqrtPrice \in Int /\ pool.sqrtPrice \in Int /\ Taken.next \in Int
    BY <1>3, <1>4, PricesInOrder DEF PoolType
  <2>3. IF call.zeroForOne THEN call.limit <= Taken.next /\ Taken.next <= pool.sqrtPrice
        ELSE pool.sqrtPrice <= Taken.next /\ Taken.next <= call.limit
    BY <1>1, <2>1, <2>2, StepMoves
  <2>4. state'.liquidity = book.active[state'.tick] /\ state'.tick \in Ticks
    BY <1>1, <1>9, <2>1 DEF ActiveLiquidity
  <2> QED BY <1>1, <1>4, <1>9, <2>1, <2>3, <2>4 DEF WalkFits, ActiveLiquidity
<1>13. BetweenSteps'
  BY <1>1 DEF BetweenSteps
<1>14. MoveFits'
  <2>1. /\ step'.start = state.sqrtPrice /\ step'.tickNext = Ahead.tickNext
        /\ step'.priceNext = AheadPrice /\ (step'.initialized <=> Ahead.initialized)
    BY <1>2, <1>6
  <2>2. state.sqrtPrice \in Price /\ Holds(state.tick, state.sqrtPrice)
    BY <1>1 DEF PoolInv, WalkFits, BetweenSteps, Active
  <2>3. /\ step'.tickNext \in Tick /\ step'.priceNext = SqrtRatio[step'.tickNext]
        /\ step'.initialized <=> step'.tickNext \in book.listed
        /\ step'.start \in Price /\ Holds(state.tick, step'.start)
    BY <1>5, <1>6, <2>1, <2>2 DEF NextFits, AheadPrice
  <2>4. call.zeroForOne =>
          /\ step'.tickNext <= state.tick /\ Unlisted(step'.tickNext + 1, state.tick)
          /\ step'.priceNext <= Taken.next /\ Taken.next <= step'.start
          /\ ~step'.initialized => step'.tickNext = MinTick
    BY <1>1, <1>5, <2>1, StepMoves DEF NextFits
  <2>5. ~call.zeroForOne =>
          /\ step'.tickNext > state.tick /\ Unlisted(state.tick + 1, step'.tickNext - 1)
          /\ step'.start <= Taken.next /\ Taken.next <= step'.priceNext
          /\ ~step'.initialized => step'.tickNext = MaxTick
    BY <1>1, <1>5, <2>1, StepMoves DEF NextFits
  <2> QED BY <1>1, <1>9, <2>3, <2>4, <2>5 DEF MoveFits, Holds, Unlisted
<1>15. AmountsFit'
  <2>1. /\ call.exactIn => paid.in + state.remaining = call.amount
        /\ ~call.exactIn /\ ~aliased =>
             paid.out <= call.amount /\ state.remaining = Negated(call.amount - paid.out)
        /\ call.amount \in Amounts
    BY <1>1 DEF PoolInv, AmountsFit, Active, WalkFits
  <2>2. call.amount \in Nat /\ call.amount < Word
    BY <2>1, AmountFits
  <2>3. ASSUME call.exactIn PROVE paid'.in + state'.remaining = call.amount
    <3>1. Taken.in + Taken.fee <= state.remaining
      BY <1>1, <2>3, StepPays
    <3>2. Plus(Taken.in, Taken.fee) = Taken.in + Taken.fee
      BY <1>4, <1>7, <3>1, WordsThatFit DEF Plus
    <3>3. Minus(state.remaining, Taken.in + Taken.fee) = state.remaining - (Taken.in + Taken.fee)
      <4>1. /\ state.remaining - (Taken.in + Taken.fee) \in Nat
            /\ state.remaining - (Taken.in + Taken.fee) < Word
        BY <1>4, <1>7, <3>1
      <4> QED BY <4>1, WordsThatFit DEF Minus
    <3>4. state'.remaining = state.remaining - (Taken.in + Taken.fee)
      BY <1>8, <1>9, <2>3, <3>2, <3>3
    <3>5. paid'.in = paid.in + Taken.in + Taken.fee
      BY <1>2
    <3> QED BY <1>4, <1>7, <2>1, <2>2, <2>3, <3>4, <3>5
  <2>4. ASSUME ~call.exactIn, ~aliased
        PROVE  /\ paid'.out <= call.amount
               /\ state'.remaining = Negated(call.amount - paid'.out)
    <3> DEFINE x == call.amount - paid.out  y == x - Taken.out
    <3>1. Taken.out <= x
      BY <1>1, <2>4, StepPays
    <3>2. x \in Nat /\ x < Word /\ y \in Nat /\ y < Word
      BY <1>4, <1>7, <2>1, <2>2, <2>4, <3>1
    <3>3. paid'.out = paid.out + Taken.out
      BY <1>2
    <3>4. paid'.out <= call.amount /\ call.amount - paid'.out = y
      BY <1>4, <1>7, <2>2, <3>1, <3>3
    <3>5. state'.remaining = Plus(Negated(x), Taken.out)
      BY <1>8, <1>9, <2>1, <2>4
    <3> HIDE DEF x
    <3>6. Plus(Negated(x), Taken.out) = Negated(y)
      <4>1. Negated(x) = IF x = 0 THEN 0 ELSE Word - x
        BY <3>2, ScaleAssumption, SMTT(30) DEF Negated
      <4>2. Negated(y) = IF y = 0 THEN 0 ELSE Word - y
        <5> HIDE DEF y
        <5> QED BY <3>2, ScaleAssumption, SMTT(30) DEF Negated
      <4>3. Taken.out \in Nat /\ Taken.out <= x /\ y = x - Taken.out
        BY <1>4, <3>1 DEF x
      <4> HIDE DEF y
      <4>4. CASE x = 0
        <5>1. Negated(x) + Taken.out = 0 /\ y = 0
          BY <3>2, <4>1, <4>3, <4>4
        <5>2. 0 % Word = 0
          BY WordsThatFit, ScaleAssumption
        <5> QED BY <4>2, <5>1, <5>2 DEF Plus
      <4>5. CASE x # 0 /\ y = 0
        <5>1. Negated(x) + Taken.out = Word
          BY <1>7, <3>2, <4>1, <4>3, <4>5
        <5>2. Word % Word = 0
          BY ScaleAssumption, SMTT(30)
        <5> QED BY <4>2, <4>5, <5>1, <5>2 DEF Plus
      <4>6. CASE x # 0 /\ y # 0
        <5>1. Negated(x) + Taken.out = Word - y
          BY <1>7, <3>2, <4>1, <4>3, <4>6
        <5>2. Word - y \in Nat /\ Word - y < Word
          BY <1>7, <3>2, <4>6
        <5> QED BY <4>2, <4>6, <5>1, <5>2, WordsThatFit DEF Plus
      <4> QED BY <4>4, <4>5, <4>6
    <3> QED BY <3>4, <3>5, <3>6
  <2>5. ~aliased' => ~aliased
    BY <1>1
  <2> QED BY <1>1, <2>3, <2>4, <2>5 DEF AmountsFit
<1> QED BY <1>10, <1>11, <1>12, <1>13, <1>14, <1>15 DEF PoolInv

(* A tick that is reached, on its price: what lies on its two sides.         *)
LEMMA ReachedTick ==
  ASSUME PoolInv, pc = "moved", state.sqrtPrice = step.priceNext
  PROVE  /\ TickAfter(step.tickNext, call.zeroForOne) \in Ticks
         /\ Holds(TickAfter(step.tickNext, call.zeroForOne), state.sqrtPrice)
         /\ step.initialized =>
              CrossedLiquidity(state.liquidity, book.net[step.tickNext], call.zeroForOne)
                = ActiveLiquidity(TickAfter(step.tickNext, call.zeroForOne))
         /\ ~step.initialized =>
              state.liquidity = ActiveLiquidity(TickAfter(step.tickNext, call.zeroForOne))
<1> DEFINE t == step.tickNext
<1>1. /\ book \in Books /\ t \in Tick /\ state.sqrtPrice = SqrtRatio[t] /\ state.tick \in Ticks
      /\ state.liquidity = ActiveLiquidity(state.tick)
      /\ step.initialized <=> t \in book.listed
      /\ call.zeroForOne => /\ t <= state.tick /\ Unlisted(t + 1, state.tick)
      /\ ~call.zeroForOne => /\ t > state.tick /\ Unlisted(state.tick + 1, t - 1)
      /\ call.zeroForOne \in BOOLEAN
  BY DEF PoolInv, PoolType, WalkFits, MoveFits, Active
<1> HIDE DEF t
<1>2. /\ MinTick \in Int /\ MaxTick \in Int /\ t \in Int /\ state.tick \in Int
      /\ MinTick <= t /\ t <= MaxTick /\ t \in Ticks /\ t - 1 \in Ticks
  BY <1>1, PricesInOrder DEF Tick, Ticks
<1>3. ActiveLiquidity(t) \in Int /\ ActiveLiquidity(t-1) \in Int
  BY <1>1, <1>2, ActiveIsLiquid
<1>4. /\ t \in book.listed => ActiveLiquidity(t) = ActiveLiquidity(t-1) + book.net[t]
                             /\ book.net[t] \in Int
      /\ t \notin book.listed => ActiveLiquidity(t) = ActiveLiquidity(t-1)
  <2>1. CASE t \in book.listed
    <3>1. book.net[t] \in Int
      BY <1>1, <2>1, PoolAssumption
    <3>2. ActiveLiquidity(t) = ActiveLiquidity(t-1) + book.net[t]
      BY <1>1, <2>1, ActiveAcross
    <3> QED BY <2>1, <3>1, <3>2
  <2>2. CASE t \notin book.listed
    <3>1. \A v \in Tick : v \notin book.listed => book.active[v] = book.active[v-1]
      BY <1>1, BooksAssumption
    <3> QED BY <1>1, <2>2, <3>1 DEF ActiveLiquidity
  <2> QED BY <2>1, <2>2
<1>5. CASE call.zeroForOne
  <2>1. TickAfter(t, call.zeroForOne) = t - 1
    BY <1>5 DEF TickAfter
  <2>2. Holds(t - 1, state.sqrtPrice)
    <3>1. ASSUME t - 1 >= MinTick PROVE SqrtRatio[t-1] <= SqrtRatio[t]
      <4>1. t - 1 \in Tick /\ t - 1 <= t
        BY <1>2, <3>1 DEF Tick
      <4> QED BY <1>1, <4>1, PricesInOrder
    <3>2. SqrtRatio[t - 1 + 1] = SqrtRatio[t] /\ SqrtRatio[t] \in Int
      BY <1>1, <1>2, PricesInOrder
    <3> QED BY <1>1, <3>1, <3>2 DEF Holds
  <2>3. state.liquidity = ActiveLiquidity(t)
    BY <1>1, <1>2, <1>5, ActiveIsConstant
  <2>4. CrossedLiquidity(state.liquidity, book.net[t], call.zeroForOne) = state.liquidity - book.net[t]
    BY <1>5 DEF CrossedLiquidity
  <2>5. t \in book.listed => state.liquidity - book.net[t] = ActiveLiquidity(t-1)
    BY <1>3, <1>4, <2>3
  <2> QED BY <1>1, <1>2, <1>4, <2>1, <2>2, <2>3, <2>4, <2>5 DEF t
<1>6. CASE ~call.zeroForOne
  <2>1. TickAfter(t, call.zeroForOne) = t
    BY <1>6 DEF TickAfter
  <2>2. Holds(t, state.sqrtPrice)
    <3>1. ASSUME t < MaxTick PROVE SqrtRatio[t] <= SqrtRatio[t+1]
      <4>1. t + 1 \in Tick /\ t <= t + 1
        BY <1>2, <3>1 DEF Tick
      <4> QED BY <1>1, <4>1, PricesInOrder
    <3>2. SqrtRatio[t] \in Int
      BY <1>1, PricesInOrder
    <3> QED BY <1>1, <3>1, <3>2 DEF Holds
  <2>3. state.liquidity = ActiveLiquidity(t-1)
    <3>1. state.tick <= t - 1 /\ Unlisted(state.tick + 1, t - 1)
      BY <1>1, <1>2, <1>6
    <3> QED BY <1>1, <1>2, <3>1, ActiveIsConstant
  <2>4. CrossedLiquidity(state.liquidity, book.net[t], call.zeroForOne) = state.liquidity + book.net[t]
    BY <1>6 DEF CrossedLiquidity
  <2>5. t \in book.listed => state.liquidity + book.net[t] = ActiveLiquidity(t)
    BY <1>3, <1>4, <2>3
  <2> QED BY <1>1, <1>2, <1>4, <2>1, <2>2, <2>3, <2>4, <2>5 DEF t
<1> QED BY <1>1, <1>5, <1>6

(* A swap that only moves to another tick, with another liquidity, keeps the *)
(* rest.                                                                     *)
LEMMA MovedOn ==
  ASSUME PoolInv, pc = "moved", NEW t \in Ticks, NEW l \in Int, pc' \in {"loop", "failed"},
         state' = [state EXCEPT !.tick = t, !.liquidity = l],
         crossed' \in Nat,
         UNCHANGED <<book, pool, call, step, aliased, paid>>,
         pc' = "loop" => l = ActiveLiquidity(t) /\ Holds(t, state.sqrtPrice)
  PROVE  PoolInv'
<1>1. /\ state'.tick = t /\ state'.liquidity = l /\ state'.sqrtPrice = state.sqrtPrice
      /\ state'.remaining = state.remaining
  BY DEF PoolInv, PoolType
<1>2. PoolType'
  <2>1. t \in Int
    BY PricesInOrder DEF Ticks
  <2>2. state' \in [remaining : 0 .. Word-1, calculated : Int, sqrtPrice : Int, tick : Int,
                    liquidity : Int]
    BY <2>1 DEF PoolInv, PoolType
  <2> QED BY <2>2 DEF PoolInv, PoolType, States
<1>3. PoolFits'
  BY DEF PoolInv, PoolFits, ActiveLiquidity, Holds
<1>4. WalkFits'
  BY <1>1 DEF PoolInv, WalkFits, ActiveLiquidity, Active
<1>5. BetweenSteps'
  BY <1>1 DEF BetweenSteps, Holds
<1>6. MoveFits'
  BY DEF MoveFits
<1>7. AmountsFit'
  BY <1>1 DEF PoolInv, AmountsFit, Active
<1> QED BY <1>2, <1>3, <1>4, <1>5, <1>6, <1>7 DEF PoolInv

(* Crossing an initialised tick. *)
LEMMA CrossKeeps ==
  ASSUME PoolInv, Cross
  PROVE  PoolInv'
<1> DEFINE l == CrossedLiquidity(state.liquidity, book.net[step.tickNext], call.zeroForOne)
           t == TickAfter(step.tickNext, call.zeroForOne)
<1>1. /\ pc = "moved" /\ state.sqrtPrice = step.priceNext /\ step.initialized
      /\ crossed' = crossed + 1
      /\ UNCHANGED <<book, pool, call, step, aliased, paid>>
  BY DEF Cross
<1>2. \/ state' = [state EXCEPT !.liquidity = l] /\ pc' = "failed"
      \/ state' = [state EXCEPT !.liquidity = l, !.tick = t] /\ pc' = "loop"
  BY DEF Cross
<1>3. /\ book \in Books /\ state.tick \in Ticks /\ crossed \in Nat
  BY <1>1 DEF PoolInv, PoolType, WalkFits, Active
<1>4. l = ActiveLiquidity(t) /\ t \in Ticks /\ Holds(t, state.sqrtPrice)
  BY <1>1, ReachedTick
<1>5. l \in Int /\ crossed' \in Nat
  BY <1>1, <1>3, <1>4, ActiveIsLiquid
<1> HIDE DEF l, t
<1>6. CASE state' = [state EXCEPT !.liquidity = l] /\ pc' = "failed"
  <2>1. state' = [state EXCEPT !.tick = state.tick, !.liquidity = l]
    BY <1>6 DEF PoolInv, PoolType
  <2> QED BY <1>1, <1>3, <1>5, <1>6, <2>1, MovedOn
<1>7. CASE state' = [state EXCEPT !.liquidity = l, !.tick = t] /\ pc' = "loop"
  <2>1. state' = [state EXCEPT !.tick = t, !.liquidity = l]
    BY <1>7 DEF PoolInv, PoolType
  <2> QED BY <1>1, <1>4, <1>5, <1>7, <2>1, MovedOn
<1> QED BY <1>2, <1>6, <1>7

(* Reaching a tick that is not initialised: the end of the range. *)
LEMMA ReachEndKeeps ==
  ASSUME PoolInv, ReachEnd
  PROVE  PoolInv'
<1> DEFINE l == state.liquidity  t == TickAfter(step.tickNext, call.zeroForOne)
<1>1. /\ pc = "moved" /\ state.sqrtPrice = step.priceNext /\ ~step.initialized
      /\ state' = [state EXCEPT !.tick = t] /\ pc' = "loop"
      /\ UNCHANGED <<book, pool, call, step, crossed, aliased, paid>>
  BY DEF ReachEnd
<1>2. l = ActiveLiquidity(t) /\ t \in Ticks /\ Holds(t, state.sqrtPrice)
  BY <1>1, ReachedTick
<1>3. l \in Int /\ crossed \in Nat
  BY DEF PoolInv, PoolType
<1> HIDE DEF t
<1>4. state' = [state EXCEPT !.tick = t, !.liquidity = l]
  BY <1>1 DEF PoolInv, PoolType
<1> HIDE DEF l
<1> QED BY <1>1, <1>2, <1>3, <1>4, MovedOn

(* A step that stops before its tick. *)
LEMMA StopInsideKeeps ==
  ASSUME PoolInv, StopInside
  PROVE  PoolInv'
<1> DEFINE l == state.liquidity  t == TickInside  n == step.tickNext  p == state.sqrtPrice
<1>1. /\ pc = "moved" /\ p # step.priceNext
      /\ state' = [state EXCEPT !.tick = t] /\ pc' = "loop"
      /\ UNCHANGED <<book, pool, call, step, crossed, aliased, paid>>
  BY DEF StopInside
<1>2. l \in Int /\ crossed \in Nat /\ book \in Books /\ call.zeroForOne \in BOOLEAN
  BY DEF PoolInv, PoolType
<1>3. /\ n \in Tick /\ step.priceNext = SqrtRatio[n] /\ p \in Price /\ state.tick \in Ticks
      /\ step.start \in Price /\ Holds(state.tick, step.start)
      /\ l = ActiveLiquidity(state.tick)
      /\ call.zeroForOne => /\ n <= state.tick /\ Unlisted(n + 1, state.tick)
                            /\ SqrtRatio[n] <= p /\ p <= step.start
      /\ ~call.zeroForOne => /\ n > state.tick /\ Unlisted(state.tick + 1, n - 1)
                             /\ step.start <= p /\ p <= SqrtRatio[n]
  BY <1>1 DEF PoolInv, WalkFits, MoveFits, Active
<1>4. l = ActiveLiquidity(t) /\ t \in Ticks /\ Holds(t, p)
  <2>1. CASE p = step.start
    BY <1>3, <2>1 DEF TickInside
  <2>2. CASE p # step.start
    <3> DEFINE T == TickAtSqrtRatio(p)
    <3>1. t = T
      BY <2>2 DEF TickInside
    <3>2. /\ T \in Tick /\ SqrtRatio[T] <= p
          /\ T < MaxTick => p < SqrtRatio[T + 1]
      BY <1>3, TickOfPrice
    <3> HIDE DEF T, t, n, p, l
    <3>3. /\ MinTick \in Int /\ MaxTick \in Int /\ T \in Int /\ n \in Int /\ state.tick \in Int
          /\ MinTick <= T /\ T <= MaxTick /\ MinTick <= n /\ n <= MaxTick
          /\ MinTick - 1 <= state.tick /\ state.tick <= MaxTick
          /\ p \in Int /\ step.start \in Int /\ SqrtRatio[n] \in Int /\ SqrtRatio[T] \in Int
          /\ T \in Ticks
      <4>1. p \in Int /\ step.start \in Int /\ SqrtRatio[n] \in Int /\ SqrtRatio[T] \in Int
        BY <1>3, <3>2, PricesInOrder
      <4>2. MinTick \in Int /\ MaxTick \in Int
        BY PricesInOrder
      <4> QED BY <1>3, <3>2, <4>1, <4>2 DEF Tick, Ticks
    <3>4. Holds(T, p)
      <4>1. T < MaxTick => SqrtRatio[T+1] \in Int
        BY <3>3, PricesInOrder DEF Tick
      <4> QED BY <3>2, <3>3, <4>1 DEF Holds
    <3>5. CASE call.zeroForOne
      <4>1. SqrtRatio[n] < p /\ p < step.start
        BY <1>1, <1>3, <2>2, <3>3, <3>5
      <4>2. T >= n
        <5> SUFFICES ASSUME T < n PROVE FALSE
          BY <3>3
        <5>1. T + 1 \in Tick /\ T + 1 <= n /\ T < MaxTick
          BY <3>3 DEF Tick
        <5>2. SqrtRatio[T+1] <= SqrtRatio[n] /\ SqrtRatio[T+1] \in Int
          BY <1>3, <5>1, PricesInOrder
        <5> QED BY <3>2, <3>3, <4>1, <5>1, <5>2
      <4>3. T <= state.tick
        <5> SUFFICES ASSUME T > state.tick PROVE FALSE
          BY <3>3
        <5>1. state.tick + 1 \in Tick /\ state.tick + 1 <= T /\ state.tick < MaxTick
          BY <3>3 DEF Tick
        <5>2. SqrtRatio[state.tick + 1] <= SqrtRatio[T] /\ SqrtRatio[state.tick + 1] \in Int
          BY <3>2, <5>1, PricesInOrder
        <5>3. step.start <= SqrtRatio[state.tick + 1]
          BY <1>3, <5>1 DEF Holds
        <5> QED BY <3>2, <3>3, <4>1, <5>2, <5>3
      <4>4. Unlisted(T + 1, state.tick)
        BY <1>3, <3>3, <3>5, <4>2 DEF Unlisted
      <4>5. ActiveLiquidity(T) = ActiveLiquidity(state.tick)
        BY <1>2, <1>3, <3>3, <4>3, <4>4, ActiveIsConstant
      <4> QED BY <1>3, <3>1, <3>3, <3>4, <4>5
    <3>6. CASE ~call.zeroForOne
      <4>1. step.start < p /\ p < SqrtRatio[n]
        BY <1>1, <1>3, <2>2, <3>3, <3>6
      <4>2. T < n
        <5> SUFFICES ASSUME n <= T PROVE FALSE
          BY <3>3
        <5>1. SqrtRatio[n] <= SqrtRatio[T]
          BY <1>3, <3>2, PricesInOrder
        <5> QED BY <3>2, <3>3, <4>1, <5>1
      <4>3. state.tick <= T
        <5> SUFFICES ASSUME T < state.tick PROVE FALSE
          BY <3>3
        <5>1. state.tick \in Tick /\ T + 1 \in Tick /\ T + 1 <= state.tick /\ T < MaxTick
              /\ state.tick >= MinTick
          BY <3>3 DEF Tick
        <5>2. SqrtRatio[T+1] <= SqrtRatio[state.tick] /\ SqrtRatio[T+1] \in Int
              /\ SqrtRatio[state.tick] \in Int
          BY <5>1, PricesInOrder
        <5>3. SqrtRatio[state.tick] <= step.start
          BY <1>3, <5>1 DEF Holds
        <5> QED BY <3>2, <3>3, <4>1, <5>1, <5>2, <5>3
      <4>4. Unlisted(state.tick + 1, T)
        BY <1>3, <3>3, <3>6, <4>2 DEF Unlisted
      <4>5. ActiveLiquidity(T) = ActiveLiquidity(state.tick)
        BY <1>2, <1>3, <3>3, <4>3, <4>4, ActiveIsConstant
      <4> QED BY <1>3, <3>1, <3>3, <3>4, <4>5
    <3> QED BY <1>2, <3>5, <3>6
  <2> QED BY <2>1, <2>2
<1> HIDE DEF t
<1>5. state' = [state EXCEPT !.tick = t, !.liquidity = l]
  BY <1>1 DEF PoolInv, PoolType
<1> HIDE DEF l
<1> QED BY <1>1, <1>2, <1>4, <1>5, MovedOn DEF p

(* The state a swap starts with. *)
LEMMA StartSwapKeeps ==
  ASSUME PoolInv, StartSwap
  PROVE  PoolInv'
<1>1. PICK zeroForOne \in BOOLEAN, exactIn \in ExactInputs, amount \in Amounts :
        \E limit \in Limits \cup {DefaultLimit(zeroForOne)} :
          /\ IF zeroForOne THEN limit <= pool.sqrtPrice ELSE limit >= pool.sqrtPrice
          /\ Swap(zeroForOne, exactIn, amount, limit)
  BY DEF StartSwap
<1>2. PICK limit \in Limits \cup {DefaultLimit(zeroForOne)} :
        /\ IF zeroForOne THEN limit <= pool.sqrtPrice ELSE limit >= pool.sqrtPrice
        /\ Swap(zeroForOne, exactIn, amount, limit)
  BY <1>1
<1>3. exactIn \in BOOLEAN
  BY PoolAssumption
<1>4. amount \in Nat \ {0} /\ amount < Word /\ Word \in Nat
  BY AmountFits, ScaleAssumption
<1>5. limit \in Price
  <2>1. /\ MinTick \in Tick /\ MaxTick \in Tick /\ SqrtRatio[MinTick] < SqrtRatio[MaxTick]
        /\ SqrtRatio[MinTick] \in Int /\ SqrtRatio[MaxTick] \in Int
    BY PricesInOrder DEF Tick
  <2>2. DefaultLimit(zeroForOne) \in Price
    BY <2>1 DEF DefaultLimit, Price
  <2> QED BY <2>2, LimitsAssumption
<1>6. /\ pool.sqrtPrice \in Price /\ pool.tick \in Ticks /\ pool.liquidity \in Int
      /\ PoolType /\ PoolFits
  BY DEF PoolInv, PoolType
<1>7. limit \in Int /\ pool.sqrtPrice \in Int
  BY <1>5, <1>6, PricesInOrder
<1>8. Negated(amount) \in 0 .. Word-1
  BY <1>4, WordsAreWords
<1>9. /\ call' = [zeroForOne |-> zeroForOne, exactIn |-> exactIn, amount |-> amount, limit |-> limit]
      /\ state' = [remaining |-> IF exactIn THEN amount ELSE Negated(amount), calculated |-> 0,
                   sqrtPrice |-> pool.sqrtPrice, tick |-> pool.tick, liquidity |-> pool.liquidity]
      /\ crossed' = 0 /\ paid' = [in |-> 0, out |-> 0] /\ pc' = "loop"
      /\ UNCHANGED <<book, pool, step, aliased>>
  BY <1>2 DEF Swap
<1>10. PoolType'
  <2>1. pool.tick \in Int
    BY <1>6, PricesInOrder DEF Ticks
  <2>2. call' \in [zeroForOne : BOOLEAN, exactIn : BOOLEAN, amount : Nat, limit : Price]
    BY <1>3, <1>4, <1>5, <1>9
  <2>3. (IF exactIn THEN amount ELSE Negated(amount)) \in 0 .. Word-1
    BY <1>4, <1>8
  <2>4. state' \in [remaining : 0 .. Word-1, calculated : Int, sqrtPrice : Int, tick : Int,
                    liquidity : Int]
    BY <1>6, <1>7, <1>9, <2>1, <2>3
  <2>5. paid' \in [in : Nat, out : Nat]
    BY <1>9
  <2> QED BY <1>6, <1>9, <2>2, <2>4, <2>5 DEF PoolType, States
<1>11. PoolFits'
  BY <1>6, <1>9 DEF PoolFits, ActiveLiquidity, Holds
<1>12. /\ (call'.zeroForOne <=> zeroForOne) /\ (call'.exactIn <=> exactIn)
       /\ call'.amount = amount /\ call'.limit = limit
       /\ state'.sqrtPrice = pool.sqrtPrice /\ state'.tick = pool.tick
       /\ state'.liquidity = pool.liquidity
       /\ state'.remaining = IF exactIn THEN amount ELSE Negated(amount)
       /\ paid'.in = 0 /\ paid'.out = 0
  BY <1>3, <1>9
<1>13. WalkFits'
  <2>1. pool.liquidity = book.active[pool.tick]
    BY <1>6 DEF PoolFits, ActiveLiquidity
  <2>2. /\ call'.zeroForOne => call'.limit <= pool.sqrtPrice
        /\ ~call'.zeroForOne => pool.sqrtPrice <= call'.limit
    BY <1>2, <1>7, <1>12
  <2> QED BY <1>6, <1>7, <1>9, <1>12, <2>1, <2>2 DEF WalkFits, ActiveLiquidity
<1>14. BetweenSteps'
  BY <1>6, <1>9, <1>12 DEF BetweenSteps, PoolFits, Holds
<1>15. MoveFits'
  BY <1>9 DEF MoveFits
<1>16. AmountsFit'
  <2>1. 0 + amount = amount /\ amount - 0 = amount /\ 0 <= amount
    BY <1>4
  <2> QED BY <1>9, <1>12, <2>1 DEF AmountsFit
<1> QED BY <1>10, <1>11, <1>13, <1>14, <1>15, <1>16 DEF PoolInv

(* The steps that end a swap.                                                *)
LEMMA ReturnKeeps ==
  ASSUME PoolInv, Return
  PROVE  PoolInv'
<1>1. /\ pc = "loop" /\ pc' = "returned"
      /\ UNCHANGED <<book, pool, call, state, step, crossed, aliased, paid>>
  BY DEF Return
<1>2. PoolType' /\ PoolFits'
  BY <1>1 DEF PoolInv, PoolType, PoolFits, States, ActiveLiquidity, Holds
<1>3. WalkFits' /\ BetweenSteps'
  BY <1>1 DEF PoolInv, WalkFits, BetweenSteps, Active, ActiveLiquidity, Holds
<1>4. MoveFits' /\ AmountsFit'
  BY <1>1 DEF PoolInv, MoveFits, AmountsFit, Active
<1> QED BY <1>2, <1>3, <1>4 DEF PoolInv

(* Settling a swap changes nothing the invariant is about. *)
LEMMA SettleKeeps ==
  ASSUME PoolInv, pc' \in {"quoted", "idle"},
         UNCHANGED <<book, pool, call, state, step, crossed, aliased, paid>>
  PROVE  PoolInv'
BY DEF PoolInv, PoolType, PoolFits, WalkFits, BetweenSteps, MoveFits, AmountsFit, States, Active,
       ActiveLiquidity, Holds

(* A trade moves the pool to where its swap has ended. *)
LEMMA TradeKeeps ==
  ASSUME PoolInv, Trade
  PROVE  PoolInv'
<1>1. /\ pc = "returned" /\ pc' = "idle"
      /\ pool' = [pool EXCEPT !.sqrtPrice = state.sqrtPrice, !.tick = state.tick,
                              !.liquidity = state.liquidity]
      /\ UNCHANGED <<book, call, state, step, crossed, aliased, paid>>
  BY DEF Trade
<1>2. /\ state.sqrtPrice \in Price /\ state.tick \in Ticks /\ state.liquidity \in Int
      /\ state.liquidity = ActiveLiquidity(state.tick) /\ Holds(state.tick, state.sqrtPrice)
  BY <1>1 DEF PoolInv, PoolType, WalkFits, BetweenSteps, Active
<1>3. pool' \in [sqrtPrice : Price, tick : Ticks, liquidity : Int, fee : 0 .. MaxFee-1]
  BY <1>1, <1>2 DEF PoolInv, PoolType
<1>4. PoolType'
  BY <1>1, <1>3 DEF PoolInv, PoolType, States
<1>5. /\ pool'.sqrtPrice = state.sqrtPrice /\ pool'.tick = state.tick
      /\ pool'.liquidity = state.liquidity
  BY <1>1 DEF PoolInv, PoolType
<1>6. PoolFits'
  BY <1>1, <1>2, <1>5 DEF PoolFits, ActiveLiquidity, Holds
<1>7. WalkFits' /\ BetweenSteps' /\ MoveFits' /\ AmountsFit'
  BY <1>1 DEF WalkFits, BetweenSteps, MoveFits, AmountsFit, Active
<1> QED BY <1>4, <1>6, <1>7 DEF PoolInv

(* A new pool fits its book. *)
LEMMA PoolInvInitially == Init => PoolInv
<1> SUFFICES ASSUME Init PROVE PoolInv
  OBVIOUS
<1>1. book \in Books
  BY DEF Init
<1>2. PICK p \in Price \ {SqrtRatio[MinTick], SqrtRatio[MaxTick]} :
        pool = [sqrtPrice |-> p, tick |-> TickAtSqrtRatio(p),
                liquidity |-> ActiveLiquidity(TickAtSqrtRatio(p)), fee |-> Fees[book]]
  BY DEF Init
<1> DEFINE t == TickAtSqrtRatio(p)
<1>3. /\ t \in Tick /\ SqrtRatio[t] <= p /\ (t < MaxTick => p < SqrtRatio[t+1])
  BY TickOfPrice
<1>4. pool = [sqrtPrice |-> p, tick |-> t, liquidity |-> ActiveLiquidity(t), fee |-> Fees[book]]
  BY <1>2
<1> HIDE DEF t
<1>5. MinTick \in Int /\ MaxTick \in Int /\ t \in Ticks /\ p \in Int /\ p \in Price
  <2>1. p \in Price /\ p \in Int
    BY PricesInOrder
  <2> QED BY <1>3, <2>1, PricesInOrder DEF Tick, Ticks
<1>6. ActiveLiquidity(t) \in Int /\ Fees[book] \in 0 .. MaxFee-1
  BY <1>1, <1>5, ActiveIsLiquid, PoolAssumption
<1>7. PoolFits
  <2>1. t < MaxTick => SqrtRatio[t+1] \in Int
    BY <1>3, PricesInOrder DEF Tick
  <2> QED BY <1>3, <1>4, <1>5, <2>1 DEF PoolFits, Holds
<1>8. NoCall \in [zeroForOne : BOOLEAN, exactIn : BOOLEAN, amount : Nat, limit : Price]
  <2>1. /\ MinTick \in Tick /\ MaxTick \in Tick /\ SqrtRatio[MinTick] < SqrtRatio[MaxTick]
        /\ SqrtRatio[MinTick] \in Int /\ SqrtRatio[MaxTick] \in Int
    BY PricesInOrder DEF Tick
  <2>2. SqrtRatio[MinTick] + 1 \in Price
    BY <2>1 DEF Price
  <2> QED BY <2>2 DEF NoCall
<1>9. PoolType
  <2>1. pool \in [sqrtPrice : Price, tick : Ticks, liquidity : Int, fee : 0 .. MaxFee-1]
    BY <1>4, <1>5, <1>6
  <2>2. 0 \in 0 .. Word-1
    BY ScaleAssumption
  <2>3. state \in [remaining : 0 .. Word-1, calculated : Int, sqrtPrice : Int, tick : Int,
                   liquidity : Int]
    BY <2>2 DEF Init
  <2>4. step \in [start : Int, tickNext : Int, initialized : BOOLEAN, priceNext : Int]
    BY DEF Init
  <2> QED BY <1>1, <1>8, <2>1, <2>3, <2>4 DEF Init, PoolType, States
<1>10. WalkFits /\ BetweenSteps /\ MoveFits /\ AmountsFit
  BY DEF Init, WalkFits, BetweenSteps, MoveFits, AmountsFit, Active
<1> QED BY <1>7, <1>9, <1>10 DEF PoolInv

(* Every step of a pool keeps the invariant. *)
LEMMA PoolInvKept == PoolInv /\ [Next]_vars => PoolInv'
<1> SUFFICES ASSUME PoolInv, [Next]_vars PROVE PoolInv'
  OBVIOUS
<1>1. CASE StartSwap
  BY <1>1, StartSwapKeeps
<1>2. CASE Advance
  BY <1>2, AdvanceKeeps
<1>3. CASE Cross
  BY <1>3, CrossKeeps
<1>4. CASE ReachEnd
  BY <1>4, ReachEndKeeps
<1>5. CASE StopInside
  BY <1>5, StopInsideKeeps
<1>6. CASE Return
  BY <1>6, ReturnKeeps
<1>7. CASE Quote
  <2>1. pc' = "quoted" /\ UNCHANGED <<book, pool, call, state, step, crossed, aliased, paid>>
    BY <1>7 DEF Quote
  <2> QED BY <2>1, SettleKeeps
<1>8. CASE Fail
  <2>1. pc' = "idle" /\ UNCHANGED <<book, pool, call, state, step, crossed, aliased, paid>>
    BY <1>8 DEF Fail
  <2> QED BY <2>1, SettleKeeps
<1>9. CASE Trade
  BY <1>9, TradeKeeps
<1>10. CASE UNCHANGED vars
  BY <1>10 DEF vars, PoolInv, PoolType, PoolFits, WalkFits, BetweenSteps, MoveFits, AmountsFit,
               States, Active, ActiveLiquidity, Holds, Unlisted
<1> QED BY <1>1, <1>2, <1>3, <1>4, <1>5, <1>6, <1>7, <1>8, <1>9, <1>10 DEF Next, Walk

(* The inductive invariant of Pool.Swap, its types among it.                 *)
THEOREM PoolInvariant == Spec => []PoolInv
BY PoolInvInitially, PoolInvKept, PTL DEF Spec
-----------------------------------------------------------------------------
(* The price of a swap stays between the pool's and the limit, see PoolSwap, *)
(* on every table of prices and book of ticks.                               *)
THEOREM SwapStaysWithinLimit == Spec => []PriceWithinLimit
<1>1. PoolInv => PriceWithinLimit
  BY DEF PoolInv, WalkFits, Active, Running, PriceWithinLimit
<1> QED BY <1>1, PoolInvariant, PTL

(* Between steps the tick is the one the price is in, see PoolSwap.          *)
THEOREM SwapTickHoldsPrice == Spec => []TickHoldsPrice
<1>1. PoolInv => TickHoldsPrice
  BY DEF PoolInv, BetweenSteps, Holds, TickHoldsPrice
<1> QED BY <1>1, PoolInvariant, PTL

(* The liquidity of every step is that of the positions holding the tick,    *)
(* see PoolSwap, in every sequence of swaps.                                 *)
THEOREM SwapLiquidityIsActive == Spec => []LiquidityIsActive
<1>1. PoolInv => LiquidityIsActive
  BY DEF PoolInv, WalkFits, Active, Running, LiquidityIsActive
<1> QED BY <1>1, PoolInvariant, PTL

(* No exact amount is exceeded, see PoolSwap: of an output as long as the    *)
(* calculator has never seen an input.                                       *)
THEOREM SwapAmountsAddUp == Spec => []AmountsAddUp
<1>1. PoolInv => AmountsAddUp
  BY DEF PoolInv, AmountsFit, Active, Running, AmountsAddUp
<1> QED BY <1>1, PoolInvariant, PTL
-----------------------------------------------------------------------------
(* Induction on natural numbers.                                             *)
LEMMA InductionOnNat ==
  ASSUME NEW T, 0 \in T, \A n \in Nat : n \in T => n+1 \in T
  PROVE  Nat \subseteq T
<1> DEFINE B == Nat \ T
<1> SUFFICES ASSUME B # {} PROVE FALSE
  OBVIOUS
<1>1. PICK m \in B : \A y \in B : m <= y
  BY NatMinimum
<1>2. m \in Nat /\ m \notin T /\ m # 0
  OBVIOUS
<1>3. m - 1 \in Nat /\ (m - 1) + 1 = m /\ ~(m <= m - 1)
  BY <1>2
<1>4. m - 1 \in T
  BY <1>1, <1>3
<1> QED BY <1>2, <1>3, <1>4

(* N is a multiple of every price, K[p] times p.  In these whole numbers     *)
(* 1/p is K[p]/N.                                                            *)
Multiples(N, K) ==
  /\ N \in Nat \ {0} /\ K \in [PriceWord -> Nat]
  /\ \A p \in PriceWord : p * K[p] = N

(* The liquidity that a step from p to the right goes through.               *)
LiquidityAt(p) == ActiveLiquidity(TickAtSqrtRatio(p))

(* What the positions of the book have at each price, but for what they have *)
(* at one of them: X[p]*Q/N of token0 and Y[p]/Q of token1.                  *)
IsCurve(N, K, X, Y) ==
  /\ Multiples(N, K) /\ X \in [0 .. Word -> Int] /\ Y \in [0 .. Word -> Int]
  /\ \A p \in Price :
       p + 1 \in Price => /\ X[p+1] = X[p] - LiquidityAt(p) * (K[p] - K[p+1])
                          /\ Y[p+1] = Y[p] + LiquidityAt(p)

(* N is a multiple of the numbers up to n; g adds up the differences d to n. *)
IsMultipleTo(N, n) == N \in Nat \ {0} /\ \A p \in 1 .. n : \E k \in Nat : p * k = N
AddsUpTo(g, d, n) == g \in [0 .. n -> Int] /\ \A i \in 0 .. n-1 : g[i+1] = g[i] + d[i]

(* There is a common multiple of the prices. *)
LEMMA MultiplesExist == \E N, K : Multiples(N, K)
<1> DEFINE T == {n \in Nat : \E N : IsMultipleTo(N, n)}
<1>1. 0 \in T
  <2>1. IsMultipleTo(1, 0)
    BY DEF IsMultipleTo
  <2> QED BY <2>1
<1>2. ASSUME NEW n \in Nat, n \in T PROVE n+1 \in T
  <2>1. PICK N \in Nat \ {0} : \A p \in 1 .. n : \E k \in Nat : p * k = N
    BY <1>2 DEF IsMultipleTo
  <2>2. N * (n+1) \in Nat \ {0}
    <3>1. 1 * (n+1) <= N * (n+1)
      BY TimesMonotonic
    <3> QED BY <3>1
  <2>3. ASSUME NEW p \in 1 .. n+1 PROVE \E k \in Nat : p * k = N * (n+1)
    <3>1. CASE p = n+1
      <4>1. p * N = N * (n+1)
        BY <3>1
      <4> QED BY <4>1
    <3>2. CASE p # n+1
      <4>1. p \in 1 .. n
        BY <3>2
      <4>2. PICK k \in Nat : p * k = N
        BY <2>1, <4>1
      <4>3. p * (k * (n+1)) = (p * k) * (n+1)
        BY <4>1, SMTT(30)
      <4>4. k * (n+1) \in Nat
        OBVIOUS
      <4> QED BY <4>2, <4>3, <4>4
    <3> QED BY <3>1, <3>2
  <2>4. IsMultipleTo(N * (n+1), n+1)
    BY <2>2, <2>3 DEF IsMultipleTo
  <2> QED BY <2>4
<1>3. Word - 1 \in Nat /\ PriceWord = 1 .. Word-1
  BY ScaleAssumption DEF PriceWord
<1>4. Word - 1 \in T
  BY <1>1, <1>2, <1>3, InductionOnNat
<1>5. PICK N \in Nat \ {0} : \A p \in PriceWord : \E k \in Nat : p * k = N
  BY <1>3, <1>4 DEF IsMultipleTo
<1> DEFINE K == [p \in PriceWord |-> CHOOSE k \in Nat : p * k = N]
<1>6. K \in [PriceWord -> Nat] /\ \A p \in PriceWord : p * K[p] = N
  BY <1>5
<1> HIDE DEF K
<1>7. Multiples(N, K)
  BY <1>6 DEF Multiples
<1> QED BY <1>7

(* Differences add up to a function. *)
LEMMA RunningSum ==
  ASSUME NEW d \in [Nat -> Int], NEW m \in Nat
  PROVE  \E g : AddsUpTo(g, d, m)
<1> DEFINE T == {n \in Nat : \E g : AddsUpTo(g, d, n)}
<1>1. 0 \in T
  <2>1. [i \in 0 .. 0 |-> 0] \in [0 .. 0 -> Int] /\ 0 .. 0-1 = {}
    OBVIOUS
  <2>2. AddsUpTo([i \in 0 .. 0 |-> 0], d, 0)
    BY <2>1 DEF AddsUpTo
  <2> QED BY <2>2
<1>2. ASSUME NEW n \in Nat, n \in T PROVE n+1 \in T
  <2>1. PICK g \in [0 .. n -> Int] : \A i \in 0 .. n-1 : g[i+1] = g[i] + d[i]
    BY <1>2 DEF AddsUpTo
  <2> DEFINE h == [i \in 0 .. n+1 |-> IF i = n+1 THEN g[n] + d[n] ELSE g[i]]
  <2>2. h \in [0 .. n+1 -> Int]
    <3>1. g[n] + d[n] \in Int
      OBVIOUS
    <3>2. \A i \in 0 .. n+1 : i # n+1 => i \in 0 .. n
      OBVIOUS
    <3> QED BY <3>1, <3>2
  <2>3. ASSUME NEW i \in 0 .. n PROVE h[i+1] = h[i] + d[i]
    <3>1. i \in 0 .. n+1 /\ i # n+1 /\ h[i] = g[i]
      OBVIOUS
    <3>2. CASE i = n
      <4>1. i + 1 = n + 1 /\ n + 1 \in 0 .. n+1
        BY <3>2
      <4>2. h[i+1] = g[n] + d[n]
        BY <4>1
      <4> QED BY <3>1, <3>2, <4>2
    <3>3. CASE i # n
      <4>1. i \in 0 .. n-1 /\ i + 1 \in 0 .. n+1 /\ i + 1 # n + 1
        BY <3>3
      <4>2. h[i+1] = g[i+1]
        BY <4>1
      <4> QED BY <2>1, <3>1, <4>1, <4>2
    <3> QED BY <3>2, <3>3
  <2> HIDE DEF h
  <2>4. 0 .. (n+1)-1 = 0 .. n
    OBVIOUS
  <2>5. \A i \in 0 .. (n+1)-1 : h[i+1] = h[i] + d[i]
    BY <2>3, <2>4
  <2>6. AddsUpTo(h, d, n+1)
    BY <2>2, <2>5 DEF AddsUpTo
  <2> QED BY <2>6
<1>3. m \in T
  BY <1>1, <1>2, InductionOnNat
<1> QED BY <1>3

(* The liquidity at a price is a natural number. *)
LEMMA LiquidityAtPrice ==
  ASSUME book \in Books, NEW p \in Price
  PROVE  LiquidityAt(p) \in Nat
<1>1. TickAtSqrtRatio(p) \in Ticks
  BY TickOfPrice, PricesInOrder DEF Tick, Ticks
<1> QED BY <1>1, ActiveIsLiquid DEF LiquidityAt, Liquid

(* Every book has its curve. *)
LEMMA CurveExists ==
  ASSUME book \in Books
  PROVE  \E N, K, X, Y : IsCurve(N, K, X, Y)
<1>1. PICK N, K : Multiples(N, K)
  BY MultiplesExist
<1> DEFINE dx == [p \in Nat |-> IF p \in Price /\ p+1 \in Price
                                THEN -(LiquidityAt(p) * (K[p] - K[p+1])) ELSE 0]
           dy == [p \in Nat |-> IF p \in Price THEN LiquidityAt(p) ELSE 0]
<1>2. \A p \in Price : LiquidityAt(p) \in Nat /\ K[p] \in Nat /\ p \in 0 .. Word-1
  <2>1. \A p \in Price : p \in PriceWord
    BY PricesInOrder
  <2> QED BY <1>1, <2>1, LiquidityAtPrice DEF Multiples, PriceWord
<1>3. dx \in [Nat -> Int] /\ dy \in [Nat -> Int]
  <2>1. ASSUME NEW p \in Price, p+1 \in Price PROVE -(LiquidityAt(p) * (K[p] - K[p+1])) \in Int
    <3>1. LiquidityAt(p) \in Int /\ K[p] \in Int /\ K[p+1] \in Int
      BY <1>2, <2>1
    <3> QED BY <3>1
  <2>2. \A p \in Price : LiquidityAt(p) \in Int
    BY <1>2
  <2> QED BY <2>1, <2>2
<1>4. Word \in Nat
  BY ScaleAssumption
<1>5. PICK X \in [0 .. Word -> Int] : \A i \in 0 .. Word-1 : X[i+1] = X[i] + dx[i]
  <2> HIDE DEF dx
  <2> QED BY <1>3, <1>4, RunningSum DEF AddsUpTo
<1>6. PICK Y \in [0 .. Word -> Int] : \A i \in 0 .. Word-1 : Y[i+1] = Y[i] + dy[i]
  <2> HIDE DEF dy
  <2> QED BY <1>3, <1>4, RunningSum DEF AddsUpTo
<1>7. ASSUME NEW p \in Price, p + 1 \in Price
      PROVE  /\ X[p+1] = X[p] - LiquidityAt(p) * (K[p] - K[p+1])
             /\ Y[p+1] = Y[p] + LiquidityAt(p)
  <2>1. p \in Nat /\ p \in 0 .. Word-1 /\ p \in 0 .. Word
    BY <1>2, <1>4
  <2>2. dx[p] = -(LiquidityAt(p) * (K[p] - K[p+1])) /\ dy[p] = LiquidityAt(p)
    BY <1>7, <2>1
  <2>3. X[p+1] = X[p] + dx[p] /\ Y[p+1] = Y[p] + dy[p]
    BY <1>5, <1>6, <2>1
  <2>4. LiquidityAt(p) * (K[p] - K[p+1]) \in Int /\ X[p] \in Int
    <3>1. LiquidityAt(p) \in Int /\ K[p] \in Int /\ K[p+1] \in Int
      BY <1>2, <1>7
    <3> QED BY <2>1, <3>1
  <2> HIDE DEF dx, dy
  <2> QED BY <2>2, <2>3, <2>4
<1>8. IsCurve(N, K, X, Y)
  BY <1>1, <1>7 DEF IsCurve
<1> QED BY <1>8

(* The inverse of a price falls as the price rises. *)
LEMMA InverseFalls ==
  ASSUME NEW N, NEW K, Multiples(N, K), NEW p \in PriceWord, p + 1 \in PriceWord
  PROVE  K[p] \in Nat /\ K[p+1] \in Nat /\ K[p] - K[p+1] > 0
<1>1. /\ p \in Nat \ {0} /\ K[p] \in Nat /\ K[p+1] \in Nat /\ N \in Nat \ {0}
      /\ p * K[p] = N /\ (p+1) * K[p+1] = N
  BY DEF Multiples, PriceWord
<1>2. K[p+1] # 0
  BY <1>1
<1> DEFINE a == K[p]  b == K[p+1]
<1>3. a \in Nat /\ b \in Nat /\ b > 0 /\ p \in Nat \ {0}
  BY <1>1, <1>2
<1>4. p * a = (p + 1) * b
  BY <1>1
<1> HIDE DEF a, b
<1>5. (p+1) * b = p * b + b
  BY <1>3
<1>6. p * b = b * p /\ p * a = a * p /\ p * b \in Int
  BY <1>3
<1>7. b * p < a * p
  BY <1>3, <1>4, <1>5, <1>6
<1>8. b < a
  BY <1>3, <1>7, TimesMonotonic
<1> QED BY <1>1, <1>3, <1>8 DEF a, b

(* From one price to the next, the positions give token0 for token1: both or *)
(* neither.                                                                  *)
LEMMA CurveStep ==
  ASSUME book \in Books, NEW N, NEW K, NEW X, NEW Y, IsCurve(N, K, X, Y),
         NEW p \in Price, p + 1 \in Price
  PROVE  /\ X[p] \in Int /\ X[p+1] \in Int /\ Y[p] \in Int /\ Y[p+1] \in Int
         /\ X[p+1] <= X[p] /\ Y[p] <= Y[p+1]
         /\ X[p+1] = X[p] <=> Y[p+1] = Y[p]
<1>1. p \in PriceWord /\ p + 1 \in PriceWord /\ p \in 0 .. Word /\ p+1 \in 0 .. Word
  BY PricesInOrder, ScaleAssumption DEF PriceWord
<1>2. /\ X[p] \in Int /\ X[p+1] \in Int /\ Y[p] \in Int /\ Y[p+1] \in Int
      /\ X[p+1] = X[p] - LiquidityAt(p) * (K[p] - K[p+1])
      /\ Y[p+1] = Y[p] + LiquidityAt(p)
  BY <1>1 DEF IsCurve
<1>3. LiquidityAt(p) \in Nat
  BY LiquidityAtPrice
<1> DEFINE l == LiquidityAt(p)  k == K[p] - K[p+1]
<1>4. k \in Nat \ {0} /\ l \in Nat
  BY <1>1, <1>3, InverseFalls DEF IsCurve
<1>5. X[p+1] = X[p] - l * k /\ Y[p+1] = Y[p] + l
  BY <1>2
<1> HIDE DEF l, k
<1>6. l * k \in Nat /\ (l * k = 0 <=> l = 0)
  <2>1. CASE l = 0
    BY <1>4, <2>1
  <2>2. CASE l # 0
    <3>1. 1 * k <= l * k
      BY <1>4, <2>2, TimesMonotonic
    <3> QED BY <1>4, <2>2, <3>1
  <2> QED BY <2>1, <2>2
<1> DEFINE m == l * k
<1>7. m \in Nat /\ (m = 0 <=> l = 0) /\ X[p+1] = X[p] - m
  BY <1>5, <1>6
<1> HIDE DEF m
<1> DEFINE x == X[p]  x1 == X[p+1]  y == Y[p]  y1 == Y[p+1]
<1>8. x \in Int /\ x1 \in Int /\ y \in Int /\ y1 \in Int /\ x1 = x - m /\ y1 = y + l
  BY <1>2, <1>5, <1>7
<1> HIDE DEF x, x1, y, y1
<1>9. x1 <= x /\ y <= y1 /\ (x1 = x <=> m = 0) /\ (y1 = y <=> l = 0)
  BY <1>4, <1>7, <1>8
<1>10. x1 = x <=> y1 = y
  BY <1>7, <1>9
<1> QED BY <1>8, <1>9, <1>10 DEF x, x1, y, y1

(* The same from any price to a higher one.                                  *)
Falls(X, Y, p, q) ==
  /\ X[p] \in Int /\ X[q] \in Int /\ Y[p] \in Int /\ Y[q] \in Int
  /\ X[q] <= X[p] /\ Y[p] <= Y[q]
  /\ X[q] = X[p] <=> Y[q] = Y[p]

(* From any price to a higher one, token0 is given for token1. *)
LEMMA CurveFalls ==
  ASSUME book \in Books, NEW N, NEW K, NEW X, NEW Y, IsCurve(N, K, X, Y),
         NEW p \in Price, NEW q \in Price, p <= q
  PROVE  Falls(X, Y, p, q)
<1>1. /\ \A r \in Price : r \in Nat /\ r \in 0 .. Word
      /\ \A r \in Int : p <= r /\ r <= q => r \in Price
  <2>1. \A r \in Price : r \in PriceWord /\ r \in Nat
    BY PricesInOrder
  <2>2. SqrtRatio[MinTick] \in Int /\ SqrtRatio[MaxTick] \in Int
    BY PricesInOrder DEF Tick
  <2> QED BY <2>1, <2>2, ScaleAssumption DEF PriceWord, Price
<1> DEFINE T == {n \in Nat : p + n <= q => Falls(X, Y, p, p + n)}
<1>2. 0 \in T
  <2>1. X[p] \in Int /\ Y[p] \in Int
    BY <1>1 DEF IsCurve
  <2>2. p + 0 = p
    BY <1>1
  <2> QED BY <2>1, <2>2 DEF Falls
<1>3. ASSUME NEW n \in Nat, n \in T PROVE n+1 \in T
  <2>1. SUFFICES ASSUME p + (n+1) <= q PROVE Falls(X, Y, p, p + (n+1))
    OBVIOUS
  <2> DEFINE r == p + n
  <2>2. r \in Int /\ r + 1 = p + (n+1) /\ r <= q /\ p <= r
    BY <1>1, <2>1
  <2>3. Falls(X, Y, p, r)
    BY <1>3, <2>2
  <2> HIDE DEF r
  <2>4. r \in Price /\ r + 1 \in Price
    BY <1>1, <2>1, <2>2
  <2>5. /\ X[r] \in Int /\ X[r+1] \in Int /\ Y[r] \in Int /\ Y[r+1] \in Int
        /\ X[r+1] <= X[r] /\ Y[r] <= Y[r+1]
        /\ X[r+1] = X[r] <=> Y[r+1] = Y[r]
    BY <2>4, CurveStep
  <2>6. Falls(X, Y, p, r + 1)
    BY <2>3, <2>5 DEF Falls
  <2> QED BY <2>2, <2>6
<1>4. q - p \in Nat /\ p + (q - p) = q
  BY <1>1
<1>5. q - p \in T
  BY <1>2, <1>3, <1>4, InductionOnNat
<1> QED BY <1>1, <1>4, <1>5

(* Where the liquidity is one and the same, the curve is that of the step.   *)
Along(X, Y, K, p, q, l) ==
  /\ X[p] \in Int /\ X[q] \in Int /\ Y[p] \in Int /\ Y[q] \in Int
  /\ X[p] - X[q] = l * (K[p] - K[q]) /\ Y[q] - Y[p] = l * (q - p)

(* What the positions give and take where the liquidity is one. *)
LEMMA CurveAlong ==
  ASSUME book \in Books, NEW N, NEW K, NEW X, NEW Y, IsCurve(N, K, X, Y),
         NEW p \in Price, NEW q \in Price, p <= q, NEW l \in Nat,
         \A r \in Price : p <= r /\ r < q => LiquidityAt(r) = l
  PROVE  Along(X, Y, K, p, q, l)
<1>1. /\ \A r \in Price : r \in Nat /\ r \in 0 .. Word /\ r \in PriceWord /\ K[r] \in Nat
      /\ \A r \in Int : p <= r /\ r <= q => r \in Price
  <2>1. \A r \in Price : r \in PriceWord /\ r \in Nat
    BY PricesInOrder
  <2>2. SqrtRatio[MinTick] \in Int /\ SqrtRatio[MaxTick] \in Int
    BY PricesInOrder DEF Tick
  <2>3. \A r \in PriceWord : K[r] \in Nat
    BY DEF IsCurve, Multiples
  <2> QED BY <2>1, <2>2, <2>3, ScaleAssumption DEF PriceWord, Price
<1> DEFINE T == {n \in Nat : p + n <= q => Along(X, Y, K, p, p + n, l)}
<1>2. 0 \in T
  <2>1. X[p] \in Int /\ Y[p] \in Int
    BY <1>1 DEF IsCurve
  <2>2. p + 0 = p /\ X[p] - X[p] = 0 /\ K[p] - K[p] = 0 /\ l * 0 = 0 /\ p - p = 0 /\ Y[p] - Y[p] = 0
    BY <1>1, <2>1
  <2> QED BY <2>1, <2>2 DEF Along
<1>3. ASSUME NEW n \in Nat, n \in T PROVE n+1 \in T
  <2>1. SUFFICES ASSUME p + (n+1) <= q PROVE Along(X, Y, K, p, p + (n+1), l)
    OBVIOUS
  <2> DEFINE r == p + n
  <2>2. r \in Int /\ r + 1 = p + (n+1) /\ r < q /\ r <= q /\ p <= r
    BY <1>1, <2>1
  <2>3. Along(X, Y, K, p, r, l)
    BY <1>3, <2>2
  <2> HIDE DEF r
  <2>4. r \in Price /\ r + 1 \in Price
    BY <1>1, <2>1, <2>2
  <2>5. LiquidityAt(r) = l
    BY <2>2, <2>4
  <2>6. /\ X[r+1] \in Int /\ Y[r+1] \in Int
        /\ X[r+1] = X[r] - l * (K[r] - K[r+1]) /\ Y[r+1] = Y[r] + l
    BY <1>1, <2>4, <2>5 DEF IsCurve
  <2>7. p \in Int /\ K[p] \in Int /\ K[r] \in Int /\ K[r+1] \in Int
    BY <1>1, <2>4
  <2>8. /\ l * (K[p] - K[r]) + l * (K[r] - K[r+1]) = l * (K[p] - K[r+1])
        /\ l * (r - p) + l = l * ((r + 1) - p)
    <3> DEFINE a == K[p]  b == K[r]  c == K[r+1]
    <3>1. a \in Int /\ b \in Int /\ c \in Int
      BY <2>7
    <3> HIDE DEF a, b, c
    <3>2. l * (a - b) + l * (b - c) = l * (a - c)
      BY <3>1, SMTT(30)
    <3>3. l * (r - p) + l = l * ((r + 1) - p)
      BY <2>2, <2>7, SMTT(30)
    <3> QED BY <3>2, <3>3 DEF a, b, c
  <2>9. /\ l * (K[p] - K[r]) \in Int /\ l * (K[r] - K[r+1]) \in Int /\ l * (r - p) \in Int
    <3>1. K[p] - K[r] \in Int /\ K[r] - K[r+1] \in Int /\ r - p \in Int /\ l \in Int
      BY <2>2, <2>7
    <3> QED BY <3>1
  <2>10. Along(X, Y, K, p, r + 1, l)
    <3>1. X[p] \in Int /\ X[r] \in Int /\ Y[p] \in Int /\ Y[r] \in Int
          /\ X[p] - X[r] = l * (K[p] - K[r]) /\ Y[r] - Y[p] = l * (r - p)
      BY <2>3 DEF Along
    <3>2. X[p] - X[r+1] = l * (K[p] - K[r]) + l * (K[r] - K[r+1])
      BY <2>6, <2>9, <3>1
    <3>3. Y[r+1] - Y[p] = l * (r - p) + l
      BY <2>6, <2>9, <3>1
    <3> QED BY <2>6, <2>8, <3>1, <3>2, <3>3 DEF Along
  <2> QED BY <2>2, <2>10
<1>4. q - p \in Nat /\ p + (q - p) = q
  BY <1>1
<1>5. q - p \in T
  BY <1>2, <1>3, <1>4, InductionOnNat
<1> QED BY <1>1, <1>4, <1>5
-----------------------------------------------------------------------------
(* x of token0 and y of token1 are at least what the positions have more at  *)
(* q than at p.                                                              *)
Covers(N, X, Y, x, y, p, q) ==
  x * N >= Q * (X[q] - X[p]) /\ y * Q >= Y[q] - Y[p]

(* Moves one after the other are covered together. *)
LEMMA CoversAdd ==
  ASSUME NEW N \in Int, NEW X, NEW Y, NEW p, NEW q, NEW r,
         \A s \in {p, q, r} : X[s] \in Int /\ Y[s] \in Int,
         NEW x \in Int, NEW y \in Int, NEW u \in Int, NEW v \in Int,
         Covers(N, X, Y, x, y, p, q), Covers(N, X, Y, u, v, q, r)
  PROVE  Covers(N, X, Y, x + u, y + v, p, r)
<1> DEFINE a == X[p]  b == X[q]  c == X[r]  d == Y[p]  e == Y[q]  f == Y[r]
<1>1. a \in Int /\ b \in Int /\ c \in Int /\ d \in Int /\ e \in Int /\ f \in Int /\ Q \in Int
  BY ScaleAssumption
<1>2. x * N >= Q * (b - a) /\ u * N >= Q * (c - b) /\ y * Q >= e - d /\ v * Q >= f - e
  BY DEF Covers
<1> HIDE DEF a, b, c, d, e, f
<1>3. /\ (x + u) * N = x * N + u * N /\ (y + v) * Q = y * Q + v * Q
      /\ Q * (b - a) + Q * (c - b) = Q * (c - a)
  <2>1. (x + u) * N = x * N + u * N
    BY SMTT(30)
  <2>2. (y + v) * Q = y * Q + v * Q
    BY <1>1, SMTT(30)
  <2>3. Q * (b - a) + Q * (c - b) = Q * (c - a)
    BY <1>1, SMTT(30)
  <2> QED BY <2>1, <2>2, <2>3
<1>4. /\ x * N \in Int /\ u * N \in Int /\ y * Q \in Int /\ v * Q \in Int
      /\ Q * (b - a) \in Int /\ Q * (c - b) \in Int
  BY <1>1
<1>5. (x + u) * N >= Q * (c - a) /\ (y + v) * Q >= f - d
  BY <1>1, <1>2, <1>3, <1>4
<1> QED BY <1>5 DEF Covers, a, b, c, d, e, f

(* An amount of token0 against liquidity between two prices, in the whole    *)
(* numbers of N.                                                             *)
LEMMA InWholeNumbers ==
  ASSUME NEW N \in Nat \ {0}, NEW a \in Nat \ {0}, NEW b \in Nat \ {0},
         NEW k \in Nat, NEW j \in Nat, a * k = N, b * j = N,
         NEW m \in Nat, NEW x \in Nat
  PROVE  /\ x * a * b >= m * (b - a) => x * N >= m * (k - j)
         /\ x * a * b <= m * (b - a) => x * N <= m * (k - j)
<1> DEFINE c == a * b
<1>1. c \in Nat /\ c > 0
  BY SMTT(30)
<1>2. (b - a) * N = (k - j) * c
  <2>1. b * N = k * c
    <3>1. b * (a * k) = k * (a * b)
      BY SMTT(30)
    <3> QED BY <3>1
  <2>2. a * N = j * c
    <3>1. a * (b * j) = j * (a * b)
      BY SMTT(30)
    <3> QED BY <3>1
  <2> HIDE DEF c
  <2>3. (b - a) * N = b * N - a * N
    BY SMTT(30)
  <2>4. (k - j) * c = k * c - j * c
    BY <1>1, SMTT(30)
  <2> QED BY <2>1, <2>2, <2>3, <2>4
<1>3. x * a * b = x * c
  BY SMTT(30)
<1> HIDE DEF c
<1>4. (x * c) * N = (x * N) * c
  BY <1>1, SMTT(30)
<1>5. (m * (b - a)) * N = (m * (k - j)) * c
  <2> DEFINE e == b - a  f == k - j
  <2>1. e \in Int /\ f \in Int /\ e * N = f * c
    BY <1>2
  <2> HIDE DEF e, f
  <2>2. (m * e) * N = m * (e * N)
    BY <2>1, SMTT(30)
  <2>3. (m * f) * c = m * (f * c)
    BY <1>1, <2>1, SMTT(30)
  <2>4. (m * e) * N = (m * f) * c
    BY <2>1, <2>2, <2>3
  <2> QED BY <2>4 DEF e, f
<1> DEFINE u == x * c  v == m * (b - a)  g == x * N  h == m * (k - j)
<1>6. u \in Int /\ v \in Int /\ g \in Int /\ h \in Int
  <2>1. b - a \in Int /\ k - j \in Int
    OBVIOUS
  <2> QED BY <1>1, <2>1
<1>7. u * N = g * c /\ v * N = h * c
  BY <1>4, <1>5
<1>8. x * a * b >= m * (b - a) <=> u >= v
  BY <1>3
<1>9. x * a * b <= m * (b - a) <=> u <= v
  BY <1>3
<1> HIDE DEF u, v, g, h
<1>10. u >= v => g >= h
  <2> SUFFICES ASSUME v <= u PROVE h <= g
    BY <1>6
  <2>1. v * N <= u * N
    BY <1>6, TimesMonotonic
  <2> QED BY <1>1, <1>6, <1>7, <2>1, TimesMonotonic
<1>11. u <= v => g <= h
  <2> SUFFICES ASSUME u <= v PROVE g <= h
    OBVIOUS
  <2>1. u * N <= v * N
    BY <1>6, TimesMonotonic
  <2> QED BY <1>1, <1>6, <1>7, <2>1, TimesMonotonic
<1> QED BY <1>8, <1>9, <1>10, <1>11 DEF g, h

(* A move with the roundings of a step covers what the positions gain.       *)
LEMMA MoveCovers ==
  ASSUME NEW N, NEW K, NEW X, NEW Y, Multiples(N, K),
         NEW p \in PriceWord, NEW q \in PriceWord, q <= p, NEW l, Liquid(l),
         Along(X, Y, K, q, p, l), NEW in \in Nat, NEW out \in Nat
  PROVE  /\ /\ in >= InputBetween(p, q, l, TRUE)
            /\ out <= OutputBetween(p, q, l, TRUE)
            => Covers(N, X, Y, in, -out, p, q)
         /\ /\ in >= InputBetween(q, p, l, FALSE)
            /\ out <= OutputBetween(q, p, l, FALSE)
            => Covers(N, X, Y, -out, in, q, p)
<1> DEFINE m == l * (p - q)  n == l * Q  k == K[q]  j == K[p]
           in0 == InputBetween(p, q, l, TRUE)  out1 == OutputBetween(p, q, l, TRUE)
           in1 == InputBetween(q, p, l, FALSE)  out0 == OutputBetween(q, p, l, FALSE)
           a == X[q]  b == X[p]  c == Y[q]  d == Y[p]
<1>1. /\ p \in Nat \ {0} /\ q \in Nat \ {0} /\ l \in Nat /\ Q \in Nat \ {0} /\ N \in Nat \ {0}
      /\ k \in Nat /\ j \in Nat /\ q * k = N /\ p * j = N
      /\ a \in Int /\ b \in Int /\ c \in Int /\ d \in Int
      /\ a - b = l * (k - j) /\ d - c = m
  <2>1. p \in Nat \ {0} /\ q \in Nat \ {0} /\ l \in Nat /\ Q \in Nat \ {0}
    BY ScaleAssumption DEF PriceWord, Liquid
  <2>2. N \in Nat \ {0} /\ k \in Nat /\ j \in Nat /\ q * k = N /\ p * j = N
    BY DEF Multiples
  <2>3. /\ a \in Int /\ b \in Int /\ c \in Int /\ d \in Int
        /\ a - b = l * (k - j) /\ d - c = m
    BY DEF Along
  <2> QED BY <2>1, <2>2, <2>3
<1>2. n \in Nat /\ m \in Int
  <2>1. p - q \in Int
    BY <1>1
  <2> QED BY <1>1, <2>1
<1>3. /\ in0 \in Nat /\ out1 \in Nat /\ in1 \in Nat /\ out0 \in Nat
  <2>1. InputBetween(p, q, l, TRUE) \in Nat /\ OutputBetween(p, q, l, TRUE) \in Nat
    BY MoveIsNatural
  <2>2. InputBetween(q, p, l, FALSE) \in Nat /\ OutputBetween(q, p, l, FALSE) \in Nat
    BY MoveIsNatural
  <2> QED BY <2>1, <2>2
<1>4. in0 * q * p >= m * Q /\ out1 * Q <= m /\ in1 * Q >= m /\ out0 * q * p <= m * Q
  BY MoveIsCovered
<1>5. m * Q = n * (p - q)
  BY <1>1, SMTT(30)
<1> HIDE DEF in0, out1, in1, out0, k, j, a, b, c, d
<1>6. Q * (a - b) = n * (k - j) /\ Q * (b - a) = -(n * (k - j))
  <2> DEFINE e == k - j  f == a - b
  <2>1. e \in Int /\ f \in Int /\ f = l * e /\ b - a = -f
    BY <1>1
  <2> HIDE DEF e, f
  <2>2. Q * (l * e) = (l * Q) * e
    BY <1>1, <2>1, SMTT(30)
  <2>3. Q * (-f) = -(Q * f)
    BY <1>1, <2>1, SMTT(30)
  <2> QED BY <2>1, <2>2, <2>3 DEF e, f
<1> HIDE DEF m, n
<1>7. in0 * N >= n * (k - j) /\ out0 * N <= n * (k - j)
  BY <1>1, <1>2, <1>3, <1>4, <1>5, InWholeNumbers
<1> DEFINE h == n * (k - j)
<1>8. h \in Int /\ Q * (a - b) = h /\ Q * (b - a) = -h /\ in0 * N >= h /\ out0 * N <= h
  <2>1. k - j \in Int
    BY <1>1
  <2> QED BY <1>2, <1>6, <1>7, <2>1
<1> HIDE DEF h
<1>9. ASSUME in >= in0, out <= out1 PROVE Covers(N, X, Y, in, -out, p, q)
  <2>1. in0 * N <= in * N /\ out * Q <= out1 * Q
    BY <1>1, <1>3, <1>9, TimesMonotonic
  <2>2. (-out) * Q = -(out * Q)
    BY <1>1, SMTT(30)
  <2>3. in0 * N \in Int /\ in * N \in Int /\ out * Q \in Int /\ out1 * Q \in Int
    BY <1>1, <1>3
  <2>4. in * N >= Q * (a - b)
    BY <1>8, <2>1, <2>3
  <2>5. (-out) * Q >= c - d
    BY <1>1, <1>2, <1>4, <2>1, <2>2, <2>3
  <2> QED BY <2>4, <2>5 DEF Covers, a, b, c, d
<1>10. ASSUME in >= in1, out <= out0 PROVE Covers(N, X, Y, -out, in, q, p)
  <2>1. in1 * Q <= in * Q /\ out * N <= out0 * N
    BY <1>1, <1>3, <1>10, TimesMonotonic
  <2>2. (-out) * N = -(out * N)
    BY <1>1, SMTT(30)
  <2>3. in1 * Q \in Int /\ in * Q \in Int /\ out * N \in Int /\ out0 * N \in Int
    BY <1>1, <1>3
  <2>4. (-out) * N >= Q * (b - a)
    BY <1>8, <2>1, <2>2, <2>3
  <2>5. in * Q >= d - c
    BY <1>1, <1>2, <1>4, <2>1, <2>3
  <2> QED BY <2>4, <2>5 DEF Covers, a, b, c, d
<1> QED BY <1>9, <1>10 DEF in0, out1, in1, out0
-----------------------------------------------------------------------------
(* The prices of a step go through the liquidity of its tick.                *)
LEMMA LiquidityOfStep ==
  ASSUME PoolInv, pc = "loop", ~AtEnd, NEW r \in Price,
         IF call.zeroForOne THEN Taken.next <= r /\ r < state.sqrtPrice
         ELSE state.sqrtPrice <= r /\ r < Taken.next
  PROVE  LiquidityAt(r) = state.liquidity
<1> DEFINE t == state.tick  n == Ahead.tickNext  T == TickAtSqrtRatio(r)
<1>1. /\ book \in Books /\ call.zeroForOne \in BOOLEAN /\ t \in Ticks
      /\ state.liquidity = ActiveLiquidity(t) /\ Holds(t, state.sqrtPrice)
      /\ state.sqrtPrice \in Price
  BY DEF PoolInv, PoolType, WalkFits, BetweenSteps, Active
<1>2. NextFits(Ahead, t, call.zeroForOne)
  BY TickAhead DEF Ahead
<1>3. /\ T \in Tick /\ SqrtRatio[T] <= r
      /\ T < MaxTick => r < SqrtRatio[T + 1]
  BY TickOfPrice
<1>4. /\ Taken.next \in Price
      /\ call.zeroForOne => SqrtRatio[n] <= Taken.next
      /\ ~call.zeroForOne => Taken.next <= SqrtRatio[n]
  BY StepMoves DEF AheadPrice
<1>5. n \in Tick
  BY <1>2 DEF NextFits
<1> HIDE DEF t, n, T
<1>6. /\ MinTick \in Int /\ MaxTick \in Int /\ T \in Int /\ n \in Int /\ t \in Int
      /\ MinTick <= T /\ T <= MaxTick /\ MinTick <= n /\ n <= MaxTick
      /\ MinTick - 1 <= t /\ t <= MaxTick
      /\ r \in Int /\ Taken.next \in Int /\ state.sqrtPrice \in Int
      /\ SqrtRatio[n] \in Int /\ SqrtRatio[T] \in Int /\ T \in Ticks
  <2>1. /\ r \in Int /\ Taken.next \in Int /\ state.sqrtPrice \in Int
        /\ SqrtRatio[n] \in Int /\ SqrtRatio[T] \in Int
    BY <1>1, <1>3, <1>4, <1>5, PricesInOrder
  <2>2. MinTick \in Int /\ MaxTick \in Int
    BY PricesInOrder
  <2> QED BY <1>1, <1>3, <1>5, <2>1, <2>2 DEF Tick, Ticks
<1>7. CASE call.zeroForOne
  <2>1. /\ n <= t /\ Unlisted(n + 1, t)
        /\ SqrtRatio[n] <= r /\ r < state.sqrtPrice
    BY <1>2, <1>4, <1>6, <1>7 DEF NextFits, n
  <2>2. T >= n
    <3> SUFFICES ASSUME T < n PROVE FALSE
      BY <1>6
    <3>1. T + 1 \in Tick /\ T + 1 <= n /\ T < MaxTick
      BY <1>6 DEF Tick
    <3>2. SqrtRatio[T+1] <= SqrtRatio[n] /\ SqrtRatio[T+1] \in Int
      BY <1>5, <3>1, PricesInOrder
    <3> QED BY <1>3, <1>6, <2>1, <3>1, <3>2
  <2>3. T <= t
    <3> SUFFICES ASSUME T > t PROVE FALSE
      BY <1>6
    <3>1. t + 1 \in Tick /\ t + 1 <= T /\ t < MaxTick
      BY <1>6 DEF Tick
    <3>2. SqrtRatio[t + 1] <= SqrtRatio[T] /\ SqrtRatio[t + 1] \in Int
      BY <1>3, <3>1, PricesInOrder
    <3>3. state.sqrtPrice <= SqrtRatio[t + 1]
      BY <1>1, <3>1 DEF Holds
    <3> QED BY <1>3, <1>6, <2>1, <3>2, <3>3
  <2>4. Unlisted(T + 1, t)
    BY <1>6, <2>1, <2>2 DEF Unlisted
  <2>5. ActiveLiquidity(T) = ActiveLiquidity(t)
    BY <1>1, <1>6, <2>3, <2>4, ActiveIsConstant
  <2> QED BY <1>1, <2>5 DEF LiquidityAt, T
<1>8. CASE ~call.zeroForOne
  <2>1. /\ n > t /\ Unlisted(t + 1, n - 1)
        /\ state.sqrtPrice <= r /\ r < SqrtRatio[n]
    BY <1>2, <1>4, <1>6, <1>8 DEF NextFits, n
  <2>2. T < n
    <3> SUFFICES ASSUME n <= T PROVE FALSE
      BY <1>6
    <3>1. SqrtRatio[n] <= SqrtRatio[T]
      BY <1>3, <1>5, PricesInOrder
    <3> QED BY <1>3, <1>6, <2>1, <3>1
  <2>3. t <= T
    <3> SUFFICES ASSUME T < t PROVE FALSE
      BY <1>6
    <3>1. t \in Tick /\ T + 1 \in Tick /\ T + 1 <= t /\ T < MaxTick /\ t >= MinTick
      BY <1>6 DEF Tick
    <3>2. SqrtRatio[T+1] <= SqrtRatio[t] /\ SqrtRatio[T+1] \in Int /\ SqrtRatio[t] \in Int
      BY <3>1, PricesInOrder
    <3>3. SqrtRatio[t] <= state.sqrtPrice
      BY <1>1, <3>1 DEF Holds
    <3> QED BY <1>3, <1>6, <2>1, <3>1, <3>2, <3>3
  <2>4. Unlisted(t + 1, T)
    BY <1>6, <2>1, <2>2 DEF Unlisted
  <2>5. ActiveLiquidity(T) = ActiveLiquidity(t)
    BY <1>1, <1>6, <2>3, <2>4, ActiveIsConstant
  <2> QED BY <1>1, <2>5 DEF LiquidityAt, T
<1> QED BY <1>7, <1>8

(* What the pool receives from paying in and giving out. *)
Received0(in, out) == IF call.zeroForOne THEN in ELSE -out
Received1(in, out) == IF call.zeroForOne THEN -out ELSE in

(* A step covers the move from its start to its end. *)
LEMMA StepCovers ==
  ASSUME PoolInv, pc = "loop", ~AtEnd, NEW N, NEW K, NEW X, NEW Y, IsCurve(N, K, X, Y)
  PROVE  LET in == Taken.in + Taken.fee
         IN  Covers(N, X, Y, Received0(in, Taken.out), Received1(in, Taken.out),
                    state.sqrtPrice, Taken.next)
<1> DEFINE p == state.sqrtPrice  q == Taken.next  l == state.liquidity
           in == Taken.in + Taken.fee  out == Taken.out
<1>1. /\ book \in Books /\ call.zeroForOne \in BOOLEAN /\ p \in Price /\ q \in Price
      /\ state.tick \in Ticks /\ l = ActiveLiquidity(state.tick)
  BY StepMoves DEF PoolInv, PoolType, WalkFits, Active
<1>2. Liquid(l) /\ l \in Nat
  BY <1>1, ActiveIsLiquid DEF Liquid
<1>3. p \in PriceWord /\ q \in PriceWord /\ p \in Int /\ q \in Int
  BY <1>1, PricesInOrder
<1>4. /\ IsMove(Taken, p, l, call.zeroForOne) /\ Taken.fee \in Nat
  BY StepIsPrepared, StepIsAMove, StepPays DEF Taken
<1>5. /\ in \in Nat /\ out \in Nat
      /\ in >= InputBetween(p, q, l, call.zeroForOne)
      /\ out <= OutputBetween(p, q, l, call.zeroForOne)
  <2>1. /\ Taken.in \in Nat /\ Taken.in = InputBetween(p, q, l, call.zeroForOne)
        /\ out \in Nat /\ out <= OutputBetween(p, q, l, call.zeroForOne)
    BY <1>4 DEF IsMove
  <2> QED BY <1>4, <2>1
<1>6. /\ call.zeroForOne => q <= p
      /\ ~call.zeroForOne => p <= q
  BY StepMoves
<1>7. /\ \A r \in Price : call.zeroForOne /\ q <= r /\ r < p => LiquidityAt(r) = l
      /\ \A r \in Price : ~call.zeroForOne /\ p <= r /\ r < q => LiquidityAt(r) = l
  BY LiquidityOfStep
<1>8. Multiples(N, K)
  BY DEF IsCurve
<1> HIDE DEF p, q, l, in, out
<1>9. CASE call.zeroForOne
  <2>1. Along(X, Y, K, q, p, l)
    BY <1>1, <1>2, <1>6, <1>7, <1>9, CurveAlong
  <2>2. call.zeroForOne = TRUE
    BY <1>1, <1>9
  <2>3. in >= InputBetween(p, q, l, TRUE) /\ out <= OutputBetween(p, q, l, TRUE)
    BY <1>5, <2>2
  <2>4. Covers(N, X, Y, in, -out, p, q)
    BY <1>2, <1>3, <1>5, <1>6, <1>8, <1>9, <2>1, <2>3, MoveCovers
  <2>5. Received0(in, out) = in /\ Received1(in, out) = -out
    BY <1>9 DEF Received0, Received1
  <2> QED BY <2>4, <2>5 DEF p, q, in, out
<1>10. CASE ~call.zeroForOne
  <2>1. Along(X, Y, K, p, q, l)
    BY <1>1, <1>2, <1>6, <1>7, <1>10, CurveAlong
  <2>2. call.zeroForOne = FALSE
    BY <1>1, <1>10
  <2>3. in >= InputBetween(p, q, l, FALSE) /\ out <= OutputBetween(p, q, l, FALSE)
    BY <1>5, <2>2
  <2>4. Covers(N, X, Y, -out, in, p, q)
    BY <1>2, <1>3, <1>5, <1>6, <1>8, <1>10, <2>1, <2>3, MoveCovers
  <2>5. Received0(in, out) = -out /\ Received1(in, out) = in
    BY <1>10 DEF Received0, Received1
  <2> QED BY <2>4, <2>5 DEF p, q, in, out
<1> QED BY <1>9, <1>10
-----------------------------------------------------------------------------
(* On a curve that starts at price o the pool has received from its traders  *)
(* what the positions have more at its price, and from a swap at work what   *)
(* they have more at the price it has come to.                               *)
PoolIsPaid(N, K, X, Y, o) ==
  /\ IsCurve(N, K, X, Y) /\ o \in Price
  /\ trader \in [token0 : Int, token1 : Int]
  /\ Covers(N, X, Y, -trader.token0, -trader.token1, o, pool.sqrtPrice)
  /\ Active => Covers(N, X, Y, Received0(paid.in, paid.out), Received1(paid.in, paid.out),
                      pool.sqrtPrice, state.sqrtPrice)

PaidInv == PoolInv /\ \E N, K, X, Y, o : PoolIsPaid(N, K, X, Y, o)

(* A curve is made of numbers, and stays that of the book.                   *)
LEMMA CurveIsTyped ==
  ASSUME NEW N, NEW K, NEW X, NEW Y, IsCurve(N, K, X, Y)
  PROVE  /\ N \in Int /\ \A p \in Price : X[p] \in Int /\ Y[p] \in Int
         /\ book' = book => IsCurve(N, K, X, Y)'
<1>1. \A p \in Price : p \in 0 .. Word
  <2>1. \A p \in Price : p \in PriceWord
    BY PricesInOrder
  <2> QED BY <2>1, ScaleAssumption DEF PriceWord
<1>2. N \in Int /\ \A p \in Price : X[p] \in Int /\ Y[p] \in Int
  BY <1>1 DEF IsCurve, Multiples
<1>3. ASSUME book' = book PROVE IsCurve(N, K, X, Y)'
  BY <1>3 DEF IsCurve, LiquidityAt, ActiveLiquidity, Multiples
<1> QED BY <1>2, <1>3

(* The negative of zero is zero. *)
LEMMA NegativeOfZero ==
  ASSUME NEW z \in Int, z = 0
  PROVE  -z = 0
<1>1. PICK w \in Int : w = -z
  OBVIOUS
<1>2. w + z = 0
  BY <1>1
<1>3. w = 0
  BY <1>2
<1> QED BY <1>1, <1>3

(* A new pool has traded nothing. *)
LEMMA PaidInitially == Init => PaidInv
<1> SUFFICES ASSUME Init PROVE PaidInv
  OBVIOUS
<1>1. PoolInv
  BY PoolInvInitially
<1>2. book \in Books /\ pool.sqrtPrice \in Price
  BY <1>1 DEF PoolInv, PoolType
<1>3. PICK N, K, X, Y : IsCurve(N, K, X, Y)
  BY <1>2, CurveExists
<1> DEFINE o == pool.sqrtPrice
<1>4. X[o] \in Int /\ Y[o] \in Int /\ N \in Int
  BY <1>2, <1>3, CurveIsTyped
<1>5. trader = [token0 |-> 0, token1 |-> 0] /\ ~Active
  BY DEF Init, Active
<1>6. Covers(N, X, Y, -trader.token0, -trader.token1, o, pool.sqrtPrice)
  <2>1. -trader.token0 = 0 /\ -trader.token1 = 0
    <3> DEFINE u == trader.token0  v == trader.token1
    <3>1. u = 0 /\ v = 0 /\ u \in Int /\ v \in Int
      BY <1>5
    <3> HIDE DEF u, v
    <3>2. -u = 0 /\ -v = 0
      BY <3>1, NegativeOfZero
    <3> QED BY <3>2 DEF u, v
  <2>2. 0 * N = 0 /\ 0 * Q = 0 /\ X[o] - X[o] = 0 /\ Y[o] - Y[o] = 0 /\ Q * 0 = 0
    BY <1>4, ScaleAssumption
  <2> QED BY <2>1, <2>2 DEF Covers
<1>7. PoolIsPaid(N, K, X, Y, o)
  BY <1>2, <1>3, <1>5, <1>6 DEF PoolIsPaid
<1> QED BY <1>1, <1>7 DEF PaidInv

(* A swap that has not moved owes nothing. *)
LEMMA NothingIsOwed ==
  ASSUME NEW N \in Int, NEW X, NEW Y, NEW p, X[p] \in Int, Y[p] \in Int
  PROVE  Covers(N, X, Y, 0, 0, p, p)
<1>1. 0 * N = 0 /\ 0 * Q = 0 /\ X[p] - X[p] = 0 /\ Y[p] - Y[p] = 0 /\ Q * 0 = 0
  BY ScaleAssumption
<1> QED BY <1>1 DEF Covers

(* A step of the loop adds what it pays to what is paid. *)
LEMMA AdvanceIsPaid ==
  ASSUME PoolInv, Advance, NEW N, NEW K, NEW X, NEW Y, NEW o, PoolIsPaid(N, K, X, Y, o)
  PROVE  PoolIsPaid(N, K, X, Y, o)'
<1>1. /\ pc = "loop" /\ ~AtEnd /\ pc' = "moved"
      /\ UNCHANGED <<book, pool, call, trader>>
  BY DEF Advance
<1>2. /\ state'.sqrtPrice = Taken.next
      /\ paid' = [in |-> paid.in + Taken.in + Taken.fee, out |-> paid.out + Taken.out]
  BY DEF Advance, Taken, Ahead, AheadPrice, PoolInv, PoolType
<1>3. /\ paid.in \in Nat /\ paid.out \in Nat /\ pool.sqrtPrice \in Price /\ state.sqrtPrice \in Price
      /\ Taken.next \in Price /\ Taken.in \in Nat /\ Taken.fee \in Nat /\ Taken.out \in Nat
  BY <1>1, StepMoves, StepPays DEF PoolInv, PoolType, WalkFits, Active
<1> DEFINE in == Taken.in + Taken.fee  out == Taken.out
<1>4. IsCurve(N, K, X, Y) /\ IsCurve(N, K, X, Y)' /\ N \in Int
      /\ \A p \in Price : X[p] \in Int /\ Y[p] \in Int
  BY <1>1, CurveIsTyped DEF PoolIsPaid
<1>5. /\ Covers(N, X, Y, Received0(paid.in, paid.out), Received1(paid.in, paid.out),
                pool.sqrtPrice, state.sqrtPrice)
      /\ Covers(N, X, Y, Received0(in, out), Received1(in, out), state.sqrtPrice, Taken.next)
  BY <1>1, <1>4, StepCovers DEF PoolIsPaid, Active
<1>6. in \in Nat /\ out \in Nat /\ paid'.in = paid.in + in /\ paid'.out = paid.out + out
  BY <1>2, <1>3
<1> HIDE DEF in, out
<1>7. /\ Received0(paid.in, paid.out) \in Int /\ Received1(paid.in, paid.out) \in Int
      /\ Received0(in, out) \in Int /\ Received1(in, out) \in Int
  BY <1>3, <1>6 DEF Received0, Received1
<1>8. Covers(N, X, Y, Received0(paid.in, paid.out) + Received0(in, out),
             Received1(paid.in, paid.out) + Received1(in, out), pool.sqrtPrice, Taken.next)
  BY <1>3, <1>4, <1>5, <1>7, CoversAdd
<1>9. /\ Received0(paid.in + in, paid.out + out)
           = Received0(paid.in, paid.out) + Received0(in, out)
      /\ Received1(paid.in + in, paid.out + out)
           = Received1(paid.in, paid.out) + Received1(in, out)
  BY <1>3, <1>6 DEF Received0, Received1
<1>10. Covers(N, X, Y, Received0(paid.in + in, paid.out + out),
              Received1(paid.in + in, paid.out + out), pool.sqrtPrice, Taken.next)
  BY <1>8, <1>9
<1>11. (Active => Covers(N, X, Y, Received0(paid.in, paid.out), Received1(paid.in, paid.out),
                         pool.sqrtPrice, state.sqrtPrice))'
  BY <1>1, <1>2, <1>6, <1>10 DEF Received0, Received1, Covers
<1> QED BY <1>1, <1>4, <1>11 DEF PoolIsPaid, Covers

(* A trade settles what its swap has paid, and moves the pool. *)
LEMMA TradeIsPaid ==
  ASSUME PoolInv, Trade, NEW N, NEW K, NEW X, NEW Y, NEW o, PoolIsPaid(N, K, X, Y, o)
  PROVE  PoolIsPaid(N, K, X, Y, o)'
<1>1. /\ pc = "returned" /\ pc' = "idle" /\ book' = book
      /\ pool' = [pool EXCEPT !.sqrtPrice = state.sqrtPrice, !.tick = state.tick,
                              !.liquidity = state.liquidity]
      /\ trader' = IF call.zeroForOne
                   THEN [token0 |-> trader.token0 - paid.in, token1 |-> trader.token1 + paid.out]
                   ELSE [token0 |-> trader.token0 + paid.out, token1 |-> trader.token1 - paid.in]
  BY DEF Trade
<1>2. /\ paid.in \in Int /\ paid.out \in Int /\ pool.sqrtPrice \in Price
      /\ state.sqrtPrice \in Price /\ o \in Price /\ pool'.sqrtPrice = state.sqrtPrice
      /\ trader.token0 \in Int /\ trader.token1 \in Int
  BY <1>1 DEF PoolInv, PoolType, WalkFits, Active, PoolIsPaid
<1>3. IsCurve(N, K, X, Y)' /\ N \in Int /\ \A p \in Price : X[p] \in Int /\ Y[p] \in Int
  BY <1>1, CurveIsTyped DEF PoolIsPaid
<1> DEFINE u == -trader.token0  v == -trader.token1
           x == Received0(paid.in, paid.out)  y == Received1(paid.in, paid.out)
<1>4. /\ Covers(N, X, Y, u, v, o, pool.sqrtPrice)
      /\ Covers(N, X, Y, x, y, pool.sqrtPrice, state.sqrtPrice)
  BY <1>1 DEF PoolIsPaid, Active
<1>5. /\ trader' \in [token0 : Int, token1 : Int]
      /\ -trader'.token0 = u + x /\ -trader'.token1 = v + y
  <2>1. CASE call.zeroForOne
    <3>1. trader' = [token0 |-> trader.token0 - paid.in, token1 |-> trader.token1 + paid.out]
      BY <1>1, <2>1
    <3>2. x = paid.in /\ y = -paid.out
      BY <2>1 DEF Received0, Received1
    <3>3. trader'.token0 = trader.token0 - paid.in /\ trader'.token1 = trader.token1 + paid.out
      BY <3>1
    <3>4. -trader'.token0 = u + x /\ -trader'.token1 = v + y
      BY <1>2, <3>2, <3>3
    <3> QED BY <1>2, <3>1, <3>4
  <2>2. CASE ~call.zeroForOne
    <3>1. trader' = [token0 |-> trader.token0 + paid.out, token1 |-> trader.token1 - paid.in]
      BY <1>1, <2>2
    <3>2. x = -paid.out /\ y = paid.in
      BY <2>2 DEF Received0, Received1
    <3>3. trader'.token0 = trader.token0 + paid.out /\ trader'.token1 = trader.token1 - paid.in
      BY <3>1
    <3>4. -trader'.token0 = u + x /\ -trader'.token1 = v + y
      BY <1>2, <3>2, <3>3
    <3> QED BY <1>2, <3>1, <3>4
  <2> QED BY <2>1, <2>2
<1>6. u \in Int /\ v \in Int /\ x \in Int /\ y \in Int
  BY <1>2 DEF Received0, Received1
<1> HIDE DEF u, v, x, y
<1>7. Covers(N, X, Y, u + x, v + y, o, state.sqrtPrice)
  BY <1>2, <1>3, <1>4, <1>6, CoversAdd
<1>8. Covers(N, X, Y, -trader.token0, -trader.token1, o, pool.sqrtPrice)'
  BY <1>2, <1>5, <1>7 DEF Covers
<1>9. ~Active'
  BY <1>1 DEF Active
<1> QED BY <1>2, <1>3, <1>5, <1>8, <1>9 DEF PoolIsPaid

(* The other steps pay nothing and move no price. *)
LEMMA RestIsPaid ==
  ASSUME PoolInv, NEW N, NEW K, NEW X, NEW Y, NEW o, PoolIsPaid(N, K, X, Y, o),
         UNCHANGED <<book, pool, trader>>,
         Active' => /\ UNCHANGED <<call, paid>> /\ Active
                    /\ state'.sqrtPrice = state.sqrtPrice
  PROVE  PoolIsPaid(N, K, X, Y, o)'
<1>1. IsCurve(N, K, X, Y)'
  BY CurveIsTyped DEF PoolIsPaid
<1>2. Active' => /\ Active /\ call' = call /\ paid' = paid /\ state'.sqrtPrice = state.sqrtPrice
  OBVIOUS
<1>3. (Active => Covers(N, X, Y, Received0(paid.in, paid.out), Received1(paid.in, paid.out),
                        pool.sqrtPrice, state.sqrtPrice))'
  BY <1>2 DEF PoolIsPaid, Received0, Received1, Covers
<1> QED BY <1>1, <1>3 DEF PoolIsPaid, Covers

(* A swap starts where the pool is, with nothing paid. *)
LEMMA StartIsPaid ==
  ASSUME PoolInv, StartSwap, NEW N, NEW K, NEW X, NEW Y, NEW o, PoolIsPaid(N, K, X, Y, o)
  PROVE  PoolIsPaid(N, K, X, Y, o)'
<1>1. /\ UNCHANGED <<book, pool, trader>> /\ paid' = [in |-> 0, out |-> 0]
      /\ state'.sqrtPrice = pool.sqrtPrice
  BY DEF StartSwap, Swap
<1>2. IsCurve(N, K, X, Y)' /\ N \in Int /\ pool.sqrtPrice \in Price
      /\ \A p \in Price : X[p] \in Int /\ Y[p] \in Int
  BY <1>1, CurveIsTyped DEF PoolIsPaid, PoolInv, PoolType
<1>3. Covers(N, X, Y, 0, 0, pool.sqrtPrice, pool.sqrtPrice)
  BY <1>2, NothingIsOwed
<1>4. Received0(paid.in, paid.out)' = 0 /\ Received1(paid.in, paid.out)' = 0
  <2>1. paid'.in = 0 /\ paid'.out = 0 /\ paid'.out \in Int
    BY <1>1
  <2>2. -paid'.out = 0
    BY <2>1, NegativeOfZero
  <2> QED BY <2>1, <2>2 DEF Received0, Received1
<1>5. Covers(N, X, Y, Received0(paid.in, paid.out), Received1(paid.in, paid.out),
             pool.sqrtPrice, state.sqrtPrice)'
  BY <1>1, <1>3, <1>4 DEF Covers
<1> QED BY <1>1, <1>2, <1>5 DEF PoolIsPaid, Covers

(* Every step of a pool is paid for. *)
LEMMA PaidKept == PaidInv /\ [Next]_vars => PaidInv'
<1> SUFFICES ASSUME PaidInv, [Next]_vars PROVE PaidInv'
  OBVIOUS
<1>1. PoolInv /\ PoolInv'
  BY PoolInvKept DEF PaidInv
<1>2. PICK N, K, X, Y, o : PoolIsPaid(N, K, X, Y, o)
  BY DEF PaidInv
<1>3. PoolIsPaid(N, K, X, Y, o)'
  <2>1. CASE StartSwap
    BY <1>1, <1>2, <2>1, StartIsPaid
  <2>2. CASE Advance
    BY <1>1, <1>2, <2>2, AdvanceIsPaid
  <2>3. CASE Cross
    <3>1. UNCHANGED <<book, pool, trader, call, paid>> /\ pc = "moved"
          /\ state'.sqrtPrice = state.sqrtPrice
      BY <1>1, <2>3 DEF Cross, PoolInv, PoolType
    <3> QED BY <1>1, <1>2, <3>1, RestIsPaid DEF Active
  <2>4. CASE ReachEnd
    <3>1. UNCHANGED <<book, pool, trader, call, paid>> /\ pc = "moved"
          /\ state'.sqrtPrice = state.sqrtPrice
      BY <1>1, <2>4 DEF ReachEnd, PoolInv, PoolType
    <3> QED BY <1>1, <1>2, <3>1, RestIsPaid DEF Active
  <2>5. CASE StopInside
    <3>1. UNCHANGED <<book, pool, trader, call, paid>> /\ pc = "moved"
          /\ state'.sqrtPrice = state.sqrtPrice
      BY <1>1, <2>5 DEF StopInside, PoolInv, PoolType
    <3> QED BY <1>1, <1>2, <3>1, RestIsPaid DEF Active
  <2>6. CASE Return
    <3>1. UNCHANGED <<book, pool, trader, call, paid, state>> /\ pc = "loop"
      BY <2>6 DEF Return
    <3> QED BY <1>1, <1>2, <3>1, RestIsPaid DEF Active
  <2>7. CASE Quote \/ Fail
    <3>1. UNCHANGED <<book, pool, trader>> /\ ~Active'
      BY <2>7 DEF Quote, Fail, Active
    <3> QED BY <1>1, <1>2, <3>1, RestIsPaid
  <2>8. CASE Trade
    BY <1>1, <1>2, <2>8, TradeIsPaid
  <2>9. CASE UNCHANGED vars
    <3>1. UNCHANGED <<book, pool, trader, call, paid, state, pc>>
      BY <2>9 DEF vars
    <3> QED BY <1>1, <1>2, <3>1, RestIsPaid DEF Active
  <2> QED BY <2>1, <2>2, <2>3, <2>4, <2>5, <2>6, <2>7, <2>8, <2>9 DEF Next, Walk
<1>4. (\E n, k, x, y, p : PoolIsPaid(n, k, x, y, p))'
  BY <1>3
<1> QED BY <1>1, <1>4 DEF PaidInv

(* A pool that is paid for is not short. *)
LEMMA PaidMeansNoFreeLunch == PaidInv => NoFreeLunch
<1> SUFFICES ASSUME PaidInv PROVE NoFreeLunch
  OBVIOUS
<1>1. PICK N, K, X, Y, o : PoolIsPaid(N, K, X, Y, o)
  BY DEF PaidInv
<1> DEFINE p == pool.sqrtPrice  u == trader.token0  v == trader.token1
           a == X[o]  b == X[p]  c == Y[o]  d == Y[p]
<1>2. /\ book \in Books /\ p \in Price /\ o \in Price /\ p \in Int /\ o \in Int
      /\ u \in Int /\ v \in Int /\ IsCurve(N, K, X, Y)
  BY <1>1, PricesInOrder DEF PaidInv, PoolInv, PoolType, PoolIsPaid
<1>3. /\ N \in Nat \ {0} /\ Q \in Nat \ {0} /\ a \in Int /\ b \in Int /\ c \in Int /\ d \in Int
  <2>1. \A r \in Price : X[r] \in Int /\ Y[r] \in Int
    BY <1>2, CurveIsTyped
  <2>2. N \in Nat \ {0}
    BY <1>2 DEF IsCurve, Multiples
  <2> QED BY <1>2, <2>1, <2>2, ScaleAssumption
<1>4. (-u) * N >= Q * (b - a) /\ (-v) * Q >= d - c
  BY <1>1 DEF PoolIsPaid, Covers
<1>5. /\ o <= p => b <= a /\ c <= d /\ (b = a <=> d = c)
      /\ p <= o => a <= b /\ d <= c /\ (a = b <=> c = d)
  BY <1>2, CurveFalls DEF Falls
<1> HIDE DEF p, u, v, a, b, c, d
<1>6. /\ b >= a /\ u >= 0 => u = 0 /\ b = a
      /\ b = a => u <= 0
  <2>1. (-u) * N = -(u * N) /\ u * N \in Int
    <3>1. (-u) * N = -(u * N)
      BY <1>2, <1>3, SMTT(30)
    <3> QED BY <1>2, <1>3, <3>1
  <2>2. u > 0 => 1 * N <= u * N
    BY <1>2, <1>3, TimesMonotonic
  <2>3. u >= 0 => 0 * N <= u * N
    BY <1>2, <1>3, TimesMonotonic
  <2>4. b > a => 1 * Q <= (b - a) * Q
    <3>1. b - a \in Int /\ (b > a => 1 <= b - a)
      BY <1>3
    <3> QED BY <1>3, <3>1, TimesMonotonic
  <2>5. (b - a) * Q = Q * (b - a) /\ Q * (b - a) \in Int
    BY <1>3
  <2>6. b = a => Q * (b - a) = 0
    BY <1>3
  <2> QED BY <1>2, <1>3, <1>4, <2>1, <2>2, <2>3, <2>4, <2>5, <2>6
<1>7. /\ d >= c /\ v >= 0 => v = 0 /\ d = c
      /\ d = c => v <= 0
  <2>1. (-v) * Q = -(v * Q) /\ v * Q \in Int
    <3>1. (-v) * Q = -(v * Q)
      BY <1>2, <1>3, SMTT(30)
    <3> QED BY <1>2, <1>3, <3>1
  <2>2. v > 0 => 1 * Q <= v * Q
    BY <1>2, <1>3, TimesMonotonic
  <2>3. v >= 0 => 0 * Q <= v * Q
    BY <1>2, <1>3, TimesMonotonic
  <2> QED BY <1>2, <1>3, <1>4, <2>1, <2>2, <2>3
<1>8. SUFFICES ASSUME u >= 0, v >= 0 PROVE ~(u + v > 0)
  BY DEF NoFreeLunch, u, v
<1>9. CASE o <= p
  <2>1. v = 0 /\ d = c
    BY <1>3, <1>5, <1>7, <1>8, <1>9
  <2>2. u <= 0
    BY <1>5, <1>6, <1>9, <2>1
  <2> QED BY <1>2, <1>8, <2>1, <2>2
<1>10. CASE p <= o
  <2>1. u = 0 /\ b = a
    BY <1>3, <1>5, <1>6, <1>8, <1>10
  <2>2. v <= 0
    BY <1>5, <1>7, <1>10, <2>1
  <2> QED BY <1>2, <1>8, <2>1, <2>2
<1> QED BY <1>2, <1>9, <1>10

(* Trading back and forth never leaves the traders with more of one token    *)
(* and no less of the other, see PoolSwap: on every table of prices, book of *)
(* ticks and fee, through any number of swaps of either kind and direction.  *)
THEOREM SwapsGiveNothingAway == Spec => []NoFreeLunch
<1>1. Spec => []PaidInv
  BY PaidInitially, PaidKept, PTL DEF Spec
<1> QED BY <1>1, PaidMeansNoFreeLunch, PTL
=============================================================================

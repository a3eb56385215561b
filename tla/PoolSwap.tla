------------------------------ MODULE PoolSwap ------------------------------
(***************************************************************************)
(* entities/pool.go: Pool.Swap, step by step.  A swap walks lastState, a   *)
(* copy of the pool, from initialised tick to initialised tick; the pool   *)
(* itself is left alone, and a caller that trades moves it to the result.  *)
(* The ticks are those of a TickBook, which TicksHandler implements; the   *)
(* amounts and prices of a step are those of SwapMath, at its scale.       *)
(*                                                                         *)
(* The step calculator of the pool outlives a swap.  An exact-input step   *)
(* makes its amountRemainingU point to lastState.amountSpecifiedRemaining, *)
(* and an exact-output step negates amountRemainingU in place: aliased     *)
(* records whether the two are one word.                                   *)
(***************************************************************************)
EXTENDS SwapMath, FiniteSets, FiniteSetsExt

CONSTANTS MinTick, MaxTick,
          SqrtRatio,      \* the price of every tick
          Books,          \* initialised ticks, their liquidityNet, and the
                          \* liquidity of the positions that hold each tick
          Fees,           \* the fee of the pool with each of the books
          Amounts,        \* amounts that swaps specify
          Limits,         \* price limits that callers choose
          ExactInputs,    \* whether swaps specify the input: a subset of BOOLEAN
          MaxCross,       \* MAX_CROSS_INIT_TICK_LOOPS
          MaxSwaps        \* bound on the number of swaps that are traded

VARIABLES book,           \* the ticks, listed with their liquidityNet
          pool,           \* SqrtRatioX96, TickCurrent, Liquidity and Fee
          call,           \* the arguments of the swap
          state,          \* lastState
          step,           \* the current step
          crossed,        \* CrossInitTickLoops
          aliased,        \* amountRemainingU is lastState's remaining amount
          pc,
          paid,           \* what the swap has taken in, with fees, and given out
          trader,         \* what the traders have received of each token in all
          swaps,
          newPool         \* NewPoolState of the last quote

vars == <<book, pool, call, state, step, crossed, aliased, pc, paid, trader, swaps, newPool>>

Tick == MinTick .. MaxTick

ASSUME PoolAssumption ==
  /\ MinTick \in Int /\ MaxTick \in Int /\ MinTick < MaxTick
  /\ SqrtRatio \in [Tick -> 1 .. Word-1]
  /\ \A s, t \in Tick : s < t => SqrtRatio[s] < SqrtRatio[t]
  /\ \A b \in Books : /\ b.listed \subseteq Tick /\ b.net \in [b.listed -> Int]
                       /\ b.active \in [MinTick-1 .. MaxTick -> Nat]
  /\ \A b \in Books : Fees[b] \in 0 .. MaxFee-1
  /\ \A a \in Amounts : a \in Nat \ {0} /\ a * MaxFee < Word /\ a * Q < Word
  /\ ExactInputs \subseteq BOOLEAN
  /\ MaxCross \in Nat /\ MaxSwaps \in Nat

(* The nets of a book account for its positions, which fit the words.        *)
ASSUME BooksAssumption ==
  \A b \in Books :
    /\ b.active[MinTick-1] = 0
    /\ \A t \in Tick :
         b.active[t] = IF t \in b.listed THEN b.active[t-1] + b.net[t] ELSE b.active[t-1]
    /\ \A t \in MinTick-1 .. MaxTick : b.active[t] * Q < Word

Price == SqrtRatio[MinTick] .. SqrtRatio[MaxTick]

ASSUME LimitsAssumption == Limits \subseteq Price

(* The limit of a swap without one. *)
DefaultLimit(zeroForOne) ==
  IF zeroForOne THEN SqrtRatio[MinTick] + 1 ELSE SqrtRatio[MaxTick] - 1

(* The last tick whose price is not above p. *)
TickAtSqrtRatio(p) ==
  CHOOSE t \in Tick : SqrtRatio[t] <= p /\ (t < MaxTick => p < SqrtRatio[t+1])

(* The liquidity of the positions that hold tick t. *)
ActiveLiquidity(t) == book.active[t]
-----------------------------------------------------------------------------
AtOrBelow(t) == {s \in book.listed : s <= t}
Above(t) == {s \in book.listed : s > t}

(* NextInitializedTickIndex; past the last tick the step goes to the end.    *)
StepTo(t, zeroForOne) ==
  CASE zeroForOne /\ AtOrBelow(t) # {} -> [tickNext |-> Max(AtOrBelow(t)), initialized |-> TRUE]
    [] zeroForOne /\ AtOrBelow(t) = {} -> [tickNext |-> MinTick, initialized |-> FALSE]
    [] ~zeroForOne /\ Above(t) # {} -> [tickNext |-> Min(Above(t)), initialized |-> TRUE]
    [] OTHER -> [tickNext |-> MaxTick, initialized |-> FALSE]

TargetNoLimit(next) == next                                         \* mutant
Target(next) ==
  IF \/ call.zeroForOne /\ next < call.limit
     \/ ~call.zeroForOne /\ next > call.limit
  THEN call.limit ELSE next

(* What lastState's remaining amount holds once ComputeSwapStep has read it. *)
RemainingRead ==
  IF ~call.exactIn /\ aliased THEN Negated(state.remaining) ELSE state.remaining

AtEnd == state.remaining = 0 \/ state.sqrtPrice = call.limit

Swap(zeroForOne, exactIn, amount, limit) ==
  /\ pc \in {"idle", "quoted"}
  /\ call' = [zeroForOne |-> zeroForOne, exactIn |-> exactIn, amount |-> amount, limit |-> limit]
  /\ state' = [remaining |-> IF exactIn THEN amount ELSE Negated(amount), calculated |-> 0,
               sqrtPrice |-> pool.sqrtPrice, tick |-> pool.tick, liquidity |-> pool.liquidity]
  /\ crossed' = 0
  /\ paid' = [in |-> 0, out |-> 0]
  /\ pc' = "loop"
  /\ UNCHANGED <<book, pool, step, aliased, trader, swaps, newPool>>

(* One iteration, up to the fee callback. *)
Advance ==
  /\ pc = "loop" /\ ~AtEnd
  /\ \E to \in {StepTo(state.tick, call.zeroForOne)} :
     \E s \in {ComputeSwapStep(state.sqrtPrice, Target(SqrtRatio[to.tickNext]), state.liquidity,
                               state.remaining, pool.fee, call.zeroForOne, call.exactIn)} :
       /\ step' = [start |-> state.sqrtPrice, tickNext |-> to.tickNext,
                   initialized |-> to.initialized, priceNext |-> SqrtRatio[to.tickNext]]
       /\ state' = [state EXCEPT
            !.sqrtPrice = s.next,
            !.remaining = IF call.exactIn THEN Minus(RemainingRead, Plus(s.in, s.fee))
                          ELSE Plus(RemainingRead, s.out),
            !.calculated = IF call.exactIn THEN Minus(@, s.out)
                           ELSE Plus(@, Plus(s.in, s.fee))]
       /\ paid' = [in |-> paid.in + s.in + s.fee, out |-> paid.out + s.out]
  /\ aliased' = (aliased \/ call.exactIn)
  /\ pc' = "moved"
  /\ UNCHANGED <<book, pool, call, crossed, trader, swaps, newPool>>

TickAfterSame(t, zeroForOne) == t                                   \* mutant
TickAfter(t, zeroForOne) == IF zeroForOne THEN t - 1 ELSE t

(* liquidityNet is taken with the opposite sign when moving left. *)
CrossedLiquidity(liquidity, net, zeroForOne) ==
  IF zeroForOne THEN liquidity - net ELSE liquidity + net

Cross ==
  /\ pc = "moved" /\ state.sqrtPrice = step.priceNext /\ step.initialized
  /\ crossed' = crossed + 1
  /\ LET liquidity == CrossedLiquidity(state.liquidity, book.net[step.tickNext], call.zeroForOne)
     IN  \/ /\ crossed' > MaxCross
            /\ state' = [state EXCEPT !.liquidity = liquidity]
            /\ pc' = "failed"
         \/ /\ crossed' <= MaxCross
            /\ state' = [state EXCEPT !.liquidity = liquidity,
                                      !.tick = TickAfter(step.tickNext, call.zeroForOne)]
            /\ pc' = "loop"
  /\ UNCHANGED <<book, pool, call, step, aliased, paid, trader, swaps, newPool>>

ReachEnd ==
  /\ pc = "moved" /\ state.sqrtPrice = step.priceNext /\ ~step.initialized
  /\ state' = [state EXCEPT !.tick = TickAfter(step.tickNext, call.zeroForOne)]
  /\ pc' = "loop"
  /\ UNCHANGED <<book, pool, call, step, crossed, aliased, paid, trader, swaps, newPool>>

(* The tick is recomputed only when the price has moved. *)
TickInsideKept == state.tick                                        \* mutant
TickInside ==
  IF state.sqrtPrice # step.start THEN TickAtSqrtRatio(state.sqrtPrice) ELSE state.tick

StopInside ==
  /\ pc = "moved" /\ state.sqrtPrice # step.priceNext
  /\ state' = [state EXCEPT !.tick = TickInside]
  /\ pc' = "loop"
  /\ UNCHANGED <<book, pool, call, step, crossed, aliased, paid, trader, swaps, newPool>>

Return ==
  /\ pc = "loop" /\ AtEnd
  /\ pc' = "returned"
  /\ UNCHANGED <<book, pool, call, state, step, crossed, aliased, paid, trader, swaps, newPool>>

(* GetOutputAmount and GetInputAmount answer with the amounts and with a new *)
(* pool, which is made from the fields of this one.                          *)
Quote ==
  /\ pc = "returned"
  /\ newPool' = [pool EXCEPT !.liquidity = 0]
  /\ pc' = "quoted"
  /\ UNCHANGED <<book, pool, call, state, step, crossed, aliased, paid, trader, swaps>>

Fail ==
  /\ pc = "failed"
  /\ pc' = "idle"
  /\ UNCHANGED <<book, pool, call, state, step, crossed, aliased, paid, trader, swaps, newPool>>

(* A caller of Swap trades, and moves the pool to the result. *)
Trade ==
  /\ pc = "returned" /\ swaps < MaxSwaps
  /\ pool' = [pool EXCEPT !.sqrtPrice = state.sqrtPrice, !.tick = state.tick,
                          !.liquidity = state.liquidity]
  /\ trader' = IF call.zeroForOne
               THEN [token0 |-> trader.token0 - paid.in, token1 |-> trader.token1 + paid.out]
               ELSE [token0 |-> trader.token0 + paid.out, token1 |-> trader.token1 - paid.in]
  /\ swaps' = swaps + 1
  /\ pc' = "idle"
  /\ UNCHANGED <<book, call, state, step, crossed, aliased, paid, newPool>>

(* A limit is on the side of the price that the swap moves to. *)
StartSwap ==
  \E zeroForOne \in BOOLEAN, exactIn \in ExactInputs, amount \in Amounts :
    \E limit \in Limits \cup {DefaultLimit(zeroForOne)} :
      /\ IF zeroForOne THEN limit <= pool.sqrtPrice ELSE limit >= pool.sqrtPrice
      /\ swaps < MaxSwaps
      /\ Swap(zeroForOne, exactIn, amount, limit)

NoCall == [zeroForOne |-> TRUE, exactIn |-> TRUE, amount |-> 1, limit |-> SqrtRatio[MinTick]+1]

(* NewPoolV3 with the liquidity that is active at its price.                 *)
Init ==
  /\ book \in Books
  /\ \E p \in Price \ {SqrtRatio[MinTick], SqrtRatio[MaxTick]} :
       pool = [sqrtPrice |-> p, tick |-> TickAtSqrtRatio(p),
               liquidity |-> ActiveLiquidity(TickAtSqrtRatio(p)), fee |-> Fees[book]]
  /\ call = NoCall
  /\ state = [remaining |-> 0, calculated |-> 0, sqrtPrice |-> 0, tick |-> 0, liquidity |-> 0]
  /\ step = [start |-> 0, tickNext |-> 0, initialized |-> FALSE, priceNext |-> 0]
  /\ crossed = 0 /\ aliased = FALSE /\ pc = "idle"
  /\ paid = [in |-> 0, out |-> 0]
  /\ trader = [token0 |-> 0, token1 |-> 0]
  /\ swaps = 0
  /\ newPool = pool

Walk == Advance \/ Cross \/ ReachEnd \/ StopInside \/ Return

Next == StartSwap \/ Walk \/ Quote \/ Fail \/ Trade

Spec == Init /\ [][Next]_vars

(* Swap is one call that runs to its end. *)
FairSpec == Spec /\ WF_vars(Walk)
-----------------------------------------------------------------------------
Running == pc \in {"loop", "moved"}

(* The price stays between the pool's and the limit, whatever the roundings  *)
(* of the steps, across any number of ticks.                                 *)
PriceWithinLimit ==
  Running \/ pc = "returned" =>
    IF call.zeroForOne THEN call.limit <= state.sqrtPrice /\ state.sqrtPrice <= pool.sqrtPrice
    ELSE pool.sqrtPrice <= state.sqrtPrice /\ state.sqrtPrice <= call.limit

(* Between steps the tick is the one the price is in; only on a tick's own   *)
(* price may it be the tick on the left, which a swap to the left leaves.    *)
TickHoldsPrice ==
  pc \in {"loop", "returned"} =>
    /\ state.tick >= MinTick => SqrtRatio[state.tick] <= state.sqrtPrice
    /\ state.tick < MaxTick => state.sqrtPrice <= SqrtRatio[state.tick + 1]

(* The liquidity of a step, which the fee callback is given with the tick,   *)
(* is that of the positions holding the tick: every initialised tick on the  *)
(* way is crossed exactly once, in any sequence of swaps back and forth.     *)
LiquidityIsActive ==
  Running \/ pc = "returned" => state.liquidity = ActiveLiquidity(state.tick)

(* An exact input is never exceeded, and what is left of it is returned; an  *)
(* exact output is never exceeded, as long as the calculator of the pool has *)
(* never seen an exact input.                                                *)
AmountsAddUp ==
  Running \/ pc = "returned" =>
    /\ call.exactIn => paid.in + state.remaining = call.amount
    /\ ~call.exactIn /\ ~aliased => paid.out <= call.amount

(* An exact output is never exceeded: "Given a desired output amount of a    *)
(* token, return the computed input amount" (GetInputAmount).                *)
NoMoreThanDesired ==
  (Running \/ pc = "returned") /\ ~call.exactIn => paid.out <= call.amount

(* Trading back and forth never leaves the traders with more of one token    *)
(* and no less of the other: every rounding is in the pool's favour.         *)
NoFreeLunch ==
  ~ /\ trader.token0 >= 0 /\ trader.token1 >= 0
    /\ trader.token0 + trader.token1 > 0

(* "The output amount and the pool with updated state" (GetOutputAmount).    *)
NewPoolIsUpdated ==
  pc = "quoted" => newPool.sqrtPrice = state.sqrtPrice /\ newPool.tick = state.tick

(* Every swap ends. *)
Terminates == pc = "loop" ~> pc \in {"returned", "failed"}
=============================================================================

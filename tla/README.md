# Verification of uniswapv3-sdk-uint256

TLA+ models, TLC runs and TLAPS proofs for the Go port of the Uniswap V3 SDK
that keeps its numbers in 256-bit words and replays a pool's history through a
handler of initialised ticks. Every definition is translated from the code;
`PROJECT.json` names, for each, the lines it stands for.

## The system

The package is a library: one goroutine at a time uses a pool, nothing is
persisted, nothing is sent. The one place where goroutines run side by side is
the table of prices that is filled when the package is loaded. What makes the
library hard is state that lives longer than a call (hints, caches,
temporaries, pointers into other structures), integer arithmetic whose every
rounding must favour the pool, and transactions that are written without
seeing the chain they run on.

| Part | State | Operations | Hard because |
| --- | --- | --- | --- |
| `TicksHandler` (`entities/tickdataprovider.go`) | sorted slice of ticks, smallest and largest index, sequential hint `lastResultIdx`, four-slot tick cache | `SetTicks`, `Clone`, `UpdateTicksAfterMint`, `UpdateTicksAfterBurn`, `GetTick`, `NextInitializedTickIndex` | hint and cache are slice indices that every insertion and deletion must shift; several reads have no bounds test |
| Tick list (`entities/ticklist.go`, `ticklistdataprovider.go`) | a validated slice | `ValidateList`, `GetTick`, `NextInitializedTickIndex` | last read of the search, equal neighbours |
| `Pool.Swap` and the quotes (`entities/pool.go`) | price, tick, liquidity; `lastState` and `step` during a swap; cached prices | `Swap`, `GetOutputAmount`, `GetInputAmount`, prices | a loop over ticks that ends only on an exact price, liquidity that must be crossed exactly once, results that alias `lastState` |
| `SwapStepCalculator` (`utils/swap_math.go`) | `amountRemainingU`, cached fee constants | `ComputeSwapStep` | a pointer to the caller's word survives the call; errors are dropped |
| `SqrtPriceCalculator` (`utils/sqrtprice_math.go`) | temporaries | amount deltas, next prices | directions of rounding, overflow tests, words that wrap |
| `FullMath`, `Uint256Utils` (`utils/full_math.go`, `uint256.go`) | quotient, remainder, reciprocal of the last divisor | products and divisions of words | rare correction steps, stale cache and words |
| `TickCalculator` (`utils/tick_math.go`), `NearestUsableTick`, conversions | table of all prices, filled by goroutines | price of a tick, tick of a price | chunks of the table, an estimate from a floating-point logarithm |
| `MaxLiquidityForAmounts`, `Position` (`utils/max_liquidity_for_amounts.go`, `entities/position.go`) | two temporaries, cached amounts | amounts, liquidity, slippage | answers that point to temporaries, directions of rounding, products that wrap |
| `Route`, `Trade` (`entities/route.go`, `trade.go`) | cached prices, sorted list of best trades | construction, best-trade search, prices, slippage | slices shared between branches of the search, prices read forwards and backwards |
| Calldata encoders (`periphery/*.go`) | none | `SwapCallParameters`, `QuoteCallParameters`, `AddCallParameters`, `CollectCallParameters`, `RemoveCallParameters`, the staker's | order, recipients, minimums and value of calls that run later, elsewhere, all or none |
| `IntTypes`, constants, retired code, examples | none | | nothing several steps could get wrong |

They interact by calls: `Pool.Swap` asks the handler for the next tick
(`NextInitializedTickIndex`), the tick calculator for its price and the step
calculator for amounts and the next price, then calls back the consumer of fees
(`FeeStepCallback`), and on reaching the tick asks the handler for its
`liquidityNet`. The handler's hint is set by the swap and used by the next one;
mints and burns of the replayed history come between swaps and change the slice
under it. The calculators are fields of the pool and outlive a swap. Positions
hold their pool and see it move. Trades quote through the pools of their routes;
the encoders read trades and positions and write transactions.

What makes each part correct:

* **handler**: after any history it holds exactly the ticks of the positions
  there are, with their liquidity; the slice is sorted, hint and cache point to
  what they claim, and no answer depends on them;
* **step**: the price never passes its target, input is used up or the target
  is reached, output is never above what is asked, fees are at least their
  share, and every rounding is in the pool's favour;
* **swap**: it ends, stays within its limit, adds up over its ticks, crosses
  every tick once, and leaves tick, price and liquidity in agreement, so that
  trading back and forth never profits;
* **word arithmetic**: quotient and remainder are those of the integers;
* **ticks and prices**: no entry of the table is read before it is filled, and
  the tick found for a price is the last one at or below it;
* **position**: liquidity is what the amounts buy, no more and no less;
  minimums are what the market can meet; a kept answer reads as answered until its
  word is answered with again;
* **trade**: the best trades are the best ones, a trade's price is a loss
  against the mid price, never a gain;
* **encoders**: a transaction keeps the caller's terms, leaves nothing behind,
  and goes through unless the market moved too far.

## Modules

| Module | Models | State and actions |
| --- | --- | --- |
| `GoSlices` | slices as functions on `0 .. n-1`, `slices.Insert`, `slices.Delete`, order, and what the handler's search returns | operators |
| `UpperBoundSearch` | `TicksHandler.binarySearch` round by round | `pos` and `step` are the code's; `Iterate` is a round, `Return` the last lines |
| `TickList` | the legacy tick list: validation, then one query on the list, its search round by round | a behaviour is one list and one call |
| `TickMath` | the table of prices and the goroutines that fill it, `GetTickAtSqrtRatioV2`, `NearestUsableTick`, `PriceToClosestTick`, `TickToPrice` | `StartWorker`, `Fill` and `Wait` load the package; `StartSearch`, `Down`, `Up`, `Found` are the parts of the search |
| `TickBook` | what a tick handler promises, without list, bounds, hint or cache | gross and net liquidity per tick, one action per kind of call, the last call with its arguments and its answer |
| `TicksHandler` | the handler as it is written | `h` is the struct (`last` is `lastResultIdx`, `cacheTick`, `cacheIdx`, `valid`, `next` the cache); one action per method |
| `TickHistory` | a handler driven by the positions of a pool | adds the ledger of positions, which decides what mints and burns there can be |
| `SwapMath` | the arithmetic of `sqrtprice_math.go` and `swap_math.go` | operators on words of any size |
| `SwapStep` | one call of `ComputeSwapStep` with any arguments | `Compute` |
| `PoolSwap` | `Pool.Swap`, the pools that quotes return, and a caller that trades | `state` is `lastState`, `step` is `step`; `Advance` is an iteration up to the fee callback, `Cross`, `ReachEnd` and `StopInside` are the three ways it goes on |
| `WordDivision` | `udivrem` with Knuth's algorithm, its cached divisor and the rounding around it, `DivByMaxFeeInto`, `mulRsh96_2x3` | a call is `StartNew` or `StartAgain`, one `MakeDigit` per word of the quotient, `Return`; `cache`, `rem` and `remainder` outlive the call |
| `PositionAmounts` | `MaxLiquidityForAmounts`, `Position` and the pool's cached price, under a pool that moves | `words` are `amount1Tmp` and `amount2Tmp`, `cached` the amounts kept, `held` (history) all answers given so far with their pointers; one action per method, `MovePool` |
| `Trades` | `NewRoute`, `MidPrice`, `FromRoutes`, `newTrade`, amounts, slippage, prices and impact of trades of several routes | operators |
| `BestTrades` | the recursive searches `BestTradeExactIn` and `BestTradeExactOut` with `FromRoute` and `sortedInsert` | `frames` is the stack of calls, `arrays` the memory that slices of pools point into; one action per way through the loop's body |
| `Payments` | `payments.go`, `selfpermit.go`, `multicall.go` | operators: a call is a record |
| `SwapRouter` | `SwapCallParameters`, `EncodeRouteToPath`, `QuoteCallParameters` | operators |
| `PositionManager` | the position manager's and the staker's call parameters | operators |
| `Periphery` | a caller that asks, a transaction that is sent, and the contracts that carry it out call by call on a market that moves | `Ask` builds the transaction, `Send` pays its value, one action per contract function, any of which may undo it all |
| `Searches` | `UpperBoundSearch` and `TickList` side by side | the first state chooses which of the two runs; the other's variables keep one value |
| `SearchesProofs` | proofs about both searches | |
| `TicksHandlerProofs`, `TickHistoryProofs` | proofs about the handler, and about the positions that drive it | |
| `ArithmeticProofs` | proofs about `SwapStep`, `TickMath` and `WordDivision` | |
| `SwapMathProofs`, `PoolSwapProofs`, `PositionAmountsProofs`, `BestTradesProofs` | proofs about the module of that name | |
| `MC...` | constants for TLC; `MCArithmetic` also puts parts that do not interact side by side in one run | |

`TicksHandler` takes the search by its result, which `UpperBoundSearch`
establishes (and TLAPS proves) of the loop. `TicksHandler` is shown to implement
`TickBook` (`IsTickBook`, with the liquidity per tick read off the slice as
refinement mapping; both record the last call, so that every step must be the
book's step for the same call with the same answer). `TickHistory` extends
`TicksHandler` with histories the book's user would not make: a handler filled
by mints alone, or emptied by burns. `PoolSwap` takes
the ticks as `TickBook` promises them, as a set with a `liquidityNet` each and
the liquidity in range that these sum up to, and the tick of a price as
`TickMath` finds it.
`SwapStep`, `PoolSwap` and `PositionAmounts` all extend `SwapMath`: the first
checks one step over all arguments of a small scale, the second sequences of
steps, the third what positions make of the same amounts.
`WordDivision` establishes, word by word, the results by which `SwapMath` takes
`FullMath`. `BestTrades` takes a pool's quote as any function of pool, token and
amount: a search asks in one direction only and moves no pool.
`Periphery` composes: `SwapRouter` and `PositionManager` extend `Payments`,
which extends `Trades`; the amounts of positions come from `PositionAmounts`
by their results, as constants.

Abstractions worth knowing. Liquidity in the handler is an integer (the
contract keeps it below 2^128). Prices, amounts and liquidity in `SwapMath` are
small numbers with `Q` for 2^96, `Word` for 2^256 and `MaxFee` for 1000000, and
the arithmetic wraps at `Word` where the code's does. A price that a next-price
function refuses is `Failed`: the code drops the error and keeps whatever the
result word held, and `StaysBeforeTarget` shows that this never happens for an
argument a swap can give. The table of prices in `PoolSwap` and in
`PositionAmounts` is any strictly increasing one. `WordDivision` has words of
`W` bits for 64 and a 96-bit shift of
a word and `S` bits; a digit is made from the words the code makes it from and
wraps as they do, while the subtraction of a multiple of the divisor, which the
code does word by word, is that of the numbers with its borrow, and the product
of `umul` is that of the numbers which the words it multiplies make (of
`umul_lo3` without the two words it leaves out): a carry lost inside these
helpers would not be seen, one lost in the columns of `mulRsh96_2x3` or in the
correction steps would. `udivrem` has a
copy of Knuth's loop for each length of divisor; they are one definition.
`TickMath` takes the estimate from the logarithm as any tick within an error
that grows with the tick (`ErrorAt`), and the carry that the code drops where it
rounds a price up to 96 bits as the addition of one that it is meant to be.
A call to a contract is a record of the
function and of those arguments that decide where money and positions go;
packing is the ABI library's. The contracts are external: the actions of
`Periphery` are what the calls rely on. A pool of `Trades` quotes at a fixed
price with the rounding of a pool, and the market moves by a factor when the
transaction runs. Definitions marked `mutant` are variants that a plausible
mistake in the code would give; nothing in the models uses them, each is there
to see that a property notices it.

## Runs

Passing runs:

| Run | Instance | Shows |
| --- | --- | --- |
| `searches` | all sorted lists of up to 6 ticks over 6 indices and all arguments; all lists of up to 4 ticks over 4 indices, valid or not, and all queries | both searches find the last tick at or below their argument; the branchless one halves |
| `ticks_handler` | 3 ticks, 2 cache slots, gross liquidity up to 2 per tick, burns limited per tick only | slice, bounds, hint and cache stay exact, no panic, the book is implemented |
| `tick_history` | 4 ticks on both sides of 0, positions of size 1 over all 6 ranges, burns of 0, 2 snapshots; any history, from a load or from nothing | the slice is that of the ledger, also when a burn must find its ticks by a stale hint and cache; walking it gives the liquidity in range |
| `arithmetic` | 25 ticks a factor of 1.25 apart, filled by up to 4 goroutines in every order, prices on, beside and beyond them, every estimate within its error; words of 5 bits: dividends and divisors of up to four words, products of up to six words, the shifted product of two words and three, 22 calls with divisors of every length in any order on one calculator; one step with prices 1 to 12, liquidity 0 to 20, amounts 1 to 24, 3 fees, both directions, exact input and output | no price is read before it is filled, the tick of a price is found from any estimate, usable and closest ticks are the nearest; quotients, remainders and errors are those of the integers, the cache holds its divisor's reciprocal; a step stops at its target, is exact, and never leaves the pool short |
| `pool_swap` | 7 ticks, 4 layouts of positions (nested, with a gap, adjacent, full range), two of them with a fee, every price, exact input and exact output of 1 and 11, a limit inside, at the end or none, at most 2 crossings, sequences of 2 trades and any quotes in between | price within its limit, tick holds price, liquidity is active, amounts add up and are not exceeded before the aliasing of `input_then_output`, no profit from rounding, every swap ends |
| `best_trades` | five pools between three tokens in every order, both directions, up to 3 results and 3 hops (4 for exact output); lists that are empty, have a pool twice or one that cannot be quoted | the trades are the best there are and keep their pools; the path, the pools and the hops left of every call are its own; errors have a reason |
| `position` | 11 ticks whose prices square past a word in the upper half; pools inside every range of three usable ticks, on its ends and outside, also at the tick below their price; amounts of 9, 101 and the largest word, both precisions, tolerances of 1/10 and 1; 3 calls with moves of the pool between them | the liquidity bought can be minted with the amounts, none is left to gain in full precision, minimums can be met, kept answers read theirs until their word is used again, kept amounts are of the pool that decided them |
| `periphery` | three tokens, one of them wrapped ether, five pools; trades of one and two routes of up to three hops, lists of two trades, both types, with slippage, fee, limit and permits; quotes, mints, increases, collections, removals, transfers, deposits, rewards and withdrawals; rates that move up, not, to the tolerance and past it | nothing stays in the contracts, terms are kept, calm markets let everything through, stakes and positions are kept, price impact is a loss |

Why the bounds are enough. The shortcuts of the handler look one index to the
left or right of the last result and compare a slot with a tick: three ticks
give every relative position of hint, insertion and deletion, four add an
insertion between two listed ticks on either side, two slots give replacement
while the replaced tick is listed. Gross liquidity of 2 gives a tick whose net
liquidity is zero while positions use it, and partial burns. The scale of the
swap runs is chosen so that every branch of the arithmetic is taken: exact and
inexact quotients, steps that stop on, before and at their start, steps with no
liquidity, amounts that are used up by the fee alone, targets that are limits.
`Word` exceeds every product that does not wrap in the code, and in `position`
is passed by the same products that pass 2^256. Five bits
is the smallest word in which every correction occurs, among them the second
one of `udivrem2by1` without the first; products stop at six words, TLC's
integers being of 32 bits. 25 entries in four chunks make the last chunk a
short one, and an error of one tick in four makes both correcting loops run more
than once, to the ends and from them. Three hops give a path that grows twice,
and a way back through a token that was left; the fourth is where exact input
goes wrong. Requests for no hops, no results or fewer are the void ones. Three tokens let wrapped ether be the first and the second token of
a pool, the input, the output and one in the middle; two routes show amounts
that are summed, two trades what is decided from the first alone.

Fairness. `PoolSwap` assumes weak fairness of its loop:
the loop is straight-line code of one goroutine and no statement in it waits.
The caller's actions (`StartSwap`, `Trade`, `Quote`) get none. The other modules
state no liveness. `CHECK_DEADLOCK FALSE` is set where a behaviour may stop: one
call that has returned, a caller that has made its last trade, a transaction
that is done or undone, a panic.

Where the code and its words differ:

| Run | What it shows |
| --- | --- |
| `input_then_output` | after an exact-input swap the step calculator's word is `lastState`'s remaining amount, and an exact-output swap exceeds the desired output |
| `shared_route` | from four hops on, `append(currentPools, pool)` writes into an array that an earlier route of the answer has: a trade is returned with the last pool of another, which does not give its output |
| `new_pool` | the pool that a quote returns is documented as updated; it has price and tick from before the trade |
| `router_liquidity` | without full precision a position's liquidity is to be what the router calculates; the product of its two square-root prices is taken in one word, and for high prices the liquidity is far below the router's |

Observations that the models rest on or show without a run of their own.

Handler, list and ticks:

* `tickdataprovider.go:31` says the hint is -1 at initialisation; it is 0, and
  mints into a new handler move it past the end of the slice, where `GetTick`
  reads. `tick_history` starts from such handlers.
* `ticklist.go:165` promises the largest tick at or below the argument; above
  the last tick the search of the tick list reads past the slice (`NotListed`
  with `Panic`, reached through `GetTick`), and only the early returns of
  `NextInitializedTick` keep its callers from it.
* `ValidateList` lets neighbours of equal index through (`isTicksSorted`,
  `ticklist.go:155`), and the search may end on the first of them: the next tick
  above is then the tick asked about.
  `ListAnswersRight` allows that answer for such a tick and no other.
* `pool_swap_boundary_test.go:169` expects `ErrBelowSmallest` below the smallest
  tick; a handler filled by mints alone keeps 0 as its smallest index and
  answers with the tick above, which is why `BoundsExact` is an invariant of
  `ticks_handler` only, whose handlers are loaded.
* `tick_math.go:197` and `206` expect an estimate less than a tick off and at
  most two corrections; the factor of line 198's logarithm is 2 divided by
  0.0001/ln 2, not by log2(1.0001), so that the estimate lags by one tick in
  20000: some 45 ticks at the ends. The loops make up for it (`FoundIsFloor`).
* `PriceToClosestTick` reads past the table for a price at or above that of the
  last tick (`Panic` in `ClosestTick`).

Pools and positions:

* A pool keeps its first `Token0Price` (`pool.go:230`), also after a caller has
  moved it, and the square of a price of 2^128 or more is taken in one word:
  `MinimumsCanBeMet` asks for slippage only where the price is the pool's.
* `NewPool` and `NewPoolV2` leave the tick spacing 0 and the calculators nil,
  and a fee without an entry in `TickSpacings` gives the spacing 0.
* The method `Amount0` (`position.go:96`) rounds up inside the range, though it
  is what the liquidity "could be burned for"; `Amount1` rounds down.
* `CalcAmount0` and `CalcAmount1` answer from one word: the second call changes
  the first's answer. `CalcAmounts` uses two, the second of them that one.
  `AnswersReadAsOfTheirTime` says which answer each pointer reads; that answers
  stay as they were given is false in this code, and the run `position` reaches
  such states.
* `Amount0` and `Amount1` answer for the "current pool price" (`position.go:95`)
  only at the first call and at forced ones.
* The upper clamp of `ratiosAfterSlippage` (`position.go:192`) subtracts one from
  the smallest ratio, not from the largest. It would take a price that squares
  past a word to reach it. `MintAmountsWithSlippage` takes the two ratios in
  swapped order (`position.go:210`) and uses both names accordingly.
* `FromAmounts` divides by the width of its range before `NewPosition` refuses
  an empty one. It takes any liquidity; the model's guard
  `liquidity * Q < Word` is a precondition on its callers that the code does not
  test, and a position beyond it is not modelled.

Routes and trades:

* `NewRoute` accepts an output that its last pool merely involves, the token the
  path enters it with, for one.
* `MidPrice` compares the first pool's `token0` with the input as it is given:
  native ether is neither of its tokens and reads as the second, so that with
  wrapped ether as `token0` the price is the inverse. `ImpactIsALoss` is about
  token inputs.
* `ExecutionPrice` (`trade.go:144`) follows a nil pointer unless both amounts
  were asked for before.

Encoders:

* The refund of ether is decided by the type of the first trade
  (`swaprouter.go:111`). With mixed types, or with a price limit and exact native
  input, ether stays in the router: `NothingStays` is about one type and no limit.
* The minimum of the last call of a swap is the floor of a sum, those of the
  swaps the sums of floors.
* `QuoteCallParameters` compares pointers (`quoter.go:69`): for several hops any
  options are refused, for one a missing limit is a nil pointer to the encoder.
* A permit for the removal of liquidity cannot be packed, its spender and words
  being strings (`nonfungible_position_manager.go:374`): `RemoveCallParameters`
  with one always fails.
* `CollectRewards` stakes again in every program: the transaction is undone once
  a program has ended (`RestakesEnded`).
* Options with both a mint and an increase pack both calls and pay once; the
  model's callers give one of them.
* The override of the init code hash is discarded (`compute_pool_address.go:47`).

## Proofs

For every set of ticks and amounts, every number of cache slots, every snapshot
and every sequence of calls on a handler that is loaded before it is used and
keeps at least one tick (`Spec` of `TicksHandler`):

* `TypesHold`, `StaysInOrder`, `BoundsStayExact`, `HintStaysInRange`,
  `CacheStaysExact`, `NoCallPanics`: the invariants of `ticks_handler`.

They follow from one inductive invariant, `IInv` in `TicksHandlerProofs`: the
handler fits (typed, slice ordered, valid slots exact), the hint is in range, no
tick is empty, a nonempty handler has exact bounds, and the last call returned. None
of the invariants is inductive by itself: a burn needs the cache to find its
tick and the order of the slice to delete the right one, the hint needs the
bounds (a query above takes index `i + 1`), the bounds need the order, and
`NeverPanics` needs them all. Each method is treated in the steps the code
takes: what the lookup `TickWithSliceKey` returns and leaves in the cache, what
`InsertTick` and `DeleteTick` do to slice, slots and hint, then the halves of
mint and burn. Between the two halves of a mint the largest index may lag
behind the slice (`Lagging`); the second half repairs it because the upper tick
is above the lower one.

* `SearchIsRight`, `SearchStaysBracketed`, `SearchHalves`
  (`SearchesProofs`): for sorted slices of any length the branchless
  search returns the last tick at or below its argument, and every iteration
  leaves at most half of the slice in doubt. The loop invariant is `Bracket`
  with the types.

* `ListAnswersAreRight` (`SearchesProofs`): over a list of any length that
  `ValidateList` accepts, every query of the tick list is answered with the
  nearest tick on the asked side, or with none where there is none. The list may
  have neighbours of equal index, and then there is one exception: asked for
  the next tick above one that is listed twice, the code may answer with that
  tick itself (`ListedTwice`). The invariant of its search, `Narrowed`, says that the entries before `start` are
  at or below the tick and those after `end` above it. The early returns of
  `NextInitializedTick` see to it that there is an entry on either side, so that
  the last read, one past the part that is left, lands on the first entry above
  and not past the slice.

* `TableGetsBuilt`, `SearchEndsOnTheFloor` (`ArithmeticProofs`): for every number
  of ticks and of processors the table is complete before a price is read from
  it, and from any estimate the two loops end on the last tick whose price is at
  or below the one asked for.

The first follows from `BInv`: every worker has filled its chunk up to its next
entry, the chunks started by the end of the loop cover the table (the last may
be short, or not needed at all), and the wait ends when all of them are full.
The second takes `BInv` and the search's own invariant `SInv`: the index stays
in the table, and once it goes up its entry is at or below the price, or it is
the first. The second loop stops before an entry above the price, and an
increasing table has one such place, which is the tick the property asks
for. How far the estimate may be off plays no part: the two loops, not the
logarithm, make the answer right. The estimate's error bounds only how long
they run.

* `UsableTickIsNearest`, `ClosestTickIsBelow` (`ArithmeticProofs`): for every
  spacing and every range of ticks a usable tick is a multiple of the spacing in
  the range and none is nearer, halves and both ends of the range included; for
  every price of two tokens in either order the closest tick's price is at or
  below it (or the tick is the smallest) and the next tick's is above. The
  second goes from the integer square root and its rounding to the table and,
  for tokens in the other order, through the inverse. `UInv` and `CInv` add that
  the answer stands until the next request.

* `ImplementsTickBook` (`TicksHandlerProofs`): the handler, for every `Spec` of
  the kind above, implements `TickBook`. The mapping reads gross and net
  liquidity of each tick off the slice (`GrossAt`, `NetAt`) and takes the last
  call and its answer as they are, so a step of the handler must be the book's
  step for the same call with the same answer. `Booked` says what the halves of
  a mint and of a burn do to the book: they move the amounts of one tick, and
  inserting, deleting or shifting leaves those of every other (`OthersStay`).
  Queries need `IInv`: the answers of hints, cache and search agree because the
  slice is sorted and complete. This is the sense in which hint and cache cannot
  be seen from outside.

* `TicksAreThoseOfPositions`, `WalkStaysActive` (`TickHistoryProofs`): for every
  finite set of ticks, every number of cache slots and every history of
  positions, from a load or from nothing, emptied by burns or not, the slice
  lists exactly the ticks of the positions there are with exactly their
  liquidity, and a pool that walks it has, wherever it stops, the liquidity of
  the positions in range. Neither needs the hint or the bounds to be right, which
  in these histories they may not be.

Their inductive invariant `HInv` says that slice and cache are sound (`Sound`:
fitting, no empty tick) unless the last call panicked, and that the amounts read
off the slice are the ledger's at every tick (`BookIs`). It needs both halves. A
burn finds its two ticks because the ledger's gross liquidity at them covers the
position (`LedgerCovers`), which says something of the slice only through
`BookIs`; it is booked on the right ticks only if the slice is in order and the
cache exact. `MintBooks` and `BurnBooks` of `TicksHandlerProofs` serve both this
proof and the implementation of `TickBook`, which is why the hint and the
bounds are no part of `Fit`. On the ledger's side everything is a sum over
positions: the first part of `TickHistoryProofs` proves what such sums do when
an element is taken out, changed or renamed, for unions, for differences and for
sums by groups, starting from the fold by which `MapThenSumSet` is defined. The
walk's theorem is then an exchange of sums: what starts less what ends up to a
tick is what is in range there (`ActiveIsSumOfNets`).

* `StepStaysBeforeTarget`, `StepAmountIsExact`, `StepPoolNeverShort`
  (`ArithmeticProofs`): for every scale of words, fees and prices and all
  arguments that fit them, a step ends between its start and its target, none of
  the errors it drops occurs, it uses or delivers exactly what it says, and its
  roundings favour the pool.

`SwapMathProofs` carries them. It states each rounded division as a floor or a
ceiling of the exact fraction (`IsFloor`, `IsCeiling`), composes them (a ceiling
of a ceiling is one ceiling), and from there bounds the next price of each of the
four kinds of step (input or output, left or right), also where the code falls
back to the less exact form because a product does not fit its word. A step is
then a move (`IsMove`) along the curve whose input is rounded up and whose output
is rounded down.

* `DivisionInvariantHolds`, `DivisionsAreExact`, `CacheBelongsToItsDivisor`
  (`ArithmeticProofs`): for every size of a word, every dividend and divisor of
  up to four words, every product, and whatever was divided before, a division
  answers with the exact quotient, rounded as its name says, and the remainder,
  or reports that the quotient has more than four words; the kept divisor is
  normalised and has its own reciprocal.

`DivisionInvariant` says what is left while digits are made (`DigitsSoFar`: the
shifted dividend is the digits so far times the divisor plus `un`, which has no
digit left above the next one), that the cache is a normalised divisor
(`CacheIsPrepared`) and that the remainder is where the call wants it
(`RemainderIsWritten`). What a digit must be is `DigitIsQuotient`: the quotient
of its window by the divisor. For one word of divisor that is `TwoWordsByOne`,
the division by a reciprocal: the candidate is never more than one away on either
side of the quotient (`CandidateRemainder` bounds what it leaves), and the two
corrections, made on words that wrap, tell the three cases apart. For more it is
`KnuthDigitIsQuotient`: because the divisor's top word has no leading zero, the
digit estimated from the top words and lowered by the test of the next ones is
the quotient or one more (`TopWordEstimate`, `NextWordTest`, `EstimateIsClose`),
and one more shows as a borrow, which the addition undoes. `FirstDigitIsEnough`
says that no digit is left out when the dividend's top word is skipped, and
`ShiftIsExact`, from the columns of the product (`ColumnsAreWords`), that the
shifted product is the quotient by 2^96. Powers of two and of the base are tables
(`PowerOf2`, `BaseTo`), whose products are found by induction on sets
(`PowersOfSums`).

* `PoolInvariant`, `SwapStaysWithinLimit`, `SwapTickHoldsPrice`,
  `SwapLiquidityIsActive`, `SwapAmountsAddUp` (`PoolSwapProofs`): for every table
  of prices, every book of ticks, every pool and every sequence of swaps and
  quotes, the price stays within the limit, the tick is that of the price, the
  liquidity is that of the positions in range, and the amounts of the steps add
  up to those of the swap.

Their inductive invariant `PoolInv` joins the types (`PoolType`), the pool
between swaps (`PoolFits`), the state of the loop (`WalkFits`), its stronger form
at the head of the loop (`BetweenSteps`), the move that has been made when the
fee callback is called (`MoveFits`) and the amounts (`AmountsFit`). The three
properties of price, tick and liquidity need each other: liquidity stays that of
the tick because a step ends at or before the next listed tick
(`StepStaysBeforeTarget`'s lemma), that tick is next because the tick held is
that of the price, and the tick stays that of the price because no listed tick is
passed. Amounts are exact until a swap of input has left its word in the step
calculator (`aliased`), as in the run `input_then_output`.

* `SwapsGiveNothingAway` (`PoolSwapProofs`): through any number of swaps of
  either kind and direction, with any fee, the traders together never end with
  more of one token and no less of the other.

No single step shows this, and the rounded amounts of a step say nothing of the
steps before it. `PaidInv` therefore keeps a curve: what the positions hold of
either token at every price, as whole numbers of the unit `1/N` in which all
prices have whole reciprocals (`X` and `Y`, with `K[p] = N/p`). The liquidity
between two listed ticks is constant (`ActiveIsConstant`), so what a step takes
and gives covers, after its roundings, the difference of the curve between its
two ends; differences add up over steps and swaps, whatever ticks lie between,
and what the traders have paid covers the curve from the first price to the
present one. Since `X` falls exactly where `Y` rises, a profit in one token is
a loss in the other, or nothing has moved.

* `PositionInvariant`, `FitsTheAmountsHolds`, `PreciseIsMaximalHolds`,
  `MinimumsCanBeMetHolds`, `AnswersReadRight` (`PositionAmountsProofs`): for
  every table of prices, every range, all amounts and tolerances and every
  sequence of calls on a pool that moves, minting what `FromAmounts` makes takes
  no more than the amounts, in full precision one unit of liquidity more would,
  the minimums are met by a burn or a mint inside the tolerance, and of all
  answers ever given each pointer reads its own until a call that shares its
  word answers, and each amount is that of the pool which decided it.

`PositionInv` joins the types (`KeepsTypes`), where the liquidity comes from
(`MadeOfAmounts`), the price that minimums were taken at (`MinimumsOfPrice`),
and what is true of the answers given (`HeldInv`): which words each method
points to (`WordsGiven`), what the pointers read (`PointersReadTheLast`), and
that an amount in the cache and in every answer was computed at the call that
decides it (`CachedWhenDecided`, `AskedWhenDecided`). `held` is a history: no
step depends on it. `LastIsRead` is the step for the words: a new answer is the
last through the words it fills, and every older pointer either shares one of
them or reads what it read. The arithmetic is about one clamped price: a
tick up to the pool's has a price up to the pool's (`InOrder`), so the
comparisons of ticks in `Position` and those of prices in
`MaxLiquidityForAmounts` come to the same price between the ends of the range.
`LiquidityFits` and `LiquidityIsMost` then turn the floors of the liquidity and
the ceilings of its amounts into one another, also where the product of two
prices wraps, which makes the imprecise liquidity smaller and never larger.

* `SearchInvariant`, `PathsAreTheWayHere` (`BestTradesProofs`): for every list of
  pools, every quote and every number of hops, each call of the search has
  before it the pools, the token and the amount of the way it has come, the
  pools that are left, and the hops that are left.
* `ThreeHopsKeepTheirPools`: with at most three hops for exact input, a trade in
  the list keeps the pools that give its amounts. That is the code's default
  (`trade.go:477`); `shared_route` shows the theorem false with four.
* `FailuresHaveReasons`, `BestTradesAreBest`: a search fails exactly for the
  reasons there are, and otherwise its answer is made of the best trades.

`SearchInv` says what each call hands on to the next and that the slices of the
calls on the stack are nested prefixes of memory. Callers share arrays with the
calls they make, and append writes into them; but it writes past the slice it
extends, and the slices of all calls on the stack are shorter than that. The
amount is then a fold over the way, and the pools left are counted down by
`Excluding`. A route that has been found ends exactly where a later append may
write, so it is kept for another reason (`RoutesInv`): with three hops the
capacities 0, 1 and 2 are the lengths, every append finds its array full and
makes another, as the literal with which exact output prepends always does.

For the answer, the specification's walks must be compared with what a stack of
calls has done. `FoundInv` gives the calls' lists ghost places in the list of the
request (`PlacesFit`): a call has exactly the places that its callers have not
taken. A walk is `Passed` if the search has come along it or if it leaves the
way for a place that one of the calls has gone past; this is the order of the
search, and each step passes the one walk `Here` or none (`SeenGoesOn`,
`SeenDescends`, `SeenReturns`), until the first call returns and all are passed.
`Found` says of the walks passed that none is a reason to fail, and that the list
answers for those that are routes: adding a trade by `sortedInsert` makes the
answer for one route more (`AddedAnswers`), since what is better or as good is
counted and the comparator is an order with ties.

The proofs rest on the named assumptions of the modules only: ticks are
integers (finitely many, where positions are summed), amounts naturals, at least
one cache slot, snapshots sorted and without empty ticks, at least one processor, prices of ticks positive and
strictly increasing (`RatiosAssumption`), parts of the prices asked about
positive and spacings positive (`RequestsAssumption`). For steps and swaps
`ScaleAssumption` asks of a word that it is even and larger than the unit of
prices; `ArgumentsAssumption` and `PoolAssumption` say what fits: prices fit a
word and for a single step `Q*Q` (the contract's are below 2^160, `Q*Q` is
2^192), liquidity fits one when shifted by 96 bits and multiplied by a fee (the
contract's is below 2^128, fees below 2^20), amounts when shifted or multiplied
by 1000000 (`swap_math.go:60` takes that product modulo 2^256, see the hazards).
`BooksAssumption` says that the liquidity in range is the running sum of
`liquidityNet` and changes at listed ticks only, which is what `WalkStaysActive`
and `TicksAreThoseOfPositions` say of a handler; `LimitsAssumption` that limits
are prices within the table. `TickListAssumption` asks for integers only.

`WordAssumption` asks for words of at least two bits, a shift of less than a word
(the code's have 64 and 32), a fee denominator of one word other than zero, and
operands of four words.

`PositionAssumption` says that prices increase with their ticks and that a pool's
lies strictly inside the table (`pool.go:27` and `28` limit every swap to that);
that a word holds the largest price shifted by `Q` and that twice a word is no
more than that price squared, as 2^160, 2^96 and 2^256 do; and that an amount,
shifted, is a word and buys, in full precision, a liquidity that is one. The last
is a precondition on callers: the code cuts a larger liquidity off to a word
(`max_liquidity_for_amounts.go:65`). So is the guard of `FromAmounts`, that the
liquidity shifted by `Q` is a word, as the 128 bits of the contract's are; the
code has no such test. `PoolAssumption` of `BestTrades` asks
that a pool has two different tokens and that requests are of their type.
Two theorems have a hypothesis of their own: `AtMostThreeHops`, and
`QuotesAreAmounts`, that what a pool quotes is a number. TLC evaluates the
assumptions for each instance.

The facts on slices are the first part of `TicksHandlerProofs`, among them that
the result of the search exists, through the library's least number principle
(`NatMinimum`, also in `SwapMathProofs`).

Model-checked only:

* the periphery (`NothingStays`, `TermsAreKept`, `CalmGoesThrough`,
  `StakesAreKept`, `ImpactIsALoss`): balances are sums over lists of calls that
  `Trades` and the encoders flatten and fold in several ways, and what those
  make of every list would be an induction over each of them;
* liveness (`Terminates`): liveness and `ENABLED` are out of the prover's reach.

Induction is stated on sets instead of predicates where it is used
(`InductionOnNat`, `InductionOnSubsets`).

## Not modelled

Pointers shared between a slice given to `SetTicks` and the handler; results of
`Swap` that alias `lastState`; the clone of an emptied handler, which panics:
these need amounts and results as heap cells, see the plan. The amounts, prices
and impact that a trade or a route keeps once asked for: the model computes them
each time, which is the same while the pools stay.

`udivremV1`, `getTickAtSqrtRatioSlow`, `MostSignificantBit` and the methods of
`IntTypes` are called by nothing but retired code; `pool_old.go`,
`tickdataprovider_old.go` and the lower-case `swap` of `pool.go` are commented
out. The examples import another version of the package and a node; the bindings
beside them are generated. The ABI library, `big.Int` and the token package are
external, as are the contracts; that the contracts do what `Periphery` says is
taken from how the calls use them.

Calls that the callers of the library do not make are left out: price limits on
the wrong side, amounts near 2^256, positions that mint and increase at once.

## Plan

1. `UpperBoundSearch`, `TickList`, `TickBook`, `TicksHandler`, `TickHistory`
   with their runs, then the proofs of the handler's invariants. *Done.*
2. `SwapMath`, `SwapStep`, `PoolSwap` with their runs. *Done.*
3. `WordDivision`: `udivrem` with its cached reciprocal and Knuth's correction
   at a small word size, `mulRsh96_2x3` and `umul_lo3`, against the division of
   the integers. *Done.*
4. `TickMath`: the table, the estimate and the two correcting loops, against the
   inverse of the table; `NearestUsableTick` and the conversions. *Done.*
5. `PositionAmounts`: the roundings and temporaries of `Position` and
   `MaxLiquidityForAmounts`, on `SwapMath`. *Done.*
6. `BestTrades` and `Trades`: the searches with Go slices that share their
   arrays; trades of several routes with prices and slippage. *Done.*
7. `Payments`, `SwapRouter`, `PositionManager`, `Periphery`: the calldata and
   what it does on a chain. *Done.*
8. `SharedAmounts`: handlers with amounts as heap cells (`SetTicks` against
   `Clone`), and `SwapResults`: results of `Swap` that alias `lastState`.
9. Proofs. *Done:* the handler's invariants and its implementation of
   `TickBook`; both searches for a tick; the table of prices, the corrected
   search, usable and closest ticks; the step; the swap, and that no sequence of
   swaps profits; the ledger of positions; the amounts of positions; the search
   for trades, with its paths, its routes, its answer and its failures; word
   division. *Left:* the contracts' balances of `Periphery`.

-------------------------- MODULE ArithmeticProofs --------------------------
(***************************************************************************)
(* What holds of the arithmetic that MCArithmetic runs.  The contract of   *)
(* ComputeSwapStep, for every set of prices, liquidities, amounts and fees *)
(* that fit the words of the code, at any scale.  Then the table of prices *)
(* and the corrected search, for every number of ticks and processors,     *)
(* every strictly increasing table and every estimate, however wrong: the  *)
(* table is built before it is read, and the search ends on the tick whose *)
(* price is the last at or below the one asked for.  Last the divisions of *)
(* words: for every size of a word, every dividend of up to eight of them  *)
(* and every divisor of up to four, and whatever was divided before, the   *)
(* digits that the code estimates and corrects are the quotient's.         *)
(***************************************************************************)
EXTENDS TickMath, SwapStep, WordDivision, SwapMathProofs

Answer ==
  ComputeSwapStep(call.p, call.target, call.liquidity,
                  IF call.exactIn THEN call.amount ELSE Negated(call.amount),
                  call.fee, call.zeroForOne, call.exactIn)

Towards == IF call.zeroForOne THEN call.target <= call.p ELSE call.target >= call.p

StepInv ==
  /\ call \in Call /\ Towards
  /\ returned \in BOOLEAN
  /\ returned => out = Answer
-----------------------------------------------------------------------------
(* A call is in the words of the code, and an amount less than a word.       *)
LEMMA CallFits ==
  ASSUME call \in Call, Towards
  PROVE  /\ call.p \in PriceWord /\ call.target \in PriceWord
         /\ call.p <= Q * Q /\ call.target <= Q * Q
         /\ Liquid(call.liquidity) /\ call.fee \in 0 .. MaxFee-1
         /\ (call.liquidity * Q) * call.fee < Word
         /\ call.zeroForOne \in BOOLEAN /\ call.exactIn \in BOOLEAN
         /\ IF call.zeroForOne THEN call.target <= call.p ELSE call.p <= call.target
         /\ call.amount \in Nat \ {0} /\ call.amount < Word /\ call.amount * MaxFee < Word
         /\ call.amount \in 0 .. Word-1 /\ Negated(call.amount) \in 0 .. Word-1
<1>1. /\ call.p \in Prices /\ call.target \in Prices /\ call.liquidity \in Liquidities
      /\ call.amount \in Amounts /\ call.fee \in Fees
      /\ call.zeroForOne \in BOOLEAN /\ call.exactIn \in BOOLEAN
  BY DEF Call
<1>2. /\ call.p \in PriceWord /\ call.target \in PriceWord
      /\ call.p <= Q * Q /\ call.target <= Q * Q
  BY <1>1, ArgumentsAssumption DEF PriceWord
<1>3. Liquid(call.liquidity) /\ (call.liquidity * Q) * call.fee < Word
  BY <1>1, ArgumentsAssumption DEF Liquid
<1>4. call.fee \in 0 .. MaxFee-1
  BY <1>1, ArgumentsAssumption, ScaleAssumption
<1>5. call.amount \in Nat \ {0} /\ call.amount * MaxFee < Word
  BY <1>1, ArgumentsAssumption
<1>6. call.amount < Word
  <2>1. 1 * call.amount <= MaxFee * call.amount
    BY <1>5, ScaleAssumption, TimesMonotonic
  <2>2. MaxFee * call.amount = call.amount * MaxFee /\ call.amount * MaxFee \in Int
    BY <1>5, ScaleAssumption
  <2> QED BY <1>5, <2>1, <2>2, ScaleAssumption
<1>7. call.amount \in 0 .. Word-1 /\ Negated(call.amount) \in 0 .. Word-1
  <2>1. -call.amount \in Int /\ Word \in Nat
    BY <1>5, ScaleAssumption
  <2>2. Negated(call.amount) \in Nat /\ Negated(call.amount) < Word
    BY <2>1, WordsInRange DEF Negated
  <2> QED BY <1>5, <1>6, <2>1, <2>2
<1>8. IF call.zeroForOne THEN call.target <= call.p ELSE call.p <= call.target
  BY <1>1, <1>2 DEF Towards, PriceWord
<1> QED BY <1>1, <1>2, <1>3, <1>4, <1>5, <1>6, <1>7, <1>8

(* The arguments of an exact input, and of an exact output.                  *)
LEMMA CallArguments ==
  ASSUME call \in Call, Towards
  PROVE  /\ call.exactIn => StepArguments(call.p, call.target, call.liquidity, call.amount,
                                          call.fee, call.zeroForOne, TRUE)
         /\ ~call.exactIn => StepArguments(call.p, call.target, call.liquidity,
                                           Negated(call.amount), call.fee, call.zeroForOne, FALSE)
BY CallFits DEF StepArguments

AnswerIn ==
  ComputeSwapStep(call.p, call.target, call.liquidity, call.amount, call.fee,
                  call.zeroForOne, TRUE)
AnswerOut ==
  ComputeSwapStep(call.p, call.target, call.liquidity, Negated(call.amount), call.fee,
                  call.zeroForOne, FALSE)

(* The answer is that of exact input or that of exact output. *)
LEMMA AnswerOfKind ==
  ASSUME StepInv, returned
  PROVE  /\ call.exactIn => out = AnswerIn
         /\ ~call.exactIn => out = AnswerOut
<1>1. call.exactIn \in BOOLEAN /\ out = Answer
  BY DEF StepInv, Call
<1>2. CASE call.exactIn
  <2>1. call.exactIn = TRUE
    BY <1>1, <1>2
  <2> QED BY <1>1, <2>1 DEF Answer, AnswerIn
<1>3. CASE ~call.exactIn
  <2>1. call.exactIn = FALSE
    BY <1>1, <1>3
  <2> QED BY <1>1, <2>1 DEF Answer, AnswerOut
<1> QED BY <1>2, <1>3
-----------------------------------------------------------------------------
(* Before the call nothing has been answered. *)
LEMMA StepInvInitially == StepInit => StepInv
BY DEF StepInit, StepInv, Towards

(* The call answers what ComputeSwapStep gives for its arguments. *)
LEMMA StepInvKept == StepInv /\ [Compute]_stepVars => StepInv'
<1> SUFFICES ASSUME StepInv, [Compute]_stepVars PROVE StepInv'
  OBVIOUS
<1>1. CASE Compute
  BY <1>1 DEF StepInv, Compute, Answer, Towards
<1>2. CASE UNCHANGED stepVars
  BY <1>2 DEF StepInv, stepVars, Answer, Towards
<1> QED BY <1>1, <1>2

(* Every call gets the answer of ComputeSwapStep and keeps its arguments.    *)
THEOREM AnswersAreSteps == StepSpec => []StepInv
BY StepInvInitially, StepInvKept, PTL DEF StepSpec
-----------------------------------------------------------------------------
(* Where a step ends, and the amounts of its move.                           *)
LEMMA AnswerIsAMove ==
  ASSUME StepInv, returned
  PROVE  /\ OnTheWay(call.p, out.next, call.target, call.zeroForOne)
         /\ IsMove(out, call.p, call.liquidity, call.zeroForOne)
<1>1. call \in Call /\ Towards /\ call.exactIn \in BOOLEAN
  BY CallFits DEF StepInv
<1>2. CASE call.exactIn
  <2>1. StepArguments(call.p, call.target, call.liquidity, call.amount, call.fee, call.zeroForOne, TRUE)
    BY <1>1, <1>2, CallArguments
  <2>2. /\ OnTheWay(call.p, AnswerIn.next, call.target, call.zeroForOne)
        /\ IsMove(AnswerIn, call.p, call.liquidity, call.zeroForOne)
    BY <2>1, StepIsAMove DEF AnswerIn
  <2> QED BY <1>2, <2>2, AnswerOfKind
<1>3. CASE ~call.exactIn
  <2>1. StepArguments(call.p, call.target, call.liquidity, Negated(call.amount), call.fee, call.zeroForOne, FALSE)
    BY <1>1, <1>3, CallArguments
  <2>2. /\ OnTheWay(call.p, AnswerOut.next, call.target, call.zeroForOne)
        /\ IsMove(AnswerOut, call.p, call.liquidity, call.zeroForOne)
    BY <2>1, StepIsAMove DEF AnswerOut
  <2> QED BY <1>3, <2>2, AnswerOfKind
<1> QED BY <1>1, <1>2, <1>3

(* The price stays between where it is and the target, see SwapStep: no      *)
(* error that ComputeSwapStep throws away occurs, whatever the scale.        *)
THEOREM StepStaysBeforeTarget == StepSpec => []StaysBeforeTarget
<1>1. StepInv => StaysBeforeTarget
  BY AnswerIsAMove DEF StaysBeforeTarget, OnTheWay
<1> QED BY <1>1, AnswersAreSteps, PTL

(* An exact amount is never exceeded, and used or delivered in full by a     *)
(* step that stops short, see SwapStep.                                      *)
THEOREM StepAmountIsExact == StepSpec => []AmountIsExact
<1>1. ASSUME StepInv, returned PROVE AmountIsExact
  <2>1. /\ call \in Call /\ Towards /\ call.exactIn \in BOOLEAN
        /\ call.amount \in Nat \ {0} /\ call.amount < Word /\ call.amount * MaxFee < Word
    BY <1>1, CallFits DEF StepInv
  <2>2. CASE call.exactIn
    <3>1. StepArguments(call.p, call.target, call.liquidity, call.amount, call.fee, call.zeroForOne, TRUE)
      BY <2>1, <2>2, CallArguments
    <3>2. Uses(AnswerIn, call.target, call.amount)
      BY <2>1, <3>1, InputIsUsed DEF AnswerIn
    <3>3. Uses(out, call.target, call.amount)
      BY <1>1, <2>2, <3>2, AnswerOfKind
    <3> QED BY <2>2, <3>3 DEF AmountIsExact, Short, StopsShort, Uses
  <2>3. CASE ~call.exactIn
    <3>1. StepArguments(call.p, call.target, call.liquidity, Negated(call.amount), call.fee, call.zeroForOne, FALSE)
      BY <2>1, <2>3, CallArguments
    <3>2. Delivers(AnswerOut, call.target, call.amount)
      BY <2>1, <3>1, OutputIsDelivered DEF AnswerOut
    <3>3. Delivers(out, call.target, call.amount)
      BY <1>1, <2>3, <3>2, AnswerOfKind
    <3> QED BY <2>3, <3>3 DEF AmountIsExact, Short, StopsShort, Delivers
  <2> QED BY <2>1, <2>2, <2>3
<1>2. StepInv => AmountIsExact
  BY <1>1 DEF AmountIsExact
<1> QED BY <1>2, AnswersAreSteps, PTL

(* The fee of a step is at least its share of the input.                     *)
LEMMA FeeIsPaid ==
  ASSUME StepInv, returned
  PROVE  out.fee \in Nat /\ out.in * call.fee <= (MaxFee - call.fee) * out.fee
<1>1. /\ call \in Call /\ Towards /\ call.exactIn \in BOOLEAN
      /\ call.amount \in Nat \ {0} /\ call.amount * MaxFee < Word
      /\ call.p \in PriceWord /\ call.p <= Q * Q /\ call.target <= Q * Q
      /\ call.target \in PriceWord
      /\ Liquid(call.liquidity) /\ call.fee \in 0 .. MaxFee-1
      /\ call.zeroForOne \in BOOLEAN /\ (call.liquidity * Q) * call.fee < Word
  BY CallFits DEF StepInv
<1>2. CASE call.exactIn
  <2>1. StepArguments(call.p, call.target, call.liquidity, call.amount, call.fee, call.zeroForOne, TRUE)
    BY <1>1, <1>2, CallArguments
  <2>2. /\ Uses(AnswerIn, call.target, call.amount)
        /\ AnswerIn.in * call.fee <= (MaxFee - call.fee) * AnswerIn.fee
    BY <1>1, <2>1, InputIsUsed DEF AnswerIn
  <2>3. out = AnswerIn
    BY <1>2, AnswerOfKind
  <2> QED BY <2>2, <2>3 DEF Uses
<1>3. CASE ~call.exactIn
  <2>1. StepArguments(call.p, call.target, call.liquidity, Negated(call.amount), call.fee, call.zeroForOne, FALSE)
    BY <1>1, <1>3, CallArguments
  <2>2. TakesShare(AnswerOut, call.fee)
    BY <2>1, FeeOfOutput DEF AnswerOut
  <2>3. out.fee = FeeShare(out.in, call.fee)
    BY <1>3, <2>2, AnswerOfKind DEF TakesShare
  <2>4. /\ OnTheWay(call.p, out.next, call.target, call.zeroForOne) /\ out.in \in Nat
        /\ out.in = InputBetween(call.p, out.next, call.liquidity, call.zeroForOne)
    BY AnswerIsAMove DEF IsMove
  <2>5. out.in <= call.liquidity * Q
    <3>1. CASE call.zeroForOne
      <4>1. call.zeroForOne = TRUE /\ out.next \in PriceWord /\ out.next <= call.p
        BY <1>1, <2>4, <3>1 DEF OnTheWay
      <4>2. InputBetween(call.p, out.next, call.liquidity, TRUE) <= call.liquidity * Q
        BY <1>1, <4>1, InputIsBounded
      <4> QED BY <2>4, <4>1, <4>2
    <3>2. CASE ~call.zeroForOne
      <4>1. call.zeroForOne = FALSE /\ out.next \in PriceWord /\ call.p <= out.next /\ out.next <= call.target
        BY <1>1, <2>4, <3>2 DEF OnTheWay
      <4>2. out.next <= Q * Q
        BY <1>1, <4>1, ScaleAssumption DEF PriceWord
      <4>3. InputBetween(call.p, out.next, call.liquidity, FALSE) <= call.liquidity * Q
        BY <1>1, <4>1, <4>2, InputIsBounded
      <4> QED BY <2>4, <4>1, <4>3
    <3> QED BY <3>1, <3>2
  <2>6. out.in * call.fee < Word
    <3>1. /\ call.fee \in Nat /\ call.liquidity * Q \in Int /\ out.in * call.fee \in Int
          /\ (call.liquidity * Q) * call.fee \in Int /\ Word \in Int
      BY <1>1, <2>4, ScaleAssumption DEF Liquid
    <3>2. out.in * call.fee <= (call.liquidity * Q) * call.fee
      BY <2>4, <2>5, <3>1, TimesMonotonic
    <3> QED BY <1>1, <3>1, <3>2
  <2> QED BY <1>1, <2>3, <2>4, <2>6, FeeIsItsShare
<1> QED BY <1>1, <1>2, <1>3

(* What comes in covers what the curve asks for, and what goes out is no     *)
(* more than it gives, see SwapStep: the pool is never short, at any scale.  *)
THEOREM StepPoolNeverShort == StepSpec => []PoolNeverShort
<1>1. ASSUME StepInv, returned PROVE PoolNeverShort
  <2>1. /\ call.p \in PriceWord /\ Liquid(call.liquidity) /\ call.zeroForOne \in BOOLEAN
        /\ call.fee \in 0 .. MaxFee-1
    BY <1>1, CallFits DEF StepInv
  <2>2. /\ OnTheWay(call.p, out.next, call.target, call.zeroForOne)
        /\ out.in \in Nat /\ out.out \in Nat
        /\ out.in = InputBetween(call.p, out.next, call.liquidity, call.zeroForOne)
        /\ out.out <= OutputBetween(call.p, out.next, call.liquidity, call.zeroForOne)
    BY <1>1, AnswerIsAMove DEF IsMove
  <2> DEFINE move == call.liquidity * (Upper - Lower)
             given == OutputBetween(call.p, out.next, call.liquidity, call.zeroForOne)
  <2>3. out.fee * (MaxFee - call.fee) >= out.in * call.fee
    <3>1. out.fee \in Nat /\ out.in * call.fee <= (MaxFee - call.fee) * out.fee
      BY <1>1, FeeIsPaid
    <3>2. (MaxFee - call.fee) * out.fee = out.fee * (MaxFee - call.fee)
          /\ out.in * call.fee \in Int /\ out.fee * (MaxFee - call.fee) \in Int
      BY <2>1, <2>2, <3>1, ScaleAssumption
    <3> QED BY <3>1, <3>2
  <2>4. CASE call.zeroForOne
    <3>1. /\ call.zeroForOne = TRUE /\ out.next \in PriceWord /\ out.next <= call.p
          /\ Lower = out.next /\ Upper = call.p
      BY <2>1, <2>2, <2>4 DEF OnTheWay, Lower, Upper
    <3>2. /\ out.in * Lower * Upper >= move * Q
          /\ given * Q <= move
      BY <2>1, <2>2, <3>1, MoveIsCovered
    <3>3. out.out * Q <= move
      <4>1. given \in Nat /\ Q \in Nat /\ move \in Int
        BY <2>1, <3>1, MoveIsNatural, ScaleAssumption DEF PriceWord, Liquid
      <4>2. out.out * Q <= given * Q
        BY <2>2, <4>1, TimesMonotonic
      <4>3. out.out * Q \in Int /\ given * Q \in Int
        BY <2>2, <4>1
      <4> HIDE DEF given, move
      <4> QED BY <3>2, <4>1, <4>2, <4>3
    <3> QED BY <2>3, <2>4, <3>2, <3>3 DEF PoolNeverShort
  <2>5. CASE ~call.zeroForOne
    <3>1. /\ call.zeroForOne = FALSE /\ out.next \in PriceWord /\ call.p <= out.next
          /\ Lower = call.p /\ Upper = out.next
      BY <2>1, <2>2, <2>5 DEF OnTheWay, Lower, Upper
    <3>2. /\ out.in * Q >= move
          /\ given * Lower * Upper <= move * Q
      BY <2>1, <2>2, <3>1, MoveIsCovered
    <3>3. out.out * Lower * Upper <= move * Q
      <4>1. /\ given \in Nat /\ Q \in Nat /\ move \in Int /\ Lower \in Nat /\ Upper \in Nat
        BY <2>1, <3>1, MoveIsNatural, ScaleAssumption DEF PriceWord, Liquid
      <4> HIDE DEF given, move
      <4>2. Lower * Upper \in Nat /\ out.out * (Lower * Upper) = out.out * Lower * Upper
            /\ given * (Lower * Upper) = given * Lower * Upper
        BY <2>2, <4>1, SMTT(30)
      <4>3. out.out * (Lower * Upper) <= given * (Lower * Upper)
        <5> given \in Int /\ out.out \in Int /\ out.out <= given
          BY <2>2, <4>1 DEF given
        <5> QED BY <4>2, TimesMonotonic
      <4>4. out.out * Lower * Upper \in Int /\ given * Lower * Upper \in Int /\ move * Q \in Int
        BY <2>2, <4>1
      <4> QED BY <3>2, <4>2, <4>3, <4>4
    <3> QED BY <2>3, <2>5, <3>2, <3>3 DEF PoolNeverShort
  <2> QED BY <2>1, <2>4, <2>5
<1>2. StepInv => PoolNeverShort
  BY <1>1 DEF PoolNeverShort
<1> QED BY <1>2, AnswersAreSteps, PTL
-----------------------------------------------------------------------------
Entry == {Unset} \cup {getSqrtRatioAtTickSlow(t) : t \in Tick}

(* A worker has filled its chunk up to its next entry.                       *)
WorkersFit ==
  /\ sqrtRatioTable \in [0 .. n-1 -> Entry]
  /\ next \in [Worker -> Int]
  /\ \A w \in Worker : Start(w) <= next[w] /\ (next[w] = Start(w) \/ next[w] <= End(w))
  /\ started \in 0 .. Workers
Filled ==
  \A w \in Worker : \A i \in Start(w) .. next[w]-1 :
    i \in 0 .. n-1 => sqrtRatioTable[i] = getSqrtRatioAtTickSlow(i + MinTick)

(* Past the loop no chunk is left, past the wait no worker is at work.       *)
EnoughStarted == pc # "starting" => started = Workers \/ Start(started) >= n
Waited == pc \notin {"starting", "waiting"} => AllDone

BInv == WorkersFit /\ Filled /\ EnoughStarted /\ Waited
-----------------------------------------------------------------------------
(* The chunks have at least one entry and cover the table.                   *)
LEMMA ChunksCover ==
  ASSUME TickMathAssumption
  PROVE  /\ n \in Nat \ {0} /\ MinTick \in Int
         /\ chunkSize \in Nat \ {0}
         /\ n <= Workers * chunkSize
<1>1. n \in Nat \ {0} /\ MinTick \in Int /\ Workers \in Nat \ {0}
  BY DEF TickMathAssumption, n, MinTick
<1> DEFINE a == n + Workers - 1
<1>2. a \in Nat /\ a >= Workers
  BY <1>1
<1>3. /\ a \div Workers \in Int
      /\ Workers * (a \div Workers) <= a
      /\ a < Workers * (a \div Workers) + Workers
  <2> HIDE DEF a
  <2> QED BY <1>1, <1>2, SMTT(30)
<1>4. a \div Workers >= 1
  <2>1. SUFFICES ASSUME a \div Workers <= 0 PROVE FALSE
    BY <1>3
  <2>2. Workers * (a \div Workers) <= 0
    <3> HIDE DEF a
    <3> QED BY <1>1, <1>3, <2>1, SMTT(30)
  <2> QED BY <1>1, <1>2, <1>3, <2>2
<1> QED BY <1>1, <1>3, <1>4 DEF chunkSize

(* Multiples of the size of a chunk are ordered as their factors are.        *)
LEMMA ChunksInOrder ==
  ASSUME NEW c \in Nat \ {0}, NEW v \in Int, NEW w \in Int
  PROVE  /\ v * c \in Int
         /\ v * c < w * c => v < w
         /\ v < w => v * c + c <= w * c
<1>1. v * c \in Int /\ w * c \in Int
  OBVIOUS
<1>2. ASSUME v < w PROVE v * c + c <= w * c
  <2>1. (w - v - 1) * c >= 0
    BY <1>2, SMTT(30)
  <2>2. (w - v - 1) * c = w * c - v * c - c
    BY SMTT(30)
  <2> QED BY <1>1, <2>1, <2>2
<1>3. ASSUME v * c < w * c PROVE v < w
  <2>1. SUFFICES ASSUME w <= v PROVE FALSE
    OBVIOUS
  <2>2. (v - w) * c >= 0
    BY <2>1, SMTT(30)
  <2>3. (v - w) * c = v * c - w * c
    BY SMTT(30)
  <2> QED BY <1>1, <1>3, <2>2, <2>3
<1> QED BY <1>1, <1>2, <1>3
-----------------------------------------------------------------------------
(* Nothing is filled and no worker started at first.                         *)
LEMMA InitBuilds ==
  ASSUME TickMathAssumption, Init
  PROVE  BInv
<1> USE ChunksCover
<1>1. \A w \in Worker : Start(w) \in Int
  BY DEF TickMathAssumption, Worker, Start
<1>2. WorkersFit
  BY <1>1 DEF Init, WorkersFit, Entry, TickMathAssumption
<1>3. Filled
  BY <1>1 DEF Init, Filled
<1>4. EnoughStarted /\ Waited
  BY DEF Init, EnoughStarted, Waited
<1> QED BY <1>2, <1>3, <1>4 DEF BInv

(* The two ways on of the loop that starts workers.                          *)
LEMMA StartWorkerBuilds ==
  ASSUME TickMathAssumption, BInv, StartWorker
  PROVE  BInv'
<1> USE DEF BInv
<1>1. Workers \in Nat \ {0} /\ started \in 0 .. Workers
  BY DEF TickMathAssumption, WorkersFit
<1>2. /\ pc = "starting" /\ UNCHANGED <<sqrtRatioTable, next>>
      /\ \/ started < Workers /\ started' = started + 1 /\ pc' = "starting"
         \/ (started = Workers \/ ~(Start(started) < n)) /\ started' = started /\ pc' = "waiting"
  BY <1>1 DEF StartWorker
<1>3. WorkersFit'
  BY <1>1, <1>2 DEF WorkersFit, Start, End, chunkSize, n, MinTick, Entry, Tick
<1>4. Filled'
  BY <1>2 DEF Filled
<1>5. Start(started) \in Int /\ n \in Int
  BY <1>1, ChunksCover DEF Start
<1>6. EnoughStarted' /\ Waited'
  BY <1>2, <1>5 DEF EnoughStarted, Waited, Start
<1> QED BY <1>3, <1>4, <1>6

(* A worker that fills its next entry writes the price that belongs there,   *)
(* whether or not another has been there before.                             *)
LEMMA FillBuilds ==
  ASSUME TickMathAssumption, BInv, NEW v \in Worker, Fill(v)
  PROVE  BInv'
<1> USE DEF BInv
<1>1. /\ n \in Nat \ {0} /\ MinTick \in Int /\ chunkSize \in Nat \ {0}
      /\ Workers \in Nat \ {0} /\ started \in 0 .. Workers /\ v \in 0 .. Workers-1
      /\ next \in [Worker -> Int]
  BY ChunksCover DEF TickMathAssumption, WorkersFit, Worker
<1>2. /\ v < started /\ next[v] < End(v)
      /\ sqrtRatioTable' = [sqrtRatioTable EXCEPT ![next[v]] = getSqrtRatioAtTickSlow(next[v] + MinTick)]
      /\ next' = [next EXCEPT ![v] = @ + 1]
      /\ started' = started /\ pc' = pc
  BY DEF Fill
<1>3. \A w \in Worker : Start(w) \in Nat /\ End(w) \in Int /\ End(w) <= n
  <2> TAKE w \in Worker
  <2>1. w \in Nat
    BY <1>1 DEF Worker
  <2>2. Start(w) \in Nat
    BY <1>1, <2>1 DEF Start
  <2> QED BY <1>1, <2>2 DEF End
<1>4. next[v] \in 0 .. n-1
  BY <1>1, <1>2, <1>3 DEF WorkersFit
<1>5. getSqrtRatioAtTickSlow(next[v] + MinTick) \in Entry
  <2>1. next[v] + MinTick \in Tick
    BY <1>1, <1>4 DEF n, Tick, MinTick, TickMathAssumption
  <2> QED BY <2>1 DEF Entry
<1>6. WorkersFit'
  <2>1. sqrtRatioTable' \in [0 .. n-1 -> Entry]
    BY <1>2, <1>4, <1>5 DEF WorkersFit
  <2>2. next' \in [Worker -> Int]
    BY <1>1, <1>2
  <2>3. ASSUME NEW w \in Worker
        PROVE  Start(w) <= next'[w] /\ (next'[w] = Start(w) \/ next'[w] <= End(w))
    BY <1>1, <1>2, <1>3 DEF WorkersFit
  <2> QED BY <1>1, <1>2, <2>1, <2>2, <2>3 DEF WorkersFit, Start, End, chunkSize, n, MinTick, Entry, Tick
<1>7. Filled'
  <2> SUFFICES ASSUME NEW w \in Worker, NEW i \in Start(w) .. next'[w]-1, i \in 0 .. n-1
               PROVE  sqrtRatioTable'[i] = getSqrtRatioAtTickSlow(i + MinTick)
    BY DEF Filled, Start, chunkSize, n, MinTick
  <2>1. CASE i = next[v]
    BY <1>2, <1>4, <2>1 DEF WorkersFit
  <2>2. CASE i # next[v]
    <3>1. i \in Start(w) .. next[w]-1
      BY <1>1, <1>2, <1>3, <2>2
    <3>2. sqrtRatioTable[i] = getSqrtRatioAtTickSlow(i + MinTick)
      BY <3>1 DEF Filled
    <3> QED BY <1>2, <2>2, <3>2 DEF WorkersFit
  <2> QED BY <2>1, <2>2
<1>8. EnoughStarted'
  BY <1>2 DEF EnoughStarted, Start
<1>9. Waited'
  <2>1. pc \in {"starting", "waiting"}
    BY <1>1, <1>2, <1>3 DEF Waited, AllDone, Finished
  <2> QED BY <1>2, <2>1 DEF Waited
<1> QED BY <1>6, <1>7, <1>8, <1>9

(* No other step changes table or workers.                                   *)
LEMMA OtherStepsBuild ==
  ASSUME BInv, UNCHANGED <<sqrtRatioTable, next, started>>,
         \/ UNCHANGED pc
         \/ pc = "waiting" /\ AllDone /\ pc' # "starting"
         \/ pc \notin {"starting", "waiting"} /\ pc' # "starting"
  PROVE  BInv'
<1>1. WorkersFit' /\ Filled' /\ AllDone' = AllDone
  BY DEF BInv, WorkersFit, Filled, AllDone, Finished
<1>2. EnoughStarted' /\ Waited'
  BY <1>1 DEF BInv, EnoughStarted, Waited
<1> QED BY <1>1, <1>2 DEF BInv

(* Every step keeps what the table needs. *)
LEMMA NextBuilds ==
  ASSUME TickMathAssumption, BInv, [Next]_vars
  PROVE  BInv'
<1>1. CASE StartWorker
  BY <1>1, StartWorkerBuilds
<1>2. CASE \E w \in Worker : Fill(w)
  BY <1>2, FillBuilds
<1>3. CASE Wait
  BY <1>3, OtherStepsBuild DEF Wait
<1>4. CASE Searching
  BY <1>4, OtherStepsBuild DEF Searching, Down, Up, Found
<1>5. CASE \E r \in Requests : StartSearch(r) \/ AskNearestUsableTick(r)
  BY <1>5, OtherStepsBuild DEF StartSearch, AskNearestUsableTick
<1>6. CASE UNCHANGED vars
  BY <1>6, OtherStepsBuild DEF vars
<1> QED BY <1>1, <1>2, <1>3, <1>4, <1>5, <1>6 DEF Next, Loading

(* Every entry lies in the chunk of a worker that was started and is done.   *)
LEMMA BuiltWhenReady ==
  ASSUME TickMathAssumption, BInv, pc \notin {"starting", "waiting"}, NEW i \in 0 .. n-1
  PROVE  sqrtRatioTable[i] = getSqrtRatioAtTickSlow(i + MinTick)
<1> DEFINE c == chunkSize
           w == i \div c
<1>1. /\ n \in Nat /\ c \in Nat \ {0} /\ n <= Workers * c /\ i \in Nat /\ i < n
      /\ Workers \in Nat \ {0} /\ started \in 0 .. Workers
  BY ChunksCover DEF TickMathAssumption, BInv, WorkersFit
<1>2. w \in Int /\ w * c <= i /\ i < w * c + c
  <2> HIDE DEF c
  <2> QED BY <1>1, SMTT(30)
<1>3. w >= 0
  <2>1. SUFFICES ASSUME w + 1 <= 0 PROVE FALSE
    BY <1>2
  <2> HIDE DEF w, c
  <2>2. (w + 1) * c <= 0 /\ (w + 1) * c = w * c + c
    BY <1>1, <1>2, <2>1, SMTT(30)
  <2> QED BY <1>1, <1>2, <2>2
<1>4. w < started
  <2> HIDE DEF w, c
  <2>1. n <= started * c
    BY <1>1 DEF BInv, EnoughStarted, Start, c
  <2>2. w * c < started * c
    BY <1>1, <1>2, <2>1
  <2> QED BY <1>1, <1>2, <2>2, ChunksInOrder
<1>5. w \in Worker /\ next[w] >= End(w) /\ next[w] \in Int
  BY <1>1, <1>2, <1>3, <1>4 DEF BInv, WorkersFit, Waited, AllDone, Finished, Worker
<1>6. Start(w) = w * c /\ i < End(w)
  BY <1>1, <1>2 DEF Start, End
<1>7. i \in Start(w) .. next[w]-1
  <2>1. End(w) \in Int
    BY <1>1, <1>2 DEF Start, End
  <2> HIDE DEF w, c
  <2> QED BY <1>1, <1>2, <1>5, <1>6, <2>1
<1> QED
  <2> HIDE DEF w, c
  <2> QED BY <1>5, <1>7 DEF BInv, Filled

(* Chunks of two workers have no entry in common.                            *)
LEMMA ChunksApart ==
  ASSUME TickMathAssumption, NEW v \in Nat, NEW w \in Nat, v # w
  PROVE  End(v) <= Start(w) \/ End(w) <= Start(v)
<1>1. n \in Nat /\ chunkSize \in Nat \ {0}
  BY ChunksCover
<1>2. /\ v < w => v * chunkSize + chunkSize <= w * chunkSize
      /\ w < v => w * chunkSize + chunkSize <= v * chunkSize
      /\ v * chunkSize \in Int /\ w * chunkSize \in Int
  BY <1>1, ChunksInOrder
<1>3. End(v) <= v * chunkSize + chunkSize /\ End(w) <= w * chunkSize + chunkSize
      /\ End(v) \in Int /\ End(w) \in Int
  BY <1>1, <1>2 DEF Start, End
<1> QED BY <1>1, <1>2, <1>3 DEF Start

(* TableIsBuilt: whatever the number of goroutines and the order they run    *)
(* in, no call reads an entry before the price of its tick is in it, and no  *)
(* two goroutines write the same one.                                        *)
THEOREM TableGetsBuilt ==
  ASSUME TickMathAssumption
  PROVE  Spec => []TableIsBuilt
<1>1. Init => BInv
  BY InitBuilds
<1>2. BInv /\ [Next]_vars => BInv'
  BY NextBuilds
<1>3. BInv => TableIsBuilt
  <2> SUFFICES ASSUME BInv PROVE TableIsBuilt
    OBVIOUS
  <2>1. \A v, w \in 0 .. started-1 : v # w => End(v) <= Start(w) \/ End(w) <= Start(v)
    BY ChunksApart DEF BInv, WorkersFit
  <2> QED BY <2>1, BuiltWhenReady DEF TableIsBuilt
<1> QED BY <1>1, <1>2, <1>3, PTL DEF Spec
-----------------------------------------------------------------------------
Asked == request.of = "GetTickAtSqrtRatio"

(* While the first loop runs the estimate is only an index of the table;     *)
(* after it the entry is not above the price, unless it is the first.        *)
SInv ==
  /\ pc \in {"down", "up"} => idx \in 0 .. n-1
  /\ pc \in {"down", "up", "done"} /\ Asked => request.sqrtRatioX96 \in Nat
  /\ pc = "up" /\ Asked => idx = 0 \/ sqrtRatioTable[idx] <= request.sqrtRatioX96
  /\ FoundIsFloor

(* In an increasing table, a tick whose price is not above p and whose       *)
(* successor's is, or that is the last in this way, is the only one.         *)
LEMMA FloorIsUnique ==
  ASSUME TickMathAssumption, RatiosAssumption, NEW p \in Nat, NEW t \in Tick,
         t = MinTick \/ getSqrtRatioAtTickSlow(t) <= p,
         t = MaxTick \/ p < getSqrtRatioAtTickSlow(t+1)
  PROVE  FloorTick(p) = t
<1> DEFINE IsFloorTick(u) == /\ getSqrtRatioAtTickSlow(u) <= p
                             /\ u = MaxTick \/ p < getSqrtRatioAtTickSlow(u+1)
<1>1. /\ MaxTick \in Nat \ {0} /\ MinTick \in Int /\ MinTick \in Tick /\ MaxTick \in Tick
      /\ \A u \in Tick : u \in Int /\ MinTick <= u /\ u <= MaxTick
      /\ \A u \in Tick : u # MaxTick => u+1 \in Tick
  BY DEF TickMathAssumption, MinTick, Tick
<1>2. /\ \A u \in Tick : getSqrtRatioAtTickSlow(u) \in Nat
      /\ \A u, v \in Tick : u <= v => getSqrtRatioAtTickSlow(u) <= getSqrtRatioAtTickSlow(v)
  BY <1>1 DEF RatiosAssumption
<1>3. CASE p < LowestRatio
  <2>1. t = MinTick
    BY <1>1, <1>2, <1>3 DEF LowestRatio
  <2> QED BY <1>3, <2>1 DEF FloorTick
<1>4. CASE ~(p < LowestRatio)
  <2>1. IsFloorTick(t)
    BY <1>1, <1>2, <1>4 DEF LowestRatio
  <2>2. ASSUME NEW u \in Tick, IsFloorTick(u) PROVE u = t
    <3>1. ASSUME NEW a \in Tick, NEW b \in Tick, IsFloorTick(a), IsFloorTick(b), a < b PROVE FALSE
      <4>1. a+1 \in Tick /\ a+1 <= b /\ p < getSqrtRatioAtTickSlow(a+1)
        BY <1>1, <3>1
      <4>2. getSqrtRatioAtTickSlow(a+1) <= getSqrtRatioAtTickSlow(b)
        BY <1>2, <4>1
      <4> QED BY <1>2, <3>1, <4>1, <4>2
    <3> QED BY <1>1, <2>1, <2>2, <3>1
  <2>3. FloorTick(p) = CHOOSE u \in Tick : IsFloorTick(u)
    BY <1>4 DEF FloorTick
  <2> HIDE DEF IsFloorTick
  <2> QED BY <2>1, <2>2, <2>3
<1> QED BY <1>3, <1>4

(* An estimate, whatever its error, is cut to an index of the table.         *)
LEMMA SearchStarts ==
  ASSUME TickMathAssumption, RequestsAssumption, SInv, NEW r \in Requests, StartSearch(r)
  PROVE  SInv'
<1>1. MaxTick \in Nat \ {0} /\ MinTick = -MaxTick /\ n = MaxTick - MinTick + 1
  BY DEF TickMathAssumption, MinTick, n
<1>2. PICK p : \E e \in Estimates(p) : idx' = Clamped(e) - MinTick
  BY DEF StartSearch
<1>3. PICK e \in MinTick-2 .. MaxTick+2 : idx' = Clamped(e) - MinTick
  BY <1>2 DEF Estimates
<1>4. idx' \in 0 .. n-1
  BY <1>1, <1>3 DEF Clamped
<1>5. pc' = "down" /\ request' = r
  BY DEF StartSearch
<1> QED BY <1>4, <1>5 DEF SInv, Asked, FoundIsFloor, RequestsAssumption, n, MinTick

(* The loops stop on a tick at or below the price, and below the next.       *)
LEMMA SearchEnds ==
  ASSUME TickMathAssumption, RatiosAssumption, BInv, SInv, Searching
  PROVE  SInv'
<1>1. /\ MaxTick \in Nat \ {0} /\ MinTick = -MaxTick /\ n = MaxTick - MinTick + 1
      /\ \A i \in 0 .. n-1 : i + MinTick \in Tick
  BY DEF TickMathAssumption, MinTick, n, Tick
<1>2. /\ pc \in {"down", "up"} /\ idx \in 0 .. n-1
      /\ request' = request /\ sqrtRatioTable' = sqrtRatioTable
  BY DEF Searching, Down, Up, Found, SInv
<1>3. \A i \in 0 .. n-1 : /\ sqrtRatioTable[i] = getSqrtRatioAtTickSlow(i + MinTick)
                          /\ sqrtRatioTable[i] \in Nat
  BY <1>1, <1>2, BuiltWhenReady DEF RatiosAssumption
<1>4. Asked => SqrtRatioX96 = request.sqrtRatioX96 /\ request.sqrtRatioX96 \in Nat
  BY <1>2 DEF SInv, Asked, SqrtRatioX96
<1>5. CASE Down
  <2>1. pc = "down"
    BY <1>5 DEF Down
  <2>2. CASE TooHigh
    <3>1. idx' = idx - 1 /\ pc' = "down" /\ idx > 0
      BY <1>5, <2>1, <2>2 DEF Down, TooHigh
    <3>2. idx' \in 0 .. n-1
      BY <1>1, <1>2, <3>1
    <3> QED BY <1>2, <1>4, <2>1, <3>1, <3>2 DEF SInv, Asked, FoundIsFloor, n, MinTick
  <2>3. CASE ~TooHigh
    <3>1. idx' = idx /\ pc' = "up"
      BY <1>5, <2>3 DEF Down
    <3>2. Asked => idx = 0 \/ sqrtRatioTable[idx] <= request.sqrtRatioX96
      BY <1>1, <1>2, <1>3, <1>4, <2>3 DEF TooHigh, RatioAt
    <3> QED BY <1>2, <1>4, <3>1, <3>2 DEF SInv, Asked, FoundIsFloor, n, MinTick
  <2> QED BY <2>2, <2>3
<1>6. CASE Up
  <2>1. /\ pc = "up" /\ pc' = "up" /\ idx' = idx + 1 /\ idx < n-1
        /\ RatioAt(idx+1) <= SqrtRatioX96
    BY <1>6 DEF Up, TooLow
  <2>2. idx' \in 0 .. n-1
    BY <1>1, <1>2, <2>1
  <2>3. Asked => sqrtRatioTable'[idx'] <= request'.sqrtRatioX96
    BY <1>2, <1>4, <2>1 DEF RatioAt
  <2> QED BY <1>2, <1>4, <2>1, <2>2, <2>3 DEF SInv, Asked, FoundIsFloor, n, MinTick
<1>7. CASE Found
  <2>1. /\ pc = "up" /\ ~TooLow /\ pc' = "done"
        /\ Asked => result' = idx + MinTick
    BY <1>7 DEF Found, Asked
  <2>2. ASSUME Asked PROVE idx + MinTick = FloorTick(request.sqrtRatioX96)
    <3>1. idx + MinTick = MinTick \/ getSqrtRatioAtTickSlow(idx + MinTick) <= request.sqrtRatioX96
      BY <1>1, <1>2, <1>3, <2>1, <2>2 DEF SInv
    <3>2. idx + MinTick = MaxTick \/ request.sqrtRatioX96 < getSqrtRatioAtTickSlow(idx + MinTick + 1)
      <4>1. CASE idx = n-1
        BY <1>1, <4>1
      <4>2. CASE idx # n-1
        <5>1. idx + 1 \in 0 .. n-1 /\ idx < n-1 /\ idx + 1 + MinTick = idx + MinTick + 1
          BY <1>1, <1>2, <4>2
        <5>2. ~(sqrtRatioTable[idx+1] <= request.sqrtRatioX96)
          BY <1>4, <2>1, <2>2, <5>1 DEF TooLow, RatioAt
        <5> QED BY <1>3, <1>4, <2>2, <5>1, <5>2
      <4> QED BY <4>1, <4>2
    <3>3. idx + MinTick \in Tick
      BY <1>1, <1>2
    <3> QED BY <1>4, <2>2, <3>1, <3>2, <3>3, FloorIsUnique
  <2> QED BY <1>2, <1>4, <2>1, <2>2 DEF SInv, Asked, FoundIsFloor, FloorTick, LowestRatio, Tick, MinTick
<1> QED BY <1>5, <1>6, <1>7 DEF Searching

(* The table is filled before the first call.                                *)
LEMMA LoadingIsFirst ==
  ASSUME TickMathAssumption, BInv, Loading
  PROVE  pc \in {"starting", "waiting"} /\ pc' \in {"starting", "waiting", "ready"}
<1>1. ASSUME NEW w \in Worker, Fill(w) PROVE pc \in {"starting", "waiting"} /\ pc' = pc
  <2>1. w < started /\ next[w] < End(w) /\ pc' = pc
    BY <1>1 DEF Fill
  <2>2. w \in 0 .. started-1 /\ next[w] \in Int /\ End(w) \in Int
    <3>1. started \in Int /\ w \in Nat /\ w \in Worker /\ next[w] \in Int
      BY <1>1 DEF BInv, WorkersFit, Worker, TickMathAssumption
    <3>2. End(w) \in Int
      BY <3>1, ChunksCover DEF End, Start
    <3> QED BY <2>1, <3>1, <3>2
  <2>3. ~AllDone
    BY <2>1, <2>2 DEF AllDone, Finished
  <2> QED BY <2>1, <2>3 DEF BInv, Waited
<1> QED BY <1>1 DEF Loading, StartWorker, Wait

(* Every step keeps what the search needs. *)
LEMMA NextSearches ==
  ASSUME TickMathAssumption, RatiosAssumption, RequestsAssumption, BInv, SInv, [Next]_vars
  PROVE  SInv'
<1>1. CASE StartWorker \/ (\E w \in Worker : Fill(w)) \/ Wait
  <2>1. pc \in {"starting", "waiting"} /\ pc' \in {"starting", "waiting", "ready"}
    BY <1>1, LoadingIsFirst DEF Loading
  <2> QED BY <2>1 DEF SInv, FoundIsFloor
<1>2. CASE Searching
  BY <1>2, SearchEnds
<1>3. CASE \E r \in Requests : StartSearch(r)
  BY <1>3, SearchStarts
<1>4. CASE \E r \in Requests : AskNearestUsableTick(r)
  BY <1>4 DEF AskNearestUsableTick, SInv, FoundIsFloor, Asked
<1>5. CASE UNCHANGED vars
  BY <1>5 DEF vars, SInv, FoundIsFloor, Asked, n, MinTick, FloorTick, LowestRatio, Tick
<1> QED BY <1>1, <1>2, <1>3, <1>4, <1>5 DEF Next, Loading

(* FoundIsFloor: from any estimate, for any number of ticks and any          *)
(* increasing prices, GetTickAtSqrtRatioV2 answers with the last tick whose  *)
(* price is not above its argument, and with an end outside of the table.    *)
THEOREM SearchEndsOnTheFloor ==
  ASSUME TickMathAssumption, RatiosAssumption, RequestsAssumption
  PROVE  Spec => []FoundIsFloor
<1>1. Init => BInv /\ SInv
  BY InitBuilds DEF Init, SInv, FoundIsFloor, Asked
<1>2. BInv /\ SInv /\ [Next]_vars => (BInv /\ SInv)'
  BY NextBuilds, NextSearches
<1>3. SInv => FoundIsFloor
  BY DEF SInv
<1> QED BY <1>1, <1>2, <1>3, PTL DEF Spec
-----------------------------------------------------------------------------
(* The root that SquareRoot chooses is there.                                *)
LEMMA SquareRootFact ==
  ASSUME NEW x \in Nat
  PROVE  LET r == SquareRoot(x) IN r \in Nat /\ r * r <= x /\ x < (r+1) * (r+1)
<1> DEFINE T == {r \in Nat : x < (r+1) * (r+1)}
<1>1. x \in T
  <2>1. (x+1) * (x+1) = x * x + x + x + 1 /\ x * x >= 0
    BY SMTT(30)
  <2> QED BY <2>1
<1>2. PICK r \in T : \A y \in T : r <= y
  BY <1>1, NatMinimum
<1>3. r \in 0 .. x /\ x < (r+1) * (r+1)
  BY <1>1, <1>2
<1>4. r * r <= x
  <2>1. CASE r = 0
    BY <2>1
  <2>2. CASE r # 0
    <3>1. r-1 \in Nat /\ r-1 < r /\ (r-1) + 1 = r
      BY <1>3, <2>2
    <3>2. r-1 \notin T
      BY <1>2, <1>3, <3>1
    <3>3. ~(x < ((r-1) + 1) * ((r-1) + 1))
      BY <3>1, <3>2
    <3>4. ~(x < r * r)
      BY <3>1, <3>3
    <3> QED BY <1>3, <3>4
  <2> QED BY <2>1, <2>2
<1> DEFINE IsRoot(y) == y * y <= x /\ x < (y+1) * (y+1)
<1>5. SquareRoot(x) = CHOOSE y \in 0 .. x : IsRoot(y)
  BY DEF SquareRoot
<1>6. SquareRoot(x) \in 0 .. x /\ IsRoot(SquareRoot(x))
  <2>1. IsRoot(r)
    BY <1>3, <1>4
  <2> HIDE DEF IsRoot
  <2> QED BY <1>3, <1>5, <2>1
<1> QED BY <1>6

(* Squares are ordered as their roots are.                                   *)
LEMMA SquaresInOrder ==
  ASSUME NEW a \in Nat, NEW b \in Nat
  PROVE  a <= b <=> a * a <= b * b
<1>1. ASSUME a <= b PROVE a * a <= b * b
  <2>1. (b - a) * (b + a) >= 0
    BY <1>1, SMTT(30)
  <2>2. (b - a) * (b + a) = b * b - a * a
    BY SMTT(30)
  <2> QED BY <2>1, <2>2
<1>2. ASSUME b < a PROVE b * b < a * a
  <2>1. (a - b) * (a + b) > 0
    BY <1>2, SMTT(30)
  <2>2. (a - b) * (a + b) = a * a - b * b
    BY SMTT(30)
  <2> QED BY <2>1, <2>2
<1> QED BY <1>1, <1>2

(* A number is at most the root of a quotient just when its square fits the  *)
(* fraction: neither the division nor the root hides a tick.                 *)
LEMMA RootOfQuotient ==
  ASSUME NEW x \in Nat, NEW d \in Nat \ {0}, NEW r \in Nat
  PROVE  r <= SquareRoot(x \div d) <=> (r * r) * d <= x
<1> DEFINE q == x \div d
           s == SquareRoot(q)
<1>1. q \in Int /\ d * q <= x /\ x < d * q + d /\ q >= 0
  BY SMTT(30)
<1> HIDE DEF q
<1>2. s \in Nat /\ s * s <= q /\ q < (s+1) * (s+1)
  BY <1>1, SquareRootFact
<1> HIDE DEF s
<1>3. r <= s <=> r * r <= q
  <2>1. r <= s <=> r * r <= s * s
    BY <1>2, SquaresInOrder
  <2>2. s+1 <= r <=> (s+1) * (s+1) <= r * r
    BY <1>2, SquaresInOrder
  <2> QED BY <1>1, <1>2, <2>1, <2>2
<1>4. r * r <= q <=> (r * r) * d <= x
  <2> DEFINE a == r * r
  <2>1. a \in Nat
    BY SMTT(30)
  <2> HIDE DEF a
  <2>2. /\ q * d = d * q /\ (q+1) * d = d * q + d
        /\ a * d \in Int
    BY <1>1, <2>1, SMTT(30)
  <2>3. ASSUME a <= q PROVE a * d <= q * d
    <3>1. (q - a) * d >= 0 /\ (q - a) * d = q * d - a * d
      BY <1>1, <2>1, <2>3, SMTT(30)
    <3> QED BY <1>1, <2>2, <3>1
  <2>4. ASSUME a > q PROVE a * d >= (q+1) * d
    <3>1. (a - q - 1) * d >= 0 /\ (a - q - 1) * d = a * d - (q+1) * d
      BY <1>1, <2>1, <2>4, SMTT(30)
    <3> QED BY <1>1, <2>2, <3>1
  <2>5. a <= q <=> a * d <= x
    BY <1>1, <2>1, <2>2, <2>3, <2>4
  <2> QED BY <2>5 DEF a
<1> QED BY <1>3, <1>4 DEF s, q

Closest == request.of = "PriceToClosestTick"

(* An encoded price is a number.                                             *)
LEMMA EncodedPriceIsNatural ==
  ASSUME TickMathAssumption, RequestsAssumption, request \in Requests, Closest
  PROVE  SqrtRatioX96 \in Nat
<1> DEFINE a == request.price[1]
           b == request.price[2]
<1>1. a \in Nat \ {0} /\ b \in Nat \ {0} /\ request.sorted \in BOOLEAN
  BY DEF RequestsAssumption, Closest
<1>2. Q96 \in Nat
  BY SMTT(30) DEF TickMathAssumption, Q96
<1>3. SqrtRatioX96 = IF request.sorted THEN SquareRoot((a * Q96 * Q96) \div b)
                     ELSE SquareRoot((b * Q96 * Q96) \div a)
  BY DEF SqrtRatioX96, Closest, OfPrice, EncodeSqrtRatioX96
<1> HIDE DEF a, b
<1>4. a * Q96 * Q96 \in Nat /\ b * Q96 * Q96 \in Nat
  BY <1>1, <1>2, SMTT(30)
<1>5. \A x \in Nat, d \in Nat \ {0} : SquareRoot(x \div d) \in Nat
  <2> TAKE x \in Nat, d \in Nat \ {0}
  <2>1. x \div d \in Nat
    BY SMTT(30)
  <2> QED BY <2>1, SquareRootFact
<1> QED BY <1>1, <1>3, <1>4, <1>5

(* The encoded price of a request reaches an entry of the table just when    *)
(* the price itself does, read in either direction.                          *)
LEMMA EncodedPriceReaches ==
  ASSUME TickMathAssumption, RequestsAssumption,
         request \in Requests, Closest, NEW i \in 0 .. n-1, RatioAt(i) \in Nat
  PROVE  /\ RatioAt(i) <= SqrtRatioX96 <=> AtOrBelow(request.price, i, request.sorted)
         /\ ReachesNext(request.price, TickToPrice(i, request.sorted), request.sorted)
              <=> AtOrBelow(request.price, i, request.sorted)
<1> DEFINE a == request.price[1]
           b == request.price[2]
           r == RatioAt(i)
<1>1. a \in Nat \ {0} /\ b \in Nat \ {0} /\ request.sorted \in BOOLEAN
  BY DEF RequestsAssumption, Closest
<1>2. Q96 \in Nat
  BY SMTT(30) DEF TickMathAssumption, Q96
<1>3. SqrtRatioX96 = IF request.sorted THEN SquareRoot((a * Q96 * Q96) \div b)
                     ELSE SquareRoot((b * Q96 * Q96) \div a)
  BY DEF SqrtRatioX96, Closest, OfPrice, EncodeSqrtRatioX96
<1>4. CASE request.sorted = TRUE
  <2>1. TickToPrice(i, TRUE)[1] = r * r /\ TickToPrice(i, TRUE)[2] = Q96 * Q96
    BY DEF TickToPrice
  <2>2. AtOrBelow(request.price, i, TRUE) <=> ~(a * (Q96 * Q96) < (r * r) * b)
    BY <2>1 DEF AtOrBelow, LessThan
  <2>3. ReachesNext(request.price, TickToPrice(i, TRUE), TRUE) <=> ~(a * (Q96 * Q96) < (r * r) * b)
    BY <2>1 DEF ReachesNext, LessThan
  <2> HIDE DEF a, b, r
  <2>4. a * Q96 * Q96 \in Nat /\ a * Q96 * Q96 = a * (Q96 * Q96) /\ (r * r) * b \in Int
    BY <1>1, <1>2, SMTT(30) DEF r
  <2>5. r <= SquareRoot((a * Q96 * Q96) \div b) <=> (r * r) * b <= a * Q96 * Q96
    BY <1>1, <2>4, RootOfQuotient DEF r
  <2>6. r <= SqrtRatioX96 <=> ~(a * (Q96 * Q96) < (r * r) * b)
    BY <1>3, <1>4, <2>4, <2>5
  <2> QED BY <1>4, <2>2, <2>3, <2>6 DEF r
<1>5. CASE request.sorted = FALSE
  <2>1. TickToPrice(i, FALSE)[1] = Q96 * Q96 /\ TickToPrice(i, FALSE)[2] = r * r
    BY DEF TickToPrice
  <2>2. AtOrBelow(request.price, i, FALSE) <=> ~((Q96 * Q96) * b < a * (r * r))
    BY <2>1 DEF AtOrBelow, LessThan
  <2>3. ReachesNext(request.price, TickToPrice(i, FALSE), FALSE) <=> ~((Q96 * Q96) * b < a * (r * r))
    BY <2>1 DEF ReachesNext, LessThan
  <2> HIDE DEF a, b, r
  <2>4. /\ b * Q96 * Q96 \in Nat /\ b * Q96 * Q96 = (Q96 * Q96) * b
        /\ (r * r) * a \in Int /\ (r * r) * a = a * (r * r)
    BY <1>1, <1>2, SMTT(30) DEF r
  <2>5. r <= SquareRoot((b * Q96 * Q96) \div a) <=> (r * r) * a <= b * Q96 * Q96
    BY <1>1, <2>4, RootOfQuotient DEF r
  <2>6. r <= SqrtRatioX96 <=> ~((Q96 * Q96) * b < a * (r * r))
    BY <1>3, <1>5, <2>4, <2>5
  <2> QED BY <1>5, <2>2, <2>3, <2>6 DEF r
<1> QED BY <1>1, <1>4, <1>5

(* The entry the search stands on while it goes up is not above the encoded  *)
(* price, unless it is the first.                                            *)
CInv ==
  /\ pc \in {"down", "up", "done"} /\ Closest => request \in Requests
  /\ pc = "up" /\ Closest => idx = 0 \/ RatioAt(idx) <= SqrtRatioX96
  /\ ClosestIsBelow

(* The tick that is found is the closest: the comparison with the next one   *)
(* never finds it reached, since the search would have gone on to it.        *)
LEMMA ClosestIsFound ==
  ASSUME TickMathAssumption, RatiosAssumption, RequestsAssumption,
         BInv, SInv, CInv, Closest, Found
  PROVE  ClosestIsBelow'
<1>1. /\ MaxTick \in Nat \ {0} /\ MinTick = -MaxTick /\ n = MaxTick - MinTick + 1
      /\ \A i \in 0 .. n-1 : i + MinTick \in Tick
  BY DEF TickMathAssumption, MinTick, n, Tick
<1>2. /\ pc = "up" /\ idx \in 0 .. n-1 /\ request \in Requests /\ ~TooLow
      /\ request' = request /\ sqrtRatioTable' = sqrtRatioTable /\ idx' = idx
      /\ result' = ClosestTick
      /\ idx = 0 \/ RatioAt(idx) <= SqrtRatioX96
  BY DEF Found, SInv, CInv, Closest
<1>3. \A i \in 0 .. n-1 : RatioAt(i) \in Nat
  BY <1>1, <1>2, BuiltWhenReady DEF RatiosAssumption, RatioAt
<1> DEFINE Below(i) == AtOrBelow(request.price, i, request.sorted)
<1>4. CASE idx + 1 > n - 1
  <2>1. result' = Panic /\ Panic' = Panic
    BY <1>2, <1>4 DEF ClosestTick, Panic
  <2> QED BY <2>1 DEF ClosestIsBelow
<1>5. CASE ~(idx + 1 > n - 1)
  <2>1. idx + 1 \in 0 .. n-1 /\ idx < n-1
    BY <1>1, <1>2, <1>5
  <2>2. ~(RatioAt(idx + 1) <= SqrtRatioX96)
    BY <1>2, <2>1 DEF TooLow
  <2>3. ~Below(idx + 1)
    BY <1>2, <1>3, <2>1, <2>2, EncodedPriceReaches
  <2>4. ~ReachesNext(request.price, TickToPrice(idx + 1, request.sorted), request.sorted)
    BY <1>2, <1>3, <2>1, <2>3, EncodedPriceReaches
  <2>5. result' = idx + MinTick
    BY <1>2, <1>5, <2>4 DEF ClosestTick
  <2>6. Below(idx) \/ idx = 0
    BY <1>2, <1>3, EncodedPriceReaches
  <2>7. \A i \in 0 .. n-1 :
          AtOrBelow(request.price, i, request.sorted)' = AtOrBelow(request.price, i, request.sorted)
    BY <1>2 DEF AtOrBelow, TickToPrice, RatioAt
  <2>8. result' - MinTick' = idx /\ n' = n
    BY <1>1, <1>2, <2>5 DEF MinTick, n
  <2>9. \A i \in 0 .. n-1 : i = idx => AtOrBelow(request.price, i, request.sorted)' \/ i = 0
    BY <2>6, <2>7
  <2>10. \A i \in 0 .. n-1 : i = idx + 1 => ~AtOrBelow(request.price, i, request.sorted)'
    BY <2>3, <2>7
  <2>11. ClosestIsBelow' <=>
           (pc' = "done" /\ Closest' /\ result' # Panic' =>
              /\ AtOrBelow(request.price, result - MinTick, request.sorted)' \/ (result - MinTick)' = 0
              /\ (result - MinTick)' < n' - 1
                    => ~(AtOrBelow(request.price, (result - MinTick) + 1, request.sorted)'))
    BY DEF ClosestIsBelow, Closest
  <2> QED BY <1>2, <2>1, <2>8, <2>9, <2>10, <2>11
<1> QED BY <1>4, <1>5

(* Every step keeps the answers about closest ticks. *)
LEMMA ClosestIsKept ==
  ASSUME TickMathAssumption, RatiosAssumption, RequestsAssumption,
         BInv, SInv, CInv, [Next]_vars
  PROVE  CInv'
<1>1. CASE Loading
  BY <1>1, LoadingIsFirst DEF CInv, ClosestIsBelow
<1>2. CASE Down
  <2>1. /\ pc = "down" /\ request' = request /\ sqrtRatioTable' = sqrtRatioTable
        /\ idx \in 0 .. n-1
        /\ \/ TooHigh /\ pc' = "down"
           \/ ~TooHigh /\ pc' = "up" /\ idx' = idx
    BY <1>2 DEF Down, SInv
  <2>2. ASSUME Closest, ~TooHigh PROVE idx = 0 \/ RatioAt(idx) <= SqrtRatioX96
    <3>1. n \in Nat
      BY ChunksCover
    <3>2. idx > 0 => ~(RatioAt(idx) > SqrtRatioX96)
      BY <2>2 DEF TooHigh
    <3>3. RatioAt(idx) \in Int /\ SqrtRatioX96 \in Int
      <4>1. RatioAt(idx) \in Nat
        <5>1. idx + MinTick \in Tick
          BY <2>1 DEF n, MinTick, Tick, TickMathAssumption
        <5>2. RatioAt(idx) = getSqrtRatioAtTickSlow(idx + MinTick)
          BY <2>1, BuiltWhenReady DEF RatioAt
        <5> QED BY <5>1, <5>2 DEF RatiosAssumption
      <4>2. SqrtRatioX96 \in Nat
        BY <2>1, <2>2, EncodedPriceIsNatural DEF CInv
      <4> QED BY <4>1, <4>2
    <3> QED BY <2>1, <3>1, <3>2, <3>3
  <2>3. Closest' = Closest /\ (Closest => SqrtRatioX96' = SqrtRatioX96)
    BY <2>1 DEF Closest, SqrtRatioX96
  <2>4. pc' = "up" /\ Closest' => idx' = 0 \/ RatioAt(idx)' <= SqrtRatioX96'
    <3> SUFFICES ASSUME pc' = "up", Closest PROVE idx' = 0 \/ RatioAt(idx)' <= SqrtRatioX96'
      BY <2>3
    <3>1. ~TooHigh /\ idx' = idx
      BY <2>1
    <3> QED BY <2>1, <2>2, <2>3, <3>1 DEF RatioAt
  <2> QED BY <2>1, <2>3, <2>4 DEF CInv, ClosestIsBelow
<1>3. CASE Up
  <2>1. /\ pc = "up" /\ pc' = "up" /\ idx' = idx + 1 /\ RatioAt(idx+1) <= SqrtRatioX96
        /\ request' = request /\ sqrtRatioTable' = sqrtRatioTable
    BY <1>3 DEF Up, TooLow
  <2>2. Closest' = Closest /\ (Closest => SqrtRatioX96' = SqrtRatioX96)
    BY <2>1 DEF Closest, SqrtRatioX96
  <2>3. Closest => RatioAt(idx)' <= SqrtRatioX96'
    BY <2>1, <2>2 DEF RatioAt
  <2> QED BY <2>1, <2>2, <2>3 DEF CInv, ClosestIsBelow
<1>4. CASE Found
  <2>1. pc = "up" /\ pc' = "done" /\ request' = request
    BY <1>4 DEF Found
  <2>2. ClosestIsBelow'
    <3>1. CASE Closest
      BY <1>4, <3>1, ClosestIsFound
    <3>2. CASE ~Closest
      BY <2>1, <3>2 DEF Closest, ClosestIsBelow
    <3> QED BY <3>1, <3>2
  <2> QED BY <2>1, <2>2 DEF CInv, Closest
<1>5. ASSUME NEW r \in Requests, StartSearch(r) PROVE CInv'
  BY <1>5 DEF StartSearch, CInv, ClosestIsBelow
<1>6. ASSUME NEW r \in Requests, AskNearestUsableTick(r) PROVE CInv'
  BY <1>6 DEF AskNearestUsableTick, CInv, ClosestIsBelow, Closest
<1>7. CASE UNCHANGED vars
  <2>1. /\ pc' = pc /\ request' = request /\ idx' = idx /\ sqrtRatioTable' = sqrtRatioTable
        /\ result' = result
    BY <1>7 DEF vars
  <2>2. Closest' = Closest /\ SqrtRatioX96' = SqrtRatioX96 /\ RatioAt(idx)' = RatioAt(idx)
    BY <2>1 DEF Closest, SqrtRatioX96, RatioAt
  <2>3. ClosestIsBelow' = ClosestIsBelow
    BY <2>1 DEF ClosestIsBelow, AtOrBelow, TickToPrice, RatioAt, Panic, n, MinTick
  <2> QED BY <2>1, <2>2, <2>3 DEF CInv
<1> QED BY <1>1, <1>2, <1>3, <1>4, <1>5, <1>6, <1>7 DEF Next, Searching

(* ClosestIsBelow: in any increasing table and for every price, in pool      *)
(* order or not, PriceToClosestTick answers with the last tick whose price   *)
(* the given one reaches, although it compares integer roots.                *)
THEOREM ClosestTickIsBelow ==
  ASSUME TickMathAssumption, RatiosAssumption, RequestsAssumption
  PROVE  Spec => []ClosestIsBelow
<1>1. Init => BInv /\ SInv /\ CInv
  BY InitBuilds DEF Init, SInv, FoundIsFloor, Asked, CInv, ClosestIsBelow, Closest
<1>2. BInv /\ SInv /\ CInv /\ [Next]_vars => (BInv /\ SInv /\ CInv)'
  BY NextBuilds, NextSearches, ClosestIsKept
<1>3. CInv => ClosestIsBelow
  BY DEF CInv
<1> QED BY <1>1, <1>2, <1>3, PTL DEF Spec
-----------------------------------------------------------------------------
(* A multiple of a spacing has no remainder, and a number without one is a   *)
(* multiple.                                                                 *)
LEMMA MultiplesHaveNoRemainder ==
  ASSUME NEW d \in Nat \ {0}
  PROVE  /\ \A k \in Int : (k * d) % d = 0
         /\ \A t \in Int : t % d = 0 => \E k \in Int : t = k * d
<1>1. \A t \in Int : t \div d \in Int /\ t % d \in 0 .. d-1 /\ t = d * (t \div d) + (t % d)
  BY SMTT(30)
<1>2. ASSUME NEW k \in Int PROVE (k * d) % d = 0
  <2> DEFINE t == k * d
             q == t \div d
             r == t % d
  <2>1. t \in Int
    OBVIOUS
  <2>2. q \in Int /\ r \in 0 .. d-1 /\ t = d * q + r
    BY <1>1, <2>1
  <2> HIDE DEF q, r
  <2>3. k * d < (q+1) * d /\ (q-1) * d < k * d
    <3>1. (q+1) * d = d * q + d /\ (q-1) * d = d * q - d
      BY <2>2, SMTT(30)
    <3> QED BY <2>1, <2>2, <3>1
  <2>4. k < q+1 /\ q-1 < k
    BY <2>2, <2>3, ChunksInOrder
  <2>5. k = q
    BY <2>2, <2>4
  <2>6. r = 0
    BY <2>1, <2>2, <2>5
  <2> QED BY <2>6 DEF r
<1>3. ASSUME NEW t \in Int, t % d = 0 PROVE \E k \in Int : t = k * d
  <2>1. t = (t \div d) * d /\ t \div d \in Int
    BY <1>1, <1>3
  <2> QED BY <2>1
<1> QED BY <1>2, <1>3

(* Rounding is to the nearest multiple, at a half to the upper one.          *)
LEMMA RoundFact ==
  ASSUME NEW x \in Int, NEW d \in Nat \ {0}
  PROVE  /\ Round(x, d) \in Int
         /\ 2 * (Round(x, d) * d) <= 2 * x + d
         /\ 2 * x < 2 * (Round(x, d) * d) + d
<1> DEFINE y == 2 * x + d
           e == 2 * d
           k == y \div e
<1>1. y \in Int /\ e \in Nat \ {0}
  OBVIOUS
<1>2. k \in Int /\ e * k <= y /\ y < e * k + e
  <2> HIDE DEF y, e
  <2> QED BY <1>1, SMTT(30)
<1>3. Round(x, d) = k
  BY DEF Round
<1> HIDE DEF k
<1>4. e * k = 2 * (k * d)
  BY <1>2, SMTT(30)
<1> QED BY <1>2, <1>3, <1>4

(* Between two neighbouring multiples, or beyond the one at the end of the   *)
(* range, no other multiple is nearer.                                       *)
LEMMA UsableIsTheNearest ==
  ASSUME TickMathAssumption, NEW x \in Tick, NEW d \in Nat \ {0}
  PROVE  LET r == NearestUsableTick(x, d)
         IN  /\ r \in Usable(d)
             /\ \A t \in Usable(d) : Abs(r - x) <= Abs(t - x)
<1> DEFINE k == Round(x, d)
           a == k * d
           r == NearestUsableTick(x, d)
<1>1. /\ MaxTick \in Nat \ {0} /\ MinTick = -MaxTick
      /\ x \in Int /\ MinTick <= x /\ x <= MaxTick
      /\ \A t \in Int : t \in Tick <=> MinTick <= t /\ t <= MaxTick
      /\ d \in Int /\ d > 0
  BY DEF TickMathAssumption, Tick, MinTick
<1>2. k \in Int /\ 2 * a <= 2 * x + d /\ 2 * x < 2 * a + d
  BY <1>1, RoundFact
<1>3. /\ r = IF a < MinTick THEN a + d ELSE IF a > MaxTick THEN a - d ELSE a
  BY <1>1, <1>2 DEF NearestUsableTick
<1> HIDE DEF k, r
<1>4. a \in Int /\ a + d = (k+1) * d /\ a - d = (k-1) * d
  BY <1>2, SMTT(30)
<1>5. ASSUME NEW t \in Usable(d)
      PROVE  t \in Int /\ MinTick <= t /\ t <= MaxTick /\ (t = a \/ t >= a + d \/ t <= a - d)
  <2>1. t \in Tick /\ t % d = 0 /\ t \in Int
    BY <1>1, <1>5 DEF Usable, Tick
  <2>2. PICK m \in Int : t = m * d
    BY <2>1, MultiplesHaveNoRemainder
  <2>3. m = k \/ k < m \/ m < k
    BY <1>2
  <2>4. k < m => a + d <= t
    BY <1>2, <2>2, ChunksInOrder
  <2>5. m < k => t + d <= a
    BY <1>2, <2>2, ChunksInOrder
  <2> QED BY <1>1, <1>4, <2>1, <2>2, <2>3, <2>4, <2>5
<1>6. a % d = 0 /\ (a + d) % d = 0 /\ (a - d) % d = 0
  <2>1. k+1 \in Int /\ k-1 \in Int
    BY <1>2
  <2>2. (k * d) % d = 0 /\ ((k+1) * d) % d = 0 /\ ((k-1) * d) % d = 0
    BY <1>2, <2>1, MultiplesHaveNoRemainder
  <2>3. a = k * d
    OBVIOUS
  <2> HIDE DEF a
  <2> QED BY <1>4, <2>2, <2>3, Zenon
<1>7. a < 0 => a + d <= 0
  <2>1. a < 0 * d => k < 0
    BY <1>2, ChunksInOrder
  <2>2. k < 0 => k * d + d <= 0 * d
    BY <1>2, ChunksInOrder
  <2> QED BY <1>1, <1>4, <2>1, <2>2
<1>8. a > 0 => a - d >= 0
  <2>1. 0 * d < a => 0 < k
    BY <1>2, ChunksInOrder
  <2>2. 0 < k => 0 * d + d <= k * d
    BY <1>2, ChunksInOrder
  <2> QED BY <1>1, <1>4, <2>1, <2>2
<1> HIDE DEF a
<1>9. r \in Tick /\ r % d = 0 /\ r \in Int
  <2>1. CASE a < MinTick
    BY <1>1, <1>2, <1>3, <1>4, <1>6, <1>7, <2>1
  <2>2. CASE a > MaxTick
    BY <1>1, <1>2, <1>3, <1>4, <1>6, <1>8, <2>2
  <2>3. CASE ~(a < MinTick) /\ ~(a > MaxTick)
    BY <1>1, <1>3, <1>4, <1>6, <2>3
  <2> QED BY <2>1, <2>2, <2>3
<1>10. ASSUME NEW t \in Usable(d) PROVE Abs(r - x) <= Abs(t - x)
  <2>1. CASE a < MinTick
    BY <1>1, <1>2, <1>3, <1>4, <1>5, <1>10, <2>1 DEF Abs
  <2>2. CASE a > MaxTick
    BY <1>1, <1>2, <1>3, <1>4, <1>5, <1>10, <2>2 DEF Abs
  <2>3. CASE ~(a < MinTick) /\ ~(a > MaxTick)
    BY <1>1, <1>2, <1>3, <1>4, <1>5, <1>10, <2>3 DEF Abs
  <2> QED BY <2>1, <2>2, <2>3
<1> QED BY <1>9, <1>10 DEF Usable, r

(* The answer stands until the next request, and no search is made for it.  *)
UInv == (pc \in {"down", "up"} => request.of # "NearestUsableTick") /\ UsableIsNearest

(* UsableIsNearest: for every spacing and every range of ticks, halves and   *)
(* ends included, NearestUsableTick answers with a usable tick, and none is  *)
(* nearer.                                                                   *)
THEOREM UsableTickIsNearest ==
  ASSUME TickMathAssumption, RequestsAssumption
  PROVE  Spec => []UsableIsNearest
<1>1. Init => BInv /\ UInv
  BY InitBuilds DEF Init, UInv, UsableIsNearest
<1>2. BInv /\ UInv /\ [Next]_vars => (BInv /\ UInv)'
  <2> SUFFICES ASSUME BInv, UInv, [Next]_vars PROVE UInv'
    BY NextBuilds
  <2>1. CASE Loading
    BY <2>1, LoadingIsFirst DEF UInv, UsableIsNearest
  <2>2. CASE Searching
    <3>1. pc \in {"down", "up"} /\ pc' \in {"down", "up", "done"} /\ request' = request
      BY <2>2 DEF Searching, Down, Up, Found
    <3> QED BY <3>1 DEF UInv, UsableIsNearest
  <2>3. ASSUME NEW r \in Requests, StartSearch(r) PROVE UInv'
    <3>1. request'.of # "NearestUsableTick" /\ pc' = "down"
      BY <2>3 DEF StartSearch
    <3> QED BY <3>1 DEF UInv, UsableIsNearest
  <2>4. ASSUME NEW r \in Requests, AskNearestUsableTick(r) PROVE UInv'
    <3>1. /\ request' = r /\ r.of = "NearestUsableTick" /\ pc' = "done"
          /\ result' = NearestUsableTick(r.tick, r.tickSpacing)
          /\ r.tick \in Tick /\ r.tickSpacing \in Nat \ {0}
      BY <2>4 DEF AskNearestUsableTick, RequestsAssumption
    <3>2. /\ NearestUsableTick(r.tick, r.tickSpacing) \in Usable(r.tickSpacing)
          /\ \A t \in Usable(r.tickSpacing) :
               Abs(NearestUsableTick(r.tick, r.tickSpacing) - r.tick) <= Abs(t - r.tick)
      BY <3>1, UsableIsTheNearest
    <3> QED BY <3>1, <3>2 DEF UInv, UsableIsNearest, Usable, Tick, MinTick
  <2>5. CASE UNCHANGED vars
    BY <2>5 DEF vars, UInv, UsableIsNearest, Usable, Tick, MinTick
  <2> QED BY <2>1, <2>2, <2>3, <2>4, <2>5 DEF Next
<1>3. UInv => UsableIsNearest
  BY DEF UInv
<1> QED BY <1>1, <1>2, <1>3, PTL DEF Spec
-----------------------------------------------------------------------------
(* Induction on natural numbers.                                             *)
LEMMA InductionOnNat ==
  ASSUME NEW T, 0 \in T, \A k \in Nat : k \in T => k+1 \in T
  PROVE  Nat \subseteq T
<1> DEFINE B == Nat \ T
<1> SUFFICES ASSUME B # {} PROVE FALSE
  OBVIOUS
<1>1. PICK m \in B : \A y \in B : m <= y
  BY NatMinimum
<1>2. m \in Nat /\ m # 0
  OBVIOUS
<1>3. m - 1 \in Nat /\ (m - 1) + 1 = m /\ ~ (m <= m - 1)
  BY <1>2
<1>4. m - 1 \in T
  BY <1>1, <1>3
<1> QED BY <1>3, <1>4

(* A table of the powers of a number. *)
IsPowers(g, b, top) == g = [k \in 0 .. top |-> IF k = 0 THEN 1 ELSE b * g[k-1]]

(* There is one, however far it goes.                                        *)
LEMMA PowersExist ==
  ASSUME NEW b \in Nat, NEW top \in Nat
  PROVE  \E g : IsPowers(g, b, top)
<1> DEFINE Table(g, m) == g = [k \in 0 .. m |-> IF k = 0 THEN 1 ELSE b * g[k-1]]
           T == {m \in Nat : \E g : Table(g, m)}
<1>1. 0 \in T
  <2> DEFINE g == [k \in 0 .. 0 |-> 1]
  <2>1. \A k \in 0 .. 0 : k = 0
    OBVIOUS
  <2>2. g = [k \in 0 .. 0 |-> IF k = 0 THEN 1 ELSE b * g[k-1]]
    BY <2>1
  <2> HIDE DEF g
  <2> QED BY <2>2
<1>2. ASSUME NEW m \in Nat, m \in T PROVE m+1 \in T
  <2>1. PICK g : Table(g, m)
    BY <1>2
  <2> DEFINE h == [k \in 0 .. m+1 |-> IF k = m+1 THEN b * g[m] ELSE g[k]]
             v == [k \in 0 .. m+1 |-> IF k = 0 THEN 1 ELSE b * h[k-1]]
  <2>2. \A k \in 0 .. m : g[k] = IF k = 0 THEN 1 ELSE b * g[k-1]
    BY <2>1
  <2>3. \A k \in 0 .. m : h[k] = g[k]
    OBVIOUS
  <2>4. h[m+1] = b * g[m]
    OBVIOUS
  <2>5. /\ h = [k \in 0 .. m+1 |-> h[k]]
        /\ \A k \in 0 .. m+1 : v[k] = IF k = 0 THEN 1 ELSE b * h[k-1]
        /\ v = [k \in 0 .. m+1 |-> v[k]]
    OBVIOUS
  <2> HIDE DEF h, v
  <2>6. ASSUME NEW k \in 0 .. m+1 PROVE h[k] = v[k]
    <3>1. CASE k = m+1
      <4>1. k # 0 /\ k-1 = m /\ m \in 0 .. m
        BY <3>1
      <4>2. h[m] = g[m] /\ v[k] = b * h[m]
        BY <2>3, <2>5, <4>1
      <4> QED BY <2>4, <3>1, <4>2
    <3>2. CASE k = 0
      <4>1. 0 \in 0 .. m /\ 0 \in 0 .. m+1
        OBVIOUS
      <4>2. h[0] = g[0] /\ g[0] = 1 /\ v[0] = 1
        BY <2>2, <2>3, <2>5, <4>1
      <4> QED BY <3>2, <4>2
    <3>3. CASE k # m+1 /\ k # 0
      <4>1. k \in 0 .. m /\ k-1 \in 0 .. m
        BY <3>3
      <4> QED BY <2>2, <2>3, <2>5, <3>3, <4>1
    <3> QED BY <3>1, <3>2, <3>3
  <2>7. h = v
    BY <2>5, <2>6
  <2>8. Table(h, m+1)
    BY <2>7 DEF v
  <2> HIDE DEF Table
  <2> QED BY <2>8
<1>3. top \in T
  <2> HIDE DEF T
  <2> QED BY <1>1, <1>2, InductionOnNat
<1> QED BY <1>3 DEF IsPowers

(* What a table of powers holds. *)
LEMMA PowersInTable ==
  ASSUME NEW b \in Nat \ {0}, NEW top \in Nat,
         NEW g, IsPowers(g, b, top)
  PROVE  /\ g[0] = 1
         /\ \A k \in 0 .. top-1 : g[k+1] = b * g[k]
         /\ \A k \in 0 .. top : g[k] \in Nat \ {0}
<1>1. \A k \in 0 .. top : g[k] = IF k = 0 THEN 1 ELSE b * g[k-1]
  BY DEF IsPowers
<1>2. g[0] = 1
  BY <1>1
<1>3. ASSUME NEW k \in 0 .. top-1 PROVE g[k+1] = b * g[k]
  <2>1. k+1 \in 0 .. top /\ k+1 # 0 /\ (k+1)-1 = k
    OBVIOUS
  <2> QED BY <1>1, <2>1
<1> DEFINE T == {k \in Nat : k \in 0 .. top => g[k] \in Nat \ {0}}
<1>4. 0 \in T
  BY <1>2
<1>5. ASSUME NEW k \in Nat, k \in T PROVE k+1 \in T
  <2>1. CASE k+1 \in 0 .. top
    <3>1. k \in 0 .. top /\ k \in 0 .. top-1
      BY <2>1
    <3>2. g[k] \in Nat \ {0} /\ g[k+1] = b * g[k]
      BY <1>3, <1>5, <3>1
    <3> QED BY <3>2, SMTT(30)
  <2>2. CASE k+1 \notin 0 .. top
    BY <2>2
  <2> QED BY <2>1, <2>2
<1>6. Nat \subseteq T
  <2> HIDE DEF T
  <2> QED BY <1>4, <1>5, InductionOnNat
<1>7. ASSUME NEW k \in 0 .. top PROVE g[k] \in Nat \ {0}
  <2>1. k \in T
    <3> HIDE DEF T
    <3> QED BY <1>6
  <2> QED BY <2>1
<1> QED BY <1>2, <1>3, <1>7

(* Powers of a sum are products of powers. *)
LEMMA PowersOfSums ==
  ASSUME NEW b \in Nat \ {0}, NEW top \in Nat,
         NEW g, IsPowers(g, b, top)
  PROVE  \A a, c \in 0 .. top : a + c <= top => g[a + c] = g[a] * g[c]
<1> SUFFICES ASSUME NEW a \in 0 .. top, NEW c \in 0 .. top, a + c <= top
             PROVE  g[a + c] = g[a] * g[c]
  OBVIOUS
<1>1. /\ g[0] = 1
      /\ \A k \in 0 .. top-1 : g[k+1] = b * g[k]
      /\ \A k \in 0 .. top : g[k] \in Nat \ {0}
  BY PowersInTable
<1> DEFINE T == {k \in Nat : a + k <= top => g[a + k] = g[a] * g[k]}
<1>2. 0 \in T
  <2>1. g[a] * 1 = g[a] /\ a + 0 = a
    BY <1>1
  <2> QED BY <1>1, <2>1
<1>3. ASSUME NEW k \in Nat, k \in T PROVE k+1 \in T
  <2>1. CASE a + (k+1) <= top
    <3>1. a + k <= top /\ a + k \in 0 .. top-1 /\ k \in 0 .. top-1 /\ a + (k+1) = (a + k) + 1
      BY <2>1
    <3>2. g[a + k] = g[a] * g[k] /\ g[(a + k) + 1] = b * g[a + k] /\ g[k+1] = b * g[k]
      BY <1>1, <1>3, <3>1
    <3>3. g[a] \in Nat /\ g[k] \in Nat
      BY <1>1, <3>1
    <3>4. b * (g[a] * g[k]) = g[a] * (b * g[k])
      BY <3>3, SMTT(30)
    <3> QED BY <3>1, <3>2, <3>4
  <2>2. CASE ~(a + (k+1) <= top)
    BY <2>2
  <2> QED BY <2>1, <2>2
<1>4. Nat \subseteq T
  <2> HIDE DEF T
  <2> QED BY <1>2, <1>3, InductionOnNat
<1>5. c \in T
  <2> HIDE DEF T
  <2> QED BY <1>4
<1> QED BY <1>5
-----------------------------------------------------------------------------
(* The powers of two up to a word. *)
LEMMA PowersOfTwo ==
  /\ PowerOf2[0] = 1
  /\ \A k \in 0 .. W-1 : PowerOf2[k+1] = 2 * PowerOf2[k]
  /\ \A k \in 0 .. W : PowerOf2[k] \in Nat \ {0}
  /\ \A a \in 0 .. W : PowerOf2[a] * PowerOf2[W-a] = Base
<1>1. W \in Nat /\ 2 \in Nat \ {0}
  BY WordAssumption
<1>2. \E g : IsPowers(g, 2, W)
  BY <1>1, PowersExist
<1>3. IsPowers(PowerOf2, 2, W)
  BY <1>2 DEF PowerOf2, IsPowers
<1> DEFINE g == PowerOf2
<1>0. IsPowers(g, 2, W)
  BY <1>3
<1> HIDE DEF g
<1>5. /\ g[0] = 1
      /\ \A k \in 0 .. W-1 : g[k+1] = 2 * g[k]
      /\ \A k \in 0 .. W : g[k] \in Nat \ {0}
  BY <1>0, <1>1, PowersInTable
<1>6. \A a, c \in 0 .. W : a + c <= W => g[a + c] = g[a] * g[c]
  BY <1>0, <1>1, PowersOfSums
<1>4. ASSUME NEW a \in 0 .. W PROVE g[a] * g[W-a] = g[W]
  <2> DEFINE c == W-a
  <2>1. c \in 0 .. W /\ a + c = W /\ a + c <= W
    BY <1>1
  <2> HIDE DEF c
  <2> QED BY <1>6, <2>1 DEF c
<1> QED BY <1>4, <1>5 DEF Base, g

Half == PowerOf2[W-1]

(* The base of words. *)
LEMMA BaseFacts ==
  /\ Base \in Nat /\ Half \in Nat /\ Base = 2 * Half /\ Half >= 2 /\ Base \div 2 = Half
<1>1. W \in Nat /\ W >= 2
  BY WordAssumption
<1>2. /\ W-1 \in 0 .. W-1 /\ W-1 \in 0 .. W /\ (W-1)+1 = W
      /\ W-2 \in 0 .. W-1 /\ W-2 \in 0 .. W /\ (W-2)+1 = W-1
  BY <1>1
<1>3. /\ PowerOf2[W] = 2 * PowerOf2[W-1] /\ PowerOf2[W-1] = 2 * PowerOf2[W-2]
      /\ PowerOf2[W-1] \in Nat /\ PowerOf2[W-2] \in Nat \ {0}
  BY <1>2, PowersOfTwo
<1>4. Base = 2 * Half /\ Half \in Nat /\ Half >= 2 /\ Base \in Nat
  BY <1>3 DEF Base, Half
<1>5. (2 * Half) \div 2 = Half
  BY <1>4
<1> QED BY <1>4, <1>5

(* The powers of the base. *)
LEMMA PowersOfBase ==
  /\ BaseTo[0] = 1 /\ BaseTo[1] = Base
  /\ \A k \in 0 .. 8 : BaseTo[k+1] = Base * BaseTo[k]
  /\ \A k \in 0 .. 9 : BaseTo[k] \in Nat \ {0}
  /\ \A a, c \in 0 .. 9 : a + c <= 9 => BaseTo[a + c] = BaseTo[a] * BaseTo[c]
<1>1. 9 \in Nat /\ Base \in Nat \ {0}
  BY BaseFacts
<1>2. \E g : IsPowers(g, Base, 9)
  BY <1>1, PowersExist
<1>3. IsPowers(BaseTo, Base, 9)
  BY <1>2 DEF BaseTo, IsPowers
<1>4. /\ BaseTo[0] = 1
      /\ \A k \in 0 .. 9-1 : BaseTo[k+1] = Base * BaseTo[k]
      /\ \A k \in 0 .. 9 : BaseTo[k] \in Nat \ {0}
  BY <1>1, <1>3, PowersInTable
<1>5. BaseTo[1] = Base
  <2>1. 0 \in 0 .. 9-1 /\ 0+1 = 1 /\ Base * 1 = Base
    BY <1>1
  <2> QED BY <1>4, <2>1
<1> DEFINE g == BaseTo
<1>6. \A a, c \in 0 .. 9 : a + c <= 9 => BaseTo[a + c] = BaseTo[a] * BaseTo[c]
  BY <1>1, <1>3, PowersOfSums
<1>7. 9-1 = 8
  OBVIOUS
<1> QED BY <1>4, <1>5, <1>6, <1>7

(* Powers of the base grow. *)
LEMMA BaseGrows ==
  ASSUME NEW a \in 0 .. 9, NEW c \in 0 .. 9, a <= c
  PROVE  BaseTo[a] <= BaseTo[c] /\ BaseTo[c] = BaseTo[c-a] * BaseTo[a]
<1>1. c-a \in 0 .. 9 /\ (c-a) + a = c
  OBVIOUS
<1> DEFINE b == c-a
<1> HIDE DEF b
<1>4. b \in 0 .. 9 /\ b + a = c /\ b + a <= 9
  BY <1>1 DEF b
<1>2. BaseTo[c] = BaseTo[b] * BaseTo[a]
  BY <1>4, PowersOfBase
<1>5. BaseTo[b] \in Nat \ {0} /\ BaseTo[a] \in Nat
  BY <1>4, PowersOfBase
<1>3. 1 * BaseTo[a] <= BaseTo[b] * BaseTo[a]
  BY <1>5, TimesMonotonic
<1>6. 1 * BaseTo[a] = BaseTo[a]
  BY <1>5
<1> QED BY <1>2, <1>3, <1>6 DEF b
-----------------------------------------------------------------------------
(* Quotient and remainder of an integer. *)
LEMMA IntegerDivision ==
  ASSUME NEW x \in Int, NEW d \in Nat \ {0}
  PROVE  /\ x \div d \in Int /\ x % d \in Int /\ 0 <= x % d /\ x % d < d
         /\ x = d * (x \div d) + (x % d)
         /\ x \in Nat => x \div d \in Nat
<1>1. x \div d \in Int /\ x % d \in Int /\ 0 <= x % d /\ x % d < d
  BY SMTT(30)
<1>2. x = d * (x \div d) + (x % d)
  BY SMTT(30)
<1>3. x \in Nat => x \div d \in Nat
  BY SMTT(30)
<1> QED BY <1>1, <1>2, <1>3

(* There are no others. *)
LEMMA DivisionIsUnique ==
  ASSUME NEW x \in Int, NEW d \in Nat \ {0}, NEW q \in Int, NEW r \in Int,
         x = d * q + r, 0 <= r, r < d
  PROVE  x \div d = q /\ x % d = r
<1> DEFINE e == x \div d  f == x % d
<1>1. e \in Int /\ f \in Int /\ 0 <= f /\ f < d /\ x = d * e + f
  BY IntegerDivision
<1> HIDE DEF e, f
<1>2. e * d < (q + 1) * d /\ q * d < (e + 1) * d
  <2>1. e * d = d * e /\ (q + 1) * d = d * q + d /\ q * d = d * q /\ (e + 1) * d = d * e + d
    BY <1>1
  <2> QED BY <1>1, <2>1
<1>3. e < q + 1 /\ q < e + 1
  BY <1>1, <1>2, TimesMonotonic
<1>4. e = q
  BY <1>1, <1>3
<1> QED BY <1>1, <1>4 DEF e, f

(* A word is what is left of a number modulo the base. *)
LEMMA WordFacts ==
  ASSUME NEW x \in Int
  PROVE  /\ WordOf(x) \in 0 .. Base-1
         /\ x \in 0 .. Base-1 => WordOf(x) = x
         /\ \A t \in Int : WordOf(x + Base * t) = WordOf(x)
<1>1. Base \in Nat \ {0}
  BY BaseFacts
<1>2. WordOf(x) \in Int /\ 0 <= WordOf(x) /\ WordOf(x) < Base /\ x = Base * (x \div Base) + WordOf(x)
      /\ x \div Base \in Int
  BY <1>1, IntegerDivision DEF WordOf
<1>3. ASSUME x \in 0 .. Base-1 PROVE WordOf(x) = x
  <2>1. x = Base * 0 + x /\ 0 <= x /\ x < Base
    BY <1>1, <1>3
  <2> QED BY <1>1, <2>1, DivisionIsUnique DEF WordOf
<1>4. ASSUME NEW t \in Int PROVE WordOf(x + Base * t) = WordOf(x)
  <2> DEFINE y == x + Base * t  e == x \div Base  w == WordOf(x)
  <2>0. e \in Int /\ w \in Int /\ x = Base * e + w /\ 0 <= w /\ w < Base
    BY <1>2
  <2> HIDE DEF e, w
  <2>1. Base * t \in Int /\ Base * e \in Int /\ Base * (e + t) = Base * e + Base * t
    BY <1>1, <2>0
  <2>2. y = Base * (e + t) + w /\ y \in Int /\ e + t \in Int
    BY <1>1, <2>0, <2>1
  <2> HIDE DEF y
  <2>3. y % Base = w
    BY <1>1, <2>0, <2>2, DivisionIsUnique
  <2> QED BY <2>3 DEF WordOf, y, w
<1>5. WordOf(x) \in 0 .. Base-1
  BY <1>1, <1>2
<1> QED BY <1>3, <1>4, <1>5
-----------------------------------------------------------------------------
(* How far the first candidate for a quotient by a reciprocal can be off.    *)
LEMMA CandidateRemainder ==
  ASSUME NEW b \in Nat, NEW d \in Nat, NEW uh \in Nat, NEW ul \in Nat, NEW v \in Nat,
         NEW p1 \in Nat, NEW q0 \in Nat, NEW k \in Nat, NEW rt \in Int,
         0 < d, d < b, uh < d, ul < b, q0 < b, k <= d,
         b * b = v * d + b * d + k,
         v * uh + ul = b * p1 + q0,
         rt = uh * b + ul - (p1 + uh + 1) * d
  PROVE  /\ -d <= rt
         /\ rt < b - d \/ rt < q0
         /\ rt < 0 => q0 - b < rt
<1>1. b * rt = uh * k + ul * (b - d) + q0 * d - b * d
  <2>1. b * rt = b * (uh * b) + b * ul - b * ((p1 + uh + 1) * d)
    BY SMTT(30)
  <2>2. b * ((p1 + uh + 1) * d) = (b * p1 + q0) * d - q0 * d + uh * (b * d) + b * d
    BY SMTT(30)
  <2>3. (b * p1 + q0) * d = (v * uh + ul) * d
    OBVIOUS
  <2>4. (v * uh + ul) * d = uh * (v * d) + ul * d
    BY SMTT(30)
  <2>5. b * (uh * b) = uh * (b * b)
    BY SMTT(30)
  <2>6. uh * (b * b) = uh * (v * d + b * d + k)
    OBVIOUS
  <2>7. uh * (v * d + b * d + k) = uh * (v * d) + uh * (b * d) + uh * k
    BY SMTT(30)
  <2>8. ul * (b - d) = b * ul - ul * d
    BY SMTT(30)
  <2> DEFINE m1 == b * rt  m2 == b * (uh * b)  m3 == b * ul  m4 == b * ((p1 + uh + 1) * d)
             m5 == (b * p1 + q0) * d  m6 == q0 * d  m7 == uh * (b * d)  m8 == b * d
             m9 == (v * uh + ul) * d  l1 == uh * (v * d)  l2 == ul * d  l3 == uh * (b * b)
             l4 == uh * (v * d + b * d + k)  l5 == uh * k  l6 == ul * (b - d)
  <2>9. /\ m1 \in Int /\ m2 \in Int /\ m3 \in Int /\ m4 \in Int /\ m5 \in Int /\ m6 \in Int
        /\ m7 \in Int /\ m8 \in Int /\ m9 \in Int /\ l1 \in Int /\ l2 \in Int /\ l3 \in Int
        /\ l4 \in Int /\ l5 \in Int /\ l6 \in Int
    OBVIOUS
  <2> HIDE DEF m1, m2, m3, m4, m5, m6, m7, m8, m9, l1, l2, l3, l4, l5, l6
  <2>10. /\ m1 = m2 + m3 - m4 /\ m4 = m5 - m6 + m7 + m8 /\ m5 = m9 /\ m9 = l1 + l2 /\ m2 = l3
         /\ l3 = l4 /\ l4 = l1 + m7 + l5 /\ l6 = m3 - l2
    BY <2>1, <2>2, <2>3, <2>4, <2>5, <2>6, <2>7, <2>8
       DEF m1, m2, m3, m4, m5, m6, m7, m8, m9, l1, l2, l3, l4, l5, l6
  <2>11. m1 = l5 + l6 + m6 - m8
    BY <2>9, <2>10
  <2> QED BY <2>11 DEF m1, l5, l6, m6, m8
<1>2. /\ uh * k \in Nat /\ ul * (b - d) \in Nat /\ q0 * d \in Nat /\ b * d \in Nat
      /\ b * rt \in Int /\ b - d \in Nat /\ b \in Nat /\ b > 0
  <2>1. b - d \in Nat
    OBVIOUS
  <2>2. ul * (b - d) \in Nat
    BY <2>1
  <2> QED BY <2>1, <2>2
<1>3. -d <= rt
  <2>1. (-d) * b <= rt * b
    <3>1. (-d) * b = -(b * d) /\ rt * b = b * rt
      BY SMTT(30)
    <3> QED BY <1>1, <1>2, <3>1
  <2> QED BY <1>2, <2>1, TimesMonotonic
<1>4. ASSUME rt < 0, ~ (q0 - b < rt) PROVE FALSE
  <2>1. rt * b <= (q0 - b) * b
    BY <1>2, <1>4, TimesMonotonic
  <2>2. d * (b - q0) < b * (b - q0)
    <3>1. b - q0 \in Nat /\ b - q0 > 0
      OBVIOUS
    <3> QED BY <3>1, TimesMonotonic
  <2>3. /\ d * (b - q0) = b * d - q0 * d /\ b * (b - q0) = -((q0 - b) * b) /\ rt * b = b * rt
        /\ (q0 - b) * b \in Int
    BY SMTT(30)
  <2> QED BY <1>1, <1>2, <2>1, <2>2, <2>3
<1>5. ASSUME b - d <= rt, q0 <= rt PROVE FALSE
  <2>1. uh * k < d * d
    <3>1. uh * k <= (d-1) * k
      BY TimesMonotonic
    <3>2. k * (d-1) <= d * (d-1)
      <4>1. d-1 \in Nat
        OBVIOUS
      <4> QED BY <4>1, TimesMonotonic
    <3>3. (d-1) * k = k * (d-1) /\ d * (d-1) = d * d - d /\ d * d \in Nat /\ k * (d-1) \in Int
      BY SMTT(30)
    <3> QED BY <1>2, <3>1, <3>2, <3>3
  <2>2. ul * (b - d) <= b * (b - d)
    BY <1>2, TimesMonotonic
  <2>3. (b - d) * (b - d) <= rt * (b - d)
    BY <1>2, <1>5, TimesMonotonic
  <2>4. q0 * d <= rt * d
    BY <1>5, TimesMonotonic
  <2>5. /\ rt * (b - d) = b * rt - rt * d
        /\ (b - d) * (b - d) = b * (b - d) - b * d + d * d
        /\ d * d \in Int /\ b * (b - d) \in Int /\ rt * d \in Int
    BY SMTT(30)
  <2> QED BY <1>1, <1>2, <2>1, <2>2, <2>3, <2>4, <2>5
<1> QED BY <1>2, <1>3, <1>4, <1>5

(* The reciprocal of a normalised word, and what it falls short by.          *)
LEMMA ReciprocalFact ==
  ASSUME NEW d \in Half .. Base-1
  PROVE  /\ d \in Nat \ {0} /\ Base < 2 * d + 1
         /\ Reciprocal2by1(d) \in Nat
         /\ \E k \in 1 .. d : Base * Base = Reciprocal2by1(d) * d + Base * d + k
         /\ Reciprocal2by1(d) = (Base * Base - 1) \div d - Base
<1>1. Base \in Nat /\ Half \in Nat /\ Base = 2 * Half /\ Half >= 2 /\ BaseTo[2] = Base * Base
  <2>1. BaseTo[1+1] = Base * BaseTo[1] /\ BaseTo[1] = Base
    BY PowersOfBase
  <2> QED BY <2>1, BaseFacts
<1>2. d \in Nat \ {0} /\ d <= Base-1 /\ Base < 2 * d + 1
  BY <1>1
<1> DEFINE x == Base * Base - 1 - d * Base
           v == x \div d
           r == x % d
<1>3. x \in Nat
  <2>1. d * Base <= (Base-1) * Base
    BY <1>1, <1>2, TimesMonotonic
  <2>2. (Base-1) * Base = Base * Base - Base /\ Base * Base \in Nat /\ d * Base \in Nat
    BY <1>1, <1>2
  <2> QED BY <1>1, <2>1, <2>2
<1>4. v = Reciprocal2by1(d)
  BY <1>1 DEF Reciprocal2by1
<1> HIDE DEF x
<1>5. v \in Nat /\ r \in Int /\ 0 <= r /\ r < d /\ x = d * v + r
  BY <1>2, <1>3, IntegerDivision
<1> HIDE DEF v, r
<1>6. Base * Base = v * d + Base * d + (r+1) /\ r+1 \in 1 .. d
  <2>1. d * v = v * d /\ d * Base = Base * d /\ v * d \in Int /\ Base * d \in Int /\ Base * Base \in Int
    BY <1>1, <1>2, <1>5
  <2> QED BY <1>2, <1>5, <2>1 DEF x
<1>7. v = (Base * Base - 1) \div d - Base
  <2> DEFINE y == Base * Base - 1
  <2>1. y = d * (v + Base) + r
    <3>1. d * (v + Base) = d * v + d * Base /\ d * v \in Int /\ d * Base \in Int /\ Base * Base \in Int
      BY <1>1, <1>2, <1>5, SMTT(30)
    <3> QED BY <1>5, <3>1 DEF x
  <2>2. y \in Int /\ v + Base \in Int
    BY <1>1, <1>5
  <2> HIDE DEF y
  <2>3. y \div d = v + Base
    BY <1>2, <1>5, <2>1, <2>2, DivisionIsUnique
  <2> QED BY <1>1, <1>5, <2>3 DEF y
<1> QED BY <1>2, <1>4, <1>5, <1>6, <1>7

(* udivrem2by1 divides two words by a normalised word, whatever they are: of  *)
(* its two corrections the ones that are needed are made.                     *)
LEMMA TwoWordsByOne ==
  ASSUME NEW d \in Half .. Base-1, NEW uh \in 0 .. d-1, NEW ul \in 0 .. Base-1
  PROVE  UDivRem2by1(uh, ul, d, Reciprocal2by1(d))
           = [q |-> (uh * Base + ul) \div d, r |-> (uh * Base + ul) % d]
<1> DEFINE v == Reciprocal2by1(d)
<1>1. d \in Nat \ {0} /\ Base < 2 * d + 1 /\ v \in Nat
  BY ReciprocalFact
<1>2. PICK k \in 1 .. d : Base * Base = v * d + Base * d + k
  BY ReciprocalFact
<1> HIDE DEF v
<1>3. Base \in Nat \ {0} /\ d < Base /\ uh \in Nat /\ uh < d /\ ul \in Nat /\ ul < Base
      /\ k \in Nat /\ k <= d /\ Half \in Nat
  BY <1>1, BaseFacts
<1> DEFINE p == v * uh + ul
           p1 == p \div Base
           q0 == p % Base
           c == p1 + uh + 1
           u == uh * Base + ul
           rt == uh * Base + ul - c * d
           qh == WordOf(c)
           r0 == WordOf(ul - qh * d)
<1>4. p1 \in Nat /\ q0 \in Nat /\ q0 < Base /\ v * uh + ul = Base * p1 + q0
  <2>1. p \in Nat /\ p \in Int
    BY <1>1, <1>3
  <2> HIDE DEF p
  <2>2. p1 \in Nat /\ q0 \in Nat /\ q0 < Base /\ p = Base * p1 + q0
    BY <1>3, <2>1, IntegerDivision
  <2> QED BY <2>2 DEF p
<1>5. UDivRem2by1(uh, ul, d, v) = Correct(qh, q0, r0, d)
  BY DEF UDivRem2by1, WordOf
<1> HIDE DEF p1, q0
<1>6. c \in Nat \ {0} /\ c-1 \in Nat /\ c * d \in Int /\ (c-1) * d = c * d - d /\ u \in Nat /\ rt \in Int
      /\ u = d * c + rt /\ uh * Base \in Int /\ (c+1) * d = c * d + d
  BY <1>1, <1>3, <1>4
<1>7. /\ -d <= rt
      /\ rt < Base - d \/ rt < q0
      /\ rt < 0 => q0 - Base < rt
  BY <1>1, <1>2, <1>3, <1>4, CandidateRemainder
<1>8. u < d * Base
  <2>1. (uh + 1) * Base <= d * Base
    BY <1>1, <1>3, TimesMonotonic
  <2>2. (uh + 1) * Base = uh * Base + Base
    BY <1>3
  <2> QED BY <1>1, <1>3, <1>6, <2>1, <2>2
<1> HIDE DEF u
<1>9. ASSUME NEW q \in Nat, NEW r \in Nat, r < d, u = d * q + r
      PROVE  q < Base /\ u \div d = q /\ u % d = r
  <2>0. u \in Int /\ q \in Int /\ r \in Int /\ 0 <= r
    BY <1>6, <1>9
  <2>1. u \div d = q /\ u % d = r
    BY <1>1, <1>9, <2>0, DivisionIsUnique
  <2>2. q * d < Base * d
    <3>1. q * d = d * q /\ Base * d = d * Base /\ d * q \in Int /\ d * Base \in Int
      BY <1>1, <1>3, <1>9
    <3> QED BY <1>6, <1>8, <1>9, <3>1
  <2>3. q < Base
    BY <1>1, <1>3, <1>9, <2>2, TimesMonotonic
  <2> QED BY <2>1, <2>3
<1>10. PICK m \in Int : c = qh + Base * m
  <2> HIDE DEF c
  <2> DEFINE m == c \div Base
  <2>1. m \in Int /\ c % Base \in Int /\ c = Base * m + (c % Base)
    BY <1>3, <1>6, IntegerDivision
  <2>2. qh = c % Base
    BY DEF WordOf
  <2> HIDE DEF m, qh
  <2>3. c = qh + Base * m
    BY <1>3, <2>1, <2>2
  <2> QED BY <2>1, <2>3
<1>11. qh \in 0 .. Base-1 /\ qh \in Int
  BY <1>3, <1>6, WordFacts
<1> HIDE DEF c, qh
<1>12. r0 = WordOf(rt)
  <2>1. ul - qh * d = rt + Base * (m * d - uh)
    <3>1. c * d = (qh + Base * m) * d
      BY <1>10
    <3>2. (qh + Base * m) * d = qh * d + Base * (m * d)
      BY <1>1, <1>3, <1>10, <1>11, SMTT(30)
    <3>3. Base * (m * d - uh) = Base * (m * d) - uh * Base
      BY <1>1, <1>3, <1>10, SMTT(30)
    <3>4. Base * (m * d) \in Int /\ uh * Base \in Int /\ qh * d \in Int /\ c * d \in Int
      BY <1>1, <1>3, <1>6, <1>10, <1>11
    <3> QED BY <1>3, <3>1, <3>2, <3>3, <3>4
  <2>2. m * d - uh \in Int
    BY <1>1, <1>3, <1>10
  <2> HIDE DEF rt
  <2>3. WordOf(rt + Base * (m * d - uh)) = WordOf(rt)
    BY <1>6, <2>2, WordFacts
  <2> QED BY <2>1, <2>3
<1> HIDE DEF rt, r0
<1>13. CASE rt < 0
  <2>1. r0 = rt + Base
    <3>1. rt + Base \in 0 .. Base-1 /\ rt + Base \in Int
      BY <1>1, <1>3, <1>6, <1>7, <1>13
    <3>2. WordOf(rt + Base * 1) = WordOf(rt) /\ Base * 1 = Base
      BY <1>3, <1>6, WordFacts
    <3> QED BY <1>12, <3>1, <3>2, WordFacts
  <2>2. r0 > q0
    BY <1>3, <1>4, <1>6, <1>7, <1>13, <2>1
  <2>3. /\ rt + d \in Nat /\ rt + d < d /\ u = d * (c-1) + (rt + d) /\ c-1 \in Nat
    <3>1. d * (c-1) = d * c - d /\ d * c \in Int
      BY <1>1, <1>6
    <3> QED BY <1>1, <1>6, <1>7, <1>13, <3>1
  <2>4. c-1 < Base /\ u \div d = c-1 /\ u % d = rt + d
    BY <1>9, <2>3
  <2>5. WordOf(qh - 1) = c-1
    <3>1. c-1 = (qh - 1) + Base * m /\ qh - 1 \in Int /\ c-1 \in 0 .. Base-1
      BY <1>3, <1>10, <1>11, <2>3, <2>4
    <3>2. WordOf((qh - 1) + Base * m) = WordOf(qh - 1)
      BY <1>10, <3>1, WordFacts
    <3>3. WordOf(c-1) = c-1
      BY <3>1, WordFacts
    <3> QED BY <3>1, <3>2, <3>3
  <2>6. WordOf(r0 + d) = rt + d
    <3>1. r0 + d = (rt + d) + Base * 1 /\ rt + d \in Int /\ rt + d \in 0 .. Base-1
      BY <1>1, <1>3, <1>6, <2>1, <2>3
    <3>2. WordOf((rt + d) + Base * 1) = WordOf(rt + d)
      BY <3>1, WordFacts
    <3>3. WordOf(rt + d) = rt + d
      BY <3>1, WordFacts
    <3> QED BY <3>1, <3>2, <3>3
  <2>7. ~ (rt + d >= d)
    BY <1>1, <1>6, <2>3
  <2>8. Correct(qh, q0, r0, d) = [q |-> c-1, r |-> rt + d]
    BY <2>2, <2>5, <2>6, <2>7 DEF Correct
  <2> QED BY <1>5, <2>4, <2>8 DEF u, v
<1>14. CASE rt >= 0
  <2>1. rt \in 0 .. Base-1 /\ r0 = rt
    <3>1. rt \in 0 .. Base-1
      BY <1>1, <1>3, <1>4, <1>6, <1>7, <1>14
    <3> QED BY <1>6, <1>12, <3>1, WordFacts
  <2>2. c < Base /\ qh = c /\ WordOf(c-1) = c-1 /\ WordOf((c-1)+1) = c
    <3>1. c * d < Base * d
      <4>1. Base * d = d * Base /\ c * d = d * c /\ d * Base \in Int
        BY <1>1, <1>3, <1>6
      <4> QED BY <1>6, <1>8, <1>14, <4>1
    <3>2. c < Base
      BY <1>1, <1>3, <1>6, <3>1, TimesMonotonic
    <3>3. c \in 0 .. Base-1 /\ c-1 \in 0 .. Base-1 /\ c \in Int /\ c-1 \in Int /\ (c-1)+1 = c
      BY <1>3, <1>6, <3>2
    <3> QED BY <3>2, <3>3, WordFacts DEF qh
  <2>3. CASE rt > q0
    <3>1. rt < Base - d
      BY <1>1, <1>3, <1>4, <1>6, <1>7, <2>3
    <3>2. rt < d
      BY <1>1, <1>3, <1>6, <3>1
    <3>3. rt + d \in 0 .. Base-1 /\ rt + d \in Int /\ rt + d >= d /\ (rt + d) - d = rt
      BY <1>1, <1>3, <1>6, <1>14, <3>1
    <3>4. WordOf(r0 + d) = rt + d
      BY <2>1, <3>3, WordFacts
    <3>5. Correct(qh, q0, r0, d) = [q |-> c, r |-> rt]
      BY <2>1, <2>2, <2>3, <3>3, <3>4 DEF Correct
    <3>6. u \div d = c /\ u % d = rt
      BY <1>6, <1>9, <1>14, <3>2
    <3> QED BY <1>5, <3>5, <3>6 DEF u, v
  <2>4. CASE ~(rt > q0) /\ rt >= d
    <3>1. rt - d \in Nat /\ rt - d < d
      BY <1>1, <1>3, <1>4, <1>6, <1>7, <2>1, <2>4
    <3>2. u = d * (c+1) + (rt - d) /\ c+1 \in Nat
      <4>1. d * (c+1) = d * c + d /\ d * c \in Int
        BY <1>1, <1>6
      <4> QED BY <1>1, <1>6, <4>1
    <3>3. c+1 < Base /\ u \div d = c+1 /\ u % d = rt - d
      BY <1>9, <3>1, <3>2
    <3>4. WordOf(c+1) = c+1
      <4>1. c+1 \in 0 .. Base-1 /\ c+1 \in Int
        BY <1>3, <3>2, <3>3
      <4> QED BY <4>1, WordFacts
    <3>5. Correct(qh, q0, r0, d) = [q |-> c+1, r |-> rt - d]
      BY <2>1, <2>2, <2>4, <3>4 DEF Correct
    <3> QED BY <1>5, <3>3, <3>5 DEF u, v
  <2>5. CASE ~(rt > q0) /\ ~(rt >= d)
    <3>1. rt \in Nat /\ rt < d
      BY <1>1, <1>6, <1>14, <2>5
    <3>2. Correct(qh, q0, r0, d) = [q |-> c, r |-> rt]
      BY <2>1, <2>2, <2>5 DEF Correct
    <3>3. u \div d = c /\ u % d = rt
      BY <1>6, <1>9, <3>1
    <3> QED BY <1>5, <3>2, <3>3 DEF u, v
  <2> QED BY <2>3, <2>4, <2>5
<1> QED BY <1>6, <1>13, <1>14
-----------------------------------------------------------------------------
(* The words of a number, as many as it has. *)
LEMMA NumWordsFact ==
  ASSUME NEW x \in Nat, x < BaseTo[8]
  PROVE  /\ NumWords(x) \in 0 .. 8 /\ x < BaseTo[NumWords(x)]
         /\ NumWords(x) = 0 \/ BaseTo[NumWords(x) - 1] <= x
         /\ \A m \in 0 .. 8 : x < BaseTo[m] => NumWords(x) <= m
<1> DEFINE T == {k \in 0 .. 8 : x < BaseTo[k]}
           Fits(k) == x < BaseTo[k] /\ (k = 0 \/ BaseTo[k-1] <= x)
<1>1. T # {} /\ T \subseteq Nat
  OBVIOUS
<1>2. PICK k \in T : \A y \in T : k <= y
  <2> HIDE DEF T
  <2> QED BY <1>1, NatMinimum
<1>3. k \in 0 .. 8 /\ Fits(k)
  <2>1. CASE k # 0
    <3>1. k-1 \in 0 .. 8 /\ k-1 \in 0 .. 9 /\ ~(k <= k-1)
      BY <2>1
    <3>2. ~(x < BaseTo[k-1])
      BY <1>2, <3>1
    <3>3. BaseTo[k-1] \in Nat
      BY <3>1, PowersOfBase
    <3> QED BY <3>2, <3>3
  <2> QED BY <2>1
<1>4. NumWords(x) = CHOOSE m \in 0 .. 8 : Fits(m)
  BY DEF NumWords
<1> DEFINE len == NumWords(x)
<1>5. len \in 0 .. 8 /\ Fits(len)
  <2> HIDE DEF Fits
  <2> QED BY <1>3, <1>4
<1> HIDE DEF len
<1>6. ASSUME NEW m \in 0 .. 8, x < BaseTo[m] PROVE len <= m
  <2> SUFFICES ASSUME m < len PROVE FALSE
    BY <1>5
  <2>1. len-1 \in 0 .. 9 /\ m \in 0 .. 9 /\ m <= len-1 /\ len # 0
    BY <1>5
  <2>2. BaseTo[m] <= BaseTo[len-1] /\ BaseTo[m] \in Nat /\ BaseTo[len-1] \in Nat
    BY <2>1, BaseGrows, PowersOfBase
  <2> QED BY <1>5, <1>6, <2>1, <2>2
<1> QED BY <1>5, <1>6 DEF len

(* The leading zeros of a word: shifted by them it has none. *)
LEMMA LeadingZerosFact ==
  ASSUME NEW w \in 1 .. Base-1
  PROVE  LET s == LeadingZeros(w)
         IN  s \in 0 .. W-1 /\ Half <= w * PowerOf2[s] /\ w * PowerOf2[s] < Base
<1> DEFINE T == {k \in 0 .. W : Base <= w * PowerOf2[k]}
           Fits(s) == Base \div 2 <= w * PowerOf2[s] /\ w * PowerOf2[s] < Base
<1>1. W \in Nat \ {0} /\ Base \in Nat /\ w \in Nat /\ Base = 2 * Half /\ Half \in Nat /\ Base \div 2 = Half
  BY WordAssumption, BaseFacts
<1>2. W \in T
  <2>1. W \in 0 .. W /\ PowerOf2[W] = Base
    BY <1>1 DEF Base
  <2>2. 1 * Base <= w * Base
    BY <1>1, TimesMonotonic
  <2>3. 1 * Base = Base
    BY <1>1
  <2> QED BY <2>1, <2>2, <2>3
<1>3. T # {} /\ T \subseteq Nat
  BY <1>1, <1>2
<1>4. PICK k \in T : \A y \in T : k <= y
  <2> HIDE DEF T
  <2> QED BY <1>3, NatMinimum
<1>5. k # 0
  <2>1. w * PowerOf2[0] = w
    BY <1>1, PowersOfTwo
  <2> QED BY <1>1, <2>1
<1>6. k-1 \in 0 .. W-1 /\ k-1 \in 0 .. W /\ (k-1) + 1 = k /\ ~(k <= k-1)
  BY <1>1, <1>5
<1>7. PowerOf2[k] = 2 * PowerOf2[k-1] /\ PowerOf2[k-1] \in Nat
  <2>1. PowerOf2[(k-1) + 1] = 2 * PowerOf2[k-1]
    BY <1>6, PowersOfTwo
  <2> QED BY <1>6, <2>1, PowersOfTwo
<1>8. w * PowerOf2[k] = 2 * (w * PowerOf2[k-1]) /\ w * PowerOf2[k-1] \in Nat
  <2> DEFINE a == PowerOf2[k-1]
  <2>1. a \in Nat /\ PowerOf2[k] = 2 * a
    BY <1>7
  <2> HIDE DEF a
  <2>2. w * (2 * a) = 2 * (w * a) /\ w * a \in Nat
    BY <1>1, <2>1, SMTT(30)
  <2> QED BY <2>1, <2>2 DEF a
<1>9. Base <= w * PowerOf2[k] /\ ~(Base <= w * PowerOf2[k-1])
  BY <1>4, <1>6
<1>10. Fits(k-1)
  BY <1>1, <1>8, <1>9
<1>11. LeadingZeros(w) = CHOOSE s \in 0 .. W-1 : Fits(s)
  BY DEF LeadingZeros
<1>12. LeadingZeros(w) \in 0 .. W-1 /\ Fits(LeadingZeros(w))
  <2> HIDE DEF Fits
  <2> QED BY <1>6, <1>10, <1>11
<1> QED BY <1>1, <1>12

(* Digits, from above: what is above a digit, times the base, and the digit. *)
LEMMA DigitStep ==
  ASSUME NEW x \in Nat, NEW k \in 0 .. 8
  PROVE  /\ x \div BaseTo[k] = Base * (x \div BaseTo[k+1]) + Digit(x, k)
         /\ Digit(x, k) \in 0 .. Base-1
         /\ x \div BaseTo[k] \in Nat
         /\ x < BaseTo[k+1] => Digit(x, k) = x \div BaseTo[k]
<1> DEFINE p == BaseTo[k]  e == x \div p  f == x % p  g == e \div Base  h == e % Base
<1>1. p \in Nat \ {0} /\ BaseTo[k+1] = Base * p /\ Base \in Nat \ {0}
  <2>1. k \in 0 .. 9
    OBVIOUS
  <2>2. BaseTo[k] \in Nat \ {0}
    BY <2>1, PowersOfBase
  <2>3. BaseTo[k+1] = Base * BaseTo[k]
    BY PowersOfBase
  <2>4. Base \in Nat \ {0}
    BY BaseFacts
  <2> QED BY <2>2, <2>3, <2>4
<1> HIDE DEF p
<1>2. e \in Nat /\ f \in Nat /\ f < p /\ x = p * e + f
  BY <1>1, IntegerDivision
<1> HIDE DEF e, f
<1>3. g \in Nat /\ h \in Nat /\ h < Base /\ e = Base * g + h
  BY <1>1, <1>2, IntegerDivision
<1>4. h = Digit(x, k)
  BY DEF Digit, WordOf, e, p
<1> HIDE DEF g, h
<1>5. x \div (Base * p) = g
  <2>1. x = (Base * p) * g + (p * h + f)
    <3>1. p * (Base * g + h) = (Base * p) * g + p * h
      BY <1>1, <1>3, SMTT(30)
    <3>2. p * e = p * (Base * g + h) /\ (Base * p) * g \in Int /\ p * h \in Int
      BY <1>1, <1>3
    <3> QED BY <1>2, <3>1, <3>2
  <2>2. 0 <= p * h + f /\ p * h + f < Base * p /\ p * h + f \in Int
    <3>1. (h + 1) * p <= Base * p
      BY <1>1, <1>3, TimesMonotonic
    <3>2. (h + 1) * p = p * h + p /\ p * h \in Nat /\ Base * p \in Nat
      BY <1>1, <1>3
    <3> QED BY <1>1, <1>2, <3>1, <3>2
  <2>3. Base * p \in Nat \ {0}
    BY <1>1, SMTT(30)
  <2> DEFINE m == Base * p  r == p * h + f
  <2>4. m \in Nat \ {0} /\ r \in Int /\ 0 <= r /\ r < m /\ x = m * g + r
    BY <2>1, <2>2, <2>3
  <2> HIDE DEF m, r
  <2>5. x \div m = g
    BY <1>3, <2>4, DivisionIsUnique
  <2> QED BY <2>5 DEF m
<1>6. ASSUME x < BaseTo[k+1] PROVE g = 0
  <2>1. x < p * Base
    BY <1>1, <1>6
  <2>2. e * p < Base * p
    <3>1. e * p = p * e /\ Base * p = p * Base /\ p * e \in Int /\ p * Base \in Int
      BY <1>1, <1>2
    <3> QED BY <1>2, <2>1, <3>1
  <2>3. e < Base
    BY <1>1, <1>2, <2>2, TimesMonotonic
  <2>4. e = Base * 0 + e
    BY <1>1, <1>2
  <2>5. e \div Base = 0
    BY <1>1, <1>2, <2>3, <2>4, DivisionIsUnique
  <2> QED BY <2>5 DEF g
<1>7. ASSUME x < BaseTo[k+1] PROVE h = e
  BY <1>1, <1>2, <1>3, <1>6, <1>7
<1>8. x \div BaseTo[k+1] = g
  BY <1>1, <1>5
<1>9. x \div BaseTo[k] = e
  BY DEF e, p
<1>10. h \in 0 .. Base-1
  BY <1>1, <1>3
<1> QED BY <1>2, <1>3, <1>4, <1>7, <1>8, <1>9, <1>10
-----------------------------------------------------------------------------
(* A divisor as the code keeps it: shifted until its top word has no leading *)
(* zeros, with the reciprocal of that word.                                  *)
IsPrepared(v, d) ==
  /\ v.d = d /\ v.dLen \in 1 .. 4 /\ v.shift \in 0 .. W-1
  /\ v.dn \in Nat /\ v.dn = d * PowerOf2[v.shift]
  /\ BaseTo[v.dLen - 1] <= d
  /\ Half * BaseTo[v.dLen - 1] <= v.dn /\ v.dn < BaseTo[v.dLen]
  /\ Digit(v.dn, v.dLen - 1) = v.dn \div BaseTo[v.dLen - 1]
  /\ Digit(v.dn, v.dLen - 1) \in Half .. Base-1
  /\ v.recip = Reciprocal2by1(Digit(v.dn, v.dLen - 1))

LEMMA NormalisedIsPrepared ==
  ASSUME NEW d \in Nat \ {0}, d < Full
  PROVE  IsPrepared(Normalised(d), d) /\ \A m \in 0 .. 8 : d < BaseTo[m] => Normalised(d).dLen <= m
<1> DEFINE len == NumWords(d)
           top == Digit(d, len - 1)
           s == LeadingZeros(top)
           dn == d * PowerOf2[s]
           p == BaseTo[len - 1]
           c == PowerOf2[s]
           e == PowerOf2[W-s]
<1>1. Base \in Nat \ {0} /\ Half \in Nat \ {0} /\ W \in Nat \ {0} /\ Base = 2 * Half
  BY BaseFacts, WordAssumption
<1>2. d < BaseTo[8]
  <2>1. 4 \in 0 .. 9 /\ 8 \in 0 .. 9 /\ 4 <= 8
    OBVIOUS
  <2>2. BaseTo[4] <= BaseTo[8] /\ BaseTo[4] \in Nat /\ BaseTo[8] \in Nat
    BY <2>1, BaseGrows, PowersOfBase
  <2> QED BY <2>2 DEF Full
<1>3. /\ len \in 0 .. 8 /\ d < BaseTo[len] /\ (len = 0 \/ BaseTo[len - 1] <= d)
      /\ \A m \in 0 .. 8 : d < BaseTo[m] => len <= m
  BY <1>2, NumWordsFact
<1> HIDE DEF len
<1>4. len \in 1 .. 4 /\ p <= d
  <2>1. len # 0
    BY <1>3, PowersOfBase
  <2>2. len <= 4
    BY <1>3 DEF Full
  <2> QED BY <1>3, <2>1, <2>2
<1>5. /\ len-1 \in 0 .. 8 /\ (len-1)+1 = len /\ len-1 \in 0 .. 9
      /\ p \in Nat \ {0} /\ BaseTo[len] = Base * p
  <2>1. len-1 \in 0 .. 8 /\ (len-1)+1 = len /\ len-1 \in 0 .. 9
    BY <1>4
  <2>2. BaseTo[(len-1)+1] = Base * BaseTo[len-1] /\ BaseTo[len-1] \in Nat \ {0}
    BY <2>1, PowersOfBase
  <2> QED BY <2>1, <2>2
<1>6. top = d \div p /\ top \in 0 .. Base-1
  <2>1. d < BaseTo[(len-1)+1]
    BY <1>3, <1>5
  <2> QED BY <1>5, <2>1, DigitStep
<1> HIDE DEF p
<1>7. top \in 1 .. Base-1 /\ d < p * (top + 1) /\ p * top <= d
  <2>1. d = p * (d \div p) + (d % p) /\ 0 <= d % p /\ d % p < p /\ d % p \in Int
    BY <1>5, IntegerDivision
  <2>2. d < p * top + p /\ p * top <= d /\ p * top + p = p * (top + 1)
    BY <1>5, <1>6, <2>1
  <2>3. top # 0
    BY <1>4, <1>5, <2>2
  <2> QED BY <1>6, <2>2, <2>3
<1>8. s \in 0 .. W-1 /\ Half <= top * c /\ top * c < Base
  BY <1>7, LeadingZerosFact
<1> HIDE DEF top, s
<1>9. c \in Nat \ {0} /\ e \in Nat \ {0} /\ c * e = Base
  <2>1. s \in 0 .. W /\ W-s \in 0 .. W
    BY <1>1, <1>8
  <2> QED BY <2>1, PowersOfTwo
<1> HIDE DEF c, e
<1>10. top \in Nat /\ (top + 1) * c <= Base
  <2>1. top * c < e * c
    BY <1>7, <1>8, <1>9
  <2>2. top < e
    BY <1>7, <1>9, <2>1, TimesMonotonic
  <2>3. top + 1 <= e
    BY <1>7, <1>9, <2>2
  <2>4. (top + 1) * c <= e * c
    BY <1>7, <1>9, <2>3, TimesMonotonic
  <2> QED BY <1>7, <1>9, <2>4
<1>11. dn \in Nat /\ Half * p <= dn /\ dn < Base * p
  <2>1. (p * top) * c <= d * c /\ d * c < (p * (top + 1)) * c
    BY <1>5, <1>7, <1>9, <1>10, TimesMonotonic
  <2>2. Half * p <= (top * c) * p /\ ((top + 1) * c) * p <= Base * p
    BY <1>1, <1>5, <1>8, <1>9, <1>10, TimesMonotonic
  <2>3. (top * c) * p = (p * top) * c /\ ((top + 1) * c) * p = (p * (top + 1)) * c
    BY <1>5, <1>9, <1>10, SMTT(30)
  <2>4. /\ d * c \in Nat /\ (p * top) * c \in Int /\ (p * (top + 1)) * c \in Int
        /\ Half * p \in Int /\ Base * p \in Int
    BY <1>1, <1>5, <1>9, <1>10
  <2>5. dn = d * c
    BY DEF c
  <2> QED BY <2>1, <2>2, <2>3, <2>4, <2>5
<1> HIDE DEF dn
<1>12. Digit(dn, len - 1) = dn \div p /\ Digit(dn, len - 1) \in 0 .. Base-1
  <2>1. dn < BaseTo[(len-1)+1]
    BY <1>5, <1>11
  <2> QED BY <1>5, <1>11, <2>1, DigitStep DEF p
<1>13. Half <= dn \div p
  <2> DEFINE t == dn \div p
  <2>1. t \in Nat /\ dn = p * t + (dn % p) /\ dn % p \in Int /\ dn % p < p
    BY <1>5, <1>11, IntegerDivision
  <2> HIDE DEF t
  <2>2. Half * p < (t + 1) * p
    <3>1. (t + 1) * p = p * t + p /\ p * t \in Int /\ Half * p \in Int
      BY <1>1, <1>5, <2>1
    <3> QED BY <1>5, <1>11, <2>1, <3>1
  <2>3. Half < t + 1
    BY <1>1, <1>5, <2>1, <2>2, TimesMonotonic
  <2> QED BY <1>1, <2>1, <2>3 DEF t
<1>14. Normalised(d) = [d |-> d, dLen |-> len, shift |-> s, dn |-> dn,
                        recip |-> Reciprocal2by1(Digit(dn, len - 1))]
  BY DEF Normalised, len, top, s, dn
<1>15. Digit(dn, len - 1) \in Half .. Base-1
  BY <1>1, <1>12, <1>13
<1> QED BY <1>3, <1>4, <1>5, <1>8, <1>11, <1>12, <1>14, <1>15 DEF IsPrepared, dn, p
-----------------------------------------------------------------------------
(* The estimate of a digit from the top word of the divisor and two words of *)
(* the dividend is not below the digit, and above it by two at most.         *)
LEMMA TopWordEstimate ==
  ASSUME NEW m \in Nat \ {0}, NEW t \in Nat, NEW wl \in Nat, wl < m,
         NEW dh \in Nat, NEW dl \in Nat, dl < m, NEW q \in Nat
  PROVE  /\ t < (q + 1) * dh => t * m + wl < (q + 1) * (dh * m + dl)
         /\ q * dh <= t /\ q <= 2 * dh + 2 => (q - 2) * (dh * m + dl) <= t * m + wl
<1> DEFINE dn == dh * m + dl  w == t * m + wl
<1>1. dn \in Nat /\ w \in Nat /\ t * m \in Nat /\ dh * m \in Nat
  OBVIOUS
<1>2. ASSUME t < (q + 1) * dh PROVE w < (q + 1) * dn
  <2>1. t + 1 <= (q + 1) * dh /\ (q + 1) * dh \in Nat
    BY <1>2
  <2>2. (t + 1) * m <= ((q + 1) * dh) * m
    BY <2>1, TimesMonotonic
  <2>3. ((q + 1) * dh) * m = (q + 1) * (dh * m) /\ (t + 1) * m = t * m + m
    BY SMTT(30)
  <2>4. (dh * m) * (q + 1) <= dn * (q + 1)
    BY <1>1, TimesMonotonic
  <2>5. (dh * m) * (q + 1) = (q + 1) * (dh * m) /\ dn * (q + 1) = (q + 1) * dn
        /\ (q + 1) * dn \in Int /\ (q + 1) * (dh * m) \in Int
    BY <1>1
  <2> QED BY <1>1, <2>2, <2>3, <2>4, <2>5
<1>3. ASSUME q * dh <= t, q <= 2 * dh + 2 PROVE (q - 2) * dn <= w
  <2>1. CASE q <= 2
    <3>1. (q - 2) * dn <= 0 * dn
      BY <1>1, <2>1, TimesMonotonic
    <3>2. 0 * dn = 0 /\ (q - 2) * dn \in Int
      BY <1>1
    <3> QED BY <1>1, <3>1, <3>2
  <2>2. CASE q > 2
    <3> DEFINE r == q - 2
    <3>1. r \in Nat /\ q = r + 2
      BY <2>2
    <3> HIDE DEF r
    <3>2. dn <= (dh + 1) * m
      <4>1. (dh + 1) * m = dh * m + m
        OBVIOUS
      <4> QED BY <1>1, <4>1
    <3> HIDE DEF dn
    <3>3. dn * r <= ((dh + 1) * m) * r
      BY <1>1, <3>1, <3>2, TimesMonotonic
    <3>4. r * (dh + 1) <= t
      <4>1. r * (dh + 1) = q * dh - 2 * dh + q - 2 /\ q * dh \in Int
        BY <3>1, SMTT(30)
      <4> QED BY <1>3, <4>1
    <3>5. (r * (dh + 1)) * m <= t * m
      BY <3>1, <3>4, TimesMonotonic
    <3>6. ((dh + 1) * m) * r = (r * (dh + 1)) * m /\ dn * r = r * dn /\ r * dn \in Int
          /\ (r * (dh + 1)) * m \in Int
      BY <1>1, <3>1, SMTT(30)
    <3> QED BY <1>1, <3>3, <3>5, <3>6 DEF r
  <2> QED BY <2>1, <2>2
<1> QED BY <1>2, <1>3

(* The test against the next word of each leaves it above by one at most: an *)
(* estimate that passes is no more than that, one that fails is too high.    *)
LEMMA NextWordTest ==
  ASSUME NEW b \in Nat, NEW p \in Nat \ {0}, NEW t \in Nat, NEW u0 \in Nat, NEW lo \in Nat, lo < p,
         NEW dh \in Nat \ {0}, NEW dl \in Nat, NEW dlo \in Nat, dlo < p,
         NEW q \in Nat, NEW r \in Nat, q * dh + r = t, q <= b
  PROVE  LET dn == (dh * b + dl) * p + dlo
             w == (t * b + u0) * p + lo
         IN  /\ q * dl <= r * b + u0 => (q - 1) * dn <= w
             /\ q * dl > r * b + u0 => w < q * dn
<1> DEFINE dd == dh * b + dl  v == t * b + u0  dn == dd * p + dlo  w == v * p + lo
<1>1. dd \in Nat /\ v \in Nat /\ dn \in Nat /\ w \in Nat /\ v * p \in Nat /\ dd * p \in Nat
  <2>1. dd \in Nat /\ v \in Nat
    OBVIOUS
  <2> HIDE DEF dd, v
  <2> QED BY <2>1
<1>2. q * dd = v - (r * b + u0) + q * dl /\ q * dl \in Nat /\ r * b \in Nat /\ q * dd \in Nat
  <2>1. q * dd = (q * dh) * b + q * dl
    BY SMTT(30)
  <2>2. (q * dh) * b = t * b - r * b
    <3>1. (q * dh) * b = (t - r) * b
      BY SMTT(30)
    <3>2. (t - r) * b = t * b - r * b
      BY SMTT(30)
    <3> QED BY <3>1, <3>2
  <2>3. t * b \in Nat /\ r * b \in Nat /\ q * dl \in Nat /\ (q * dh) * b \in Nat
    OBVIOUS
  <2> QED BY <2>1, <2>2, <2>3
<1>3. b <= dd
  <2>1. 1 * b <= dh * b
    BY TimesMonotonic
  <2> QED BY <2>1
<1> HIDE DEF dd, v
<1>4. ASSUME q * dl <= r * b + u0 PROVE (q - 1) * dn <= w
  <2>1. CASE q = 0
    BY <1>1, <2>1
  <2>2. CASE q # 0
    <3>1. q - 1 \in Nat
      BY <2>2
    <3>2. dn <= (dd + 1) * p
      <4>1. (dd + 1) * p = dd * p + p
        BY <1>1
      <4> QED BY <1>1, <4>1
    <3>3. dn * (q - 1) <= ((dd + 1) * p) * (q - 1)
      BY <1>1, <3>1, <3>2, TimesMonotonic
    <3>4. (q - 1) * (dd + 1) <= v
      <4>1. (q - 1) * (dd + 1) = q * dd + q - dd - 1
        BY <1>1, SMTT(30)
      <4> QED BY <1>1, <1>2, <1>3, <1>4, <4>1
    <3>5. ((q - 1) * (dd + 1)) * p <= v * p
      BY <1>1, <3>1, <3>4, TimesMonotonic
    <3>6. ((dd + 1) * p) * (q - 1) = ((q - 1) * (dd + 1)) * p /\ dn * (q - 1) = (q - 1) * dn
          /\ dn * (q - 1) \in Int /\ ((q - 1) * (dd + 1)) * p \in Int
      <4> HIDE DEF dn
      <4> QED BY <1>1, <3>1, SMTT(30)
    <3> HIDE DEF dn
    <3> QED BY <1>1, <3>3, <3>5, <3>6
  <2> QED BY <2>1, <2>2
<1>5. ASSUME q * dl > r * b + u0 PROVE w < q * dn
  <2>1. v + 1 <= q * dd
    BY <1>1, <1>2, <1>5
  <2>2. (v + 1) * p <= (q * dd) * p
    BY <1>1, <1>2, <2>1, TimesMonotonic
  <2>3. (q * dd) * p = q * (dd * p) /\ (v + 1) * p = v * p + p /\ q * (dd * p) \in Int
    BY <1>1, SMTT(30)
  <2>4. (dd * p) * q <= dn * q
    BY <1>1, TimesMonotonic
  <2>5. (dd * p) * q = q * (dd * p) /\ dn * q = q * dn /\ dn * q \in Int
    <3> HIDE DEF dn
    <3> QED BY <1>1
  <2> QED BY <1>1, <2>2, <2>3, <2>4, <2>5
<1> QED BY <1>4, <1>5 DEF dd, v

(* A quotient from bounds on multiples of the divisor.                       *)
LEMMA QuotientBetween ==
  ASSUME NEW w \in Nat, NEW dn \in Nat \ {0}, NEW e \in Int
  PROVE  /\ w < e * dn => w \div dn < e
         /\ e * dn <= w => e <= w \div dn
<1> DEFINE q == w \div dn
<1>1. q \in Nat /\ dn * q <= w /\ w < dn * q + dn
  <2>1. q \in Nat /\ w % dn \in Int /\ 0 <= w % dn /\ w % dn < dn /\ w = dn * q + (w % dn)
    BY IntegerDivision
  <2> HIDE DEF q
  <2> QED BY <2>1
<1> HIDE DEF q
<1>2. ASSUME w < e * dn PROVE q < e
  <2>1. q * dn < e * dn
    <3>1. q * dn = dn * q /\ dn * q \in Int /\ e * dn \in Int
      BY <1>1
    <3> QED BY <1>1, <1>2, <3>1
  <2> QED BY <1>1, <2>1, TimesMonotonic
<1>3. ASSUME e * dn <= w PROVE e <= q
  <2>1. e * dn < (q + 1) * dn
    <3>1. (q + 1) * dn = dn * q + dn /\ dn * q \in Int /\ e * dn \in Int
      BY <1>1
    <3> QED BY <1>1, <1>3, <3>1
  <2>2. e < q + 1
    BY <1>1, <2>1, TimesMonotonic
  <2> QED BY <1>1, <2>2
<1> QED BY <1>2, <1>3 DEF q

(* What the code estimates is the digit or one more.                         *)
LEMMA EstimateIsClose ==
  ASSUME NEW d, IsPrepared(divisor, d), divisor.dLen >= 2, NEW w \in Nat, w < divisor.dn * Base
  PROVE  LET len == divisor.dLen
             e == Estimate(Digit(w, len), Digit(w, len-1), Digit(w, len-2),
                           Digit(divisor.dn, len-1), Digit(divisor.dn, len-2))
             q == w \div divisor.dn
         IN  /\ e \in Nat /\ e < Base /\ q \in Nat /\ q < Base
             /\ e = q \/ e = q + 1
<1> DEFINE len == divisor.dLen  dn == divisor.dn
           u2 == Digit(w, len)  u1 == Digit(w, len-1)  u0 == Digit(w, len-2)
           dh == Digit(dn, len-1)  dl == Digit(dn, len-2)
           p == BaseTo[len-2]  m == BaseTo[len-1]
           est == Estimate(u2, u1, u0, dh, dl)
           q == w \div dn
           t == w \div m
<1>1. /\ len \in 2 .. 4 /\ dn \in Nat /\ Half * m <= dn /\ dn < BaseTo[len]
      /\ dh = dn \div m /\ dh \in Half .. Base-1 /\ divisor.recip = Reciprocal2by1(dh)
  BY DEF IsPrepared
<1>2. Base \in Nat \ {0} /\ Half \in Nat \ {0} /\ Base = 2 * Half
  BY BaseFacts
<1>3. /\ len-2 \in 0 .. 8 /\ len-1 \in 0 .. 8 /\ len \in 0 .. 8
      /\ (len-2)+1 = len-1 /\ (len-1)+1 = len
      /\ len-2 \in 0 .. 9 /\ len-1 \in 0 .. 9 /\ len \in 0 .. 9
  BY <1>1
<1>4. /\ p \in Nat \ {0} /\ m \in Nat \ {0} /\ BaseTo[len] \in Nat \ {0}
      /\ m = Base * p /\ BaseTo[len] = Base * m /\ BaseTo[len+1] = Base * BaseTo[len]
  <2>1. BaseTo[(len-2)+1] = Base * p /\ BaseTo[(len-1)+1] = Base * m
    BY <1>3, PowersOfBase
  <2>2. p \in Nat \ {0} /\ m \in Nat \ {0} /\ BaseTo[len] \in Nat \ {0}
    BY <1>3, PowersOfBase
  <2>3. BaseTo[len+1] = Base * BaseTo[len]
    BY <1>3, PowersOfBase
  <2> QED BY <1>3, <2>1, <2>2, <2>3
<1>5. dn # 0
  <2>1. 1 * m <= Half * m
    BY <1>2, <1>4, TimesMonotonic
  <2> QED BY <1>1, <1>2, <1>4, <2>1
<1>6. w < BaseTo[len+1]
  <2>1. dn * Base < BaseTo[len] * Base
    BY <1>1, <1>2, <1>4, TimesMonotonic
  <2> QED BY <1>1, <1>2, <1>4, <2>1
<1>7. /\ w \div p = Base * t + u0 /\ u0 \in 0 .. Base-1
      /\ t = Base * u2 + u1 /\ u1 \in 0 .. Base-1 /\ u2 \in 0 .. Base-1
      /\ t \in Nat
  <2>1. w \div p = Base * t + u0 /\ u0 \in 0 .. Base-1
    BY <1>3, DigitStep
  <2>2. t = Base * (w \div BaseTo[len]) + u1 /\ u1 \in 0 .. Base-1 /\ t \in Nat
    BY <1>3, DigitStep
  <2>3. u2 = w \div BaseTo[len] /\ u2 \in 0 .. Base-1
    BY <1>3, <1>6, DigitStep
  <2> QED BY <2>1, <2>2, <2>3
<1>8. dn \div p = Base * dh + dl /\ dl \in 0 .. Base-1
  <2>1. dn \div p = Base * (dn \div m) + dl /\ dl \in 0 .. Base-1
    BY <1>1, <1>3, DigitStep
  <2> QED BY <1>1, <2>1
<1> DEFINE wl == w % m  lo == w % p  dnl == dn % m  dlo == dn % p
<1> HIDE DEF p, m, dn, u0, u1, u2, dh, dl
<1>0. /\ w \in Int /\ dn \in Int /\ p \in Nat \ {0} /\ m \in Nat \ {0}
  BY <1>1, <1>4
<1>9. /\ w = m * t + wl /\ wl \in Nat /\ wl < m
      /\ w = p * (Base * t + u0) + lo /\ lo \in Nat /\ lo < p
      /\ dn = m * dh + dnl /\ dnl \in Nat /\ dnl < m
      /\ dn = p * (Base * dh + dl) + dlo /\ dlo \in Nat /\ dlo < p
  <2>1. w = m * t + wl /\ wl \in Nat /\ wl < m
    BY <1>0, IntegerDivision
  <2>2. w = p * (w \div p) + lo /\ lo \in Nat /\ lo < p
    BY <1>0, IntegerDivision
  <2>3. dn = m * (dn \div m) + dnl /\ dnl \in Nat /\ dnl < m
    BY <1>0, IntegerDivision
  <2>4. dn = p * (dn \div p) + dlo /\ dlo \in Nat /\ dlo < p
    BY <1>0, IntegerDivision
  <2> QED BY <1>1, <1>7, <1>8, <2>1, <2>2, <2>3, <2>4
<1>10. est = CASE u2 >= dh -> Base - 1
               [] u2 < dh /\ UDivRem2by1(u2, u1, dh, divisor.recip).q * dl
                               > UDivRem2by1(u2, u1, dh, divisor.recip).r * Base + u0
                    -> UDivRem2by1(u2, u1, dh, divisor.recip).q - 1
               [] OTHER -> UDivRem2by1(u2, u1, dh, divisor.recip).q
  BY DEF Estimate
<1> HIDE DEF wl, lo, dnl, dlo, t, est, q
<1>11. dh \in Nat \ {0} /\ dl \in Nat /\ u2 \in Nat /\ u1 \in Nat /\ u0 \in Nat /\ dh < Base
       /\ Base <= 2 * dh + 2 /\ Base <= 2 * dh
  BY <1>1, <1>2, <1>7, <1>8
<1>12. /\ w = t * m + wl /\ dn = dh * m + dnl
       /\ w = (t * Base + u0) * p + lo /\ dn = (dh * Base + dl) * p + dlo
  BY <1>2, <1>4, <1>7, <1>9, <1>11
<1>13. q \in Nat /\ q < Base
  <2>1. q \in Nat
    BY <1>1, <1>5, IntegerDivision DEF q
  <2>2. w < dn * Base
    BY DEF dn
  <2>3. w < Base * dn
    BY <1>1, <1>2, <2>2
  <2>4. w \div dn < Base
    BY <1>1, <1>2, <1>5, <2>3, QuotientBetween
  <2> QED BY <2>1, <2>4 DEF q
<1>14. ASSUME NEW e \in Nat, w < (e + 1) * dn \/ e = Base - 1, (e - 1) * dn <= w
       PROVE  e = q \/ e = q + 1
  <2>1. q < e + 1
    <3>1. CASE w < (e + 1) * dn
      BY <1>1, <1>5, <3>1, QuotientBetween DEF q
    <3>2. CASE e = Base - 1
      BY <1>2, <1>13, <3>2
    <3> QED BY <1>14, <3>1, <3>2
  <2>2. e - 1 <= q
    BY <1>1, <1>5, <1>14, QuotientBetween DEF q
  <2> QED BY <1>13, <2>1, <2>2
<1>15. CASE u2 >= dh
  <2>1. est = Base - 1 /\ est \in Nat /\ est < Base /\ est - 1 = Base - 2
    BY <1>2, <1>10, <1>11, <1>15
  <2>2. Base * dh <= t
    <3>1. dh * Base <= u2 * Base
      BY <1>2, <1>11, <1>15, TimesMonotonic
    <3>2. dh * Base = Base * dh /\ u2 * Base = Base * u2 /\ Base * dh \in Int /\ Base * u2 \in Int
      BY <1>2, <1>11
    <3> QED BY <1>7, <1>11, <3>1, <3>2
  <2>3. (Base - 2) * (dh * m + dnl) <= t * m + wl
    BY <1>2, <1>4, <1>7, <1>9, <1>11, <2>2, TopWordEstimate
  <2>4. (est - 1) * dn <= w
    BY <1>12, <2>1, <2>3
  <2> QED BY <1>13, <1>14, <2>1, <2>4 DEF est, q, u2, u1, u0, dh, dl, dn
<1>16. CASE u2 < dh
  <2> DEFINE qh == t \div dh  rh == t % dh
  <2>1. UDivRem2by1(u2, u1, dh, divisor.recip) = [q |-> qh, r |-> rh]
    <3>1. t = u2 * Base + u1
      BY <1>2, <1>7, <1>11
    <3>2. u2 \in 0 .. dh-1
      BY <1>11, <1>16
    <3>3. UDivRem2by1(u2, u1, dh, Reciprocal2by1(dh))
            = [q |-> (u2 * Base + u1) \div dh, r |-> (u2 * Base + u1) % dh]
      BY <1>1, <1>7, <3>2, TwoWordsByOne
    <3> QED BY <1>1, <3>1, <3>3
  <2>2. qh \in Nat /\ rh \in Nat /\ rh < dh /\ qh * dh + rh = t
    <3>0. t \in Nat /\ t \in Int /\ dh \in Nat \ {0}
      BY <1>7, <1>11
    <3>1. qh \in Nat /\ rh \in Nat /\ rh < dh /\ t = dh * qh + rh
      BY <3>0, IntegerDivision
    <3> HIDE DEF qh, rh
    <3> QED BY <1>11, <3>1
  <2> HIDE DEF qh, rh
  <2>3. qh < Base
    <3>1. (u2 + 1) * Base <= dh * Base
      BY <1>2, <1>11, <1>16, TimesMonotonic
    <3>2. (u2 + 1) * Base = Base * u2 + Base /\ dh * Base = Base * dh /\ Base * u2 \in Int /\ Base * dh \in Int
      BY <1>2, <1>11
    <3>3. t < Base * dh
      BY <1>2, <1>7, <1>11, <3>1, <3>2
    <3>4. qh * dh < Base * dh
      BY <1>2, <1>7, <1>11, <2>2, <3>2, <3>3
    <3> QED BY <1>2, <1>11, <2>2, <3>4, TimesMonotonic
  <2>4. est = IF qh * dl > rh * Base + u0 THEN qh - 1 ELSE qh
    BY <1>10, <1>11, <1>16, <2>1
  <2>5. w < (qh + 1) * dn
    <3>1. t < (qh + 1) * dh
      <4>1. (qh + 1) * dh = qh * dh + dh /\ qh * dh \in Int
        BY <1>11, <2>2
      <4> QED BY <1>11, <2>2, <4>1
    <3>2. t * m + wl < (qh + 1) * (dh * m + dnl)
      BY <1>4, <1>7, <1>9, <1>11, <2>2, <3>1, TopWordEstimate
    <3> QED BY <1>12, <3>2
  <2>6. (qh - 2) * dn <= w
    <3>1. qh * dh <= t /\ qh <= 2 * dh + 2
      <4>1. qh * dh \in Int
        BY <1>11, <2>2
      <4> QED BY <1>2, <1>11, <2>2, <2>3, <4>1
    <3>2. (qh - 2) * (dh * m + dnl) <= t * m + wl
      BY <1>4, <1>7, <1>9, <1>11, <2>2, <3>1, TopWordEstimate
    <3> QED BY <1>12, <3>2
  <2>7. /\ qh * dl <= rh * Base + u0 => (qh - 1) * dn <= w
        /\ qh * dl > rh * Base + u0 => w < qh * dn
    <3>1. qh <= Base
      BY <1>2, <2>2, <2>3
    <3>2. /\ qh * dl <= rh * Base + u0 => (qh - 1) * ((dh * Base + dl) * p + dlo) <= (t * Base + u0) * p + lo
          /\ qh * dl > rh * Base + u0 => (t * Base + u0) * p + lo < qh * ((dh * Base + dl) * p + dlo)
      BY <1>2, <1>4, <1>7, <1>9, <1>11, <2>2, <3>1, NextWordTest
    <3> QED BY <1>12, <3>2
  <2>8. CASE qh * dl > rh * Base + u0
    <3>1. est = qh - 1 /\ w < qh * dn
      BY <2>4, <2>7, <2>8
    <3>2. qh # 0
      <4>1. 0 * dn = 0
        BY <1>1
      <4> QED BY <3>1, <4>1
    <3>3. est \in Nat /\ est < Base /\ est + 1 = qh /\ est - 1 = qh - 2
      BY <1>2, <2>2, <2>3, <3>1, <3>2
    <3>4. w < (est + 1) * dn /\ (est - 1) * dn <= w
      BY <2>6, <3>1, <3>3
    <3> QED BY <1>13, <1>14, <3>3, <3>4 DEF est, q, u2, u1, u0, dh, dl, dn
  <2>9. CASE ~(qh * dl > rh * Base + u0)
    <3>1. est = qh
      BY <2>4, <2>9
    <3>2. qh * dl <= rh * Base + u0
      <4>1. qh * dl \in Int /\ rh * Base + u0 \in Int
        BY <1>2, <1>11, <2>2
      <4> QED BY <2>9, <4>1
    <3>3. w < (est + 1) * dn /\ (est - 1) * dn <= w /\ est \in Nat /\ est < Base
      BY <2>2, <2>3, <2>5, <2>7, <3>1, <3>2
    <3> QED BY <1>13, <1>14, <3>3 DEF est, q, u2, u1, u0, dh, dl, dn
  <2> QED BY <2>8, <2>9
<1> QED BY <1>11, <1>15, <1>16

(* The digit after the subtraction and the addition that undoes one too many. *)
LEMMA KnuthDigitIsQuotient ==
  ASSUME NEW d, IsPrepared(divisor, d), divisor.dLen >= 2, NEW w \in Nat, w < divisor.dn * Base
  PROVE  KnuthDigit(w) = [q |-> w \div divisor.dn, left |-> w % divisor.dn]
<1> DEFINE len == divisor.dLen  dn == divisor.dn  bn == BaseTo[len]
           u2 == Digit(w, len)
           digit == Estimate(u2, Digit(w, len-1), Digit(w, len-2), Digit(dn, len-1), Digit(dn, len-2))
           low == w % bn
           left == low - digit * dn
           more == left \div bn
           words == left % bn
           q == w \div dn
           r == w % dn
<1>1. /\ len \in 2 .. 4 /\ dn \in Nat /\ dn < bn /\ Half * BaseTo[len-1] <= dn
  BY DEF IsPrepared
<1>2. Base \in Nat \ {0} /\ Half \in Nat \ {0}
  BY BaseFacts
<1>3. /\ len \in 0 .. 8 /\ len \in 0 .. 9 /\ len-1 \in 0 .. 9
  BY <1>1
<1>4. bn \in Nat \ {0} /\ BaseTo[len+1] = Base * bn /\ BaseTo[len-1] \in Nat \ {0}
  BY <1>3, PowersOfBase
<1>5. dn # 0
  <2>1. 1 * BaseTo[len-1] <= Half * BaseTo[len-1]
    BY <1>2, <1>4, TimesMonotonic
  <2> QED BY <1>1, <1>2, <1>4, <2>1
<1>6. digit \in Nat /\ digit < Base /\ q \in Nat /\ q < Base /\ (digit = q \/ digit = q + 1)
  BY EstimateIsClose
<1>7. KnuthDigit(w) = AddBack(u2 < -more, digit, words, WordOf(u2 - (-more)))
  BY DEF KnuthDigit, subMulTo
<1> HIDE DEF digit
<1>8. u2 = w \div bn /\ u2 \in 0 .. Base-1
  <2>1. dn * Base < bn * Base
    BY <1>1, <1>2, <1>4, TimesMonotonic
  <2>2. w < dn * Base
    OBVIOUS
  <2> HIDE DEF dn
  <2>3. w < BaseTo[len+1]
    BY <1>1, <1>2, <1>4, <2>1, <2>2
  <2> QED BY <1>3, <2>3, DigitStep
<1> HIDE DEF bn, u2, dn
<1>9. low \in Nat /\ w = bn * u2 + low
  <2>1. low \in Nat /\ w = bn * (w \div bn) + low
    BY <1>4, IntegerDivision
  <2> QED BY <1>8, <2>1
<1>10. r \in Nat /\ r < dn /\ w = dn * q + r
  BY <1>1, <1>5, IntegerDivision
<1> HIDE DEF low, r, q
<1>11. left \in Int
  BY <1>1, <1>6, <1>9
<1>12. more \in Int /\ words \in Int /\ 0 <= words /\ words < bn /\ left = bn * more + words
  <2> HIDE DEF left
  <2> QED BY <1>4, <1>11, IntegerDivision
<1> HIDE DEF more, words
<1>13. bn * (u2 + more) + words = dn * q + r - digit * dn
  <2>1. bn * (u2 + more) = bn * u2 + bn * more /\ bn * u2 \in Int /\ bn * more \in Int
    BY <1>4, <1>8, <1>12, SMTT(30)
  <2>2. dn * q \in Int /\ digit * dn \in Int
    BY <1>1, <1>6
  <2> QED BY <1>6, <1>9, <1>10, <1>12, <2>1, <2>2
<1> HIDE DEF left
<1>14. CASE digit = q
  <2>1. bn * (u2 + more) + words = r
    <3>1. digit * dn = dn * q /\ dn * q \in Int
      BY <1>1, <1>6, <1>14
    <3>2. bn * (u2 + more) + words \in Int
      BY <1>4, <1>8, <1>12
    <3> QED BY <1>10, <1>13, <3>1, <3>2
  <2>2. u2 + more = 0 /\ words = r
    <3> DEFINE e == u2 + more
    <3>1. /\ r = bn * e + words /\ e \in Int /\ r \in Int
          /\ words \in Int /\ 0 <= words /\ words < bn
      BY <1>8, <1>10, <1>12, <2>1
    <3>0. 0 <= r /\ r < bn
      BY <1>1, <1>4, <1>10
    <3> HIDE DEF e
    <3>2. r \div bn = e /\ r % bn = words
      BY <1>4, <3>1, DivisionIsUnique
    <3>3. r \div bn = 0 /\ r % bn = r
      BY <1>4, <1>10, <3>0, SMTT(30)
    <3> QED BY <3>2, <3>3 DEF e
  <2>3. ~(u2 < -more) /\ u2 - (-more) = 0 /\ WordOf(0) = 0
    <3>1. 0 \in 0 .. Base-1
      BY <1>2
    <3>2. WordOf(0) = 0
      BY <3>1, WordFacts
    <3> QED BY <1>8, <1>12, <2>2, <3>2
  <2>4. AddBack(u2 < -more, digit, words, WordOf(u2 - (-more)))
          = [q |-> digit, left |-> 0 * bn + words]
    BY <2>3 DEF AddBack, bn
  <2>5. 0 * bn + words = r
    BY <1>4, <1>10, <2>2
  <2> QED BY <1>7, <1>14, <2>4, <2>5 DEF q, r, dn
<1>15. CASE digit = q + 1
  <2>1. bn * (u2 + more) + words = r - dn
    <3>1. digit * dn = dn * q + dn /\ dn * q \in Int
      BY <1>1, <1>6, <1>15
    <3>2. bn * (u2 + more) + words \in Int
      BY <1>4, <1>8, <1>12
    <3> QED BY <1>1, <1>10, <1>13, <3>1, <3>2
  <2>2. u2 + more = -1 /\ words = bn + r - dn
    <3> DEFINE x == r - dn  y == bn + r - dn
    <3>1. x \in Int /\ y \in Int /\ 0 <= y /\ y < bn /\ x = bn * (-1) + y /\ -1 \in Int
      BY <1>1, <1>4, <1>10
    <3>2. x = bn * (u2 + more) + words /\ u2 + more \in Int
      BY <1>8, <1>12, <2>1
    <3> HIDE DEF x, y
    <3>3. x \div bn = u2 + more /\ x % bn = words
      BY <1>4, <1>12, <3>1, <3>2, DivisionIsUnique
    <3>4. x \div bn = -1 /\ x % bn = y
      BY <1>4, <3>1, DivisionIsUnique
    <3> QED BY <3>3, <3>4 DEF y
  <2>3. u2 < -more /\ u2 - (-more) = -1 /\ WordOf(-1) = Base - 1
    <3>1. Base - 1 \in 0 .. Base-1 /\ Base - 1 \in Int /\ -1 \in Int /\ (-1) + Base * 1 = Base - 1
      BY <1>2
    <3>2. WordOf((-1) + Base * 1) = WordOf(-1) /\ WordOf(Base - 1) = Base - 1
      BY <3>1, WordFacts
    <3> QED BY <1>8, <1>12, <2>2, <3>1, <3>2
  <2>4. words + dn = bn + r /\ (bn + r) \div bn = 1 /\ (bn + r) % bn = r
    <3>1. words + dn = bn + r
      BY <1>1, <1>4, <1>10, <2>2
    <3> DEFINE x == bn + r
    <3>2. x \in Int /\ x = bn * 1 + r /\ r \in Int /\ 0 <= r /\ r < bn
      BY <1>1, <1>4, <1>10
    <3> HIDE DEF x
    <3>3. x \div bn = 1 /\ x % bn = r
      BY <1>4, <3>2, DivisionIsUnique
    <3> QED BY <3>1, <3>3 DEF x
  <2>5. WordOf((Base - 1) + 1) = 0
    <3>1. (Base - 1) + 1 = 0 + Base * 1 /\ 0 \in 0 .. Base-1 /\ 0 \in Int
      BY <1>2
    <3>2. WordOf(0 + Base * 1) = WordOf(0) /\ WordOf(0) = 0
      BY <3>1, WordFacts
    <3> QED BY <3>1, <3>2
  <2>6. WordOf(digit - 1) = q
    <3>1. digit - 1 = q /\ q \in 0 .. Base-1 /\ q \in Int
      BY <1>2, <1>6, <1>15
    <3> QED BY <3>1, WordFacts
  <2>7. AddBack(u2 < -more, digit, words, WordOf(u2 - (-more)))
          = [q |-> WordOf(digit - 1),
             left |-> WordOf((Base - 1) + ((words + dn) \div bn)) * bn + ((words + dn) % bn)]
    BY <2>3 DEF AddBack, bn, dn
  <2>8. WordOf((Base - 1) + ((words + dn) \div bn)) = 0 /\ (words + dn) % bn = r
    BY <2>4, <2>5
  <2>9. 0 * bn + r = r
    BY <1>4, <1>10
  <2> QED BY <1>7, <2>6, <2>7, <2>8, <2>9 DEF q, r, dn
<1> QED BY <1>6, <1>14, <1>15

(* Every digit the code makes is the quotient of the words it is made from.  *)
LEMMA DigitIsQuotient ==
  ASSUME NEW d, IsPrepared(divisor, d), NEW w \in Nat, w < divisor.dn * Base
  PROVE  QuotientDigit(w) = [q |-> w \div divisor.dn, left |-> w % divisor.dn]
<1>1. divisor.dLen \in 1 .. 4
  BY DEF IsPrepared
<1>2. CASE divisor.dLen # 1
  <2>1. divisor.dLen >= 2
    BY <1>1, <1>2
  <2> QED BY <1>2, <2>1, KnuthDigitIsQuotient DEF QuotientDigit
<1>3. CASE divisor.dLen = 1
  <2> DEFINE dn == divisor.dn  w1 == Digit(w, 1)  w0 == Digit(w, 0)
  <2>1. /\ BaseTo[0] = 1 /\ BaseTo[1] = Base /\ BaseTo[1+1] = Base * Base
        /\ Base \in Nat \ {0} /\ Half \in Nat \ {0} /\ Base = 2 * Half
    BY PowersOfBase, BaseFacts
  <2>2. dn \in Nat /\ dn \in Half .. Base-1 /\ Digit(dn, 0) = dn /\ divisor.recip = Reciprocal2by1(dn)
    <3>1. /\ dn \in Nat /\ Digit(dn, 0) = dn \div BaseTo[0] /\ Digit(dn, 0) \in Half .. Base-1
          /\ divisor.recip = Reciprocal2by1(Digit(dn, 0))
      BY <1>3 DEF IsPrepared
    <3>2. dn \div 1 = dn
      BY <3>1
    <3> QED BY <2>1, <3>1, <3>2
  <2>3. w < BaseTo[1+1]
    <3>1. dn * Base < Base * Base
      BY <2>1, <2>2, TimesMonotonic
    <3>2. w < dn * Base
      OBVIOUS
    <3> HIDE DEF dn
    <3> QED BY <2>1, <2>2, <3>1, <3>2
  <2>4. w \div BaseTo[0] = Base * w1 + w0 /\ w0 \in 0 .. Base-1 /\ w1 \in 0 .. Base-1
    <3>0. 1 \in 0 .. 8
      OBVIOUS
    <3>1. w1 = w \div BaseTo[1] /\ w1 \in 0 .. Base-1
      BY <2>3, <3>0, DigitStep
    <3>2. 0 \in 0 .. 8 /\ 0+1 = 1
      OBVIOUS
    <3>3. w \div BaseTo[0] = Base * (w \div BaseTo[0+1]) + w0 /\ w0 \in 0 .. Base-1
      BY <3>2, DigitStep
    <3> QED BY <3>1, <3>2, <3>3
  <2> HIDE DEF w1, w0
  <2>5. w = w1 * Base + w0
    <3>1. w \div 1 = w
      OBVIOUS
    <3> QED BY <2>1, <2>4, <3>1
  <2>6. w1 \in 0 .. dn-1
    <3>1. w1 * Base < dn * Base
      <4>1. w < dn * Base
        OBVIOUS
      <4> HIDE DEF dn
      <4>2. w1 * Base \in Int /\ dn * Base \in Int
        BY <2>1, <2>2, <2>4
      <4> QED BY <2>1, <2>4, <2>5, <4>1, <4>2
    <3>2. w1 < dn
      BY <2>1, <2>2, <2>4, <3>1, TimesMonotonic
    <3> QED BY <2>1, <2>2, <2>4, <3>2
  <2>7. UDivRem2by1(w1, w0, dn, divisor.recip) = [q |-> w \div dn, r |-> w % dn]
    <3> HIDE DEF dn
    <3>1. UDivRem2by1(w1, w0, dn, Reciprocal2by1(dn))
            = [q |-> (w1 * Base + w0) \div dn, r |-> (w1 * Base + w0) % dn]
      BY <2>2, <2>4, <2>6, TwoWordsByOne
    <3> QED BY <2>2, <2>5, <3>1
  <2>8. By1Digit(w) = [q |-> w \div dn, left |-> w % dn]
    BY <2>7 DEF By1Digit, w1, w0
  <2> QED BY <1>3, <2>8 DEF QuotientDigit
<1> QED BY <1>2, <1>3
-----------------------------------------------------------------------------
(* The powers of the base that a call is made of. *)
LEMMA SmallPowers ==
  /\ BaseTo[2] = Base * Base /\ BaseTo[3] = Base * (Base * Base) /\ BaseTo[4] = Base * BaseTo[3]
  /\ Base * Base \in Nat /\ Base * (Base * Base) \in Nat /\ Full \in Nat \ {0} /\ BaseTo[3] \in Nat \ {0}
<1>1. BaseTo[1] = Base /\ BaseTo[1+1] = Base * BaseTo[1] /\ BaseTo[2+1] = Base * BaseTo[2]
  BY PowersOfBase
<1>2. BaseTo[3+1] = Base * BaseTo[3] /\ BaseTo[4] \in Nat \ {0} /\ BaseTo[3] \in Nat \ {0}
  BY PowersOfBase
<1>3. Base \in Nat
  BY BaseFacts
<1> QED BY <1>1, <1>2, <1>3 DEF Full

(* A number is what its words make. *)
LEMMA WordsOfNumber ==
  ASSUME NEW x \in Nat, x < Full
  PROVE  /\ Words(x, 0, 3) = x
         /\ Digit(x, 0) = 0 => Words(x, 1, 3) = x
         /\ Digit(x, 3) = 0 => Words(x, 0, 2) = x
<1>1. Base \in Nat \ {0} /\ Full \in Nat \ {0} /\ BaseTo[0] = 1 /\ BaseTo[1] = Base /\ BaseTo[3] \in Nat \ {0}
  BY BaseFacts, SmallPowers, PowersOfBase
<1>2. x % Full = x /\ x % 1 = 0 /\ x \div 1 = x
  <2>1. x % Full = x
    BY <1>1, SMTT(30)
  <2> QED BY <2>1
<1>3. Words(x, 0, 3) = x
  BY <1>1, <1>2 DEF Words, Full
<1>4. ASSUME Digit(x, 0) = 0 PROVE Words(x, 1, 3) = x
  <2>1. x % Base = 0
    BY <1>1, <1>2, <1>4 DEF Digit, WordOf
  <2> QED BY <1>1, <1>2, <2>1 DEF Words, Full
<1>5. ASSUME Digit(x, 3) = 0 PROVE Words(x, 0, 2) = x
  <2>1. x < BaseTo[3+1]
    BY DEF Full
  <2>0. 3 \in 0 .. 8
    OBVIOUS
  <2>2. x \div BaseTo[3] = 0
    BY <1>5, <2>0, <2>1, DigitStep
  <2> DEFINE p == BaseTo[3]
  <2>3. p \in Nat \ {0} /\ x \div p = 0
    BY <1>1, <2>2
  <2> HIDE DEF p
  <2>4. x % p = x
    <3>1. x = p * (x \div p) + (x % p) /\ x % p \in Int
      BY <2>3, IntegerDivision
    <3> QED BY <2>3, <3>1
  <2>5. Words(x, 0, 2) = (x % p) - (x % 1)
    BY <1>1 DEF Words, p
  <2> QED BY <1>2, <2>4, <2>5
<1> QED BY <1>3, <1>4, <1>5

(* The product the code makes is the product. *)
LEMMA ProductIsExact ==
  ASSUME NEW x \in Nat, NEW y \in Nat, x < Full, y < Full
  PROVE  ProductOf(x, y) = x * y
BY WordsOfNumber DEF ProductOf, umul, umul_lo3

(* A word of a product is split in its low and its high half. *)
LEMMA HalvesOfProduct ==
  ASSUME NEW a \in Nat
  PROVE  a \div Base \in Nat /\ WordOf(a) \in 0 .. Base-1 /\ a = Base * (a \div Base) + WordOf(a)
<1>1. Base \in Nat \ {0}
  BY BaseFacts
<1>2. a \div Base \in Nat /\ a % Base \in Int /\ 0 <= a % Base /\ a % Base < Base
      /\ a = Base * (a \div Base) + (a % Base)
  BY <1>1, IntegerDivision
<1> QED BY <1>1, <1>2 DEF WordOf

(* The columns of a product of two words and three are its words.            *)
LEMMA ColumnsAreWords ==
  ASSUME NEW x \in Nat, NEW y \in Nat, x < BaseTo[2], y < BaseTo[3]
  PROVE  LET p == Columns(x, y)
         IN  /\ \A i \in 1 .. 5 : p[i] \in 0 .. Base-1
             /\ x * y = p[1] + Base * (p[2] + Base * (p[3] + Base * (p[4] + Base * p[5])))
<1> DEFINE x0 == Digit(x, 0)  x1 == Digit(x, 1)
           y0 == Digit(y, 0)  y1 == Digit(y, 1)  y2 == Digit(y, 2)
           lo(a, b) == WordOf(Digit(x, a) * Digit(y, b))
           hi(a, b) == (Digit(x, a) * Digit(y, b)) \div Base
           s1 == hi(0, 0) + lo(0, 1) + lo(1, 0)
           s2 == (s1 \div Base) + hi(0, 1) + hi(1, 0) + lo(0, 2) + lo(1, 1)
           s3 == (s2 \div Base) + hi(0, 2) + hi(1, 1) + lo(1, 2)
           top == (s3 \div Base) + hi(1, 2)
<1>1. Base \in Nat \ {0} /\ BaseTo[0] = 1 /\ BaseTo[1] = Base
  BY BaseFacts, PowersOfBase
<1>2. x = Base * x1 + x0 /\ x0 \in 0 .. Base-1 /\ x1 \in 0 .. Base-1
  <2>1. 0 \in 0 .. 8 /\ 1 \in 0 .. 8 /\ x < BaseTo[1+1] /\ x \div 1 = x
    OBVIOUS
  <2>2. x \div BaseTo[0] = Base * (x \div BaseTo[0+1]) + x0 /\ x0 \in 0 .. Base-1
    BY <2>1, DigitStep
  <2>3. x1 = x \div BaseTo[1] /\ x1 \in 0 .. Base-1
    BY <2>1, DigitStep
  <2>4. x \div BaseTo[1] = x \div BaseTo[0+1]
    OBVIOUS
  <2> HIDE DEF x0, x1
  <2>5. x = Base * x1 + x0
    BY <1>1, <2>1, <2>2, <2>3, <2>4
  <2> QED BY <2>2, <2>3, <2>5
<1>3. y = Base * (Base * y2 + y1) + y0 /\ y0 \in 0 .. Base-1 /\ y1 \in 0 .. Base-1 /\ y2 \in 0 .. Base-1
  <2>1. 0 \in 0 .. 8 /\ 1 \in 0 .. 8 /\ 2 \in 0 .. 8 /\ y < BaseTo[2+1] /\ y \div 1 = y
    OBVIOUS
  <2>2. y \div BaseTo[0] = Base * (y \div BaseTo[0+1]) + y0 /\ y0 \in 0 .. Base-1
    BY <2>1, DigitStep
  <2>3. y \div BaseTo[1] = Base * (y \div BaseTo[1+1]) + y1 /\ y1 \in 0 .. Base-1
    BY <2>1, DigitStep
  <2>4. y2 = y \div BaseTo[2] /\ y2 \in 0 .. Base-1
    BY <2>1, DigitStep
  <2> QED BY <1>1, <2>1, <2>2, <2>3, <2>4
<1> HIDE DEF x0, x1, y0, y1, y2
<1>4. /\ x0 * y0 = Base * hi(0, 0) + lo(0, 0) /\ hi(0, 0) \in Nat /\ lo(0, 0) \in 0 .. Base-1
      /\ x0 * y1 = Base * hi(0, 1) + lo(0, 1) /\ hi(0, 1) \in Nat /\ lo(0, 1) \in 0 .. Base-1
      /\ x0 * y2 = Base * hi(0, 2) + lo(0, 2) /\ hi(0, 2) \in Nat /\ lo(0, 2) \in 0 .. Base-1
      /\ x1 * y0 = Base * hi(1, 0) + lo(1, 0) /\ hi(1, 0) \in Nat /\ lo(1, 0) \in 0 .. Base-1
      /\ x1 * y1 = Base * hi(1, 1) + lo(1, 1) /\ hi(1, 1) \in Nat /\ lo(1, 1) \in 0 .. Base-1
      /\ x1 * y2 = Base * hi(1, 2) + lo(1, 2) /\ hi(1, 2) \in Nat /\ lo(1, 2) \in 0 .. Base-1
  <2>1. /\ x0 \in Nat /\ x1 \in Nat /\ y0 \in Nat /\ y1 \in Nat /\ y2 \in Nat
        /\ x0 * y0 \in Nat /\ x0 * y1 \in Nat /\ x0 * y2 \in Nat
        /\ x1 * y0 \in Nat /\ x1 * y1 \in Nat /\ x1 * y2 \in Nat
    BY <1>1, <1>2, <1>3
  <2>2. x0 * y0 = Base * hi(0, 0) + lo(0, 0) /\ hi(0, 0) \in Nat /\ lo(0, 0) \in 0 .. Base-1
    BY <2>1, HalvesOfProduct DEF x0, y0
  <2>3. x0 * y1 = Base * hi(0, 1) + lo(0, 1) /\ hi(0, 1) \in Nat /\ lo(0, 1) \in 0 .. Base-1
    BY <2>1, HalvesOfProduct DEF x0, y1
  <2>4. x0 * y2 = Base * hi(0, 2) + lo(0, 2) /\ hi(0, 2) \in Nat /\ lo(0, 2) \in 0 .. Base-1
    BY <2>1, HalvesOfProduct DEF x0, y2
  <2>5. x1 * y0 = Base * hi(1, 0) + lo(1, 0) /\ hi(1, 0) \in Nat /\ lo(1, 0) \in 0 .. Base-1
    BY <2>1, HalvesOfProduct DEF x1, y0
  <2>6. x1 * y1 = Base * hi(1, 1) + lo(1, 1) /\ hi(1, 1) \in Nat /\ lo(1, 1) \in 0 .. Base-1
    BY <2>1, HalvesOfProduct DEF x1, y1
  <2>7. x1 * y2 = Base * hi(1, 2) + lo(1, 2) /\ hi(1, 2) \in Nat /\ lo(1, 2) \in 0 .. Base-1
    BY <2>1, HalvesOfProduct DEF x1, y2
  <2> QED BY <2>2, <2>3, <2>4, <2>5, <2>6, <2>7
<1> DEFINE l00 == lo(0, 0)  l01 == lo(0, 1)  l02 == lo(0, 2)  l10 == lo(1, 0)  l11 == lo(1, 1)  l12 == lo(1, 2)
           h00 == hi(0, 0)  h01 == hi(0, 1)  h02 == hi(0, 2)  h10 == hi(1, 0)  h11 == hi(1, 1)  h12 == hi(1, 2)
           t1 == s1 \div Base  t2 == s2 \div Base  t3 == s3 \div Base
           w1 == WordOf(s1)  w2 == WordOf(s2)  w3 == WordOf(s3)
<1>5. Columns(x, y) = <<l00, w1, w2, w3, WordOf(top)>>
  BY DEF Columns
<1>6. s1 = h00 + l01 + l10 /\ s2 = t1 + h01 + h10 + l02 + l11 /\ s3 = t2 + h02 + h11 + l12 /\ top = t3 + h12
  OBVIOUS
<1>7. /\ l00 \in 0 .. Base-1 /\ l01 \in Nat /\ l02 \in Nat /\ l10 \in Nat /\ l11 \in Nat /\ l12 \in Nat
      /\ h00 \in Nat /\ h01 \in Nat /\ h02 \in Nat /\ h10 \in Nat /\ h11 \in Nat /\ h12 \in Nat
      /\ x0 * y0 = Base * h00 + l00 /\ x0 * y1 = Base * h01 + l01 /\ x0 * y2 = Base * h02 + l02
      /\ x1 * y0 = Base * h10 + l10 /\ x1 * y1 = Base * h11 + l11 /\ x1 * y2 = Base * h12 + l12
  BY <1>1, <1>4
<1> HIDE DEF l00, l01, l02, l10, l11, l12, h00, h01, h02, h10, h11, h12
<1> HIDE DEF lo, hi, s1, s2, s3
<1>8. s1 \in Nat /\ t1 \in Nat /\ w1 \in 0 .. Base-1 /\ s1 = Base * t1 + w1
  <2>1. s1 \in Nat
    BY <1>6, <1>7
  <2> QED BY <2>1, HalvesOfProduct
<1> HIDE DEF t1, w1
<1>9. s2 \in Nat /\ t2 \in Nat /\ w2 \in 0 .. Base-1 /\ s2 = Base * t2 + w2
  <2>1. s2 \in Nat
    BY <1>6, <1>7, <1>8
  <2> QED BY <2>1, HalvesOfProduct
<1> HIDE DEF t2, w2
<1>10. s3 \in Nat /\ t3 \in Nat /\ w3 \in 0 .. Base-1 /\ s3 = Base * t3 + w3
  <2>1. s3 \in Nat
    BY <1>6, <1>7, <1>9
  <2> QED BY <2>1, HalvesOfProduct
<1> HIDE DEF t3, w3, top
<1>11. top \in Nat
  BY <1>6, <1>7, <1>10
<1> DEFINE v3 == w3 + Base * top  v2 == w2 + Base * v3  v1 == w1 + Base * v2
           f == x0 * y2 + x1 * y1 + Base * (x1 * y2)
           g == x0 * y1 + x1 * y0 + Base * f
<1>12. x * y = x0 * y0 + Base * g
  <2>1. x0 \in Nat /\ x1 \in Nat /\ y0 \in Nat /\ y1 \in Nat /\ y2 \in Nat /\ Base \in Nat
    BY <1>1, <1>2, <1>3
  <2>2. (Base * x1 + x0) * (Base * (Base * y2 + y1) + y0) = x0 * y0 + Base * g
    BY <2>1, SMTT(60)
  <2> QED BY <1>2, <1>3, <2>2
<1>13. f = l02 + l11 + Base * (h02 + h11 + l12 + Base * h12)
  <2>1. f = (Base * h02 + l02) + (Base * h11 + l11) + Base * (Base * h12 + l12)
    BY <1>7
  <2>2. (Base * h02 + l02) + (Base * h11 + l11) + Base * (Base * h12 + l12)
          = l02 + l11 + Base * (h02 + h11 + l12 + Base * h12)
    BY <1>1, <1>7, SMTT(60)
  <2> QED BY <2>1, <2>2
<1>14. g = l01 + l10 + Base * (h01 + h10 + f) /\ f \in Nat
  <2>1. f \in Nat
    BY <1>1, <1>7, <1>13
  <2>2. g = (Base * h01 + l01) + (Base * h10 + l10) + Base * f
    BY <1>7
  <2> HIDE DEF f
  <2>3. (Base * h01 + l01) + (Base * h10 + l10) + Base * f = l01 + l10 + Base * (h01 + h10 + f)
    BY <1>1, <1>7, <2>1, SMTT(60)
  <2> QED BY <2>1, <2>2, <2>3
<1> HIDE DEF f, g
<1>15. v3 \in Nat /\ v2 \in Nat /\ v1 \in Nat
  <2>1. v3 \in Nat
    BY <1>1, <1>10, <1>11
  <2>2. v2 \in Nat
    <3> HIDE DEF v3
    <3> QED BY <1>1, <1>9, <2>1
  <2> HIDE DEF v2
  <2> QED BY <1>1, <1>8, <2>1, <2>2
<1>16. t1 + h01 + h10 + f = v2
  <2>1. s3 + Base * h12 = v3
    <3>1. Base * (t3 + h12) = Base * t3 + Base * h12 /\ Base * t3 \in Int /\ Base * h12 \in Int
      BY <1>1, <1>7, <1>10
    <3> DEFINE a == Base * t3  b == Base * h12
    <3>2. v3 = w3 + (a + b)
      BY <1>6, <3>1
    <3>3. s3 = a + w3 /\ w3 \in Int /\ a \in Int /\ b \in Int
      BY <1>1, <1>10, <3>1
    <3> HIDE DEF a, b, v3
    <3>4. s3 + b = v3
      BY <3>2, <3>3
    <3> QED BY <3>4 DEF b
  <2> HIDE DEF v3
  <2>2. Base * (h02 + h11 + l12 + Base * h12) = Base * v3 - Base * t2
    <3>1. h02 + h11 + l12 + Base * h12 = v3 - t2
      <4>1. Base * h12 \in Int
        BY <1>1, <1>7
      <4> QED BY <1>6, <1>7, <1>9, <1>10, <1>15, <2>1, <4>1
    <3>2. Base * (v3 - t2) = Base * v3 - Base * t2
      BY <1>1, <1>9, <1>15
    <3> QED BY <3>1, <3>2
  <2>3. Base * v3 \in Int /\ Base * t2 \in Int
    BY <1>1, <1>9, <1>15
  <2>4. f = l02 + l11 + (Base * v3 - Base * t2)
    BY <1>13, <2>2
  <2> QED BY <1>6, <1>7, <1>8, <1>9, <2>3, <2>4
<1>17. h00 + g = v1
  <2> HIDE DEF v2
  <2>1. Base * (h01 + h10 + f) = Base * v2 - Base * t1
    <3>1. h01 + h10 + f = v2 - t1
      BY <1>7, <1>8, <1>14, <1>15, <1>16
    <3>2. Base * (v2 - t1) = Base * v2 - Base * t1
      BY <1>1, <1>8, <1>15
    <3> QED BY <3>1, <3>2
  <2>2. Base * v2 \in Int /\ Base * t1 \in Int
    BY <1>1, <1>8, <1>15
  <2> QED BY <1>6, <1>7, <1>8, <1>14, <2>1, <2>2
<1>18. x * y = l00 + Base * v1
  <2>1. g \in Nat
    <3>1. h01 + h10 + f \in Nat
      BY <1>7, <1>14
    <3>2. Base * (h01 + h10 + f) \in Nat
      BY <1>1, <3>1
    <3> QED BY <1>7, <1>14, <3>2
  <2> HIDE DEF v1
  <2>2. Base * (h00 + g) = Base * h00 + Base * g /\ Base * h00 \in Int /\ Base * g \in Int
    BY <1>1, <1>7, <2>1
  <2> QED BY <1>1, <1>7, <1>12, <1>15, <1>17, <2>1, <2>2
<1>19. top < Base
  <2> SUFFICES ASSUME Base <= top PROVE FALSE
    BY <1>1, <1>11
  <2> DEFINE b2 == Base * Base  b3 == Base * b2  b4 == Base * b3  b5 == Base * b4
  <2>1. b2 \in Nat /\ b3 \in Nat /\ b4 \in Nat /\ b5 \in Nat
    <3>1. b2 \in Nat
      BY <1>1
    <3> HIDE DEF b2
    <3>2. b3 \in Nat
      BY <1>1, <3>1
    <3> HIDE DEF b3
    <3>3. b4 \in Nat
      BY <1>1, <3>2
    <3> HIDE DEF b4
    <3> QED BY <1>1, <3>1, <3>2, <3>3
  <2>2. b2 <= v3
    <3>1. Base * Base <= top * Base
      BY <1>1, <1>11, TimesMonotonic
    <3> QED BY <1>1, <1>10, <1>11, <3>1
  <2> HIDE DEF v3
  <2>3. b3 <= v2
    <3>1. b2 * Base <= v3 * Base
      BY <1>1, <1>15, <2>1, <2>2, TimesMonotonic
    <3> HIDE DEF b2
    <3> QED BY <1>1, <1>9, <1>15, <2>1, <3>1
  <2> HIDE DEF v2
  <2>4. b4 <= v1
    <3>1. b3 * Base <= v2 * Base
      BY <1>1, <1>15, <2>1, <2>3, TimesMonotonic
    <3> HIDE DEF b3
    <3> QED BY <1>1, <1>8, <1>15, <2>1, <3>1
  <2> HIDE DEF v1
  <2>5. b5 <= x * y
    <3>1. b4 * Base <= v1 * Base
      BY <1>1, <1>15, <2>1, <2>4, TimesMonotonic
    <3> HIDE DEF b4
    <3> QED BY <1>1, <1>7, <1>15, <1>18, <2>1, <3>1
  <2>6. x * y < b5
    <3>1. x < b2 /\ y < b3
      BY SmallPowers
    <3> HIDE DEF b2, b3
    <3>2. x * y <= b2 * y
      BY <2>1, <3>1, TimesMonotonic
    <3>3. y * b2 < b3 * b2
      <4>1. b2 > 0
        BY <2>1, <3>1
      <4> QED BY <2>1, <3>1, <4>1, TimesMonotonic
    <3>4. b2 * y = y * b2 /\ y * b2 \in Int /\ b3 * b2 \in Int /\ x * y \in Int
      BY <2>1
    <3>5. b3 * b2 = b5
      <4>1. b2 = Base * Base /\ b5 = Base * (Base * b3)
        BY DEF b2
      <4>2. b3 * (Base * Base) = Base * (Base * b3)
        BY <1>1, <2>1, SMTT(30)
      <4> QED BY <4>1, <4>2
    <3> QED BY <3>2, <3>3, <3>4, <3>5
  <2>7. x * y \in Int
    OBVIOUS
  <2> HIDE DEF b5
  <2> QED BY <2>1, <2>5, <2>6, <2>7
<1>20. WordOf(top) = top /\ top \in 0 .. Base-1
  <2>1. top \in 0 .. Base-1 /\ top \in Int
    BY <1>1, <1>11, <1>19
  <2> QED BY <2>1, WordFacts
<1>21. \A i \in 1 .. 5 : i = 1 \/ i = 2 \/ i = 3 \/ i = 4 \/ i = 5
  OBVIOUS
<1> DEFINE p == Columns(x, y)
<1>22. p[1] = l00 /\ p[2] = w1 /\ p[3] = w2 /\ p[4] = w3 /\ p[5] = top
  BY <1>5, <1>20
<1> HIDE DEF p
<1>23. \A i \in 1 .. 5 : p[i] \in 0 .. Base-1
  BY <1>7, <1>8, <1>9, <1>10, <1>20, <1>21, <1>22
<1>24. x * y = p[1] + Base * (p[2] + Base * (p[3] + Base * (p[4] + Base * p[5])))
  BY <1>18, <1>22
<1> QED BY <1>23, <1>24 DEF p

(* The low bits of a word, shifted up to the top of the word below.          *)
LEMMA ShiftedWord ==
  ASSUME NEW p \in 0 .. Base-1
  PROVE  /\ p \div PowerOf2[S] \in Nat /\ p % PowerOf2[S] \in Nat /\ p % PowerOf2[S] < PowerOf2[S]
         /\ p = PowerOf2[S] * (p \div PowerOf2[S]) + (p % PowerOf2[S])
         /\ WordOf(p * PowerOf2[W-S]) = (p % PowerOf2[S]) * PowerOf2[W-S]
<1> DEFINE t == PowerOf2[S]  r == PowerOf2[W-S]  a == p \div t  b == p % t
<1>1. t \in Nat \ {0} /\ r \in Nat \ {0} /\ t * r = Base /\ Base \in Nat \ {0}
  <2>1. S \in 0 .. W /\ W-S \in 0 .. W
    BY WordAssumption
  <2> QED BY <2>1, PowersOfTwo, BaseFacts
<1> HIDE DEF t, r
<1>2. a \in Nat /\ b \in Nat /\ b < t /\ p = t * a + b
  BY <1>1, IntegerDivision
<1> HIDE DEF a, b
<1>3. p * r = b * r + Base * a
  <2>1. (t * a + b) * r = b * r + (t * r) * a
    BY <1>1, <1>2, SMTT(30)
  <2> QED BY <1>1, <1>2, <2>1
<1>4. b * r \in 0 .. Base-1 /\ b * r \in Int
  <2>1. b * r < t * r
    BY <1>1, <1>2, TimesMonotonic
  <2>2. b * r \in Nat
    BY <1>1, <1>2
  <2> QED BY <1>1, <2>1, <2>2
<1>5. WordOf(b * r + Base * a) = WordOf(b * r) /\ WordOf(b * r) = b * r
  BY <1>2, <1>4, WordFacts
<1> QED BY <1>2, <1>3, <1>5 DEF t, r, a, b

(* A word of a shifted product, put before the words above it.               *)
LEMMA ShiftedColumn ==
  ASSUME NEW t \in Nat \ {0}, NEW s \in Nat, NEW v \in Nat, NEW pk \in Int, NEW b \in Int,
         NEW bn \in Int, NEW z \in Int,
         t * s = pk - b + Base * bn, t * v = z - bn
  PROVE  t * (s + Base * v) = pk - b + Base * z
<1>1. Base \in Nat
  BY BaseFacts
<1>2. t * (s + Base * v) = t * s + Base * (t * v)
  BY <1>1, SMTT(30)
<1>3. Base * (z - bn) = Base * z - Base * bn /\ Base * z \in Int /\ Base * bn \in Int
  BY <1>1
<1>4. Base * (t * v) = Base * (z - bn)
  OBVIOUS
<1>5. t * s + Base * (t * v) = (pk - b + Base * bn) + (Base * z - Base * bn)
  BY <1>3, <1>4
<1> DEFINE e == Base * bn  f == Base * z
<1> HIDE DEF e, f
<1>6. (pk - b + e) + (f - e) = pk - b + f
  BY <1>3 DEF e, f
<1> QED BY <1>2, <1>5, <1>6 DEF e, f

(* The words of a product, shifted, are the quotient by 2^96, and the bits   *)
(* that are lost the remainder.                                              *)
LEMMA ShiftIsExact ==
  ASSUME NEW x \in Nat, NEW y \in Nat, x < BaseTo[2], y < BaseTo[2] * PowerOf2[S]
  PROVE  LET p == Columns(x, y)
             joined(k) == (p[k] \div PowerOf2[S]) + WordOf(p[k+1] * PowerOf2[W-S])
         IN  /\ (x * y) \div TwoTo96
                  = joined(2) + joined(3) * Base + joined(4) * BaseTo[2] + (p[5] \div PowerOf2[S]) * BaseTo[3]
             /\ (x * y) % TwoTo96 # 0 <=> (p[1] # 0 \/ p[2] % PowerOf2[S] # 0)
<1> DEFINE p == Columns(x, y)
           t == PowerOf2[S]  r == PowerOf2[W-S]
           joined(k) == (p[k] \div t) + WordOf(p[k+1] * r)
           p1 == p[1]  p2 == p[2]  p3 == p[3]  p4 == p[4]  p5 == p[5]
           a2 == p2 \div t  a3 == p3 \div t  a4 == p4 \div t  a5 == p5 \div t
           b2 == p2 % t  b3 == p3 % t  b4 == p4 % t  b5 == p5 % t
           v5 == a5
           v4 == (a4 + b5 * r) + Base * v5
           v3 == (a3 + b4 * r) + Base * v4
           v2 == (a2 + b3 * r) + Base * v3
<1>1. t \in Nat \ {0} /\ r \in Nat \ {0} /\ t * r = Base /\ Base \in Nat \ {0} /\ TwoTo96 = Base * t
  <2>1. S \in 0 .. W /\ W-S \in 0 .. W
    BY WordAssumption
  <2> QED BY <2>1, PowersOfTwo, BaseFacts DEF TwoTo96
<1>2. y < BaseTo[3]
  <2>1. 1 <= r
    BY <1>1
  <2>2. 1 * t <= r * t
    BY <1>1, <2>1, TimesMonotonic
  <2>3. t <= Base
    BY <1>1, <2>2
  <2>4. t * (Base * Base) <= Base * (Base * Base)
    BY <1>1, <2>3, SmallPowers, TimesMonotonic
  <2>5. y < t * (Base * Base)
    BY <1>1, SmallPowers
  <2>6. t * (Base * Base) \in Int
    BY <1>1
  <2> QED BY <2>4, <2>5, <2>6, SmallPowers
<1>3. /\ \A i \in 1 .. 5 : p[i] \in 0 .. Base-1
      /\ x * y = p1 + Base * (p2 + Base * (p3 + Base * (p4 + Base * p5)))
  BY <1>2, ColumnsAreWords
<1>4. p1 \in 0 .. Base-1 /\ p2 \in 0 .. Base-1 /\ p3 \in 0 .. Base-1 /\ p4 \in 0 .. Base-1 /\ p5 \in 0 .. Base-1
  BY <1>3
<1>5. /\ a2 \in Nat /\ b2 \in Nat /\ b2 < t /\ p2 = t * a2 + b2
      /\ a3 \in Nat /\ b3 \in Nat /\ p3 = t * a3 + b3 /\ WordOf(p3 * r) = b3 * r
      /\ a4 \in Nat /\ b4 \in Nat /\ p4 = t * a4 + b4 /\ WordOf(p4 * r) = b4 * r
      /\ a5 \in Nat /\ b5 \in Nat /\ p5 = t * a5 + b5 /\ WordOf(p5 * r) = b5 * r
  BY <1>4, ShiftedWord
<1>6. joined(2) = a2 + b3 * r /\ joined(3) = a3 + b4 * r /\ joined(4) = a4 + b5 * r
  BY <1>5
<1> HIDE DEF p1, p2, p3, p4, p5, a2, a3, a4, a5, b2, b3, b4, b5, t, r
<1>7. /\ t * (a2 + b3 * r) = p2 - b2 + Base * b3
      /\ t * (a3 + b4 * r) = p3 - b3 + Base * b4
      /\ t * (a4 + b5 * r) = p4 - b4 + Base * b5
  <2>1. ASSUME NEW a \in Nat, NEW b \in Nat PROVE t * (a + b * r) = t * a + Base * b
    <3>1. t * (a + b * r) = t * a + (t * r) * b
      BY <1>1, SMTT(30)
    <3> QED BY <1>1, <3>1
  <2>2. /\ t * (a2 + b3 * r) = t * a2 + Base * b3
        /\ t * (a3 + b4 * r) = t * a3 + Base * b4
        /\ t * (a4 + b5 * r) = t * a4 + Base * b5
    BY <1>5, <2>1
  <2>3. /\ t * a2 = p2 - b2 /\ t * a3 = p3 - b3 /\ t * a4 = p4 - b4
    <3>1. t * a2 \in Int /\ t * a3 \in Int /\ t * a4 \in Int
      BY <1>1, <1>5
    <3> QED BY <1>5, <3>1
  <2> QED BY <2>2, <2>3
<1> DEFINE s2 == a2 + b3 * r  s3 == a3 + b4 * r  s4 == a4 + b5 * r
           z5 == p5  z4 == p4 + Base * z5  z3 == p3 + Base * z4  z2 == p2 + Base * z3
<1>9. s2 \in Nat /\ s3 \in Nat /\ s4 \in Nat
  <2>1. b3 * r \in Nat /\ b4 * r \in Nat /\ b5 * r \in Nat
    BY <1>1, <1>5
  <2> QED BY <1>5, <2>1
<1>10. v5 \in Nat /\ v4 \in Nat /\ v3 \in Nat /\ v2 \in Nat
       /\ v4 = s4 + Base * v5 /\ v3 = s3 + Base * v4 /\ v2 = s2 + Base * v3
  <2> HIDE DEF s2, s3, s4
  <2>1. v4 = s4 + Base * v5 /\ v3 = s3 + Base * v4 /\ v2 = s2 + Base * v3
    BY DEF s2, s3, s4
  <2> HIDE DEF v5, v4, v3, v2
  <2>2. v5 \in Nat
    BY <1>5 DEF v5
  <2>3. v4 \in Nat
    BY <1>1, <1>9, <2>1, <2>2
  <2>4. v3 \in Nat
    BY <1>1, <1>9, <2>1, <2>3
  <2>5. v2 \in Nat
    BY <1>1, <1>9, <2>1, <2>4
  <2> QED BY <2>1, <2>2, <2>3, <2>4, <2>5
<1>11. z5 \in Int /\ z4 \in Int /\ z3 \in Int /\ z2 \in Int /\ p2 \in Int /\ p3 \in Int /\ p4 \in Int
  <2>1. z5 \in Int /\ z4 \in Int
    BY <1>1, <1>4
  <2> HIDE DEF z4
  <2>2. z3 \in Int
    BY <1>1, <1>4, <2>1
  <2> HIDE DEF z3
  <2> QED BY <1>1, <1>4, <2>1, <2>2
<1>12. t * s2 = p2 - b2 + Base * b3 /\ t * s3 = p3 - b3 + Base * b4 /\ t * s4 = p4 - b4 + Base * b5
  BY <1>7
<1>13. x * y = p1 + Base * z2
  BY <1>3
<1>14. z4 = p4 + Base * z5 /\ z3 = p3 + Base * z4 /\ z2 = p2 + Base * z3
  OBVIOUS
<1>15. t * v5 = z5 - b5
  <2>1. t * a5 \in Int
    BY <1>1, <1>5
  <2> QED BY <1>5, <2>1
<1>16. joined(2) + joined(3) * Base + joined(4) * BaseTo[2] + (p[5] \div t) * BaseTo[3] = v2
  <2>1. s2 + s3 * Base + s4 * (Base * Base) + a5 * (Base * (Base * Base))
          = s2 + Base * (s3 + Base * (s4 + Base * a5))
    <3> HIDE DEF s2, s3, s4
    <3> QED BY <1>1, <1>5, <1>9, SMTT(60)
  <2>2. joined(2) = s2 /\ joined(3) = s3 /\ joined(4) = s4 /\ p[5] \div t = a5
    BY <1>6 DEF a5, p5
  <2> HIDE DEF joined, p
  <2> QED BY <2>1, <2>2, SmallPowers
<1> HIDE DEF s2, s3, s4, v5, v4, v3, v2, z5, z4, z3, z2
<1>17. t * v4 = z4 - b4
  <2>1. t * (s4 + Base * v5) = p4 - b4 + Base * z5
    <3>1. /\ s4 \in Nat /\ v5 \in Nat /\ p4 \in Int /\ b4 \in Int /\ b5 \in Int /\ z5 \in Int
          /\ t * s4 = p4 - b4 + Base * b5 /\ t * v5 = z5 - b5
      BY <1>5, <1>9, <1>10, <1>11, <1>12, <1>15
    <3> QED BY <1>1, <3>1, ShiftedColumn
  <2>2. Base * z5 \in Int
    BY <1>1, <1>11
  <2> QED BY <1>5, <1>10, <1>11, <1>14, <2>1, <2>2
<1>18. t * v3 = z3 - b3
  <2>1. t * (s3 + Base * v4) = p3 - b3 + Base * z4
    <3>1. /\ s3 \in Nat /\ v4 \in Nat /\ p3 \in Int /\ b3 \in Int /\ b4 \in Int /\ z4 \in Int
          /\ t * s3 = p3 - b3 + Base * b4 /\ t * v4 = z4 - b4
      BY <1>5, <1>9, <1>10, <1>11, <1>12, <1>17
    <3> QED BY <1>1, <3>1, ShiftedColumn
  <2>2. Base * z4 \in Int
    BY <1>1, <1>11
  <2> QED BY <1>5, <1>10, <1>11, <1>14, <2>1, <2>2
<1>19. t * v2 = z2 - b2
  <2>1. t * (s2 + Base * v3) = p2 - b2 + Base * z3
    <3>1. /\ s2 \in Nat /\ v3 \in Nat /\ p2 \in Int /\ b2 \in Int /\ b3 \in Int /\ z3 \in Int
          /\ t * s2 = p2 - b2 + Base * b3 /\ t * v3 = z3 - b3
      BY <1>5, <1>9, <1>10, <1>11, <1>12, <1>18
    <3> QED BY <1>1, <3>1, ShiftedColumn
  <2>2. Base * z3 \in Int
    BY <1>1, <1>11
  <2> QED BY <1>5, <1>10, <1>11, <1>14, <2>1, <2>2
<1> DEFINE m == Base * t  f == Base * b2 + p1
<1>20. x * y = m * v2 + f
  <2>1. (Base * t) * v2 = Base * (t * v2)
    BY <1>1, <1>10, SMTT(30)
  <2>2. Base * (z2 - b2) = Base * z2 - Base * b2 /\ Base * z2 \in Int /\ Base * b2 \in Int
    BY <1>1, <1>5, <1>11
  <2> QED BY <1>4, <1>13, <1>19, <2>1, <2>2
<1>21. m \in Nat \ {0} /\ f \in Nat /\ f < m
  <2>1. (b2 + 1) * Base <= t * Base
    BY <1>1, <1>5, TimesMonotonic
  <2>2. (b2 + 1) * Base = Base * b2 + Base /\ t * Base = m /\ Base * b2 \in Nat /\ m \in Nat
    BY <1>1, <1>5
  <2> QED BY <1>1, <1>4, <2>1, <2>2
<1>22. f # 0 <=> (p1 # 0 \/ b2 # 0)
  <2>1. b2 # 0 => Base * b2 # 0
    BY <1>1, <1>5, SMTT(30)
  <2>2. Base * b2 \in Nat /\ (b2 = 0 => Base * b2 = 0)
    BY <1>1, <1>5
  <2> QED BY <1>4, <1>5, <2>1, <2>2
<1>23. (x * y) \div m = v2 /\ (x * y) % m = f
  <2> DEFINE xy == x * y
  <2>1. xy \in Int /\ xy = m * v2 + f /\ v2 \in Int /\ f \in Int /\ 0 <= f
    BY <1>10, <1>20, <1>21
  <2> HIDE DEF xy, m, f
  <2>2. xy \div m = v2 /\ xy % m = f
    BY <1>21, <2>1, DivisionIsUnique
  <2> QED BY <2>2 DEF xy
<1> QED BY <1>1, <1>16, <1>22, <1>23 DEF t, r, p1, b2, p2

(* A shift that leaves a bit at least halves the base.                       *)
LEMMA ShiftAtMostHalf ==
  ASSUME NEW s \in 0 .. W-1
  PROVE  PowerOf2[s] \in Nat \ {0} /\ PowerOf2[s] <= Half
<1> DEFINE a == W - s
           c == PowerOf2[s]
           e == PowerOf2[a-1]
<1>1. s \in 0 .. W /\ a \in 0 .. W /\ a-1 \in 0 .. W-1 /\ a-1 \in 0 .. W /\ (a-1)+1 = a
  BY WordAssumption
<1>2. c \in Nat \ {0} /\ c * PowerOf2[a] = Base
  BY <1>1, PowersOfTwo
<1> HIDE DEF a
<1>3. PowerOf2[a] = 2 * e /\ e \in Nat \ {0}
  <2>1. PowerOf2[(a-1)+1] = 2 * PowerOf2[a-1]
    BY <1>1, PowersOfTwo
  <2> QED BY <1>1, <2>1, PowersOfTwo
<1> HIDE DEF c, e
<1>4. c * (2 * e) = 2 * (c * e) /\ c * e \in Nat
  BY <1>2, <1>3, SMTT(30)
<1>5. c * e = Half
  <2> DEFINE f == c * e
  <2>1. 2 * f = 2 * Half /\ f \in Nat
    BY <1>2, <1>3, <1>4, BaseFacts
  <2> HIDE DEF f
  <2>2. f = Half
    BY <2>1, BaseFacts
  <2> QED BY <2>2 DEF f
<1>6. 1 * c <= e * c /\ e * c = c * e
  BY <1>2, <1>3, TimesMonotonic
<1> QED BY <1>2, <1>5, <1>6, BaseFacts DEF c

(* The dividend, shifted like the divisor, is less than the divisor and as   *)
(* many words as the quotient may have.                                      *)
LEMMA WordsOfQuotient ==
  ASSUME NEW d, NEW v, IsPrepared(v, d), NEW u \in Nat, u < BaseTo[8], NumWords(u) >= v.dLen
  PROVE  /\ NumWords(u) - v.dLen \in 0 .. 7
         /\ u * PowerOf2[v.shift] \in Nat
         /\ u * PowerOf2[v.shift] < Half * BaseTo[NumWords(u)]
         /\ u * PowerOf2[v.shift] < v.dn * BaseTo[NumWords(u) - v.dLen + 1]
<1> DEFINE len == NumWords(u)  k == len - v.dLen  c == PowerOf2[v.shift]
           m == BaseTo[len]  p == BaseTo[v.dLen - 1]  g == BaseTo[k+1]  x == u * c
<1>1. len \in 0 .. 8 /\ u < m
  BY NumWordsFact
<1>2. v.dLen \in 1 .. 4 /\ v.shift \in 0 .. W-1 /\ v.dn \in Nat /\ Half * p <= v.dn
  BY DEF IsPrepared
<1>3. c \in Nat \ {0} /\ c <= Half
  BY <1>2, ShiftAtMostHalf
<1>4. k \in 0 .. 7
  BY <1>1, <1>2
<1>5. m = p * g /\ m \in Nat \ {0} /\ p \in Nat \ {0} /\ g \in Nat \ {0}
  <2> DEFINE a == v.dLen - 1  b == k + 1
  <2>1. a \in 0 .. 9 /\ b \in 0 .. 9 /\ a + b = len /\ a + b <= 9 /\ len \in 0 .. 9
    BY <1>1, <1>2, <1>4
  <2> HIDE DEF a, b, len
  <2>2. BaseTo[a + b] = BaseTo[a] * BaseTo[b]
    BY <2>1, PowersOfBase
  <2>3. BaseTo[len] = BaseTo[a] * BaseTo[b]
    BY <2>1, <2>2
  <2>4. BaseTo[a] \in Nat \ {0} /\ BaseTo[b] \in Nat \ {0} /\ BaseTo[len] \in Nat \ {0}
    BY <2>1, PowersOfBase
  <2> QED BY <2>3, <2>4 DEF a, b
<1> HIDE DEF m, p, g, c, len
<1>6. x \in Nat /\ x < Half * m
  <2>1. c * u <= Half * u
    BY <1>3, BaseFacts, TimesMonotonic
  <2>2. u * Half < m * Half
    BY <1>1, <1>5, BaseFacts, TimesMonotonic
  <2>3. c * u = u * c /\ Half * u = u * Half /\ m * Half = Half * m
        /\ u * c \in Nat /\ u * Half \in Nat /\ Half * m \in Nat
    BY <1>3, <1>5, BaseFacts
  <2> QED BY <2>1, <2>2, <2>3
<1>7. Half * m <= v.dn * g
  <2>1. (Half * p) * g <= v.dn * g
    <3>1. Half * p \in Nat
      BY <1>5, BaseFacts
    <3> QED BY <1>2, <1>5, <3>1, TimesMonotonic
  <2>2. (Half * p) * g = Half * (p * g)
    BY <1>5, BaseFacts, SMTT(30)
  <2> QED BY <1>5, <2>1, <2>2
<1>8. x < v.dn * g
  <2>1. v.dn * g \in Nat /\ Half * m \in Nat
    BY <1>2, <1>5, BaseFacts
  <2> HIDE DEF x
  <2> QED BY <1>6, <1>7, <2>1
<1> QED BY <1>4, <1>6, <1>8 DEF c, m, g, len

(* The first digit is high enough for the whole quotient, also when the top  *)
(* word of the dividend is skipped.                                          *)
LEMMA FirstDigitIsEnough ==
  ASSUME NEW d, NEW v, IsPrepared(v, d), NEW u \in Nat, u < BaseTo[8], NumWords(u) >= v.dLen
  PROVE  /\ FirstDigit(u, v) \in 0 .. 7
         /\ u * PowerOf2[v.shift] < v.dn * BaseTo[FirstDigit(u, v) + 1]
<1> DEFINE len == NumWords(u)  x == u * PowerOf2[v.shift]
           skip == /\ v.dLen = 1 /\ len >= 2
                   /\ Digit(x, len) = 0 /\ Digit(x, len-1) < v.dn
<1>1. /\ len - v.dLen \in 0 .. 7 /\ x \in Nat /\ x < Half * BaseTo[len]
      /\ x < v.dn * BaseTo[len - v.dLen + 1]
  BY WordsOfQuotient
<1>2. len \in 0 .. 8
  BY NumWordsFact
<1>3. FirstDigit(u, v) = IF skip THEN len - 2 ELSE len - v.dLen
  BY DEF FirstDigit
<1> HIDE DEF x, len
<1>4. CASE ~skip
  BY <1>1, <1>3, <1>4 DEF x
<1>5. CASE skip
  <2> DEFINE k == len - 1
  <2>1. len \in 2 .. 8 /\ k \in 1 .. 7 /\ k+1 = len /\ k \in 0 .. 8 /\ len \in 0 .. 9 /\ k \in 0 .. 9
    BY <1>2, <1>5
  <2>2. v.dn \in Nat \ {0}
    <3>1. v.dn \in Nat /\ Digit(x, len-1) < v.dn
      BY <1>5 DEF IsPrepared
    <3>2. Digit(x, k) \in 0 .. Base-1 /\ Base \in Nat
      BY <1>1, <2>1, DigitStep, BaseFacts
    <3> QED BY <3>1, <3>2
  <2>3. BaseTo[len+1] = Base * BaseTo[len] /\ BaseTo[len] \in Nat \ {0} /\ BaseTo[k] \in Nat \ {0}
    <3>1. len \in 0 .. 8
      BY <2>1
    <3> QED BY <2>1, <3>1, PowersOfBase
  <2>4. x < BaseTo[len+1]
    <3>1. Half * BaseTo[len] <= Base * BaseTo[len]
      BY <2>3, BaseFacts, TimesMonotonic
    <3>2. Half * BaseTo[len] \in Nat /\ Base * BaseTo[len] \in Nat
      BY <2>3, BaseFacts
    <3> QED BY <1>1, <2>3, <3>1, <3>2
  <2>5. x \div BaseTo[len] = 0
    <3>1. len \in 0 .. 8
      BY <2>1
    <3>2. Digit(x, len) = x \div BaseTo[len]
      BY <1>1, <2>4, <3>1, DigitStep
    <3> QED BY <1>5, <3>2
  <2>6. x < BaseTo[len]
    <3> DEFINE g == BaseTo[len]
    <3>1. g \in Nat \ {0} /\ 1 * g = g /\ x \div g = 0
      BY <2>3, <2>5
    <3> HIDE DEF g
    <3>2. 1 * g <= x => 1 <= x \div g
      BY <1>1, <3>1, QuotientBetween
    <3>3. x < g
      BY <1>1, <3>1, <3>2
    <3> QED BY <3>3 DEF g
  <2>7. x \div BaseTo[k] < v.dn
    <3>1. x < BaseTo[k+1]
      BY <2>1, <2>6
    <3>2. Digit(x, k) = x \div BaseTo[k]
      BY <1>1, <2>1, <3>1, DigitStep
    <3> QED BY <1>5, <3>2
  <2> DEFINE g == BaseTo[k]
  <2>8. x < v.dn * g
    <3>1. g \in Nat \ {0} /\ x \div g < v.dn
      BY <2>3, <2>7
    <3> HIDE DEF g
    <3>2. v.dn * g <= x => v.dn <= x \div g
      BY <1>1, <2>2, <3>1, QuotientBetween
    <3>3. v.dn * g \in Nat /\ x \div g \in Int
      BY <1>1, <2>2, <3>1, IntegerDivision
    <3> QED BY <1>1, <2>2, <3>1, <3>2, <3>3
  <2>10. len - 2 \in 0 .. 7 /\ (len - 2) + 1 = k
    BY <2>1
  <2> QED BY <1>3, <1>5, <2>8, <2>10 DEF x
<1> QED BY <1>4, <1>5

(* One digit of the quotient: what was left of the dividend is the digit, at *)
(* its place, times the divisor, and what is left now; and that has no       *)
(* digit at this place any more.                                             *)
LEMMA DigitMade ==
  ASSUME NEW d, IsPrepared(divisor, d), NEW k \in 0 .. 7, NEW u \in Nat,
         u < divisor.dn * BaseTo[k+1]
  PROVE  LET window == (u \div BaseTo[k]) % BaseTo[divisor.dLen + 1]
             digit == QuotientDigit(window)
             less == u + (digit.left - window) * BaseTo[k]
         IN  /\ digit.q \in Nat /\ less \in Nat
             /\ u = (digit.q * BaseTo[k]) * divisor.dn + less
             /\ less < divisor.dn * BaseTo[k]
<1> DEFINE g == BaseTo[k]  w == u \div g  dn == divisor.dn  m == BaseTo[divisor.dLen + 1]
           q == w \div dn  l == w % dn  f == u % g
<1>1. k \in 0 .. 9 /\ k \in 0 .. 8 /\ divisor.dLen \in 1 .. 4 /\ divisor.dLen \in 0 .. 8
      /\ divisor.dLen \in 0 .. 9 /\ divisor.dLen + 1 \in 0 .. 9 /\ divisor.dLen - 1 \in 0 .. 9
  BY DEF IsPrepared
<1>2. g \in Nat \ {0} /\ m \in Nat \ {0} /\ BaseTo[k+1] = Base * g /\ m = Base * BaseTo[divisor.dLen]
      /\ BaseTo[divisor.dLen] \in Nat \ {0} /\ BaseTo[divisor.dLen - 1] \in Nat \ {0} /\ Base \in Nat \ {0}
  <2> DEFINE len == divisor.dLen
  <2>1. len \in 0 .. 8 /\ len \in 0 .. 9 /\ len + 1 \in 0 .. 9 /\ len - 1 \in 0 .. 9
    BY <1>1
  <2> HIDE DEF len
  <2>2. /\ BaseTo[k] \in Nat \ {0} /\ BaseTo[len] \in Nat \ {0}
        /\ BaseTo[len + 1] \in Nat \ {0} /\ BaseTo[len - 1] \in Nat \ {0}
    BY <1>1, <2>1, PowersOfBase
  <2>3. BaseTo[k+1] = Base * BaseTo[k] /\ BaseTo[len + 1] = Base * BaseTo[len]
    BY <1>1, <2>1, PowersOfBase
  <2> QED BY <2>2, <2>3, BaseFacts DEF len
<1>3. dn \in Nat \ {0} /\ dn < BaseTo[divisor.dLen]
  <2>1. dn \in Nat /\ Half * BaseTo[divisor.dLen - 1] <= dn /\ dn < BaseTo[divisor.dLen]
    BY DEF IsPrepared
  <2>2. 1 * BaseTo[divisor.dLen - 1] <= Half * BaseTo[divisor.dLen - 1]
    BY <1>2, BaseFacts, TimesMonotonic
  <2>3. Half * BaseTo[divisor.dLen - 1] \in Nat
    BY <1>2, BaseFacts
  <2> QED BY <1>2, <2>1, <2>2, <2>3
<1>4. u < (dn * Base) * g
  <2>1. dn * (Base * g) = (dn * Base) * g
    BY <1>2, <1>3, SMTT(30)
  <2> QED BY <1>2, <2>1
<1> HIDE DEF g, m, dn
<1>5. w \in Nat /\ f \in Nat /\ f < g /\ u = g * w + f
  <2>1. g \in Nat \ {0} /\ u \in Int
    BY <1>2
  <2>2. w \in Nat /\ f \in Int /\ 0 <= f /\ f < g /\ u = g * w + f
    BY <2>1, IntegerDivision
  <2> QED BY <2>2
<1>6. w < dn * Base
  <2>1. dn * Base \in Int
    BY <1>2, <1>3
  <2> QED BY <1>2, <1>4, <2>1, QuotientBetween
<1>7. w % m = w
  <2>1. dn * Base < BaseTo[divisor.dLen] * Base
    BY <1>2, <1>3, TimesMonotonic
  <2>2. BaseTo[divisor.dLen] * Base = m /\ dn * Base \in Nat
    BY <1>2, <1>3
  <2>3. w < m
    BY <1>2, <1>5, <1>6, <2>1, <2>2
  <2>4. w = m * 0 + w /\ w \in Int /\ 0 <= w
    BY <1>2, <1>5
  <2> HIDE DEF w
  <2> QED BY <1>2, <2>3, <2>4, DivisionIsUnique
<1> HIDE DEF w
<1>8. QuotientDigit(w) = [q |-> q, left |-> l]
  BY <1>5, <1>6, DigitIsQuotient DEF dn
<1>9. q \in Nat /\ l \in Nat /\ l < dn /\ w = dn * q + l
  <2>1. q \in Nat /\ l \in Int /\ 0 <= l /\ l < dn /\ w = dn * q + l
    BY <1>3, <1>5, IntegerDivision
  <2> QED BY <2>1
<1> HIDE DEF q, l, f
<1>10. u + (l - w) * g = l * g + f /\ l * g \in Nat
  <2>1. (l - w) * g = l * g - g * w /\ l * g \in Nat /\ g * w \in Nat
    BY <1>2, <1>5, <1>9
  <2> QED BY <1>5, <2>1
<1>11. u = (q * g) * dn + (l * g + f)
  <2>1. g * w = g * (dn * q) + g * l
    BY <1>2, <1>3, <1>9
  <2>2. g * (dn * q) = (q * g) * dn /\ g * l = l * g
    BY <1>2, <1>3, <1>9, SMTT(30)
  <2>3. (q * g) * dn \in Int
    BY <1>2, <1>3, <1>9
  <2> QED BY <1>5, <1>10, <2>1, <2>2, <2>3
<1>12. l * g + f < dn * g
  <2>1. (l + 1) * g <= dn * g
    BY <1>2, <1>3, <1>9, TimesMonotonic
  <2>2. (l + 1) * g = l * g + g /\ dn * g \in Nat
    BY <1>2, <1>3, <1>9
  <2> QED BY <1>2, <1>5, <1>10, <2>1, <2>2
<1> DEFINE less == u + (l - w) * g
<1>13. less = l * g + f /\ less \in Nat /\ u = (q * g) * dn + less /\ less < dn * g
  BY <1>5, <1>10, <1>11, <1>12
<1>14. (u \div BaseTo[k]) % BaseTo[divisor.dLen + 1] = w
  BY <1>7 DEF w, m, g
<1> HIDE DEF less
<1> QED BY <1>8, <1>9, <1>13, <1>14 DEF less, g, dn

(* What is left when the last digit is made, shifted back, is the remainder. *)
IsLeft(r, a, q, d, c) == a * c = q * (d * c) + r /\ r < d * c

(* What is left when the last digit is made, shifted back, is the remainder. *)
LEMMA LastRemainder ==
  ASSUME NEW d \in Nat \ {0}, NEW c \in Nat \ {0}, NEW a \in Nat, NEW q \in Nat, NEW r \in Nat,
         IsLeft(r, a, q, d, c)
  PROVE  a \div d = q /\ a % d = r \div c
<1>0. a * c = q * (d * c) + r /\ r < d * c
  BY DEF IsLeft
<1> DEFINE e == a \div d  f == a % d
<1>1. e \in Nat /\ f \in Nat /\ f < d /\ a = d * e + f
  <2>1. e \in Nat /\ f \in Int /\ 0 <= f /\ f < d /\ a = d * e + f
    BY IntegerDivision
  <2> QED BY <2>1
<1> HIDE DEF e, f
<1> DEFINE x == a * c  m == d * c
<1>2. m \in Nat \ {0} /\ x \in Nat /\ f * c \in Nat
  <2>1. 1 * c <= d * c
    BY TimesMonotonic
  <2> QED BY <1>1, <2>1
<1>3. x = m * e + f * c
  <2>1. (d * e + f) * c = (d * e) * c + f * c
    BY <1>1
  <2>2. (d * e) * c = (d * c) * e
    BY <1>1, SMTT(30)
  <2> QED BY <1>1, <2>1, <2>2
<1>4. f * c < m
  BY <1>1, TimesMonotonic
<1>5. x = m * q + r
  <2>1. q * m = m * q
    BY <1>2
  <2> QED BY <1>0, <2>1
<1> HIDE DEF x, m
<1>6. x \div m = q /\ x % m = r
  <2>1. m \in Nat \ {0} /\ x \in Int /\ 0 <= r /\ r < m /\ x = m * q + r
    BY <1>0, <1>2, <1>5 DEF m
  <2> QED BY <2>1, DivisionIsUnique
<1>7. x \div m = e /\ x % m = f * c
  <2> DEFINE h == f * c
  <2>1. m \in Nat \ {0} /\ x \in Int /\ e \in Int /\ h \in Int /\ 0 <= h /\ h < m /\ x = m * e + h
    BY <1>1, <1>2, <1>3, <1>4
  <2> HIDE DEF h
  <2>2. x \div m = e /\ x % m = h
    BY <2>1, DivisionIsUnique
  <2> QED BY <2>2 DEF h
<1>8. r = c * f + 0
  BY <1>1, <1>6, <1>7
<1>9. r \div c = f
  BY <1>1, <1>8, DivisionIsUnique
<1> QED BY <1>6, <1>7, <1>9 DEF e, f
-----------------------------------------------------------------------------
(* The kept divisor, if there is one, is normalised.                         *)
CacheIsPrepared ==
  cache # NoDivisor => cache.d \in 1 .. Full-1 /\ IsPrepared(cache, cache.d)

(* The digits that were made are the upper ones of the quotient, and un is   *)
(* what they leave of the dividend.                                          *)
DigitsSoFar ==
  at = "digit" =>
    /\ ~Trivial(asked) /\ asked.op \notin ByShift
    /\ IsPrepared(divisor, asked.d)
    /\ j \in 0 .. 7 /\ un \in Nat /\ quot \in Nat
    /\ Dividend * PowerOf2[divisor.shift] = quot * divisor.dn + un
    /\ un < divisor.dn * BaseTo[j+1]

RemainderIsWritten ==
  /\ asked.op = "MulDivRoundingUpV2" => remainder = Dividend % asked.d
  /\ asked.op \in Divisions \cup {"MulDivV2"} => rem = Dividend % asked.d

DividedExactly ==
  at = "divided" =>
    /\ ~Trivial(asked) /\ asked.op \notin ByShift
    /\ quot = Dividend \div asked.d
    /\ RemainderIsWritten

DivisionInvariant ==
  /\ asked \in DivisionCalls
  /\ CacheIsPrepared
  /\ DigitsSoFar
  /\ DividedExactly
  /\ DivisionExact

(* Operands and their products are naturals of four and of eight words; the  *)
(* divisor is no zero, except in a call that is answered at once.            *)
LEMMA DivisionCallFacts ==
  ASSUME NEW c \in DivisionCalls
  PROVE  /\ c.x \in Nat /\ c.x < Full /\ c.y \in Nat /\ c.y < Full /\ c.d \in Nat /\ c.d < Full
         /\ c.op \in Divisions \cup Products \cup ByMaxFee \cup ByShift
         /\ c.op \in Divisions \cup ByMaxFee => c.y = 1
         /\ c.op \in ByMaxFee => c.d = FeeDenominator
         /\ c.op \in ByShift => c.x < BaseTo[2] /\ c.y < BaseTo[2] * PowerOf2[S] /\ c.d = TwoTo96
         /\ ~Trivial(c) /\ c.op \notin ByShift => c.d \in Nat \ {0}
         /\ c.x * c.y \in Nat /\ c.x * c.y < BaseTo[8]
<1>1. Full \in Nat \ {0} /\ FeeDenominator \in Nat \ {0}
  BY SmallPowers, WordAssumption, BaseFacts
<1>2. /\ c.x \in Operand /\ c.y \in Operand /\ c.d \in Operand
      /\ c.op \in Divisions \cup Products \cup ByMaxFee \cup ByShift
  BY DEF DivisionCalls
<1>3. c.x \in Nat /\ c.x < Full /\ c.y \in Nat /\ c.y < Full /\ c.d \in Nat /\ c.d < Full
  BY <1>1, <1>2 DEF Operand
<1>4. /\ c.op \in Divisions => c.y = 1 /\ c.d # 0
      /\ c.op \in ByMaxFee => c.y = 1 /\ c.d = FeeDenominator
      /\ c.op \in ByShift => c.x < BaseTo[2] /\ c.y < BaseTo[2] * PowerOf2[S] /\ c.d = TwoTo96
  BY DEF DivisionCalls
<1>5. ASSUME ~Trivial(c), c.op \notin ByShift PROVE c.d \in Nat \ {0}
  BY <1>1, <1>2, <1>3, <1>4, <1>5 DEF Trivial
<1>6. c.x * c.y \in Nat /\ c.x * c.y < BaseTo[8]
  <2> DEFINE x == c.x  y == c.y
  <2>1. x \in Nat /\ x < Full /\ y \in Nat /\ y < Full
    BY <1>3
  <2> HIDE DEF x, y
  <2>2. x * y <= Full * y /\ y * Full < Full * Full
    BY <1>1, <2>1, TimesMonotonic
  <2>3. Full * y = y * Full /\ x * y \in Nat /\ y * Full \in Nat /\ Full * Full \in Nat
    BY <1>1, <2>1
  <2>4. BaseTo[8] = Full * Full
    <3>1. 4 \in 0 .. 9 /\ 4 + 4 = 8 /\ 4 + 4 <= 9
      OBVIOUS
    <3>2. BaseTo[4 + 4] = BaseTo[4] * BaseTo[4]
      BY <3>1, PowersOfBase
    <3> QED BY <3>1, <3>2 DEF Full
  <2>5. x * y < Full * Full
    BY <2>2, <2>3
  <2> QED BY <2>3, <2>4, <2>5 DEF x, y
<1> QED BY <1>2, <1>3, <1>4, <1>5, <1>6

(* A call with a divisor that is kept finds it normalised, and with any      *)
(* other normalises it.                                                      *)
LEMMA PreparedIsPrepared ==
  ASSUME CacheIsPrepared, NEW d \in Nat \ {0}, d < Full
  PROVE  IsPrepared(Prepared(d), d)
<1>1. CASE cache.dLen > 0 /\ cache.d = d
  <2>1. cache # NoDivisor
    BY <1>1 DEF NoDivisor
  <2>2. Prepared(d) = cache
    BY <1>1 DEF Prepared
  <2> QED BY <1>1, <2>1, <2>2 DEF CacheIsPrepared
<1>2. CASE ~(cache.dLen > 0 /\ cache.d = d)
  <2>1. Prepared(d) = Normalised(d)
    BY <1>2 DEF Prepared
  <2> QED BY <2>1, NormalisedIsPrepared
<1> QED BY <1>1, <1>2

(* And keeps the reciprocal of its own top word.                             *)
LEMMA PreparedReciprocal ==
  ASSUME CacheIsPrepared
  PROVE  CacheOfLastDivisor
<1> SUFFICES ASSUME cache # NoDivisor
             PROVE  LET top == cache.dn \div BaseTo[cache.dLen - 1]
                    IN  /\ cache.dn = cache.d * PowerOf2[cache.shift]
                        /\ top \in Base \div 2 .. Base-1
                        /\ cache.recip = (BaseTo[2] - 1) \div top - Base
  BY DEF CacheOfLastDivisor
<1> DEFINE top == cache.dn \div BaseTo[cache.dLen - 1]
<1>1. /\ cache.dn = cache.d * PowerOf2[cache.shift]
      /\ top \in Half .. Base-1
      /\ cache.recip = Reciprocal2by1(top)
  BY DEF CacheIsPrepared, IsPrepared
<1> HIDE DEF top
<1>2. Reciprocal2by1(top) = (Base * Base - 1) \div top - Base
  BY <1>1, ReciprocalFact
<1>3. Base \div 2 = Half /\ BaseTo[2] = Base * Base
  BY BaseFacts, SmallPowers
<1> QED BY <1>1, <1>2, <1>3 DEF top

(* A call of a zero, or of no divisor, is answered at once.                  *)
LEMMA ZeroIsExact ==
  ASSUME DivisionInvariant, NEW c \in DivisionCalls, asked' = c, Zero(c)
  PROVE  DivisionInvariant'
<1>1. Trivial(c) /\ quotient' = 0 /\ err' = "nil" /\ at' = "returned" /\ UNCHANGED cache
  BY DEF Zero
<1>2. c.op \notin ByShift
  BY <1>1 DEF Trivial, Products, ByShift
<1>3. DivisionExact'
  BY <1>1, <1>2 DEF DivisionExact
<1>4. CacheIsPrepared' /\ DigitsSoFar' /\ DividedExactly'
  BY <1>1 DEF DivisionInvariant, CacheIsPrepared, DigitsSoFar, DividedExactly
<1> QED BY <1>3, <1>4 DEF DivisionInvariant

(* The product that is shifted is answered at once, too.                     *)
LEMMA ShiftedIsExact ==
  ASSUME DivisionInvariant, NEW c \in DivisionCalls, asked' = c, Shift96(c)
  PROVE  DivisionInvariant'
<1> DEFINE p == Columns(c.x, c.y)
           joined(k) == (p[k] \div PowerOf2[S]) + WordOf(p[k+1] * PowerOf2[W-S])
           answer == joined(2) + joined(3) * Base + joined(4) * BaseTo[2] + (p[5] \div PowerOf2[S]) * BaseTo[3]
           lost == p[1] # 0 \/ p[2] % PowerOf2[S] # 0
<1>1. c.op \in ByShift /\ at' = "returned" /\ UNCHANGED cache
  BY DEF Shift96
<1>2. quotient' = answer /\ err' = IF lost THEN "inexact" ELSE "nil"
  BY DEF Shift96
<1>3. c.x \in Nat /\ c.y \in Nat /\ c.x < BaseTo[2] /\ c.y < BaseTo[2] * PowerOf2[S]
  BY <1>1, DivisionCallFacts
<1>4. (c.x * c.y) \div TwoTo96 = answer /\ ((c.x * c.y) % TwoTo96 # 0 <=> lost)
  BY <1>3, ShiftIsExact
<1> HIDE DEF answer, lost
<1>5. DivisionExact'
  BY <1>1, <1>2, <1>4 DEF DivisionExact, Dividend
<1>6. CacheIsPrepared' /\ DigitsSoFar' /\ DividedExactly'
  BY <1>1 DEF DivisionInvariant, CacheIsPrepared, DigitsSoFar, DividedExactly
<1> QED BY <1>5, <1>6 DEF DivisionInvariant

(* A division by the fee's denominator starts with as many digits as its     *)
(* dividend has words.                                                       *)
LEMMA ByMaxFeeStarts ==
  ASSUME DivisionInvariant, NEW c \in DivisionCalls, asked' = c, StartByMaxFee(c)
  PROVE  DivisionInvariant'
<1> DEFINE v == Normalised(FeeDenominator)  k == PowerOf2[v.shift]
<1>1. /\ c.op \in ByMaxFee /\ divisor' = v /\ un' = c.x * k /\ quot' = 0
      /\ j' = (IF c.x = 0 THEN 0 ELSE NumWords(c.x) - 1) /\ at' = "digit" /\ UNCHANGED cache
  BY DEF StartByMaxFee
<1>2. ~Trivial(c) /\ c.op \notin ByShift
  BY <1>1 DEF Trivial, ByMaxFee, Products, ByShift
<1>3. /\ c.y = 1 /\ c.d = FeeDenominator /\ c.d \in Nat \ {0} /\ c.d < Full /\ c.x \in Nat
      /\ c.x * c.y < BaseTo[8]
  BY <1>1, <1>2, DivisionCallFacts
<1>4. c.x * c.y = c.x /\ c.x < BaseTo[8]
  BY <1>3
<1>5. IsPrepared(v, c.d) /\ v.dLen = 1
  <2>1. FeeDenominator < BaseTo[1]
    BY WordAssumption, BaseFacts, PowersOfBase
  <2>2. IsPrepared(v, c.d) /\ v.dLen <= 1
    BY <1>3, <2>1, NormalisedIsPrepared
  <2> QED BY <2>2 DEF IsPrepared
<1> HIDE DEF v
<1>6. j' \in 0 .. 7 /\ un' \in Nat /\ un' < v.dn * BaseTo[j' + 1]
  <2>1. CASE c.x = 0
    <3>1. j' = 0 /\ un' = 0
      <4>1. k \in Nat
        BY <1>5, ShiftAtMostHalf DEF IsPrepared
      <4> HIDE DEF k
      <4> QED BY <1>1, <2>1, <4>1
    <3>2. 0 < v.dn * Base
      <4>1. v.dn \in Nat /\ Half * BaseTo[0] <= v.dn
        BY <1>5 DEF IsPrepared
      <4>2. Half * 1 = Half /\ BaseTo[0] = 1
        BY BaseFacts, PowersOfBase
      <4>3. v.dn \in Nat \ {0} /\ Base \in Nat \ {0}
        BY <4>1, <4>2, BaseFacts
      <4>4. 1 * Base <= v.dn * Base
        BY <4>3, TimesMonotonic
      <4>5. v.dn * Base \in Nat
        BY <4>3
      <4> QED BY <4>3, <4>4, <4>5
    <3>3. BaseTo[0 + 1] = Base
      BY PowersOfBase
    <3> QED BY <3>1, <3>2, <3>3
  <2>2. CASE c.x # 0
    <3>1. NumWords(c.x) \in 0 .. 8 /\ c.x < BaseTo[NumWords(c.x)]
      BY <1>3, <1>4, NumWordsFact
    <3>2. NumWords(c.x) # 0
      <4> DEFINE x == c.x  len == NumWords(c.x)
      <4>1. x \in Nat /\ x # 0 /\ x < BaseTo[len]
        BY <1>3, <2>2, <3>1
      <4>2. BaseTo[0] = 1
        BY PowersOfBase
      <4> HIDE DEF x, len
      <4>3. len # 0
        BY <4>1, <4>2
      <4> QED BY <4>3 DEF len
    <3>3. NumWords(c.x) >= v.dLen
      BY <1>5, <3>1, <3>2
    <3>4. /\ NumWords(c.x) - v.dLen \in 0 .. 7 /\ c.x * k \in Nat
          /\ c.x * k < v.dn * BaseTo[NumWords(c.x) - v.dLen + 1]
      BY <1>3, <1>4, <1>5, <3>3, WordsOfQuotient
    <3> QED BY <1>1, <1>5, <2>2, <3>4
  <2> QED BY <2>1, <2>2
<1>7. (c.x * c.y) * k = quot' * v.dn + un'
  <2>1. 0 * v.dn = 0
    BY <1>5 DEF IsPrepared
  <2> QED BY <1>1, <1>4, <1>6, <2>1
<1> HIDE DEF k
<1>8. DigitsSoFar'
  BY <1>1, <1>2, <1>5, <1>6, <1>7 DEF DigitsSoFar, Dividend, k
<1>9. CacheIsPrepared' /\ DividedExactly' /\ DivisionExact'
  BY <1>1 DEF DivisionInvariant, CacheIsPrepared, DivisionExact, DividedExactly
<1> QED BY <1>8, <1>9 DEF DivisionInvariant

(* Other divisions start with the dividend shifted, unless it is shorter     *)
(* than the divisor: then it is the remainder, and the quotient zero.        *)
LEMMA DivisionStarts ==
  ASSUME DivisionInvariant, NEW c \in DivisionCalls, asked' = c, StartDivision(c)
  PROVE  DivisionInvariant'
<1> DEFINE u == IF c.op \in Products THEN ProductOf(c.x, c.y) ELSE c.x
           v == Prepared(c.d)
           k == PowerOf2[v.shift]
<1>1. c.op \notin ByMaxFee /\ c.op \notin ByShift /\ ~Trivial(c)
  BY DEF StartDivision
<1>2. /\ cache' = v /\ divisor' = v /\ quot' = 0
      /\ \/ NumWords(u) < v.dLen /\ SetRemainder(c, u) /\ at' = "divided"
         \/ /\ ~(NumWords(u) < v.dLen)
            /\ un' = u * k /\ j' = FirstDigit(u, v) /\ at' = "digit"
  BY DEF StartDivision
<1>3. /\ c.d \in Nat \ {0} /\ c.d < Full /\ c.x \in Nat /\ c.y \in Nat /\ c.x < Full /\ c.y < Full
      /\ c.x * c.y \in Nat /\ c.x * c.y < BaseTo[8]
      /\ c.op \in Divisions \cup Products
      /\ c.op \in Divisions => c.y = 1
  BY <1>1, DivisionCallFacts
<1>4. u = c.x * c.y
  <2>1. CASE c.op \in Products
    BY <1>3, <2>1, ProductIsExact
  <2>2. CASE c.op \notin Products
    BY <1>3, <2>2
  <2> QED BY <2>1, <2>2
<1>5. u \in Nat /\ u < BaseTo[8]
  BY <1>3, <1>4
<1>6. IsPrepared(v, c.d)
  BY <1>3, PreparedIsPrepared DEF DivisionInvariant
<1> HIDE DEF u, v
<1>7. CacheIsPrepared'
  <2>1. v.d = c.d /\ c.d \in 1 .. Full-1
    BY <1>3, <1>6, SmallPowers DEF IsPrepared
  <2> QED BY <1>2, <1>6, <2>1 DEF CacheIsPrepared
<1>8. CASE NumWords(u) < v.dLen /\ SetRemainder(c, u) /\ at' = "divided"
  <2>1. u < c.d
    <3> DEFINE len == NumWords(u)  top == v.dLen - 1
    <3>1. len \in 0 .. 8 /\ u < BaseTo[len]
      BY <1>5, NumWordsFact
    <3>2. top \in 0 .. 9 /\ len \in 0 .. 9 /\ len <= top /\ BaseTo[top] <= c.d
      BY <1>6, <1>8, <3>1 DEF IsPrepared
    <3> HIDE DEF len, top
    <3>3. BaseTo[len] <= BaseTo[top] /\ BaseTo[len] \in Nat /\ BaseTo[top] \in Nat
      BY <3>2, BaseGrows, PowersOfBase
    <3> QED BY <1>3, <1>5, <3>1, <3>2, <3>3
  <2>2. u \div c.d = 0 /\ u % c.d = u
    <3>1. u = c.d * 0 + u /\ u \in Int /\ 0 <= u
      BY <1>3, <1>5
    <3> QED BY <1>3, <2>1, <3>1, DivisionIsUnique
  <2>3. RemainderIsWritten'
    BY <1>3, <1>4, <1>8, <2>2 DEF RemainderIsWritten, SetRemainder, Overwritten, Dividend, Divisions
  <2>4. DividedExactly'
    BY <1>1, <1>2, <1>4, <2>2, <2>3 DEF DividedExactly, Dividend
  <2>5. DigitsSoFar' /\ DivisionExact'
    BY <1>8 DEF DigitsSoFar, DivisionExact
  <2> QED BY <1>7, <2>4, <2>5 DEF DivisionInvariant
<1>9. CASE /\ ~(NumWords(u) < v.dLen)
           /\ un' = u * k /\ j' = FirstDigit(u, v) /\ at' = "digit"
  <2>1. NumWords(u) >= v.dLen
    BY <1>5, <1>6, <1>9, NumWordsFact DEF IsPrepared
  <2>2. un' \in Nat
    BY <1>5, <1>6, <1>9, <2>1, WordsOfQuotient
  <2>3. j' \in 0 .. 7 /\ un' < v.dn * BaseTo[j' + 1]
    BY <1>5, <1>6, <1>9, <2>1, FirstDigitIsEnough
  <2>4. (c.x * c.y) * k = quot' * v.dn + un'
    <3>1. 0 * v.dn = 0
      BY <1>6 DEF IsPrepared
    <3> QED BY <1>2, <1>4, <1>9, <2>2, <3>1
  <2>5. quot' \in Nat
    BY <1>2
  <2> HIDE DEF k
  <2>6. DigitsSoFar'
    BY <1>1, <1>2, <1>6, <2>2, <2>3, <2>4, <2>5 DEF DigitsSoFar, Dividend, k
  <2>7. DividedExactly' /\ DivisionExact'
    BY <1>9 DEF DividedExactly, DivisionExact
  <2> QED BY <1>7, <2>6, <2>7 DEF DivisionInvariant
<1> QED BY <1>2, <1>8, <1>9

(* Every digit leaves what it must of the dividend, and the last one the     *)
(* remainder.                                                                *)
LEMMA DigitKeeps ==
  ASSUME DivisionInvariant, MakeDigit
  PROVE  DivisionInvariant'
<1> DEFINE g == BaseTo[j]  dn == divisor.dn  k == PowerOf2[divisor.shift]
           window == (un \div BaseTo[j]) % BaseTo[divisor.dLen + 1]
           digit == QuotientDigit(window)
<1>1. /\ asked \in DivisionCalls /\ ~Trivial(asked) /\ asked.op \notin ByShift
      /\ IsPrepared(divisor, asked.d)
      /\ j \in 0 .. 7 /\ un \in Nat /\ quot \in Nat
      /\ Dividend * k = quot * dn + un
      /\ un < dn * BaseTo[j+1]
  BY DEF MakeDigit, DivisionInvariant, DigitsSoFar
<1>2. /\ un' = un + (digit.left - window) * g
      /\ quot' = quot + digit.q * g
      /\ j' = j - 1
      /\ UNCHANGED <<cache, divisor, asked>>
  BY DEF MakeDigit
<1>3. /\ digit.q \in Nat /\ un' \in Nat /\ un = (digit.q * g) * dn + un' /\ un' < dn * g
  BY <1>1, <1>2, DigitMade
<1> HIDE DEF window, digit
<1>4. Dividend' = Dividend /\ Dividend \in Nat /\ asked.d \in Nat \ {0}
  BY <1>1, <1>2, DivisionCallFacts DEF Dividend
<1>5. g \in Nat \ {0} /\ dn \in Nat /\ dn = asked.d * k /\ dn < BaseTo[divisor.dLen] /\ divisor.dLen \in 1 .. 4
  <2>1. j \in 0 .. 9
    BY <1>1
  <2> QED BY <1>1, <2>1, PowersOfBase DEF IsPrepared
<1>6. k \in Nat \ {0}
  BY <1>1, ShiftAtMostHalf DEF IsPrepared
<1> DEFINE q == digit.q
<1> HIDE DEF g, dn, k, q
<1>7. quot' \in Nat /\ Dividend * k = quot' * dn + un'
  <2>1. q \in Nat /\ quot' = quot + q * g /\ un = (q * g) * dn + un'
    BY <1>2, <1>3 DEF q
  <2>2. q * g \in Nat
    BY <1>5, <2>1
  <2>3. (quot + q * g) * dn = quot * dn + (q * g) * dn
    BY <1>1, <1>5, <2>2
  <2>4. quot * dn \in Nat /\ (q * g) * dn \in Nat
    BY <1>1, <1>5, <2>2
  <2> QED BY <1>1, <1>3, <2>1, <2>2, <2>3, <2>4
<1>8. CacheIsPrepared' /\ asked' \in DivisionCalls
  BY <1>1, <1>2 DEF DivisionInvariant, CacheIsPrepared
<1>9. CASE j > 0
  <2>1. at' = "digit"
    BY <1>9 DEF MakeDigit
  <2>2. j' \in 0 .. 7 /\ j' + 1 = j
    BY <1>1, <1>2, <1>9
  <2>3. DigitsSoFar'
    BY <1>1, <1>2, <1>3, <1>4, <1>7, <2>2 DEF DigitsSoFar, g, dn, k
  <2>4. DividedExactly' /\ DivisionExact'
    BY <2>1 DEF DividedExactly, DivisionExact
  <2> QED BY <1>8, <2>3, <2>4 DEF DivisionInvariant
<1>10. CASE ~(j > 0)
  <2>1. at' = "divided" /\ (asked.op \in ByMaxFee \/ SetRemainder(asked, (un' % BaseTo[divisor.dLen]) \div PowerOf2[divisor.shift]))
    BY <1>10 DEF MakeDigit
  <2>2. un' < dn
    <3>1. j = 0
      BY <1>1, <1>10
    <3>2. BaseTo[0] = 1
      BY PowersOfBase
    <3>3. dn * 1 = dn
      BY <1>5
    <3> QED BY <1>3, <3>1, <3>2, <3>3 DEF g
  <2>3. un' % BaseTo[divisor.dLen] = un'
    <3> DEFINE m == BaseTo[divisor.dLen]  z == un'
    <3>1. m \in Nat \ {0}
      <4>1. divisor.dLen \in 0 .. 9
        BY <1>5
      <4> QED BY <4>1, PowersOfBase
    <3> HIDE DEF m
    <3>2. z < m /\ z = m * 0 + z /\ z \in Int /\ 0 <= z
      BY <1>3, <1>5, <2>2, <3>1 DEF m
    <3> HIDE DEF z
    <3>3. z % m = z
      BY <3>1, <3>2, DivisionIsUnique
    <3> QED BY <3>3 DEF m, z
  <2>4. Dividend \div asked.d = quot' /\ un' \div k = Dividend % asked.d
    <3> DEFINE d == asked.d  a == Dividend  y == quot'  z == un'
    <3>1. d \in Nat \ {0} /\ a \in Nat /\ y \in Nat /\ z \in Nat /\ IsLeft(z, a, y, d, k)
      BY <1>3, <1>4, <1>5, <1>7, <2>2 DEF IsLeft
    <3> HIDE DEF d, a, y, z
    <3>2. a \div d = y /\ a % d = z \div k
      <4>1. d \in Nat \ {0} /\ k \in Nat \ {0} /\ a \in Nat /\ y \in Nat /\ z \in Nat /\ IsLeft(z, a, y, d, k)
        BY <1>6, <3>1
      <4>2. a \div d = y
        BY <4>1, LastRemainder
      <4>3. a % d = z \div k
        BY <4>1, LastRemainder
      <4> QED BY <4>2, <4>3
    <3> QED BY <3>2 DEF d, a, y, z
  <2>5. RemainderIsWritten'
    <3>1. asked' = asked
      BY <1>2
    <3>2. CASE asked.op \in ByMaxFee
      BY <3>1, <3>2 DEF RemainderIsWritten, ByMaxFee, Divisions
    <3>3. CASE SetRemainder(asked, (un' % BaseTo[divisor.dLen]) \div k)
      BY <1>4, <2>3, <2>4, <3>1, <3>3 DEF RemainderIsWritten, SetRemainder, Overwritten, Divisions
    <3> QED BY <2>1, <3>2, <3>3 DEF k
  <2>6. DividedExactly'
    BY <1>1, <1>2, <1>4, <2>4, <2>5 DEF DividedExactly
  <2>7. DigitsSoFar' /\ DivisionExact'
    BY <2>1 DEF DigitsSoFar, DivisionExact
  <2> QED BY <1>8, <2>6, <2>7 DEF DivisionInvariant
<1> QED BY <1>9, <1>10

(* The ceiling is the quotient, or one more when something remains.          *)
LEMMA CeilingOfQuotient ==
  ASSUME NEW a \in Nat, NEW d \in Nat \ {0}
  PROVE  Ceiling(a, d) = IF a % d = 0 THEN a \div d ELSE (a \div d) + 1
<1> DEFINE e == a \div d  f == a % d
<1>1. e \in Nat /\ f \in Nat /\ f < d /\ a = d * e + f
  <2>1. e \in Nat /\ f \in Int /\ 0 <= f /\ f < d /\ a = d * e + f
    BY IntegerDivision
  <2> QED BY <2>1
<1> HIDE DEF e, f
<1> DEFINE x == a + d - 1
<1>2. CASE f = 0
  <2>1. x = d * e + (d-1) /\ x \in Int /\ d-1 \in Int /\ 0 <= d-1 /\ d-1 < d /\ e \in Int
    BY <1>1, <1>2
  <2> HIDE DEF x
  <2>2. x \div d = e
    BY <2>1, DivisionIsUnique
  <2> QED BY <1>2, <2>2 DEF x, Ceiling, e, f
<1>3. CASE f # 0
  <2>1. x = d * (e+1) + (f-1) /\ x \in Int /\ f-1 \in Int /\ 0 <= f-1 /\ f-1 < d /\ e+1 \in Int
    BY <1>1, <1>3
  <2> HIDE DEF x
  <2>2. x \div d = e + 1
    BY <2>1, DivisionIsUnique
  <2> QED BY <1>3, <2>2 DEF x, Ceiling, e, f
<1> QED BY <1>2, <1>3

(* The answer is the quotient, rounded, or the error of one that is too      *)
(* large.                                                                    *)
LEMMA AnswerIsExact ==
  ASSUME DivisionInvariant, Return
  PROVE  DivisionInvariant'
<1> DEFINE a == Dividend  d == asked.d  e == a \div d  f == a % d  top == Full
           up == asked.op \in {"DivRoundingUp", "MulDivRoundingUpV2"}
           exact == IF up THEN Ceiling(a, d) ELSE e
<1>1. /\ asked \in DivisionCalls /\ ~Trivial(asked) /\ asked.op \notin ByShift
      /\ quot = e /\ RemainderIsWritten
  BY DEF Return, DivisionInvariant, DividedExactly
<1>2. at' = "returned" /\ UNCHANGED <<cache, asked, quot, rem, remainder>>
  BY DEF Return
<1>3. /\ asked.op \in Divisions \cup Products \cup ByMaxFee
      /\ asked.op \in Divisions \cup ByMaxFee => asked.y = 1
      /\ d \in Nat \ {0} /\ a \in Nat /\ asked.x \in Nat /\ asked.x < top /\ top \in Nat \ {0}
  BY <1>1, DivisionCallFacts, SmallPowers DEF Dividend
<1>4. e \in Nat /\ f \in Nat /\ f < d /\ a = d * e + f /\ exact = IF up /\ f # 0 THEN e + 1 ELSE e
  <2> HIDE DEF a, d
  <2>1. a \in Int /\ a \in Nat /\ d \in Nat \ {0}
    BY <1>3
  <2>2. e \in Nat /\ f \in Int /\ 0 <= f /\ f < d /\ a = d * e + f
    BY <2>1, IntegerDivision
  <2>3. Ceiling(a, d) = IF f = 0 THEN e ELSE e + 1
    BY <2>1, CeilingOfQuotient
  <2>4. exact = IF up THEN Ceiling(a, d) ELSE e
    OBVIOUS
  <2>5. f \in Nat
    BY <2>2
  <2> QED BY <2>2, <2>3, <2>4, <2>5
<1>5. ASSUME asked.op \notin Products PROVE e < top /\ (f # 0 => e + 1 < top)
  <2>1. a = asked.x
    BY <1>3, <1>5 DEF Dividend
  <2>2. a < top
    BY <1>3, <2>1
  <2> HIDE DEF e, f, a, d, top
  <2>3. 1 * e <= d * e /\ d * e \in Nat
    BY <1>3, <1>4, TimesMonotonic
  <2>4. ASSUME f # 0 PROVE e + 1 < top
    <3>1. d * e + f < top /\ e <= d * e
      BY <1>4, <2>2, <2>3
    <3> DEFINE y == d * e
    <3>2. y \in Nat /\ y + f < top /\ e <= y
      BY <2>3, <3>1
    <3> HIDE DEF y
    <3>3. CASE e # 0
      <4>1. d >= 2
        BY <1>3, <1>4, <2>4
      <4>2. 2 * e <= d * e
        BY <1>3, <1>4, <4>1, TimesMonotonic
      <4>3. 2 * e <= y
        BY <4>2 DEF y
      <4> QED BY <1>3, <1>4, <2>4, <3>2, <3>3, <4>3
    <3>4. CASE e = 0
      <4>1. f \in Nat /\ f >= 1
        BY <1>4, <2>4
      <4>2. top > 1
        BY <1>3, <3>2, <4>1
      <4> QED BY <3>4, <4>2
    <3> QED BY <3>3, <3>4
  <2> DEFINE y == d * e
  <2>5. y \in Nat /\ e <= y /\ y + f < top
    BY <1>4, <2>2, <2>3
  <2> HIDE DEF y
  <2>6. e < top
    BY <1>3, <1>4, <2>5
  <2> QED BY <2>4, <2>6
<1>6. /\ err' = "nil" <=> exact < top
      /\ err' = "nil" => quotient' = exact
  <2> DEFINE q == e % top
             overflow == asked.op \in Products /\ e >= top
  <2>1. /\ quotient' = IF overflow THEN q ELSE RoundUp(q)
        /\ err' = CASE overflow -> "ErrMulDivOverflow"
                    [] /\ asked.op = "MulDivRoundingUpV2" /\ ~overflow
                       /\ remainder # 0 /\ q = top-1 -> "ErrInvariant"
                    [] OTHER -> "nil"
    BY <1>1 DEF Return
  <2>2. exact \in Nat /\ e <= exact /\ e \in Nat
    BY <1>4
  <2>3. ASSUME e < top PROVE q = e
    <3> HIDE DEF e, top
    <3>1. e = top * 0 + e /\ e \in Int /\ 0 <= e /\ top \in Nat \ {0}
      BY <1>3, <2>2
    <3> QED BY <2>3, <3>1, DivisionIsUnique
  <2> HIDE DEF e, top, q, exact
  <2>4. CASE overflow
    <3>1. err' = "ErrMulDivOverflow"
      BY <2>1, <2>4
    <3>2. ~(exact < top)
      BY <1>3, <2>2, <2>4
    <3> QED BY <3>1, <3>2
  <2>5. CASE ~overflow
    <3>1. e < top
      BY <1>3, <1>5, <2>2, <2>5
    <3>2. quotient' = RoundUp(e) /\ q = e
      BY <2>1, <2>3, <2>5, <3>1
    <3>3. err' = IF asked.op = "MulDivRoundingUpV2" /\ remainder # 0 /\ e = top-1 THEN "ErrInvariant" ELSE "nil"
      BY <2>1, <2>5, <3>2
    <3>4. CASE asked.op = "DivRoundingUp"
      <4>1. rem = f /\ asked.op \notin Products /\ up
        BY <1>1, <3>4 DEF RemainderIsWritten, Divisions, Products
      <4>2. exact = IF f # 0 THEN e + 1 ELSE e
        BY <1>4, <4>1
      <4>3. exact < top
        BY <1>5, <3>1, <4>1, <4>2
      <4>4. RoundUp(e) = IF f # 0 THEN (e + 1) % top ELSE e
        BY <3>4, <4>1 DEF RoundUp, top
      <4>5. f # 0 => (e + 1) % top = e + 1
        <5> DEFINE z == e + 1
        <5> SUFFICES ASSUME f # 0 PROVE z % top = z
          OBVIOUS
        <5>1. z < top /\ z = top * 0 + z /\ z \in Int /\ 0 <= z /\ top \in Nat \ {0}
          BY <1>3, <2>2, <4>2, <4>3
        <5> HIDE DEF z
        <5> QED BY <5>1, DivisionIsUnique
      <4>6. err' = "nil"
        BY <3>3, <3>4
      <4> QED BY <3>2, <4>2, <4>3, <4>4, <4>5, <4>6
    <3>5. CASE asked.op = "MulDivRoundingUpV2"
      <4>1. remainder = f /\ up
        BY <1>1, <3>5 DEF RemainderIsWritten
      <4>2. exact = IF f # 0 THEN e + 1 ELSE e
        BY <1>4, <4>1
      <4>3. RoundUp(e) = IF f # 0 /\ e < top-1 THEN e + 1 ELSE e
        BY <3>5, <4>1 DEF RoundUp, top
      <4>4. err' = IF f # 0 /\ e = top-1 THEN "ErrInvariant" ELSE "nil"
        BY <3>3, <3>5, <4>1
      <4>5. CASE f # 0 /\ e = top-1
        BY <1>3, <2>2, <4>2, <4>4, <4>5
      <4>6. CASE f # 0 /\ e # top-1
        <5>1. e < top-1
          BY <1>3, <2>2, <3>1, <4>6
        <5>2. e + 1 < top
          BY <1>3, <2>2, <5>1
        <5> QED BY <3>2, <4>2, <4>3, <4>4, <4>6, <5>1, <5>2
      <4>7. CASE f = 0
        BY <3>1, <3>2, <4>2, <4>3, <4>4, <4>7
      <4> QED BY <4>5, <4>6, <4>7
    <3>6. CASE asked.op \notin {"DivRoundingUp", "MulDivRoundingUpV2"}
      <4>1. exact = e
        BY <1>4, <3>6
      <4>2. RoundUp(e) = e
        BY <3>6 DEF RoundUp
      <4>3. err' = "nil"
        BY <3>3, <3>6
      <4> QED BY <3>1, <3>2, <4>1, <4>2, <4>3
    <3> QED BY <3>4, <3>5, <3>6
  <2> QED BY <2>4, <2>5
<1>7. asked' = asked /\ Dividend' = a /\ RemainderIsWritten'
  BY <1>1, <1>2 DEF Dividend, RemainderIsWritten
<1>8. DivisionExact'
  BY <1>1, <1>2, <1>6, <1>7 DEF DivisionExact, RemainderIsWritten
<1>9. CacheIsPrepared' /\ DigitsSoFar' /\ DividedExactly'
  BY <1>2 DEF DivisionInvariant, CacheIsPrepared, DigitsSoFar, DividedExactly
<1> QED BY <1>1, <1>7, <1>8, <1>9 DEF DivisionInvariant

(* A call keeps the invariant, however it starts.                            *)
LEMMA CallStarts ==
  ASSUME DivisionInvariant, NEW op, NEW x, NEW y, NEW d,
         [op |-> op, x |-> x, y |-> y, d |-> d] \in DivisionCalls, StartCall(op, x, y, d)
  PROVE  DivisionInvariant'
<1> DEFINE c == [op |-> op, x |-> x, y |-> y, d |-> d]
<1>1. asked' = c /\ (Zero(c) \/ StartByMaxFee(c) \/ Shift96(c) \/ StartDivision(c))
  BY DEF StartCall
<1>2. c \in DivisionCalls
  OBVIOUS
<1> HIDE DEF c
<1> QED BY <1>1, <1>2, ZeroIsExact, ByMaxFeeStarts, ShiftedIsExact, DivisionStarts

(* The numbers that are in every call have less than four words.             *)
LEMMA OperandsFit ==
  /\ 0 \in Operand /\ 1 \in Operand /\ FeeDenominator \in Operand /\ TwoTo96 \in Operand
  /\ Dividends \subseteq Operand /\ Factors \subseteq Operand /\ Divisors \subseteq Operand
<1> DEFINE b == Base  m == Full  s == PowerOf2[S]
<1>1. b \in Nat /\ b >= 2 /\ m \in Nat
  BY BaseFacts, SmallPowers
<1>2. b * b <= m
  <2>1. BaseTo[2] <= BaseTo[4] /\ BaseTo[2] = b * b
    BY BaseGrows, SmallPowers
  <2> QED BY <2>1 DEF Full
<1>3. s \in Nat /\ s < b
  <2>1. S \in 0 .. W-1
    BY WordAssumption
  <2>2. s \in Nat /\ s <= Half
    BY <2>1, ShiftAtMostHalf
  <2> QED BY <2>2, BaseFacts
<1>4. FeeDenominator \in Nat /\ FeeDenominator < b
  BY WordAssumption, BaseFacts
<1> HIDE DEF b, m, s
<1>5. 1 * b <= b * b /\ b * b \in Nat
  BY <1>1, TimesMonotonic
<1>6. b <= m
  BY <1>1, <1>2, <1>5
<1>7. s * b < b * b /\ b * s = s * b /\ s * b \in Nat
  BY <1>1, <1>3, TimesMonotonic
<1>8. b * s < m
  BY <1>1, <1>2, <1>5, <1>7
<1>9. 0 \in 0 .. m-1 /\ 1 \in 0 .. m-1 /\ FeeDenominator \in 0 .. m-1 /\ b * s \in 0 .. m-1
  BY <1>1, <1>4, <1>6, <1>7, <1>8
<1> QED BY <1>9, WordAssumption DEF Operand, TwoTo96, b, m, s

(* The operands of a new call are four words long.                           *)
LEMMA NewCallsAreCalls ==
  ASSUME DivisionInvariant, StartNew
  PROVE  DivisionInvariant'
<1>1. /\ 1 \in Operand /\ FeeDenominator \in Operand /\ TwoTo96 \in Operand
      /\ Dividends \subseteq Operand /\ Factors \subseteq Operand /\ Divisors \subseteq Operand
  BY OperandsFit
<1>2. CASE \E op \in Divisions, x \in Dividends, d \in Divisors \ {0} : StartCall(op, x, 1, d)
  <2>1. PICK op \in Divisions, x \in Dividends, d \in Divisors \ {0} : StartCall(op, x, 1, d)
    BY <1>2
  <2>2. [op |-> op, x |-> x, y |-> 1, d |-> d] \in DivisionCalls
    BY <1>1 DEF DivisionCalls, Divisions, ByMaxFee, ByShift
  <2> QED BY <2>1, <2>2, CallStarts
<1>3. CASE \E op \in Products, x, y \in Factors, d \in Divisors : StartCall(op, x, y, d)
  <2>1. PICK op \in Products, x \in Factors, y \in Factors, d \in Divisors : StartCall(op, x, y, d)
    BY <1>3
  <2>2. [op |-> op, x |-> x, y |-> y, d |-> d] \in DivisionCalls
    BY <1>1 DEF DivisionCalls, Divisions, Products, ByMaxFee, ByShift
  <2> QED BY <2>1, <2>2, CallStarts
<1>4. CASE \E op \in ByMaxFee, x \in Dividends : StartCall(op, x, 1, FeeDenominator)
  <2>1. PICK op \in ByMaxFee, x \in Dividends : StartCall(op, x, 1, FeeDenominator)
    BY <1>4
  <2>2. [op |-> op, x |-> x, y |-> 1, d |-> FeeDenominator] \in DivisionCalls
    BY <1>1 DEF DivisionCalls, Divisions, ByMaxFee, ByShift
  <2> QED BY <2>1, <2>2, CallStarts
<1>5. CASE \E op \in ByShift, x \in Factors, y \in Divisors :
             x < BaseTo[2] /\ y < BaseTo[2] * PowerOf2[S] /\ StartCall(op, x, y, TwoTo96)
  <2>1. PICK op \in ByShift, x \in Factors, y \in Divisors :
               x < BaseTo[2] /\ y < BaseTo[2] * PowerOf2[S] /\ StartCall(op, x, y, TwoTo96)
    BY <1>5
  <2>2. [op |-> op, x |-> x, y |-> y, d |-> TwoTo96] \in DivisionCalls
    BY <1>1, <2>1 DEF DivisionCalls, Divisions, ByMaxFee, ByShift
  <2> QED BY <2>1, <2>2, CallStarts
<1> QED BY <1>2, <1>3, <1>4, <1>5 DEF StartNew

(* Nothing is kept at first.                                                 *)
LEMMA DivisionStartsRight == DivisionInit => DivisionInvariant
<1> SUFFICES ASSUME DivisionInit PROVE DivisionInvariant
  OBVIOUS
<1>1. cache = NoDivisor /\ at = "new" /\ asked = [op |-> "DivInto", x |-> 0, y |-> 1, d |-> 1]
  BY DEF DivisionInit
<1>2. 0 \in Operand /\ 1 \in Operand
  BY OperandsFit
<1>3. asked \in DivisionCalls
  BY <1>1, <1>2 DEF DivisionCalls, Divisions, ByMaxFee, ByShift
<1> QED BY <1>1, <1>3 DEF DivisionInvariant, CacheIsPrepared, DigitsSoFar, DividedExactly, DivisionExact

LEMMA DivisionKeeps == DivisionInvariant /\ [DivisionNext]_divisionVars => DivisionInvariant'
<1> SUFFICES ASSUME DivisionInvariant, [DivisionNext]_divisionVars
             PROVE  DivisionInvariant'
  OBVIOUS
<1>1. CASE StartNew
  BY <1>1, NewCallsAreCalls
<1>2. CASE StartAgain
  <2>1. PICK c \in MoreCalls : StartCall(c.op, c.x, c.y, c.d)
    BY <1>2 DEF StartAgain
  <2>2. c \in DivisionCalls
    BY WordAssumption
  <2>3. c = [op |-> c.op, x |-> c.x, y |-> c.y, d |-> c.d]
    BY <2>2 DEF DivisionCalls
  <2>4. [op |-> c.op, x |-> c.x, y |-> c.y, d |-> c.d] \in DivisionCalls
    BY <2>2, <2>3
  <2> QED BY <2>1, <2>4, CallStarts
<1>3. CASE MakeDigit
  BY <1>3, DigitKeeps
<1>4. CASE Return
  BY <1>4, AnswerIsExact
<1>5. CASE UNCHANGED divisionVars
  BY <1>5 DEF divisionVars, DivisionInvariant, CacheIsPrepared, DigitsSoFar, DividedExactly,
              RemainderIsWritten, DivisionExact, Dividend
<1> QED BY <1>1, <1>2, <1>3, <1>4, <1>5 DEF DivisionNext

THEOREM DivisionInvariantHolds == DivisionSpec => []DivisionInvariant
  BY DivisionStartsRight, DivisionKeeps, PTL DEF DivisionSpec

THEOREM DivisionsAreExact == DivisionSpec => []DivisionExact
<1>1. DivisionInvariant => DivisionExact
  BY DEF DivisionInvariant
<1> QED BY <1>1, DivisionInvariantHolds, PTL

THEOREM CacheBelongsToItsDivisor == DivisionSpec => []CacheOfLastDivisor
<1>1. DivisionInvariant => CacheOfLastDivisor
  BY PreparedReciprocal DEF DivisionInvariant
<1> QED BY <1>1, DivisionInvariantHolds, PTL
=============================================================================

---------------------------- MODULE SearchesProofs ----------------------------
(***************************************************************************)
(* The searches of the code for a tick in a list, as Searches puts them    *)
(* side by side, for every list of any length.  TicksHandler.binarySearch  *)
(* is right on every sorted list: the loop keeps the searched entry        *)
(* bracketed, so what it returns is the last index at or below the tick,   *)
(* which TicksHandler takes for granted as LastAtOrBelow.  And a validated *)
(* tick list answers with the nearest tick, although its search reads an   *)
(* entry past the part it has narrowed to.                                 *)
(***************************************************************************)
EXTENDS Searches, TLAPS
-----------------------------------------------------------------------------

(* The facts about the argument that no step changes. *)
Argument ==
  /\ n \in Nat
  /\ ticks \in SliceOf(TickIndex, n)
  /\ tick \in TickIndex
  /\ Sorted(ticks, n)

LoopInv ==
  /\ Argument
  /\ pos \in Nat /\ step \in Nat
  /\ result \in Int
  /\ Bracket
  /\ FindsLastAtOrBelow

(* Half of a natural number rounded down, as >> 1 computes it. *)
LEMMA HalfFacts ==
  ASSUME NEW k \in Nat, k > 0
  PROVE  /\ k \div 2 \in Nat
         /\ k \div 2 < k
OBVIOUS

(* The loop's invariant holds on entry: everything is in doubt. *)
LEMMA InitLoopInv == Init => LoopInv
BY TickIndexAssumption, MaxTicksAssumption
   DEF Init, LoopInv, Argument, Bracket, FindsLastAtOrBelow, NoResult, SliceOf

(* One iteration discards entries only on the side they belong to. *)
LEMMA IterateKeepsLoopInv == LoopInv /\ Iterate => LoopInv'
<1> SUFFICES ASSUME LoopInv, Iterate PROVE LoopInv'
  OBVIOUS
<1> USE DEF LoopInv
<1>1. /\ Half \in Nat /\ Half < step
      /\ Mid \in Nat /\ Mid < n
  BY HalfFacts DEF Half, Mid, Iterate, Bracket, Argument
<1>2. Argument'
  BY DEF Iterate, Argument
<1>3. result' \in Int /\ FindsLastAtOrBelow'
  BY DEF Iterate, FindsLastAtOrBelow
<1>4. ASSUME NEW i \in 0 .. n-1 PROVE ticks[i] \in Int
  BY TickIndexAssumption DEF Argument, SliceOf
<1>5. tick \in Int
  BY TickIndexAssumption DEF Argument
<1>6. CASE AtOrBelow
  <2>1. pos' = Mid + 1 /\ step' = step - Half - 1
    BY <1>6 DEF Iterate, Rest
  <2>2. ASSUME NEW j \in 0 .. n-1, j < Mid + 1 PROVE ticks[j] <= tick
    <3>1. ticks[Mid] <= tick
      BY <1>6 DEF AtOrBelow
    <3>2. Mid \in 0 .. n-1
      BY <1>1 DEF Argument
    <3>3. j = Mid \/ j < Mid
      BY <1>1, <2>2
    <3>4. ticks[j] <= ticks[Mid]
      BY <3>2, <3>3, <1>4, <2>2 DEF Argument, Sorted
    <3>5. QED
      BY <3>1, <3>2, <3>4, <1>4, <1>5
  <2>3. pos + step = pos' + step'
    BY <2>1, <1>1 DEF Mid, Argument
  <2>4. pos' \in Nat /\ step' \in Nat
    BY <2>1, <1>1
  <2>5. n' = n /\ ticks' = ticks /\ tick' = tick
    BY DEF Iterate
  <2>6. Bracket'
    BY <2>1, <2>2, <2>3, <2>5 DEF Bracket
  <2>7. QED
    BY <1>2, <1>3, <2>4, <2>6
<1>7. CASE ~AtOrBelow
  <2>1. pos' = pos /\ step' = Half
    BY <1>7 DEF Iterate, Rest
  <2>2. ASSUME NEW j \in 0 .. n-1, j >= pos + Half PROVE ticks[j] > tick
    <3>1. Mid \in 0 .. n-1
      BY <1>1 DEF Argument
    <3>2. ticks[Mid] > tick
      BY <1>7, <1>1, <1>4, <1>5, <3>1 DEF AtOrBelow
    <3>3. j = Mid \/ Mid < j
      BY <2>2, <1>1 DEF Mid
    <3>4. ticks[Mid] <= ticks[j]
      BY <3>1, <3>3, <1>4, <2>2 DEF Argument, Sorted
    <3>5. QED
      BY <3>1, <3>2, <3>4, <1>4, <1>5
  <2>3. n' = n /\ ticks' = ticks /\ tick' = tick
    BY DEF Iterate
  <2>4. Bracket'
    BY <2>1, <2>2, <2>3, <1>1 DEF Bracket, Argument
  <2>5. QED
    BY <1>1, <1>2, <1>3, <2>1, <2>4
<1>8. QED
  BY <1>6, <1>7

(* When nothing is left in doubt, the entry before pos is the answer. *)
LEMMA ReturnKeepsLoopInv == LoopInv /\ Return => LoopInv'
<1> SUFFICES ASSUME LoopInv, Return PROVE LoopInv'
  OBVIOUS
<1> USE DEF LoopInv
<1>1. /\ n' = n /\ ticks' = ticks /\ tick' = tick /\ pos' = pos /\ step' = step
      /\ step = 0 /\ result' = Found
  BY DEF Return
<1>2. Argument' /\ Bracket'
  BY <1>1 DEF Argument, Bracket
<1>3. Found \in Int
  BY DEF Found
<1>4. ASSUME NEW i \in 0 .. n-1 PROVE ticks[i] \in Int
  BY TickIndexAssumption DEF Argument, SliceOf
<1>5. tick \in Int
  BY TickIndexAssumption DEF Argument
<1>6. CASE pos = 0
  <2>1. \A j \in 0 .. n-1 : ticks[j] > tick
    BY <1>6, <1>1 DEF Bracket
  <2>2. IsLastAtOrBelow(ticks, n, tick, Found)
    BY <1>6, <2>1 DEF Found, IsLastAtOrBelow
  <2>3. QED
    BY <1>1, <1>2, <1>3, <2>2 DEF FindsLastAtOrBelow
<1>7. CASE pos # 0
  <2>1. Found \in 0 .. n-1 /\ Found = pos - 1
    BY <1>7, <1>1 DEF Found, Bracket, Argument
  <2>2. ticks[Found] <= tick
    BY <2>1, <1>7 DEF Bracket
  <2>3. ASSUME NEW j \in 0 .. n-1, ticks[j] <= tick PROVE j <= Found
    BY <2>1, <2>3, <1>1, <1>4, <1>5 DEF Bracket, Argument
  <2>4. IsLastAtOrBelow(ticks, n, tick, Found)
    BY <2>1, <2>2, <2>3 DEF IsLastAtOrBelow
  <2>5. QED
    BY <1>1, <1>2, <1>3, <2>4 DEF FindsLastAtOrBelow
<1>8. QED
  BY <1>6, <1>7

(* A list of at most one tick is answered with 0, right in either case. *)
LEMMA ReturnShortKeepsLoopInv == LoopInv /\ ReturnShort => LoopInv'
<1> SUFFICES ASSUME LoopInv, ReturnShort PROVE LoopInv'
  OBVIOUS
<1> USE DEF LoopInv
<1>1. /\ n' = n /\ ticks' = ticks /\ tick' = tick /\ pos' = pos /\ step' = step
      /\ n <= 1 /\ result' = 0
  BY DEF ReturnShort
<1>2. Argument' /\ Bracket'
  BY <1>1 DEF Argument, Bracket
<1>3. ASSUME NEW i \in 0 .. n-1 PROVE ticks[i] \in Int /\ i = 0
  <2>1. ticks[i] \in Int
    BY TickIndexAssumption DEF Argument, SliceOf
  <2>2. i = 0
    BY <1>1 DEF Argument
  <2>3. QED
    BY <2>1, <2>2
<1>4. tick \in Int
  BY TickIndexAssumption DEF Argument
<1>5. IsLastAtOrBelow(ticks, n, tick, 0)
  BY <1>3, <1>4 DEF IsLastAtOrBelow
<1>6. QED
  BY <1>1, <1>2, <1>5 DEF FindsLastAtOrBelow

(* A round of the search and its return keep the invariant of the loop. *)
LEMMA NextKeepsLoopInv == LoopInv /\ [Next]_vars => LoopInv'
<1> SUFFICES ASSUME LoopInv, [Next]_vars PROVE LoopInv'
  OBVIOUS
<1>1. CASE ReturnShort
  BY <1>1, ReturnShortKeepsLoopInv
<1>2. CASE Iterate
  BY <1>2, IterateKeepsLoopInv
<1>3. CASE Return
  BY <1>3, ReturnKeepsLoopInv
<1>4. CASE UNCHANGED vars
  BY <1>4 DEF vars, LoopInv, Argument, Bracket, FindsLastAtOrBelow
<1>5. QED
  BY <1>1, <1>2, <1>3, <1>4 DEF Next

(* The search of TicksHandler answers the index its comment promises, for    *)
(* every sorted list and every tick.                                         *)
THEOREM SearchIsRight == Spec => []FindsLastAtOrBelow
<1>1. LoopInv => FindsLastAtOrBelow
  BY DEF LoopInv
<1>2. QED
  BY <1>1, InitLoopInv, NextKeepsLoopInv, PTL DEF Spec

(* The bracket around the searched entry never leaves the list. *)
THEOREM SearchStaysBracketed == Spec => []Bracket
<1>1. LoopInv => Bracket
  BY DEF LoopInv
<1>2. QED
  BY <1>1, InitLoopInv, NextKeepsLoopInv, PTL DEF Spec

(* Every iteration of the loop leaves at most half of the entries in doubt,  *)
(* so a list of n ticks takes no more than about log2(n) iterations.         *)
THEOREM SearchHalves == Spec => HalvesEveryRound
<1>1. ASSUME LoopInv, [Next]_vars PROVE [Iterate => 2 * step' <= step]_vars
  <2> SUFFICES ASSUME Iterate PROVE 2 * step' <= step
    OBVIOUS
  <2>1. step \in Nat /\ step > 0
    BY <1>1 DEF LoopInv, Iterate
  <2>2. 2 * (step - step \div 2 - 1) <= step /\ 2 * (step \div 2) <= step
    BY <2>1
  <2>3. QED
    BY <2>2 DEF Iterate, Rest, Half
<1>2. QED
  BY <1>1, InitLoopInv, NextKeepsLoopInv, PTL DEF Spec, HalvesEveryRound
-----------------------------------------------------------------------------
(* What the calls on a list work with, and that no step changes.             *)
ListArgument ==
  /\ n \in Nat /\ ticks \in SliceOf(Int, n) /\ tick \in Int
  /\ call \in List!Calls /\ spacing \in Int

(* A search is on a list in order, past the early returns.  What is before   *)
(* start is below the tick, what is after end above it.                      *)
Narrowed ==
  /\ n > 0
  /\ call \in {"GetTick", "NextLte"} => ticks[0] <= tick
  /\ call = "NextLte" => tick < ticks[n-1]
  /\ call = "NextGt" => ticks[0] <= tick /\ tick < ticks[n-1]
  /\ start \in Nat /\ end \in Int /\ start <= end + 1 /\ end < n
  /\ \A i \in 0 .. n-1 : (i < start => ticks[i] < tick) /\ (i > end => tick < ticks[i])

ListInv ==
  /\ ListArgument
  /\ pc \in {"enter", "search"} => Sorted(ticks, n)
  /\ pc \in {"new", "enter"} => start = 0 /\ end = n-1
  /\ pc = "search" => Narrowed
  /\ List!ListAnswersRight

(* A set of numbers has one greatest and one least element. *)
LEMMA GreatestAndLeast ==
  ASSUME NEW S \in SUBSET Int, NEW m \in S
  PROVE  /\ (\A s \in S : s <= m) => List!Max(S) = m
         /\ (\A s \in S : m <= s) => List!Min(S) = m
<1>1. ASSUME \A s \in S : s <= m PROVE List!Max(S) = m
  <2>1. List!Max(S) \in S /\ \A s \in S : List!Max(S) >= s
    BY <1>1 DEF List!Max
  <2>2. List!Max(S) >= m /\ List!Max(S) <= m /\ List!Max(S) \in Int
    BY <1>1, <2>1
  <2> QED BY <2>2
<1>2. ASSUME \A s \in S : m <= s PROVE List!Min(S) = m
  <2>1. List!Min(S) \in S /\ \A s \in S : List!Min(S) <= s
    BY <1>2 DEF List!Min
  <2>2. List!Min(S) <= m /\ List!Min(S) >= m /\ List!Min(S) \in Int
    BY <1>2, <2>1
  <2> QED BY <2>2
<1> QED BY <1>1, <1>2

(* The greatest listed tick at or below the one asked for is the answer.     *)
LEMMA LastIsTheAnswer ==
  ASSUME ListArgument, NEW i \in 0 .. n-1, ticks[i] <= tick,
         \A k \in 0 .. n-1 : ticks[k] <= tick => ticks[k] <= ticks[i]
  PROVE  List!AtOrBelow # {} /\ List!Answer(i) = [kind |-> "tick", index |-> List!Max(List!AtOrBelow)]
<1>1. \A k \in 0 .. n-1 : ticks[k] \in Int
  BY DEF ListArgument, SliceOf
<1>2. List!AtOrBelow \in SUBSET Int /\ ticks[i] \in List!AtOrBelow
  BY <1>1 DEF List!AtOrBelow
<1>3. \A s \in List!AtOrBelow : s <= ticks[i]
  BY DEF List!AtOrBelow
<1>4. List!Max(List!AtOrBelow) = ticks[i]
  BY <1>2, <1>3, GreatestAndLeast
<1> QED BY <1>2, <1>4 DEF List!Answer

(* And the least listed tick above it. *)
LEMMA FirstIsTheAnswer ==
  ASSUME ListArgument, NEW i \in 0 .. n-1, tick < ticks[i],
         \A k \in 0 .. n-1 : tick < ticks[k] => ticks[i] <= ticks[k]
  PROVE  List!Above # {} /\ List!Answer(i) = [kind |-> "tick", index |-> List!Min(List!Above)]
<1>1. (\A k \in 0 .. n-1 : ticks[k] \in Int) /\ tick \in Int
  BY DEF ListArgument, SliceOf
<1>2. List!Above \in SUBSET Int /\ ticks[i] \in List!Above
  BY <1>1 DEF List!Above
<1>3. \A s \in List!Above : ticks[i] <= s
  BY <1>1 DEF List!Above
<1>4. List!Min(List!Above) = ticks[i]
  BY <1>2, <1>3, GreatestAndLeast
<1> QED BY <1>2, <1>4 DEF List!Answer

(* What a reply must be, of a list that is valid and not empty.              *)
Right(r) ==
  /\ call = "NextLte" =>
       r = IF List!AtOrBelow = {} THEN List!Error("ErrBelowSmallest")
           ELSE [kind |-> "tick", index |-> List!Max(List!AtOrBelow)]
  /\ call = "NextGt" =>
       \/ r = IF List!Above = {} THEN List!Error("ErrAtOrAboveLargest")
              ELSE [kind |-> "tick", index |-> List!Min(List!Above)]
       \/ List!ListedTwice /\ List!Above # {} /\ r = [kind |-> "tick", index |-> tick]
  /\ call = "GetTick" /\ tick \in List!Listed => r = [kind |-> "tick", index |-> tick]

(* The early returns answer right. *)
LEMMA EnterIsRight ==
  ASSUME ListArgument, Sorted(ticks, n), n > 0, NEW r \in List!EarlyReturn
  PROVE  Right(r)
<1>1. /\ \A k \in 0 .. n-1 : ticks[k] \in Int
      /\ tick \in Int /\ n \in Nat /\ call \in {"GetTick", "NextLte", "NextGt"}
      /\ 0 \in 0 .. n-1 /\ n-1 \in 0 .. n-1
  BY DEF ListArgument, SliceOf, List!Calls
<1>2. \A k \in 0 .. n-1 : ticks[0] <= ticks[k] /\ ticks[k] <= ticks[n-1]
  <2> TAKE k \in 0 .. n-1
  <2>1. k = 0 \/ 0 < k
    OBVIOUS
  <2>2. k = n-1 \/ k < n-1
    BY <1>1
  <2> QED BY <1>1, <2>1, <2>2 DEF Sorted
<1>3. CASE call = "GetTick"
  <2>1. tick < ticks[0]
    BY <1>1, <1>3 DEF List!EarlyReturn, List!IsBelowSmallest
  <2>2. \A k \in 0 .. n-1 : ticks[k] # tick
    BY <1>1, <1>2, <2>1
  <2> QED BY <1>3, <2>2 DEF Right, List!Listed
<1>4. CASE call = "NextLte"
  <2>1. CASE tick < ticks[0]
    <3>1. r = List!Error("ErrBelowSmallest")
      BY <1>1, <1>4, <2>1 DEF List!EarlyReturn, List!IsBelowSmallest
    <3>2. \A k \in 0 .. n-1 : ~(ticks[k] <= tick)
      BY <1>1, <1>2, <2>1
    <3>3. List!AtOrBelow = {}
      BY <3>2 DEF List!AtOrBelow
    <3> QED BY <1>4, <3>1, <3>3 DEF Right
  <2>2. CASE ~(tick < ticks[0])
    <3>1. tick >= ticks[n-1] /\ r = List!Answer(n-1)
      BY <1>1, <1>4, <2>2 DEF List!EarlyReturn, List!IsBelowSmallest, List!IsAtOrAboveLargest
    <3>2. ticks[n-1] <= tick
      BY <1>1, <3>1
    <3>3. List!AtOrBelow # {} /\ r = [kind |-> "tick", index |-> List!Max(List!AtOrBelow)]
      BY <1>1, <1>2, <3>1, <3>2, LastIsTheAnswer
    <3> QED BY <1>4, <3>3 DEF Right
  <2> QED BY <2>1, <2>2
<1>5. CASE call = "NextGt"
  <2>1. CASE tick >= ticks[n-1]
    <3>1. r = List!Error("ErrAtOrAboveLargest")
      BY <1>1, <1>5, <2>1 DEF List!EarlyReturn, List!IsAtOrAboveLargest
    <3>2. \A k \in 0 .. n-1 : ~(ticks[k] > tick)
      BY <1>1, <1>2, <2>1
    <3>3. List!Above = {}
      BY <3>2 DEF List!Above
    <3> QED BY <1>5, <3>1, <3>3 DEF Right
  <2>2. CASE ~(tick >= ticks[n-1])
    <3>1. tick < ticks[0] /\ r = List!Answer(0)
      BY <1>1, <1>5, <2>2 DEF List!EarlyReturn, List!IsBelowSmallest, List!IsAtOrAboveLargest
    <3>2. List!Above # {} /\ r = [kind |-> "tick", index |-> List!Min(List!Above)]
      BY <1>1, <1>2, <3>1, FirstIsTheAnswer
    <3> QED BY <1>5, <3>2 DEF Right
  <2> QED BY <2>1, <2>2
<1> QED BY <1>1, <1>3, <1>4, <1>5

(* A search that has found its tick answers right. *)
LEMMA EqualIsRight ==
  ASSUME ListArgument, Sorted(ticks, n), Narrowed, NEW i \in 0 .. n-1, ticks[i] = tick
  PROVE  Right(List!Use(i))
<1>1. /\ \A k \in 0 .. n-1 : ticks[k] \in Int
      /\ tick \in Int /\ n \in Nat /\ n > 0 /\ call \in {"GetTick", "NextLte", "NextGt"}
  BY DEF ListArgument, SliceOf, List!Calls, Narrowed
<1>2. List!Read(i) = List!Answer(i) /\ ~(i < 0)
  BY DEF List!Read
<1>3. CASE call = "GetTick"
  <2>1. List!Use(i) = [kind |-> "tick", index |-> tick]
    BY <1>2, <1>3 DEF List!Use, List!Answer
  <2> QED BY <1>3, <2>1 DEF Right
<1>4. CASE call = "NextLte"
  <2>1. List!Use(i) = List!Answer(i)
    BY <1>2, <1>4 DEF List!Use
  <2>2. List!AtOrBelow # {} /\ List!Answer(i) = [kind |-> "tick", index |-> List!Max(List!AtOrBelow)]
    BY <1>1, LastIsTheAnswer
  <2> QED BY <1>4, <2>1, <2>2 DEF Right
<1>5. CASE call = "NextGt" /\ ticks[i+1] # tick
  <2>1. i # n-1 /\ i+1 \in 0 .. n-1
    BY <1>1, <1>5 DEF Narrowed
  <2>2. ticks[i] <= ticks[i+1]
    BY <2>1 DEF Sorted
  <2>3. tick < ticks[i+1]
    BY <1>1, <1>5, <2>1, <2>2
  <2>4. \A k \in 0 .. n-1 : tick < ticks[k] => ticks[i+1] <= ticks[k]
    <3> SUFFICES ASSUME NEW k \in 0 .. n-1, tick < ticks[k] PROVE ticks[i+1] <= ticks[k]
      OBVIOUS
    <3>1. ~(k <= i)
      <4> SUFFICES ASSUME k <= i PROVE FALSE
        OBVIOUS
      <4>1. k = i \/ k < i
        OBVIOUS
      <4> QED BY <1>1, <4>1 DEF Sorted
    <3>2. k = i+1 \/ i+1 < k
      BY <3>1
    <3> QED BY <1>1, <2>1, <3>2 DEF Sorted
  <2>5. List!Use(i) = List!Answer(i+1)
    BY <1>5, <2>1 DEF List!Use, List!Read
  <2>6. List!Above # {} /\ List!Answer(i+1) = [kind |-> "tick", index |-> List!Min(List!Above)]
    BY <2>1, <2>3, <2>4, FirstIsTheAnswer
  <2> QED BY <1>5, <2>5, <2>6 DEF Right
<1>6. CASE call = "NextGt" /\ ticks[i+1] = tick
  <2>1. i # n-1 /\ i+1 \in 0 .. n-1 /\ tick < ticks[n-1] /\ n-1 \in 0 .. n-1
    BY <1>1, <1>6 DEF Narrowed
  <2>2. List!Use(i) = [kind |-> "tick", index |-> tick]
    BY <1>6, <2>1 DEF List!Use, List!Read, List!Answer
  <2>3. List!ListedTwice
    BY <1>1, <1>6, <2>1 DEF List!ListedTwice
  <2>4. List!Above # {}
    BY <1>1, <2>1 DEF List!Above
  <2> QED BY <1>6, <2>2, <2>3, <2>4 DEF Right
<1> QED BY <1>1, <1>3, <1>4, <1>5, <1>6

(* A search that has narrowed to nothing answers right, from the entry that  *)
(* its last read compares.                                                   *)
LEMMA ClosestIsRight ==
  ASSUME ListArgument, Sorted(ticks, n), Narrowed, start > end
  PROVE  Right(IF start \in 0 .. n-1 THEN List!Use(List!Closest) ELSE List!Panic)
<1> DEFINE r == IF start \in 0 .. n-1 THEN List!Use(List!Closest) ELSE List!Panic
<1>1. /\ \A k \in 0 .. n-1 : ticks[k] \in Int
      /\ tick \in Int /\ n \in Nat /\ n > 0 /\ call \in {"GetTick", "NextLte", "NextGt"}
      /\ start \in Nat /\ end = start - 1 /\ start <= n
      /\ 0 \in 0 .. n-1 /\ n-1 \in 0 .. n-1
  BY DEF ListArgument, SliceOf, List!Calls, Narrowed
<1>2. \A k \in 0 .. n-1 : (k < start => ticks[k] < tick) /\ (k >= start => tick < ticks[k])
  BY <1>1 DEF Narrowed
<1>3. CASE call = "GetTick"
  <2>1. \A k \in 0 .. n-1 : ticks[k] # tick
    BY <1>1, <1>2
  <2> QED BY <1>3, <2>1 DEF Right, List!Listed
<1>4. CASE call \in {"NextLte", "NextGt"}
  <2>1. ticks[0] <= tick /\ tick < ticks[n-1]
    BY <1>4 DEF Narrowed
  <2>2. start \in 1 .. n-1
    <3>1. start # 0
      BY <1>1, <1>2, <2>1
    <3>2. start # n
      BY <1>1, <1>2, <2>1
    <3> QED BY <1>1, <3>1, <3>2
  <2>3. start \in 0 .. n-1 /\ start - 1 \in 0 .. n-1
    BY <1>1, <2>2
  <2>4. tick < ticks[start] /\ ticks[start-1] < tick
    BY <1>2, <2>2, <2>3
  <2>5. List!Closest = start - 1
    BY <1>1, <2>3, <2>4 DEF List!Closest
  <2>6. CASE call = "NextLte"
    <3>1. r = List!Answer(start-1)
      BY <2>3, <2>5, <2>6 DEF List!Use, List!Read
    <3>2. ticks[start-1] <= tick
      BY <1>1, <2>3, <2>4
    <3>3. \A k \in 0 .. n-1 : ticks[k] <= tick => ticks[k] <= ticks[start-1]
      <4> SUFFICES ASSUME NEW k \in 0 .. n-1, ticks[k] <= tick PROVE ticks[k] <= ticks[start-1]
        OBVIOUS
      <4>1. k = start-1 \/ k < start-1
        BY <1>1, <1>2, <2>2
      <4> QED BY <1>1, <2>3, <4>1 DEF Sorted
    <3>4. List!AtOrBelow # {} /\ r = [kind |-> "tick", index |-> List!Max(List!AtOrBelow)]
      BY <2>3, <3>1, <3>2, <3>3, LastIsTheAnswer
    <3> QED BY <2>6, <3>4 DEF Right
  <2>7. CASE call = "NextGt"
    <3>1. r = List!Answer(start)
      BY <2>2, <2>3, <2>5, <2>7 DEF List!Use, List!Read
    <3>2. \A k \in 0 .. n-1 : tick < ticks[k] => ticks[start] <= ticks[k]
      <4> SUFFICES ASSUME NEW k \in 0 .. n-1, tick < ticks[k] PROVE ticks[start] <= ticks[k]
        OBVIOUS
      <4>1. k = start \/ start < k
        BY <1>1, <1>2, <2>2
      <4> QED BY <1>1, <2>3, <4>1 DEF Sorted
    <3>3. List!Above # {} /\ r = [kind |-> "tick", index |-> List!Min(List!Above)]
      BY <2>3, <2>4, <3>1, <3>2, FirstIsTheAnswer
    <3> QED BY <2>7, <3>3 DEF Right
  <2> QED BY <1>4, <2>6, <2>7
<1> QED BY <1>1, <1>3, <1>4

(* What is right does not depend on where the search stands. *)
LEMMA StaysRight ==
  ASSUME UNCHANGED <<ticks, nets, n, spacing, call, tick>>,
         List!ListError = "nil" /\ n > 0 => Right(reply')
  PROVE  List!ListAnswersRight'
<1>1. List!ListError' = List!ListError
  BY DEF List!ListError, List!Misplaced, List!NetSum, Sorted
<1>2. List!IsValid' = List!IsValid
  BY <1>1 DEF List!IsValid
<1>3. List!IsValid => Right(reply')
  BY DEF List!IsValid
<1>4. /\ List!AtOrBelow' = List!AtOrBelow /\ List!Above' = List!Above
      /\ List!Listed' = List!Listed
      /\ List!ListedTwice' = List!ListedTwice
  BY DEF List!AtOrBelow, List!Above, List!Listed, List!ListedTwice
<1> QED
  BY <1>2, <1>3, <1>4 DEF List!ListAnswersRight, Right

(* A list that validates is in order: the only check the searches rest on. *)
LEMMA ValidIsSorted ==
  ASSUME ListArgument, List!ListError = "nil"
  PROVE  Sorted(ticks, n)
BY DEF List!ListError, ListArgument, List!Sorted, Sorted

(* The constructor hands on only lists in order. *)
LEMMA ListStartsRight == List!Init => ListInv
<1> SUFFICES ASSUME List!Init PROVE ListInv
  OBVIOUS
<1>1. n \in Nat
  BY ListAssumption DEF List!TickListAssumption, List!Init
<1>2. ticks \in SliceOf(Int, n) /\ tick \in Int /\ call \in List!Calls /\ spacing \in Int
  BY ListAssumption DEF List!TickListAssumption, List!Init, SliceOf, List!SliceOf
<1>3. pc = "new" /\ start = 0 /\ end = n-1
  BY DEF List!Init
<1> QED
  BY <1>1, <1>2, <1>3 DEF ListInv, ListArgument, List!ListAnswersRight

LEMMA NewKeepsListInv ==
  ASSUME ListInv, List!NewTickListDataProvider
  PROVE  ListInv'
<1> USE DEF ListInv, List!NewTickListDataProvider
<1>1. ListArgument'
  BY DEF ListArgument
<1>2. CASE List!ListError = "nil"
  <2>1. Sorted(ticks, n)'
    BY <1>2, ValidIsSorted DEF Sorted
  <2>2. pc' = "enter"
    BY <1>2
  <2>3. List!ListAnswersRight'
    BY <2>2 DEF List!ListAnswersRight
  <2> QED BY <1>1, <2>1, <2>2, <2>3
<1>3. CASE List!ListError # "nil"
  <2>1. pc' = "done"
    BY <1>3
  <2>2. List!ListAnswersRight'
    BY <1>3, StaysRight
  <2> QED BY <1>1, <2>1, <2>2
<1> QED BY <1>2, <1>3

(* An early return answers right; a search begins with all in doubt. *)
LEMMA EnterKeepsListInv ==
  ASSUME ListInv, List!Enter
  PROVE  ListInv'
<1> USE DEF ListInv, List!Enter
<1>1. ListArgument'
  BY DEF ListArgument
<1>2. CASE List!EarlyReturn = {} /\ pc' = "search"
  <2>1. n > 0 /\ n \in Nat /\ tick \in Int /\ ticks[0] \in Int /\ ticks[n-1] \in Int
        /\ call \in {"GetTick", "NextLte", "NextGt"}
    <3>1. n # 0
      BY <1>2 DEF List!EarlyReturn
    <3> QED BY <3>1 DEF ListArgument, SliceOf, List!Calls
  <2>2. call \in {"GetTick", "NextLte"} => ~(tick < ticks[0])
    BY <1>2, <2>1 DEF List!EarlyReturn, List!IsBelowSmallest
  <2>3. call = "NextLte" => ~(tick >= ticks[n-1])
    BY <1>2, <2>1, <2>2 DEF List!EarlyReturn, List!IsBelowSmallest, List!IsAtOrAboveLargest
  <2>4. call = "NextGt" => ~(tick >= ticks[n-1]) /\ ~(tick < ticks[0])
    BY <1>2, <2>1 DEF List!EarlyReturn, List!IsBelowSmallest, List!IsAtOrAboveLargest
  <2>5. start = 0 /\ end = n-1
    OBVIOUS
  <2>6. Narrowed
    BY <2>1, <2>2, <2>3, <2>4, <2>5 DEF Narrowed
  <2>7. Narrowed'
    BY <2>6 DEF Narrowed
  <2>8. List!ListAnswersRight'
    BY <1>2 DEF List!ListAnswersRight
  <2> QED BY <1>1, <1>2, <2>7, <2>8
<1>3. CASE reply' \in List!EarlyReturn /\ pc' = "done"
  <2>1. Sorted(ticks, n)
    OBVIOUS
  <2>2. n > 0 => Right(reply')
    BY <1>3, <2>1, EnterIsRight
  <2>3. List!ListAnswersRight'
    BY <2>2, StaysRight
  <2> QED BY <1>1, <1>3, <2>3
<1> QED BY <1>2, <1>3

(* An iteration discards only entries on the wrong side of the tick. *)
LEMMA SearchKeepsListInv ==
  ASSUME ListInv, List!Search
  PROVE  ListInv'
<1> USE DEF ListInv, List!Search
<1> DEFINE m == List!Mid
<1>1. ListArgument'
  BY DEF ListArgument
<1>2. /\ \A k \in 0 .. n-1 : ticks[k] \in Int
      /\ tick \in Int /\ n \in Nat
      /\ start \in Nat /\ end \in Int /\ start <= end /\ end < n
      /\ Narrowed /\ Sorted(ticks, n)
  BY DEF ListArgument, SliceOf, Narrowed
<1>3. m \in 0 .. n-1 /\ start <= m /\ m <= end
  BY <1>2 DEF List!Mid
<1>4. CASE ticks[m] = tick /\ reply' = List!Use(m) /\ pc' = "done"
  <2>1. Right(reply')
    BY <1>2, <1>3, <1>4, EqualIsRight
  <2>2. List!ListAnswersRight'
    BY <1>4, <2>1, StaysRight
  <2> QED BY <1>1, <1>4, <2>2
<1>5. CASE ticks[m] < tick /\ start' = m + 1 /\ UNCHANGED <<end, pc, reply>>
  <2>1. \A i \in 0 .. n-1 : i < m+1 => ticks[i] < tick
    <3> SUFFICES ASSUME NEW i \in 0 .. n-1, i < m+1 PROVE ticks[i] < tick
      OBVIOUS
    <3>1. i = m \/ i < m
      BY <1>3
    <3>2. ticks[i] <= ticks[m]
      BY <1>2, <1>3, <3>1 DEF Sorted
    <3> QED BY <1>2, <1>3, <1>5, <3>2
  <2>2. Narrowed'
    <3> HIDE DEF m
    <3> QED BY <1>2, <1>3, <1>5, <2>1 DEF Narrowed
  <2>3. List!ListAnswersRight'
    BY <1>5 DEF List!ListAnswersRight
  <2>4. Sorted(ticks, n)'
    BY <1>2 DEF Sorted
  <2> QED BY <1>1, <1>5, <2>2, <2>3, <2>4
<1>6. CASE ticks[m] > tick /\ end' = m - 1 /\ UNCHANGED <<start, pc, reply>>
  <2>1. \A i \in 0 .. n-1 : i > m-1 => tick < ticks[i]
    <3> SUFFICES ASSUME NEW i \in 0 .. n-1, i > m-1 PROVE tick < ticks[i]
      OBVIOUS
    <3>1. i = m \/ m < i
      BY <1>3
    <3>2. ticks[m] <= ticks[i]
      BY <1>2, <1>3, <3>1 DEF Sorted
    <3> QED BY <1>2, <1>3, <1>6, <3>2
  <2>2. Narrowed'
    <3> HIDE DEF m
    <3> QED BY <1>2, <1>3, <1>6, <2>1 DEF Narrowed
  <2>3. List!ListAnswersRight'
    BY <1>6 DEF List!ListAnswersRight
  <2>4. Sorted(ticks, n)'
    BY <1>2 DEF Sorted
  <2> QED BY <1>1, <1>6, <2>2, <2>3, <2>4
<1> QED BY <1>4, <1>5, <1>6

(* The read past the narrowed part lands on the first entry above the tick. *)
LEMMA NotListedKeepsListInv ==
  ASSUME ListInv, List!NotListed
  PROVE  ListInv'
<1> USE DEF ListInv, List!NotListed
<1>1. ListArgument'
  BY DEF ListArgument
<1>2. Right(reply')
  BY ClosestIsRight
<1>3. List!ListAnswersRight'
  BY <1>2, StaysRight
<1> QED BY <1>1, <1>3

(* A provider over a validated list answers NextInitializedTickIndex with    *)
(* the nearest tick on the asked side, or the error that there is none, and  *)
(* GetTick with a listed tick, for lists of any length; its unchecked reads  *)
(* of ticks[start] and ticks[index+1] stay inside the slice.                 *)
THEOREM ListAnswersAreRight == SearchesSpec => []ListAnswersRight
<1> DEFINE Inv == search = "list" => ListInv
<1>1. SearchesInit => Inv
  BY ListStartsRight DEF SearchesInit, UpperInit, ListInit
<1>2. Inv /\ [SearchesNext]_<<vars, search, listVars>> => Inv'
  <2> SUFFICES ASSUME Inv, [SearchesNext]_<<vars, search, listVars>>, search' = "list" PROVE ListInv'
    OBVIOUS
  <2>1. search = "list" /\ ListInv
    BY DEF SearchesNext
  <2>2. CASE List!Next
    BY <2>1, <2>2, NewKeepsListInv, EnterKeepsListInv, SearchKeepsListInv, NotListedKeepsListInv
       DEF List!Next
  <2>3. CASE UNCHANGED <<ticks, n, tick, listVars>>
    <3>1. ListArgument' /\ (pc \in {"enter", "search"} => Sorted(ticks, n))'
          /\ (pc \in {"new", "enter"} => start = 0 /\ end = n-1)'
      BY <2>1, <2>3 DEF listVars, ListInv, ListArgument, Sorted
    <3>2. (pc = "search" => Narrowed)'
      BY <2>1, <2>3 DEF listVars, ListInv, Narrowed
    <3>3. CASE pc = "done"
      <4>1. List!ListError' = List!ListError
        BY <2>3 DEF listVars, List!ListError, List!Misplaced, List!NetSum, Sorted
      <4>2. List!ListAnswersRight'
        BY <2>1, <2>3, <4>1 DEF listVars, ListInv, List!ListAnswersRight, List!IsValid,
           List!AtOrBelow, List!Above, List!Listed, List!ListedTwice
      <4> QED BY <3>1, <3>2, <4>2 DEF ListInv
    <3>4. CASE pc # "done"
      <4>1. List!ListAnswersRight'
        BY <2>3, <3>4 DEF listVars, List!ListAnswersRight
      <4> QED BY <3>1, <3>2, <4>1 DEF ListInv
    <3> QED BY <3>3, <3>4
  <2> QED BY <2>1, <2>2, <2>3 DEF SearchesNext, vars
<1>3. Inv => ListAnswersRight
  BY DEF ListInv, ListAnswersRight
<1> QED
  <2> HIDE DEF Inv
  <2> QED BY <1>1, <1>2, <1>3, PTL DEF SearchesSpec
=============================================================================

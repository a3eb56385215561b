-------------------------- MODULE UpperBoundSearch --------------------------
(***************************************************************************)
(* TicksHandler.binarySearch (entities/tickdataprovider.go), iteration by  *)
(* iteration.  It is written as a branchless upper_bound: pos moves to the *)
(* first entry above the searched tick while step, the length of the part  *)
(* still in doubt, at least halves.  The lists range over everything that  *)
(* ValidateList lets through, so equal neighbours are allowed.             *)
(***************************************************************************)
EXTENDS GoSlices

CONSTANTS TickIndex,     \* the tick indices that occur in a list or a query
          MaxTicks       \* bound on the length of a list

ASSUME TickIndexAssumption == TickIndex \subseteq Int
ASSUME MaxTicksAssumption == MaxTicks \in Nat

VARIABLES ticks,   \* the Index fields of h.Ticks
          n,       \* h.TicksLen
          tick,    \* the argument
          pos, step,
          result   \* the value returned, NoResult while the loop runs

vars == <<ticks, n, tick, pos, step, result>>

NoResult == -2

Init ==
  /\ n \in 0 .. MaxTicks
  /\ ticks \in SliceOf(TickIndex, n)
  /\ Sorted(ticks, n)
  /\ tick \in TickIndex
  /\ pos = 0
  /\ step = n
  /\ result = NoResult

(* Lists of at most one tick are answered before the loop. *)
ReturnShort ==
  /\ result = NoResult
  /\ n <= 1
  /\ result' = 0
  /\ UNCHANGED <<ticks, n, tick, pos, step>>

Half == step \div 2
Mid == pos + Half

(* The test of the loop body; Go evaluates ticks[mid] only when mid < n. *)
AtOrBelowStrict == Mid < n /\ ticks[Mid] < tick                    \* mutant
AtOrBelow == Mid < n /\ ticks[Mid] <= tick

(* The part still in doubt after the iteration, right or left of mid. *)
RestKeepingMid(right) == IF right THEN step - Half ELSE Half        \* mutant
Rest(right) == IF right THEN step - Half - 1 ELSE Half

Iterate ==
  /\ result = NoResult
  /\ n > 1
  /\ step > 0
  /\ pos' = IF AtOrBelow THEN Mid + 1 ELSE pos
  /\ step' = Rest(AtOrBelow)
  /\ UNCHANGED <<ticks, n, tick, result>>

(* pos is the first entry above the tick: answer the one before it. *)
Found == IF pos = 0 THEN 0 ELSE pos - 1

Return ==
  /\ result = NoResult
  /\ n > 1
  /\ step = 0
  /\ result' = Found
  /\ UNCHANGED <<ticks, n, tick, pos, step>>

Next == ReturnShort \/ Iterate \/ Return

Spec == Init /\ [][Next]_vars
-----------------------------------------------------------------------------
TypeOK ==
  /\ n \in 0 .. MaxTicks
  /\ ticks \in SliceOf(TickIndex, n)
  /\ tick \in TickIndex
  /\ pos \in 0 .. n
  /\ step \in 0 .. n
  /\ result \in {NoResult} \cup 0 .. n

(* What the loop keeps true: everything before pos is at or below the tick,  *)
(* everything from pos+step on is above it, and the part in doubt lies       *)
(* inside the list.  It is what makes the search right for lists with equal  *)
(* entries and for a tick outside the list's range.                          *)
Bracket ==
  /\ pos + step <= n
  /\ \A j \in 0 .. n-1 : j < pos => ticks[j] <= tick
  /\ \A j \in 0 .. n-1 : j >= pos + step => ticks[j] > tick

(* The search answers the index its comment promises (lines 314-315): the    *)
(* largest i with Ticks[i].Index <= tick, or 0 if every tick is larger.      *)
FindsLastAtOrBelow ==
  result # NoResult => IsLastAtOrBelow(ticks, n, tick, result)

(* "the step is guaranteed to shrink on every iteration and the loop ends    *)
(* after ~log2(N) iterations" (lines 317-318): every iteration leaves at     *)
(* most half of the entries in doubt.                                        *)
HalvesEveryRound == [][Iterate => 2 * step' <= step]_vars
=============================================================================

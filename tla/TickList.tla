------------------------------ MODULE TickList ------------------------------
(***************************************************************************)
(* The legacy provider: NewTickListDataProvider validates a slice of ticks *)
(* once (ValidateList) and then answers GetTick and                        *)
(* NextInitializedTickIndex with the start/end binary search of            *)
(* entities/ticklist.go.  One behaviour is one provider and one call on    *)
(* it; the search is taken iteration by iteration because its last read,   *)
(* ticks[start], depends on where the loop leaves start.                   *)
(* A tick is its index and its liquidityNet; liquidityGross only feeds the *)
(* flag "initialized" and is left out.                                     *)
(***************************************************************************)
EXTENDS GoSlices, FiniteSetsExt

CONSTANTS TickIndex,     \* tick indices of lists and of queries
          Net,           \* liquidityNet values of a listed tick
          Spacing,       \* the tickSpacing arguments of NewTickListDataProvider
          MaxTicks       \* bound on the length of a list

(* What a caller's slices are made of. *)
TickListAssumption ==
  /\ TickIndex \subseteq Int
  /\ Net \subseteq Int
  /\ Spacing \subseteq Int
  /\ MaxTicks \in Nat

VARIABLES ticks, nets, n,  \* the slice: Index and LiquidityNet of each entry
          spacing,
          call, tick,      \* the call in progress and its argument
          start, end,      \* the search's bounds
          pc,              \* "new", "enter", "search", "done"
          reply            \* what the caller got

vars == <<ticks, nets, n, spacing, call, tick, start, end, pc, reply>>

Calls == {"GetTick", "NextLte", "NextGt"}
None == [kind |-> "none"]
Error(e) == [kind |-> "error", error |-> e]
Panic == [kind |-> "panic"]             \* a Go run-time panic reaches the caller
Answer(i) == [kind |-> "tick", index |-> ticks[i]]

Init ==
  /\ n \in 0 .. MaxTicks
  /\ ticks \in SliceOf(TickIndex, n)
  /\ nets \in SliceOf(Net, n)
  /\ spacing \in Spacing
  /\ call \in Calls
  /\ tick \in TickIndex
  /\ start = 0 /\ end = n - 1
  /\ pc = "new"
  /\ reply = None

(* ValidateList: the first check that fails decides the error.  Go's % keeps *)
(* the sign of the dividend, but is zero exactly when TLA+'s is.             *)
Misplaced == \E i \in 0 .. n-1 : ticks[i] % spacing # 0
NetSum == MapThenSumSet(LAMBDA i : nets[i], 0 .. n-1)

ListError ==
  CASE spacing <= 0 -> "ErrZeroTickSpacing"
    [] spacing > 0 /\ Misplaced -> "ErrInvalidTickSpacing"
    [] spacing > 0 /\ ~Misplaced /\ NetSum # 0 -> "ErrZeroNet"
    [] spacing > 0 /\ ~Misplaced /\ NetSum = 0 /\ ~Sorted(ticks, n) -> "ErrSorted"
    [] OTHER -> "nil"

NewTickListDataProvider ==
  /\ pc = "new"
  /\ IF ListError = "nil"
       THEN pc' = "enter" /\ UNCHANGED reply
       ELSE pc' = "done" /\ reply' = Error(ListError)
  /\ UNCHANGED <<ticks, nets, n, spacing, call, tick, start, end>>

(* The early returns of GetTick (through binarySearch) and of                *)
(* NextInitializedTick, by call; {} when the call goes on to search.         *)
IsBelowSmallest == tick < ticks[0]
IsAtOrAboveLargest == tick >= ticks[n-1]

EarlyReturn ==
  IF n = 0 THEN {Error("ErrEmptyTickList")}
  ELSE CASE call \in {"GetTick", "NextLte"} /\ IsBelowSmallest -> {Error("ErrBelowSmallest")}
         [] call = "NextLte" /\ ~IsBelowSmallest /\ IsAtOrAboveLargest -> {Answer(n-1)}
         [] call = "NextGt" /\ IsAtOrAboveLargest -> {Error("ErrAtOrAboveLargest")}
         [] call = "NextGt" /\ ~IsAtOrAboveLargest /\ IsBelowSmallest -> {Answer(0)}
         [] OTHER -> {}

Enter ==
  /\ pc = "enter"
  /\ \/ /\ EarlyReturn = {}
        /\ pc' = "search"
        /\ UNCHANGED reply
     \/ /\ reply' \in EarlyReturn
        /\ pc' = "done"
  /\ UNCHANGED <<ticks, nets, n, spacing, call, tick, start, end>>

(* What the caller does with the index the search returned.                  *)
Read(i) == IF i \in 0 .. n-1 THEN Answer(i) ELSE Panic

Use(i) ==
  CASE call = "GetTick" -> IF i < 0 THEN Error("ErrInvalidTickIndex") ELSE Read(i)
    [] call = "NextLte" -> Read(i)
    [] call = "NextGt" -> Read(i+1)

Mid == (start + end) \div 2

Search ==
  /\ pc = "search"
  /\ start <= end
  /\ \/ /\ ticks[Mid] = tick
        /\ reply' = Use(Mid)
        /\ pc' = "done"
        /\ UNCHANGED <<start, end>>
     \/ /\ ticks[Mid] < tick
        /\ start' = Mid + 1
        /\ UNCHANGED <<end, pc, reply>>
     \/ /\ ticks[Mid] > tick
        /\ end' = Mid - 1
        /\ UNCHANGED <<start, pc, reply>>
  /\ UNCHANGED <<ticks, nets, n, spacing, call, tick>>

(* The tick is not listed.  ticks[start] is read without a bounds test.      *)
ClosestOffByOne == IF ticks[start] < tick THEN start ELSE start + 1  \* mutant
Closest == IF ticks[start] < tick THEN start ELSE start - 1

NotListed ==
  /\ pc = "search"
  /\ start > end
  /\ reply' = IF start \in 0 .. n-1 THEN Use(Closest) ELSE Panic
  /\ pc' = "done"
  /\ UNCHANGED <<ticks, nets, n, spacing, call, tick, start, end>>

Next == NewTickListDataProvider \/ Enter \/ Search \/ NotListed

Spec == Init /\ [][Next]_vars
-----------------------------------------------------------------------------
(* A validated provider answers NextInitializedTickIndex with the nearest    *)
(* tick on the asked side, or with the error that says there is none; in     *)
(* particular it never runs out of its slice, although NextInitializedTick   *)
(* reads ticks[index+1] unchecked.  ValidateList lets equal neighbours       *)
(* through: only for a tick that is listed twice the next one above may be   *)
(* that tick itself, and nothing else goes wrong.  GetTick returns a listed  *)
(* tick.                                                                     *)
AtOrBelow == {ticks[i] : i \in {j \in 0 .. n-1 : ticks[j] <= tick}}
Above == {ticks[i] : i \in {j \in 0 .. n-1 : ticks[j] > tick}}
Listed == {ticks[i] : i \in 0 .. n-1}
ListedTwice == \E i, j \in 0 .. n-1 : i < j /\ ticks[i] = tick /\ ticks[j] = tick
IsValid == ListError = "nil" /\ n > 0

ListAnswersRight ==
  pc = "done" /\ IsValid =>
     /\ call = "NextLte" =>
          reply = IF AtOrBelow = {} THEN Error("ErrBelowSmallest")
                  ELSE [kind |-> "tick", index |-> Max(AtOrBelow)]
     /\ call = "NextGt" =>
          \/ reply = IF Above = {} THEN Error("ErrAtOrAboveLargest")
                     ELSE [kind |-> "tick", index |-> Min(Above)]
          \/ ListedTwice /\ Above # {} /\ reply = [kind |-> "tick", index |-> tick]
     /\ call = "GetTick" /\ tick \in Listed => reply = [kind |-> "tick", index |-> tick]
=============================================================================

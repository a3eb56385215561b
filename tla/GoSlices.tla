------------------------------ MODULE GoSlices ------------------------------
(***************************************************************************)
(* Go slices as functions on 0..n-1, with the two operations of the        *)
(* standard library's package slices that the tick handler uses, and the   *)
(* order of a list of ticks.  Indices are Go's: the first element is at 0. *)
(***************************************************************************)
EXTENDS Integers

(* All slices of length n over S. *)
SliceOf(S, n) == [0 .. n-1 -> S]

(* slices.Insert(s, at, e), for a slice s of length n and at \in 0..n. *)
InsertAt(s, n, at, e) ==
  [k \in 0 .. n |-> IF k < at THEN s[k] ELSE IF k = at THEN e ELSE s[k-1]]

(* slices.Delete(s, at, at+1), for a slice s of length n and at \in 0..n-1. *)
DeleteAt(s, n, at) ==
  [k \in 0 .. n-2 |-> IF k < at THEN s[k] ELSE s[k+1]]

(* The list x of tick indices, of length n, never decreases (isTicksSorted)  *)
(* or strictly increases (what a slice of initialised ticks always does).    *)
Sorted(x, n) == \A i, j \in 0 .. n-1 : i < j => x[i] <= x[j]
StrictlySorted(x, n) == \A i, j \in 0 .. n-1 : i < j => x[i] < x[j]

(* The largest i with x[i] <= t; 0 when there is none, which is what          *)
(* TicksHandler.binarySearch documents for that case.                         *)
IsLastAtOrBelow(x, n, t, i) ==
  \/ /\ i \in 0 .. n-1
     /\ x[i] <= t
     /\ \A j \in 0 .. n-1 : x[j] <= t => j <= i
  \/ /\ i = 0
     /\ \A j \in 0 .. n-1 : x[j] > t

LastAtOrBelow(x, n, t) == CHOOSE i \in 0 .. n : IsLastAtOrBelow(x, n, t, i)
=============================================================================

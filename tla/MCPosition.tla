----------------------------- MODULE MCPosition -----------------------------
(* A table of eleven prices over the range 2^32 .. 2^160 at scale, whose     *)
(* upper half squares past a word; pools inside ranges, on their ends and    *)
(* outside, every pair of three ticks, small amounts and the largest.         *)
EXTENDS PositionAmounts, TLC

MCSqrtRatio ==
  (-5 :> 3) @@ (-4 :> 5) @@ (-3 :> 7) @@ (-2 :> 10) @@ (-1 :> 13) @@ (0 :> 16)
    @@ (1 :> 21) @@ (2 :> 28) @@ (3 :> 40) @@ (4 :> 60) @@ (5 :> 101)
MCMinTick == -5
MCUsableTicks == {-5, -2, 5}
MCPrices == {4, 10, 17, 28, 60}
MCAmounts == {9, 101}
MCEverydayAmounts == {9}
MCTolerances == {<<1, 10>>, <<1, 1>>}
=============================================================================

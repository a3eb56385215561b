----------------------------- MODULE MCPoolSwap -----------------------------
EXTENDS PoolSwap, TLC

MCMinTick == -3
MCMaxTick == 3
MCSqrtRatio == -3 :> 4 @@ -2 :> 5 @@ -1 :> 6 @@ 0 :> 8 @@ 1 :> 10 @@ 2 :> 13 @@ 3 :> 16

(* A position is <<lower, upper, liquidity>>. *)
BookOf(positions) ==
  LET ticks == UNION {{x[1], x[2]} : x \in positions}
  IN  [listed |-> ticks,
       net |-> [t \in ticks |->
                  MapThenSumSet(LAMBDA x : IF x[1] = t THEN x[3] ELSE 0, positions)
                - MapThenSumSet(LAMBDA x : IF x[2] = t THEN x[3] ELSE 0, positions)],
       active |-> [t \in MCMinTick-1 .. MCMaxTick |->
                     MapThenSumSet(LAMBDA x : IF x[1] <= t /\ t < x[2] THEN x[3] ELSE 0, positions)]]

Nested == BookOf({<<-2, 2, 10>>, <<-1, 1, 7>>})
Gap == BookOf({<<-2, -1, 9>>, <<1, 2, 12>>})
Adjacent == BookOf({<<-2, 0, 8>>, <<0, 2, 8>>})       \* tick 0 has no net liquidity
FullRange == BookOf({<<-3, 3, 5>>, <<0, 1, 20>>})
MCBooks == {Nested, Gap, Adjacent, FullRange}
MCFees == [b \in MCBooks |-> IF b \in {Nested, FullRange} THEN 1 ELSE 0]

SomeAmounts == {1, 11}
FewAmounts == {3, 14}
SomeLimits == {4, 9}
NoLimits == {}
InputOnly == {TRUE}
Both == BOOLEAN
=============================================================================

--------------------------- MODULE MCTicksHandler ---------------------------
(* Three ticks on both sides of zero and two cache slots: enough for a slot  *)
(* to be replaced while its tick is listed, for a tick with gross liquidity  *)
(* and no net, and for every order of insertions and deletions.  Burns are   *)
(* limited per tick only, so the slices go beyond those of real histories.   *)
EXTENDS TicksHandler, TLC

MCTickIndex == {-1, 1, 2}
MCLiquidity == {0, 1}
MCSnapshots ==
  {[len |-> 2, ticks |-> (0 :> [index |-> -1, gross |-> 1, net |-> 1]
                       @@ 1 :> [index |-> 2, gross |-> 1, net |-> -1])]}
=============================================================================

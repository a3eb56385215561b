--------------------------- MODULE MCTickHistory ----------------------------
(* Positions over four ticks on both sides of zero, which is where the       *)
(* bounds and the hint of a handler start, and snapshots of two ledgers.     *)
EXTENDS TickHistory

MCTickIndex == {-1, 0, 1, 2}
MCLiquidity == {0, 1}
MCSnapshotLedgers ==
  {[r \in Ranges |-> IF r \in {<<-1, 1>>, <<1, 2>>} THEN 1 ELSE 0],
   [r \in Ranges |-> IF r = <<0, 2>> THEN 1 ELSE 0]}
MCSnapshots == {LedgerTicks(p) : p \in MCSnapshotLedgers}
=============================================================================

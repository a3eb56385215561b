SPECIFICATION HistorySpec
CONSTANTS
  TickIndex <- MCTickIndex
  Liquidity <- MCLiquidity
  NSlots = 2
  Snapshots <- MCSnapshots
  MaxGross = 100
  MaxPosition = 1
  SnapshotLedgers <- MCSnapshotLedgers
INVARIANTS
  BookMatchesLedger
  WalkGivesActiveLiquidity
CHECK_DEADLOCK FALSE

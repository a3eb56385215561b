SPECIFICATION Spec
CONSTANTS
  TickIndex <- MCTickIndex
  Liquidity <- MCLiquidity
  NSlots = 2
  Snapshots <- MCSnapshots
  MaxGross = 2
INVARIANTS
  TypeOK
  ListInOrder
  BoundsExact
  HintInRange
  CacheExact
  NeverPanics
PROPERTY IsTickBook

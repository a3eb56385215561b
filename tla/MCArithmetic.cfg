SPECIFICATION MCSpec
CONSTANTS
  MaxTick = 12
  Bits = 3
  SqrtConst <- MCSqrtConst
  One = 256
  Q32 = 4
  Workers = 4
  Drift = 4
  Requests <- MCRequests
  Q = 4
  Word = 256
  MaxFee = 10
  Prices <- MCStepPrices
  W = 5
  S = 2
  FeeDenominator = 9
  Dividends <- MCDividends
  Factors <- MCFactors
  Divisors <- MCDivisors
  MoreCalls <- MCMoreCalls
  Liquidities <- MCLiquidities
  Amounts <- MCAmounts
  Fees <- MCStepFees
INVARIANTS
  TableIsBuilt
  FoundIsFloor
  UsableIsNearest
  ClosestIsBelow
  DivisionExact
  CacheOfLastDivisor
  StaysBeforeTarget
  AmountIsExact
  PoolNeverShort
CHECK_DEADLOCK FALSE

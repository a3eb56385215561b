SPECIFICATION Spec
CONSTANTS
  Q = 16
  Word = 1626
  MaxFee = 10
  MinTick <- MCMinTick
  MaxTick = 5
  SqrtRatio <- MCSqrtRatio
  UsableTicks <- MCUsableTicks
  Prices <- MCPrices
  Amounts <- MCEverydayAmounts
  Tolerances <- MCTolerances
  MaxCalls = 3
INVARIANTS
  ImpreciseIsTheRouters
CHECK_DEADLOCK FALSE

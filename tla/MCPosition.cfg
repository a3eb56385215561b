SPECIFICATION Spec
CONSTANTS
  Q = 16
  Word = 1626
  MaxFee = 10
  MinTick <- MCMinTick
  MaxTick = 5
  SqrtRatio <- MCSqrtRatio
  UsableTicks <- MCUsableTicks
  Prices <- MCPrices
  Amounts <- MCAmounts
  Tolerances <- MCTolerances
  MaxCalls = 3
INVARIANTS
  FitsTheAmounts
  PreciseIsMaximal
  MinimumsCanBeMet
  AnswersReadAsOfTheirTime
CHECK_DEADLOCK FALSE

CONSTANTS
  Q = 8
  Word = 1024
  MaxFee = 10
  MinTick <- MCMinTick
  MaxTick <- MCMaxTick
  SqrtRatio <- MCSqrtRatio
  Books <- MCBooks
  Fees <- MCFees
  Amounts <- SomeAmounts
  Limits <- SomeLimits
  ExactInputs <- Both
  MaxCross = 2
  MaxSwaps = 2
SPECIFICATION FairSpec
INVARIANTS
  PriceWithinLimit
  TickHoldsPrice
  LiquidityIsActive
  AmountsAddUp
  NoFreeLunch
PROPERTY Terminates
CHECK_DEADLOCK FALSE

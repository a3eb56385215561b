CONSTANTS
  Q = 8
  Word = 1024
  MaxFee = 10
  MinTick <- MCMinTick
  MaxTick <- MCMaxTick
  SqrtRatio <- MCSqrtRatio
  Books <- MCBooks
  Fees <- MCFees
  Amounts <- FewAmounts
  Limits <- NoLimits
  ExactInputs <- Both
  MaxCross = 10
  MaxSwaps = 2
SPECIFICATION Spec
INVARIANTS
  NoMoreThanDesired
CHECK_DEADLOCK FALSE

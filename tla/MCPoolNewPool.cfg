CONSTANTS
  Q = 8
  Word = 1024
  MaxFee = 10
  MinTick <- MCMinTick
  MaxTick <- MCMaxTick
  SqrtRatio <- MCSqrtRatio
  Books <- MCBooks
  Fees <- MCFees
  Amounts <- FewAmounts
  Limits <- NoLimits
  ExactInputs <- InputOnly
  MaxCross = 10
  MaxSwaps = 1
SPECIFICATION Spec
INVARIANTS
  NewPoolIsUpdated
CHECK_DEADLOCK FALSE

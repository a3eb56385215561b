SPECIFICATION SearchesSpec
CONSTANTS
  TickIndex <- MCTickIndex
  MaxTicks = 6
  ListIndex <- MCListIndex
  MaxListed = 4
  Net <- MCNet
  Spacing <- MCSpacing
INVARIANTS
  FindsLastAtOrBelow
  ListAnswersRight
PROPERTIES
  HalvesEveryRound
CHECK_DEADLOCK FALSE

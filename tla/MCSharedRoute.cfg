SPECIFICATION Spec
CONSTANTS
  Token = {"A", "B", "C", "D", "E"}
  Pool = {"ab1", "ab2", "bc1", "bc2", "bcx", "ac", "cd", "de1", "de2"}
  NoPool = NoPool
  Ends <- MCEnds
  Failing <- MCFailing
  OutputAmount <- MCOutputAmount
  InputAmount <- MCInputAmount
  Requests <- LongWay
INVARIANTS
  RoutesKeepTheirPools
CHECK_DEADLOCK FALSE

SPECIFICATION Spec
CONSTANTS
  Token <- MCToken
  WETH9 = 2
  MintAmounts <- MCMintAmounts
  MintAmountsWithSlippage <- MCMintMinimum
  BurnAmountsWithSlippage <- MCBurnMinimum
  Pools <- MCPools
  Moves <- MCMoves
  Funds = 2000
  Requests <- MCRequests
INVARIANTS
  NothingStays
  TermsAreKept
  CalmGoesThrough
  StakesAreKept
  ImpactIsALoss
CHECK_DEADLOCK FALSE

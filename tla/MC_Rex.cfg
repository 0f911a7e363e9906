SPECIFICATION LoanSpec
CONSTANTS
  u1 = u1
  u2 = u2
  stk = stk
  Fund1 = 24
  Fund2 = 4
  Pay1 = {24}
  Pay2 = {2}
  Sell1 = {48}
  Sell2 = {8}
  MaxActivated = 3
  Staked = 0
  Accounts = {stk, u1, u2}
  StakeAccount = stk
  RefundDelay = 1
  Liquid <- MCLiquid
  Amounts = {0, 1}
  Managed = {}
  Producers = {}
  Legacy = {}
  Weight <- MCWeight
  MaxTime = 3
  MaxVotes = 1
  MinActivated = 0
  ClaimWindow = 1
  B1 = b1
  Locked <- MCLocked
  None = None
  SecondsPerDay = 1
  NumBuckets = 1
  LastMaturity = 4
  Rank <- MCRank
  RexRatio = 4
  InitRent = 1
  LentParts = 1
  LoanTerm = 2
  MinVotes = 0
  Deposits <- MCDeposits
  Payments <- MCPayments
  RexAmounts <- MCRexAmounts
  Stakes <- MCStakes
  Stakers = {u1}
  Receivers = {u1}
  Fees = {}
  Rents = {}
  MaxLoans = 2
  MaxTokens = 28
CHECK_DEADLOCK FALSE
INVARIANTS PoolAddsUp RexIsBacked OrdersAreCovered ResourcesIncludeLoans NoEarlySale VoterStakeIncludesRex
PROPERTIES PriceNeverFalls OrderIsProcessed

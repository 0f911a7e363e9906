SPECIFICATION VoteSpec
CONSTANTS
  u1 = u1
  u2 = u2
  stk = stk
  Fund1 = 2
  Fund2 = 0
  Pay1 = {2}
  Pay2 = {}
  Sell1 = {4}
  Sell2 = {}
  MaxActivated = 3
  Staked = 1
  Accounts = {stk, u1, u2}
  StakeAccount = stk
  RefundDelay = 1
  Liquid <- MCLiquid
  Amounts = {0, 1}
  Managed = {}
  Producers = {p}
  Legacy = {p}
  Weight <- MCWeight
  MaxTime = 1
  MaxVotes = 1
  MinActivated = 0
  ClaimWindow = 1
  B1 = u1
  Locked <- MCVesting
  None = None
  SecondsPerDay = 1
  NumBuckets = 1
  LastMaturity = 2
  Rank <- MCRank
  RexRatio = 4
  InitRent = 1
  LentParts = 1
  LoanTerm = 2
  MinVotes = 1
  Deposits <- MCDeposits
  Payments <- MCPayments
  RexAmounts <- MCRexAmounts
  Stakes <- MCStakes
  Stakers = {u1}
  Receivers = {u1}
  Fees = {1}
  Rents = {2}
  MaxLoans = 0
  MaxTokens = 6
CHECK_DEADLOCK FALSE
INVARIANTS VoteStakeIsIncluded

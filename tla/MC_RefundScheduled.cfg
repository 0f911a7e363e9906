SPECIFICATION StakeSpec
CONSTANTS
  stk = stk
  a1 = a1
  a2 = a2
  Accounts = {stk, a1, a2}
  StakeAccount = stk
  RefundDelay = 1
  Liquid <- MCLiquid
  Amounts = {0, 1}
  Managed = {}
  Producers = {}
  Legacy = {}
  Weight <- MCWeight
  MaxTime = 2
  MaxVotes = 1
  MinActivated = 0
  ClaimWindow = 1
  B1 = b1
  Locked <- MCLocked
  None = None
  MaxLiquid = 1
  MaxUnbacked = 0
  MaxActivated = 0
CHECK_DEADLOCK FALSE
INVARIANTS RefundIsScheduled

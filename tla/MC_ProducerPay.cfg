SPECIFICATION Spec
CONSTANTS
  p1 = p1
  p2 = p2
  p3 = p3
  a = a
  b = b
  Accounts = {a, b}
  Producers = {p1, p2, p3}
  Legacy = {p2}
  Weight <- MCWeight
  MaxTime = 3
  MaxVotes = 3
  MinActivated = 1
  ClaimWindow = 2
  B1 = b1
  Locked <- MCLocked
  None = None
  MaxStake = 1
  MaxActivated = 3
  Rank <- MCRank
  BPay = bpay
  VPay = vpay
  Saving = saving
  FirstSupply = 8
  MaxSupply = 100
  InflationParts = 1
  PayFactor = 2
  VotepayFactor = 2
  MinDailyPay = 3
  ClaimDay = 0
  ScheduleGap = 0
  ScheduleSize = 2
  MaxUnpaid = 2
INVARIANTS BucketsAreBacked SharesAddUp
PROPERTIES ScheduleIsElected

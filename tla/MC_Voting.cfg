SPECIFICATION Spec
CONSTANTS
  Accounts = {a, b, c}
  Producers = {p}
  Legacy = {}
  Weight <- MCWeight
  MaxTime = 1
  MaxVotes = 1
  MinActivated = 3
  ClaimWindow = 1
  B1 = b1
  Locked <- MCLocked
  None = None
  MaxStake = 1
SYMMETRY Symmetry
INVARIANTS ActivationIsBacked VotesAddUp ProxiedAddsUp CastIsCurrent NoProxyCycle
CONSTANT MaxActivated = 4

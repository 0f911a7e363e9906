SPECIFICATION Spec
CONSTANTS
  a = a
  b = b
  gold = gold
  ring = ring
  sub = sub
  Bidders = {a, b}
  System = eosio
  NamesAcct = names
  RexAcct = rex
  Names = {gold, ring, sub}
  Suffix <- MCSuffix
  Start <- MCStart
  Bids = {0, 8, 9, 10, 11, 12}
  Day = 0
  TwoWeeks = 0
  None = None
INVARIANTS OutbidKeepsTokens ProceedsAreEarned
PROPERTIES OnlyWinnersClaim AuctionEnds

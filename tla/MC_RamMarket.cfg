SPECIFICATION Spec
CONSTANTS
  a = a
  b = b
  Users = {a, b}
  RamAcct = ram
  FeeAcct = fee
  Start <- MCStart
  Quote = 3
  InitRam = 12
  FeeParts = 4
  Gift = 1
  Payments = {0, 1, 3, 6}
  Bytes = {0, 3, 5}
  Rates = {0, 2}
  Sizes = {16, 17}
  MaxSize = 17
  Limits = {0}
  MaxSlot = 2
  Word = 4
INVARIANTS BooksAgree SellersCanBePaid GrowsByTheBlock
CHECK_DEADLOCK FALSE

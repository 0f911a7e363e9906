SPECIFICATION Spec
CONSTANTS
  ana = ana
  bob = bob
  la = la
  lb = lb
  lo = lo
  pay = pay
  set = set
  None = None
  Accounts = {ana, bob}
  Proposers = {ana}
  Names = {n1}
  Levels = {la, lb, lo}
  Actor <- MCActor
  Trxs = {pay, set}
  Quorums <- MCQuorums
  Expiration <- MCExpiration
  Requests <- MCRequests
  MaxTime = 3
  MaxProposals = 2
INVARIANTS SentOnce HashPinsTransaction UnapproveRevokes
PROPERTIES ExecIsAuthorized EndsProperly

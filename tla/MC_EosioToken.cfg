SPECIFICATION Spec
CONSTANTS
  a1 = a1
  a2 = a2
  Accounts = {token, a1, a2}
  Self = token
  Codes = {sys, jun}
  Precisions = {p0, p4}
  MaxAmount = 2
  NoRow = NoRow
SYMMETRY Symmetry
INVARIANTS SupplyIsTotal SupplyWithinMax RowsMatchStats
PROPERTIES OnlyOwnersSpend

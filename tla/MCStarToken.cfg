SPECIFICATION AuditSpec
CONSTANTS
  a1 = a1
  a2 = a2
  NoAddress = NoAddress
  Address <- MCAddress
  Signer <- MCAddress
  TokenDeployer = a1
  MaxSupply = 2
  IntMax = 20000
  TokenAmount = {1, 2}
  BasisPoint = {5000, 10001}
  Spender = {a2}
  LedgerBound = 1
INVARIANTS Conservation
PROPERTIES DebitIsSigned FormerAdminMintsNothing

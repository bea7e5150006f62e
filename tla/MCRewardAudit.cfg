SPECIFICATION AuditSpec
CONSTANTS
  a1 = a1
  a2 = a2
  a3 = a3
  NoAddress = NoAddress
  NoSource = NoSource
  Address <- MCAddress
  Signer <- MCAddress
  RewardsDeployer = a1
  TokenAddress = a1
  RewardId = {r1}
  SourceId = {s1}
  AmountInput = {9999, 10000}
  CampaignAmount = {0, 7}
PROPERTIES FormerAdminIssuesNothing

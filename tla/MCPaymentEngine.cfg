SPECIFICATION AuditSpec
CONSTANTS
  a1 = a1
  a2 = a2
  eng = eng
  NoAddress = NoAddress
  NoMerchant = NoMerchant
  NoReward = NoReward
  Address <- MCAddress
  Signer <- MCSigner
  Deployer = a1
  RegistryAddress = eng
  RewardsAddress = eng
  PaymentId = {p1}
  MerchantId = {m1}
  RewardId = {r1}
  AmountInput <- MCAmountInput
  QuoteInput <- MCQuoteInput
  StarAmount = {10}
INVARIANTS RecordMatchesStatus
PROPERTIES KeepsPromise FormerAdminMovesNoPayment

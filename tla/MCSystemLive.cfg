SPECIFICATION FairSpec
CONSTANTS
  adm = adm
  usr = usr
  pe = pe
  mr = mr
  re = re
  st = st
  NoAddress = NoAddress
  NoMerchant = NoMerchant
  NoReward = NoReward
  NoSource = NoSource
  NoMetadata = NoMetadata
  Address <- MCAddress
  Signer <- MCSigner
  Admin = adm
  Payments = pe
  Registry = mr
  Rewards = re
  Star = st
  PaymentId = {p1}
  MerchantId = {m1}
  RewardId = {r1}
  SourceId = {p1}
  Metadata = {d1}
  AmountInput = {19999}
  QuoteInput <- MCQuoteInput
  CampaignAmount = {}
  StarAmount = {}
  MaxSupply = 10
  IntMax = 10000
  TokenAmount = {}
  BasisPoint = {}
  Spender = {}
  LedgerBound = 1
  Settable <- LiveSettable
PROPERTIES SettledPaymentsEnd

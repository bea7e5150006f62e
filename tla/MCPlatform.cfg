SPECIFICATION MCSpec
CONSTANTS
  a1 = a1
  a2 = a2
  a3 = a3
  i = i
  f = f
  g = g
  t1 = t1
  t2 = t2
  NoAddress = NoAddress
  Address <- MCAddress
  Signer <- MCAddress
  RegistryDeployer = a1
  MerchantId = {m1}
  Metadata = {d1, d2}
  NoMetadata = NoMetadata
  Visits = 2
  MaxRetries = 3
  Latency = 1
  RampFaults = 1
  Request = {q1, q2, q3, q4}
  NoTx = NoTx
  Call = {c1, c2}
  Faults = 2
  User = {u1}
  NoUser = NoUser
  Wallet = {w1}
  Nonce = {n1}
  NoNonce = NoNonce
  Session = {s1, s2}
  Applicant = {k1, k2}
  NoApplicant = NoApplicant
  KycBound = 2
  Reviewer = {r1, r2}
  PollLimit = 2
  Tries = 3
  Member = {i, f, g}
  Inviter = i
  NoMember = NoMember
  Purchase = {t1, t2}
  NoPurchase = NoPurchase
  Person = {h1, h2}
  Nobody = Nobody
  Device = {v1}
  TokenLife = 3
  Rows = 3
  PageSize = 1
  Vpa = {p1, p2}
  NoVpa = NoVpa
  Approved = {p1}
  Scan = {x1, x2, x3}
  Runner = {y1, y2}
  DemoPayments = 1
  SeedBound = 2
  Bill <- MCBill
  Award <- MCAward
  ThirtyDaysAgo = 60
  Asker = "ann"
  MoveBound = 2
  LoadFaults = 2
  Quote = {u, w}
  Payout = {u, w}
  RateLife = 2
  TokenTerm = 3
  Buffer = 1
  Horizon = 4
  Wallets <- MCWallets
  HashBits = 16
  RiskScore <- MCScores
  NoScore = NoScore
  Purse = {e1, e2}
  NoPurse = NoPurse
  Change = {z1, z2}
INVARIANTS
  PlatformTypeOK
  
  LateRequestsRepeat
  SubmitsPay
  StaleNeverGetsIn
  VerifiedByProvider
  ChainFollowsReview
  ReceivedIsStored
  RewardedForAFriend
  WalletOwnsTokens
  StaleRoleExpires
  WalkIsWhole
  PayeeIsVpa
  SeedRunsAgain
  ReportsAgree
  FreshWhenUsed
  VerdictsAgree
  PrimaryIsOne
PROPERTIES
  RejectionIsFinal
  CompletedShown
  PendingIsLeft
  RedirectsSettle
  EndIsShown
CONSTRAINT DepositFirst
CHECK_DEADLOCK FALSE

------------------------------- MODULE Platform -------------------------------
(***************************************************************************)
(* The components of the platform around the payment pipeline, side by     *)
(* side: the registry contract, what the API does for one user or one      *)
(* transaction, and the pages that ask it.  They share no state that a     *)
(* property is about.  A behaviour uses some of them, chosen in the        *)
(* initial state, and interleaves their steps in any order.                *)
(***************************************************************************)
EXTENDS MerchantRegistry, Ramps, Intake, StellarSubmit, Account, Kyc, Merchants,
        Onboarding, Referrals, Session, Browse, PayPage, Seed, Reports, Receipt,
        Caches, Aml, Wallets

VARIABLE inUse           \* the components this behaviour uses

Component == {"registry", "ramps", "intake", "submit", "account", "kyc",
              "merchants", "onboarding", "referrals", "session", "roles", "browse",
              "pay", "seed", "reports", "receipt", "rates", "bearer", "aml",
              "wallets"}

platformVars ==
  <<inUse, vars, rampVars, intakeVars, submitVars, accountVars, kycVars,
    merchantVars, onboardVars, referralVars, sessionVars, rolesVars, browseVars,
    payVars, seedVars, reportVars, receiptVars, cacheVars, amlVars,
    walletVars>>

PlatformInit ==
  /\ inUse \subseteq Component
  /\ Init /\ RampInit /\ IntakeInit /\ SubmitInit /\ KycInit /\ MerchantInit
  /\ OnboardInit /\ SessionInit /\ PayInit /\ SeedInit /\ ReportsInit
  /\ AccountInit /\ ReferralInit /\ RolesInit /\ BrowseInit
  /\ ReceiptInit /\ CachesInit /\ AmlInit /\ WalletsInit

\* A step of one component; every other one stays as it is.
StepOf(c, Step) ==
  /\ c \in inUse /\ Step /\ UNCHANGED inUse
  /\ IF c = "registry" THEN TRUE ELSE UNCHANGED vars
  /\ IF c = "ramps" THEN TRUE ELSE UNCHANGED rampVars
  /\ IF c = "intake" THEN TRUE ELSE UNCHANGED intakeVars
  /\ IF c = "submit" THEN TRUE ELSE UNCHANGED submitVars
  /\ IF c = "account" THEN TRUE ELSE UNCHANGED accountVars
  /\ IF c = "kyc" THEN TRUE ELSE UNCHANGED kycVars
  /\ IF c = "merchants" THEN TRUE ELSE UNCHANGED merchantVars
  /\ IF c = "onboarding" THEN TRUE ELSE UNCHANGED onboardVars
  /\ IF c = "referrals" THEN TRUE ELSE UNCHANGED referralVars
  /\ IF c = "session" THEN TRUE ELSE UNCHANGED sessionVars
  /\ IF c = "roles" THEN TRUE ELSE UNCHANGED rolesVars
  /\ IF c = "browse" THEN TRUE ELSE UNCHANGED browseVars
  /\ IF c = "pay" THEN TRUE ELSE UNCHANGED payVars
  /\ IF c = "seed" THEN TRUE ELSE UNCHANGED seedVars
  /\ IF c = "reports" THEN TRUE ELSE UNCHANGED reportVars
  /\ IF c = "receipt" THEN TRUE ELSE UNCHANGED receiptVars
  /\ IF c \in {"rates", "bearer"} THEN TRUE ELSE UNCHANGED cacheVars
  /\ IF c = "aml" THEN TRUE ELSE UNCHANGED amlVars
  /\ IF c = "wallets" THEN TRUE ELSE UNCHANGED walletVars

PlatformNext ==
  \/ StepOf("registry", Next)
  \/ StepOf("ramps", RampNext)
  \/ StepOf("intake", IntakeNext)
  \/ StepOf("submit", SubmitNext)
  \/ StepOf("account", AccountNext)
  \/ StepOf("kyc", KycNext)
  \/ StepOf("merchants", MerchantNext)
  \/ StepOf("onboarding", OnboardNext)
  \/ StepOf("referrals", ReferralNext)
  \/ StepOf("session", SessionNext)
  \/ StepOf("roles", RolesNext)
  \/ StepOf("browse", BrowseNext)
  \/ StepOf("pay", PayNext)
  \/ StepOf("seed", SeedNext)
  \/ StepOf("reports", ReportsNext)
  \/ StepOf("receipt", ReceiptNext)
  \/ StepOf("rates", TimeGoesOn \/ RateStep)
  \/ StepOf("bearer", TimeGoesOn \/ BearerStep)
  \/ StepOf("aml", AmlNext)
  \/ StepOf("wallets", WalletsNext)


\* The fairness of each component, in the behaviours that use it.
PlatformFairness ==
  /\ WF_rampVars("ramps" \in inUse /\ Tick)
  /\ \A v \in Visit : WF_rampVars("ramps" \in inUse /\ \E l \in due[v] : AnchorAnswers(v, l))
  /\ WF_kycVars("kyc" \in inUse /\ GetStatus)
  /\ WF_kycVars("kyc" \in inUse /\ ShowStatus)
  /\ WF_sessionVars("session" \in inUse /\ Redirect)
  /\ WF_receiptVars("receipt" \in inUse /\ ReceiptStep)

PlatformSpec == PlatformInit /\ [][PlatformNext]_platformVars /\ PlatformFairness

-----------------------------------------------------------------------------
\* Every variable of every component keeps its type.
PlatformTypeOK ==
  /\ TypeOK /\ RampTypeOK /\ IntakeTypeOK /\ SubmitTypeOK /\ AccountTypeOK /\ KycTypeOK
  /\ MerchantTypeOK /\ OnboardTypeOK /\ ReferralTypeOK /\ SessionTypeOK /\ RolesTypeOK
  /\ BrowseTypeOK /\ PayTypeOK /\ SeedTypeOK /\ ReportsTypeOK /\ ReceiptTypeOK
  /\ CachesTypeOK /\ AmlTypeOK /\ WalletsTypeOK
=============================================================================

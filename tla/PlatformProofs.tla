---------------------------- MODULE PlatformProofs ----------------------------
(***************************************************************************)
(* What the components around the payment pipeline guarantee, for every    *)
(* number of requests, users, wallets, merchants, purchases, rows and      *)
(* scans.  In this order: the requests of the API and the pages that send  *)
(* them; the answers the API keeps and the payments it submits; the seed   *)
(* script; who gets in, and with which role; lists, reports, screenings;   *)
(* and all the components side by side.                                    *)
(* Each invariant says what a request that is under way has read, and why  *)
(* that is still true, or no longer matters, when it writes.               *)
(***************************************************************************)
EXTENDS Platform, MerchantRegistryProofs, SumTheorems, SequenceTheorems, TLAPS

-----------------------------------------------------------------------------
(* Idempotency keys                                                        *)

\* A late request began when the answer was stored, so the lookup ends it.
LateIsAnswered ==
  \A r \in Request : intake[r].late =>
    /\ keyRecord # NoTx /\ intake[r].at \notin {"create", "store"}
    /\ intake[r].at = "answered" => intake[r].answer = keyRecord

\* A request's transaction is there once it has been to the database.
CreatedLate ==
  \A r \in Request : r \in created =>
    intake[r].at \notin {"unsent", "lookup", "create"} /\ ~intake[r].late

IntakeInv == IntakeTypeOK /\ LateIsAnswered /\ CreatedLate

LEMMA IntakeInitInv == IntakeInit => IntakeInv
BY DEF IntakeInit, IntakeInv, IntakeTypeOK, LateIsAnswered, CreatedLate

LEMMA IntakeStepInv == IntakeInv /\ [IntakeNext]_intakeVars => IntakeInv'
<1> SUFFICES ASSUME IntakeInv, [IntakeNext]_intakeVars PROVE IntakeInv'
  OBVIOUS
<1> USE IntakeAssumption DEF IntakeInv, IntakeTypeOK, LateIsAnswered, CreatedLate
<1>1. ASSUME NEW r \in Request, Begin(r) PROVE IntakeInv'
  BY <1>1 DEF Begin
<1>2. ASSUME NEW r \in Request, LookupKey(r) PROVE IntakeInv'
  BY <1>2 DEF LookupKey
<1>3. ASSUME NEW r \in Request, CreateOnce(r) PROVE IntakeInv'
  BY <1>3 DEF CreateOnce
<1>4. ASSUME NEW r \in Request, StoreAnswer(r) PROVE IntakeInv'
  BY <1>4 DEF StoreAnswer
<1>5. ASSUME NEW r \in Request, RequestDies(r) PROVE IntakeInv'
  BY <1>5 DEF RequestDies
<1>6. CASE UNCHANGED intakeVars
  BY <1>6 DEF intakeVars
<1> QED
  BY <1>1, <1>2, <1>3, <1>4, <1>5, <1>6 DEF IntakeNext

\* A request that begins after an answer was stored under its key creates
\* nothing and repeats that answer (transactions.controller.ts:47-73).
THEOREM LateRequestsAlwaysRepeat == IntakeSpec => []LateRequestsRepeat
<1>1. IntakeInv => LateRequestsRepeat
  BY DEF IntakeInv, LateIsAnswered, CreatedLate, LateRequestsRepeat
<1> QED
  BY IntakeInitInv, IntakeStepInv, <1>1, PTL DEF IntakeSpec

-----------------------------------------------------------------------------
(* Merchant applications                                                   *)

\* Whoever was told, or is about to be told, that it is stored is right.
ToldOfStored ==
  wizard.submitting = "stored" \/ wizard.step \in {4, 5} => application # "none"

OnboardInv == OnboardTypeOK /\ ToldOfStored

LEMMA OnboardInitInv == OnboardInit => OnboardInv
BY TriesAssumption DEF OnboardInit, OnboardInv, OnboardTypeOK, ToldOfStored

LEMMA OnboardStepInv == OnboardInv /\ [OnboardNext]_onboardVars => OnboardInv'
<1> SUFFICES ASSUME OnboardInv, [OnboardNext]_onboardVars PROVE OnboardInv'
  OBVIOUS
<1> USE TriesAssumption DEF OnboardInv, OnboardTypeOK, ToldOfStored
<1>1. CASE NextStep \/ PrevStep
  BY <1>1 DEF NextStep, PrevStep
<1>2. CASE Submit
  <2>1. wizard.tries + 1 \in 0 .. Tries
    BY <1>2 DEF Submit
  <2>2. wizard' = [step |-> wizard.step, tries |-> wizard.tries + 1, submitting |-> "asked"]
    BY <1>2 DEF Submit
  <2> QED
    BY <1>2, <2>1, <2>2 DEF Submit
<1>3. CASE CreateMerchant \/ RefuseMerchant
  BY <1>3 DEF CreateMerchant, RefuseMerchant
<1>4. ASSUME NEW lost \in BOOLEAN, SubmitAnswered(lost) PROVE OnboardInv'
  <2> DEFINE to == IF wizard.submitting = "stored" /\ ~lost THEN 4 ELSE 3
  <2>1. wizard' = [step |-> to, tries |-> wizard.tries, submitting |-> "no"]
    BY <1>4 DEF SubmitAnswered
  <2>2. to \in 1 .. 5 /\ (to \in {4, 5} => wizard.submitting = "stored")
    OBVIOUS
  <2>3. UNCHANGED application
    BY <1>4 DEF SubmitAnswered
  <2> HIDE DEF to
  <2> QED
    BY <2>1, <2>2, <2>3
<1>5. CASE KycStepDone
  BY <1>5 DEF KycStepDone
<1>6. CASE UNCHANGED onboardVars
  BY <1>6 DEF onboardVars
<1> QED
  BY <1>1, <1>2, <1>3, <1>4, <1>5, <1>6 DEF OnboardNext

\* The wizard speaks of a received application only when its row is stored,
\* however often answers are lost (merchant/onboard/page.tsx:51-60).
THEOREM ReceivedAlwaysStored == OnboardSpec => []ReceivedIsStored
<1>1. OnboardInv => ReceivedIsStored
  BY DEF OnboardInv, ToldOfStored, ReceivedIsStored
<1> QED
  BY OnboardInitInv, OnboardStepInv, <1>1, PTL DEF OnboardSpec

-----------------------------------------------------------------------------
(* Identity verification                                                   *)

\* Every webhook under way tells a verdict the provider has given.
HooksTell == \A h \in hooks \cup found : h.verdict \in verdict[h.applicant]

KycInv == KycTypeOK /\ HooksTell /\ VerifiedByProvider

LEMMA KycInitInv == KycInit => KycInv
<1> SUFFICES ASSUME KycInit PROVE KycInv
  OBVIOUS
<1>1. KycTypeOK
  BY DEF KycInit, KycTypeOK, KycRow, KycStatus, NoAnswer
<1> QED
  BY <1>1 DEF KycInit, KycInv, HooksTell, VerifiedByProvider

LEMMA KycStepInv == KycInv /\ [KycNext]_kycVars => KycInv'
<1> SUFFICES ASSUME KycInv, [KycNext]_kycVars PROVE KycInv'
  OBVIOUS
<1> USE DEF KycInv, KycTypeOK, KycRow, KycStatus, HooksTell, VerifiedByProvider
<1>1. ASSUME NEW a \in Applicant, CreateApplicant(a) \/ StartFails(a) PROVE KycInv'
  BY <1>1 DEF CreateApplicant, StartFails
<1>2. ASSUME NEW a \in Applicant, StoreReference(a) PROVE KycInv'
  BY <1>2 DEF StoreReference
<1>3. ASSUME NEW a \in Applicant, HandleStart(a) PROVE KycInv'
  BY <1>3 DEF HandleStart
<1>4. ASSUME NEW a \in Applicant, NEW v \in Verdict, ProviderDecides(a, v) PROVE KycInv'
  BY <1>4 DEF ProviderDecides, Webhook
<1>5. ASSUME NEW h \in hooks, NEW again \in BOOLEAN, WebhookFinds(h, again) PROVE KycInv'
  BY <1>5 DEF WebhookFinds
<1>6. ASSUME NEW h \in found, WebhookWrites(h) PROVE KycInv'
  <2>1. h \in Webhook /\ h.verdict \in verdict[h.applicant]
    OBVIOUS
  <2>2. StatusOf(h.verdict) \in KycStatus
    BY DEF StatusOf
  <2>3. StatusOf(h.verdict) = "VERIFIED" => h.verdict = "completed"
    BY <2>1 DEF StatusOf, Webhook, Verdict
  <2> QED
    BY <1>6, <2>1, <2>2, <2>3 DEF WebhookWrites, Webhook
<1>7. CASE GetStatus
  BY <1>7 DEF GetStatus
<1>8. CASE ShowStatus
  <2>1. kycPage.fetch \in KycRow
    BY <1>8 DEF ShowStatus
  <2>2. kycPage' \in [shown : KycStatus, data : KycRow \cup {NoAnswer},
                     fetch : KycRow \cup {NoAnswer}, by : {"page", "gate"}]
    BY <1>8, <2>1 DEF ShowStatus
  <2> QED
    BY <1>8, <2>2 DEF ShowStatus
<1>9. CASE GetMe
  <2>1. gate'.data = gate.data /\ gate'.fetch = kyc /\ gate'.asked = gate.asked + 1
    BY <1>9 DEF GetMe
  <2>2. gate' = [data |-> gate'.data, fetch |-> gate'.fetch, asked |-> gate'.asked]
    BY <1>9 DEF GetMe
  <2>3. gate'.data \in KycRow \cup {NoAnswer} /\ gate'.fetch \in KycRow /\ gate'.asked \in Nat
    BY <2>1
  <2>4. gate' \in [data : KycRow \cup {NoAnswer}, fetch : KycRow \cup {NoAnswer}, asked : Nat]
    BY <2>2, <2>3
  <2> QED
    BY <1>9, <2>4 DEF GetMe
<1>10. ASSUME NEW new \in BOOLEAN, ShowMe(new) PROVE KycInv'
  <2>1. gate' \in [data : KycRow \cup {NoAnswer}, fetch : KycRow \cup {NoAnswer}, asked : Nat]
    BY <1>10 DEF ShowMe
  <2>2. gate.fetch \in KycRow
    BY <1>10 DEF ShowMe
  <2>3. kycPage' \in [shown : KycStatus, data : KycRow \cup {NoAnswer},
                     fetch : KycRow \cup {NoAnswer}, by : {"page", "gate"}]
    BY <1>10, <2>2 DEF ShowMe
  <2> QED
    BY <1>10, <2>1, <2>3 DEF ShowMe
<1>11. CASE UNCHANGED kycVars
  BY <1>11 DEF kycVars
<1> QED
  BY <1>1, <1>2, <1>3, <1>4, <1>5, <1>6, <1>7, <1>8, <1>9, <1>10, <1>11 DEF KycNext

\* VERIFIED is a verdict of the provider, whatever the webhooks do on their way
\* (kyc.service.ts:42-77).
THEOREM VerifiedAlwaysByProvider == KycSpec => []VerifiedByProvider
<1>1. KycInv => VerifiedByProvider
  BY DEF KycInv
<1> QED
  BY KycInitInv, KycStepInv, <1>1, PTL DEF KycSpec

\* The verifications that POST /kyc/start has begun, and those it has answered.
BeingStarted == {a \in Applicant : verification[a] \in {"created", "stored"}}
Answered == {a \in Applicant : verification[a] = "answered"}

\* Nobody has heard of an applicant who is not stored yet; who is stored last is
\* in the row; the button starts one verification at a time; webhooks are about
\* verifications that were answered.
StartsInTurn ==
  /\ \A a \in Applicant : verification[a] \in {"none", "created"} =>
       a \notin {kyc.reference, kycPage.data.reference, kycPage.fetch.reference}
  /\ \A a \in Applicant : verification[a] = "stored" => kyc.reference = a
  /\ \A a, b \in BeingStarted : a = b
  /\ \A h \in hooks \cup found : h.applicant \in Answered

\* As long as AuthGate has changed nothing: the page fetches at first and while it
\* shows PENDING; so it has an answer and fetches none when it offers a second
\* start, and that answer is an older one.
FetchesInTurn == kycPage.by = "page" =>
  /\ kycPage.fetch # NoAnswer => kycPage.data = NoAnswer \/ kycPage.shown = "PENDING"
  /\ Answered # {} => kycPage.shown = "PENDING" \/ kycPage.data # NoAnswer
  /\ BeingStarted # {} /\ Answered # {} =>
       /\ kycPage.shown # "PENDING" /\ kycPage.fetch = NoAnswer /\ kycPage.data # NoAnswer
       /\ kycPage.data.reference \notin BeingStarted

\* Before a first verification was answered there is no verdict to be read; the
\* answer of a page that shows PENDING, by itself, is PENDING, or about an older
\* verification.
PendingIsOlder ==
  /\ Answered = {} => \A r \in {kyc, kycPage.data, kycPage.fetch} :
       r.reference # NoApplicant => r.status = "PENDING"
  /\ kycPage.by = "page" /\ kycPage.shown = "PENDING" =>
       kycPage.data.status = "PENDING" \/ kycPage.data.reference # kyc.reference

KycPageInv == KycInv /\ StartsInTurn /\ FetchesInTurn /\ PendingIsOlder

LEMMA KycPageInitInv == KycInit => KycPageInv
<1> SUFFICES ASSUME KycInit PROVE KycPageInv
  OBVIOUS
<1>1. KycInv
  BY KycInitInv
<1>2. BeingStarted = {} /\ Answered = {}
  BY DEF KycInit, BeingStarted, Answered
<1>3. StartsInTurn /\ FetchesInTurn /\ PendingIsOlder
  BY <1>2, KycAssumption DEF KycInit, StartsInTurn, FetchesInTurn, PendingIsOlder, NoAnswer
<1> QED
  BY <1>1, <1>3 DEF KycPageInv

LEMMA KycPageStepInv == KycPageInv /\ [KycNext]_kycVars => KycPageInv'
<1> SUFFICES ASSUME KycPageInv, [KycNext]_kycVars PROVE KycPageInv'
  OBVIOUS
<1>0. KycTypeOK /\ KycInv'
  BY KycStepInv DEF KycPageInv, KycInv
<1> USE DEF KycPageInv, KycTypeOK, StartsInTurn, FetchesInTurn, PendingIsOlder, BeingStarted, Answered
<1>1. ASSUME NEW a \in Applicant, CreateApplicant(a) PROVE KycPageInv'
  BY <1>0, <1>1 DEF CreateApplicant, StartOffered
<1>2. ASSUME NEW a \in Applicant, StartFails(a) PROVE KycPageInv'
  BY <1>0, <1>2 DEF StartFails
<1>3. ASSUME NEW a \in Applicant, StoreReference(a) PROVE KycPageInv'
  <2>1. /\ kyc' = [status |-> "PENDING", reference |-> a]
        /\ \A b \in Applicant \ {a} : verification'[b] = verification[b]
        /\ verification[a] = "created" /\ verification'[a] = "stored"
        /\ UNCHANGED <<verdict, hooks, found, kycPage>>
    BY <1>0, <1>3 DEF StoreReference
  <2>2. BeingStarted' = BeingStarted /\ Answered' = Answered /\ a \in BeingStarted
    BY <2>1
  <2>3. StartsInTurn'
    BY <2>1, <2>2
  <2>4. FetchesInTurn'
    BY <2>1, <2>2
  <2>5. PendingIsOlder'
    BY <2>1, <2>2
  <2> QED
    BY <1>0, <2>3, <2>4, <2>5
<1>4. ASSUME NEW a \in Applicant, HandleStart(a) PROVE KycPageInv'
  <2>1. /\ verification[a] = "stored" /\ verification'[a] = "answered"
        /\ \A b \in Applicant \ {a} : verification'[b] = verification[b]
        /\ UNCHANGED <<kyc, verdict, hooks, found>>
    BY <1>0, <1>4 DEF HandleStart
  <2>2. /\ kycPage'.shown = "PENDING" /\ kycPage'.data = kycPage.data
        /\ kycPage'.fetch = kycPage.fetch /\ kycPage'.by = kycPage.by
    BY <1>0, <1>4 DEF HandleStart
  <2>3. BeingStarted' = {} /\ Answered' = Answered \cup {a} /\ a \in BeingStarted /\ kyc.reference = a
    BY <2>1
  <2>4. kycPage.by = "page" =>
          kycPage.data.status = "PENDING" \/ kycPage.data.reference # a
    <3>1. CASE Answered = {}
      BY <3>1, KycAssumption
    <3>2. CASE Answered # {}
      BY <2>3, <3>2
    <3> QED
      BY <3>1, <3>2
  <2>5. StartsInTurn'
    BY <2>1, <2>2, <2>3
  <2>6. FetchesInTurn' /\ PendingIsOlder'
    BY <2>1, <2>2, <2>3, <2>4
  <2> QED
    BY <1>0, <2>5, <2>6
<1>5. ASSUME NEW a \in Applicant, NEW v \in Verdict, ProviderDecides(a, v) PROVE KycPageInv'
  BY <1>0, <1>5 DEF ProviderDecides
<1>6. ASSUME NEW h \in hooks, NEW again \in BOOLEAN, WebhookFinds(h, again) PROVE KycPageInv'
  BY <1>0, <1>6 DEF WebhookFinds
<1>7. ASSUME NEW h \in found, WebhookWrites(h) PROVE KycPageInv'
  BY <1>0, <1>7 DEF WebhookWrites
<1>8. CASE GetStatus
  BY <1>0, <1>8 DEF GetStatus
<1>9. CASE ShowStatus
  <2>1. /\ kycPage.fetch # NoAnswer /\ kycPage'.data = kycPage.fetch
        /\ kycPage'.fetch = NoAnswer /\ kycPage'.by = kycPage.by
        /\ kycPage'.shown = IF kycPage.fetch = kycPage.data THEN kycPage.shown
                           ELSE kycPage.fetch.status
        /\ UNCHANGED <<kyc, verification, verdict, hooks, found>>
    BY <1>0, <1>9 DEF ShowStatus
  <2>2. BeingStarted' = BeingStarted /\ Answered' = Answered
    BY <2>1
  <2>3. StartsInTurn'
    BY <2>1, <2>2, KycAssumption DEF NoAnswer
  <2>4. FetchesInTurn'
    BY <2>1, <2>2
  <2>5. PendingIsOlder'
    BY <2>1, <2>2 DEF NoAnswer
  <2> QED
    BY <1>0, <2>3, <2>4, <2>5
<1>10. CASE GetMe
  BY <1>0, <1>10 DEF GetMe
<1>11. ASSUME NEW new \in BOOLEAN, ShowMe(new) PROVE KycPageInv'
  <2>1. /\ kycPage'.data = kycPage.data /\ kycPage'.fetch = kycPage.fetch
        /\ kycPage' = kycPage \/ kycPage'.by = "gate"
        /\ UNCHANGED <<kyc, verification, verdict, hooks, found>>
    BY <1>0, <1>11 DEF ShowMe
  <2> QED
    BY <1>0, <2>1
<1>12. CASE UNCHANGED kycVars
  BY <1>0, <1>12 DEF kycVars
<1> QED
  BY <1>1, <1>2, <1>3, <1>4, <1>5, <1>6, <1>7, <1>8, <1>9, <1>10, <1>11, <1>12 DEF KycNext

\* As long as AuthGate has not changed what the page shows (Providers.tsx:50-58),
\* while it shows PENDING and the row has a verdict the page's last answer is
\* another object than the row, so that the effect that copies the status runs
\* on the next answer (kyc/page.tsx:16-24): what PendingIsLeft rests on.
THEOREM PendingAlwaysNews == KycSpec => []PendingIsNews
<1>1. KycPageInv => PendingIsNews
  BY DEF KycPageInv, PendingIsOlder, PendingIsNews
<1> QED
  BY KycPageInitInv, KycPageStepInv, <1>1, PTL DEF KycSpec

-----------------------------------------------------------------------------
(* Referrals                                                               *)

\* A purchase that qualifies: completed, and paid by somebody else.
Qualifies(p) == p \in completed /\ payer[p] # Inviter

\* The inviter neither accepts nor is invited; who reads a purchase to qualify
\* with it has found the payer invited, and its completion is never undone.
RequestsAreFriends ==
  /\ Inviter \notin accepting /\ referral.invited # Inviter
  /\ \A p \in Purchase : /\ qualifying[p] = "read" => payer[p] # Inviter
                         /\ qualifying[p] = "checked" => Qualifies(p)

\* Acceptances change who is invited, not the purchase that qualified.
FirstQualifies ==
  referral.status # "INVITED" \/ rewarding \/ starReward.earned => Qualifies(referral.first)

ReferralInv == ReferralTypeOK /\ RequestsAreFriends /\ FirstQualifies

LEMMA ReferralInitInv == ReferralInit => ReferralInv
<1> SUFFICES ASSUME ReferralInit PROVE ReferralInv
  OBVIOUS
<1>1. ReferralTypeOK
  BY DEF ReferralInit, ReferralTypeOK
<1>2. RequestsAreFriends
  BY ReferralAssumption DEF ReferralInit, RequestsAreFriends
<1>3. FirstQualifies
  BY DEF ReferralInit, FirstQualifies
<1> QED
  BY <1>1, <1>2, <1>3 DEF ReferralInv

LEMMA ReferralStepInv == ReferralInv /\ [ReferralNext]_referralVars => ReferralInv'
<1> SUFFICES ASSUME ReferralInv, [ReferralNext]_referralVars PROVE ReferralInv'
  OBVIOUS
<1> USE ReferralAssumption
    DEF ReferralInv, ReferralTypeOK, RequestsAreFriends, FirstQualifies, Qualifies
<1>1. ASSUME NEW u \in Member, AcceptReads(u) PROVE ReferralInv'
  BY <1>1 DEF AcceptReads
<1>11. ASSUME NEW u \in Member, AcceptWrites(u) PROVE ReferralInv'
  BY <1>11 DEF AcceptWrites
<1>2. ASSUME NEW p \in Purchase, PurchaseCompletes(p) PROVE ReferralInv'
  BY <1>2 DEF PurchaseCompletes
<1>3. ASSUME NEW p \in Purchase, QualifyReads(p) \/ QualifyChecks(p) PROVE ReferralInv'
  BY <1>3 DEF QualifyReads, QualifyChecks
<1>4. ASSUME NEW p \in Purchase, QualifyWrites(p) PROVE ReferralInv'
  BY <1>4 DEF QualifyWrites
<1>5. CASE RewardReads
  BY <1>5 DEF RewardReads
<1>6. CASE RewardWrites
  BY <1>6 DEF RewardWrites, RewardStatus
<1>7. CASE ReferralCallFails
  <2>1. UNCHANGED <<payer, completed, referral, starReward>>
    BY <1>7 DEF ReferralCallFails
  <2>2. ASSUME NEW u \in accepting, accepting' = accepting \ {u}, UNCHANGED <<qualifying, rewarding>>
        PROVE ReferralInv'
    BY <2>1, <2>2
  <2>3. ASSUME NEW p \in Purchase, qualifying' = [qualifying EXCEPT ![p] = "no"],
               UNCHANGED <<accepting, rewarding>>
        PROVE ReferralInv'
    BY <2>1, <2>3
  <2>4. ASSUME rewarding' = FALSE, UNCHANGED <<accepting, qualifying>>
        PROVE ReferralInv'
    BY <2>1, <2>4
  <2> QED
    BY <1>7, <2>2, <2>3, <2>4 DEF ReferralCallFails
<1>8. ASSUME NEW status \in RewardStatus, CreateReward(status) PROVE ReferralInv'
  BY <1>8 DEF CreateReward, RewardStatus
<1>9. ASSUME NEW status \in {"MINTED", "REVERSED"}, SetRewardStatus(status)
      PROVE ReferralInv'
  BY <1>9 DEF SetRewardStatus, RewardStatus
<1>10. CASE UNCHANGED referralVars
  BY <1>10 DEF referralVars
<1> QED
  BY <1>1, <1>2, <1>3, <1>4, <1>5, <1>6, <1>7, <1>8, <1>9, <1>10, <1>11
     DEF ReferralNext

\* A referral that counts, or has earned, rests on a completed payment of
\* somebody other than the inviter (referrals.service.ts:45-160).
THEOREM AlwaysRewardedForAFriend == ReferralSpec => []RewardedForAFriend
<1>1. ReferralInv => RewardedForAFriend
  BY DEF ReferralInv, FirstQualifies, Qualifies, RewardedForAFriend
<1> QED
  BY ReferralInitInv, ReferralStepInv, <1>1, PTL DEF ReferralSpec

-----------------------------------------------------------------------------
(* Reviews of merchants                                                    *)

\* The database has recorded what a call of op tells the contract; it stays
\* recorded in mrow.approvedAt and mrow.rejected.
Recorded(op) == /\ op \in Operation
                /\ op = "approve" => mrow.approvedAt
                /\ op = "reject" => mrow.rejected

\* Whoever is past the row's write, and every call on its way, is recorded.
CallsRecorded ==
  /\ \A a \in Reviewer :
       /\ review[a].at # "idle" => review[a].op \in Operation
       /\ review[a].at \notin {"idle", "asked"} => Recorded(review[a].op)
       /\ review[a].tx = "flying" => Recorded(review[a].op)
  /\ \A op \in lateCalls : Recorded(op)

MerchantInv == MerchantTypeOK /\ CallsRecorded /\ ChainFollowsReview

LEMMA MerchantInitInv == MerchantInit => MerchantInv
<1> SUFFICES ASSUME MerchantInit PROVE MerchantInv
  OBVIOUS
<1>1. MerchantTypeOK
  BY PollLimitAssumption DEF MerchantInit, MerchantTypeOK, NoReview, RowStatus
<1> QED
  BY <1>1 DEF MerchantInit, MerchantInv, CallsRecorded, ChainFollowsReview, NoReview

\* Writes of the row record more, never less.
LEMMA RowAfterRecords ==
  ASSUME MerchantInv, NEW status \in RowStatus, mrow' = RowAfter(status)
  PROVE  /\ mrow' \in [status : RowStatus, approvedAt : BOOLEAN, rejected : BOOLEAN]
         /\ mrow.approvedAt => mrow'.approvedAt
         /\ mrow.rejected => mrow'.rejected
         /\ mrow'.status = "APPROVED" => mrow'.approvedAt
         /\ status = "APPROVED" => mrow'.approvedAt
         /\ status = "REJECTED" => mrow'.rejected
BY DEF MerchantInv, MerchantTypeOK, RowAfter

\* What the contract may say after a recorded call.
LEMMA LedgeredFollows ==
  ASSUME MerchantInv, NEW op, Recorded(op), NEW applied \in BOOLEAN,
         Ledgered(op, applied), mrow' = mrow
  PROVE  /\ onChain' \in {"Absent", "Pending", "Approved", "Rejected", "Suspended"}
         /\ ChainFollowsReview'
<1> USE DEF MerchantInv, MerchantTypeOK, ChainFollowsReview, Recorded, Ledgered
<1>1. CASE ~applied
  BY <1>1
<1>2. CASE applied /\ op = "approve"
  BY <1>2 DEF LeadsTo
<1>3. CASE applied /\ op = "reject"
  BY <1>3 DEF LeadsTo
<1>4. CASE applied /\ op = "suspend"
  BY <1>4 DEF LeadsTo, Accepts
<1> QED
  BY <1>1, <1>2, <1>3, <1>4 DEF Operation

LEMMA MerchantStepInv == MerchantInv /\ [MerchantNext]_merchantVars => MerchantInv'
<1> SUFFICES ASSUME MerchantInv, [MerchantNext]_merchantVars PROVE MerchantInv'
  OBVIOUS
<1> USE PollLimitAssumption DEF MerchantInv, MerchantTypeOK, CallsRecorded
<1>1. ASSUME NEW a \in Reviewer, NEW op \in Operation, AskReview(a, op) PROVE MerchantInv'
  BY <1>1 DEF AskReview, Recorded, ChainFollowsReview
<1>2. ASSUME NEW a \in Reviewer, NEW logged \in BOOLEAN, WriteRow(a, logged)
      PROVE MerchantInv'
  <2>1. review[a].op \in Operation /\ NewStatus[review[a].op] \in RowStatus
    BY <1>2 DEF WriteRow, Operation, NewStatus, RowStatus
  <2>2. /\ mrow' \in [status : RowStatus, approvedAt : BOOLEAN, rejected : BOOLEAN]
        /\ mrow.approvedAt => mrow'.approvedAt
        /\ mrow.rejected => mrow'.rejected
        /\ mrow'.status = "APPROVED" => mrow'.approvedAt
        /\ review[a].op = "approve" => mrow'.approvedAt
        /\ review[a].op = "reject" => mrow'.rejected
    BY <1>2, <2>1, RowAfterRecords DEF WriteRow, NewStatus, Operation
  <2> QED
    BY <1>2, <2>1, <2>2 DEF WriteRow, Written, NoReview, Recorded, ChainFollowsReview
<1>3. ASSUME NEW a \in Reviewer, LookUpMerchant(a) PROVE MerchantInv'
  BY <1>3 DEF LookUpMerchant, Recorded, ChainFollowsReview
<1>4. ASSUME NEW a \in Reviewer, RegisterOnChain(a) PROVE MerchantInv'
  BY <1>4 DEF RegisterOnChain, NoReview, Recorded, ChainFollowsReview
<1>5. ASSUME NEW a \in Reviewer, SendCall(a) PROVE MerchantInv'
  BY <1>5 DEF SendCall, NoReview, Recorded, ChainFollowsReview
<1>6. ASSUME NEW a \in Reviewer, NEW applied \in BOOLEAN, CallLands(a, applied)
      PROVE MerchantInv'
  BY <1>6, LedgeredFollows DEF CallLands, Recorded
<1>7. ASSUME NEW op \in Operation, NEW applied \in BOOLEAN, LateCallLands(op, applied)
      PROVE MerchantInv'
  BY <1>7, LedgeredFollows DEF LateCallLands, Recorded
<1>8. ASSUME NEW a \in Reviewer, PollCall(a) PROVE MerchantInv'
  <2>1. review[a].op \in Operation /\ Recorded(review[a].op)
    BY <1>8 DEF PollCall
  <2>2. CASE /\ review[a].polls + 1 < PollLimit
             /\ review' = [review EXCEPT ![a].polls = @ + 1] /\ UNCHANGED lateCalls
    <3>1. review[a].polls + 1 \in 0 .. PollLimit
      BY <2>2
    <3> QED
      BY <1>8, <2>2, <3>1 DEF PollCall, Recorded, ChainFollowsReview
  <2>3. CASE /\ review' = [review EXCEPT ![a] = NoReview]
             /\ lateCalls' \in {lateCalls, lateCalls \cup {review[a].op}}
    BY <1>8, <2>1, <2>3 DEF PollCall, NoReview, Recorded, ChainFollowsReview
  <2> QED
    BY <1>8, <2>2, <2>3 DEF PollCall
<1>9. ASSUME NEW status \in RowStatus, MerchantsApi(status) PROVE MerchantInv'
  BY <1>9, RowAfterRecords DEF MerchantsApi, Recorded, ChainFollowsReview
<1>10. CASE RegisteredByHand
  BY <1>10 DEF RegisteredByHand, Recorded, ChainFollowsReview
<1>11. CASE UNCHANGED merchantVars
  BY <1>11 DEF merchantVars, Recorded, ChainFollowsReview
<1> QED
  BY <1>1, <1>2, <1>3, <1>4, <1>5, <1>6, <1>7, <1>8, <1>9, <1>10, <1>11
     DEF MerchantNext, ReviewStep

\* The registry never runs ahead of the database, however many reviews overlap,
\* give up on their calls and land late (admin.service.ts:104-195).
THEOREM ChainAlwaysFollowsReview == MerchantSpec => []ChainFollowsReview
<1>1. MerchantInv => ChainFollowsReview
  BY DEF MerchantInv
<1> QED
  BY MerchantInitInv, MerchantStepInv, <1>1, PTL DEF MerchantSpec

-----------------------------------------------------------------------------
(* The pay page                                                            *)

\* Until lookups of two addresses overlap, every lookup under way is of the
\* address on the page, and a second answer finds what the first one wrote.
LookupsAgree ==
  ~mixed => \A s \in Scan :
    /\ InFlight(s) => scan[s].vpa = sheet.vpa
    /\ scan[s].at = "status" => /\ sheet.payee = sheet.vpa
                               /\ sheet.merchant \in {sheet.vpa, NoVpa}

PayInv == PayTypeOK /\ LookupsAgree /\ PayeeIsVpa

LEMMA PayInitInv == PayInit => PayInv
<1> SUFFICES ASSUME PayInit PROVE PayInv
  OBVIOUS
<1>1. PayTypeOK
  BY DEF PayInit, PayTypeOK
<1>2. LookupsAgree /\ PayeeIsVpa
  BY DEF PayInit, LookupsAgree, PayeeIsVpa, InFlight
<1> QED
  BY <1>1, <1>2 DEF PayInv

LEMMA PayStepInv == PayInv /\ [PayNext]_payVars => PayInv'
<1> SUFFICES ASSUME PayInv, [PayNext]_payVars PROVE PayInv'
  OBVIOUS
<1> USE PayAssumption DEF PayInv, PayTypeOK, LookupsAgree, PayeeIsVpa, InFlight
<1>1. ASSUME NEW s \in Scan, NEW v \in Vpa, NEW amount \in BOOLEAN, HandleScan(s, v, amount)
      PROVE PayInv'
  BY <1>1 DEF HandleScan
<1>2. ASSUME NEW s \in Scan, MerchantFound(s) PROVE PayInv'
  BY <1>2 DEF MerchantFound
<1>3. ASSUME NEW s \in Scan, LookupFails(s) PROVE PayInv'
  BY <1>3 DEF LookupFails
<1>4. ASSUME NEW s \in Scan, NEW approved \in IsMerchantApproved(scan[s].vpa),
             StatusAnswered(s, approved)
      PROVE PayInv'
  BY <1>4 DEF StatusAnswered, IsMerchantApproved
<1>5. ASSUME NEW amount \in BOOLEAN, EnterAmount(amount) PROVE PayInv'
  BY <1>5 DEF EnterAmount
<1>6. CASE GetQuote \/ ConfirmPayment \/ BackwardStep
  BY <1>6 DEF GetQuote, ConfirmPayment, BackwardStep, ShowStep
<1>7. CASE UNCHANGED payVars
  BY <1>7 DEF payVars
<1> QED
  BY <1>1, <1>2, <1>3, <1>4, <1>5, <1>6, <1>7 DEF PayNext

\* Name, merchant and badge are those of the address that would be paid, unless
\* lookups of two addresses overlapped (pay/page.tsx:100-190).
THEOREM PayeeAlwaysIsVpa == PaySpec => []PayeeIsVpa
<1>1. PayInv => PayeeIsVpa
  BY DEF PayInv
<1> QED
  BY PayInitInv, PayStepInv, <1>1, PTL DEF PaySpec

-----------------------------------------------------------------------------
(* The receipt page                                                        *)

\* The page asks again exactly while the status it shows is an active one.
ShownIsAsked ==
  /\ receipt.at = "waiting" => receipt.shown \in Active
  /\ receipt.at = "stopped" => receipt.shown \in Ended

ReceiptPage == [at : {"loading", "waiting", "stopped", "missing"}, tries : 0 .. 1,
                shown : TxStatus \cup {"none"}, read : TxStatus \cup {"none"}]

ReceiptInv == ReceiptTypeOK /\ ShownIsAsked

LEMMA PageGoesOn ==
  ASSUME receipt \in ReceiptPage,
         NEW at \in {"loading", "waiting", "stopped", "missing"}, NEW tries \in 0 .. 1
  PROVE  LET next == [receipt EXCEPT !.at = at, !.read = "none", !.tries = tries]
         IN  next \in ReceiptPage /\ next.at = at /\ next.shown = receipt.shown
BY DEF ReceiptPage

LEMMA PageTriesAgain ==
  ASSUME receipt \in ReceiptPage, NEW tries \in 0 .. 1
  PROVE  LET next == [receipt EXCEPT !.tries = tries, !.read = "none"]
         IN  next \in ReceiptPage /\ next.at = receipt.at /\ next.shown = receipt.shown
BY DEF ReceiptPage

LEMMA Statuses ==
  TxStatus = {"CREATED", "QUOTED", "AUTHORIZED", "CONVERTING", "ROUTING_STELLAR", "SETTLING",
              "REWARDING", "COMPLETED", "FAILED", "CANCELLED"}
<1>1. DOMAIN StatusOrder = 1 .. 8
  BY DEF StatusOrder
<1>2. {StatusOrder[k] : k \in 1 .. 8} =
        {"CREATED", "QUOTED", "AUTHORIZED", "CONVERTING", "ROUTING_STELLAR", "SETTLING",
         "REWARDING", "COMPLETED"}
  BY DEF StatusOrder
<1> QED
  BY <1>1, <1>2 DEF TxStatus, Ended

LEMMA ReceiptInitInv == ReceiptInit => ReceiptInv
BY Statuses, ReceiptAssumption
   DEF ReceiptInit, ReceiptInv, ReceiptTypeOK, ShownIsAsked

LEMMA ReceiptStepInv == ReceiptInv /\ [ReceiptNext]_receiptVars => ReceiptInv'
<1> SUFFICES ASSUME ReceiptInv, [ReceiptNext]_receiptVars PROVE ReceiptInv'
  OBVIOUS
<1> USE ReceiptAssumption DEF ReceiptInv, ReceiptTypeOK, ShownIsAsked
<1>0. Active \cup Ended = TxStatus /\ "none" \notin TxStatus /\ "CANCELLED" \in TxStatus
  BY Statuses DEF Active, Ended
<1>1. ASSUME NEW status \in TxStatus, RowMoves(status) PROVE ReceiptInv'
  BY <1>1 DEF RowMoves
<1>2. CASE IntervalEnds \/ CancelAnswered
  <2>1. Load \in ReceiptPage /\ Load.at = "loading"
    BY PageGoesOn DEF Load, ReceiptPage
  <2>2. receipt' = Load /\ row' = row /\ moves' = moves /\ loadFaults' = loadFaults
        /\ cancel' \in {cancel, "idle"}
    BY <1>2 DEF IntervalEnds, CancelAnswered
  <2> QED
    BY <2>1, <2>2 DEF ReceiptPage
<1>3. CASE RowRead
  BY <1>3 DEF RowRead
<1>4. CASE RowShown
  BY <1>0, <1>4 DEF RowShown, Resting
<1>5. CASE LoadFails
  <2>0. /\ UNCHANGED <<row, moves, cancel>> /\ loadFaults' = loadFaults + 1
        /\ receipt.at = "loading" /\ loadFaults < LoadFaults
    BY <1>5 DEF LoadFails
  <2>1. /\ UNCHANGED <<row, moves, cancel>> /\ loadFaults' \in 0 .. LoadFaults
        /\ receipt.at = "loading"
    BY <2>0
  <2>2. CASE receipt' = [receipt EXCEPT !.tries = 1, !.read = "none"]
    <3> DEFINE again == [receipt EXCEPT !.tries = 1, !.read = "none"]
    <3>1. again \in ReceiptPage /\ again.at = "loading"
      <4>1. receipt \in ReceiptPage /\ 1 \in 0 .. 1
        BY DEF ReceiptPage
      <4> QED
        BY <2>1, <4>1, PageTriesAgain
    <3>2. receipt' = again
      BY <2>2
    <3> HIDE DEF again
    <3> QED
      BY <2>1, <3>1, <3>2 DEF ReceiptPage
  <2>3. ASSUME NEW rest \in {"missing", "waiting", "stopped"},
               receipt' = [receipt EXCEPT !.read = "none", !.at = rest],
               rest = "waiting" => receipt.shown \in Active,
               rest = "stopped" => receipt.shown \in Ended
        PROVE ReceiptInv'
    BY <2>1, <2>3
  <2>4. CASE receipt.tries = 0
    BY <1>5, <2>2, <2>4 DEF LoadFails
  <2>5. CASE receipt.tries # 0
    <3> DEFINE rest == IF receipt.shown = "none" THEN "missing" ELSE Resting(receipt.shown)
    <3>1. receipt' = [receipt EXCEPT !.read = "none", !.at = rest]
      BY <1>5, <2>5 DEF LoadFails
    <3>2. /\ rest \in {"missing", "waiting", "stopped"}
          /\ rest = "waiting" => receipt.shown \in Active
          /\ rest = "stopped" => receipt.shown \in Ended
      BY <1>0 DEF Resting
    <3> HIDE DEF rest
    <3> QED
      BY <2>3, <3>1, <3>2
  <2> QED
    BY <2>4, <2>5
<1>6. CASE CancelClicked \/ CancelChecked \/ CancelWritten
  BY <1>0, <1>6 DEF CancelClicked, CancelChecked, CancelWritten
<1>7. CASE UNCHANGED receiptVars
  BY <1>7 DEF receiptVars
<1> QED
  BY <1>1, <1>2, <1>3, <1>4, <1>5, <1>6, <1>7 DEF ReceiptNext, ReceiptStep

\* The page waits to ask again while it shows an active status, and has stopped
\* only when it shows that the payment ended, whatever loads fail and whatever a
\* cancel interrupts (history/[id]/page.tsx:49-53): all of EndIsShown that
\* needs no fairness.
THEOREM ShownAlwaysAsked == ReceiptSpec => []ShownIsAsked
<1>1. ReceiptInv => ShownIsAsked
  BY DEF ReceiptInv
<1> QED
  BY ReceiptInitInv, ReceiptStepInv, <1>1, PTL DEF ReceiptSpec

-----------------------------------------------------------------------------
(* Rates and tokens that are kept between calls                            *)

\* Live rates are no older than their age says.
AgeIsHonest == rates.kind = "live" => rates.time <= rates.seen

CachesInv == CachesTypeOK /\ AgeIsHonest /\ FreshWhenUsed

LEMMA CachesInitInv == CachesInit => CachesInv
BY CachesAssumption
   DEF CachesInit, CachesInv, CachesTypeOK, Kind, AgeIsHonest, FreshWhenUsed

\* What a quote or a request to the provider gets, and what the others got.
LEMMA ServedFresh ==
  ASSUME CachesInv, NEW q \in Quote, NEW at \in {"served", "failed"}, NEW begun \in Nat,
         NEW kept \in [kind : Kind, seen : Nat, time : Nat], Serve(q, at, begun, kept),
         at = "served" /\ kept.kind = "live" => begun < kept.seen + RateLife,
         rates' \in [kind : Kind, seen : Nat, time : Nat], AgeIsHonest',
         UNCHANGED <<now, bearer, payout>>
  PROVE  CachesInv'
<1> DEFINE r == [at |-> at, begun |-> begun, kind |-> kept.kind, seen |-> kept.seen]
<1>1. /\ r.at = at /\ r.begun = begun /\ r.kind = kept.kind /\ r.seen = kept.seen
      /\ r \in [at : {"idle", "fetching", "served", "failed"}, begun : Nat, kind : Kind, seen : Nat]
      /\ quote' = [quote EXCEPT ![q] = r]
  BY DEF Serve
<1> HIDE DEF r
<1>2. CachesTypeOK'
  BY <1>1 DEF CachesInv, CachesTypeOK
<1>3. ASSUME NEW p \in Quote, quote'[p].at = "served", quote'[p].kind = "live"
      PROVE  quote'[p].begun < quote'[p].seen + RateLife
  <2>1. CASE p = q
    BY <1>1, <1>3, <2>1 DEF CachesInv, CachesTypeOK
  <2>2. CASE p # q
    BY <1>1, <1>3, <2>2 DEF CachesInv, CachesTypeOK, FreshWhenUsed
  <2> QED
    BY <2>1, <2>2
<1> QED
  BY <1>2, <1>3 DEF CachesInv, FreshWhenUsed

LEMMA SentFresh ==
  ASSUME CachesInv, NEW p \in Payout, NEW begun \in Nat,
         NEW kept \in [held : BOOLEAN, issued : Nat, expiry : Nat],
         SendWith(p, kept, begun),
         now < kept.issued + TokenTerm \/ kept.issued + TokenTerm + Buffer < kept.expiry,
         bearer' \in [held : BOOLEAN, issued : Nat, expiry : Nat],
         UNCHANGED <<now, rates, quote>>
  PROVE  CachesInv'
<1> DEFINE r == [at |-> "sent", begun |-> begun, issued |-> kept.issued,
                 expiry |-> kept.expiry, sent |-> now]
<1>1. /\ r.at = "sent" /\ r.issued = kept.issued /\ r.expiry = kept.expiry /\ r.sent = now
      /\ r \in [at : {"idle", "fetching", "sent", "threw"}, begun : Nat,
                issued : Nat, expiry : Nat, sent : Nat]
      /\ payout' = [payout EXCEPT ![p] = r]
  BY DEF SendWith, CachesInv, CachesTypeOK
<1> HIDE DEF r
<1>2. CachesTypeOK' /\ AgeIsHonest'
  BY <1>1 DEF CachesInv, CachesTypeOK, AgeIsHonest
<1>3. ASSUME NEW o \in Payout, payout'[o].at = "sent"
      PROVE  \/ payout'[o].sent < payout'[o].issued + TokenTerm
             \/ payout'[o].issued + TokenTerm + Buffer < payout'[o].expiry
  <2>1. CASE o = p
    BY <1>1, <2>1 DEF CachesInv, CachesTypeOK
  <2>2. CASE o # p
    BY <1>1, <1>3, <2>2 DEF CachesInv, CachesTypeOK, FreshWhenUsed
  <2> QED
    BY <2>1, <2>2
<1> QED
  BY <1>2, <1>3 DEF CachesInv, FreshWhenUsed

\* A call that waits for an answer, or gets none, has got nothing.
LEMMA FetchFresh ==
  ASSUME CachesInv, UNCHANGED <<rates, bearer>>, now' \in Nat,
         quote' = quote \/ \E q \in Quote :
           quote' = [quote EXCEPT ![q].at = "fetching", ![q].begun = now],
         payout' = payout \/ \E p \in Payout :
           \/ payout' = [payout EXCEPT ![p].at = "fetching", ![p].begun = now]
           \/ payout' = [payout EXCEPT ![p].at = "threw"]
  PROVE  CachesInv'
<1>1. now \in Nat
  BY DEF CachesInv, CachesTypeOK
<1> DEFINE Q == [at : {"idle", "fetching", "served", "failed"}, begun : Nat,
                 kind : Kind, seen : Nat]
           P == [at : {"idle", "fetching", "sent", "threw"}, begun : Nat,
                 issued : Nat, expiry : Nat, sent : Nat]
<1>2. /\ quote' \in [Quote -> Q]
      /\ \A q \in Quote : quote'[q].at = "served" => quote'[q] = quote[q]
  <2>1. quote \in [Quote -> Q]
    BY DEF CachesInv, CachesTypeOK
  <2>2. ASSUME NEW q \in Quote, quote' = [quote EXCEPT ![q].at = "fetching", ![q].begun = now]
        PROVE  /\ quote' \in [Quote -> Q]
               /\ \A o \in Quote : quote'[o].at = "served" => quote'[o] = quote[o]
    BY <1>1, <2>1, <2>2
  <2> QED
    BY <2>1, <2>2
<1>3. /\ payout' \in [Payout -> P]
      /\ \A p \in Payout : payout'[p].at = "sent" => payout'[p] = payout[p]
  <2>1. payout \in [Payout -> P]
    BY DEF CachesInv, CachesTypeOK
  <2>2. ASSUME NEW p \in Payout,
               \/ payout' = [payout EXCEPT ![p].at = "fetching", ![p].begun = now]
               \/ payout' = [payout EXCEPT ![p].at = "threw"]
        PROVE  /\ payout' \in [Payout -> P]
               /\ \A o \in Payout : payout'[o].at = "sent" => payout'[o] = payout[o]
    BY <1>1, <2>1, <2>2
  <2> QED
    BY <2>1, <2>2
<1>4. CachesTypeOK' /\ AgeIsHonest'
  BY <1>2, <1>3 DEF CachesInv, CachesTypeOK, AgeIsHonest
<1> QED
  BY <1>2, <1>3, <1>4 DEF CachesInv, FreshWhenUsed

LEMMA RateStepFresh ==
  ASSUME CachesInv, NEW q \in Quote,
         \/ GetLiveRates(q) \/ RatesMissing(q) \/ RatesFail(q)
         \/ \E seen \in RateLife .. RateLife + Horizon : RatesArrive(q, seen)
  PROVE  CachesInv'
<1> USE CachesAssumption
<1>1. /\ now \in Nat /\ rates \in [kind : Kind, seen : Nat, time : Nat]
      /\ quote[q].begun \in Nat
  BY DEF CachesInv, CachesTypeOK
<1>2. CASE GetLiveRates(q)
  <2>1. CASE rates.kind # "empty" /\ now < rates.time + RateLife
    <3>1. Serve(q, "served", now, rates) /\ UNCHANGED <<now, rates, bearer, payout>>
      BY <1>2, <2>1 DEF GetLiveRates
    <3>2. rates.kind = "live" => now < rates.seen + RateLife
      BY <1>1, <2>1 DEF CachesInv, AgeIsHonest
    <3>3. AgeIsHonest'
      BY <3>1 DEF CachesInv, AgeIsHonest
    <3> QED
      BY <1>1, <3>1, <3>2, <3>3, ServedFresh
  <2>2. CASE ~(rates.kind # "empty" /\ now < rates.time + RateLife)
    BY <1>1, <1>2, <2>2, FetchFresh DEF GetLiveRates
  <2> QED
    BY <2>1, <2>2
<1>3. ASSUME NEW seen \in RateLife .. RateLife + Horizon, RatesArrive(q, seen)
      PROVE  CachesInv'
  <2>1. /\ quote[q].begun <= seen /\ seen \in Nat
        /\ rates' = [kind |-> "live", seen |-> seen, time |-> quote[q].begun]
        /\ Serve(q, "served", quote[q].begun, rates') /\ UNCHANGED <<now, bearer, payout>>
    BY <1>3 DEF RatesArrive
  <2>2. /\ rates' \in [kind : Kind, seen : Nat, time : Nat] /\ AgeIsHonest'
        /\ rates'.seen = seen
    BY <1>1, <2>1 DEF Kind, AgeIsHonest
  <2>3. quote[q].begun < rates'.seen + RateLife
    BY <1>1, <2>1, <2>2
  <2> QED
    BY <1>1, <2>1, <2>2, <2>3, ServedFresh
<1>4. CASE RatesMissing(q)
  <2>1. /\ rates' = [kind |-> "static", seen |-> 0, time |-> quote[q].begun]
        /\ Serve(q, "served", quote[q].begun, rates') /\ UNCHANGED <<now, bearer, payout>>
    BY <1>4 DEF RatesMissing
  <2>2. /\ rates' \in [kind : Kind, seen : Nat, time : Nat] /\ AgeIsHonest'
        /\ rates'.kind = "static"
    BY <1>1, <2>1 DEF Kind, AgeIsHonest
  <2> QED
    BY <1>1, <2>1, <2>2, ServedFresh
<1>5. CASE RatesFail(q)
  <2>1. /\ Serve(q, "failed", quote[q].begun, rates') /\ UNCHANGED <<now, bearer, payout>>
        /\ rates' = IF rates.kind = "empty" THEN [rates EXCEPT !.kind = "static"] ELSE rates
    BY <1>5 DEF RatesFail
  <2>2. rates' \in [kind : Kind, seen : Nat, time : Nat] /\ AgeIsHonest'
    BY <1>1, <2>1 DEF Kind, AgeIsHonest, CachesInv
  <2> QED
    BY <1>1, <2>1, <2>2, ServedFresh
<1> QED
  BY <1>2, <1>3, <1>4, <1>5

LEMMA BearerStepFresh ==
  ASSUME CachesInv, NEW p \in Payout,
         \/ GetAccessToken(p) \/ AuthFails(p)
         \/ \E issued \in RateLife .. RateLife + Horizon : TokenAnswered(p, issued)
  PROVE  CachesInv'
<1> USE CachesAssumption
<1>1. /\ now \in Nat /\ bearer \in [held : BOOLEAN, issued : Nat, expiry : Nat]
      /\ payout[p].begun \in Nat
  BY DEF CachesInv, CachesTypeOK
<1>2. CASE GetAccessToken(p)
  <2>1. CASE bearer.held /\ now + Buffer < bearer.expiry
    <3>1. SendWith(p, bearer, now) /\ UNCHANGED <<now, rates, quote, bearer>>
      BY <1>2, <2>1 DEF GetAccessToken
    <3>2. now < bearer.issued + TokenTerm \/ bearer.issued + TokenTerm + Buffer < bearer.expiry
      BY <1>1, <2>1
    <3> QED
      BY <1>1, <3>1, <3>2, SentFresh
  <2>2. CASE ~(bearer.held /\ now + Buffer < bearer.expiry)
    BY <1>1, <1>2, <2>2, FetchFresh DEF GetAccessToken
  <2> QED
    BY <2>1, <2>2
<1>3. CASE AuthFails(p)
  BY <1>1, <1>3, FetchFresh DEF AuthFails
<1>4. ASSUME NEW issued \in RateLife .. RateLife + Horizon, TokenAnswered(p, issued)
      PROVE  CachesInv'
  <2>1. /\ issued <= now /\ issued \in Nat
        /\ bearer' = [held |-> TRUE, issued |-> issued, expiry |-> now + TokenTerm]
        /\ SendWith(p, bearer', payout[p].begun) /\ UNCHANGED <<now, rates, quote>>
    BY <1>4 DEF TokenAnswered
  <2>2. /\ bearer' \in [held : BOOLEAN, issued : Nat, expiry : Nat]
        /\ bearer'.issued = issued /\ bearer'.expiry = now + TokenTerm
    BY <1>1, <2>1
  <2>3. now < issued + TokenTerm \/ issued + TokenTerm + Buffer < now + TokenTerm
    BY <1>1, <2>1
  <2> QED
    BY <1>1, <2>1, <2>2, <2>3, SentFresh
<1> QED
  BY <1>2, <1>3, <1>4

LEMMA CachesStepInv == CachesInv /\ [CachesNext]_cacheVars => CachesInv'
<1> SUFFICES ASSUME CachesInv, [CachesNext]_cacheVars PROVE CachesInv'
  OBVIOUS
<1>1. CASE TimeGoesOn
  <2>1. now' \in Nat
    BY <1>1 DEF TimeGoesOn, CachesInv, CachesTypeOK
  <2> QED
    BY <1>1, <2>1, FetchFresh DEF TimeGoesOn
<1>2. CASE RateStep
  BY <1>2, RateStepFresh DEF RateStep
<1>3. CASE BearerStep
  BY <1>3, BearerStepFresh DEF BearerStep
<1>4. CASE UNCHANGED cacheVars
  <2>1. now' \in Nat
    BY <1>4 DEF cacheVars, CachesInv, CachesTypeOK
  <2> QED
    BY <1>4, <2>1, FetchFresh DEF cacheVars
<1> QED
  BY <1>1, <1>2, <1>3, <1>4 DEF CachesNext

\* No quote gets prices a minute or more older than its call unless CoinGecko
\* failed it, and no request carries an expired token that was issued within
\* the buffer of its answer, for any number of calls and any lives
\* (transactions.service.ts:52-81, settlement.service.ts:70-101).
THEOREM AlwaysFreshWhenUsed == CachesSpec => []FreshWhenUsed
<1>1. CachesInv => FreshWhenUsed
  BY DEF CachesInv
<1> QED
  BY CachesInitInv, CachesStepInv, <1>1, PTL DEF CachesSpec

-----------------------------------------------------------------------------
(* Status loops of the ramps                                               *)

\* Only a page that polls, or has polled, has loops; a page nobody opened does
\* nothing.
PollsWhenShown ==
  \A v \in Visit :
    /\ poll[v] # "off" \/ loops[v] # {} => page[v].step \in {"polling", "done"} /\ page[v].await = "nothing"
    /\ v > shownPage => page[v].step = "closed" /\ page[v].await = "nothing"

\* A loop that sleeps was answered, and has requests left; how long a loop has
\* lived follows from the answers it got and the one it awaits.
LoopsOnTime ==
  \A v \in Visit :
    /\ due[v] \subseteq loops[v]
    /\ \A l \in due[v] : l.age <= l.tries + (l.tries + 1) * Latency
    /\ \A l \in loops[v] \ due[v] : l.tries >= 1 /\ l.age <= l.tries - 1 + l.tries * Latency

\* Loops are three ticks apart, and the age of the youngest one follows the
\* client's timers.
Spaced(S) == \A k, l \in S : k # l => k.age + 3 <= l.age \/ l.age + 3 <= k.age

AgesAllow(p, S) ==
  \A l \in S : /\ p = "waiting" => l.age = 0 \/ l.age >= 3
               /\ p = "late" => l.age = 1 \/ l.age >= 4
               /\ p = "armed" => l.age >= 2

LoopsSpaced == \A v \in Visit : Spaced(loops[v]) /\ AgesAllow(poll[v], loops[v])

RampInv == RampTypeOK /\ PollsWhenShown /\ LoopsOnTime /\ LoopsSpaced

\* A loop that makes more requests may wait longer for their answers.
LEMMA WaitGrows ==
  ASSUME NEW m \in Nat, NEW n \in Nat, m <= n
  PROVE  m * Latency \in Nat /\ n * Latency \in Nat /\ m * Latency <= n * Latency
<1>1. Latency \in Nat /\ n - m \in Nat
  BY RampAssumption
<1>2. n * Latency = m * Latency + (n - m) * Latency
  BY <1>1
<1>3. m * Latency \in Nat /\ (n - m) * Latency \in Nat
  BY <1>1
<1> QED
  BY <1>2, <1>3

LEMMA LifeIsNat == Life \in Nat /\ NewLoop \in StatusLoop
<1>1. MaxRetries \in Nat /\ MaxRetries >= 3 /\ MaxRetries * Latency \in Nat
  BY RampAssumption, WaitGrows
<1>2. Life \in Nat
  BY <1>1 DEF Life
<1> QED
  BY <1>1, <1>2 DEF NewLoop, StatusLoop

LEMMA RampInitInv == RampInit => RampInv
<1> SUFFICES ASSUME RampInit PROVE RampInv
  OBVIOUS
<1> USE RampAssumption DEF RampInit
<1>1. RampTypeOK
  BY DEF RampTypeOK, PageType, PollStep
<1>2. PollsWhenShown /\ LoopsOnTime
  BY DEF PollsWhenShown, LoopsOnTime
<1>3. LoopsSpaced
  BY DEF LoopsSpaced, Spaced, AgesAllow
<1> QED
  BY <1>1, <1>2, <1>3 DEF RampInv

\* A page that has no loops goes from step to step.
LEMMA PageGoes ==
  ASSUME RampInv, NEW v \in Visit, poll[v] = "off", loops[v] = {}, v <= shownPage,
         NEW step \in {"amount", "trustline", "loading", "anchor", "error"},
         NEW await \in {"nothing", "trustline", "changeTrust", "authenticate", "initiate"},
         Goto(v, step, await), anchor' \in [Visit -> {"none", "pending"} \cup Terminal],
         UNCHANGED <<shownPage, poll, loops, due, refused>>
  PROVE  RampInv'
<1>1. page \in [Visit -> PageType] /\ shownPage \in Nat
  BY RampAssumption DEF RampInv, RampTypeOK
<1> DEFINE r == [page[v] EXCEPT !.step = step, !.await = await]
<1>2. page' = [page EXCEPT ![v] = r] /\ r \in PageType
  BY <1>1 DEF Goto, PageType
<1> HIDE DEF r
<1>3. RampTypeOK'
  BY <1>1, <1>2 DEF RampInv, RampTypeOK
<1>4. PollsWhenShown'
  BY <1>1, <1>2 DEF RampInv, PollsWhenShown, Visit
<1>5. LoopsOnTime' /\ LoopsSpaced'
  BY DEF RampInv, LoopsOnTime, LoopsSpaced
<1> QED
  BY <1>3, <1>4, <1>5 DEF RampInv

\* A page that awaits an answer, or shows a button, has no loops.
LEMMA ButtonHasNoLoops ==
  ASSUME RampInv, NEW v \in Visit,
         \/ page[v].await # "nothing"
         \/ \E button : Pressed(v, button)
  PROVE  poll[v] = "off" /\ loops[v] = {} /\ v <= shownPage
<1>1. shownPage \in Nat /\ v \in Nat
  BY RampAssumption DEF RampInv, RampTypeOK, Visit
<1>2. CASE page[v].await # "nothing"
  BY <1>1, <1>2 DEF RampInv, PollsWhenShown
<1>3. ASSUME NEW button, Pressed(v, button)
      PROVE  poll[v] = "off" /\ loops[v] = {} /\ v <= shownPage
  BY <1>1, <1>3 DEF RampInv, PollsWhenShown, Pressed, OnRampButtons, OffRampButtons
<1> QED
  BY <1>2, <1>3

LEMMA PageStepInv ==
  ASSUME RampInv, NEW v \in Visit,
         \/ ContinueDeposit(v) \/ ContinueWithdrawal(v) \/ TryAgain(v)
         \/ HandleAddTrustline(v) \/ TrustlineAnswer(v) \/ TrustlineAdded(v)
         \/ CallFails(v) \/ Authenticated(v) \/ Initiated(v)
  PROVE  RampInv'
<1>1. page[v].await # "nothing" \/ \E button : Pressed(v, button)
  BY DEF ContinueDeposit, ContinueWithdrawal, TryAgain, HandleAddTrustline, TrustlineAnswer,
         TrustlineAdded, CallFails, Authenticated, Initiated
<1>2. poll[v] = "off" /\ loops[v] = {} /\ v <= shownPage
  BY <1>1, ButtonHasNoLoops
<1>3. anchor' \in [Visit -> {"none", "pending"} \cup Terminal]
  <2>1. anchor \in [Visit -> {"none", "pending"} \cup Terminal]
    BY DEF RampInv, RampTypeOK
  <2>2. anchor' = anchor \/ anchor' = [anchor EXCEPT ![v] = "pending"]
    BY DEF ContinueDeposit, ContinueWithdrawal, TryAgain, HandleAddTrustline, TrustlineAnswer,
           TrustlineAdded, CallFails, Authenticated, Initiated, serverVars
  <2> QED
    BY <2>1, <2>2
<1>4. /\ \E step \in {"amount", "trustline", "loading", "anchor", "error"},
            await \in {"nothing", "trustline", "changeTrust", "authenticate", "initiate"} :
           Goto(v, step, await)
      /\ UNCHANGED <<shownPage, poll, loops, due, refused>>
  BY DEF ContinueDeposit, ContinueWithdrawal, TryAgain, HandleAddTrustline, TrustlineAnswer,
         TrustlineAdded, CallFails, Authenticated, Initiated, serverVars
<1> QED
  BY <1>2, <1>3, <1>4, PageGoes

LEMMA OpenRampInv ==
  ASSUME RampInv, NEW ramp \in {"on", "off"}, OpenRamp(ramp)
  PROVE  RampInv'
<1>1. /\ page \in [Visit -> PageType] /\ shownPage \in 0 .. Visits /\ poll \in [Visit -> PollStep]
      /\ Visits \in Nat
  BY RampAssumption DEF RampInv, RampTypeOK
<1> DEFINE n == shownPage + 1
           r == [page[n] EXCEPT !.ramp = ramp, !.step = "amount"]
<1>2. n \in Visit /\ shownPage' = n /\ n > shownPage /\ n \in 0 .. Visits
  BY <1>1 DEF OpenRamp, Visit
<1>3. page' = [page EXCEPT ![n] = r] /\ r \in PageType
  BY <1>1, <1>2 DEF OpenRamp, PageType
<1>4. loops[n] = {} /\ poll[n] = "off"
  BY <1>2 DEF RampInv, PollsWhenShown
<1>5. ASSUME NEW v \in Visit
      PROVE  poll'[v] \in PollStep /\ poll'[v] \in {poll[v], "off"}
  BY <1>1, <1>5 DEF OpenRamp, PollStep
<1> HIDE DEF r
<1>6. RampTypeOK'
  <2>1. poll' \in [Visit -> PollStep]
    BY <1>5 DEF OpenRamp
  <2> HIDE DEF n
  <2> QED
    BY <1>1, <1>2, <1>3, <2>1 DEF RampInv, RampTypeOK, OpenRamp, serverVars
<1>7. PollsWhenShown'
  <2> SUFFICES ASSUME NEW v \in Visit
               PROVE  /\ poll'[v] # "off" \/ loops'[v] # {} =>
                           page'[v].step \in {"polling", "done"} /\ page'[v].await = "nothing"
                      /\ v > shownPage' => page'[v].step = "closed" /\ page'[v].await = "nothing"
    BY DEF PollsWhenShown
  <2>0. loops' = loops
    BY DEF OpenRamp, serverVars
  <2>1. CASE v = n
    BY <1>2, <1>4, <1>5, <2>0, <2>1
  <2>2. CASE v # n
    <3>1. page'[v] = page[v]
      BY <1>1, <1>3, <2>2
    <3>2. v > shownPage' => v > shownPage
      BY <1>1, <1>2 DEF Visit
    <3> QED
      BY <1>5, <2>0, <3>1, <3>2 DEF RampInv, PollsWhenShown
  <2> QED
    BY <2>1, <2>2
<1>8. LoopsOnTime'
  BY DEF RampInv, LoopsOnTime, OpenRamp, serverVars
<1>9. LoopsSpaced'
  BY <1>5 DEF RampInv, LoopsSpaced, AgesAllow, OpenRamp, serverVars
<1> QED
  BY <1>6, <1>7, <1>8, <1>9 DEF RampInv

LEMMA IframeDoneInv ==
  ASSUME RampInv, NEW v \in Visit, HandleIframeDone(v)
  PROVE  RampInv'
<1>1. poll[v] = "off" /\ loops[v] = {} /\ v <= shownPage
  BY ButtonHasNoLoops DEF HandleIframeDone
<1>2. /\ page \in [Visit -> PageType] /\ poll \in [Visit -> PollStep] /\ shownPage \in Nat
      /\ loops \in [Visit -> SUBSET StatusLoop] /\ due \in [Visit -> SUBSET StatusLoop]
  BY RampAssumption DEF RampInv, RampTypeOK
<1>3. due[v] = {}
  BY <1>1 DEF RampInv, LoopsOnTime
<1> DEFINE r == [page[v] EXCEPT !.step = "polling", !.await = "nothing"]
<1>4. /\ page' = [page EXCEPT ![v] = r] /\ r \in PageType
      /\ r.step = "polling" /\ r.await = "nothing"
  BY <1>2 DEF HandleIframeDone, Goto, PageType
<1> HIDE DEF r
<1>5. /\ poll' = [poll EXCEPT ![v] = "waiting"] /\ loops' = [loops EXCEPT ![v] = {NewLoop}]
      /\ due' = [due EXCEPT ![v] = {NewLoop}] /\ UNCHANGED <<shownPage, anchor, refused>>
  BY <1>1, <1>2, <1>3 DEF HandleIframeDone
<1>6. RampTypeOK'
  BY <1>2, <1>4, <1>5, LifeIsNat DEF RampInv, RampTypeOK, PollStep
<1>7. PollsWhenShown'
  BY <1>1, <1>2, <1>4, <1>5 DEF RampInv, PollsWhenShown, Visit
<1>8. LoopsOnTime'
  <2>1. NewLoop.age <= NewLoop.tries + (NewLoop.tries + 1) * Latency
    <3>1. Latency \in Nat
      BY RampAssumption
    <3> QED
      BY <3>1 DEF NewLoop
  <2> QED
    BY <1>2, <1>5, <2>1 DEF RampInv, LoopsOnTime
<1>9. LoopsSpaced'
  <2>1. Spaced({NewLoop}) /\ AgesAllow("waiting", {NewLoop})
    BY DEF Spaced, AgesAllow, NewLoop
  <2> QED
    BY <1>2, <1>5, <2>1 DEF RampInv, LoopsSpaced
<1> QED
  BY <1>6, <1>7, <1>8, <1>9 DEF RampInv

\* What a step leaves that changes the loops of one page v: if they keep the
\* clocks there, the invariant holds.
LEMMA LoopsOfOnePage ==
  ASSUME RampInv, NEW v \in Visit, loops[v] # {},
         NEW L \in SUBSET StatusLoop, NEW D \in SUBSET StatusLoop,
         loops' = [loops EXCEPT ![v] = L], due' = [due EXCEPT ![v] = D],
         D \subseteq L, Spaced(L), AgesAllow(poll'[v], L),
         \A l \in D : l.age <= l.tries + (l.tries + 1) * Latency,
         \A l \in L \ D : l.tries >= 1 /\ l.age <= l.tries - 1 + l.tries * Latency,
         page' \in [Visit -> PageType], poll' \in [Visit -> PollStep],
         page'[v].step \in {"polling", "done"}, page'[v].await = "nothing",
         \A w \in Visit : w # v => page'[w] = page[w] /\ poll'[w] = poll[w],
         UNCHANGED <<shownPage, anchor>>, refused' \in 0 .. RampFaults
  PROVE  RampInv'
<1>1. /\ loops \in [Visit -> SUBSET StatusLoop] /\ due \in [Visit -> SUBSET StatusLoop]
      /\ ~(v > shownPage)
  BY DEF RampInv, RampTypeOK, PollsWhenShown
<1>2. /\ loops' \in [Visit -> SUBSET StatusLoop] /\ due' \in [Visit -> SUBSET StatusLoop]
      /\ loops'[v] = L /\ due'[v] = D
      /\ \A w \in Visit : w # v => loops'[w] = loops[w] /\ due'[w] = due[w]
  BY <1>1
<1>3. RampTypeOK'
  BY <1>2 DEF RampInv, RampTypeOK
<1>4. PollsWhenShown'
  <2> SUFFICES ASSUME NEW w \in Visit
               PROVE  /\ poll'[w] # "off" \/ loops'[w] # {} =>
                           page'[w].step \in {"polling", "done"} /\ page'[w].await = "nothing"
                      /\ w > shownPage' => page'[w].step = "closed" /\ page'[w].await = "nothing"
    BY DEF PollsWhenShown
  <2>1. CASE w = v
    BY <1>1, <2>1
  <2>2. CASE w # v
    BY <1>2, <2>2 DEF RampInv, PollsWhenShown
  <2> QED
    BY <2>1, <2>2
<1>5. LoopsOnTime'
  <2> SUFFICES ASSUME NEW w \in Visit
               PROVE  /\ due'[w] \subseteq loops'[w]
                      /\ \A l \in due'[w] : l.age <= l.tries + (l.tries + 1) * Latency
                      /\ \A l \in loops'[w] \ due'[w] :
                            l.tries >= 1 /\ l.age <= l.tries - 1 + l.tries * Latency
    BY DEF LoopsOnTime
  <2>1. CASE w = v
    BY <1>2, <2>1
  <2>2. CASE w # v
    BY <1>2, <2>2 DEF RampInv, LoopsOnTime
  <2> QED
    BY <2>1, <2>2
<1>6. LoopsSpaced'
  BY <1>2 DEF RampInv, LoopsSpaced
<1> QED
  BY <1>3, <1>4, <1>5, <1>6 DEF RampInv

\* A loop that is awaited by the page returns: the page goes on, or is done.
LEMMA ReturnInv ==
  ASSUME RampInv, NEW v \in Visit, NEW l \in due[v],
         NEW status \in {"completed", "failed", "unknown", "error"},
         due' = [due EXCEPT ![v] = @ \ {l}], LoopReturns(v, l, status),
         UNCHANGED <<shownPage, anchor>>, refused' \in 0 .. RampFaults
  PROVE  RampInv'
<1>1. /\ page \in [Visit -> PageType] /\ poll \in [Visit -> PollStep] /\ shownPage \in Nat
      /\ loops \in [Visit -> SUBSET StatusLoop] /\ due \in [Visit -> SUBSET StatusLoop]
      /\ l \in loops[v] /\ due[v] \subseteq loops[v]
  BY RampAssumption DEF RampInv, RampTypeOK, LoopsOnTime
<1> DEFINE L == loops[v] \ {l}
           D == due[v] \ {l}
<1>2. /\ loops' = [loops EXCEPT ![v] = L] /\ due' = [due EXCEPT ![v] = D]
      /\ L \in SUBSET StatusLoop /\ D \in SUBSET StatusLoop /\ D \subseteq L
      /\ L \ D \subseteq loops[v] \ due[v]
  BY <1>1 DEF LoopReturns
<1>3. page[v].step \in {"polling", "done"} /\ page[v].await = "nothing"
  BY <1>1 DEF RampInv, PollsWhenShown
<1>4. /\ page' \in [Visit -> PageType] /\ poll' \in [Visit -> PollStep]
      /\ page'[v].step \in {"polling", "done"} /\ page'[v].await = "nothing"
      /\ \A w \in Visit : w # v => page'[w] = page[w] /\ poll'[w] = poll[w]
      /\ poll'[v] = poll[v] \/ (Awaited(v, l) /\ poll'[v] \in {"off", "armed"})
  <2>1. CASE Awaited(v, l) /\ status = "completed"
    <3> DEFINE r == [page[v] EXCEPT !.step = "done", !.await = "nothing"]
    <3>1. /\ page' = [page EXCEPT ![v] = r] /\ r \in PageType
          /\ r.step = "done" /\ r.await = "nothing"
      <4>1. Goto(v, "done", "nothing")
        BY <2>1 DEF LoopReturns, Heard
      <4>2. page[v] \in PageType
        BY <1>1
      <4> QED
        BY <1>1, <4>1, <4>2 DEF Goto, PageType
    <3>2. poll' = [poll EXCEPT ![v] = "off"]
      BY <2>1 DEF LoopReturns, Heard
    <3> HIDE DEF r
    <3>3. page' \in [Visit -> PageType] /\ page'[v] = r /\ \A w \in Visit : w # v => page'[w] = page[w]
      BY <1>1, <3>1
    <3>4. poll' \in [Visit -> PollStep] /\ poll'[v] = "off" /\ \A w \in Visit : w # v => poll'[w] = poll[w]
      BY <1>1, <3>2 DEF PollStep
    <3> QED
      BY <2>1, <3>1, <3>3, <3>4
  <2>2. CASE Awaited(v, l) /\ status # "completed"
    <3>1. page' = page /\ poll' = [poll EXCEPT ![v] = "armed"]
      BY <2>2 DEF LoopReturns, Heard
    <3> QED
      BY <1>1, <1>3, <2>2, <3>1 DEF PollStep
  <2>3. CASE ~Awaited(v, l)
    BY <1>1, <1>3, <2>3 DEF LoopReturns
  <2> QED
    BY <2>1, <2>2, <2>3
<1>5. Spaced(L) /\ AgesAllow(poll'[v], L)
  <2>1. Spaced(loops[v]) /\ AgesAllow(poll[v], loops[v])
    BY DEF RampInv, LoopsSpaced
  <2>2. \A k \in loops[v] : k.age \in Nat
    BY <1>1, LifeIsNat DEF StatusLoop
  <2>3. CASE poll'[v] = poll[v]
    BY <2>1, <2>3 DEF Spaced, AgesAllow
  <2>4. CASE Awaited(v, l) /\ poll'[v] \in {"off", "armed"}
    <3>1. \A k \in L : k.age >= 2
      BY <1>1, <2>1, <2>2, <2>4 DEF Spaced, Awaited
    <3>2. Spaced(L)
      BY <2>1 DEF Spaced
    <3> QED
      BY <2>4, <3>1, <3>2 DEF AgesAllow
  <2> QED
    BY <1>4, <2>3, <2>4
<1>6. /\ \A k \in D : k.age <= k.tries + (k.tries + 1) * Latency
      /\ \A k \in L \ D : k.tries >= 1 /\ k.age <= k.tries - 1 + k.tries * Latency
  BY <1>2 DEF RampInv, LoopsOnTime
<1> HIDE DEF L, D
<1> QED
  BY <1>1, <1>2, <1>4, <1>5, <1>6, LoopsOfOnePage

\* A loop that was not told the end sleeps, with requests left.
LEMMA SleepInv ==
  ASSUME RampInv, NEW v \in Visit, NEW l \in due[v], l.tries < MaxRetries - 1,
         due' = [due EXCEPT ![v] = @ \ {l}], LoopSleeps(v, l),
         UNCHANGED <<shownPage, anchor, refused>>
  PROVE  RampInv'
<1>1. /\ page \in [Visit -> PageType] /\ poll \in [Visit -> PollStep]
      /\ loops \in [Visit -> SUBSET StatusLoop] /\ due \in [Visit -> SUBSET StatusLoop]
      /\ l \in loops[v] /\ due[v] \subseteq loops[v] /\ refused \in 0 .. RampFaults
      /\ MaxRetries \in Nat
  BY RampAssumption DEF RampInv, RampTypeOK, LoopsOnTime
<1> DEFINE m == [l EXCEPT !.tries = @ + 1]
           L == (loops[v] \ {l}) \cup {m}
           D == due[v] \ {l}
<1>2. /\ m \in StatusLoop /\ m.age = l.age /\ m.tries = l.tries + 1 /\ l.tries \in Nat
      /\ l.age \in Nat
  <2>1. l \in [age : 0 .. Life, tries : 0 .. MaxRetries - 1] /\ Life \in Nat
    BY <1>1, LifeIsNat DEF StatusLoop
  <2>2. l.tries + 1 \in 0 .. MaxRetries - 1
    BY <1>1, <2>1
  <2> QED
    BY <2>1, <2>2 DEF StatusLoop
<1>3. /\ loops' = [loops EXCEPT ![v] = L] /\ due' = [due EXCEPT ![v] = D]
      /\ UNCHANGED <<page, poll>>
  BY <1>1 DEF LoopSleeps
<1> HIDE DEF m
<1>4. L \in SUBSET StatusLoop /\ D \in SUBSET StatusLoop /\ D \subseteq L
  BY <1>1, <1>2
<1>5. page[v].step \in {"polling", "done"} /\ page[v].await = "nothing"
  BY <1>1 DEF RampInv, PollsWhenShown
<1>6. Spaced(L) /\ AgesAllow(poll[v], L)
  <2>1. Spaced(loops[v]) /\ AgesAllow(poll[v], loops[v])
    BY DEF RampInv, LoopsSpaced
  <2> QED
    BY <1>1, <1>2, <2>1 DEF Spaced, AgesAllow
<1>7. \A k \in D : k.age <= k.tries + (k.tries + 1) * Latency
  BY DEF RampInv, LoopsOnTime
<1>8. ASSUME NEW k \in L \ D
      PROVE  k.tries >= 1 /\ k.age <= k.tries - 1 + k.tries * Latency
  <2>1. CASE k = m
    <3>1. l.age <= l.tries + (l.tries + 1) * Latency
      BY DEF RampInv, LoopsOnTime
    <3>2. (l.tries + 1) * Latency \in Nat
      BY <1>2, WaitGrows
    <3>3. m.tries * Latency = (l.tries + 1) * Latency
      BY <1>2
    <3> QED
      BY <1>2, <2>1, <3>1, <3>2, <3>3
  <2>2. CASE k # m
    <3>1. k \in loops[v] \ due[v]
      BY <1>8, <2>2
    <3> QED
      BY <3>1 DEF RampInv, LoopsOnTime
  <2> QED
    BY <2>1, <2>2
<1>9. loops[v] # {} /\ AgesAllow(poll'[v], L)
  BY <1>1, <1>3, <1>6
<1> HIDE DEF L, D
<1> QED
  BY <1>1, <1>3, <1>4, <1>5, <1>6, <1>7, <1>8, <1>9, LoopsOfOnePage

LEMMA AnswersInv ==
  ASSUME RampInv, NEW v \in Visit, NEW l \in due[v], AnchorAnswers(v, l) \/ AnchorRefuses(v, l)
  PROVE  RampInv'
<1>1. refused \in 0 .. RampFaults /\ RampFaults \in Nat /\ MaxRetries \in Nat
  BY RampAssumption DEF RampInv, RampTypeOK
<1>2. CASE AnchorAnswers(v, l)
  <2>1. /\ due' = [due EXCEPT ![v] = @ \ {l}] /\ UNCHANGED <<shownPage, anchor, refused>>
    BY <1>2 DEF AnchorAnswers
  <2>2. CASE anchor[v] \in Terminal
    <3>1. LoopReturns(v, l, anchor[v]) /\ anchor[v] \in {"completed", "failed", "unknown", "error"}
      BY <1>2, <2>2 DEF AnchorAnswers, Terminal
    <3> QED
      BY <1>1, <2>1, <3>1, ReturnInv
  <2>3. CASE anchor[v] \notin Terminal /\ l.tries = MaxRetries - 1
    <3>1. LoopReturns(v, l, "unknown")
      BY <1>2, <2>3 DEF AnchorAnswers
    <3> QED
      BY <1>1, <2>1, <3>1, ReturnInv
  <2>4. CASE anchor[v] \notin Terminal /\ l.tries # MaxRetries - 1
    <3>1. LoopSleeps(v, l)
      BY <1>2, <2>4 DEF AnchorAnswers
    <3>2. l.tries \in 0 .. MaxRetries - 1
      BY DEF RampInv, RampTypeOK, StatusLoop
    <3>3. l.tries < MaxRetries - 1
      BY <1>1, <2>4, <3>2
    <3> QED
      BY <2>1, <3>1, <3>3, SleepInv
  <2> QED
    BY <2>2, <2>3, <2>4
<1>3. CASE AnchorRefuses(v, l)
  <2>1. /\ due' = [due EXCEPT ![v] = @ \ {l}] /\ LoopReturns(v, l, "error")
        /\ UNCHANGED <<shownPage, anchor>> /\ refused < RampFaults /\ refused' = refused + 1
    BY <1>3 DEF AnchorRefuses
  <2>2. refused' \in 0 .. RampFaults
    BY <1>1, <2>1
  <2> QED
    BY <2>1, <2>2, ReturnInv
<1> QED
  BY <1>2, <1>3

\* A loop that lives another tick is within its life.
LEMMA OlderOnTime ==
  ASSUME RampInv, Tick, NEW v \in Visit, NEW l \in loops[v]
  PROVE  /\ [l EXCEPT !.age = @ + 1] \in StatusLoop
         /\ l.age \in Nat /\ l.tries \in Nat
         /\ l.age + 1 <= l.tries + (l.tries + 1) * Latency
<1>1. l \in [age : 0 .. Life, tries : 0 .. MaxRetries - 1] /\ Life \in Nat /\ MaxRetries \in Nat
  BY LifeIsNat, RampAssumption DEF RampInv, RampTypeOK, StatusLoop
<1> DEFINE short == l.tries * Latency
           long == (l.tries + 1) * Latency
           longest == MaxRetries * Latency
<1>2. /\ l.tries \in Nat /\ l.age \in Nat /\ l.tries + 1 \in Nat
      /\ l.tries <= l.tries + 1 /\ l.tries + 1 <= MaxRetries
  BY <1>1
<1>3. short \in Nat /\ long \in Nat /\ longest \in Nat /\ short <= long /\ long <= longest
  <2>1. short \in Nat /\ long \in Nat /\ short <= long
    BY <1>2, WaitGrows
  <2>2. longest \in Nat /\ long <= longest
    BY <1>1, <1>2, WaitGrows
  <2> QED
    BY <2>1, <2>2
<1>4. /\ l \in due[v] => l.age < l.tries + long
      /\ l \notin due[v] => l.age <= l.tries - 1 + short
  BY DEF RampInv, LoopsOnTime, Tick, MayTakeLonger
<1>5. Life = MaxRetries - 1 + longest
  BY DEF Life
<1> HIDE DEF short, long, longest
<1>6. l.age + 1 <= l.tries + long
  BY <1>2, <1>3, <1>4
<1>7. l.age + 1 \in 0 .. Life
  BY <1>1, <1>2, <1>3, <1>5, <1>6
<1>8. [l EXCEPT !.age = @ + 1] \in StatusLoop
  BY <1>1, <1>7 DEF StatusLoop
<1> QED
  BY <1>2, <1>6, <1>8 DEF long

LEMMA TickInv == ASSUME RampInv, Tick PROVE RampInv'
<1>1. /\ poll \in [Visit -> PollStep] /\ loops \in [Visit -> SUBSET StatusLoop]
  BY DEF RampInv, RampTypeOK
<1>2. /\ poll' = [v \in Visit |-> PollLater(poll[v])]
      /\ loops' = [v \in Visit |-> {[l EXCEPT !.age = @ + 1] : l \in loops[v]}
                                   \cup {l \in {NewLoop} : poll[v] = "armed"}]
      /\ due' = loops' /\ UNCHANGED <<page, shownPage, anchor, refused>>
  BY DEF Tick
<1>3. ASSUME NEW v \in Visit, NEW k \in loops'[v]
      PROVE  \/ k = NewLoop /\ poll[v] = "armed"
             \/ \E l \in loops[v] : k = [l EXCEPT !.age = @ + 1]
  BY <1>2, <1>3
<1>4. ASSUME NEW v \in Visit PROVE poll'[v] \in PollStep /\ poll'[v] = PollLater(poll[v])
  BY <1>1, <1>2 DEF PollStep, PollLater
<1>5. ASSUME NEW v \in Visit, NEW l \in loops[v], NEW k, k = [l EXCEPT !.age = @ + 1]
      PROVE  /\ k \in StatusLoop /\ l.age \in Nat /\ k.age = l.age + 1 /\ k.tries = l.tries
             /\ l.tries \in Nat
             /\ k.age <= k.tries + (k.tries + 1) * Latency
  <2>1. l \in StatusLoop
    BY <1>1
  <2>2. k.age = l.age + 1 /\ k.tries = l.tries
    BY <1>5, <2>1 DEF StatusLoop
  <2> QED
    BY <1>5, <2>2, OlderOnTime
<1>6. ASSUME NEW v \in Visit, NEW k \in loops'[v]
      PROVE  k \in StatusLoop /\ k.age <= k.tries + (k.tries + 1) * Latency
  <2>1. CASE k = NewLoop
    <3>1. Latency \in Nat
      BY RampAssumption
    <3> QED
      BY <2>1, <3>1, LifeIsNat DEF NewLoop
  <2> QED
    BY <1>3, <1>5, <1>6, <2>1
<1>7. RampTypeOK'
  <2>1. loops' \in [Visit -> SUBSET StatusLoop] /\ poll' \in [Visit -> PollStep]
    BY <1>2, <1>4, <1>6
  <2> QED
    BY <1>2, <2>1 DEF RampInv, RampTypeOK
<1>8. PollsWhenShown'
  <2> SUFFICES ASSUME NEW v \in Visit
               PROVE  poll'[v] # "off" \/ loops'[v] # {} => poll[v] # "off" \/ loops[v] # {}
    BY <1>2 DEF RampInv, PollsWhenShown
  <2>1. loops'[v] # {} => poll[v] = "armed" \/ loops[v] # {}
    BY <1>3
  <2>2. poll'[v] # "off" => poll[v] # "off"
    BY <1>4 DEF PollLater
  <2> QED
    BY <2>1, <2>2
<1>9. LoopsOnTime'
  BY <1>2, <1>6 DEF LoopsOnTime
<1>10. ASSUME NEW v \in Visit PROVE Spaced(loops'[v]) /\ AgesAllow(poll'[v], loops'[v])
  <2>1. /\ Spaced(loops[v]) /\ AgesAllow(poll[v], loops[v]) /\ poll[v] \in PollStep
    BY <1>1 DEF RampInv, LoopsSpaced
  <2>2. ASSUME NEW j \in loops'[v], NEW k \in loops'[v], j # k
        PROVE  j.age + 3 <= k.age \/ k.age + 3 <= j.age
    <3>1. ASSUME poll[v] = "armed", NEW x \in loops[v], NEW y, y = [x EXCEPT !.age = @ + 1]
          PROVE  NewLoop.age + 3 <= y.age
      <4>1. y.age = x.age + 1 /\ x.age \in Nat /\ x.age >= 2
        BY <1>5, <2>1, <3>1 DEF AgesAllow
      <4> QED
        BY <4>1 DEF NewLoop
    <3>2. ASSUME NEW x \in loops[v], NEW y \in loops[v],
                 j = [x EXCEPT !.age = @ + 1], k = [y EXCEPT !.age = @ + 1]
          PROVE  j.age + 3 <= k.age \/ k.age + 3 <= j.age
      <4>1. x # y
        BY <2>2, <3>2
      <4>2. x.age + 3 <= y.age \/ y.age + 3 <= x.age
        BY <2>1, <4>1 DEF Spaced
      <4>3. /\ j.age = x.age + 1 /\ k.age = y.age + 1 /\ x.age \in Nat /\ y.age \in Nat
        BY <1>5, <3>2
      <4> QED
        BY <4>2, <4>3
    <3> QED
      BY <1>3, <2>2, <3>1, <3>2
  <2>3. ASSUME NEW k \in loops'[v]
        PROVE  /\ poll'[v] = "waiting" => k.age = 0 \/ k.age >= 3
               /\ poll'[v] = "late" => k.age = 1 \/ k.age >= 4
               /\ poll'[v] = "armed" => k.age >= 2
    <3>1. CASE k = NewLoop /\ poll[v] = "armed"
      BY <1>4, <3>1 DEF PollLater, NewLoop
    <3>2. ASSUME NEW l \in loops[v], k = [l EXCEPT !.age = @ + 1]
          PROVE  /\ poll'[v] = "waiting" => k.age = 0 \/ k.age >= 3
                 /\ poll'[v] = "late" => k.age = 1 \/ k.age >= 4
                 /\ poll'[v] = "armed" => k.age >= 2
      <4>1. l.age \in Nat /\ k.age = l.age + 1
        BY <1>5, <3>2
      <4>2. /\ poll'[v] = "waiting" => poll[v] = "armed"
            /\ poll'[v] = "late" => poll[v] = "waiting"
            /\ poll'[v] = "armed" => poll[v] = "late"
        BY <1>4, <2>1 DEF PollLater, PollStep
      <4> QED
        BY <2>1, <4>1, <4>2 DEF AgesAllow
    <3> QED
      BY <1>3, <3>1, <3>2
  <2> QED
    BY <2>2, <2>3 DEF Spaced, AgesAllow
<1>11. LoopsSpaced'
  BY <1>10 DEF LoopsSpaced
<1> QED
  BY <1>7, <1>8, <1>9, <1>11 DEF RampInv

LEMMA RampStepInv == RampInv /\ [RampNext]_rampVars => RampInv'
<1> SUFFICES ASSUME RampInv, [RampNext]_rampVars PROVE RampInv'
  OBVIOUS
<1>1. CASE \E ramp \in {"on", "off"} : OpenRamp(ramp)
  BY <1>1, OpenRampInv
<1>2. ASSUME NEW v \in Visit,
             \/ ContinueDeposit(v) \/ ContinueWithdrawal(v) \/ TryAgain(v)
             \/ HandleAddTrustline(v) \/ TrustlineAnswer(v) \/ TrustlineAdded(v)
             \/ CallFails(v) \/ Authenticated(v) \/ InitiateDeposit(v) \/ InitiateWithdrawal(v)
      PROVE  RampInv'
  BY <1>2, PageStepInv DEF InitiateDeposit, InitiateWithdrawal
<1>3. ASSUME NEW v \in Visit, HandleIframeDone(v) PROVE RampInv'
  BY <1>3, IframeDoneInv
<1>4. ASSUME NEW v \in Visit, NEW status \in Terminal, AnchorEnds(v, status) PROVE RampInv'
  BY <1>4 DEF AnchorEnds, RampInv, RampTypeOK, PollsWhenShown, LoopsOnTime, LoopsSpaced
<1>5. ASSUME NEW v \in Visit, NEW l \in due[v], AnchorAnswers(v, l) \/ AnchorRefuses(v, l)
      PROVE  RampInv'
  BY <1>5, AnswersInv
<1>6. CASE Tick
  BY <1>6, TickInv
<1>7. CASE UNCHANGED rampVars
  BY <1>7 DEF rampVars, RampInv, RampTypeOK, PollsWhenShown, LoopsOnTime, LoopsSpaced
<1> QED
  BY <1>1, <1>2, <1>3, <1>4, <1>5, <1>6, <1>7 DEF RampNext

\* Three ages in a row hold at most one loop.
LEMMA SpacedIsFew ==
  ASSUME NEW S \in SUBSET StatusLoop, Spaced(S)
  PROVE  Cardinality(S) <= Life \div 3 + 1
<1> DEFINE top == Life \div 3
           third == [l \in S |-> l.age \div 3]
<1>1. Life \in Nat /\ \A l \in S : l.age \in 0 .. Life
  BY LifeIsNat DEF StatusLoop
<1>2. top \in Nat
  BY <1>1
<1>3. ASSUME NEW l \in S PROVE l.age \div 3 \in 0 .. top
  <2>1. l.age \in 0 .. Life
    BY <1>1
  <2> QED
    BY <1>1, <2>1
<1>4. ASSUME NEW k \in S, NEW l \in S, k # l PROVE k.age \div 3 # l.age \div 3
  <2>1. k.age + 3 <= l.age \/ l.age + 3 <= k.age
    BY <1>4 DEF Spaced
  <2>2. k.age \in 0 .. Life /\ l.age \in 0 .. Life
    BY <1>1
  <2> QED
    BY <1>1, <2>1, <2>2
<1> HIDE DEF top
<1>5. third \in Injection(S, 0 .. top)
  BY <1>3, <1>4 DEF Injection, IsInjective
<1> HIDE DEF third
<1>6. IsFiniteSet(0 .. top) /\ Cardinality(0 .. top) = top + 1
  BY <1>2, FS_Interval
<1>7. Cardinality(S) <= Cardinality(0 .. top)
  BY <1>5, <1>6, FS_Injection
<1> QED
  BY <1>6, <1>7 DEF top

LEMMA InvLoops == RampInv => LoopsBounded
<1> SUFFICES ASSUME RampInv, NEW v \in Visit
             PROVE  Cardinality(loops[v]) <= Life \div 3 + 1
  BY DEF LoopsBounded
<1>1. loops[v] \in SUBSET StatusLoop /\ Spaced(loops[v])
  BY DEF RampInv, RampTypeOK, LoopsSpaced
<1> QED
  BY <1>1, SpacedIsFew

\* Whatever requests are refused, the loops of one page on the server stay a
\* third of the ticks that one loop lives, for any number of visits and requests
\* and any time the anchor takes to answer (ramps.service.ts:249-297,
\* ApiClient.ts:66-74).
THEOREM LoopsStayBounded == RampSpec => []LoopsBounded
BY RampInitInv, RampStepInv, InvLoops, PTL DEF RampSpec

\* An awaited loop that returns arms the timer, or ends the polling; one that
\* goes on is as old as it was.
LEMMA AnswerGoesOn ==
  ASSUME RampInv, PollingGoesOn, NEW v \in Visit, NEW l \in due[v],
         AnchorAnswers(v, l) \/ AnchorRefuses(v, l)
  PROVE  PollingGoesOn'
<1>1. /\ page \in [Visit -> PageType] /\ poll \in [Visit -> PollStep]
      /\ loops \in [Visit -> SUBSET StatusLoop] /\ l \in StatusLoop /\ l \in loops[v]
  BY DEF RampInv, RampTypeOK, LoopsOnTime
<1>2. LoopSleeps(v, l) \/ \E status \in Terminal \cup {"unknown", "error"} : LoopReturns(v, l, status)
  BY DEF AnchorAnswers, AnchorRefuses
<1>3. shownPage' = shownPage
  BY DEF AnchorAnswers, AnchorRefuses
<1>4. CASE LoopSleeps(v, l)
  <2> DEFINE m == [l EXCEPT !.tries = @ + 1]
  <2>1. /\ loops'[v] = (loops[v] \ {l}) \cup {m} /\ UNCHANGED <<page, poll>>
        /\ \A w \in Visit \ {v} : loops'[w] = loops[w]
    BY <1>1, <1>4 DEF LoopSleeps
  <2>2. m.age = l.age
    BY <1>1 DEF StatusLoop
  <2> HIDE DEF m
  <2>3. ASSUME NEW n, \E k \in loops[v] : k.age = n PROVE \E k \in loops'[v] : k.age = n
    BY <2>1, <2>2, <2>3
  <2> QED
    BY <1>3, <2>1, <2>3 DEF PollingGoesOn
<1>5. ASSUME NEW status, LoopReturns(v, l, status) PROVE PollingGoesOn'
  <2>1. loops'[v] = loops[v] \ {l} /\ \A w \in Visit \ {v} : loops'[w] = loops[w]
    BY <1>1, <1>5 DEF LoopReturns
  <2>2. CASE ~Awaited(v, l)
    BY <1>3, <1>5, <2>1, <2>2 DEF LoopReturns, PollingGoesOn, Awaited
  <2>3. CASE Awaited(v, l) /\ status = "completed"
    <3>1. /\ page'[v].step = "done"
          /\ \A w \in Visit \ {v} : page'[w] = page[w] /\ poll'[w] = poll[w]
      BY <1>1, <1>5, <2>3 DEF LoopReturns, Heard, Goto, PageType
    <3> QED
      BY <1>3, <2>1, <3>1 DEF PollingGoesOn
  <2>4. CASE Awaited(v, l) /\ status # "completed"
    <3>1. /\ page' = page /\ poll'[v] = "armed"
          /\ \A w \in Visit \ {v} : poll'[w] = poll[w]
      BY <1>1, <1>5, <2>4 DEF LoopReturns, Heard
    <3> QED
      BY <1>3, <2>1, <3>1 DEF PollingGoesOn
  <2> QED
    BY <2>2, <2>3, <2>4
<1> QED
  BY <1>2, <1>4, <1>5

\* Five seconds later the awaited loop is a tick older, and so is the page's wait.
LEMMA TickGoesOn == ASSUME RampInv, PollingGoesOn, Tick PROVE PollingGoesOn'
<1>1. poll \in [Visit -> PollStep] /\ loops \in [Visit -> SUBSET StatusLoop]
  BY DEF RampInv, RampTypeOK
<1> SUFFICES ASSUME NEW v \in Visit, page'[v].step = "polling" /\ v = shownPage'
             PROVE  /\ poll'[v] # "off"
                    /\ poll'[v] = "waiting" => \E l \in loops'[v] : l.age = 0
                    /\ poll'[v] = "late" => \E l \in loops'[v] : l.age = 1
  BY DEF PollingGoesOn
<1>2. /\ poll[v] \in {"waiting", "late", "armed"}
      /\ poll[v] = "waiting" => \E l \in loops[v] : l.age = 0
  BY <1>1 DEF Tick, PollingGoesOn, PollStep
<1>3. poll'[v] = PollLater(poll[v])
  BY DEF Tick
<1>4. poll[v] = "armed" => NewLoop \in loops'[v] /\ NewLoop.age = 0
  BY DEF Tick, NewLoop
<1>5. ASSUME NEW l \in loops[v], l.age = 0 PROVE \E k \in loops'[v] : k.age = 1
  <2> DEFINE k == [l EXCEPT !.age = @ + 1]
  <2>1. k \in loops'[v]
    BY DEF Tick
  <2>2. k.age = 1
    BY <1>1, <1>5 DEF StatusLoop
  <2> HIDE DEF k
  <2> QED
    BY <2>1, <2>2
<1> QED
  BY <1>2, <1>3, <1>4, <1>5 DEF PollLater

LEMMA PollingStep ==
  RampInv /\ PollingGoesOn /\ [RampNext]_rampVars => PollingGoesOn'
<1> SUFFICES ASSUME RampInv, PollingGoesOn, [RampNext]_rampVars PROVE PollingGoesOn'
  OBVIOUS
<1>0. /\ page \in [Visit -> PageType] /\ poll \in [Visit -> PollStep]
      /\ loops \in [Visit -> SUBSET StatusLoop]
  BY DEF RampInv, RampTypeOK
<1>1. ASSUME NEW ramp \in {"on", "off"}, OpenRamp(ramp) PROVE PollingGoesOn'
  <2>1. shownPage \in Nat /\ shownPage' = shownPage + 1 /\ shownPage' \in Visit
    BY <1>1, RampAssumption DEF OpenRamp, RampInv, RampTypeOK, Visit
  <2>2. page'[shownPage'].step = "amount"
    BY <1>0, <1>1, <2>1 DEF OpenRamp, PageType
  <2> QED
    BY <2>2 DEF PollingGoesOn
<1>2. ASSUME NEW v \in Visit,
             \/ ContinueDeposit(v) \/ ContinueWithdrawal(v) \/ TryAgain(v)
             \/ HandleAddTrustline(v) \/ TrustlineAnswer(v) \/ TrustlineAdded(v)
             \/ CallFails(v) \/ Authenticated(v) \/ InitiateDeposit(v) \/ InitiateWithdrawal(v)
      PROVE  PollingGoesOn'
  <2>1. /\ \E step \in {"amount", "trustline", "loading", "anchor", "error"} :
             \E await : Goto(v, step, await)
        /\ UNCHANGED <<shownPage, poll, loops>>
    BY <1>2 DEF ContinueDeposit, ContinueWithdrawal, TryAgain, HandleAddTrustline,
         TrustlineAnswer, TrustlineAdded, CallFails, Authenticated, InitiateDeposit,
         InitiateWithdrawal, Initiated, serverVars
  <2>2. page'[v].step # "polling" /\ \A w \in Visit \ {v} : page'[w] = page[w]
    BY <1>0, <2>1 DEF Goto, PageType
  <2> QED
    BY <2>1, <2>2 DEF PollingGoesOn
<1>3. ASSUME NEW v \in Visit, HandleIframeDone(v) PROVE PollingGoesOn'
  <2>1. /\ poll'[v] = "waiting" /\ (\E l \in loops'[v] : l.age = 0) /\ shownPage' = shownPage
        /\ \A w \in Visit \ {v} : page'[w] = page[w] /\ poll'[w] = poll[w] /\ loops'[w] = loops[w]
    <3>1. loops'[v] = loops[v] \cup {NewLoop} /\ NewLoop.age = 0
      BY <1>0, <1>3 DEF HandleIframeDone, NewLoop
    <3> QED
      BY <1>0, <1>3, <3>1 DEF HandleIframeDone, Goto
  <2> QED
    BY <2>1 DEF PollingGoesOn
<1>4. ASSUME NEW v \in Visit, NEW status \in Terminal, AnchorEnds(v, status)
      PROVE  PollingGoesOn'
  BY <1>4 DEF AnchorEnds, PollingGoesOn
<1>5. ASSUME NEW v \in Visit, NEW l \in due[v], AnchorAnswers(v, l) \/ AnchorRefuses(v, l)
      PROVE  PollingGoesOn'
  BY <1>5, AnswerGoesOn
<1>6. CASE Tick
  BY <1>6, TickGoesOn
<1>7. CASE UNCHANGED rampVars
  BY <1>7 DEF rampVars, PollingGoesOn
<1> QED
  BY <1>1, <1>2, <1>3, <1>4, <1>5, <1>6, <1>7 DEF RampNext

\* A page that polls never waits for nothing: its timer runs, or the server is
\* still in the loop it awaits, whatever is refused and whichever loops were
\* given up before (wallet/onramp/page.tsx:78-94, ramps.service.ts:244-310): what
\* CompletedShown rests on.
THEOREM PollingAlwaysGoesOn == RampSpec => []PollingGoesOn
<1>1. RampInit => PollingGoesOn
  BY DEF RampInit, PollingGoesOn
<1> QED
  BY RampInitInv, RampStepInv, PollingStep, <1>1, PTL DEF RampSpec

-----------------------------------------------------------------------------
(* The demonstration rows                                                  *)

LoopRow(k) == [kind |-> IF k % 2 = 1 THEN "transaction" ELSE "reward", n |-> (k + 1) \div 2]

LEMMA SameLength ==
  ASSUME NEW m \in Nat, NEW n \in Nat, 1 .. m = 1 .. n
  PROVE  m = n
<1>1. CASE m < n
  <2>1. n \in 1 .. n /\ n \notin 1 .. m
    BY <1>1
  <2> QED
    BY <2>1
<1>2. CASE n < m
  <2>1. m \in 1 .. m /\ m \notin 1 .. n
    BY <1>2
  <2> QED
    BY <2>1
<1> QED
  BY <1>1, <1>2

LEMMA LoopIsSeq ==
  /\ Loop \in Seq([kind : {"transaction", "reward"}, n : Int])
  /\ Len(Loop) = 2 * DemoPayments
  /\ \A k \in 1 .. 2 * DemoPayments : Loop[k] = LoopRow(k)
<1> DEFINE last == 2 * DemoPayments
           LoopRows == [kind : {"transaction", "reward"}, n : Int]
<1>1. last \in Nat
  BY SeedAssumption
<1>2. ASSUME NEW k \in 1 .. last PROVE LoopRow(k) \in LoopRows
  BY <1>1 DEF LoopRow
<1>3. Loop = [k \in 1 .. last |-> LoopRow(k)]
  BY DEF Loop, LoopRow
<1> HIDE DEF last, LoopRows
<1>4. Loop \in Seq(LoopRows)
  BY <1>1, <1>2, <1>3
<1>5. Loop \in [1 .. Len(Loop) -> LoopRows] /\ Len(Loop) \in Nat /\ DOMAIN Loop = 1 .. Len(Loop)
  BY <1>4, LenProperties
<1>6. Len(Loop) = last
  <2>1. 1 .. Len(Loop) = 1 .. last
    BY <1>3, <1>5
  <2> QED
    BY <1>1, <1>5, <2>1, SameLength
<1> QED
  BY <1>3, <1>4, <1>6 DEF last, LoopRows

\* Where main writes what.
LEMMA MainOrder ==
  /\ Len(Main) = 2 * DemoPayments + 7 /\ DOMAIN Main = 1 .. 2 * DemoPayments + 7
  /\ Main[1] = Demo("user") /\ Main[2] = Demo("wallet") /\ Main[3] = Demo("merchant")
  /\ Main[4] = Demo("qr") /\ Main[5] = Demo("brand") /\ Main[6] = Demo("campaign")
  /\ \A k \in 1 .. 2 * DemoPayments : Main[k + 6] = LoopRow(k)
  /\ Main[2 * DemoPayments + 7] = Demo("bonus")
<1> DEFINE Kinds == {"user", "wallet", "merchant", "qr", "brand", "campaign", "transaction",
                     "reward", "bonus"}
           DemoRow == [kind : Kinds, n : Int]
           Bonus == <<Demo("bonus")>>
<1>1. First \in Seq(DemoRow) /\ Len(First) = 6 /\ Bonus \in Seq(DemoRow) /\ Len(Bonus) = 1
  <2>1. \A kind \in Kinds : Demo(kind) \in DemoRow
    BY DEF Demo
  <2> HIDE DEF Kinds, DemoRow
  <2>2. /\ Demo("user") \in DemoRow /\ Demo("wallet") \in DemoRow /\ Demo("merchant") \in DemoRow
        /\ Demo("qr") \in DemoRow /\ Demo("brand") \in DemoRow /\ Demo("campaign") \in DemoRow
        /\ Demo("bonus") \in DemoRow
    BY <2>1 DEF Kinds
  <2> QED
    BY <2>2 DEF First
<1>2. Loop \in Seq(DemoRow)
  <2>1. [kind : {"transaction", "reward"}, n : Int] \subseteq DemoRow
    OBVIOUS
  <2> HIDE DEF DemoRow
  <2> QED
    BY <2>1, LoopIsSeq, SeqMonotonic
<1> HIDE DEF DemoRow
<1> DEFINE Two == First \o Loop
<1>3. /\ Two \in Seq(DemoRow) /\ Len(Two) = 6 + 2 * DemoPayments
      /\ \A i \in 1 .. 6 + 2 * DemoPayments : Two[i] = IF i <= 6 THEN First[i] ELSE Loop[i - 6]
  <2> DEFINE last == 2 * DemoPayments
  <2>1. Len(Loop) = last
    BY LoopIsSeq
  <2> HIDE DEF last
  <2>2. /\ Two \in Seq(DemoRow) /\ Len(Two) = Len(First) + Len(Loop)
        /\ \A i \in 1 .. Len(First) + Len(Loop) :
             Two[i] = IF i <= Len(First) THEN First[i] ELSE Loop[i - Len(First)]
    BY <1>1, <1>2, ConcatProperties
  <2> QED
    BY <1>1, <2>1, <2>2 DEF last
<1> HIDE DEF Two, Bonus
<1>4. /\ Two \o Bonus \in Seq(DemoRow) /\ Len(Two \o Bonus) = Len(Two) + Len(Bonus)
      /\ \A i \in 1 .. Len(Two) + Len(Bonus) :
           (Two \o Bonus)[i] = IF i <= Len(Two) THEN Two[i] ELSE Bonus[i - Len(Two)]
  BY <1>1, <1>3, ConcatProperties
<1>5. Main = Two \o Bonus
  BY DEF Main, Two, Bonus
<1>6. 2 * DemoPayments \in Nat
  BY SeedAssumption
<1>7. /\ Main \in Seq(DemoRow) /\ Len(Main) = 2 * DemoPayments + 7
      /\ \A i \in 1 .. 2 * DemoPayments + 7 :
           Main[i] = IF i <= 6 THEN First[i] ELSE IF i <= 2 * DemoPayments + 6 THEN Loop[i - 6]
                     ELSE Bonus[1]
  <2>1. Len(Two \o Bonus) = 2 * DemoPayments + 7
    BY <1>1, <1>3, <1>4, <1>6
  <2> QED
    BY <1>1, <1>3, <1>4, <1>5, <1>6, <2>1
<1>8. DOMAIN Main = 1 .. 2 * DemoPayments + 7
  BY <1>7, LenProperties
<1>9. /\ Main[1] = Demo("user") /\ Main[2] = Demo("wallet") /\ Main[3] = Demo("merchant")
      /\ Main[4] = Demo("qr") /\ Main[5] = Demo("brand") /\ Main[6] = Demo("campaign")
  <2>1. \A i \in 1 .. 6 : Main[i] = First[i]
    BY <1>6, <1>7
  <2> QED
    BY <2>1 DEF First
<1>10. \A k \in 1 .. 2 * DemoPayments : Main[k + 6] = LoopRow(k)
  BY <1>6, <1>7, LoopIsSeq
<1>11. Main[2 * DemoPayments + 7] = Demo("bonus")
  BY <1>6, <1>7 DEF Bonus
<1> QED
  BY <1>7, <1>8, <1>9, <1>10, <1>11

Transaction(n) == [kind |-> "transaction", n |-> n]
RewardRow(n) == [kind |-> "reward", n |-> n]

\* A payment is followed by its reward.
LEMMA PaymentsInOrder ==
  /\ \A n \in TxData : Main[2 * n + 5] = Transaction(n) /\ Main[2 * n + 6] = RewardRow(n)
  /\ \A k \in DOMAIN Main :
       \/ k \in 1 .. 6 \/ k = Len(Main)
       \/ \E n \in TxData : k = 2 * n + 5 \/ k = 2 * n + 6
<1>1. DemoPayments \in Nat /\ DemoPayments >= 1
  BY SeedAssumption
<1>2. ASSUME NEW n \in TxData
      PROVE  Main[2 * n + 5] = Transaction(n) /\ Main[2 * n + 6] = RewardRow(n)
  <2>1. /\ n \in Int /\ 2 * n - 1 \in 1 .. 2 * DemoPayments /\ 2 * n \in 1 .. 2 * DemoPayments
        /\ (2 * n - 1) + 6 = 2 * n + 5
    BY <1>1 DEF TxData
  <2>2. /\ (2 * n - 1) % 2 = 1 /\ ((2 * n - 1) + 1) \div 2 = n
        /\ (2 * n) % 2 # 1 /\ (2 * n + 1) \div 2 = n
    BY <2>1
  <2>3. LoopRow(2 * n - 1) = Transaction(n) /\ LoopRow(2 * n) = RewardRow(n)
    BY <2>2 DEF LoopRow, Transaction, RewardRow
  <2>4. Main[(2 * n - 1) + 6] = LoopRow(2 * n - 1) /\ Main[2 * n + 6] = LoopRow(2 * n)
    BY <2>1, MainOrder
  <2> QED
    BY <2>1, <2>3, <2>4
<1>3. ASSUME NEW k \in DOMAIN Main, k \notin 1 .. 6, k # Len(Main)
      PROVE  \E n \in TxData : k = 2 * n + 5 \/ k = 2 * n + 6
  <2>1. k \in Int /\ 7 <= k /\ k <= 2 * DemoPayments + 6
    <3>1. k \in 1 .. 2 * DemoPayments + 7 /\ k # 2 * DemoPayments + 7
      BY <1>3, MainOrder
    <3> QED
      BY <1>1, <1>3, <3>1
  <2>2. (k - 5) \div 2 \in TxData
    BY <1>1, <2>1 DEF TxData
  <2>3. k = 2 * ((k - 5) \div 2) + 5 \/ k = 2 * ((k - 5) \div 2) + 6
    BY <2>1
  <2> QED
    BY <2>2, <2>3
<1> QED
  BY <1>2, <1>3

\* main writes what a row refers to before the row.
LEMMA ParentsFirst ==
  ASSUME NEW k \in DOMAIN Main, NEW one \in Parents(Main[k])
  PROVE  \E j \in 1 .. k - 1 : one = Main[j]
<1>1. DemoPayments \in Nat /\ DemoPayments >= 1
  BY SeedAssumption
<1>2. CASE k \in 1 .. 6
  <2>1. k \in {1, 2, 3, 4, 5, 6}
    BY <1>2
  <2>2. \/ k \in {2, 3, 5} /\ one = Main[1]
        \/ k = 4 /\ one = Main[3]
        \/ k = 6 /\ one = Main[5]
    BY <2>1, MainOrder DEF Parents, Demo
  <2> QED
    BY <2>2
<1>3. CASE k = Len(Main)
  <2>1. Main[k] = Demo("bonus") /\ k \in Int /\ k >= 9
    BY <1>1, <1>3, MainOrder
  <2>2. one \in {Transaction(1), Demo("user"), Demo("campaign")}
    BY <2>1 DEF Parents, Demo, Transaction
  <2>3. Main[7] = Transaction(1)
    <3>1. 1 \in TxData /\ 2 * 1 + 5 = 7
      BY <1>1 DEF TxData
    <3>2. Main[2 * 1 + 5] = Transaction(1)
      BY <3>1, PaymentsInOrder
    <3> QED
      BY <3>1, <3>2
  <2> QED
    BY <2>1, <2>2, <2>3, MainOrder
<1>4. ASSUME NEW n \in TxData, k = 2 * n + 5 PROVE \E j \in 1 .. k - 1 : one = Main[j]
  <2>1. Main[k] = Transaction(n) /\ k \in Int /\ k >= 7
    BY <1>4, PaymentsInOrder DEF TxData
  <2>2. one \in {Demo("user"), Demo("wallet"), Demo("merchant"), Demo("qr"), Demo("campaign")}
    BY <2>1 DEF Parents, Demo, Transaction
  <2> QED
    BY <2>1, <2>2, MainOrder
<1>5. ASSUME NEW n \in TxData, k = 2 * n + 6 PROVE \E j \in 1 .. k - 1 : one = Main[j]
  <2>1. Main[k] = RewardRow(n) /\ Main[k - 1] = Transaction(n) /\ k \in Int /\ k >= 8
    <3>1. n \in Int /\ n >= 1 /\ (2 * n + 6) - 1 = 2 * n + 5
      BY DEF TxData
    <3> QED
      BY <1>5, <3>1, PaymentsInOrder
  <2>2. one \in {Transaction(n), Demo("user"), Demo("campaign")}
    BY <2>1 DEF Parents, Demo, Transaction, RewardRow
  <2> QED
    BY <2>1, <2>2, MainOrder
<1> QED
  BY <1>2, <1>3, <1>4, <1>5, PaymentsInOrder

\* What comes with a row refers to it, or to what was written before it.
LEMMA NestedRefersBack ==
  ASSUME NEW k \in DOMAIN Main, NEW one \in Nested(Main[k])
  PROVE  /\ Nested(one) = {}
         /\ \A parent \in Parents(one) : \E j \in 1 .. k : parent = Main[j]
<1>1. DemoPayments \in Nat /\ DemoPayments >= 1
  BY SeedAssumption
<1>2. CASE k \in 1 .. 6
  <2>1. k = 6 /\ one = [kind |-> "link", n |-> 0]
    <3>1. k \in {1, 2, 3, 4, 5, 6}
      BY <1>2
    <3> QED
      BY <3>1, MainOrder DEF Nested, Demo
  <2>2. Nested(one) = {} /\ Parents(one) = {Demo("campaign"), Demo("merchant")}
    BY <2>1 DEF Nested, Parents
  <2> QED
    BY <2>1, <2>2, MainOrder
<1>3. CASE k = Len(Main)
  BY <1>3, MainOrder DEF Nested, Demo
<1>4. ASSUME NEW n \in TxData, k = 2 * n + 5
      PROVE  /\ Nested(one) = {}
             /\ \A parent \in Parents(one) : \E j \in 1 .. k : parent = Main[j]
  <2>1. Main[k] = Transaction(n) /\ k \in Int /\ k >= 7
    BY <1>4, PaymentsInOrder DEF TxData
  <2>2. one = [kind |-> "settlement", n |-> n] \/ one = [kind |-> "events", n |-> n]
    BY <2>1 DEF Nested, Transaction
  <2>3. Nested(one) = {} /\ Parents(one) \subseteq {Transaction(n), Demo("merchant")}
    BY <2>2 DEF Nested, Parents, Transaction
  <2> QED
    BY <2>1, <2>3, MainOrder
<1>5. ASSUME NEW n \in TxData, k = 2 * n + 6 PROVE FALSE
  <2>1. Main[k] = RewardRow(n)
    BY <1>5, PaymentsInOrder
  <2>2. Nested(Main[k]) = {}
    BY <2>1 DEF Nested, RewardRow
  <2> QED
    BY <2>2
<1>6. k \in 1 .. 6 \/ k = Len(Main) \/ \E n \in TxData : k = 2 * n + 5 \/ k = 2 * n + 6
  BY PaymentsInOrder
<1> QED
  BY <1>2, <1>3, <1>4, <1>5, <1>6

\* Rows are there with all they refer to and all that comes with them.
RowsClosed == \A one \in rows : Parents(one) \cup Nested(one) \subseteq rows

\* What a run has come past is there.
PastIsThere == \A p \in Runner : \A k \in 1 .. run[p].next - 1 : Main[k] \in rows

\* A run that is alone is the only one under way, and what it read is still so.
AloneIsTrue ==
  \A p \in Runner :
    /\ run[p].at = "done" => run[p].next = Len(Main) + 1
    /\ UnderWay(p) => run[p].next \in DOMAIN Main
    /\ run[p].alone => /\ run[p].at # "failed"
                       /\ run[p].at = "absent" => RowOf(p) \notin rows
                       /\ UnderWay(p) => \A q \in Runner : q # p => ~UnderWay(q)

SeedInv == SeedTypeOK /\ RowsClosed /\ PastIsThere /\ AloneIsTrue

RunType == [at : {"idle", "running", "absent", "done", "failed"},
            next : 1 .. Len(Main) + 1, alone : BOOLEAN, starts : 0 .. SeedBound]

LEMMA MainIsLong == Len(Main) \in Nat /\ Len(Main) >= 9 /\ DOMAIN Main = 1 .. Len(Main)
BY MainOrder, SeedAssumption

LEMMA SeedInitInv == SeedInit => SeedInv
<1> SUFFICES ASSUME SeedInit PROVE SeedInv
  OBVIOUS
<1> USE MainIsLong, SeedAssumption DEF SeedInit
<1>1. SeedTypeOK
  BY DEF SeedTypeOK
<1>2. RowsClosed /\ PastIsThere /\ AloneIsTrue
  BY DEF RowsClosed, PastIsThere, AloneIsTrue, UnderWay
<1> QED
  BY <1>1, <1>2 DEF SeedInv

\* A row is written with all that comes with it, or is there already.
LEMMA UpsertedInv ==
  ASSUME SeedInv, NEW p \in Runner, UnderWay(p), NEW more, Upserted(p, more),
         (more = {} /\ RowOf(p) \in rows) \/ more = {RowOf(p)} \cup Nested(RowOf(p))
  PROVE  SeedInv'
<1> DEFINE k == run[p].next
           one == RowOf(p)
<1>1. /\ run \in [Runner -> RunType] /\ rows \subseteq AllRows
      /\ off \subseteq {Demo("user"), Demo("campaign")}
  BY DEF SeedInv, SeedTypeOK, RunType
<1>2. k \in DOMAIN Main /\ k \in 1 .. Len(Main) /\ one = Main[k]
  BY MainIsLong DEF SeedInv, AloneIsTrue, RowOf
<1>3. rows' = rows \cup {one} \cup Nested(one)
  <2>1. CASE more = {} /\ one \in rows
    BY <2>1 DEF Upserted, SeedInv, RowsClosed
  <2>2. CASE more = {one} \cup Nested(one)
    BY <2>2 DEF Upserted
  <2> QED
    BY <2>1, <2>2
<1> DEFINE r == [run[p] EXCEPT !.next = k + 1, !.at = IF k = Len(Main) THEN "done" ELSE "running"]
<1>4. /\ run' = [run EXCEPT ![p] = r] /\ r \in RunType /\ r.next = k + 1
      /\ r.at = IF k = Len(Main) THEN "done" ELSE "running"
      /\ r.alone = run[p].alone
  <2>1. run' = [run EXCEPT ![p] = r]
    BY DEF Upserted
  <2>2. run[p] \in RunType
    BY <1>1
  <2>3. k + 1 \in 1 .. Len(Main) + 1
    BY <1>2, MainIsLong
  <2> QED
    BY <2>1, <2>2, <2>3 DEF RunType
<1> HIDE DEF r
<1>5. /\ run' \in [Runner -> RunType] /\ run'[p] = r
      /\ \A q \in Runner : q # p => run'[q] = run[q]
  BY <1>1, <1>4
<1>6. off' \subseteq {Demo("user"), Demo("campaign")}
  BY <1>1 DEF Upserted
<1>7. rows' \subseteq AllRows
  BY <1>1, <1>2, <1>3 DEF AllRows, SeedRows
<1>8. SeedTypeOK'
  BY <1>5, <1>6, <1>7 DEF SeedTypeOK, RunType
<1>9. \A j \in 1 .. k : Main[j] \in rows'
  BY <1>2, <1>3 DEF SeedInv, PastIsThere
<1>10. RowsClosed'
  <2> SUFFICES ASSUME NEW new \in rows' PROVE Parents(new) \cup Nested(new) \subseteq rows'
    BY DEF RowsClosed
  <2>1. CASE new \in rows
    BY <1>3, <2>1 DEF SeedInv, RowsClosed
  <2>2. CASE new = one
    BY <1>2, <1>3, <1>9, <2>2, ParentsFirst
  <2>3. CASE new \in Nested(one)
    BY <1>2, <1>3, <1>9, <2>3, NestedRefersBack
  <2> QED
    BY <1>3, <2>1, <2>2, <2>3
<1>11. PastIsThere'
  <2> SUFFICES ASSUME NEW q \in Runner, NEW j \in 1 .. run'[q].next - 1 PROVE Main[j] \in rows'
    BY DEF PastIsThere
  <2>1. CASE q = p
    BY <1>2, <1>4, <1>5, <1>9, <2>1
  <2>2. CASE q # p
    BY <1>3, <1>5, <2>2 DEF SeedInv, PastIsThere
  <2> QED
    BY <2>1, <2>2
<1>12. AloneIsTrue'
  <2>1. \A q \in Runner : UnderWay(q)' => UnderWay(q)
    BY <1>4, <1>5 DEF UnderWay
  <2>2. ASSUME NEW q \in Runner, q # p
        PROVE  /\ run[q].alone => ~UnderWay(q)
               /\ UnderWay(q)' <=> UnderWay(q)
               /\ run'[q] = run[q]
    BY <1>5, <2>2 DEF SeedInv, AloneIsTrue, UnderWay
  <2>3. /\ run'[p].at = "done" => run'[p].next = Len(Main) + 1
        /\ UnderWay(p)' => run'[p].next \in DOMAIN Main
        /\ run'[p].at \in {"done", "running"} /\ run'[p].alone = run[p].alone
    BY <1>2, <1>4, <1>5, MainIsLong DEF UnderWay
  <2> SUFFICES ASSUME NEW q \in Runner
               PROVE  /\ run'[q].at = "done" => run'[q].next = Len(Main) + 1
                      /\ UnderWay(q)' => run'[q].next \in DOMAIN Main
                      /\ run'[q].alone => /\ run'[q].at # "failed"
                                          /\ run'[q].at = "absent" => RowOf(q)' \notin rows'
                                          /\ UnderWay(q)' => \A o \in Runner : o # q => ~UnderWay(o)'
    BY DEF AloneIsTrue
  <2>4. CASE q = p
    BY <2>1, <2>3, <2>4 DEF SeedInv, AloneIsTrue
  <2>5. CASE q # p
    BY <2>1, <2>2, <2>5 DEF SeedInv, AloneIsTrue, UnderWay
  <2> QED
    BY <2>4, <2>5
<1> QED
  BY <1>8, <1>10, <1>11, <1>12 DEF SeedInv

\* A run that starts, reads an absent row, fails or is killed writes nothing.
LEMMA RunMovesInv ==
  ASSUME SeedInv, NEW p \in Runner, UNCHANGED rows,
         off' \subseteq {Demo("user"), Demo("campaign")}, run' \in [Runner -> RunType],
         \A q \in Runner : q # p =>
           /\ run'[q].at = run[q].at /\ run'[q].next = run[q].next
           /\ run'[q].alone => run[q].alone /\ (UnderWay(q) => ~UnderWay(p)'),
         \A j \in 1 .. run'[p].next - 1 : Main[j] \in rows,
         run'[p].at # "done", UnderWay(p)' => run'[p].next \in DOMAIN Main,
         run'[p].alone =>
           /\ run'[p].at # "failed"
           /\ run'[p].at = "absent" => RowOf(p)' \notin rows
           /\ UnderWay(p)' => \A q \in Runner : q # p => ~UnderWay(q)
  PROVE  SeedInv'
<1>1. SeedTypeOK'
  BY DEF SeedInv, SeedTypeOK, RunType
<1>2. RowsClosed'
  BY DEF SeedInv, RowsClosed
<1>3. PastIsThere'
  BY DEF SeedInv, PastIsThere
<1>4. \A q \in Runner : q # p => UnderWay(q)' = UnderWay(q) /\ RowOf(q)' = RowOf(q)
  BY DEF UnderWay, RowOf
<1>5. AloneIsTrue'
  BY <1>4 DEF SeedInv, AloneIsTrue
<1> QED
  BY <1>1, <1>2, <1>3, <1>5 DEF SeedInv

LEMMA StartSeedInv == ASSUME SeedInv, NEW p \in Runner, StartSeed(p) PROVE SeedInv'
<1> DEFINE quiet == \A q \in Runner : ~UnderWay(q)
           fresh == [at |-> "running", next |-> 1, alone |-> quiet, starts |-> run[p].starts + 1]
<1>1. /\ run \in [Runner -> RunType] /\ off \subseteq {Demo("user"), Demo("campaign")}
      /\ SeedBound \in Nat
  BY SeedAssumption DEF SeedInv, SeedTypeOK, RunType
<1>2. /\ run' = [q \in Runner |-> IF q = p THEN fresh
                  ELSE IF UnderWay(q) THEN [run[q] EXCEPT !.alone = FALSE] ELSE run[q]]
      /\ ~UnderWay(p) /\ run[p].starts < SeedBound /\ UNCHANGED <<rows, off>>
  BY DEF StartSeed
<1>3. /\ fresh \in RunType /\ fresh.at = "running" /\ fresh.next = 1
      /\ fresh.alone = quiet
  <2>1. run[p].starts \in 0 .. SeedBound /\ quiet \in BOOLEAN
    BY <1>1 DEF RunType
  <2>2. run[p].starts + 1 \in 0 .. SeedBound
    BY <1>1, <1>2, <2>1
  <2> QED
    BY <2>1, <2>2, MainIsLong DEF RunType
<1> HIDE DEF fresh
<1>4. ASSUME NEW q \in Runner, q # p
      PROVE  /\ run'[q] \in RunType /\ run'[q].at = run[q].at /\ run'[q].next = run[q].next
             /\ run'[q].alone => run[q].alone /\ ~UnderWay(q)
  <2>1. run[q] \in RunType
    BY <1>1
  <2>2. CASE UnderWay(q)
    BY <1>2, <1>4, <2>1, <2>2 DEF RunType
  <2>3. CASE ~UnderWay(q)
    BY <1>2, <1>4, <2>1, <2>3 DEF RunType
  <2> QED
    BY <2>2, <2>3
<1>5. run'[p] = fresh /\ run' \in [Runner -> RunType]
  BY <1>2, <1>3, <1>4
<1>6. run'[p].next - 1 = 0 /\ run'[p].next \in DOMAIN Main
  BY <1>3, <1>5, MainIsLong
<1>7. \A j \in 1 .. run'[p].next - 1 : Main[j] \in rows
  BY <1>6
<1>8. run'[p].at = "running" /\ (run'[p].alone => \A q \in Runner : q # p => ~UnderWay(q))
  BY <1>3, <1>5
<1>9. \A q \in Runner : q # p => /\ run'[q].at = run[q].at /\ run'[q].next = run[q].next
                                 /\ run'[q].alone => run[q].alone /\ (UnderWay(q) => ~UnderWay(p)')
  BY <1>4
<1> HIDE DEF quiet
<1> QED
  BY <1>1, <1>2, <1>5, <1>6, <1>7, <1>8, <1>9, RunMovesInv

\* A run goes on to another step and stays where it was in the order.
LEMMA RunStaysInv ==
  ASSUME SeedInv, NEW p \in Runner, UnderWay(p), NEW at \in {"absent", "failed"},
         run' = [run EXCEPT ![p].at = at], UNCHANGED <<rows, off>>,
         at = "absent" => RowOf(p) \notin rows,
         at = "failed" => ~run[p].alone
  PROVE  SeedInv'
<1>1. run \in [Runner -> RunType] /\ off \subseteq {Demo("user"), Demo("campaign")}
  BY DEF SeedInv, SeedTypeOK, RunType
<1>2. /\ run' \in [Runner -> RunType] /\ run'[p].at = at /\ run'[p].next = run[p].next
      /\ run'[p].alone = run[p].alone /\ \A q \in Runner : q # p => run'[q] = run[q]
  BY <1>1 DEF RunType
<1>3. \A j \in 1 .. run'[p].next - 1 : Main[j] \in rows
  BY <1>2 DEF SeedInv, PastIsThere
<1>4. /\ run[p].next \in DOMAIN Main
      /\ run[p].alone => \A q \in Runner : q # p => ~UnderWay(q)
      /\ \A q \in Runner : q # p /\ run[q].alone => ~UnderWay(q)
  BY DEF SeedInv, AloneIsTrue
<1>5. RowOf(p)' = RowOf(p)
  BY <1>2 DEF RowOf
<1> QED
  BY <1>1, <1>2, <1>3, <1>4, <1>5, RunMovesInv

LEMMA SeedKilledInv == ASSUME SeedInv, NEW p \in Runner, SeedKilled(p) PROVE SeedInv'
<1> DEFINE r == [run[p] EXCEPT !.at = "idle", !.next = 1, !.alone = TRUE]
<1>1. run \in [Runner -> RunType] /\ off \subseteq {Demo("user"), Demo("campaign")}
  BY DEF SeedInv, SeedTypeOK, RunType
<1>2. run' = [run EXCEPT ![p] = r] /\ UNCHANGED <<rows, off>> /\ UnderWay(p)
  BY DEF SeedKilled
<1>3. r \in RunType /\ r.at = "idle" /\ r.next = 1
  <2>1. run[p] \in RunType
    BY <1>1
  <2>2. 1 \in 1 .. Len(Main) + 1
    BY MainIsLong
  <2> QED
    BY <2>1, <2>2 DEF RunType
<1> HIDE DEF r
<1>4. /\ run' \in [Runner -> RunType] /\ run'[p] = r
      /\ \A q \in Runner : q # p => run'[q] = run[q]
  BY <1>1, <1>2, <1>3
<1>5. /\ ~UnderWay(p)' /\ run'[p].next - 1 = 0 /\ run'[p].at = "idle"
  BY <1>3, <1>4 DEF UnderWay
<1>6. \A j \in 1 .. run'[p].next - 1 : Main[j] \in rows
  BY <1>5
<1> QED
  BY <1>1, <1>2, <1>4, <1>5, <1>6, RunMovesInv

LEMMA SeedStepInv == SeedInv /\ [SeedNext]_seedVars => SeedInv'
<1> SUFFICES ASSUME SeedInv, [SeedNext]_seedVars PROVE SeedInv'
  OBVIOUS
<1>1. ASSUME NEW p \in Runner, NativeUpsert(p) PROVE SeedInv'
  <2>1. UnderWay(p) /\ Upserted(p, {RowOf(p)}) /\ Native(RowOf(p))
    BY <1>1 DEF NativeUpsert, UnderWay
  <2>2. {RowOf(p)} = {RowOf(p)} \cup Nested(RowOf(p))
    BY <2>1 DEF Native, Nested
  <2> QED
    BY <2>1, <2>2, UpsertedInv
<1>2. ASSUME NEW p \in Runner, ReadRow(p) PROVE SeedInv'
  <2>1. CASE RowOf(p) \in rows
    BY <1>2, <2>1, UpsertedInv DEF ReadRow, UnderWay
  <2>2. CASE RowOf(p) \notin rows
    BY <1>2, <2>2, RunStaysInv DEF ReadRow, UnderWay
  <2> QED
    BY <2>1, <2>2
<1>3. ASSUME NEW p \in Runner, InsertRow(p) PROVE SeedInv'
  <2>1. CASE RowOf(p) \in rows
    <3>1. ~run[p].alone
      BY <1>3, <2>1 DEF InsertRow, SeedInv, AloneIsTrue
    <3> QED
      BY <1>3, <2>1, <3>1, RunStaysInv DEF InsertRow, UnderWay
  <2>2. CASE RowOf(p) \notin rows
    BY <1>3, <2>2, UpsertedInv DEF InsertRow, UnderWay
  <2> QED
    BY <2>1, <2>2
<1>4. ASSUME NEW p \in Runner, StartSeed(p) PROVE SeedInv'
  BY <1>4, StartSeedInv
<1>5. ASSUME NEW p \in Runner, SeedKilled(p) PROVE SeedInv'
  BY <1>5, SeedKilledInv
<1>6. ASSUME NEW one \in {Demo("user"), Demo("campaign")}, TurnOff(one) PROVE SeedInv'
  BY <1>6 DEF TurnOff, SeedInv, SeedTypeOK, RowsClosed, PastIsThere, AloneIsTrue, UnderWay, RowOf
<1>7. CASE UNCHANGED seedVars
  BY <1>7 DEF seedVars, SeedInv, SeedTypeOK, RowsClosed, PastIsThere, AloneIsTrue, UnderWay, RowOf
<1> QED
  BY <1>1, <1>2, <1>3, <1>4, <1>5, <1>6, <1>7 DEF SeedNext

\* However often the seed script is started, killed and doubled, no row is left
\* without the rows it refers to or belongs with, a run that ends well leaves
\* every row, and one that was alone never fails, for any number of runs and
\* demonstration payments (prisma/seed.ts).
THEOREM SeedAlwaysRunsAgain == SeedSpec => []SeedRunsAgain
<1>1. SeedInv => SeedRunsAgain
  <2> SUFFICES ASSUME SeedInv, NEW p \in Runner
               PROVE  /\ run[p].at = "done" => rows = AllRows
                      /\ run[p].at = "failed" => ~run[p].alone
    BY DEF SeedInv, RowsClosed, SeedRunsAgain
  <2>1. ASSUME run[p].at = "done" PROVE rows = AllRows
    <3>1. \A k \in DOMAIN Main : Main[k] \in rows
      BY <2>1, MainIsLong DEF SeedInv, AloneIsTrue, PastIsThere
    <3>2. SeedRows \subseteq rows
      BY <3>1 DEF SeedRows
    <3>3. \A one \in SeedRows : Nested(one) \subseteq rows
      BY <3>2 DEF SeedInv, RowsClosed
    <3> QED
      BY <3>2, <3>3 DEF AllRows, SeedInv, SeedTypeOK
  <2> QED
    BY <2>1 DEF SeedInv, AloneIsTrue
<1> QED
  BY SeedInitInv, SeedStepInv, <1>1, PTL DEF SeedSpec

-----------------------------------------------------------------------------
(* Payments under the circuit breaker                                      *)

\* What a call lost sight of and may still land, and whether its own last
\* payment landed.
Astray(c) == {p \in lingering : p.call = c}
Landed(s) == IF s.at \in {"paid", "returned"} THEN 1 ELSE 0

\* A payment beyond the one a call answers for is one whose answer was lost.
LossesPay ==
  /\ IsFiniteSet(lingering)
  /\ \A c \in Call :
       /\ submit[c].landed + Cardinality(Astray(c)) <= submit[c].lost + Landed(submit[c])
       /\ submit[c].at \in {"paid", "returned"} => submit[c].landed >= 1

SubmitInv == SubmitTypeOK /\ LossesPay

LEMMA RetriedKeeps ==
  ASSUME NEW s \in SubmitType
  PROVE  /\ Retried(s) \in SubmitType /\ Retried(s).at \in {"gate", "threw"}
         /\ Retried(s).landed = s.landed /\ Retried(s).lost = s.lost /\ Retried(s).read = s.read
         /\ s.try < MaxTries => Retried(s).at = "gate" /\ Retried(s).try = s.try + 1
<1>1. CASE s.try < MaxTries
  <2> DEFINE t == [s EXCEPT !.at = "gate", !.try = @ + 1]
  <2>1. s.try \in 1 .. MaxTries /\ MaxTries \in Nat
    BY DEF SubmitType, MaxTries
  <2>2. s.try + 1 \in 1 .. MaxTries
    BY <1>1, <2>1
  <2>3. /\ t \in SubmitType /\ t.at = "gate" /\ t.try = s.try + 1 /\ t.landed = s.landed
        /\ t.lost = s.lost /\ t.read = s.read
    BY <2>2 DEF SubmitType
  <2>4. Retried(s) = t
    BY <1>1 DEF Retried
  <2> HIDE DEF t
  <2> QED
    BY <2>3, <2>4
<1>2. CASE ~(s.try < MaxTries)
  <2> DEFINE t == [s EXCEPT !.at = "threw"]
  <2>1. /\ t \in SubmitType /\ t.at = "threw" /\ t.landed = s.landed
        /\ t.lost = s.lost /\ t.read = s.read
    BY DEF SubmitType
  <2>2. Retried(s) = t
    BY <1>2 DEF Retried
  <2> HIDE DEF t
  <2> QED
    BY <1>2, <2>1, <2>2
<1> QED
  BY <1>1, <1>2

LEMMA AstrayIsFinite ==
  ASSUME SubmitInv, NEW c \in Call
  PROVE  IsFiniteSet(Astray(c)) /\ Cardinality(Astray(c)) \in Nat
<1>1. Astray(c) \subseteq lingering /\ IsFiniteSet(lingering)
  BY DEF Astray, SubmitInv, LossesPay
<1> QED
  BY <1>1, FS_Subset, FS_CardinalityType

\* A call that goes on and leaves nothing behind.
LEMMA CallGoesOn ==
  ASSUME SubmitInv, NEW c \in Call, NEW s \in SubmitType, submit' = [submit EXCEPT ![c] = s],
         UNCHANGED lingering, sequence' \in Nat,
         breaker' \in [state : {"closed", "open", "halfOpen"}, failures : 0 .. BreakAfter - 1],
         s.landed - s.lost - Landed(s) <= submit[c].landed - submit[c].lost - Landed(submit[c]),
         s.at \in {"paid", "returned"} => s.landed >= 1
  PROVE  SubmitInv'
<1>1. submit \in [Call -> SubmitType]
  BY DEF SubmitInv, SubmitTypeOK
<1>2. /\ submit' \in [Call -> SubmitType] /\ submit'[c] = s
      /\ \A d \in Call : d # c => submit'[d] = submit[d]
  BY <1>1
<1>3. SubmitTypeOK'
  BY <1>2 DEF SubmitInv, SubmitTypeOK
<1>4. ASSUME NEW d \in Call
      PROVE  /\ submit'[d].landed + Cardinality(Astray(d)') <= submit'[d].lost + Landed(submit'[d])
             /\ submit'[d].at \in {"paid", "returned"} => submit'[d].landed >= 1
  <2>1. Astray(d)' = Astray(d)
    BY DEF Astray
  <2>2. CASE d # c
    BY <1>2, <2>1, <2>2 DEF SubmitInv, LossesPay
  <2>3. CASE d = c
    <3>1. /\ submit[c].landed + Cardinality(Astray(c)) <= submit[c].lost + Landed(submit[c])
          /\ Cardinality(Astray(c)) \in Nat
      BY AstrayIsFinite DEF SubmitInv, LossesPay
    <3>2. /\ submit[c].landed \in Nat /\ submit[c].lost \in Nat /\ s.landed \in Nat /\ s.lost \in Nat
          /\ Landed(s) \in Nat /\ Landed(submit[c]) \in Nat
      BY <1>1 DEF SubmitType, Landed
    <3>3. s.landed + Cardinality(Astray(c)) <= s.lost + Landed(s)
      BY <3>1, <3>2
    <3> QED
      BY <1>2, <2>1, <2>3, <3>3
  <2> QED
    BY <2>2, <2>3
<1>5. LossesPay'
  BY <1>4 DEF SubmitInv, LossesPay
<1> QED
  BY <1>3, <1>5 DEF SubmitInv

LEMMA BreakerTyped ==
  ASSUME breaker \in [state : {"closed", "open", "halfOpen"}, failures : 0 .. BreakAfter - 1]
  PROVE  /\ BreakerFails \in [state : {"closed", "open", "halfOpen"}, failures : 0 .. BreakAfter - 1]
         /\ BreakerSucceeds \in [state : {"closed", "open", "halfOpen"}, failures : 0 .. BreakAfter - 1]
<1>1. breaker.failures \in 0 .. 4 /\ breaker.state \in {"closed", "open", "halfOpen"}
  BY DEF BreakAfter
<1>2. [breaker EXCEPT !.failures = @ + 1] =
        [state |-> breaker.state, failures |-> breaker.failures + 1]
  OBVIOUS
<1>3. breaker.failures + 1 # 5 => breaker.failures + 1 \in 0 .. 4
  BY <1>1
<1>4. BreakerSucceeds.state \in {"closed", "open"} /\ BreakerSucceeds.failures = 0
  BY DEF BreakerSucceeds
<1> QED
  BY <1>1, <1>2, <1>3, <1>4 DEF BreakerFails, BreakerSucceeds, BreakAfter

LEMMA AttemptInv ==
  ASSUME SubmitInv, NEW c \in Call,
         \/ PassBreaker(c) \/ BrokenCircuit(c) \/ HalfOpen(c) \/ LoadAccount(c)
         \/ Send(c) \/ AnswerArrives(c)
  PROVE  SubmitInv'
<1> DEFINE Breaker == [state : {"closed", "open", "halfOpen"}, failures : 0 .. BreakAfter - 1]
           s == submit[c]
<1>1. /\ sequence \in Nat /\ breaker \in Breaker /\ submit \in [Call -> SubmitType]
      /\ s \in SubmitType /\ s.landed \in Nat /\ s.lost \in Nat
  BY DEF SubmitInv, SubmitTypeOK, SubmitType
<1>2. BreakerFails \in Breaker /\ BreakerSucceeds \in Breaker
  BY <1>1, BreakerTyped
<1>3. breaker' \in Breaker /\ sequence' \in Nat /\ UNCHANGED lingering
  BY <1>1, <1>2 DEF PassBreaker, BrokenCircuit, HalfOpen, LoadAccount, Send, AnswerArrives, BreakAfter
<1> HIDE DEF Breaker, s
<1>4. ASSUME NEW t \in SubmitType, submit' = [submit EXCEPT ![c] = t], t.lost = s.lost,
             t.landed - Landed(t) <= s.landed - Landed(s),
             t.at \in {"paid", "returned"} => t.landed >= 1
      PROVE  SubmitInv'
  <2>1. t.landed \in Nat /\ t.lost \in Nat /\ Landed(t) \in Nat /\ Landed(s) \in Nat
    BY DEF SubmitType, Landed
  <2>2. t.landed - t.lost - Landed(t) <= s.landed - s.lost - Landed(s)
    BY <1>1, <1>4, <2>1
  <2> QED
    BY <1>3, <1>4, <2>2, CallGoesOn DEF Breaker, s
<1>5. ASSUME NEW t \in SubmitType, submit' = [submit EXCEPT ![c] = t], t.lost = s.lost,
             t.landed = s.landed, t.at \in {"load", "send"}, s.at \in {"gate", "load"}
      PROVE  SubmitInv'
  <2>1. Landed(t) = 0 /\ Landed(s) = 0
    BY <1>5 DEF Landed
  <2>2. t.landed - Landed(t) <= s.landed - Landed(s)
    BY <1>1, <1>5, <2>1
  <2>3. t.at \notin {"paid", "returned"}
    BY <1>5
  <2> QED
    BY <1>4, <1>5, <2>2, <2>3
<1>9. CASE PassBreaker(c) \/ HalfOpen(c)
  <2> DEFINE t == [submit[c] EXCEPT !.at = "load"]
  <2>1. submit' = [submit EXCEPT ![c] = t] /\ s.at = "gate"
    BY <1>9 DEF PassBreaker, HalfOpen, s
  <2>2. t \in SubmitType /\ t.lost = s.lost /\ t.landed = s.landed /\ t.at = "load"
    BY <1>1 DEF SubmitType, s
  <2> HIDE DEF t
  <2> QED
    BY <1>5, <2>1, <2>2
<1>10. CASE LoadAccount(c)
  <2> DEFINE t == [submit[c] EXCEPT !.at = "send", !.read = sequence]
  <2>1. submit' = [submit EXCEPT ![c] = t] /\ s.at = "load"
    BY <1>10 DEF LoadAccount, s
  <2>2. t \in SubmitType /\ t.lost = s.lost /\ t.landed = s.landed /\ t.at = "send"
    BY <1>1 DEF SubmitType, s
  <2> HIDE DEF t
  <2> QED
    BY <1>5, <2>1, <2>2
<1>11. ASSUME submit' = [submit EXCEPT ![c] = Retried(s)], s.at \in {"gate", "rejected"}
       PROVE  SubmitInv'
  <2> DEFINE t == Retried(s)
  <2>1. t \in SubmitType /\ t.at \in {"gate", "threw"} /\ t.landed = s.landed /\ t.lost = s.lost
    BY <1>1, RetriedKeeps
  <2> HIDE DEF t
  <2>2. Landed(t) = 0 /\ Landed(s) = 0
    BY <1>11, <2>1 DEF Landed
  <2>3. submit' = [submit EXCEPT ![c] = t]
    BY <1>11 DEF t
  <2>4. t.landed - Landed(t) <= s.landed - Landed(s)
    BY <1>1, <2>1, <2>2
  <2>5. t.at \notin {"paid", "returned"}
    BY <2>1
  <2> QED
    BY <1>4, <2>1, <2>3, <2>4, <2>5
<1>6. CASE BrokenCircuit(c)
  <2>1. submit' = [submit EXCEPT ![c] = Retried(s)] /\ s.at = "gate"
    BY <1>6 DEF BrokenCircuit, s
  <2>2. SubmitInv'
    BY <1>11, <2>1
  <2> QED
    BY <2>2
<1>7. CASE Send(c)
  <2>1. CASE s.read = sequence
    <3> DEFINE t == [submit[c] EXCEPT !.at = "paid", !.landed = @ + 1]
    <3>1. submit' = [submit EXCEPT ![c] = t] /\ s.at = "send"
      BY <1>7, <2>1 DEF Send, s
    <3>2. /\ t \in SubmitType /\ t.lost = s.lost /\ t.landed = s.landed + 1 /\ t.at = "paid"
      <4>1. submit[c] \in SubmitType /\ submit[c].landed + 1 \in Nat
        BY <1>1 DEF s
      <4> QED
        BY <4>1 DEF SubmitType, s
    <3> HIDE DEF t
    <3>3. Landed(t) = 1 /\ Landed(s) = 0
      BY <3>1, <3>2 DEF Landed
    <3>4. t.landed - Landed(t) <= s.landed - Landed(s)
      BY <1>1, <3>2, <3>3
    <3>5. t.at \in {"paid", "returned"} => t.landed >= 1
      BY <1>1, <3>1, <3>2
    <3> QED
      BY <1>4, <3>1, <3>2, <3>4, <3>5
  <2>2. CASE s.read # sequence
    <3> DEFINE t == [submit[c] EXCEPT !.at = "rejected"]
    <3>1. submit' = [submit EXCEPT ![c] = t] /\ s.at = "send"
      BY <1>7, <2>2 DEF Send, s
    <3>2. t \in SubmitType /\ t.lost = s.lost /\ t.landed = s.landed /\ t.at = "rejected"
      BY <1>1 DEF SubmitType, s
    <3> HIDE DEF t
    <3>3. Landed(t) = 0 /\ Landed(s) = 0
      BY <3>1, <3>2 DEF Landed
    <3>4. t.landed - Landed(t) <= s.landed - Landed(s)
      BY <1>1, <3>2, <3>3
    <3>5. t.at \in {"paid", "returned"} => t.landed >= 1
      BY <1>1, <3>1, <3>2
    <3> QED
      BY <1>4, <3>1, <3>2, <3>4, <3>5
  <2> QED
    BY <2>1, <2>2
<1>8. CASE AnswerArrives(c)
  <2>1. CASE s.at = "paid"
    <3> DEFINE t == [submit[c] EXCEPT !.at = "returned"]
    <3>0. s.landed >= 1
      BY <2>1 DEF SubmitInv, LossesPay, s
    <3>1. submit' = [submit EXCEPT ![c] = t] /\ s.landed >= 1
      BY <1>8, <2>1, <3>0 DEF AnswerArrives, s
    <3>2. t \in SubmitType /\ t.lost = s.lost /\ t.landed = s.landed /\ t.at = "returned"
      BY <1>1 DEF SubmitType, s
    <3> HIDE DEF t
    <3>3. Landed(t) = 1 /\ Landed(s) = 1
      BY <2>1, <3>2 DEF Landed
    <3>4. t.landed - Landed(t) <= s.landed - Landed(s)
      BY <1>1, <3>2, <3>3
    <3>5. t.at \in {"paid", "returned"} => t.landed >= 1
      BY <1>1, <3>1, <3>2
    <3> QED
      BY <1>4, <3>1, <3>2, <3>4, <3>5
  <2>2. CASE s.at = "rejected"
    <3>1. submit' = [submit EXCEPT ![c] = Retried(s)]
      BY <1>8, <2>2 DEF AnswerArrives, s
    <3> QED
      BY <1>11, <2>2, <3>1
  <2> QED
    BY <1>8, <2>1, <2>2 DEF AnswerArrives, s
<1> QED
  BY <1>6, <1>7, <1>8, <1>9, <1>10

LEMMA AnswerLostInv == ASSUME SubmitInv, NEW c \in Call, AnswerLost(c) PROVE SubmitInv'
<1> DEFINE s == submit[c]
           u == [s EXCEPT !.lost = @ + 1]
           t == Retried(u)
<1>1. /\ s \in SubmitType /\ submit \in [Call -> SubmitType] /\ sequence' \in Nat
      /\ s.landed \in Nat /\ s.lost \in Nat /\ s.read \in Nat
      /\ breaker \in [state : {"closed", "open", "halfOpen"}, failures : 0 .. BreakAfter - 1]
      /\ lingering \subseteq [call : Call, next : Nat]
  BY DEF SubmitInv, SubmitTypeOK, SubmitType, AnswerLost
<1>2. u \in SubmitType /\ u.lost = s.lost + 1 /\ u.landed = s.landed
  BY <1>1 DEF SubmitType
<1>3. submit' = [submit EXCEPT ![c] = t]
  BY DEF AnswerLost
<1>4. breaker' \in [state : {"closed", "open", "halfOpen"}, failures : 0 .. BreakAfter - 1]
  BY <1>1, BreakerTyped DEF AnswerLost
<1> HIDE DEF u
<1>5. /\ t \in SubmitType /\ t.lost = s.lost + 1 /\ t.landed = s.landed
      /\ t.at \in {"gate", "threw"}
  BY <1>2, RetriedKeeps
<1> HIDE DEF s, t
<1>6. CASE s.at = "paid" /\ UNCHANGED lingering
  <2>1. t.landed - t.lost - Landed(t) <= s.landed - s.lost - Landed(s)
    BY <1>1, <1>5, <1>6 DEF Landed
  <2> QED
    BY <1>1, <1>3, <1>4, <1>5, <1>6, <2>1, CallGoesOn DEF s
<1>7. CASE s.at = "send" /\ lingering' = lingering \cup {[call |-> c, next |-> s.read]}
  <2> DEFINE new == [call |-> c, next |-> s.read]
  <2>1. /\ submit' \in [Call -> SubmitType] /\ submit'[c] = t
        /\ \A d \in Call : d # c => submit'[d] = submit[d]
    BY <1>1, <1>3, <1>5
  <2>2. new \in [call : Call, next : Nat] /\ new.call = c
    BY <1>1
  <2>3. lingering' = lingering \cup {new}
    BY <1>7
  <2> HIDE DEF new
  <2>4. SubmitTypeOK'
    BY <1>1, <1>4, <2>1, <2>2, <2>3 DEF SubmitTypeOK
  <2>5. Astray(c)' = Astray(c) \cup {new} /\ \A d \in Call : d # c => Astray(d)' = Astray(d)
    BY <2>2, <2>3 DEF Astray
  <2>6. Cardinality(Astray(c)') <= Cardinality(Astray(c)) + 1 /\ Cardinality(Astray(c)) \in Nat
        /\ Cardinality(Astray(c)') \in Nat
    BY <2>5, AstrayIsFinite, FS_AddElement
  <2>7. s.landed + Cardinality(Astray(c)) <= s.lost
    BY <1>1, <1>7, <2>6 DEF SubmitInv, LossesPay, Landed, s
  <2>8. t.landed + Cardinality(Astray(c)') <= t.lost + Landed(t)
    BY <1>1, <1>5, <2>6, <2>7 DEF Landed
  <2>9. IsFiniteSet(lingering')
    BY <2>3, FS_AddElement DEF SubmitInv, LossesPay
  <2>10. LossesPay'
    BY <1>5, <2>1, <2>5, <2>8, <2>9 DEF SubmitInv, LossesPay
  <2> QED
    BY <2>4, <2>10 DEF SubmitInv
<1> QED
  BY <1>6, <1>7 DEF AnswerLost, s

LEMMA LandLateInv == ASSUME SubmitInv, NEW p \in lingering, LandLate(p) PROVE SubmitInv'
<1> DEFINE c == p.call
           t == [submit[c] EXCEPT !.landed = @ + 1]
<1>1. /\ c \in Call /\ submit \in [Call -> SubmitType] /\ sequence \in Nat
      /\ lingering \subseteq [call : Call, next : Nat]
      /\ submit[c].landed \in Nat /\ submit[c].lost \in Nat
  BY DEF SubmitInv, SubmitTypeOK, SubmitType
<1>2. /\ submit' = [submit EXCEPT ![c] = t] /\ sequence' \in Nat /\ UNCHANGED breaker
      /\ lingering' = lingering \ {p}
  BY <1>1 DEF LandLate
<1>3. /\ t \in SubmitType /\ t.landed = submit[c].landed + 1 /\ t.lost = submit[c].lost
      /\ t.at = submit[c].at
  BY <1>1 DEF SubmitType
<1>4. /\ submit' \in [Call -> SubmitType] /\ submit'[c] = t
      /\ \A d \in Call : d # c => submit'[d] = submit[d]
  BY <1>1, <1>2, <1>3
<1>5. SubmitTypeOK'
  BY <1>1, <1>2, <1>4 DEF SubmitInv, SubmitTypeOK
<1>6. Astray(c)' = Astray(c) \ {p} /\ p \in Astray(c) /\ \A d \in Call : d # c => Astray(d)' = Astray(d)
  BY <1>2 DEF Astray
<1>7. Cardinality(Astray(c)') = Cardinality(Astray(c)) - 1 /\ Cardinality(Astray(c)) \in Nat
  <2>1. IsFiniteSet(Astray(c)) /\ Cardinality(Astray(c)) \in Nat
    BY <1>1, AstrayIsFinite
  <2> QED
    BY <1>6, <2>1, FS_RemoveElement
<1>8. submit[c].landed + Cardinality(Astray(c)) <= submit[c].lost + Landed(submit[c])
  BY <1>1 DEF SubmitInv, LossesPay
<1> HIDE DEF c, t
<1>9. Landed(t) = Landed(submit[c]) /\ Landed(t) \in Nat
  BY <1>3 DEF Landed
<1>10. t.landed + Cardinality(Astray(c)') <= t.lost + Landed(t)
  BY <1>1, <1>3, <1>7, <1>8, <1>9
<1>11. IsFiniteSet(lingering')
  BY <1>2, FS_RemoveElement DEF SubmitInv, LossesPay
<1>12. t.at \in {"paid", "returned"} => t.landed >= 1
  BY <1>1, <1>3
<1>13. LossesPay'
  BY <1>1, <1>4, <1>6, <1>10, <1>11, <1>12 DEF SubmitInv, LossesPay
<1> QED
  BY <1>5, <1>13 DEF SubmitInv

LEMMA SubmitStepInv == SubmitInv /\ [SubmitNext]_submitVars => SubmitInv'
<1> SUFFICES ASSUME SubmitInv, [SubmitNext]_submitVars PROVE SubmitInv'
  OBVIOUS
<1>1. ASSUME NEW c \in Call,
             \/ PassBreaker(c) \/ BrokenCircuit(c) \/ HalfOpen(c) \/ LoadAccount(c)
             \/ Send(c) \/ AnswerArrives(c)
      PROVE  SubmitInv'
  BY <1>1, AttemptInv
<1>2. ASSUME NEW c \in Call, AnswerLost(c) PROVE SubmitInv'
  BY <1>2, AnswerLostInv
<1>3. ASSUME NEW p \in lingering, LandLate(p) PROVE SubmitInv'
  BY <1>3, LandLateInv
<1>4. CASE UNCHANGED submitVars
  BY <1>4 DEF submitVars, SubmitInv, SubmitTypeOK, LossesPay, Astray
<1> QED
  BY <1>1, <1>2, <1>3, <1>4 DEF SubmitNext

LEMMA SubmitInitInv == SubmitInit => SubmitInv
<1> SUFFICES ASSUME SubmitInit PROVE SubmitInv
  OBVIOUS
<1>1. SubmitTypeOK
  BY DEF SubmitInit, SubmitTypeOK, SubmitType, MaxTries, BreakAfter
<1>2. \A c \in Call : Astray(c) = {}
  BY DEF SubmitInit, Astray
<1>3. LossesPay
  BY <1>2, FS_EmptySet DEF SubmitInit, LossesPay, Landed
<1> QED
  BY <1>1, <1>3 DEF SubmitInv

LEMMA PaysWhileInv == ASSUME SubmitInv, NEW c \in Call PROVE PaysAsItSays(c)
<1>1. /\ submit[c].landed + Cardinality(Astray(c)) <= submit[c].lost + Landed(submit[c])
      /\ submit[c].at \in {"paid", "returned"} => submit[c].landed >= 1
      /\ Cardinality(Astray(c)) \in Nat
  BY AstrayIsFinite DEF SubmitInv, LossesPay
<1>2. submit[c].landed \in Nat /\ submit[c].lost \in Nat
  BY DEF SubmitInv, SubmitTypeOK, SubmitType
<1> QED
  BY <1>1, <1>2 DEF PaysAsItSays, Landed

\* However many calls pay at once and however many answers are lost, a call
\* pays again only after a lost answer, has paid when it returns, and has not
\* when it throws without having lost one (stellar.service.ts, submitPayment).
THEOREM PaymentsAsTheySay == SubmitSpec => [](\A c \in Call : PaysAsItSays(c))
<1>1. SubmitInv => \A c \in Call : PaysAsItSays(c)
  BY PaysWhileInv
<1> QED
  BY SubmitInitInv, SubmitStepInv, <1>1, PTL DEF SubmitSpec

\* On a network that loses nothing the ledger's number counts the calls that
\* are through, and an attempt fails only because another call got through
\* since the one before it.
Through == {c \in Call : submit[c].at \in {"paid", "returned"}}

InStep(s) ==
  /\ s.at # "threw"
  /\ s.at \in {"gate", "load"} => s.try <= sequence + 1
  /\ s.at = "send" => s.try <= s.read + 1 /\ s.read <= sequence
  /\ s.at \in {"rejected", "paid", "returned"} => s.try <= sequence

CallsInStep ==
  /\ lingering = {} /\ sequence = Cardinality(Through)
  /\ \A c \in Call : InStep(submit[c])
  /\ sequence # 0 => \E c \in Through : submit[c].try = 1

\* The breaker has counted no more failures than attempts were rejected.
Rejections == {r \in Call \X (1 .. MaxTries) : r[2] < submit[r[1]].try}
BreakerHolds == breaker.state = "closed" /\ breaker.failures <= Cardinality(Rejections)

FewInv == SubmitInv /\ (Lossless => CallsInStep /\ BreakerHolds)

FewCalls == IsFiniteSet(Call) /\ Cardinality(Call) <= 3

LEMMA ThroughIsFew ==
  ASSUME FewCalls
  PROVE  /\ IsFiniteSet(Through) /\ Cardinality(Through) \in 0 .. 3
         /\ \A c \in Call : c \notin Through => Cardinality(Through) <= 2
<1>1. IsFiniteSet(Call) /\ Cardinality(Call) \in Nat /\ Cardinality(Call) <= 3
  BY FS_CardinalityType DEF FewCalls
<1>2. Through \subseteq Call
  BY DEF Through
<1>3. IsFiniteSet(Through) /\ Cardinality(Through) \in Nat /\ Cardinality(Through) <= Cardinality(Call)
  BY <1>1, <1>2, FS_Subset, FS_CardinalityType
<1>4. ASSUME NEW c \in Call, c \notin Through PROVE Cardinality(Through) <= 2
  <2>1. IsFiniteSet(Call \ {c}) /\ Cardinality(Call \ {c}) = Cardinality(Call) - 1
    BY <1>1, FS_RemoveElement
  <2>2. Through \in SUBSET (Call \ {c})
    BY <1>2, <1>4
  <2>3. Cardinality(Through) <= Cardinality(Call \ {c})
    BY <2>1, <2>2, FS_Subset
  <2> QED
    BY <1>1, <1>3, <2>1, <2>3
<1> QED
  BY <1>1, <1>3, <1>4

\* The call that got through first was never rejected, so the others are
\* rejected four times at most.
LEMMA RejectionsAreFew ==
  ASSUME FewCalls, SubmitTypeOK, CallsInStep
  PROVE  IsFiniteSet(Rejections) /\ Cardinality(Rejections) \in 0 .. 4
<1>1. \A c \in Call : submit[c] \in SubmitType /\ submit[c].try \in Nat /\ submit[c].read \in Nat
  BY DEF SubmitTypeOK, SubmitType, MaxTries
<1>2. sequence = Cardinality(Through) /\ sequence \in 0 .. 3
  BY ThroughIsFew DEF CallsInStep
<1>3. ASSUME NEW c \in Call
      PROVE  submit[c].try <= 3 /\ (sequence = 0 => submit[c].try <= 1)
  <2>1. InStep(submit[c])
    BY DEF CallsInStep
  <2>2. c \notin Through => sequence <= 2
    BY <1>2, ThroughIsFew
  <2>3. submit[c].at \in {"gate", "load", "send", "paid", "rejected", "returned"}
    BY <1>1, <2>1 DEF InStep, SubmitType
  <2>4. CASE submit[c].at \in {"paid", "returned"}
    BY <1>1, <1>2, <2>1, <2>4 DEF InStep
  <2>5. CASE submit[c].at \notin {"paid", "returned"}
    <3>1. sequence <= 2
      BY <2>2, <2>5 DEF Through
    <3>2. submit[c].try <= sequence + 1
      BY <1>1, <1>2, <2>1, <2>3, <2>5 DEF InStep
    <3> QED
      BY <1>1, <1>2, <3>1, <3>2
  <2> QED
    BY <2>4, <2>5
<1>4. CASE sequence = 0
  <2>1. Rejections = {}
    BY <1>1, <1>3, <1>4 DEF Rejections
  <2> QED
    BY <2>1, FS_EmptySet
<1>5. CASE sequence # 0
  <2>1. PICK first \in Call : submit[first].try = 1
    BY <1>5 DEF CallsInStep, Through
  <2> DEFINE Others == Call \ {first}
  <2>2. IsFiniteSet(Others) /\ Cardinality(Others) \in Nat /\ Cardinality(Others) <= 2
    <3>1. IsFiniteSet(Call) /\ Cardinality(Call) \in Nat /\ Cardinality(Call) <= 3
      BY FS_CardinalityType DEF FewCalls
    <3>2. IsFiniteSet(Others) /\ Cardinality(Others) = Cardinality(Call) - 1
      BY <3>1, FS_RemoveElement
    <3>3. Cardinality(Others) \in Nat
      BY <3>2, FS_CardinalityType
    <3> HIDE DEF Others
    <3> QED
      BY <3>1, <3>2, <3>3
  <2>3. IsFiniteSet(1 .. 2) /\ Cardinality(1 .. 2) = 2
    <3>1. 1 .. 2 = {1} \cup {2} /\ 2 \notin {1}
      OBVIOUS
    <3>2. IsFiniteSet({1}) /\ Cardinality({1}) = 1
      BY FS_Singleton
    <3>3. IsFiniteSet({1} \cup {2}) /\ Cardinality({1} \cup {2}) = 2
      BY <3>1, <3>2, FS_AddElement
    <3> QED
      BY <3>1, <3>3
  <2> HIDE DEF Others
  <2>4. IsFiniteSet(Others \X (1 .. 2)) /\ Cardinality(Others \X (1 .. 2)) = Cardinality(Others) * 2
    BY <2>2, <2>3, FS_Product
  <2>5. Rejections \in SUBSET (Others \X (1 .. 2))
    <3> SUFFICES ASSUME NEW r \in Rejections PROVE r \in Others \X (1 .. 2)
      OBVIOUS
    <3>1. r \in Call \X (1 .. MaxTries) /\ r[1] \in Call /\ r[2] \in 1 .. MaxTries /\ r[2] < submit[r[1]].try
      BY DEF Rejections
    <3>2. r[2] \in 1 .. 2
      BY <1>1, <1>3, <3>1 DEF MaxTries
    <3>3. r[1] # first
      BY <2>1, <3>1 DEF MaxTries
    <3> QED
      BY <3>1, <3>2, <3>3 DEF Others
  <2>6. IsFiniteSet(Rejections) /\ Cardinality(Rejections) <= Cardinality(Others) * 2
    BY <2>4, <2>5, FS_Subset
  <2>7. Cardinality(Rejections) \in Nat
    BY <2>6, FS_CardinalityType
  <2> QED
    BY <2>2, <2>6, <2>7
<1> QED
  BY <1>4, <1>5

\* A call that neither lands nor is rejected, or that was rejected and tries
\* again, on the same number.
LEMMA SameNumber ==
  ASSUME SubmitTypeOK, CallsInStep, NEW c \in Call, NEW t \in SubmitType,
         submit' = [submit EXCEPT ![c] = t], UNCHANGED <<sequence, lingering>>, InStep(t),
         submit[c].at \in {"paid", "returned"} <=> t.at \in {"paid", "returned"},
         t.try = submit[c].try \/ submit[c].at \notin {"paid", "returned"}
  PROVE  CallsInStep'
<1>1. submit \in [Call -> SubmitType]
  BY DEF SubmitTypeOK
<1>2. submit'[c] = t /\ \A d \in Call : d # c => submit'[d] = submit[d]
  BY <1>1
<1>3. Through' = Through
  BY <1>2 DEF Through
<1>5. \A d \in Call : InStep(submit[d])'
  <2> SUFFICES ASSUME NEW d \in Call PROVE InStep(submit[d])'
    OBVIOUS
  <2>1. CASE d = c
    BY <1>2, <2>1 DEF InStep
  <2>2. CASE d # c
    BY <1>2, <2>2 DEF InStep, CallsInStep
  <2> QED
    BY <2>1, <2>2
<1>6. \A d \in Through : submit'[d].try = submit[d].try
  BY <1>2 DEF Through
<1>7. sequence' # 0 => \E d \in Through' : submit'[d].try = 1
  BY <1>3, <1>6 DEF CallsInStep
<1> QED
  BY <1>3, <1>5, <1>7 DEF CallsInStep

LEMMA LandsInOrder ==
  ASSUME FewCalls, SubmitTypeOK, CallsInStep, NEW c \in Call, submit[c].at = "send",
         submit[c].read = sequence, NEW t \in SubmitType, submit' = [submit EXCEPT ![c] = t],
         t.at = "paid", t.try = submit[c].try, sequence' = sequence + 1, UNCHANGED lingering
  PROVE  CallsInStep'
<1>1. /\ submit \in [Call -> SubmitType] /\ sequence \in Nat
      /\ \A d \in Call : submit[d].try \in Nat /\ submit[d].try >= 1 /\ submit[d].read \in Nat
  BY DEF SubmitTypeOK, SubmitType, MaxTries
<1>2. submit'[c] = t /\ \A d \in Call : d # c => submit'[d] = submit[d]
  BY <1>1
<1>3. Through' = Through \cup {c} /\ c \notin Through
  BY <1>2 DEF Through
<1>4. sequence' = Cardinality(Through')
  BY <1>3, ThroughIsFew, FS_AddElement DEF CallsInStep
<1>5. submit[c].try <= sequence + 1
  BY DEF CallsInStep, InStep
<1>6. ASSUME NEW d \in Call PROVE InStep(submit[d])'
  <2>1. CASE d = c
    BY <1>1, <1>2, <1>5, <2>1 DEF InStep
  <2>2. CASE d # c
    <3>1. InStep(submit[d])
      BY DEF CallsInStep
    <3> QED
      BY <1>1, <1>2, <2>2, <3>1 DEF InStep
  <2> QED
    BY <2>1, <2>2
<1>7. \E d \in Through' : submit'[d].try = 1
  <2>1. CASE sequence = 0
    BY <1>1, <1>2, <1>3, <1>5, <2>1
  <2>2. CASE sequence # 0
    <3>1. PICK d \in Through : submit[d].try = 1
      BY <2>2 DEF CallsInStep
    <3> QED
      BY <1>2, <1>3, <3>1 DEF Through
  <2> QED
    BY <2>1, <2>2
<1> QED
  BY <1>4, <1>6, <1>7 DEF CallsInStep

LEMMA RejectionsStay ==
  ASSUME SubmitTypeOK, NEW c \in Call, NEW t \in SubmitType, submit' = [submit EXCEPT ![c] = t],
         t.try = submit[c].try
  PROVE  Rejections' = Rejections
<1>1. \A d \in Call : submit'[d].try = submit[d].try
  BY DEF SubmitTypeOK
<1> QED
  BY <1>1 DEF Rejections

\* A rejected call has tries left, and the breaker takes the failure.
LEMMA RejectedGoesOn ==
  ASSUME FewCalls, SubmitTypeOK, CallsInStep, BreakerHolds, NEW c \in Call,
         submit[c].at = "rejected", AnswerArrives(c), SubmitTypeOK'
  PROVE  CallsInStep' /\ BreakerHolds'
<1> DEFINE s == submit[c]
           t == Retried(s)
<1>1. /\ s \in SubmitType /\ submit \in [Call -> SubmitType] /\ sequence \in Nat
      /\ s.try \in 1 .. MaxTries /\ \A d \in Call : submit[d].try \in Nat
      /\ s.read \in Nat /\ breaker.failures \in Nat
      /\ breaker \in [state : {"closed", "open", "halfOpen"}, failures : 0 .. BreakAfter - 1]
  BY DEF SubmitTypeOK, SubmitType, MaxTries, BreakAfter
<1>2. /\ submit' = [submit EXCEPT ![c] = t] /\ breaker' = BreakerFails
      /\ UNCHANGED <<sequence, lingering>>
  BY DEF AnswerArrives
<1>3. s.try <= sequence /\ sequence <= 2
  <2>1. c \notin Through
    BY DEF Through
  <2> QED
    BY <2>1, ThroughIsFew DEF CallsInStep, InStep
<1>4. s.try < MaxTries /\ s.try \in Nat
  BY <1>1, <1>3 DEF MaxTries
<1>5. t \in SubmitType /\ t.at = "gate" /\ t.try = s.try + 1
  BY <1>1, <1>4, RetriedKeeps
<1> HIDE DEF t
<1>6. InStep(t)
  BY <1>1, <1>3, <1>4, <1>5 DEF InStep
<1>7. CallsInStep'
  <2>1. submit[c].at \notin {"paid", "returned"} /\ t.at \notin {"paid", "returned"}
    BY <1>5
  <2> QED
    BY <1>2, <1>5, <1>6, <2>1, SameNumber
<1>8. Rejections' = Rejections \cup {<<c, s.try>>} /\ <<c, s.try>> \notin Rejections
  <2>1. submit'[c] = t /\ \A d \in Call : d # c => submit'[d] = submit[d]
    BY <1>1, <1>2
  <2>2. ASSUME NEW d \in Call, NEW k \in 1 .. MaxTries
        PROVE  k < submit'[d].try <=> k < submit[d].try \/ (d = c /\ k = s.try)
    BY <1>1, <1>4, <1>5, <2>1 DEF MaxTries
  <2>3. \A r \in Call \X (1 .. MaxTries) : r[1] \in Call /\ r[2] \in 1 .. MaxTries /\ r = <<r[1], r[2]>>
    OBVIOUS
  <2>4. <<c, s.try>> \in Call \X (1 .. MaxTries) /\ <<c, s.try>>[1] = c /\ <<c, s.try>>[2] = s.try
    BY <1>1
  <2>5. \A r \in Call \X (1 .. MaxTries) :
          r[2] < submit'[r[1]].try <=> r[2] < submit[r[1]].try \/ r = <<c, s.try>>
    BY <2>2, <2>3, <2>4
  <2>6. ~(s.try < submit[c].try)
    BY <1>4
  <2> QED
    BY <2>4, <2>5, <2>6 DEF Rejections
<1>9. /\ IsFiniteSet(Rejections) /\ Cardinality(Rejections) \in Nat
      /\ Cardinality(Rejections') = Cardinality(Rejections) + 1
  <2>1. IsFiniteSet(Rejections) /\ Cardinality(Rejections) \in Nat
    BY RejectionsAreFew
  <2> DEFINE new == <<c, s.try>>
  <2>2. Rejections' = Rejections \cup {new} /\ new \notin Rejections
    BY <1>8
  <2> HIDE DEF new
  <2>3. Cardinality(Rejections \cup {new}) = Cardinality(Rejections) + 1
    BY <2>1, <2>2, FS_AddElement
  <2> QED
    BY <2>1, <2>2, <2>3
<1>10. Cardinality(Rejections') <= 4
  <2>1. (SubmitTypeOK /\ CallsInStep => Cardinality(Rejections) \in 0 .. 4)'
    BY RejectionsAreFew, PTL
  <2> QED
    BY <1>7, <2>1
<1>11. breaker.failures + 1 <= Cardinality(Rejections') /\ breaker.failures + 1 # BreakAfter
  BY <1>1, <1>9, <1>10 DEF BreakerHolds, BreakAfter
<1>12. breaker' = [breaker EXCEPT !.failures = @ + 1]
  BY <1>2, <1>11 DEF BreakerFails, BreakerHolds
<1>13. breaker'.state = "closed" /\ breaker'.failures = breaker.failures + 1
  BY <1>1, <1>12 DEF BreakerHolds
<1> QED
  BY <1>7, <1>11, <1>13 DEF BreakerHolds

LEMMA StillLossless ==
  ASSUME SubmitTypeOK, NEW c \in Call, NEW t \in SubmitType, submit' = [submit EXCEPT ![c] = t],
         t.lost = submit[c].lost, Lossless'
  PROVE  Lossless
<1>1. \A d \in Call : submit'[d].lost = submit[d].lost
  BY DEF SubmitTypeOK
<1> QED
  BY <1>1 DEF Lossless

LEMMA FewStepInv ==
  ASSUME FewCalls, FewInv, [SubmitNext]_submitVars
  PROVE  FewInv'
<1>1. SubmitInv' /\ SubmitTypeOK /\ SubmitTypeOK'
  BY SubmitStepInv DEF FewInv, SubmitInv
<1> SUFFICES ASSUME Lossless' PROVE CallsInStep' /\ BreakerHolds'
  BY <1>1 DEF FewInv
<1>2. /\ submit \in [Call -> SubmitType] /\ sequence \in Nat
      /\ \A c \in Call : submit[c].lost \in Nat /\ submit[c].try \in Nat /\ submit[c].read \in Nat
      /\ breaker \in [state : {"closed", "open", "halfOpen"}, failures : 0 .. BreakAfter - 1]
  BY <1>1 DEF SubmitTypeOK, SubmitType, MaxTries
<1>3. ASSUME NEW c \in Call, AnswerLost(c) PROVE FALSE
  <2> DEFINE u == [submit[c] EXCEPT !.lost = @ + 1]
  <2>1. submit[c] \in SubmitType /\ submit[c].lost + 1 \in Nat
    BY <1>2
  <2>2. u \in SubmitType /\ u.lost = submit[c].lost + 1
    BY <2>1 DEF SubmitType
  <2>3. submit' = [submit EXCEPT ![c] = Retried(u)]
    BY <1>3 DEF AnswerLost
  <2> HIDE DEF u
  <2>4. submit'[c].lost = submit[c].lost + 1
    BY <1>2, <2>2, <2>3, RetriedKeeps
  <2> QED
    BY <1>2, <2>4 DEF Lossless
<1>4. ASSUME NEW p \in lingering, LandLate(p) PROVE FALSE
  <2> DEFINE t == [submit[p.call] EXCEPT !.landed = @ + 1]
  <2>1. p.call \in Call
    BY <1>1 DEF SubmitTypeOK
  <2>2. submit[p.call] \in SubmitType /\ submit[p.call].landed + 1 \in Nat
    BY <1>2, <2>1 DEF SubmitType
  <2>3. t \in SubmitType /\ t.lost = submit[p.call].lost
    BY <2>2 DEF SubmitType
  <2>4. submit' = [submit EXCEPT ![p.call] = t]
    BY <1>4 DEF LandLate
  <2> HIDE DEF t
  <2>5. Lossless
    BY <1>1, <2>1, <2>3, <2>4, StillLossless
  <2> QED
    BY <2>5 DEF FewInv, CallsInStep
<1>5. ASSUME NEW c \in Call, NEW t \in SubmitType, submit' = [submit EXCEPT ![c] = t],
             t.lost = submit[c].lost
      PROVE  CallsInStep /\ BreakerHolds
  BY <1>1, <1>5, StillLossless DEF FewInv
\* A step that changes neither the order nor the tries.
<1>6. ASSUME NEW c \in Call, NEW t \in SubmitType, submit' = [submit EXCEPT ![c] = t],
             t.lost = submit[c].lost, t.try = submit[c].try,
             submit[c].at \in {"paid", "returned"} <=> t.at \in {"paid", "returned"},
             CallsInStep /\ BreakerHolds => InStep(t),
             UNCHANGED <<sequence, lingering>>,
             breaker' = breaker \/ breaker' = [state |-> "closed", failures |-> 0]
      PROVE  CallsInStep' /\ BreakerHolds'
  <2>1. CallsInStep /\ BreakerHolds
    BY <1>5, <1>6
  <2>2. CallsInStep'
    BY <1>1, <1>6, <2>1, SameNumber
  <2>3. Rejections' = Rejections
    BY <1>1, <1>6, RejectionsStay
  <2>4. Cardinality(Rejections) \in Nat
    BY <1>1, <2>1, RejectionsAreFew
  <2>5. BreakerHolds'
    BY <1>6, <2>1, <2>3, <2>4 DEF BreakerHolds
  <2> QED
    BY <2>2, <2>5
<1>7. ASSUME NEW c \in Call, PassBreaker(c) PROVE CallsInStep' /\ BreakerHolds'
  <2> DEFINE t == [submit[c] EXCEPT !.at = "load"]
  <2>1. submit' = [submit EXCEPT ![c] = t] /\ submit[c].at = "gate"
    BY <1>7 DEF PassBreaker
  <2>2. /\ t \in SubmitType /\ t.lost = submit[c].lost /\ t.try = submit[c].try
        /\ t.at = "load"
    BY <1>2 DEF SubmitType
  <2> HIDE DEF t
  <2>3. CallsInStep => InStep(t)
    BY <2>1, <2>2 DEF CallsInStep, InStep
  <2> QED
    BY <1>6, <1>7, <2>1, <2>2, <2>3 DEF PassBreaker
<1>8. ASSUME NEW c \in Call, BrokenCircuit(c) \/ HalfOpen(c) PROVE FALSE
  <2>1. PICK t \in SubmitType : submit' = [submit EXCEPT ![c] = t] /\ t.lost = submit[c].lost
    <3>1. CASE BrokenCircuit(c)
      <4>1. submit' = [submit EXCEPT ![c] = Retried(submit[c])]
        BY <3>1 DEF BrokenCircuit
      <4> QED
        BY <1>2, <4>1, RetriedKeeps
    <3>2. CASE HalfOpen(c)
      <4> DEFINE t == [submit[c] EXCEPT !.at = "load"]
      <4>1. submit' = [submit EXCEPT ![c] = t]
        BY <3>2 DEF HalfOpen
      <4>2. t \in SubmitType /\ t.lost = submit[c].lost
        BY <1>2 DEF SubmitType
      <4> QED
        BY <4>1, <4>2
    <3> QED
      BY <1>8, <3>1, <3>2
  <2>2. breaker.state = "closed"
    BY <1>5, <2>1 DEF BreakerHolds
  <2> QED
    BY <1>8, <2>2 DEF BrokenCircuit, HalfOpen
<1>9. ASSUME NEW c \in Call, LoadAccount(c) PROVE CallsInStep' /\ BreakerHolds'
  <2> DEFINE t == [submit[c] EXCEPT !.at = "send", !.read = sequence]
  <2>1. submit' = [submit EXCEPT ![c] = t] /\ submit[c].at = "load"
    BY <1>9 DEF LoadAccount
  <2>2. /\ t \in SubmitType /\ t.lost = submit[c].lost /\ t.try = submit[c].try
        /\ t.at = "send" /\ t.read = sequence
    BY <1>2 DEF SubmitType
  <2> HIDE DEF t
  <2>3. CallsInStep => InStep(t)
    BY <1>2, <2>1, <2>2 DEF CallsInStep, InStep
  <2> QED
    BY <1>6, <1>9, <2>1, <2>2, <2>3 DEF LoadAccount
<1>10. ASSUME NEW c \in Call, Send(c) PROVE CallsInStep' /\ BreakerHolds'
  <2>1. CASE submit[c].read = sequence
    <3> DEFINE t == [submit[c] EXCEPT !.at = "paid", !.landed = @ + 1]
    <3>1. /\ submit' = [submit EXCEPT ![c] = t] /\ submit[c].at = "send"
          /\ sequence' = sequence + 1 /\ UNCHANGED <<breaker, lingering>>
      BY <1>10, <2>1 DEF Send
    <3>2. submit[c] \in SubmitType /\ submit[c].landed + 1 \in Nat
      BY <1>2 DEF SubmitType
    <3>3. /\ t \in SubmitType /\ t.lost = submit[c].lost /\ t.try = submit[c].try
          /\ t.at = "paid"
      BY <3>2 DEF SubmitType
    <3> HIDE DEF t
    <3>4. CallsInStep /\ BreakerHolds
      BY <1>5, <3>1, <3>3
    <3>5. CallsInStep'
      BY <1>1, <2>1, <3>1, <3>3, <3>4, LandsInOrder
    <3>6. Rejections' = Rejections
      BY <1>1, <3>1, <3>3, RejectionsStay
    <3> QED
      BY <3>1, <3>4, <3>5, <3>6 DEF BreakerHolds
  <2>2. CASE submit[c].read # sequence
    <3> DEFINE t == [submit[c] EXCEPT !.at = "rejected"]
    <3>1. submit' = [submit EXCEPT ![c] = t] /\ submit[c].at = "send"
      BY <1>10, <2>2 DEF Send
    <3>2. /\ t \in SubmitType /\ t.lost = submit[c].lost /\ t.try = submit[c].try
          /\ t.at = "rejected"
      BY <1>2 DEF SubmitType
    <3> HIDE DEF t
    <3>3. CallsInStep => InStep(t)
      BY <1>2, <2>2, <3>1, <3>2 DEF CallsInStep, InStep
    <3> QED
      BY <1>6, <1>10, <2>2, <3>1, <3>2, <3>3 DEF Send
  <2> QED
    BY <2>1, <2>2
<1>11. ASSUME NEW c \in Call, AnswerArrives(c) PROVE CallsInStep' /\ BreakerHolds'
  <2>1. CASE submit[c].at = "paid"
    <3> DEFINE t == [submit[c] EXCEPT !.at = "returned"]
    <3>1. /\ submit' = [submit EXCEPT ![c] = t] /\ breaker' = BreakerSucceeds
          /\ UNCHANGED <<sequence, lingering>>
      BY <1>11, <2>1 DEF AnswerArrives
    <3>2. /\ t \in SubmitType /\ t.lost = submit[c].lost /\ t.try = submit[c].try
          /\ t.at = "returned"
      BY <1>2 DEF SubmitType
    <3> HIDE DEF t
    <3>3. CallsInStep => InStep(t)
      BY <2>1, <3>2 DEF CallsInStep, InStep
    <3>4. breaker.state = "closed"
      BY <1>5, <3>1, <3>2 DEF BreakerHolds
    <3>5. breaker' = [state |-> "closed", failures |-> 0]
      BY <3>1, <3>4 DEF BreakerSucceeds
    <3> QED
      BY <1>6, <2>1, <3>1, <3>2, <3>3, <3>5
  <2>2. CASE submit[c].at = "rejected"
    <3>1. submit' = [submit EXCEPT ![c] = Retried(submit[c])]
      BY <1>11, <2>2 DEF AnswerArrives
    <3>2. Retried(submit[c]) \in SubmitType /\ Retried(submit[c]).lost = submit[c].lost
      BY <1>2, RetriedKeeps
    <3>3. CallsInStep /\ BreakerHolds
      BY <1>5, <3>1, <3>2
    <3> QED
      BY <1>1, <1>11, <2>2, <3>3, RejectedGoesOn
  <2> QED
    BY <1>11, <2>1, <2>2 DEF AnswerArrives
<1>12. CASE UNCHANGED submitVars
  <2>1. Lossless
    BY <1>12 DEF submitVars, Lossless
  <2> QED
    BY <1>12, <2>1
       DEF submitVars, FewInv, CallsInStep, BreakerHolds, Through, Rejections, InStep
<1> QED
  BY <1>3, <1>4, <1>7, <1>8, <1>9, <1>10, <1>11, <1>12 DEF SubmitNext

\* On a network that loses nothing three concurrent calls all get through,
\* whatever overtakes what: none throws.  The fourth could open the breaker
\* (circuit-breaker.service.ts, the policy of STELLAR: 3 retries, 5 failures).
THEOREM FewCallsPay == FewCalls => (SubmitSpec => []SubmitsPay)
<1> SUFFICES ASSUME FewCalls PROVE SubmitSpec => []SubmitsPay
  OBVIOUS
<1>1. SubmitInit => FewInv
  <2> SUFFICES ASSUME SubmitInit PROVE FewInv
    OBVIOUS
  <2>1. Through = {} /\ Rejections = {}
    BY DEF SubmitInit, Through, Rejections, MaxTries
  <2>2. CallsInStep /\ BreakerHolds
    BY <2>1, FS_EmptySet DEF SubmitInit, CallsInStep, InStep, BreakerHolds
  <2> QED
    BY <2>2, SubmitInitInv DEF FewInv
<1>2. FewInv /\ [SubmitNext]_submitVars => FewInv'
  BY FewStepInv
<1>3. FewInv => SubmitsPay
  BY PaysWhileInv DEF FewInv, SubmitsPay, CallsInStep, InStep
<1> QED
  BY <1>1, <1>2, <1>3, PTL DEF SubmitSpec

-----------------------------------------------------------------------------
(* Logins and refreshes                                                    *)

\* The rows and the cache keep their types whatever the requests do with them.
AccountRow == [status : {"absent"} \cup UserStatus, deleted : BOOLEAN, refreshable : BOOLEAN]
RowsTyped ==
  account \in [User -> AccountRow] /\ nonce \in [Nonce -> {"unissued", "issued", "gone"}]

LEMMA RowsInitTyped == AccountInit => RowsTyped
BY DEF AccountInit, RowsTyped, AccountRow

LEMMA RowsStayTyped == RowsTyped /\ [AccountNext]_accountVars => RowsTyped'
<1> SUFFICES ASSUME RowsTyped, [AccountNext]_accountVars PROVE RowsTyped'
  OBVIOUS
<1> USE DEF RowsTyped, AccountRow, UserStatus, SetUserStatus
<1>1. ASSUME NEW s \in Session,
             \/ SpendNonce(s) \/ VerifySignature(s) \/ FindWallet(s) \/ ActivateWallet(s)
             \/ \E n \in Nonce : ReadNonce(s, n)
             \/ \E u \in User : RefreshToken(s, u)
      PROVE  RowsTyped'
  BY <1>1 DEF SpendNonce, VerifySignature, FindWallet, ActivateWallet, ReadNonce, RefreshToken
<1>2. ASSUME NEW s \in Session,
             ActivateUser(s) \/ GenerateTokens(s) \/ CompareToken(s) \/ RevokeTokens(s)
      PROVE  RowsTyped'
  <2>1. CASE ActivateUser(s)
    BY <2>1 DEF ActivateUser
  <2>2. CASE GenerateTokens(s)
    BY <2>2 DEF GenerateTokens
  <2>3. CASE CompareToken(s) \/ RevokeTokens(s)
    BY <2>3 DEF CompareToken, RevokeTokens
  <2> QED
    BY <1>2, <2>1, <2>2, <2>3
<1>3. ASSUME NEW s \in Session, CreateUser(s) PROVE RowsTyped'
  <2>1. nonce' = nonce /\ (account' = account \/ \E u \in User : SetUserStatus(u, "ACTIVE"))
    BY <1>3 DEF CreateUser
  <2> QED
    BY <2>1
<1>4. ASSUME NEW n \in Nonce, IssueWalletChallenge(n) \/ NonceExpires(n) PROVE RowsTyped'
  BY <1>4 DEF IssueWalletChallenge, NonceExpires
<1>5. ASSUME NEW u \in User, SoftDelete(u) \/ DeleteAccount(u) \/ \E w \in Wallet : AddWallet(u, w)
      PROVE  RowsTyped'
  BY <1>5 DEF SoftDelete, DeleteAccount, AddWallet
<1>6. ASSUME NEW u \in User, MockLogin(u) PROVE RowsTyped'
  BY <1>6 DEF MockLogin
<1>7. ASSUME NEW u \in User, NEW status \in UserStatus,
             CreateAccount(u, status) \/ ChangeStatus(u, status)
      PROVE  RowsTyped'
  BY <1>7 DEF CreateAccount, ChangeStatus
<1>8. ASSUME NEW w \in Wallet, NEW status \in {"ACTIVE", "DISCONNECTED", "REVOKED"},
             ChangeWallet(w, status)
      PROVE  RowsTyped'
  BY <1>8 DEF ChangeWallet
<1>9. CASE UNCHANGED accountVars
  BY <1>9 DEF accountVars
<1> QED
  BY <1>1, <1>2, <1>3, <1>4, <1>5, <1>6, <1>7, <1>8, <1>9 DEF AccountNext

Place == {"unsent", "spend", "verify", "find", "create", "activate", "use", "compare",
          "tokens", "ok", "failed"}
SessionRecord == [op : {"login", "refresh"}, user : User \cup {NoUser}, wallet : Wallet,
                  nonce : Nonce \cup {NoNonce}, before : SUBSET Session,
                  closed : SUBSET User, at : Place]
WalletRecord == [owner : User \cup {NoUser},
                 status : {"absent", "ACTIVE", "DISCONNECTED", "REVOKED"}]

In == {"tokens", "ok"}
PastSpend == {"verify", "find", "create", "activate", "use", "tokens", "ok"}

\* Where a request of either kind can be.
OnCourse(r) ==
  /\ r.at = "unsent" => r.op = "login" /\ r.before = {}
  /\ r.op = "refresh" => r.at \in {"compare", "tokens", "ok", "failed"}
  /\ r.op = "login" => r.at # "compare"
  /\ r.op = "login" /\ r.at = "spend" => r.nonce \in Nonce

\* A login past the deletion of its nonce has spent it.
NoncesSpent ==
  \A s \in Session :
    session[s].op = "login" /\ session[s].at \in PastSpend =>
      session[s].nonce \in Nonce /\ nonce[session[s].nonce] = "gone"

\* A login that began after another got in with its nonce has failed.
LateHasFailed ==
  \A s \in Session : \A q \in session[s].before :
    /\ session[q].at \in In
    /\ session[s].op = "login" /\ session[q].op = "login" /\ session[q].nonce = session[s].nonce
         => session[s].at = "failed"

\* Nothing takes a deletion back, and a refresh that began after it has failed.
ClosedHasFailed ==
  /\ \A u \in closed : account[u].deleted = TRUE
  /\ \A s \in Session :
       session[s].op = "refresh" /\ session[s].user \in session[s].closed
         => session[s].at = "failed"

AccountInv ==
  /\ RowsTyped /\ wallet \in [Wallet -> WalletRecord]
  /\ session \in [Session -> SessionRecord] /\ closed \in SUBSET User
  /\ \A s \in Session : OnCourse(session[s])
  /\ NoncesSpent /\ LateHasFailed /\ ClosedHasFailed

LEMMA AccountInitInv == AccountInit => AccountInv
<1> SUFFICES ASSUME AccountInit PROVE AccountInv
  OBVIOUS
<1>1. session \in [Session -> SessionRecord] /\ closed \in SUBSET User
  BY DEF AccountInit, SessionRecord, Place
<1>2. wallet \in [Wallet -> WalletRecord]
  BY DEF AccountInit, WalletRecord
<1>3. ASSUME NEW s \in Session
      PROVE  session[s].op = "login" /\ session[s].at = "unsent" /\ session[s].before = {}
  BY DEF AccountInit
<1>4. NoncesSpent /\ LateHasFailed /\ ClosedHasFailed
  BY <1>3 DEF AccountInit, NoncesSpent, LateHasFailed, ClosedHasFailed, PastSpend
<1>5. \A s \in Session : OnCourse(session[s])
  BY <1>3 DEF OnCourse
<1> QED
  BY <1>1, <1>2, <1>4, <1>5, RowsInitTyped DEF AccountInv

\* What a step of a request leaves: spent nonces and deletions.
RowsKept ==
  /\ RowsTyped' /\ wallet' \in [Wallet -> WalletRecord] /\ closed' = closed
  /\ \A n \in Nonce : nonce[n] = "gone" => nonce'[n] = "gone"
  /\ \A u \in closed : account'[u].deleted = TRUE

\* A request takes a step, and the others stay where they are.
LEMMA SessionMoves ==
  ASSUME AccountInv, RowsKept, NEW s \in Session, NEW r \in SessionRecord,
         session' = [session EXCEPT ![s] = r], OnCourse(r),
         session[s].at \in In =>
           r.at \in In /\ r.op = session[s].op /\ r.nonce = session[s].nonce,
         r.op = "login" /\ r.at \in PastSpend => r.nonce \in Nonce /\ nonce'[r.nonce] = "gone",
         \A q \in r.before :
           /\ session[q].at \in In
           /\ r.op = "login" /\ session[q].op = "login" /\ session[q].nonce = r.nonce
                => r.at = "failed",
         r.op = "refresh" /\ r.user \in r.closed => r.at = "failed"
  PROVE  AccountInv'
<1>1. /\ session \in [Session -> SessionRecord] /\ session'[s] = r
      /\ \A t \in Session : t # s => session'[t] = session[t]
  BY DEF AccountInv
<1>2. session' \in [Session -> SessionRecord] /\ closed' \in SUBSET User
  BY DEF AccountInv, RowsKept
<1>3. \A t \in Session : OnCourse(session'[t])
  BY <1>1 DEF AccountInv
<1>4. NoncesSpent'
  BY <1>1 DEF AccountInv, NoncesSpent, RowsKept
<1>5. LateHasFailed'
  <2> SUFFICES ASSUME NEW t \in Session, NEW q \in session'[t].before
               PROVE  /\ session'[q].at \in In
                      /\ session'[t].op = "login" /\ session'[q].op = "login"
                           /\ session'[q].nonce = session'[t].nonce => session'[t].at = "failed"
    BY DEF LateHasFailed
  <2>0. q \in Session
    BY <1>2 DEF SessionRecord
  <2>1. session[q].at \in In
    BY <1>1 DEF AccountInv, LateHasFailed
  <2>2. /\ session'[q].at \in In /\ session'[q].op = session[q].op
        /\ session'[q].nonce = session[q].nonce
    BY <1>1, <2>0, <2>1
  <2>3. CASE t = s
    BY <1>1, <2>2, <2>3
  <2>4. CASE t # s
    BY <1>1, <2>2, <2>4 DEF AccountInv, LateHasFailed
  <2> QED
    BY <2>3, <2>4
<1>6. ClosedHasFailed'
  BY <1>1 DEF AccountInv, ClosedHasFailed, RowsKept
<1> QED
  BY <1>2, <1>3, <1>4, <1>5, <1>6 DEF AccountInv, RowsKept

\* One that is under way goes on, or fails.
LEMMA SessionGoes ==
  ASSUME AccountInv, RowsKept, NEW s \in Session, NEW to \in Place \ {"unsent", "spend", "compare"},
         Go(s, to), session[s].at \notin {"unsent", "failed"},
         session[s].at \in In => to \in In,
         session[s].op = "refresh" => to \in {"tokens", "ok", "failed"},
         session[s].op = "login" /\ to \in PastSpend =>
           session[s].nonce \in Nonce /\ nonce'[session[s].nonce] = "gone"
  PROVE  AccountInv'
<1> DEFINE r == [session[s] EXCEPT !.at = to]
<1>1. session[s] \in SessionRecord
  BY DEF AccountInv
<1>2. /\ r \in SessionRecord /\ r.at = to /\ r.op = session[s].op /\ r.nonce = session[s].nonce
      /\ r.before = session[s].before /\ r.closed = session[s].closed /\ r.user = session[s].user
  BY <1>1 DEF SessionRecord
<1>3. session' = [session EXCEPT ![s] = r]
  BY DEF Go, AccountInv
<1> HIDE DEF r
<1>4. OnCourse(r)
  BY <1>2 DEF OnCourse
<1>5. \A q \in r.before :
        /\ session[q].at \in In
        /\ ~(r.op = "login" /\ session[q].op = "login" /\ session[q].nonce = r.nonce)
  BY <1>2 DEF AccountInv, LateHasFailed
<1>6. ~(r.op = "refresh" /\ r.user \in r.closed)
  BY <1>2 DEF AccountInv, ClosedHasFailed
<1> QED
  BY <1>2, <1>3, <1>4, <1>5, <1>6, SessionMoves

LEMMA RequestKeepsRows ==
  ASSUME AccountInv, [AccountNext]_accountVars, NEW s \in Session,
         \/ SpendNonce(s) \/ VerifySignature(s) \/ FindWallet(s) \/ ActivateUser(s)
         \/ ActivateWallet(s) \/ CreateUser(s) \/ GenerateTokens(s)
         \/ CompareToken(s) \/ RevokeTokens(s)
         \/ \E n \in Nonce : ReadNonce(s, n)
         \/ \E u \in User : RefreshToken(s, u)
  PROVE  RowsKept
<1>1. /\ RowsTyped' /\ account \in [User -> AccountRow] /\ wallet \in [Wallet -> WalletRecord]
      /\ nonce \in [Nonce -> {"unissued", "issued", "gone"}] /\ closed \in SUBSET User
      /\ \A u \in closed : account[u].deleted = TRUE
  BY RowsStayTyped DEF AccountInv, RowsTyped, ClosedHasFailed
<1>2. closed' = closed
  BY DEF SpendNonce, VerifySignature, FindWallet, ActivateUser, ActivateWallet, CreateUser,
         GenerateTokens, CompareToken, RevokeTokens, ReadNonce, RefreshToken
<1>3. nonce' = nonce \/ nonce' = [nonce EXCEPT ![session[s].nonce] = "gone"]
  BY DEF SpendNonce, VerifySignature, FindWallet, ActivateUser, ActivateWallet, CreateUser,
         GenerateTokens, CompareToken, RevokeTokens, ReadNonce, RefreshToken
<1>4. \/ account' = account
      \/ \E u : SetUserStatus(u, "ACTIVE")
      \/ \E u, b : account' = [account EXCEPT ![u].refreshable = b]
  BY DEF SpendNonce, VerifySignature, FindWallet, ActivateUser, ActivateWallet, CreateUser,
         GenerateTokens, CompareToken, RevokeTokens, ReadNonce, RefreshToken
<1>5. \A u \in closed : account'[u].deleted = TRUE
  <2>1. ASSUME NEW v, SetUserStatus(v, "ACTIVE"), NEW u \in closed
        PROVE  account'[u].deleted = TRUE
    BY <1>1, <2>1 DEF SetUserStatus, AccountRow
  <2>2. ASSUME NEW v, NEW b, account' = [account EXCEPT ![v].refreshable = b], NEW u \in closed
        PROVE  account'[u].deleted = TRUE
    BY <1>1, <2>2 DEF AccountRow
  <2> QED
    BY <1>1, <1>4, <2>1, <2>2
<1>6. \A n \in Nonce : nonce[n] = "gone" => nonce'[n] = "gone"
  BY <1>1, <1>3
<1>7. wallet' \in [Wallet -> WalletRecord]
  <2>1. CASE ActivateWallet(s)
    <3>1. session[s].wallet \in Wallet
      BY DEF AccountInv, SessionRecord
    <3> QED
      BY <1>1, <2>1, <3>1 DEF ActivateWallet, WalletRecord
  <2>2. CASE CreateUser(s)
    <3>1. \/ wallet' = wallet
          \/ \E u \in User : wallet' = [wallet EXCEPT ![session[s].wallet] =
                                          [owner |-> u, status |-> "ACTIVE"]]
      BY <2>2 DEF CreateUser
    <3>2. ASSUME NEW u \in User, NEW x, wallet' = [wallet EXCEPT ![x] = [owner |-> u, status |-> "ACTIVE"]]
          PROVE  wallet' \in [Wallet -> WalletRecord]
      <4>1. [owner |-> u, status |-> "ACTIVE"] \in WalletRecord
        BY DEF WalletRecord
      <4> QED
        BY <1>1, <3>2, <4>1
    <3> QED
      BY <1>1, <3>1, <3>2
  <2>3. CASE wallet' = wallet
    BY <1>1, <2>3
  <2> QED
    BY <2>1, <2>2, <2>3
       DEF SpendNonce, VerifySignature, FindWallet, ActivateUser, GenerateTokens,
           CompareToken, RevokeTokens, ReadNonce, RefreshToken
<1> QED
  BY <1>1, <1>2, <1>5, <1>6, <1>7 DEF RowsKept

LEMMA RequestStepInv ==
  ASSUME AccountInv, [AccountNext]_accountVars, NEW s \in Session,
         \/ SpendNonce(s) \/ VerifySignature(s) \/ FindWallet(s) \/ ActivateUser(s)
         \/ ActivateWallet(s) \/ CreateUser(s) \/ GenerateTokens(s)
         \/ CompareToken(s) \/ RevokeTokens(s)
         \/ \E n \in Nonce : ReadNonce(s, n)
         \/ \E u \in User : RefreshToken(s, u)
  PROVE  AccountInv'
<1>0. /\ RowsKept /\ session[s] \in SessionRecord /\ OnCourse(session[s])
      /\ wallet \in [Wallet -> WalletRecord]
      /\ nonce \in [Nonce -> {"unissued", "issued", "gone"}]
  BY RequestKeepsRows DEF AccountInv, RowsTyped
<1>s. session[s].op = "login" /\ session[s].at \in PastSpend =>
        session[s].nonce \in Nonce /\ nonce'[session[s].nonce] = "gone"
  BY <1>0 DEF AccountInv, NoncesSpent, RowsKept
<1>1. CASE SpendNonce(s)
  <2>1. session[s].op = "login" /\ session[s].nonce \in Nonce
    BY <1>0, <1>1 DEF SpendNonce, OnCourse, SessionRecord
  <2>2. nonce'[session[s].nonce] = "gone"
    BY <1>0, <1>1, <2>1 DEF SpendNonce
  <2> QED
    BY <1>0, <1>1, <2>1, <2>2, SessionGoes DEF SpendNonce, Place, In
<1>2. CASE VerifySignature(s)
  <2>1. session[s].op = "login"
    BY <1>0, <1>2 DEF VerifySignature, OnCourse, SessionRecord
  <2> QED
    BY <1>0, <1>s, <1>2, <2>1, SessionGoes DEF VerifySignature, Place, In, PastSpend
<1>3. CASE FindWallet(s)
  <2> DEFINE owner == wallet[session[s].wallet].owner
             r == [session[s] EXCEPT !.user = owner,
                                     !.at = IF owner = NoUser THEN "create" ELSE "activate"]
  <2>1. owner \in User \cup {NoUser}
    BY <1>0 DEF SessionRecord, WalletRecord
  <2>2. session[s].op = "login"
    BY <1>0, <1>3 DEF FindWallet, OnCourse, SessionRecord
  <2>3. /\ r \in SessionRecord /\ r.at \in {"create", "activate"} /\ r.op = "login"
        /\ r.nonce = session[s].nonce /\ r.before = session[s].before
    BY <1>0, <1>3, <2>1, <2>2 DEF FindWallet, SessionRecord, Place
  <2>4. session' = [session EXCEPT ![s] = r]
    BY <1>3 DEF FindWallet, AccountInv
  <2>5. r.nonce \in Nonce /\ nonce'[r.nonce] = "gone" /\ session[s].at = "find"
    BY <1>s, <1>3, <2>2, <2>3 DEF FindWallet, PastSpend
  <2> HIDE DEF r, owner
  <2>6. OnCourse(r)
    BY <2>3 DEF OnCourse
  <2>7. \A q \in r.before :
          session[q].at \in In /\ ~(session[q].op = "login" /\ session[q].nonce = r.nonce)
    BY <2>2, <2>3, <2>5 DEF AccountInv, LateHasFailed
  <2> QED
    BY <1>0, <2>3, <2>4, <2>5, <2>6, <2>7, SessionMoves DEF In
<1>4. CASE ActivateUser(s)
  <2>1. session[s].op = "login"
    BY <1>0, <1>4 DEF ActivateUser, OnCourse, SessionRecord
  <2> QED
    BY <1>0, <1>s, <1>4, <2>1, SessionGoes DEF ActivateUser, Place, In, PastSpend
<1>5. CASE ActivateWallet(s)
  <2>1. session[s].op = "login"
    BY <1>0, <1>5 DEF ActivateWallet, OnCourse, SessionRecord
  <2> QED
    BY <1>0, <1>s, <1>5, <2>1, SessionGoes DEF ActivateWallet, Place, In, PastSpend
<1>6. CASE CreateUser(s)
  <2>0. session[s].op = "login" /\ session[s].at = "create"
    BY <1>0, <1>6 DEF CreateUser, OnCourse, SessionRecord
  <2>1. CASE Go(s, "failed")
    BY <1>0, <2>0, <2>1, SessionGoes DEF Place, In, PastSpend
  <2>2. ASSUME NEW u \in User, session' = [session EXCEPT ![s] = [@ EXCEPT !.user = u, !.at = "tokens"]]
        PROVE AccountInv'
    <3> DEFINE r == [session[s] EXCEPT !.user = u, !.at = "tokens"]
    <3>1. /\ r \in SessionRecord /\ r.at = "tokens" /\ r.op = "login"
          /\ r.nonce = session[s].nonce /\ r.before = session[s].before
      BY <1>0, <2>0 DEF SessionRecord, Place
    <3>2. session' = [session EXCEPT ![s] = r]
      BY <2>2 DEF AccountInv
    <3>3. r.nonce \in Nonce /\ nonce'[r.nonce] = "gone"
      BY <1>s, <2>0, <3>1 DEF PastSpend
    <3> HIDE DEF r
    <3>4. OnCourse(r)
      BY <3>1 DEF OnCourse
    <3>5. \A q \in r.before :
            session[q].at \in In /\ ~(session[q].op = "login" /\ session[q].nonce = r.nonce)
      BY <2>0, <3>1 DEF AccountInv, LateHasFailed
    <3> QED
      BY <1>0, <2>0, <3>1, <3>2, <3>3, <3>4, <3>5, SessionMoves DEF In
  <2> QED
    BY <1>6, <2>1, <2>2 DEF CreateUser
<1>7. CASE GenerateTokens(s)
  BY <1>0, <1>s, <1>7, SessionGoes DEF GenerateTokens, Place, In, PastSpend
<1>8. CASE CompareToken(s) \/ RevokeTokens(s)
  <2>1. session[s].op = "refresh" /\ session[s].at = "compare"
    BY <1>0, <1>8 DEF CompareToken, RevokeTokens, OnCourse, SessionRecord
  <2>2. Go(s, "tokens") \/ Go(s, "failed")
    BY <1>8 DEF CompareToken, RevokeTokens
  <2> QED
    BY <1>0, <2>1, <2>2, SessionGoes DEF Place, In
<1>9. ASSUME NEW n \in Nonce, ReadNonce(s, n) PROVE AccountInv'
  <2> DEFINE r == [session[s] EXCEPT !.nonce = n, !.before = LetIn, !.closed = closed,
                                     !.at = IF nonce[n] = "issued" THEN "spend" ELSE "failed"]
  <2>0. closed \in SUBSET User /\ LetIn \in SUBSET Session
    BY DEF AccountInv, LetIn
  <2>1. session[s].at = "unsent" /\ session[s].op = "login"
    BY <1>0, <1>9 DEF ReadNonce, OnCourse
  <2>2. /\ r \in SessionRecord /\ r.op = "login" /\ r.nonce = n /\ r.before = LetIn
        /\ r.at = IF nonce[n] = "issued" THEN "spend" ELSE "failed"
    BY <1>0, <2>0, <2>1 DEF SessionRecord, Place
  <2>3. session' = [session EXCEPT ![s] = r]
    BY <1>9 DEF ReadNonce, AccountInv
  <2> HIDE DEF r
  <2>4. OnCourse(r)
    BY <2>2 DEF OnCourse
  <2>5. ASSUME NEW q \in r.before
        PROVE  /\ session[q].at \in In
               /\ session[q].op = "login" /\ session[q].nonce = r.nonce => r.at = "failed"
    <3>1. q \in Session /\ session[q].at \in In
      BY <2>2, <2>5 DEF LetIn, In
    <3>2. session[q].op = "login" /\ session[q].nonce = n => nonce[n] = "gone"
      BY <3>1 DEF AccountInv, NoncesSpent, In, PastSpend
    <3> QED
      BY <2>2, <3>1, <3>2
  <2>6. r.at \notin PastSpend
    BY <2>2 DEF PastSpend
  <2> QED
    BY <1>0, <2>1, <2>2, <2>3, <2>4, <2>5, <2>6, SessionMoves DEF In
<1>10. ASSUME NEW u \in User, RefreshToken(s, u) PROVE AccountInv'
  <2> DEFINE goes == ~Deleted(u) /\ account[u].refreshable
             r == [session[s] EXCEPT !.op = "refresh", !.user = u, !.before = LetIn,
                                     !.closed = closed,
                                     !.at = IF goes THEN "compare" ELSE "failed"]
  <2>0. /\ closed \in SUBSET User /\ LetIn \in SUBSET Session
        /\ \A q \in LetIn : session[q].at \in In
    BY DEF AccountInv, LetIn, In
  <2>1. u \in closed => ~goes
    <3>1. u \in closed => account[u].deleted = TRUE
      BY DEF AccountInv, ClosedHasFailed
    <3>2. u # NoUser
      BY AccountAssumption
    <3> QED
      BY <3>1, <3>2 DEF Deleted
  <2> HIDE DEF goes
  <2>2. /\ r \in SessionRecord /\ r.op = "refresh" /\ r.user = u /\ r.before = LetIn
        /\ r.closed = closed /\ r.at = IF goes THEN "compare" ELSE "failed"
    BY <1>0, <2>0 DEF SessionRecord, Place
  <2>3. session' = [session EXCEPT ![s] = r] /\ session[s].at = "unsent"
    BY <1>10 DEF RefreshToken, AccountInv, goes
  <2> HIDE DEF r
  <2>4. OnCourse(r)
    BY <2>2 DEF OnCourse
  <2>5. (r.user \in r.closed => r.at = "failed") /\ r.at \notin PastSpend
    BY <2>1, <2>2 DEF PastSpend
  <2> QED
    BY <1>0, <2>0, <2>2, <2>3, <2>4, <2>5, SessionMoves DEF In
<1> QED
  BY <1>1, <1>2, <1>3, <1>4, <1>5, <1>6, <1>7, <1>8, <1>9, <1>10

\* Users, wallets, administrators and the cache: the requests stay as they are.
LEMMA RowStepInv ==
  ASSUME AccountInv, [AccountNext]_accountVars,
         \/ \E n \in Nonce : IssueWalletChallenge(n) \/ NonceExpires(n)
         \/ \E u \in User :
              \/ MockLogin(u) \/ SoftDelete(u) \/ DeleteAccount(u)
              \/ \E status \in UserStatus : CreateAccount(u, status) \/ ChangeStatus(u, status)
              \/ \E w \in Wallet : AddWallet(u, w)
         \/ \E w \in Wallet, status \in {"ACTIVE", "DISCONNECTED", "REVOKED"} :
              ChangeWallet(w, status)
  PROVE  AccountInv'
<1>0. /\ RowsTyped' /\ account \in [User -> AccountRow] /\ closed \in SUBSET User
      /\ nonce \in [Nonce -> {"unissued", "issued", "gone"}]
      /\ \A u \in closed : account[u].deleted = TRUE
  BY RowsStayTyped DEF AccountInv, RowsTyped, ClosedHasFailed
<1>1. session' = session
  BY DEF IssueWalletChallenge, NonceExpires, MockLogin, SoftDelete, DeleteAccount,
         CreateAccount, ChangeStatus, AddWallet, ChangeWallet
<1>2. wallet' \in [Wallet -> WalletRecord]
  <2> USE DEF AccountInv, WalletRecord
  <2>1. CASE wallet' = wallet
    BY <2>1
  <2>2. ASSUME NEW u \in User, DeleteAccount(u) PROVE wallet' \in [Wallet -> WalletRecord]
    BY <2>2 DEF DeleteAccount
  <2>3. ASSUME NEW u \in User, NEW w \in Wallet, AddWallet(u, w)
        PROVE wallet' \in [Wallet -> WalletRecord]
    BY <2>3 DEF AddWallet
  <2>4. ASSUME NEW w \in Wallet, NEW status \in {"ACTIVE", "DISCONNECTED", "REVOKED"},
               ChangeWallet(w, status)
        PROVE wallet' \in [Wallet -> WalletRecord]
    BY <2>4 DEF ChangeWallet
  <2> QED
    BY <2>1, <2>2, <2>3, <2>4
       DEF IssueWalletChallenge, NonceExpires, MockLogin, SoftDelete, CreateAccount,
           ChangeStatus
<1>3. \A n \in Nonce : nonce[n] = "gone" => nonce'[n] = "gone"
  <2>1. ASSUME NEW m \in Nonce, IssueWalletChallenge(m) \/ NonceExpires(m)
        PROVE  \A n \in Nonce : nonce[n] = "gone" => nonce'[n] = "gone"
    BY <1>0, <2>1 DEF IssueWalletChallenge, NonceExpires
  <2>2. CASE nonce' = nonce
    BY <2>2
  <2> QED
    BY <2>1, <2>2 DEF MockLogin, SoftDelete, DeleteAccount, CreateAccount, ChangeStatus,
                      AddWallet, ChangeWallet
<1>4. closed' \in SUBSET User /\ \A u \in closed' : account'[u].deleted = TRUE
  <2>1. ASSUME NEW v \in User, SoftDelete(v) \/ DeleteAccount(v)
        PROVE  closed' \in SUBSET User /\ \A u \in closed' : account'[u].deleted = TRUE
    <3>1. /\ closed' = closed \cup {v}
          /\ account' = [account EXCEPT ![v].deleted = TRUE, ![v].status = "DELETED"]
      BY <2>1 DEF SoftDelete, DeleteAccount
    <3>2. account'[v].deleted = TRUE /\ \A u \in User : u # v => account'[u] = account[u]
      BY <1>0, <3>1 DEF AccountRow
    <3> QED
      BY <1>0, <3>1, <3>2
  <2>2. ASSUME NEW v \in User, MockLogin(v)
        PROVE  closed' \in SUBSET User /\ \A u \in closed' : account'[u].deleted = TRUE
    <3>1. closed' = closed /\ v \notin closed /\ \A u \in User : u # v => account'[u] = account[u]
      BY <1>0, <2>2, AccountAssumption DEF MockLogin, Deleted
    <3> QED
      BY <1>0, <3>1
  <2>3. ASSUME NEW v \in User, NEW status \in UserStatus,
               CreateAccount(v, status) \/ ChangeStatus(v, status)
        PROVE  closed' \in SUBSET User /\ \A u \in closed' : account'[u].deleted = TRUE
    <3>1. closed' = closed /\ account' = [account EXCEPT ![v].status = status]
      BY <2>3 DEF CreateAccount, ChangeStatus, SetUserStatus
    <3>2. \A u \in User : account'[u].deleted = account[u].deleted
      BY <1>0, <3>1 DEF AccountRow
    <3> QED
      BY <1>0, <3>1, <3>2
  <2>4. CASE UNCHANGED <<account, closed>>
    BY <1>0, <2>4
  <2> QED
    BY <2>1, <2>2, <2>3, <2>4 DEF IssueWalletChallenge, NonceExpires, AddWallet, ChangeWallet
<1>5. NoncesSpent' /\ LateHasFailed' /\ ClosedHasFailed'
  BY <1>1, <1>3, <1>4 DEF AccountInv, NoncesSpent, LateHasFailed, ClosedHasFailed
<1> QED
  BY <1>0, <1>1, <1>2, <1>4, <1>5 DEF AccountInv

LEMMA AccountStepInv == AccountInv /\ [AccountNext]_accountVars => AccountInv'
<1>1. ASSUME AccountInv, UNCHANGED accountVars PROVE AccountInv'
  BY <1>1 DEF accountVars, AccountInv, RowsTyped, OnCourse, NoncesSpent, LateHasFailed,
              ClosedHasFailed
<1>2. ASSUME AccountInv, AccountNext PROVE AccountInv'
  BY <1>2, RequestStepInv, RowStepInv DEF AccountNext
<1> QED
  BY <1>1, <1>2

\* A login that begins after another got in with its nonce, and a refresh that
\* begins after its account was deleted, never get tokens, whatever logins,
\* refreshes and administrators do meanwhile, for any number of them
\* (auth.service.ts:113-347).
THEOREM StaleNeverEverGetsIn == AccountSpec => []StaleNeverGetsIn
<1>1. ASSUME AccountInv PROVE StaleNeverGetsIn
  <2>1. NonceLetsInOnce
    BY <1>1 DEF AccountInv, LateHasFailed, NonceLetsInOnce, LetIn
  <2>2. DeletedStaysOut
    BY <1>1 DEF AccountInv, ClosedHasFailed, DeletedStaysOut, LetIn
  <2> QED
    BY <2>1, <2>2 DEF StaleNeverGetsIn
<1> QED
  BY AccountInitInv, AccountStepInv, <1>1, PTL DEF AccountSpec

-----------------------------------------------------------------------------
(* Roles                                                                   *)

\* The row's role, and a role a request has read and not yet signed, were held
\* in this very tick; a token's role at the time it was signed.
RolesAreRecent ==
  /\ held[dbRole] = 0
  /\ \A d \in Device :
       /\ signing[d] # "none" => held[signing[d]] = 0
       /\ token[d].age < TokenLife =>
            token[d].role \in Role /\ held[token[d].role] <= token[d].age

RolesInv == RolesTypeOK /\ RolesAreRecent

LEMMA RolesInitInv == RolesInit => RolesInv
BY RolesAssumption DEF RolesInit, RolesInv, RolesTypeOK, RolesAreRecent, Role

LEMMA RolesStepInv == RolesInv /\ [RolesNext]_rolesVars => RolesInv'
<1> SUFFICES ASSUME RolesInv, [RolesNext]_rolesVars PROVE RolesInv'
  OBVIOUS
<1> USE RolesAssumption DEF RolesInv, RolesTypeOK, RolesAreRecent, Role
<1>1. ASSUME NEW d \in Device, LoginReads(d) \/ RefreshReads(d) PROVE RolesInv'
  BY <1>1 DEF LoginReads, RefreshReads
<1>2. ASSUME NEW d \in Device, SignTokens(d) PROVE RolesInv'
  BY <1>2 DEF SignTokens
<1>3. ASSUME NEW d \in Device, SigningFails(d) PROVE RolesInv'
  BY <1>3 DEF SigningFails
<1>4. ASSUME NEW role \in Role, UpdateRole(role) PROVE RolesInv'
  BY <1>4 DEF UpdateRole
<1>5. CASE TimePasses
  BY <1>5 DEF TimePasses, Later
<1>6. CASE UNCHANGED rolesVars
  BY <1>6 DEF rolesVars
<1> QED
  BY <1>1, <1>2, <1>3, <1>4, <1>5, <1>6 DEF RolesNext

\* A role that was taken away stops working within the life of one access
\* token, however often it is refreshed (roles.guard.ts, auth.service.ts:294).
THEOREM StaleRolesExpire == RolesSpec => []StaleRoleExpires
<1>1. RolesInv => StaleRoleExpires
  BY RolesAssumption
     DEF RolesInv, RolesTypeOK, RolesAreRecent, StaleRoleExpires, Admits, CanActivate
<1> QED
  BY RolesInitInv, RolesStepInv, <1>1, PTL DEF RolesSpec

-----------------------------------------------------------------------------
(* The web session                                                         *)

\* The wallet a page would sign with is the one its tokens belong to: nothing
\* changes one of the two and leaves the other.
SessionInv == SessionTypeOK /\ WalletOwnsTokens

LEMMA SessionInitInv == SessionInit => SessionInv
BY DEF SessionInit, SessionInv, SessionTypeOK, WalletOwnsTokens

LEMMA SessionStepInv == SessionInv /\ [SessionNext]_sessionVars => SessionInv'
<1> SUFFICES ASSUME SessionInv, [SessionNext]_sessionVars PROVE SessionInv'
  OBVIOUS
<1> USE DEF SessionInv, SessionTypeOK, WalletOwnsTokens
<1>1. ASSUME NEW u \in Person, ServerDecides(u) \/ Connect(u) \/ LoggedIn(u) \/ ConnectFails(u)
      PROVE SessionInv'
  BY <1>1 DEF ServerDecides, Connect, LoggedIn, ConnectFails
<1>2. ASSUME NEW to \in {"splash", "kyc", "app"}, Follow(to) PROVE SessionInv'
  BY <1>2 DEF Follow, EnterRoute
<1>3. CASE MeArrives \/ KycArrives \/ KycDropped \/ StartAnswers
  <2>1. (tokens \in verified) \in BOOLEAN
    OBVIOUS
  <2>2. gateOpen' \in {(tokens \in verified), gateOpen, FALSE}
    BY <1>3 DEF MeArrives, KycArrives, KycDropped, StartAnswers
  <2>3. gateOpen' \in BOOLEAN
    BY <2>1, <2>2
  <2>4. /\ UNCHANGED <<verified, tokens, publicKey, connects, route, deleting>>
        /\ meAnswer' \in {meAnswer, "arrived"}
        /\ kycData' \in {kycData, "verified", "unverified", "none"}
    BY <1>3 DEF MeArrives, KycArrives, KycDropped, StartAnswers
  <2> QED
    BY <2>3, <2>4
<1>4. CASE Redirect
  <2>1. Gate \in {"splash", "kyc", "app"}
    BY DEF Gate
  <2>2. (kycData = "verified") \in BOOLEAN
    OBVIOUS
  <2>3. gateOpen' \in BOOLEAN
    BY <1>4, <2>2 DEF Redirect, EnterRoute
  <2>4. UNCHANGED <<verified, tokens, publicKey, connects, meAnswer, kycData, deleting>>
    BY <1>4 DEF Redirect
  <2>5. route' = Gate
    BY <1>4 DEF Redirect, EnterRoute
  <2> QED
    BY <2>1, <2>3, <2>4, <2>5
<1>5. CASE Logout \/ DisconnectWallet \/ AccountDeleted \/ Unauthorized \/ Reload
  BY <1>5 DEF Logout, DisconnectWallet, AccountDeleted, Unauthorized, Reload
<1>6. CASE HandleDeleteAccount \/ DeletionFails
  BY <1>6 DEF HandleDeleteAccount, DeletionFails
<1>7. CASE UNCHANGED sessionVars
  BY <1>7 DEF sessionVars
<1> QED
  BY <1>1, <1>2, <1>3, <1>5, <1>6, <1>7, <1>4 DEF SessionNext

\* The wallet that would sign is the one the tokens belong to, however logins,
\* logouts and deletions overlap (StellarWalletProvider.tsx:69-131).
THEOREM WalletAlwaysOwnsTokens == SessionSpec => []WalletOwnsTokens
<1>1. SessionInv => WalletOwnsTokens
  BY DEF SessionInv
<1> QED
  BY SessionInitInv, SessionStepInv, <1>1, PTL DEF SessionSpec

\* A redirect leads to a page that redirects no further, except from the splash
\* page into the app: never more than two in a row (Providers.tsx:58-70,
\* page.tsx:21-23).
THEOREM RedirectsAlwaysRest == SessionSpec => RedirectRests
<1>1. ASSUME SessionInv, Redirect
      PROVE  route' = Gate' \/ (route = "splash" /\ route' = "app")
  BY <1>1 DEF SessionInv, SessionTypeOK, Redirect, Gate, EnterRoute
<1>2. SessionInv /\ [SessionNext]_sessionVars
        => [Redirect => route' = Gate' \/ (route = "splash" /\ route' = "app")]_sessionVars
  BY <1>1
<1> QED
  BY SessionInitInv, SessionStepInv, <1>2, PTL DEF SessionSpec, RedirectRests

-----------------------------------------------------------------------------
(* Primary wallets                                                         *)

\* What a request has seen and cleared, at each of its statements.
ChangesSane ==
  \A c \in Change :
    /\ change[c].cleared \subseteq change[c].seen /\ change[c].seen \subseteq owned
    /\ change[c].at = "idle" => change[c].seen = {}
    /\ change[c].at # "writing" => change[c].cleared = {}
    /\ change[c].at # "idle" => /\ change[c].wallet \in Purse
                                /\ ~change[c].creates => change[c].wallet \in change[c].seen

\* The rows a transaction has written are its own until it ends.
WritersApart ==
  \A c \in Change : change[c].at = "writing" =>
    /\ primary \cap change[c].seen = {}
    /\ \A d \in Change \ {c} : change[d].at = "writing" =>
         change[c].seen \cap change[d].seen = {}

\* A request sees every wallet that is primary, or becomes it by a rollback.
AllSeen ==
  ~unseen => \A d \in Change : change[d].at # "idle" =>
    /\ primary \subseteq change[d].seen
    /\ \A c \in Change : change[c].cleared \subseteq change[d].seen

AtMostOne(S) == \A v, w \in S : v = w

OnePrimary == ~unseen => AtMostOne(primary) /\ \A c \in Change : AtMostOne(change[c].cleared)

WalletsInv == WalletsTypeOK /\ ChangesSane /\ WritersApart /\ AllSeen /\ OnePrimary

LEMMA WalletsInitInv == WalletsInit => WalletsInv
<1> SUFFICES ASSUME WalletsInit PROVE WalletsInv
  OBVIOUS
<1>1. WalletsTypeOK
  BY DEF WalletsInit, WalletsTypeOK, NoChange
<1>2. ChangesSane /\ WritersApart /\ AllSeen
  BY DEF WalletsInit, NoChange, ChangesSane, WritersApart, AllSeen
<1>3. OnePrimary
  BY DEF WalletsInit, NoChange, OnePrimary, AtMostOne
<1> QED
  BY <1>1, <1>2, <1>3 DEF WalletsInv

LEMMA BeginChangeInv ==
  ASSUME WalletsInv, NEW c \in Change, NEW w \in Purse, NEW creates \in BOOLEAN,
         creates \/ w \in owned, BeginChange(c, w, creates)
  PROVE  WalletsInv'
<1> USE DEF WalletsInv, WalletsTypeOK, BeginChange
<1>1. WalletsTypeOK'
  OBVIOUS
<1>2. ChangesSane'
  BY DEF ChangesSane
<1>3. WritersApart'
  BY DEF WritersApart
<1>4. AllSeen'
  BY DEF AllSeen, ChangesSane
<1>5. OnePrimary'
  BY DEF OnePrimary, AtMostOne
<1> QED
  BY <1>1, <1>2, <1>3, <1>4, <1>5 DEF WalletsInv

LEMMA ClearPrimaryInv ==
  ASSUME WalletsInv, NEW c \in Change, ClearPrimary(c)
  PROVE  WalletsInv'
<1> USE DEF WalletsInv, WalletsTypeOK, ClearPrimary
<1>0. change' = [change EXCEPT ![c] = [change[c] EXCEPT
                   !.at = "writing", !.cleared = primary \cap change[c].seen]]
  OBVIOUS
<1>1. WalletsTypeOK'
  <2>1. [change[c] EXCEPT !.at = "writing", !.cleared = primary \cap change[c].seen] \in
          [at : {"idle", "clearing", "writing"}, wallet : Purse \cup {NoPurse},
           creates : BOOLEAN, seen : SUBSET Purse, cleared : SUBSET Purse]
    OBVIOUS
  <2>2. change' \in
          [Change -> [at : {"idle", "clearing", "writing"}, wallet : Purse \cup {NoPurse},
                      creates : BOOLEAN, seen : SUBSET Purse, cleared : SUBSET Purse]]
    BY <1>0, <2>1
  <2>3. primary' \subseteq owned' /\ active' \subseteq owned' /\ owned' \subseteq Purse
    OBVIOUS
  <2> QED
    BY <2>2, <2>3
<1>2. ChangesSane'
  BY DEF ChangesSane
<1>3. WritersApart'
  BY DEF WritersApart, Free
<1>4. AllSeen'
  BY DEF AllSeen
<1>5. OnePrimary'
  BY DEF OnePrimary, AtMostOne
<1> QED
  BY <1>1, <1>2, <1>3, <1>4, <1>5 DEF WalletsInv

LEMMA CommitInv ==
  ASSUME WalletsInv, NEW c \in Change, NEW on \in BOOLEAN, Commit(c, on)
  PROVE  WalletsInv'
<1> USE DEF WalletsInv, WalletsTypeOK, Commit, NoChange
<1>1. WalletsTypeOK'
  BY DEF ChangesSane
<1>2. ChangesSane'
  BY DEF ChangesSane
<1>3. WritersApart'
  BY DEF WritersApart, ChangesSane
<1>4. AllSeen'
  BY DEF AllSeen, Misses
<1>5. ~unseen => primary = {}
  BY DEF AllSeen, WritersApart
<1>6. OnePrimary'
  BY <1>5 DEF OnePrimary, AtMostOne
<1> QED
  BY <1>1, <1>2, <1>3, <1>4, <1>6 DEF WalletsInv

LEMMA RollBackInv ==
  ASSUME WalletsInv, NEW c \in Change, RollBack(c)
  PROVE  WalletsInv'
<1> USE DEF WalletsInv, WalletsTypeOK, RollBack, NoChange
<1>1. WalletsTypeOK'
  BY DEF ChangesSane
<1>2. ChangesSane'
  BY DEF ChangesSane
<1>3. WritersApart'
  BY DEF WritersApart, ChangesSane
<1>4. AllSeen'
  BY DEF AllSeen
<1>5. ~unseen => primary = {} \/ change[c].cleared = {}
  BY DEF AllSeen, WritersApart, ChangesSane
<1>6. OnePrimary'
  BY <1>5 DEF OnePrimary, AtMostOne
<1> QED
  BY <1>1, <1>2, <1>3, <1>4, <1>6 DEF WalletsInv

\* Requests of one statement add no primary wallet.
LEMMA OneStatementInv ==
  ASSUME WalletsInv, owned \subseteq owned', owned' \subseteq Purse, active' \subseteq owned',
         primary' \subseteq primary, UNCHANGED <<change, unseen>>
  PROVE  WalletsInv'
<1> USE DEF WalletsInv, WalletsTypeOK
<1>1. WalletsTypeOK'
  OBVIOUS
<1>2. ChangesSane'
  BY DEF ChangesSane
<1>3. WritersApart'
  BY DEF WritersApart
<1>4. AllSeen'
  BY DEF AllSeen
<1>5. OnePrimary'
  BY DEF OnePrimary, AtMostOne
<1> QED
  BY <1>1, <1>2, <1>3, <1>4, <1>5 DEF WalletsInv

LEMMA WalletsStepInv == WalletsInv /\ [WalletsNext]_walletVars => WalletsInv'
<1> SUFFICES ASSUME WalletsInv, [WalletsNext]_walletVars PROVE WalletsInv'
  OBVIOUS
<1>0. primary \subseteq owned /\ active \subseteq owned /\ owned \subseteq Purse
  BY DEF WalletsInv, WalletsTypeOK
<1>1. ASSUME NEW c \in Change, NEW w \in Purse, Create(c, w) \/ Update(c, w)
      PROVE WalletsInv'
  BY <1>1, BeginChangeInv DEF Create, Update
<1>2. ASSUME NEW w \in Purse, ConnectWallet(w) \/ UnsetPrimary(w) \/ Disconnect(w)
      PROVE WalletsInv'
  BY <1>0, <1>2, OneStatementInv DEF ConnectWallet, UnsetPrimary, Disconnect
<1>3. ASSUME NEW w \in Purse, NEW on \in BOOLEAN, SetWalletStatus(w, on)
      PROVE WalletsInv'
  BY <1>0, <1>3, OneStatementInv DEF SetWalletStatus
<1>4. CASE RevokeWallets
  BY <1>0, <1>4, OneStatementInv DEF RevokeWallets
<1>5. CASE UNCHANGED walletVars
  BY <1>0, <1>5, OneStatementInv DEF walletVars
<1> QED
  BY <1>1, <1>2, <1>3, <1>4, <1>5, ClearPrimaryInv, CommitInv, RollBackInv
     DEF WalletsNext

\* One primary wallet at most, whatever requests overlap, fail and wait for each
\* other, unless one of them could not see a wallet that was made primary
\* (wallets.service.ts:21-88).
THEOREM PrimaryStaysOne == WalletsSpec => []PrimaryIsOne
<1>1. WalletsInv => PrimaryIsOne
  BY DEF WalletsInv, OnePrimary, AtMostOne, PrimaryIsOne
<1> QED
  BY WalletsInitInv, WalletsStepInv, <1>1, PTL DEF WalletsSpec

-----------------------------------------------------------------------------
(* Walks through lists                                                     *)

\* The rows of s before r, newest first.
Above(s, r) == Cardinality({n \in s : n > r})

\* The rows the walk has come past at least: what is before its next page, or
\* up to the end of the page it holds.
Passed == IF reading.at \in {"first", "fetch"} THEN (reading.page - 1) * PageSize
          ELSE reading.page * PageSize

\* Until a row leaves the list, it only grows, and rows of the start that the
\* walk came past are seen, or on the page that is on its way.
WalkSteady ==
  reading.steady =>
    /\ hidden = {} /\ reading.refused = {}
    /\ reading.start \subseteq Listed /\ reading.items \subseteq Listed
    /\ reading.seen \subseteq Listed
    /\ through = "api" =>
         /\ reading.at # "first" =>
              \A r \in reading.start :
                Above(Listed, r) < Passed => r \in reading.seen \cup reading.items
         /\ ToTheEnd

\* A walk begins on the first page, holds rows only while it counts, and is told
\* of a next page only if there are rows left for it.
WalkTyped ==
  /\ reading.at = "first" => reading.page = 1
  /\ reading.at # "counting" => reading.items = {}
  /\ reading.at = "shown" /\ reading.next => reading.page <= Rows

BrowseInv == BrowseTypeOK /\ WalkTyped /\ WalkSteady

\* The fields of a walk.
WalkType ==
  [at : {"first", "fetch", "counting", "shown"}, next : BOOLEAN,
   page : 1 .. Rows + 1, items : SUBSET Row, start : SUBSET Row,
   seen : SUBSET Row, refused : SUBSET Row, steady : BOOLEAN]

LEMMA RowsAreFew ==
  ASSUME NEW s \in SUBSET Row
  PROVE  IsFiniteSet(s) /\ Cardinality(s) \in 0 .. Rows
<1>1. IsFiniteSet(Row) /\ Cardinality(Row) = Rows
  BY BrowseAssumption, FS_Interval DEF Row
<1> QED
  BY BrowseAssumption, <1>1, FS_Subset, FS_CardinalityType

LEMMA AboveGrows ==
  ASSUME NEW s \in SUBSET Row, NEW t \in SUBSET s, NEW r \in Row
  PROVE  /\ Above(t, r) \in Nat /\ Above(s, r) \in Nat /\ Above(t, r) <= Above(s, r)
         /\ r \in s => Above(s, r) < Cardinality(s)
<1> DEFINE S == {n \in s : n > r}
           T == {n \in t : n > r}
<1>1. S \in SUBSET Row /\ T \in SUBSET S /\ S \in SUBSET s
  OBVIOUS
<1>2. IsFiniteSet(S) /\ Cardinality(S) \in Nat /\ IsFiniteSet(s) /\ Cardinality(s) \in Nat
  BY <1>1, RowsAreFew, BrowseAssumption
<1>3. Cardinality(T) <= Cardinality(S) /\ Cardinality(T) \in Nat
  BY <1>1, <1>2, FS_Subset, FS_CardinalityType
<1>4. ASSUME r \in s PROVE Cardinality(S) < Cardinality(s)
  <2>1. Cardinality(S) <= Cardinality(s) /\ (Cardinality(s) = Cardinality(S) => s = S)
    BY <1>1, <1>2, FS_Subset
  <2>2. r \notin S
    BY DEF Row
  <2> QED
    BY <1>2, <1>4, <2>1, <2>2
<1> QED
  BY <1>2, <1>3, <1>4 DEF Above

\* Without a next page, every row is before the end of this one; a next page
\* has a row.
LEMMA PagesHoldAll ==
  ASSUME NEW total \in 0 .. Rows, NEW p \in 1 .. Rows + 1
  PROVE  /\ ~HasNextPage(p, total) => total <= p * PageSize
         /\ HasNextPage(p, total) => p <= Rows
<1>1. PageSize \in Nat /\ PageSize >= 1 /\ total \in Nat /\ p \in Nat /\ Rows \in Nat
  BY BrowseAssumption
<1> DEFINE q == TotalPages(total)
           a == total + PageSize - 1
<1>2. q \in Int /\ PageSize * q <= a /\ a < PageSize * q + PageSize
  BY <1>1 DEF TotalPages
<1> HIDE DEF q
<1>3. ASSUME q <= p PROVE total <= p * PageSize
  <2>1. PageSize * q <= PageSize * p
    BY <1>1, <1>2, <1>3
  <2>2. total <= PageSize * p
    BY <1>1, <1>2, <2>1
  <2> QED
    BY <1>1, <2>2
<1>4. ASSUME p < q PROVE p <= Rows
  <2>1. CASE p = Rows + 1
    <3>1. PageSize * (total + 1) <= PageSize * q
      BY <1>1, <1>2, <1>4, <2>1
    <3>2. PageSize * (total + 1) = PageSize * total + PageSize /\ total <= PageSize * total
      BY <1>1
    <3> QED
      BY <1>1, <1>2, <3>1, <3>2
  <2> QED
    BY <1>1, <2>1
<1> QED
  BY <1>1, <1>2, <1>3, <1>4 DEF HasNextPage, q

\* Every service opens the rows it lists.
LEMMA ListedOpens ==
  ASSUME NEW r \in Row, r \in Listed, resource \in Resource
  PROVE  OpensTo(r)
<1>1. r \in there \ hidden /\ ListedTo(r)
  BY DEF Listed
<1>2. resource \in {"transaction", "reward", "referral", "wallet", "merchant", "campaign", "user"}
  BY DEF Resource, AllowedRoles
<1> QED
  BY <1>1, <1>2
     DEF ListedTo, OpensTo, TransactionAccess, RewardFilter, FindReward, AssertRewardAccess,
         ReferralFilter, FindVisible, WalletFilter, FindOwnWallet, AssertWalletAccess,
         MerchantFilter, FindMerchant, AssertMerchantAccess, CampaignFilter, FindCampaign,
         AssertCampaignAccess, UserFilter, FindUser

LEMMA BrowseInitInv == BrowseInit => BrowseInv
<1> SUFFICES ASSUME BrowseInit PROVE BrowseInv
  OBVIOUS
<1> USE BrowseAssumption DEF BrowseInit
<1>1. tie \in [Row -> Tie]
  BY DEF Tie, TiesTo
<1>2. BrowseTypeOK
  BY <1>1 DEF BrowseTypeOK
<1>3. WalkTyped /\ WalkSteady
  BY DEF WalkTyped, WalkSteady, ToTheEnd
<1> QED
  BY <1>2, <1>3 DEF BrowseInv

\* A reader's step leaves the list as it is.
LEMMA ListStays == UNCHANGED listVars => Listed' = Listed
BY DEF listVars, Listed, ListedTo, IsAdmin, TransactionAccess, RewardFilter, ReferralFilter,
       WalletFilter, MerchantFilter, CampaignFilter, UserFilter

LEMMA FindManyInv == ASSUME BrowseInv, FindMany PROVE BrowseInv'
<1>1. reading \in WalkType /\ there \subseteq Row /\ PageSize \in Nat \ {0} /\ Rows \in Nat
  BY BrowseAssumption DEF BrowseInv, BrowseTypeOK, WalkType
<1>2. Listed \subseteq Row /\ Listed' = Listed /\ UNCHANGED listVars
  BY <1>1, ListStays DEF Listed, FindMany
<1> DEFINE rowsAt == RowsAt(Listed, Offset(reading.page))
<1>3. rowsAt \subseteq Listed
  BY DEF RowsAt
<1>4. /\ reading'.at = "counting" /\ reading'.items = rowsAt
      /\ reading'.start = IF reading.at = "first" THEN Listed ELSE reading.start
      /\ reading'.seen = reading.seen /\ reading'.page = reading.page
      /\ reading'.next = reading.next /\ reading'.refused = reading.refused
      /\ reading'.steady = reading.steady /\ reading' \in WalkType
      /\ reading.at \in {"first", "fetch"}
  BY <1>1, <1>2, <1>3 DEF FindMany, WalkType
<1>5. BrowseTypeOK'
  BY <1>2, <1>4 DEF BrowseInv, BrowseTypeOK, listVars, WalkType
<1>6. WalkTyped'
  BY <1>4 DEF BrowseInv, WalkTyped
<1>7. WalkSteady'
  <2> SUFFICES ASSUME reading.steady PROVE WalkSteady'
    BY <1>4 DEF WalkSteady
  <2>1. reading'.start \subseteq Listed
    BY <1>4 DEF BrowseInv, WalkSteady
  <2>2. ASSUME through = "api", NEW r \in reading'.start, Above(Listed, r) < reading.page * PageSize
        PROVE  r \in reading.seen \cup rowsAt
    <3>1. r \in Listed /\ r \in Row /\ Above(Listed, r) \in Nat /\ reading.page \in Nat
      <4>1. r \in Listed /\ r \in Row
        BY <1>2, <2>1, <2>2
      <4>2. Above(Listed, r) \in Nat
        BY <1>2, <4>1, AboveGrows
      <4> QED
        BY <1>1, <4>1, <4>2 DEF WalkType
    <3> DEFINE offset == (reading.page - 1) * PageSize
    <3>2. offset \in Int /\ offset + PageSize = reading.page * PageSize
      BY <1>1, <3>1
    <3>3. CASE Above(Listed, r) < offset
      <4>1. reading.at # "first"
        <5>1. ASSUME reading.at = "first" PROVE FALSE
          <6>1. reading.page = 1
            BY <5>1 DEF BrowseInv, WalkTyped
          <6>2. offset = 0
            BY <1>1, <6>1
          <6> QED
            BY <3>1, <3>3, <6>2
        <5> QED
          BY <5>1
      <4>2. Passed = offset /\ r \in reading.start /\ reading.items = {}
        BY <1>4, <2>2, <4>1 DEF Passed, BrowseInv, WalkTyped
      <4> HIDE DEF offset
      <4> QED
        BY <2>2, <3>3, <4>1, <4>2 DEF BrowseInv, WalkSteady
    <3>4. CASE ~(Above(Listed, r) < offset)
      <4> HIDE DEF offset
      <4>1. Above(Listed, r) \in offset .. offset + PageSize - 1
        BY <1>1, <2>2, <3>1, <3>2, <3>4
      <4> QED
        BY <3>1, <4>1 DEF RowsAt, Above, Offset, offset
    <3> QED
      BY <3>3, <3>4
  <2>3. Passed' = reading.page * PageSize
    BY <1>4 DEF Passed
  <2>4. through' = through /\ hidden' = hidden
    BY <1>2 DEF listVars
  <2> HIDE DEF rowsAt
  <2> QED
    BY <1>2, <1>3, <1>4, <2>1, <2>2, <2>3, <2>4 DEF BrowseInv, WalkSteady, ToTheEnd, Above
<1> QED
  BY <1>5, <1>6, <1>7 DEF BrowseInv

LEMMA CountInv == ASSUME BrowseInv, Count PROVE BrowseInv'
<1>1. reading \in WalkType /\ there \subseteq Row /\ PageSize \in Nat \ {0} /\ Rows \in Nat
  BY BrowseAssumption DEF BrowseInv, BrowseTypeOK, WalkType
<1>2. Listed \subseteq Row /\ Listed' = Listed /\ UNCHANGED listVars
  BY <1>1, ListStays DEF Listed, Count
<1> DEFINE total == Cardinality(Listed)
<1>3. total \in 0 .. Rows /\ reading.page \in 1 .. Rows + 1
  BY <1>1, <1>2, RowsAreFew DEF WalkType
<1> HIDE DEF total
<1>4. /\ reading'.at = "shown" /\ reading'.items = {} /\ reading'.start = reading.start
      /\ reading'.seen = reading.seen \cup RowsShown(reading.items)
      /\ reading'.page = reading.page
      /\ reading'.next = (~Unwrapped /\ HasNextPage(reading.page, total))
      /\ reading'.refused = reading.refused /\ reading'.steady = reading.steady
      /\ reading' \in WalkType /\ reading.at = "counting"
  BY <1>1 DEF Count, WalkType, RowsShown, total
<1>5. BrowseTypeOK'
  BY <1>2, <1>4 DEF BrowseInv, BrowseTypeOK, listVars, WalkType
<1>6. WalkTyped'
  BY <1>3, <1>4, PagesHoldAll DEF BrowseInv, WalkTyped
<1>7. WalkSteady'
  <2> SUFFICES ASSUME reading.steady PROVE WalkSteady'
    BY <1>4 DEF WalkSteady
  <2>1. /\ hidden = {} /\ reading.refused = {} /\ reading.start \subseteq Listed
        /\ reading.items \subseteq Listed /\ reading.seen \subseteq Listed
    BY DEF BrowseInv, WalkSteady
  <2>2. Passed' = reading.page * PageSize /\ Passed = reading.page * PageSize
    BY <1>4 DEF Passed
  <2>3. ASSUME through = "api", NEW r \in reading.start, Above(Listed, r) < reading.page * PageSize
        PROVE  r \in reading'.seen
    BY <1>4, <2>2, <2>3 DEF BrowseInv, WalkSteady, RowsShown, Unwrapped
  <2>4. ASSUME through = "api", ~reading'.next, NEW r \in reading.start PROVE r \in reading'.seen
    <3>1. ~HasNextPage(reading.page, total)
      BY <1>4, <2>4 DEF Unwrapped
    <3>2. total <= reading.page * PageSize
      BY <1>3, <3>1, PagesHoldAll
    <3>3. Above(Listed, r) \in Nat /\ Above(Listed, r) < total
      BY <1>2, <2>1, <2>4, AboveGrows DEF total
    <3>4. reading.page * PageSize \in Nat
      BY <1>1, <1>3
    <3> QED
      BY <1>3, <2>3, <2>4, <3>2, <3>3, <3>4
  <2>5. through' = through /\ hidden' = hidden
    BY <1>2 DEF listVars
  <2> QED
    BY <1>2, <1>4, <2>1, <2>2, <2>3, <2>4, <2>5 DEF WalkSteady, ToTheEnd, Above, RowsShown
<1> QED
  BY <1>5, <1>6, <1>7 DEF BrowseInv

LEMMA GoToInv ==
  ASSUME BrowseInv, NEW p \in Int, p = reading.page + 1 \/ p = reading.page - 1,
         p \in 1 .. Rows + 1, GoTo(p)
  PROVE  BrowseInv'
<1>1. reading \in WalkType /\ there \subseteq Row /\ PageSize \in Nat \ {0} /\ Rows \in Nat
  BY BrowseAssumption DEF BrowseInv, BrowseTypeOK, WalkType
<1>2. Listed \subseteq Row /\ Listed' = Listed /\ UNCHANGED listVars
  BY <1>1, ListStays DEF Listed, GoTo
<1>3. /\ reading'.at = "fetch" /\ reading'.page = p /\ reading'.items = reading.items
      /\ reading'.start = reading.start /\ reading'.seen = reading.seen
      /\ reading'.next = reading.next /\ reading'.refused = reading.refused
      /\ reading'.steady = reading.steady /\ reading' \in WalkType /\ reading.at = "shown"
  BY <1>1 DEF GoTo, WalkType
<1>4. BrowseTypeOK'
  BY <1>2, <1>3 DEF BrowseInv, BrowseTypeOK, listVars, WalkType
<1>5. WalkTyped'
  BY <1>3 DEF BrowseInv, WalkTyped
<1>6. WalkSteady'
  <2> SUFFICES ASSUME reading.steady PROVE WalkSteady'
    BY <1>3 DEF WalkSteady
  <2>1. /\ hidden = {} /\ reading.refused = {} /\ reading.start \subseteq Listed
        /\ reading.items \subseteq Listed /\ reading.seen \subseteq Listed
    BY DEF BrowseInv, WalkSteady
  <2>2. Passed' = (p - 1) * PageSize /\ Passed = reading.page * PageSize
    BY <1>3 DEF Passed
  <2>3. Passed' \in Int /\ Passed \in Int /\ Passed' <= Passed
    <3>1. reading.page \in Nat /\ p - 1 <= reading.page
      BY <1>1 DEF WalkType
    <3>2. (p - 1) * PageSize <= reading.page * PageSize
      <4> DEFINE k == reading.page - (p - 1)
      <4>1. k \in Nat /\ k * PageSize \in Nat
        BY <1>1, <3>1
      <4>2. k * PageSize = reading.page * PageSize - (p - 1) * PageSize
        BY <1>1, <3>1
      <4> HIDE DEF k
      <4> QED
        BY <1>1, <3>1, <4>1, <4>2
    <3> QED
      BY <1>1, <2>2, <3>1, <3>2
  <2>4. ASSUME through = "api", NEW r \in reading.start, Above(Listed, r) < Passed'
        PROVE  r \in reading.seen \cup reading.items
    <3>1. Above(Listed, r) \in Nat
      BY <1>2, <2>1, AboveGrows
    <3>2. Above(Listed, r) < Passed
      BY <2>3, <2>4, <3>1
    <3> QED
      BY <1>3, <2>4, <3>2 DEF BrowseInv, WalkSteady
  <2>5. through' = through /\ hidden' = hidden
    BY <1>2 DEF listVars
  <2> QED
    BY <1>2, <1>3, <2>1, <2>4, <2>5 DEF WalkSteady, ToTheEnd, Above
<1> QED
  BY <1>4, <1>5, <1>6 DEF BrowseInv

LEMMA TurnsInv == ASSUME BrowseInv, NextPage \/ PreviousPage PROVE BrowseInv'
<1>1. reading.page \in 1 .. Rows + 1 /\ Rows \in Nat
  BY BrowseAssumption DEF BrowseInv, BrowseTypeOK
<1>2. CASE NextPage
  <2>1. reading.page + 1 \in 1 .. Rows + 1
    BY <1>1, <1>2 DEF NextPage, GoTo, BrowseInv, WalkTyped
  <2> QED
    BY <1>1, <1>2, <2>1, GoToInv DEF NextPage
<1>3. CASE PreviousPage
  <2>1. reading.page - 1 \in 1 .. Rows + 1
    BY <1>1, <1>3 DEF PreviousPage
  <2> QED
    BY <1>1, <1>3, <2>1, GoToInv DEF PreviousPage
<1> QED
  BY <1>2, <1>3

LEMMA OpenRowInv == ASSUME BrowseInv, NEW r \in Row, OpenRow(r) PROVE BrowseInv'
<1>1. reading \in WalkType
  BY DEF BrowseInv, BrowseTypeOK, WalkType
<1>2. Listed' = Listed /\ UNCHANGED listVars
  BY ListStays DEF OpenRow
<1>3. ~reading.steady
  <2>1. reading.steady => r \in Listed
    BY DEF OpenRow, BrowseInv, WalkSteady
  <2> QED
    BY <1>1, <2>1, ListedOpens DEF OpenRow, BrowseInv, BrowseTypeOK, WalkType
<1>4. /\ reading' \in WalkType /\ ~reading'.steady /\ reading'.at = reading.at
      /\ reading'.page = reading.page /\ reading'.items = reading.items
      /\ reading'.next = reading.next
  BY <1>1, <1>3 DEF OpenRow, WalkType
<1>5. BrowseTypeOK'
  BY <1>2, <1>4 DEF BrowseInv, BrowseTypeOK, listVars, WalkType
<1>6. WalkTyped' /\ WalkSteady'
  BY <1>4 DEF BrowseInv, WalkTyped, WalkSteady
<1> QED
  BY <1>5, <1>6 DEF BrowseInv

LEMMA RowCreatedInv == ASSUME BrowseInv, NEW r \in Row, RowCreated(r) PROVE BrowseInv'
<1>1. /\ there' = there \cup {r}
      /\ UNCHANGED <<resource, viewer, through, tie, hidden, reading>>
  BY DEF RowCreated
<1>2. BrowseTypeOK' /\ WalkTyped'
  BY <1>1 DEF BrowseInv, BrowseTypeOK, WalkTyped
<1>3. Listed \in SUBSET Listed' /\ Listed' \in SUBSET Row
  <2>1. \A n \in Row : ListedTo(n)' = ListedTo(n)
    BY <1>1 DEF ListedTo, IsAdmin, TransactionAccess, RewardFilter, ReferralFilter,
         WalletFilter, MerchantFilter, CampaignFilter, UserFilter
  <2>2. there \subseteq Row
    BY DEF BrowseInv, BrowseTypeOK
  <2> QED
    BY <1>1, <2>1, <2>2 DEF Listed
<1>4. WalkSteady'
  <2> SUFFICES ASSUME reading.steady PROVE WalkSteady'
    BY <1>1 DEF WalkSteady
  <2>1. /\ hidden = {} /\ reading.refused = {} /\ reading.start \subseteq Listed
        /\ reading.items \subseteq Listed /\ reading.seen \subseteq Listed
    BY DEF BrowseInv, WalkSteady
  <2>2. Passed' = Passed /\ Passed \in Int
    <3>1. Passed' = Passed
      BY <1>1 DEF Passed
    <3>2. reading.page \in Nat /\ PageSize \in Nat
      BY BrowseAssumption DEF BrowseInv, BrowseTypeOK
    <3> QED
      BY <3>1, <3>2 DEF Passed
  <2>3. ASSUME through = "api", reading.at # "first", NEW n \in reading.start,
               Above(Listed', n) < Passed
        PROVE  n \in reading.seen \cup reading.items
    <3>1. Above(Listed, n) \in Nat /\ Above(Listed', n) \in Nat /\ Above(Listed, n) <= Above(Listed', n)
      BY <1>3, <2>1, AboveGrows
    <3>2. Above(Listed, n) < Passed
      BY <2>2, <2>3, <3>1
    <3> QED
      BY <2>3, <3>2 DEF BrowseInv, WalkSteady
  <2>4. (through = "api" => ToTheEnd) /\ (through = "api" => ToTheEnd)'
    BY <1>1 DEF BrowseInv, WalkSteady, ToTheEnd
  <2> QED
    BY <1>1, <1>3, <2>1, <2>2, <2>3, <2>4 DEF WalkSteady, Above
<1> QED
  BY <1>2, <1>4 DEF BrowseInv

\* Once a row has left its list, a walk promises nothing.
LEMMA RowLeavesInv ==
  ASSUME BrowseInv, NEW r \in Row, RowChanges(r) \/ InvitationTaken(r)
  PROVE  BrowseInv'
<1>1. reading \in WalkType
  BY DEF BrowseInv, BrowseTypeOK, WalkType
<1>2. /\ reading' \in WalkType /\ ~reading'.steady /\ reading'.at = reading.at
      /\ reading'.page = reading.page /\ reading'.items = reading.items
      /\ reading'.next = reading.next
  BY <1>1 DEF RowChanges, InvitationTaken, WalkType
<1>3. tie' \in [Row -> Tie] /\ hidden' \subseteq Row
  BY DEF RowChanges, InvitationTaken, BrowseInv, BrowseTypeOK, Tie
<1>4. UNCHANGED <<resource, viewer, through, there>>
  BY DEF RowChanges, InvitationTaken
<1>5. BrowseTypeOK'
  BY <1>2, <1>3, <1>4 DEF BrowseInv, BrowseTypeOK, WalkType
<1>6. WalkTyped' /\ WalkSteady'
  BY <1>2 DEF BrowseInv, WalkTyped, WalkSteady
<1> QED
  BY <1>5, <1>6 DEF BrowseInv

LEMMA BrowseStepInv == BrowseInv /\ [BrowseNext]_browseVars => BrowseInv'
<1> SUFFICES ASSUME BrowseInv, [BrowseNext]_browseVars PROVE BrowseInv'
  OBVIOUS
<1>1. CASE FindMany
  BY <1>1, FindManyInv
<1>2. CASE Count
  BY <1>2, CountInv
<1>3. CASE NextPage \/ PreviousPage
  BY <1>3, TurnsInv
<1>4. ASSUME NEW r \in Row, OpenRow(r) PROVE BrowseInv'
  BY <1>4, OpenRowInv
<1>5. ASSUME NEW r \in Row, RowCreated(r) PROVE BrowseInv'
  BY <1>5, RowCreatedInv
<1>6. ASSUME NEW r \in Row, RowChanges(r) \/ InvitationTaken(r) PROVE BrowseInv'
  BY <1>6, RowLeavesInv
<1>7. CASE UNCHANGED browseVars
  <2>1. UNCHANGED listVars /\ UNCHANGED reading
    BY <1>7 DEF browseVars, listVars
  <2>2. Listed' = Listed
    BY <2>1, ListStays
  <2>3. BrowseTypeOK' /\ WalkTyped'
    BY <2>1 DEF listVars, BrowseInv, BrowseTypeOK, WalkTyped
  <2>4. WalkSteady'
    BY <2>1, <2>2 DEF listVars, BrowseInv, WalkSteady, ToTheEnd, Passed, Above
  <2> QED
    BY <2>3, <2>4 DEF BrowseInv
<1> QED
  BY <1>1, <1>2, <1>3, <1>4, <1>5, <1>6, <1>7 DEF BrowseNext

\* A client of the API that goes on until it is told of no next page, back and
\* forth on the way, has seen every row of the list it began with and can open
\* each, for any number of rows and any page size, while rows appear anywhere
\* between its statements (utils/pagination.ts, pagination.interceptor.ts:30-35
\* and the list and findOne of the seven services).
THEOREM WalksAlwaysWhole == BrowseSpec => []WalkIsWhole
<1>1. BrowseInv => WalkIsWhole
  BY DEF BrowseInv, WalkSteady, WalkIsWhole
<1> QED
  BY BrowseInitInv, BrowseStepInv, <1>1, PTL DEF BrowseSpec

-----------------------------------------------------------------------------
(* Reports                                                                 *)

LEMMA SumUpIsSum == ASSUME NEW S, IsFiniteSet(S), NEW w PROVE SumUp(w, S) = SumOf(w, S)
BY LibrarySum DEF SumUp

LEMMA AddUpIsSum == ASSUME NEW f, IsFiniteSet(DOMAIN f) PROVE AddUp(f) = SumOf(f, DOMAIN f)
BY SumUpIsSum DEF AddUp

LEMMA TablesFinite == IsFiniteSet(Payment) /\ IsFiniteSet(Reward)
BY ReportsAssumption DEF ReportsAssumption

LEMMA AmountsTyped ==
  (\A p \in Payment : Paise[p] \in Nat) /\ (\A r \in Reward : Stars[r] \in Nat)
BY ReportsAssumption DEF ReportsAssumption, Paise, Stars

LEMMA IssuedTyped ==
  ASSUME NEW statuses
  PROVE  Issued(statuses) \in SUBSET Reward /\ IsFiniteSet(Issued(statuses))
<1>1. Issued(statuses) \in SUBSET Reward
  BY DEF Issued
<1> QED
  BY <1>1, TablesFinite, FS_Subset

LEMMA CompletedTyped == Completed \in SUBSET Payment /\ IsFiniteSet(Completed)
<1>1. Completed \in SUBSET Payment
  BY DEF Completed
<1> QED
  BY <1>1, TablesFinite, FS_Subset

\* The stars of rewards and the paise of payments are natural numbers, of some
\* no more than of all.
LEMMA StarsGrow ==
  ASSUME NEW S \in SUBSET Reward, NEW T \in SUBSET S
  PROVE  SumUp(Stars, T) \in Nat /\ SumUp(Stars, S) \in Nat /\ SumUp(Stars, T) <= SumUp(Stars, S)
<1>1. IsFiniteSet(S) /\ IsFiniteSet(T)
  BY TablesFinite, FS_Subset
<1>2. (\A r \in S : Stars[r] \in Nat) /\ (\A r \in T : Stars[r] \in Nat)
  BY AmountsTyped
<1>3. SumOf(Stars, T) \in Nat /\ SumOf(Stars, S) \in Nat
  BY <1>1, <1>2, SumOfNats
<1>4. SumOf(Stars, T) <= SumOf(Stars, S)
  BY <1>1, <1>2, SumGrows
<1> QED
  BY <1>1, <1>3, <1>4, SumUpIsSum

LEMMA PaiseGrow ==
  ASSUME NEW S \in SUBSET Payment, NEW T \in SUBSET S
  PROVE  SumUp(Paise, T) <= SumUp(Paise, S)
<1>1. IsFiniteSet(S) /\ IsFiniteSet(T)
  BY TablesFinite, FS_Subset
<1>2. \A p \in S : Paise[p] \in Nat
  BY AmountsTyped
<1>3. SumOf(Paise, T) <= SumOf(Paise, S)
  BY <1>1, <1>2, SumGrows
<1> QED
  BY <1>1, <1>3, SumUpIsSum

LEMMA StarsOfTwo ==
  ASSUME NEW A \in SUBSET Reward, NEW B \in SUBSET Reward, A \cap B = {}
  PROVE  SumUp(Stars, A \cup B) = SumUp(Stars, A) + SumUp(Stars, B)
<1>1. IsFiniteSet(A) /\ IsFiniteSet(B) /\ IsFiniteSet(A \cup B)
  BY TablesFinite, FS_Subset, FS_Union
<1>2. \A r \in A \cup B : Stars[r] \in Int
  BY AmountsTyped
<1>3. SumOf(Stars, A \cup B) = SumOf(Stars, A) + SumOf(Stars, B)
  BY <1>1, <1>2, SumOfTwo
<1> QED
  BY <1>1, <1>3, SumUpIsSum

\* What f says of each group that h makes of S adds up to what w says of S.
LEMMA GroupsAddUp ==
  ASSUME NEW S, IsFiniteSet(S), NEW w, \A x \in S : w[x] \in Nat, NEW h,
         NEW f, IsFiniteSet(DOMAIN f), \A x \in S : h[x] \in DOMAIN f,
         \A k \in DOMAIN f : f[k] = SumUp(w, {x \in S : h[x] = k})
  PROVE  AddUp(f) = SumUp(w, S)
<1> DEFINE K == DOMAIN f
           sums == GroupSums(w, h, K, S)
<1>1. AddUp(f) = SumOf(f, K) /\ SumUp(w, S) = SumOf(w, S)
  BY AddUpIsSum, SumUpIsSum
<1>2. \A k \in K : f[k] = sums[k]
  <2> SUFFICES ASSUME NEW k \in K PROVE f[k] = sums[k]
    OBVIOUS
  <2>1. GroupOf(h, k, S) = {x \in S : h[x] = k} /\ GroupOf(h, k, S) \in SUBSET S
    BY DEF GroupOf
  <2>2. IsFiniteSet(GroupOf(h, k, S))
    BY <2>1, FS_Subset
  <2>3. SumUp(w, GroupOf(h, k, S)) = SumOf(w, GroupOf(h, k, S))
    BY <2>2, SumUpIsSum
  <2> QED
    BY <2>1, <2>3 DEF GroupSums
<1>3. SumOf(f, K) = SumOf(sums, K)
  BY <1>2, SameSum
<1>4. SumOf(sums, K) = SumOf(w, S)
  <2>1. \A x \in S : w[x] \in Int
    OBVIOUS
  <2> QED
    BY <2>1, SumOfGroups
<1> QED
  BY <1>1, <1>3, <1>4

LEMMA KeysFinite ==
  ASSUME NEW S, IsFiniteSet(S), NEW key
  PROVE  IsFiniteSet({key[x] : x \in S})
<1> DEFINE K == {key[x] : x \in S}
           h == [x \in S |-> key[x]]
<1>1. h \in Surjection(S, K)
  BY DEF Surjection
<1> QED
  BY <1>1, FS_Surjection

\* The groups some of whose keys are in J add up to their members.
LEMMA GroupsWithin ==
  ASSUME NEW S, IsFiniteSet(S), NEW w, \A x \in S : w[x] \in Nat, NEW key,
         NEW J, J \in SUBSET {key[x] : x \in S}
  PROVE  SumUp(SumsOf(w, GroupedBy(key, S)), J) = SumUp(w, {x \in S : key[x] \in J})
<1> DEFINE sums == SumsOf(w, GroupedBy(key, S))
           f == [k \in J |-> sums[k]]
           T == {x \in S : key[x] \in J}
<1>1. IsFiniteSet(J) /\ IsFiniteSet(T)
  BY KeysFinite, FS_Subset
<1>2. SumUp(sums, J) = SumOf(sums, J) /\ AddUp(f) = SumOf(f, J)
  BY <1>1, SumUpIsSum, AddUpIsSum
<1>3. SumOf(f, J) = SumOf(sums, J)
  <2>1. \A k \in J : f[k] = sums[k]
    OBVIOUS
  <2> HIDE DEF f, sums
  <2> QED
    BY <1>1, <2>1, SameSum
<1>4. \A k \in J : f[k] = SumUp(w, {x \in T : key[x] = k})
  <2> SUFFICES ASSUME NEW k \in J PROVE f[k] = SumUp(w, {x \in T : key[x] = k})
    OBVIOUS
  <2>1. {x \in S : key[x] = k} = {x \in T : key[x] = k}
    OBVIOUS
  <2>2. sums[k] = SumUp(w, {x \in S : key[x] = k})
    BY DEF SumsOf, GroupedBy
  <2> QED
    BY <2>1, <2>2
<1>5. /\ \A x \in T : key[x] \in J /\ w[x] \in Nat
      /\ DOMAIN f = J
  OBVIOUS
<1> HIDE DEF f, T, sums
<1>6. AddUp(f) = SumUp(w, T)
  BY <1>1, <1>4, <1>5, GroupsAddUp
<1> QED
  BY <1>2, <1>3, <1>6 DEF T, sums

\* All of the groups add up to all of S, in sums as in numbers of members.
LEMMA GroupedSum ==
  ASSUME NEW S, IsFiniteSet(S), NEW w, \A x \in S : w[x] \in Nat, NEW key
  PROVE  AddUp(SumsOf(w, GroupedBy(key, S))) = SumUp(w, S)
<1> DEFINE J == {key[x] : x \in S}
<1>1. {x \in S : key[x] \in J} = S
  OBVIOUS
<1>2. DOMAIN SumsOf(w, GroupedBy(key, S)) = J
  BY DEF SumsOf, GroupedBy
<1> HIDE DEF J
<1>3. SumUp(SumsOf(w, GroupedBy(key, S)), J) = SumUp(w, {x \in S : key[x] \in J})
  BY GroupsWithin DEF J
<1> QED
  BY <1>1, <1>2, <1>3 DEF AddUp

LEMMA CountIsSum ==
  ASSUME NEW S, IsFiniteSet(S), NEW T \in SUBSET S
  PROVE  SumUp([x \in S |-> 1], T) = Cardinality(T)
<1> DEFINE one == [x \in S |-> 1]
<1>1. IsFiniteSet(T) /\ \A x \in T : one[x] = 1
  BY FS_Subset
<1> HIDE DEF one
<1>2. SumUp(one, T) = Cardinality(T)
  BY <1>1, SumUpIsSum, SumOfOnes
<1> QED
  BY <1>2 DEF one

LEMMA GroupedCount ==
  ASSUME NEW S, IsFiniteSet(S), NEW key
  PROVE  AddUp(CountsOf(GroupedBy(key, S))) = Cardinality(S)
<1> DEFINE one == [x \in S |-> 1]
           groups == GroupedBy(key, S)
           f == CountsOf(groups)
<1>1. DOMAIN f = {key[x] : x \in S}
  BY DEF CountsOf, GroupedBy
<1>2. \A k \in DOMAIN f : f[k] = SumUp(one, {x \in S : key[x] = k})
  <2> SUFFICES ASSUME NEW k \in DOMAIN f PROVE f[k] = SumUp(one, {x \in S : key[x] = k})
    OBVIOUS
  <2>1. f[k] = Cardinality({x \in S : key[x] = k})
    BY <1>1 DEF CountsOf, GroupedBy
  <2>2. {x \in S : key[x] = k} \in SUBSET S
    OBVIOUS
  <2> QED
    BY <2>1, <2>2, CountIsSum
<1>3. /\ IsFiniteSet(DOMAIN f)
      /\ \A x \in S : one[x] \in Nat /\ key[x] \in DOMAIN f
  BY <1>1, KeysFinite
<1>4. SumUp(one, S) = Cardinality(S)
  BY CountIsSum
<1> HIDE DEF one, f
<1>5. AddUp(f) = SumUp(one, S)
  BY <1>2, <1>3, GroupsAddUp
<1> QED
  BY <1>4, <1>5 DEF f

\* The balance a request has read so far: the rewards that were minted at the
\* first statement and those that were pending at the second are different
\* ones, since a reward that was pending is never pending again; and all of
\* them have been issued.
ReadsAre(M, P) ==
  /\ M \cap P = {} /\ M \cap IssuedTo(Asker, {"PENDING"}) = {}
  /\ Len(balance) >= 1 => balance[1] = SumUp(Stars, M)
  /\ Len(balance) >= 2 => balance[2] = SumUp(Stars, P)
  /\ Len(balance) = 3 => balance[1] + balance[2] <= balance[3]

BalanceReads ==
  \E M \in SUBSET IssuedTo(Asker, AnyStatus), P \in SUBSET IssuedTo(Asker, AnyStatus) :
    ReadsAre(M, P)

ReportsInv == ReportsTypeOK /\ BalanceReads

LEMMA IssuedToTyped ==
  ASSUME NEW u, NEW statuses
  PROVE  IssuedTo(u, statuses) \in SUBSET Reward
BY IssuedTyped DEF IssuedTo

LEMMA ReportsInitInv == ReportsInit => ReportsInv
<1> SUFFICES ASSUME ReportsInit PROVE ReportsInv
  OBVIOUS
<1>1. ReportsTypeOK
  BY DEF ReportsInit, ReportsTypeOK
<1>2. Len(balance) = 0
  BY DEF ReportsInit
<1>3. ReadsAre({}, {})
  BY <1>2 DEF ReadsAre
<1>4. BalanceReads
  BY <1>3 DEF BalanceReads
<1> QED
  BY <1>1, <1>4 DEF ReportsInv

LEMMA PaymentEndsKeeps ==
  ASSUME ReportsInv, NEW p \in Payment, NEW status \in {"COMPLETED", "FAILED"},
         PaymentEnds(p, status)
  PROVE  ReportsInv'
<1>1. ReportsTypeOK'
  BY DEF ReportsInv, ReportsTypeOK, PaymentEnds
<1>2. BalanceReads'
  BY DEF ReportsInv, BalanceReads, ReadsAre, PaymentEnds, IssuedTo, Issued
<1> QED
  BY <1>1, <1>2 DEF ReportsInv

\* No reward that has been issued becomes pending, and none is taken back.
LEMMA RewardStepKeeps ==
  ASSUME ReportsInv, NEW r \in Reward, NEW status \in AnyStatus,
         IssueReward(r, status) \/ ChangeReward(r, status)
  PROVE  ReportsInv'
<1>1. ReportsTypeOK'
  BY DEF ReportsInv, ReportsTypeOK, IssueReward, ChangeReward
<1>2. balance' = balance
  BY DEF IssueReward, ChangeReward
<1>3. Issued(AnyStatus) \subseteq Issued(AnyStatus)'
  BY DEF ReportsInv, ReportsTypeOK, IssueReward, ChangeReward, Issued, AnyStatus
<1>4. Issued(AnyStatus) \cap Issued({"PENDING"})' \subseteq Issued({"PENDING"})
  BY DEF ReportsInv, ReportsTypeOK, IssueReward, ChangeReward, Issued, AnyStatus
<1>5. PICK M \in SUBSET IssuedTo(Asker, AnyStatus), P \in SUBSET IssuedTo(Asker, AnyStatus) :
        ReadsAre(M, P)
  BY DEF ReportsInv, BalanceReads
<1>6. /\ M \in SUBSET IssuedTo(Asker, AnyStatus)' /\ P \in SUBSET IssuedTo(Asker, AnyStatus)'
      /\ M \cap IssuedTo(Asker, {"PENDING"})' = {}
  BY <1>3, <1>4, <1>5 DEF ReadsAre, IssuedTo
<1>7. ReadsAre(M, P)'
  BY <1>2, <1>5, <1>6 DEF ReadsAre
<1>8. BalanceReads'
  BY <1>6, <1>7 DEF BalanceReads
<1> QED
  BY <1>1, <1>8 DEF ReportsInv

LEMMA ReadBalanceKeeps == ASSUME ReportsInv, ReadBalance PROVE ReportsInv'
<1> DEFINE n == Len(balance)
           Mine(statuses) == IssuedTo(Asker, statuses)
           read == SumUp(Stars, Mine(Statements[n + 1]))
<1>1. /\ n \in Nat /\ n < 3 /\ balance \in Seq(Nat) /\ Len(Statements) = 3
      /\ balance' = Append(balance, read)
  BY DEF ReportsInv, ReportsTypeOK, ReadBalance, Statements
<1>2. read \in Nat
  BY IssuedToTyped, StarsGrow
<1> HIDE DEF read
<1>3. /\ Len(balance') = n + 1 /\ balance'[n + 1] = read
      /\ \A i \in 1 .. n : balance'[i] = balance[i]
  BY <1>1, <1>2
<1>4. ReportsTypeOK'
  BY <1>1, <1>2, <1>3 DEF ReportsInv, ReportsTypeOK, ReadBalance
<1>5. \A statuses : IssuedTo(Asker, statuses)' = IssuedTo(Asker, statuses)
  BY DEF ReadBalance, IssuedTo, Issued
<1>6. PICK M \in SUBSET Mine(AnyStatus), P \in SUBSET Mine(AnyStatus) : ReadsAre(M, P)
  BY DEF ReportsInv, BalanceReads
<1>7. BalanceReads'
  <2>1. CASE n = 0
    <3> DEFINE N == Mine({"MINTED"})
    <3>1. read = SumUp(Stars, N)
      BY <2>1 DEF read, Statements
    <3>2. N \in SUBSET Mine(AnyStatus) /\ N \cap Mine({"PENDING"}) = {}
      BY DEF IssuedTo, Issued, AnyStatus
    <3>3. Len(balance') = 1 /\ balance'[1] = SumUp(Stars, N)
      BY <1>3, <2>1, <3>1
    <3>4. ReadsAre(N, {})'
      BY <1>5, <3>2, <3>3 DEF ReadsAre
    <3> QED
      BY <1>5, <3>2, <3>4 DEF BalanceReads
  <2>2. CASE n = 1
    <3> DEFINE Q == Mine({"PENDING"})
    <3>1. read = SumUp(Stars, Q)
      BY <2>2 DEF read, Statements
    <3>2. Q \in SUBSET Mine(AnyStatus) /\ M \cap Q = {}
      BY <1>6 DEF ReadsAre, IssuedTo, Issued, AnyStatus
    <3>3. Len(balance') = 2 /\ balance'[1] = SumUp(Stars, M) /\ balance'[2] = SumUp(Stars, Q)
      BY <1>3, <1>6, <2>2, <3>1 DEF ReadsAre
    <3>4. ReadsAre(M, Q)'
      BY <1>5, <1>6, <3>2, <3>3 DEF ReadsAre
    <3> QED
      BY <1>5, <3>2, <3>4 DEF BalanceReads
  <2>3. CASE n = 2
    <3> DEFINE I == Mine(AnyStatus)
    <3>1. read = SumUp(Stars, I)
      BY <2>3 DEF read, Statements
    <3>2. /\ Len(balance') = 3 /\ balance'[1] = SumUp(Stars, M) /\ balance'[2] = SumUp(Stars, P)
          /\ balance'[3] = SumUp(Stars, I)
      BY <1>3, <1>6, <2>3, <3>1 DEF ReadsAre
    <3>3. SumUp(Stars, M) + SumUp(Stars, P) <= SumUp(Stars, I)
      <4>1. I \in SUBSET Reward
        BY IssuedToTyped
      <4>2. M \in SUBSET I /\ P \in SUBSET I /\ M \cap P = {} /\ M \cup P \in SUBSET I
        BY <1>6 DEF ReadsAre
      <4> HIDE DEF I
      <4>3. SumUp(Stars, M \cup P) = SumUp(Stars, M) + SumUp(Stars, P)
        BY <4>1, <4>2, StarsOfTwo
      <4>4. SumUp(Stars, M \cup P) <= SumUp(Stars, I)
        BY <4>1, <4>2, StarsGrow
      <4> QED
        BY <4>3, <4>4
    <3>4. ReadsAre(M, P)'
      BY <1>5, <1>6, <3>2, <3>3 DEF ReadsAre
    <3> QED
      BY <1>5, <1>6, <3>4 DEF BalanceReads
  <2>4. n = 0 \/ n = 1 \/ n = 2
    <3>1. \A k \in Nat : k < 3 => k = 0 \/ k = 1 \/ k = 2
      OBVIOUS
    <3> QED
      BY <1>1, <3>1
  <2> QED
    BY <2>1, <2>2, <2>3, <2>4
<1> QED
  BY <1>4, <1>7 DEF ReportsInv

LEMMA ReportsStepInv == ReportsInv /\ [ReportsNext]_reportVars => ReportsInv'
<1> SUFFICES ASSUME ReportsInv, [ReportsNext]_reportVars PROVE ReportsInv'
  OBVIOUS
<1>1. CASE \E p \in Payment, status \in {"COMPLETED", "FAILED"} : PaymentEnds(p, status)
  BY <1>1, PaymentEndsKeeps
<1>2. CASE \E r \in Reward, status \in AnyStatus :
             IssueReward(r, status) \/ ChangeReward(r, status)
  BY <1>2, RewardStepKeeps
<1>3. CASE ReadBalance
  BY <1>3, ReadBalanceKeeps
<1>4. CASE UNCHANGED reportVars
  BY <1>4 DEF ReportsInv, ReportsTypeOK, BalanceReads, ReadsAre, IssuedTo, Issued, reportVars
<1> QED
  BY <1>1, <1>2, <1>3, <1>4 DEF ReportsNext

LEMMA PaidToTyped == ASSUME NEW m PROVE PaidTo(m) \in SUBSET Payment
BY DEF PaidTo

\* The days of the revenue series add up to the recent payments, which are some
\* of the dashboard's, and these some of the merchant's.
LEMMA RevenueAddsUp ==
  ASSUME NEW m
  PROVE  LET revenue == RevenueMetrics(m)  series == revenue.series
         IN /\ AddUp(series.volume) = revenue.volume /\ AddUp(series.count) = revenue.count
            /\ \A d \in DOMAIN series.count : series.usdc[d] + series.xlm[d] <= series.count[d]
            /\ revenue.volume <= DashboardMetrics(m).volume
            /\ DashboardMetrics(m).volume <= MerchantAnalytics(m).revenue
<1> DEFINE all == Completed \cap PaidTo(m)
           recent == {p \in all : Bill[p].created >= ThirtyDaysAgo}
           days == GroupedBy(Day, recent)
           ComeIn(d, asset) == {p \in days[d] : AssetIn[p] = asset}
           revenue == RevenueMetrics(m)
<1>1. /\ recent \in SUBSET all /\ all \in SUBSET PaidTo(m) /\ all \in SUBSET Payment
      /\ recent \in SUBSET Payment /\ PaidTo(m) \in SUBSET Payment
  BY CompletedTyped, PaidToTyped
<1>2. IsFiniteSet(recent)
  BY <1>1, TablesFinite, FS_Subset
<1>3. /\ revenue.volume = SumUp(Paise, recent) /\ revenue.count = Cardinality(recent)
      /\ revenue.series.volume = SumsOf(Paise, days) /\ revenue.series.count = CountsOf(days)
  BY DEF RevenueMetrics
<1>4. /\ \A d \in DOMAIN days : revenue.series.usdc[d] = Cardinality(ComeIn(d, "USDC"))
      /\ \A d \in DOMAIN days : revenue.series.xlm[d] = Cardinality(ComeIn(d, "XLM"))
  BY DEF RevenueMetrics
<1>5. \A p \in recent : Paise[p] \in Nat
  BY <1>1, AmountsTyped
<1>6. ASSUME NEW d \in DOMAIN revenue.series.count
      PROVE  revenue.series.usdc[d] + revenue.series.xlm[d] <= revenue.series.count[d]
  <2>1. d \in DOMAIN days
    BY <1>3, <1>6 DEF CountsOf
  <2>2. revenue.series.count[d] = Cardinality(days[d]) /\ days[d] \in SUBSET recent
    BY <1>3, <2>1 DEF CountsOf, GroupedBy
  <2> DEFINE A == ComeIn(d, "USDC")
             B == ComeIn(d, "XLM")
             D == days[d]
  <2>3. IsFiniteSet(D)
    BY <1>2, <2>2, FS_Subset
  <2>4. A \in SUBSET D /\ B \in SUBSET D /\ A \cup B \in SUBSET D /\ A \cap B = {}
    OBVIOUS
  <2>5. revenue.series.usdc[d] = Cardinality(A) /\ revenue.series.xlm[d] = Cardinality(B)
    BY <1>4, <2>1
  <2> HIDE DEF A, B, D
  <2>6. IsFiniteSet(A) /\ IsFiniteSet(B) /\ IsFiniteSet(A \cup B)
    BY <2>3, <2>4, FS_Subset
  <2>7. Cardinality(A \cup B) = Cardinality(A) + Cardinality(B) - Cardinality(A \cap B)
    BY <2>6, FS_Union
  <2>8. Cardinality(A \cap B) = 0 /\ Cardinality(A \cup B) <= Cardinality(D)
    BY <2>3, <2>4, FS_EmptySet, FS_Subset
  <2>9. Cardinality(A) \in Nat /\ Cardinality(B) \in Nat /\ Cardinality(D) \in Nat
    BY <2>3, <2>6, FS_CardinalityType
  <2>10. Cardinality(A) + Cardinality(B) <= Cardinality(D)
    BY <2>7, <2>8, <2>9
  <2> QED
    BY <2>2, <2>5, <2>10 DEF D
<1>7. /\ DashboardMetrics(m).volume = SumUp(Paise, all)
      /\ MerchantAnalytics(m).revenue = SumUp(Paise, PaidTo(m))
  BY DEF DashboardMetrics, MerchantAnalytics
<1> HIDE DEF all, recent, days, revenue
<1>8. AddUp(SumsOf(Paise, GroupedBy(Day, recent))) = SumUp(Paise, recent)
  BY <1>2, <1>5, GroupedSum
<1>9. AddUp(CountsOf(GroupedBy(Day, recent))) = Cardinality(recent)
  BY <1>2, GroupedCount
<1>10. SumUp(Paise, recent) <= SumUp(Paise, all)
  BY <1>1, PaiseGrow
<1>11. SumUp(Paise, all) <= SumUp(Paise, PaidTo(m))
  BY <1>1, PaiseGrow
<1>12. /\ AddUp(revenue.series.volume) = revenue.volume
       /\ AddUp(revenue.series.count) = revenue.count
  BY <1>3, <1>8, <1>9 DEF days
<1> QED
  BY <1>3, <1>6, <1>7, <1>10, <1>11, <1>12 DEF revenue

LEMMA MerchantsAddUp ==
  AddUp([m \in MerchantsPaid |-> DashboardMetrics(m).volume]) = DashboardMetrics("any").volume
<1> DEFINE f == [m \in MerchantsPaid |-> DashboardMetrics(m).volume]
           h == [p \in Payment |-> Bill[p].merchant]
<1>1. DOMAIN f = MerchantsPaid /\ MerchantsPaid = {h[p] : p \in Payment}
  BY DEF MerchantsPaid
<1>2. IsFiniteSet(DOMAIN f)
  <2> HIDE DEF h
  <2>1. IsFiniteSet({h[x] : x \in Payment})
    BY TablesFinite, KeysFinite
  <2> QED
    BY <1>1, <2>1
<1>3. \A m \in MerchantsPaid : f[m] = SumUp(Paise, {p \in Completed : h[p] = m})
  <2> SUFFICES ASSUME NEW m \in MerchantsPaid
               PROVE  f[m] = SumUp(Paise, {p \in Completed : h[p] = m})
    OBVIOUS
  <2>1. m # "any"
    BY ReportsAssumption DEF ReportsAssumption, MerchantsPaid
  <2>2. Completed \cap PaidTo(m) = {p \in Completed : h[p] = m}
    BY <2>1, CompletedTyped DEF PaidTo
  <2>3. f[m] = SumUp(Paise, Completed \cap PaidTo(m))
    BY DEF DashboardMetrics
  <2> QED
    BY <2>2, <2>3
<1>4. \A p \in Completed : Paise[p] \in Nat /\ h[p] \in MerchantsPaid
  BY CompletedTyped, AmountsTyped DEF MerchantsPaid
<1>5. DashboardMetrics("any").volume = SumUp(Paise, Completed)
  <2>1. Completed \cap PaidTo("any") = Completed
    BY CompletedTyped DEF PaidTo
  <2> QED
    BY <2>1 DEF DashboardMetrics
<1> HIDE DEF f, h
<1>6. AddUp(f) = SumUp(Paise, Completed)
  BY <1>1, <1>2, <1>3, <1>4, CompletedTyped, GroupsAddUp
<1> QED
  BY <1>5, <1>6 DEF f

\* The months and the assets of a tax report add up to its summary.
LEMMA TaxAddsUp ==
  ASSUME NEW u, NEW year
  PROVE  LET tax == TaxReport(u, year)
         IN /\ AddUp(tax.byMonth.paise) = tax.summary.paise
            /\ AddUp(tax.byMonth.count) = tax.summary.count
            /\ AddUp(tax.byMonth.stars) = tax.summary.stars
            /\ AddUp(tax.byAsset.paise) = tax.summary.paise
            /\ AddUp(tax.byAsset.count) = tax.summary.count
<1> DEFINE mine == {p \in Completed : Bill[p].user = u /\ Bill[p].year = year}
           asset == GroupedBy(AssetIn, mine)
           month == GroupedBy(Month, mine)
           tax == TaxReport(u, year)
<1>1. mine \in SUBSET Payment /\ IsFiniteSet(mine)
  <2>1. mine \in SUBSET Payment
    BY CompletedTyped
  <2> QED
    BY <2>1, TablesFinite, FS_Subset
<1>2. \A p \in mine : Paise[p] \in Nat /\ StarRewards[p] \in Nat
  <2> SUFFICES ASSUME NEW p \in Payment PROVE Paise[p] \in Nat /\ StarRewards[p] \in Nat
    BY <1>1
  <2> DEFINE S == {r \in Issued(AnyStatus) : Award[r].payment = p}
  <2>1. S \in SUBSET Reward
    BY IssuedTyped
  <2>2. StarRewards[p] = SumUp(Stars, S)
    BY DEF StarRewards
  <2> HIDE DEF S
  <2> QED
    BY <2>1, <2>2, AmountsTyped, StarsGrow
<1>3. /\ tax.summary = [count |-> Cardinality(mine), paise |-> SumUp(Paise, mine),
                        stars |-> SumUp(StarRewards, mine)]
      /\ tax.byAsset = [count |-> CountsOf(asset), paise |-> SumsOf(Paise, asset)]
      /\ tax.byMonth = [count |-> CountsOf(month), paise |-> SumsOf(Paise, month),
                        stars |-> SumsOf(StarRewards, month)]
  BY DEF TaxReport
<1> HIDE DEF mine, tax
<1>4. /\ AddUp(SumsOf(Paise, GroupedBy(Month, mine))) = SumUp(Paise, mine)
      /\ AddUp(SumsOf(Paise, GroupedBy(AssetIn, mine))) = SumUp(Paise, mine)
  BY <1>1, <1>2, GroupedSum
<1>5. AddUp(SumsOf(StarRewards, GroupedBy(Month, mine))) = SumUp(StarRewards, mine)
  BY <1>1, <1>2, GroupedSum
<1>6. /\ AddUp(CountsOf(GroupedBy(Month, mine))) = Cardinality(mine)
      /\ AddUp(CountsOf(GroupedBy(AssetIn, mine))) = Cardinality(mine)
  BY <1>1, GroupedCount
<1>7. /\ AddUp(tax.byMonth.paise) = tax.summary.paise
      /\ AddUp(tax.byMonth.count) = tax.summary.count
      /\ AddUp(tax.byMonth.stars) = tax.summary.stars
      /\ AddUp(tax.byAsset.paise) = tax.summary.paise
      /\ AddUp(tax.byAsset.count) = tax.summary.count
  BY <1>3, <1>4, <1>5, <1>6
<1> QED
  BY <1>7 DEF tax

\* Every completed payment is in the report of one user and one year.
LEMMA TaxReportsCover ==
  AddUp([of \in Users \X Years |-> TaxReport(of[1], of[2]).summary.paise])
    = DashboardMetrics("any").volume
<1> DEFINE f == [of \in Users \X Years |-> TaxReport(of[1], of[2]).summary.paise]
           h == [p \in Payment |-> <<Bill[p].user, Bill[p].year>>]
           K == Users \X Years
<1>1. IsFiniteSet(Users) /\ IsFiniteSet(Years)
  <2> DEFINE user == [p \in Payment |-> Bill[p].user]
             of == [p \in Payment |-> Bill[p].year]
  <2>1. Users = {user[p] : p \in Payment} /\ Years = {of[p] : p \in Payment}
    BY DEF Users, Years
  <2> HIDE DEF user, of
  <2> QED
    BY <2>1, TablesFinite, KeysFinite
<1>2. DOMAIN f = K /\ IsFiniteSet(K)
  BY <1>1, FS_Product
<1>3. \A k \in K : f[k] = SumUp(Paise, {p \in Completed : h[p] = k})
  <2> SUFFICES ASSUME NEW k \in K PROVE f[k] = SumUp(Paise, {p \in Completed : h[p] = k})
    OBVIOUS
  <2> DEFINE u == k[1]
             year == k[2]
  <2>0. k = <<u, year>>
    OBVIOUS
  <2>1. {p \in Completed : Bill[p].user = u /\ Bill[p].year = year}
          = {p \in Completed : h[p] = k}
    BY <2>0, CompletedTyped
  <2>2. f[k] = TaxReport(u, year).summary.paise
    OBVIOUS
  <2>3. TaxReport(u, year).summary.paise
          = SumUp(Paise, {p \in Completed : Bill[p].user = u /\ Bill[p].year = year})
    BY DEF TaxReport
  <2> QED
    BY <2>1, <2>2, <2>3
<1>4. \A p \in Completed : Paise[p] \in Nat /\ h[p] \in K
  BY CompletedTyped, AmountsTyped DEF Users, Years
<1>5. DashboardMetrics("any").volume = SumUp(Paise, Completed)
  <2>1. Completed \cap PaidTo("any") = Completed
    BY CompletedTyped DEF PaidTo
  <2> QED
    BY <2>1 DEF DashboardMetrics
<1> HIDE DEF f, h, K
<1>6. AddUp(f) = SumUp(Paise, Completed)
  BY <1>2, <1>3, <1>4, CompletedTyped, GroupsAddUp
<1> QED
  BY <1>5, <1>6 DEF f

LEMMA ReasonsFinite == IsFiniteSet(Reasons)
<1>1. /\ IsFiniteSet({"SPEND"}) /\ IsFiniteSet({"REFERRAL"}) /\ IsFiniteSet({"CAMPAIGN"})
      /\ IsFiniteSet({"MERCHANT"})
  BY FS_Singleton
<1>2. IsFiniteSet({"SPEND"} \cup {"REFERRAL"}) /\ IsFiniteSet({"CAMPAIGN"} \cup {"MERCHANT"})
  BY <1>1, FS_Union
<1>3. IsFiniteSet(({"SPEND"} \cup {"REFERRAL"}) \cup ({"CAMPAIGN"} \cup {"MERCHANT"}))
  BY <1>2, FS_Union
<1>4. Reasons = ({"SPEND"} \cup {"REFERRAL"}) \cup ({"CAMPAIGN"} \cup {"MERCHANT"})
  BY DEF Reasons
<1> QED
  BY <1>3, <1>4

\* The reasons of S add up to S.
LEMMA ReasonsAddUp ==
  ASSUME NEW S \in SUBSET Reward, NEW f, DOMAIN f = Reasons,
         \A reason \in Reasons : f[reason] = SumUp(Stars, {r \in S : Reason[r] = reason})
  PROVE  AddUp(f) = SumUp(Stars, S)
<1>1. \A r \in S : Stars[r] \in Nat /\ Reason[r] \in DOMAIN f
  BY AmountsTyped, ReportsAssumption DEF ReportsAssumption, Reason
<1>2. IsFiniteSet(S) /\ IsFiniteSet(DOMAIN f)
  BY TablesFinite, FS_Subset, ReasonsFinite
<1> QED
  BY <1>1, <1>2, GroupsAddUp

\* The groups of the reward metrics, seen whole, by reason and by campaign.
LEMMA RewardMetricsAre ==
  ASSUME NEW m
  PROVE  /\ RewardMetrics(m).total = SumUp(Stars, MintedFor(m))
         /\ DOMAIN RewardMetrics(m).byReason = Reasons
         /\ \A reason \in Reasons :
              RewardMetrics(m).byReason[reason] = SumUp(Stars, {r \in MintedFor(m) : Reason[r] = reason})
         /\ \A c \in DOMAIN RewardMetrics(m).campaign :
              RewardMetrics(m).campaign[c] = SumUp(Stars, {r \in MintedFor(m) : Award[r].campaign = c})
<1> DEFINE S == MintedFor(m)
           key == ReasonAndCampaign
           sums == SumsOf(Stars, GroupedBy(key, S))
           K == {key[r] : r \in S}
<1>1. S \in SUBSET Reward /\ IsFiniteSet(S)
  <2>1. S \in SUBSET Reward
    BY IssuedTyped DEF MintedFor, Minted
  <2> QED
    BY <2>1, TablesFinite, FS_Subset
<1>2. \A r \in S : Stars[r] \in Nat
  BY <1>1, AmountsTyped
<1>3. DOMAIN sums = K
  BY DEF SumsOf, GroupedBy
<1>4. \A r \in S : key[r] = <<Award[r].reason, Award[r].campaign>> /\ Reason[r] = Award[r].reason
  BY <1>1 DEF ReasonAndCampaign, Reason
<1>5. /\ RewardMetrics(m).total = AddUp(sums)
      /\ RewardMetrics(m).byReason
           = [reason \in Reasons |-> SumUp(sums, {k \in DOMAIN sums : k[1] = reason})]
      /\ RewardMetrics(m).campaign
           = [c \in {k[2] : k \in DOMAIN sums} \ {"none"} |->
                SumUp(sums, {k \in DOMAIN sums : k[2] = c})]
  BY DEF RewardMetrics
<1> HIDE DEF key
<1>6. AddUp(sums) = SumUp(Stars, S)
  BY <1>1, <1>2, GroupedSum
<1>7. ASSUME NEW J, J \in SUBSET K
      PROVE  SumUp(sums, J) = SumUp(Stars, {r \in S : key[r] \in J})
  BY <1>1, <1>2, <1>7, GroupsWithin
<1> HIDE DEF sums
<1>8. ASSUME NEW reason
      PROVE  SumUp(sums, {k \in DOMAIN sums : k[1] = reason})
               = SumUp(Stars, {r \in S : Reason[r] = reason})
  <2> DEFINE J == {k \in DOMAIN sums : k[1] = reason}
  <2>1. J \in SUBSET K
    BY <1>3
  <2>2. {r \in S : key[r] \in J} = {r \in S : Reason[r] = reason}
    BY <1>3, <1>4
  <2> HIDE DEF J
  <2> QED
    BY <1>7, <2>1, <2>2 DEF J
<1>9. ASSUME NEW c
      PROVE  SumUp(sums, {k \in DOMAIN sums : k[2] = c})
               = SumUp(Stars, {r \in S : Award[r].campaign = c})
  <2> DEFINE J == {k \in DOMAIN sums : k[2] = c}
  <2>1. J \in SUBSET K
    BY <1>3
  <2>2. {r \in S : key[r] \in J} = {r \in S : Award[r].campaign = c}
    BY <1>3, <1>4
  <2> HIDE DEF J
  <2> QED
    BY <1>7, <2>1, <2>2 DEF J
<1>10. /\ DOMAIN RewardMetrics(m).byReason = Reasons
       /\ \A reason \in Reasons :
            RewardMetrics(m).byReason[reason] = SumUp(Stars, {r \in S : Reason[r] = reason})
  <2> HIDE DEF S
  <2>1. /\ DOMAIN RewardMetrics(m).byReason = Reasons
        /\ \A reason \in Reasons : RewardMetrics(m).byReason[reason]
                                     = SumUp(sums, {k \in DOMAIN sums : k[1] = reason})
    BY <1>5
  <2> QED
    BY <1>8, <2>1
<1>11. \A c \in DOMAIN RewardMetrics(m).campaign :
         RewardMetrics(m).campaign[c] = SumUp(Stars, {r \in S : Award[r].campaign = c})
  <2> HIDE DEF S
  <2>1. \A c \in DOMAIN RewardMetrics(m).campaign :
          RewardMetrics(m).campaign[c] = SumUp(sums, {k \in DOMAIN sums : k[2] = c})
    BY <1>5
  <2> QED
    BY <1>9, <2>1
<1> QED
  BY <1>5, <1>6, <1>10, <1>11

\* A merchant's rewards are some of the minted ones, and of those it issued.
LEMMA MerchantStars ==
  ASSUME NEW m
  PROVE  /\ AddUp(RewardMetrics(m).byReason) = RewardMetrics(m).total
         /\ RewardMetrics(m).total <= DashboardMetrics(m).minted
         /\ m # "any" => RewardMetrics(m).total <= MerchantAnalytics(m).issued
<1> DEFINE S == MintedFor(m)
           T == {r \in Issued(AnyStatus) : Award[r].payment \in PaidTo(m)}
<1>1. S \in SUBSET Minted /\ Minted \in SUBSET Reward /\ S \in SUBSET Reward
  BY IssuedTyped DEF MintedFor, Minted
<1>2. T \in SUBSET Reward /\ (m # "any" => S \in SUBSET T)
  BY IssuedTyped DEF MintedFor, Minted, Issued, AnyStatus
<1>3. /\ DashboardMetrics(m).minted = SumUp(Stars, Minted)
      /\ MerchantAnalytics(m).issued = SumUp(Stars, T)
  BY DEF DashboardMetrics, MerchantAnalytics
<1>4. /\ RewardMetrics(m).total = SumUp(Stars, S)
      /\ DOMAIN RewardMetrics(m).byReason = Reasons
      /\ \A reason \in Reasons :
           RewardMetrics(m).byReason[reason] = SumUp(Stars, {r \in S : Reason[r] = reason})
  BY RewardMetricsAre
<1> HIDE DEF S, T
<1>5. AddUp(RewardMetrics(m).byReason) = SumUp(Stars, S)
  BY <1>1, <1>4, ReasonsAddUp
<1>6. SumUp(Stars, S) <= SumUp(Stars, Minted)
  BY <1>1, StarsGrow
<1>7. m # "any" => SumUp(Stars, S) <= SumUp(Stars, T)
  BY <1>2, StarsGrow
<1> QED
  BY <1>3, <1>4, <1>5, <1>6, <1>7

\* Without a merchant, they are all the minted ones, those of a campaign too.
LEMMA AllStars ==
  /\ RewardMetrics("any").total = Overview.minted
  /\ \A c \in DOMAIN RewardMetrics("any").campaign :
       RewardMetrics("any").campaign[c] = CampaignAnalytics(c).distributed
<1>1. MintedFor("any") = Minted
  BY DEF MintedFor
<1>2. /\ RewardMetrics("any").total = SumUp(Stars, Minted)
      /\ \A c \in DOMAIN RewardMetrics("any").campaign :
           RewardMetrics("any").campaign[c] = SumUp(Stars, {r \in Minted : Award[r].campaign = c})
  BY <1>1, RewardMetricsAre
<1> QED
  BY <1>2 DEF Overview, CampaignAnalytics

\* A user's rewards add up by reason and by month, and those of all users to
\* the minted ones.
LEMMA ConsumerAddsUp ==
  ASSUME NEW u
  PROVE  /\ AddUp(ConsumerRewardMetrics(u).byReason) = ConsumerRewardMetrics(u).total
         /\ AddUp(ConsumerRewardMetrics(u).months) = ConsumerRewardMetrics(u).total
<1> DEFINE S == IssuedTo(u, {"MINTED"})
           mine == ConsumerRewardMetrics(u)
<1>1. S \in SUBSET Reward /\ IsFiniteSet(S)
  BY IssuedToTyped, TablesFinite, FS_Subset
<1>2. \A r \in S : Stars[r] \in Nat
  BY <1>1, AmountsTyped
<1>3. /\ mine.total = SumUp(Stars, S)
      /\ mine.months = SumsOf(Stars, GroupedBy(EarnedIn, S))
      /\ mine.byReason
           = [reason \in Reasons |-> SumUp(Stars, {r \in S : Reason[r] = reason})]
  BY DEF ConsumerRewardMetrics
<1>4. /\ DOMAIN mine.byReason = Reasons
      /\ \A reason \in Reasons : mine.byReason[reason] = SumUp(Stars, {r \in S : Reason[r] = reason})
  BY <1>3
<1> HIDE DEF S, mine
<1>5. AddUp(mine.byReason) = SumUp(Stars, S)
  BY <1>1, <1>4, ReasonsAddUp
<1>6. AddUp(mine.months) = SumUp(Stars, S)
  BY <1>1, <1>2, <1>3, GroupedSum
<1> QED
  BY <1>3, <1>5, <1>6 DEF mine

LEMMA HoldersAddUp ==
  AddUp([u \in Holders |-> ConsumerRewardMetrics(u).total]) = Overview.minted
<1> DEFINE f == [u \in Holders |-> ConsumerRewardMetrics(u).total]
           h == [r \in Reward |-> Award[r].user]
<1>1. DOMAIN f = Holders /\ Holders = {h[r] : r \in Reward}
  BY DEF Holders
<1>2. IsFiniteSet(DOMAIN f)
  <2> HIDE DEF h
  <2>1. IsFiniteSet({h[x] : x \in Reward})
    BY TablesFinite, KeysFinite
  <2> QED
    BY <1>1, <2>1
<1>3. \A u \in Holders : f[u] = SumUp(Stars, {r \in Minted : h[r] = u})
  <2> SUFFICES ASSUME NEW u \in Holders PROVE f[u] = SumUp(Stars, {r \in Minted : h[r] = u})
    OBVIOUS
  <2>1. IssuedTo(u, {"MINTED"}) = {r \in Minted : h[r] = u}
    BY IssuedTyped DEF IssuedTo, Minted
  <2>2. f[u] = SumUp(Stars, IssuedTo(u, {"MINTED"}))
    BY DEF ConsumerRewardMetrics
  <2> QED
    BY <2>1, <2>2
<1>4. IsFiniteSet(Minted) /\ \A r \in Minted : Stars[r] \in Nat /\ h[r] \in Holders
  BY IssuedTyped, AmountsTyped DEF Minted, Holders
<1> HIDE DEF f, h
<1>5. AddUp(f) = SumUp(Stars, Minted)
  BY <1>1, <1>2, <1>3, <1>4, GroupsAddUp
<1> QED
  BY <1>5 DEF f, Overview

LEMMA InvGivesReports == ReportsInv => ReportsAgree
<1> SUFFICES ASSUME ReportsInv PROVE ReportsAgree
  OBVIOUS
<1>1. Len(balance) = 3 => balance[1] + balance[2] <= balance[3]
  BY DEF ReportsInv, BalanceReads, ReadsAre
<1>2. RevenueAgrees
  BY RevenueAddsUp, MerchantsAddUp DEF RevenueAgrees
<1>3. TaxAgrees
  BY TaxAddsUp, TaxReportsCover DEF TaxAgrees
<1>4. StarsAgree
  BY MerchantStars, AllStars, ConsumerAddsUp, HoldersAddUp DEF StarsAgree
<1> QED
  BY <1>1, <1>2, <1>3, <1>4 DEF ReportsAgree

\* A balance never counts a reward twice, and the reports that count the same
\* thing in different ways agree, whatever the rows say and however many there
\* are.
THEOREM ReportsAlwaysAgree == ReportsSpec => []ReportsAgree
<1>1. ReportsSpec => []ReportsInv
  BY ReportsInitInv, ReportsStepInv, PTL DEF ReportsSpec
<1> QED
  BY <1>1, InvGivesReports, PTL

-----------------------------------------------------------------------------
(* Screenings                                                              *)

\* Integers of HashBits bits count modulo 2^HashBits.
Modulus == 2^HashBits
Half == 2^(HashBits - 1)
Same(a, b) == \E q \in Int : a = b + q * Modulus

\* 2^n counts the subsets of n things.
LEMMA PowerTyped == ASSUME NEW n \in Nat PROVE 2^n \in Nat \ {0}
<1> DEFINE S == 1 .. n
<1>1. IsFiniteSet(S) /\ Cardinality(S) = n
  BY FS_Interval
<1> HIDE DEF S
<1>2. IsFiniteSet(SUBSET S) /\ Cardinality(SUBSET S) = 2^n
  BY <1>1, FS_SUBSET
<1>3. SUBSET S # {}
  OBVIOUS
<1> QED
  BY <1>2, <1>3, FS_CardinalityType, FS_EmptySet

LEMMA ModulusTyped == Modulus \in Nat \ {0} /\ Half \in Nat
<1>1. HashBits \in Nat /\ HashBits - 1 \in Nat
  BY AmlAssumption
<1> QED
  BY <1>1, PowerTyped DEF Modulus, Half

\* Division leaves a remainder below the divisor.
LEMMA Divides ==
  ASSUME NEW m \in Nat \ {0}, NEW a \in Int
  PROVE  a % m \in 0 .. m - 1 /\ \E q \in Int : a = q * m + (a % m)
<1>1. a \div m \in Int /\ a % m \in Int /\ 0 <= a % m /\ a % m < m
  OBVIOUS
<1>2. a = (a \div m) * m + (a % m)
  OBVIOUS
<1>3. a % m \in 0 .. m - 1
  BY <1>1
<1>4. \E q \in Int : a = q * m + (a % m)
  BY <1>1, <1>2
<1> QED
  BY <1>3, <1>4

\* Cutting changes a number by a multiple of the modulus.
LEMMA ToIntTyped ==
  ASSUME NEW n \in Int
  PROVE  ToInt(n) \in Int /\ Same(ToInt(n), n)
<1>1. ToInt(n) = ((n + Half) % Modulus) - Half
  BY DEF ToInt, Half, Modulus
<1>2. n + Half \in Int
  BY ModulusTyped
<1>3. PICK q \in Int : n + Half = q * Modulus + ((n + Half) % Modulus)
  BY <1>2, ModulusTyped, Divides
<1>4. (n + Half) % Modulus \in Int
  BY <1>2, ModulusTyped, Divides
<1>5. ToInt(n) = n + (-q) * Modulus
  <2>1. (-q) * Modulus = -(q * Modulus) /\ q * Modulus \in Int
    BY ModulusTyped
  <2> QED
    BY <1>1, <1>2, <1>3, <1>4, <2>1, ModulusTyped
<1>6. ToInt(n) \in Int
  BY <1>1, <1>4, ModulusTyped
<1>7. -q \in Int
  OBVIOUS
<1> QED
  BY <1>5, <1>6, <1>7 DEF Same

\* Remainders that differ by a multiple are the same.
LEMMA Remainders ==
  ASSUME NEW m \in Nat \ {0}, NEW r \in 0 .. m - 1, NEW s \in 0 .. m - 1,
         NEW k \in Int, r = s + k * m
  PROVE  r = s
<1>1. CASE k = 0
  BY <1>1
<1>2. CASE k >= 1
  <2>1. (k - 1) * m >= 0 /\ k * m = (k - 1) * m + m
    BY <1>2
  <2> QED
    BY <2>1
<1>3. CASE k <= -1
  <2>1. ((-k) - 1) * m >= 0 /\ k * m = -(((-k) - 1) * m) - m
    BY <1>3
  <2> QED
    BY <2>1
<1> QED
  BY <1>1, <1>2, <1>3

\* Numbers that differ by a multiple are cut to the same.
LEMMA SameIsCut ==
  ASSUME NEW a \in Int, NEW b \in Int, Same(a, b)
  PROVE  ToInt(a) = ToInt(b)
<1>0. a + Half \in Int /\ b + Half \in Int
  BY ModulusTyped
<1>1. PICK q \in Int : a = b + q * Modulus
  BY DEF Same
<1>2. PICK j \in Int : a + Half = j * Modulus + ((a + Half) % Modulus)
  BY <1>0, ModulusTyped, Divides
<1>3. PICK k \in Int : b + Half = k * Modulus + ((b + Half) % Modulus)
  BY <1>0, ModulusTyped, Divides
<1> DEFINE r == (a + Half) % Modulus
           s == (b + Half) % Modulus
<1>4. r \in 0 .. Modulus - 1 /\ s \in 0 .. Modulus - 1
  BY <1>0, ModulusTyped, Divides
<1> HIDE DEF r, s
<1>5. r = s + ((k + q) - j) * Modulus
  <2>1. a + Half = j * Modulus + r /\ b + Half = k * Modulus + s
    BY <1>2, <1>3 DEF r, s
  <2>2. ((k + q) - j) * Modulus = (k * Modulus + q * Modulus) - j * Modulus
    BY ModulusTyped
  <2>3. k * Modulus \in Int /\ q * Modulus \in Int /\ j * Modulus \in Int
    BY ModulusTyped
  <2>4. r \in Int /\ s \in Int
    BY <1>4, ModulusTyped
  <2> QED
    BY <1>1, <2>1, <2>2, <2>3, <2>4, ModulusTyped
<1>6. r = s
  <2>1. (k + q) - j \in Int
    OBVIOUS
  <2> QED
    BY <1>4, <1>5, <2>1, ModulusTyped, Remainders
<1> QED
  BY <1>6 DEF r, s, ToInt, Half, Modulus

\* A number that is computed step by step, n times.
Computes(it, step, n) ==
  it = [k \in 0 .. n |-> IF k = 0 THEN 0 ELSE step[k][it[k - 1]]]

\* Of what goes wrong between 0 and n there is a first.
LEMMA Earliest ==
  ASSUME NEW n \in Nat, NEW T \in SUBSET (0 .. n), T # {}
  PROVE  \E m \in T : m = 0 \/ m - 1 \notin T
<1> DEFINE below == [m \in T |-> 1 .. m]
           cuts == {below[m] : m \in T}
           S == 1 .. n
<1>1. IsFiniteSet(S) /\ cuts \in SUBSET (SUBSET S) /\ cuts # {}
  <2>1. IsFiniteSet(S)
    BY FS_Interval
  <2>2. \A m \in T : below[m] \in SUBSET S
    <3> SUFFICES ASSUME NEW m \in T PROVE below[m] \in SUBSET S
      OBVIOUS
    <3>1. m \in 0 .. n
      OBVIOUS
    <3>2. \A i \in 1 .. m : i \in 1 .. n
      BY <3>1
    <3> QED
      BY <3>2
  <2> HIDE DEF below, S
  <2>3. cuts # {}
    OBVIOUS
  <2> QED
    BY <2>1, <2>2, <2>3
<1> HIDE DEF cuts, S
<1>2. PICK s \in cuts : \A u \in SUBSET s : u # s => u \notin cuts
  BY <1>1, SmallestSubset
<1>3. PICK m \in T : s = below[m]
  BY <1>2 DEF cuts
<1>4. CASE m # 0 /\ m - 1 \in T
  <2>1. m \in Nat /\ 1 .. m - 1 \in SUBSET (1 .. m) /\ 1 .. m - 1 # 1 .. m
    <3>1. m \in 1 .. m /\ m \notin 1 .. m - 1 /\ m \in Nat
      BY <1>4
    <3>2. \A i \in 1 .. m - 1 : i \in 1 .. m
      BY <3>1
    <3> QED
      BY <3>1, <3>2
  <2>2. below[m - 1] = 1 .. m - 1 /\ below[m - 1] \in cuts
    BY <1>4 DEF cuts
  <2> QED
    BY <1>2, <1>3, <2>1, <2>2
<1> QED
  BY <1>4

LEMMA Neighbours ==
  ASSUME NEW n \in Nat \ {0}
  PROVE  /\ n - 1 \in 0 .. n - 1 /\ n - 1 \in 0 .. n /\ n \in 0 .. n /\ n - 1 # n
         /\ \A k \in 0 .. n : k # n => k \in 0 .. n - 1
         /\ \A k \in 0 .. n : k # 0 => k - 1 \in 0 .. n /\ k - 1 # n
OBVIOUS

\* What can be computed in n - 1 steps can be in n, hence in any number of them.
LEMMA ComputesOneMore ==
  ASSUME NEW n \in Nat \ {0}, NEW step, step[n] \in [Int -> Int],
         NEW it \in [0 .. n - 1 -> Int], Computes(it, step, n - 1)
  PROVE  \E more \in [0 .. n -> Int] : Computes(more, step, n)
<1> DEFINE next == step[n][it[n - 1]]
           more == [k \in 0 .. n |-> IF k = n THEN next ELSE it[k]]
<1>1. next \in Int
  BY Neighbours
<1> HIDE DEF next
<1>2. more \in [0 .. n -> Int]
  BY <1>1, Neighbours
<1>3. \A k \in 0 .. n - 1 : it[k] = IF k = 0 THEN 0 ELSE step[k][it[k - 1]]
  BY DEF Computes
<1>4. \A k \in 0 .. n : more[k] = IF k = 0 THEN 0 ELSE step[k][more[k - 1]]
  <2> SUFFICES ASSUME NEW k \in 0 .. n
               PROVE  more[k] = IF k = 0 THEN 0 ELSE step[k][more[k - 1]]
    OBVIOUS
  <2>1. CASE k = n
    <3>1. more[n] = next
      BY Neighbours
    <3>2. more[n - 1] = it[n - 1]
      BY Neighbours
    <3> QED
      BY <2>1, <3>1, <3>2 DEF next
  <2>2. CASE k # n /\ k # 0
    <3>1. k \in 0 .. n - 1 /\ k - 1 \in 0 .. n /\ k - 1 # n
      BY <2>2, Neighbours
    <3>2. more[k] = it[k]
      BY <2>2
    <3>3. more[k - 1] = it[k - 1]
      BY <3>1
    <3> QED
      BY <1>3, <2>2, <3>1, <3>2, <3>3
  <2>3. CASE k = 0 /\ k # n
    <3>1. k \in 0 .. n - 1 /\ more[k] = it[k]
      BY <2>3, Neighbours
    <3> QED
      BY <1>3, <2>3, <3>1
  <2> QED
    BY <2>1, <2>2, <2>3
<1>5. Computes(more, step, n)
  BY <1>4 DEF Computes
<1> QED
  BY <1>2, <1>5

LEMMA ComputesExists ==
  ASSUME NEW n \in Nat, NEW step, \A k \in 1 .. n : step[k] \in [Int -> Int]
  PROVE  \E it \in [0 .. n -> Int] : Computes(it, step, n)
<1> DEFINE bad == {m \in 0 .. n : ~ \E it \in [0 .. m -> Int] : Computes(it, step, m)}
<1>1. SUFFICES ASSUME bad # {} PROVE FALSE
  OBVIOUS
<1>2. PICK m \in bad : m = 0 \/ m - 1 \notin bad
  <2>1. bad \in SUBSET (0 .. n)
    OBVIOUS
  <2> HIDE DEF bad
  <2> QED
    BY <1>1, <2>1, Earliest
<1>3. CASE m = 0
  <2>1. [k \in 0 .. 0 |-> 0] \in [0 .. 0 -> Int]
    OBVIOUS
  <2>2. Computes([k \in 0 .. 0 |-> 0], step, 0)
    BY DEF Computes
  <2> QED
    BY <1>2, <1>3, <2>1, <2>2
<1>4. CASE m # 0
  <2>1. m \in Nat \ {0} /\ m \in 1 .. n /\ m - 1 \in 0 .. n /\ m - 1 \notin bad
    BY <1>2, <1>4
  <2>2. PICK it \in [0 .. m - 1 -> Int] : Computes(it, step, m - 1)
    BY <2>1
  <2>3. \E more \in [0 .. m -> Int] : Computes(more, step, m)
    BY <2>1, <2>2, ComputesOneMore
  <2> QED
    BY <1>2, <2>3
<1> QED
  BY <1>3, <1>4

\* The hash and the number it is meant to be, character by character.
HashAlong(code) ==
  CHOOSE hash : hash = [k \in 0 .. Len(code) |->
    IF k = 0 THEN 0 ELSE ToInt(ToInt(hash[k - 1] * 32) - hash[k - 1] + code[k])]

SumAlong(code) ==
  CHOOSE sum : sum = [k \in 0 .. Len(code) |->
    IF k = 0 THEN 0 ELSE 31 * sum[k - 1] + code[k]]

\* Both are what they are defined to be: there is such a function.
LEMMA HashAlongIs ==
  ASSUME NEW code \in Seq(Nat)
  PROVE  HashAlong(code) = [k \in 0 .. Len(code) |->
    IF k = 0 THEN 0
    ELSE ToInt(ToInt(HashAlong(code)[k - 1] * 32) - HashAlong(code)[k - 1] + code[k])]
<1> DEFINE n == Len(code)
           step == [k \in 1 .. n |-> [v \in Int |-> ToInt(ToInt(v * 32) - v + code[k])]]
<1>1. n \in Nat /\ \A k \in 1 .. n : code[k] \in Int
  OBVIOUS
<1>2. \A k \in 1 .. n : step[k] \in [Int -> Int]
  <2> SUFFICES ASSUME NEW k \in 1 .. n, NEW v \in Int
               PROVE  ToInt(ToInt(v * 32) - v + code[k]) \in Int
    OBVIOUS
  <2>1. v * 32 \in Int /\ ToInt(v * 32) \in Int
    BY ToIntTyped
  <2>2. ToInt(v * 32) - v + code[k] \in Int
    BY <1>1, <2>1
  <2> QED
    BY <2>2, ToIntTyped
<1> HIDE DEF step, n
<1>3. PICK it \in [0 .. n -> Int] : Computes(it, step, n)
  BY <1>1, <1>2, ComputesExists
<1>4. it = [k \in 0 .. n |->
              IF k = 0 THEN 0 ELSE ToInt(ToInt(it[k - 1] * 32) - it[k - 1] + code[k])]
  <2>1. \A k \in 0 .. n : k # 0 => k \in 1 .. n /\ it[k - 1] \in Int
    BY <1>1
  <2>2. \A k \in 0 .. n : k # 0 =>
          step[k][it[k - 1]] = ToInt(ToInt(it[k - 1] * 32) - it[k - 1] + code[k])
    BY <2>1 DEF step
  <2> QED
    BY <1>3, <2>2 DEF Computes
<1> QED
  BY <1>4 DEF HashAlong, n

LEMMA SumAlongIs ==
  ASSUME NEW code \in Seq(Nat)
  PROVE  SumAlong(code) = [k \in 0 .. Len(code) |->
           IF k = 0 THEN 0 ELSE 31 * SumAlong(code)[k - 1] + code[k]]
<1> DEFINE n == Len(code)
           step == [k \in 1 .. n |-> [v \in Int |-> 31 * v + code[k]]]
<1>1. n \in Nat /\ \A k \in 1 .. n : code[k] \in Int
  OBVIOUS
<1>2. \A k \in 1 .. n : step[k] \in [Int -> Int]
  BY <1>1
<1> HIDE DEF step, n
<1>3. PICK it \in [0 .. n -> Int] : Computes(it, step, n)
  BY <1>1, <1>2, ComputesExists
<1>4. it = [k \in 0 .. n |-> IF k = 0 THEN 0 ELSE 31 * it[k - 1] + code[k]]
  <2>1. \A k \in 0 .. n : k # 0 => k \in 1 .. n /\ it[k - 1] \in Int
    BY <1>1
  <2>2. \A k \in 0 .. n : k # 0 => step[k][it[k - 1]] = 31 * it[k - 1] + code[k]
    BY <2>1 DEF step
  <2> QED
    BY <1>3, <2>2 DEF Computes
<1> QED
  BY <1>4 DEF SumAlong, n

\* One character keeps the hash and the number apart by a multiple.
LEMMA CharacterKeepsSame ==
  ASSUME NEW h \in Int, NEW s \in Int, Same(h, s), NEW c \in Nat
  PROVE  LET X == ToInt(h * 32) - h + c
         IN X \in Int /\ ToInt(X) \in Int /\ 31 * s + c \in Int /\ Same(X, 31 * s + c)
<1> DEFINE cut == ToInt(h * 32)
           X == cut - h + c
<1>1. h * 32 \in Int /\ cut \in Int /\ Same(cut, h * 32)
  BY ToIntTyped
<1>2. PICK p \in Int : h = s + p * Modulus
  BY DEF Same
<1> HIDE DEF cut
<1>3. PICK q \in Int : cut = h * 32 + q * Modulus
  BY <1>1 DEF Same
<1>4. p * Modulus \in Int /\ q * Modulus \in Int
  BY ModulusTyped
<1>5. X = 31 * h + c + q * Modulus
  BY <1>3, <1>4
<1>6. (31 * p + q) * Modulus = 31 * (p * Modulus) + q * Modulus
  BY ModulusTyped
<1>7. X = (31 * s + c) + (31 * p + q) * Modulus
  BY <1>2, <1>4, <1>5, <1>6
<1>8. 31 * p + q \in Int /\ X \in Int /\ 31 * s + c \in Int
  BY <1>1
<1>9. Same(X, 31 * s + c)
  BY <1>7, <1>8 DEF Same
<1> QED
  BY <1>8, <1>9, ToIntTyped DEF cut

LEMMA SameChains ==
  ASSUME NEW a \in Int, NEW b \in Int, NEW c \in Int, Same(a, b), Same(b, c)
  PROVE  Same(a, c)
<1>1. PICK p \in Int : a = b + p * Modulus
  BY DEF Same
<1>2. PICK q \in Int : b = c + q * Modulus
  BY DEF Same
<1>3. p * Modulus \in Int /\ q * Modulus \in Int /\ p + q \in Int
  BY ModulusTyped
<1>4. (p + q) * Modulus = p * Modulus + q * Modulus
  BY ModulusTyped
<1>5. a = c + (p + q) * Modulus
  BY <1>1, <1>2, <1>3, <1>4
<1> QED
  BY <1>3, <1>5 DEF Same

\* Cut after every character, the hash is what the number is when it is cut once.
LEMMA HashIsCutOnce ==
  ASSUME NEW code \in Seq(Nat), code # << >>
  PROVE  /\ Polynomial(code) \in Int
         /\ SimpleHash(code) = MathAbs(ToInt(Polynomial(code)))
<1> DEFINE n == Len(code)
           hash == HashAlong(code)
           sum == SumAlong(code)
           near(k) == hash[k] \in Int /\ sum[k] \in Int /\ Same(hash[k], sum[k])
           bad == {k \in 0 .. n : ~near(k)}
<1>1. n \in Nat /\ n # 0 /\ \A k \in 1 .. n : code[k] \in Nat
  OBVIOUS
<1>2. hash = [k \in 0 .. n |->
                IF k = 0 THEN 0 ELSE ToInt(ToInt(hash[k - 1] * 32) - hash[k - 1] + code[k])]
  BY HashAlongIs
<1>3. sum = [k \in 0 .. n |-> IF k = 0 THEN 0 ELSE 31 * sum[k - 1] + code[k]]
  BY SumAlongIs
<1>4. Polynomial(code) = sum[n] /\ SimpleHash(code) = MathAbs(hash[n])
  BY DEF Polynomial, SimpleHash, HashAlong, SumAlong
<1> HIDE DEF n, hash, sum
<1>5. hash[0] = 0 /\ sum[0] = 0
  <2>1. 0 \in 0 .. n
    BY <1>1
  <2> QED
    BY <1>2, <1>3, <2>1
<1>6. \A k \in 1 .. n :
        /\ hash[k] = ToInt(ToInt(hash[k - 1] * 32) - hash[k - 1] + code[k])
        /\ sum[k] = 31 * sum[k - 1] + code[k]
  <2> SUFFICES ASSUME NEW k \in 1 .. n
               PROVE  /\ hash[k] = ToInt(ToInt(hash[k - 1] * 32) - hash[k - 1] + code[k])
                      /\ sum[k] = 31 * sum[k - 1] + code[k]
    OBVIOUS
  <2>1. k \in 0 .. n /\ k # 0
    BY <1>1
  <2> QED
    BY <1>2, <1>3, <2>1
<1>7. near(0)
  <2>1. 0 = 0 + 0 * Modulus
    BY ModulusTyped
  <2> QED
    BY <1>5, <2>1 DEF Same
<1>8. \A k \in 1 .. n : near(k - 1) =>
        /\ near(k) /\ hash[k] = ToInt(sum[k])
  <2> SUFFICES ASSUME NEW k \in 1 .. n, near(k - 1)
               PROVE  near(k) /\ hash[k] = ToInt(sum[k])
    OBVIOUS
  <2> DEFINE h == hash[k - 1]
             s == sum[k - 1]
             X == ToInt(h * 32) - h + code[k]
  <2>1. /\ X \in Int /\ ToInt(X) \in Int /\ 31 * s + code[k] \in Int
        /\ Same(X, 31 * s + code[k])
    BY <1>1, CharacterKeepsSame
  <2>2. hash[k] = ToInt(X) /\ sum[k] = 31 * s + code[k]
    BY <1>6
  <2> HIDE DEF X, h, s
  <2>3. Same(ToInt(X), X)
    BY <2>1, ToIntTyped
  <2>4. Same(hash[k], sum[k])
    BY <2>1, <2>2, <2>3, SameChains
  <2>5. ToInt(X) = ToInt(sum[k])
    BY <2>1, <2>2, SameIsCut
  <2> QED
    BY <2>1, <2>2, <2>4, <2>5
<1>9. bad = {}
  <2>1. SUFFICES ASSUME bad # {} PROVE FALSE
    OBVIOUS
  <2>2. PICK k \in bad : k = 0 \/ k - 1 \notin bad
    <3>1. bad \in SUBSET (0 .. n)
      OBVIOUS
    <3> HIDE DEF bad
    <3> QED
      BY <1>1, <2>1, <3>1, Earliest
  <2>3. k # 0
    BY <1>7, <2>2
  <2>4. k \in 1 .. n /\ k - 1 \in 0 .. n
    BY <1>1, <2>2, <2>3
  <2>5. near(k - 1)
    BY <2>2, <2>3, <2>4
  <2> QED
    BY <1>8, <2>2, <2>4, <2>5
<1>10. n \in 1 .. n /\ n \in 0 .. n /\ n - 1 \in 0 .. n
  BY <1>1
<1>11. near(n) /\ near(n - 1)
  BY <1>9, <1>10
<1>12. hash[n] = ToInt(sum[n])
  BY <1>8, <1>10, <1>11
<1> QED
  BY <1>4, <1>11, <1>12

\* The score of the mock: two digits of a hash, and of the number it is meant
\* to be.
LEMMA MockScore ==
  ASSUME NEW address \in Wallets, address.code # << >>
  PROVE  /\ SimpleHash(address.code) \in Nat
         /\ SimpleHash(address.code) % 100 = MathAbs(ToInt(Polynomial(address.code))) % 100
<1>1. address.code \in Seq(Nat)
  BY AmlAssumption
<1>2. /\ Polynomial(address.code) \in Int
      /\ SimpleHash(address.code) = MathAbs(ToInt(Polynomial(address.code)))
  BY <1>1, HashIsCutOnce
<1>3. ToInt(Polynomial(address.code)) \in Int
  BY <1>2, ToIntTyped
<1> QED
  BY <1>2, <1>3 DEF MathAbs

\* What is known of the verdict the mock gave, and of a provider's.
MockVerdict ==
  /\ screening.wallet \in Wallets /\ screening.wallet.code # << >>
  /\ ~Configured \/ screening.failed
  /\ screening.reported = {}
  /\ screening.score = SimpleHash(screening.wallet.code) % 100
  /\ screening.level = GetRiskLevel(screening.score)
  /\ screening.flags = MockFlags(screening.wallet)

ProviderVerdict ==
  Configured /\ ~screening.failed /\ screening.flags = screening.reported

AmlInv ==
  /\ AmlTypeOK
  /\ screening.at \in {"idle", "asking"} => screening.reported = {} /\ ~screening.failed
  /\ screening.at = "asking" =>
       Configured /\ screening.wallet \in Wallets /\ screening.wallet.code # << >>
  /\ screening.at = "screened" =>
       IF screening.provider = "mock" THEN MockVerdict ELSE ProviderVerdict
  /\ headline = "clear" => screening.at = "screened" /\ screening.flags = {}

LEMMA RiskLevelTyped ==
  ASSUME NEW score \in Int
  PROVE  GetRiskLevel(score) \in {"LOW", "MEDIUM", "HIGH", "CRITICAL"}
BY DEF GetRiskLevel

LEMMA AmlInitInv == AmlInit => AmlInv
BY DEF AmlInit, AmlInv, AmlTypeOK, MockVerdict, ProviderVerdict

\* The mock's verdict on a request that no provider answers.
LEMMA MockScreens ==
  ASSUME AmlTypeOK, config' = config, NEW request,
         request \in [at : {"idle", "asking"}, wallet : Wallets, failed : BOOLEAN, reported : {{}},
                      score : Int, level : {"none", "LOW", "MEDIUM", "HIGH", "CRITICAL"},
                      flags : SUBSET Flag, provider : {"none", "mock", "chainalysis", "trm"}],
         request.wallet.code # << >>, ~Configured \/ request.failed,
         screening' = MockScreening(request), headline' \in {"none", "loading", "failed", "broken"}
  PROVE  AmlInv'
<1> DEFINE address == request.wallet
           score == SimpleHash(address.code) % 100
<1>1. address \in Wallets /\ score \in Int
  BY MockScore
<1>2. GetRiskLevel(score) \in {"LOW", "MEDIUM", "HIGH", "CRITICAL"}
  BY <1>1, RiskLevelTyped
<1>3. MockFlags(address) \in SUBSET Flag
  BY DEF MockFlags
<1>4. screening' = [request EXCEPT !.at = "screened", !.score = score,
                      !.level = GetRiskLevel(score), !.flags = MockFlags(address),
                      !.provider = "mock"]
  BY DEF MockScreening, Screened
<1> HIDE DEF score
<1>5. AmlTypeOK'
  BY <1>1, <1>2, <1>3, <1>4 DEF AmlTypeOK
<1>6. MockVerdict'
  BY <1>1, <1>4 DEF MockVerdict, Configured, score
<1>7. screening'.at = "screened" /\ screening'.provider = "mock"
  BY <1>4
<1> QED
  BY <1>5, <1>6, <1>7 DEF AmlInv

LEMMA ScreenWalletKeeps ==
  ASSUME AmlInv, NEW address \in Wallets, ScreenWallet(address),
         headline' \in {headline, "loading"}
  PROVE  AmlInv'
<1> DEFINE request == [screening EXCEPT !.wallet = address]
<1>1. /\ screening.at = "idle" /\ AmlTypeOK /\ headline # "clear" /\ config' = config
      /\ screening.reported = {} /\ ~screening.failed
  BY DEF AmlInv, ScreenWallet
<1>2. headline' \in {"none", "loading", "failed", "broken"}
  BY <1>1 DEF AmlTypeOK
<1>3. request \in [at : {"idle", "asking"}, wallet : Wallets, failed : BOOLEAN, reported : {{}},
                   score : Int, level : {"none", "LOW", "MEDIUM", "HIGH", "CRITICAL"},
                   flags : SUBSET Flag, provider : {"none", "mock", "chainalysis", "trm"}]
  BY <1>1 DEF AmlTypeOK
<1>4. request.wallet = address /\ request.at = "idle"
  BY <1>1 DEF AmlTypeOK
<1>5. CASE address.code = << >>
  <2>1. screening' = [request EXCEPT !.at = "refused"]
    BY <1>5 DEF ScreenWallet
  <2> QED
    BY <1>1, <1>2, <2>1 DEF AmlInv, AmlTypeOK
<1>6. CASE address.code # << >> /\ Configured
  <2>1. screening' = [request EXCEPT !.at = "asking"]
    BY <1>6 DEF ScreenWallet
  <2>2. AmlTypeOK'
    BY <1>1, <1>2, <2>1 DEF AmlTypeOK
  <2>3. /\ screening'.at = "asking" /\ screening'.reported = {} /\ ~screening'.failed
        /\ screening'.wallet = address
    BY <1>1, <2>1 DEF AmlTypeOK
  <2> QED
    BY <1>1, <1>2, <1>6, <2>2, <2>3 DEF AmlInv, Configured
<1>7. CASE address.code # << >> /\ ~Configured
  <2>1. screening' = MockScreening(request)
    BY <1>7 DEF ScreenWallet
  <2> HIDE DEF request
  <2> QED
    BY <1>1, <1>2, <1>3, <1>4, <1>7, <2>1, MockScreens
<1> QED
  BY <1>5, <1>6, <1>7

LEMMA ProviderAnswersKeeps ==
  ASSUME AmlInv, NEW score \in RiskScore \cup {NoScore}, NEW reported \in SUBSET Report,
         ProviderAnswers(score, reported)
  PROVE  AmlInv'
<1> DEFINE points == IF score = NoScore THEN 0 ELSE score
<1>1. /\ screening.at = "asking" /\ AmlTypeOK /\ headline # "clear" /\ config' = config
      /\ headline' = headline /\ Configured /\ ~screening.failed
  BY DEF AmlInv, ProviderAnswers
<1>2. points \in Int
  BY AmlAssumption
<1>3. GetRiskLevel(points) \in {"LOW", "MEDIUM", "HIGH", "CRITICAL"}
  BY <1>2, RiskLevelTyped
<1>4. screening' = [screening EXCEPT !.reported = reported, !.at = "screened",
                      !.score = points, !.level = GetRiskLevel(points),
                      !.flags = reported, !.provider = config.provider]
  BY <1>1 DEF ProviderAnswers, Screened, AmlTypeOK
<1>5. reported \in SUBSET Flag /\ config.provider \in {"chainalysis", "trm"}
  BY <1>1 DEF AmlTypeOK, Configured, Report, Flag
<1> HIDE DEF points
<1>6. AmlTypeOK'
  BY <1>1, <1>2, <1>3, <1>4, <1>5 DEF AmlTypeOK
<1>7. /\ screening'.at = "screened" /\ screening'.provider # "mock" /\ ~screening'.failed
      /\ screening'.flags = screening'.reported
  BY <1>1, <1>4, <1>5 DEF AmlTypeOK
<1> QED
  BY <1>1, <1>6, <1>7 DEF AmlInv, ProviderVerdict, Configured

LEMMA ProviderFailsKeeps == ASSUME AmlInv, ProviderFails PROVE AmlInv'
<1> DEFINE request == [screening EXCEPT !.failed = TRUE]
<1>1. /\ screening.at = "asking" /\ AmlTypeOK /\ headline # "clear" /\ config' = config
      /\ headline' = headline /\ screening.reported = {}
      /\ screening.wallet \in Wallets /\ screening.wallet.code # << >>
  BY DEF AmlInv, ProviderFails
<1>2. headline' \in {"none", "loading", "failed", "broken"}
  BY <1>1 DEF AmlTypeOK
<1>3. request \in [at : {"idle", "asking"}, wallet : Wallets, failed : BOOLEAN, reported : {{}},
                   score : Int, level : {"none", "LOW", "MEDIUM", "HIGH", "CRITICAL"},
                   flags : SUBSET Flag, provider : {"none", "mock", "chainalysis", "trm"}]
  BY <1>1 DEF AmlTypeOK
<1>4. request.wallet.code # << >> /\ request.failed
  BY <1>1 DEF AmlTypeOK
<1>5. screening' = MockScreening(request)
  BY DEF ProviderFails
<1> HIDE DEF request
<1> QED
  BY <1>1, <1>2, <1>3, <1>4, <1>5, MockScreens

LEMMA ShowVerdictKeeps == ASSUME AmlInv, ShowVerdict PROVE AmlInv'
BY DEF AmlInv, AmlTypeOK, MockVerdict, ProviderVerdict, Configured, ShowVerdict

LEMMA ShowFailureKeeps == ASSUME AmlInv, ShowFailure PROVE AmlInv'
BY DEF AmlInv, AmlTypeOK, MockVerdict, ProviderVerdict, Configured, ShowFailure

LEMMA AmlStepInv == AmlInv /\ [AmlNext]_amlVars => AmlInv'
<1> SUFFICES ASSUME AmlInv, [AmlNext]_amlVars PROVE AmlInv'
  OBVIOUS
<1>1. CASE \E address \in Wallets : ScreenWallet(address) /\ UNCHANGED headline
  BY <1>1, ScreenWalletKeeps
<1>2. CASE \E address \in Wallets : HandleScreen(address)
  BY <1>2, ScreenWalletKeeps DEF HandleScreen
<1>3. CASE \E score \in RiskScore \cup {NoScore}, reported \in SUBSET Report :
             ProviderAnswers(score, reported)
  BY <1>3, ProviderAnswersKeeps
<1>4. CASE ProviderFails
  BY <1>4, ProviderFailsKeeps
<1>5. CASE ShowVerdict
  BY <1>5, ShowVerdictKeeps
<1>6. CASE ShowFailure
  BY <1>6, ShowFailureKeeps
<1>7. CASE UNCHANGED amlVars
  BY <1>7 DEF AmlInv, AmlTypeOK, MockVerdict, ProviderVerdict, Configured, amlVars
<1> QED
  BY <1>1, <1>2, <1>3, <1>4, <1>5, <1>6, <1>7 DEF AmlNext

\* A hash that calls for sanctions on its own scores 0 or 50.
LEMMA InvGivesVerdicts == AmlInv => VerdictsAgree
<1> SUFFICES ASSUME AmlInv, screening.at = "screened"
             PROVE  /\ screening.provider = "mock" <=> ~Configured \/ screening.failed
                    /\ screening.provider # "mock" =>
                         ("SANCTIONS" \in screening.flags <=> "SANCTIONS" \in screening.reported)
                    /\ screening.provider = "mock" =>
                         /\ screening.score \in 0 .. 99
                         /\ screening.score = MathAbs(ToInt(Polynomial(screening.wallet.code))) % 100
                         /\ "SANCTIONS" \in screening.flags /\ ~screening.wallet.named =>
                              screening.level \in {"LOW", "MEDIUM"}
                    /\ headline = "clear" =>
                         screening.reported = {}
                           /\ (screening.wallet.named => screening.provider # "mock")
  BY DEF VerdictsAgree
<1>1. CASE screening.provider # "mock"
  BY <1>1 DEF AmlInv, ProviderVerdict
<1>2. CASE screening.provider = "mock"
  <2> DEFINE hash == SimpleHash(screening.wallet.code)
  <2>1. MockVerdict
    BY <1>2 DEF AmlInv
  <2>2. hash \in Nat /\ hash % 100 = MathAbs(ToInt(Polynomial(screening.wallet.code))) % 100
    BY <2>1, MockScore DEF MockVerdict
  <2>3. screening.score = hash % 100
    BY <2>1 DEF MockVerdict
  <2>4. "SANCTIONS" \in screening.flags <=> screening.wallet.named \/ hash % 50 = 0
    BY <2>1 DEF MockVerdict, MockFlags, Flag
  <2> HIDE DEF hash
  <2>5. hash % 100 \in 0 .. 99 /\ (hash % 50 = 0 => hash % 100 \in {0, 50})
    BY <2>2
  <2>6. GetRiskLevel(0) = "LOW" /\ GetRiskLevel(50) = "MEDIUM"
    BY DEF GetRiskLevel
  <2>7. "SANCTIONS" \in screening.flags /\ ~screening.wallet.named =>
          screening.level \in {"LOW", "MEDIUM"}
    BY <2>1, <2>3, <2>4, <2>5, <2>6 DEF MockVerdict
  <2>8. headline = "clear" => screening.reported = {} /\ ~screening.wallet.named
    BY <2>1, <2>4 DEF AmlInv, MockVerdict
  <2> QED
    BY <1>2, <2>1, <2>2, <2>3, <2>5, <2>7, <2>8 DEF MockVerdict
<1> QED
  BY <1>1, <1>2

\* Whatever the address and whatever its hash overflows to, a verdict says who
\* gave it, the mock's score is that of the number cut once, and no wallet the
\* page calls clear has been reported or says it is sanctioned.
THEOREM VerdictsAlwaysAgree == AmlSpec => []VerdictsAgree
<1>1. AmlSpec => []AmlInv
  BY AmlInitInv, AmlStepInv, PTL DEF AmlSpec
<1> QED
  BY <1>1, InvGivesVerdicts, PTL

-----------------------------------------------------------------------------
(* The components side by side                                             *)

\* A step of the platform is, for each component, a step of its own or none.
LEMMA StepOfEach ==
  ASSUME [PlatformNext]_platformVars
  PROVE  /\ [Next]_vars /\ [RampNext]_rampVars /\ [IntakeNext]_intakeVars
         /\ [SubmitNext]_submitVars /\ [AccountNext]_accountVars /\ [KycNext]_kycVars
         /\ [MerchantNext]_merchantVars /\ [OnboardNext]_onboardVars
         /\ [ReferralNext]_referralVars /\ [SessionNext]_sessionVars
         /\ [RolesNext]_rolesVars /\ [BrowseNext]_browseVars /\ [PayNext]_payVars
         /\ [SeedNext]_seedVars /\ [ReportsNext]_reportVars /\ [ReceiptNext]_receiptVars
         /\ [CachesNext]_cacheVars /\ [AmlNext]_amlVars /\ [WalletsNext]_walletVars
<1>1. CASE UNCHANGED platformVars
  BY <1>1 DEF platformVars
<1>2. CASE PlatformNext
  BY <1>2 DEF PlatformNext, StepOf, CachesNext
<1> QED
  BY <1>1, <1>2

\* The behaviours of each component, without the fairness that some of them ask for.
EachSafe ==
  /\ Init /\ [][Next]_vars
  /\ RampInit /\ [][RampNext]_rampVars
  /\ KycInit /\ [][KycNext]_kycVars
  /\ SessionInit /\ [][SessionNext]_sessionVars
  /\ ReceiptInit /\ [][ReceiptNext]_receiptVars
  /\ IntakeSpec /\ SubmitSpec /\ AccountSpec /\ MerchantSpec /\ OnboardSpec
  /\ ReferralSpec /\ RolesSpec /\ BrowseSpec /\ PaySpec /\ SeedSpec /\ ReportsSpec
  /\ CachesSpec /\ AmlSpec /\ WalletsSpec

\* Whichever components a behaviour of the platform uses, and however it
\* interleaves them, each of them does there what it does alone.
THEOREM EachBehavesAlone == PlatformSpec => EachSafe
<1>1. PlatformInit =>
        /\ Init /\ RampInit /\ IntakeInit /\ SubmitInit /\ KycInit /\ MerchantInit
        /\ OnboardInit /\ SessionInit /\ PayInit /\ SeedInit /\ ReportsInit
        /\ AccountInit /\ ReferralInit /\ RolesInit /\ BrowseInit
        /\ ReceiptInit /\ CachesInit /\ AmlInit /\ WalletsInit
  BY DEF PlatformInit
<1> QED
  BY <1>1, StepOfEach, PTL
     DEF PlatformSpec, EachSafe, IntakeSpec, SubmitSpec, AccountSpec, MerchantSpec,
         OnboardSpec, ReferralSpec, RolesSpec, BrowseSpec, PaySpec, SeedSpec,
         ReportsSpec, CachesSpec, AmlSpec, WalletsSpec

\* The inductive invariants of all the components together.
PlatformInv ==
  /\ TypeOK /\ RampInv /\ IntakeInv /\ SubmitInv /\ AccountInv
  /\ KycInv /\ MerchantInv /\ OnboardInv /\ ReferralInv /\ SessionInv /\ RolesInv
  /\ BrowseInv /\ PayInv /\ SeedInv /\ ReportsInv /\ ReceiptInv /\ CachesInv
  /\ AmlInv /\ WalletsInv

LEMMA PlatformInitInv == PlatformInit => PlatformInv
BY InitTyped, RampInitInv, IntakeInitInv, SubmitInitInv, AccountInitInv,
   KycInitInv, MerchantInitInv, OnboardInitInv, ReferralInitInv, SessionInitInv,
   RolesInitInv, BrowseInitInv, PayInitInv, SeedInitInv, ReportsInitInv, ReceiptInitInv,
   CachesInitInv, AmlInitInv, WalletsInitInv
   DEF PlatformInit, PlatformInv

LEMMA PlatformStepInv == PlatformInv /\ [PlatformNext]_platformVars => PlatformInv'
<1> SUFFICES ASSUME PlatformInv, [PlatformNext]_platformVars PROVE PlatformInv'
  OBVIOUS
<1>1. TypeOK' /\ RampInv' /\ IntakeInv' /\ SubmitInv' /\ AccountInv'
  BY StepOfEach, NextKeepsType, RampStepInv, IntakeStepInv, SubmitStepInv, AccountStepInv
     DEF PlatformInv
<1>2. KycInv' /\ MerchantInv' /\ OnboardInv' /\ ReferralInv' /\ SessionInv' /\ RolesInv'
  BY StepOfEach, KycStepInv, MerchantStepInv, OnboardStepInv, ReferralStepInv,
     SessionStepInv, RolesStepInv DEF PlatformInv
<1>3. BrowseInv' /\ PayInv' /\ SeedInv' /\ ReportsInv' /\ ReceiptInv' /\ CachesInv'
  BY StepOfEach, BrowseStepInv, PayStepInv, SeedStepInv, ReportsStepInv, ReceiptStepInv,
     CachesStepInv DEF PlatformInv
<1>4. AmlInv' /\ WalletsInv'
  BY StepOfEach, AmlStepInv, WalletsStepInv DEF PlatformInv
<1> QED
  BY <1>1, <1>2, <1>3, <1>4 DEF PlatformInv

LEMMA InvTypes == PlatformInv => PlatformTypeOK
<1> SUFFICES ASSUME PlatformInv PROVE PlatformTypeOK
  OBVIOUS
<1>1. AccountTypeOK
  BY DEF PlatformInv, AccountInv, RowsTyped, AccountRow, WalletRecord, SessionRecord, Place,
         AccountTypeOK
<1>2. /\ RampTypeOK /\ IntakeTypeOK /\ SubmitTypeOK /\ KycTypeOK /\ MerchantTypeOK
      /\ OnboardTypeOK /\ ReferralTypeOK /\ SessionTypeOK /\ RolesTypeOK
  BY DEF PlatformInv, RampInv, IntakeInv, SubmitInv, KycInv, MerchantInv, OnboardInv,
         ReferralInv, SessionInv, RolesInv
<1>3. /\ BrowseTypeOK /\ PayTypeOK /\ SeedTypeOK /\ ReportsTypeOK /\ ReceiptTypeOK
      /\ CachesTypeOK /\ AmlTypeOK /\ WalletsTypeOK /\ TypeOK
  BY DEF PlatformInv, BrowseInv, PayInv, SeedInv, ReportsInv, ReceiptInv, CachesInv,
         AmlInv, WalletsInv
<1> QED
  BY <1>1, <1>2, <1>3 DEF PlatformTypeOK

\* Every variable of every component keeps its type, whichever components a
\* behaviour uses and however it interleaves them.
THEOREM PlatformTyped == PlatformSpec => []PlatformTypeOK
BY PlatformInitInv, PlatformStepInv, InvTypes, PTL DEF PlatformSpec

\* What is promised of each component alone, of the platform: whichever of them
\* run side by side, none breaks the promise of another.
PlatformSafe ==
  /\ LoopsBounded /\ LateRequestsRepeat /\ StaleNeverGetsIn /\ VerifiedByProvider
  /\ ChainFollowsReview /\ ReceivedIsStored /\ RewardedForAFriend /\ WalletOwnsTokens
  /\ StaleRoleExpires /\ WalkIsWhole /\ PayeeIsVpa /\ SeedRunsAgain /\ ReportsAgree
  /\ FreshWhenUsed /\ VerdictsAgree /\ PrimaryIsOne
  /\ ShownIsAsked /\ PendingIsNews /\ PollingGoesOn

\* Every safety invariant that the run of the platform checks, and the finality
\* of a rejection, for every choice and every interleaving of the components.
THEOREM PlatformStaysSafe == PlatformSpec => []PlatformSafe /\ RejectionIsFinal
<1>1. EachSafe => [](/\ LoopsBounded /\ PollingGoesOn /\ VerifiedByProvider /\ PendingIsNews
                     /\ WalletOwnsTokens /\ ShownIsAsked)
  <2>1. RampInit => PollingGoesOn
    BY DEF RampInit, PollingGoesOn
  <2>2. KycInv => VerifiedByProvider
    BY DEF KycInv
  <2>3. KycPageInv => PendingIsNews
    BY DEF KycPageInv, PendingIsOlder, PendingIsNews
  <2>4. SessionInv => WalletOwnsTokens
    BY DEF SessionInv
  <2>5. ReceiptInv => ShownIsAsked
    BY DEF ReceiptInv
  <2>6. RampInit /\ [][RampNext]_rampVars => [](LoopsBounded /\ PollingGoesOn)
    BY RampInitInv, RampStepInv, InvLoops, PollingStep, <2>1, PTL
  <2>7. KycInit /\ [][KycNext]_kycVars => [](VerifiedByProvider /\ PendingIsNews)
    BY KycInitInv, KycStepInv, KycPageInitInv, KycPageStepInv, <2>2, <2>3, PTL
  <2> QED
    BY <2>6, <2>7, SessionInitInv, SessionStepInv, ReceiptInitInv, ReceiptStepInv, <2>4, <2>5,
       PTL DEF EachSafe
<1>2. EachSafe => [](/\ LateRequestsRepeat /\ StaleNeverGetsIn /\ ChainFollowsReview
                     /\ ReceivedIsStored /\ RewardedForAFriend /\ StaleRoleExpires)
  BY LateRequestsAlwaysRepeat, StaleNeverEverGetsIn, ChainAlwaysFollowsReview,
     ReceivedAlwaysStored, AlwaysRewardedForAFriend, StaleRolesExpire, PTL DEF EachSafe
<1>3. EachSafe => [](/\ WalkIsWhole /\ PayeeIsVpa /\ SeedRunsAgain /\ ReportsAgree
                     /\ FreshWhenUsed /\ VerdictsAgree /\ PrimaryIsOne)
  BY WalksAlwaysWhole, PayeeAlwaysIsVpa, SeedAlwaysRunsAgain, ReportsAlwaysAgree,
     AlwaysFreshWhenUsed, VerdictsAlwaysAgree, PrimaryStaysOne, PTL DEF EachSafe
<1>4. EachSafe => RejectionIsFinal
  BY RejectionsAreFinal DEF EachSafe, Spec
<1>5. /\ LoopsBounded /\ PollingGoesOn /\ VerifiedByProvider /\ PendingIsNews
      /\ WalletOwnsTokens /\ ShownIsAsked
      /\ LateRequestsRepeat /\ StaleNeverGetsIn /\ ChainFollowsReview
      /\ ReceivedIsStored /\ RewardedForAFriend /\ StaleRoleExpires
      /\ WalkIsWhole /\ PayeeIsVpa /\ SeedRunsAgain /\ ReportsAgree
      /\ FreshWhenUsed /\ VerdictsAgree /\ PrimaryIsOne
      => PlatformSafe
  BY DEF PlatformSafe
<1> QED
  BY EachBehavesAlone, <1>1, <1>2, <1>3, <1>4, <1>5, PTL

\* With at most three calls at once the payments of the platform get through,
\* whatever else it does meanwhile (FewCallsPay says why).
THEOREM PlatformSubmitsPay == FewCalls => (PlatformSpec => []SubmitsPay)
BY EachBehavesAlone, FewCallsPay, PTL DEF EachSafe
=============================================================================

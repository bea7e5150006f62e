-------------------------- MODULE RewardEngineProofs --------------------------
(***************************************************************************)
(* What RewardEngine guarantees for every set of keys, reward ids and      *)
(* amounts, and what its arithmetic does.                                  *)
(***************************************************************************)
EXTENDS RewardAudit, TLAPS

LEMMA ConfigLeavesRewards ==
  ASSUME NEW s \in Signer, ConfigStep(s)
  PROVE  reward' = reward
BY DEF ConfigStep, SetAdmin, SetStarToken, AcceptAdmin, Pause, Unpause, SetIssuer

\* Every issuing call stores one new record and nothing else.
Stores(s, id, rec) ==
  /\ Issuable(s, id, rec.amount)
  /\ rec \in RewardRecord
  /\ reward' = [reward EXCEPT ![id] = rec]
  /\ UNCHANGED configVars

\* The reward is a whole number of tens, and never negative.
LEMMA SpendRewardTyped ==
  ASSUME NEW paise \in Int PROVE SpendReward(paise) \in Int
BY DEF SpendReward, PAISE_PER_100_INR, SPEND_REWARD_STAR_PER_100_INR

LEMMA IssueStores ==
  ASSUME NEW s \in Signer, NEW id \in RewardId, NEW to \in Address, NEW src \in SourceId,
         NEW kind \in {"Spend", "Referral", "Campaign"}, NEW n \in Int, NEW minted,
         Issue(s, id, to, src, kind, n, minted)
  PROVE  \E rec : Stores(s, id, rec)
<1> DEFINE rec == [recipient |-> to, source |-> src, issuer |-> s, kind |-> kind, amount |-> n]
<1>1. s \in Address /\ n \in Nat
  BY RewardAddressAssumption DEF Issue, Issuable
<1>2. rec \in RewardRecord
  BY <1>1 DEF RewardRecord
<1>3. Stores(s, id, rec)
  BY <1>2 DEF Issue, Stores
<1> QED
  BY <1>3

LEMMA IssueStepStores ==
  ASSUME NEW s \in Signer, NEW minted \in BOOLEAN, IssueStep(s, minted)
  PROVE  \E id \in RewardId : \E rec : Stores(s, id, rec)
<1>1. PICK id \in RewardId, to \in Address, src \in SourceId :
        \/ \E paise \in AmountInput : IssueSpendReward(s, id, to, src, paise, minted)
        \/ IssueReferralReward(s, id, to, src, minted)
        \/ \E n \in CampaignAmount : IssueCampaignReward(s, id, to, src, n, minted)
  BY DEF IssueStep
<1>2. ASSUME NEW paise \in AmountInput, IssueSpendReward(s, id, to, src, paise, minted)
      PROVE  \E rec : Stores(s, id, rec)
  BY <1>2, SpendRewardTyped, RewardAmountAssumption, IssueStores DEF IssueSpendReward
<1>3. CASE IssueReferralReward(s, id, to, src, minted)
  <2>1. REFERRAL_REWARD_STAR \in Int
    BY DEF REFERRAL_REWARD_STAR
  <2> QED
    BY <1>3, <2>1, IssueStores DEF IssueReferralReward
<1>4. ASSUME NEW n \in CampaignAmount, IssueCampaignReward(s, id, to, src, n, minted)
      PROVE  \E rec : Stores(s, id, rec)
  BY <1>4, RewardAmountAssumption, IssueStores DEF IssueCampaignReward
<1> QED
  BY <1>1, <1>2, <1>3, <1>4

-----------------------------------------------------------------------------
LEMMA InitTyped == Init => TypeOK
<1> SUFFICES ASSUME Init PROVE TypeOK
  OBVIOUS
<1>1. admin \in Address /\ pendingAdmin \in Address \cup {NoAddress} /\ paused \in BOOLEAN
  BY RewardAddressAssumption DEF Init, Gov!GovInit
<1>2. starToken \in Address
  BY RewardAddressAssumption DEF Init
<1>3. issuer \in [Address -> BOOLEAN]
  BY DEF Init
<1>4. AbsentReward \in RewardRecord
  BY DEF AbsentReward, RewardRecord
<1>5. reward \in [RewardId -> RewardRecord]
  BY <1>4 DEF Init
<1> QED
  BY <1>1, <1>2, <1>3, <1>5 DEF TypeOK

LEMMA ConfigKeepsType ==
  ASSUME TypeOK, NEW s \in Signer, ConfigStep(s)
  PROVE  TypeOK'
<1>1. reward' = reward
  BY ConfigLeavesRewards
<1>2. CASE \E a \in Address : SetAdmin(s, a)
  BY <1>1, <1>2 DEF TypeOK, SetAdmin, Gov!ProposeAdmin
<1>3. CASE \E a \in Address : SetStarToken(s, a)
  BY <1>1, <1>3 DEF TypeOK, SetStarToken, govVars
<1>4. CASE AcceptAdmin(s)
  BY <1>1, <1>4, RewardAddressAssumption DEF TypeOK, AcceptAdmin, Gov!ClaimAdmin, Gov!HandOver
<1>5. CASE Pause(s) \/ Unpause(s)
  BY <1>1, <1>5 DEF TypeOK, Pause, Unpause, Gov!SetPaused
<1>6. CASE \E a \in Address, on \in BOOLEAN : SetIssuer(s, a, on)
  BY <1>1, <1>6 DEF TypeOK, SetIssuer, govVars
<1> QED
  BY <1>2, <1>3, <1>4, <1>5, <1>6 DEF ConfigStep

LEMMA NextKeepsType == TypeOK /\ [Next]_vars => TypeOK'
<1> SUFFICES ASSUME TypeOK, [Next]_vars PROVE TypeOK'
  OBVIOUS
<1>1. ASSUME NEW s \in Signer, NEW minted \in BOOLEAN, IssueStep(s, minted)
      PROVE  TypeOK'
  <2>1. PICK id \in RewardId, rec \in RewardRecord : Stores(s, id, rec)
    BY <1>1, IssueStepStores DEF Stores
  <2> QED
    BY <2>1 DEF Stores, TypeOK, configVars
<1>2. CASE UNCHANGED vars
  BY <1>2 DEF TypeOK, vars
<1> QED
  BY <1>1, <1>2, ConfigKeepsType DEF Next

(* Every reward record keeps its type, whatever amounts are sent: no reward*)
(* of a negative amount is ever stored (reward-engine lib.rs:356-387).     *)
THEOREM TypeCorrect == Spec => []TypeOK
<1>1. Init => TypeOK
  BY InitTyped
<1>2. TypeOK /\ [Next]_vars => TypeOK'
  BY NextKeepsType
<1> QED
  BY <1>1, <1>2, PTL DEF Spec

(* A reward id is used once, however many issuers there are and however    *)
(* often the admin, the issuers and the token change (reward-engine        *)
(* lib.rs:356).                                                            *)
THEOREM RewardsNeverChange == Spec => RewardsAreForever
<1> DEFINE kept == \A id \in RewardId : HasReward(id) => reward'[id] = reward[id]
<1>1. ASSUME TypeOK, NEW s \in Signer, NEW minted \in BOOLEAN, IssueStep(s, minted)
      PROVE  kept
  <2>1. PICK id \in RewardId : \E rec : Stores(s, id, rec)
    BY <1>1, IssueStepStores
  <2>2. PICK rec : Stores(s, id, rec)
    BY <2>1
  <2>3. ~HasReward(id) /\ reward' = [reward EXCEPT ![id] = rec]
    BY <2>2 DEF Stores, Issuable
  <2> QED
    BY <1>1, <2>3 DEF TypeOK
<1>2. ASSUME TypeOK, [Next]_vars PROVE kept
  BY <1>1, <1>2, ConfigLeavesRewards DEF Next, vars
<1>3. TypeOK /\ [Next]_vars => [kept]_vars
  BY <1>2
<1> QED
  BY <1>3, TypeCorrect, PTL DEF Spec, RewardsAreForever

-----------------------------------------------------------------------------
(* Splitting a spend never earns more: two rewards for parts of an amount  *)
(* are at most the reward for the whole, because each call rounds down to  *)
(* whole hundreds of rupees (reward-engine lib.rs:727-737).                *)
THEOREM SplittingEarnsNoMore ==
  ASSUME NEW a \in Nat, NEW b \in Nat
  PROVE  SpendReward(a) + SpendReward(b) <= SpendReward(a + b)
<1> DEFINE x == a \div 10000
           y == b \div 10000
           z == (a + b) \div 10000
<1>1. /\ x \in Int /\ 10000 * x <= a /\ a < 10000 * x + 10000
      /\ y \in Int /\ 10000 * y <= b /\ b < 10000 * y + 10000
      /\ z \in Int /\ 10000 * z <= a + b /\ a + b < 10000 * z + 10000
  OBVIOUS
<1> HIDE DEF x, y, z
<1>2. x + y <= z
  BY <1>1
<1>3. x * 10 + y * 10 <= z * 10
  BY <1>1, <1>2
<1> QED
  BY <1>3 DEF x, y, z, SpendReward, PAISE_PER_100_INR, SPEND_REWARD_STAR_PER_100_INR

-----------------------------------------------------------------------------
(* The handoff of the admin key: a rotated-out key is no admin and no      *)
(* issuer.                                                                 *)
Powerless == \A a \in former : a # admin /\ ~issuer[a]

AuditInv == TypeOK /\ former \subseteq Address /\ Powerless

LEMMA IssueLeavesConfig ==
  ASSUME NEW s \in Signer, NEW minted \in BOOLEAN, IssueStep(s, minted)
  PROVE  UNCHANGED configVars /\ issuer[s]
BY IssueStepStores DEF Stores, Issuable

LEMMA ConfigKeepsPowerless ==
  ASSUME AuditInv, NEW s \in Signer, ConfigStep(s), Observe(s)
  PROVE  former' \subseteq Address /\ Powerless'
<1>0. /\ admin \in Address /\ issuer \in [Address -> BOOLEAN]
      /\ former \subseteq Address /\ Powerless
  BY DEF AuditInv, TypeOK
<1>1. former' \subseteq Address
  BY <1>0 DEF Observe
<1>2. CASE UNCHANGED <<admin, issuer>>
  BY <1>0, <1>2 DEF Observe, Powerless
<1>3. CASE AcceptAdmin(s)
  <2>1. /\ admin' = pendingAdmin /\ pendingAdmin = s
        /\ issuer' = Gov!HandOver(issuer, admin, pendingAdmin)
    BY <1>3 DEF AcceptAdmin, Gov!ClaimAdmin
  <2>2. SUFFICES ASSUME NEW a \in former' PROVE a # admin' /\ ~issuer'[a]
    BY <1>1 DEF Powerless
  <2>3. /\ a \in Address
        /\ a \in former \/ (a = admin /\ admin' # admin)
        /\ ~(issuer'[a] /\ ~issuer[a])
    BY <1>1, <2>2 DEF Observe, Granted
  <2>4. issuer'[a] = IF a = s THEN TRUE ELSE IF a = admin THEN FALSE ELSE issuer[a]
    BY <1>0, <2>1, <2>3 DEF Gov!HandOver
  <2>5. CASE a \in former
    <3>1. ~issuer[a]
      BY <1>0, <2>5 DEF Powerless
    <3>2. ~issuer'[a]
      BY <2>3, <3>1
    <3> QED
      BY <2>1, <2>4, <3>2
  <2>6. CASE a = admin /\ admin' # admin
    BY <2>1, <2>4, <2>6
  <2> QED
    BY <2>3, <2>5, <2>6
<1>4. ASSUME NEW who \in Address, NEW on \in BOOLEAN, SetIssuer(s, who, on)
      PROVE  Powerless'
  <2>1. admin' = admin /\ issuer' = [issuer EXCEPT ![who] = on]
    BY <1>4 DEF SetIssuer, govVars
  <2>2. SUFFICES ASSUME NEW a \in former' PROVE a # admin' /\ ~issuer'[a]
    BY <1>1 DEF Powerless
  <2>3. a \in former /\ a \in Address /\ ~(issuer'[a] /\ ~issuer[a])
    BY <1>0, <1>1, <2>1, <2>2 DEF Observe, Granted
  <2> QED
    BY <1>0, <2>1, <2>3 DEF Powerless
<1>5. \/ AcceptAdmin(s)
      \/ \E who \in Address, on \in BOOLEAN : SetIssuer(s, who, on)
      \/ UNCHANGED <<admin, issuer>>
  BY DEF ConfigStep, SetAdmin, Pause, Unpause, SetStarToken,
         Gov!ProposeAdmin, Gov!SetPaused, govVars
<1> QED
  BY <1>1, <1>2, <1>3, <1>4, <1>5

(* In every state: a former admin is an issuer only if it was reinstated   *)
(* (reward-engine lib.rs:149-200).                                         *)
THEOREM AuditInvHolds == AuditSpec => []AuditInv
<1>1. AuditInit => AuditInv
  BY InitTyped DEF AuditInit, AuditInv, Powerless
<1>2. AuditInv /\ [AuditNext]_auditVars => AuditInv'
  <2> SUFFICES ASSUME AuditInv, [AuditNext]_auditVars PROVE AuditInv'
    OBVIOUS
  <2>1. TypeOK'
    BY NextKeepsType DEF AuditInv, AuditNext, auditVars, Next
  <2>2. former' \subseteq Address /\ Powerless'
    <3>1. CASE UNCHANGED auditVars
      BY <3>1 DEF AuditInv, Powerless, auditVars, vars
    <3>2. ASSUME NEW s \in Signer, NEW minted \in BOOLEAN, IssueStep(s, minted), Observe(s)
          PROVE  former' \subseteq Address /\ Powerless'
      BY <3>2, IssueLeavesConfig DEF AuditInv, Powerless, Observe, configVars
    <3> QED
      BY <3>1, <3>2, ConfigKeepsPowerless DEF AuditNext
  <2> QED
    BY <2>1, <2>2 DEF AuditInv
<1> QED
  BY <1>1, <1>2, PTL DEF AuditSpec

(* For any number of keys and any chain of handoffs, a rotated-out key     *)
(* issues no reward until a later admin makes it an issuer (reward-engine  *)
(* lib.rs:149-165).                                                        *)
THEOREM FormerAdminsIssueNothing == AuditSpec => FormerAdminIssuesNothing
<1>1. ASSUME AuditInv, [AuditNext]_auditVars, reward' # reward
      PROVE  signer' \notin former
  <2>1. PICK s \in Signer, minted \in BOOLEAN : IssueStep(s, minted) /\ signer' = s
    BY <1>1, ConfigLeavesRewards DEF AuditNext, Observe, auditVars, vars
  <2> QED
    BY <1>1, <2>1, IssueLeavesConfig DEF AuditInv, Powerless
<1>2. AuditInv /\ [AuditNext]_auditVars => [reward' # reward => signer' \notin former]_auditVars
  BY <1>1
<1> QED
  BY <1>2, AuditInvHolds, PTL DEF AuditSpec, FormerAdminIssuesNothing
=============================================================================

----------------------------- MODULE RewardEngine -----------------------------
(***************************************************************************)
(* contracts/reward-engine: turns a spend, a referral or a campaign into   *)
(* STAR, once per reward id, for the issuers its admin authorised.  The    *)
(* mint on the STAR token appears as the parameter "minted" of the issuing *)
(* actions; ContractSystem composes them with the token.  A failed mint    *)
(* panics the whole call, so nothing is recorded either.                   *)
(***************************************************************************)
EXTENDS Integers

CONSTANTS Address, Signer, NoAddress,
          RewardsDeployer,      \* the admin given to the constructor
          TokenAddress,         \* the STAR token given to it
          RewardId,
          SourceId, NoSource,   \* what a reward is for
          AmountInput,          \* amount_in_paise values a caller may send
          CampaignAmount        \* amount_star values a caller may send

ASSUME RewardAddressAssumption ==
  /\ NoAddress \notin Address
  /\ RewardsDeployer \in Signer
  /\ Signer \subseteq Address
  /\ TokenAddress \in Address
  /\ NoSource \notin SourceId

ASSUME RewardAmountAssumption ==
  /\ AmountInput \subseteq Int
  /\ CampaignAmount \subseteq Int

VARIABLES admin, pendingAdmin, paused,
          starToken,      \* DataKey::StarToken
          issuer,         \* DataKey::AuthorizedIssuer(address)
          reward          \* DataKey::Reward(id)

Gov == INSTANCE ContractAdmin

govVars == <<admin, pendingAdmin, paused>>
configVars == <<admin, pendingAdmin, paused, starToken, issuer>>
vars == <<admin, pendingAdmin, paused, starToken, issuer, reward>>

\* amount = 0 is the missing storage entry: no reward is stored with 0.
RewardRecord ==
  [recipient : Address \cup {NoAddress}, source : SourceId \cup {NoSource},
   issuer : Address \cup {NoAddress},
   kind : {"None", "Spend", "Referral", "Campaign"}, amount : Nat]

AbsentReward == [recipient |-> NoAddress, source |-> NoSource, issuer |-> NoAddress,
                 kind |-> "None", amount |-> 0]

TypeOK ==
  /\ admin \in Address
  /\ pendingAdmin \in Address \cup {NoAddress}
  /\ paused \in BOOLEAN
  /\ starToken \in Address
  /\ issuer \in [Address -> BOOLEAN]
  /\ reward \in [RewardId -> RewardRecord]

Init ==
  /\ Gov!GovInit(RewardsDeployer)
  /\ starToken = TokenAddress
  /\ issuer = [a \in Address |-> a = RewardsDeployer]
  /\ reward = [r \in RewardId |-> AbsentReward]

-----------------------------------------------------------------------------
(* Configuration.                                                          *)

SetAdmin(caller, newAdmin) ==
  /\ Gov!ProposeAdmin(caller, newAdmin)
  /\ UNCHANGED <<starToken, issuer, reward>>

\* Mutant: the outgoing admin stays an issuer.
AcceptAdminKeepingIssuer(caller) ==
  /\ Gov!ClaimAdmin(caller)
  /\ issuer' = [issuer EXCEPT ![pendingAdmin] = TRUE]
  /\ UNCHANGED <<starToken, reward>>

AcceptAdmin(caller) ==
  /\ Gov!ClaimAdmin(caller)
  /\ issuer' = Gov!HandOver(issuer, admin, pendingAdmin)
  /\ UNCHANGED <<starToken, reward>>

Pause(caller) == Gov!SetPaused(caller, TRUE) /\ UNCHANGED <<starToken, issuer, reward>>

Unpause(caller) == Gov!SetPaused(caller, FALSE) /\ UNCHANGED <<starToken, issuer, reward>>

SetStarToken(caller, token) ==
  /\ Gov!ConfiguredBy(caller)
  /\ starToken' = token
  /\ UNCHANGED <<govVars, issuer, reward>>

SetIssuer(caller, who, enabled) ==
  /\ Gov!ConfiguredBy(caller)
  /\ issuer' = [issuer EXCEPT ![who] = enabled]
  /\ UNCHANGED <<govVars, starToken, reward>>

-----------------------------------------------------------------------------
(* Issuing.                                                                *)

PAISE_PER_100_INR == 10000
SPEND_REWARD_STAR_PER_100_INR == 10
REFERRAL_REWARD_STAR == 100

\* calculate_spend_reward: whole hundreds of rupees only.
SpendReward(paise) == (paise \div PAISE_PER_100_INR) * SPEND_REWARD_STAR_PER_100_INR

HasReward(id) == reward[id].amount # 0

\* Mutant: a used reward id is no obstacle.
IssuableAgain(who, id, amount) == ~paused /\ amount > 0 /\ issuer[who]

\* The checks of issue_reward, before the mint.
Issuable(who, id, amount) ==
  /\ ~paused
  /\ amount > 0
  /\ issuer[who]
  /\ ~HasReward(id)

Issue(who, id, recipient, source, kind, amount, minted) ==
  /\ Issuable(who, id, amount)
  /\ minted
  /\ reward' = [reward EXCEPT ![id] =
                  [recipient |-> recipient, source |-> source, issuer |-> who,
                   kind |-> kind, amount |-> amount]]
  /\ UNCHANGED configVars

\* A spend below 100 rupees is worth 0 STAR, which is an error.
IssueSpendReward(who, id, recipient, source, paise, minted) ==
  /\ paise > 0
  /\ Issue(who, id, recipient, source, "Spend", SpendReward(paise), minted)

IssueReferralReward(who, id, recipient, source, minted) ==
  Issue(who, id, recipient, source, "Referral", REFERRAL_REWARD_STAR, minted)

IssueCampaignReward(who, id, recipient, source, amount, minted) ==
  Issue(who, id, recipient, source, "Campaign", amount, minted)

-----------------------------------------------------------------------------
ConfigStep(s) ==
  \/ \E a \in Address : SetAdmin(s, a) \/ SetStarToken(s, a)
  \/ AcceptAdmin(s)
  \/ Pause(s)
  \/ Unpause(s)
  \/ \E a \in Address, on \in BOOLEAN : SetIssuer(s, a, on)

IssueStep(s, minted) ==
  \E id \in RewardId, to \in Address, src \in SourceId :
    \/ \E paise \in AmountInput : IssueSpendReward(s, id, to, src, paise, minted)
    \/ IssueReferralReward(s, id, to, src, minted)
    \/ \E n \in CampaignAmount : IssueCampaignReward(s, id, to, src, n, minted)

Next == \E s \in Signer : ConfigStep(s) \/ \E minted \in BOOLEAN : IssueStep(s, minted)

Spec == Init /\ [][Next]_vars
-----------------------------------------------------------------------------
(* A reward id is used once: what was issued under it never changes, over  *)
(* handoffs, issuer changes and token changes (reward-engine lib.rs:356).  *)
RewardsAreForever ==
  [][\A id \in RewardId : HasReward(id) => reward'[id] = reward[id]]_vars
=============================================================================

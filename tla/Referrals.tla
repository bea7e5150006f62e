------------------------------ MODULE Referrals ------------------------------
(***************************************************************************)
(* ReferralsService and the reward row of a referral (RewardsService): one *)
(* invitation, accepted, qualified by a first payment, and rewarded.  Each *)
(* request reads the row, decides, and writes it without looking again.    *)
(***************************************************************************)
CONSTANTS Member, Inviter, NoMember,
          Purchase, NoPurchase     \* transactions

ASSUME ReferralAssumption ==
  /\ Inviter \in Member /\ NoMember \notin Member
  /\ NoPurchase \notin Purchase

VARIABLES payer,       \* Purchase -> Member: never changes
          completed,   \* purchases that have been COMPLETED
          referral,    \* the row: invited, status, first
          starReward,  \* its reward row: status, and whether reward() created it
          accepting,   \* members whose accept has passed its checks
          qualifying,  \* Purchase -> how far a qualify with it has come
          rewarding    \* a reward() has passed its check

referralVars == <<payer, completed, referral, starReward, accepting, qualifying, rewarding>>

RewardStatus == {"PENDING", "MINTED", "REVERSED", "FAILED"}

ReferralTypeOK ==
  /\ payer \in [Purchase -> Member]
  /\ completed \subseteq Purchase
  /\ referral \in [invited : Member \cup {NoMember}, first : Purchase \cup {NoPurchase},
                   status : {"INVITED", "QUALIFIED", "REWARDED"}]
  /\ starReward \in [status : RewardStatus \cup {"none"}, earned : BOOLEAN]
  /\ accepting \subseteq Member
  /\ qualifying \in [Purchase -> {"no", "read", "checked"}]
  /\ rewarding \in BOOLEAN

\* createInvite.
ReferralInit ==
  /\ payer \in [Purchase -> Member]
  /\ completed = {}
  /\ referral = [invited |-> NoMember, first |-> NoPurchase, status |-> "INVITED"]
  /\ starReward = [status |-> "none", earned |-> FALSE]
  /\ accepting = {} /\ qualifying = [p \in Purchase |-> "no"] /\ rewarding = FALSE

\* The transaction processor completes a payment (module TransactionProcessor).
PurchaseCompletes(p) ==
  /\ p \notin completed
  /\ completed' = completed \cup {p}
  /\ UNCHANGED <<payer, referral, starReward, accepting, qualifying, rewarding>>

\* Mutant: nobody asks who invited whom.
AcceptOwnReads(u) ==
  /\ u \notin accepting
  /\ referral.invited \in {NoMember, u}
  /\ accepting' = accepting \cup {u}
  /\ UNCHANGED <<payer, completed, referral, starReward, qualifying, rewarding>>

\* The row is found, not expired, not the caller's own and nobody else's.
AcceptReads(u) ==
  /\ u \notin accepting
  /\ u # Inviter
  /\ referral.invited \in {NoMember, u}
  /\ accepting' = accepting \cup {u}
  /\ UNCHANGED <<payer, completed, referral, starReward, qualifying, rewarding>>

AcceptWrites(u) ==
  /\ u \in accepting
  /\ accepting' = accepting \ {u}
  /\ referral' = [referral EXCEPT !.invited = u, !.status = "INVITED"]
  /\ UNCHANGED <<payer, completed, starReward, qualifying, rewarding>>

\* The referral is read: p's payer is the one it invites.
QualifyReads(p) ==
  /\ referral.invited # NoMember /\ payer[p] = referral.invited
  /\ qualifying' = [qualifying EXCEPT ![p] = "read"]
  /\ UNCHANGED <<payer, completed, referral, starReward, accepting, rewarding>>

\* Then the transaction.
QualifyChecks(p) ==
  /\ qualifying[p] = "read" /\ p \in completed
  /\ qualifying' = [qualifying EXCEPT ![p] = "checked"]
  /\ UNCHANGED <<payer, completed, referral, starReward, accepting, rewarding>>

QualifyWrites(p) ==
  /\ qualifying[p] = "checked"
  /\ qualifying' = [qualifying EXCEPT ![p] = "no"]
  /\ referral' = [referral EXCEPT !.first = p, !.status = "QUALIFIED"]
  /\ UNCHANGED <<payer, completed, starReward, accepting, rewarding>>

RewardReads ==
  /\ referral.status = "QUALIFIED" /\ ~rewarding
  /\ rewarding' = TRUE
  /\ UNCHANGED <<payer, completed, referral, starReward, accepting, qualifying>>

\* One database transaction: the upsert and the update.
RewardWrites ==
  /\ rewarding
  /\ rewarding' = FALSE
  /\ starReward' = [status |-> "MINTED",
                    earned |-> starReward.status = "none" \/ starReward.earned]
  /\ referral' = [referral EXCEPT !.status = "REWARDED"]
  /\ UNCHANGED <<payer, completed, accepting, qualifying>>

\* A check fails, a write meets a unique constraint, or the process dies.
ReferralCallFails ==
  /\ \/ \E u \in accepting : accepting' = accepting \ {u} /\ UNCHANGED <<qualifying, rewarding>>
     \/ \E p \in Purchase : /\ qualifying[p] # "no"
                            /\ qualifying' = [qualifying EXCEPT ![p] = "no"]
                            /\ UNCHANGED <<accepting, rewarding>>
     \/ rewarding /\ rewarding' = FALSE /\ UNCHANGED <<accepting, qualifying>>
  /\ UNCHANGED <<payer, completed, referral, starReward>>

\* RewardsService.create, for an administrator: the referral is not looked at.
CreateReward(status) ==
  /\ starReward.status = "none"
  /\ starReward' = [status |-> status, earned |-> FALSE]
  /\ UNCHANGED <<payer, completed, referral, accepting, qualifying, rewarding>>

\* RewardsService.mint and reverse, whatever the status was.
SetRewardStatus(status) ==
  /\ starReward.status \notin {"none", status}
  /\ starReward' = [starReward EXCEPT !.status = status]
  /\ UNCHANGED <<payer, completed, referral, accepting, qualifying, rewarding>>

ReferralNext ==
  \/ \E u \in Member : AcceptReads(u) \/ AcceptWrites(u)
  \/ \E p \in Purchase : \/ PurchaseCompletes(p) \/ QualifyReads(p)
                         \/ QualifyChecks(p) \/ QualifyWrites(p)
  \/ RewardReads \/ RewardWrites \/ ReferralCallFails
  \/ \E status \in RewardStatus : CreateReward(status)
  \/ \E status \in {"MINTED", "REVERSED"} : SetRewardStatus(status)

ReferralSpec == ReferralInit /\ [][ReferralNext]_referralVars

-----------------------------------------------------------------------------
(* "100 STAR when invited friend completes first payment"                  *)
(* (referrals.service.ts:147): whatever acceptances, qualifications and     *)
(* rewards overtake each other, a referral that counts as qualified or      *)
(* rewarded, or has earned a reward, rests on a completed payment of        *)
(* somebody other than the inviter.                                         *)
RewardedForAFriend ==
  referral.status # "INVITED" \/ starReward.earned =>
    /\ referral.first \in completed
    /\ payer[referral.first] # Inviter
=============================================================================

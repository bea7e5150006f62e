---------------------------- MODULE ContractSystem ----------------------------
(***************************************************************************)
(* The four contracts together.  A cross-contract call runs inside the     *)
(* transaction of its caller, so it is one step with it:                   *)
(*                                                                         *)
(*   PaymentEngine.create_payment  reads  MerchantRegistry.is_approved     *)
(*   PaymentEngine.issue_reward    tries  RewardEngine.issue_spend_reward  *)
(*   RewardEngine.issue_*_reward   calls  StarToken.mint_from_minter       *)
(*                                                                         *)
(* One contract of each kind is deployed.  The admins may point            *)
(* set_contracts and set_star_token elsewhere; a call to an address that   *)
(* carries no such contract fails.                                         *)
(***************************************************************************)
EXTENDS Integers, FiniteSetsExt

CONSTANTS Address, Signer, NoAddress,
          Admin,                    \* deploys and first administers all four
          Payments, Registry, Rewards, Star,  \* the contracts' own addresses
          PaymentId, MerchantId, RewardId, SourceId,
          NoMerchant, NoReward, NoSource,
          Metadata, NoMetadata,
          AmountInput, QuoteInput, CampaignAmount, StarAmount,
          MaxSupply, IntMax, TokenAmount, BasisPoint, Spender, LedgerBound,
          Settable                  \* the addresses each configuration call
                                    \* may be given, a record of sets

ASSUME SystemAddressAssumption ==
  /\ {Payments, Registry, Rewards, Star} \subseteq Address \ Signer
  /\ Signer \subseteq Address
  /\ Admin \in Signer
  /\ Spender \subseteq Address
  /\ NoAddress \notin Address
  /\ Settable \in [operator : SUBSET Address, issuer : SUBSET Address,
                   minter : SUBSET Address, freeze : SUBSET Address,
                   registry : SUBSET Address, rewards : SUBSET Address,
                   token : SUBSET Address, admin : SUBSET Address]

ASSUME SystemDataAssumption ==
  /\ PaymentId \subseteq SourceId       \* a payment id is a reward's source
  /\ NoSource \notin SourceId
  /\ NoReward \notin RewardId
  /\ NoMerchant \notin MerchantId
  /\ AmountInput \subseteq Int
  /\ QuoteInput \subseteq [asset : Int, usdc : Int, fee : Int]
  /\ CampaignAmount \subseteq Int
  /\ TokenAmount \subseteq Int
  /\ BasisPoint \subseteq Nat
  /\ NoMetadata \notin Metadata
  /\ IntMax \in Nat /\ LedgerBound \in Nat
  /\ MaxSupply \in 1..IntMax

\* Addresses and reward ids are keys of 32 bytes.
ASSUME SystemFiniteAssumption == IsFiniteSet(Address) /\ IsFiniteSet(RewardId)

VARIABLES peAdmin, pePending, pePaused, operator, contracts, payment,
          mrAdmin, mrPending, mrPaused, merchant,
          reAdmin, rePending, rePaused, starToken, issuer, reward,
          stAdmin, stPending, stPaused, minter, authorized, balance, supply,
          allowance, feeBurn, ledger,
          otherSupply     \* observer: supply created or burned by direct
                          \* calls of the token, not by rewards

PE == INSTANCE PaymentEngine WITH
  admin <- peAdmin, pendingAdmin <- pePending, paused <- pePaused,
  Deployer <- Admin, RegistryAddress <- Registry, RewardsAddress <- Rewards

MR == INSTANCE MerchantRegistry WITH
  admin <- mrAdmin, pendingAdmin <- mrPending, paused <- mrPaused,
  RegistryDeployer <- Admin

RE == INSTANCE RewardEngine WITH
  admin <- reAdmin, pendingAdmin <- rePending, paused <- rePaused,
  RewardsDeployer <- Admin, TokenAddress <- Star

ST == INSTANCE StarToken WITH
  admin <- stAdmin, pendingAdmin <- stPending, paused <- stPaused,
  TokenDeployer <- Admin

peVars == <<peAdmin, pePending, pePaused, operator, contracts, payment>>
mrVars == <<mrAdmin, mrPending, mrPaused, merchant>>
reVars == <<reAdmin, rePending, rePaused, starToken, issuer, reward>>
stVars == <<stAdmin, stPending, stPaused, minter, authorized, balance, supply,
            allowance, feeBurn, ledger>>
vars == <<peVars, mrVars, reVars, stVars, otherSupply>>

TypeOK ==
  PE!TypeOK /\ MR!TypeOK /\ RE!TypeOK /\ ST!TypeOK /\ otherSupply \in Int

Init ==
  PE!Init /\ MR!Init /\ RE!Init /\ ST!Init /\ otherSupply = 0

-----------------------------------------------------------------------------
(* Calls that stay inside one contract.                                    *)

PaymentsOnly(s) ==
  /\ \/ \E a \in Settable.admin : PE!SetAdmin(s, a)
     \/ PE!AcceptAdmin(s)
     \/ PE!Pause(s) \/ PE!Unpause(s)
     \/ \E a \in Settable.operator, on \in BOOLEAN : PE!SetOperator(s, a, on)
     \/ \E a \in Settable.registry, b \in Settable.rewards : PE!SetContracts(s, a, b)
     \/ \E p \in PaymentId :
          \/ \E q \in QuoteInput : PE!QuotePayment(s, p, q)
          \/ PE!MarkConverted(s, p) \/ PE!MarkSettled(s, p)
          \/ PE!CompletePayment(s, p)
          \/ PE!CancelPayment(s, p) \/ PE!FailPayment(s, p)
  /\ UNCHANGED <<mrVars, reVars, stVars, otherSupply>>

RegistryOnly(s) ==
  /\ \/ \E a \in Settable.admin : MR!SetAdmin(s, a)
     \/ MR!AcceptAdmin(s)
     \/ MR!Pause(s) \/ MR!Unpause(s)
     \/ \E m \in MerchantId :
          \/ \E o \in Signer, d \in Metadata : MR!RegisterMerchant(s, m, o, d)
          \/ MR!ApproveMerchant(s, m) \/ MR!SuspendMerchant(s, m)
          \/ MR!RejectMerchant(s, m)
          \/ \E d \in Metadata : MR!UpdateMetadata(s, m, d)
          \/ \E o \in Signer : MR!TransferOwner(s, m, o)
  /\ UNCHANGED <<peVars, reVars, stVars, otherSupply>>

RewardsConfig(s) ==
  /\ \/ \E a \in Settable.admin : RE!SetAdmin(s, a)
     \/ RE!AcceptAdmin(s)
     \/ RE!Pause(s) \/ RE!Unpause(s)
     \/ \E a \in Settable.issuer, on \in BOOLEAN : RE!SetIssuer(s, a, on)
     \/ \E a \in Settable.token : RE!SetStarToken(s, a)
  /\ UNCHANGED <<peVars, mrVars, stVars, otherSupply>>

TokenOnly(s) ==
  /\ \/ \E a \in Settable.admin : ST!SetAdmin(s, a)
     \/ ST!AcceptAdmin(s)
     \/ ST!Pause(s) \/ ST!Unpause(s)
     \/ \E on \in BOOLEAN, bps \in BasisPoint : ST!SetFeeBurnConfig(s, on, bps)
     \/ \E a \in Settable.minter, on \in BOOLEAN : ST!SetMinter(s, a, on)
     \/ \E a \in Settable.freeze, on \in BOOLEAN : ST!SetAuthorized(s, a, on)
     \/ ST!CoinStep(s)
  /\ otherSupply' = otherSupply + (supply' - supply)
  /\ UNCHANGED <<peVars, mrVars, reVars>>

CloseLedger == ST!CloseLedger /\ UNCHANGED <<peVars, mrVars, reVars, otherSupply>>

-----------------------------------------------------------------------------
(* Calls that reach another contract.                                      *)

CreatePayment(s) ==
  /\ \E payer \in Signer, p \in PaymentId, m \in MerchantId,
        paise \in AmountInput, r \in RewardId :
       PE!CreatePayment(s, payer, p, m, paise, r,
                        contracts.registry = Registry /\ MR!IsApproved(m))
  /\ UNCHANGED <<mrVars, reVars, stVars, otherSupply>>

\* The engine's mint on the token it is linked to.
EngineMints(to, amount) ==
  /\ starToken = Star
  /\ ST!MintFromMinter(Rewards, to, amount)

\* An issuer that signs for itself.
IssueDirectly(s) ==
  /\ \E id \in RewardId, to \in Signer, src \in SourceId :
       \/ \E paise \in AmountInput :
            /\ RE!IssueSpendReward(s, id, to, src, paise, TRUE)
            /\ EngineMints(to, RE!SpendReward(paise))
       \/ /\ RE!IssueReferralReward(s, id, to, src, TRUE)
          /\ EngineMints(to, RE!REFERRAL_REWARD_STAR)
       \/ \E n \in CampaignAmount :
            /\ RE!IssueCampaignReward(s, id, to, src, n, TRUE)
            /\ EngineMints(to, n)
  /\ UNCHANGED <<peVars, mrVars, otherSupply>>

\* What issue_spend_reward is worth for a payment, and whether it succeeds
\* with the payment engine as its issuer.
StarFor(p) == RE!SpendReward(payment[p].paise)

RewardSucceeds(p) ==
  /\ contracts.rewards = Rewards
  /\ RE!Issuable(Payments, payment[p].reward, StarFor(p))
  /\ starToken = Star
  /\ minter[Rewards]
  /\ ST!Mintable(payment[p].payer, StarFor(p))

\* Mutants: a failed reward is reported as if it had been minted; a failed
\* reward fails the call.
IssueRewardUnminted(s, p) ==
  /\ \/ /\ RewardSucceeds(p)
        /\ PE!IssueReward(s, p, StarFor(p))
        /\ RE!IssueSpendReward(Payments, payment[p].reward, payment[p].payer, p,
                               payment[p].paise, TRUE)
        /\ EngineMints(payment[p].payer, StarFor(p))
     \/ /\ ~RewardSucceeds(p)
        /\ PE!IssueReward(s, p, StarFor(p))
        /\ UNCHANGED <<reVars, stVars>>
  /\ UNCHANGED <<mrVars, otherSupply>>

IssueRewardOrFail(s, p) ==
  /\ RewardSucceeds(p)
  /\ PE!IssueReward(s, p, StarFor(p))
  /\ RE!IssueSpendReward(Payments, payment[p].reward, payment[p].payer, p,
                         payment[p].paise, TRUE)
  /\ EngineMints(payment[p].payer, StarFor(p))
  /\ UNCHANGED <<mrVars, otherSupply>>

\* try_issue_spend_reward: a failure is a reward of 0 and leaves no trace in
\* the reward engine and the token.
IssueReward(s, p) ==
  /\ \/ /\ RewardSucceeds(p)
        /\ PE!IssueReward(s, p, StarFor(p))
        /\ RE!IssueSpendReward(Payments, payment[p].reward, payment[p].payer, p,
                               payment[p].paise, TRUE)
        /\ EngineMints(payment[p].payer, StarFor(p))
     \/ /\ ~RewardSucceeds(p)
        /\ PE!IssueReward(s, p, 0)
        /\ UNCHANGED <<reVars, stVars>>
  /\ UNCHANGED <<mrVars, otherSupply>>

-----------------------------------------------------------------------------
StepBy(s) ==
  \/ PaymentsOnly(s) \/ RegistryOnly(s) \/ RewardsConfig(s) \/ TokenOnly(s)
  \/ CreatePayment(s) \/ IssueDirectly(s)
  \/ \E p \in PaymentId : IssueReward(s, p)

Next == CloseLedger \/ \E s \in Signer : StepBy(s)

Spec == Init /\ [][Next]_vars

\* The operators keep working: an operator that can make the reward or the
\* completion call again and again makes it in the end.
OperatorFairness ==
  \A p \in PaymentId :
    /\ SF_vars(\E s \in Signer : IssueReward(s, p))
    /\ SF_vars(\E s \in Signer : PE!CompletePayment(s, p)
                 /\ UNCHANGED <<mrVars, reVars, stVars, otherSupply>>)

FairSpec == Spec /\ OperatorFairness

-----------------------------------------------------------------------------
(* Safety and liveness across the contracts.                               *)

(* The STAR a payment claims to have earned exists as one reward record,   *)
(* issued by the payment engine to this payment's payer for this payment,  *)
(* and is what the amount is worth.  A payment whose reward id was already *)
(* used, or whose reward failed, claims nothing (payment-engine            *)
(* lib.rs:460-471, reward-engine lib.rs:356-387).                          *)
RewardBacked ==
  \A p \in PaymentId : payment[p].star > 0 =>
    reward[payment[p].reward] =
      [recipient |-> payment[p].payer, source |-> p, issuer |-> Payments,
       kind |-> "Spend", amount |-> StarFor(p)]
    /\ payment[p].star = StarFor(p)

(* No STAR is created by rewards except one mint per reward record, of the *)
(* recorded amount: the supply is the recorded rewards plus what direct    *)
(* token calls created and burned (reward-engine lib.rs:721-725).          *)
SupplyAccounted ==
  supply = MapThenSumSet(LAMBDA r : reward[r].amount, RewardId) + otherSupply

(* A payment is only ever stored for a merchant that is approved at that   *)
(* moment in the registry the engine is linked to, whatever suspensions    *)
(* and rejections interleave (payment-engine lib.rs:347-351).              *)
CreatedOnlyIfApproved ==
  [][\A p \in PaymentId :
       payment[p].status = "Absent" /\ payment'[p].status # "Absent" =>
         merchant[payment'[p].merchant].status = "Approved"]_vars

(* "a settled payment must still be able to reach a terminal state instead *)
(* of being permanently trapped in Settled" (payment-engine lib.rs:454-459)*)
(* with the reward engine paused, unlinked or without rights, the token    *)
(* paused or at its cap, or the payer frozen, every settled payment ends   *)
(* as long as the engine is not paused for good and keeps an operator.     *)
SettledPaymentsEnd ==
  []<>(~pePaused /\ \E s \in Signer : operator[s]) =>
    \A p \in PaymentId :
      payment[p].status = "Settled" ~> payment[p].status \in {"Completed", "Failed"}
=============================================================================

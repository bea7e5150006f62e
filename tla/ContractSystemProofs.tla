------------------------ MODULE ContractSystemProofs ------------------------
(***************************************************************************)
(* What the four contracts guarantee together, for every number of         *)
(* payments, keys and reward ids.  RewardBacked relates the payment engine *)
(* to the reward engine.  It is inductive with the types of the two tables *)
(* and with the fact that a stored payment names a reward id: a payment    *)
(* that has STAR has a reward record, so no later reward can take its id.  *)
(*                                                                         *)
(* A settled payment always has a way out, and takes no other.             *)
(*                                                                         *)
(* Each contract within the system is then shown to behave like the        *)
(* contract alone, which carries its theorems over, and the supply of STAR *)
(* to be the sum of the reward records and the direct calls.               *)
(***************************************************************************)
EXTENDS ContractSystem, SumTheorems, TLAPS

Tables ==
  /\ payment \in [PaymentId -> PE!PaymentRecord]
  /\ reward \in [RewardId -> RE!RewardRecord]

RewardNamed ==
  \A p \in PaymentId :
    payment[p].status # "Absent" \/ payment[p].star > 0 => payment[p].reward \in RewardId

IInv == Tables /\ RewardNamed /\ RewardBacked

\* What RewardBacked says of one payment.
Backed(p) ==
  payment[p].star > 0 =>
    reward[payment[p].reward] =
      [recipient |-> payment[p].payer, source |-> p, issuer |-> Payments,
       kind |-> "Spend", amount |-> StarFor(p)]
    /\ payment[p].star = StarFor(p)

LEMMA BackedOne == RewardBacked <=> \A p \in PaymentId : Backed(p)
BY DEF RewardBacked, Backed

LEMMA StarForTyped ==
  ASSUME Tables, NEW p \in PaymentId
  PROVE  StarFor(p) \in Int
<1>1. payment[p].paise \in Int
  BY DEF Tables, PE!PaymentRecord
<1> QED
  BY <1>1 DEF StarFor, RE!SpendReward, RE!PAISE_PER_100_INR,
              RE!SPEND_REWARD_STAR_PER_100_INR

-----------------------------------------------------------------------------
(* Steps of the payment engine that store no STAR.                         *)

\* One payment moves on; its terms and its STAR stay.
Moves(p) ==
  /\ payment' = [payment EXCEPT ![p] = payment'[p]]
  /\ payment'[p] \in PE!PaymentRecord
  /\ payment[p].status # "Absent" /\ payment'[p].status # "Absent"
  /\ payment'[p].payer = payment[p].payer /\ payment'[p].reward = payment[p].reward
  /\ payment'[p].paise = payment[p].paise /\ payment'[p].star = payment[p].star

PaymentMove(s, p) ==
  \/ \E q \in QuoteInput : PE!QuotePayment(s, p, q)
  \/ PE!MarkConverted(s, p) \/ PE!MarkSettled(s, p)
  \/ PE!CompletePayment(s, p)
  \/ PE!CancelPayment(s, p) \/ PE!FailPayment(s, p)

LEMMA StatusMoves ==
  ASSUME Tables, NEW p \in PaymentId, NEW to \in PE!Status \ {"Absent"},
         payment' = [payment EXCEPT ![p].status = to], payment[p].status # "Absent"
  PROVE  Moves(p)
BY DEF Tables, PE!PaymentRecord, Moves

LEMMA PaymentMoveMoves ==
  ASSUME Tables, NEW s \in Signer, NEW p \in PaymentId, PaymentMove(s, p)
  PROVE  Moves(p)
<1>1. CASE \E q \in QuoteInput : PE!QuotePayment(s, p, q)
  <2>1. PICK q \in QuoteInput : PE!QuotePayment(s, p, q)
    BY <1>1
  <2>2. payment[p] \in PE!PaymentRecord /\ payment[p].status = "Created"
    BY <2>1 DEF Tables, PE!QuotePayment
  <2>3. q.usdc \in Int /\ q.fee \in Int /\ "Quoted" \in PE!Status
    BY SystemDataAssumption DEF PE!Status
  <2>4. /\ payment'[p] = [payment[p] EXCEPT !.status = "Quoted", !.usdc = q.usdc, !.fee = q.fee]
        /\ payment' = [payment EXCEPT ![p] = payment'[p]]
    BY <2>1 DEF Tables, PE!QuotePayment
  <2> QED
    BY <2>2, <2>3, <2>4 DEF Moves, PE!PaymentRecord
<1>2. CASE PE!MarkConverted(s, p) \/ PE!MarkSettled(s, p) \/ PE!CompletePayment(s, p)
  <2>1. \E to \in PE!Status \ {"Absent"} :
          payment' = [payment EXCEPT ![p].status = to] /\ payment[p].status # "Absent"
    BY <1>2 DEF PE!MarkConverted, PE!MarkSettled, PE!CompletePayment, PE!Transition, PE!Status
  <2> QED
    BY <2>1, StatusMoves
<1>3. CASE PE!CancelPayment(s, p) \/ PE!FailPayment(s, p)
  <2>1. \E to \in PE!Status \ {"Absent"} :
          payment' = [payment EXCEPT ![p].status = to] /\ payment[p].status # "Absent"
    BY <1>3 DEF PE!CancelPayment, PE!FailPayment, PE!HasPayment, PE!Status
  <2> QED
    BY <2>1, StatusMoves
<1> QED
  BY <1>1, <1>2, <1>3 DEF PaymentMove

LEMMA MovesKeepIInv ==
  ASSUME IInv, NEW p \in PaymentId, Moves(p), reward' = reward
  PROVE  IInv'
<1>1. Tables'
  BY DEF IInv, Tables, Moves
<1>2. ASSUME NEW q \in PaymentId
      PROVE  /\ payment'[q].payer = payment[q].payer /\ payment'[q].reward = payment[q].reward
             /\ payment'[q].paise = payment[q].paise /\ payment'[q].star = payment[q].star
             /\ payment'[q].status # "Absent" => payment[q].status # "Absent"
  <2>1. CASE q = p
    BY <2>1 DEF Moves
  <2>2. CASE q # p
    BY <2>2 DEF Moves, IInv, Tables
  <2> QED
    BY <2>1, <2>2
<1>3. RewardNamed'
  BY <1>2 DEF IInv, RewardNamed
<1>4. ASSUME NEW q \in PaymentId PROVE Backed(q)'
  BY <1>2, BackedOne DEF IInv, Backed, StarFor
<1>5. RewardBacked'
  BY <1>4 DEF RewardBacked, Backed
<1> QED
  BY <1>1, <1>3, <1>5 DEF IInv

LEMMA CreateKeepsIInv ==
  ASSUME IInv, NEW s \in Signer, CreatePayment(s)
  PROVE  IInv'
<1>1. PICK payer \in Signer, p \in PaymentId, m \in MerchantId, paise \in AmountInput,
           r \in RewardId :
        PE!CreatePayment(s, payer, p, m, paise, r,
                         contracts.registry = Registry /\ MR!IsApproved(m))
  BY DEF CreatePayment
<1> DEFINE rec == [PE!AbsentPayment EXCEPT !.status = "Created", !.payer = payer,
                     !.merchant = m, !.paise = paise, !.reward = r]
<1>2. payment' = [payment EXCEPT ![p] = rec] /\ reward' = reward
  BY <1>1 DEF CreatePayment, PE!CreatePayment, reVars
<1>3. rec \in PE!PaymentRecord /\ rec.reward \in RewardId /\ rec.star = 0
  <2>1. PE!AbsentPayment \in PE!PaymentRecord
    BY DEF PE!AbsentPayment, PE!PaymentRecord, PE!Status
  <2>2. payer \in Address /\ paise \in Int /\ "Created" \in PE!Status
    BY SystemAddressAssumption, SystemDataAssumption DEF PE!Status
  <2>3. rec \in PE!PaymentRecord
    BY <2>1, <2>2 DEF PE!PaymentRecord
  <2> QED
    BY <2>3 DEF PE!AbsentPayment
<1> HIDE DEF rec
<1>4. Tables'
  BY <1>2, <1>3 DEF IInv, Tables
<1>5. \A q \in PaymentId : payment'[q] = IF q = p THEN rec ELSE payment[q]
  BY <1>2 DEF IInv, Tables
<1>6. RewardNamed'
  BY <1>3, <1>5 DEF IInv, RewardNamed
<1>7. ASSUME NEW q \in PaymentId PROVE Backed(q)'
  <2>1. CASE q = p
    BY <1>3, <1>5, <2>1 DEF Backed
  <2>2. CASE q # p
    BY <1>2, <1>5, <2>2, BackedOne DEF IInv, Backed, StarFor
  <2> QED
    BY <2>1, <2>2
<1> QED
  BY <1>4, <1>6, <1>7 DEF IInv, RewardBacked, Backed

-----------------------------------------------------------------------------
(* Steps that store a reward.                                              *)

\* A new record under an id that had none.
Stores(id, rec) ==
  /\ rec \in RE!RewardRecord
  /\ reward[id].amount = 0
  /\ reward' = [reward EXCEPT ![id] = rec]

LEMMA BackedHasReward ==
  ASSUME IInv, NEW q \in PaymentId, payment[q].star > 0
  PROVE  payment[q].reward \in RewardId /\ reward[payment[q].reward].amount # 0
<1>1. Backed(q) /\ payment[q].reward \in RewardId /\ payment[q].star \in Int
  BY BackedOne DEF IInv, RewardNamed, Tables, PE!PaymentRecord
<1>2. reward[payment[q].reward].amount = payment[q].star
  BY <1>1 DEF Backed
<1> QED
  BY <1>1, <1>2

LEMMA StoresKeepIInv ==
  ASSUME IInv, NEW id \in RewardId, NEW rec, Stores(id, rec), payment' = payment
  PROVE  IInv'
<1>1. Tables' /\ RewardNamed'
  BY DEF IInv, Tables, RewardNamed, Stores
<1>2. ASSUME NEW q \in PaymentId PROVE Backed(q)'
  <2>1. CASE payment[q].star > 0
    <3>1. payment[q].reward \in RewardId /\ payment[q].reward # id
      BY <2>1, BackedHasReward DEF Stores
    <3>2. reward'[payment[q].reward] = reward[payment[q].reward]
      BY <3>1 DEF Stores, IInv, Tables
    <3> QED
      BY <3>2, BackedOne DEF IInv, Backed, StarFor
  <2>2. CASE ~(payment[q].star > 0)
    BY <2>2 DEF Backed
  <2> QED
    BY <2>1, <2>2
<1> QED
  BY <1>1, <1>2 DEF IInv, RewardBacked, Backed

\* Every issuing call of the reward engine stores a new record.
LEMMA IssueStores ==
  ASSUME NEW who \in Address, NEW id \in RewardId, NEW to \in Address \cup {NoAddress},
         NEW src \in SourceId, NEW kind \in {"Spend", "Referral", "Campaign"},
         NEW n \in Int, RE!Issue(who, id, to, src, kind, n, TRUE)
  PROVE  /\ Stores(id, [recipient |-> to, source |-> src, issuer |-> who,
                        kind |-> kind, amount |-> n])
         /\ n > 0
<1> DEFINE rec == [recipient |-> to, source |-> src, issuer |-> who, kind |-> kind, amount |-> n]
<1>1. n > 0 /\ reward[id].amount = 0 /\ reward' = [reward EXCEPT ![id] = rec]
  BY DEF RE!Issue, RE!Issuable, RE!HasReward
<1>2. n \in Nat
  BY <1>1
<1>3. rec \in RE!RewardRecord
  BY <1>2 DEF RE!RewardRecord
<1> QED
  BY <1>1, <1>3 DEF Stores

LEMMA IssueDirectlyKeepsIInv ==
  ASSUME IInv, NEW s \in Signer, IssueDirectly(s)
  PROVE  IInv'
<1>0. s \in Address /\ payment' = payment
  BY SystemAddressAssumption DEF IssueDirectly, peVars
<1>1. PICK id \in RewardId, to \in Signer, src \in SourceId :
        \/ \E paise \in AmountInput : RE!IssueSpendReward(s, id, to, src, paise, TRUE)
        \/ RE!IssueReferralReward(s, id, to, src, TRUE)
        \/ \E n \in CampaignAmount : RE!IssueCampaignReward(s, id, to, src, n, TRUE)
  BY DEF IssueDirectly
<1>2. to \in Address
  BY SystemAddressAssumption
<1>3. \E n \in Int, kind \in {"Spend", "Referral", "Campaign"} :
        RE!Issue(s, id, to, src, kind, n, TRUE)
  <2>1. ASSUME NEW paise \in AmountInput PROVE RE!SpendReward(paise) \in Int
    BY SystemDataAssumption
       DEF RE!SpendReward, RE!PAISE_PER_100_INR, RE!SPEND_REWARD_STAR_PER_100_INR
  <2>2. RE!REFERRAL_REWARD_STAR \in Int
    BY DEF RE!REFERRAL_REWARD_STAR
  <2>3. ASSUME NEW n \in CampaignAmount PROVE n \in Int
    BY SystemDataAssumption
  <2> QED
    BY <1>1, <2>1, <2>2, <2>3
       DEF RE!IssueSpendReward, RE!IssueReferralReward, RE!IssueCampaignReward
<1>4. \E rec : Stores(id, rec)
  BY <1>0, <1>2, <1>3, IssueStores
<1> QED
  BY <1>0, <1>4, StoresKeepIInv

-----------------------------------------------------------------------------
(* The reward step of a payment.                                           *)

\* What the payment engine stores, whatever the reward engine answered.
Earns(p, star) ==
  /\ payment[p].status = "Settled"
  /\ payment' = [payment EXCEPT ![p].status = "Rewarded", ![p].star = star]

LEMMA FailedRewardKeepsIInv ==
  ASSUME IInv, NEW p \in PaymentId, Earns(p, 0), reward' = reward
  PROVE  IInv'
<1> DEFINE rec == [payment[p] EXCEPT !.status = "Rewarded", !.star = 0]
<1>1. payment[p] \in PE!PaymentRecord /\ payment[p].reward \in RewardId
  BY DEF IInv, Tables, RewardNamed, Earns
<1>2. payment' = [payment EXCEPT ![p] = rec]
  BY DEF Earns, IInv, Tables
<1>3. rec \in PE!PaymentRecord /\ rec.star = 0 /\ rec.reward = payment[p].reward
  BY <1>1 DEF PE!PaymentRecord, PE!Status
<1> HIDE DEF rec
<1>4. Tables'
  BY <1>2, <1>3 DEF IInv, Tables
<1>5. \A q \in PaymentId : payment'[q] = IF q = p THEN rec ELSE payment[q]
  BY <1>2 DEF IInv, Tables
<1>6. RewardNamed'
  BY <1>1, <1>3, <1>5 DEF IInv, RewardNamed
<1>7. ASSUME NEW q \in PaymentId PROVE Backed(q)'
  <2>1. CASE q = p
    BY <1>3, <1>5, <2>1 DEF Backed
  <2>2. CASE q # p
    BY <1>5, <2>2, BackedOne DEF IInv, Backed, StarFor
  <2> QED
    BY <2>1, <2>2
<1> QED
  BY <1>4, <1>6, <1>7 DEF IInv, RewardBacked, Backed

LEMMA PaidRewardKeepsIInv ==
  ASSUME IInv, NEW p \in PaymentId, Earns(p, StarFor(p)), StarFor(p) > 0,
         Stores(payment[p].reward,
                [recipient |-> payment[p].payer, source |-> p, issuer |-> Payments,
                 kind |-> "Spend", amount |-> StarFor(p)])
  PROVE  IInv'
<1> DEFINE n == StarFor(p)
           id == payment[p].reward
           rec == [payment[p] EXCEPT !.status = "Rewarded", !.star = n]
           new == [recipient |-> payment[p].payer, source |-> p, issuer |-> Payments,
                   kind |-> "Spend", amount |-> n]
<1>1. payment[p] \in PE!PaymentRecord /\ id \in RewardId
  BY DEF IInv, Tables, RewardNamed, Earns
<1>2. n \in Int /\ n > 0
  BY StarForTyped DEF IInv
<1>3. Stores(id, new) /\ payment' = [payment EXCEPT ![p] = rec]
  BY DEF Earns, IInv, Tables
<1>4. /\ rec \in PE!PaymentRecord /\ rec.star = n /\ rec.reward = id
      /\ rec.payer = payment[p].payer /\ rec.paise = payment[p].paise
  <2>1. n \in Nat
    BY <1>2
  <2> HIDE DEF n
  <2>2. rec \in PE!PaymentRecord
    BY <1>1, <2>1 DEF PE!PaymentRecord, PE!Status
  <2>3. DOMAIN payment[p] = {"status", "payer", "merchant", "reward", "paise", "usdc", "fee", "star"}
    BY <1>1 DEF PE!PaymentRecord
  <2> QED
    BY <2>2, <2>3
<1>5. n = RE!SpendReward(payment[p].paise)
  BY DEF StarFor
<1>6. new.recipient = payment[p].payer
  OBVIOUS
<1> HIDE DEF rec, n
<1>7. reward' = [reward EXCEPT ![id] = new] /\ new \in RE!RewardRecord /\ reward[id].amount = 0
  BY <1>3 DEF Stores
<1>8. Tables'
  <2> HIDE DEF new, id
  <2> QED
    BY <1>1, <1>3, <1>4, <1>7 DEF IInv, Tables
<1>9. \A q \in PaymentId : payment'[q] = IF q = p THEN rec ELSE payment[q]
  BY <1>3 DEF IInv, Tables
<1>10. \A r \in RewardId : reward'[r] = IF r = id THEN new ELSE reward[r]
  BY <1>7 DEF IInv, Tables
<1>11. RewardNamed'
  BY <1>1, <1>4, <1>9 DEF IInv, RewardNamed
<1>12. ASSUME NEW q \in PaymentId PROVE Backed(q)'
  <2>1. CASE q = p
    <3>1. payment'[q] = rec /\ reward'[rec.reward] = new
      BY <1>1, <1>4, <1>9, <1>10, <2>1
    <3>2. StarFor(q)' = n
      BY <3>1, <1>4, <1>5 DEF StarFor
    <3> QED
      BY <3>1, <3>2, <1>4, <2>1 DEF Backed
  <2>2. CASE q # p
    <3>1. payment'[q] = payment[q]
      BY <1>9, <2>2
    <3>2. CASE payment[q].star > 0
      <4>1. payment[q].reward \in RewardId /\ payment[q].reward # id
        BY <3>2, <1>7, BackedHasReward
      <4>2. reward'[payment[q].reward] = reward[payment[q].reward]
        BY <4>1, <1>10
      <4> QED
        BY <3>1, <4>2, BackedOne DEF IInv, Backed, StarFor
    <3>3. CASE ~(payment[q].star > 0)
      BY <3>1, <3>3 DEF Backed
    <3> QED
      BY <3>2, <3>3
  <2> QED
    BY <2>1, <2>2
<1> QED
  BY <1>8, <1>11, <1>12 DEF IInv, RewardBacked, Backed

LEMMA IssueKeepsIInv ==
  ASSUME IInv, NEW s \in Signer, NEW p \in PaymentId, IssueReward(s, p)
  PROVE  IInv'
<1>1. CASE RewardSucceeds(p)
  <2>1. /\ PE!IssueReward(s, p, StarFor(p))
        /\ RE!IssueSpendReward(Payments, payment[p].reward, payment[p].payer, p,
                               payment[p].paise, TRUE)
    BY <1>1 DEF IssueReward
  <2>2. Earns(p, StarFor(p))
    BY <2>1 DEF PE!IssueReward, Earns
  <2>3. payment[p] \in PE!PaymentRecord /\ payment[p].reward \in RewardId
    BY <2>2 DEF IInv, Tables, RewardNamed, Earns
  <2>4. payment[p].payer \in Address \cup {NoAddress} /\ p \in SourceId /\ Payments \in Address
    BY <2>3, SystemAddressAssumption, SystemDataAssumption DEF PE!PaymentRecord
  <2>5. RE!Issue(Payments, payment[p].reward, payment[p].payer, p, "Spend", StarFor(p), TRUE)
    BY <2>1 DEF RE!IssueSpendReward, StarFor
  <2>6. StarFor(p) \in Int
    BY StarForTyped DEF IInv
  <2>7. /\ Stores(payment[p].reward,
                  [recipient |-> payment[p].payer, source |-> p, issuer |-> Payments,
                   kind |-> "Spend", amount |-> StarFor(p)])
        /\ StarFor(p) > 0
    BY <2>3, <2>4, <2>5, <2>6, IssueStores
  <2> QED
    BY <2>2, <2>7, PaidRewardKeepsIInv
<1>2. CASE ~RewardSucceeds(p)
  <2>1. PE!IssueReward(s, p, 0) /\ reward' = reward
    BY <1>2 DEF IssueReward, reVars
  <2>2. Earns(p, 0)
    BY <2>1 DEF PE!IssueReward, Earns
  <2> QED
    BY <2>1, <2>2, FailedRewardKeepsIInv
<1> QED
  BY <1>1, <1>2

-----------------------------------------------------------------------------
(* The whole system.                                                       *)

LEMMA UnchangedKeepsIInv ==
  ASSUME IInv, UNCHANGED <<payment, reward>>
  PROVE  IInv'
BY DEF IInv, Tables, RewardNamed, RewardBacked, StarFor

\* A call inside the payment engine configures it or moves one payment.
LEMMA PaymentsOnlyMoves ==
  ASSUME Tables, NEW s \in Signer, PaymentsOnly(s)
  PROVE  reward' = reward /\ (payment' = payment \/ \E p \in PaymentId : Moves(p))
<1>1. reward' = reward
  BY DEF PaymentsOnly, reVars
<1>2. CASE \E p \in PaymentId : PaymentMove(s, p)
  BY <1>1, <1>2, PaymentMoveMoves
<1>3. CASE ~\E p \in PaymentId : PaymentMove(s, p)
  BY <1>1, <1>3 DEF PaymentsOnly, PaymentMove, PE!SetAdmin, PE!AcceptAdmin, PE!Pause,
                    PE!Unpause, PE!SetOperator, PE!SetContracts
<1> QED
  BY <1>2, <1>3

LEMMA ElsewhereKeepsBoth ==
  ASSUME NEW s \in Signer,
         RegistryOnly(s) \/ RewardsConfig(s) \/ TokenOnly(s) \/ CloseLedger
  PROVE  UNCHANGED <<payment, reward>>
<1>1. CASE RegistryOnly(s)
  BY <1>1 DEF RegistryOnly, peVars, reVars
<1>2. CASE RewardsConfig(s)
  BY <1>2 DEF RewardsConfig, peVars, RE!SetAdmin, RE!AcceptAdmin, RE!Pause, RE!Unpause,
              RE!SetIssuer, RE!SetStarToken
<1>3. CASE TokenOnly(s)
  BY <1>3 DEF TokenOnly, peVars, reVars
<1>4. CASE CloseLedger
  BY <1>4 DEF CloseLedger, peVars, reVars
<1> QED
  BY <1>1, <1>2, <1>3, <1>4

LEMMA InitIInv == Init => IInv
<1> SUFFICES ASSUME Init PROVE IInv
  OBVIOUS
<1>1. PE!AbsentPayment \in PE!PaymentRecord /\ RE!AbsentReward \in RE!RewardRecord
  BY DEF PE!AbsentPayment, PE!PaymentRecord, PE!Status, RE!AbsentReward, RE!RewardRecord
<1>2. /\ payment = [p \in PaymentId |-> PE!AbsentPayment]
      /\ reward = [r \in RewardId |-> RE!AbsentReward]
  BY DEF Init, PE!Init, RE!Init
<1>3. \A p \in PaymentId : payment[p].status = "Absent" /\ payment[p].star = 0
  BY <1>2 DEF PE!AbsentPayment
<1> QED
  BY <1>1, <1>2, <1>3 DEF IInv, Tables, RewardNamed, RewardBacked

LEMMA NextIInv == IInv /\ [Next]_vars => IInv'
<1> SUFFICES ASSUME IInv, [Next]_vars PROVE IInv'
  OBVIOUS
<1>1. CASE UNCHANGED vars
  BY <1>1, UnchangedKeepsIInv DEF vars, peVars, reVars
<1>2. CASE CloseLedger
  <2>1. Admin \in Signer
    BY SystemAddressAssumption
  <2> QED
    BY <1>2, <2>1, ElsewhereKeepsBoth, UnchangedKeepsIInv
<1>3. ASSUME NEW s \in Signer, StepBy(s) PROVE IInv'
  <2>1. CASE PaymentsOnly(s)
    BY <2>1, PaymentsOnlyMoves, MovesKeepIInv, UnchangedKeepsIInv DEF IInv
  <2>2. CASE RegistryOnly(s) \/ RewardsConfig(s) \/ TokenOnly(s)
    BY <2>2, ElsewhereKeepsBoth, UnchangedKeepsIInv
  <2>3. CASE CreatePayment(s)
    BY <2>3, CreateKeepsIInv
  <2>4. CASE IssueDirectly(s)
    BY <2>4, IssueDirectlyKeepsIInv
  <2>5. CASE \E p \in PaymentId : IssueReward(s, p)
    BY <2>5, IssueKeepsIInv
  <2> QED
    BY <1>3, <2>1, <2>2, <2>3, <2>4, <2>5 DEF StepBy
<1> QED
  BY <1>1, <1>2, <1>3 DEF Next

(* In every state of the system, the inductive invariant: the two tables   *)
(* are typed, stored payments name a reward id, and STAR is backed         *)
(* (payment-engine lib.rs:454-471, reward-engine lib.rs:356-387).          *)
THEOREM IInvHolds == Spec => []IInv
<1> QED
  BY InitIInv, NextIInv, PTL DEF Spec

(* Whatever the admins, operators and issuers do, in any order: the STAR a *)
(* payment claims is one reward record issued by the payment engine to its *)
(* payer for this payment (payment-engine lib.rs:460-471).                 *)
THEOREM RewardsAreBacked == Spec => []RewardBacked
<1>1. IInv => RewardBacked
  BY DEF IInv
<1> QED
  BY <1>1, IInvHolds, PTL

\* A step that stores a payment is create_payment on an approved merchant.
LEMMA StoringIsCreating ==
  ASSUME IInv, [Next]_vars, NEW p \in PaymentId,
         payment[p].status = "Absent", payment'[p].status # "Absent"
  PROVE  \E s \in Signer : CreatePayment(s)
<1>1. payment' # payment
  OBVIOUS
<1>2. PICK s \in Signer : CloseLedger \/ StepBy(s)
  <2>1. Admin \in Signer
    BY SystemAddressAssumption
  <2>2. Next
    BY <1>1 DEF vars, peVars
  <2> QED
    BY <2>1, <2>2 DEF Next
<1>3. ~(CloseLedger \/ RegistryOnly(s) \/ RewardsConfig(s) \/ TokenOnly(s))
  BY <1>1, ElsewhereKeepsBoth
<1>4. ~IssueDirectly(s)
  BY <1>1 DEF IssueDirectly, peVars
<1>5. ASSUME NEW q \in PaymentId, Moves(q) PROVE FALSE
  BY <1>5 DEF Moves, IInv, Tables
<1>6. ~PaymentsOnly(s)
  BY <1>1, <1>5, PaymentsOnlyMoves DEF IInv
<1>7. ASSUME NEW q \in PaymentId, IssueReward(s, q) PROVE FALSE
  <2>1. \E star : Earns(q, star)
    BY <1>7 DEF IssueReward, PE!IssueReward, Earns
  <2> QED
    BY <2>1 DEF Earns, IInv, Tables
<1> QED
  BY <1>2, <1>3, <1>4, <1>6, <1>7 DEF StepBy

(* A payment is stored only for a merchant that is approved in that very   *)
(* step, whatever suspensions, rejections and relinkings came before       *)
(* (payment-engine lib.rs:347-351).                                        *)
THEOREM CreationNeedsApproval == Spec => CreatedOnlyIfApproved
<1> DEFINE Approved ==
      \A p \in PaymentId :
        payment[p].status = "Absent" /\ payment'[p].status # "Absent" =>
          merchant[payment'[p].merchant].status = "Approved"
<1>1. IInv /\ [Next]_vars => [Approved]_vars
  <2> SUFFICES ASSUME IInv, [Next]_vars, NEW p \in PaymentId,
                      payment[p].status = "Absent", payment'[p].status # "Absent"
               PROVE  merchant[payment'[p].merchant].status = "Approved"
    OBVIOUS
  <2>1. PICK s \in Signer : CreatePayment(s)
    BY StoringIsCreating
  <2>2. PICK payer \in Signer, q \in PaymentId, m \in MerchantId, paise \in AmountInput,
             r \in RewardId :
          PE!CreatePayment(s, payer, q, m, paise, r,
                           contracts.registry = Registry /\ MR!IsApproved(m))
    BY <2>1 DEF CreatePayment
  <2>3. /\ payment' = [payment EXCEPT ![q] =
                         [PE!AbsentPayment EXCEPT !.status = "Created", !.payer = payer,
                            !.merchant = m, !.paise = paise, !.reward = r]]
        /\ MR!IsApproved(m)
    BY <2>2 DEF PE!CreatePayment
  <2>4. p = q
    BY <2>3 DEF IInv, Tables
  <2>5. payment'[p].merchant = m
    BY <2>3, <2>4 DEF IInv, Tables, PE!AbsentPayment
  <2> QED
    BY <2>3, <2>5 DEF MR!IsApproved
<1> QED
  BY <1>1, IInvHolds, PTL DEF Spec, CreatedOnlyIfApproved

-----------------------------------------------------------------------------
(* The way out of Settled.                                                 *)

\* The state issue_reward leaves behind, every variable of it.
AfterReward(p) ==
  LET won == RewardSucceeds(p)
      n == StarFor(p)
      to == payment[p].payer
  IN
  /\ payment' = [payment EXCEPT ![p].status = "Rewarded",
                                ![p].star = IF won THEN n ELSE 0]
  /\ reward' = IF won THEN [reward EXCEPT ![payment[p].reward] =
                              [recipient |-> to, source |-> p, issuer |-> Payments,
                               kind |-> "Spend", amount |-> n]]
               ELSE reward
  /\ balance' = IF won THEN [balance EXCEPT ![to] = @ + n] ELSE balance
  /\ supply' = IF won THEN supply + n ELSE supply
  /\ UNCHANGED <<peAdmin, pePending, pePaused, operator, contracts, mrVars,
                 reAdmin, rePending, rePaused, starToken, issuer,
                 stAdmin, stPending, stPaused, minter, authorized,
                 allowance, feeBurn, ledger, otherSupply>>

(* "a settled payment must still be able to reach a terminal state instead *)
(* of being permanently trapped in Settled" (payment-engine lib.rs:454-459)*)
(* whatever the reward engine, the token, the links and the payer's        *)
(* account are like, an enabled operator of an engine that is not paused   *)
(* has an issue_reward step.  Its next state is given, variable by         *)
(* variable, so the step exists.                                           *)
THEOREM SettledHasAWayOut ==
  ASSUME Tables, NEW s \in Signer, NEW p \in PaymentId,
         ~pePaused, operator[s], payment[p].status = "Settled",
         AfterReward(p)
  PROVE  IssueReward(s, p)
<1>1. CASE RewardSucceeds(p)
  <2>1. PE!IssueReward(s, p, StarFor(p))
    BY <1>1 DEF AfterReward, PE!IssueReward, PE!RequireOperator, PE!configVars
  <2>2. payment[p].paise \in Int /\ StarFor(p) > 0
    BY <1>1 DEF RewardSucceeds, RE!Issuable, Tables, PE!PaymentRecord
  <2>3. payment[p].paise > 0
    BY <2>2 DEF StarFor, RE!SpendReward, RE!PAISE_PER_100_INR,
                RE!SPEND_REWARD_STAR_PER_100_INR
  <2>4. RE!Issue(Payments, payment[p].reward, payment[p].payer, p, "Spend", StarFor(p), TRUE)
    BY <1>1 DEF AfterReward, RE!Issue, RewardSucceeds, RE!configVars
  <2>5. RE!IssueSpendReward(Payments, payment[p].reward, payment[p].payer, p,
                            payment[p].paise, TRUE)
    BY <2>3, <2>4 DEF RE!IssueSpendReward, StarFor
  <2>6. EngineMints(payment[p].payer, StarFor(p))
    BY <1>1 DEF AfterReward, RewardSucceeds, EngineMints, ST!MintFromMinter, ST!MintEffect,
                ST!govVars, ST!roleVars
  <2> QED
    BY <1>1, <2>1, <2>5, <2>6 DEF IssueReward, AfterReward
<1>2. CASE ~RewardSucceeds(p)
  <2>1. PE!IssueReward(s, p, 0)
    BY <1>2 DEF AfterReward, PE!IssueReward, PE!RequireOperator, PE!configVars
  <2> QED
    BY <1>2, <2>1 DEF IssueReward, AfterReward, reVars, stVars
<1> QED
  BY <1>1, <1>2

\* Where one step may lead a payment that was settled.
Leads(from, to) ==
  /\ from = "Settled" => to \in {"Settled", "Rewarded", "Failed"}
  /\ from = "Rewarded" => to \in {"Rewarded", "Completed", "Failed"}
  /\ from \in {"Completed", "Failed"} => to = from

OnCourse == \A p \in PaymentId : Leads(payment[p].status, payment'[p].status)

LEMMA StatusOnCourse ==
  ASSUME Tables, NEW p \in PaymentId, NEW to,
         \A q \in PaymentId \ {p} : payment'[q] = payment[q],
         payment'[p].status = to, Leads(payment[p].status, to)
  PROVE  OnCourse
BY DEF OnCourse, Leads

LEMMA PaymentMoveOnCourse ==
  ASSUME Tables, NEW s \in Signer, NEW p \in PaymentId, PaymentMove(s, p)
  PROVE  OnCourse
<1>1. Moves(p)
  BY PaymentMoveMoves
<1>2. \A q \in PaymentId \ {p} : payment'[q] = payment[q]
  BY <1>1 DEF Moves, Tables
<1>3. payment[p] \in PE!PaymentRecord
  BY DEF Tables
<1>4. CASE \E q \in QuoteInput : PE!QuotePayment(s, p, q)
  BY <1>4, <1>2, StatusOnCourse DEF Leads, PE!QuotePayment
<1>5. CASE PE!MarkConverted(s, p) \/ PE!MarkSettled(s, p) \/ PE!CompletePayment(s, p)
  <2>1. \E to : /\ payment' = [payment EXCEPT ![p].status = to]
                /\ Leads(payment[p].status, to)
    BY <1>5 DEF PE!MarkConverted, PE!MarkSettled, PE!CompletePayment, PE!Transition, Leads
  <2> QED
    BY <1>2, <1>3, <2>1, StatusOnCourse DEF Tables, PE!PaymentRecord
<1>6. CASE PE!CancelPayment(s, p) \/ PE!FailPayment(s, p)
  <2>1. \E to : /\ payment' = [payment EXCEPT ![p].status = to]
                /\ Leads(payment[p].status, to)
    BY <1>6 DEF PE!CancelPayment, PE!FailPayment, Leads
  <2> QED
    BY <1>2, <1>3, <2>1, StatusOnCourse DEF Tables, PE!PaymentRecord
<1> QED
  BY <1>4, <1>5, <1>6 DEF PaymentMove

(* From Settled a payment goes to Rewarded or Failed and nowhere else,     *)
(* from Rewarded to Completed or Failed, and there it stays, whatever the  *)
(* admins and the other contracts do (payment-engine lib.rs:438-552).      *)
THEOREM SettledStaysOnCourse == Spec => [][OnCourse]_vars
<1>1. IInv /\ [Next]_vars => [OnCourse]_vars
  <2> SUFFICES ASSUME IInv, [Next]_vars PROVE OnCourse \/ UNCHANGED vars
    OBVIOUS
  <2>1. CASE payment' = payment
    BY <2>1 DEF OnCourse, Leads
  <2>2. CASE payment' # payment
    <3>1. PICK s \in Signer : CloseLedger \/ StepBy(s)
      <4>1. Admin \in Signer
        BY SystemAddressAssumption
      <4> QED
        BY <2>2, <4>1 DEF Next, vars, peVars
    <3>2. ~(CloseLedger \/ RegistryOnly(s) \/ RewardsConfig(s) \/ TokenOnly(s))
      BY <2>2, ElsewhereKeepsBoth
    <3>3. ~IssueDirectly(s)
      BY <2>2 DEF IssueDirectly, peVars
    <3>4. CASE PaymentsOnly(s)
      <4>1. CASE \E p \in PaymentId : PaymentMove(s, p)
        BY <4>1, PaymentMoveOnCourse DEF IInv
      <4>2. CASE ~\E p \in PaymentId : PaymentMove(s, p)
        BY <2>2, <3>4, <4>2 DEF PaymentsOnly, PaymentMove, PE!SetAdmin, PE!AcceptAdmin,
           PE!Pause, PE!Unpause, PE!SetOperator, PE!SetContracts
      <4> QED
        BY <4>1, <4>2
    <3>5. CASE CreatePayment(s)
      <4>1. PICK p \in PaymentId : \E rec : /\ payment[p].status = "Absent"
                                        /\ payment' = [payment EXCEPT ![p] = rec]
        BY <3>5 DEF CreatePayment, PE!CreatePayment, PE!HasPayment
      <4>2. \A q \in PaymentId \ {p} : payment'[q] = payment[q]
        BY <4>1 DEF IInv, Tables
      <4> QED
        BY <4>1, <4>2, StatusOnCourse DEF IInv, Leads
    <3>6. CASE \E p \in PaymentId : IssueReward(s, p)
      <4>1. PICK p \in PaymentId : \E star : Earns(p, star)
        BY <3>6 DEF IssueReward, PE!IssueReward, Earns
      <4>2. /\ \A q \in PaymentId \ {p} : payment'[q] = payment[q]
            /\ payment'[p].status = "Rewarded"
        BY <4>1 DEF Earns, IInv, Tables, PE!PaymentRecord
      <4> QED
        BY <4>1, <4>2, StatusOnCourse DEF IInv, Leads, Earns
    <3> QED
      BY <3>1, <3>2, <3>3, <3>4, <3>5, <3>6 DEF StepBy
  <2> QED
    BY <2>1, <2>2
<1> QED
  BY <1>1, IInvHolds, PTL DEF Spec

-----------------------------------------------------------------------------
(* Each contract within the system behaves like the contract alone.  To    *)
(* the reward engine and the token a caller may be a contract: the payment *)
(* engine authorizes its own calls, so every address can sign there, and   *)
(* any amount can be sent.  The observers of the audits are not used here. *)

PaymentsAlone == INSTANCE PaymentEngineProofs WITH
  admin <- peAdmin, pendingAdmin <- pePending, paused <- pePaused,
  Deployer <- Admin, RegistryAddress <- Registry, RewardsAddress <- Rewards,
  StarAmount <- Nat \ {0}, signer <- Admin, former <- {}

RegistryAlone == INSTANCE MerchantRegistryProofs WITH
  admin <- mrAdmin, pendingAdmin <- mrPending, paused <- mrPaused,
  RegistryDeployer <- Admin

RewardsAlone == INSTANCE RewardEngineProofs WITH
  admin <- reAdmin, pendingAdmin <- rePending, paused <- rePaused,
  RewardsDeployer <- Admin, TokenAddress <- Star, Signer <- Address,
  AmountInput <- Int, CampaignAmount <- Int, signer <- Admin, former <- {}

TokenAlone == INSTANCE StarTokenProofs WITH
  admin <- stAdmin, pendingAdmin <- stPending, paused <- stPaused,
  TokenDeployer <- Admin, Signer <- Address, TokenAmount <- Int,
  signer <- Admin, former <- {}

\* What the four modules assume of their constants holds of these.
LEMMA AssumptionsMet ==
  /\ NoAddress \notin Address /\ Admin \in Signer /\ Admin \in Address
  /\ Signer \subseteq Address /\ Address \subseteq Address /\ Spender \subseteq Address
  /\ {Registry, Rewards} \subseteq Address /\ Star \in Address /\ Payments \in Address
  /\ NoMerchant \notin MerchantId /\ NoReward \notin RewardId /\ NoSource \notin SourceId
  /\ NoMetadata \notin Metadata
  /\ AmountInput \subseteq Int /\ QuoteInput \subseteq [asset : Int, usdc : Int, fee : Int]
  /\ Nat \ {0} \subseteq Nat \ {0} /\ Int \subseteq Int
  /\ IntMax \in Nat /\ MaxSupply \in 1..IntMax /\ BasisPoint \subseteq Nat /\ LedgerBound \in Nat
  /\ IsFiniteSet(Address)
BY SystemAddressAssumption, SystemDataAssumption, SystemFiniteAssumption

LEMMA SettableTyped ==
  /\ Settable.operator \subseteq Address /\ Settable.issuer \subseteq Address
  /\ Settable.minter \subseteq Address /\ Settable.freeze \subseteq Address
  /\ Settable.registry \subseteq Address /\ Settable.rewards \subseteq Address
  /\ Settable.token \subseteq Address /\ Settable.admin \subseteq Address
BY SystemAddressAssumption

LEMMA InitsAlone == Init => PaymentsAlone!Init /\ RegistryAlone!Init /\ RewardsAlone!Init /\ TokenAlone!Init
<1>1. PE!Init <=> PaymentsAlone!Init
  BY DEF PE!Init, PaymentsAlone!Init, PE!Gov!GovInit, PaymentsAlone!Gov!GovInit, PE!AbsentPayment,
         PaymentsAlone!AbsentPayment
<1>2. MR!Init <=> RegistryAlone!Init
  BY DEF MR!Init, RegistryAlone!Init, MR!Gov!GovInit, RegistryAlone!Gov!GovInit, MR!AbsentMerchant,
         RegistryAlone!AbsentMerchant
<1>3. RE!Init <=> RewardsAlone!Init
  BY DEF RE!Init, RewardsAlone!Init, RE!Gov!GovInit, RewardsAlone!Gov!GovInit, RE!AbsentReward,
         RewardsAlone!AbsentReward
<1>4. ST!Init <=> TokenAlone!Init
  BY DEF ST!Init, TokenAlone!Init, ST!Gov!GovInit, TokenAlone!Gov!GovInit
<1> QED
  BY <1>1, <1>2, <1>3, <1>4 DEF Init

-----------------------------------------------------------------------------
(* The steps of each contract are those of the contract alone.             *)

LEMMA PaymentsConfigAlone ==
  ASSUME NEW s \in Signer,
         \/ \E a \in Settable.admin : PE!SetAdmin(s, a)
         \/ PE!AcceptAdmin(s)
         \/ PE!Pause(s) \/ PE!Unpause(s)
         \/ \E a \in Settable.operator, on \in BOOLEAN : PE!SetOperator(s, a, on)
         \/ \E a \in Settable.registry, b \in Settable.rewards : PE!SetContracts(s, a, b)
  PROVE  PaymentsAlone!ConfigStep(s)
<1>1. /\ \A a : PE!SetAdmin(s, a) <=> PaymentsAlone!SetAdmin(s, a)
      /\ PE!AcceptAdmin(s) <=> PaymentsAlone!AcceptAdmin(s)
      /\ PE!Pause(s) <=> PaymentsAlone!Pause(s)
      /\ PE!Unpause(s) <=> PaymentsAlone!Unpause(s)
      /\ \A a, on : PE!SetOperator(s, a, on) <=> PaymentsAlone!SetOperator(s, a, on)
      /\ \A a, b : PE!SetContracts(s, a, b) <=> PaymentsAlone!SetContracts(s, a, b)
  BY DEF PE!SetAdmin, PE!AcceptAdmin, PE!Pause, PE!Unpause, PE!SetOperator, PE!SetContracts,
         PE!Gov!ProposeAdmin, PE!Gov!ConfiguredBy, PE!Gov!ClaimAdmin, PE!Gov!SetPaused,
         PE!Gov!HandOver, PE!govVars, PaymentsAlone!SetAdmin, PaymentsAlone!AcceptAdmin,
         PaymentsAlone!Pause, PaymentsAlone!Unpause, PaymentsAlone!SetOperator,
         PaymentsAlone!SetContracts, PaymentsAlone!Gov!ProposeAdmin,
         PaymentsAlone!Gov!ConfiguredBy, PaymentsAlone!Gov!ClaimAdmin,
         PaymentsAlone!Gov!SetPaused, PaymentsAlone!Gov!HandOver, PaymentsAlone!govVars
<1> QED
  BY <1>1, SettableTyped DEF PaymentsAlone!ConfigStep

LEMMA PaymentMoveAlone ==
  ASSUME NEW s \in Signer, NEW p \in PaymentId, PaymentMove(s, p)
  PROVE  PaymentsAlone!OwnStep(s, p)
BY DEF PaymentMove, PE!QuotePayment, PE!MarkConverted, PE!MarkSettled, PE!CompletePayment,
       PE!CancelPayment, PE!FailPayment, PE!Transition, PE!RequireOperator, PE!HasPayment,
       PE!configVars, PaymentsAlone!OwnStep, PaymentsAlone!QuotePayment,
       PaymentsAlone!MarkConverted, PaymentsAlone!MarkSettled, PaymentsAlone!CompletePayment,
       PaymentsAlone!CancelPayment, PaymentsAlone!FailPayment, PaymentsAlone!Transition,
       PaymentsAlone!RequireOperator, PaymentsAlone!HasPayment, PaymentsAlone!configVars

LEMMA CreateAlone ==
  ASSUME NEW s \in Signer, CreatePayment(s)
  PROVE  \E p \in PaymentId : PaymentsAlone!CallStep(s, p)
<1>1. PICK payer \in Signer, p \in PaymentId, m \in MerchantId, paise \in AmountInput,
           r \in RewardId :
        PE!CreatePayment(s, payer, p, m, paise, r,
                         contracts.registry = Registry /\ MR!IsApproved(m))
  BY DEF CreatePayment
<1>2. PaymentsAlone!CreatePayment(s, payer, p, m, paise, r, TRUE)
  BY <1>1 DEF PE!CreatePayment, PE!RequireOperator, PE!HasPayment, PE!AbsentPayment,
              PE!configVars, PaymentsAlone!CreatePayment, PaymentsAlone!RequireOperator,
              PaymentsAlone!HasPayment, PaymentsAlone!AbsentPayment,
              PaymentsAlone!configVars
<1>3. payer \in Address /\ TRUE \in BOOLEAN
  BY AssumptionsMet
<1> QED
  BY <1>2, <1>3 DEF PaymentsAlone!CallStep

LEMMA RewardStepAlone ==
  ASSUME Tables, NEW s \in Signer, NEW p \in PaymentId, IssueReward(s, p)
  PROVE  PaymentsAlone!CallStep(s, p)
<1>1. PICK star \in {0, StarFor(p)} :
        PE!IssueReward(s, p, star) /\ (star # 0 => RewardSucceeds(p))
  BY DEF IssueReward
<1>2. star \in (Nat \ {0}) \cup {0}
  <2>1. StarFor(p) \in Int
    BY StarForTyped
  <2>2. star # 0 => star > 0 /\ star = StarFor(p)
    BY <1>1 DEF RewardSucceeds, RE!Issuable
  <2> QED
    BY <2>1, <2>2
<1>3. PaymentsAlone!IssueReward(s, p, star)
  BY <1>1 DEF PE!IssueReward, PE!RequireOperator, PE!configVars, PaymentsAlone!IssueReward,
              PaymentsAlone!RequireOperator, PaymentsAlone!configVars
<1> QED
  BY <1>2, <1>3 DEF PaymentsAlone!CallStep

LEMMA PaymentsStepAlone ==
  ASSUME Tables, [Next]_vars
  PROVE  [PaymentsAlone!Next]_(PaymentsAlone!vars)
<1>1. UNCHANGED peVars => UNCHANGED PaymentsAlone!vars
  BY DEF peVars, PaymentsAlone!vars
<1>2. CASE UNCHANGED vars
  BY <1>1, <1>2 DEF vars
<1>3. CASE CloseLedger
  BY <1>1, <1>3 DEF CloseLedger
<1>4. ASSUME NEW s \in Signer, StepBy(s)
      PROVE  UNCHANGED peVars \/ PaymentsAlone!StepBy(s)
  <2>1. CASE PaymentsOnly(s)
    BY <2>1, PaymentsConfigAlone, PaymentMoveAlone
       DEF PaymentsOnly, PaymentMove, PaymentsAlone!StepBy
  <2>2. CASE RegistryOnly(s) \/ RewardsConfig(s) \/ TokenOnly(s) \/ IssueDirectly(s)
    BY <2>2 DEF RegistryOnly, RewardsConfig, TokenOnly, IssueDirectly
  <2>3. CASE CreatePayment(s)
    BY <2>3, CreateAlone DEF PaymentsAlone!StepBy
  <2>4. CASE \E p \in PaymentId : IssueReward(s, p)
    BY <2>4, RewardStepAlone DEF PaymentsAlone!StepBy
  <2> QED
    BY <1>4, <2>1, <2>2, <2>3, <2>4 DEF StepBy
<1> QED
  BY <1>1, <1>2, <1>3, <1>4 DEF Next, PaymentsAlone!Next

LEMMA RegistryStepAlone ==
  ASSUME [Next]_vars
  PROVE  [RegistryAlone!Next]_(RegistryAlone!vars)
<1>1. UNCHANGED mrVars => UNCHANGED RegistryAlone!vars
  BY DEF mrVars, RegistryAlone!vars
<1>2. CASE UNCHANGED vars
  BY <1>1, <1>2 DEF vars
<1>3. CASE CloseLedger
  BY <1>1, <1>3 DEF CloseLedger
<1>4. ASSUME NEW s \in Signer, StepBy(s)
      PROVE  UNCHANGED mrVars \/ RegistryAlone!StepBy(s)
  <2>1. CASE RegistryOnly(s)
    <3>1. /\ \A a : MR!SetAdmin(s, a) <=> RegistryAlone!SetAdmin(s, a)
          /\ MR!AcceptAdmin(s) <=> RegistryAlone!AcceptAdmin(s)
          /\ MR!Pause(s) <=> RegistryAlone!Pause(s)
          /\ MR!Unpause(s) <=> RegistryAlone!Unpause(s)
      BY DEF MR!SetAdmin, MR!AcceptAdmin, MR!Pause, MR!Unpause, MR!Gov!ProposeAdmin,
             MR!Gov!ConfiguredBy, MR!Gov!ClaimAdmin, MR!Gov!SetPaused,
             RegistryAlone!SetAdmin, RegistryAlone!AcceptAdmin, RegistryAlone!Pause,
             RegistryAlone!Unpause, RegistryAlone!Gov!ProposeAdmin,
             RegistryAlone!Gov!ConfiguredBy, RegistryAlone!Gov!ClaimAdmin,
             RegistryAlone!Gov!SetPaused
    <3>2. ASSUME NEW m \in MerchantId
          PROVE  /\ \A o, d : MR!RegisterMerchant(s, m, o, d)
                                <=> RegistryAlone!RegisterMerchant(s, m, o, d)
                 /\ MR!ApproveMerchant(s, m) <=> RegistryAlone!ApproveMerchant(s, m)
                 /\ MR!SuspendMerchant(s, m) <=> RegistryAlone!SuspendMerchant(s, m)
                 /\ MR!RejectMerchant(s, m) <=> RegistryAlone!RejectMerchant(s, m)
                 /\ \A d : MR!UpdateMetadata(s, m, d) <=> RegistryAlone!UpdateMetadata(s, m, d)
                 /\ \A o : MR!TransferOwner(s, m, o) <=> RegistryAlone!TransferOwner(s, m, o)
      BY DEF MR!RegisterMerchant, MR!ApproveMerchant, MR!SuspendMerchant, MR!RejectMerchant,
             MR!UpdateMetadata, MR!TransferOwner, MR!Rule, MR!OwnedBy, MR!HasMerchant,
             MR!Gov!ConfiguredBy, MR!govVars, RegistryAlone!RegisterMerchant,
             RegistryAlone!ApproveMerchant, RegistryAlone!SuspendMerchant,
             RegistryAlone!RejectMerchant, RegistryAlone!UpdateMetadata,
             RegistryAlone!TransferOwner, RegistryAlone!Rule, RegistryAlone!OwnedBy,
             RegistryAlone!HasMerchant, RegistryAlone!Gov!ConfiguredBy, RegistryAlone!govVars
    <3> QED
      BY <2>1, <3>1, <3>2, SettableTyped, AssumptionsMet
         DEF RegistryOnly, RegistryAlone!StepBy
  <2>2. CASE ~RegistryOnly(s)
    BY <1>4, <2>2 DEF StepBy, PaymentsOnly, RewardsConfig, TokenOnly, CreatePayment,
                      IssueDirectly, IssueReward
  <2> QED
    BY <2>1, <2>2
<1> QED
  BY <1>1, <1>2, <1>3, <1>4 DEF Next, RegistryAlone!Next

\* Who is paid a reward is an address, and what for a payment.
LEMMA PaidPayer ==
  ASSUME IInv, PaymentsAlone!IInv, NEW p \in PaymentId, payment[p].status = "Settled"
  PROVE  /\ payment[p].payer \in Address /\ payment[p].reward \in RewardId
         /\ payment[p].paise \in Int /\ p \in SourceId /\ StarFor(p) \in Int
<1>1. payment[p].reward \in RewardId /\ StarFor(p) \in Int
  BY StarForTyped DEF IInv, RewardNamed
<1>2. payment[p] \in PE!PaymentRecord
  BY DEF IInv, Tables
<1>3. payment[p].payer # NoAddress
  BY DEF PaymentsAlone!IInv, PaymentsAlone!RecordMatchesStatus, PaymentsAlone!Agrees
<1> QED
  BY <1>1, <1>2, <1>3, SystemDataAssumption DEF PE!PaymentRecord

LEMMA RewardsConfigAlone ==
  ASSUME NEW s \in Signer, RewardsConfig(s)
  PROVE  RewardsAlone!ConfigStep(s)
<1>1. /\ \A a : RE!SetAdmin(s, a) <=> RewardsAlone!SetAdmin(s, a)
      /\ RE!AcceptAdmin(s) <=> RewardsAlone!AcceptAdmin(s)
      /\ RE!Pause(s) <=> RewardsAlone!Pause(s)
      /\ RE!Unpause(s) <=> RewardsAlone!Unpause(s)
      /\ \A a, on : RE!SetIssuer(s, a, on) <=> RewardsAlone!SetIssuer(s, a, on)
      /\ \A a : RE!SetStarToken(s, a) <=> RewardsAlone!SetStarToken(s, a)
  BY DEF RE!SetAdmin, RE!AcceptAdmin, RE!Pause, RE!Unpause, RE!SetIssuer, RE!SetStarToken,
         RE!Gov!ProposeAdmin, RE!Gov!ConfiguredBy, RE!Gov!ClaimAdmin, RE!Gov!SetPaused,
         RE!Gov!HandOver, RE!govVars, RewardsAlone!SetAdmin, RewardsAlone!AcceptAdmin,
         RewardsAlone!Pause, RewardsAlone!Unpause, RewardsAlone!SetIssuer,
         RewardsAlone!SetStarToken, RewardsAlone!Gov!ProposeAdmin,
         RewardsAlone!Gov!ConfiguredBy, RewardsAlone!Gov!ClaimAdmin,
         RewardsAlone!Gov!SetPaused, RewardsAlone!Gov!HandOver, RewardsAlone!govVars
<1> QED
  BY <1>1, SettableTyped DEF RewardsConfig, RewardsAlone!ConfigStep

LEMMA IssueAlone ==
  ASSUME NEW who \in Address, NEW id \in RewardId, NEW to \in Address,
         NEW src \in SourceId,
         \/ \E paise \in Int : RE!IssueSpendReward(who, id, to, src, paise, TRUE)
         \/ RE!IssueReferralReward(who, id, to, src, TRUE)
         \/ \E n \in Int : RE!IssueCampaignReward(who, id, to, src, n, TRUE)
  PROVE  RewardsAlone!IssueStep(who, TRUE)
<1>1. /\ \A paise : RE!IssueSpendReward(who, id, to, src, paise, TRUE)
                      <=> RewardsAlone!IssueSpendReward(who, id, to, src, paise, TRUE)
      /\ RE!IssueReferralReward(who, id, to, src, TRUE)
           <=> RewardsAlone!IssueReferralReward(who, id, to, src, TRUE)
      /\ \A n : RE!IssueCampaignReward(who, id, to, src, n, TRUE)
                  <=> RewardsAlone!IssueCampaignReward(who, id, to, src, n, TRUE)
  BY DEF RE!IssueSpendReward, RE!IssueReferralReward, RE!IssueCampaignReward, RE!Issue,
         RE!Issuable, RE!HasReward, RE!SpendReward, RE!PAISE_PER_100_INR,
         RE!SPEND_REWARD_STAR_PER_100_INR, RE!REFERRAL_REWARD_STAR, RE!configVars,
         RewardsAlone!IssueSpendReward, RewardsAlone!IssueReferralReward,
         RewardsAlone!IssueCampaignReward, RewardsAlone!Issue, RewardsAlone!Issuable,
         RewardsAlone!HasReward, RewardsAlone!SpendReward, RewardsAlone!PAISE_PER_100_INR,
         RewardsAlone!SPEND_REWARD_STAR_PER_100_INR, RewardsAlone!REFERRAL_REWARD_STAR,
         RewardsAlone!configVars
<1> QED
  BY <1>1 DEF RewardsAlone!IssueStep

LEMMA RewardsStepAlone ==
  ASSUME IInv, PaymentsAlone!IInv, [Next]_vars
  PROVE  [RewardsAlone!Next]_(RewardsAlone!vars)
<1>1. UNCHANGED reVars => UNCHANGED RewardsAlone!vars
  BY DEF reVars, RewardsAlone!vars
<1>2. CASE UNCHANGED vars
  BY <1>1, <1>2 DEF vars
<1>3. CASE CloseLedger
  BY <1>1, <1>3 DEF CloseLedger
<1>4. ASSUME NEW s \in Signer, StepBy(s)
      PROVE  \/ UNCHANGED reVars
             \/ \E w \in Address : RewardsAlone!ConfigStep(w) \/ RewardsAlone!IssueStep(w, TRUE)
  <2>0. s \in Address
    BY AssumptionsMet
  <2>1. CASE RewardsConfig(s)
    BY <2>0, <2>1, RewardsConfigAlone
  <2>2. CASE PaymentsOnly(s) \/ RegistryOnly(s) \/ TokenOnly(s) \/ CreatePayment(s)
    BY <2>2 DEF PaymentsOnly, RegistryOnly, TokenOnly, CreatePayment
  <2>3. CASE IssueDirectly(s)
    BY <2>0, <2>3, IssueAlone, AssumptionsMet, SystemDataAssumption DEF IssueDirectly
  <2>4. ASSUME NEW p \in PaymentId, IssueReward(s, p)
        PROVE  UNCHANGED reVars \/ RewardsAlone!IssueStep(Payments, TRUE)
    <3>1. CASE RewardSucceeds(p)
      <4>1. /\ PE!IssueReward(s, p, StarFor(p))
            /\ RE!IssueSpendReward(Payments, payment[p].reward, payment[p].payer, p,
                                   payment[p].paise, TRUE)
        BY <2>4, <3>1 DEF IssueReward
      <4>2. payment[p].status = "Settled"
        BY <4>1 DEF PE!IssueReward
      <4> QED
        BY <4>1, <4>2, PaidPayer, IssueAlone, AssumptionsMet
    <3>2. CASE ~RewardSucceeds(p)
      BY <2>4, <3>2 DEF IssueReward
    <3> QED
      BY <3>1, <3>2
  <2> QED
    BY <1>4, <2>1, <2>2, <2>3, <2>4, AssumptionsMet DEF StepBy
<1> QED
  BY <1>1, <1>2, <1>3, <1>4 DEF Next, RewardsAlone!Next

LEMMA CoinsAlone ==
  ASSUME NEW s \in Address, NEW n \in Int
  PROVE  /\ ST!Burn(s, n) <=> TokenAlone!Burn(s, n)
         /\ ST!BurnFee(s, n) <=> TokenAlone!BurnFee(s, n)
         /\ \A a : ST!Mint(s, a, n) <=> TokenAlone!Mint(s, a, n)
         /\ \A a : ST!MintFromMinter(s, a, n) <=> TokenAlone!MintFromMinter(s, a, n)
         /\ \A a : ST!Transfer(s, a, n) <=> TokenAlone!Transfer(s, a, n)
         /\ \A a : ST!BurnFrom(s, a, n) <=> TokenAlone!BurnFrom(s, a, n)
         /\ \A a, b : ST!TransferFrom(s, a, b, n) <=> TokenAlone!TransferFrom(s, a, b, n)
         /\ \A b, e : ST!Approve(s, b, n, e) <=> TokenAlone!Approve(s, b, n, e)
<1>1. /\ ST!Burn(s, n) <=> TokenAlone!Burn(s, n)
      /\ ST!BurnFee(s, n) <=> TokenAlone!BurnFee(s, n)
  BY DEF ST!Burn, ST!BurnFee, ST!BurnInternal, ST!FeeOn, ST!govVars, ST!roleVars,
         TokenAlone!Burn, TokenAlone!BurnFee, TokenAlone!BurnInternal, TokenAlone!FeeOn,
         TokenAlone!govVars, TokenAlone!roleVars
<1>2. /\ \A a : ST!Mint(s, a, n) <=> TokenAlone!Mint(s, a, n)
      /\ \A a : ST!MintFromMinter(s, a, n) <=> TokenAlone!MintFromMinter(s, a, n)
  BY DEF ST!Mint, ST!MintFromMinter, ST!Mintable, ST!MintEffect, ST!govVars, ST!roleVars,
         TokenAlone!Mint, TokenAlone!MintFromMinter, TokenAlone!Mintable,
         TokenAlone!MintEffect, TokenAlone!govVars, TokenAlone!roleVars
<1>3. \A a : ST!Transfer(s, a, n) <=> TokenAlone!Transfer(s, a, n)
  BY DEF ST!Transfer, ST!TransferInternal, ST!govVars, ST!roleVars, TokenAlone!Transfer,
         TokenAlone!TransferInternal, TokenAlone!govVars, TokenAlone!roleVars
<1>4. \A a : ST!BurnFrom(s, a, n) <=> TokenAlone!BurnFrom(s, a, n)
  BY DEF ST!BurnFrom, ST!SpendAllowance, ST!BurnInternal, ST!govVars, ST!roleVars,
         TokenAlone!BurnFrom, TokenAlone!SpendAllowance, TokenAlone!BurnInternal,
         TokenAlone!govVars, TokenAlone!roleVars
<1>5. \A a, b : ST!TransferFrom(s, a, b, n) <=> TokenAlone!TransferFrom(s, a, b, n)
  BY DEF ST!TransferFrom, ST!SpendAllowance, ST!TransferInternal, ST!govVars, ST!roleVars,
         TokenAlone!TransferFrom, TokenAlone!SpendAllowance, TokenAlone!TransferInternal,
         TokenAlone!govVars, TokenAlone!roleVars
<1>6. \A b, e : ST!Approve(s, b, n, e) <=> TokenAlone!Approve(s, b, n, e)
  BY DEF ST!Approve, ST!govVars, ST!roleVars, ST!coinVars, TokenAlone!Approve,
         TokenAlone!govVars, TokenAlone!roleVars, TokenAlone!coinVars
<1> QED
  BY <1>1, <1>2, <1>3, <1>4, <1>5, <1>6

LEMMA TokenConfigAlone ==
  ASSUME NEW s \in Signer,
         \/ \E a \in Settable.admin : ST!SetAdmin(s, a)
         \/ ST!AcceptAdmin(s)
         \/ ST!Pause(s) \/ ST!Unpause(s)
         \/ \E on \in BOOLEAN, bps \in BasisPoint : ST!SetFeeBurnConfig(s, on, bps)
         \/ \E a \in Settable.minter, on \in BOOLEAN : ST!SetMinter(s, a, on)
         \/ \E a \in Settable.freeze, on \in BOOLEAN : ST!SetAuthorized(s, a, on)
  PROVE  TokenAlone!ConfigStep(s)
<1>1. /\ \A a : ST!SetAdmin(s, a) <=> TokenAlone!SetAdmin(s, a)
      /\ ST!AcceptAdmin(s) <=> TokenAlone!AcceptAdmin(s)
      /\ ST!Pause(s) <=> TokenAlone!Pause(s)
      /\ ST!Unpause(s) <=> TokenAlone!Unpause(s)
  BY DEF ST!SetAdmin, ST!AcceptAdmin, ST!Pause, ST!Unpause, ST!Gov!ProposeAdmin,
         ST!Gov!ConfiguredBy, ST!Gov!ClaimAdmin, ST!Gov!SetPaused, ST!Gov!HandOver,
         ST!roleVars, ST!coinVars, TokenAlone!SetAdmin, TokenAlone!AcceptAdmin,
         TokenAlone!Pause, TokenAlone!Unpause, TokenAlone!Gov!ProposeAdmin,
         TokenAlone!Gov!ConfiguredBy, TokenAlone!Gov!ClaimAdmin, TokenAlone!Gov!SetPaused,
         TokenAlone!Gov!HandOver, TokenAlone!roleVars, TokenAlone!coinVars
<1>2. /\ \A on, bps : ST!SetFeeBurnConfig(s, on, bps) <=> TokenAlone!SetFeeBurnConfig(s, on, bps)
      /\ \A a, on : ST!SetMinter(s, a, on) <=> TokenAlone!SetMinter(s, a, on)
      /\ \A a, on : ST!SetAuthorized(s, a, on) <=> TokenAlone!SetAuthorized(s, a, on)
  BY DEF ST!SetFeeBurnConfig, ST!SetMinter, ST!SetAuthorized, ST!Gov!ConfiguredBy,
         ST!govVars, ST!roleVars, ST!coinVars, TokenAlone!SetFeeBurnConfig,
         TokenAlone!SetMinter, TokenAlone!SetAuthorized, TokenAlone!Gov!ConfiguredBy,
         TokenAlone!govVars, TokenAlone!roleVars, TokenAlone!coinVars
<1> QED
  BY <1>1, <1>2, SettableTyped DEF TokenAlone!ConfigStep

LEMMA CoinStepAlone ==
  ASSUME NEW s \in Address, ST!CoinStep(s)
  PROVE  TokenAlone!CoinStep(s)
BY CoinsAlone, SystemDataAssumption DEF ST!CoinStep, TokenAlone!CoinStep

LEMMA MintAlone ==
  ASSUME NEW to \in Address, NEW n \in Int, EngineMints(to, n)
  PROVE  TokenAlone!CoinStep(Rewards)
<1>1. Rewards \in Address
  BY AssumptionsMet
<1>2. TokenAlone!MintFromMinter(Rewards, to, n)
  BY <1>1, CoinsAlone DEF EngineMints
<1> QED
  BY <1>2 DEF TokenAlone!CoinStep

LEMMA TokenStepAlone ==
  ASSUME IInv, PaymentsAlone!IInv, [Next]_vars
  PROVE  [TokenAlone!Next]_(TokenAlone!vars)
<1>1. UNCHANGED stVars => UNCHANGED TokenAlone!vars
  BY DEF stVars, TokenAlone!vars
<1>2. CASE UNCHANGED vars
  BY <1>1, <1>2 DEF vars
<1>3. CASE CloseLedger
  BY <1>3 DEF CloseLedger, ST!CloseLedger, TokenAlone!CloseLedger, TokenAlone!Next,
              ST!govVars, ST!roleVars, ST!coinVars, TokenAlone!govVars,
              TokenAlone!roleVars, TokenAlone!coinVars
<1>4. ASSUME NEW s \in Signer, StepBy(s)
      PROVE  \/ UNCHANGED stVars
             \/ \E w \in Address : TokenAlone!ConfigStep(w) \/ TokenAlone!CoinStep(w)
  <2>0. s \in Address /\ Rewards \in Address
    BY AssumptionsMet
  <2>1. CASE TokenOnly(s)
    BY <2>0, <2>1, TokenConfigAlone, CoinStepAlone DEF TokenOnly
  <2>2. CASE PaymentsOnly(s) \/ RegistryOnly(s) \/ RewardsConfig(s) \/ CreatePayment(s)
    BY <2>2 DEF PaymentsOnly, RegistryOnly, RewardsConfig, CreatePayment
  <2>3. CASE IssueDirectly(s)
    <3>1. ASSUME NEW paise \in AmountInput PROVE RE!SpendReward(paise) \in Int
      BY SystemDataAssumption
         DEF RE!SpendReward, RE!PAISE_PER_100_INR, RE!SPEND_REWARD_STAR_PER_100_INR
    <3>2. RE!REFERRAL_REWARD_STAR \in Int
      BY DEF RE!REFERRAL_REWARD_STAR
    <3>3. \E to \in Address, n \in Int : EngineMints(to, n)
      BY <2>3, <3>1, <3>2, AssumptionsMet, SystemDataAssumption DEF IssueDirectly
    <3> QED
      BY <2>0, <3>3, MintAlone
  <2>4. ASSUME NEW p \in PaymentId, IssueReward(s, p)
        PROVE  UNCHANGED stVars \/ TokenAlone!CoinStep(Rewards)
    <3>1. CASE RewardSucceeds(p)
      <4>1. PE!IssueReward(s, p, StarFor(p)) /\ EngineMints(payment[p].payer, StarFor(p))
        BY <2>4, <3>1 DEF IssueReward
      <4>2. payment[p].status = "Settled"
        BY <4>1 DEF PE!IssueReward
      <4> QED
        BY <4>1, <4>2, PaidPayer, MintAlone
    <3>2. CASE ~RewardSucceeds(p)
      BY <2>4, <3>2 DEF IssueReward
    <3> QED
      BY <3>1, <3>2
  <2> QED
    BY <1>4, <2>0, <2>1, <2>2, <2>3, <2>4 DEF StepBy
<1> QED
  BY <1>1, <1>2, <1>3, <1>4 DEF Next, TokenAlone!Next, TokenAlone!StepBy

(* The payment engine within the system is the engine alone, whose reward  *)
(* engine may answer anything (payment-engine lib.rs:344-552); so is the   *)
(* registry (merchant-registry lib.rs:196-346).                            *)
THEOREM PaymentsBehaveAsAlone == Spec => PaymentsAlone!Spec
<1>1. IInv => Tables
  BY DEF IInv
<1> QED
  BY <1>1, InitsAlone, PaymentsStepAlone, IInvHolds, PTL DEF Spec, PaymentsAlone!Spec

THEOREM RegistryBehavesAsAlone == Spec => RegistryAlone!Spec
BY InitsAlone, RegistryStepAlone, PTL DEF Spec, RegistryAlone!Spec

LEMMA PaymentsAssumptionsMet ==
  /\ /\ NoAddress \notin Address
     /\ Admin \in Signer
     /\ Signer \subseteq Address
     /\ {Registry, Rewards} \subseteq Address
  /\ /\ NoMerchant \notin MerchantId
     /\ NoReward \notin RewardId
     /\ AmountInput \subseteq Int
     /\ QuoteInput \subseteq [asset : Int, usdc : Int, fee : Int]
     /\ Nat \ {0} \subseteq Nat \ {0}
BY AssumptionsMet

LEMMA RegistryAssumptionsMet ==
  /\ NoAddress \notin Address
  /\ Admin \in Signer
  /\ Signer \subseteq Address
  /\ NoMetadata \notin Metadata
BY AssumptionsMet

LEMMA RewardsAssumptionsMet ==
  /\ /\ NoAddress \notin Address
     /\ Admin \in Address
     /\ Address \subseteq Address
     /\ Star \in Address
     /\ NoSource \notin SourceId
  /\ /\ Int \subseteq Int
     /\ Int \subseteq Int
BY AssumptionsMet

LEMMA FiniteAlone == ASSUME NEW S, IsFiniteSet(S) PROVE TokenAlone!IsFiniteSet(S)
BY DEF IsFiniteSet, TokenAlone!IsFiniteSet

LEMMA TokenAssumptionsMet ==
  /\ /\ NoAddress \notin Address
     /\ Admin \in Address
     /\ Address \subseteq Address
     /\ Spender \subseteq Address
  /\ /\ IntMax \in Nat
     /\ MaxSupply \in 1..IntMax
     /\ Int \subseteq Int
     /\ BasisPoint \subseteq Nat
     /\ LedgerBound \in Nat
  /\ TokenAlone!IsFiniteSet(Address)
BY AssumptionsMet, FiniteAlone

LEMMA PaymentsInvAlone == PaymentsAlone!Spec => []PaymentsAlone!IInv
BY PaymentsAlone!IInvHolds, PaymentsAssumptionsMet

LEMMA TokenInvAlone == TokenAlone!Spec => []TokenAlone!IInv
BY TokenAlone!IInvHolds, TokenAssumptionsMet

(* The reward engine and the token within the system are those contracts   *)
(* alone, called by any address: calls from contract to contract give a    *)
(* caller nothing it could not do by itself (reward-engine lib.rs:300-387, *)
(* 721-725, star-token lib.rs:395-560).                                    *)
THEOREM RewardsBehaveAsAlone == Spec => RewardsAlone!Spec
<1> QED
  BY PaymentsInvAlone, InitsAlone, RewardsStepAlone, IInvHolds, PaymentsBehaveAsAlone, PTL
     DEF Spec, RewardsAlone!Spec

THEOREM TokenBehavesAsAlone == Spec => TokenAlone!Spec
<1> QED
  BY PaymentsInvAlone, InitsAlone, TokenStepAlone, IInvHolds, PaymentsBehaveAsAlone, PTL
     DEF Spec, TokenAlone!Spec

-----------------------------------------------------------------------------
(* What was proved of each contract alone therefore holds in the system.   *)

LEMMA TypesAlone ==
  /\ PE!TypeOK <=> PaymentsAlone!TypeOK
  /\ MR!TypeOK <=> RegistryAlone!TypeOK
  /\ RE!TypeOK <=> RewardsAlone!TypeOK
  /\ ST!TypeOK <=> TokenAlone!TypeOK
<1>1. PE!TypeOK <=> PaymentsAlone!TypeOK
  BY DEF PE!TypeOK, PaymentsAlone!TypeOK, PE!PaymentRecord, PaymentsAlone!PaymentRecord,
         PE!Status, PaymentsAlone!Status
<1>2. MR!TypeOK <=> RegistryAlone!TypeOK
  BY DEF MR!TypeOK, RegistryAlone!TypeOK, MR!MerchantRecord, RegistryAlone!MerchantRecord
<1>3. RE!TypeOK <=> RewardsAlone!TypeOK
  BY DEF RE!TypeOK, RewardsAlone!TypeOK, RE!RewardRecord, RewardsAlone!RewardRecord
<1>4. ST!TypeOK <=> TokenAlone!TypeOK
  BY DEF ST!TypeOK, TokenAlone!TypeOK, ST!Allowance, TokenAlone!Allowance
<1> QED
  BY <1>1, <1>2, <1>3, <1>4

LEMMA TypesHold ==
  Spec => [](PE!TypeOK /\ MR!TypeOK /\ RE!TypeOK /\ ST!TypeOK)
<1>1. PaymentsAlone!Spec => []PaymentsAlone!TypeOK
  BY PaymentsAlone!TypeCorrect, PaymentsAssumptionsMet
<1>2. RegistryAlone!Spec => []RegistryAlone!TypeOK
  BY RegistryAlone!TypeCorrect, RegistryAssumptionsMet
<1>3. RewardsAlone!Spec => []RewardsAlone!TypeOK
  BY RewardsAlone!TypeCorrect, RewardsAssumptionsMet
<1>4. TokenAlone!Spec => []TokenAlone!TypeOK
  BY TokenAlone!TypeCorrect, TokenAssumptionsMet
<1> QED
  BY <1>1, <1>2, <1>3, <1>4, TypesAlone, PaymentsBehaveAsAlone, RegistryBehavesAsAlone,
     RewardsBehaveAsAlone, TokenBehavesAsAlone, PTL

ObserverTyped == otherSupply \in Int

(* Every variable of the system has its type, for every set of keys,       *)
(* payments and amounts (soroban-contracts, all four lib.rs).              *)
THEOREM TypeCorrect == Spec => []TypeOK
<1>1. Init => ObserverTyped
  BY DEF Init, ObserverTyped
<1>2. ASSUME ST!TypeOK, ST!TypeOK', ObserverTyped, [Next]_vars
      PROVE  ObserverTyped'
  <2> USE DEF ObserverTyped
  <2>1. supply \in Int /\ supply' \in Int
    BY <1>2 DEF ST!TypeOK
  <2>2. CASE \E s \in Signer : TokenOnly(s)
    BY <1>2, <2>1, <2>2 DEF TokenOnly
  <2>3. CASE otherSupply' = otherSupply
    BY <1>2, <2>3
  <2> QED
    BY <1>2, <2>2, <2>3 DEF Next, StepBy, vars, CloseLedger, PaymentsOnly, RegistryOnly,
       RewardsConfig, CreatePayment, IssueDirectly, IssueReward
<1>3. PE!TypeOK /\ MR!TypeOK /\ RE!TypeOK /\ ST!TypeOK /\ ObserverTyped => TypeOK
  BY DEF TypeOK, ObserverTyped
<1> QED
  BY <1>1, <1>2, <1>3, TypesHold, PTL DEF Spec

(* The token's books balance and stay under the cap whichever contract     *)
(* mints (star-token lib.rs:395-447).                                      *)
THEOREM TokenBooksHold ==
  Spec => [](TokenAlone!Conservation /\ TokenAlone!SupplyBounded)
<1>1. TokenAlone!Spec => []TokenAlone!Conservation
  BY TokenAlone!SupplyIsConserved, TokenAssumptionsMet
<1>2. TokenAlone!Spec => []TokenAlone!SupplyBounded
  BY TokenAlone!SupplyStaysBounded, TokenAssumptionsMet
<1> QED
  BY <1>1, <1>2, TokenBehavesAsAlone, PTL

(* No step of any contract changes an issued reward, brings a rejected     *)
(* merchant back, or moves a payment otherwise than promised: the history  *)
(* properties of the contracts survive their composition (payment-engine   *)
(* lib.rs:344-552, merchant-registry lib.rs:242-290, reward-engine         *)
(* lib.rs:356-387).                                                        *)
THEOREM HistoriesHold ==
  Spec => /\ PaymentsAlone!KeepsPromise
          /\ RegistryAlone!RejectionIsFinal
          /\ RewardsAlone!RewardsAreForever
          /\ TokenAlone!DebitIsSigned
<1>1. PaymentsAlone!Spec => PaymentsAlone!KeepsPromise
  BY PaymentsAlone!EngineKeepsPromise, PaymentsAssumptionsMet
<1>2. RegistryAlone!Spec => RegistryAlone!RejectionIsFinal
  BY RegistryAlone!RejectionsAreFinal, RegistryAssumptionsMet
<1>3. RewardsAlone!Spec => RewardsAlone!RewardsAreForever
  BY RewardsAlone!RewardsNeverChange, RewardsAssumptionsMet
<1>4. TokenAlone!Spec => TokenAlone!DebitIsSigned
  BY TokenAlone!DebitsAreSigned, TokenAssumptionsMet
<1> QED
  BY <1>1, <1>2, <1>3, <1>4, PaymentsBehaveAsAlone, RegistryBehavesAsAlone,
     RewardsBehaveAsAlone, TokenBehavesAsAlone, PTL

-----------------------------------------------------------------------------
(* The supply, as a sum over the reward records.                           *)

Amounts == [r \in RewardId |-> reward[r].amount]

Recorded == SumOf(Amounts, RewardId)

Accounted == supply = Recorded + otherSupply

LEMMA RecordedMoves ==
  ASSUME Tables, Tables', NEW id \in RewardId, NEW n \in Int,
         reward[id].amount = 0, reward'[id].amount = n,
         \A r \in RewardId : r # id => reward'[r] = reward[r]
  PROVE  Recorded' = Recorded + n
<1> DEFINE f == Amounts
           g == Amounts'
<1>1. f \in [RewardId -> Int] /\ g \in [RewardId -> Int]
  BY DEF Tables, RE!RewardRecord, Amounts
<1>2. g[id] = f[id] + n /\ \A r \in RewardId : r # id => g[r] = f[r]
  BY DEF Amounts
<1> HIDE DEF f, g
<1>3. SumOf(g, RewardId) = SumOf(f, RewardId) + n
  BY <1>1, <1>2, SumMoves, SystemFiniteAssumption
<1> QED
  BY <1>3 DEF Recorded, f, g

LEMMA RecordedTyped == ASSUME Tables PROVE Recorded \in Int
<1>1. Amounts \in [RewardId -> Int]
  BY DEF Tables, RE!RewardRecord, Amounts
<1> QED
  BY <1>1, SumTyped, SystemFiniteAssumption
     DEF Recorded

\* The library's sum over the records is the sum of their amounts.
LEMMA RecordedIsSum ==
  MapThenSumSet(LAMBDA r : reward[r].amount, RewardId) = Recorded
BY DEF MapThenSumSet, MapThenFoldSet, Recorded, Amounts, SumOf, Sums, AddsUp, Pick

LEMMA StoredIsMinted ==
  ASSUME Tables, Tables', supply \in Int, otherSupply \in Int, Accounted,
         NEW id \in RewardId, NEW rec, Stores(id, rec), NEW to, EngineMints(to, rec.amount),
         otherSupply' = otherSupply
  PROVE  Accounted'
<1>1. rec.amount \in Int
  BY DEF Stores, RE!RewardRecord
<1>2. Recorded' = Recorded + rec.amount
  BY <1>1, RecordedMoves DEF Stores, Tables
<1>3. supply' = supply + rec.amount
  BY DEF EngineMints, ST!MintFromMinter, ST!MintEffect
<1> QED
  BY <1>1, <1>2, <1>3, RecordedTyped DEF Accounted

LEMMA DirectIssueAccounted ==
  ASSUME IInv, IInv', TypeOK, Accounted, NEW s \in Signer, IssueDirectly(s)
  PROVE  Accounted'
<1>0. /\ s \in Address /\ otherSupply' = otherSupply
      /\ supply \in Int /\ otherSupply \in Int
  BY SystemAddressAssumption DEF IssueDirectly, TypeOK, ST!TypeOK
<1>1. PICK id \in RewardId, to \in Signer, src \in SourceId :
       \/ \E paise \in AmountInput :
            /\ RE!IssueSpendReward(s, id, to, src, paise, TRUE)
            /\ EngineMints(to, RE!SpendReward(paise))
       \/ /\ RE!IssueReferralReward(s, id, to, src, TRUE)
          /\ EngineMints(to, RE!REFERRAL_REWARD_STAR)
       \/ \E n \in CampaignAmount :
            /\ RE!IssueCampaignReward(s, id, to, src, n, TRUE)
            /\ EngineMints(to, n)
  BY DEF IssueDirectly
<1>2. to \in Address
  BY SystemAddressAssumption
<1>3. \E n \in Int, kind \in {"Spend", "Referral", "Campaign"} :
        RE!Issue(s, id, to, src, kind, n, TRUE) /\ EngineMints(to, n)
  <2>1. ASSUME NEW paise \in AmountInput PROVE RE!SpendReward(paise) \in Int
    BY SystemDataAssumption
       DEF RE!SpendReward, RE!PAISE_PER_100_INR, RE!SPEND_REWARD_STAR_PER_100_INR
  <2>2. RE!REFERRAL_REWARD_STAR \in Int
    BY DEF RE!REFERRAL_REWARD_STAR
  <2>3. ASSUME NEW n \in CampaignAmount PROVE n \in Int
    BY SystemDataAssumption
  <2> QED
    BY <1>1, <2>1, <2>2, <2>3
       DEF RE!IssueSpendReward, RE!IssueReferralReward, RE!IssueCampaignReward
<1>4. \E rec : Stores(id, rec) /\ EngineMints(to, rec.amount)
  <2>1. PICK n \in Int, kind \in {"Spend", "Referral", "Campaign"} :
          RE!Issue(s, id, to, src, kind, n, TRUE) /\ EngineMints(to, n)
    BY <1>3
  <2> DEFINE rec == [recipient |-> to, source |-> src, issuer |-> s, kind |-> kind, amount |-> n]
  <2>2. Stores(id, rec)
    BY <1>0, <1>2, <2>1, IssueStores
  <2>3. rec.amount = n
    OBVIOUS
  <2> HIDE DEF rec
  <2> QED
    BY <2>1, <2>2, <2>3
<1> QED
  BY <1>0, <1>4, StoredIsMinted DEF IInv

LEMMA PaidRewardAccounted ==
  ASSUME IInv, IInv', TypeOK, Accounted, NEW s \in Signer, NEW p \in PaymentId,
         IssueReward(s, p), RewardSucceeds(p)
  PROVE  Accounted'
<1>1. /\ PE!IssueReward(s, p, StarFor(p))
      /\ RE!IssueSpendReward(Payments, payment[p].reward, payment[p].payer, p,
                             payment[p].paise, TRUE)
      /\ EngineMints(payment[p].payer, StarFor(p))
      /\ otherSupply' = otherSupply
  BY DEF IssueReward
<1>2. payment[p] \in PE!PaymentRecord /\ payment[p].reward \in RewardId
  BY <1>1 DEF IInv, Tables, RewardNamed, PE!IssueReward
<1>3. payment[p].payer \in Address \cup {NoAddress} /\ p \in SourceId /\ Payments \in Address
  BY <1>2, SystemAddressAssumption, SystemDataAssumption DEF PE!PaymentRecord
<1>4. RE!Issue(Payments, payment[p].reward, payment[p].payer, p, "Spend", StarFor(p), TRUE)
  BY <1>1 DEF RE!IssueSpendReward, StarFor
<1>5. StarFor(p) \in Int
  BY StarForTyped DEF IInv
<1> DEFINE rec == [recipient |-> payment[p].payer, source |-> p, issuer |-> Payments,
                   kind |-> "Spend", amount |-> StarFor(p)]
<1>6. Stores(payment[p].reward, rec) /\ rec.amount = StarFor(p)
  BY <1>2, <1>3, <1>4, <1>5, IssueStores
<1> HIDE DEF rec
<1>7. supply \in Int /\ otherSupply \in Int
  BY DEF TypeOK, ST!TypeOK
<1> QED
  BY <1>1, <1>2, <1>6, <1>7, StoredIsMinted DEF IInv

LEMMA NextAccounted ==
  ASSUME IInv, IInv', TypeOK, TypeOK', Accounted, [Next]_vars
  PROVE  Accounted'
<1>1. UNCHANGED <<reward, supply, otherSupply>> => Accounted'
  BY DEF Accounted, Recorded, Amounts
<1>2. CASE UNCHANGED vars
  BY <1>1, <1>2 DEF vars, reVars, stVars
<1>3. CASE CloseLedger
  BY <1>1, <1>3 DEF CloseLedger, reVars, ST!CloseLedger, ST!coinVars
<1>4. ASSUME NEW s \in Signer, StepBy(s) PROVE Accounted'
  <2>1. CASE PaymentsOnly(s) \/ RegistryOnly(s) \/ CreatePayment(s)
    BY <1>1, <2>1 DEF PaymentsOnly, RegistryOnly, CreatePayment, reVars, stVars
  <2>2. CASE RewardsConfig(s)
    <3>1. reward' = reward
      BY <2>2, ElsewhereKeepsBoth
    <3> QED
      BY <1>1, <2>2, <3>1 DEF RewardsConfig, stVars
  <2>3. CASE TokenOnly(s)
    <3>1. Recorded' = Recorded
      BY <2>3 DEF TokenOnly, reVars, Recorded, Amounts
    <3>2. otherSupply' = otherSupply + (supply' - supply)
      BY <2>3 DEF TokenOnly
    <3>3. supply \in Int /\ supply' \in Int /\ otherSupply \in Int /\ Recorded \in Int
      BY RecordedTyped DEF TypeOK, ST!TypeOK, IInv
    <3>4. supply = Recorded + otherSupply
      BY DEF Accounted
    <3>5. PICK n \in Int : supply' = n
      BY <3>3
    <3>6. otherSupply' = otherSupply + (n - supply)
      BY <3>2, <3>5
    <3>7. PICK o \in Int : otherSupply' = o /\ o = otherSupply + (n - supply)
      BY <3>3, <3>6
    <3>8. n = Recorded + o
      BY <3>3, <3>4, <3>7
    <3> QED
      BY <3>1, <3>5, <3>7, <3>8 DEF Accounted
  <2>4. CASE IssueDirectly(s)
    BY <2>4, DirectIssueAccounted
  <2>5. ASSUME NEW p \in PaymentId, IssueReward(s, p) PROVE Accounted'
    <3>1. CASE RewardSucceeds(p)
      BY <2>5, <3>1, PaidRewardAccounted
    <3>2. CASE ~RewardSucceeds(p)
      BY <1>1, <2>5, <3>2 DEF IssueReward, reVars, stVars
    <3> QED
      BY <3>1, <3>2
  <2> QED
    BY <1>4, <2>1, <2>2, <2>3, <2>4, <2>5 DEF StepBy
<1> QED
  BY <1>2, <1>3, <1>4 DEF Next

(* No STAR is minted twice for one reward record and none without one,     *)
(* however spends, referrals and campaigns race for a reward id: the       *)
(* supply is the recorded rewards plus what direct token calls made        *)
(* (reward-engine lib.rs:356-387, 721-725).                                *)
THEOREM SupplyIsAccounted == Spec => []SupplyAccounted
<1>1. Init => Accounted
  <2> SUFFICES ASSUME Init PROVE Accounted
    OBVIOUS
  <2>1. \A r \in RewardId : Amounts[r] = 0
    BY DEF Init, RE!Init, RE!AbsentReward, Amounts
  <2>2. Recorded = 0
    BY <2>1, SumOfZeros, SystemFiniteAssumption DEF Recorded
  <2> QED
    BY <2>2 DEF Init, ST!Init, Accounted
<1>2. Accounted => SupplyAccounted
  BY RecordedIsSum DEF Accounted, SupplyAccounted
<1> QED
  BY <1>1, <1>2, NextAccounted, IInvHolds, TypeCorrect, PTL DEF Spec
=============================================================================

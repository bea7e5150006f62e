------------------------- MODULE PaymentEngineProofs -------------------------
(***************************************************************************)
(* What PaymentEngine guarantees for every set of addresses, payments and  *)
(* inputs.  The inductive invariant is TypeOK with RecordMatchesStatus;    *)
(* the refinement of PaymentPromise needs both: that an unquoted payment   *)
(* has no price yet and an unrewarded one no STAR is what lets a quote and *)
(* a reward map to steps that happen once.                                 *)
(***************************************************************************)
EXTENDS PaymentAudit, TLAPS

\* What a call that is not about payments leaves alone.
LEMMA ConfigLeavesPayments ==
  ASSUME NEW s \in Signer, ConfigStep(s)
  PROVE  payment' = payment
BY DEF ConfigStep, SetAdmin, AcceptAdmin, Pause, Unpause, SetOperator, SetContracts

LEMMA OwnLeavesConfig ==
  ASSUME NEW s \in Signer, NEW id \in PaymentId, OwnStep(s, id)
  PROVE  UNCHANGED configVars
BY DEF OwnStep, QuotePayment, MarkConverted, MarkSettled, CompletePayment,
       CancelPayment, FailPayment, Transition, configVars

LEMMA CallLeavesConfig ==
  ASSUME NEW s \in Signer, NEW id \in PaymentId, CallStep(s, id)
  PROVE  UNCHANGED configVars
BY DEF CallStep, CreatePayment, IssueReward, configVars

-----------------------------------------------------------------------------
LEMMA AbsentPaymentTyped == AbsentPayment \in PaymentRecord
BY DEF AbsentPayment, PaymentRecord, Status

LEMMA InitTyped == Init => TypeOK
<1> SUFFICES ASSUME Init PROVE TypeOK
  OBVIOUS
<1>1. admin \in Address /\ pendingAdmin \in Address \cup {NoAddress} /\ paused \in BOOLEAN
  BY PaymentAddressAssumption DEF Init, Gov!GovInit
<1>2. operator \in [Address -> BOOLEAN]
  BY DEF Init
<1>3. contracts \in [registry : Address, rewards : Address]
  BY PaymentAddressAssumption DEF Init
<1>4. payment \in [PaymentId -> PaymentRecord]
  BY AbsentPaymentTyped DEF Init
<1> QED
  BY <1>1, <1>2, <1>3, <1>4 DEF TypeOK

LEMMA ConfigKeepsType ==
  ASSUME TypeOK, NEW s \in Signer, ConfigStep(s)
  PROVE  TypeOK'
<1>1. payment' \in [PaymentId -> PaymentRecord]
  BY ConfigLeavesPayments DEF TypeOK
<1> SUFFICES /\ admin' \in Address
             /\ pendingAdmin' \in Address \cup {NoAddress}
             /\ paused' \in BOOLEAN
             /\ operator' \in [Address -> BOOLEAN]
             /\ contracts' \in [registry : Address, rewards : Address]
  BY <1>1 DEF TypeOK
<1>2. CASE \E a \in Address : SetAdmin(s, a)
  BY <1>2 DEF TypeOK, SetAdmin, Gov!ProposeAdmin
<1>3. CASE AcceptAdmin(s)
  BY <1>3, PaymentAddressAssumption
     DEF TypeOK, AcceptAdmin, Gov!ClaimAdmin, Gov!HandOver
<1>4. CASE Pause(s) \/ Unpause(s)
  BY <1>4 DEF TypeOK, Pause, Unpause, Gov!SetPaused
<1>5. CASE \E op \in Address, enabled \in BOOLEAN : SetOperator(s, op, enabled)
  BY <1>5 DEF TypeOK, SetOperator, govVars
<1>6. CASE \E r, w \in Address : SetContracts(s, r, w)
  BY <1>6 DEF TypeOK, SetContracts, govVars
<1> QED
  BY <1>2, <1>3, <1>4, <1>5, <1>6 DEF ConfigStep

\* The shape of every step on a payment: one record is replaced by another.
LEMMA ReplaceTyped ==
  ASSUME TypeOK, NEW id \in PaymentId, NEW rec \in PaymentRecord,
         payment' = [payment EXCEPT ![id] = rec], UNCHANGED configVars
  PROVE  TypeOK'
BY DEF TypeOK, configVars

LEMMA MoveTyped ==
  ASSUME TypeOK, NEW id \in PaymentId, NEW to \in Status,
         payment' = [payment EXCEPT ![id].status = to], UNCHANGED configVars
  PROVE  TypeOK'
<1> DEFINE rec == [payment[id] EXCEPT !.status = to]
<1>1. rec \in PaymentRecord
  BY DEF TypeOK, PaymentRecord
<1>2. payment' = [payment EXCEPT ![id] = rec]
  BY DEF TypeOK
<1> QED
  BY <1>1, <1>2, ReplaceTyped

LEMMA OwnKeepsType ==
  ASSUME TypeOK, NEW s \in Signer, NEW id \in PaymentId, OwnStep(s, id)
  PROVE  TypeOK'
<1>0. UNCHANGED configVars
  BY OwnLeavesConfig
<1>1. CASE \E quote \in QuoteInput : QuotePayment(s, id, quote)
  <2>1. PICK quote \in QuoteInput : QuotePayment(s, id, quote)
    BY <1>1
  <2> DEFINE rec == [payment[id] EXCEPT !.status = "Quoted", !.usdc = quote.usdc,
                                        !.fee = quote.fee]
  <2>2. rec \in PaymentRecord
    <3>1. payment[id] \in PaymentRecord
      BY DEF TypeOK
    <3>2. quote.usdc \in Int /\ quote.fee \in Int
      BY PaymentDataAssumption
    <3>3. "Quoted" \in Status
      BY DEF Status
    <3> QED
      BY <3>1, <3>2, <3>3 DEF PaymentRecord
  <2>3. payment' = [payment EXCEPT ![id] = rec]
    BY <2>1 DEF QuotePayment, TypeOK
  <2> QED
    BY <1>0, <2>2, <2>3, ReplaceTyped
<1>2. CASE \/ MarkConverted(s, id) \/ MarkSettled(s, id) \/ CompletePayment(s, id)
           \/ CancelPayment(s, id) \/ FailPayment(s, id)
  <2>1. \E to \in Status : payment' = [payment EXCEPT ![id].status = to]
    BY <1>2 DEF MarkConverted, MarkSettled, CompletePayment, CancelPayment,
                FailPayment, Transition, Status
  <2> QED
    BY <1>0, <2>1, MoveTyped
<1> QED
  BY <1>1, <1>2 DEF OwnStep

LEMMA CallKeepsType ==
  ASSUME TypeOK, NEW s \in Signer, NEW id \in PaymentId, CallStep(s, id)
  PROVE  TypeOK'
<1>0. UNCHANGED configVars
  BY CallLeavesConfig
<1>1. ASSUME NEW payer \in Address, NEW m \in MerchantId, NEW paise \in AmountInput,
             NEW r \in RewardId, NEW approved \in BOOLEAN,
             CreatePayment(s, payer, id, m, paise, r, approved)
      PROVE  TypeOK'
  <2> DEFINE rec == [AbsentPayment EXCEPT !.status = "Created", !.payer = payer,
                       !.merchant = m, !.paise = paise, !.reward = r]
  <2>1. rec \in PaymentRecord
    <3>1. paise \in Int /\ "Created" \in Status
      BY PaymentDataAssumption DEF Status
    <3> QED
      BY <3>1, AbsentPaymentTyped DEF PaymentRecord
  <2>2. payment' = [payment EXCEPT ![id] = rec]
    BY <1>1 DEF CreatePayment
  <2> QED
    BY <1>0, <2>1, <2>2, ReplaceTyped
<1>2. ASSUME NEW star \in StarAmount \cup {0}, IssueReward(s, id, star)
      PROVE  TypeOK'
  <2> DEFINE rec == [payment[id] EXCEPT !.status = "Rewarded", !.star = star]
  <2>1. rec \in PaymentRecord
    <3>1. payment[id] \in PaymentRecord
      BY DEF TypeOK
    <3>2. star \in Nat /\ "Rewarded" \in Status
      BY PaymentDataAssumption DEF Status
    <3> QED
      BY <3>1, <3>2 DEF PaymentRecord
  <2>2. payment' = [payment EXCEPT ![id] = rec]
    BY <1>2 DEF IssueReward, TypeOK
  <2> QED
    BY <1>0, <2>1, <2>2, ReplaceTyped
<1> QED
  BY <1>1, <1>2 DEF CallStep

LEMMA NextKeepsType == TypeOK /\ [Next]_vars => TypeOK'
<1> SUFFICES ASSUME TypeOK, [Next]_vars PROVE TypeOK'
  OBVIOUS
<1>1. CASE Next
  BY <1>1, ConfigKeepsType, OwnKeepsType, CallKeepsType DEF Next, StepBy
<1>2. CASE UNCHANGED vars
  BY <1>2 DEF TypeOK, vars
<1> QED
  BY <1>1, <1>2

(* Whatever addresses, amounts and answers there are, every stored record  *)
(* and every configuration value stays within its type.                    *)
THEOREM TypeCorrect == Spec => []TypeOK
<1>1. Init => TypeOK
  BY InitTyped
<1>2. TypeOK /\ [Next]_vars => TypeOK'
  BY NextKeepsType
<1> QED
  BY <1>1, <1>2, PTL DEF Spec

-----------------------------------------------------------------------------
(* The record of a payment agrees with its status.                         *)

LEMMA ReplaceAgrees ==
  ASSUME TypeOK, RecordMatchesStatus, NEW id \in PaymentId, NEW rec, Agrees(rec),
         payment' = [payment EXCEPT ![id] = rec]
  PROVE  RecordMatchesStatus'
<1> SUFFICES ASSUME NEW q \in PaymentId PROVE Agrees(payment'[q])
  BY DEF RecordMatchesStatus
<1>1. CASE q = id
  BY <1>1 DEF TypeOK
<1>2. CASE q # id
  BY <1>2 DEF TypeOK, RecordMatchesStatus
<1> QED
  BY <1>1, <1>2

LEMMA MoveAgrees ==
  ASSUME TypeOK, RecordMatchesStatus, NEW id \in PaymentId, NEW to \in Status,
         payment' = [payment EXCEPT ![id].status = to],
         Agrees([payment[id] EXCEPT !.status = to])
  PROVE  RecordMatchesStatus'
BY ReplaceAgrees DEF TypeOK

LEMMA OwnAgrees ==
  ASSUME TypeOK, RecordMatchesStatus, NEW s \in Signer, NEW id \in PaymentId,
         OwnStep(s, id)
  PROVE  RecordMatchesStatus'
<1>0. payment[id] \in PaymentRecord /\ Agrees(payment[id])
  BY DEF TypeOK, RecordMatchesStatus
<1>1. CASE \E quote \in QuoteInput : QuotePayment(s, id, quote)
  <2>1. PICK quote \in QuoteInput : QuotePayment(s, id, quote)
    BY <1>1
  <2> DEFINE rec == [payment[id] EXCEPT !.status = "Quoted", !.usdc = quote.usdc,
                                        !.fee = quote.fee]
  <2>2. quote.usdc \in Int /\ quote.fee \in Int /\ quote.usdc > 0 /\ quote.fee >= 0
    BY <2>1, PaymentDataAssumption DEF QuotePayment
  <2>3. payment[id].status = "Created"
    BY <2>1 DEF QuotePayment
  <2>4. Agrees(rec)
    BY <1>0, <2>2, <2>3 DEF Agrees, PaymentRecord, Quoted, Rewarded
  <2>5. payment' = [payment EXCEPT ![id] = rec]
    BY <2>1 DEF QuotePayment, TypeOK
  <2> QED
    BY <2>4, <2>5, ReplaceAgrees
<1>2. CASE MarkConverted(s, id)
  <2>1. Agrees([payment[id] EXCEPT !.status = "Converted"])
    BY <1>0, <1>2 DEF MarkConverted, Transition, Agrees, PaymentRecord, Quoted, Rewarded
  <2> QED
    BY <1>2, <2>1, MoveAgrees DEF MarkConverted, Transition, Status
<1>3. CASE MarkSettled(s, id)
  <2>1. Agrees([payment[id] EXCEPT !.status = "Settled"])
    BY <1>0, <1>3 DEF MarkSettled, Transition, Agrees, PaymentRecord, Quoted, Rewarded
  <2> QED
    BY <1>3, <2>1, MoveAgrees DEF MarkSettled, Transition, Status
<1>4. CASE CompletePayment(s, id)
  <2>1. Agrees([payment[id] EXCEPT !.status = "Completed"])
    BY <1>0, <1>4 DEF CompletePayment, Transition, Agrees, PaymentRecord, Quoted, Rewarded
  <2> QED
    BY <1>4, <2>1, MoveAgrees DEF CompletePayment, Transition, Status
<1>5. CASE CancelPayment(s, id)
  <2>1. Agrees([payment[id] EXCEPT !.status = "Cancelled"])
    BY <1>0, <1>5 DEF CancelPayment, HasPayment, Agrees, PaymentRecord, Quoted, Rewarded
  <2> QED
    BY <1>5, <2>1, MoveAgrees DEF CancelPayment, Status
<1>6. CASE FailPayment(s, id)
  <2>1. Agrees([payment[id] EXCEPT !.status = "Failed"])
    BY <1>0, <1>6 DEF FailPayment, HasPayment, Agrees, PaymentRecord, Quoted, Rewarded
  <2> QED
    BY <1>6, <2>1, MoveAgrees DEF FailPayment, Status
<1> QED
  BY <1>1, <1>2, <1>3, <1>4, <1>5, <1>6 DEF OwnStep

LEMMA CallAgrees ==
  ASSUME TypeOK, RecordMatchesStatus, NEW s \in Signer, NEW id \in PaymentId,
         CallStep(s, id)
  PROVE  RecordMatchesStatus'
<1>1. ASSUME NEW payer \in Address, NEW m \in MerchantId, NEW paise \in AmountInput,
             NEW r \in RewardId, NEW approved \in BOOLEAN,
             CreatePayment(s, payer, id, m, paise, r, approved)
      PROVE  RecordMatchesStatus'
  <2> DEFINE rec == [AbsentPayment EXCEPT !.status = "Created", !.payer = payer,
                       !.merchant = m, !.paise = paise, !.reward = r]
  <2>1. paise > 0 /\ payer # NoAddress
    BY <1>1, PaymentAddressAssumption DEF CreatePayment
  <2>2. Agrees(rec)
    BY <2>1 DEF Agrees, AbsentPayment, Quoted, Rewarded
  <2>3. payment' = [payment EXCEPT ![id] = rec]
    BY <1>1 DEF CreatePayment
  <2> QED
    BY <2>2, <2>3, ReplaceAgrees
<1>2. ASSUME NEW star \in StarAmount \cup {0}, IssueReward(s, id, star)
      PROVE  RecordMatchesStatus'
  <2> DEFINE rec == [payment[id] EXCEPT !.status = "Rewarded", !.star = star]
  <2>1. payment[id] \in PaymentRecord /\ Agrees(payment[id])
    BY DEF TypeOK, RecordMatchesStatus
  <2>2. payment[id].status = "Settled"
    BY <1>2 DEF IssueReward
  <2>3. Agrees(rec)
    BY <2>1, <2>2 DEF Agrees, PaymentRecord, Quoted, Rewarded
  <2>4. payment' = [payment EXCEPT ![id] = rec]
    BY <1>2 DEF IssueReward, TypeOK
  <2> QED
    BY <2>3, <2>4, ReplaceAgrees
<1> QED
  BY <1>1, <1>2 DEF CallStep

\* The inductive invariant.
IInv == TypeOK /\ RecordMatchesStatus

LEMMA InitIInv == Init => IInv
<1> SUFFICES ASSUME Init PROVE RecordMatchesStatus
  BY InitTyped DEF IInv
<1>1. Agrees(AbsentPayment)
  BY DEF Agrees, AbsentPayment, Quoted, Rewarded
<1> QED
  BY <1>1 DEF Init, RecordMatchesStatus

LEMMA NextIInv == IInv /\ [Next]_vars => IInv'
<1> SUFFICES ASSUME IInv, [Next]_vars PROVE RecordMatchesStatus'
  BY NextKeepsType DEF IInv
<1>1. ASSUME NEW s \in Signer, ConfigStep(s) PROVE RecordMatchesStatus'
  BY <1>1, ConfigLeavesPayments DEF IInv, RecordMatchesStatus
<1>2. CASE Next
  BY <1>1, <1>2, OwnAgrees, CallAgrees DEF Next, StepBy, IInv
<1>3. CASE UNCHANGED vars
  BY <1>3 DEF IInv, RecordMatchesStatus, vars
<1> QED
  BY <1>2, <1>3

(* In every state: the types, and each record in agreement with its status *)
(* (payment-engine lib.rs:339-552).                                        *)
THEOREM IInvHolds == Spec => []IInv
<1>1. Init => IInv
  BY InitIInv
<1>2. IInv /\ [Next]_vars => IInv'
  BY NextIInv
<1> QED
  BY <1>1, <1>2, PTL DEF Spec

(* However operators, payers and failing operators interleave, a quoted    *)
(* payment is priced, an unquoted one is not, and STAR stands only on a    *)
(* payment whose reward step ran (payment-engine lib.rs:382-552).          *)
THEOREM RecordsAgree == Spec => []RecordMatchesStatus
<1>1. IInv => RecordMatchesStatus
  BY DEF IInv
<1> QED
  BY <1>1, IInvHolds, PTL

-----------------------------------------------------------------------------
(* The pause switch stops every call but pause and unpause, whatever the   *)
(* constants are (payment-engine lib.rs:607).                              *)
THEOREM PauseHolds == Spec => PausedFreezes
<1> DEFINE frozen == UNCHANGED <<admin, pendingAdmin, operator, contracts, payment>>
<1>1. ASSUME NEW s \in Signer, ConfigStep(s), paused, paused' PROVE frozen
  BY <1>1 DEF ConfigStep, SetAdmin, AcceptAdmin, Pause, Unpause, SetOperator,
              SetContracts, Gov!ProposeAdmin, Gov!ClaimAdmin, Gov!SetPaused,
              Gov!ConfiguredBy
<1>2. ASSUME NEW s \in Signer, NEW id \in PaymentId, OwnStep(s, id), paused
      PROVE  FALSE
  BY <1>2 DEF OwnStep, QuotePayment, MarkConverted, MarkSettled, CompletePayment,
              CancelPayment, FailPayment, Transition, RequireOperator
<1>3. ASSUME NEW s \in Signer, NEW id \in PaymentId, CallStep(s, id), paused
      PROVE  FALSE
  BY <1>3 DEF CallStep, CreatePayment, IssueReward, RequireOperator
<1>4. ASSUME [Next]_vars, paused, paused' PROVE frozen
  BY <1>1, <1>2, <1>3, <1>4 DEF Next, StepBy, vars
<1>5. [Next]_vars => [paused /\ paused' => frozen]_vars
  BY <1>4
<1> QED
  BY <1>5, PTL DEF Spec, PausedFreezes

-----------------------------------------------------------------------------
(* The refinement of PaymentPromise.                                       *)

LEMMA Phases ==
  /\ Phase("Absent") = "absent"
  /\ Phase("Created") = "open" /\ Phase("Quoted") = "open"
  /\ Phase("Converted") = "committed" /\ Phase("Settled") = "committed"
  /\ Phase("Rewarded") = "committed"
  /\ Phase("Completed") = "done"
  /\ Phase("Cancelled") = "withdrawn"
  /\ Phase("Failed") = "failed"
BY DEF Phase

\* What the abstract variables are in a state, and that replacing one record
\* changes each of them at that payment only.
phases == [id \in PaymentId |-> Phase(payment[id].status)]
allTerms == [id \in PaymentId |-> TermsOf(payment[id])]
prices == [id \in PaymentId |-> payment[id].usdc]
stars == [id \in PaymentId |-> payment[id].star]

LEMMA ChangeMapped ==
  ASSUME TypeOK, NEW id \in PaymentId, payment' = [payment EXCEPT ![id] = payment'[id]]
  PROVE  /\ phases' = [phases EXCEPT ![id] = Phase(payment'[id].status)]
         /\ allTerms' = [allTerms EXCEPT ![id] = TermsOf(payment'[id])]
         /\ prices' = [prices EXCEPT ![id] = payment'[id].usdc]
         /\ stars' = [stars EXCEPT ![id] = payment'[id].star]
BY DEF TypeOK, phases, allTerms, prices, stars

LEMMA MoveMapped ==
  ASSUME TypeOK, NEW id \in PaymentId, NEW to \in Status,
         payment' = [payment EXCEPT ![id].status = to]
  PROVE  /\ phases' = [phases EXCEPT ![id] = Phase(to)]
         /\ UNCHANGED <<allTerms, prices, stars>>
<1>1. /\ payment[id] \in PaymentRecord
      /\ payment'[id] = [payment[id] EXCEPT !.status = to]
      /\ payment' = [payment EXCEPT ![id] = payment'[id]]
  BY DEF TypeOK
<1>2. /\ payment'[id].status = to /\ TermsOf(payment'[id]) = TermsOf(payment[id])
      /\ payment'[id].usdc = payment[id].usdc /\ payment'[id].star = payment[id].star
  BY <1>1 DEF PaymentRecord, TermsOf
<1>3. /\ phases' = [phases EXCEPT ![id] = Phase(to)]
      /\ allTerms' = [allTerms EXCEPT ![id] = TermsOf(payment[id])]
      /\ prices' = [prices EXCEPT ![id] = payment[id].usdc]
      /\ stars' = [stars EXCEPT ![id] = payment[id].star]
  BY <1>1, <1>2, ChangeMapped
<1> QED
  BY <1>3 DEF allTerms, prices, stars

LEMMA PromiseInit == Init => Promise!Init
BY Phases DEF Init, Promise!Init, AbsentPayment

\* Each operation is the abstract action of its kind, or changes nothing there.
LEMMA OwnKeepsPromise ==
  ASSUME IInv, NEW s \in Signer, NEW id \in PaymentId, OwnStep(s, id)
  PROVE  [Promise!Next]_(Promise!vars)
<1>0. TypeOK /\ payment[id] \in PaymentRecord /\ Agrees(payment[id])
  BY DEF IInv, TypeOK, RecordMatchesStatus
<1>1. phases[id] = Phase(payment[id].status) /\ prices[id] = payment[id].usdc
  BY DEF phases, prices
<1>2. CASE \E quote \in QuoteInput : QuotePayment(s, id, quote)
  <2>1. PICK quote \in QuoteInput : QuotePayment(s, id, quote)
    BY <1>2
  <2> DEFINE rec == [payment[id] EXCEPT !.status = "Quoted", !.usdc = quote.usdc,
                                        !.fee = quote.fee]
  <2>2. payment[id].status = "Created" /\ quote.usdc > 0
    BY <2>1 DEF QuotePayment
  <2>3. payment'[id] = rec /\ payment' = [payment EXCEPT ![id] = payment'[id]]
    BY <1>0, <2>1 DEF QuotePayment, TypeOK
  <2>4. /\ payment'[id].status = "Quoted" /\ payment'[id].usdc = quote.usdc
        /\ TermsOf(payment'[id]) = TermsOf(payment[id])
        /\ payment'[id].star = payment[id].star
    BY <1>0, <2>3 DEF PaymentRecord, TermsOf
  <2>5. /\ phases' = [phases EXCEPT ![id] = "open"]
        /\ allTerms' = [allTerms EXCEPT ![id] = TermsOf(payment[id])]
        /\ prices' = [prices EXCEPT ![id] = quote.usdc]
        /\ stars' = [stars EXCEPT ![id] = payment[id].star]
    <3>1. /\ phases' = [phases EXCEPT ![id] = Phase(payment'[id].status)]
          /\ allTerms' = [allTerms EXCEPT ![id] = TermsOf(payment'[id])]
          /\ prices' = [prices EXCEPT ![id] = payment'[id].usdc]
          /\ stars' = [stars EXCEPT ![id] = payment'[id].star]
      BY <1>0, <2>3, ChangeMapped
    <3> QED
      BY <3>1, <2>4, Phases
  <2>6. phases[id] = "open" /\ prices[id] = 0
    BY <1>0, <1>1, <2>2, Phases DEF Agrees
  <2>7. UNCHANGED <<phases, allTerms, stars>>
    BY <2>5, <2>6 DEF phases, allTerms, stars
  <2>8. prices'[id] = quote.usdc
    BY <2>5 DEF prices
  <2>9. Promise!Price(id)
    BY <2>2, <2>5, <2>6, <2>7, <2>8 DEF Promise!Price, phases, allTerms, prices, stars
  <2> QED
    BY <2>9 DEF Promise!Next
<1>3. CASE MarkConverted(s, id)
  <2>1. payment[id].status = "Quoted" /\ payment' = [payment EXCEPT ![id].status = "Converted"]
    BY <1>3 DEF MarkConverted, Transition
  <2>2. phases' = [phases EXCEPT ![id] = "committed"] /\ UNCHANGED <<allTerms, prices, stars>>
    BY <1>0, <2>1, MoveMapped, Phases DEF Status
  <2>3. phases[id] = "open" /\ prices[id] > 0
    BY <1>0, <1>1, <2>1, Phases DEF Agrees, Quoted
  <2>4. Promise!Commit(id)
    BY <2>2, <2>3 DEF Promise!Commit, Promise!Move, phases, allTerms, prices, stars
  <2> QED
    BY <2>4 DEF Promise!Next
<1>4. CASE MarkSettled(s, id)
  <2>1. payment[id].status = "Converted" /\ payment' = [payment EXCEPT ![id].status = "Settled"]
    BY <1>4 DEF MarkSettled, Transition
  <2>2. phases' = [phases EXCEPT ![id] = "committed"] /\ UNCHANGED <<allTerms, prices, stars>>
    BY <1>0, <2>1, MoveMapped, Phases DEF Status
  <2>3. phases[id] = "committed"
    BY <1>1, <2>1, Phases
  <2>4. UNCHANGED <<phases, allTerms, prices, stars>>
    BY <2>2, <2>3 DEF phases
  <2> QED
    BY <2>4 DEF Promise!vars, phases, allTerms, prices, stars
<1>5. CASE CompletePayment(s, id)
  <2>1. payment[id].status = "Rewarded" /\ payment' = [payment EXCEPT ![id].status = "Completed"]
    BY <1>5 DEF CompletePayment, Transition
  <2>2. phases' = [phases EXCEPT ![id] = "done"] /\ UNCHANGED <<allTerms, prices, stars>>
    BY <1>0, <2>1, MoveMapped, Phases DEF Status
  <2>3. phases[id] = "committed"
    BY <1>1, <2>1, Phases
  <2>4. Promise!Finish(id)
    BY <2>2, <2>3 DEF Promise!Finish, Promise!Move, phases, allTerms, prices, stars
  <2> QED
    BY <2>4 DEF Promise!Next
<1>6. CASE CancelPayment(s, id)
  <2>1. /\ payment[id].status \in {"Created", "Quoted"}
        /\ payment' = [payment EXCEPT ![id].status = "Cancelled"]
    BY <1>6 DEF CancelPayment
  <2>2. phases' = [phases EXCEPT ![id] = "withdrawn"] /\ UNCHANGED <<allTerms, prices, stars>>
    BY <1>0, <2>1, MoveMapped, Phases DEF Status
  <2>3. phases[id] = "open"
    BY <1>1, <2>1, Phases
  <2>4. Promise!Withdraw(id)
    BY <2>2, <2>3 DEF Promise!Withdraw, Promise!Move, phases, allTerms, prices, stars
  <2> QED
    BY <2>4 DEF Promise!Next
<1>7. CASE FailPayment(s, id)
  <2>1. /\ payment[id].status \notin {"Absent", "Completed", "Cancelled"}
        /\ payment' = [payment EXCEPT ![id].status = "Failed"]
    BY <1>7 DEF FailPayment, HasPayment
  <2>2. phases' = [phases EXCEPT ![id] = "failed"] /\ UNCHANGED <<allTerms, prices, stars>>
    BY <1>0, <2>1, MoveMapped, Phases DEF Status
  <2>3. CASE payment[id].status = "Failed"
    <3>1. UNCHANGED <<phases, allTerms, prices, stars>>
      BY <1>1, <2>2, <2>3, Phases DEF phases
    <3> QED
      BY <3>1 DEF Promise!vars, phases, allTerms, prices, stars
  <2>4. CASE payment[id].status # "Failed"
    <3>1. phases[id] \in {"open", "committed"}
      BY <1>0, <1>1, <2>1, <2>4, Phases DEF PaymentRecord, Status
    <3>2. Promise!Fail(id)
      BY <2>2, <3>1 DEF Promise!Fail, Promise!Move, phases, allTerms, prices, stars
    <3> QED
      BY <3>2 DEF Promise!Next
  <2> QED
    BY <2>3, <2>4
<1> QED
  BY <1>2, <1>3, <1>4, <1>5, <1>6, <1>7 DEF OwnStep

LEMMA CallKeepsPromise ==
  ASSUME IInv, NEW s \in Signer, NEW id \in PaymentId, CallStep(s, id)
  PROVE  [Promise!Next]_(Promise!vars)
<1>0. TypeOK /\ payment[id] \in PaymentRecord /\ Agrees(payment[id])
  BY DEF IInv, TypeOK, RecordMatchesStatus
<1>1. ASSUME NEW payer \in Address, NEW m \in MerchantId, NEW paise \in AmountInput,
             NEW r \in RewardId, NEW approved \in BOOLEAN,
             CreatePayment(s, payer, id, m, paise, r, approved)
      PROVE  Promise!Open(id)
  <2> DEFINE rec == [AbsentPayment EXCEPT !.status = "Created", !.payer = payer,
                       !.merchant = m, !.paise = paise, !.reward = r]
  <2>1. /\ payment[id].status = "Absent" /\ payment'[id] = rec
        /\ payment' = [payment EXCEPT ![id] = payment'[id]]
    BY <1>0, <1>1 DEF CreatePayment, HasPayment, TypeOK
  <2>2. /\ payment'[id].status = "Created" /\ payment'[id].usdc = 0
        /\ payment'[id].star = 0 /\ TermsOf(payment'[id]) = <<payer, m, r, paise>>
    BY <2>1 DEF AbsentPayment, TermsOf
  <2>3. /\ phases' = [phases EXCEPT ![id] = "open"]
        /\ allTerms' = [allTerms EXCEPT ![id] = <<payer, m, r, paise>>]
        /\ prices' = [prices EXCEPT ![id] = 0]
        /\ stars' = [stars EXCEPT ![id] = 0]
    <3>1. /\ phases' = [phases EXCEPT ![id] = Phase(payment'[id].status)]
          /\ allTerms' = [allTerms EXCEPT ![id] = TermsOf(payment'[id])]
          /\ prices' = [prices EXCEPT ![id] = payment'[id].usdc]
          /\ stars' = [stars EXCEPT ![id] = payment'[id].star]
      BY <1>0, <2>1, ChangeMapped
    <3> QED
      BY <3>1, <2>2, Phases
  <2>4. phases[id] = "absent" /\ prices[id] = 0 /\ stars[id] = 0
    BY <1>0, <2>1, Phases DEF phases, prices, stars, Agrees, PaymentRecord, Rewarded
  <2>5. UNCHANGED <<prices, stars>>
    BY <2>3, <2>4 DEF prices, stars
  <2>6. allTerms'[id] = <<payer, m, r, paise>>
    BY <2>3 DEF allTerms
  <2>7. <<payer, m, r, paise>> \in PromisedTerms
    BY PaymentDataAssumption DEF PromisedTerms
  <2> QED
    BY <2>3, <2>4, <2>5, <2>6, <2>7
       DEF Promise!Open, Promise!Move, phases, allTerms, prices, stars
<1>2. ASSUME NEW star \in StarAmount \cup {0}, IssueReward(s, id, star)
      PROVE  Promise!Earn(id) \/ UNCHANGED (Promise!vars)
  <2> DEFINE rec == [payment[id] EXCEPT !.status = "Rewarded", !.star = star]
  <2>1. /\ payment[id].status = "Settled" /\ payment'[id] = rec
        /\ payment' = [payment EXCEPT ![id] = payment'[id]]
    BY <1>0, <1>2 DEF IssueReward, TypeOK
  <2>2. /\ payment'[id].status = "Rewarded" /\ payment'[id].usdc = payment[id].usdc
        /\ payment'[id].star = star /\ TermsOf(payment'[id]) = TermsOf(payment[id])
    BY <1>0, <2>1 DEF PaymentRecord, TermsOf
  <2>3. /\ phases' = [phases EXCEPT ![id] = "committed"]
        /\ allTerms' = [allTerms EXCEPT ![id] = TermsOf(payment[id])]
        /\ prices' = [prices EXCEPT ![id] = payment[id].usdc]
        /\ stars' = [stars EXCEPT ![id] = star]
    <3>1. /\ phases' = [phases EXCEPT ![id] = Phase(payment'[id].status)]
          /\ allTerms' = [allTerms EXCEPT ![id] = TermsOf(payment'[id])]
          /\ prices' = [prices EXCEPT ![id] = payment'[id].usdc]
          /\ stars' = [stars EXCEPT ![id] = payment'[id].star]
      BY <1>0, <2>1, ChangeMapped
    <3> QED
      BY <3>1, <2>2, Phases
  <2>4. phases[id] = "committed" /\ stars[id] = 0
    BY <1>0, <2>1, Phases DEF phases, stars, Agrees, PaymentRecord, Rewarded
  <2>5. UNCHANGED <<phases, allTerms, prices>>
    BY <2>3, <2>4 DEF phases, allTerms, prices
  <2>6. stars'[id] = star /\ star \in Nat
    <3>1. star \in Nat
      BY PaymentDataAssumption
    <3>2. stars'[id] = star
      BY <2>3 DEF stars
    <3> QED
      BY <3>1, <3>2
  <2>7. CASE star = 0
    <3>1. UNCHANGED stars
      BY <2>3, <2>4, <2>7 DEF stars
    <3> QED
      BY <2>5, <3>1 DEF Promise!vars, phases, allTerms, prices, stars
  <2>8. CASE star > 0
    BY <2>3, <2>4, <2>5, <2>6, <2>8 DEF Promise!Earn, phases, allTerms, prices, stars
  <2> QED
    BY <2>6, <2>7, <2>8
<1> QED
  BY <1>1, <1>2 DEF CallStep, Promise!Next

(* The engine implements the promise for every set of payments, amounts,   *)
(* operators and answers of the contracts it calls: the initial states map *)
(* to the initial state, and every step to a step of one payment or to     *)
(* none (payment-engine lib.rs:339-552).                                   *)
THEOREM EngineKeepsPromise == Spec => KeepsPromise
<1>1. ASSUME IInv, NEW s \in Signer, ConfigStep(s) PROVE UNCHANGED (Promise!vars)
  BY <1>1, ConfigLeavesPayments DEF Promise!vars
<1>2. ASSUME IInv, UNCHANGED vars PROVE UNCHANGED (Promise!vars)
  BY <1>2 DEF vars, Promise!vars
<1>3. IInv /\ [Next]_vars => [Promise!Next]_(Promise!vars)
  BY <1>1, <1>2, OwnKeepsPromise, CallKeepsPromise DEF Next, StepBy
<1> QED
  BY <1>3, PromiseInit, IInvHolds, PTL DEF Spec, KeepsPromise, Promise!Spec

-----------------------------------------------------------------------------
(* The handoff of the admin key: a rotated-out key is no admin and no      *)
(* operator.                                                               *)
Powerless == \A a \in former : a # admin /\ ~operator[a]

AuditInv == TypeOK /\ former \subseteq Address /\ Powerless

LEMMA StepKeepsPowerless ==
  ASSUME AuditInv, NEW s \in Signer, StepBy(s), Observe(s)
  PROVE  former' \subseteq Address /\ Powerless'
<1>0. /\ admin \in Address /\ operator \in [Address -> BOOLEAN]
      /\ former \subseteq Address /\ Powerless
  BY DEF AuditInv, TypeOK
<1>1. former' \subseteq Address
  BY <1>0 DEF Observe
<1>2. CASE UNCHANGED <<admin, operator>>
  BY <1>0, <1>2 DEF Observe, Powerless
<1>3. CASE AcceptAdmin(s)
  <2>1. /\ admin' = pendingAdmin /\ pendingAdmin = s
        /\ operator' = Gov!HandOver(operator, admin, pendingAdmin)
    BY <1>3 DEF AcceptAdmin, Gov!ClaimAdmin
  <2>2. SUFFICES ASSUME NEW a \in former' PROVE a # admin' /\ ~operator'[a]
    BY <1>1 DEF Powerless
  <2>3. /\ a \in Address
        /\ a \in former \/ (a = admin /\ admin' # admin)
        /\ ~(operator'[a] /\ ~operator[a])
    BY <1>1, <2>2 DEF Observe, Granted
  <2>4. operator'[a] = IF a = s THEN TRUE ELSE IF a = admin THEN FALSE ELSE operator[a]
    BY <1>0, <2>1, <2>3 DEF Gov!HandOver
  <2>5. CASE a \in former
    <3>1. ~operator[a]
      BY <1>0, <2>5 DEF Powerless
    <3>2. ~operator'[a]
      BY <2>3, <3>1
    <3> QED
      BY <2>1, <2>4, <3>2
  <2>6. CASE a = admin /\ admin' # admin
    BY <2>1, <2>4, <2>6
  <2> QED
    BY <2>3, <2>5, <2>6
<1>4. ASSUME NEW op \in Address, NEW on \in BOOLEAN, SetOperator(s, op, on)
      PROVE  Powerless'
  <2>1. admin' = admin /\ operator' = [operator EXCEPT ![op] = on]
    BY <1>4 DEF SetOperator, govVars
  <2>2. SUFFICES ASSUME NEW a \in former' PROVE a # admin' /\ ~operator'[a]
    BY <1>1 DEF Powerless
  <2>3. a \in former /\ a \in Address /\ ~(operator'[a] /\ ~operator[a])
    BY <1>0, <1>1, <2>1, <2>2 DEF Observe, Granted
  <2> QED
    BY <1>0, <2>1, <2>3 DEF Powerless
<1>5. \/ AcceptAdmin(s)
      \/ \E op \in Address, on \in BOOLEAN : SetOperator(s, op, on)
      \/ UNCHANGED <<admin, operator>>
  BY OwnLeavesConfig, CallLeavesConfig
     DEF StepBy, ConfigStep, SetAdmin, Pause, Unpause, SetContracts,
         Gov!ProposeAdmin, Gov!SetPaused, govVars, configVars
<1> QED
  BY <1>1, <1>2, <1>3, <1>4, <1>5

(* In every state: the set of former admins and its reinstated members are *)
(* what the admin and operator tables say (payment-engine lib.rs:205-260). *)
THEOREM AuditInvHolds == AuditSpec => []AuditInv
<1>1. AuditInit => AuditInv
  BY InitTyped DEF AuditInit, AuditInv, Powerless
<1>2. AuditInv /\ [AuditNext]_auditVars => AuditInv'
  <2> SUFFICES ASSUME AuditInv, [AuditNext]_auditVars PROVE AuditInv'
    OBVIOUS
  <2>1. TypeOK'
    BY NextKeepsType DEF AuditInv, AuditNext, auditVars, Next
  <2>2. former' \subseteq Address /\ Powerless'
    <3>1. CASE UNCHANGED auditVars
      BY <3>1 DEF AuditInv, Powerless, auditVars, vars
    <3> QED
      BY <3>1, StepKeepsPowerless DEF AuditNext
  <2> QED
    BY <2>1, <2>2 DEF AuditInv
<1> QED
  BY <1>1, <1>2, PTL DEF AuditSpec

(* For any number of keys and any chain of handoffs, a rotated-out key     *)
(* moves no payment but to cancel its own, until a later admin makes it an *)
(* operator (payment-engine lib.rs:205-215).                               *)
THEOREM FormerAdminsMoveNoPayment == AuditSpec => FormerAdminMovesNoPayment
<1>1. ASSUME AuditInv, [AuditNext]_auditVars, NEW id \in PaymentId,
             payment'[id] # payment[id], signer' \in former
      PROVE  payment'[id].status = "Cancelled" /\ payment[id].payer = signer'
  <2>1. PICK s \in Signer : StepBy(s) /\ signer' = s
    BY <1>1 DEF AuditNext, Observe, auditVars, vars
  <2>2. ~operator[s] /\ TypeOK
    BY <1>1, <2>1 DEF AuditInv, Powerless
  <2>3. PICK q \in PaymentId : OwnStep(s, q) \/ CallStep(s, q)
    BY <1>1, <2>1, ConfigLeavesPayments DEF StepBy
  <2>4. CancelPayment(s, q)
    BY <2>2, <2>3 DEF OwnStep, CallStep, QuotePayment, MarkConverted, MarkSettled,
         CompletePayment, FailPayment, CreatePayment, IssueReward, Transition,
         RequireOperator
  <2>5. q = id
    BY <1>1, <2>2, <2>4 DEF CancelPayment, TypeOK
  <2> QED
    BY <2>1, <2>2, <2>4, <2>5 DEF CancelPayment, TypeOK, PaymentRecord
<1> DEFINE quiet == \A id \in PaymentId :
                      /\ payment'[id] # payment[id]
                      /\ signer' \in former
                      => /\ payment'[id].status = "Cancelled"
                         /\ payment[id].payer = signer'
<1>2. AuditInv /\ [AuditNext]_auditVars => [quiet]_auditVars
  BY <1>1
<1> QED
  BY <1>2, AuditInvHolds, PTL DEF AuditSpec, FormerAdminMovesNoPayment
=============================================================================

---------------------------- MODULE PaymentEngine ----------------------------
(***************************************************************************)
(* contracts/payment-engine: the on-chain record of a payment and the      *)
(* operators that move it from Created to Completed.  The two contracts it *)
(* calls appear as parameters of the two actions that call them: whether   *)
(* MerchantRegistry.is_approved said yes, and how much STAR                *)
(* RewardEngine.issue_spend_reward minted (0 when the call failed).        *)
(* ContractSystem composes the actions with the contracts themselves.      *)
(***************************************************************************)
EXTENDS Integers

CONSTANTS Address,        \* accounts and contracts
          Signer,         \* the addresses that can sign a transaction
          NoAddress,
          Deployer,       \* the admin given to the constructor
          RegistryAddress, RewardsAddress,  \* the contracts given to it
          PaymentId, MerchantId, RewardId,
          NoMerchant, NoReward,
          AmountInput,    \* amount_in_paise values a caller may send
          QuoteInput,     \* [asset, usdc, fee] triples a caller may send
          StarAmount      \* what the reward engine may answer, besides 0

ASSUME PaymentAddressAssumption ==
  /\ NoAddress \notin Address
  /\ Deployer \in Signer
  /\ Signer \subseteq Address
  /\ {RegistryAddress, RewardsAddress} \subseteq Address

ASSUME PaymentDataAssumption ==
  /\ NoMerchant \notin MerchantId
  /\ NoReward \notin RewardId
  /\ AmountInput \subseteq Int
  /\ QuoteInput \subseteq [asset : Int, usdc : Int, fee : Int]
  /\ StarAmount \subseteq Nat \ {0}

VARIABLES admin, pendingAdmin, paused,
          operator,       \* DataKey::Operator(address)
          contracts,      \* DataKey::MerchantRegistry and RewardEngine
          payment         \* DataKey::Payment(id)

Gov == INSTANCE ContractAdmin

govVars == <<admin, pendingAdmin, paused>>
configVars == <<admin, pendingAdmin, paused, operator, contracts>>
vars == <<admin, pendingAdmin, paused, operator, contracts, payment>>

-----------------------------------------------------------------------------
(* The stored record, without the fields no check depends on (asset code,  *)
(* qr_hash, ledger numbers).  "Absent" is the missing storage entry.       *)

Status == {"Absent", "Created", "Quoted", "Converted", "Settled",
           "Rewarded", "Completed", "Failed", "Cancelled"}

PaymentRecord ==
  [status : Status, payer : Address \cup {NoAddress},
   merchant : MerchantId \cup {NoMerchant}, reward : RewardId \cup {NoReward},
   paise : Int, usdc : Int, fee : Int, star : Nat]

AbsentPayment ==
  [status |-> "Absent", payer |-> NoAddress, merchant |-> NoMerchant,
   reward |-> NoReward, paise |-> 0, usdc |-> 0, fee |-> 0, star |-> 0]

TypeOK ==
  /\ admin \in Address
  /\ pendingAdmin \in Address \cup {NoAddress}
  /\ paused \in BOOLEAN
  /\ operator \in [Address -> BOOLEAN]
  /\ contracts \in [registry : Address, rewards : Address]
  /\ payment \in [PaymentId -> PaymentRecord]

Init ==
  /\ Gov!GovInit(Deployer)
  /\ operator = [a \in Address |-> a = Deployer]
  /\ contracts = [registry |-> RegistryAddress, rewards |-> RewardsAddress]
  /\ payment = [p \in PaymentId |-> AbsentPayment]

-----------------------------------------------------------------------------
(* Configuration.                                                          *)

SetAdmin(caller, newAdmin) ==
  /\ Gov!ProposeAdmin(caller, newAdmin)
  /\ UNCHANGED <<operator, contracts, payment>>

\* Mutant: the outgoing admin stays an operator.
AcceptAdminKeepingOperator(caller) ==
  /\ Gov!ClaimAdmin(caller)
  /\ operator' = [operator EXCEPT ![pendingAdmin] = TRUE]
  /\ UNCHANGED <<contracts, payment>>

AcceptAdmin(caller) ==
  /\ Gov!ClaimAdmin(caller)
  /\ operator' = Gov!HandOver(operator, admin, pendingAdmin)
  /\ UNCHANGED <<contracts, payment>>

Pause(caller) ==
  /\ Gov!SetPaused(caller, TRUE)
  /\ UNCHANGED <<operator, contracts, payment>>

Unpause(caller) ==
  /\ Gov!SetPaused(caller, FALSE)
  /\ UNCHANGED <<operator, contracts, payment>>

SetOperator(caller, op, enabled) ==
  /\ Gov!ConfiguredBy(caller)
  /\ operator' = [operator EXCEPT ![op] = enabled]
  /\ UNCHANGED <<govVars, contracts, payment>>

SetContracts(caller, registry, rewards) ==
  /\ Gov!ConfiguredBy(caller)
  /\ contracts' = [registry |-> registry, rewards |-> rewards]
  /\ UNCHANGED <<govVars, operator, payment>>

-----------------------------------------------------------------------------
(* The life of a payment.                                                  *)

\* require_operator: not paused, signed by op, op enabled.
RequireOperator(op) == ~paused /\ op \in Signer /\ operator[op]

HasPayment(id) == payment[id].status # "Absent"

\* transition_operator: one operator step from one status to the next.
Transition(op, id, from, to) ==
  /\ RequireOperator(op)
  /\ payment[id].status = from
  /\ payment' = [payment EXCEPT ![id].status = to]
  /\ UNCHANGED configVars

CreatePayment(op, payer, id, merchant, paise, reward, approved) ==
  /\ RequireOperator(op)
  /\ paise > 0
  /\ ~HasPayment(id)
  /\ approved
  /\ payment' = [payment EXCEPT ![id] =
                   [AbsentPayment EXCEPT
                      !.status = "Created", !.payer = payer,
                      !.merchant = merchant, !.paise = paise,
                      !.reward = reward]]
  /\ UNCHANGED configVars

\* Mutant: only the asset amount of the quote is checked.
QuotePaymentUnpriced(op, id, quote) ==
  /\ RequireOperator(op)
  /\ quote.asset > 0
  /\ payment[id].status = "Created"
  /\ payment' = [payment EXCEPT ![id].status = "Quoted",
                                ![id].usdc = quote.usdc,
                                ![id].fee = quote.fee]
  /\ UNCHANGED configVars

QuotePayment(op, id, quote) ==
  /\ RequireOperator(op)
  /\ quote.asset > 0 /\ quote.usdc > 0 /\ quote.fee >= 0
  /\ payment[id].status = "Created"
  /\ payment' = [payment EXCEPT ![id].status = "Quoted",
                                ![id].usdc = quote.usdc,
                                ![id].fee = quote.fee]
  /\ UNCHANGED configVars

MarkConverted(op, id) == Transition(op, id, "Quoted", "Converted")

MarkSettled(op, id) == Transition(op, id, "Converted", "Settled")

\* try_issue_spend_reward: whatever goes wrong in the reward engine counts as
\* a reward of 0 and the payment advances all the same.
IssueReward(op, id, star) ==
  /\ RequireOperator(op)
  /\ payment[id].status = "Settled"
  /\ payment' = [payment EXCEPT ![id].status = "Rewarded",
                                ![id].star = star]
  /\ UNCHANGED configVars

CompletePayment(op, id) == Transition(op, id, "Rewarded", "Completed")

\* Mutant: a conversion is no obstacle.
CancelPaymentLate(payer, id) ==
  /\ ~paused
  /\ payer \in Signer
  /\ HasPayment(id)
  /\ payment[id].payer = payer
  /\ payment[id].status \in {"Created", "Quoted", "Converted"}
  /\ payment' = [payment EXCEPT ![id].status = "Cancelled"]
  /\ UNCHANGED configVars

CancelPayment(payer, id) ==
  /\ ~paused
  /\ payer \in Signer
  /\ HasPayment(id)
  /\ payment[id].payer = payer
  /\ payment[id].status \in {"Created", "Quoted"}
  /\ payment' = [payment EXCEPT ![id].status = "Cancelled"]
  /\ UNCHANGED configVars

FailPayment(op, id) ==
  /\ RequireOperator(op)
  /\ HasPayment(id)
  /\ payment[id].status \notin {"Completed", "Cancelled"}
  /\ payment' = [payment EXCEPT ![id].status = "Failed"]
  /\ UNCHANGED configVars

-----------------------------------------------------------------------------
ConfigStep(s) ==
  \/ \E a \in Address : SetAdmin(s, a)
  \/ AcceptAdmin(s)
  \/ Pause(s)
  \/ Unpause(s)
  \/ \E op \in Address, enabled \in BOOLEAN : SetOperator(s, op, enabled)
  \/ \E r, w \in Address : SetContracts(s, r, w)

\* The steps that call no other contract.
OwnStep(s, id) ==
  \/ \E quote \in QuoteInput : QuotePayment(s, id, quote)
  \/ MarkConverted(s, id)
  \/ MarkSettled(s, id)
  \/ CompletePayment(s, id)
  \/ CancelPayment(s, id)
  \/ FailPayment(s, id)

\* The steps that call another contract, here with any answer it may give.
CallStep(s, id) ==
  \/ \E payer \in Address, m \in MerchantId, paise \in AmountInput,
        r \in RewardId, approved \in BOOLEAN :
       CreatePayment(s, payer, id, m, paise, r, approved)
  \/ \E star \in StarAmount \cup {0} : IssueReward(s, id, star)

StepBy(s) ==
  ConfigStep(s) \/ \E id \in PaymentId : OwnStep(s, id) \/ CallStep(s, id)

Next == \E s \in Signer : StepBy(s)

Spec == Init /\ [][Next]_vars

-----------------------------------------------------------------------------
(* Safety.                                                                 *)

(* The pause switch is a real circuit breaker: from one paused state to    *)
(* the next nothing changes at all, whichever operation is called.         *)
(* require_not_paused guards every call except pause and unpause           *)
(* (payment-engine lib.rs:607).                                            *)
PausedFreezes ==
  [][paused /\ paused' =>
       UNCHANGED <<admin, pendingAdmin, operator, contracts, payment>>]_vars

Quoted == {"Quoted", "Converted", "Settled", "Rewarded", "Completed"}
Rewarded == {"Rewarded", "Completed"}

Agrees(p) ==
  /\ p.status \in Quoted => p.usdc > 0 /\ p.fee >= 0
  /\ p.status \in {"Absent", "Created"} => p.usdc = 0
  /\ p.star > 0 => p.status \in Rewarded \cup {"Failed"} /\ p.usdc > 0
  /\ p.status # "Absent" => p.paise > 0 /\ p.payer # NoAddress

(* What a stored record says agrees with how far it came: a price exactly  *)
(* when it was quoted, STAR only on a payment whose reward step ran, and   *)
(* none on a cancelled one, whose payer left before conversion.            *)
RecordMatchesStatus == \A id \in PaymentId : Agrees(payment[id])

(* The engine implements PaymentPromise.  The abstract phase groups the    *)
(* statuses; the terms are the fields create_payment stores.               *)
Phase(status) ==
  CASE status = "Absent" -> "absent"
    [] status \in {"Created", "Quoted"} -> "open"
    [] status \in {"Converted", "Settled", "Rewarded"} -> "committed"
    [] status = "Completed" -> "done"
    [] status = "Cancelled" -> "withdrawn"
    [] OTHER -> "failed"

TermsOf(p) == <<p.payer, p.merchant, p.reward, p.paise>>

PromisedTerms == Address \X MerchantId \X RewardId \X Int

Promise == INSTANCE PaymentPromise WITH
  Payment <- PaymentId,
  Terms <- PromisedTerms,
  NoTerms <- TermsOf(AbsentPayment),
  phase <- [id \in PaymentId |-> Phase(payment[id].status)],
  terms <- [id \in PaymentId |-> TermsOf(payment[id])],
  price <- [id \in PaymentId |-> payment[id].usdc],
  star <- [id \in PaymentId |-> payment[id].star]

(* Every behaviour of the engine is one the promise allows: a payment      *)
(* cannot be withdrawn after conversion, is never converted unpriced,      *)
(* never changes its terms and never leaves Completed, Cancelled or Failed *)
(* (payment-engine lib.rs:412-552, its tests                               *)
(* payer_can_cancel_before_conversion and invariant_state_machine_ordering)*)
KeepsPromise == Promise!Spec
=============================================================================

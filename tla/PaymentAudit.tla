---------------------------- MODULE PaymentAudit ----------------------------
(***************************************************************************)
(* PaymentEngine with two observers that change nothing: who signed the    *)
(* last step, and which keys were rotated out of the admin role and have   *)
(* not been granted anything by a later admin.                             *)
(***************************************************************************)
EXTENDS PaymentEngine

VARIABLES signer, former

auditVars == <<vars, signer, former>>

AuditInit == Init /\ signer = NoAddress /\ former = {}

Granted == {a \in Address : operator'[a] /\ ~operator[a]}

Observe(s) ==
  /\ signer' = s
  /\ former' = (former \cup (IF admin' = admin THEN {} ELSE {admin})) \ Granted

AuditNext == \E s \in Signer : StepBy(s) /\ Observe(s)

AuditSpec == AuditInit /\ [][AuditNext]_auditVars

-----------------------------------------------------------------------------
(* A key that was rotated out of the admin role moves no payment any more, *)
(* except to cancel its own as a payer, until a later admin makes it an    *)
(* operator again.  accept_admin promises it: "so a rotated-out key can no *)
(* longer create/settle/refund payments" (payment-engine lib.rs:205-208).  *)
FormerAdminMovesNoPayment ==
  [][\A id \in PaymentId :
       /\ payment'[id] # payment[id]
       /\ signer' \in former
       => /\ payment'[id].status = "Cancelled"
          /\ payment[id].payer = signer']_auditVars
=============================================================================

----------------------------- MODULE RewardAudit -----------------------------
(***************************************************************************)
(* RewardEngine with two observers that change nothing: who signed the     *)
(* last step, and which keys were rotated out of the admin role and have   *)
(* not been made an issuer by a later admin.                               *)
(***************************************************************************)
EXTENDS RewardEngine

VARIABLES signer, former

auditVars == <<vars, signer, former>>

AuditInit == Init /\ signer = NoAddress /\ former = {}

Granted == {a \in Address : issuer'[a] /\ ~issuer[a]}

Observe(s) ==
  /\ signer' = s
  /\ former' = (former \cup (IF admin' = admin THEN {} ELSE {admin})) \ Granted

AuditNext ==
  \E s \in Signer :
    /\ ConfigStep(s) \/ \E minted \in BOOLEAN : IssueStep(s, minted)
    /\ Observe(s)

AuditSpec == AuditInit /\ [][AuditNext]_auditVars

-----------------------------------------------------------------------------
(* A key that was rotated out of the admin role issues no reward, although *)
(* the constructor made it an issuer, until a later admin makes it one     *)
(* again: accept_admin revokes it "so a rotated-out key can no longer mint *)
(* STAR via rewards" (reward-engine lib.rs:149-151).                       *)
FormerAdminIssuesNothing ==
  [][reward' # reward => signer' \notin former]_auditVars
=============================================================================

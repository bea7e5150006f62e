------------------------------ MODULE StarAudit ------------------------------
(***************************************************************************)
(* StarToken with two observers that change nothing: who signed the last   *)
(* step, and which keys were rotated out of the admin role and have been   *)
(* given no role by a later admin.                                         *)
(***************************************************************************)
EXTENDS StarToken

VARIABLES signer, former

auditVars == <<vars, signer, former>>

AuditInit == Init /\ signer = NoAddress /\ former = {}

Granted ==
  {a \in Address : \/ minter'[a] /\ ~minter[a]
                   \/ authorized'[a] /\ ~authorized[a]}

Observe(s) ==
  /\ signer' = s
  /\ former' = (former \cup (IF admin' = admin THEN {} ELSE {admin})) \ Granted

AuditNext ==
  \/ CloseLedger /\ UNCHANGED <<signer, former>>
  \/ \E s \in Signer : StepBy(s) /\ Observe(s)

AuditSpec == AuditInit /\ [][AuditNext]_auditVars

-----------------------------------------------------------------------------
(* A key that was rotated out of the admin role creates no STAR, not as    *)
(* admin and not as the minter it was made at deployment, until a later    *)
(* admin gives it a role again (star-token lib.rs:170-173, T1.1).          *)
FormerAdminMintsNothing ==
  [][supply' > supply => signer' \notin former]_auditVars
=============================================================================

---------------------------- MODULE ContractAdmin ----------------------------
(***************************************************************************)
(* The governance part that the four Soroban contracts share line for      *)
(* line: an admin key, a two-step handoff of that key and a pause switch.  *)
(* Each contract module instantiates it and adds what its own accept_admin *)
(* does to the roles of the outgoing and the incoming admin.               *)
(*                                                                         *)
(* A contract call is atomic: an Err or a panic reverts everything the     *)
(* call wrote, so a failing call is a step that is not enabled.  "caller"  *)
(* is the address whose signature the call carries (require_auth).         *)
(***************************************************************************)
CONSTANT NoAddress          \* PendingAdmin is not stored

VARIABLES admin,            \* DataKey::Admin
          pendingAdmin,     \* DataKey::PendingAdmin, or NoAddress
          paused            \* DataKey::Paused

GovVars == <<admin, pendingAdmin, paused>>

\* __constructor: the deploying admin, no proposal, not paused.
GovInit(deployer) ==
  /\ admin = deployer
  /\ pendingAdmin = NoAddress
  /\ paused = FALSE

\* A configuration call: rejected while paused, signed by the admin.
ConfiguredBy(caller) == ~paused /\ caller = admin

\* set_admin: propose the next admin; a new proposal replaces the old one.
ProposeAdmin(caller, newAdmin) ==
  /\ ConfiguredBy(caller)
  /\ pendingAdmin' = newAdmin
  /\ UNCHANGED <<admin, paused>>

\* accept_admin: only the proposed address can claim the role.
ClaimAdmin(caller) ==
  /\ ~paused
  /\ pendingAdmin # NoAddress
  /\ caller = pendingAdmin
  /\ admin' = pendingAdmin
  /\ pendingAdmin' = NoAddress
  /\ UNCHANGED paused

\* pause and unpause: signed by the admin, accepted in both states.
SetPaused(caller, value) ==
  /\ caller = admin
  /\ paused' = value
  /\ UNCHANGED <<admin, pendingAdmin>>

\* The flag table of a role after accept_admin: the incoming admin has the
\* role, the outgoing one loses it unless the admin proposed itself.
HandOver(role, oldAdmin, newAdmin) ==
  [a \in DOMAIN role |-> IF a = newAdmin THEN TRUE
                         ELSE IF a = oldAdmin THEN FALSE
                         ELSE role[a]]
=============================================================================

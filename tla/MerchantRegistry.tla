--------------------------- MODULE MerchantRegistry ---------------------------
(***************************************************************************)
(* contracts/merchant-registry: which merchants exist, who owns them and   *)
(* which may receive payments.                                             *)
(***************************************************************************)
CONSTANTS Address, Signer, NoAddress,
          RegistryDeployer,     \* the admin given to the constructor
          MerchantId,
          Metadata, NoMetadata  \* metadata hashes

ASSUME RegistryAddressAssumption ==
  /\ NoAddress \notin Address
  /\ RegistryDeployer \in Signer
  /\ Signer \subseteq Address
  /\ NoMetadata \notin Metadata

VARIABLES admin, pendingAdmin, paused,
          merchant        \* DataKey::Merchant(id)

Gov == INSTANCE ContractAdmin

govVars == <<admin, pendingAdmin, paused>>
vars == <<admin, pendingAdmin, paused, merchant>>

\* "Absent" is the missing storage entry; the upi hash and the ledger numbers
\* are left out.
MerchantRecord ==
  [status : {"Absent", "Pending", "Approved", "Suspended", "Rejected"},
   owner : Address \cup {NoAddress}, metadata : Metadata \cup {NoMetadata}]

AbsentMerchant == [status |-> "Absent", owner |-> NoAddress, metadata |-> NoMetadata]

TypeOK ==
  /\ admin \in Address
  /\ pendingAdmin \in Address \cup {NoAddress}
  /\ paused \in BOOLEAN
  /\ merchant \in [MerchantId -> MerchantRecord]

Init ==
  /\ Gov!GovInit(RegistryDeployer)
  /\ merchant = [m \in MerchantId |-> AbsentMerchant]

HasMerchant(m) == merchant[m].status # "Absent"

\* is_approved: an unknown merchant is an error, which is no approval either.
IsApproved(m) == merchant[m].status = "Approved"

-----------------------------------------------------------------------------
SetAdmin(caller, newAdmin) == Gov!ProposeAdmin(caller, newAdmin) /\ UNCHANGED merchant

\* The admin is the registry's only role, so a handoff revokes nothing else.
AcceptAdmin(caller) == Gov!ClaimAdmin(caller) /\ UNCHANGED merchant

Pause(caller) == Gov!SetPaused(caller, TRUE) /\ UNCHANGED merchant

Unpause(caller) == Gov!SetPaused(caller, FALSE) /\ UNCHANGED merchant

RegisterMerchant(caller, m, owner, data) ==
  /\ Gov!ConfiguredBy(caller)
  /\ ~HasMerchant(m)
  /\ merchant' = [merchant EXCEPT ![m] =
                    [status |-> "Pending", owner |-> owner, metadata |-> data]]
  /\ UNCHANGED govVars

\* The admin's verdict on a merchant, from the statuses the call accepts.
Rule(caller, m, from, to) ==
  /\ Gov!ConfiguredBy(caller)
  /\ merchant[m].status \in from
  /\ merchant' = [merchant EXCEPT ![m].status = to]
  /\ UNCHANGED govVars

\* Mutant: any merchant can be approved.
ApproveMerchantAgain(caller, m) ==
  Rule(caller, m, {"Pending", "Approved", "Suspended", "Rejected"}, "Approved")

\* Approving lifts a suspension too; only a rejection is final.
ApproveMerchant(caller, m) ==
  Rule(caller, m, {"Pending", "Approved", "Suspended"}, "Approved")

SuspendMerchant(caller, m) == Rule(caller, m, {"Approved"}, "Suspended")

RejectMerchant(caller, m) == Rule(caller, m, {"Pending"}, "Rejected")

OwnedBy(caller, m) == ~paused /\ HasMerchant(m) /\ caller = merchant[m].owner

UpdateMetadata(caller, m, data) ==
  /\ OwnedBy(caller, m)
  /\ merchant' = [merchant EXCEPT ![m].metadata = data]
  /\ UNCHANGED govVars

TransferOwner(caller, m, owner) ==
  /\ OwnedBy(caller, m)
  /\ merchant' = [merchant EXCEPT ![m].owner = owner]
  /\ UNCHANGED govVars

StepBy(s) ==
  \/ \E a \in Address : SetAdmin(s, a)
  \/ AcceptAdmin(s)
  \/ Pause(s)
  \/ Unpause(s)
  \/ \E m \in MerchantId :
       \/ \E o \in Address, d \in Metadata : RegisterMerchant(s, m, o, d)
       \/ ApproveMerchant(s, m)
       \/ SuspendMerchant(s, m)
       \/ RejectMerchant(s, m)
       \/ \E d \in Metadata : UpdateMetadata(s, m, d)
       \/ \E o \in Address : TransferOwner(s, m, o)

Next == \E s \in Signer : StepBy(s)

Spec == Init /\ [][Next]_vars

-----------------------------------------------------------------------------
(* Whoever holds the admin key, and however often it changes hands, a      *)
(* rejected merchant never takes payments again and keeps no path back     *)
(* through suspension or re-registration (merchant-registry lib.rs:240).   *)
RejectionIsFinal ==
  [][\A m \in MerchantId : merchant[m].status = "Rejected" =>
       merchant'[m].status = "Rejected"]_vars

(* The two keys of a merchant do not reach into each other's field: only   *)
(* the admin's signature changes a status and, once registered, only the   *)
(* owner's changes the owner or the metadata.  An owner cannot approve     *)
(* itself, nor can an admin take a merchant over, and a former owner is    *)
(* out as soon as it transferred (merchant-registry lib.rs:196-346).       *)
SeparateKeys ==
  [][\A s \in Signer, m \in MerchantId :
       StepBy(s) =>
         /\ s # admin => merchant'[m].status = merchant[m].status
         /\ HasMerchant(m) /\ s # merchant[m].owner =>
              /\ merchant'[m].owner = merchant[m].owner
              /\ merchant'[m].metadata = merchant[m].metadata]_vars
=============================================================================

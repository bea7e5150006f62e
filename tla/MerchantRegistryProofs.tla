------------------------ MODULE MerchantRegistryProofs ------------------------
(***************************************************************************)
(* What MerchantRegistry guarantees for every set of keys and merchants.   *)
(***************************************************************************)
EXTENDS MerchantRegistry, TLAPS

\* The steps that leave the merchants alone.
GovStep(s) ==
  (\E a \in Address : SetAdmin(s, a)) \/ AcceptAdmin(s) \/ Pause(s) \/ Unpause(s)

\* The steps on one merchant.
MerchantStep(s, m) ==
  \/ \E o \in Address, d \in Metadata : RegisterMerchant(s, m, o, d)
  \/ ApproveMerchant(s, m)
  \/ SuspendMerchant(s, m)
  \/ RejectMerchant(s, m)
  \/ \E d \in Metadata : UpdateMetadata(s, m, d)
  \/ \E o \in Address : TransferOwner(s, m, o)

LEMMA StepCases ==
  ASSUME NEW s, StepBy(s)
  PROVE  GovStep(s) \/ \E m \in MerchantId : MerchantStep(s, m)
BY DEF StepBy, GovStep, MerchantStep

LEMMA GovLeavesMerchants ==
  ASSUME NEW s, GovStep(s)
  PROVE  merchant' = merchant
BY DEF GovStep, SetAdmin, AcceptAdmin, Pause, Unpause

-----------------------------------------------------------------------------
LEMMA InitTyped == Init => TypeOK
<1> SUFFICES ASSUME Init PROVE TypeOK
  OBVIOUS
<1>1. admin \in Address /\ pendingAdmin \in Address \cup {NoAddress} /\ paused \in BOOLEAN
  BY RegistryAddressAssumption DEF Init, Gov!GovInit
<1>2. AbsentMerchant \in MerchantRecord
  BY DEF AbsentMerchant, MerchantRecord
<1> QED
  BY <1>1, <1>2 DEF Init, TypeOK

LEMMA GovKeepsType ==
  ASSUME TypeOK, NEW s \in Signer, GovStep(s)
  PROVE  TypeOK'
<1>1. merchant' = merchant
  BY GovLeavesMerchants
<1>2. CASE \E a \in Address : SetAdmin(s, a)
  BY <1>1, <1>2 DEF TypeOK, SetAdmin, Gov!ProposeAdmin
<1>3. CASE AcceptAdmin(s)
  BY <1>1, <1>3, RegistryAddressAssumption DEF TypeOK, AcceptAdmin, Gov!ClaimAdmin
<1>4. CASE Pause(s) \/ Unpause(s)
  BY <1>1, <1>4 DEF TypeOK, Pause, Unpause, Gov!SetPaused
<1> QED
  BY <1>2, <1>3, <1>4 DEF GovStep

\* A step on a merchant replaces its record by another one of the type.
LEMMA MerchantStepReplaces ==
  ASSUME TypeOK, NEW s, NEW m \in MerchantId, MerchantStep(s, m)
  PROVE  /\ merchant'[m] \in MerchantRecord
         /\ merchant' = [merchant EXCEPT ![m] = merchant'[m]]
         /\ UNCHANGED govVars
<1>0. merchant \in [MerchantId -> MerchantRecord] /\ merchant[m] \in MerchantRecord
  BY DEF TypeOK
<1>1. ASSUME NEW o \in Address, NEW d \in Metadata, RegisterMerchant(s, m, o, d)
      PROVE  /\ merchant'[m] \in MerchantRecord
             /\ merchant' = [merchant EXCEPT ![m] = merchant'[m]]
             /\ UNCHANGED govVars
  BY <1>0, <1>1 DEF RegisterMerchant, MerchantRecord
<1>2. ASSUME NEW from, NEW to \in {"Approved", "Suspended", "Rejected"}, Rule(s, m, from, to)
      PROVE  /\ merchant'[m] \in MerchantRecord
             /\ merchant' = [merchant EXCEPT ![m] = merchant'[m]]
             /\ UNCHANGED govVars
  BY <1>0, <1>2 DEF Rule, MerchantRecord
<1>3. ASSUME NEW d \in Metadata, UpdateMetadata(s, m, d)
      PROVE  /\ merchant'[m] \in MerchantRecord
             /\ merchant' = [merchant EXCEPT ![m] = merchant'[m]]
             /\ UNCHANGED govVars
  BY <1>0, <1>3 DEF UpdateMetadata, MerchantRecord
<1>4. ASSUME NEW o \in Address, TransferOwner(s, m, o)
      PROVE  /\ merchant'[m] \in MerchantRecord
             /\ merchant' = [merchant EXCEPT ![m] = merchant'[m]]
             /\ UNCHANGED govVars
  BY <1>0, <1>4 DEF TransferOwner, MerchantRecord
<1> QED
  BY <1>1, <1>2, <1>3, <1>4
     DEF MerchantStep, ApproveMerchant, SuspendMerchant, RejectMerchant

LEMMA NextKeepsType == TypeOK /\ [Next]_vars => TypeOK'
<1> SUFFICES ASSUME TypeOK, [Next]_vars PROVE TypeOK'
  OBVIOUS
<1>1. ASSUME NEW s \in Signer, NEW m \in MerchantId, MerchantStep(s, m) PROVE TypeOK'
  BY <1>1, MerchantStepReplaces DEF TypeOK, govVars
<1>2. CASE UNCHANGED vars
  BY <1>2 DEF TypeOK, vars
<1> QED
  BY <1>1, <1>2, GovKeepsType, StepCases DEF Next

(* Every stored merchant and every governance value keeps its type.        *)
THEOREM TypeCorrect == Spec => []TypeOK
<1>1. Init => TypeOK
  BY InitTyped
<1>2. TypeOK /\ [Next]_vars => TypeOK'
  BY NextKeepsType
<1> QED
  BY <1>1, <1>2, PTL DEF Spec

-----------------------------------------------------------------------------
(* Who can change what.                                                    *)

LEMMA RejectedStays ==
  ASSUME TypeOK, NEW s, NEW m \in MerchantId, MerchantStep(s, m),
         merchant[m].status = "Rejected"
  PROVE  merchant'[m].status = "Rejected"
<1>0. merchant \in [MerchantId -> MerchantRecord] /\ merchant[m] \in MerchantRecord
  BY DEF TypeOK
<1>1. (\E d \in Metadata : UpdateMetadata(s, m, d)) \/ (\E o \in Address : TransferOwner(s, m, o))
  BY DEF MerchantStep, RegisterMerchant, HasMerchant, ApproveMerchant, SuspendMerchant,
         RejectMerchant, Rule
<1> QED
  BY <1>0, <1>1 DEF UpdateMetadata, TransferOwner, MerchantRecord

(* For any number of keys, merchants and handoffs, a rejected merchant     *)
(* stays rejected (merchant-registry lib.rs:232-262).                      *)
THEOREM RejectionsAreFinal == Spec => RejectionIsFinal
<1> DEFINE final == \A m \in MerchantId : merchant[m].status = "Rejected" =>
                      merchant'[m].status = "Rejected"
<1>1. ASSUME TypeOK, NEW s \in Signer, NEW m \in MerchantId, MerchantStep(s, m)
      PROVE  final
  <2> SUFFICES ASSUME NEW q \in MerchantId, merchant[q].status = "Rejected"
               PROVE  merchant'[q].status = "Rejected"
    OBVIOUS
  <2>1. CASE q = m
    BY <1>1, <2>1, RejectedStays
  <2>2. CASE q # m
    BY <1>1, <2>2, MerchantStepReplaces DEF TypeOK
  <2> QED
    BY <2>1, <2>2
<1>2. ASSUME TypeOK, [Next]_vars PROVE final
  BY <1>1, <1>2, StepCases, GovLeavesMerchants DEF Next, vars
<1>3. TypeOK /\ [Next]_vars => [final]_vars
  BY <1>2
<1> QED
  BY <1>3, TypeCorrect, PTL DEF Spec, RejectionIsFinal

LEMMA OneKeyPerField ==
  ASSUME TypeOK, NEW s, NEW m \in MerchantId, MerchantStep(s, m)
  PROVE  /\ s # admin => merchant'[m].status = merchant[m].status
         /\ HasMerchant(m) /\ s # merchant[m].owner =>
              /\ merchant'[m].owner = merchant[m].owner
              /\ merchant'[m].metadata = merchant[m].metadata
<1>0. merchant \in [MerchantId -> MerchantRecord] /\ merchant[m] \in MerchantRecord
  BY DEF TypeOK
<1>1. CASE \E o \in Address, d \in Metadata : RegisterMerchant(s, m, o, d)
  BY <1>1 DEF RegisterMerchant, Gov!ConfiguredBy
<1>2. ASSUME NEW from, NEW to, Rule(s, m, from, to)
      PROVE  /\ s = admin
             /\ merchant'[m].owner = merchant[m].owner
             /\ merchant'[m].metadata = merchant[m].metadata
  BY <1>0, <1>2 DEF Rule, Gov!ConfiguredBy, MerchantRecord
<1>3. CASE (\E d \in Metadata : UpdateMetadata(s, m, d)) \/ (\E o \in Address : TransferOwner(s, m, o))
  BY <1>0, <1>3 DEF UpdateMetadata, TransferOwner, OwnedBy, MerchantRecord
<1> QED
  BY <1>1, <1>2, <1>3 DEF MerchantStep, ApproveMerchant, SuspendMerchant, RejectMerchant

(* The admin's and the owner's keys never reach into each other's field,   *)
(* whoever holds them and even if one key holds several roles              *)
(* (merchant-registry lib.rs:196-346).                                     *)
THEOREM KeysStaySeparate == Spec => SeparateKeys
<1> DEFINE separate(s, m) ==
      StepBy(s) =>
        /\ s # admin => merchant'[m].status = merchant[m].status
        /\ HasMerchant(m) /\ s # merchant[m].owner =>
             /\ merchant'[m].owner = merchant[m].owner
             /\ merchant'[m].metadata = merchant[m].metadata
<1>1. ASSUME TypeOK, NEW s \in Signer, NEW m \in MerchantId PROVE separate(s, m)
  <2>1. ASSUME NEW q \in MerchantId, MerchantStep(s, q) PROVE separate(s, m)
    <3>1. CASE q = m
      BY <1>1, <2>1, <3>1, OneKeyPerField
    <3>2. CASE q # m
      <4>1. merchant'[m] = merchant[m]
        BY <1>1, <2>1, <3>2, MerchantStepReplaces DEF TypeOK
      <4> QED
        BY <4>1
    <3> QED
      BY <3>1, <3>2
  <2> QED
    BY <2>1, StepCases, GovLeavesMerchants
<1>2. TypeOK /\ [Next]_vars => [\A s \in Signer, m \in MerchantId : separate(s, m)]_vars
  BY <1>1
<1> QED
  BY <1>2, TypeCorrect, PTL DEF Spec, SeparateKeys
=============================================================================

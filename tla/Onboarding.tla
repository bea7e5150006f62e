----------------------------- MODULE Onboarding -----------------------------
(***************************************************************************)
(* The application of a merchant: the wizard of apps/web, merchant/onboard *)
(* and components/kyc, and MerchantsService.create.  Any answer may be     *)
(* lost, and the form sent again.                                          *)
(***************************************************************************)
EXTENDS Naturals

CONSTANT Tries     \* a bound of the model: how often the form is submitted

ASSUME TriesAssumption == Tries \in Nat

VARIABLES application,  \* the merchants row: "none", or its status
          wizard        \* step; submitting: where the request is; tries

onboardVars == <<application, wizard>>

OnboardTypeOK ==
  /\ application \in {"none", "PENDING"}
  /\ wizard \in [step : 1 .. 5, tries : 0 .. Tries,
                 submitting : {"no", "asked", "stored", "refused"}]

OnboardInit ==
  /\ application = "none"
  /\ wizard = [step |-> 1, tries |-> 0, submitting |-> "no"]

NextStep ==
  /\ wizard.step \in {1, 2}
  /\ wizard' = [wizard EXCEPT !.step = @ + 1]
  /\ UNCHANGED application

PrevStep ==
  /\ wizard.step \in {2, 3} /\ wizard.submitting = "no"
  /\ wizard' = [wizard EXCEPT !.step = @ - 1]
  /\ UNCHANGED application

Submit ==
  /\ wizard.step = 3 /\ wizard.submitting = "no" /\ wizard.tries < Tries
  /\ wizard' = [wizard EXCEPT !.submitting = "asked", !.tries = @ + 1]
  /\ UNCHANGED application

CreateMerchant ==
  /\ wizard.submitting = "asked" /\ application = "none"
  /\ application' = "PENDING"
  /\ wizard' = [wizard EXCEPT !.submitting = "stored"]

\* A field is not valid, the caller is no merchant operator, the UPI address is
\* taken (by this form's own first row, perhaps), or the server fails.
RefuseMerchant ==
  /\ wizard.submitting = "asked"
  /\ wizard' = [wizard EXCEPT !.submitting = "refused"]
  /\ UNCHANGED application

\* Mutant: the wizard goes on once the mutation has settled, well or not.
SubmitSettled(lost) ==
  /\ wizard.submitting \in {"stored", "refused"}
  /\ wizard' = [wizard EXCEPT !.step = 4, !.submitting = "no"]
  /\ UNCHANGED application

\* onSuccess; a lost answer is an error like any other, and the form stays.
SubmitAnswered(lost) ==
  /\ wizard.submitting \in {"stored", "refused"}
  /\ wizard' = [wizard EXCEPT !.submitting = "no",
                   !.step = IF wizard.submitting = "stored" /\ ~lost THEN 4 ELSE 3]
  /\ UNCHANGED application

\* The verification of step 4 (module Kyc) was started, or skipped.
KycStepDone ==
  /\ wizard.step = 4
  /\ wizard' = [wizard EXCEPT !.step = 5]
  /\ UNCHANGED application

OnboardNext ==
  \/ NextStep \/ PrevStep \/ Submit \/ CreateMerchant \/ RefuseMerchant \/ KycStepDone
  \/ \E lost \in BOOLEAN : SubmitAnswered(lost)

OnboardSpec == OnboardInit /\ [][OnboardNext]_onboardVars

-----------------------------------------------------------------------------
\* "Application Submitted ... has been received" is said of a stored row only,
\* whatever was lost and sent again (merchant/onboard/page.tsx:276-300).
ReceivedIsStored == wizard.step \in {4, 5} => application # "none"
=============================================================================

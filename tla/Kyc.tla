--------------------------------- MODULE Kyc ---------------------------------
(***************************************************************************)
(* Identity verification of one user: apps/api/kyc, the provider and its   *)
(* webhooks, and one visit to the page that shows the status (apps/web,    *)
(* kyc/page.tsx).  The status in the store has a second writer: AuthGate,  *)
(* which wraps every page, writes the status of each new answer to its own *)
(* query "me" (Providers.tsx).  Webhooks and answers may be delayed,       *)
(* webhooks also repeated and reordered.                                   *)
(***************************************************************************)
EXTENDS Naturals, FiniteSets

CONSTANTS Applicant, NoApplicant,
          KycBound   \* a bound of the model: verdicts of the provider and
                     \* questions of AuthGate, together

ASSUME KycAssumption == NoApplicant \notin Applicant

VARIABLES kyc,           \* the user row: kycStatus, kycReference
          verification,  \* per applicant: how far POST /kyc/start has come
          verdict,       \* per applicant: the verdicts the provider has given
          hooks,         \* webhooks on their way, or sent again
          found,         \* webhooks that have found their user
          kycPage,       \* shown: the status in the store; data: the page's
                         \* last answer; fetch: an answer on its way; by:
                         \* "gate" once AuthGate has changed what is shown
          gate           \* AuthGate's last answer, one on its way, and how
                         \* often it has asked

kycVars == <<kyc, verification, verdict, hooks, found, kycPage, gate>>

KycStatus == {"NOT_STARTED", "PENDING", "VERIFIED", "REJECTED"}
KycRow == [status : KycStatus, reference : Applicant \cup {NoApplicant}]
NoAnswer == [status |-> "none", reference |-> NoApplicant]
Verdict == {"completed", "declined", "pending"}
Webhook == [applicant : Applicant, verdict : Verdict]

KycTypeOK ==
  /\ kyc \in KycRow
  /\ verification \in [Applicant -> {"none", "created", "stored", "answered", "failed"}]
  /\ verdict \in [Applicant -> SUBSET Verdict]
  /\ hooks \subseteq Webhook /\ found \subseteq Webhook
  /\ kycPage \in [shown : KycStatus, data : KycRow \cup {NoAnswer},
                  fetch : KycRow \cup {NoAnswer}, by : {"page", "gate"}]
  /\ gate \in [data : KycRow \cup {NoAnswer}, fetch : KycRow \cup {NoAnswer}, asked : Nat]

KycInit ==
  /\ kyc = [status |-> "NOT_STARTED", reference |-> NoApplicant]
  /\ verification = [a \in Applicant |-> "none"]
  /\ verdict = [a \in Applicant |-> {}]
  /\ hooks = {} /\ found = {}
  /\ kycPage = [shown |-> "NOT_STARTED", data |-> NoAnswer, fetch |-> NoAnswer,
                by |-> "page"]
  /\ gate = [data |-> NoAnswer, fetch |-> NoAnswer, asked |-> 0]

\* Within the bound.
MayGoOn ==
  Cardinality({x \in Applicant \X Verdict : x[2] \in verdict[x[1]]}) + gate.asked < KycBound

-----------------------------------------------------------------------------
(* The server.                                                             *)

\* The statuses at which the page offers to start, and no start under way.
StartOffered ==
  /\ kycPage.shown \in {"NOT_STARTED", "REJECTED"}
  /\ \A b \in Applicant : verification[b] \notin {"created", "stored"}

\* createVerification: the provider makes an applicant; then the row is
\* updated; then the page has its answer and opens the provider's form.
CreateApplicant(a) ==
  /\ StartOffered /\ verification[a] = "none"
  /\ verification' = [verification EXCEPT ![a] = "created"]
  /\ UNCHANGED <<kyc, verdict, hooks, found, kycPage, gate>>

StoreReference(a) ==
  /\ verification[a] = "created"
  /\ verification' = [verification EXCEPT ![a] = "stored"]
  /\ kyc' = [status |-> "PENDING", reference |-> a]
  /\ UNCHANGED <<verdict, hooks, found, kycPage, gate>>

HandleStart(a) ==
  /\ verification[a] = "stored"
  /\ verification' = [verification EXCEPT ![a] = "answered"]
  /\ kycPage' = [kycPage EXCEPT !.shown = "PENDING"]
  /\ UNCHANGED <<kyc, verdict, hooks, found, gate>>

\* The update, the log entry written after it, or the answer is lost: the page
\* offers the same button again, and nobody opens the provider's form.
StartFails(a) ==
  /\ verification[a] \in {"created", "stored"}
  /\ verification' = [verification EXCEPT ![a] = "failed"]
  /\ UNCHANGED <<kyc, verdict, hooks, found, kycPage, gate>>

\* The user fills in the form, the provider decides, perhaps more than once.
ProviderDecides(a, v) ==
  /\ verification[a] = "answered" /\ v \notin verdict[a] /\ MayGoOn
  /\ verdict' = [verdict EXCEPT ![a] = @ \cup {v}]
  /\ hooks' = hooks \cup {[applicant |-> a, verdict |-> v]}
  /\ UNCHANGED <<kyc, verification, found, kycPage, gate>>

\* processWebhook: one that finds no user is answered and forgotten.
WebhookFinds(h, again) ==
  /\ h \in hooks
  /\ hooks' = IF again THEN hooks ELSE hooks \ {h}
  /\ found' = IF kyc.reference = h.applicant THEN found \cup {h} ELSE found
  /\ UNCHANGED <<kyc, verification, verdict, kycPage, gate>>

\* Mutant: whatever is not a refusal verifies.
StatusOfLenient(v) == IF v = "declined" THEN "REJECTED" ELSE "VERIFIED"

StatusOf(v) == CASE v = "completed" -> "VERIFIED"
                 [] v = "declined" -> "REJECTED"   \* or "rejected"
                 [] OTHER -> "PENDING"

WebhookWrites(h) ==
  /\ h \in found
  /\ found' = found \ {h}
  /\ kyc' = [kyc EXCEPT !.status = StatusOf(h.verdict)]
  /\ UNCHANGED <<verification, verdict, hooks, kycPage, gate>>

-----------------------------------------------------------------------------
(* The page.                                                               *)

\* Mutant: the answer is the status alone.
GetStatusOnly ==
  /\ kycPage.fetch = NoAnswer
  /\ kycPage.data = NoAnswer \/ kycPage.shown = "PENDING"
  /\ kycPage' = [kycPage EXCEPT !.fetch = [kyc EXCEPT !.reference = NoApplicant]]
  /\ UNCHANGED <<kyc, verification, verdict, hooks, found, gate>>

\* The first fetch, and then one every five seconds while PENDING is shown.
GetStatus ==
  /\ kycPage.fetch = NoAnswer
  /\ kycPage.data = NoAnswer \/ kycPage.shown = "PENDING"
  /\ kycPage' = [kycPage EXCEPT !.fetch = kyc]
  /\ UNCHANGED <<kyc, verification, verdict, hooks, found, gate>>

\* The query keeps its old object when the answer is equal to it, and the
\* effect that copies the status runs only for a new object.
ShowStatus ==
  /\ kycPage.fetch # NoAnswer
  /\ kycPage' = [kycPage EXCEPT !.shown = IF kycPage.fetch = kycPage.data THEN @
                                          ELSE kycPage.fetch.status,
                                !.data = kycPage.fetch, !.fetch = NoAnswer]
  /\ UNCHANGED <<kyc, verification, verdict, hooks, found, gate>>

\* AuthGate's query runs at a load, for a new token, or when the browser is
\* online again; its answer is the user's whole row.
GetMe ==
  /\ gate.fetch = NoAnswer /\ MayGoOn
  /\ gate' = [gate EXCEPT !.fetch = kyc, !.asked = @ + 1]
  /\ UNCHANGED <<kyc, verification, verdict, hooks, found, kycPage>>

\* An answer that is equal here may still be new: the row has other columns.
ShowMe(new) ==
  /\ gate.fetch # NoAnswer /\ (gate.fetch # gate.data => new)
  /\ gate' = [gate EXCEPT !.data = gate.fetch, !.fetch = NoAnswer]
  /\ kycPage' = IF new /\ kycPage.shown # gate.fetch.status
                THEN [kycPage EXCEPT !.shown = gate.fetch.status, !.by = "gate"]
                ELSE kycPage
  /\ UNCHANGED <<kyc, verification, verdict, hooks, found>>

KycNext ==
  \/ \E a \in Applicant : \/ CreateApplicant(a) \/ StoreReference(a) \/ HandleStart(a) \/ StartFails(a)
                          \/ \E v \in Verdict : ProviderDecides(a, v)
  \/ \E h \in hooks, again \in BOOLEAN : WebhookFinds(h, again)
  \/ \E h \in found : WebhookWrites(h)
  \/ GetStatus \/ ShowStatus
  \/ GetMe \/ \E new \in BOOLEAN : ShowMe(new)

\* The page's timer fires and its requests are answered.
KycFairness == WF_kycVars(GetStatus) /\ WF_kycVars(ShowStatus)

KycSpec == KycInit /\ [][KycNext]_kycVars /\ KycFairness

-----------------------------------------------------------------------------
\* A verified user was found complete by the provider, in a verification this
\* user started, however late, often and out of order the webhooks come.
VerifiedByProvider ==
  kyc.status = "VERIFIED" => \E a \in Applicant : "completed" \in verdict[a]

\* "This page updates automatically": a page that shows PENDING does not go on
\* doing so once the user stays verified, or stays rejected, unless the page had
\* the outcome of this very verification before, and AuthGate's answer, older
\* or of another moment, took its place: then no answer is a new object again.
PendingIsLeft ==
  [](/\ kycPage.shown = "PENDING" /\ kyc.status \in {"VERIFIED", "REJECTED"}
     /\ kycPage.data.reference = kyc.reference => kycPage.data.status = "PENDING"
     => <>(kycPage.shown # "PENDING" \/ kyc.status = "PENDING"))

\* What it rests on: as long as AuthGate has not changed what the page shows,
\* while it shows PENDING and the row says otherwise, the page's last answer is
\* not the row, so that a fresh one is a new object.
PendingIsNews ==
  kycPage.by = "page" /\ kycPage.shown = "PENDING" /\ kyc.status # "PENDING"
    => kycPage.data # kyc
=============================================================================

------------------------------ MODULE Merchants ------------------------------
(***************************************************************************)
(* One merchant under review by the admins (apps/api/admin and merchants,  *)
(* apps/admin), and the copy of its status in the registry contract, which *)
(* a review writes second, in a transaction it may stop waiting for.       *)
(***************************************************************************)
EXTENDS Naturals

CONSTANTS Reviewer,
          PollLimit      \* 20 in the code

ASSUME PollLimitAssumption == PollLimit \in Nat \ {0}

VARIABLES mrow,      \* the merchants row; rejected: it has been REJECTED once
          onChain,   \* its status in the registry contract
          review,    \* per admin: the review its request is in
          lateCalls  \* contract calls sent by requests that gave up on them

merchantVars == <<mrow, onChain, review, lateCalls>>

Operation == {"approve", "reject", "suspend"}
RowStatus == {"PENDING", "APPROVED", "REJECTED", "SUSPENDED"}
NewStatus == [approve |-> "APPROVED", reject |-> "REJECTED", suspend |-> "SUSPENDED"]

NoReview == [op |-> "none", at |-> "idle", tx |-> "none", polls |-> 0]

MerchantTypeOK ==
  /\ mrow \in [status : RowStatus, approvedAt : BOOLEAN, rejected : BOOLEAN]
  /\ onChain \in {"Absent", "Pending", "Approved", "Rejected", "Suspended"}
  /\ review \in [Reviewer -> [op : Operation \cup {"none"},
                              at : {"idle", "asked", "lookup", "register", "send", "poll"},
                              tx : {"none", "flying", "done"},
                              polls : 0 .. PollLimit]]
  /\ lateCalls \subseteq Operation

MerchantInit ==
  /\ mrow = [status |-> "PENDING", approvedAt |-> FALSE, rejected |-> FALSE]
  /\ onChain = "Absent"
  /\ review = [a \in Reviewer |-> NoReview]
  /\ lateCalls = {}

-----------------------------------------------------------------------------
(* The reviews.                                                            *)

\* A button of an admin's page, which may be of any age, or another client of
\* the API.  (The buttons Reject and Suspend send a reason, which
\* ReviewMerchantDto does not know, and are refused.)
AskReview(a, op) ==
  /\ review[a].at = "idle"
  /\ review' = [review EXCEPT ![a] = [op |-> op, at |-> "asked", tx |-> "none", polls |-> 0]]
  /\ UNCHANGED <<mrow, onChain, lateCalls>>

RowAfter(status) == [status |-> status,
                     approvedAt |-> mrow.approvedAt \/ status = "APPROVED",
                     rejected |-> mrow.rejected \/ status = "REJECTED"]

\* The row is written, then the admin log; a log that fails ends the request,
\* and only an approval looks the merchant up before it calls the contract.
Written(a, logged) ==
  review' = [review EXCEPT ![a] =
    IF ~logged THEN NoReview
    ELSE [@ EXCEPT !.at = IF review[a].op = "approve" THEN "lookup" ELSE "send"]]

\* Mutant: the contract is called, and the row is not written first.
WriteRowLater(a, logged) ==
  /\ review[a].at = "asked"
  /\ Written(a, logged)
  /\ UNCHANGED <<mrow, onChain, lateCalls>>

WriteRow(a, logged) ==
  /\ review[a].at = "asked"
  /\ mrow' = RowAfter(NewStatus[review[a].op])
  /\ Written(a, logged)
  /\ UNCHANGED <<onChain, lateCalls>>

\* getMerchant answers null for an unknown merchant and for any failure.
LookUpMerchant(a) ==
  /\ review[a].at = "lookup"
  /\ \/ onChain # "Absent" /\ review' = [review EXCEPT ![a].at = "send"]
     \/ review' = [review EXCEPT ![a].at = "register"]
  /\ UNCHANGED <<mrow, onChain, lateCalls>>

\* It is given the owner's user id, which is no Stellar address: it throws
\* before it sends anything, and the review ends.
RegisterOnChain(a) ==
  /\ review[a].at = "register"
  /\ review' = [review EXCEPT ![a] = NoReview]
  /\ UNCHANGED <<mrow, onChain, lateCalls>>

\* The statuses from which the contract accepts a call (MerchantRegistry), and
\* the status it leads to.
Accepts == [approve |-> {"Pending", "Approved", "Suspended"},
            reject |-> {"Pending"}, suspend |-> {"Approved"}]
LeadsTo == [approve |-> "Approved", reject |-> "Rejected", suspend |-> "Suspended"]

\* Simulated, signed and sent; a failure is caught, and the review has ended.
SendCall(a) ==
  /\ review[a].at = "send"
  /\ \/ /\ onChain \in Accepts[review[a].op]
        /\ review' = [review EXCEPT ![a].at = "poll", ![a].tx = "flying"]
     \/ review' = [review EXCEPT ![a] = NoReview]
  /\ UNCHANGED <<mrow, onChain, lateCalls>>

\* The ledger applies or refuses the call, or it expires.
Ledgered(op, applied) ==
  /\ applied => onChain \in Accepts[op]
  /\ onChain' = IF applied THEN LeadsTo[op] ELSE onChain

CallLands(a, applied) ==
  /\ review[a].tx = "flying" /\ Ledgered(review[a].op, applied)
  /\ review' = [review EXCEPT ![a].tx = "done"]
  /\ UNCHANGED <<mrow, lateCalls>>

LateCallLands(op, applied) ==
  /\ op \in lateCalls /\ Ledgered(op, applied)
  /\ lateCalls' = lateCalls \ {op}
  /\ UNCHANGED <<mrow, review>>

\* After the last poll the request gives up on a call that may still land.
PollCall(a) ==
  /\ review[a].at = "poll"
  /\ \/ /\ review[a].tx = "flying" /\ review[a].polls + 1 < PollLimit
        /\ review' = [review EXCEPT ![a].polls = @ + 1]
        /\ UNCHANGED lateCalls
     \/ /\ review[a].tx = "flying" => review[a].polls + 1 >= PollLimit
        /\ review' = [review EXCEPT ![a] = NoReview]
        /\ lateCalls' = IF review[a].tx = "flying" THEN lateCalls \cup {review[a].op}
                        ELSE lateCalls
  /\ UNCHANGED <<mrow, onChain>>

\* PATCH /merchants/:id and its approve, reject and suspend: the row alone.
MerchantsApi(status) ==
  /\ status # mrow.status
  /\ mrow' = RowAfter(status)
  /\ UNCHANGED <<onChain, review, lateCalls>>

\* An operator registers the merchant with the platform's key.
RegisteredByHand ==
  /\ onChain = "Absent"
  /\ onChain' = "Pending"
  /\ UNCHANGED <<mrow, review, lateCalls>>

ReviewStep(a) ==
  \/ \E logged \in BOOLEAN : WriteRow(a, logged)
  \/ LookUpMerchant(a) \/ RegisterOnChain(a) \/ SendCall(a) \/ PollCall(a)

MerchantNext ==
  \/ \E a \in Reviewer : \/ ReviewStep(a)
                         \/ \E op \in Operation : AskReview(a, op)
                         \/ \E applied \in BOOLEAN : CallLands(a, applied)
  \/ \E op \in Operation, applied \in BOOLEAN : LateCallLands(op, applied)
  \/ \E status \in RowStatus : MerchantsApi(status)
  \/ RegisteredByHand

MerchantSpec == MerchantInit /\ [][MerchantNext]_merchantVars

-----------------------------------------------------------------------------
(* However reviews overlap, give up and land late, the contract never runs *)
(* ahead of the database: it has approved or suspended only a merchant an  *)
(* admin has approved there, and rejected only one an admin has rejected   *)
(* (admin.service.ts:104-195).  Nor is a merchant found for payment that   *)
(* nobody approved.                                                        *)
ChainFollowsReview ==
  /\ onChain \in {"Approved", "Suspended"} \/ mrow.status = "APPROVED" => mrow.approvedAt
  /\ onChain = "Rejected" => mrow.rejected
=============================================================================

------------------------------- MODULE PayPage --------------------------------
(***************************************************************************)
(* apps/web, /pay: a scan looks up the merchant of a UPI address and opens *)
(* the payment sheet.  The scanner reports a code several times a second,  *)
(* and every report starts a lookup of its own; their answers write the    *)
(* same page.  The page ends at CONFIRM: nothing unlocks the app, and its  *)
(* "Pay Now" stays disabled.                                               *)
(***************************************************************************)
EXTENDS Naturals

CONSTANTS Vpa, NoVpa,    \* UPI addresses; each has at most one merchant
          Approved,      \* those whose merchant the contract has approved
          Scan           \* calls of handleScan

ASSUME PayAssumption == NoVpa \notin Vpa /\ Approved \subseteq Vpa

VARIABLES sheet,          \* payee, merchant, approved: the address whose name,
                         \* id and "Approved" badge the page shows
          scan,          \* the lookups
          mixed          \* a lookup began beside another address's (history)

payVars == <<sheet, scan, mixed>>

PayTypeOK ==
  /\ sheet \in [step : {"SCAN", "MERCHANT_FOUND", "QUOTE", "CONFIRM"},
               vpa : Vpa \cup {NoVpa}, payee : Vpa \cup {NoVpa},
               merchant : Vpa \cup {NoVpa}, approved : Vpa \cup {NoVpa},
               amount : BOOLEAN]
  /\ scan \in [Scan -> [vpa : Vpa \cup {NoVpa}, at : {"unsent", "find", "status", "done"}]]
  /\ mixed \in BOOLEAN

PayInit ==
  /\ sheet = [step |-> "SCAN", vpa |-> NoVpa, payee |-> NoVpa, merchant |-> NoVpa,
             approved |-> NoVpa, amount |-> FALSE]
  /\ scan = [s \in Scan |-> [vpa |-> NoVpa, at |-> "unsent"]]
  /\ mixed = FALSE

InFlight(s) == scan[s].at \in {"find", "status"}

-----------------------------------------------------------------------------
\* A code or a typed address; the amount in a code replaces the page's.
HandleScan(s, v, amount) ==
  /\ sheet.step = "SCAN" /\ scan[s].at = "unsent"
  /\ sheet' = [sheet EXCEPT !.vpa = v, !.amount = @ \/ amount]
  /\ scan' = [scan EXCEPT ![s] = [vpa |-> v, at |-> "find"]]
  /\ mixed' = (mixed \/ \E t \in Scan : InFlight(t) /\ scan[t].vpa # v)

\* An approved merchant of the address; its name shows before its badge.
MerchantFound(s) ==
  /\ scan[s].at = "find"
  /\ sheet' = [sheet EXCEPT !.payee = scan[s].vpa, !.merchant = scan[s].vpa]
  /\ scan' = [scan EXCEPT ![s].at = "status"]
  /\ UNCHANGED mixed

\* Mutant: an error leaves the merchant as it was.
LookupFailsLightly(s) ==
  /\ InFlight(s)
  /\ sheet' = [sheet EXCEPT !.step = "MERCHANT_FOUND", !.payee = scan[s].vpa]
  /\ scan' = [scan EXCEPT ![s].at = "done"]
  /\ UNCHANGED mixed

\* No merchant, or an error of either call.
LookupFails(s) ==
  /\ InFlight(s)
  /\ sheet' = [sheet EXCEPT !.step = "MERCHANT_FOUND", !.payee = scan[s].vpa,
                          !.merchant = NoVpa, !.approved = NoVpa]
  /\ scan' = [scan EXCEPT ![s].at = "done"]
  /\ UNCHANGED mixed

\* SorobanService.isMerchantApproved: a read that fails says no, like a refusal.
IsMerchantApproved(v) == {(v \in Approved), FALSE}

\* What the contract says of the merchant.
StatusAnswered(s, approved) ==
  /\ scan[s].at = "status"
  /\ sheet' = [sheet EXCEPT !.step = "MERCHANT_FOUND",
                          !.approved = IF approved THEN scan[s].vpa ELSE NoVpa]
  /\ scan' = [scan EXCEPT ![s].at = "done"]
  /\ UNCHANGED mixed

-----------------------------------------------------------------------------
\* The sheet and the pages behind it.
ShowStep(from, to) ==
  /\ sheet.step = from
  /\ sheet' = [sheet EXCEPT !.step = to]
  /\ UNCHANGED <<scan, mixed>>

EnterAmount(amount) ==
  /\ sheet.step = "MERCHANT_FOUND"
  /\ sheet' = [sheet EXCEPT !.amount = amount]
  /\ UNCHANGED <<scan, mixed>>

GetQuote == sheet.amount /\ ShowStep("MERCHANT_FOUND", "QUOTE")
ConfirmPayment == sheet.amount /\ ShowStep("QUOTE", "CONFIRM")

BackwardStep ==
  \/ ShowStep("MERCHANT_FOUND", "SCAN")
  \/ ShowStep("QUOTE", "MERCHANT_FOUND")
  \/ ShowStep("CONFIRM", "QUOTE")

PayNext ==
  \/ \E s \in Scan :
       \/ \E v \in Vpa, amount \in BOOLEAN : HandleScan(s, v, amount)
       \/ MerchantFound(s) \/ LookupFails(s)
       \/ \E approved \in IsMerchantApproved(scan[s].vpa) : StatusAnswered(s, approved)
  \/ \E amount \in BOOLEAN : EnterAmount(amount)
  \/ GetQuote \/ ConfirmPayment \/ BackwardStep

PaySpec == PayInit /\ [][PayNext]_payVars

-----------------------------------------------------------------------------
\* Past the scanner, the name, the merchant and the "Approved" badge on the
\* page are those of the address that would be paid, whatever the page showed
\* of earlier scans and however often one code was reported, unless lookups of
\* two addresses overlapped.  The badge is never that of a merchant the contract
\* has not approved.
PayeeIsVpa ==
  /\ sheet.approved \in Approved \cup {NoVpa}
  /\ ~mixed /\ sheet.step # "SCAN" =>
       /\ sheet.payee = sheet.vpa
       /\ {sheet.merchant, sheet.approved} \subseteq {sheet.vpa, NoVpa}
=============================================================================

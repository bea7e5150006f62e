-------------------------------- MODULE Receipt --------------------------------
(***************************************************************************)
(* apps/web, /history/[id]: the page of one transaction.  It asks for the  *)
(* row every 2.5 seconds while the status it shows is an active one, and   *)
(* offers to cancel.  The transaction processor writes the row meanwhile.  *)
(***************************************************************************)
EXTENDS Naturals

CONSTANTS MoveBound,     \* writes of the processor
          LoadFaults     \* loads that fail

ASSUME ReceiptAssumption == MoveBound \in Nat /\ LoadFaults \in Nat

VARIABLES row,           \* the status in the database
          moves,         \* the processor's writes so far
          receipt,       \* the page: shown; at; what its load has read; its tries
          cancel,        \* the cancel request
          loadFaults     \* failed loads so far

receiptVars == <<row, moves, receipt, cancel, loadFaults>>

StatusOrder == <<"CREATED", "QUOTED", "AUTHORIZED", "CONVERTING", "ROUTING_STELLAR",
                 "SETTLING", "REWARDING", "COMPLETED">>
Ended == {"COMPLETED", "FAILED", "CANCELLED"}
TxStatus == {StatusOrder[k] : k \in DOMAIN StatusOrder} \cup Ended

\* Mutant: one active status is missing.
ActiveButOne == TxStatus \ (Ended \cup {"REWARDING"})

\* The statuses the page keeps asking in.
Active == TxStatus \ Ended

ReceiptTypeOK ==
  /\ row \in TxStatus
  /\ moves \in 0 .. MoveBound
  /\ receipt \in [at : {"loading", "waiting", "stopped", "missing"}, tries : 0 .. 1,
               shown : TxStatus \cup {"none"}, read : TxStatus \cup {"none"}]
  /\ cancel \in {"idle", "sent", "checked", "written"}
  /\ loadFaults \in 0 .. LoadFaults

ReceiptInit ==
  /\ row = "CREATED" /\ moves = 0 /\ cancel = "idle" /\ loadFaults = 0
  /\ receipt = [at |-> "loading", shown |-> "none", read |-> "none", tries |-> 0]

-----------------------------------------------------------------------------
\* The processor, in any order its overlapping runs and retries can produce
\* (module TransactionProcessor).
RowMoves(status) ==
  /\ moves < MoveBound /\ status # row
  /\ row' = status /\ moves' = moves + 1
  /\ UNCHANGED <<receipt, cancel, loadFaults>>

\* The query asks again after its interval, as long as it shows an active status.
Resting(status) == IF status \in Active THEN "waiting" ELSE "stopped"

Load == [receipt EXCEPT !.at = "loading", !.read = "none", !.tries = 0]

IntervalEnds ==
  /\ receipt.at = "waiting"
  /\ receipt' = Load
  /\ UNCHANGED <<row, moves, cancel, loadFaults>>

RowRead ==
  /\ receipt.at = "loading" /\ receipt.read = "none"
  /\ receipt' = [receipt EXCEPT !.read = row]
  /\ UNCHANGED <<row, moves, cancel, loadFaults>>

RowShown ==
  /\ receipt.at = "loading" /\ receipt.read # "none"
  /\ receipt' = [receipt EXCEPT !.at = Resting(receipt.read), !.shown = receipt.read,
                                !.read = "none"]
  /\ UNCHANGED <<row, moves, cancel, loadFaults>>

\* One retry; then a page that has nothing to show says "not found" for good.
LoadFails ==
  /\ receipt.at = "loading" /\ loadFaults < LoadFaults
  /\ loadFaults' = loadFaults + 1
  /\ receipt' = IF receipt.tries = 0 THEN [receipt EXCEPT !.tries = 1, !.read = "none"]
                ELSE [receipt EXCEPT !.read = "none",
                        !.at = IF receipt.shown = "none" THEN "missing" ELSE Resting(receipt.shown)]
  /\ UNCHANGED <<row, moves, cancel>>

-----------------------------------------------------------------------------
Cancellable == receipt.shown \in {"CREATED", "QUOTED", "AUTHORIZED"}

CancelClicked ==
  /\ cancel = "idle" /\ Cancellable
  /\ cancel' = "sent"
  /\ UNCHANGED <<row, moves, receipt, loadFaults>>

\* The API refuses all but CREATED.
CancelChecked ==
  /\ cancel = "sent"
  /\ cancel' = IF row = "CREATED" THEN "checked" ELSE "idle"
  /\ UNCHANGED <<row, moves, receipt, loadFaults>>

\* The row is overwritten, whatever it has become.
CancelWritten ==
  /\ cancel = "checked"
  /\ cancel' = "written" /\ row' = "CANCELLED"
  /\ UNCHANGED <<moves, receipt, loadFaults>>

\* A running load is dropped, and the row asked for afresh.
CancelAnswered ==
  /\ cancel = "written"
  /\ cancel' = "idle" /\ receipt' = Load
  /\ UNCHANGED <<row, moves, loadFaults>>

ReceiptStep == IntervalEnds \/ RowRead \/ RowShown

ReceiptNext ==
  \/ \E status \in TxStatus \ {"CREATED", "CANCELLED"} : RowMoves(status)
  \/ ReceiptStep \/ LoadFails
  \/ CancelClicked \/ CancelChecked \/ CancelWritten \/ CancelAnswered

\* Timers fire, and the API answers or is out of faults.
ReceiptSpec == ReceiptInit /\ [][ReceiptNext]_receiptVars /\ WF_receiptVars(ReceiptStep)

-----------------------------------------------------------------------------
\* A page that has shown the payment comes to show that it ended, once it has,
\* unless the processor revives it: no active status is left on the page for
\* good, whatever loads fail and whatever a cancel interrupts.
EndIsShown ==
  (receipt.shown # "none" /\ row \in Ended) ~> (receipt.shown \in Ended \/ row \notin Ended)
=============================================================================

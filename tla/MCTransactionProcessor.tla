------------------------ MODULE MCTransactionProcessor ------------------------
(* One transaction.  AllCalls is a payment engine the processor's calls were
   written for; RepositoryCalls is what the contracts of this repository
   accept of them. *)
EXTENDS TransactionProcessor, TLC

CONSTANTS r1, r2

AllCalls == {"create", "quote", "convert", "settle", "complete", "mint"}
RepositoryCalls == {"create"}

\* The run with two cron runs leaves to the other one what only one run can
\* meet: a reward row that comes late, a second late call, a late mint, and
\* the settlement poller.  A failed statement comes in place of the request.
RaceBounds ==
  /\ tx.status \in {"NONE", "CREATED"} \/ reward # "NONE"
  /\ Cardinality(inflight) <= 1 /\ "mint" \notin inflight
  /\ poll = "idle" /\ money.outcome \in {"None", "Processing"}
  /\ spent.faults > 0 => spent.requests = 0

\* The fault run spreads three misfortunes over one cron run: failed statements,
\* a crash, a request of the user; or one of these and a lost answer of the
\* Stellar network; or two of those.  No fair step has to add to them, so a
\* behaviour that stays within them is whole.
FaultBounds ==
  2 * (spent.faults + spent.crashes + spent.requests) + 3 * money.lost <= 6

RunnerSymmetry == Permutations(Runner)
=============================================================================

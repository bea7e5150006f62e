----------------------------- MODULE StellarSubmit -----------------------------
(***************************************************************************)
(* StellarService.submitPayment under the policy CircuitBreakerService     *)
(* builds for "STELLAR": up to four attempts behind a breaker that opens   *)
(* after five failures in a row.  All calls pay from the platform account: *)
(* an attempt reads its sequence number and submits a payment with the     *)
(* next one, which the network takes only while it still is the next.      *)
(***************************************************************************)
EXTENDS Naturals, FiniteSets

CONSTANTS Call,          \* concurrent calls of submitPayment
          Faults         \* attempts whose request or answer is lost

ASSUME SubmitAssumption == Faults \in Nat

VARIABLES sequence,      \* the account's, on the ledger
          breaker,       \* its state, and the failures in a row
          submit,        \* the calls, see SubmitType
          lingering      \* payments nobody waits for that may still land

submitVars == <<sequence, breaker, submit, lingering>>

MaxTries == 4            \* maxAttempts: 3 counts the retries
BreakAfter == 5

\* read: the sequence number this attempt has read.  landed: the payments the
\* call has made; lost: its attempts whose answer never came.
SubmitType ==
  [at : {"gate", "load", "send", "paid", "rejected", "returned", "threw"},
   try : 1..MaxTries, read : Nat, landed : Nat, lost : Nat]

SubmitTypeOK ==
  /\ sequence \in Nat
  /\ breaker \in [state : {"closed", "open", "halfOpen"}, failures : 0..BreakAfter - 1]
  /\ submit \in [Call -> SubmitType]
  /\ lingering \in SUBSET [call : Call, next : Nat]

SubmitInit ==
  /\ sequence = 0
  /\ breaker = [state |-> "closed", failures |-> 0]
  /\ submit = [c \in Call |-> [at |-> "gate", try |-> 1, read |-> 0, landed |-> 0, lost |-> 0]]
  /\ lingering = {}

FaultsLeft ==
  Faults > Cardinality({fault \in Call \X (1..Faults) : submit[fault[1]].lost >= fault[2]})

-----------------------------------------------------------------------------
\* ConsecutiveBreaker(5); one failure is enough in the half-open state.
BreakerFails ==
  IF breaker.state = "open" THEN breaker
  ELSE IF breaker.state = "halfOpen" \/ breaker.failures + 1 = BreakAfter
  THEN [state |-> "open", failures |-> 0]
  ELSE [breaker EXCEPT !.failures = @ + 1]

BreakerSucceeds ==
  [state |-> IF breaker.state = "open" THEN "open" ELSE "closed", failures |-> 0]

\* The retry policy handles every exception, that of an open breaker too.
Retried(s) == IF s.try < MaxTries THEN [s EXCEPT !.at = "gate", !.try = @ + 1]
              ELSE [s EXCEPT !.at = "threw"]

\* The breaker lets an attempt through, or makes it fail; in the half-open
\* state the others wait for the first one.
PassBreaker(c) ==
  /\ submit[c].at = "gate" /\ breaker.state = "closed"
  /\ submit' = [submit EXCEPT ![c].at = "load"]
  /\ UNCHANGED <<sequence, breaker, lingering>>

BrokenCircuit(c) ==
  /\ submit[c].at = "gate" /\ breaker.state = "open"
  /\ submit' = [submit EXCEPT ![c] = Retried(@)]
  /\ UNCHANGED <<sequence, breaker, lingering>>

\* Ten seconds after the breaker opened.
HalfOpen(c) ==
  /\ submit[c].at = "gate" /\ breaker.state = "open"
  /\ breaker' = [breaker EXCEPT !.state = "halfOpen"]
  /\ submit' = [submit EXCEPT ![c].at = "load"]
  /\ UNCHANGED <<sequence, lingering>>

\* Mutant: the account is loaded once per call, not once per attempt.
LoadAccountOnce(c) ==
  /\ submit[c].at = "load"
  /\ submit' = [submit EXCEPT ![c].at = "send",
                              ![c].read = IF submit[c].try = 1 THEN sequence ELSE @]
  /\ UNCHANGED <<sequence, breaker, lingering>>

LoadAccount(c) ==
  /\ submit[c].at = "load"
  /\ submit' = [submit EXCEPT ![c].at = "send", ![c].read = sequence]
  /\ UNCHANGED <<sequence, breaker, lingering>>

\* submitTransaction: what the network does with the payment.
Send(c) ==
  /\ submit[c].at = "send"
  /\ IF submit[c].read = sequence
     THEN /\ sequence' = sequence + 1
          /\ submit' = [submit EXCEPT ![c].at = "paid", ![c].landed = @ + 1]
     ELSE /\ submit' = [submit EXCEPT ![c].at = "rejected"]
          /\ UNCHANGED sequence
  /\ UNCHANGED <<breaker, lingering>>

\* The answer arrives: a result, or tx_bad_seq.
AnswerArrives(c) ==
  /\ \/ /\ submit[c].at = "paid"
        /\ submit' = [submit EXCEPT ![c].at = "returned"]
        /\ breaker' = BreakerSucceeds
     \/ /\ submit[c].at = "rejected"
        /\ submit' = [submit EXCEPT ![c] = Retried(@)]
        /\ breaker' = BreakerFails
  /\ UNCHANGED <<sequence, lingering>>

\* No answer: the payment has landed, or may land while the call goes on.
AnswerLost(c) ==
  /\ FaultsLeft
  /\ \/ submit[c].at = "paid" /\ UNCHANGED lingering
     \/ /\ submit[c].at = "send"
        /\ lingering' = lingering \cup {[call |-> c, next |-> submit[c].read]}
  /\ submit' = [submit EXCEPT ![c] = Retried([submit[c] EXCEPT !.lost = @ + 1])]
  /\ breaker' = BreakerFails
  /\ UNCHANGED sequence

LandLate(payment) ==
  /\ payment \in lingering /\ payment.next = sequence
  /\ lingering' = lingering \ {payment}
  /\ sequence' = sequence + 1
  /\ submit' = [submit EXCEPT ![payment.call].landed = @ + 1]
  /\ UNCHANGED breaker

SubmitNext ==
  \/ \E c \in Call : \/ PassBreaker(c) \/ BrokenCircuit(c) \/ HalfOpen(c) \/ LoadAccount(c)
                     \/ Send(c) \/ AnswerArrives(c) \/ AnswerLost(c)
  \/ \E payment \in lingering : LandLate(payment)

SubmitSpec == SubmitInit /\ [][SubmitNext]_submitVars

-----------------------------------------------------------------------------
\* A retry pays a second time only if an answer was lost; a call that returns
\* has paid; one that throws without having lost an answer has not.
PaysAsItSays(c) ==
  /\ submit[c].landed <= submit[c].lost + 1
  /\ submit[c].at = "returned" => submit[c].landed >= 1
  /\ submit[c].at = "threw" /\ submit[c].lost = 0 => submit[c].landed = 0

\* Nothing was lost so far.
Lossless == \A c \in Call : submit[c].lost = 0

\* Every call pays as it says; and on a network that loses nothing, up to three
\* calls that overtake each other on the platform account all get through.  The
\* fourth one can open the breaker with its five failures, and run out of tries.
SubmitsPay ==
  /\ \A c \in Call : PaysAsItSays(c)
  /\ Lossless => \A c \in Call : submit[c].at # "threw"
=============================================================================

------------------------- MODULE TransactionProcessor -------------------------
(***************************************************************************)
(* apps/api: one transaction on its way through the back end.  Cron runs   *)
(* of the transaction processor (they may overlap: a run that takes more   *)
(* than five seconds does not hold back the next), requests of its user,   *)
(* the settlement poller, and what they call: the PaymentEngine contract,  *)
(* the Stellar network, the UPI payout provider and the STAR mint.         *)
(*                                                                         *)
(* Every await is a step.  A call either answers, or throws having done    *)
(* nothing, or throws although it took effect (a lost answer, a poll that  *)
(* gave up); a contract call may also take effect after the caller gave up.*)
(*                                                                         *)
(* Which contract answers is configuration (an environment variable).      *)
(* Callable and CompleteFrom say what the deployed one accepts: the        *)
(* contract in contracts/payment-engine takes none of these calls but      *)
(* create_payment (the others lack its operator argument) and completes    *)
(* only from Rewarded; the mint lacks an argument of the reward engine.    *)
(***************************************************************************)
EXTENDS Naturals, FiniteSets, Sequences

CONSTANTS Runner,         \* cron runs, of one or of several API processes
          Callable,       \* contract methods whose arguments match
          CompleteFrom,   \* the status complete_payment starts from
          Reliable,       \* TRUE: a call that can succeed does, and the payer
                          \* does not cancel on the contract
          Overloaded,     \* TRUE: over ten claims at once, or a slow database
          FaultBound,     \* database statements that fail
          CrashBound,     \* cron runs that die with their process
          LossBound,      \* answers of the Stellar network that get lost
          RequestBound    \* cancel and fail requests

ASSUME ProcessorAssumption ==
  /\ Callable \subseteq {"create", "quote", "convert", "settle", "complete", "mint"}
  /\ CompleteFrom \in {"Settled", "Rewarded"}
  /\ {Reliable, Overloaded} \subseteq BOOLEAN
  /\ {FaultBound, CrashBound, LossBound, RequestBound} \subseteq Nat

VARIABLES tx,             \* the transaction row
          current,        \* its event log: who has read the highest sequence
                          \* number and can still insert the next one
          reward,         \* its Reward row: the status
          settlement,     \* its SettlementInstruction row: the status
          chain,          \* PaymentEngine: the status of its payment
          inflight,       \* contract calls given up on that may still land
          money,          \* what left the platform, and what came of it
          job,            \* the cron runs
          request, poll,  \* the user's request, the settlement poller
          spent           \* faults, crashes and requests so far

vars == <<tx, current, reward, settlement, chain, inflight, money, job,
          request, poll, spent>>
dbVars == <<tx, current, reward, settlement>>
worldVars == <<chain, inflight, money>>

-----------------------------------------------------------------------------
(* The program of a cron run, one entry per call it awaits.                *)

SetStatus(s) == [op |-> "status", arg |-> s]
Invoke(m) == [op |-> "invoke", arg |-> m]
Do(op) == [op |-> op, arg |-> ""]

\* Mutants: the row says QUOTED before the contract has the payment; the
\* Stellar payment goes out before the conversion is recorded.
ProgramStatusFirst ==
  << SetStatus("AUTHORIZED"), Do("findReward"),
     SetStatus("QUOTED"),   Invoke("create"),
     Invoke("quote"),    SetStatus("CONVERTING"),
     Invoke("convert"),  SetStatus("ROUTING_STELLAR"),
     Do("submit"),       SetStatus("SETTLING"),
     Invoke("settle"),   SetStatus("SETTLING"),
     Do("payout"),       Do("sent"),
     Do("mint"),         SetStatus("REWARDING"),
     Invoke("complete"), SetStatus("COMPLETED"), Do("confirm"),
     SetStatus("FAILED"),
     Do("giveUp") >>

ProgramSubmitFirst ==
  << SetStatus("AUTHORIZED"), Do("findReward"),
     Invoke("create"),   SetStatus("QUOTED"),
     Invoke("quote"),    SetStatus("CONVERTING"),
     Do("submit"),       SetStatus("ROUTING_STELLAR"),
     Invoke("convert"),  SetStatus("SETTLING"),
     Invoke("settle"),   SetStatus("SETTLING"),
     Do("payout"),       Do("sent"),
     Do("mint"),         SetStatus("REWARDING"),
     Invoke("complete"), SetStatus("COMPLETED"), Do("confirm"),
     SetStatus("FAILED"),
     Do("giveUp") >>

Program ==
  << SetStatus("AUTHORIZED"), Do("findReward"),
     Invoke("create"),   SetStatus("QUOTED"),
     Invoke("quote"),    SetStatus("CONVERTING"),
     Invoke("convert"),  SetStatus("ROUTING_STELLAR"),
     Do("submit"),       SetStatus("SETTLING"),      \* with the Stellar hash
     Invoke("settle"),   SetStatus("SETTLING"),
     Do("payout"),       Do("sent"),
     Do("mint"),         SetStatus("REWARDING"),
     Invoke("complete"), SetStatus("COMPLETED"), Do("confirm"),
     SetStatus("FAILED"),                            \* the catch block
     Do("giveUp") >>                                 \* out of attempts

HashStep == 10
Handler == 20
GiveUp == 21
MaxAttempts == 3

Idle == [at |-> 0, sub |-> "idle", attempt |-> 1, hash |-> FALSE]

\* Where a run stands; "fetch" is between claiming and fetching.
At(r, op) == job[r].at > 0 /\ Program[job[r].at].op = op
Arg(r) == Program[job[r].at].arg

Enter(j, k) == [j EXCEPT !.at = k,
                         !.sub = IF k = Handler /\ j.hash THEN "hash" ELSE "run"]

\* The next call; the last entry of the try and of the catch block end it.
Advanced(j) == IF j.at \in {Handler - 1, Handler, GiveUp} THEN Idle
               ELSE Enter(j, j.at + 1)

\* Mutants: an exception before the Stellar payment is only logged; one in
\* the catch block is.
ThrownEarlyLogged(j) ==
  CASE j.at < Handler -> IF j.hash THEN Enter(j, Handler) ELSE Idle
    [] OTHER -> Idle

ThrownLateLogged(j) == IF j.at < Handler THEN Enter(j, Handler) ELSE Idle

\* An exception: to the catch block; from there to the next attempt, which
\* starts over, or to giving up; from there out of the run.
Thrown(j) ==
  CASE j.at < Handler -> Enter(j, Handler)
    [] j.at = Handler /\ j.attempt < MaxAttempts ->
         Enter([j EXCEPT !.attempt = @ + 1, !.hash = FALSE], 1)
    [] j.at = Handler /\ j.attempt = MaxAttempts -> Enter(j, GiveUp)
    [] OTHER -> Idle

Step(r) == job' = [job EXCEPT ![r] = Advanced(@)]
Throw(r) == job' = [job EXCEPT ![r] = Thrown(@)]
Sub(r, sub) == job' = [job EXCEPT ![r].sub = sub]

-----------------------------------------------------------------------------
Status == {"NONE", "CREATED", "AUTHORIZED", "QUOTED", "CONVERTING",
           "ROUTING_STELLAR", "SETTLING", "REWARDING", "COMPLETED", "FAILED",
           "CANCELLED"}
ChainStatus == {"Absent", "Created", "Quoted", "Converted", "Settled",
                "Completed", "Cancelled"}
Ended == {"COMPLETED", "FAILED", "CANCELLED"}

TypeOK ==
  /\ tx \in [status : Status, hash : BOOLEAN, fresh : BOOLEAN, open : BOOLEAN]
  /\ current \subseteq Runner \cup {"user"}
  /\ reward \in {"NONE", "PENDING", "MINTED", "DB_ONLY", "FAILED"}
  /\ settlement \in {"PENDING", "SENT", "CONFIRMED", "FAILED"}
  /\ chain \in ChainStatus
  /\ inflight \subseteq Callable
  /\ money \in [stellar : Nat, lost : 0..LossBound, late : 0..1, payouts : Nat,
                minted : BOOLEAN,
                outcome : {"None", "Processing", "Success", "Failed"}]
  /\ job \in [Runner -> [at : 0..GiveUp, attempt : 1..MaxAttempts,
                         hash : BOOLEAN,
                         sub : {"idle", "fetch", "run", "insert", "hash",
                                "minted", "unminted", "dbOnly"}]]
  /\ request \in [kind : {"cancel", "fail"}, sub : {"idle", "checked", "read", "logged"}]
  /\ poll \in {"idle", "asking", "Success", "Failed"}
  /\ spent \in [faults : 0..FaultBound, crashes : 0..CrashBound,
                requests : 0..RequestBound]

Init ==
  /\ tx = [status |-> "NONE", hash |-> FALSE, fresh |-> FALSE, open |-> TRUE]
  /\ current = {}
  /\ reward = "NONE"
  /\ settlement = "PENDING"
  /\ chain = "Absent"
  /\ inflight = {}
  /\ money = [stellar |-> 0, lost |-> 0, late |-> 0, payouts |-> 0, minted |-> FALSE,
              outcome |-> "None"]
  /\ job = [r \in Runner |-> Idle]
  /\ request = [kind |-> "cancel", sub |-> "idle"]
  /\ poll = "idle"
  /\ spent = [faults |-> 0, crashes |-> 0, requests |-> 0]

-----------------------------------------------------------------------------
(* transactions.service create: the row with its first event and its       *)
(* settlement instruction, and only later, in a statement of its own, the  *)
(* reward.                                                                 *)

CreateTransaction ==
  /\ tx.status = "NONE"
  /\ tx' = [tx EXCEPT !.status = "CREATED"]
  /\ UNCHANGED <<current, reward, settlement, worldVars, job, request, poll, spent>>

CreateReward ==
  /\ tx.status # "NONE" /\ reward = "NONE"
  /\ reward' = "PENDING"
  /\ UNCHANGED <<tx, current, settlement, worldVars, job, request, poll, spent>>

\* The quote is 30 seconds old; the claim is six seconds old.
Expire ==
  /\ tx.status = "CREATED" /\ tx.open
  /\ tx' = [tx EXCEPT !.open = FALSE]
  /\ UNCHANGED <<current, reward, settlement, worldVars, job, request, poll, spent>>

Age ==
  /\ tx.status = "AUTHORIZED" /\ tx.fresh      \* nobody asks in other statuses
  /\ Overloaded \/ \A r \in Runner : job[r].sub # "fetch"
  /\ tx' = [tx EXCEPT !.fresh = FALSE]
  /\ UNCHANGED <<current, reward, settlement, worldVars, job, request, poll, spent>>

-----------------------------------------------------------------------------
(* A cron run: claim, fetch, process.                                      *)

Claimable == tx.status = "CREATED" /\ tx.open

Claim(r) ==
  /\ job[r].sub = "idle"
  /\ Claimable
  /\ tx' = [tx EXCEPT !.status = "AUTHORIZED", !.fresh = TRUE]
  /\ job' = [job EXCEPT ![r].sub = "fetch"]
  /\ UNCHANGED <<current, reward, settlement, worldVars, request, poll, spent>>

\* It then fetches what was authorized in the last six seconds, ten at most.
Fetch(r) ==
  /\ job[r].sub = "fetch"
  /\ \/ /\ tx.status = "AUTHORIZED" /\ tx.fresh
        /\ job' = [job EXCEPT ![r] = Enter(@, 1)]
     \/ /\ tx.status = "AUTHORIZED" /\ tx.fresh => Overloaded
        /\ job' = [job EXCEPT ![r] = Idle]
  /\ UNCHANGED <<dbVars, worldVars, request, poll, spent>>

\* A run that claimed some other transaction fetches this one too if it was
\* authorized in the last six seconds, although another run claimed it.
Join(r) ==
  /\ job[r].sub = "idle"
  /\ tx.status = "AUTHORIZED" /\ tx.fresh
  /\ job' = [job EXCEPT ![r] = Enter(Idle, 1)]
  /\ UNCHANGED <<dbVars, worldVars, request, poll, spent>>

\* The event log has one row per (transaction, sequence): whoever inserts
\* first takes the number that everyone else had read as the next one.
ReadSequence(who) == current' = current \cup {who}
Inserts(who) == who \in current /\ current' = {}
Collides(who) == who \notin current /\ current' = current

\* updateStatus: the row whatever it holds, then the event: read the highest
\* sequence number (here with the row: what others insert between the two
\* could as well have come before), then insert the next.
UpdateStatus(r) ==
  /\ At(r, "status") /\ job[r].sub = "run"
  /\ tx' = [tx EXCEPT !.status = Arg(r), !.hash = @ \/ job[r].at = HashStep]
  /\ ReadSequence(r)
  /\ Sub(r, "insert")
  /\ UNCHANGED <<reward, settlement, worldVars, request, poll, spent>>

InsertEvent(r) ==
  /\ job[r].sub = "insert"
  /\ \/ Inserts(r) /\ Step(r)
     \/ Collides(r) /\ Throw(r)
  /\ UNCHANGED <<tx, reward, settlement, worldVars, request, poll, spent>>

FindReward(r) ==
  /\ At(r, "findReward")
  /\ IF reward = "NONE" THEN Throw(r) ELSE Step(r)
  /\ UNCHANGED <<dbVars, worldVars, request, poll, spent>>

-----------------------------------------------------------------------------
(* Calls of the payment engine.                                            *)

From(m) == CASE m = "create" -> "Absent" [] m = "quote" -> "Created"
             [] m = "convert" -> "Quoted" [] m = "settle" -> "Converted"
             [] m = "complete" -> CompleteFrom
To(m) == CASE m = "create" -> "Created" [] m = "quote" -> "Quoted"
           [] m = "convert" -> "Converted" [] m = "settle" -> "Settled"
           [] m = "complete" -> "Completed"

\* Mutant: the contract overwrites a payment it already has.
AcceptsAgain(m) == m \in Callable /\ (m = "create" \/ chain = From(m))

Accepts(m) == m \in Callable /\ chain = From(m)

InvokeContract(r) ==
  /\ At(r, "invoke")
  /\ \/ /\ Accepts(Arg(r))                  \* confirmed
        /\ chain' = To(Arg(r))
        /\ Step(r)
        /\ UNCHANGED inflight
     \/ /\ Accepts(Arg(r)) => ~Reliable     \* refused, or never sent
        /\ Throw(r)
        /\ UNCHANGED <<chain, inflight>>
     \/ /\ Accepts(Arg(r)) /\ ~Reliable     \* sent, and given up on
        /\ inflight' = inflight \cup {Arg(r)}
        /\ Throw(r)
        /\ UNCHANGED chain
  /\ UNCHANGED <<dbVars, money, request, poll, spent>>

\* A call that was given up on lands after all, or its time bounds pass.
Land(m) ==
  /\ m \in inflight
  /\ \/ m # "mint" /\ Accepts(m) /\ chain' = To(m) /\ money' = money
     \/ m = "mint" /\ money' = [money EXCEPT !.minted = TRUE] /\ chain' = chain
     \/ ~(m # "mint" /\ Accepts(m)) /\ UNCHANGED <<chain, money>>
  /\ inflight' = inflight \ {m}
  /\ UNCHANGED <<dbVars, job, request, poll, spent>>

\* The payer cancels on the contract, with its own key.
PayerCancels ==
  /\ chain \in {"Created", "Quoted"}
  /\ ~Reliable
  /\ chain' = "Cancelled"
  /\ UNCHANGED <<dbVars, inflight, money, job, request, poll, spent>>

-----------------------------------------------------------------------------
(* The Stellar payment, the UPI payout and the STAR mint.                  *)

\* What becomes of one Stellar payment.
Tried(landed, lost, late) ==
  [money EXCEPT !.stellar = @ + landed, !.lost = @ + lost, !.late = late]

\* One try of the retry policy around the submission (four at most; here the
\* losses are what ends them).  Every try is a payment of its own, built with
\* the sequence number the account has by then.  It is answered; or it fails,
\* and another follows or the policy throws.  Of a try without an answer
\* nobody knows whether it has landed, or will: at most one of those still on
\* their way can, since they carry the same number.
SubmitStellar(r) ==
  /\ At(r, "submit")
  /\ \/ /\ money' = Tried(1, 0, 0)
        /\ job' = [job EXCEPT ![r] = Advanced([@ EXCEPT !.hash = TRUE])]
     \/ ~Reliable /\ Throw(r) /\ UNCHANGED money
     \/ /\ ~Reliable /\ money.lost < LossBound
        /\ money' \in {Tried(1, 1, 0), Tried(0, 1, 1)}
        /\ UNCHANGED job
  /\ UNCHANGED <<dbVars, chain, inflight, request, poll, spent>>

\* A payment nobody waits for lands within its 30 seconds, or never.
LandLatePayment ==
  /\ money.late = 1
  /\ money' \in {Tried(1, 0, 0), Tried(0, 0, 0)}
  /\ UNCHANGED <<dbVars, chain, inflight, job, request, poll, spent>>

\* A merchant without a default UPI address is skipped, with its "sent".
InitiateUpiPayout(r) ==
  /\ At(r, "payout")
  /\ LET Paid == [money EXCEPT !.payouts = @ + 1, !.outcome = "Processing"]
     IN  \/ money' = Paid /\ Step(r)
         \/ money' = money /\ job' = [job EXCEPT ![r] = Advanced(Advanced(@))]
         \/ ~Reliable /\ money' \in {money, Paid} /\ Throw(r)
  /\ UNCHANGED <<dbVars, chain, inflight, request, poll, spent>>

RecordPayout(r) ==
  /\ At(r, "sent")
  /\ settlement' = "SENT"
  /\ Step(r)
  /\ UNCHANGED <<tx, current, reward, worldVars, request, poll, spent>>

Mintable == "mint" \in Callable /\ ~money.minted

\* Only a pending reward is minted; a user without an active wallet gets a
\* database record.  A mint that throws may have happened.
MintReward(r) ==
  /\ At(r, "mint") /\ job[r].sub = "run"
  /\ \/ reward # "PENDING" /\ Step(r) /\ UNCHANGED <<money, inflight>>
     \/ reward = "PENDING" /\ Sub(r, "dbOnly") /\ UNCHANGED <<money, inflight>>
     \/ /\ reward = "PENDING" /\ Mintable
        /\ money' = [money EXCEPT !.minted = TRUE]
        /\ Sub(r, "minted")
        /\ UNCHANGED inflight
     \/ /\ reward = "PENDING"
        /\ Mintable => ~Reliable
        /\ inflight' \in {inflight} \cup {inflight \cup {m} : m \in {"mint"} \cap Callable}
        /\ Sub(r, "unminted")
        /\ UNCHANGED money
  /\ UNCHANGED <<dbVars, chain, request, poll, spent>>

RecordMint(r) ==
  /\ At(r, "mint") /\ job[r].sub \in {"minted", "unminted", "dbOnly"}
  /\ reward' = CASE job[r].sub = "minted" -> "MINTED"
                 [] job[r].sub = "unminted" -> "FAILED"
                 [] OTHER -> "DB_ONLY"
  /\ Step(r)
  /\ UNCHANGED <<tx, current, settlement, worldVars, request, poll, spent>>

\* Confirmed whatever the settlement says by then; the admin log follows.
ConfirmSettlement(r) ==
  /\ At(r, "confirm")
  /\ settlement' = "CONFIRMED"
  /\ Step(r)
  /\ UNCHANGED <<tx, current, reward, worldVars, request, poll, spent>>

-----------------------------------------------------------------------------
(* What can go wrong in a run.                                             *)

\* The catch block first saves the hash, and ignores an error of that.
SaveHash(r) ==
  /\ job[r].sub = "hash"
  /\ tx' = [tx EXCEPT !.hash = TRUE]
  /\ Sub(r, "run")
  /\ UNCHANGED <<current, reward, settlement, worldVars, request, poll, spent>>

GiveUpTransaction(r) ==
  /\ At(r, "giveUp")
  /\ tx' = [tx EXCEPT !.status = "FAILED"]
  /\ Step(r)
  /\ UNCHANGED <<current, reward, settlement, worldVars, request, poll, spent>>

\* A database statement of the run fails.  Saving the hash ignores it, the
\* reward's own catch block records FAILED, everything else throws.  After
\* the confirmation it may be the admin log that fails.
DatabaseFault(r) ==
  /\ spent.faults < FaultBound
  /\ \/ job[r].sub = "fetch" /\ job' = [job EXCEPT ![r] = Idle]
     \/ job[r].sub = "hash" /\ Sub(r, "run")
     \/ job[r].sub = "minted" /\ Sub(r, "unminted")
     \/ /\ \/ job[r].sub \in {"insert", "unminted", "dbOnly"}
           \/ /\ job[r].sub = "run"
              /\ \E op \in {"status", "findReward", "payout", "sent", "mint",
                            "confirm", "giveUp"} : At(r, op)
        /\ Throw(r)
  /\ settlement' \in {settlement} \cup {c \in {"CONFIRMED"} : At(r, "confirm")}
  /\ current' = current \ {r}
  /\ spent' = [spent EXCEPT !.faults = @ + 1]
  /\ UNCHANGED <<tx, reward, worldVars, request, poll>>

\* The process dies.  Nothing picks up what its run was doing.
Crash(r) ==
  /\ job[r].sub # "idle"
  /\ spent.crashes < CrashBound
  /\ job' = [job EXCEPT ![r] = Idle]
  /\ current' = current \ {r}
  /\ spent' = [spent EXCEPT !.crashes = @ + 1]
  /\ UNCHANGED <<tx, reward, settlement, worldVars, request, poll>>

-----------------------------------------------------------------------------
(* cancel and fail of transactions.service: check, read the sequence,      *)
(* insert the event, update the row without looking at it again.           *)

CheckRequest(kind) ==
  /\ request.sub = "idle"
  /\ spent.requests < RequestBound
  /\ tx.status # "NONE"
  /\ IF kind = "cancel" THEN tx.status = "CREATED" ELSE tx.status # "COMPLETED"
  /\ request' = [kind |-> kind, sub |-> "checked"]
  /\ spent' = [spent EXCEPT !.requests = @ + 1]
  /\ UNCHANGED <<dbVars, worldVars, job, poll>>

NumberRequest ==
  /\ request.sub = "checked"
  /\ ReadSequence("user")
  /\ request' = [request EXCEPT !.sub = "read"]
  /\ UNCHANGED <<tx, reward, settlement, worldVars, job, poll, spent>>

InsertRequestEvent ==
  /\ request.sub = "read"
  /\ \/ Inserts("user") /\ request' = [request EXCEPT !.sub = "logged"]
     \/ Collides("user") /\ request' = [request EXCEPT !.sub = "idle"]
  /\ UNCHANGED <<tx, reward, settlement, worldVars, job, poll, spent>>

FinishRequest ==
  /\ request.sub = "logged"
  /\ tx' = [tx EXCEPT !.status = IF request.kind = "cancel" THEN "CANCELLED"
                                 ELSE "FAILED"]
  /\ request' = [request EXCEPT !.sub = "idle"]
  /\ UNCHANGED <<current, reward, settlement, worldVars, job, poll, spent>>

-----------------------------------------------------------------------------
(* handlePendingSettlements, and the provider it asks.                     *)

PollFetch ==
  /\ poll = "idle" /\ settlement = "SENT"
  /\ poll' = "asking"
  /\ UNCHANGED <<dbVars, worldVars, job, request, spent>>

\* Mutant: an answer that is not a success counts as a failure.
PollAnswerImpatient ==
  /\ poll = "asking"
  /\ poll' = IF money.outcome = "Success" THEN "Success" ELSE "Failed"
  /\ UNCHANGED <<dbVars, worldVars, job, request, spent>>

\* An error, or an answer that is neither, changes nothing of interest.
PollAnswer ==
  /\ poll = "asking"
  /\ poll' \in {"idle"} \cup ({money.outcome} \cap {"Success", "Failed"})
  /\ UNCHANGED <<dbVars, worldVars, job, request, spent>>

PollUpdate ==
  /\ poll \in {"Success", "Failed"}
  /\ settlement' = IF poll = "Success" THEN "CONFIRMED" ELSE "FAILED"
  /\ poll' = "idle"
  /\ UNCHANGED <<tx, current, reward, worldVars, job, request, spent>>

ProviderSettles ==
  /\ money.outcome = "Processing"
  /\ \E o \in {"Success", "Failed"} : money' = [money EXCEPT !.outcome = o]
  /\ UNCHANGED <<dbVars, chain, inflight, job, request, poll, spent>>

-----------------------------------------------------------------------------
Work(r) ==
  \/ Fetch(r) \/ UpdateStatus(r) \/ InsertEvent(r)
  \/ FindReward(r) \/ InvokeContract(r) \/ SubmitStellar(r)
  \/ InitiateUpiPayout(r) \/ RecordPayout(r) \/ MintReward(r) \/ RecordMint(r)
  \/ ConfirmSettlement(r) \/ SaveHash(r) \/ GiveUpTransaction(r)

Requests ==
  \/ \E kind \in {"cancel", "fail"} : CheckRequest(kind)
  \/ NumberRequest \/ InsertRequestEvent \/ FinishRequest

Settlements == PollFetch \/ PollAnswer \/ PollUpdate \/ ProviderSettles

Next ==
  \/ CreateTransaction \/ CreateReward \/ Expire \/ Age
  \/ \E r \in Runner : Claim(r) \/ Join(r) \/ Work(r) \/ DatabaseFault(r) \/ Crash(r)
  \/ \E m \in Callable : Land(m)
  \/ PayerCancels \/ LandLatePayment \/ Requests \/ Settlements

Spec == Init /\ [][Next]_vars

\* The event loop runs every pending continuation; the cron keeps firing.
FairSpec ==
  /\ Spec
  /\ \A r \in Runner : WF_vars(Work(r)) /\ WF_vars(Claim(r))

-----------------------------------------------------------------------------
(* Safety.                                                                 *)

(* However many cron runs, retries and late contract calls work on one     *)
(* transaction, its merchant is paid once, and its USDC leaves a second    *)
(* time only if the answer to an earlier payment got lost: the retry       *)
(* policy then pays again (stellar.service.ts:46-76).  Nothing else does:  *)
(* the payment engine takes a payment id once (payment-engine lib.rs:344), *)
(* so one attempt at most gets past create_payment (processor lines        *)
(* 114-197), and an attempt that starts over never pays what the one       *)
(* before it has paid.                                                     *)
PaidOnceIfHeard == money.stellar <= money.lost + 1 /\ money.payouts <= 1

(* Money follows the contract: nothing is submitted to Stellar before the  *)
(* payment is Converted and nothing paid out before it is Settled, so a    *)
(* payer whose cancellation the contract accepted is never charged, even   *)
(* when it races with the processor or with a call that lands late.        *)
MoneyFollowsChain ==
  /\ money.stellar > 0 => chain \in {"Converted", "Settled", "Completed"}
  /\ money.payouts > 0 => chain \in {"Settled", "Completed"}

(* Every behaviour of the back end is one that TransferPromise allows.     *)
(* USDC leaves only for a payment that is Converted on the contract and no *)
(* longer cancellable, even if it lands after its run has given up;        *)
(* nothing is Settled before that; UPI money and STAR go out only for a    *)
(* Settled payment, although a mint or a settle given up on may land after *)
(* its run has died (processor lines 114-225, soroban.service.ts:299).     *)
(* How often the USDC leaves is PaidOnceIfHeard.                           *)
Phase ==
  CASE chain = "Absent" -> "absent"
    [] chain \in {"Created", "Quoted"} -> "open"
    [] chain = "Converted" -> "committed"
    [] chain = "Settled" -> "settled"
    [] chain = "Completed" -> "done"
    [] OTHER -> "withdrawn"

Promise == INSTANCE TransferPromise WITH
  phase <- Phase,
  charged <- money.stellar > 0,
  paid <- money.payouts > 0,
  earned <- money.minted

KeepsTransferPromise == Promise!Spec

(* The row never claims more than happened: each status a user can poll    *)
(* implies how far the contract got, that the Stellar hash is stored, and  *)
(* that the reward was decided, whoever wrote the row last.                *)
NotAheadOfChain ==
  /\ tx.status = "QUOTED" => chain # "Absent"
  /\ tx.status = "CONVERTING" => chain \notin {"Absent", "Created"}
  /\ tx.status \in {"ROUTING_STELLAR", "SETTLING"} =>
       chain \in {"Converted", "Settled", "Completed"}
  /\ tx.status \in {"SETTLING", "REWARDING", "COMPLETED"} =>
       tx.hash /\ money.stellar > 0
  /\ tx.status = "REWARDING" => chain \in {"Settled", "Completed"}
  /\ tx.status = "COMPLETED" =>
       chain = "Completed" /\ reward \notin {"NONE", "PENDING"}

(* The poller only records a failure the provider reported, and a          *)
(* settlement waits for an answer only if a payout was sent (processor     *)
(* lines 184-191 and 413-441).                                             *)
SettlementMatchesPayout ==
  /\ settlement = "FAILED" => money.outcome = "Failed"
  /\ settlement = "SENT" => money.payouts > 0

(* Without a crash, a failing database or overload no claimed transaction  *)
(* is left half way: when no cron run works on it, it is back in a state   *)
(* the user can act on.  Overlapping runs, colliding events and concurrent *)
(* requests do not strand it.                                              *)
NothingStranded ==
  /\ \A r \in Runner : job[r].sub = "idle"
  /\ spent.faults = 0 /\ spent.crashes = 0 /\ ~Overloaded
  => tx.status \in {"NONE", "CREATED"} \cup Ended

(* However many runs and requests overlap on a fetched transaction, the    *)
(* last run on it leaves it ended, unless a process died or two database   *)
(* statements failed: the catch block, its next attempt or the last write  *)
(* takes up what one failure left (processor lines 50-80 and 318-360).     *)
LastRunEnds ==
  [][(\E r \in Runner : job[r].at > 0) /\ (\A r \in Runner : job'[r].at = 0)
     => tx'.status \in Ended \/ spent'.crashes > 0 \/ spent'.faults > 1]_vars

(* Liveness: a transaction that a run has fetched ends, unless its process *)
(* dies, as long as at most three of its statements fail or lose their     *)
(* event number to the user's request: it takes a fourth failure, after    *)
(* one in the catch block of each attempt, to strand it (processor lines   *)
(* 50-80).  Before the fetch a single one is enough.                       *)
EveryFetchedEnds ==
  \A r \in Runner : job[r].at > 0 ~> tx.status \in Ended \/ spent.crashes > 0

(* The whole flow: "then per tx: ROUTING_STELLAR -> ... -> COMPLETED"      *)
(* (docs/knowledge-base/01-system-architecture.md:45-48).  With nothing    *)
(* failing, a claimed transaction whose reward row exists completes.       *)
ClaimCompletes ==
  \A r \in Runner :
    job[r].sub = "fetch" /\ reward = "PENDING" ~> tx.status = "COMPLETED"

-----------------------------------------------------------------------------
(* What a message says and the code does not do.                           *)

(* "Only created transactions can be cancelled" (transactions.service.ts   *)
(* line 260)                                                               *)
OnlyCreatedCancelled ==
  [][tx'.status = "CANCELLED" => tx.status \in {"CREATED", "CANCELLED"}]_vars
=============================================================================

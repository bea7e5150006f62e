---------------------- MODULE TransactionProcessorProofs ----------------------
(***************************************************************************)
(* What holds of one transaction for every number of cron runs, retries,   *)
(* faults, crashes and requests, whichever contract calls are callable.    *)
(*                                                                         *)
(* The argument.  create_payment is accepted once, so at most one run is   *)
(* ever between it and the end of its try block: the owner.  Where the     *)
(* owner stands fixes the contract's status, how much money left and what  *)
(* the row and the reward hold (OwnerAgrees).  Every other run stands      *)
(* before create_payment or in a catch block and can change none of that,  *)
(* and while there is an owner no call that was given up on can move the   *)
(* contract (OwnerCallsAlone).  Each step is one of a few kinds: it leaves *)
(* the owner alone, moves it one entry, ends its ownership, or takes the   *)
(* contract forward when nobody owns the payment.                          *)
(*                                                                         *)
(* That every run ends, and how the last one leaves the transaction, needs *)
(* only the types: where a run stands says what it will still write.       *)
(***************************************************************************)
EXTENDS TransactionProcessor, TLAPS

StatusSteps == {1, 4, 6, 8, 10, 12, 16, 18, 20}
ContractSteps == {3, 5, 7, 11, 17}
MintStep == 15

\* The entry a run stands at, by its number.
Places(r) ==
  /\ At(r, "status") <=> job[r].at \in StatusSteps
  /\ At(r, "findReward") <=> job[r].at = 2
  /\ At(r, "invoke") <=> job[r].at \in ContractSteps
  /\ At(r, "submit") <=> job[r].at = 9
  /\ At(r, "payout") <=> job[r].at = 13
  /\ At(r, "sent") <=> job[r].at = 14
  /\ At(r, "mint") <=> job[r].at = MintStep
  /\ At(r, "confirm") <=> job[r].at = 19
  /\ At(r, "giveUp") <=> job[r].at = GiveUp

Arguments(r) ==
  /\ job[r].at = 1 => Arg(r) = "AUTHORIZED"
  /\ job[r].at = 4 => Arg(r) = "QUOTED"
  /\ job[r].at = 6 => Arg(r) = "CONVERTING"
  /\ job[r].at = 8 => Arg(r) = "ROUTING_STELLAR"
  /\ job[r].at \in {10, 12} => Arg(r) = "SETTLING"
  /\ job[r].at = 16 => Arg(r) = "REWARDING"
  /\ job[r].at = 18 => Arg(r) = "COMPLETED"
  /\ job[r].at = Handler => Arg(r) = "FAILED"
  /\ job[r].at = 3 => Arg(r) = "create"
  /\ job[r].at = 5 => Arg(r) = "quote"
  /\ job[r].at = 7 => Arg(r) = "convert"
  /\ job[r].at = 11 => Arg(r) = "settle"
  /\ job[r].at = 17 => Arg(r) = "complete"

LEMMA Operations ==
  /\ \A k \in StatusSteps : Program[k].op = "status"
  /\ \A k \in ContractSteps : Program[k].op = "invoke"
  /\ Program[2].op = "findReward" /\ Program[9].op = "submit"
  /\ Program[13].op = "payout" /\ Program[14].op = "sent"
  /\ Program[MintStep].op = "mint" /\ Program[19].op = "confirm"
  /\ Program[GiveUp].op = "giveUp"
<1>1. /\ Program[1].op = "status" /\ Program[4].op = "status"
      /\ Program[6].op = "status" /\ Program[8].op = "status"
      /\ Program[10].op = "status" /\ Program[12].op = "status"
      /\ Program[16].op = "status" /\ Program[18].op = "status"
      /\ Program[20].op = "status"
  BY DEF Program, SetStatus, Invoke, Do
<1>2. /\ Program[3].op = "invoke" /\ Program[5].op = "invoke"
      /\ Program[7].op = "invoke" /\ Program[11].op = "invoke"
      /\ Program[17].op = "invoke"
  BY DEF Program, SetStatus, Invoke, Do
<1>3. /\ Program[2].op = "findReward" /\ Program[9].op = "submit"
      /\ Program[13].op = "payout" /\ Program[14].op = "sent"
      /\ Program[15].op = "mint" /\ Program[19].op = "confirm"
      /\ Program[21].op = "giveUp"
  BY DEF Program, SetStatus, Invoke, Do
<1> QED
  BY <1>1, <1>2, <1>3 DEF StatusSteps, ContractSteps, MintStep, GiveUp

LEMMA ProgramPlaces ==
  ASSUME NEW r \in Runner, job[r].at \in 0 .. GiveUp
  PROVE  Places(r)
<1>1. \/ job[r].at = 0
      \/ job[r].at \in StatusSteps
      \/ job[r].at \in ContractSteps
      \/ job[r].at \in {2, 9, 13, 14, MintStep, 19, GiveUp}
  BY DEF GiveUp, StatusSteps, ContractSteps, MintStep
<1>2. At(r, "status") <=> job[r].at \in StatusSteps
  BY <1>1, Operations DEF At, StatusSteps
<1>3. At(r, "invoke") <=> job[r].at \in ContractSteps
  BY <1>1, Operations DEF At, ContractSteps
<1>4. /\ At(r, "findReward") <=> job[r].at = 2
      /\ At(r, "submit") <=> job[r].at = 9
      /\ At(r, "payout") <=> job[r].at = 13
  BY <1>1, Operations DEF At, StatusSteps, ContractSteps
<1>5. /\ At(r, "sent") <=> job[r].at = 14
      /\ At(r, "mint") <=> job[r].at = MintStep
  BY <1>1, Operations DEF At, MintStep, StatusSteps, ContractSteps
<1>6. /\ At(r, "confirm") <=> job[r].at = 19
      /\ At(r, "giveUp") <=> job[r].at = GiveUp
  BY <1>1, Operations DEF At, GiveUp, StatusSteps, ContractSteps
<1> QED
  BY <1>2, <1>3, <1>4, <1>5, <1>6 DEF Places

LEMMA ProgramArguments ==
  ASSUME NEW r \in Runner
  PROVE  Arguments(r)
<1>1. /\ Program[1].arg = "AUTHORIZED" /\ Program[4].arg = "QUOTED"
      /\ Program[6].arg = "CONVERTING" /\ Program[8].arg = "ROUTING_STELLAR"
      /\ Program[10].arg = "SETTLING" /\ Program[12].arg = "SETTLING"
      /\ Program[16].arg = "REWARDING" /\ Program[18].arg = "COMPLETED"
      /\ Program[20].arg = "FAILED"
  BY DEF Program, SetStatus, Invoke, Do
<1>2. /\ Program[3].arg = "create" /\ Program[5].arg = "quote"
      /\ Program[7].arg = "convert" /\ Program[11].arg = "settle"
      /\ Program[17].arg = "complete"
  BY DEF Program, SetStatus, Invoke, Do
<1> QED
  BY <1>1, <1>2 DEF Arguments, Arg, Handler

-----------------------------------------------------------------------------
(* What entering, advancing and throwing do to the record of a run.        *)

Subs == {"idle", "fetch", "run", "insert", "hash", "minted", "unminted", "dbOnly"}
JobRecord == [at : 0 .. GiveUp, attempt : 1 .. MaxAttempts, hash : BOOLEAN,
              sub : Subs]

\* A run between two calls is at the call it will make or has half made.
Placed(j) ==
  /\ j.sub \in {"idle", "fetch"} <=> j.at = 0
  /\ j.sub = "insert" => j.at \in StatusSteps
  /\ j.sub = "hash" => j.at = Handler
  /\ j.sub \in {"minted", "unminted", "dbOnly"} => j.at = MintStep

LEMMA EnterPlaces ==
  ASSUME NEW j \in JobRecord, NEW k \in 1 .. GiveUp
  PROVE  /\ Enter(j, k) \in JobRecord /\ Placed(Enter(j, k))
         /\ Enter(j, k).at = k
         /\ Enter(j, k).sub \in {"run", "hash"}
         /\ Enter(j, k).sub = "hash" => k = Handler
         /\ Enter(j, k).hash = j.hash
<1>1. Enter(j, k) \in JobRecord
  <2> DEFINE sub == IF k = Handler /\ j.hash THEN "hash" ELSE "run"
  <2>1. sub \in Subs /\ k \in 0 .. GiveUp
    BY DEF Subs, GiveUp
  <2>2. Enter(j, k) = [j EXCEPT !.at = k, !.sub = sub]
    BY DEF Enter
  <2> HIDE DEF sub
  <2> QED
    BY <2>1, <2>2 DEF JobRecord
<1>2. /\ Enter(j, k).at = k
      /\ Enter(j, k).hash = j.hash
      /\ Enter(j, k).sub = IF k = Handler /\ j.hash THEN "hash" ELSE "run"
  BY DEF Enter, JobRecord
<1> QED
  BY <1>1, <1>2 DEF Placed, GiveUp

LEMMA IdlePlaced ==
  Idle \in JobRecord /\ Placed(Idle) /\ Idle.at = 0 /\ Idle.sub = "idle"
BY DEF Idle, JobRecord, Placed, Subs, GiveUp, MaxAttempts

LEMMA AdvancedPlaces ==
  ASSUME NEW j \in JobRecord, j.at > 0
  PROVE  /\ Advanced(j) \in JobRecord /\ Placed(Advanced(j))
         /\ Advanced(j).at = IF j.at \in 1 .. 18 THEN j.at + 1 ELSE 0
         /\ Advanced(j).sub = IF j.at \in 1 .. 18 THEN "run" ELSE "idle"
<1>1. CASE j.at \in {19, 20, 21}
  BY <1>1, IdlePlaced DEF Advanced, Handler, GiveUp
<1>2. CASE j.at \in 1 .. 18
  <2>1. Advanced(j) = Enter(j, j.at + 1) /\ j.at + 1 \in 1 .. GiveUp
    BY <1>2 DEF Advanced, Handler, GiveUp
  <2> QED
    BY <1>2, <2>1, EnterPlaces DEF Handler
<1> QED
  BY <1>1, <1>2 DEF JobRecord, GiveUp

LEMMA ThrownPlaces ==
  ASSUME NEW j \in JobRecord, j.at > 0
  PROVE  /\ Thrown(j) \in JobRecord /\ Placed(Thrown(j))
         /\ j.at \in 1 .. 19 => Thrown(j).at = Handler
         /\ j.at = Handler => Thrown(j).at \in {1, GiveUp}
         /\ j.at = GiveUp => Thrown(j).at = 0 /\ Thrown(j).sub = "idle"
         /\ Thrown(j).at > 0 => Thrown(j).sub \in {"run", "hash"}
<1>1. CASE j.at \in 1 .. 19
  BY <1>1, EnterPlaces DEF Thrown, Handler, GiveUp
<1>2. CASE j.at = Handler /\ j.attempt < MaxAttempts
  <2>1. [j EXCEPT !.attempt = @ + 1, !.hash = FALSE] \in JobRecord
    <3>1. j.attempt + 1 \in 1 .. MaxAttempts
      BY <1>2 DEF JobRecord, MaxAttempts
    <3> QED
      BY <3>1 DEF JobRecord
  <2>2. Thrown(j) = Enter([j EXCEPT !.attempt = @ + 1, !.hash = FALSE], 1)
    BY <1>2 DEF Thrown, Handler, MaxAttempts, JobRecord, GiveUp
  <2> QED
    BY <1>2, <2>1, <2>2, EnterPlaces DEF Handler, GiveUp
<1>3. CASE j.at = Handler /\ j.attempt = MaxAttempts
  <2>1. Thrown(j) = Enter(j, GiveUp)
    BY <1>3 DEF Thrown, Handler, MaxAttempts
  <2> QED
    BY <1>3, <2>1, EnterPlaces DEF Handler, GiveUp
<1>4. CASE j.at = GiveUp
  BY <1>4, IdlePlaced DEF Thrown, Handler, GiveUp
<1> QED
  BY <1>1, <1>2, <1>3, <1>4 DEF JobRecord, Handler, GiveUp, MaxAttempts

-----------------------------------------------------------------------------
(* Types, and what a step of a run does to the table of runs.              *)

Typed == TypeOK /\ \A r \in Runner : Placed(job[r])

RowTypes ==
  /\ tx \in [status : Status, hash : BOOLEAN, fresh : BOOLEAN, open : BOOLEAN]
  /\ reward \in {"NONE", "PENDING", "MINTED", "DB_ONLY", "FAILED"}
  /\ settlement \in {"PENDING", "SENT", "CONFIRMED", "FAILED"}

MoneyRecord == [stellar : Nat, lost : 0 .. LossBound, late : 0 .. 1, payouts : Nat,
                minted : BOOLEAN,
                outcome : {"None", "Processing", "Success", "Failed"}]

WorldTypes ==
  /\ chain \in ChainStatus
  /\ inflight \subseteq Callable
  /\ money \in MoneyRecord

OtherTypes ==
  /\ current \subseteq Runner \cup {"user"}
  /\ request \in [kind : {"cancel", "fail"}, sub : {"idle", "checked", "read", "logged"}]
  /\ poll \in {"idle", "asking", "Success", "Failed"}
  /\ spent \in [faults : 0 .. FaultBound, crashes : 0 .. CrashBound,
                requests : 0 .. RequestBound]

LEMMA TypeParts ==
  TypeOK <=> RowTypes /\ WorldTypes /\ OtherTypes /\ job \in [Runner -> JobRecord]
BY DEF TypeOK, RowTypes, WorldTypes, OtherTypes, JobRecord, Subs, MoneyRecord

\* Only r moved.
Moved(r) ==
  /\ job' \in [Runner -> JobRecord]
  /\ \A q \in Runner : Placed(job'[q])
  /\ \A q \in Runner \ {r} : job'[q] = job[q]

LEMMA MovedTyped ==
  ASSUME NEW r \in Runner, Moved(r), RowTypes', WorldTypes', OtherTypes'
  PROVE  Typed'
BY DEF Typed, TypeOK, Moved, RowTypes, WorldTypes, OtherTypes, JobRecord, Subs, MoneyRecord

LEMMA JobTyped == TypeOK => job \in [Runner -> JobRecord]
BY DEF TypeOK, JobRecord, Subs

LEMMA Replaced ==
  ASSUME Typed, NEW r \in Runner, NEW j \in JobRecord, Placed(j),
         job' = [job EXCEPT ![r] = j]
  PROVE  Moved(r) /\ job'[r] = j
BY JobTyped DEF Typed, Moved

LEMMA StepMoves ==
  ASSUME Typed, NEW r \in Runner, job[r].at > 0, Step(r)
  PROVE  /\ Moved(r)
         /\ job[r].at \in 1 .. 18 => job'[r].at = job[r].at + 1 /\ job'[r].sub = "run"
         /\ job[r].at \in 19 .. 21 => job'[r].at = 0 /\ job'[r].sub = "idle"
<1>1. job[r] \in JobRecord
  BY JobTyped DEF Typed
<1>2. job' = [job EXCEPT ![r] = Advanced(job[r])]
  BY DEF Step
<1>3. Moved(r) /\ job'[r] = Advanced(job[r])
  BY <1>1, <1>2, AdvancedPlaces, Replaced
<1> QED
  BY <1>1, <1>3, AdvancedPlaces

LEMMA ThrowMoves ==
  ASSUME Typed, NEW r \in Runner, job[r].at > 0, Throw(r)
  PROVE  /\ Moved(r)
         /\ job[r].at \in 1 .. 19 => job'[r].at = Handler
         /\ job[r].at = Handler => job'[r].at \in {1, GiveUp}
         /\ job[r].at = GiveUp => job'[r].at = 0 /\ job'[r].sub = "idle"
         /\ job'[r].at > 0 => job'[r].sub \in {"run", "hash"}
<1>1. job[r] \in JobRecord
  BY JobTyped DEF Typed
<1>2. job' = [job EXCEPT ![r] = Thrown(job[r])]
  BY DEF Throw
<1>3. Moved(r) /\ job'[r] = Thrown(job[r])
  BY <1>1, <1>2, ThrownPlaces, Replaced
<1> QED
  BY <1>1, <1>3, ThrownPlaces

LEMMA SubMoves ==
  ASSUME Typed, NEW r \in Runner, NEW sub \in Subs, Sub(r, sub),
         Placed([job[r] EXCEPT !.sub = sub])
  PROVE  Moved(r) /\ job'[r].at = job[r].at /\ job'[r].sub = sub
<1>1. job[r] \in JobRecord
  BY JobTyped DEF Typed
<1>2. [job[r] EXCEPT !.sub = sub] \in JobRecord
  BY <1>1 DEF JobRecord
<1>3. job' = [job EXCEPT ![r] = [job[r] EXCEPT !.sub = sub]]
  BY DEF Sub
<1>4. Moved(r) /\ job'[r] = [job[r] EXCEPT !.sub = sub]
  BY <1>2, <1>3, Replaced
<1> QED
  BY <1>1, <1>4 DEF JobRecord

LEMMA LeaveMoves ==
  ASSUME Typed, NEW r \in Runner, job' = [job EXCEPT ![r] = Idle]
  PROVE  Moved(r) /\ job'[r].at = 0 /\ job'[r].sub = "idle"
BY IdlePlaced, Replaced

-----------------------------------------------------------------------------
(* The inductive invariant.                                                *)

\* A run that has created the payment on the contract in this attempt.
Owns(r) == job[r].at \in 4 .. 19

OneOwner == \A r, q \in Runner : Owns(r) /\ Owns(q) => r = q

Untouched ==
  chain = "Absent" =>
    /\ \A r \in Runner : ~Owns(r)
    /\ money.stellar = 0 /\ money.late = 0 /\ money.payouts = 0
    /\ inflight \subseteq {"create"}

OwnerCallsAlone == (\E r \in Runner : Owns(r)) => inflight \subseteq {"create", "mint"}

\* What the contract, the money and the row say where the run stands.
OnChain(r) ==
  /\ job[r].at \in 4 .. 5 => chain \in {"Created", "Cancelled"}
  /\ job[r].at \in 6 .. 7 => chain \in {"Quoted", "Cancelled"}
  /\ job[r].at \in 8 .. 11 => chain = "Converted"
  /\ job[r].at \in 12 .. 17 => chain = "Settled"
  /\ job[r].at \in 18 .. 19 => chain = "Completed"

InMoney(r) ==
  /\ job[r].at \in 4 .. 8 => money.stellar = 0 /\ money.late = 0
  /\ job[r].at = 9 => money.stellar <= money.lost
  /\ job[r].at \in 10 .. 19 => money.stellar > 0
  /\ job[r].at \in 4 .. 13 => money.payouts = 0
  /\ job[r].at = 14 => money.payouts > 0

InRow(r) ==
  /\ job[r].at \in 11 .. 19 => tx.hash
  /\ job[r].at = 10 /\ job[r].sub = "insert" => tx.hash
  /\ job[r].at \in 3 .. 19 => reward # "NONE"
  /\ job[r].at \in 16 .. 19 => reward # "PENDING"

OwnerAgrees == \A r \in Runner : OnChain(r) /\ InMoney(r) /\ InRow(r)

Provider ==
  /\ poll = "Failed" => money.outcome = "Failed"
  /\ money.outcome # "None" => money.payouts > 0

\* A payment still on its way is one of those whose answer was lost.
LatePayment ==
  money.late = 1 => /\ money.stellar < money.lost
                    /\ chain \in {"Converted", "Settled", "Completed"}

SameMoney ==
  /\ money'.stellar = money.stellar /\ money'.lost = money.lost
  /\ money'.late = money.late /\ money'.payouts = money.payouts

Owners == OneOwner /\ Untouched /\ OwnerCallsAlone /\ OwnerAgrees
Paying == PaidOnceIfHeard /\ LatePayment
Results == Paying /\ MoneyFollowsChain /\ NotAheadOfChain /\ Provider /\ SettlementMatchesPayout

IInv == Typed /\ Owners /\ Results

LEMMA InitIInv == Init => IInv
<1> SUFFICES ASSUME Init PROVE IInv
  OBVIOUS
<1>1. job = [r \in Runner |-> Idle]
  BY DEF Init
<1>2. Typed
  <2>1. job \in [Runner -> JobRecord] /\ \A r \in Runner : Placed(job[r])
    BY <1>1, IdlePlaced
  <2> QED
    BY <2>1, ProcessorAssumption DEF Typed, TypeOK, Init, Status, ChainStatus, JobRecord, Subs
<1>3. \A r \in Runner : job[r].at = 0
  BY <1>1 DEF Idle
<1>4. Owners
  BY <1>3 DEF Init, Owners, OneOwner, Untouched, OwnerCallsAlone, OwnerAgrees, OnChain,
              InMoney, InRow, Owns
<1>5. Results
  BY DEF Init, Results, Paying, PaidOnceIfHeard, LatePayment,
     MoneyFollowsChain, NotAheadOfChain,
         SettlementMatchesPayout, Provider
<1> QED
  BY <1>2, <1>4, <1>5 DEF IInv

-----------------------------------------------------------------------------
(* The kinds of step, as the invariant sees them.                          *)

\* What every step of a run starts from.
LEMMA RunFacts ==
  ASSUME Typed, NEW r \in Runner
  PROVE  /\ job[r] \in JobRecord /\ Placed(job[r])
         /\ Places(r) /\ Arguments(r)
BY JobTyped, ProgramPlaces, ProgramArguments DEF Typed, JobRecord

\* A step of a run that leaves the try block, or has not reached the contract.
LEMMA OutsideKeepsOwners ==
  ASSUME Owners, NEW r \in Runner, Moved(r), job'[r].at \notin 3 .. 19,
         UNCHANGED <<chain, inflight, money, reward>>, tx.hash => tx'.hash
  PROVE  Owners'
BY DEF Owners, OneOwner, Untouched, OwnerCallsAlone, OwnerAgrees, OnChain,
       InMoney, InRow, Owns, Moved

\* A step of the run that owns the payment, which stays in the try block.
LEMMA OwnerKeepsOwners ==
  ASSUME Owners, NEW r \in Runner, Moved(r), Owns(r), chain' # "Absent",
         inflight' \subseteq inflight \cup {"mint"},
         reward # "NONE" => reward' # "NONE",
         OnChain(r)', InMoney(r)', InRow(r)'
  PROVE  Owners'
<1>1. \A q \in Runner \ {r} : job'[q] = job[q] /\ job[q].at \notin 4 .. 19
  BY DEF Owners, OneOwner, Owns, Moved
<1>2. OneOwner' /\ Untouched' /\ OwnerCallsAlone'
  BY <1>1 DEF Owners, OneOwner, Untouched, OwnerCallsAlone, Owns
<1>3. OwnerAgrees'
  BY <1>1 DEF Owners, OwnerAgrees, OnChain, InMoney, InRow
<1> QED
  BY <1>2, <1>3 DEF Owners

\* A step that moves no run, nor the contract, nor money.
LEMMA ElsewhereKeepsOwners ==
  ASSUME Owners, UNCHANGED <<job, chain, inflight>>,
         SameMoney,
         reward \notin {"NONE", "PENDING"} => reward' = reward,
         reward = "PENDING" => reward' # "NONE",
         tx.hash => tx'.hash
  PROVE  Owners'
BY DEF Owners, OneOwner, Untouched, OwnerCallsAlone, OwnerAgrees, OnChain,
       InMoney, InRow, Owns, SameMoney

\* A step that shows nobody a new status, and no new answer of the provider.
LEMMA QuietKeepsResults ==
  ASSUME Results, tx'.status = tx.status, tx.hash => tx'.hash,
         reward \notin {"NONE", "PENDING"} => reward' \notin {"NONE", "PENDING"},
         UNCHANGED <<chain, money, settlement, poll>>
  PROVE  Results'
BY DEF Results, Paying, PaidOnceIfHeard, LatePayment,
     MoneyFollowsChain, NotAheadOfChain, Provider,
       SettlementMatchesPayout

\* A step that writes a status that promises nothing.
LEMMA ModestKeepsResults ==
  ASSUME Results, tx'.status \in {"NONE", "CREATED", "AUTHORIZED", "FAILED", "CANCELLED"},
         UNCHANGED <<chain, money, settlement, poll>>
  PROVE  Results'
BY DEF Results, Paying, PaidOnceIfHeard, LatePayment,
     MoneyFollowsChain, NotAheadOfChain, Provider,
       SettlementMatchesPayout

-----------------------------------------------------------------------------
(* Requests, time, and a run before and after its calls.                   *)

LEMMA UpdateStatusKeeps ==
  ASSUME IInv, NEW r \in Runner, UpdateStatus(r)
  PROVE  IInv'
<1>1. job[r] \in JobRecord /\ Placed(job[r]) /\ Places(r) /\ Arguments(r)
  BY RunFacts DEF IInv
<1>2. job[r].at \in StatusSteps /\ job[r].sub = "run"
  BY <1>1 DEF UpdateStatus, Places
<1>3. Placed([job[r] EXCEPT !.sub = "insert"])
  BY <1>1, <1>2 DEF Placed, JobRecord, StatusSteps
<1>4. Moved(r) /\ job'[r].at = job[r].at /\ job'[r].sub = "insert"
  BY <1>1, <1>3, SubMoves DEF UpdateStatus, Subs, IInv
<1>5. tx'.status = Arg(r) /\ (tx'.hash <=> tx.hash \/ job[r].at = HashStep)
  BY TypeParts DEF UpdateStatus, IInv, Typed, RowTypes
<1>6. UNCHANGED <<reward, settlement, chain, inflight, money, poll>>
  BY DEF UpdateStatus, worldVars
<1>7. OnChain(r) /\ InMoney(r) /\ InRow(r)
  BY DEF IInv, Owners, OwnerAgrees
<1>8. Typed'
  <2>1. Arg(r) \in Status
    BY <1>1, <1>2 DEF Arguments, StatusSteps, Status, Handler
  <2>2. RowTypes'
    BY <1>6, <2>1, TypeParts DEF UpdateStatus, IInv, Typed, RowTypes
  <2> QED
    BY <1>4, <1>6, <2>2, TypeParts, MovedTyped
    DEF UpdateStatus, IInv, Typed, WorldTypes, OtherTypes, ReadSequence
<1>9. Owners'
  <2>1. CASE Owns(r)
    <3>1. OnChain(r)' /\ InMoney(r)'
      BY <1>4, <1>6, <1>7 DEF OnChain, InMoney
    <3>2. InRow(r)'
      BY <1>4, <1>5, <1>6, <1>7 DEF InRow, HashStep
    <3>3. chain # "Absent"
      BY <2>1 DEF IInv, Owners, Untouched
    <3> QED
      BY <1>4, <1>6, <2>1, <3>1, <3>2, <3>3, OwnerKeepsOwners DEF IInv
  <2>2. CASE ~Owns(r)
    BY <1>2, <1>4, <1>5, <1>6, <2>2, OutsideKeepsOwners DEF IInv, Owns, StatusSteps
  <2> QED
    BY <2>1, <2>2
<1>10. Results'
  <2>1. NotAheadOfChain'
    BY <1>1, <1>2, <1>5, <1>6, <1>7
    DEF OnChain, InMoney, InRow, Arguments, StatusSteps, NotAheadOfChain, Handler, HashStep
  <2> QED
    BY <1>6, <2>1 DEF IInv, Results, Paying, PaidOnceIfHeard, LatePayment,
     MoneyFollowsChain, Provider,
       SettlementMatchesPayout
<1> QED
  BY <1>8, <1>9, <1>10 DEF IInv

\* A run whose next entry throws: nothing else changes but its event number.
LEMMA ThrowKeeps ==
  ASSUME IInv, NEW r \in Runner, job[r].at > 0, Throw(r),
         UNCHANGED <<tx, reward, settlement, chain, inflight, money, poll>>,
         OtherTypes'
  PROVE  IInv'
<1>1. job[r] \in JobRecord
  BY RunFacts DEF IInv
<1>2. Moved(r) /\ job'[r].at \in {0, 1, Handler, GiveUp}
  BY <1>1, ThrowMoves DEF IInv, JobRecord, Handler, GiveUp
<1>3. Typed'
  BY <1>2, TypeParts, MovedTyped DEF IInv, Typed, RowTypes, WorldTypes
<1>4. Owners'
  BY <1>2, OutsideKeepsOwners DEF IInv, Handler, GiveUp
<1>5. Results'
  BY QuietKeepsResults DEF IInv
<1> QED
  BY <1>3, <1>4, <1>5 DEF IInv

LEMMA NothingLost == Typed => money.lost \in Nat /\ money.stellar \in Nat
BY TypeParts, ProcessorAssumption DEF Typed, WorldTypes, MoneyRecord

LEMMA InsertEventKeeps ==
  ASSUME IInv, NEW r \in Runner, InsertEvent(r)
  PROVE  IInv'
<1>1. job[r] \in JobRecord /\ Placed(job[r])
  BY RunFacts DEF IInv
<1>2. job[r].at \in StatusSteps /\ job[r].sub = "insert"
  BY <1>1 DEF InsertEvent, Placed
<1>3. UNCHANGED <<tx, reward, settlement, chain, inflight, money, request, poll, spent>>
  BY DEF InsertEvent, worldVars
<1>4. OtherTypes'
  BY <1>3, TypeParts DEF InsertEvent, Inserts, Collides, IInv, Typed, OtherTypes
<1>5. CASE Step(r)
  <2>1. /\ Moved(r)
        /\ job[r].at # Handler => job'[r].at = job[r].at + 1
        /\ job[r].at = Handler => job'[r].at = 0
    BY <1>2, <1>5, StepMoves DEF IInv, StatusSteps, Handler
  <2>2. Typed'
    BY <1>3, <1>4, <2>1, TypeParts, MovedTyped DEF IInv, Typed, RowTypes, WorldTypes
  <2>3. OnChain(r) /\ InMoney(r) /\ InRow(r)
    BY DEF IInv, Owners, OwnerAgrees
  <2>4. CASE Owns(r)
    <3>1. OnChain(r)' /\ InMoney(r)' /\ InRow(r)'
      BY <1>2, <1>3, <2>1, <2>3, <2>4, NothingLost
      DEF OnChain, InMoney, InRow, StatusSteps, Owns, Handler, IInv
    <3>2. chain # "Absent"
      BY <2>4 DEF IInv, Owners, Untouched
    <3>3. Owners'
      BY <1>3, <2>1, <2>4, <3>1, <3>2, OwnerKeepsOwners DEF IInv
    <3> QED
      BY <1>3, <2>2, <3>3, QuietKeepsResults DEF IInv
  <2>5. CASE ~Owns(r)
    <3>1. job'[r].at \in {0, 2}
      BY <1>2, <2>1, <2>5 DEF Owns, StatusSteps, Handler
    <3>2. Owners'
      BY <1>3, <2>1, <3>1, OutsideKeepsOwners DEF IInv
    <3> QED
      BY <1>3, <2>2, <3>2, QuietKeepsResults DEF IInv
  <2> QED
    BY <2>4, <2>5
<1>6. CASE Throw(r)
  BY <1>2, <1>3, <1>4, <1>6, ThrowKeeps DEF StatusSteps
<1> QED
  BY <1>5, <1>6 DEF InsertEvent

LEMMA FindRewardKeeps ==
  ASSUME IInv, NEW r \in Runner, FindReward(r)
  PROVE  IInv'
<1>1. job[r].at = 2
  BY RunFacts DEF IInv, FindReward, Places
<1>2. UNCHANGED <<tx, reward, settlement, chain, inflight, money, poll>> /\ OtherTypes'
  BY TypeParts DEF FindReward, worldVars, dbVars, IInv, Typed, OtherTypes
<1>3. CASE reward # "NONE"
  <2>1. Moved(r) /\ job'[r].at = 3
    BY <1>1, <1>3, StepMoves DEF IInv, FindReward
  <2>2. Typed'
    BY <1>2, <2>1, TypeParts, MovedTyped DEF IInv, Typed, RowTypes, WorldTypes
  <2>3. Owners'
    BY <1>2, <1>3, <2>1 DEF IInv, Owners, OneOwner, Untouched, OwnerCallsAlone, OwnerAgrees,
       OnChain, InMoney, InRow, Owns, Moved
  <2> QED
    BY <1>2, <2>2, <2>3, QuietKeepsResults DEF IInv
<1>4. CASE reward = "NONE"
  BY <1>1, <1>2, <1>4, ThrowKeeps DEF FindReward
<1> QED
  BY <1>3, <1>4

-----------------------------------------------------------------------------
(* Calls of the payment engine.                                            *)

\* An accepted call takes the payment one step forward.
LEMMA AcceptedForward ==
  ASSUME NEW m, m # "mint", Accepts(m)
  PROVE  /\ To(m) \in ChainStatus \ {"Absent", "Cancelled"}
         /\ m = "create" => chain = "Absent" /\ To(m) = "Created"
         /\ m = "quote" => chain = "Created" /\ To(m) = "Quoted"
         /\ m = "convert" => chain = "Quoted" /\ To(m) = "Converted"
         /\ m = "settle" => chain = "Converted" /\ To(m) = "Settled"
         /\ m = "complete" => chain \in {"Settled", "Rewarded"} /\ To(m) = "Completed"
         /\ m \in {"create", "quote", "convert", "settle", "complete"}
<1>1. m \in {"create", "quote", "convert", "settle", "complete"}
  BY ProcessorAssumption DEF Accepts
<1> QED
  BY <1>1, ProcessorAssumption DEF Accepts, From, To, ChainStatus

\* Whoever's call it is, what was true of money and row stays true.
LEMMA ForwardKeepsResults ==
  ASSUME IInv, NEW m, m # "mint", Accepts(m), chain' = To(m),
         UNCHANGED <<tx, reward, settlement, money, poll>>
  PROVE  Results'
<1>1. chain = "Absent" => money.stellar = 0 /\ money.late = 0 /\ money.payouts = 0
  BY DEF IInv, Owners, Untouched
<1>2. MoneyFollowsChain' /\ NotAheadOfChain' /\ LatePayment'
  BY <1>1, AcceptedForward
  DEF IInv, Results, Paying, LatePayment, MoneyFollowsChain, NotAheadOfChain
<1> QED
  BY <1>2 DEF IInv, Results, Paying, PaidOnceIfHeard, LatePayment, Provider, SettlementMatchesPayout

LEMMA ConfirmedKeeps ==
  ASSUME IInv, NEW r \in Runner, InvokeContract(r),
         Accepts(Arg(r)), chain' = To(Arg(r)), Step(r), UNCHANGED inflight
  PROVE  IInv'
<1>1. job[r].at \in ContractSteps /\ Arguments(r)
  BY RunFacts DEF IInv, InvokeContract, Places
<1>2. Arg(r) # "mint"
  BY <1>1 DEF ContractSteps, Arguments
<1>3. UNCHANGED <<tx, current, reward, settlement, inflight, money, request, poll, spent>>
  BY DEF InvokeContract, dbVars
<1>4. Moved(r) /\ job'[r].at = job[r].at + 1 /\ job'[r].sub = "run"
  BY <1>1, StepMoves DEF IInv, ContractSteps
<1>5. Typed'
  BY <1>2, <1>3, <1>4, AcceptedForward, TypeParts, MovedTyped
  DEF IInv, Typed, RowTypes, WorldTypes, OtherTypes
<1>6. OnChain(r) /\ InMoney(r) /\ InRow(r)
  BY DEF IInv, Owners, OwnerAgrees
<1>7. CASE job[r].at = 3
  <2>1. chain = "Absent" /\ chain' = "Created"
    BY <1>1, <1>2, <1>7, AcceptedForward DEF Arguments
  <2>2. OnChain(r)' /\ InMoney(r)' /\ InRow(r)'
    BY <1>3, <1>4, <1>6, <1>7, <2>1 DEF OnChain, InMoney, InRow, IInv, Owners, Untouched
  <2>3. Owners'
    BY <1>3, <1>4, <1>7, <2>1, <2>2 DEF IInv, Owners, OneOwner, Untouched, OwnerCallsAlone,
       OwnerAgrees, Owns, Moved, OnChain, InMoney, InRow
  <2> QED
    BY <1>2, <1>3, <1>5, <2>3, ForwardKeepsResults DEF IInv
<1>8. CASE job[r].at \in {5, 7, 11, 17}
  <2>1. OnChain(r)' /\ InMoney(r)' /\ InRow(r)'
    BY <1>1, <1>2, <1>3, <1>4, <1>6, <1>8, AcceptedForward
    DEF Arguments, OnChain, InMoney, InRow
  <2>2. Owns(r) /\ chain' # "Absent"
    BY <1>2, <1>8, AcceptedForward DEF Owns
  <2>3. Owners'
    BY <1>3, <1>4, <2>1, <2>2, OwnerKeepsOwners DEF IInv
  <2> QED
    BY <1>2, <1>3, <1>5, <2>3, ForwardKeepsResults DEF IInv
<1> QED
  BY <1>1, <1>7, <1>8 DEF ContractSteps

LEMMA LostCallKeeps ==
  ASSUME IInv, NEW r \in Runner, InvokeContract(r),
         Accepts(Arg(r)), inflight' = inflight \cup {Arg(r)}, Throw(r), UNCHANGED chain
  PROVE  IInv'
<1>1. job[r].at \in ContractSteps /\ Arguments(r)
  BY RunFacts DEF IInv, InvokeContract, Places
<1>2. UNCHANGED <<tx, current, reward, settlement, chain, money, request, poll, spent>>
  BY DEF InvokeContract, dbVars
<1>3. Moved(r) /\ job'[r].at = Handler
  BY <1>1, ThrowMoves DEF IInv, ContractSteps
<1>4. Typed'
  BY <1>2, <1>3, TypeParts, MovedTyped
  DEF IInv, Typed, RowTypes, WorldTypes, OtherTypes, Accepts
<1>5. Arg(r) = "create" <=> job[r].at = 3
  BY <1>1 DEF Arguments, ContractSteps
<1>6. Arg(r) = "create" => chain = "Absent"
  BY AcceptedForward
<1>7. Owns(r) \/ chain = "Absent"
  BY <1>1, <1>5, <1>6 DEF ContractSteps, Owns
<1>8. \A q \in Runner : job'[q].at \notin 4 .. 19
  BY <1>3, <1>7 DEF IInv, Owners, OneOwner, Untouched, Owns, Moved, Handler
<1>9. Untouched'
  <2> SUFFICES ASSUME chain = "Absent"
               PROVE  /\ inflight' \subseteq {"create"}
                      /\ money.stellar = 0 /\ money.late = 0 /\ money.payouts = 0
    BY <1>2, <1>8 DEF Untouched, Owns
  <2>1. ~Owns(r) /\ inflight \subseteq {"create"}
    BY DEF IInv, Owners, Untouched
  <2>2. Arg(r) = "create"
    BY <1>1, <1>5, <2>1 DEF Owns, ContractSteps
  <2> QED
    BY <2>1, <2>2 DEF IInv, Owners, Untouched
<1>10. OwnerAgrees'
  BY <1>2, <1>3, <1>8 DEF IInv, Owners, OwnerAgrees, OnChain, InMoney, InRow, Moved, Handler
<1>11. Owners'
  BY <1>8, <1>9, <1>10 DEF Owners, OneOwner, OwnerCallsAlone, Owns
<1> QED
  BY <1>2, <1>4, <1>11, QuietKeepsResults DEF IInv

LEMMA InvokeContractKeeps ==
  ASSUME IInv, NEW r \in Runner, InvokeContract(r)
  PROVE  IInv'
<1>1. job[r].at > 0
  BY DEF InvokeContract, At
<1>2. UNCHANGED <<tx, reward, settlement, money, poll>> /\ OtherTypes'
  BY TypeParts DEF InvokeContract, dbVars, IInv, Typed, OtherTypes
<1>3. CASE Throw(r) /\ UNCHANGED <<chain, inflight>>
  BY <1>1, <1>2, <1>3, ThrowKeeps
<1> QED
  BY <1>3, ConfirmedKeeps, LostCallKeeps DEF InvokeContract

LEMMA ElsewhereTyped ==
  ASSUME Typed, UNCHANGED job, RowTypes', WorldTypes', OtherTypes'
  PROVE  Typed'
<1>1. job' \in [Runner -> JobRecord] /\ \A r \in Runner : Placed(job'[r])
  BY JobTyped DEF Typed
<1> QED
  BY <1>1 DEF Typed, TypeOK, RowTypes, WorldTypes, OtherTypes, JobRecord, Subs, MoneyRecord

LEMMA LandKeeps ==
  ASSUME IInv, NEW m \in Callable, Land(m)
  PROVE  IInv'
<1>1. m \in inflight /\ inflight' \subseteq inflight
  BY DEF Land
<1>2. UNCHANGED <<tx, current, reward, settlement, job, request, poll, spent>>
  BY DEF Land, dbVars
<1>3. CASE m # "mint" /\ Accepts(m) /\ chain' = To(m) /\ money' = money
  <2>1. Typed'
    BY <1>1, <1>2, <1>3, AcceptedForward, TypeParts
    DEF IInv, Typed, TypeOK, WorldTypes, RowTypes, OtherTypes, Placed
  <2>2. \A r \in Runner : ~Owns(r)
    BY <1>1, <1>3, AcceptedForward DEF IInv, Owners, Untouched, OwnerCallsAlone
  <2>3. Owners'
    BY <1>1, <1>2, <1>3, <2>2, AcceptedForward DEF IInv, Owners, OneOwner, Untouched,
       OwnerCallsAlone, OwnerAgrees, OnChain, InMoney, InRow, Owns
  <2> QED
    BY <1>2, <1>3, <2>1, <2>3, ForwardKeepsResults DEF IInv
<1>4. CASE /\ chain' = chain
           /\ money' = [money EXCEPT !.minted = TRUE] \/ money' = money
  <2>1. SameMoney /\ money'.outcome = money.outcome
    BY <1>4, TypeParts DEF IInv, Typed, WorldTypes, MoneyRecord, SameMoney
  <2>2. WorldTypes'
    BY <1>1, <1>4, TypeParts DEF IInv, Typed, WorldTypes, MoneyRecord
  <2>3. Typed'
    BY <1>2, <2>2, ElsewhereTyped, TypeParts DEF IInv, Typed, RowTypes, OtherTypes
  <2>4. Owners'
    <3>1. chain' = chain
      BY <1>4
    <3> QED
      BY <1>1, <1>2, <2>1, <3>1 DEF IInv, Owners, OneOwner, Untouched,
         OwnerCallsAlone, OwnerAgrees, OnChain, InMoney, InRow, Owns, SameMoney
  <2>5. Results'
    <3>1. chain' = chain
      BY <1>4
    <3> QED
      BY <1>2, <2>1, <3>1 DEF SameMoney, IInv, Results, Paying, PaidOnceIfHeard, LatePayment,
     MoneyFollowsChain, NotAheadOfChain,
       Provider, SettlementMatchesPayout
  <2> QED
    BY <2>3, <2>4, <2>5 DEF IInv
<1> QED
  BY <1>3, <1>4 DEF Land

LEMMA PayerCancelsKeeps ==
  ASSUME IInv, PayerCancels
  PROVE  IInv'
<1>1. chain \in {"Created", "Quoted"} /\ chain' = "Cancelled"
  BY DEF PayerCancels
<1>2. UNCHANGED <<tx, current, reward, settlement, inflight, money, job, request, poll, spent>>
  BY DEF PayerCancels, dbVars
<1>3. Typed'
  BY <1>1, <1>2, TypeParts DEF IInv, Typed, TypeOK, WorldTypes, ChainStatus, Placed
<1>4. Owners'
  BY <1>1, <1>2 DEF IInv, Owners, OneOwner, Untouched, OwnerCallsAlone, OwnerAgrees,
     OnChain, InMoney, InRow, Owns
<1>5. Results'
  BY <1>1, <1>2 DEF IInv, Results, Paying, PaidOnceIfHeard, LatePayment,
     MoneyFollowsChain, NotAheadOfChain,
     Provider, SettlementMatchesPayout
<1> QED
  BY <1>3, <1>4, <1>5 DEF IInv

-----------------------------------------------------------------------------
(* The Stellar payment, the payout and the mint.                           *)

\* The owner leaves: nobody owns the payment any more.
LEMMA OwnerLeaves ==
  ASSUME Owners, NEW r \in Runner, Moved(r), Owns(r), job'[r].at \notin 3 .. 19,
         UNCHANGED <<tx, chain, inflight, reward>>
  PROVE  Owners'
<1>1. chain # "Absent" /\ \A q \in Runner : job'[q].at \notin 4 .. 19
  BY DEF Owners, Untouched, OneOwner, Owns, Moved
<1> QED
  BY <1>1 DEF Owners, OneOwner, Untouched, OwnerCallsAlone, OwnerAgrees, OnChain,
     InMoney, InRow, Owns, Moved

LEMMA SubmitMoves ==
  ASSUME Typed, NEW r \in Runner, job[r].at = 9,
         job' = [job EXCEPT ![r] = Advanced([@ EXCEPT !.hash = TRUE])]
  PROVE  Moved(r) /\ job'[r].at = 10 /\ job'[r].sub = "run"
<1> DEFINE j == [job[r] EXCEPT !.hash = TRUE]
<1>1. j \in JobRecord /\ j.at = 9
  BY RunFacts DEF JobRecord
<1>2. job' = [job EXCEPT ![r] = Advanced(j)]
  OBVIOUS
<1> HIDE DEF j
<1>3. /\ Advanced(j) \in JobRecord /\ Placed(Advanced(j))
      /\ Advanced(j).at = 10 /\ Advanced(j).sub = "run"
  BY <1>1, AdvancedPlaces
<1> QED
  BY <1>2, <1>3, Replaced

\* What a payment changes, landed or not, heard of or not.
LEMMA TriedMoney ==
  ASSUME money \in MoneyRecord, NEW landed \in 0 .. 1, NEW lost \in 0 .. 1,
         NEW late \in 0 .. 1, money' = Tried(landed, lost, late),
         lost = 1 => money.lost < LossBound
  PROVE  /\ money' \in MoneyRecord
         /\ money'.stellar = money.stellar + landed
         /\ money'.lost = money.lost + lost
         /\ money'.late = late
         /\ money'.payouts = money.payouts /\ money'.outcome = money.outcome
         /\ money'.minted = money.minted
<1> DEFINE s == money.stellar + landed
           l == money.lost + lost
<1>1. s \in Nat /\ l \in 0 .. LossBound
  BY ProcessorAssumption DEF MoneyRecord
<1>2. money' = [money EXCEPT !.stellar = s, !.lost = l, !.late = late]
  BY DEF Tried
<1> HIDE DEF s, l
<1>3. /\ money' \in MoneyRecord
      /\ money'.stellar = s /\ money'.lost = l /\ money'.late = late
      /\ money'.payouts = money.payouts /\ money'.outcome = money.outcome
      /\ money'.minted = money.minted
  BY <1>1, <1>2 DEF MoneyRecord
<1> QED
  BY <1>2, <1>3 DEF s, l

LEMMA SubmitStellarKeeps ==
  ASSUME IInv, NEW r \in Runner, SubmitStellar(r)
  PROVE  IInv'
<1>1. job[r].at = 9 /\ job[r] \in JobRecord /\ money \in MoneyRecord
  BY RunFacts, TypeParts DEF IInv, Typed, WorldTypes, SubmitStellar, Places
<1>2. UNCHANGED <<tx, current, reward, settlement, chain, inflight, request, poll, spent>>
  BY DEF SubmitStellar, dbVars
<1>3. /\ OnChain(r) /\ InMoney(r) /\ InRow(r) /\ Owns(r)
      /\ chain = "Converted" /\ money.stellar <= money.lost /\ money.payouts = 0
  BY <1>1 DEF IInv, Owners, OwnerAgrees, OnChain, InMoney, Owns
<1>4. ASSUME NEW landed \in 0 .. 1, NEW lost \in 0 .. 1, NEW late \in 0 .. 1,
             money' = Tried(landed, lost, late), late <= lost, landed + late <= 1,
             lost = 1 => money.lost < LossBound
      PROVE  /\ WorldTypes' /\ Results'
             /\ money'.payouts = 0 /\ money'.stellar = money.stellar + landed
             /\ money'.lost = money.lost + lost /\ money.stellar \in Nat /\ money.lost \in Nat
  <2>1. /\ money' \in MoneyRecord
        /\ money'.stellar = money.stellar + landed
        /\ money'.lost = money.lost + lost /\ money'.late = late
        /\ money'.payouts = money.payouts /\ money'.outcome = money.outcome
    BY <1>1, <1>4, TriedMoney
  <2>2. money.stellar \in Nat /\ money.lost \in Nat
    BY NothingLost DEF IInv
  <2>3. Paying' /\ MoneyFollowsChain'
    BY <1>2, <1>3, <1>4, <2>1, <2>2 DEF Paying, PaidOnceIfHeard, LatePayment, MoneyFollowsChain
  <2>4. NotAheadOfChain' /\ Provider' /\ SettlementMatchesPayout'
    BY <1>2, <1>3, <2>1, <2>2
    DEF IInv, Results, NotAheadOfChain, Provider, SettlementMatchesPayout
  <2> QED
    BY <1>2, <1>3, <2>1, <2>2, <2>3, <2>4, TypeParts DEF IInv, Typed, WorldTypes, Results
<1>5. CASE /\ money' = Tried(1, 0, 0)
           /\ job' = [job EXCEPT ![r] = Advanced([@ EXCEPT !.hash = TRUE])]
  <2>1. Moved(r) /\ job'[r].at = 10 /\ job'[r].sub = "run"
    BY <1>1, <1>5, SubmitMoves DEF IInv
  <2>2. /\ WorldTypes' /\ Results'
        /\ money'.payouts = 0 /\ money'.stellar > 0
    BY <1>4, <1>5
  <2>3. Typed'
    BY <1>2, <2>1, <2>2, TypeParts, MovedTyped DEF IInv, Typed, RowTypes, OtherTypes
  <2>4. OnChain(r)' /\ InMoney(r)' /\ InRow(r)'
    BY <1>1, <1>2, <1>3, <2>1, <2>2 DEF OnChain, InMoney, InRow
  <2>5. Owners'
    BY <1>2, <1>3, <2>1, <2>4, OwnerKeepsOwners DEF IInv
  <2> QED
    BY <2>2, <2>3, <2>5 DEF IInv
<1>6. CASE Throw(r) /\ UNCHANGED money
  <2>1. Moved(r) /\ job'[r].at = Handler
    BY <1>1, <1>6, ThrowMoves DEF IInv
  <2>2. Typed'
    BY <1>2, <1>6, <2>1, TypeParts, MovedTyped DEF IInv, Typed, RowTypes, WorldTypes, OtherTypes
  <2>3. Owners'
    BY <1>2, <1>3, <2>1, OwnerLeaves DEF IInv, Handler
  <2> QED
    BY <1>2, <1>6, <2>2, <2>3, QuietKeepsResults DEF IInv
<1>7. CASE /\ money' \in {Tried(1, 1, 0), Tried(0, 1, 1)} /\ money.lost < LossBound
           /\ UNCHANGED job
  <2>1. /\ WorldTypes' /\ Results'
        /\ money'.payouts = 0 /\ money'.stellar <= money'.lost
    <3>1. CASE money' = Tried(1, 1, 0)
      BY <1>3, <1>4, <1>7, <3>1
    <3>2. CASE money' = Tried(0, 1, 1)
      BY <1>3, <1>4, <1>7, <3>2
    <3> QED
      BY <1>7, <3>1, <3>2
  <2>2. Moved(r)
    BY <1>7, JobTyped DEF IInv, Typed, Moved
  <2>3. Typed'
    BY <1>2, <2>1, <2>2, TypeParts, MovedTyped DEF IInv, Typed, RowTypes, OtherTypes
  <2>4. OnChain(r)' /\ InMoney(r)' /\ InRow(r)'
    BY <1>1, <1>2, <1>3, <1>7, <2>1 DEF OnChain, InMoney, InRow
  <2>5. Owners'
    BY <1>2, <1>3, <2>2, <2>4, OwnerKeepsOwners DEF IInv
  <2> QED
    BY <2>1, <2>3, <2>5 DEF IInv
<1> QED
  BY <1>5, <1>6, <1>7 DEF SubmitStellar

\* A payment still on its way lands only where the chain has been Converted.
LEMMA LandLatePaymentKeeps ==
  ASSUME IInv, LandLatePayment
  PROVE  IInv'
<1>1. /\ money \in MoneyRecord /\ money.late = 1 /\ LatePayment
      /\ UNCHANGED <<tx, current, reward, settlement, chain, inflight, job, request, poll, spent>>
  BY TypeParts DEF IInv, Typed, WorldTypes, LandLatePayment, dbVars, Results, Paying
<1>2. PICK landed \in 0 .. 1 : money' = Tried(landed, 0, 0)
  BY DEF LandLatePayment
<1>3. /\ money' \in MoneyRecord
      /\ money'.stellar = money.stellar + landed
      /\ money'.lost = money.lost /\ money'.late = 0
      /\ money'.payouts = money.payouts /\ money'.outcome = money.outcome
  <2>1. money'.lost = money.lost + 0 /\ money.lost \in Nat
    BY <1>1, <1>2, TriedMoney, NothingLost DEF IInv
  <2> QED
    BY <1>1, <1>2, <2>1, TriedMoney
<1>4. money.stellar \in Nat /\ money.lost \in Nat
  BY NothingLost DEF IInv
<1>5. Typed'
  BY <1>1, <1>3, TypeParts DEF IInv, Typed, TypeOK, WorldTypes, Placed, MoneyRecord
<1>6. OneOwner' /\ Untouched' /\ OwnerCallsAlone'
  BY <1>1, <1>3 DEF IInv, Owners, OneOwner, Untouched, OwnerCallsAlone, Owns, LatePayment
<1>7. OwnerAgrees'
  BY <1>1, <1>3, <1>4 DEF IInv, Owners, OwnerAgrees, OnChain, InMoney, InRow, LatePayment
<1>8. Results'
  BY <1>1, <1>3, <1>4 DEF IInv, Results, Paying, PaidOnceIfHeard, LatePayment,
     MoneyFollowsChain, NotAheadOfChain, Provider, SettlementMatchesPayout
<1> QED
  BY <1>5, <1>6, <1>7, <1>8 DEF IInv, Owners

LEMMA PayoutMoves ==
  ASSUME Typed, NEW r \in Runner, InitiateUpiPayout(r)
  PROVE  /\ Moved(r)
         /\ \/ /\ job'[r].at = 14
               /\ money' = [money EXCEPT !.payouts = @ + 1, !.outcome = "Processing"]
            \/ job'[r].at = 15
            \/ job'[r].at = Handler /\ job'[r].sub \in {"run", "hash"}
<1> DEFINE Paid == [money EXCEPT !.payouts = @ + 1, !.outcome = "Processing"]
<1>1. job[r].at = 13 /\ job[r] \in JobRecord
  BY RunFacts DEF InitiateUpiPayout, Places
<1>2. CASE money' = Paid /\ Step(r)
  BY <1>1, <1>2, StepMoves
<1>3. CASE job' = [job EXCEPT ![r] = Advanced(Advanced(@))]
  <2>1. Advanced(job[r]) \in JobRecord /\ Advanced(job[r]).at = 14
    BY <1>1, AdvancedPlaces
  <2>2. /\ Advanced(Advanced(job[r])) \in JobRecord
        /\ Placed(Advanced(Advanced(job[r])))
        /\ Advanced(Advanced(job[r])).at = 15
    BY <2>1, AdvancedPlaces
  <2> QED
    BY <1>3, <2>2, Replaced
<1>4. CASE Throw(r)
  BY <1>1, <1>4, ThrowMoves DEF Handler
<1> QED
  BY <1>2, <1>3, <1>4 DEF InitiateUpiPayout

LEMMA PayoutKeeps ==
  ASSUME IInv, NEW r \in Runner, InitiateUpiPayout(r)
  PROVE  IInv'
<1>1. job[r].at = 13 /\ job[r] \in JobRecord
  BY RunFacts DEF IInv, InitiateUpiPayout, Places
<1>2. UNCHANGED <<tx, current, reward, settlement, chain, inflight, request, poll, spent>>
  BY DEF InitiateUpiPayout, dbVars
<1>3. /\ OnChain(r) /\ InMoney(r) /\ InRow(r) /\ Owns(r)
      /\ chain = "Settled" /\ money.payouts = 0 /\ money.outcome = "None"
  BY <1>1 DEF IInv, Owners, OwnerAgrees, OnChain, InMoney, Owns, Results, Provider
<1> DEFINE Paid == [money EXCEPT !.payouts = @ + 1, !.outcome = "Processing"]
<1>4. money' \in {money, Paid}
  BY DEF InitiateUpiPayout
<1>5. /\ money'.stellar = money.stellar /\ money'.lost = money.lost
      /\ money'.late = money.late
      /\ money' = Paid => money'.payouts = 1
      /\ money'.payouts \in {0, 1}
      /\ money'.payouts = 0 => money' = money
      /\ WorldTypes'
  <2>1. WorldTypes
    BY TypeParts DEF IInv, Typed
  <2>2. /\ Paid.stellar = money.stellar /\ Paid.payouts = 1
        /\ Paid.lost = money.lost /\ Paid.late = money.late
        /\ Paid \in MoneyRecord
    <3> DEFINE Once == [money EXCEPT !.payouts = 1]
    <3>1. /\ Once \in MoneyRecord
          /\ Once.stellar = money.stellar /\ Once.payouts = 1
          /\ Once.lost = money.lost /\ Once.late = money.late
      BY <2>1 DEF WorldTypes, MoneyRecord
    <3>2. Paid = [Once EXCEPT !.outcome = "Processing"]
      BY <1>3
    <3> HIDE DEF Once, Paid
    <3> QED
      BY <3>1, <3>2 DEF MoneyRecord
  <2> HIDE DEF Paid
  <2> QED
    BY <1>2, <1>3, <1>4, <2>1, <2>2 DEF WorldTypes
<1>6. Results'
  <2>1. settlement \notin {"FAILED", "SENT"} /\ poll # "Failed"
    BY <1>3 DEF IInv, Results, Provider, SettlementMatchesPayout
  <2> QED
    BY <1>2, <1>3, <1>5, <2>1 DEF IInv, Results, Paying, PaidOnceIfHeard, LatePayment,
     MoneyFollowsChain,
       NotAheadOfChain, Provider, SettlementMatchesPayout
<1>7. /\ Moved(r)
      /\ \/ job'[r].at = 14 /\ money' = Paid
         \/ job'[r].at = 15
         \/ job'[r].at = Handler
  BY PayoutMoves DEF IInv
<1>8. Typed'
  BY <1>2, <1>5, <1>7, TypeParts, MovedTyped DEF IInv, Typed, RowTypes, OtherTypes
<1>9. Owners'
  <2>1. CASE job'[r].at = Handler
    BY <1>2, <1>3, <1>7, <2>1, OwnerLeaves DEF IInv, Handler
  <2>2. CASE job'[r].at \in {14, 15}
    <3>1. OnChain(r)' /\ InMoney(r)' /\ InRow(r)'
      BY <1>1, <1>2, <1>3, <1>5, <1>7, <2>2 DEF OnChain, InMoney, InRow, Handler
    <3> QED
      BY <1>2, <1>3, <1>7, <2>2, <3>1, OwnerKeepsOwners DEF IInv
  <2> QED
    BY <1>7, <2>1, <2>2
<1> QED
  BY <1>6, <1>8, <1>9 DEF IInv

LEMMA RecordPayoutKeeps ==
  ASSUME IInv, NEW r \in Runner, RecordPayout(r)
  PROVE  IInv'
<1>1. job[r].at = 14
  BY RunFacts DEF IInv, RecordPayout, Places
<1>2. /\ settlement' = "SENT"
      /\ UNCHANGED <<tx, current, reward, chain, inflight, money, request, poll, spent>>
  BY DEF RecordPayout, worldVars
<1>3. OnChain(r) /\ InMoney(r) /\ InRow(r) /\ Owns(r) /\ chain # "Absent"
  BY <1>1 DEF IInv, Owners, OwnerAgrees, OnChain, Owns
<1>4. Moved(r) /\ job'[r].at = 15
  BY <1>1, StepMoves DEF IInv, RecordPayout
<1>5. Typed'
  BY <1>2, <1>4, TypeParts, MovedTyped DEF IInv, Typed, RowTypes, WorldTypes, OtherTypes
<1>6. OnChain(r)' /\ InMoney(r)' /\ InRow(r)'
  BY <1>1, <1>2, <1>3, <1>4 DEF OnChain, InMoney, InRow
<1>7. Owners'
  BY <1>2, <1>3, <1>4, <1>6, OwnerKeepsOwners DEF IInv
<1>8. Results'
  BY <1>1, <1>2, <1>3 DEF IInv, Results, Paying, PaidOnceIfHeard, LatePayment,
     MoneyFollowsChain, NotAheadOfChain,
     Provider, SettlementMatchesPayout, InMoney
<1> QED
  BY <1>5, <1>7, <1>8 DEF IInv

LEMMA MintMoves ==
  ASSUME Typed, NEW r \in Runner, MintReward(r)
  PROVE  /\ Moved(r)
         /\ \/ reward # "PENDING" /\ job'[r].at = 16
            \/ job'[r].at = MintStep
<1>1. job[r].at = MintStep /\ job[r].sub = "run" /\ job[r] \in JobRecord
  BY RunFacts DEF MintReward, Places
<1>2. CASE reward # "PENDING" /\ Step(r)
  BY <1>1, <1>2, StepMoves DEF MintStep
<1>3. CASE \E sub \in {"dbOnly", "minted", "unminted"} : Sub(r, sub)
  <2>1. PICK sub \in {"dbOnly", "minted", "unminted"} : Sub(r, sub)
    BY <1>3
  <2>2. Placed([job[r] EXCEPT !.sub = sub])
    BY <1>1 DEF Placed, JobRecord, MintStep
  <2> QED
    BY <1>1, <2>1, <2>2, SubMoves DEF Subs
<1> QED
  BY <1>2, <1>3 DEF MintReward

LEMMA MintRewardKeeps ==
  ASSUME IInv, NEW r \in Runner, MintReward(r)
  PROVE  IInv'
<1>1. job[r].at = MintStep /\ job[r].sub = "run" /\ job[r] \in JobRecord
  BY RunFacts DEF IInv, MintReward, Places
<1>2. UNCHANGED <<tx, current, reward, settlement, chain, request, poll, spent>>
  BY DEF MintReward, dbVars
<1>3. OnChain(r) /\ InMoney(r) /\ InRow(r) /\ Owns(r) /\ chain # "Absent"
  BY <1>1 DEF IInv, Owners, OwnerAgrees, OnChain, Owns, MintStep
<1>4. /\ Moved(r)
      /\ \/ reward # "PENDING" /\ job'[r].at = 16
         \/ job'[r].at = MintStep
  BY MintMoves DEF IInv
<1>5. /\ inflight' \subseteq inflight \cup ({"mint"} \cap Callable)
      /\ money' = [money EXCEPT !.minted = TRUE] \/ money' = money
  BY DEF MintReward
<1>6. /\ SameMoney /\ money'.outcome = money.outcome
      /\ WorldTypes'
  BY <1>2, <1>5, TypeParts DEF IInv, Typed, WorldTypes, MoneyRecord, SameMoney
<1>7. Typed'
  BY <1>2, <1>4, <1>6, TypeParts, MovedTyped DEF IInv, Typed, RowTypes, OtherTypes
<1>8. OnChain(r)' /\ InMoney(r)' /\ InRow(r)'
  BY <1>1, <1>2, <1>3, <1>4, <1>6 DEF OnChain, InMoney, InRow, MintStep, SameMoney
<1>9. Owners'
  BY <1>1, <1>2, <1>3, <1>4, <1>5, <1>8, OwnerKeepsOwners DEF IInv
<1>10. Results'
  BY <1>2, <1>6 DEF SameMoney, IInv, Results, Paying, PaidOnceIfHeard, LatePayment,
     MoneyFollowsChain, NotAheadOfChain,
     Provider, SettlementMatchesPayout
<1> QED
  BY <1>7, <1>9, <1>10 DEF IInv

LEMMA RecordMintKeeps ==
  ASSUME IInv, NEW r \in Runner, RecordMint(r)
  PROVE  IInv'
<1>1. job[r].at = MintStep
  BY RunFacts DEF IInv, RecordMint, Places
<1>2. /\ reward' \in {"MINTED", "FAILED", "DB_ONLY"}
      /\ UNCHANGED <<tx, current, settlement, chain, inflight, money, request, poll, spent>>
  BY DEF RecordMint, worldVars
<1>3. OnChain(r) /\ InMoney(r) /\ InRow(r) /\ Owns(r) /\ chain # "Absent"
  BY <1>1 DEF IInv, Owners, OwnerAgrees, OnChain, Owns, MintStep
<1>4. Moved(r) /\ job'[r].at = 16
  BY <1>1, StepMoves DEF IInv, RecordMint, MintStep
<1>5. Typed'
  BY <1>2, <1>4, TypeParts, MovedTyped DEF IInv, Typed, RowTypes, WorldTypes, OtherTypes
<1>6. OnChain(r)' /\ InMoney(r)' /\ InRow(r)'
  BY <1>1, <1>2, <1>3, <1>4 DEF OnChain, InMoney, InRow, MintStep
<1>7. Owners'
  BY <1>2, <1>3, <1>4, <1>6, OwnerKeepsOwners DEF IInv
<1> QED
  BY <1>2, <1>5, <1>7, QuietKeepsResults DEF IInv

LEMMA ConfirmSettlementKeeps ==
  ASSUME IInv, NEW r \in Runner, ConfirmSettlement(r)
  PROVE  IInv'
<1>1. job[r].at = 19
  BY RunFacts DEF IInv, ConfirmSettlement, Places
<1>2. /\ settlement' = "CONFIRMED"
      /\ UNCHANGED <<tx, current, reward, chain, inflight, money, request, poll, spent>>
  BY DEF ConfirmSettlement, worldVars
<1>3. Moved(r) /\ job'[r].at = 0
  BY <1>1, StepMoves DEF IInv, ConfirmSettlement
<1>4. Typed'
  BY <1>2, <1>3, TypeParts, MovedTyped DEF IInv, Typed, RowTypes, WorldTypes, OtherTypes
<1>5. Owners'
  BY <1>2, <1>3, OutsideKeepsOwners DEF IInv
<1>6. Results'
  BY <1>2 DEF IInv, Results, Paying, PaidOnceIfHeard, LatePayment,
     MoneyFollowsChain, NotAheadOfChain, Provider,
     SettlementMatchesPayout
<1> QED
  BY <1>4, <1>5, <1>6 DEF IInv

-----------------------------------------------------------------------------
(* The beginning and the end of a run, and what goes wrong in it.          *)

\* A run that starts, leaves or dies: it stands before the contract or nowhere.
LEMMA OutsideKeeps ==
  ASSUME IInv, NEW r \in Runner, Moved(r), job'[r].at \notin 3 .. 19,
         UNCHANGED <<reward, settlement, chain, inflight, money, poll>>,
         tx.hash => tx'.hash,
         tx'.status = tx.status \/ tx'.status \in {"AUTHORIZED", "FAILED"},
         RowTypes', OtherTypes'
  PROVE  IInv'
<1>1. Typed'
  BY TypeParts, MovedTyped DEF IInv, Typed, WorldTypes
<1>2. Owners'
  BY OutsideKeepsOwners DEF IInv
<1>3. Results'
  BY QuietKeepsResults, ModestKeepsResults DEF IInv
<1> QED
  BY <1>1, <1>2, <1>3 DEF IInv

LEMMA ClaimKeeps ==
  ASSUME IInv, NEW r \in Runner, Claim(r)
  PROVE  IInv'
<1>1. job[r] \in JobRecord /\ Placed(job[r]) /\ job[r].sub = "idle"
  BY RunFacts DEF IInv, Claim
<1>2. Placed([job[r] EXCEPT !.sub = "fetch"])
  BY <1>1 DEF Placed, JobRecord
<1>3. Moved(r) /\ job'[r].at = 0
  BY <1>1, <1>2, SubMoves DEF Claim, Sub, Subs, IInv, Placed
<1>4. /\ tx'.status = "AUTHORIZED" /\ tx'.hash = tx.hash
      /\ RowTypes'
  BY TypeParts DEF Claim, IInv, Typed, RowTypes, Status
<1>5. UNCHANGED <<current, reward, settlement, chain, inflight, money, request, poll, spent>>
  BY DEF Claim, worldVars
<1>6. OtherTypes'
  BY <1>5, TypeParts DEF IInv, Typed, OtherTypes
<1> QED
  BY <1>3, <1>4, <1>5, <1>6, OutsideKeeps

LEMMA FetchKeeps ==
  ASSUME IInv, NEW r \in Runner, Fetch(r) \/ Join(r)
  PROVE  IInv'
<1>1. job[r] \in JobRecord
  BY RunFacts DEF IInv
<1>2. Moved(r) /\ job'[r].at \in {0, 1}
  <2>1. CASE job' = [job EXCEPT ![r] = Idle]
    BY <2>1, LeaveMoves DEF IInv
  <2>2. CASE job' = [job EXCEPT ![r] = Enter(job[r], 1)]
    <3>1. /\ Enter(job[r], 1) \in JobRecord /\ Placed(Enter(job[r], 1))
          /\ Enter(job[r], 1).at = 1
      BY <1>1, EnterPlaces DEF GiveUp
    <3> QED
      BY <2>2, <3>1, Replaced DEF IInv
  <2>3. CASE job' = [job EXCEPT ![r] = Enter(Idle, 1)]
    <3>1. /\ Enter(Idle, 1) \in JobRecord /\ Placed(Enter(Idle, 1))
          /\ Enter(Idle, 1).at = 1
      BY IdlePlaced, EnterPlaces DEF GiveUp
    <3> QED
      BY <2>3, <3>1, Replaced DEF IInv
  <2> QED
    BY <2>1, <2>2, <2>3 DEF Fetch, Join
<1>3. UNCHANGED <<tx, current, reward, settlement, chain, inflight, money, request, poll, spent>>
  BY DEF Fetch, Join, dbVars, worldVars
<1>4. RowTypes' /\ OtherTypes'
  BY <1>3, TypeParts DEF IInv, Typed, RowTypes, OtherTypes
<1> QED
  BY <1>2, <1>3, <1>4, OutsideKeeps

LEMMA SaveHashKeeps ==
  ASSUME IInv, NEW r \in Runner, SaveHash(r)
  PROVE  IInv'
<1>1. job[r] \in JobRecord /\ Placed(job[r]) /\ job[r].sub = "hash"
  BY RunFacts DEF IInv, SaveHash
<1>2. job[r].at = Handler /\ Placed([job[r] EXCEPT !.sub = "run"])
  BY <1>1 DEF Placed, JobRecord, Handler
<1>3. Moved(r) /\ job'[r].at = Handler
  BY <1>2, SubMoves DEF SaveHash, Subs, IInv
<1>4. tx'.hash /\ tx'.status = tx.status /\ RowTypes'
  BY TypeParts DEF SaveHash, IInv, Typed, RowTypes
<1>5. UNCHANGED <<current, reward, settlement, chain, inflight, money, request, poll, spent>>
  BY DEF SaveHash, worldVars
<1>6. OtherTypes'
  BY <1>5, TypeParts DEF IInv, Typed, OtherTypes
<1> QED
  BY <1>3, <1>4, <1>5, <1>6, OutsideKeeps DEF Handler

LEMMA GiveUpKeeps ==
  ASSUME IInv, NEW r \in Runner, GiveUpTransaction(r)
  PROVE  IInv'
<1>1. job[r].at = 21
  BY RunFacts DEF IInv, GiveUpTransaction, Places, GiveUp
<1>2. Moved(r) /\ job'[r].at = 0
  BY <1>1, StepMoves DEF IInv, GiveUpTransaction
<1>3. tx'.hash = tx.hash /\ tx'.status = "FAILED" /\ RowTypes'
  BY TypeParts DEF GiveUpTransaction, IInv, Typed, RowTypes, Status
<1>4. UNCHANGED <<current, reward, settlement, chain, inflight, money, request, poll, spent>>
  BY DEF GiveUpTransaction, worldVars
<1>5. OtherTypes'
  BY <1>4, TypeParts DEF IInv, Typed, OtherTypes
<1> QED
  BY <1>2, <1>3, <1>4, <1>5, OutsideKeeps

LEMMA CrashKeeps ==
  ASSUME IInv, NEW r \in Runner, Crash(r)
  PROVE  IInv'
<1>1. Moved(r) /\ job'[r].at = 0
  BY LeaveMoves DEF IInv, Crash
<1>2. UNCHANGED <<tx, reward, settlement, chain, inflight, money, request, poll>>
  BY DEF Crash, worldVars
<1>3. spent'.crashes \in 0 .. CrashBound /\ OtherTypes'
  BY <1>2, TypeParts, ProcessorAssumption DEF Crash, IInv, Typed, OtherTypes
<1>4. RowTypes'
  BY <1>2, TypeParts DEF IInv, Typed, RowTypes
<1> QED
  BY <1>1, <1>2, <1>3, <1>4, OutsideKeeps

LEMMA DatabaseFaultKeeps ==
  ASSUME IInv, NEW r \in Runner, DatabaseFault(r)
  PROVE  IInv'
<1>1. job[r] \in JobRecord /\ Placed(job[r]) /\ Places(r)
  BY RunFacts DEF IInv
<1>2. /\ settlement' = settlement \/ (settlement' = "CONFIRMED" /\ job[r].at = 19)
      /\ current' \subseteq current
      /\ UNCHANGED <<tx, reward, chain, inflight, money, request, poll>>
  BY <1>1 DEF DatabaseFault, worldVars, Places
<1>3. OtherTypes'
  BY <1>2, TypeParts, ProcessorAssumption DEF DatabaseFault, IInv, Typed, OtherTypes
<1>4. RowTypes' /\ WorldTypes'
  BY <1>2, TypeParts DEF IInv, Typed, RowTypes, WorldTypes
<1>5. Results'
  BY <1>2 DEF IInv, Results, Paying, PaidOnceIfHeard, LatePayment,
     MoneyFollowsChain, NotAheadOfChain, Provider,
     SettlementMatchesPayout
<1>6. CASE Moved(r) /\ job'[r].at \notin 3 .. 19
  BY <1>2, <1>3, <1>4, <1>5, <1>6, MovedTyped, OutsideKeepsOwners DEF IInv
<1>7. CASE job[r].sub = "minted" /\ Sub(r, "unminted")
  <2>1. job[r].at = MintStep /\ Placed([job[r] EXCEPT !.sub = "unminted"])
    BY <1>1, <1>7 DEF Placed, JobRecord, MintStep
  <2>2. Moved(r) /\ job'[r].at = MintStep /\ job'[r].sub = "unminted"
    BY <1>7, <2>1, SubMoves DEF IInv, Subs
  <2>3. OnChain(r) /\ InMoney(r) /\ InRow(r) /\ Owns(r) /\ chain # "Absent"
    BY <2>1 DEF IInv, Owners, OwnerAgrees, OnChain, Owns, MintStep
  <2>4. OnChain(r)' /\ InMoney(r)' /\ InRow(r)'
    BY <1>2, <2>1, <2>2, <2>3 DEF OnChain, InMoney, InRow, MintStep
  <2>5. Owners'
    BY <1>2, <2>2, <2>3, <2>4, OwnerKeepsOwners DEF IInv
  <2> QED
    BY <1>3, <1>4, <1>5, <2>2, <2>5, MovedTyped DEF IInv
<1>8. CASE job' = [job EXCEPT ![r] = Idle]
  <2>1. Moved(r) /\ job'[r].at = 0
    BY <1>8, LeaveMoves DEF IInv
  <2> QED
    BY <1>6, <2>1
<1>9. CASE job[r].sub = "hash" /\ Sub(r, "run")
  <2>1. job[r].at = Handler /\ Placed([job[r] EXCEPT !.sub = "run"])
    BY <1>1, <1>9 DEF Placed, JobRecord, Handler
  <2>2. Moved(r) /\ job'[r].at = Handler
    BY <1>9, <2>1, SubMoves DEF IInv, Subs
  <2> QED
    BY <1>6, <2>2 DEF Handler
<1>10. CASE job[r].at > 0 /\ Throw(r)
  <2>1. job[r].at \in 1 .. 21
    BY <1>1, <1>10 DEF JobRecord, GiveUp
  <2> QED
    BY <1>6, <1>10, <2>1, ThrowMoves DEF IInv, Handler, GiveUp
<1>11. job[r].sub \in {"insert", "unminted", "dbOnly", "run"} => job[r].at > 0
  BY <1>1 DEF Placed, JobRecord
<1> QED
  BY <1>7, <1>8, <1>9, <1>10, <1>11 DEF DatabaseFault

-----------------------------------------------------------------------------
(* Steps that move no run.                                                 *)

LEMMA RowStepKeeps ==
  ASSUME IInv, UNCHANGED <<job, settlement, chain, inflight, money, poll>>,
         RowTypes', OtherTypes', tx'.hash = tx.hash,
         tx'.status = tx.status \/ tx'.status \in {"CREATED", "FAILED", "CANCELLED"},
         reward' = reward \/ (reward = "NONE" /\ reward' = "PENDING")
  PROVE  IInv'
<1>1. Typed'
  BY TypeParts, ElsewhereTyped DEF IInv, Typed, WorldTypes
<1>2. Owners'
  BY ElsewhereKeepsOwners DEF IInv, SameMoney
<1>3. Results'
  BY QuietKeepsResults, ModestKeepsResults DEF IInv
<1> QED
  BY <1>1, <1>2, <1>3 DEF IInv

LEMMA CreationKeeps ==
  ASSUME IInv, CreateTransaction \/ CreateReward \/ Expire \/ Age
  PROVE  IInv'
<1>1. UNCHANGED <<current, settlement, chain, inflight, money, job, request, poll, spent>>
  BY DEF CreateTransaction, CreateReward, Expire, Age, worldVars
<1>2. OtherTypes'
  BY <1>1, TypeParts DEF IInv, Typed, OtherTypes
<1>3. /\ RowTypes' /\ tx'.hash = tx.hash
      /\ tx'.status = tx.status \/ tx'.status = "CREATED"
  BY <1>1, TypeParts DEF CreateTransaction, CreateReward, Expire, Age, IInv, Typed, RowTypes,
     Status
<1>4. reward' = reward \/ (reward = "NONE" /\ reward' = "PENDING")
  BY DEF CreateTransaction, CreateReward, Expire, Age
<1> QED
  BY <1>1, <1>2, <1>3, <1>4, RowStepKeeps

LEMMA RequestsKeep ==
  ASSUME IInv, Requests
  PROVE  IInv'
<1>1. UNCHANGED <<reward, settlement, chain, inflight, money, job, poll>>
  BY DEF Requests, CheckRequest, NumberRequest, InsertRequestEvent, FinishRequest, worldVars,
     dbVars
<1>2. /\ RowTypes' /\ tx'.hash = tx.hash
      /\ tx'.status = tx.status \/ tx'.status \in {"FAILED", "CANCELLED"}
  BY <1>1, TypeParts DEF Requests, CheckRequest, NumberRequest, InsertRequestEvent,
     FinishRequest, IInv, Typed, RowTypes, Status, dbVars
<1>3. OtherTypes'
  <2>1. OtherTypes
    BY TypeParts DEF IInv, Typed
  <2>2. CASE \E kind \in {"cancel", "fail"} : CheckRequest(kind)
    <3>1. spent'.requests \in 0 .. RequestBound
      BY <2>1, <2>2, ProcessorAssumption DEF CheckRequest, OtherTypes
    <3> QED
      BY <2>1, <2>2, <3>1 DEF CheckRequest, OtherTypes, dbVars
  <2>3. CASE NumberRequest
    BY <2>1, <2>3 DEF NumberRequest, ReadSequence, OtherTypes
  <2>4. CASE InsertRequestEvent
    BY <2>1, <2>4 DEF InsertRequestEvent, Inserts, Collides, OtherTypes
  <2>5. CASE FinishRequest
    BY <2>1, <2>5 DEF FinishRequest, OtherTypes
  <2> QED
    BY <2>2, <2>3, <2>4, <2>5 DEF Requests
<1> QED
  BY <1>1, <1>2, <1>3, RowStepKeeps

LEMMA SettlementsKeep ==
  ASSUME IInv, Settlements
  PROVE  IInv'
<1>1. UNCHANGED <<tx, current, reward, chain, inflight, job, request, spent>>
  BY DEF Settlements, PollFetch, PollAnswer, PollUpdate, ProviderSettles, dbVars, worldVars
<1>2. /\ SameMoney
      /\ money' = money \/ (money.outcome = "Processing" /\ money'.outcome \in {"Success", "Failed"})
      /\ WorldTypes'
  BY <1>1, TypeParts DEF Settlements, PollFetch, PollAnswer, PollUpdate, ProviderSettles,
     worldVars, IInv, Typed, WorldTypes, MoneyRecord, SameMoney
<1>3. /\ poll' \in {poll, "idle", "asking", "Success", "Failed"}
      /\ poll' = "Failed" => poll = "Failed" \/ money.outcome = "Failed"
      /\ \/ settlement' = settlement
         \/ settlement' = "CONFIRMED"
         \/ settlement' = "FAILED" /\ poll = "Failed"
  BY DEF Settlements, PollFetch, PollAnswer, PollUpdate, ProviderSettles, dbVars
<1>4. Typed'
  <2>1. RowTypes' /\ OtherTypes'
    BY <1>1, <1>3, TypeParts DEF IInv, Typed, RowTypes, OtherTypes
  <2> QED
    BY <1>1, <1>2, <2>1, ElsewhereTyped DEF IInv
<1>5. Owners'
  BY <1>1, <1>2, ElsewhereKeepsOwners DEF IInv
<1>6. Results'
  BY <1>1, <1>2, <1>3 DEF SameMoney, IInv, Results, Paying, PaidOnceIfHeard, LatePayment,
     MoneyFollowsChain, NotAheadOfChain,
     Provider, SettlementMatchesPayout
<1> QED
  BY <1>4, <1>5, <1>6 DEF IInv

LEMMA StutterKeeps ==
  ASSUME IInv, UNCHANGED vars
  PROVE  IInv'
BY DEF IInv, Typed, TypeOK, Placed, Owners, OneOwner, Untouched, OwnerCallsAlone, OwnerAgrees,
   OnChain, InMoney, InRow, Owns, Results, Paying, PaidOnceIfHeard, LatePayment,
     MoneyFollowsChain, NotAheadOfChain,
   Provider, SettlementMatchesPayout, vars

LEMMA WorkKeeps ==
  ASSUME IInv, NEW r \in Runner, Work(r)
  PROVE  IInv'
BY FetchKeeps, UpdateStatusKeeps, InsertEventKeeps, FindRewardKeeps, InvokeContractKeeps,
   SubmitStellarKeeps, PayoutKeeps, RecordPayoutKeeps, MintRewardKeeps, RecordMintKeeps,
   ConfirmSettlementKeeps, SaveHashKeeps, GiveUpKeeps DEF Work

LEMMA NextKeeps == IInv /\ [Next]_vars => IInv'
<1> SUFFICES ASSUME IInv, [Next]_vars PROVE IInv'
  OBVIOUS
<1>1. CASE CreateTransaction \/ CreateReward \/ Expire \/ Age
  BY <1>1, CreationKeeps
<1>2. ASSUME NEW r \in Runner,
             Claim(r) \/ Join(r) \/ Work(r) \/ DatabaseFault(r) \/ Crash(r)
      PROVE  IInv'
  BY <1>2, ClaimKeeps, FetchKeeps, WorkKeeps, DatabaseFaultKeeps, CrashKeeps
<1>3. CASE \E m \in Callable : Land(m)
  BY <1>3, LandKeeps
<1>4. CASE PayerCancels \/ LandLatePayment
  BY <1>4, PayerCancelsKeeps, LandLatePaymentKeeps
<1>5. CASE Requests \/ Settlements
  BY <1>5, RequestsKeep, SettlementsKeep
<1>6. CASE UNCHANGED vars
  BY <1>6, StutterKeeps
<1> QED
  BY <1>1, <1>2, <1>3, <1>4, <1>5, <1>6 DEF Next

(* The invariant holds in every behaviour.                                 *)
THEOREM IInvHolds == Spec => []IInv
BY InitIInv, NextKeeps, PTL DEF Spec

(* Every variable keeps its type: each call stores only what its column or *)
(* field can hold (schema.prisma, soroban.service.ts).                     *)
THEOREM TypeCorrect == Spec => []TypeOK
<1>1. IInv => TypeOK
  BY DEF IInv, Typed
<1> QED
  BY <1>1, IInvHolds, PTL

(* However many runs overlap, retry, die or give up on calls, the merchant *)
(* is paid once, and USDC leaves once more than there were lost answers at *)
(* most (processor lines 114-197, stellar.service.ts:46-76, payment-engine *)
(* lib.rs:344).                                                            *)
THEOREM MoneyLeavesOnceIfHeard == Spec => []PaidOnceIfHeard
<1>1. IInv => PaidOnceIfHeard
  BY DEF IInv, Results, Paying
<1> QED
  BY <1>1, IInvHolds, PTL

(* Money only moves for a payment the contract has committed, so a payer   *)
(* whose cancellation was accepted is never charged.                       *)
THEOREM MoneyAlwaysFollows == Spec => []MoneyFollowsChain
<1>1. IInv => MoneyFollowsChain
  BY DEF IInv, Results
<1> QED
  BY <1>1, IInvHolds, PTL

(* No status the user can poll claims more than the contract, the Stellar  *)
(* hash and the reward bear out, whoever wrote the row last.               *)
THEOREM RowNeverAhead == Spec => []NotAheadOfChain
<1>1. IInv => NotAheadOfChain
  BY DEF IInv, Results
<1> QED
  BY <1>1, IInvHolds, PTL

(* The poller records a failure only if the provider reported one, and a   *)
(* settlement is SENT only after a payout.                                 *)
THEOREM SettlementAlwaysMatches == Spec => []SettlementMatchesPayout
<1>1. IInv => SettlementMatchesPayout
  BY DEF IInv, Results
<1> QED
  BY <1>1, IInvHolds, PTL

-----------------------------------------------------------------------------
(* The last run on a transaction.                                          *)

\* A run that will write an end although one more statement fails.
Holds(r) ==
  \/ job[r].at \in 1 .. 17
  \/ job[r].at = 18 /\ job[r].sub = "run"
  \/ job[r].at = Handler /\ job[r].sub # "insert"
  \/ job[r].at = GiveUp /\ spent.faults > 0

Kept == tx.status \in Ended \/ \E r \in Runner : Holds(r)

Begun == \E r \in Runner : job[r].at > 0
Lucky == spent.crashes = 0 /\ spent.faults <= 1

Fetching(r) == job[r].sub = "fetch"

\* What a step of r does to the row, and to r's hold on it.
Passes(r) ==
  /\ Moved(r) /\ ~Fetching(r)' /\ tx'.fresh = tx.fresh
  /\ Holds(r) => Holds(r)' \/ tx'.status \in Ended
  /\ tx'.status = tx.status \/ tx'.status \in Ended \/ Holds(r)'

LEMMA PassesKept ==
  ASSUME Kept, NEW r \in Runner, Passes(r), spent'.faults \in {spent.faults, spent.faults + 1},
         spent.faults \in Nat
  PROVE  Kept'
<1>1. \A q \in Runner \ {r} : Holds(q) => Holds(q)'
  BY DEF Passes, Moved, Holds
<1> QED
  BY <1>1 DEF Passes, Kept

LEMMA ThrowPasses ==
  ASSUME Typed, NEW r \in Runner, Throw(r), UNCHANGED tx,
         \/ job[r].at \in 1 .. 19
         \/ job[r].at = Handler /\ (job[r].sub = "insert" \/ spent'.faults > 0)
  PROVE  Passes(r)
<1>1. /\ Moved(r) /\ job'[r].at \in {1, Handler, GiveUp}
      /\ job'[r].at = GiveUp => job[r].at = Handler
      /\ job'[r].sub \in {"run", "hash"}
  BY ThrowMoves DEF Handler, GiveUp
<1>2. job[r].at \in 1 .. 19 => Holds(r)'
  BY <1>1 DEF Holds, Handler, GiveUp
<1>3. job[r].at = Handler /\ job[r].sub = "insert" => ~Holds(r)
  BY DEF Holds, Handler, GiveUp
<1>4. spent'.faults > 0 => Holds(r)'
  BY <1>1 DEF Holds, Handler, GiveUp
<1> QED
  BY <1>1, <1>2, <1>3, <1>4 DEF Passes, Fetching

LEMMA StepPasses ==
  ASSUME Typed, NEW r \in Runner, Step(r), UNCHANGED tx, job[r].at \in 1 .. 20,
         job[r].at \in {18, 20} => job[r].sub = "insert"
  PROVE  Passes(r)
<1>1. /\ Moved(r)
      /\ job[r].at \in 1 .. 18 => job'[r].at = job[r].at + 1 /\ job'[r].sub = "run"
      /\ job[r].at \in 19 .. 20 => job'[r].sub = "idle"
  BY StepMoves
<1>2. Holds(r) => job[r].at \in 1 .. 17
  BY DEF Holds, Handler, GiveUp
<1>3. job[r].at \in 1 .. 17 => Holds(r)'
  BY <1>1 DEF Holds
<1> QED
  BY <1>1, <1>2, <1>3 DEF Passes, Fetching

LEMMA UpdateStatusPasses ==
  ASSUME Typed, NEW r \in Runner, UpdateStatus(r)
  PROVE  Passes(r)
<1>1. job[r] \in JobRecord /\ Placed(job[r]) /\ Places(r) /\ Arguments(r)
  BY RunFacts
<1>2. job[r].at \in StatusSteps /\ job[r].sub = "run"
  BY <1>1 DEF UpdateStatus, Places
<1>3. Placed([job[r] EXCEPT !.sub = "insert"])
  BY <1>1, <1>2 DEF Placed, JobRecord, StatusSteps
<1>4. Moved(r) /\ job'[r].at = job[r].at /\ job'[r].sub = "insert"
  BY <1>1, <1>3, SubMoves DEF UpdateStatus, Subs
<1>5. tx'.status = Arg(r) /\ tx'.fresh = tx.fresh
  BY TypeParts DEF UpdateStatus, Typed, RowTypes
<1>6. CASE job[r].at \in {18, 20}
  <2>1. tx'.status \in Ended
    BY <1>1, <1>5, <1>6 DEF Arguments, Ended, Handler
  <2> QED
    BY <1>4, <1>5, <2>1 DEF Passes, Fetching
<1>7. CASE job[r].at \in 1 .. 17
  BY <1>4, <1>5, <1>7 DEF Passes, Holds, Fetching
<1> QED
  BY <1>2, <1>6, <1>7 DEF StatusSteps

LEMMA EndingPasses ==
  ASSUME Typed, NEW r \in Runner, SaveHash(r) \/ GiveUpTransaction(r)
  PROVE  Passes(r)
<1>1. job[r] \in JobRecord /\ Placed(job[r]) /\ Places(r)
  BY RunFacts
<1>2. CASE SaveHash(r)
  <2>1. job[r].at = Handler /\ Placed([job[r] EXCEPT !.sub = "run"])
    BY <1>1, <1>2 DEF SaveHash, Placed, JobRecord, Handler
  <2>2. Moved(r) /\ job'[r].at = Handler /\ job'[r].sub = "run"
    BY <1>2, <2>1, SubMoves DEF SaveHash, Subs
  <2>3. tx'.status = tx.status /\ tx'.fresh = tx.fresh
    BY <1>2, TypeParts DEF SaveHash, Typed, RowTypes
  <2> QED
    BY <2>2, <2>3 DEF Passes, Holds, Fetching
<1>3. CASE GiveUpTransaction(r)
  <2>1. Moved(r) /\ job'[r].sub = "idle"
    BY <1>1, <1>3, StepMoves DEF GiveUpTransaction, Places, GiveUp
  <2>2. tx'.status = "FAILED" /\ tx'.fresh = tx.fresh
    BY <1>3, TypeParts DEF GiveUpTransaction, Typed, RowTypes
  <2> QED
    BY <2>1, <2>2 DEF Passes, Ended, Fetching
<1> QED
  BY <1>2, <1>3

LEMMA MoneyStepPasses ==
  ASSUME Typed, NEW r \in Runner,
         SubmitStellar(r) \/ InitiateUpiPayout(r) \/ MintReward(r)
  PROVE  Passes(r)
<1>1. job[r].at \in {9, 13, MintStep} /\ UNCHANGED tx
  BY RunFacts DEF Places, SubmitStellar, InitiateUpiPayout, MintReward, dbVars
<1>2. /\ Moved(r)
      /\ \/ job'[r].at \in {9, 10, 14, 15, 16}
         \/ job'[r].at = Handler /\ job'[r].sub \in {"run", "hash"}
  <2>1. CASE SubmitStellar(r)
    <3>1. job[r].at = 9
      BY <2>1, RunFacts DEF Places, SubmitStellar
    <3>2. CASE UNCHANGED job
      BY <3>1, <3>2, JobTyped DEF Typed, Moved
    <3> QED
      BY <2>1, <3>1, <3>2, SubmitMoves, ThrowMoves DEF SubmitStellar, Handler
  <2>2. CASE InitiateUpiPayout(r)
    BY <2>2, PayoutMoves
  <2>3. CASE MintReward(r)
    BY <2>3, MintMoves DEF MintStep
  <2> QED
    BY <2>1, <2>2, <2>3
<1>3. ~Fetching(r)'
  BY <1>2 DEF Fetching, Moved, Placed, Handler
<1> QED
  BY <1>1, <1>2, <1>3 DEF Passes, Holds

LEMMA WorkUnderway ==
  ASSUME Typed, NEW r \in Runner, Work(r), ~Fetch(r)
  PROVE  job[r].at # 0
BY RunFacts DEF Work, UpdateStatus, InsertEvent, FindReward, InvokeContract, SubmitStellar,
   InitiateUpiPayout, RecordPayout, MintReward, RecordMint, ConfirmSettlement, SaveHash,
   GiveUpTransaction, At, Placed, JobRecord

LEMMA WorkPasses ==
  ASSUME Typed, NEW r \in Runner, Work(r), ~Fetch(r)
  PROVE  Passes(r)
<1>1. job[r] \in JobRecord /\ Placed(job[r]) /\ Places(r)
  BY RunFacts
<1>2. CASE InsertEvent(r)
  <2>1. job[r].at \in 1 .. 20 /\ job[r].sub = "insert" /\ UNCHANGED tx
    BY <1>1, <1>2 DEF InsertEvent, Placed, StatusSteps
  <2> QED
    BY <1>2, <2>1, StepPasses, ThrowPasses DEF InsertEvent, Handler
<1>3. CASE \/ FindReward(r) \/ InvokeContract(r) \/ RecordPayout(r) \/ RecordMint(r)
           \/ ConfirmSettlement(r)
  <2>1. job[r].at \in {2, 3, 5, 7, 11, 14, 15, 17, 19} /\ UNCHANGED tx
    BY <1>1, <1>3 DEF FindReward, InvokeContract, RecordPayout, RecordMint,
       ConfirmSettlement, Places, ContractSteps, MintStep, dbVars
  <2>2. Step(r) \/ Throw(r)
    BY <1>3 DEF FindReward, InvokeContract, RecordPayout, RecordMint, ConfirmSettlement
  <2> QED
    BY <2>1, <2>2, StepPasses, ThrowPasses
<1> QED
  BY <1>2, <1>3, UpdateStatusPasses, MoneyStepPasses, EndingPasses DEF Work

LEMMA DatabaseFaultPasses ==
  ASSUME Typed, NEW r \in Runner, DatabaseFault(r), spent'.faults <= 1
  PROVE  Passes(r)
<1>1. job[r] \in JobRecord /\ Placed(job[r]) /\ Places(r) /\ UNCHANGED tx
  BY RunFacts DEF DatabaseFault
<1>2. spent.faults = 0 /\ spent'.faults > 0
  BY TypeParts, ProcessorAssumption DEF DatabaseFault, Typed, OtherTypes
<1>3. CASE job[r].sub = "fetch" /\ job' = [job EXCEPT ![r] = Idle]
  <2>1. Moved(r) /\ job[r].at = 0 /\ job'[r].sub = "idle"
    BY <1>1, <1>3, LeaveMoves DEF Placed
  <2> QED
    BY <1>1, <2>1 DEF Passes, Holds, Handler, GiveUp, Fetching
<1>4. CASE job[r].sub = "hash" /\ Sub(r, "run")
  <2>1. job[r].at = Handler /\ Placed([job[r] EXCEPT !.sub = "run"])
    BY <1>1, <1>4 DEF Placed, JobRecord, Handler
  <2>2. Moved(r) /\ job'[r].at = Handler /\ job'[r].sub = "run"
    BY <1>4, <2>1, SubMoves DEF Subs
  <2> QED
    BY <1>1, <2>2 DEF Passes, Holds, Fetching
<1>5. CASE job[r].sub = "minted" /\ Sub(r, "unminted")
  <2>1. job[r].at = MintStep /\ Placed([job[r] EXCEPT !.sub = "unminted"])
    BY <1>1, <1>5 DEF Placed, JobRecord, MintStep
  <2>2. Moved(r) /\ job'[r].at = MintStep /\ job'[r].sub = "unminted"
    BY <1>5, <2>1, SubMoves DEF Subs
  <2> QED
    BY <1>1, <2>2 DEF Passes, Holds, Fetching, MintStep
<1>6. CASE job[r].at \in 1 .. Handler /\ Throw(r)
  BY <1>1, <1>2, <1>6, ThrowPasses DEF Handler
<1>7. CASE job[r].at = GiveUp /\ Throw(r)
  <2>1. Moved(r) /\ ~Holds(r) /\ job'[r].sub = "idle"
    BY <1>2, <1>7, ThrowMoves DEF Holds, Handler, GiveUp
  <2> QED
    BY <1>1, <2>1 DEF Passes, Fetching
<1>8. job[r].sub \in {"insert", "unminted", "dbOnly", "run"} =>
        job[r].at \in 1 .. Handler \/ job[r].at = GiveUp
  BY <1>1 DEF Placed, JobRecord, Handler, GiveUp
<1> QED
  BY <1>3, <1>4, <1>5, <1>6, <1>7, <1>8 DEF DatabaseFault

\* A run that begins holds; a claim begins nothing yet.
LEMMA BeginsPass ==
  ASSUME Typed, NEW r \in Runner, Fetch(r) \/ Join(r)
  PROVE  Passes(r) /\ (job'[r].at > 0 => Holds(r)')
<1>1. job[r] \in JobRecord /\ Placed(job[r]) /\ UNCHANGED tx
  BY RunFacts DEF Fetch, Join, dbVars
<1>2. job[r].at = 0 /\ ~Holds(r)
  BY <1>1 DEF Fetch, Join, Placed, Holds, Handler, GiveUp
<1>3. CASE \E j \in {job[r], Idle} : job' = [job EXCEPT ![r] = Enter(j, 1)]
  <2>1. PICK j \in {job[r], Idle} : job' = [job EXCEPT ![r] = Enter(j, 1)]
    BY <1>3
  <2>2. /\ Enter(j, 1) \in JobRecord /\ Placed(Enter(j, 1)) /\ Enter(j, 1).at = 1
        /\ Enter(j, 1).sub # "fetch"
    BY <1>1, IdlePlaced, EnterPlaces DEF GiveUp
  <2>3. Moved(r) /\ job'[r].at = 1 /\ job'[r].sub # "fetch"
    BY <2>1, <2>2, Replaced
  <2> QED
    BY <1>1, <2>3 DEF Passes, Holds, Fetching
<1>4. CASE job' = [job EXCEPT ![r] = Idle]
  <2>1. Moved(r) /\ job'[r].at = 0 /\ job'[r].sub = "idle"
    BY <1>4, LeaveMoves
  <2> QED
    BY <1>1, <1>2, <2>1 DEF Passes, Fetching
<1> QED
  BY <1>3, <1>4 DEF Fetch, Join

\* What failed or died is not forgotten.
LEMMA SpentGrows ==
  ASSUME OtherTypes, [Next]_vars
  PROVE  /\ spent.faults \in Nat /\ spent.crashes \in Nat
         /\ spent'.faults \in {spent.faults, spent.faults + 1}
         /\ spent'.crashes \in {spent.crashes, spent.crashes + 1}
<1>1. spent.faults \in Nat /\ spent.crashes \in Nat
  BY ProcessorAssumption DEF OtherTypes
<1>2. ASSUME NEW r \in Runner, DatabaseFault(r) \/ Crash(r)
      PROVE  /\ spent'.faults \in {spent.faults, spent.faults + 1}
             /\ spent'.crashes \in {spent.crashes, spent.crashes + 1}
  BY <1>2 DEF DatabaseFault, Crash, OtherTypes
<1>3. ASSUME NEW r \in Runner, Claim(r) \/ Join(r) \/ Work(r)
      PROVE  spent' = spent
  BY <1>3 DEF Claim, Join, Work, Fetch, UpdateStatus, InsertEvent, FindReward,
     InvokeContract, SubmitStellar, InitiateUpiPayout, RecordPayout, MintReward,
     RecordMint, ConfirmSettlement, SaveHash, GiveUpTransaction
<1>4. CASE Requests
  BY <1>1, <1>4 DEF Requests, CheckRequest, NumberRequest, InsertRequestEvent, FinishRequest,
     OtherTypes
<1>5. CASE \/ CreateTransaction \/ CreateReward \/ Expire \/ Age \/ Settlements
           \/ PayerCancels \/ LandLatePayment \/ (\E m \in Callable : Land(m)) \/ UNCHANGED vars
  BY <1>1, <1>5 DEF CreateTransaction, CreateReward, Expire, Age, Settlements, PollFetch,
     PollAnswer, PollUpdate, ProviderSettles, PayerCancels, LandLatePayment, Land, vars
<1> QED
  BY <1>1, <1>2, <1>3, <1>4, <1>5 DEF Next

\* Runs apart, nothing takes an end of the row back.
LEMMA ElsewhereKept ==
  ASSUME Typed, Kept, UNCHANGED job,
         spent'.faults \in {spent.faults, spent.faults + 1}, spent.faults \in Nat,
         tx'.status = tx.status \/ tx.status = "NONE" \/ tx'.status \in Ended
  PROVE  Kept'
<1>1. \A r \in Runner : Holds(r) => Holds(r)'
  BY DEF Holds
<1>2. "NONE" \notin Ended
  BY DEF Ended
<1> QED
  BY <1>1, <1>2 DEF Kept

\* Once a run has begun, the row is ended or some run holds.
LEMMA KeptNext ==
  ASSUME Typed, [Next]_vars, Lucky', Begun => Kept
  PROVE  Begun \/ Begun' => Kept'
<1>1. RowTypes /\ OtherTypes
  BY TypeParts DEF Typed
<1>2. /\ spent.faults \in Nat /\ spent.crashes \in Nat
      /\ spent'.faults \in {spent.faults, spent.faults + 1}
  BY <1>1, SpentGrows
<1>3. ASSUME NEW r \in Runner, Passes(r), job[r].at = 0 => Holds(r)' \/ job'[r].at = 0
      PROVE  Begun \/ Begun' => Kept'
  <2>1. Kept => Kept'
    BY <1>2, <1>3, PassesKept
  <2>2. Begun' => Begun \/ Holds(r)'
    BY <1>3, JobTyped DEF Begun, Passes, Moved, Typed, JobRecord
  <2> QED
    BY <2>1, <2>2 DEF Kept
<1>4. ASSUME NEW r \in Runner, Work(r) /\ ~Fetch(r)
      PROVE  Begun \/ Begun' => Kept'
  BY <1>3, <1>4, WorkUnderway, WorkPasses
<1>5. ASSUME NEW r \in Runner, Fetch(r) \/ Join(r)
      PROVE  Begun \/ Begun' => Kept'
  <2>1. job'[r] \in JobRecord
    BY <1>5, BeginsPass DEF Passes, Moved
  <2> QED
    BY <1>3, <1>5, <2>1, BeginsPass DEF JobRecord
<1>6. ASSUME NEW r \in Runner, DatabaseFault(r)
      PROVE  Begun \/ Begun' => Kept'
  <2>1. Passes(r)
    BY <1>6, DatabaseFaultPasses DEF Lucky
  <2>2. job[r].at = 0 => job'[r].at = 0
    <3> SUFFICES ASSUME job[r].at = 0 PROVE job'[r].at = 0
      OBVIOUS
    <3>1. job[r].sub \in {"idle", "fetch"}
      BY RunFacts DEF Placed
    <3>2. job' = [job EXCEPT ![r] = Idle]
      BY <1>6, <3>1 DEF DatabaseFault
    <3> QED
      BY <3>2, LeaveMoves
  <2> QED
    BY <1>3, <2>1, <2>2
<1>7. ASSUME NEW r \in Runner, Claim(r)
      PROVE  Begun \/ Begun' => Kept'
  <2>1. job[r].at = 0 /\ job[r] \in JobRecord /\ Placed([job[r] EXCEPT !.sub = "fetch"])
    BY <1>7, RunFacts DEF Claim, Placed, JobRecord
  <2>2. Sub(r, "fetch") /\ tx.status \notin Ended /\ spent' = spent
    BY <1>7 DEF Claim, Claimable, Sub, Ended
  <2>3. Moved(r) /\ job'[r].at = 0
    BY <2>1, <2>2, SubMoves DEF Subs
  <2>4. ~Holds(r)
    BY <2>1 DEF Holds, Handler, GiveUp
  <2>5. \A q \in Runner : Holds(q) => Holds(q)'
    BY <2>2, <2>3, <2>4 DEF Moved, Holds
  <2>6. Begun' => Begun
    BY <2>3 DEF Begun, Moved
  <2> QED
    BY <2>2, <2>5, <2>6 DEF Kept
<1>8. ASSUME NEW r \in Runner, Crash(r)
      PROVE  FALSE
  BY <1>1, <1>2, <1>8 DEF Crash, OtherTypes, Lucky
<1>9. CASE /\ UNCHANGED job
           /\ tx'.status = tx.status \/ tx.status = "NONE" \/ tx'.status \in Ended
  <2>1. Begun' => Begun
    BY <1>9 DEF Begun
  <2> QED
    BY <1>2, <1>9, <2>1, ElsewhereKept
<1>10. CASE CreateTransaction \/ CreateReward \/ Expire \/ Age
  BY <1>1, <1>9, <1>10 DEF CreateTransaction, CreateReward, Expire, Age, RowTypes
<1>11. CASE Requests
  BY <1>1, <1>9, <1>11 DEF Requests, CheckRequest, NumberRequest, InsertRequestEvent,
     FinishRequest, RowTypes, Ended, dbVars
<1>12. CASE (\E m \in Callable : Land(m)) \/ PayerCancels \/ LandLatePayment
           \/ Settlements \/ UNCHANGED vars
  BY <1>9, <1>12 DEF Land, PayerCancels, LandLatePayment, Settlements, PollFetch, PollAnswer, PollUpdate,
     ProviderSettles, dbVars, vars
<1> QED
  BY <1>4, <1>5, <1>6, <1>7, <1>8, <1>10, <1>11, <1>12 DEF Next

(* However many runs, requests and late calls overlap, the last run on a   *)
(* fetched transaction leaves it ended, unless a process died or two       *)
(* statements failed: of a run, no one failure undoes both the write of    *)
(* the catch block and that of giving up (processor lines 50-80, 318-360). *)
THEOREM LastRunAlwaysEnds == Spec => LastRunEnds
<1> DEFINE Keeps == Lucky /\ Begun => Kept
           Last == /\ \E r \in Runner : job[r].at > 0
                   /\ \A r \in Runner : job'[r].at = 0
                   => tx'.status \in Ended \/ spent'.crashes > 0 \/ spent'.faults > 1
<1>1. Init => Keeps
  BY DEF Init, Begun, Idle
<1>2. ASSUME Typed, Keeps, [Next]_vars, Lucky'
      PROVE  Begun \/ Begun' => Kept'
  <2>1. Lucky
    BY <1>2, TypeParts, SpentGrows DEF Typed, Lucky
  <2> QED
    BY <1>2, <2>1, KeptNext
<1>3. IInv /\ Keeps /\ [Next]_vars => Keeps'
  BY <1>2 DEF IInv
<1>4. IInv /\ Keeps /\ [Next]_vars => Last
  <2> SUFFICES ASSUME IInv, Keeps, [Next]_vars, Begun, \A r \in Runner : job'[r].at = 0,
                      ~(spent'.crashes > 0 \/ spent'.faults > 1)
               PROVE  tx'.status \in Ended
    BY DEF Begun
  <2>1. Lucky'
    BY TypeParts, SpentGrows DEF IInv, Typed, Lucky
  <2>2. \A r \in Runner : ~Holds(r)'
    BY DEF Holds, Handler, GiveUp
  <2> QED
    BY <1>2, <2>1, <2>2 DEF IInv, Kept
<1> QED
  BY <1>1, <1>3, <1>4, IInvHolds, PTL DEF Spec, LastRunEnds

-----------------------------------------------------------------------------
(* A run ends.                                                             *)

\* What a run has left: attempts, entries of its attempt, parts of its entry.
Parts(sub) ==
  CASE sub = "hash" -> 3 [] sub = "run" -> 2 [] sub = "minted" -> 1 [] OTHER -> 0

Left(j) ==
  IF j.at = 0 THEN 0
  ELSE (MaxAttempts - j.attempt) * 4 * (GiveUp + 1) + 4 * (GiveUp + 1 - j.at) + Parts(j.sub)

Shrinks(r) == Left(job'[r]) < Left(job[r])

LEMMA LeftTyped ==
  ASSUME NEW j \in JobRecord
  PROVE  Left(j) \in Nat /\ (j.at > 0 => Left(j) > 0)
<1>1. Parts(j.sub) \in 0 .. 3
  BY DEF Parts
<1> HIDE DEF Parts
<1>2. j.at \in 0 .. 21 /\ j.attempt \in 1 .. 3
  BY DEF JobRecord, GiveUp, MaxAttempts
<1> QED
  BY <1>1, <1>2 DEF Left, MaxAttempts, GiveUp

LEMMA EnterCounts ==
  ASSUME NEW j \in JobRecord, NEW k \in 1 .. GiveUp
  PROVE  Enter(j, k).attempt = j.attempt
BY DEF Enter, JobRecord

\* A record that is further on, in its attempt or by an attempt, has less left.
LEMMA FurtherShrinks ==
  ASSUME NEW j \in JobRecord, NEW i \in JobRecord, j.at > 0,
         \/ i.at = 0
         \/ i.attempt = j.attempt /\ i.at > j.at
         \/ i.attempt = j.attempt /\ i.at = j.at /\ Parts(i.sub) < Parts(j.sub)
         \/ i.attempt = j.attempt + 1 /\ i.at > 0
  PROVE  Left(i) < Left(j)
<1>1. Parts(j.sub) \in 0 .. 3 /\ Parts(i.sub) \in 0 .. 3
  BY DEF Parts
<1>2. /\ j.at \in 1 .. 21 /\ j.attempt \in 1 .. 3
      /\ i.at \in 0 .. 21 /\ i.attempt \in 1 .. 3
  BY DEF JobRecord, GiveUp, MaxAttempts
<1>3. CASE i.at = 0
  BY <1>3, LeftTyped DEF Left
<1>4. CASE i.at > 0
  <2> DEFINE Rest(k) == 4 * (22 - k.at) + Parts(k.sub)
  <2>1. /\ Left(j) = (3 - j.attempt) * 88 + Rest(j)
        /\ Left(i) = (3 - i.attempt) * 88 + Rest(i)
    BY <1>1, <1>2, <1>4 DEF Left, MaxAttempts, GiveUp
  <2>2. Rest(j) \in 4 .. 87 /\ Rest(i) \in 4 .. 87
    BY <1>1, <1>2, <1>4
  <2>3. i.attempt = j.attempt => Rest(i) < Rest(j)
    BY <1>1, <1>2, <1>4
  <2> HIDE DEF Rest
  <2>4. CASE i.attempt = j.attempt
    BY <1>2, <2>1, <2>2, <2>3, <2>4
  <2>5. CASE i.attempt = j.attempt + 1
    BY <1>2, <2>1, <2>2, <2>5
  <2> QED
    BY <1>4, <2>4, <2>5
<1> QED
  BY <1>2, <1>3, <1>4

LEMMA AdvancedShrinks ==
  ASSUME NEW j \in JobRecord, j.at > 0
  PROVE  /\ Advanced(j) \in JobRecord
         /\ Left(Advanced(j)) < Left(j)
<1>1. Advanced(j) \in JobRecord
  BY AdvancedPlaces
<1>2. CASE j.at \in 1 .. 18
  <2>1. Advanced(j).at = j.at + 1
    BY <1>2, AdvancedPlaces
  <2>2. Advanced(j) = Enter(j, j.at + 1) /\ j.at + 1 \in 1 .. GiveUp
    BY <1>2 DEF Advanced, Handler, GiveUp
  <2>3. Advanced(j).attempt = j.attempt
    BY <2>2, EnterCounts
  <2> QED
    BY <1>1, <1>2, <2>1, <2>3, FurtherShrinks
<1>3. CASE j.at \notin 1 .. 18
  <2>1. Advanced(j).at = 0
    BY <1>3, AdvancedPlaces
  <2> QED
    BY <1>1, <2>1, FurtherShrinks
<1> QED
  BY <1>1, <1>2, <1>3

LEMMA ThrownShrinks ==
  ASSUME NEW j \in JobRecord, j.at > 0
  PROVE  Left(Thrown(j)) < Left(j)
<1>1. Thrown(j) \in JobRecord
  BY ThrownPlaces
<1>2. CASE j.at \in 1 .. 19
  <2>1. Thrown(j) = Enter(j, Handler) /\ Handler \in 1 .. GiveUp /\ Handler > j.at
    BY <1>2 DEF Thrown, Handler, GiveUp
  <2>2. Thrown(j).attempt = j.attempt /\ Thrown(j).at = Handler
    BY <2>1, EnterCounts, EnterPlaces
  <2> QED
    BY <1>1, <2>1, <2>2, FurtherShrinks DEF Handler
<1>3. CASE j.at = Handler /\ j.attempt < MaxAttempts
  <2> DEFINE i == [j EXCEPT !.attempt = @ + 1, !.hash = FALSE]
  <2>1. i \in JobRecord /\ i.attempt = j.attempt + 1
    <3>1. j.attempt + 1 \in 1 .. MaxAttempts
      BY <1>3 DEF JobRecord, MaxAttempts
    <3> QED
      BY <3>1 DEF JobRecord
  <2>2. Thrown(j) = Enter(i, 1)
    BY <1>3 DEF Thrown, Handler, MaxAttempts, JobRecord, GiveUp
  <2> HIDE DEF i
  <2>3. 1 \in 1 .. GiveUp
    BY DEF GiveUp
  <2>4. Enter(i, 1).attempt = i.attempt /\ Enter(i, 1).at = 1
    BY <2>1, <2>3, EnterCounts, EnterPlaces
  <2>5. Thrown(j).attempt = j.attempt + 1 /\ Thrown(j).at = 1
    BY <2>1, <2>2, <2>4
  <2> QED
    BY <1>1, <2>5, FurtherShrinks
<1>4. CASE j.at = Handler /\ j.attempt = MaxAttempts
  <2>1. Thrown(j) = Enter(j, GiveUp) /\ GiveUp \in 1 .. GiveUp /\ GiveUp > j.at
    BY <1>4 DEF Thrown, Handler, MaxAttempts, GiveUp
  <2>2. Thrown(j).attempt = j.attempt /\ Thrown(j).at = GiveUp
    BY <2>1, EnterCounts, EnterPlaces
  <2> QED
    BY <1>1, <2>1, <2>2, FurtherShrinks
<1>5. CASE j.at = GiveUp
  BY <1>1, <1>5, ThrownPlaces, FurtherShrinks
<1> QED
  BY <1>2, <1>3, <1>4, <1>5 DEF JobRecord, Handler, GiveUp, MaxAttempts

LEMMA RunStepShrinks ==
  ASSUME Typed, NEW r \in Runner, job[r].at > 0
  PROVE  /\ Step(r) => Shrinks(r)
         /\ Throw(r) => Shrinks(r)
         /\ \A sub \in Subs : Sub(r, sub) /\ Parts(sub) < Parts(job[r].sub) => Shrinks(r)
<1>1. job[r] \in JobRecord /\ job \in [Runner -> JobRecord]
  BY JobTyped DEF Typed
<1>2. Step(r) => job'[r] = Advanced(job[r])
  BY <1>1 DEF Step
<1>3. Throw(r) => job'[r] = Thrown(job[r])
  BY <1>1 DEF Throw
<1>4. ASSUME NEW sub \in Subs, Sub(r, sub), Parts(sub) < Parts(job[r].sub)
      PROVE  Shrinks(r)
  <2> DEFINE i == [job[r] EXCEPT !.sub = sub]
  <2>1. job'[r] = i
    BY <1>1, <1>4 DEF Sub
  <2>2. i \in JobRecord /\ i.attempt = job[r].attempt /\ i.at = job[r].at /\ i.sub = sub
    BY <1>1 DEF JobRecord
  <2> HIDE DEF i
  <2> QED
    BY <1>1, <1>4, <2>1, <2>2, FurtherShrinks DEF Shrinks
<1> QED
  BY <1>1, <1>2, <1>3, <1>4, AdvancedShrinks, ThrownShrinks DEF Shrinks

\* An answer of the Stellar network is lost, and the run tries again.
TriesAgain ==
  job' = job /\ money.lost \in Nat /\ money'.lost = money.lost + 1

LEMMA WorkShrinks ==
  ASSUME Typed, NEW r \in Runner, job[r].at > 0, Work(r)
  PROVE  Shrinks(r) \/ TriesAgain
<1>1. job[r] \in JobRecord /\ Placed(job[r]) /\ Places(r) /\ job \in [Runner -> JobRecord]
  BY RunFacts, JobTyped DEF Typed
<1>2. /\ Step(r) => Shrinks(r)
      /\ Throw(r) => Shrinks(r)
      /\ \A sub \in Subs : Sub(r, sub) /\ Parts(sub) < Parts(job[r].sub) => Shrinks(r)
  BY RunStepShrinks
<1>3. CASE \/ InsertEvent(r) \/ FindReward(r) \/ InvokeContract(r) \/ RecordPayout(r)
           \/ RecordMint(r) \/ ConfirmSettlement(r) \/ GiveUpTransaction(r)
  BY <1>2, <1>3 DEF InsertEvent, FindReward, InvokeContract, RecordPayout, RecordMint,
     ConfirmSettlement, GiveUpTransaction
<1>4. CASE UpdateStatus(r) \/ SaveHash(r)
  BY <1>2, <1>4 DEF UpdateStatus, SaveHash, Parts, Subs
<1>5. CASE MintReward(r)
  BY <1>2, <1>5 DEF MintReward, Parts, Subs
<1>6. CASE SubmitStellar(r)
  <2>1. CASE job' = [job EXCEPT ![r] = Advanced([@ EXCEPT !.hash = TRUE])]
    <3> DEFINE i == [job[r] EXCEPT !.hash = TRUE]
    <3>1. i \in JobRecord /\ i.at > 0 /\ Left(i) = Left(job[r])
      BY <1>1 DEF JobRecord, Left
    <3>2. job'[r] = Advanced(i)
      BY <1>1, <2>1
    <3> HIDE DEF i
    <3> QED
      BY <3>1, <3>2, AdvancedShrinks DEF Shrinks
  <2>2. CASE /\ money.lost < LossBound /\ UNCHANGED job
             /\ money' \in {Tried(1, 1, 0), Tried(0, 1, 1)}
    <3>1. money \in MoneyRecord
      BY TypeParts DEF Typed, WorldTypes
    <3>2. money'.lost = money.lost + 1
      BY <2>2, <3>1, TriedMoney
    <3> QED
      BY <2>2, <3>2, NothingLost DEF TriesAgain
  <2> QED
    BY <1>2, <1>6, <2>1, <2>2 DEF SubmitStellar
<1>7. CASE InitiateUpiPayout(r)
  <2>1. CASE job' = [job EXCEPT ![r] = Advanced(Advanced(@))]
    <3>1. job'[r] = Advanced(Advanced(job[r]))
      BY <1>1, <2>1
    <3>2. Advanced(job[r]).at > 0
      BY <1>1, <1>7, AdvancedPlaces DEF InitiateUpiPayout, Places
    <3> QED
      BY <1>1, <3>1, <3>2, AdvancedShrinks, LeftTyped DEF Shrinks
  <2> QED
    BY <1>2, <1>7, <2>1 DEF InitiateUpiPayout
<1>8. ~Fetch(r)
  BY <1>1 DEF Fetch, Placed
<1> QED
  BY <1>3, <1>4, <1>5, <1>6, <1>7, <1>8 DEF Work

LEMMA DatabaseFaultShrinks ==
  ASSUME Typed, NEW r \in Runner, job[r].at > 0, DatabaseFault(r)
  PROVE  Shrinks(r)
<1>1. job[r] \in JobRecord /\ Placed(job[r])
  BY RunFacts
<1>2. \/ job[r].sub = "hash" /\ Sub(r, "run")
      \/ job[r].sub = "minted" /\ Sub(r, "unminted")
      \/ Throw(r)
  BY <1>1 DEF DatabaseFault, Placed
<1> QED
  BY <1>2, RunStepShrinks DEF Parts, Subs

\* Who moves a run: itself, a failing statement, the death of its process.
LEMMA RunMoves ==
  ASSUME Typed, [Next]_vars, NEW r \in Runner, job[r].at > 0
  PROVE  job'[r] = job[r] \/ Work(r) \/ DatabaseFault(r) \/ Crash(r)
<1>1. Placed(job[r]) /\ job \in [Runner -> JobRecord]
  BY RunFacts, JobTyped DEF Typed
<1>2. ASSUME NEW q \in Runner, q # r,
             Claim(q) \/ Join(q) \/ Work(q) \/ DatabaseFault(q) \/ Crash(q)
      PROVE  job'[r] = job[r]
  <2>1. job' = job \/ \E j : job' = [job EXCEPT ![q] = j]
    BY <1>2 DEF Claim, Join, Work, DatabaseFault, Crash, Fetch, UpdateStatus, InsertEvent,
       FindReward, InvokeContract, SubmitStellar, InitiateUpiPayout, RecordPayout, MintReward,
       RecordMint, ConfirmSettlement, SaveHash, GiveUpTransaction, Step, Throw, Sub
  <2> QED
    BY <1>1, <1>2, <2>1
<1>3. ~Claim(r) /\ ~Join(r)
  BY <1>1 DEF Claim, Join, Placed
<1>4. CASE \/ CreateTransaction \/ CreateReward \/ Expire \/ Age \/ Requests \/ Settlements
           \/ PayerCancels \/ LandLatePayment \/ (\E m \in Callable : Land(m)) \/ UNCHANGED vars
  BY <1>4 DEF CreateTransaction, CreateReward, Expire, Age, Requests, CheckRequest,
     NumberRequest, InsertRequestEvent, FinishRequest, Settlements, PollFetch, PollAnswer,
     PollUpdate, ProviderSettles, PayerCancels, LandLatePayment, Land, vars
<1> QED
  BY <1>2, <1>3, <1>4 DEF Next

\* What a run still has to do, and the answers that can still be lost on it.
Remaining(r) == Left(job[r]) + (LossBound - money.lost)

\* No step of a run finds an answer that was lost.
LEMMA LostStaysLost ==
  ASSUME Typed, NEW r \in Runner, Work(r) \/ DatabaseFault(r) \/ Crash(r)
  PROVE  money'.lost >= money.lost
<1>1. money \in MoneyRecord /\ money.lost \in Nat
  BY TypeParts, NothingLost DEF Typed, WorldTypes
<1>2. CASE SubmitStellar(r)
  <2>1. CASE money' = money
    BY <1>1, <2>1
  <2>2. CASE money' = Tried(1, 0, 0)
    BY <1>1, <2>2, TriedMoney
  <2>3. CASE money' = Tried(1, 1, 0) /\ money.lost < LossBound
    BY <1>1, <2>3, TriedMoney
  <2>4. CASE money' = Tried(0, 1, 1) /\ money.lost < LossBound
    BY <1>1, <2>4, TriedMoney
  <2> QED
    BY <1>2, <2>1, <2>2, <2>3, <2>4 DEF SubmitStellar
<1>3. CASE InitiateUpiPayout(r) \/ MintReward(r)
  <2>1. money'.lost = money.lost
    BY <1>1, <1>3 DEF InitiateUpiPayout, MintReward, MoneyRecord
  <2> QED
    BY <1>1, <2>1
<1>4. CASE ~(SubmitStellar(r) \/ InitiateUpiPayout(r) \/ MintReward(r))
  <2>1. money' = money
    BY <1>4 DEF Work, DatabaseFault, Crash, Fetch, UpdateStatus, InsertEvent, FindReward,
       InvokeContract, RecordPayout, RecordMint, ConfirmSettlement, SaveHash,
       GiveUpTransaction, worldVars
  <2> QED
    BY <1>1, <2>1
<1> QED
  BY <1>2, <1>3, <1>4

(* Nothing keeps a run going: each of its own steps and each failure of    *)
(* one leaves it less to do or fewer answers to lose, whatever other runs, *)
(* requests and calls do meanwhile.  So a run that is not starved ends     *)
(* (processor lines 50-80); how it then leaves the transaction is          *)
(* LastRunEnds.                                                            *)
THEOREM RunsRunOut ==
  Spec => [][\A r \in Runner : job[r].at > 0 /\ (Work(r) \/ job'[r] # job[r])
               => Remaining(r)' \in Nat /\ Remaining(r)' < Remaining(r)]_vars
<1> DEFINE RunsOut == \A r \in Runner : job[r].at > 0 /\ (Work(r) \/ job'[r] # job[r])
                        => Remaining(r)' \in Nat /\ Remaining(r)' < Remaining(r)
<1>1. IInv /\ IInv' /\ [Next]_vars => RunsOut
  <2> SUFFICES ASSUME IInv, IInv', [Next]_vars, NEW r \in Runner, job[r].at > 0,
                      Work(r) \/ job'[r] # job[r]
               PROVE  Remaining(r)' \in Nat /\ Remaining(r)' < Remaining(r)
    OBVIOUS
  <2>1. Work(r) \/ DatabaseFault(r) \/ Crash(r)
    BY RunMoves DEF IInv
  <2>2. job[r] \in JobRecord /\ job'[r] \in JobRecord
    BY JobTyped DEF IInv, Typed, TypeOK, JobRecord, Subs
  <2>3. Shrinks(r) \/ TriesAgain
    <3>1. CASE Crash(r)
      <4>1. job'[r].at = 0
        BY <3>1, LeaveMoves DEF Crash, IInv
      <4> QED
        BY <2>2, <4>1, FurtherShrinks DEF Shrinks
    <3> QED
      BY <2>1, <3>1, WorkShrinks, DatabaseFaultShrinks DEF IInv
  <2>4. Left(job[r]) \in Nat /\ Left(job'[r]) \in Nat
    BY <2>2, LeftTyped
  <2>5. /\ money.lost \in 0 .. LossBound /\ money'.lost \in 0 .. LossBound
        /\ money'.lost >= money.lost /\ LossBound \in Nat
    BY <2>1, LostStaysLost, ProcessorAssumption DEF IInv, Typed, TypeOK
  <2>6. Left(job'[r]) < Left(job[r]) \/ (job'[r] = job[r] /\ money'.lost = money.lost + 1)
    BY <2>3 DEF Shrinks, TriesAgain
  <2> HIDE DEF RunsOut
  <2>7. Remaining(r)' = Left(job'[r]) + (LossBound - money'.lost)
    BY DEF Remaining, Left
  <2> QED
    BY <2>4, <2>5, <2>6, <2>7 DEF Remaining
<1> QED
  BY <1>1, IInvHolds, PTL DEF Spec

-----------------------------------------------------------------------------
(* Nothing is left half way.                                               *)

Calm == spent.faults = 0 /\ spent.crashes = 0 /\ ~Overloaded
Underway == tx.status \notin {"NONE", "CREATED"} \cup Ended

FetchesFresh == \A r \in Runner : Fetching(r) => tx.fresh

Carried ==
  Underway => \E r \in Runner : Holds(r) \/ (Fetching(r) /\ tx.status = "AUTHORIZED")

CarriedOn == Calm => FetchesFresh /\ Carried

LEMMA PassesCarried ==
  ASSUME FetchesFresh, Carried, NEW r \in Runner, Passes(r), spent' = spent,
         Fetching(r) => Holds(r)' \/ tx.status # "AUTHORIZED"
  PROVE  FetchesFresh' /\ Carried'
<1>1. \A q \in Runner \ {r} : (Holds(q) <=> Holds(q)') /\ (Fetching(q) <=> Fetching(q)')
  BY DEF Passes, Moved, Holds, Fetching
<1>2. FetchesFresh'
  BY <1>1 DEF FetchesFresh, Passes
<1>3. CASE tx'.status = tx.status
  BY <1>1, <1>2, <1>3 DEF Carried, Underway, Passes
<1>4. CASE tx'.status \in Ended \/ Holds(r)'
  BY <1>2, <1>4 DEF Carried, Underway
<1> QED
  BY <1>2, <1>3, <1>4 DEF Passes

LEMMA FetchCarried ==
  ASSUME Typed, Calm, FetchesFresh, Carried, NEW r \in Runner, Fetch(r) \/ Join(r)
  PROVE  FetchesFresh' /\ Carried'
<1>1. Passes(r) /\ (job'[r].at > 0 => Holds(r)') /\ spent' = spent
  BY BeginsPass DEF Fetch, Join
<1>2. Fetching(r) => job'[r].at > 0 \/ tx.status # "AUTHORIZED"
  <2> SUFFICES ASSUME Fetching(r), tx.status = "AUTHORIZED" PROVE job'[r].at > 0
    OBVIOUS
  <2>1. job' = [job EXCEPT ![r] = Enter(@, 1)]
    BY DEF Fetch, Join, Fetching, FetchesFresh, Calm
  <2>2. job'[r] = Enter(job[r], 1)
    BY <2>1, JobTyped DEF Typed
  <2> QED
    BY <2>2, RunFacts, EnterPlaces DEF GiveUp
<1> QED
  BY <1>1, <1>2, PassesCarried

LEMMA ClaimCarried ==
  ASSUME Typed, NEW r \in Runner, Claim(r)
  PROVE  FetchesFresh' /\ Carried'
<1>1. tx'.status = "AUTHORIZED" /\ tx'.fresh
  BY TypeParts DEF Claim, Typed, RowTypes
<1>2. job'[r].sub = "fetch"
  BY JobTyped DEF Claim, Typed, JobRecord
<1> QED
  BY <1>1, <1>2 DEF FetchesFresh, Carried, Fetching

LEMMA ElsewhereCarried ==
  ASSUME FetchesFresh, Carried, UNCHANGED <<job, spent.faults>>, tx'.fresh = tx.fresh,
         tx'.status = tx.status \/ tx'.status \in {"CREATED"} \cup Ended
  PROVE  FetchesFresh' /\ Carried'
BY DEF FetchesFresh, Carried, Underway, Holds, Fetching

LEMMA AgeCarried ==
  ASSUME Typed, Calm, FetchesFresh, Carried, Age
  PROVE  FetchesFresh' /\ Carried'
<1>1. \A r \in Runner : ~Fetching(r)
  BY DEF Age, Calm, Fetching
<1>2. UNCHANGED <<job, spent>> /\ tx'.status = tx.status
  BY TypeParts DEF Age, Typed, RowTypes
<1> QED
  BY <1>1, <1>2 DEF FetchesFresh, Carried, Underway, Holds, Fetching

LEMMA CarriedNext ==
  ASSUME Typed, CarriedOn, [Next]_vars
  PROVE  CarriedOn'
<1> SUFFICES ASSUME Calm' PROVE FetchesFresh' /\ Carried'
  BY DEF CarriedOn
<1>1. OtherTypes /\ RowTypes
  BY TypeParts DEF Typed
<1>2. Calm /\ FetchesFresh /\ Carried /\ UNCHANGED <<spent.faults, spent.crashes>>
  BY <1>1, SpentGrows DEF Calm, CarriedOn
<1>3. ASSUME NEW r \in Runner, DatabaseFault(r) \/ Crash(r)
      PROVE  FALSE
  BY <1>1, <1>2, <1>3, SpentGrows DEF DatabaseFault, Crash, OtherTypes
<1>4. ASSUME NEW r \in Runner, Claim(r) \/ Join(r) \/ Fetch(r)
      PROVE  FetchesFresh' /\ Carried'
  BY <1>2, <1>4, ClaimCarried, FetchCarried
<1>5. ASSUME NEW r \in Runner, Work(r), ~Fetch(r)
      PROVE  FetchesFresh' /\ Carried'
  <2>1. Passes(r) /\ spent' = spent
    BY <1>5, WorkPasses DEF Work, UpdateStatus, InsertEvent, FindReward, InvokeContract,
       SubmitStellar, InitiateUpiPayout, RecordPayout, MintReward, RecordMint,
       ConfirmSettlement, SaveHash, GiveUpTransaction
  <2>2. ~Fetching(r)
    BY <1>5, RunFacts, WorkUnderway DEF Fetching, Placed
  <2> QED
    BY <1>2, <2>1, <2>2, PassesCarried
<1>6. CASE Age
  BY <1>2, <1>6, AgeCarried
<1>7. CASE CreateTransaction \/ CreateReward \/ Expire
  <2>1. /\ UNCHANGED <<job, spent>> /\ tx'.fresh = tx.fresh
        /\ tx'.status \in {tx.status, "CREATED"}
    BY <1>1, <1>7 DEF CreateTransaction, CreateReward, Expire, RowTypes
  <2> QED
    BY <1>2, <2>1, ElsewhereCarried
<1>8. CASE (\E m \in Callable : Land(m)) \/ PayerCancels \/ LandLatePayment
           \/ Settlements \/ UNCHANGED vars
  <2>1. UNCHANGED <<job, tx>>
    BY <1>8 DEF Land, PayerCancels, LandLatePayment, Settlements, PollFetch, PollAnswer, PollUpdate,
       ProviderSettles, dbVars, vars
  <2> QED
    BY <1>2, <2>1, ElsewhereCarried
<1>9. CASE Requests
  <2>1. UNCHANGED job /\ tx'.fresh = tx.fresh /\ tx'.status \in {tx.status} \cup Ended
    BY <1>1, <1>9 DEF Requests, CheckRequest, NumberRequest, InsertRequestEvent,
       FinishRequest, RowTypes, Ended, dbVars
  <2> QED
    BY <1>2, <2>1, ElsewhereCarried
<1> QED
  BY <1>3, <1>4, <1>5, <1>6, <1>7, <1>8, <1>9 DEF Next

(* Without faults, crashes and overload, a claimed transaction always has  *)
(* a run that will still write its end, until that is written; so overlaps, *)
(* colliding event numbers and user requests strand nothing (processor     *)
(* lines 50-110 and 318-360).                                              *)
THEOREM NothingEverStranded == Spec => []NothingStranded
<1>1. Init => CarriedOn
  <2> SUFFICES ASSUME Init PROVE FetchesFresh /\ Carried
    BY DEF CarriedOn
  <2>1. tx.status = "NONE" /\ \A r \in Runner : job[r].sub = "idle"
    BY DEF Init, Idle
  <2> QED
    BY <2>1 DEF FetchesFresh, Carried, Underway, Fetching
<1>2. IInv /\ CarriedOn => NothingStranded
  <2> SUFFICES ASSUME IInv, CarriedOn, Calm, \A r \in Runner : job[r].sub = "idle"
               PROVE  ~Underway
    BY DEF NothingStranded, Calm, Underway
  <2>1. \A r \in Runner : job[r].at = 0
    BY DEF IInv, Typed, Placed
  <2> QED
    BY <2>1 DEF CarriedOn, Carried, Holds, Fetching, Handler, GiveUp
<1>3. IInv /\ CarriedOn /\ [Next]_vars => CarriedOn'
  BY CarriedNext DEF IInv
<1> QED
  BY <1>1, <1>2, <1>3, IInvHolds, PTL DEF Spec

-----------------------------------------------------------------------------
(* The refinement of TransferPromise.                                      *)

\* What a call that was given up on may still do is owed to what went before.
LateCalls ==
  /\ chain \in {"Settled", "Completed"} => money.stellar > 0
  /\ "settle" \in inflight => money.stellar > 0
  /\ "mint" \in inflight => chain \in {"Settled", "Completed"}

\* What the promise sees of a step: one payment call, one transfer, or nothing.
WorldStep ==
  \/ UNCHANGED <<chain, inflight, money>>
  \/ \E r \in Runner :
       \/ InvokeContract(r)
       \/ SubmitStellar(r) \/ InitiateUpiPayout(r) \/ MintReward(r)
  \/ \E m \in Callable : Land(m)
  \/ PayerCancels \/ LandLatePayment \/ ProviderSettles

LEMMA NextWorldStep == [Next]_vars => WorldStep
<1> SUFFICES ASSUME [Next]_vars PROVE WorldStep
  OBVIOUS
<1>1. ASSUME NEW r \in Runner, Claim(r) \/ Join(r) \/ DatabaseFault(r) \/ Crash(r)
      PROVE  UNCHANGED <<chain, inflight, money>>
  BY <1>1 DEF Claim, Join, DatabaseFault, Crash, worldVars
<1>2. ASSUME NEW r \in Runner, Work(r)
      PROVE  WorldStep
  <2>1. CASE \/ Fetch(r) \/ UpdateStatus(r) \/ InsertEvent(r) \/ FindReward(r)
             \/ RecordPayout(r) \/ RecordMint(r) \/ ConfirmSettlement(r) \/ SaveHash(r)
             \/ GiveUpTransaction(r)
    BY <2>1 DEF WorldStep, Fetch, UpdateStatus, InsertEvent, FindReward, RecordPayout,
       RecordMint, ConfirmSettlement, SaveHash, GiveUpTransaction, worldVars
  <2> QED
    BY <1>2, <2>1 DEF Work, WorldStep
<1>3. CASE \/ CreateTransaction \/ CreateReward \/ Expire \/ Age
           \/ Requests \/ PollFetch \/ PollAnswer \/ PollUpdate \/ UNCHANGED vars
  BY <1>3 DEF WorldStep, CreateTransaction, CreateReward, Expire, Age, Requests,
     CheckRequest, NumberRequest, InsertRequestEvent, FinishRequest, PollFetch,
     PollAnswer, PollUpdate, worldVars, vars
<1> QED
  BY <1>1, <1>2, <1>3 DEF Next, WorldStep, Settlements

\* A payment call that is accepted, now or late, is a step of the promise.
LEMMA AcceptedPromised ==
  ASSUME IInv, LateCalls, NEW m, m # "mint", Accepts(m), chain' = To(m), UNCHANGED money,
         m = "settle" => money.stellar > 0
  PROVE  /\ Promise!Next \/ UNCHANGED Promise!vars
         /\ chain' \in {"Settled", "Completed"} => money.stellar > 0
         /\ chain \in {"Settled", "Completed"} => chain' \in {"Settled", "Completed"}
<1>1. \/ m = "create" /\ chain = "Absent" /\ chain' = "Created"
      \/ m = "quote" /\ chain = "Created" /\ chain' = "Quoted"
      \/ m = "convert" /\ chain = "Quoted" /\ chain' = "Converted"
      \/ m = "settle" /\ chain = "Converted" /\ chain' = "Settled"
      \/ m = "complete" /\ chain \in {"Settled", "Rewarded"} /\ chain' = "Completed"
  BY AcceptedForward
<1>2. chain # "Rewarded"
  BY TypeParts DEF IInv, Typed, WorldTypes, ChainStatus
<1>3. /\ chain' \in {"Settled", "Completed"} => money.stellar > 0
      /\ chain \in {"Settled", "Completed"} => chain' \in {"Settled", "Completed"}
  BY <1>1, <1>2 DEF LateCalls
<1> QED
  BY <1>1, <1>2, <1>3 DEF Promise!Next, Promise!vars, Promise!Open, Promise!Commit, Promise!Settle,
     Promise!Finish, Promise!Move, Phase

\* What the promise sees of a Stellar payment.
Charges ==
  \E landed \in 0 .. 1 :
    /\ money'.stellar = money.stellar + landed
    /\ money'.payouts = money.payouts /\ money'.minted = money.minted

LEMMA PaymentCharges ==
  ASSUME money \in MoneyRecord, (\E r \in Runner : SubmitStellar(r)) \/ LandLatePayment
  PROVE  Charges
<1>1. CASE money' = money
  BY <1>1 DEF Charges, MoneyRecord
<1>2. CASE money' = Tried(1, 0, 0)
  BY <1>2, TriedMoney DEF Charges
<1>3. CASE money' = Tried(0, 0, 0)
  BY <1>3, TriedMoney DEF Charges
<1>4. CASE money' = Tried(1, 1, 0) /\ money.lost < LossBound
  BY <1>4, TriedMoney DEF Charges
<1>5. CASE money' = Tried(0, 1, 1) /\ money.lost < LossBound
  BY <1>5, TriedMoney DEF Charges
<1> QED
  BY <1>1, <1>2, <1>3, <1>4, <1>5 DEF SubmitStellar, LandLatePayment

\* It is the promise's charge if it is the first that lands.
LEMMA ChargePromised ==
  ASSUME LateCalls, money \in MoneyRecord, UNCHANGED <<chain, inflight>>,
         chain = "Converted" \/ money.stellar > 0, Charges
  PROVE  (Promise!Next \/ UNCHANGED Promise!vars) /\ LateCalls'
<1>1. PICK landed \in 0 .. 1 :
        /\ money'.stellar = money.stellar + landed
        /\ money'.payouts = money.payouts /\ money'.minted = money.minted
  BY DEF Charges
<1>2. money.stellar \in Nat
  BY DEF MoneyRecord
<1>3. LateCalls'
  BY <1>1, <1>2 DEF LateCalls
<1>4. CASE landed = 0 \/ money.stellar > 0
  BY <1>1, <1>2, <1>3, <1>4 DEF Promise!vars, Phase
<1>5. CASE landed = 1 /\ money.stellar = 0
  BY <1>1, <1>2, <1>3, <1>5 DEF Promise!Next, Promise!Charge, Phase
<1> QED
  BY <1>1, <1>2, <1>3, <1>4, <1>5

LEMMA RunPromised ==
  ASSUME IInv, LateCalls, NEW r \in Runner,
         \/ InvokeContract(r)
         \/ SubmitStellar(r) \/ InitiateUpiPayout(r) \/ MintReward(r)
  PROVE  (Promise!Next \/ UNCHANGED Promise!vars) /\ LateCalls'
<1>1. /\ Places(r) /\ Arguments(r) /\ WorldTypes
      /\ OnChain(r) /\ InMoney(r)
  BY RunFacts, TypeParts DEF IInv, Typed, Owners, OwnerAgrees
<1>2. CASE InvokeContract(r)
  <2>1. job[r].at \in ContractSteps /\ UNCHANGED money
    BY <1>1, <1>2 DEF InvokeContract, Places
  <2>2. Arg(r) # "mint" /\ (Arg(r) = "settle" <=> job[r].at = 11)
    BY <1>1, <2>1 DEF Arguments, ContractSteps
  <2>3. Arg(r) = "settle" => money.stellar > 0
    BY <1>1, <2>2 DEF InMoney
  <2>4. CASE Accepts(Arg(r)) /\ chain' = To(Arg(r)) /\ UNCHANGED inflight
    BY <2>1, <2>2, <2>3, <2>4, AcceptedPromised DEF LateCalls
  <2>5. CASE UNCHANGED chain /\ inflight' \in {inflight, inflight \cup {Arg(r)}}
    BY <2>1, <2>2, <2>3, <2>5 DEF LateCalls, Promise!vars, Phase
  <2> QED
    BY <1>2, <2>4, <2>5 DEF InvokeContract
<1>3. CASE SubmitStellar(r)
  <2>1. job[r].at = 9 /\ chain = "Converted"
    BY <1>1, <1>3 DEF SubmitStellar, Places, OnChain
  <2>2. Charges
    BY <1>1, <1>3, PaymentCharges DEF WorldTypes
  <2>3. UNCHANGED <<chain, inflight>>
    BY <1>3 DEF SubmitStellar
  <2> QED
    BY <1>1, <2>1, <2>2, <2>3, ChargePromised DEF WorldTypes
<1>4. CASE InitiateUpiPayout(r)
  <2>1. job[r].at = 13 /\ chain = "Settled" /\ money.payouts = 0
    BY <1>1, <1>4 DEF InitiateUpiPayout, Places, OnChain, InMoney
  <2>2. money' \in {money, [money EXCEPT !.payouts = @ + 1, !.outcome = "Processing"]}
    BY <1>4 DEF InitiateUpiPayout
  <2>3. /\ money'.stellar = money.stellar /\ money'.payouts \in {0, 1}
        /\ money'.minted = money.minted
    <3>1. CASE money' = money
      BY <2>1, <3>1
    <3>2. CASE money' = [money EXCEPT !.payouts = @ + 1, !.outcome = "Processing"]
      <4>1. money.payouts + 1 = 1
        BY <2>1
      <4>2. money' = [[money EXCEPT !.payouts = 1] EXCEPT !.outcome = "Processing"]
        BY <3>2, <4>1
      <4> QED
        BY <1>1, <4>2 DEF WorldTypes, MoneyRecord
    <3> QED
      BY <2>2, <3>1, <3>2
  <2>4. UNCHANGED <<chain, inflight>>
    BY <1>4 DEF InitiateUpiPayout
  <2> QED
    BY <2>1, <2>3, <2>4 DEF LateCalls, Promise!Next, Promise!vars, Promise!Pay, Phase
<1>5. CASE MintReward(r)
  <2>1. chain = "Settled"
    BY <1>1, <1>5 DEF MintReward, Places, OnChain, MintStep
  <2>2. /\ money' = money \/ (~money.minted /\ money' = [money EXCEPT !.minted = TRUE])
        /\ inflight' \subseteq inflight \cup {"mint"}
        /\ UNCHANGED chain
    BY <1>5 DEF MintReward, Mintable
  <2>3. /\ money'.stellar = money.stellar /\ money'.payouts = money.payouts
        /\ money'.minted = money.minted \/ (~money.minted /\ money'.minted)
    BY <1>1, <2>2 DEF WorldTypes, MoneyRecord
  <2> QED
    BY <2>1, <2>2, <2>3 DEF LateCalls, Promise!Next, Promise!vars, Promise!Earn, Phase
<1> QED
  BY <1>2, <1>3, <1>4, <1>5

LEMMA LandPromised ==
  ASSUME IInv, LateCalls, NEW m \in Callable, Land(m)
  PROVE  (Promise!Next \/ UNCHANGED Promise!vars) /\ LateCalls'
<1>1. m \in inflight /\ inflight' \subseteq inflight /\ WorldTypes
  BY TypeParts DEF Land, IInv, Typed
<1>2. CASE m # "mint" /\ Accepts(m) /\ chain' = To(m) /\ money' = money
  BY <1>1, <1>2, AcceptedPromised DEF LateCalls
<1>3. CASE m = "mint" /\ money' = [money EXCEPT !.minted = TRUE] /\ chain' = chain
  <2>1. chain \in {"Settled", "Completed"}
    BY <1>1, <1>3 DEF LateCalls
  <2>2. /\ money'.stellar = money.stellar /\ money'.payouts = money.payouts
        /\ money'.minted
    BY <1>1, <1>3 DEF WorldTypes, MoneyRecord
  <2>3. money.minted \in BOOLEAN
    BY <1>1 DEF WorldTypes, MoneyRecord
  <2> QED
    BY <1>1, <1>3, <2>1, <2>2, <2>3
    DEF LateCalls, Promise!Next, Promise!vars, Promise!Earn, Phase
<1>4. CASE UNCHANGED <<chain, money>>
  BY <1>1, <1>4 DEF LateCalls, Promise!vars, Phase
<1> QED
  BY <1>2, <1>3, <1>4 DEF Land

LEMMA WorldPromised ==
  ASSUME IInv, LateCalls, WorldStep
  PROVE  (Promise!Next \/ UNCHANGED Promise!vars) /\ LateCalls'
<1>1. CASE UNCHANGED <<chain, inflight, money>>
  BY <1>1 DEF LateCalls, Promise!vars, Phase
<1>2. CASE PayerCancels
  BY <1>2 DEF PayerCancels, LateCalls, Promise!Next, Promise!Withdraw, Promise!Move, Phase
<1>3. CASE ProviderSettles
  <2>1. /\ money'.stellar = money.stellar /\ money'.payouts = money.payouts
        /\ money'.minted = money.minted
        /\ UNCHANGED <<chain, inflight>>
    BY <1>3, TypeParts DEF ProviderSettles, IInv, Typed, WorldTypes, MoneyRecord
  <2> QED
    BY <2>1 DEF LateCalls, Promise!vars, Phase
<1>4. CASE LandLatePayment
  <2>1. /\ money \in MoneyRecord /\ UNCHANGED <<chain, inflight>>
        /\ chain = "Converted" \/ money.stellar > 0
    BY <1>4, TypeParts DEF IInv, Typed, WorldTypes, LandLatePayment, Results, Paying, LatePayment,
       LateCalls
  <2>2. Charges
    BY <1>4, <2>1, PaymentCharges
  <2> QED
    BY <2>1, <2>2, ChargePromised
<1> QED
  BY <1>1, <1>2, <1>3, <1>4, RunPromised, LandPromised DEF WorldStep

(* The back end implements TransferPromise: each of its steps is a step of *)
(* the promise or invisible to it, calls that land late included.          *)
THEOREM TransfersKeepPromise == Spec => KeepsTransferPromise
<1>1. Init => LateCalls /\ Promise!Init
  BY DEF Init, LateCalls, Promise!Init, Phase
<1>2. IInv /\ LateCalls /\ [Next]_vars => LateCalls' /\ [Promise!Next]_(Promise!vars)
  BY NextWorldStep, WorldPromised
<1> QED
  BY <1>1, <1>2, IInvHolds, PTL DEF Spec, KeepsTransferPromise, Promise!Spec
=============================================================================

# PayEra: a TLA+ model of the contracts, the transaction pipeline and the platform around it

PayEra takes a rupee price at a merchant, converts an asset of the payer, routes
USDC over Stellar, pays the merchant by UPI and rewards the payer in STAR. Four
Soroban contracts (`contracts/`, Rust) keep the on-chain record; a NestJS API
(`apps/api`) drives them from a database; a web app, an admin app and an SDK call
the API.

All paths below are relative to the repository's root.

| | |
|---|---|
| 1 | [The system](#1-the-system): inventory of components, and how they interact |
| 2 | [The modules](#2-the-modules): what models what |
| 3 | [The transaction processor](#3-the-transaction-processor): the model of the pipeline, step by step |
| 4 | [The runs](#4-the-runs): what TLC checks, bounds, fairness |
| 5 | [The proofs](#5-the-proofs): what TLAPS proves, from what, and how |
| 6 | [What the code does not promise](#6-what-the-code-does-not-promise): findings and divergences |
| 7 | [What is left out](#7-what-is-left-out), and [8](#8-plan) the plan |

## 1. The system

### Contracts (modelled)

All four share the same governance: an admin, a *proposed* admin that has to
accept, a pause switch. A call that returns an error or panics is reverted as a
whole, cross-contract calls included.

| Component | State | Operations | Correct when |
|---|---|---|---|
| **PaymentEngine** `contracts/payment-engine` | admin, proposal, pause; operators; linked registry and reward engine; payment records | configuration; `create_payment`, `quote_payment`, `mark_converted`, `mark_settled`, `issue_reward`, `complete_payment` (operators); `cancel_payment` (payer); `fail_payment` (operator) | a payment only moves forward, is never converted unpriced, cannot be withdrawn after conversion, and an ended one never moves; a settled payment can always end, whatever the reward engine does; a rotated-out admin is powerless |
| **RewardEngine** `contracts/reward-engine` | governance; STAR token link; issuers; reward records | configuration; `issue_spend_reward`, `issue_referral_reward`, `issue_campaign_reward` | one reward id is one mint, for ever |
| **StarToken** `contracts/star-token` | governance; minters; freeze list; balances, supply; allowances with expiry; fee-burn configuration | configuration; `mint`, `mint_from_minter`, `burn`, `burn_fee`, `burn_from`, `transfer`, `transfer_from`, `approve` | the balances add up to the supply, the supply respects the cap, a frozen account is untouched, nobody loses STAR without having signed |
| **MerchantRegistry** `contracts/merchant-registry` | governance; merchant records with status, owner, metadata | `register_merchant`, `approve`, `suspend`, `reject` (admin); `update_metadata`, `transfer_owner` (owner) | a rejection is final; admin and owner do not reach into each other's field |

Interactions: `create_payment` reads `MerchantRegistry.is_approved`;
`issue_reward` *tries* `RewardEngine.issue_spend_reward` and goes on with 0 STAR if
it fails; every reward calls `StarToken.mint_from_minter`. The links can be
changed by the admins at any time.

Hard: many actors with different rights in any order, links and roles that change
between two calls, partial failure of the nested call, exhausted caps, expiry.

### API and pages

| Component | State | Operations and interactions | Correct when | Hard behaviour |
|---|---|---|---|---|
| **Transaction processor** `apps/api/src/transaction-processor` | transaction row, its numbered events, settlement and reward rows | two cron handlers: claim and process created transactions (5 s), poll pending settlements; calls PaymentEngine, Stellar, the UPI provider and the STAR mint | money leaves after the contract agreed, and again only for an answer that was lost; the row is not ahead of the contract; a fetched transaction ends | overlapping runs; every await; retries of a pipeline that is half done; answers lost or late; crashes; failing database statements |
| **Transactions** `transactions` | the same rows; idempotency keys; rate cache | `create`, `cancel`, `fail`, `quote`; the controller looks up and stores an idempotency key | a repeated request repeats the answer | check-then-act across awaits; two requests with one key; quotes that overlap in one cache |
| **Stellar client, circuit breaker** `stellar/stellar.service.ts`, `common/circuit-breaker` | a breaker; the platform account's sequence number | `submitPayment` under a retry and a breaker policy | a call that failed paid at most what its attempts with lost answers paid | calls that overtake each other on one sequence number; an answer lost after the payment landed |
| **Soroban client** `stellar/soroban.service.ts` | none | `invokeContract` polls 40 s for a confirmation | | a call that is given up on and lands later |
| **Settlement client** `settlement` | access token and its expiry | the UPI payout and its status | no token is used after its term | overlapping fetches of a token |
| **Referrals, rewards** `referrals`, `rewards` | referral and reward rows | `accept`, `qualify`, `reward`; admin `mint` and `reverse`, without looking at the status | the inviter is rewarded for a friend who paid | two acceptors of one code; an acceptance resets a rewarded referral |
| **Authentication** `auth`, `common/guards` | nonces (cache), refresh tokens, roles in access tokens | wallet challenge and login, mock login, refresh with rotation and reuse detection, guards | two logins get in on one nonce only if they overlap; a refresh that begins after the account's deletion never gets in; a role that was taken away stops working | a nonce is read and then deleted, a refresh token compared and then replaced; a role read before a change and signed after it |
| **Users and wallets** `users`, `wallets` | user and wallet rows | status, role, deletion; create, update, disconnect a wallet; the primary one | one primary wallet | statements that do not see rows committed beside them |
| **Admin, merchants** `admin`, `merchants`, `apps/admin` | merchant rows, and a copy of the status in the registry | approve, reject, suspend: database first, contract after, its errors only logged | the contract holds what some review decided | a contract call that lands after a later review |
| **Merchant onboarding** `apps/web` `merchant/onboard` | a merchant row; the wizard | five steps, submit, KYC | "received" means stored | the answer is lost and the application sent again |
| **KYC** `kyc`, `apps/web` `kyc` | status and reference on the user row; the page's cache | start, provider webhooks, a page that polls while pending, `AuthGate` that writes the status its own query got | VERIFIED was a verdict of the provider; the page leaves PENDING | webhooks arrive late, twice, in any order and overwrite a newer verdict; two queries write one status |
| **Ramps** `ramps`, `apps/web` `wallet/onramp`, `wallet/offramp`, SDK | the page; status loops on the server | SEP-24 deposit and withdrawal; up to 60 requests per poll, with 5 s of sleep between an answer and the next request | as many loops pile up as the anchor's answers are slow, and no more; the end is shown | the SDK gives up after 10 s and asks again while the loop it left goes on; a request to the anchor has no timeout |
| **Web session** `apps/web` `StellarWalletProvider`, `Providers`, `store` | tokens, wallet, KYC gate, route, query cache | login, logout, 401, reload, deletion, redirects | the wallet that signs is the one the tokens belong to | logins that complete after a logout |
| **Pay page** `apps/web` `pay` | step, payee, merchant, badge, amount | scan, look up, enter an amount, quote, confirm | what is paid goes to the address that was scanned | a scanner that reports a code several times a second |
| **Receipt page** `apps/web` `history/[id]` | shown status, timer | load every 2.5 s while active; cancel | the end of a transaction is shown | failed loads; a cancellation beside a load |
| **Lists** (`users`, `merchants`, `campaigns`, `transactions`, `rewards`, `referrals`, `wallets`) | rows | a page of a list, a single row | a walk shows each row it should once; who sees a row in a list may open it | rows created, changed and deleted between two pages |
| **Campaigns, analytics, reports** | rows only read | balance, tax report, merchant, campaign, reward and overview statistics | different reports of one table agree where they should | a balance is three statements without a snapshot |
| **AML** `aml`, admin page | none | one screening, by provider or by a mock that hashes the address | a score, its level and its flags agree | a hash that overflows 32 bits with either sign |
| **Database seed** `apps/api/prisma/seed.ts` | the demonstration rows | upserts in order | running it again completes it | killed between two rows; run twice at once |

## 2. The modules

| Module | Models | Extends / instantiates |
|---|---|---|
| `ContractAdmin` | the governance that the four contracts share line for line | |
| `PaymentEngine` | `payment-engine/src/lib.rs`; the answers of the registry and of the reward engine are parameters | `ContractAdmin`, `PaymentPromise` |
| `PaymentPromise` | **abstract specification**: what a payment may ever do, as seen by payer and merchant | |
| `RewardEngine` | `reward-engine/src/lib.rs`; the mint is a parameter | `ContractAdmin` |
| `StarToken` | `star-token/src/lib.rs` | `ContractAdmin` |
| `MerchantRegistry` | `merchant-registry/src/lib.rs` | `ContractAdmin` |
| `PaymentAudit`, `RewardAudit`, `StarAudit` | the contract plus two observers: who signed the last step, and which keys were rotated out and given nothing since | the contract |
| `ContractSystem` | the four contracts with their cross-contract calls | the four contracts |
| `TransactionProcessor` | the API's pipeline around one transaction (section 3) | `TransferPromise` |
| `TransferPromise` | **abstract specification**: what the back end promises payer and merchant of one transaction, without runs, retries and rows | |
| `Intake` | the idempotency key around `create` | |
| `StellarSubmit` | `submitPayment`, attempt by attempt, under its policies | |
| `Caches` | `getLiveRates` with its cache; the payout provider's access token | |
| `Account` | nonces, logins, refresh tokens (compared, verified, revoked, replaced), status and deletion | |
| `Roles` | the role in the row, in the token, and in the guards | |
| `Wallets` | the primary wallet of one user: transactions of two statements under READ COMMITTED | |
| `Session` | who is logged in to the web app | |
| `Kyc` | verification of one user, its webhooks, one visit to its page, and `AuthGate`, the other writer of the status the page shows | |
| `Ramps` | the ramp pages, the SDK's client, the server's loops, the anchor | |
| `Merchants` | reviews of one merchant in the database and in the registry | |
| `Onboarding` | the application wizard | |
| `Referrals` | one invitation and its reward row | |
| `Browse` | lists, the walks of API clients and of pages through the SDK, and single rows, with the roles of `Roles` | `Roles` |
| `Reports` | the reports as operators over the tables, with their windows, filters and groups; the balance in three statements | |
| `PayPage`, `Receipt` | the two pages | |
| `Aml` | screening, the mock's hash, the admin page | |
| `Seed` | the seed script, row by row | |
| `Platform` | the 18 modules above from `Intake` on, and `MerchantRegistry`, side by side | all of them |
| `PaymentEngineProofs`, `StarTokenProofs`, `RewardEngineProofs`, `MerchantRegistryProofs` | theorems about the contract of that name, and about its audit | TLAPS |
| `ContractSystemProofs` | theorems about the four contracts together; takes those of each contract over | TLAPS, the four above (`INSTANCE`) |
| `TransactionProcessorProofs` | theorems about the processor | TLAPS |
| `PlatformProofs` | theorems about every module from `Intake` on, and about `Platform` | TLAPS, `SumTheorems`, `MerchantRegistryProofs` |
| `SumTheorems` | lemmas about sums over finite sets, of no contract or component | TLAPS |
| `MC*` | constants, bounds and symmetry of the runs | the module checked |

How contract code becomes actions. One exported function is one action whose
first parameter is the signer. `require_*` helpers, early `Err` returns and panics are
its guard (a reverted call changes nothing, so it is a step that is not taken).
`DataKey` entries are functions; a missing entry is `"Absent"`, an amount of 0, or
`No...`. Roles (`Operator`, `Minter`, `AuthorizedIssuer`, `Authorized`) are Boolean
functions. `accept_admin` of each contract includes what it does to the roles of both
keys (`HandOver`): on the token it also freezes the outgoing admin.
`RewardSucceeds` spells out everything the nested reward call needs, so the branch
in which `try_issue_spend_reward` fails is exact rather than arbitrary. Contracts may not
re-enter in Soroban, so a nested call is part of its caller's step.

How API and page code becomes actions. A handler is split where it awaits: what it
has read lives in the record of the request (`intake[r]`, `session[s]`, `change[c]`,
`review[a]`, ...), and everything from one await to the next is one action. A
database statement is atomic; a `$transaction` is as many actions as it has
statements. A page is a record of what it shows and what it awaits; a React effect
is part of the step that changes what it depends on, unless a request lies
between. Fields marked *history* in a comment (`late` of a request, `before`, `closed`, `by`, `mixed`, `unseen`,
`alone`, `held`) are read by properties only.

**Why one run checks the platform.** These components meet in the database through
rows no two of them write in a way a property is about. `Platform` puts them side by
side: `inUse`, chosen once in the initial state, says which of them a behaviour uses, and those
interleave in any order. Their product is out of TLC's reach, so `MCPlatform` takes the behaviours that use
one component, the *subject*, and TLC visits the sum of the state spaces. That this loses nothing is
proved: in any interleaving each component does what it does alone (`EachBehavesAlone`), so what
holds of the subject holds of all (`PlatformStaysSafe`). Where two components do interact the interaction is *inside* a module: the
registry's answers in `Merchants`, rewards in `Referrals`, roles in `Browse`, the
processor's writes in `Receipt`, deletion in `Account` and `Session`.

Data that is abstracted: asset codes, hashes, names and ledger numbers in records no
check reads. `i128` overflow in `amount * fee_basis_points` is a guard (`IntMax`).

## 3. The transaction processor

The module follows **one** transaction; nothing in the pipeline relates two, except that
a cron run which claimed *another* one can pick this one up too (`Join`).

| Variable | Code |
|---|---|
| `tx` | the row: `status`, a Stellar hash stored or not, quote still valid (`open`), claimed at most 6 s ago (`fresh`) |
| `current` | the event log: who has read the present highest sequence number. Inserting is possible for these; the first insertion empties the set and the others hit the unique constraint |
| `reward`, `settlement` | the status of the two rows |
| `chain` | the status of the payment on the contract |
| `inflight` | contract calls the API stopped waiting for and which may still land |
| `money` | Stellar payments that landed, those whose answer was lost, one that may still land; payouts, a mint, and the provider's verdict |
| `job` | each cron run: position in `Program`, position inside the call, attempt, hash held in a local variable |
| `request`, `poll` | a cancel or fail request, the settlement poller, between their awaits |
| `spent` | how much of the bounds for faults, crashes and requests is used |

`Program` lists the awaited calls of `processTransaction` in order, followed by the catch
block and by the last resort of `handlePendingTransactions`. `Advanced` and `Thrown`
say where a run goes after a call and after an exception. A run is a program counter
over this list, so every await is a point at which anyone else may step.

Reductions, each sound for what is checked:

* event sequence *numbers* are replaced by `current`: only equality with the maximum
  matters;
* a status update is one step with the read of the highest number after it (`UpdateStatus`): an
  insertion between the two could as well have happened before the update, since nobody
  reads the status and the event log together;
* `Age` only matters while the row is `AUTHORIZED`: nobody asks in another status;
* each try of the retry policy of `submitPayment` is one step (`SubmitStellar`), a payment of its own that is
  answered, fails, or loses its answer, landed or not; the policy's limit of four tries is
  not kept, only `LossBound` limits the losses. Of the payments that
  are still on their way when the policy gives up, one can land later (`LandLatePayment`), since they carry
  one sequence number. What concurrent calls do to each other's numbers and to the breaker is `StellarSubmit`;
* a failing database statement has no effect (it is reported as failed although it took
  effect only for calls to other systems).

**Which contract answers.** The contract's address is configuration. `Callable` is the
set of calls whose arguments the deployed contract takes, `CompleteFrom` the status
`complete_payment` starts from. With the contract of this repository only `create_payment`
matches: the API omits the `operator` argument of the others
(`soroban.service.ts:334`, `payment-engine/src/lib.rs:382`). The run
`processor_repository` shows what that means. All other processor runs use
`AllCalls`, a contract the calls were written for, since otherwise the rest of the
pipeline is never reached and nothing about it could be learnt.

## 4. The runs

`Reliable`, `Overloaded`, `FaultBound`, `CrashBound`, `LossBound`, `RequestBound` are constants of
`TransactionProcessor`; `Settable` of `ContractSystem` limits which addresses a
configuration call may be given.

| Run | Question | Bounds and why they are enough |
|---|---|---|
| `payment_engine` | Does a record agree with its status, does the engine implement `PaymentPromise`, is a former admin powerless? | Two signers who can hold every role, a contract address, one payment (payments do not interact inside the engine), each kind of quote the guards tell apart |
| `star_token` | Conservation, signatures, former admins | Two accounts (a transfer to oneself included), amounts 1 and 2 under a cap of 2, a fee of one half (which rounds to 0 on 1), a fee above 100% that must be refused, two ledgers for the expiry |
| `reward_handoff` | Is a former admin powerless? | Three keys, so that a handoff can go on, or back; one id; amounts on both sides of the hundred-rupee boundary |
| `system_rewards` | Is the STAR a payment claims backed by one reward; is supply accounted for? | Two payments that share one reward id, a cap that one reward reaches, every right and link the nested call needs taken away and given back. `RegistryCalm` leaves out pauses, suspended and rejected merchants and records that only rename the keys, since what they stop is stopped by the links and rights already |
| `system_live` | Does a settled payment end? | As `system_rewards` with one payment; the reward engine may be paused, unlinked or without rights, for good |
| `processor_races` | Two cron runs, a request, the payer cancelling on the contract, late calls, a failed statement: is nothing stranded, and does the last run on a fetched transaction leave it ended? | Two runs are the least at which two overlap; `RaceBounds` allows one late call at a time, one failed statement in place of the request, and leaves the reward row's delay, a late mint and the poller to the next run. `LastRunEnds` allows one failed statement because two, with the event numbers that overlapping runs take from each other, do strand the transaction: TLC finds that behaviour when the property allows it |
| `processor_faults` | Does the back end implement `TransferPromise` (money after the contract, rupees and STAR after settlement), is money sent once, or again only for a lost answer, is the row never ahead, does the settlement agree with the payout, does a transaction that was fetched end, with any call failing, an overload, failing statements, a crash, a request and the poller? | One run at a time, since what two do to each other is the run above. `LossBound = 2`: two answers of the Stellar network are lost. `FaultBounds` spreads three misfortunes (failed statements, a crash, a request), or one of them and a lost answer, or two lost answers: it takes a fourth failure to strand a transaction (one in the catch block of each of three attempts and one in the last resort); no fair step has to add one, so the constraint cuts no behaviour short that stays within them |
| `platform` | The components around the pipeline, each in behaviours of its own (table below) | see below |
| `processor_repository` | Does a transaction complete with the contract of this repository? | *Violation*: nothing fails, no requests |
| `processor_late_cancel` | Is only a created transaction cancelled? | *Violation*: one run, one request, nothing fails |
| `deleted_login` | Is a deletion permanent? | *Violation*: one user, one wallet, one login |
| `pages_show_lists` | Does a page show the list it asked the SDK for? | *Violation*: three rows, pages of one; a list of one row is enough |

The run `platform`, by subject:

| Subject | Property | Bounds |
|---|---|---|
| `MerchantRegistry` | `RejectionIsFinal` | one merchant, three keys that can be admin and owner at once |
| `Intake` | `LateRequestsRepeat` | four requests with one key: two overlap, one dies, one is late |
| `StellarSubmit` | `SubmitsPay` | two calls, two lost requests or answers, four attempts each, the breaker at five failures: the code's numbers |
| `Caches` | `FreshWhenUsed` | two calls of each cache, rates that live 2 ticks, tokens of 3 with a buffer of 1, four ticks: a value expires and its successor is used |
| `Account` | `StaleNeverGetsIn` | one user, one wallet, one nonce, two requests (two logins, a login and a refresh, two refreshes) beside administrators |
| `Roles` | `StaleRoleExpires` | one device, a token of 3 ticks, the four roles of the schema |
| `Wallets` | `PrimaryIsOne` | two addresses, two requests that make one primary, every other request beside them |
| `Session` | `WalletOwnsTokens`, `RedirectsSettle` | two people |
| `Kyc` | `VerifiedByProvider`, `PendingIsLeft` | two verifications; two verdicts, or one and one question of `AuthGate`, or two questions (`KycBound`); webhooks in any order and again |
| `Ramps` | `LoopsBounded`, `CompletedShown` | two pages one after the other, a deposit and a withdrawal (`DepositFirst`: they leave nothing to each other but loops of their own), loops of three requests instead of 60, an anchor that takes a tick of five seconds per answer on average (`Latency = 1`), one refusal. A loop then lives up to five ticks, a page begins a new one every three, so two overlap and one ends by itself |
| `Merchants` | `ChainFollowsReview` | two reviewers, two polls instead of forty |
| `Onboarding` | `ReceivedIsStored` | three submissions |
| `Referrals` | `RewardedForAFriend` | the inviter and two friends, two purchases of whomever (up to the symmetry of friends) |
| `Browse` | `WalkIsWhole` | three rows, pages of one: two page boundaries, back and forth, every resource, an administrator and one other role (only the administrator's matters to a list) |
| `Reports` | `ReportsAgree` | two payments, one of them before the window of thirty days, in another year and in an asset the revenue does not name; two rewards, one of a payment and a campaign and one of neither; in every combination of statuses |
| `PayPage` | `PayeeIsVpa` | two addresses of which one is approved, three scans |
| `Receipt` | `EndIsShown` | two writes of the processor, two failed loads |
| `Aml` | `VerdictsAgree` | ten addresses whose 16-bit hashes hit every divisor the mock asks for, and overflow; scores on both sides of every limit |
| `Seed` | `SeedRunsAgain` | two processes, two starts, one demonstration payment |

What the properties are about, beyond the tables: each is stated in a comment above
its definition with the lines it concerns. Every bound is a constant of a
configuration. The processor's and the platform's configurations do not check for
deadlock because these really stop: a transaction that ended, with its settlement
decided, has no further step, nor has a page that was left.

Fairness.

* `ContractSystem!OperatorFairness`: strong fairness of the reward call and of the
  completion call of each payment, by *any* enabled operator. The property assumes
  in addition that the engine is again and again unpaused with some enabled operator.
  Strong, because an admin may pause and unpause for ever, and an operator who retries
  gets through. Nothing is assumed of the reward engine, the token or their admins:
  that is the point of `try_issue_spend_reward`.
* `TransactionProcessor!FairSpec`: weak fairness of the work of each run (the event
  loop resumes every pending continuation; every awaited call has a timeout) and of
  claiming (the cron fires every five seconds). None of requests, of the poller, of
  the provider or of late calls. `Reliable = FALSE` lets every external call fail every
  time.
* `Ramps`: weak fairness of `Tick` (timers fire) and of the anchor's answers; none of the user, nor of the
  anchor reaching a terminal status: `CompletedShown` assumes it. Nothing in the code bounds how long an
  answer takes (`fetch` has no timeout): `Latency` does. With `Latency = 2` the
  anchor may take more than the ten seconds the page listens, and `CompletedShown` fails (section 6).
* `Kyc`: weak fairness of the page's poll and of showing its answer (an interval timer
  and React's rendering); none of the provider, of webhooks, or of `AuthGate`'s query.
* `Session`: weak fairness of `Redirect` (the router carries out a `replace()`).
* `Receipt`: weak fairness of the page's own steps (the interval timer, and requests that
  are answered or fail); none of the processor or of the user.

## 5. The proofs

TLAPS proves for every value of the constants what the runs check on small ones; some
theorems (types, `PauseHolds`, `FreezeHolds`, `RewardsNeverChange`, `KeysStaySeparate`,
`SupplyStaysBounded`, `CreationNeedsApproval`, and the safety parts of liveness properties below) have no run of their own, because the proof says more.
The assumptions are the `ASSUME`s of the modules: which sets contain which, that the
`No...` values are not members, that amounts are integers, and, where balances and rewards are
added up, that addresses and reward ids are finite in number (they are 32 bytes long); nothing bounds how many keys,
payments, merchants, rewards or amounts there are.

| Module | Theorems | Argument |
|---|---|---|
| `PaymentEngineProofs` | `TypeCorrect`, `RecordsAgree`, `PauseHolds`, `EngineKeepsPromise`, `FormerAdminsMoveNoPayment` | `IInv == TypeOK /\ RecordMatchesStatus` is inductive: a transition only reads the record's status, and what the new status demands is what the old one did. The **refinement** needs it: `Converted` maps to "committed", which the promise allows only for a priced payment, and being priced is the invariant of `Quoted`. Every step of the engine is a step of one payment of the promise, or a stutter (configuration, `Converted` to `Settled`, a reward of 0). For former admins `AuditInv` adds `Powerless`: no former key is admin or operator; a step by `s` that moves a payment needs `operator[s]`, or is a cancellation |
| `StarTokenProofs` | `TypeCorrect`, `SupplyStaysBounded`, `SupplyIsConserved`, `PauseHolds`, `FreezeHolds`, `DebitsAreSigned`, `FormerAdminsMintNothing` | Types and bounds are inductive together. **Conservation** rests on `SumMoves`: adding `d` at one element adds `d` to the sum. A transfer is two such moves, one after the other, so that one to oneself is no special case. Freeze and debits go by cases on the route by which a balance changes: mint, burn, fee, transfer, and the two that spend an allowance |
| `RewardEngineProofs` | `TypeCorrect`, `RewardsNeverChange`, `SplittingEarnsNoMore`, `FormerAdminsIssueNothing` | A reward is only stored under an id whose amount is 0, with an amount above 0. `SplittingEarnsNoMore` is arithmetic about `SpendReward`: rounding down twice loses at least as much as once |
| `MerchantRegistryProofs` | `TypeCorrect`, `RejectionsAreFinal`, `KeysStaySeparate` | By cases on the call; no ruling starts from `Rejected` |
| `ContractSystemProofs` | `RewardsAreBacked`, `CreationNeedsApproval`, `PaymentsBehaveAsAlone`, `RegistryBehavesAsAlone`, `RewardsBehaveAsAlone`, `TokenBehavesAsAlone`, `TypeCorrect`, `TokenBooksHold`, `HistoriesHold`, `SupplyIsAccounted`, `SettledHasAWayOut`, `SettledStaysOnCourse` | below |
| `TransactionProcessorProofs` | `TypeCorrect`, `MoneyLeavesOnceIfHeard`, `MoneyAlwaysFollows`, `RowNeverAhead`, `SettlementAlwaysMatches`, `NothingEverStranded`, `LastRunAlwaysEnds`, `RunsRunOut`, `TransfersKeepPromise` | below |
| `PlatformProofs` | of the requests `LateRequestsAlwaysRepeat`, `ReceivedAlwaysStored`, `VerifiedAlwaysByProvider`, `AlwaysRewardedForAFriend`, `ChainAlwaysFollowsReview`, `PayeeAlwaysIsVpa`, `AlwaysFreshWhenUsed`, `LoopsStayBounded`, `SeedAlwaysRunsAgain`, `PaymentsAsTheySay`, `FewCallsPay`; of access `StaleNeverEverGetsIn`, `StaleRolesExpire`, `WalletAlwaysOwnsTokens`, `PrimaryStaysOne`, `WalksAlwaysWhole`; of reports and screenings `ReportsAlwaysAgree`, `VerdictsAlwaysAgree`; of liveness `PendingAlwaysNews`, `PollingAlwaysGoesOn`, `RedirectsAlwaysRest`, `ShownAlwaysAsked`; of all together `EachBehavesAlone`, `PlatformTyped`, `PlatformStaysSafe`, `PlatformSubmitsPay` | below |

**The contracts together.** `RewardBacked` relates two contracts and is not inductive alone. With the
types of the two tables and `RewardNamed` (a stored payment names a reward id) it is: a
payment that has STAR names an id that has a reward (`BackedHasReward`), so no later reward
can be stored under it, and nothing but `issue_reward` changes a payment's STAR, amount,
payer or reward id. `StoringIsCreating` shows that only `create_payment` makes an absent
payment present.

Each contract within the system implements *the same contract alone*, the module
that was proved about: `PaymentsAlone`, `RegistryAlone`, `RewardsAlone` and `TokenAlone` are
instances of the contracts' proof modules. For the reward engine and the token, which other contracts
call, every address is a signer and every integer an amount there, since a contract is a caller like any. A step of the system is a
step of each contract or a stutter. So the theorems of the contracts hold in
the composition (`TypeCorrect`, `TokenBooksHold`, `HistoriesHold`): calls between the
contracts give a caller nothing it could not do by itself. `SupplyIsAccounted` then needs one
more fact, that `issue_reward`, a referral and a campaign store a record under an id whose amount
was 0 and mint that amount in the same step.

**The processor.** `create_payment` is accepted once, so at most one run is ever between it
and the end of its `try` block: the *owner* (`OneOwner`). Where the owner stands fixes the contract's status, how
much money left (payments, but for those whose answer was lost: the owner's tries are the only ones) and what row and reward hold (`OwnerAgrees`); every other run stands before
`create_payment` or in a catch block and can change none of that; and while there is an owner no
call that was given up on can move the contract, except a late `create`, which is refused
(`OwnerCallsAlone`). That invariant, with the types and the results, is inductive for any number of
runs, faults, crashes and requests and for any set of callable calls; the money and row properties are conjuncts of it. `NothingEverStranded` adds
`CarriedOn`: without faults, a transaction in the middle of the pipeline has a run
that still has its last status to write, because a run that fetched the row
as claimed did so while the claim was `fresh`. `LastRunAlwaysEnds` is the same question with one
failed statement: a run *holds* the transaction as long as one more failure does not keep it from
writing an end (`Holds`: before its last status it will get to a catch block, and in the catch block to
another attempt or to the last resort), and once a run has begun, the row is ended or some run
holds (`Kept`). The **refinement** of `TransferPromise` adds `LateCalls`
(a late `settle` or mint is owed to a payment that was made) and goes by what the promise
sees of a step: one contract call, one transfer, or nothing (`WorldStep`).

**Liveness, as far as the prover goes.** It knows neither fairness under quantifiers nor `ENABLED`, so a
liveness property is taken apart: what must be true in every state or step is proved, and
what is left is the fairness that section 4 lists and a short argument by hand; TLC checks the whole.

* `SettledPaymentsEnd`: `SettledHasAWayOut` gives the next state of `issue_reward` variable by variable, for
  a settled payment and an enabled operator, whether the reward succeeds or not: each guard of the
  nested calls follows from `RewardSucceeds`. `SettledStaysOnCourse`: from Settled there is no other way than
  Rewarded or Failed, and then Completed or Failed, for good. Strong fairness of the two calls does the rest.
* `EveryFetchedEnds`: `RunsRunOut` gives a run a natural number, of attempts, entries and parts of an entry it
  has left (`Left`), and with it the answers that can still be lost (`Remaining`), that every step and every failure of its own lowers and nobody else raises. So a run that weak
  fairness carries on is done some time, and `LastRunAlwaysEnds` says how it then leaves the row.
* `PendingIsLeft`: `PendingIsNews`. A page that shows PENDING compares what it gets with what it got last, so a
  change that came and went must not leave it with an answer that equals the row. The argument
  (`KycPageInv`) is that references only move on: as long as `AuthGate` has not changed what is shown, the page's last
  answer is PENDING or about an older verification than the row's. Once it has, this is no invariant of the
  code (section 6), and `PendingIsLeft` has as a precondition what is left of it: the page's last answer about this
  verification, if it has one, was PENDING.
* `CompletedShown`: `PollingGoesOn`. The polling page has its timer running or awaits a loop that the server
  is in, in step with it; so with `Tick` alone another answer comes.
* `RedirectsSettle`: `RedirectRests`. A redirect leads where no further one starts, except from the splash page.
* `EndIsShown`: `ShownIsAsked`. The page waits to ask again only with an active status, and stops only with an end.

**The components side by side.** A step of `Platform` is a step of one component, and a stutter of the
others (`StepOfEach`), so each of its behaviours is a behaviour of each component
(`EachBehavesAlone`), and the theorems above hold of the whole (`PlatformStaysSafe`, `PlatformSubmitsPay`). The types of
all of them are conjuncts of one inductive invariant (`PlatformInv`, `PlatformTyped`).

**Requests.** Each invariant says what a request under way has read and why that still
holds, or no longer matters, when it writes.

* Reviews: a request past the write of the row, and every call on its way, is
  `Recorded` in the row, which never forgets (`RowAfterRecords`), so whenever a call lands
  the row knows of it (`LedgeredFollows`).
* Referrals: who reads a purchase to qualify with found its payer invited, the inviter
  is never invited, and acceptances do not touch `first`.
* Pay page: until lookups of two addresses overlap, all under way agree with the page.
* Caches: live rates are no older than their age says (`AgeIsHonest`), although fetches overwrite
  each other in any order.
* Ramps: the loops of one page are three ticks apart, and the age of the youngest follows the
  client's timers (`LoopsSpaced`). Divided by three, the ages of a page's loops differ, so there
  are at most a third as many as a loop has ages (`SpacedIsFew`). How old a loop gets depends on the
  anchor: it sleeps between its requests and awaits each, `Latency` ticks on average (`LoopsOnTime`). With the
  code's 60 requests, 20 loops when the anchor answers at once, 40 when it takes five seconds, and no number at
  all if it need not answer.
* Seed: what a runner is past is there (`PastIsThere`), every row has the rows it refers to
  and belongs with (`RowsClosed`), and nobody writes beside a runner that is `alone` (`AloneIsTrue`).
* Payments: a payment beyond the one a call answers for is one whose answer was lost
  (`LossesPay`); this is for any number of calls. On a network that loses nothing the ledger's
  sequence number counts the calls that are through (`CallsInStep`), so an attempt fails only because
  another call got through since the one before, and the first call through was never
  rejected: three calls make at most four rejections, one less than opens the breaker. With four calls TLC finds
  the breaker open, so `FewCalls` is not a convenience but the limit of the property.

**Access.**

* Logins: who is past the deletion of a nonce has spent it (`NoncesSpent`), and a nonce never comes back,
  so who begins after a login that got in finds it gone (`LateHasFailed`). Refreshes: `deletedAt` is never cleared,
  so who begins after a deletion finds it set, even if a login has made the account active again (`ClosedHasFailed`).
* Roles: `held` of a token's role is at most the token's age, which `SignTokens` starts
  at 0 because what was read was held in the same tick.
* Wallets: two writers have seen disjoint rows (`WritersApart`, the row locks), and a
  request sees every row that is primary or would become it by a rollback (`AllSeen`, until
  `unseen`); so whoever writes has cleared all there was.
* Lists: until a row leaves the list, a row of the start with fewer rows `Above` it than the
  walk has `Passed` was seen, or is on the page that is under way (`WalkSteady`); rows that
  arrive only push others down, to pages that are still to come.

**Reports and screenings.**

* The balance: the minted rewards that the first statement read and the pending ones that the
  second read are different ones, because none of the first is pending (`ReadsAre`) and nothing that
  was issued becomes pending again; both are among all that the third reads.
* The other reports take the same tables apart in different ways: by day, month, asset, reason and
  campaign. `GroupsAddUp` says that the sums of the groups add up to the whole
  whatever the key, `GroupedSum` and `GroupedCount` give it for a report's amounts and counts. What one report leaves out
  and another counts becomes an inequality: the revenue is of thirty days, the dashboard's volume of all time, a
  merchant's analytics of payments of any status. The reports are compared as read at one moment, with exact
  sums; rows' facts (`Bill`, `Award`) are constants, so the theorem is for any of them.
* The hash: cutting to `HashBits` bits changes a number by a multiple of `2^HashBits` (`Same`), so
  after every character the hash and the number it stands for, which is never cut, differ by a
  multiple (`CharacterKeepsSame`), and the last cut makes them the same (`SameIsCut`). That
  neither depends on the width nor on where it overflows. The verdict's parts follow from what `AmlInv` keeps of
  the request it answers.

**Sums, and what is computed step by step.** The library's induction theorems take an operator as a parameter, which no
backend here can instantiate. `SmallestSubset` (`SumTheorems`) replaces them: of the subsets of a finite set
at which a statement fails, if there are any, one is smallest, and that is contradicted by taking
one element away. In this way a sum does not depend on the order of summing (`SumRemove`), moves
with one element (`SumMoves`), adds up over parts and groups (`SumOfParts`, `SumOfGroups`), and grows with the set
(`SumGrows`); `LibrarySum` says that it is the library's `MapThenSumSet`. For a recursive function on
`0 .. n`, `ComputesExists` shows that there is one, so that the definition means what it
says. (`Aml` defines the hash by such a function and not by a fold for that reason.)

**What stays with TLC.**

* Liveness: `SettledPaymentsEnd`, `EveryFetchedEnds`, `CompletedShown`, `PendingIsLeft`,
  `RedirectsSettle`, `EndIsShown`. What is proved towards each is said above; the step from
  there through fairness and `ENABLED` is TLC's.
* Four and more concurrent calls of `submitPayment` on a network that loses nothing (false, as said above).

The prover misreads `@` inside a nested `EXCEPT` (`[f EXCEPT ![a] = [@ EXCEPT !.b = @ + 1]]`: the
inner `@` should be the field); where a module is proved about, the inner value is spelled out.

## 6. What the code does not promise

Four runs are expected to fail, since they state what the repository says and the code does not do:

* `processor_repository`: every transaction fails at its quote, because the calls omit
  the operator argument of the repository's contract. Even if they did not,
  `complete_payment` starts from `Rewarded` and nothing in the API calls `issue_reward`.
* `processor_late_cancel`: a cancellation that was checked before the claim is written
  after it, so the row says `CANCELLED` while the payment goes on.
* `deleted_login`: `walletLogin` looks a wallet up and then sets its user, and the wallet, to
  `ACTIVE` (`auth.service.ts:210`), whatever they were: a login brings a deleted
  account back. The trust page says that deletion cannot be undone.
* `pages_show_lists`: `ApiClient.request` (`packages/sdk/src/core/ApiClient.ts:100-101`) hands on
  the `data` of every answer that has any, so a list arrives without the `meta` and `data`
  that `packages/types/src/api.ts:8-18` promises, and every page that reads them shows no row.

Observed while modelling, without a run of their own.

Contracts and processor:

* `create_payment` takes no signature of the payer, only the operator's
  (`payment-engine/src/lib.rs:339`); `docs/soroban-architecture.md:67` lists one.
* A former admin of the token is frozen as an *account* but still spends, as
  spender, an allowance that was given to it before (`star-token/src/lib.rs:170-173`).
* The catch block writes `FAILED` over a row whatever happened before, so after the last
  status was written an error in what follows (confirming the settlement, the admin log) turns `COMPLETED`
  into `FAILED`; `transactions.service.ts:282` refuses that to users.
* A second cron run fetches what the first one claimed less than six seconds
  ago; `transaction-processor.service.ts:22-23` says claims prevent it. What saves the
  money is that the contract takes a payment id once (`PaidOnceIfHeard`).
* A Stellar payment whose answer is lost is paid again: the retry policy (`stellar.service.ts:46-76`,
  up to four tries) builds a new payment, with the sequence number of the moment, for every try, and nothing looks
  for the one before. So the same USDC can leave once more for each lost answer, which
  `PaidOnceIfHeard` allows, and a payment may land after the transaction was marked `FAILED`.
* The last step sets the settlement to `CONFIRMED` without asking the provider, though
  the message of `transaction-processor.service.ts:194` leaves that to the poller; the
  poller may set it to `FAILED` before.
* An exception in a transaction's attempt is caught inside `processTransaction`, so the three attempts of
  its caller run only if the catch block itself throws.
* With four concurrent `submitPayment` calls instead of two, calls that overtake each
  other use up all attempts of one and open the breaker for all: five `tx_bad_seq` in a row count as five
  failures. The second conjunct of `SubmitsPay` holds up to three calls (`FewCallsPay`) and fails for four.

API:

* Idempotency: requests with one key that overlap each create a transaction, and all but
  the first answer with one that is not the stored one.
* Quotes: `expiresAt` is never enforced; a CoinGecko answer without prices caches static
  estimates for 60 s; stale rates are served while fetches fail. The payout token's expiry
  is counted from the arrival of the answer; the buffer of 60 s covers it.
* Two logins that overlap both get in on one nonce: `walletLogin` gets it (`auth.service.ts:115`) and deletes it
  after (`:122`), whose comment speaks of preventing replay. Two overlapping refreshes of one token both get tokens too.
* `refresh` does not look at the user's status; refresh tokens that agree in their first 72
  bytes are the same to bcrypt.
* Merchants: `approve`, `reject` and `suspend` of `merchants.service.ts` change only the
  database, those of `admin.service.ts` both. The owner that is passed to
  `registerMerchant` is a user's UUID, which is not an address, so registration throws and
  "admin can retry" (`admin.service.ts:136`) does not help. The `reason` of the admin
  buttons is refused with 400, as the DTO has no such field (`main.ts:47-51`);
  so are the fields of the QR page and `legalName` of the profile page.
* `POST /merchants` needs the role MERCHANT_OPERATOR, so a consumer's onboarding is refused
  with 403 unless an administrator changes the role first.
* Referrals: the page shows `users.referralCode` while `accept` looks up `referrals.code`;
  `/referrals/stats` does not exist; racing accepts overwrite each other, and an accept beside a
  `reward` can leave a rewarded referral with an invitee who never paid (the reward
  was still earned by one who did: `RewardedForAFriend`); `mint` sets any status, `REVERSED` too, to
  `MINTED`, and mints nothing; that a qualifying payment is the *first* is not checked.
* KYC: a webhook that arrives late overwrites a newer verdict; `VerifiedByProvider` is
  what remains true. `AuthGate` (`Providers.tsx:50-58`) writes the status of its own query into the same store field as the
  page: an answer PENDING that is shown after the page's VERIFIED stays for good, because the page's
  next answers equal its last one and the effect of `kyc/page.tsx:22-24` does not run again, although the page
  says that it "updates automatically".
* Ramps: after its timeout `getTransactionStatus` answers with 'unknown', not with the last known status
  that the comment of `ramps.service.ts:299` promises (an inner `result` shadows the outer one);
  failed statuses are polled for ever; an
  anchor that takes more than ten seconds to answer is never heard by the page, whose client gives up before, and as nothing
  bounds its answers nothing bounds the loops that wait for them; the step "sign" of the withdrawal page is not
  reached, so a withdrawal is never signed; the SEP-10 challenge is signed with the platform's key.
* Wallets: two wallets can be primary when one is created, or made primary, beside a
  request whose `updateMany` began before the row was there (`unseen`); the
  processor takes one of them, in no order. `update` may make a `DISCONNECTED` wallet primary.
* Lists: the interceptor copies `page` from the request's query before the validation pipe
  has made a number of it, so `meta.page` is text. `/history` would go on from page "1" to
  "11" (`history/page.tsx:42`) if the SDK let it see a `meta`.
  `RolesGuard` keeps MERCHANT_OPERATOR out of `GET /transactions`, although `accessWhere`
  provides for merchants' owners.
* Reports: `getRewardMetrics` adds every SPEND reward to its distribution as "Direct Spend Bonus", though the comment of
  `analytics.service.ts:162` excludes those tied to campaigns, so these are in it twice (`RewardMetrics` has the campaigns
  only); the dashboard's minted stars are everybody's even when a merchant is named, while `getRewardMetrics` filters by the merchant
  (`:10-31`, `:110-121`); the revenue is of the last thirty days and the dashboard's volume of all time, under one
  name; its series names payments in USDC and XLM only (`:84-88`), while the schema has six assets; the tax report counts
  rewards of any status.
* AML: a provider that fails is replaced by the mock without a sign; the mock's sanctions score is 0
  or 50; the admin page reads `isHighRisk` and `score`, which the API does not return, so it
  always says "Low Risk (Clear)" (`headline`).

Pages:

* Pay: "Pay Now" is disabled because nothing calls `setAppUnlocked`, and its request goes to
  `/transactions/new/simulate`, which the API does not have: nothing after `CONFIRM` can
  happen. Overlapping lookups of two addresses mix payee, merchant and badge (`mixed`); a late answer pulls the page back
  to `MERCHANT_FOUND`; the amount of an earlier code stays. The module takes it that an address has at
  most one merchant; `findByUpiVpa` (`merchants.service.ts:197-208`) takes the first of those
  whose default address or any QR code, active or not, has it, in no order.
* Receipt: offers to cancel what is QUOTED or AUTHORIZED, which the API refuses; stops polling
  at `COMPLETED`, which the catch block may overwrite; a first load that fails
  twice says "not found" for good.
* Session: the KYC status and the cached answer of "kyc-status" survive a logout, and gate the next user until
  the server answers (`Providers.tsx:66-72`); the answer to a deletion ends whatever session there is by then.
* `MerchantStatus.tsx` compares the contract's status with names the contract does not return.

## 7. What is left out

* Storage lifetimes and archival, events and views of the contracts.
* `fail_payment` on the contract: nothing in the API calls it; an operator's own call
  is in `PaymentEngine`, not in `TransactionProcessor`.
* Code nothing calls: `issueRewardOnChain` and the lifetime helpers of the Soroban client,
  `screenWallets`, the pay page after its confirmation, the paginator of `packages/ui`.
* Single statements without a rule that relates them to anything: QR codes, campaign creation and update, profile
  fields, the export of a user's data, the admin log.
* Cryptography (signatures, JWT, bcrypt, TOTP) is a guard that holds or not.
* Locks: a statement that updates several rows takes all its row locks in one step
  (`Wallets`), so a deadlock between two such statements is one of the failures of `RollBack`.
* In `Roles` a request takes less than a tick, and a token lives a day: a login that hangs for
  a day is excluded. In `Seed` nobody else uses the unique values of the demonstration rows.
* In `Kyc`, one visit to the page: what the next page shows is `Session`'s.
* Presentation: the other pages of the web and admin apps show the answer of one request; the SDK
  is one call per method, and its retries and 401 handling are in `Ramps` and `Session`.

## 8. Plan

Done: the contracts and their composition; the processor with its environment, and the
promise it implements; the platform's components one by one and side by side; proofs about every
safety property of the runs, about both refinements of an abstract specification, and
about the safety part of every liveness property (section 5).

Next, in this order:

1. Abstract specifications of refresh tokens (a family of which one is current) and of
   the idempotency key (one answer per key), with what the code lacks to implement them.
2. The processor with two transactions, if the code should come to relate them (a limit, a batch).

------------------------------ MODULE StarToken ------------------------------
(***************************************************************************)
(* contracts/star-token: the STAR loyalty token.  Balances and a capped    *)
(* supply, allowances that expire at a ledger number, a freeze list, minter*)
(* roles, a fee that burns, and the admin that configures all of it.       *)
(*                                                                         *)
(* Amounts are i128 in the code and every sum and product is checked, so   *)
(* an overflow is one more failing call: IntMax is the largest i128.       *)
(***************************************************************************)
EXTENDS Integers, FiniteSetsExt

CONSTANTS Address,        \* accounts and contracts
          Signer,         \* the addresses that can sign a transaction
          NoAddress,
          TokenDeployer,  \* the admin given to the constructor
          MaxSupply,      \* max_supply given to the constructor
          IntMax,
          TokenAmount,    \* amounts a caller may send
          BasisPoint,     \* fee_basis_points an admin may send
          Spender,        \* the addresses that are ever approved
          LedgerBound     \* the ledger sequence number stops here

ASSUME TokenAddressAssumption ==
  /\ NoAddress \notin Address
  /\ TokenDeployer \in Signer
  /\ Signer \subseteq Address
  /\ Spender \subseteq Address

ASSUME TokenAmountAssumption ==
  /\ IntMax \in Nat
  /\ MaxSupply \in 1..IntMax        \* the constructor rejects max_supply <= 0
  /\ TokenAmount \subseteq Int
  /\ BasisPoint \subseteq Nat
  /\ LedgerBound \in Nat

\* An address is a key of 32 bytes.
ASSUME TokenFiniteAssumption == IsFiniteSet(Address)

VARIABLES admin, pendingAdmin, paused,
          minter,         \* DataKey::Minter(address)
          authorized,     \* DataKey::Authorized(address), absent means TRUE
          balance,        \* DataKey::Balance(address)
          supply,         \* DataKey::TotalSupply
          allowance,      \* DataKey::Allowance(from, spender)
          feeBurn,        \* DataKey::FeeBurnConfig
          ledger          \* the ledger sequence number

Gov == INSTANCE ContractAdmin

govVars == <<admin, pendingAdmin, paused>>
roleVars == <<minter, authorized>>
coinVars == <<balance, supply>>
vars == <<admin, pendingAdmin, paused, minter, authorized, balance, supply,
          allowance, feeBurn, ledger>>

Allowance == [amount : Nat, expires : Int]

TypeOK ==
  /\ admin \in Address
  /\ pendingAdmin \in Address \cup {NoAddress}
  /\ paused \in BOOLEAN
  /\ minter \in [Address -> BOOLEAN]
  /\ authorized \in [Address -> BOOLEAN]
  /\ balance \in [Address -> Int]
  /\ supply \in Int
  /\ allowance \in [Address \X Address -> Allowance]
  /\ feeBurn \in [enabled : BOOLEAN, bps : Nat]
  /\ ledger \in Nat

Init ==
  /\ Gov!GovInit(TokenDeployer)
  /\ minter = [a \in Address |-> a = TokenDeployer]
  /\ authorized = [a \in Address |-> TRUE]
  /\ balance = [a \in Address |-> 0]
  /\ supply = 0
  /\ allowance = [k \in Address \X Address |-> [amount |-> 0, expires |-> 0]]
  /\ feeBurn = [enabled |-> FALSE, bps |-> 0]
  /\ ledger = 0

-----------------------------------------------------------------------------
(* Configuration.                                                          *)

SetAdmin(caller, newAdmin) ==
  /\ Gov!ProposeAdmin(caller, newAdmin)
  /\ UNCHANGED <<roleVars, coinVars, allowance, feeBurn, ledger>>

\* Mutant: the outgoing admin is frozen but stays a minter.
AcceptAdminKeepingMinter(caller) ==
  /\ Gov!ClaimAdmin(caller)
  /\ minter' = [minter EXCEPT ![pendingAdmin] = TRUE]
  /\ authorized' = Gov!HandOver(authorized, admin, pendingAdmin)
  /\ UNCHANGED <<coinVars, allowance, feeBurn, ledger>>

\* The outgoing admin loses the minter role and is frozen.
AcceptAdmin(caller) ==
  /\ Gov!ClaimAdmin(caller)
  /\ minter' = Gov!HandOver(minter, admin, pendingAdmin)
  /\ authorized' = Gov!HandOver(authorized, admin, pendingAdmin)
  /\ UNCHANGED <<coinVars, allowance, feeBurn, ledger>>

Pause(caller) ==
  /\ Gov!SetPaused(caller, TRUE)
  /\ UNCHANGED <<roleVars, coinVars, allowance, feeBurn, ledger>>

Unpause(caller) ==
  /\ Gov!SetPaused(caller, FALSE)
  /\ UNCHANGED <<roleVars, coinVars, allowance, feeBurn, ledger>>

SetFeeBurnConfig(caller, enabled, bps) ==
  /\ Gov!ConfiguredBy(caller)
  /\ bps <= 10000
  /\ feeBurn' = [enabled |-> enabled, bps |-> bps]
  /\ UNCHANGED <<govVars, roleVars, coinVars, allowance, ledger>>

\* Naming a minter also takes it off the freeze list; removing one leaves
\* the freeze list alone.
SetMinter(caller, who, enabled) ==
  /\ Gov!ConfiguredBy(caller)
  /\ minter' = [minter EXCEPT ![who] = enabled]
  /\ authorized' = IF enabled THEN [authorized EXCEPT ![who] = TRUE] ELSE authorized
  /\ UNCHANGED <<govVars, coinVars, allowance, feeBurn, ledger>>

SetAuthorized(caller, who, authorize) ==
  /\ Gov!ConfiguredBy(caller)
  /\ authorized' = [authorized EXCEPT ![who] = authorize]
  /\ UNCHANGED <<govVars, minter, coinVars, allowance, feeBurn, ledger>>

-----------------------------------------------------------------------------
(* Creating and destroying STAR.                                           *)

\* The checks mint and mint_from_minter have in common.
Mintable(to, amount) ==
  /\ ~paused
  /\ amount > 0
  /\ authorized[to]
  /\ supply + amount <= MaxSupply

MintEffect(to, amount) ==
  /\ balance' = [balance EXCEPT ![to] = @ + amount]
  /\ supply' = supply + amount
  /\ UNCHANGED <<govVars, roleVars, allowance, feeBurn, ledger>>

Mint(caller, to, amount) ==
  /\ Mintable(to, amount)
  /\ caller = admin
  /\ MintEffect(to, amount)

\* minter is the caller: an account that signs, or a contract that calls.
MintFromMinter(who, to, amount) ==
  /\ Mintable(to, amount)
  /\ minter[who]
  /\ MintEffect(to, amount)

\* burn_internal: sub_balance, then the supply.
BurnInternal(from, amount) ==
  /\ amount > 0
  /\ authorized[from]
  /\ balance[from] >= amount
  /\ balance' = [balance EXCEPT ![from] = @ - amount]
  /\ supply' = supply - amount

Burn(from, amount) ==
  /\ ~paused
  /\ BurnInternal(from, amount)
  /\ UNCHANGED <<govVars, roleVars, allowance, feeBurn, ledger>>

FeeOn(amount) == (amount * feeBurn.bps) \div 10000

\* A fee that rounds to 0, or a disabled fee, burns nothing and succeeds.
BurnFee(from, amount) ==
  /\ ~paused
  /\ amount > 0
  /\ feeBurn.enabled
  /\ amount * feeBurn.bps <= IntMax
  /\ BurnInternal(from, FeeOn(amount))
  /\ UNCHANGED <<govVars, roleVars, allowance, feeBurn, ledger>>

-----------------------------------------------------------------------------
(* Moving STAR.                                                            *)

\* Mutant: both balances are read before either is written.
TransferInternalFromOldReads(from, to, amount) ==
  /\ amount > 0
  /\ authorized[from] /\ authorized[to]
  /\ balance[from] >= amount
  /\ balance' = [balance EXCEPT ![from] = balance[from] - amount,
                                ![to] = balance[to] + amount]
  /\ UNCHANGED supply

\* sub_balance writes before add_balance reads, so a transfer to oneself
\* leaves the balance as it was.
TransferInternal(from, to, amount) ==
  /\ amount > 0
  /\ authorized[from] /\ authorized[to]
  /\ balance[from] >= amount
  /\ LET debited == [balance EXCEPT ![from] = @ - amount]
     IN  balance' = [debited EXCEPT ![to] = @ + amount]
  /\ UNCHANGED supply

Transfer(from, to, amount) ==
  /\ ~paused
  /\ TransferInternal(from, to, amount)
  /\ UNCHANGED <<govVars, roleVars, allowance, feeBurn, ledger>>

Approve(from, spender, amount, expires) ==
  /\ ~paused
  /\ amount >= 0
  /\ authorized[from] /\ authorized[spender]
  /\ amount > 0 => expires >= ledger
  /\ allowance' = [allowance EXCEPT ![<<from, spender>>] =
                     [amount |-> amount, expires |-> expires]]
  /\ UNCHANGED <<govVars, roleVars, coinVars, feeBurn, ledger>>

\* Mutants: an expired allowance is still good; only the expiry counts.
SpendAllowanceExpired(from, spender, amount) ==
  /\ amount > 0
  /\ allowance[<<from, spender>>].amount >= amount
  /\ allowance' = [allowance EXCEPT ![<<from, spender>>].amount = @ - amount]

SpendAllowanceUnlimited(from, spender, amount) ==
  /\ amount > 0
  /\ allowance[<<from, spender>>].expires >= ledger
  /\ allowance' = [allowance EXCEPT ![<<from, spender>>].amount = @ - amount]

\* spend_allowance: the stored amount goes down, the expiry stays.
SpendAllowance(from, spender, amount) ==
  /\ amount > 0
  /\ allowance[<<from, spender>>].expires >= ledger
  /\ allowance[<<from, spender>>].amount >= amount
  /\ allowance' = [allowance EXCEPT ![<<from, spender>>].amount = @ - amount]

TransferFrom(spender, from, to, amount) ==
  /\ ~paused
  /\ SpendAllowance(from, spender, amount)
  /\ TransferInternal(from, to, amount)
  /\ UNCHANGED <<govVars, roleVars, feeBurn, ledger>>

BurnFrom(spender, from, amount) ==
  /\ ~paused
  /\ SpendAllowance(from, spender, amount)
  /\ BurnInternal(from, amount)
  /\ UNCHANGED <<govVars, roleVars, feeBurn, ledger>>

\* The network closes a ledger.
CloseLedger ==
  /\ ledger < LedgerBound
  /\ ledger' = ledger + 1
  /\ UNCHANGED <<govVars, roleVars, coinVars, allowance, feeBurn>>
-----------------------------------------------------------------------------
ConfigStep(s) ==
  \/ \E a \in Address : SetAdmin(s, a)
  \/ AcceptAdmin(s)
  \/ Pause(s)
  \/ Unpause(s)
  \/ \E enabled \in BOOLEAN, bps \in BasisPoint : SetFeeBurnConfig(s, enabled, bps)
  \/ \E a \in Address, on \in BOOLEAN : SetMinter(s, a, on) \/ SetAuthorized(s, a, on)

CoinStep(s) ==
  \E n \in TokenAmount :
    \/ Burn(s, n)
    \/ BurnFee(s, n)
    \/ \E a \in Address :
         \/ Mint(s, a, n)
         \/ MintFromMinter(s, a, n)
         \/ Transfer(s, a, n)
         \/ BurnFrom(s, a, n)
         \/ \E to \in Address : TransferFrom(s, a, to, n)
    \/ \E b \in Spender, e \in 0..LedgerBound : Approve(s, b, n, e)

StepBy(s) == ConfigStep(s) \/ CoinStep(s)

Next == CloseLedger \/ \E s \in Signer : StepBy(s)

Spec == Init /\ [][Next]_vars

-----------------------------------------------------------------------------
(* Safety.                                                                 *)

(* Every STAR that exists is in exactly one balance, whatever the order of *)
(* mints, burns, fees, transfers (to oneself too) and allowances: the sum  *)
(* of the balances is total_supply.  The test invariant_supply_conservation*)
(* (star-token lib.rs:1178) asserts it for one sequence of calls.          *)
Conservation == MapThenSumSet(LAMBDA a : balance[a], Address) = supply

(* The supply never passes the cap and no balance is ever negative, so no  *)
(* burn can take the supply below zero.                                    *)
SupplyBounded ==
  /\ supply <= MaxSupply
  /\ \A a \in Address : balance[a] >= 0

(* A frozen address neither gains nor loses STAR, by any route: not as a   *)
(* recipient of a mint, nor through an allowance it gave before the freeze *)
(* (star-token lib.rs:686-694: the freeze blocks "transfer/mint/approve    *)
(* for that address").                                                     *)
FrozenKeepsBalance ==
  [][\A a \in Address : ~authorized[a] => balance'[a] = balance[a]]_vars

\* The step is a call a signed that takes STAR off its own balance; the step
\* takes what a loses off an unexpired allowance of a.
SignedBy(a) ==
  \E n \in TokenAmount, b \in Address : Burn(a, n) \/ BurnFee(a, n) \/ Transfer(a, b, n)

Allowed(a) ==
  \E s \in Address :
    /\ allowance[<<a, s>>].expires >= ledger
    /\ allowance[<<a, s>>].amount - allowance'[<<a, s>>].amount = balance[a] - balance'[a]

(* An account loses STAR only by its own signature or against allowances   *)
(* it gave: what left it in a step someone else signed was taken off one of*)
(* its unexpired allowances in the same step.                              *)
DebitIsSigned ==
  [][\A a \in Address : balance'[a] < balance[a] => SignedBy(a) \/ Allowed(a)]_vars

(* The pause switch stops every call but pause and unpause; a burned fee,  *)
(* an allowance or a transfer cannot slip through (star-token lib.rs:643). *)
PausedFreezes ==
  [][paused /\ paused' =>
       UNCHANGED <<admin, pendingAdmin, roleVars, coinVars, allowance, feeBurn>>]_vars
=============================================================================

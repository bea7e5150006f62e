--------------------------- MODULE StarTokenProofs ---------------------------
(***************************************************************************)
(* What StarToken guarantees for every set of accounts, every cap and every*)
(* amount.  TypeOK with SupplyBounded is inductive; Conservation, a sum    *)
(* over all accounts, is inductive with the types.                         *)
(***************************************************************************)
EXTENDS StarAudit, SumTheorems, TLAPS

LEMMA ConfigLeavesCoins ==
  ASSUME NEW s \in Signer, ConfigStep(s)
  PROVE  UNCHANGED <<balance, supply, allowance, ledger>>
<1>1. CASE \E a \in Address : SetAdmin(s, a)
  BY <1>1 DEF SetAdmin, coinVars
<1>2. CASE AcceptAdmin(s) \/ Pause(s) \/ Unpause(s)
  BY <1>2 DEF AcceptAdmin, Pause, Unpause, coinVars
<1>3. CASE \E on \in BOOLEAN, bps \in BasisPoint : SetFeeBurnConfig(s, on, bps)
  BY <1>3 DEF SetFeeBurnConfig, coinVars
<1>4. CASE \E a \in Address, on \in BOOLEAN : SetMinter(s, a, on) \/ SetAuthorized(s, a, on)
  BY <1>4 DEF SetMinter, SetAuthorized, coinVars
<1> QED
  BY <1>1, <1>2, <1>3, <1>4 DEF ConfigStep

LEMMA CoinLeavesRoles ==
  ASSUME NEW s \in Signer, CoinStep(s)
  PROVE  UNCHANGED <<admin, pendingAdmin, paused, minter, authorized, feeBurn, ledger>>
BY DEF CoinStep, Burn, BurnFee, Mint, MintFromMinter, MintEffect, Transfer, BurnFrom,
       TransferFrom, Approve, govVars, roleVars, coinVars

-----------------------------------------------------------------------------
LEMMA InitTyped == Init => TypeOK
<1> SUFFICES ASSUME Init PROVE TypeOK
  OBVIOUS
<1>1. admin \in Address /\ pendingAdmin \in Address \cup {NoAddress} /\ paused \in BOOLEAN
  BY TokenAddressAssumption DEF Init, Gov!GovInit
<1>2. minter \in [Address -> BOOLEAN] /\ authorized \in [Address -> BOOLEAN]
  BY DEF Init
<1>3. balance \in [Address -> Int] /\ supply \in Int /\ ledger \in Nat
  BY DEF Init
<1>4. allowance \in [Address \X Address -> Allowance]
  <2>1. [amount |-> 0, expires |-> 0] \in Allowance
    BY DEF Allowance
  <2> QED
    BY <2>1 DEF Init
<1>5. feeBurn \in [enabled : BOOLEAN, bps : Nat]
  BY DEF Init
<1> QED
  BY <1>1, <1>2, <1>3, <1>4, <1>5 DEF TypeOK

LEMMA ConfigKeepsType ==
  ASSUME TypeOK, NEW s \in Signer, ConfigStep(s)
  PROVE  TypeOK'
<1>1. UNCHANGED <<balance, supply, allowance, ledger>>
  BY ConfigLeavesCoins
<1> SUFFICES /\ admin' \in Address
             /\ pendingAdmin' \in Address \cup {NoAddress}
             /\ paused' \in BOOLEAN
             /\ minter' \in [Address -> BOOLEAN]
             /\ authorized' \in [Address -> BOOLEAN]
             /\ feeBurn' \in [enabled : BOOLEAN, bps : Nat]
  BY <1>1 DEF TypeOK
<1>2. CASE \E a \in Address : SetAdmin(s, a)
  BY <1>2 DEF TypeOK, SetAdmin, Gov!ProposeAdmin, roleVars
<1>3. CASE AcceptAdmin(s)
  BY <1>3, TokenAddressAssumption
     DEF TypeOK, AcceptAdmin, Gov!ClaimAdmin, Gov!HandOver
<1>4. CASE Pause(s) \/ Unpause(s)
  BY <1>4 DEF TypeOK, Pause, Unpause, Gov!SetPaused, roleVars
<1>5. CASE \E on \in BOOLEAN, bps \in BasisPoint : SetFeeBurnConfig(s, on, bps)
  BY <1>5, TokenAmountAssumption DEF TypeOK, SetFeeBurnConfig, govVars, roleVars
<1>6. CASE \E a \in Address, on \in BOOLEAN : SetMinter(s, a, on)
  BY <1>6 DEF TypeOK, SetMinter, govVars
<1>7. CASE \E a \in Address, on \in BOOLEAN : SetAuthorized(s, a, on)
  BY <1>7 DEF TypeOK, SetAuthorized, govVars
<1> QED
  BY <1>2, <1>3, <1>4, <1>5, <1>6, <1>7 DEF ConfigStep

-----------------------------------------------------------------------------
(* The effect of each kind of call on the coins: what it needs and does.   *)

Coins == balance \in [Address -> Int] /\ supply \in Int

LEMMA BurnIsSafe ==
  ASSUME TypeOK, NEW a \in Address, NEW n \in Int, BurnInternal(a, n), SupplyBounded
  PROVE  Coins' /\ SupplyBounded'
BY TokenAmountAssumption DEF TypeOK, BurnInternal, SupplyBounded, Coins

LEMMA MintIsSafe ==
  ASSUME TypeOK, NEW a \in Address, NEW n \in Int, Mintable(a, n), MintEffect(a, n),
         SupplyBounded
  PROVE  Coins' /\ SupplyBounded'
BY TokenAmountAssumption DEF TypeOK, Mintable, MintEffect, SupplyBounded, Coins

LEMMA TransferIsSafe ==
  ASSUME TypeOK, NEW a \in Address, NEW b \in Address, NEW n \in Int,
         TransferInternal(a, b, n), SupplyBounded
  PROVE  Coins' /\ SupplyBounded'
BY TokenAmountAssumption DEF TypeOK, TransferInternal, SupplyBounded, Coins

LEMMA SpendingKeepsAllowances ==
  ASSUME TypeOK, NEW a \in Address, NEW b \in Address, NEW n \in Int,
         SpendAllowance(a, b, n)
  PROVE  allowance' \in [Address \X Address -> Allowance]
BY DEF TypeOK, SpendAllowance, Allowance

\* A call on the coins, with the amount it was given.
CoinCall(s, n) ==
  \/ Burn(s, n)
  \/ BurnFee(s, n)
  \/ \E a \in Address :
       \/ Mint(s, a, n)
       \/ MintFromMinter(s, a, n)
       \/ Transfer(s, a, n)
       \/ BurnFrom(s, a, n)
       \/ \E to \in Address : TransferFrom(s, a, to, n)
  \/ \E b \in Spender, e \in 0..LedgerBound : Approve(s, b, n, e)

LEMMA CoinStepIsCall ==
  ASSUME NEW s \in Signer
  PROVE  CoinStep(s) <=> \E n \in TokenAmount : CoinCall(s, n)
BY DEF CoinStep, CoinCall

\* The inductive invariant.
IInv == TypeOK /\ SupplyBounded

LEMMA CoinCallKeepsCoins ==
  ASSUME IInv, NEW s \in Signer, NEW n \in TokenAmount, CoinCall(s, n)
  PROVE  /\ Coins' /\ SupplyBounded'
         /\ allowance' \in [Address \X Address -> Allowance]
<1>0. s \in Address /\ n \in Int /\ TypeOK /\ SupplyBounded
  BY TokenAddressAssumption, TokenAmountAssumption DEF IInv
<1>1. CASE Burn(s, n)
  BY <1>0, <1>1, BurnIsSafe DEF Burn, TypeOK
<1>2. CASE BurnFee(s, n)
  <2>1. FeeOn(n) \in Int
    BY <1>0 DEF TypeOK, FeeOn
  <2> QED
    BY <1>0, <1>2, <2>1, BurnIsSafe DEF BurnFee, TypeOK
<1>3. ASSUME NEW a \in Address, Mint(s, a, n) \/ MintFromMinter(s, a, n)
      PROVE  Coins' /\ SupplyBounded' /\ allowance' = allowance
  <2>1. Mintable(a, n) /\ MintEffect(a, n)
    BY <1>3 DEF Mint, MintFromMinter
  <2> QED
    BY <1>0, <2>1, MintIsSafe DEF MintEffect
<1>4. ASSUME NEW a \in Address, Transfer(s, a, n)
      PROVE  Coins' /\ SupplyBounded' /\ allowance' = allowance
  BY <1>0, <1>4, TransferIsSafe DEF Transfer
<1>5. ASSUME NEW a \in Address, BurnFrom(s, a, n)
      PROVE  /\ Coins' /\ SupplyBounded'
             /\ allowance' \in [Address \X Address -> Allowance]
  BY <1>0, <1>5, BurnIsSafe, SpendingKeepsAllowances DEF BurnFrom
<1>6. ASSUME NEW a \in Address, NEW to \in Address, TransferFrom(s, a, to, n)
      PROVE  /\ Coins' /\ SupplyBounded'
             /\ allowance' \in [Address \X Address -> Allowance]
  BY <1>0, <1>6, TransferIsSafe, SpendingKeepsAllowances DEF TransferFrom
<1>7. ASSUME NEW b \in Spender, NEW e \in 0..LedgerBound, Approve(s, b, n, e)
      PROVE  /\ Coins' /\ SupplyBounded'
             /\ allowance' \in [Address \X Address -> Allowance]
  <2>1. b \in Address /\ e \in Int /\ n \in Nat
    BY <1>0, <1>7, TokenAddressAssumption, TokenAmountAssumption DEF Approve
  <2>2. [amount |-> n, expires |-> e] \in Allowance
    BY <2>1 DEF Allowance
  <2>3. allowance' \in [Address \X Address -> Allowance]
    BY <1>0, <1>7, <2>1, <2>2 DEF Approve, TypeOK
  <2>4. UNCHANGED <<balance, supply>>
    BY <1>7 DEF Approve, coinVars
  <2> QED
    BY <1>0, <2>3, <2>4 DEF Coins, SupplyBounded, TypeOK
<1>8. allowance \in [Address \X Address -> Allowance]
  BY <1>0 DEF TypeOK
<1> QED
  BY <1>1, <1>2, <1>3, <1>4, <1>5, <1>6, <1>7, <1>8 DEF CoinCall

LEMMA CoinStepKeepsIInv ==
  ASSUME IInv, NEW s \in Signer, CoinStep(s)
  PROVE  IInv'
<1>1. PICK n \in TokenAmount : CoinCall(s, n)
  BY CoinStepIsCall
<1>2. /\ Coins' /\ SupplyBounded'
      /\ allowance' \in [Address \X Address -> Allowance]
  BY <1>1, CoinCallKeepsCoins
<1>3. UNCHANGED <<admin, pendingAdmin, paused, minter, authorized, feeBurn, ledger>>
  BY CoinLeavesRoles
<1> QED
  BY <1>2, <1>3 DEF IInv, TypeOK, Coins

LEMMA ConfigKeepsIInv ==
  ASSUME IInv, NEW s \in Signer, ConfigStep(s)
  PROVE  IInv'
BY ConfigKeepsType, ConfigLeavesCoins DEF IInv, SupplyBounded

LEMMA NextIInv == IInv /\ [Next]_vars => IInv'
<1> SUFFICES ASSUME IInv, [Next]_vars PROVE IInv'
  OBVIOUS
<1>1. CASE CloseLedger
  BY <1>1 DEF CloseLedger, IInv, TypeOK, SupplyBounded, govVars, roleVars, coinVars
<1>2. CASE \E s \in Signer : StepBy(s)
  BY <1>2, ConfigKeepsIInv, CoinStepKeepsIInv DEF StepBy
<1>3. CASE UNCHANGED vars
  BY <1>3 DEF IInv, TypeOK, SupplyBounded, vars
<1> QED
  BY <1>1, <1>2, <1>3 DEF Next

(* In every state: the types, and the supply and the balances within their *)
(* bounds (star-token lib.rs:395-560).                                     *)
THEOREM IInvHolds == Spec => []IInv
<1>1. Init => IInv
  BY InitTyped, TokenAmountAssumption DEF Init, IInv, SupplyBounded
<1>2. IInv /\ [Next]_vars => IInv'
  BY NextIInv
<1> QED
  BY <1>1, <1>2, PTL DEF Spec

(* Every stored value keeps its type; in particular no allowance becomes   *)
(* negative (star-token lib.rs:796).                                       *)
THEOREM TypeCorrect == Spec => []TypeOK
<1>1. IInv => TypeOK
  BY DEF IInv
<1> QED
  BY <1>1, IInvHolds, PTL

(* The supply stays under the cap and every balance stays at or above zero *)
(* for every cap, fee and amount (star-token lib.rs:415).                  *)
THEOREM SupplyStaysBounded == Spec => []SupplyBounded
<1>1. IInv => SupplyBounded
  BY DEF IInv
<1> QED
  BY <1>1, IInvHolds, PTL

-----------------------------------------------------------------------------
(* Every STAR is in exactly one balance.                                   *)

Conserved == SumOf(balance, Address) = supply

LEMMA ConservedIsConservation == Conservation <=> Conserved
BY LibrarySum, TokenFiniteAssumption DEF Conservation, Conserved

LEMMA MintConserves ==
  ASSUME TypeOK, Conserved, NEW a \in Address, NEW n \in Int, MintEffect(a, n)
  PROVE  Conserved'
<1>1. /\ balance' = [balance EXCEPT ![a] = @ + n] /\ supply' = supply + n
      /\ balance \in [Address -> Int]
  BY DEF MintEffect, TypeOK
<1>2. /\ balance \in [Address -> Int] /\ balance' \in [Address -> Int]
      /\ balance'[a] = balance[a] + n
      /\ \A b \in Address : b # a => balance'[b] = balance[b]
  BY <1>1
<1>3. SumOf(balance', Address) = SumOf(balance, Address) + n
  BY <1>2, SumMoves, TokenFiniteAssumption
<1> QED
  BY <1>1, <1>3 DEF Conserved

LEMMA BurnConserves ==
  ASSUME TypeOK, Conserved, NEW a \in Address, NEW n \in Int, BurnInternal(a, n)
  PROVE  Conserved'
<1>1. /\ balance' = [balance EXCEPT ![a] = @ - n] /\ supply' = supply - n
      /\ balance \in [Address -> Int] /\ supply \in Int
  BY DEF BurnInternal, TypeOK
<1>2. /\ balance \in [Address -> Int] /\ balance' \in [Address -> Int]
      /\ balance'[a] = balance[a] + (-n) /\ -n \in Int
      /\ \A b \in Address : b # a => balance'[b] = balance[b]
  BY <1>1
<1>3. SumOf(balance', Address) = SumOf(balance, Address) + (-n)
  BY <1>2, SumMoves, TokenFiniteAssumption
<1> QED
  BY <1>1, <1>3 DEF Conserved

\* Two moves of the sum, one after the other, so that a transfer to oneself
\* is no special case.
LEMMA TransferConserves ==
  ASSUME TypeOK, Conserved, NEW a \in Address, NEW b \in Address, NEW n \in Int,
         TransferInternal(a, b, n)
  PROVE  Conserved'
<1> DEFINE debited == [balance EXCEPT ![a] = @ - n]
<1>1. /\ balance' = [debited EXCEPT ![b] = @ + n] /\ supply' = supply
      /\ balance \in [Address -> Int]
  BY DEF TransferInternal, TypeOK
<1>2. /\ debited \in [Address -> Int] /\ debited[a] = balance[a] + (-n) /\ -n \in Int
      /\ \A c \in Address : c # a => debited[c] = balance[c]
  BY <1>1
<1> HIDE DEF debited
<1>3. SumOf(debited, Address) = SumOf(balance, Address) + (-n)
  BY <1>1, <1>2, SumMoves, TokenFiniteAssumption
<1>4. /\ balance' \in [Address -> Int] /\ balance'[b] = debited[b] + n
      /\ \A c \in Address : c # b => balance'[c] = debited[c]
  BY <1>1, <1>2
<1>5. SumOf(balance', Address) = SumOf(debited, Address) + n
  BY <1>2, <1>4, SumMoves, TokenFiniteAssumption
<1>6. SumOf(balance, Address) \in Int
  BY <1>1, SumTyped, TokenFiniteAssumption
<1> QED
  BY <1>1, <1>3, <1>5, <1>6 DEF Conserved

LEMMA CoinCallConserves ==
  ASSUME IInv, Conserved, NEW s \in Signer, NEW n \in TokenAmount, CoinCall(s, n)
  PROVE  Conserved'
<1>0. s \in Address /\ n \in Int /\ TypeOK
  BY TokenAddressAssumption, TokenAmountAssumption DEF IInv
<1>1. CASE Burn(s, n)
  BY <1>0, <1>1, BurnConserves DEF Burn
<1>2. CASE BurnFee(s, n)
  <2>1. FeeOn(n) \in Int
    BY <1>0 DEF TypeOK, FeeOn
  <2> QED
    BY <1>0, <1>2, <2>1, BurnConserves DEF BurnFee
<1>3. ASSUME NEW a \in Address, Mint(s, a, n) \/ MintFromMinter(s, a, n)
      PROVE  Conserved'
  BY <1>0, <1>3, MintConserves DEF Mint, MintFromMinter
<1>4. ASSUME NEW a \in Address, Transfer(s, a, n) PROVE Conserved'
  BY <1>0, <1>4, TransferConserves DEF Transfer
<1>5. ASSUME NEW a \in Address, BurnFrom(s, a, n) PROVE Conserved'
  BY <1>0, <1>5, BurnConserves DEF BurnFrom
<1>6. ASSUME NEW a \in Address, NEW to \in Address, TransferFrom(s, a, to, n)
      PROVE  Conserved'
  BY <1>0, <1>6, TransferConserves DEF TransferFrom
<1>7. CASE \E b \in Spender, e \in 0..LedgerBound : Approve(s, b, n, e)
  BY <1>7 DEF Approve, coinVars, Conserved
<1> QED
  BY <1>1, <1>2, <1>3, <1>4, <1>5, <1>6, <1>7 DEF CoinCall

(* The sum of all balances is total_supply, for any number of accounts and *)
(* any sequence of mints, burns, fees, transfers and allowances; the test  *)
(* invariant_supply_conservation (star-token lib.rs:1178) tries one.       *)
THEOREM SupplyIsConserved == Spec => []Conservation
<1>1. Init => Conserved
  BY SumOfZeros, TokenFiniteAssumption DEF Init, Conserved
<1>2. IInv /\ Conserved /\ [Next]_vars => Conserved'
  <2> SUFFICES ASSUME IInv, Conserved, [Next]_vars PROVE Conserved'
    OBVIOUS
  <2>0. UNCHANGED <<balance, supply>> => Conserved'
    BY DEF Conserved
  <2>1. CASE CloseLedger
    BY <2>0, <2>1 DEF CloseLedger, coinVars
  <2>2. ASSUME NEW s \in Signer, ConfigStep(s) PROVE Conserved'
    BY <2>0, <2>2, ConfigLeavesCoins
  <2>3. ASSUME NEW s \in Signer, CoinStep(s) PROVE Conserved'
    BY <2>3, CoinStepIsCall, CoinCallConserves
  <2>4. CASE UNCHANGED vars
    BY <2>0, <2>4 DEF vars
  <2> QED
    BY <2>1, <2>2, <2>3, <2>4 DEF Next, StepBy
<1>3. Conserved => Conservation
  BY ConservedIsConservation
<1> QED
  BY <1>1, <1>2, <1>3, IInvHolds, PTL DEF Spec

-----------------------------------------------------------------------------
(* The pause switch, for every value of the constants: from one paused     *)
(* state to the next only the ledger number moves (star-token lib.rs:643). *)
THEOREM PauseHolds == Spec => PausedFreezes
<1> DEFINE frozen == UNCHANGED <<admin, pendingAdmin, roleVars, coinVars, allowance, feeBurn>>
<1>1. ASSUME NEW s \in Signer, ConfigStep(s), paused, paused' PROVE frozen
  <2>1. Pause(s) \/ Unpause(s)
    BY <1>1 DEF ConfigStep, SetAdmin, AcceptAdmin, SetFeeBurnConfig, SetMinter,
                SetAuthorized, Gov!ProposeAdmin, Gov!ClaimAdmin, Gov!ConfiguredBy
  <2> QED
    BY <2>1 DEF Pause, Unpause, Gov!SetPaused, roleVars, coinVars
<1>2. ASSUME NEW s \in Signer, CoinStep(s), paused PROVE FALSE
  BY <1>2 DEF CoinStep, Burn, BurnFee, Mint, MintFromMinter, Mintable, Transfer,
              BurnFrom, TransferFrom, Approve
<1>3. ASSUME [Next]_vars, paused, paused' PROVE frozen
  <2>1. CASE CloseLedger
    BY <2>1 DEF CloseLedger, govVars, roleVars, coinVars
  <2>2. CASE \E s \in Signer : StepBy(s)
    BY <1>1, <1>2, <1>3, <2>2 DEF StepBy
  <2>3. CASE UNCHANGED vars
    BY <2>3 DEF vars, roleVars, coinVars
  <2> QED
    BY <1>3, <2>1, <2>2, <2>3 DEF Next
<1>4. [Next]_vars => [paused /\ paused' => frozen]_vars
  BY <1>3
<1> QED
  BY <1>4, PTL DEF Spec, PausedFreezes

-----------------------------------------------------------------------------
(* The freeze list.                                                        *)

LEMMA BurnSparesFrozen ==
  ASSUME TypeOK, NEW a \in Address, NEW f \in Address, NEW n \in Int,
         BurnInternal(f, n), ~authorized[a]
  PROVE  balance'[a] = balance[a]
BY DEF BurnInternal, TypeOK

LEMMA MintSparesFrozen ==
  ASSUME TypeOK, NEW a \in Address, NEW to \in Address, NEW n \in Int,
         Mintable(to, n), MintEffect(to, n), ~authorized[a]
  PROVE  balance'[a] = balance[a]
BY DEF Mintable, MintEffect, TypeOK

LEMMA TransferSparesFrozen ==
  ASSUME TypeOK, NEW a \in Address, NEW f \in Address, NEW to \in Address, NEW n \in Int,
         TransferInternal(f, to, n), ~authorized[a]
  PROVE  balance'[a] = balance[a]
BY DEF TransferInternal, TypeOK

(* A frozen account keeps its balance whatever anyone calls: no mint, burn,*)
(* fee, transfer or allowance touches it (star-token lib.rs:686-694).      *)
THEOREM FreezeHolds == Spec => FrozenKeepsBalance
<1>1. ASSUME IInv, NEW s \in Signer, NEW n \in TokenAmount, CoinCall(s, n),
             NEW a \in Address, ~authorized[a]
      PROVE  balance'[a] = balance[a]
  <2>0. s \in Address /\ n \in Int /\ TypeOK
    BY <1>1, TokenAddressAssumption, TokenAmountAssumption DEF IInv
  <2>1. CASE Burn(s, n)
    BY <1>1, <2>0, <2>1, BurnSparesFrozen DEF Burn
  <2>2. CASE BurnFee(s, n)
    <3>1. FeeOn(n) \in Int
      BY <2>0 DEF TypeOK, FeeOn
    <3> QED
      BY <1>1, <2>0, <2>2, <3>1, BurnSparesFrozen DEF BurnFee
  <2>3. ASSUME NEW b \in Address, Mint(s, b, n) \/ MintFromMinter(s, b, n)
        PROVE  balance'[a] = balance[a]
    BY <1>1, <2>0, <2>3, MintSparesFrozen DEF Mint, MintFromMinter
  <2>4. ASSUME NEW b \in Address, Transfer(s, b, n)
        PROVE  balance'[a] = balance[a]
    BY <1>1, <2>0, <2>4, TransferSparesFrozen DEF Transfer
  <2>5. ASSUME NEW b \in Address, BurnFrom(s, b, n)
        PROVE  balance'[a] = balance[a]
    BY <1>1, <2>0, <2>5, BurnSparesFrozen DEF BurnFrom
  <2>6. ASSUME NEW b \in Address, NEW to \in Address, TransferFrom(s, b, to, n)
        PROVE  balance'[a] = balance[a]
    BY <1>1, <2>0, <2>6, TransferSparesFrozen DEF TransferFrom
  <2>7. CASE \E b \in Spender, e \in 0..LedgerBound : Approve(s, b, n, e)
    BY <2>7 DEF Approve, coinVars
  <2> QED
    BY <1>1, <2>1, <2>2, <2>3, <2>4, <2>5, <2>6, <2>7 DEF CoinCall
<1> DEFINE kept == \A a \in Address : ~authorized[a] => balance'[a] = balance[a]
<1>2. ASSUME IInv, [Next]_vars PROVE kept
  <2>1. CASE CloseLedger
    BY <2>1 DEF CloseLedger, coinVars
  <2>2. ASSUME NEW s \in Signer, ConfigStep(s) PROVE kept
    BY <2>2, ConfigLeavesCoins
  <2>3. ASSUME NEW s \in Signer, CoinStep(s) PROVE kept
    BY <1>1, <1>2, <2>3, CoinStepIsCall
  <2>4. CASE UNCHANGED vars
    BY <2>4 DEF vars
  <2> QED
    BY <1>2, <2>1, <2>2, <2>3, <2>4 DEF Next, StepBy
<1>3. IInv /\ [Next]_vars => [kept]_vars
  BY <1>2
<1> QED
  BY <1>3, IInvHolds, PTL DEF Spec, FrozenKeepsBalance

-----------------------------------------------------------------------------
(* Signatures.                                                             *)

LEMMA SpendIsAllowed ==
  ASSUME TypeOK, NEW s \in Address, NEW f \in Address, NEW n \in Int,
         SpendAllowance(f, s, n), balance[f] - balance'[f] = n
  PROVE  Allowed(f)
<1>1. /\ allowance[<<f, s>>] \in Allowance
      /\ allowance'[<<f, s>>] = [allowance[<<f, s>>] EXCEPT !.amount = @ - n]
      /\ allowance[<<f, s>>].expires >= ledger
  BY DEF TypeOK, SpendAllowance
<1>2. allowance[<<f, s>>].amount - allowance'[<<f, s>>].amount = n
  BY <1>1 DEF Allowance
<1> QED
  BY <1>1, <1>2 DEF Allowed

LEMMA BurnDebits ==
  ASSUME TypeOK, NEW a \in Address, NEW f \in Address, NEW n \in Int, BurnInternal(f, n),
         balance'[a] < balance[a]
  PROVE  a = f /\ balance[f] - balance'[f] = n
BY DEF TypeOK, BurnInternal

LEMMA TransferDebits ==
  ASSUME TypeOK, NEW a \in Address, NEW f \in Address, NEW to \in Address, NEW n \in Int,
         TransferInternal(f, to, n), balance'[a] < balance[a]
  PROVE  a = f /\ balance[f] - balance'[f] = n
<1> DEFINE debited == [balance EXCEPT ![f] = @ - n]
<1>1. /\ n > 0 /\ balance' = [debited EXCEPT ![to] = @ + n]
      /\ balance \in [Address -> Int]
  BY DEF TransferInternal, TypeOK
<1>2. a # to
  <2> SUFFICES ASSUME a = to PROVE FALSE
    OBVIOUS
  <2>1. balance'[a] = debited[a] + n
    BY <1>1
  <2>2. debited[a] \in {balance[a], balance[a] - n}
    BY <1>1
  <2> QED
    BY <1>1, <2>1, <2>2
<1>3. balance'[a] = debited[a]
  BY <1>1, <1>2
<1>4. a = f
  BY <1>1, <1>3
<1> QED
  BY <1>1, <1>3, <1>4

LEMMA MintDebitsNobody ==
  ASSUME TypeOK, NEW a \in Address, NEW to \in Address, NEW n \in Int,
         Mintable(to, n), MintEffect(to, n), balance'[a] < balance[a]
  PROVE  FALSE
BY DEF TypeOK, Mintable, MintEffect

(* Nobody loses STAR without having signed for it, now or as an unexpired  *)
(* allowance of that much (star-token lib.rs:459-560, 796).                *)
THEOREM DebitsAreSigned == Spec => DebitIsSigned
<1>1. ASSUME IInv, NEW s \in Signer, NEW n \in TokenAmount, CoinCall(s, n),
             NEW a \in Address, balance'[a] < balance[a]
      PROVE  SignedBy(a) \/ Allowed(a)
  <2>0. s \in Address /\ n \in Int /\ TypeOK
    BY <1>1, TokenAddressAssumption, TokenAmountAssumption DEF IInv
  <2>1. CASE Burn(s, n)
    BY <1>1, <2>0, <2>1, BurnDebits DEF Burn, SignedBy
  <2>2. CASE BurnFee(s, n)
    <3>1. FeeOn(n) \in Int
      BY <2>0 DEF TypeOK, FeeOn
    <3>2. a = s
      BY <1>1, <2>0, <2>2, <3>1, BurnDebits DEF BurnFee
    <3> QED
      BY <2>0, <2>2, <3>2 DEF SignedBy
  <2>3. ASSUME NEW b \in Address, Mint(s, b, n) \/ MintFromMinter(s, b, n)
        PROVE  FALSE
    BY <1>1, <2>0, <2>3, MintDebitsNobody DEF Mint, MintFromMinter
  <2>4. ASSUME NEW b \in Address, Transfer(s, b, n)
        PROVE  SignedBy(a)
    <3>1. a = s
      BY <1>1, <2>0, <2>4, TransferDebits DEF Transfer
    <3> QED
      BY <2>4, <3>1 DEF SignedBy
  <2>5. ASSUME NEW b \in Address, BurnFrom(s, b, n)
        PROVE  Allowed(a)
    <3>1. SpendAllowance(b, s, n) /\ BurnInternal(b, n)
      BY <2>5 DEF BurnFrom
    <3>2. a = b /\ balance[b] - balance'[b] = n
      BY <1>1, <2>0, <3>1, BurnDebits
    <3> QED
      BY <2>0, <3>1, <3>2, SpendIsAllowed
  <2>6. ASSUME NEW b \in Address, NEW to \in Address, TransferFrom(s, b, to, n)
        PROVE  Allowed(a)
    <3>1. SpendAllowance(b, s, n) /\ TransferInternal(b, to, n)
      BY <2>6 DEF TransferFrom
    <3>2. a = b /\ balance[b] - balance'[b] = n
      BY <1>1, <2>0, <3>1, TransferDebits
    <3> QED
      BY <2>0, <3>1, <3>2, SpendIsAllowed
  <2>7. ASSUME NEW b \in Spender, NEW e \in 0..LedgerBound, Approve(s, b, n, e)
        PROVE  FALSE
    BY <1>1, <2>0, <2>7 DEF Approve, coinVars, TypeOK
  <2> QED
    BY <1>1, <2>1, <2>2, <2>3, <2>4, <2>5, <2>6, <2>7 DEF CoinCall
<1> DEFINE signed == \A a \in Address : balance'[a] < balance[a] => SignedBy(a) \/ Allowed(a)
<1>2. ASSUME IInv, [Next]_vars PROVE signed
  <2>0. UNCHANGED balance => signed
    BY <1>2 DEF IInv, TypeOK
  <2>1. CASE CloseLedger
    BY <2>0, <2>1 DEF CloseLedger, coinVars
  <2>2. ASSUME NEW s \in Signer, ConfigStep(s) PROVE signed
    BY <2>0, <2>2, ConfigLeavesCoins
  <2>3. ASSUME NEW s \in Signer, CoinStep(s) PROVE signed
    BY <1>1, <1>2, <2>3, CoinStepIsCall
  <2>4. CASE UNCHANGED vars
    BY <2>0, <2>4 DEF vars
  <2> QED
    BY <1>2, <2>1, <2>2, <2>3, <2>4 DEF Next, StepBy
<1>3. IInv /\ [Next]_vars => [signed]_vars
  BY <1>2
<1> QED
  BY <1>3, IInvHolds, PTL DEF Spec, DebitIsSigned

-----------------------------------------------------------------------------
(* The handoff of the admin key: a rotated-out key is no admin and no      *)
(* minter.                                                                 *)
Powerless == \A a \in former : a # admin /\ ~minter[a]

AuditInv == IInv /\ former \subseteq Address /\ Powerless

LEMMA StepKeepsPowerless ==
  ASSUME AuditInv, NEW s \in Signer, StepBy(s), Observe(s)
  PROVE  former' \subseteq Address /\ Powerless'
<1>0. /\ admin \in Address /\ minter \in [Address -> BOOLEAN]
      /\ former \subseteq Address /\ Powerless
  BY DEF AuditInv, IInv, TypeOK
<1>1. former' \subseteq Address
  BY <1>0 DEF Observe
<1>2. CASE UNCHANGED <<admin, minter>>
  BY <1>0, <1>2 DEF Observe, Powerless
<1>3. CASE AcceptAdmin(s)
  <2>1. /\ admin' = pendingAdmin /\ pendingAdmin = s
        /\ minter' = Gov!HandOver(minter, admin, pendingAdmin)
    BY <1>3 DEF AcceptAdmin, Gov!ClaimAdmin
  <2>2. s \in Address
    BY TokenAddressAssumption
  <2>3. SUFFICES ASSUME NEW a \in former' PROVE a # admin' /\ ~minter'[a]
    BY <1>1 DEF Powerless
  <2>4. /\ a \in Address
        /\ a \in former \/ (a = admin /\ admin' # admin)
        /\ ~(minter'[a] /\ ~minter[a])
    BY <1>1, <2>3 DEF Observe, Granted
  <2>5. minter'[a] = IF a = s THEN TRUE ELSE IF a = admin THEN FALSE ELSE minter[a]
    BY <1>0, <2>1, <2>4 DEF Gov!HandOver
  <2>6. CASE a \in former
    <3>1. ~minter[a]
      BY <1>0, <2>6 DEF Powerless
    <3>2. ~minter'[a]
      BY <2>4, <3>1
    <3> QED
      BY <2>1, <2>5, <3>2
  <2>7. CASE a = admin /\ admin' # admin
    BY <2>1, <2>5, <2>7
  <2> QED
    BY <2>4, <2>6, <2>7
<1>4. ASSUME NEW w \in Address, NEW on \in BOOLEAN, SetMinter(s, w, on)
      PROVE  Powerless'
  <2>1. admin' = admin /\ minter' = [minter EXCEPT ![w] = on]
    BY <1>4 DEF SetMinter, govVars
  <2>2. SUFFICES ASSUME NEW a \in former' PROVE a # admin' /\ ~minter'[a]
    BY DEF Powerless
  <2>3. a \in former /\ a \in Address /\ ~(minter'[a] /\ ~minter[a])
    BY <1>0, <1>1, <2>1, <2>2 DEF Observe, Granted
  <2> QED
    BY <1>0, <2>1, <2>3 DEF Powerless
<1>5. AcceptAdmin(s) \/ (\E w \in Address, on \in BOOLEAN : SetMinter(s, w, on))
        \/ UNCHANGED <<admin, minter>>
  <2>1. CoinStep(s) => UNCHANGED <<admin, minter>>
    BY CoinLeavesRoles
  <2> QED
    BY <2>1 DEF StepBy, ConfigStep, SetAdmin, Pause, Unpause, SetFeeBurnConfig, SetAuthorized,
                Gov!ProposeAdmin, Gov!SetPaused, govVars, roleVars
<1> QED
  BY <1>1, <1>2, <1>3, <1>4, <1>5

(* In every state: a former admin has a role only if it was given back     *)
(* (star-token lib.rs:155-230).                                            *)
THEOREM AuditInvHolds == AuditSpec => []AuditInv
<1>1. AuditInit => AuditInv
  BY InitTyped, TokenAmountAssumption
     DEF AuditInit, Init, IInv, SupplyBounded, AuditInv, Powerless
<1>2. AuditInv /\ [AuditNext]_auditVars => AuditInv'
  <2> SUFFICES ASSUME AuditInv, [AuditNext]_auditVars PROVE AuditInv'
    OBVIOUS
  <2>1. IInv'
    BY NextIInv DEF AuditInv, AuditNext, auditVars, Next
  <2>2. former' \subseteq Address /\ Powerless'
    <3>1. CASE CloseLedger /\ UNCHANGED <<signer, former>>
      BY <3>1 DEF AuditInv, Powerless, CloseLedger, govVars, roleVars
    <3>2. CASE UNCHANGED auditVars
      BY <3>2 DEF AuditInv, Powerless, auditVars, vars
    <3> QED
      BY <3>1, <3>2, StepKeepsPowerless DEF AuditNext
  <2> QED
    BY <2>1, <2>2 DEF AuditInv
<1> QED
  BY <1>1, <1>2, PTL DEF AuditSpec

(* For any number of keys and any chain of handoffs, a rotated-out key     *)
(* creates no STAR until a later admin gives it a role (star-token         *)
(* lib.rs:170-190).                                                        *)
THEOREM FormerAdminsMintNothing == AuditSpec => FormerAdminMintsNothing
<1>1. ASSUME AuditInv, [AuditNext]_auditVars, supply' > supply
      PROVE  signer' \notin former
  <2>0. TypeOK /\ Powerless
    BY <1>1 DEF AuditInv, IInv
  <2>1. supply' # supply
    BY <1>1, <2>0 DEF TypeOK
  <2>2. PICK s \in Signer : CoinStep(s) /\ signer' = s
    BY <1>1, <2>1, ConfigLeavesCoins
       DEF AuditNext, StepBy, Observe, CloseLedger, coinVars, auditVars, vars
  <2>3. PICK n \in TokenAmount : CoinCall(s, n)
    BY <2>2, CoinStepIsCall
  <2>4. n \in Int /\ s \in Address
    BY TokenAmountAssumption, TokenAddressAssumption
  <2>5. ASSUME NEW f \in Address, NEW m \in Int, BurnInternal(f, m) PROVE FALSE
    BY <1>1, <2>0, <2>5 DEF BurnInternal, TypeOK
  <2>6. FeeOn(n) \in Int
    BY <2>0, <2>4 DEF FeeOn, TypeOK
  <2>7. \E a \in Address : Mint(s, a, n) \/ MintFromMinter(s, a, n)
    BY <2>1, <2>3, <2>4, <2>5, <2>6
       DEF CoinCall, Burn, BurnFee, Transfer, BurnFrom, TransferFrom, TransferInternal,
           Approve, coinVars
  <2>8. s = admin \/ minter[s]
    BY <2>7 DEF Mint, MintFromMinter
  <2> QED
    BY <2>0, <2>2, <2>8 DEF Powerless
<1>2. AuditInv /\ [AuditNext]_auditVars
        => [supply' > supply => signer' \notin former]_auditVars
  BY <1>1
<1> QED
  BY <1>2, AuditInvHolds, PTL DEF AuditSpec, FormerAdminMintsNothing
=============================================================================

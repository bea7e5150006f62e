---------------------------- MODULE PaymentPromise ----------------------------
(***************************************************************************)
(* What the payment engine promises to a payer and a merchant, without its *)
(* operators, statuses and configuration.  A payment is open until it is   *)
(* converted; while it is open it may be withdrawn and gets its price;     *)
(* once committed it can only finish or fail, and only then may it earn    *)
(* STAR, once.  Its terms never change and an ended payment never moves.   *)
(***************************************************************************)
EXTENDS Integers

CONSTANTS Payment,      \* identifiers
          Terms,        \* what a payment is about (payer, merchant, amount...)
          NoTerms

VARIABLES phase,        \* where the payment stands
          terms,        \* its terms, NoTerms before it is opened
          price,        \* USDC to convert, 0 until quoted
          star          \* STAR earned

vars == <<phase, terms, price, star>>

Ended == {"done", "withdrawn", "failed"}

Init ==
  /\ phase = [p \in Payment |-> "absent"]
  /\ terms = [p \in Payment |-> NoTerms]
  /\ price = [p \in Payment |-> 0]
  /\ star = [p \in Payment |-> 0]

Move(p, from, to) == phase[p] \in from /\ phase' = [phase EXCEPT ![p] = to]

Open(p) ==
  /\ Move(p, {"absent"}, "open")
  /\ terms'[p] \in Terms
  /\ terms' = [terms EXCEPT ![p] = terms'[p]]
  /\ UNCHANGED <<price, star>>

Price(p) ==
  /\ phase[p] = "open" /\ price[p] = 0
  /\ price'[p] > 0
  /\ price' = [price EXCEPT ![p] = price'[p]]
  /\ UNCHANGED <<phase, terms, star>>

Commit(p) ==
  /\ price[p] > 0
  /\ Move(p, {"open"}, "committed")
  /\ UNCHANGED <<terms, price, star>>

Earn(p) ==
  /\ phase[p] = "committed" /\ star[p] = 0
  /\ star'[p] > 0
  /\ star' = [star EXCEPT ![p] = star'[p]]
  /\ UNCHANGED <<phase, terms, price>>

Withdraw(p) ==
  /\ Move(p, {"open"}, "withdrawn")
  /\ UNCHANGED <<terms, price, star>>

Fail(p) ==
  /\ Move(p, {"open", "committed"}, "failed")
  /\ UNCHANGED <<terms, price, star>>

Finish(p) ==
  /\ Move(p, {"committed"}, "done")
  /\ UNCHANGED <<terms, price, star>>

Next ==
  \E p \in Payment :
    Open(p) \/ Price(p) \/ Commit(p) \/ Earn(p) \/ Withdraw(p) \/ Fail(p)
      \/ Finish(p)

Spec == Init /\ [][Next]_vars
=============================================================================

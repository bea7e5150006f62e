--------------------------- MODULE MCContractSystem ---------------------------
(* Two payments that share one reward id and a supply cap that one reward
   reaches; each link and each right the cross-contract calls depend on can be
   taken away and given back. *)
EXTENDS ContractSystem, TLC

CONSTANTS adm, usr, pe, mr, re, st

MCSigner == {adm, usr}
MCAddress == {adm, usr, pe, mr, re, st}
MCQuoteInput == {[asset |-> 1, usdc |-> 1, fee |-> 0]}
MCSettable ==
  [operator |-> {}, issuer |-> {pe}, minter |-> {re}, freeze |-> {usr},
   registry |-> {mr}, rewards |-> {re, st}, token |-> {st}, admin |-> {}]

PaymentSymmetry == Permutations(PaymentId)

\* The reward run leaves the registry and the engine's own switch alone once
\* the merchant is approved; the liveness run does not.
RegistryCalm ==
  /\ ~mrPaused /\ ~pePaused
  /\ \A m \in MerchantId :
       /\ merchant[m].status \in {"Absent", "Pending", "Approved"}
       /\ merchant[m].owner # usr
  /\ \A p \in PaymentId : payment[p].payer # adm
  /\ \A c \in Address \ Signer : balance[c] = 0
  /\ ~stPaused

\* In the liveness run the engine loses and regains its right as issuer, its
\* right to mint and its link to the payment engine, and the payment engine is
\* linked to a contract that is no registry, and back.
LiveSettable ==
  [operator |-> {}, issuer |-> {pe}, minter |-> {re}, freeze |-> {},
   registry |-> {mr, st}, rewards |-> {re, st}, token |-> {}, admin |-> {}]
=============================================================================

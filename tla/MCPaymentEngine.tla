--------------------------- MODULE MCPaymentEngine ---------------------------
(* PaymentAudit with one payment in full detail: two signers that can hold
   the admin key, be operators and be payers, and every input the guards tell
   apart.  One contract address is enough: the links are only stored here. *)
EXTENDS PaymentAudit

CONSTANTS a1, a2, eng

MCAddress == {a1, a2, eng}
MCSigner == {a1, a2}
MCAmountInput == {0, 1}
MCQuoteInput == {[asset |-> 1, usdc |-> 1, fee |-> 0],
                 [asset |-> 0, usdc |-> 1, fee |-> 0],
                 [asset |-> 1, usdc |-> 0, fee |-> 0],
                 [asset |-> 1, usdc |-> 1, fee |-> -1]}
=============================================================================

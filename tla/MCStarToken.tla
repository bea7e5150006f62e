----------------------------- MODULE MCStarToken -----------------------------
(* Two accounts that hand the admin key back and forth, under a cap of 2, with
   a fee of half the amount. *)
EXTENDS StarAudit

CONSTANTS a1, a2

MCAddress == {a1, a2}
=============================================================================

---------------------------- MODULE MCRewardAudit ----------------------------
(* Three keys for a chain of handoffs, two reward ids, and payments on both
   sides of the first hundred rupees. *)
EXTENDS RewardAudit

CONSTANTS a1, a2, a3

MCAddress == {a1, a2, a3}
=============================================================================

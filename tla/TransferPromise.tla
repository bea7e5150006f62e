---------------------------- MODULE TransferPromise ----------------------------
(***************************************************************************)
(* What the back end promises the two people at the ends of one            *)
(* transaction, without its cron runs, retries, rows and lost answers.     *)
(* The payment is opened once; until it is committed the payer may         *)
(* withdraw it.  The platform's USDC starts to go out for a committed      *)
(* payment only; the merchant is paid, and STAR is earned, only when that  *)
(* is settled.  A payment that was withdrawn costs nobody anything.  How   *)
(* often each goes out is not its subject: it tells whether, and when.     *)
(***************************************************************************)

VARIABLES phase,        \* absent, open, withdrawn, committed, settled, done
          charged,      \* USDC went out
          paid,         \* the merchant's rupees went out
          earned        \* STAR was minted

vars == <<phase, charged, paid, earned>>

Init == phase = "absent" /\ ~charged /\ ~paid /\ ~earned

Move(from, to) ==
  /\ phase = from /\ phase' = to
  /\ UNCHANGED <<charged, paid, earned>>

Open == Move("absent", "open")
Withdraw == Move("open", "withdrawn")
Commit == Move("open", "committed")
Settle == charged /\ Move("committed", "settled")
Finish == Move("settled", "done")

Charge ==
  /\ phase = "committed" /\ ~charged
  /\ charged'
  /\ UNCHANGED <<phase, paid, earned>>

Pay ==
  /\ phase = "settled" /\ ~paid
  /\ paid'
  /\ UNCHANGED <<phase, charged, earned>>

Earn ==
  /\ phase \in {"settled", "done"} /\ ~earned
  /\ earned'
  /\ UNCHANGED <<phase, charged, paid>>

Next == Open \/ Withdraw \/ Commit \/ Charge \/ Settle \/ Pay \/ Earn \/ Finish

Spec == Init /\ [][Next]_vars
=============================================================================

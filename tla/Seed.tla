--------------------------------- MODULE Seed ----------------------------------
(***************************************************************************)
(* apps/api/prisma/seed.ts: the script that fills a database with the      *)
(* demonstration rows, one upsert after another, parents before children.  *)
(* It may be killed anywhere, run again, and run twice at once.            *)
(***************************************************************************)
EXTENDS Naturals, Sequences, FiniteSets

CONSTANTS Runner,        \* processes that run the script
          DemoPayments,  \* demonstration payments; five in the script
          SeedBound      \* how often the script is started

ASSUME SeedAssumption == DemoPayments \in Nat \ {0} /\ SeedBound \in Nat

VARIABLES rows,          \* the demonstration rows in the database
          off,           \* the user is suspended, or the campaign is not active
          run            \* the processes; alone (history): no other run was
                         \* under way beside this one

seedVars == <<rows, off, run>>

Demo(kind) == [kind |-> kind, n |-> 0]
TxData == 1 .. DemoPayments

\* What main writes, in order; a payment is followed by its reward.
First == <<Demo("user"), Demo("wallet"), Demo("merchant"), Demo("qr"), Demo("brand"),
           Demo("campaign")>>
Loop == [k \in 1 .. 2 * DemoPayments |->
           [kind |-> IF k % 2 = 1 THEN "transaction" ELSE "reward", n |-> (k + 1) \div 2]]
Main == First \o Loop \o <<Demo("bonus")>>

\* Rows that one statement writes along with a row.
Nested(row) ==
  CASE row.kind = "campaign" -> {[kind |-> "link", n |-> 0]}
    [] row.kind = "transaction" -> {[kind |-> k, n |-> row.n] : k \in {"settlement", "events"}}
    [] OTHER -> {}

\* Rows a row refers to.
Parents(row) ==
  CASE row.kind = "user" -> {}
    [] row.kind \in {"wallet", "merchant", "brand"} -> {Demo("user")}
    [] row.kind = "qr" -> {Demo("merchant")}
    [] row.kind = "campaign" -> {Demo("brand")}
    [] row.kind = "link" -> {Demo("campaign"), Demo("merchant")}
    [] row.kind = "transaction" ->
         {Demo(k) : k \in {"user", "wallet", "merchant", "qr", "campaign"}}
    [] row.kind = "settlement" -> {[kind |-> "transaction", n |-> row.n], Demo("merchant")}
    [] row.kind = "events" -> {[kind |-> "transaction", n |-> row.n]}
    [] row.kind = "reward" ->
         {[kind |-> "transaction", n |-> row.n], Demo("user"), Demo("campaign")}
    [] row.kind = "bonus" ->
         {[kind |-> "transaction", n |-> 1], Demo("user"), Demo("campaign")}

SeedRows == {Main[k] : k \in DOMAIN Main}
AllRows == SeedRows \cup UNION {Nested(row) : row \in SeedRows}

\* Prisma sends an upsert by one unique key that creates nothing else as one
\* INSERT ... ON CONFLICT.  Otherwise it reads the row, and then inserts or
\* updates; an upsert by a compound key may go either way.
Native(row) == row.kind \notin {"campaign", "transaction"}
ReadsFirst(row) == row.kind \in {"campaign", "transaction", "reward", "bonus"}

SeedTypeOK ==
  /\ rows \subseteq AllRows
  /\ off \subseteq {Demo("user"), Demo("campaign")}
  /\ run \in [Runner -> [at : {"idle", "running", "absent", "done", "failed"},
                         next : 1 .. Len(Main) + 1, alone : BOOLEAN, starts : 0 .. SeedBound]]

SeedInit ==
  /\ rows = {} /\ off = {}
  /\ run = [p \in Runner |-> [at |-> "idle", next |-> 1, alone |-> TRUE, starts |-> 0]]

UnderWay(p) == run[p].at \in {"running", "absent"}
RowOf(p) == Main[run[p].next]

-----------------------------------------------------------------------------
StartSeed(p) ==
  /\ ~UnderWay(p) /\ run[p].starts < SeedBound
  /\ LET quiet == \A q \in Runner : ~UnderWay(q)
     IN run' = [q \in Runner |->
          IF q = p THEN [at |-> "running", next |-> 1, alone |-> quiet, starts |-> run[p].starts + 1]
          ELSE IF UnderWay(q) THEN [run[q] EXCEPT !.alone = FALSE] ELSE run[q]]
  /\ UNCHANGED <<rows, off>>

\* The row exists now, and update makes user and campaign active again.
Upserted(p, more) ==
  /\ rows' = rows \cup more
  /\ off' = off \ {RowOf(p)}
  /\ run' = [run EXCEPT ![p] =
       [@ EXCEPT !.next = run[p].next + 1,
                 !.at = IF run[p].next = Len(Main) THEN "done" ELSE "running"]]

NativeUpsert(p) ==
  /\ run[p].at = "running" /\ Native(RowOf(p))
  /\ Upserted(p, {RowOf(p)})

\* Mutant: the row is created without a look.
ReadNothing(p) ==
  /\ run[p].at = "running" /\ ReadsFirst(RowOf(p))
  /\ run' = [run EXCEPT ![p].at = "absent"]
  /\ UNCHANGED <<rows, off>>

ReadRow(p) ==
  /\ run[p].at = "running" /\ ReadsFirst(RowOf(p))
  /\ IF RowOf(p) \in rows THEN Upserted(p, {})
     ELSE run' = [run EXCEPT ![p].at = "absent"] /\ UNCHANGED <<rows, off>>

\* The unique keys refuse a second copy, and main ends in its catch.
InsertRow(p) ==
  /\ run[p].at = "absent"
  /\ IF RowOf(p) \in rows
     THEN run' = [run EXCEPT ![p].at = "failed"] /\ UNCHANGED <<rows, off>>
     ELSE Upserted(p, {RowOf(p)} \cup Nested(RowOf(p)))

SeedKilled(p) ==
  /\ UnderWay(p)
  /\ run' = [run EXCEPT ![p] = [@ EXCEPT !.at = "idle", !.next = 1, !.alone = TRUE]]
  /\ UNCHANGED <<rows, off>>

\* An administrator suspends the user, or the campaign's brand pauses it.
TurnOff(row) ==
  /\ row \in rows \ off
  /\ off' = off \cup {row}
  /\ UNCHANGED <<rows, run>>

SeedNext ==
  \/ \E p \in Runner :
       StartSeed(p) \/ NativeUpsert(p) \/ ReadRow(p) \/ InsertRow(p) \/ SeedKilled(p)
  \/ \E row \in {Demo("user"), Demo("campaign")} : TurnOff(row)

SeedSpec == SeedInit /\ [][SeedNext]_seedVars

-----------------------------------------------------------------------------
\* Killed, repeated or doubled runs leave no row without the rows it refers to
\* or belongs with; a run that ends well leaves every row; and a run that was
\* alone never fails, whatever earlier runs left behind.
SeedRunsAgain ==
  /\ \A row \in rows : Parents(row) \cup Nested(row) \subseteq rows
  /\ \A p \in Runner :
       /\ run[p].at = "done" => rows = AllRows
       /\ run[p].at = "failed" => ~run[p].alone
=============================================================================

-------------------------------- MODULE Wallets --------------------------------
(***************************************************************************)
(* The wallets of one user, of which rewards go to the primary one: wallets*)
(* and users services, and the logins of AuthService.  A request that makes*)
(* a wallet primary runs a transaction of two statements: it clears the    *)
(* flag of every wallet it sees, waiting for the rows other transactions   *)
(* hold, and then sets it on its own.  The database runs READ COMMITTED: a *)
(* statement does not see rows committed after it began.                   *)
(***************************************************************************)
EXTENDS FiniteSets

CONSTANTS Purse, NoPurse,    \* addresses
          Change             \* requests that make a wallet primary

ASSUME PurseAssumption == NoPurse \notin Purse

VARIABLES owned, primary, active,  \* the rows: there are; isPrimary; ACTIVE
          change,                  \* seen: rows the first statement sees;
                                   \* cleared: those whose flag it has cleared
          unseen                   \* a wallet was made primary beside a request
                                   \* that does not see it (history)

walletVars == <<owned, primary, active, change, unseen>>

NoChange == [at |-> "idle", wallet |-> NoPurse, creates |-> FALSE, seen |-> {}, cleared |-> {}]

WalletsTypeOK ==
  /\ primary \subseteq owned /\ active \subseteq owned /\ owned \subseteq Purse
  /\ change \in [Change -> [at : {"idle", "clearing", "writing"}, wallet : Purse \cup {NoPurse},
                            creates : BOOLEAN, seen : SUBSET Purse, cleared : SUBSET Purse]]
  /\ unseen \in BOOLEAN

\* A user of the mock login, or of a wallet, which is the primary one.
WalletsInit ==
  /\ owned = {} \/ \E w \in Purse : owned = {w}
  /\ primary = owned /\ active = owned
  /\ change = [c \in Change |-> NoChange] /\ unseen = FALSE

\* The row is not locked by a transaction that has written it.
Free(w) == \A c \in Change : change[c].at = "writing" => w \notin change[c].seen

-----------------------------------------------------------------------------
(* isPrimary: true                                                         *)

BeginChange(c, w, creates) ==
  /\ change[c].at = "idle"
  /\ change' = [change EXCEPT ![c] =
       [at |-> "clearing", wallet |-> w, creates |-> creates, seen |-> owned, cleared |-> {}]]
  /\ UNCHANGED <<owned, primary, active, unseen>>

Create(c, w) == BeginChange(c, w, TRUE)
Update(c, w) == w \in owned /\ BeginChange(c, w, FALSE)

\* Mutant: it waits for no other transaction.
ClearAtOnce(c) ==
  /\ change[c].at = "clearing"
  /\ primary' = primary \ change[c].seen
  /\ change' = [change EXCEPT ![c].at = "writing", ![c].cleared = primary \cap change[c].seen]
  /\ UNCHANGED <<owned, active, unseen>>

\* updateMany, once every row it sees is free.
ClearPrimary(c) ==
  /\ change[c].at = "clearing" /\ \A w \in change[c].seen : Free(w)
  /\ primary' = primary \ change[c].seen
  /\ change' = [change EXCEPT ![c].at = "writing", ![c].cleared = primary \cap change[c].seen]
  /\ UNCHANGED <<owned, active, unseen>>

Misses(d, w) == change[d].at # "idle" /\ w \notin change[d].seen

\* The row is created, ACTIVE, or updated, its status with it or not.
Commit(c, on) ==
  /\ change[c].at = "writing"
  /\ change[c].creates => change[c].wallet \notin owned /\ on
  /\ owned' = owned \cup {change[c].wallet}
  /\ primary' = primary \cup {change[c].wallet}
  /\ active' = IF on THEN active \cup {change[c].wallet} ELSE active \ {change[c].wallet}
  /\ unseen' = (unseen \/ \E d \in Change \ {c} : Misses(d, change[c].wallet))
  /\ change' = [change EXCEPT ![c] = NoChange]

\* The address is taken, the database fails, or breaks a deadlock.
RollBack(c) ==
  /\ change[c].at # "idle"
  /\ primary' = primary \cup change[c].cleared
  /\ change' = [change EXCEPT ![c] = NoChange]
  /\ UNCHANGED <<owned, active, unseen>>

-----------------------------------------------------------------------------
(* Requests of one statement                                               *)

ConnectWallet(w) ==
  /\ w \notin owned
  /\ owned' = owned \cup {w} /\ active' = active \cup {w}
  /\ UNCHANGED <<primary, change, unseen>>

\* update; a login makes its wallet ACTIVE.
SetWalletStatus(w, on) ==
  /\ w \in owned /\ Free(w)
  /\ active' = IF on THEN active \cup {w} ELSE active \ {w}
  /\ UNCHANGED <<owned, primary, change, unseen>>

UnsetPrimary(w) ==
  /\ w \in owned /\ Free(w)
  /\ primary' = primary \ {w}
  /\ UNCHANGED <<owned, active, change, unseen>>

Disconnect(w) ==
  /\ w \in owned /\ Free(w)
  /\ primary' = primary \ {w} /\ active' = active \ {w}
  /\ UNCHANGED <<owned, change, unseen>>

\* deleteAccount; the wallets stay what they are to the other requests.
RevokeWallets ==
  /\ \A w \in owned : Free(w)
  /\ active' = {}
  /\ UNCHANGED <<owned, primary, change, unseen>>

WalletsNext ==
  \/ \E c \in Change :
       \/ \E w \in Purse : Create(c, w) \/ Update(c, w)
       \/ ClearPrimary(c) \/ RollBack(c)
       \/ \E on \in BOOLEAN : Commit(c, on)
  \/ \E w \in Purse : \/ ConnectWallet(w) \/ UnsetPrimary(w) \/ Disconnect(w)
                      \/ \E on \in BOOLEAN : SetWalletStatus(w, on)
  \/ RevokeWallets

WalletsSpec == WalletsInit /\ [][WalletsNext]_walletVars

-----------------------------------------------------------------------------
\* A user has one primary wallet at most, whatever requests overlap and fail,
\* unless a wallet was made primary beside a request that began before the
\* wallet was there.  (transaction-processor.service.ts:209-217 takes one of
\* them, in no order.)
PrimaryIsOne == ~unseen => \A v, w \in primary : v = w
=============================================================================

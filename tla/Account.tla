------------------------------- MODULE Account -------------------------------
(***************************************************************************)
(* apps/api, auth, users and wallets: accounts, the wallets that log in to *)
(* them, login nonces and refresh tokens.  A login and a refresh await the *)
(* cache or the database at every step; requests run beside each other and *)
(* beside administrators.                                                  *)
(***************************************************************************)
EXTENDS Naturals

CONSTANTS User, NoUser,
          Wallet,        \* wallet addresses
          Nonce, NoNonce,
          Session        \* login and refresh requests

ASSUME AccountAssumption == NoUser \notin User /\ NoNonce \notin Nonce

VARIABLES account,       \* the user rows
          wallet,        \* the wallet rows, by address
          nonce,         \* the cache
          session,       \* the requests; before and closed (history): what had
                         \* happened when a request began
          closed         \* the accounts somebody deleted (history)

accountVars == <<account, wallet, nonce, session, closed>>

UserStatus == {"PENDING_ONBOARDING", "ACTIVE", "SUSPENDED", "DELETED"}

\* refreshable: a refresh token hash is stored.
AccountTypeOK ==
  /\ account \in [User -> [status : {"absent"} \cup UserStatus, deleted : BOOLEAN,
                           refreshable : BOOLEAN]]
  /\ wallet \in [Wallet -> [owner : User \cup {NoUser},
                            status : {"absent", "ACTIVE", "DISCONNECTED", "REVOKED"}]]
  /\ nonce \in [Nonce -> {"unissued", "issued", "gone"}]
  /\ session \in [Session ->
       [op : {"login", "refresh"}, user : User \cup {NoUser}, wallet : Wallet,
        nonce : Nonce \cup {NoNonce}, before : SUBSET Session, closed : SUBSET User,
        at : {"unsent", "spend", "verify", "find", "create", "activate", "use",
              "compare", "tokens", "ok", "failed"}]]
  /\ closed \subseteq User

AccountInit ==
  /\ account = [u \in User |-> [status |-> "absent", deleted |-> FALSE, refreshable |-> FALSE]]
  /\ wallet = [w \in Wallet |-> [owner |-> NoUser, status |-> "absent"]]
  /\ nonce = [n \in Nonce |-> "unissued"]
  /\ session \in [Session -> [op : {"login"}, user : {NoUser}, wallet : Wallet,
                              nonce : {NoNonce}, before : {{}}, closed : {{}},
                              at : {"unsent"}]]
  /\ closed = {}

Exists(u) == account[u].status # "absent"
Deleted(u) == u # NoUser /\ account[u].deleted
Go(s, to) == session' = [session EXCEPT ![s].at = to]
SetUserStatus(u, status) == account' = [account EXCEPT ![u].status = status]

\* The requests whose tokens are being signed, or were.
LetIn == {s \in Session : session[s].at \in {"tokens", "ok"}}

-----------------------------------------------------------------------------
(* Wallet login.                                                           *)

IssueWalletChallenge(n) ==
  /\ nonce[n] = "unissued"
  /\ nonce' = [nonce EXCEPT ![n] = "issued"]
  /\ UNCHANGED <<account, wallet, session, closed>>

\* The cache drops a nonce after five minutes.
NonceExpires(n) ==
  /\ nonce[n] = "issued"
  /\ nonce' = [nonce EXCEPT ![n] = "gone"]
  /\ UNCHANGED <<account, wallet, session, closed>>

ReadNonce(s, n) ==
  /\ session[s].at = "unsent"
  /\ session' = [session EXCEPT ![s] =
       [@ EXCEPT !.nonce = n, !.before = LetIn, !.closed = closed,
                 !.at = IF nonce[n] = "issued" THEN "spend" ELSE "failed"]]
  /\ UNCHANGED <<account, wallet, nonce, closed>>

\* Mutant: the nonce is left in the cache.
SpendNonceNot(s) ==
  /\ session[s].at = "spend"
  /\ Go(s, "verify")
  /\ UNCHANGED <<account, wallet, nonce, closed>>

SpendNonce(s) ==
  /\ session[s].at = "spend"
  /\ nonce' = [nonce EXCEPT ![session[s].nonce] = "gone"]
  /\ Go(s, "verify")
  /\ UNCHANGED <<account, wallet, closed>>

\* The signature over the message with this nonce, in any of its encodings.
VerifySignature(s) ==
  /\ session[s].at = "verify"
  /\ Go(s, "find") \/ Go(s, "failed")
  /\ UNCHANGED <<account, wallet, nonce, closed>>

\* Neither the wallet's status nor its user's is looked at.
FindWallet(s) ==
  /\ session[s].at = "find"
  /\ LET owner == wallet[session[s].wallet].owner
     IN session' = [session EXCEPT ![s] =
          [@ EXCEPT !.user = owner, !.at = IF owner = NoUser THEN "create" ELSE "activate"]]
  /\ UNCHANGED <<account, wallet, nonce, closed>>

ActivateUser(s) ==
  /\ session[s].at = "activate"
  /\ SetUserStatus(session[s].user, "ACTIVE")
  /\ Go(s, "use")
  /\ UNCHANGED <<wallet, nonce, closed>>

ActivateWallet(s) ==
  /\ session[s].at = "use"
  /\ wallet' = [wallet EXCEPT ![session[s].wallet].status = "ACTIVE"]
  /\ Go(s, "tokens")
  /\ UNCHANGED <<account, nonce, closed>>

\* One statement inserts user and wallet; an address taken meanwhile makes it
\* fail.
CreateUser(s) ==
  /\ session[s].at = "create"
  /\ IF wallet[session[s].wallet].owner # NoUser
     THEN Go(s, "failed") /\ UNCHANGED <<account, wallet>>
     ELSE \E u \in User :
            /\ ~Exists(u)
            /\ SetUserStatus(u, "ACTIVE")
            /\ wallet' = [wallet EXCEPT ![session[s].wallet] =
                            [owner |-> u, status |-> "ACTIVE"]]
            /\ session' = [session EXCEPT ![s] = [@ EXCEPT !.user = u, !.at = "tokens"]]
  /\ UNCHANGED <<nonce, closed>>

GenerateTokens(s) ==
  /\ session[s].at = "tokens"
  /\ account' = [account EXCEPT ![session[s].user].refreshable = TRUE]
  /\ Go(s, "ok")
  /\ UNCHANGED <<wallet, nonce, closed>>

RefreshToken(s, u) ==
  /\ session[s].at = "unsent" /\ Exists(u)
  /\ session' = [session EXCEPT ![s] =
       [@ EXCEPT !.op = "refresh", !.user = u, !.before = LetIn, !.closed = closed,
                 !.at = IF ~Deleted(u) /\ account[u].refreshable THEN "compare" ELSE "failed"]]
  /\ UNCHANGED <<account, wallet, nonce, closed>>

\* Any refresh token the user was ever given compares equal to the stored hash:
\* bcrypt reads 72 bytes, and a user's tokens differ only after them.  It is
\* then verified.
CompareToken(s) ==
  /\ session[s].at = "compare"
  /\ Go(s, "tokens") \/ Go(s, "failed")
  /\ UNCHANGED <<account, wallet, nonce, closed>>

\* Something else that names the user: his tokens are revoked.
RevokeTokens(s) ==
  /\ session[s].at = "compare"
  /\ account' = [account EXCEPT ![session[s].user].refreshable = FALSE]
  /\ Go(s, "failed")
  /\ UNCHANGED <<wallet, nonce, closed>>

-----------------------------------------------------------------------------
(* Users, wallets and administrators.                                      *)

\* POST /users; the status may be given.
CreateAccount(u, status) ==
  /\ ~Exists(u)
  /\ SetUserStatus(u, status)
  /\ UNCHANGED <<wallet, nonce, session, closed>>

\* Outside production: a login by e-mail or phone.
MockLogin(u) ==
  /\ ~Deleted(u)
  /\ account' = [account EXCEPT
       ![u].status = IF @ \in {"absent", "PENDING_ONBOARDING"} THEN "ACTIVE" ELSE @,
       ![u].refreshable = TRUE]
  /\ UNCHANGED <<wallet, nonce, session, closed>>

\* suspend, activate, update and the administrator's status call.
ChangeStatus(u, status) ==
  /\ Exists(u) /\ account[u].status # status
  /\ SetUserStatus(u, status)
  /\ UNCHANGED <<wallet, nonce, session, closed>>

SoftDelete(u) ==
  /\ Exists(u)
  /\ account' = [account EXCEPT ![u].deleted = TRUE, ![u].status = "DELETED"]
  /\ closed' = closed \cup {u}
  /\ UNCHANGED <<wallet, nonce, session>>

DeleteAccount(u) ==
  /\ Exists(u)
  /\ account' = [account EXCEPT ![u].deleted = TRUE, ![u].status = "DELETED"]
  /\ closed' = closed \cup {u}
  /\ wallet' = [w \in Wallet |-> IF wallet[w].owner = u
                                 THEN [wallet[w] EXCEPT !.status = "REVOKED"] ELSE wallet[w]]
  /\ UNCHANGED <<nonce, session>>

AddWallet(u, w) ==
  /\ Exists(u) /\ wallet[w].owner = NoUser
  /\ wallet' = [wallet EXCEPT ![w] = [owner |-> u, status |-> "ACTIVE"]]
  /\ UNCHANGED <<account, nonce, session, closed>>

\* update, with any status, and disconnect.
ChangeWallet(w, status) ==
  /\ wallet[w].owner # NoUser /\ wallet[w].status # status
  /\ wallet' = [wallet EXCEPT ![w].status = status]
  /\ UNCHANGED <<account, nonce, session, closed>>

AccountNext ==
  \/ \E s \in Session :
       \/ SpendNonce(s) \/ VerifySignature(s) \/ FindWallet(s) \/ ActivateUser(s)
       \/ ActivateWallet(s) \/ CreateUser(s) \/ GenerateTokens(s)
       \/ CompareToken(s) \/ RevokeTokens(s)
       \/ \E n \in Nonce : ReadNonce(s, n)
       \/ \E u \in User : RefreshToken(s, u)
  \/ \E n \in Nonce : IssueWalletChallenge(n) \/ NonceExpires(n)
  \/ \E u \in User :
       \/ MockLogin(u) \/ SoftDelete(u) \/ DeleteAccount(u)
       \/ \E status \in UserStatus : CreateAccount(u, status) \/ ChangeStatus(u, status)
       \/ \E w \in Wallet : AddWallet(u, w)
  \/ \E w \in Wallet, status \in {"ACTIVE", "DISCONNECTED", "REVOKED"} : ChangeWallet(w, status)

AccountSpec == AccountInit /\ [][AccountNext]_accountVars

-----------------------------------------------------------------------------
\* Two logins on one nonce get in only if they overlap: one that begins after
\* the other got in does not.
NonceLetsInOnce ==
  \A r, s \in LetIn :
    session[r].op = "login" /\ session[s].op = "login" /\ session[r].nonce = session[s].nonce
      => r \notin session[s].before

\* No refresh gets in that began after somebody deleted its account, whatever
\* logins have made the account active again in between.
DeletedStaysOut ==
  \A s \in LetIn : session[s].op = "refresh" => session[s].user \notin session[s].closed

\* What came too late, by what others had done before, never gets tokens.
StaleNeverGetsIn == NonceLetsInOnce /\ DeletedStaysOut

\* "Delete your account permanently?  This cannot be undone": nothing a
\* wallet does makes a deleted account active again.
DeletionIsPermanent ==
  [][\A s \in Session : session[s].at = "activate" /\ session'[s].at = "use"
        => ~Deleted(session[s].user)]_accountVars
=============================================================================

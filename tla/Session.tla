------------------------------- MODULE Session -------------------------------
(***************************************************************************)
(* Who is logged in to the web app: StellarWalletProvider, the persisted   *)
(* store (lib/store.ts), AuthGate and the pages that log in and out.  A    *)
(* user stands for the wallet that logs in as that user, and its tokens.   *)
(***************************************************************************)
CONSTANTS Person, Nobody

ASSUME SessionAssumption == Nobody \notin Person

VARIABLES verified,   \* people the server holds for VERIFIED
          tokens,     \* store: whose accessToken and currentUserId (persisted)
          gateOpen,   \* store: kycStatus = "VERIFIED" (persisted)
          publicKey,  \* of the wallet the provider holds
          connects,   \* the wallets whose connect() awaits its login
          meAnswer,   \* the query "me" of this access token
          kycData,    \* cached answer of the query "kyc-status"
          route,      \* "splash" is the public page, "app" any guarded one
          deleting    \* a page awaits the deletion of the account

sessionVars == <<verified, tokens, gateOpen, publicKey, connects, meAnswer, kycData, route,
                 deleting>>

SessionTypeOK ==
  /\ verified \subseteq Person
  /\ tokens \in Person \cup {Nobody}
  /\ gateOpen \in BOOLEAN
  /\ publicKey \in Person \cup {Nobody}
  /\ connects \subseteq Person
  /\ meAnswer \in {"none", "arrived"}
  /\ kycData \in {"none", "verified", "unverified"}
  /\ route \in {"splash", "kyc", "app"}
  /\ deleting \in BOOLEAN

SessionInit ==
  /\ verified = {} /\ tokens = Nobody /\ gateOpen = FALSE
  /\ publicKey = Nobody /\ connects = {} /\ meAnswer = "none"
  /\ kycData = "none" /\ route = "splash"
  /\ deleting = FALSE

\* Module Kyc; a late webhook may also take it back.
ServerDecides(u) ==
  /\ verified' = IF u \in verified THEN verified \ {u} ELSE verified \cup {u}
  /\ UNCHANGED <<tokens, gateOpen, publicKey, connects, meAnswer, kycData, route, deleting>>

\* connect(), up to walletLogin: from the splash page, which allows one at a
\* time, or from wallet/manage, which does not.
Connect(u) ==
  /\ route # "kyc"
  /\ route = "splash" => connects = {}
  /\ connects' = connects \cup {u}
  /\ UNCHANGED <<verified, tokens, gateOpen, publicKey, meAnswer, kycData, route, deleting>>

\* Nothing is awaited between setTokens, setCurrentUser and setPublicKey; a
\* new access token is a new "me" query.
LoggedIn(u) ==
  /\ u \in connects
  /\ connects' = connects \ {u}
  /\ tokens' = u /\ publicKey' = u /\ meAnswer' = "none"
  /\ UNCHANGED <<verified, gateOpen, kycData, route, deleting>>

ConnectFails(u) ==
  /\ u \in connects
  /\ connects' = connects \ {u}
  /\ UNCHANGED <<verified, tokens, gateOpen, publicKey, meAnswer, kycData, route, deleting>>

\* The server's answer to getCurrentUser, copied by the effect of AuthGate.
MeArrives ==
  /\ tokens # Nobody /\ meAnswer = "none"
  /\ meAnswer' = "arrived" /\ gateOpen' = (tokens \in verified)
  /\ UNCHANGED <<verified, tokens, publicKey, connects, kycData, route, deleting>>

\* Mutant: the public route is also where the unverified are sent.
GateToSplash ==
  IF tokens = Nobody THEN "splash"
  ELSE IF route = "splash" THEN "app"
  ELSE IF route = "app" /\ ~gateOpen THEN "splash" ELSE route

\* Where the effects of AuthGate and of the splash page want the browser.
Gate ==
  IF tokens = Nobody THEN "splash"
  ELSE IF route = "splash" THEN "app"
  ELSE IF route = "app" /\ ~gateOpen THEN "kyc" ELSE route

\* Entering the KYC page runs its effect on the data that is cached.
EnterRoute(to) ==
  /\ route' = to
  /\ gateOpen' = IF to = "kyc" /\ kycData # "none" THEN kycData = "verified" ELSE gateOpen

Redirect ==
  /\ Gate # route
  /\ EnterRoute(Gate)
  /\ UNCHANGED <<verified, tokens, publicKey, connects, meAnswer, kycData, deleting>>

\* A link: the effects of a page run before its user can follow one.
Follow(to) ==
  /\ tokens # Nobody /\ route = Gate /\ to # route
  /\ EnterRoute(to)
  /\ UNCHANGED <<verified, tokens, publicKey, connects, meAnswer, kycData, deleting>>

\* getStatus, asked on mount and every five seconds while pending.
KycArrives ==
  /\ route = "kyc" /\ tokens # Nobody
  /\ gateOpen' = (tokens \in verified)
  /\ kycData' = IF tokens \in verified THEN "verified" ELSE "unverified"
  /\ UNCHANGED <<verified, tokens, publicKey, connects, meAnswer, route, deleting>>

\* The cache drops a query nobody has used for five minutes.
KycDropped ==
  /\ route # "kyc" /\ kycData # "none"
  /\ kycData' = "none"
  /\ UNCHANGED <<verified, tokens, gateOpen, publicKey, connects, meAnswer, route, deleting>>

\* The answer to handleStart, which may come after a verdict or a logout.
StartAnswers ==
  /\ gateOpen' = FALSE
  /\ UNCHANGED <<verified, tokens, publicKey, connects, meAnswer, kycData, route, deleting>>

\* Mutant: only the tokens are forgotten.
LogoutTokens ==
  /\ route = "app" /\ tokens # Nobody
  /\ tokens' = Nobody /\ meAnswer' = "none"
  /\ route' = "splash"
  /\ UNCHANGED <<verified, gateOpen, publicKey, connects, kycData, deleting>>

\* handleLogout: the KYC status and the query cache are left as they are.
Logout ==
  /\ route = "app" /\ tokens # Nobody
  /\ tokens' = Nobody /\ publicKey' = Nobody /\ meAnswer' = "none"
  /\ route' = "splash"
  /\ UNCHANGED <<verified, gateOpen, connects, kycData, deleting>>

\* The page's button: the tokens stay.
DisconnectWallet ==
  /\ route = "app" /\ publicKey # Nobody
  /\ publicKey' = Nobody
  /\ UNCHANGED <<verified, tokens, gateOpen, connects, meAnswer, kycData, route, deleting>>

HandleDeleteAccount ==
  /\ route = "app" /\ tokens # Nobody /\ ~deleting
  /\ deleting' = TRUE
  /\ UNCHANGED <<verified, tokens, gateOpen, publicKey, connects, meAnswer, kycData, route>>

\* The answer ends the session there is by then, wherever it is.
AccountDeleted ==
  /\ deleting /\ deleting' = FALSE
  /\ tokens' = Nobody /\ publicKey' = Nobody /\ meAnswer' = "none"
  /\ route' = "splash"
  /\ UNCHANGED <<verified, gateOpen, connects, kycData>>

DeletionFails ==
  /\ deleting /\ deleting' = FALSE
  /\ UNCHANGED <<verified, tokens, gateOpen, publicKey, connects, meAnswer, kycData, route>>

\* A 401, to a request of this login or of an earlier one: the store is
\* removed and the page loaded anew.
Unauthorized ==
  /\ tokens' = Nobody /\ gateOpen' = FALSE
  /\ publicKey' = Nobody /\ connects' = {} /\ meAnswer' = "none" /\ kycData' = "none"
  /\ route' = "splash" /\ deleting' = FALSE
  /\ UNCHANGED verified

\* Only what partialize names survives a reload.
Reload ==
  /\ publicKey' = Nobody /\ connects' = {} /\ meAnswer' = "none" /\ kycData' = "none"
  /\ deleting' = FALSE
  /\ UNCHANGED <<verified, tokens, gateOpen, route>>

SessionNext ==
  \/ \E u \in Person : ServerDecides(u) \/ Connect(u) \/ LoggedIn(u) \/ ConnectFails(u)
  \/ \E to \in {"splash", "kyc", "app"} : Follow(to)
  \/ MeArrives \/ Redirect \/ KycArrives \/ KycDropped \/ StartAnswers
  \/ Logout \/ DisconnectWallet \/ HandleDeleteAccount \/ AccountDeleted \/ DeletionFails
  \/ Unauthorized \/ Reload

\* The router carries out a replace().
SessionFairness == WF_sessionVars(Redirect)

SessionSpec == SessionInit /\ [][SessionNext]_sessionVars /\ SessionFairness

-----------------------------------------------------------------------------
\* The wallet a page would sign with is the one its tokens belong to, however
\* logins overlap each other and logouts (StellarWalletProvider.tsx:69-131).
WalletOwnsTokens == publicKey # Nobody => tokens = publicKey

\* The redirects of AuthGate and of the splash page come to rest: they do not
\* send a browser round in circles (Providers.tsx:58-70, page.tsx:21-23).
RedirectsSettle == []<>(route = Gate)

\* A redirect leads to a page that redirects no further, but for the one from
\* the splash page into the app: there are never more than two in a row.
RedirectRests ==
  [][Redirect => route' = Gate' \/ (route = "splash" /\ route' = "app")]_sessionVars
=============================================================================

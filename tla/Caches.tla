-------------------------------- MODULE Caches ---------------------------------
(***************************************************************************)
(* Two values apps/api keeps between calls: CoinGecko's rates, for quotes, *)
(* and the payout provider's access token.  Calls overlap, each of them    *)
(* fetches when the value it finds is too old, and answers arrive in any   *)
(* order.  Time passes in ticks, up to a horizon.                          *)
(***************************************************************************)
EXTENDS Naturals

CONSTANTS Quote, Payout,     \* calls of quote or create, and of the payout API
          RateLife,          \* 60 seconds
          TokenTerm,         \* expires_in
          Buffer,            \* 60 seconds
          Horizon            \* how long time goes on

ASSUME CachesAssumption ==
  /\ RateLife \in Nat \ {0} /\ TokenTerm \in Nat /\ Buffer \in Nat /\ Horizon \in Nat
  /\ Buffer < TokenTerm

VARIABLES now,
          rates,             \* rateCache: its kind, when CoinGecko had these
                             \* prices (seen); and rateCacheTime
          quote,             \* the calls of getLiveRates
          bearer,            \* accessToken: when it was issued; and tokenExpiry
          payout             \* the calls of getAccessToken

cacheVars == <<now, rates, quote, bearer, payout>>

Kind == {"empty", "static", "live"}

CachesTypeOK ==
  /\ now \in Nat
  /\ rates \in [kind : Kind, seen : Nat, time : Nat]
  /\ quote \in [Quote -> [at : {"idle", "fetching", "served", "failed"}, begun : Nat,
                          kind : Kind, seen : Nat]]
  /\ bearer \in [held : BOOLEAN, issued : Nat, expiry : Nat]
  /\ payout \in [Payout -> [at : {"idle", "fetching", "sent", "threw"}, begun : Nat,
                            issued : Nat, expiry : Nat, sent : Nat]]

\* rateCacheTime starts at 0, long ago.
CachesInit ==
  /\ now = RateLife
  /\ rates = [kind |-> "empty", seen |-> 0, time |-> 0]
  /\ quote = [q \in Quote |-> [at |-> "idle", begun |-> 0, kind |-> "empty", seen |-> 0]]
  /\ bearer = [held |-> FALSE, issued |-> 0, expiry |-> 0]
  /\ payout = [p \in Payout |-> [at |-> "idle", begun |-> 0, issued |-> 0, expiry |-> 0,
                                 sent |-> 0]]

TimeGoesOn ==
  /\ now < RateLife + Horizon
  /\ now' = now + 1
  /\ UNCHANGED <<rates, quote, bearer, payout>>

-----------------------------------------------------------------------------
(* TransactionsService.getLiveRates                                        *)

\* The call returns these rates.
Serve(q, at, begun, kept) ==
  quote' = [quote EXCEPT ![q] = [at |-> at, begun |-> begun,
                                 kind |-> kept.kind, seen |-> kept.seen]]

GetLiveRates(q) ==
  /\ quote[q].at = "idle"
  /\ IF rates.kind # "empty" /\ now < rates.time + RateLife
     THEN Serve(q, "served", now, rates)
     ELSE quote' = [quote EXCEPT ![q].at = "fetching", ![q].begun = now]
  /\ UNCHANGED <<now, rates, bearer, payout>>

\* Mutant: the age of the rates is counted from the answer.
RatesArriveFresh(q, seen) ==
  /\ quote[q].at = "fetching" /\ quote[q].begun <= seen /\ seen <= now
  /\ rates' = [kind |-> "live", seen |-> seen, time |-> now]
  /\ Serve(q, "served", quote[q].begun, rates')
  /\ UNCHANGED <<now, bearer, payout>>

\* The prices CoinGecko had at some time since the call began; their age is
\* counted from the beginning of the call.
RatesArrive(q, seen) ==
  /\ quote[q].at = "fetching" /\ quote[q].begun <= seen /\ seen <= now
  /\ rates' = [kind |-> "live", seen |-> seen, time |-> quote[q].begun]
  /\ Serve(q, "served", quote[q].begun, rates')
  /\ UNCHANGED <<now, bearer, payout>>

\* An answer without the price: the estimate in the code is kept like a price.
RatesMissing(q) ==
  /\ quote[q].at = "fetching"
  /\ rates' = [kind |-> "static", seen |-> 0, time |-> quote[q].begun]
  /\ Serve(q, "served", quote[q].begun, rates')
  /\ UNCHANGED <<now, bearer, payout>>

\* No answer: the last rates, however old, or the estimates.
RatesFail(q) ==
  /\ quote[q].at = "fetching"
  /\ rates' = IF rates.kind = "empty" THEN [rates EXCEPT !.kind = "static"] ELSE rates
  /\ Serve(q, "failed", quote[q].begun, rates')
  /\ UNCHANGED <<now, bearer, payout>>

RateStep ==
  \E q \in Quote : \/ GetLiveRates(q) \/ RatesMissing(q) \/ RatesFail(q)
                   \/ \E seen \in RateLife .. RateLife + Horizon : RatesArrive(q, seen)

-----------------------------------------------------------------------------
(* SettlementService.getAccessToken, and the request that carries it       *)

\* initiateUpiPayout or checkPayoutStatus sends its request.
SendWith(p, token, begun) ==
  payout' = [payout EXCEPT ![p] = [at |-> "sent", begun |-> begun, issued |-> token.issued,
                                   expiry |-> token.expiry, sent |-> now]]

GetAccessToken(p) ==
  /\ payout[p].at = "idle"
  /\ IF bearer.held /\ now + Buffer < bearer.expiry
     THEN SendWith(p, bearer, now)
     ELSE payout' = [payout EXCEPT ![p].at = "fetching", ![p].begun = now]
  /\ UNCHANGED <<now, rates, quote, bearer>>

\* Issued at some time since the call began; its term is counted from the answer.
TokenAnswered(p, issued) ==
  /\ payout[p].at = "fetching" /\ payout[p].begun <= issued /\ issued <= now
  /\ bearer' = [held |-> TRUE, issued |-> issued, expiry |-> now + TokenTerm]
  /\ SendWith(p, bearer', payout[p].begun)
  /\ UNCHANGED <<now, rates, quote>>

AuthFails(p) ==
  /\ payout[p].at = "fetching"
  /\ payout' = [payout EXCEPT ![p].at = "threw"]
  /\ UNCHANGED <<now, rates, quote, bearer>>

BearerStep ==
  \E p \in Payout : \/ GetAccessToken(p) \/ AuthFails(p)
                    \/ \E issued \in RateLife .. RateLife + Horizon : TokenAnswered(p, issued)

CachesNext == TimeGoesOn \/ RateStep \/ BearerStep

CachesSpec == CachesInit /\ [][CachesNext]_cacheVars

-----------------------------------------------------------------------------
\* A quote whose fetch did not fail gets prices less than RateLife older than
\* its call, and no request carries an expired token unless the answer that
\* brought the token took longer than the buffer, however calls overlap.
FreshWhenUsed ==
  /\ \A q \in Quote :
       quote[q].at = "served" /\ quote[q].kind = "live" =>
         quote[q].begun < quote[q].seen + RateLife
  /\ \A p \in Payout :
       payout[p].at = "sent" =>
         \/ payout[p].sent < payout[p].issued + TokenTerm
         \/ payout[p].issued + TokenTerm + Buffer < payout[p].expiry
=============================================================================

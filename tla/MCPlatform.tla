------------------------------ MODULE MCPlatform ------------------------------
(***************************************************************************)
(* The platform for TLC.  No property relates two components, so each      *)
(* behaviour uses one of them, the subject: TLC sees every behaviour of    *)
(* each component, and none of their product.                              *)
(***************************************************************************)
EXTENDS Platform

CONSTANTS a1, a2, a3, i, f, g, t1, t2

MCAddress == {a1, a2, a3}

\* Addresses whose hashes divide by 10, 20, 30, 50, or overflow; one says "sanction".
MCWallets ==
  {[code |-> code, named |-> code = <<71, 66, 65>>] :
     code \in {<<71, 66, c>> : c \in {65, 69, 79, 89}} \cup {<<71, 67, c>> : c \in {68, 78, 88}}
              \cup {<<48, 120, c>> : c \in {48, 49}} \cup {<< >>}}
MCScores == {0, 29, 30, 59, 60, 79, 80, 100}

\* A payment before the window of thirty days and the turn of the year, in an
\* asset the revenue does not name, and one in the window; the second's reward,
\* of a campaign, and a reward of no payment and no campaign.
MCBill ==
  <<[user |-> "ann", merchant |-> "cafe", asset |-> "BTC", paise |-> 5,
     created |-> 30, year |-> 2025, month |-> 12],
    [user |-> "ann", merchant |-> "shop", asset |-> "USDC", paise |-> 7,
     created |-> 770, year |-> 2026, month |-> 1]>>
MCAward ==
  <<[user |-> "ann", payment |-> 2, campaign |-> "spring", reason |-> "SPEND",
     stars |-> 3, month |-> 1],
    [user |-> "ann", payment |-> 0, campaign |-> "none", reason |-> "REFERRAL",
     stars |-> 4, month |-> 1]>>

\* Who pays, up to the symmetry of the inviter's friends and of the purchases.
MCPayers == {<<i, i>>, <<i, f>>, <<f, f>>, <<f, g>>}

\* Only an administrator's role matters to a list: one other role reads it.
MCViewers ==
  IF CanActivate("CONSUMER", resource) THEN {"CONSUMER", "ADMIN"} ELSE Role

Uses(c) == c \in inUse

\* Where a component has several initial states, the others take one of them;
\* first, so that TLC does not enumerate their product.
MCInit ==
  /\ \E c \in Component : inUse = {c}
  /\ IF Uses("referrals") THEN TRUE ELSE payer = [p \in Purchase |-> i]
  /\ IF Uses("roles") THEN TRUE ELSE dbRole = "CONSUMER"
  /\ IF Uses("browse") THEN TRUE
     ELSE /\ resource = "user" /\ viewer = "ADMIN" /\ through = "api"
          /\ there = Row \ {1} /\ tie = [r \in Row |-> "none"]
  /\ IF Uses("wallets") THEN TRUE ELSE owned = {}
  /\ IF Uses("aml") THEN TRUE ELSE config = [provider |-> "mock", key |-> FALSE]
  /\ PlatformInit
  /\ Uses("referrals") => <<payer[t1], payer[t2]>> \in MCPayers
  /\ viewer \in MCViewers

\* Of the two ramp pages the first is a deposit, the second a withdrawal: a page
\* leaves nothing to the next one but loops of its own.
DepositFirst ==
  /\ page[1].ramp = "on"
  /\ shownPage = 2 => page[2].ramp = "off"

MCSpec == MCInit /\ [][PlatformNext]_platformVars /\ PlatformFairness
=============================================================================

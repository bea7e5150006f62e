------------------------------- MODULE Reports --------------------------------
(***************************************************************************)
(* apps/api, the reports over payments and rewards: a user's STAR balance, *)
(* the tax report, analytics of merchants, campaigns and rewards, and the  *)
(* administrator's overview.  The balance is read in three statements that *)
(* share no snapshot while rewards change.  The other reports are          *)
(* operators on the tables, compared as read at one moment.  What a row    *)
(* says besides its status never changes and is a constant.  Sums are      *)
(* exact: the model does not round as the code's numbers do.               *)
(***************************************************************************)
EXTENDS Naturals, Sequences, FiniteSetsExt

CONSTANTS
  Bill,              \* what each payment's row says: who paid whom, in what, when
  Award,             \* what each reward's row says: whose it is, and for what
  ThirtyDaysAgo,     \* in hours, like the time a payment was created
  Asker              \* the user whose balance is asked for

Payment == DOMAIN Bill
Reward == DOMAIN Award
Assets == {"ETH", "BTC", "SOL", "XLM", "USDC", "INR"}
Reasons == {"SPEND", "REFERRAL", "CAMPAIGN", "MERCHANT"}
AnyStatus == {"PENDING", "MINTED", "FAILED", "REVERSED"}

\* year and month are those of its completion.
ReportsAssumption ==
  /\ IsFiniteSet(Payment) /\ IsFiniteSet(Reward) /\ ThirtyDaysAgo \in Int
  /\ \A p \in Payment : /\ Bill[p].paise \in Nat /\ Bill[p].created \in Nat
                         /\ Bill[p].asset \in Assets /\ Bill[p].merchant # "any"
                         /\ {"user", "year", "month"} \subseteq DOMAIN Bill[p]
  /\ \A r \in Reward : /\ Award[r].stars \in Nat /\ Award[r].reason \in Reasons
                        /\ {"user", "payment", "campaign", "month"} \subseteq DOMAIN Award[r]
ASSUME ReportsAssumption

VARIABLES payment,             \* the status of each payment
          reward,              \* the status of each reward
          balance              \* the sums a balance request has read

reportVars == <<payment, reward, balance>>

ReportsTypeOK ==
  /\ payment \in [Payment -> {"OPEN", "COMPLETED", "FAILED"}]
  /\ reward \in [Reward -> AnyStatus \cup {"absent"}]
  /\ balance \in Seq(Nat) /\ Len(balance) <= 3

ReportsInit ==
  /\ payment = [p \in Payment |-> "OPEN"]
  /\ reward = [r \in Reward |-> "absent"]
  /\ balance = <<>>

\* The sum of what w says of each member of S, as reduce and aggregate make it.
SumUp(w, S) == MapThenSumSet(LAMBDA x : w[x], S)
AddUp(f) == SumUp(f, DOMAIN f)

Paise == [p \in Payment |-> Bill[p].paise]
Stars == [r \in Reward |-> Award[r].stars]

Completed == {p \in Payment : payment[p] = "COMPLETED"}
Issued(statuses) == {r \in Reward : reward[r] \in statuses}
Minted == Issued({"MINTED"})
IssuedTo(u, statuses) == {r \in Issued(statuses) : Award[r].user = u}

-----------------------------------------------------------------------------
(* The tables change.                                                      *)

\* The processor completes a payment or fails it, even a completed one.
PaymentEnds(p, status) ==
  /\ payment[p] = "OPEN" \/ (payment[p] = "COMPLETED" /\ status = "FAILED")
  /\ payment' = [payment EXCEPT ![p] = status]
  /\ UNCHANGED <<reward, balance>>

\* By the processor, by a referral, or by an administrator with any status.
IssueReward(r, status) ==
  /\ reward[r] = "absent"
  /\ reward' = [reward EXCEPT ![r] = status]
  /\ UNCHANGED <<payment, balance>>

\* mint and reverse look at no status; the processor fails a pending reward.
ChangeReward(r, status) ==
  /\ reward[r] \notin {"absent", status}
  /\ status \in {"MINTED", "REVERSED"} \/ (reward[r] = "PENDING" /\ status = "FAILED")
  /\ reward' = [reward EXCEPT ![r] = status]
  /\ UNCHANGED <<payment, balance>>

-----------------------------------------------------------------------------
(* The balance: three statements.                                          *)

\* Mutant: the pending rewards are read first.
StatementsSwapped == <<{"PENDING"}, {"MINTED"}, AnyStatus>>

\* What each statement sums.
Statements == <<{"MINTED"}, {"PENDING"}, AnyStatus>>

ReadBalance ==
  /\ Len(balance) < Len(Statements)
  /\ balance' = Append(balance, SumUp(Stars, IssuedTo(Asker, Statements[Len(balance) + 1])))
  /\ UNCHANGED <<payment, reward>>

ReportsNext ==
  \/ \E p \in Payment, status \in {"COMPLETED", "FAILED"} : PaymentEnds(p, status)
  \/ \E r \in Reward, status \in AnyStatus : IssueReward(r, status) \/ ChangeReward(r, status)
  \/ ReadBalance

ReportsSpec == ReportsInit /\ [][ReportsNext]_reportVars

-----------------------------------------------------------------------------
(* The other reports.                                                      *)

\* The members of S by what they have in key, and what is made of each group.
GroupedBy(key, S) == [k \in {key[x] : x \in S} |-> {x \in S : key[x] = k}]
SumsOf(w, groups) == [k \in DOMAIN groups |-> SumUp(w, groups[k])]
CountsOf(groups) == [k \in DOMAIN groups |-> Cardinality(groups[k])]

Day == [p \in Payment |-> Bill[p].created \div 24]
Month == [p \in Payment |-> Bill[p].month]
AssetIn == [p \in Payment |-> Bill[p].asset]
Reason == [r \in Reward |-> Award[r].reason]
EarnedIn == [r \in Reward |-> Award[r].month]
ReasonAndCampaign == [r \in Reward |-> <<Award[r].reason, Award[r].campaign>>]

Users == {Bill[p].user : p \in Payment}
Years == {Bill[p].year : p \in Payment}
MerchantsPaid == {Bill[p].merchant : p \in Payment}
Holders == {Award[r].user : r \in Reward}

\* Of one merchant, or of "any", when the request names none.
PaidTo(m) == {p \in Payment : m \in {"any", Bill[p].merchant}}

MintedFor(m) == {r \in Minted : m = "any" \/ Award[r].payment \in PaidTo(m)}

Overview == [completed |-> Cardinality(Completed),
             failed    |-> Cardinality({p \in Payment : payment[p] = "FAILED"}),
             minted    |-> SumUp(Stars, Minted),
             pending   |-> Cardinality(Issued({"PENDING"}))]

\* The merchant filters the payments and not the rewards.
DashboardMetrics(m) == [volume |-> SumUp(Paise, Completed \cap PaidTo(m)),
                        count  |-> Cardinality(Completed \cap PaidTo(m)),
                        minted |-> SumUp(Stars, Minted)]

\* Of the last thirty days; only what came in USDC or XLM is counted by asset.
RevenueMetrics(m) ==
  LET recent == {p \in Completed \cap PaidTo(m) : Bill[p].created >= ThirtyDaysAgo}
      days == GroupedBy(Day, recent)
      Paying(asset) == [d \in DOMAIN days |-> Cardinality({p \in days[d] : AssetIn[p] = asset})]
  IN [volume |-> SumUp(Paise, recent), count |-> Cardinality(recent),
      series |-> [volume |-> SumsOf(Paise, days), count |-> CountsOf(days),
                  usdc |-> Paying("USDC"), xlm |-> Paying("XLM")]]

\* The database groups by reason and campaign; the service adds the groups up
\* by the one and by the other.
RewardMetrics(m) ==
  LET sums == SumsOf(Stars, GroupedBy(ReasonAndCampaign, MintedFor(m)))
  IN [total |-> AddUp(sums),
      byReason |-> [reason \in Reasons |-> SumUp(sums, {k \in DOMAIN sums : k[1] = reason})],
      campaign |-> [c \in {k[2] : k \in DOMAIN sums} \ {"none"} |->
                      SumUp(sums, {k \in DOMAIN sums : k[2] = c})]]

ConsumerRewardMetrics(u) ==
  LET minted == IssuedTo(u, {"MINTED"})
  IN [total |-> SumUp(Stars, minted),
      byReason |-> [reason \in Reasons |-> SumUp(Stars, {r \in minted : Reason[r] = reason})],
      months |-> SumsOf(Stars, GroupedBy(EarnedIn, minted))]

\* The stars of the campaign that were minted.
CampaignAnalytics(c) == [distributed |-> SumUp(Stars, {r \in Minted : Award[r].campaign = c})]

\* Payments and rewards of any status.
MerchantAnalytics(m) ==
  [revenue |-> SumUp(Paise, PaidTo(m)),
   issued |-> SumUp(Stars, {r \in Issued(AnyStatus) : Award[r].payment \in PaidTo(m)})]

\* The stars of a payment's rewards, of any status.
StarRewards ==
  [p \in Payment |-> SumUp(Stars, {r \in Issued(AnyStatus) : Award[r].payment = p})]

\* What a user's payments of a year come to.
TaxReport(u, year) ==
  LET mine == {p \in Completed : Bill[p].user = u /\ Bill[p].year = year}
      asset == GroupedBy(AssetIn, mine)
      month == GroupedBy(Month, mine)
  IN [summary |-> [count |-> Cardinality(mine), paise |-> SumUp(Paise, mine),
                   stars |-> SumUp(StarRewards, mine)],
      byAsset |-> [count |-> CountsOf(asset), paise |-> SumsOf(Paise, asset)],
      byMonth |-> [count |-> CountsOf(month), paise |-> SumsOf(Paise, month),
                   stars |-> SumsOf(StarRewards, month)]]

-----------------------------------------------------------------------------
RevenueAgrees ==
  /\ \A m \in MerchantsPaid \cup {"any"} :
       LET revenue == RevenueMetrics(m)  series == revenue.series
       IN /\ AddUp(series.volume) = revenue.volume /\ AddUp(series.count) = revenue.count
          /\ \A d \in DOMAIN series.count : series.usdc[d] + series.xlm[d] <= series.count[d]
          /\ revenue.volume <= DashboardMetrics(m).volume
          /\ DashboardMetrics(m).volume <= MerchantAnalytics(m).revenue
  /\ AddUp([m \in MerchantsPaid |-> DashboardMetrics(m).volume]) = DashboardMetrics("any").volume

TaxAgrees ==
  /\ \A u \in Users, year \in Years :
       LET tax == TaxReport(u, year)
       IN /\ AddUp(tax.byMonth.paise) = tax.summary.paise
          /\ AddUp(tax.byMonth.count) = tax.summary.count
          /\ AddUp(tax.byMonth.stars) = tax.summary.stars
          /\ AddUp(tax.byAsset.paise) = tax.summary.paise
          /\ AddUp(tax.byAsset.count) = tax.summary.count
  /\ AddUp([of \in Users \X Years |-> TaxReport(of[1], of[2]).summary.paise])
       = DashboardMetrics("any").volume

StarsAgree ==
  /\ \A m \in MerchantsPaid \cup {"any"} :
       LET stars == RewardMetrics(m)
       IN /\ AddUp(stars.byReason) = stars.total
          /\ stars.total <= DashboardMetrics(m).minted
          /\ m # "any" => stars.total <= MerchantAnalytics(m).issued
  /\ LET stars == RewardMetrics("any")
     IN /\ stars.total = Overview.minted
        /\ \A c \in DOMAIN stars.campaign : stars.campaign[c] = CampaignAnalytics(c).distributed
  /\ \A u \in Holders :
       LET mine == ConsumerRewardMetrics(u)
       IN AddUp(mine.byReason) = mine.total /\ AddUp(mine.months) = mine.total
  /\ AddUp([u \in Holders |-> ConsumerRewardMetrics(u).total]) = Overview.minted

\* A balance never counts a reward as minted and as pending, however rewards
\* change between its statements; and the reports that count the same thing in
\* different ways agree: a series adds up to its sum, the tax reports of all
\* users and years to the dashboard's volume, the merchants' volumes too, and
\* minted stars come to the same by reason, by campaign, by month and by user.
ReportsAgree ==
  /\ Len(balance) = 3 => balance[1] + balance[2] <= balance[3]
  /\ RevenueAgrees /\ TaxAgrees /\ StarsAgree
=============================================================================

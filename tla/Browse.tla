-------------------------------- MODULE Browse --------------------------------
(***************************************************************************)
(* The lists of apps/api, the pages that walk them and the rows they lead  *)
(* to: a reader walks a list page by page, newest row first, back and      *)
(* forth, and opens rows it was shown, while rows are created, change and  *)
(* are deleted.  Each service filters its list and checks a single row in  *)
(* two different places.                                                   *)
(***************************************************************************)
EXTENDS Roles, FiniteSets

CONSTANTS Rows,       \* rows 1 .. Rows, in the order of their created_at
          PageSize

ASSUME BrowseAssumption == Rows \in Nat /\ PageSize \in Nat \ {0}

VARIABLES resource,   \* whose list it is: never changes
          viewer,     \* the role in the reader's token: never changes
          through,    \* what the reader asks with: never changes
          tie,        \* how the reader is tied to each row
          there,      \* the rows that exist
          hidden,     \* those outside the query's filter, or soft-deleted users
          reading     \* the walk

browseVars == <<resource, viewer, through, tie, there, hidden, reading>>
\* What no step of the reader changes.
listVars == <<resource, viewer, through, tie, there, hidden>>

Row == 1 .. Rows
\* second: the reader owns the merchant that was paid, or was invited.
Tie == {"none", "owner", "second"}
TiesTo(c) == IF c \in {"transaction", "reward", "referral"} THEN Tie ELSE {"none", "owner"}

\* A client of the API reads its answers; the pages of apps/web and apps/admin
\* read what the SDK makes of them.
Client == {"api", "sdk"}

BrowseTypeOK ==
  /\ resource \in Resource
  /\ viewer \in Role
  /\ through \in Client
  /\ tie \in [Row -> Tie]
  /\ there \subseteq Row /\ hidden \subseteq Row
  /\ reading \in [at : {"first", "fetch", "counting", "shown"}, next : BOOLEAN,
                  page : 1 .. Rows + 1, items : SUBSET Row, start : SUBSET Row,
                  seen : SUBSET Row, refused : SUBSET Row, steady : BOOLEAN]

\* An administrator is tied to nothing; a row can be missing, and created later.
BrowseInit ==
  /\ resource \in Resource
  /\ viewer \in {role \in Role : CanActivate(role, resource)}
  /\ through \in Client
  /\ tie \in IF viewer = "ADMIN" THEN [Row -> {"none"}] ELSE [Row -> TiesTo(resource)]
  /\ there \in {Row \ {r} : r \in Row}
  /\ hidden = {}
  /\ reading = [at |-> "first", next |-> FALSE, page |-> 1, items |-> {}, start |-> {},
                seen |-> {}, refused |-> {}, steady |-> TRUE]

-----------------------------------------------------------------------------
(* What each service lists, and what it opens.                             *)

IsAdmin == viewer = "ADMIN"

\* accessWhere, in the list and in the row's query.
TransactionAccess(r) == IsAdmin \/ tie[r] \in {"owner", "second"}

RewardFilter(r) == IsAdmin \/ tie[r] \in {"owner", "second"}
AssertRewardAccess(r) == IsAdmin \/ tie[r] = "owner" \/ tie[r] = "second"
FindReward(r) == r \in there /\ AssertRewardAccess(r)

ReferralFilter(r) == IsAdmin \/ tie[r] \in {"owner", "second"}
FindVisible(r) == r \in there /\ (IsAdmin \/ tie[r] = "owner" \/ tie[r] = "second")

WalletFilter(r) == IsAdmin \/ tie[r] = "owner"
AssertWalletAccess(r) == IsAdmin \/ tie[r] = "owner"
FindOwnWallet(r) == r \in there /\ AssertWalletAccess(r)

MerchantFilter(r) == IsAdmin \/ tie[r] = "owner"
AssertMerchantAccess(r) == IsAdmin \/ tie[r] = "owner"
FindMerchant(r) == r \in there /\ AssertMerchantAccess(r)

CampaignFilter(r) == IsAdmin \/ tie[r] = "owner"
AssertCampaignAccess(r) == IsAdmin \/ tie[r] = "owner"
FindCampaign(r) == r \in there /\ AssertCampaignAccess(r)

\* deletedAt is null, whatever else is asked for.
UserFilter(r) == r \notin hidden
FindUser(r) == r \in there \ hidden

ListedTo(r) ==
  CASE resource = "transaction" -> TransactionAccess(r)
    [] resource = "reward" -> RewardFilter(r)
    [] resource = "referral" -> ReferralFilter(r)
    [] resource = "wallet" -> WalletFilter(r)
    [] resource = "merchant" -> MerchantFilter(r)
    [] resource = "campaign" -> CampaignFilter(r)
    [] resource = "user" -> UserFilter(r)

OpensTo(r) ==
  CASE resource = "transaction" -> r \in there /\ TransactionAccess(r)
    [] resource = "reward" -> FindReward(r)
    [] resource = "referral" -> FindVisible(r)
    [] resource = "wallet" -> FindOwnWallet(r)
    [] resource = "merchant" -> FindMerchant(r)
    [] resource = "campaign" -> FindCampaign(r)
    [] resource = "user" -> FindUser(r)

Listed == {r \in there \ hidden : ListedTo(r)}

\* The page of s that begins at an offset; rows are ordered by created_at, descending.
RowsAt(s, offset) ==
  {r \in s : Cardinality({n \in s : n > r}) \in offset .. offset + PageSize - 1}

\* Mutant: pages counted from nought.
OffsetFromNought(page) == page * PageSize

\* toPagination.
Offset(page) == (page - 1) * PageSize

\* The interceptor.
TotalPages(total) == (total + PageSize - 1) \div PageSize
HasNextPage(page, total) == page < TotalPages(total)

\* ApiClient.request hands on the data of every answer that has any: a page that
\* asked for a list gets its rows, and looks for data and meta in them.
Unwrapped == through = "sdk"
RowsShown(items) == IF Unwrapped THEN {} ELSE items

-----------------------------------------------------------------------------
(* A list request runs two statements, findMany and count, which do not    *)
(* share a snapshot (READ COMMITTED).                                      *)

FindMany ==
  /\ reading.at \in {"first", "fetch"}
  /\ reading' = [reading EXCEPT !.at = "counting",
                                !.items = RowsAt(Listed, Offset(reading.page)),
                                !.start = IF reading.at = "first" THEN Listed ELSE @]
  /\ UNCHANGED listVars

Count ==
  /\ reading.at = "counting"
  /\ reading' = [reading EXCEPT !.at = "shown", !.items = {},
                                !.seen = @ \cup RowsShown(reading.items),
                                !.next = /\ ~Unwrapped
                                         /\ HasNextPage(reading.page, Cardinality(Listed))]
  /\ UNCHANGED listVars

GoTo(page) ==
  /\ reading.at = "shown"
  /\ reading' = [reading EXCEPT !.at = "fetch", !.page = page]
  /\ UNCHANGED listVars

\* As meta.hasNextPage and meta.hasPreviousPage allow.
NextPage == reading.next /\ GoTo(reading.page + 1)
PreviousPage == ~Unwrapped /\ reading.page > 1 /\ GoTo(reading.page - 1)

\* findOne, or the referral's own check, refuses a row the reader was shown;
\* a row that opens changes nothing.
OpenRow(r) ==
  /\ r \in reading.seen
  /\ ~OpensTo(r)
  /\ reading' = [reading EXCEPT !.refused = @ \cup {r}]
  /\ UNCHANGED listVars

\* A row appears where its created_at, the start of its database transaction,
\* puts it.
RowCreated(r) ==
  /\ r \notin there
  /\ there' = there \cup {r}
  /\ UNCHANGED <<resource, viewer, through, tie, hidden, reading>>

\* A status changes, and the row leaves a list of one status or comes back;
\* a user is deleted for good.  One change during a walk is enough to skip a
\* row, and the walk promises nothing from then on.
RowChanges(r) ==
  /\ r \in there /\ reading.steady
  /\ hidden' = IF r \in hidden THEN hidden \ {r} ELSE hidden \cup {r}
  /\ resource = "user" => r \notin hidden
  /\ reading' = [reading EXCEPT !.steady = FALSE]
  /\ UNCHANGED <<resource, viewer, through, tie, there>>

\* Somebody else's accept overtakes the reader's (module Referrals).
InvitationTaken(r) ==
  /\ resource = "referral" /\ tie[r] = "second" /\ reading.steady
  /\ tie' = [tie EXCEPT ![r] = "none"]
  /\ reading' = [reading EXCEPT !.steady = FALSE]
  /\ UNCHANGED <<resource, viewer, through, there, hidden>>

BrowseNext ==
  \/ FindMany \/ Count \/ NextPage \/ PreviousPage
  \/ \E r \in Row : OpenRow(r) \/ RowCreated(r) \/ RowChanges(r) \/ InvitationTaken(r)

BrowseSpec == BrowseInit /\ [][BrowseNext]_browseVars

-----------------------------------------------------------------------------
(* A reader who goes on until there is no next page, back and forth on the *)
(* way, has seen every row that was in the list when it began, and can     *)
(* open each row it was shown, although rows were created above and        *)
(* between its pages and between a page and its total; only a row that     *)
(* leaves the list can make it skip another.                               *)
ToTheEnd == reading.at = "shown" /\ ~reading.next => reading.start \subseteq reading.seen

WalkIsWhole ==
  reading.steady => reading.refused = {} /\ (through = "api" => ToTheEnd)

(* The same of the pages, whose SDK promises a PaginationResponse with     *)
(* "data: T[]" and "meta" (packages/types/src/api.ts:8-11).                *)
PagesShowLists == through = "sdk" /\ reading.steady => ToTheEnd
=============================================================================

-------------------------------- MODULE Ramps --------------------------------
(***************************************************************************)
(* The deposit and withdrawal pages (apps/web, wallet/onramp and offramp), *)
(* the SDK client they call through and the status loop of apps/api/ramps. *)
(*                                                                         *)
(* A page asks for the status of its anchor transaction.  The server does  *)
(* not answer until the anchor reports a terminal status: it asks up to    *)
(* MaxRetries times, and sleeps five seconds after each answer.  The       *)
(* client gives up after ten seconds and asks again five seconds later,    *)
(* and the loop it gave up on goes on.  A tick is five seconds.  Nothing   *)
(* in the code bounds how long the anchor takes to answer: Latency does.   *)
(***************************************************************************)
EXTENDS Integers, FiniteSets

CONSTANTS Visits,        \* ramp pages a user opens, one after the other
          MaxRetries,    \* requests of one status loop (60 in the code)
          Latency,       \* ticks an answer takes, on average over a loop
          RampFaults     \* requests to the anchor that are refused

ASSUME RampAssumption ==
  /\ Visits \in Nat /\ RampFaults \in Nat /\ Latency \in Nat
  /\ MaxRetries \in Nat /\ MaxRetries >= 3

VARIABLES page,          \* per visit: the page's step, and the call it awaits
          shownPage,     \* the visit whose page is mounted (0: none yet)
          anchor,        \* the anchor transaction of the visit
          poll,          \* the page's polling: see PollStep
          loops,         \* the server's loops, and
          due,           \* those with a request under way: the others sleep
          refused

rampVars == <<page, shownPage, anchor, poll, loops, due, refused>>

Visit == 1..Visits

\* The ticks a loop lives at most: it sleeps between its requests, and awaits each.
Life == (MaxRetries - 1) + MaxRetries * Latency

\* A loop, by the ticks since it began and the requests answered.
StatusLoop == [age : 0..Life, tries : 0..(MaxRetries - 1)]
NewLoop == [age |-> 0, tries |-> 0]

Terminal == {"completed", "failed"}  \* error, expired and refunded: failed

\* "waiting" has been under way for less than five seconds, "late" for less
\* than ten; "armed" is the five second timer between two requests.
PollStep == {"off", "waiting", "late", "armed"}

PageType ==
  [ramp : {"on", "off"},
   await : {"nothing", "trustline", "changeTrust", "authenticate", "initiate"},
   step : {"closed", "amount", "trustline", "loading", "anchor", "polling",
           "done", "error"}]

RampTypeOK ==
  /\ page \in [Visit -> PageType]
  /\ shownPage \in 0..Visits
  /\ anchor \in [Visit -> {"none", "pending"} \cup Terminal]
  /\ poll \in [Visit -> PollStep]
  /\ loops \in [Visit -> SUBSET StatusLoop]
  /\ due \in [Visit -> SUBSET StatusLoop]
  /\ refused \in 0..RampFaults

RampInit ==
  /\ page = [v \in Visit |-> [ramp |-> "on", await |-> "nothing", step |-> "closed"]]
  /\ shownPage = 0
  /\ anchor = [v \in Visit |-> "none"]
  /\ poll = [v \in Visit |-> "off"]
  /\ loops = [v \in Visit |-> {}]
  /\ due = [v \in Visit |-> {}]
  /\ refused = 0

-----------------------------------------------------------------------------
(* The page, up to the anchor's own window.                                *)

serverVars == <<anchor, loops, due, refused>>

\* Which button a page renders at which step.  The withdrawal page's "sign"
\* step is left out: no answer of the server leads there.
OnRampButtons ==
  {<<"amount", "continue">>, <<"trustline", "addTrustline">>,
   <<"anchor", "iframeDone">>, <<"error", "tryAgain">>}
OffRampButtons ==
  {<<"amount", "continue">>, <<"anchor", "iframeDone">>, <<"error", "tryAgain">>}

Pressed(v, button) ==
  /\ v = shownPage
  /\ <<page[v].step, button>> \in
       IF page[v].ramp = "on" THEN OnRampButtons ELSE OffRampButtons

Goto(v, step, await) ==
  page' = [page EXCEPT ![v].step = step, ![v].await = await]

\* Leaving a page clears its timer; a request under way is not cancelled.
OpenRamp(ramp) ==
  /\ shownPage < Visits
  /\ shownPage' = shownPage + 1
  /\ page' = [page EXCEPT ![shownPage'] = [@ EXCEPT !.ramp = ramp, !.step = "amount"]]
  /\ poll' = [v \in Visit |-> IF v = shownPage /\ poll[v] = "armed" THEN "off"
                              ELSE poll[v]]
  /\ UNCHANGED serverVars

ContinueDeposit(v) ==
  /\ page[v].ramp = "on" /\ Pressed(v, "continue")
  /\ Goto(v, "loading", "trustline")
  /\ UNCHANGED <<shownPage, poll, serverVars>>

ContinueWithdrawal(v) ==
  /\ page[v].ramp = "off" /\ Pressed(v, "continue")
  /\ Goto(v, "loading", "authenticate")
  /\ UNCHANGED <<shownPage, poll, serverVars>>

HandleAddTrustline(v) ==
  /\ Pressed(v, "addTrustline")
  /\ Goto(v, "loading", "changeTrust")
  /\ UNCHANGED <<shownPage, poll, serverVars>>

TryAgain(v) ==
  /\ Pressed(v, "tryAgain")
  /\ Goto(v, "amount", "nothing")
  /\ UNCHANGED <<shownPage, poll, serverVars>>

\* The trustline lookup reports every failure as a missing trustline.
TrustlineAnswer(v) ==
  /\ page[v].await = "trustline"
  /\ \/ Goto(v, "trustline", "nothing")
     \/ Goto(v, "loading", "authenticate")
  /\ UNCHANGED <<shownPage, poll, serverVars>>

\* The signed trustline is on the ledger.
TrustlineAdded(v) ==
  /\ page[v].await = "changeTrust"
  /\ Goto(v, "loading", "authenticate")
  /\ UNCHANGED <<shownPage, poll, serverVars>>

\* The anchor's stellar.toml, its challenge or its token cannot be had.
CallFails(v) ==
  /\ page[v].await \in {"changeTrust", "authenticate", "initiate"}
  /\ Goto(v, "error", "nothing")
  /\ UNCHANGED <<shownPage, poll, serverVars>>

\* SEP-10: the challenge of the anchor is signed and exchanged for its token.
Authenticated(v) ==
  /\ page[v].await = "authenticate"
  /\ Goto(v, "loading", "initiate")
  /\ UNCHANGED <<shownPage, poll, serverVars>>

\* SEP-24: the anchor opens a transaction.  One that was opened by a call
\* that failed is never heard of again.
Initiated(v) ==
  /\ page[v].await = "initiate"
  /\ Goto(v, "anchor", "nothing")
  /\ anchor' = [anchor EXCEPT ![v] = "pending"]
  /\ UNCHANGED <<shownPage, poll, loops, due, refused>>

InitiateDeposit(v) == page[v].ramp = "on" /\ Initiated(v)
InitiateWithdrawal(v) == page[v].ramp = "off" /\ Initiated(v)

AnchorEnds(v, status) ==
  /\ anchor[v] = "pending"
  /\ anchor' = [anchor EXCEPT ![v] = status]
  /\ UNCHANGED <<page, shownPage, poll, loops, due, refused>>

-----------------------------------------------------------------------------
(* Polling.                                                                *)

HandleIframeDone(v) ==
  /\ Pressed(v, "iframeDone")
  /\ Goto(v, "polling", "nothing")
  /\ poll' = [poll EXCEPT ![v] = "waiting"]
  /\ loops' = [loops EXCEPT ![v] = @ \cup {NewLoop}]
  /\ due' = [due EXCEPT ![v] = @ \cup {NewLoop}]
  /\ UNCHANGED <<shownPage, anchor, refused>>

\* The loop whose answer the client still waits for.
Awaited(v, l) == \/ poll[v] = "waiting" /\ l.age = 0
                 \/ poll[v] = "late" /\ l.age = 1

\* Mutant: the page stops after an answer that is not the end.
HeardOnce(v, status) ==
  IF status = "completed"
  THEN /\ Goto(v, "done", "nothing")
       /\ poll' = [poll EXCEPT ![v] = "off"]
  ELSE /\ poll' = [poll EXCEPT ![v] = "off"]
       /\ UNCHANGED page

\* What the page does with an answer, or with an exception: anything but
\* "completed", a failed transaction included, is asked for again.
Heard(v, status) ==
  IF status = "completed"
  THEN /\ Goto(v, "done", "nothing")
       /\ poll' = [poll EXCEPT ![v] = "off"]
  ELSE /\ poll' = [poll EXCEPT ![v] = "armed"]
       /\ UNCHANGED page

LoopReturns(v, l, status) ==
  /\ loops' = [loops EXCEPT ![v] = @ \ {l}]
  /\ IF Awaited(v, l) THEN Heard(v, status) ELSE UNCHANGED <<page, poll>>

\* A loop that was not told the end sleeps before its next request.
LoopSleeps(v, l) ==
  /\ loops' = [loops EXCEPT ![v] = (@ \ {l}) \cup {[l EXCEPT !.tries = @ + 1]}]
  /\ UNCHANGED <<page, poll>>

\* Mutant: one request too many.
AnchorAnswersLonger(v, l) ==
  /\ l \in due[v]
  /\ due' = [due EXCEPT ![v] = @ \ {l}]
  /\ IF anchor[v] \in Terminal THEN LoopReturns(v, l, anchor[v])
     ELSE IF l.tries = MaxRetries THEN LoopReturns(v, l, "unknown")
     ELSE LoopSleeps(v, l)
  /\ UNCHANGED <<shownPage, anchor, refused>>

\* A loop returns a terminal status; at its last request it returns without.
AnchorAnswers(v, l) ==
  /\ l \in due[v]
  /\ due' = [due EXCEPT ![v] = @ \ {l}]
  /\ IF anchor[v] \in Terminal THEN LoopReturns(v, l, anchor[v])
     ELSE IF l.tries = MaxRetries - 1 THEN LoopReturns(v, l, "unknown")
     ELSE LoopSleeps(v, l)
  /\ UNCHANGED <<shownPage, anchor, refused>>

\* The anchor, or its stellar.toml, answers with an error: the loop throws.
AnchorRefuses(v, l) ==
  /\ l \in due[v] /\ refused < RampFaults
  /\ due' = [due EXCEPT ![v] = @ \ {l}]
  /\ LoopReturns(v, l, "error")
  /\ refused' = refused + 1
  /\ UNCHANGED <<shownPage, anchor>>

\* Mutant: the client gives up after five seconds.
PollLaterImpatient(p) ==
  CASE p = "waiting" -> "armed" [] p = "late" -> "armed"
    [] p = "armed" -> "waiting" [] OTHER -> p

\* Five seconds later: the client gives up on a late request.
PollLater(p) ==
  CASE p = "waiting" -> "late" [] p = "late" -> "armed"
    [] p = "armed" -> "waiting" [] OTHER -> p

\* The request that loop l awaits may take another tick.
MayTakeLonger(l) == l.age < l.tries + (l.tries + 1) * Latency

\* Five seconds pass: sleeping loops ask again, and an armed page begins a loop.
Tick ==
  /\ \A v \in Visit : \A l \in due[v] : MayTakeLonger(l)
  /\ poll' = [v \in Visit |-> PollLater(poll[v])]
  /\ loops' = [v \in Visit |-> {[l EXCEPT !.age = @ + 1] : l \in loops[v]}
                               \cup {l \in {NewLoop} : poll[v] = "armed"}]
  /\ due' = loops'
  /\ UNCHANGED <<page, shownPage, anchor, refused>>

RampNext ==
  \/ \E ramp \in {"on", "off"} : OpenRamp(ramp)
  \/ \E v \in Visit : \/ ContinueDeposit(v) \/ ContinueWithdrawal(v) \/ TryAgain(v)
                      \/ HandleAddTrustline(v) \/ TrustlineAnswer(v) \/ TrustlineAdded(v)
                      \/ CallFails(v) \/ Authenticated(v)
                      \/ InitiateDeposit(v) \/ InitiateWithdrawal(v) \/ HandleIframeDone(v)
                      \/ \E status \in Terminal : AnchorEnds(v, status)
                      \/ \E l \in due[v] : AnchorAnswers(v, l) \/ AnchorRefuses(v, l)
  \/ Tick

\* Timers fire and the anchor answers.
RampFairness ==
  /\ WF_rampVars(Tick)
  /\ \A v \in Visit : WF_rampVars(\E l \in due[v] : AnchorAnswers(v, l))

RampSpec == RampInit /\ [][RampNext]_rampVars /\ RampFairness

-----------------------------------------------------------------------------
\* However long an anchor transaction stays pending, one page keeps at most
\* one status loop per three ticks of a loop's life alive on the server: 20
\* loops for the code's 60 requests when the anchor answers at once, 40 when
\* it takes five seconds, and no fixed number when it need not answer.
LoopsBounded ==
  \A v \in Visit : Cardinality(loops[v]) <= Life \div 3 + 1

\* A transaction the anchor completed is shown as done by the page that polls
\* for it, unless the user leaves that page; lost requests do not end polling.
\* The anchor has to answer within ten seconds (Latency 1): a page never hears
\* of a slower one.
CompletedShown ==
  \A v \in Visit :
    (page[v].step = "polling" /\ anchor[v] = "completed")
      ~> (page[v].step = "done" \/ v # shownPage)

\* What it rests on: the page that polls has its timer running, or awaits a loop
\* that the server is still in.
PollingGoesOn ==
  \A v \in Visit : page[v].step = "polling" /\ v = shownPage =>
    /\ poll[v] # "off"
    /\ poll[v] = "waiting" => \E l \in loops[v] : l.age = 0
    /\ poll[v] = "late" => \E l \in loops[v] : l.age = 1
=============================================================================

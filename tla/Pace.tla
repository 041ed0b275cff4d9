-------------------------------- MODULE Pace --------------------------------
(***************************************************************************)
(* What a plan says: services/planner.ts, the hours and paces of           *)
(* dispatchCampaign, and what services/campaignStats.ts and the front end  *)
(* announce of it.                                                         *)
(*                                                                         *)
(* One campaign of one account, from its launch.  Time is in ticks, Day of *)
(* them to a day, the first day a Friday; the wall clock of the campaign's *)
(* zone is off from it by an offset that changes on the Sunday.  The       *)
(* sending window is real in its arithmetic, shorter in its hours.  A plan *)
(* is one step: SendEngine has what happens between its awaits.            *)
(***************************************************************************)
EXTENDS Integers, FiniteSets, FiniteSetsExt

CONSTANTS
  Contacts,    \* 1 .. n, in the order dispatch reads them
  Day,         \* ticks in a day
  StartHour,   \* FIRST_SEND_HOUR, and the campaign's start hour
  LastHour,    \* LAST_SEND_HOUR
  ChangesAt,   \* when the clocks change
  Before,      \* how far the zone is ahead before,
  After,       \* bound: and after
  MailsPerDay,
  Pause,
  AccountLimit,
  Others,      \* bound: what other campaigns of the account sent in a day
  Horizon,     \* bound: the last tick
  MaxLate,     \* bound: how late a job may be done with, its retries included
  MaxPauses,   \* bound: pauses by the user
  Refusable,   \* bound: contacts whose message may be refused
  Unset        \* null

Margin == 1    \* FREED_SLOT_MARGIN_MS
Noon   == Day \div 2
Jitter == 0 .. Pause \div 5

VARIABLES
  now,
  ahead,      \* how far the zone is ahead once the clocks have changed
  status,     \* of the campaign
  sendAfter,
  promise,    \* the instant the launch dialog announced
  outcome,    \* of the contacts: pending, sent, failed
  due,        \* of the job waiting for the contact
  plannedAt,
  taken,      \* the contact in the worker's hands
  again,      \* history: those whose time was written anew while their job was late
  sentAt,     \* logs.created_at
  pauses

vars ==
  <<now, ahead, status, sendAfter, promise, outcome, due, plannedAt, again, taken, sentAt, pauses>>

-----------------------------------------------------------------------------
(* The wall clock.                                                         *)

Offset(t)    == IF t >= ChangesAt THEN ahead ELSE Before
Local(t)     == t + Offset(t)
LocalHour(t) == Local(t) % Day
LocalDay(t)  == Local(t) \div Day
IsSendDay(t) == LocalDay(t) % 7 # 2    \* the first is a Friday

\* insideSendingWindow, on the server and in the browser.
InHours(t) == IsSendDay(t) /\ LocalHour(t) \in StartHour .. LastHour

WindowRemaining(t) == LET left == LastHour + 1 - LocalHour(t) IN IF left > 0 THEN left ELSE 0

\* The offset is read twice: once at a first guess, once at the result.
AtLocalHour(day, hour) ==
  LET guess == day * Day + hour
  IN  guess - Offset(guess - Offset(guess))

\* A search goes on from the noon of the day it has tried.
DayAfter(day) == LocalDay(AtLocalHour(day, Noon) + Day)

\* nextOpening: the first start hour of a sending day.  The code gives up after
\* eight days, and one in seven is a Sunday.
NextOpening(from) ==
  LET search[day \in Nat] ==
        LET opens == AtLocalHour(day, StartHour)
        IN  IF opens >= from /\ IsSendDay(opens) THEN opens ELSE search[DayAfter(day)]
  IN  search[LocalDay(from)]

InsideWindow(t) == IF InHours(t) THEN t ELSE NextOpening(t)

\* The browser's: setDate and setHours on its calendar.
BrowserOpening(from) ==
  LET search[day \in Nat] ==
        LET opens == AtLocalHour(day, StartHour)
        IN  IF opens >= from /\ IsSendDay(opens) THEN opens ELSE search[day + 1]
  IN  search[LocalDay(from)]

-----------------------------------------------------------------------------
(* The plan.                                                               *)

Waiting == {c \in Contacts : outcome[c] = "pending"}
Pending == Waiting \ {taken}    \* not claimed: dispatch reads them in order
Sent    == {c \in Contacts : sentAt[c] # Unset}
InDay   == {c \in Sent : sentAt[c] >= now - Day}

\* When the n-th slot frees: that many of those sends have left the window.
Frees(n) ==
  Min({sentAt[c] + Day : c \in {d \in InDay :
         Cardinality({e \in InDay : sentAt[e] <= sentAt[d]}) >= n}})

\* Variant: the plan counts from zero.
NeededLess(c) == Cardinality(InDay) + Cardinality({d \in Pending : d < c}) - MailsPerDay

\* How many sends must have left the window before that of c.
Needed(c) == Cardinality(InDay) + Cardinality({d \in Pending : d <= c}) - MailsPerDay

\* When each may leave: a pause after the one before it, and once a slot is free.
Times(jitter) ==
  LET time[c \in Pending] ==
        LET before == {d \in Pending : d < c}
            since  == IF before = {} THEN now ELSE time[Max(before)] + Pause + jitter
        IN  IF Needed(c) \in 1 .. Cardinality(InDay)
            THEN Max({since, Frees(Needed(c)) + Margin})
            ELSE since
  IN  time

\* planDay's loop: it breaks at the first that does not fit.
Planned(jitter, others) ==
  LET time == Times(jitter)
      Fits(c) ==
        /\ Cardinality({d \in Pending : d <= c}) + Cardinality(InDay) + others <= AccountLimit
        /\ Needed(c) <= Cardinality(InDay)
        /\ time[c] - now < WindowRemaining(now)
  IN  [c \in {d \in Pending : \A e \in Pending : e <= d => Fits(e)} |-> time[c]]

\* Until the day and hour the user chose, and outside the hours, nothing is planned.
MayPlan ==
  /\ status \in {"scheduled", "running"}
  /\ sendAfter # Unset => sendAfter <= now
  /\ InHours(now)

\* A time that was never set, or that has come.
Passed(t) == t = Unset \/ t <= now

\* dispatchCampaign.  The queue refuses a second job for a contact, and the time
\* written for the first one stands until it has come.
Plan(jitter, others) ==
  /\ MayPlan /\ Waiting # {}
  /\ status' = "running"
  /\ LET planned == Planned(jitter, others)
         Named(c) == c \in DOMAIN planned
     IN  /\ due' = [c \in Contacts |->
              IF Named(c) /\ due[c] = Unset THEN planned[c] ELSE due[c]]
         /\ plannedAt' = [c \in Contacts |->
              IF Named(c) /\ Passed(plannedAt[c]) THEN planned[c] ELSE plannedAt[c]]
         /\ again' = {c \in Contacts :
              IF Named(c) /\ Passed(plannedAt[c]) THEN due[c] # Unset /\ Max({due[c], planned[c]}) > now
              ELSE c \in again}
  /\ UNCHANGED <<now, ahead, sendAfter, promise, outcome, taken, sentAt, pauses>>

\* completeIfDone, when the plan finds nobody left.
Complete ==
  /\ MayPlan /\ Waiting = {}
  /\ status' = "completed"
  /\ UNCHANGED <<now, ahead, sendAfter, promise, outcome, due, plannedAt, again, taken, sentAt, pauses>>

\* When a plan that found nothing asks to be made again: retryAt.
RetryAt ==
  IF status \notin {"scheduled", "running"} THEN Unset
  ELSE IF sendAfter # Unset /\ sendAfter > now THEN sendAfter
  ELSE NextOpening(IF InHours(now) THEN now + Noon ELSE now)    \* what did not fit waits

-----------------------------------------------------------------------------
(* What is announced.                                                      *)

\* nextSendAt, for a campaign the planner has not reached yet.
NextByRule ==
  LET from == IF sendAfter # Unset /\ sendAfter > now THEN sendAfter ELSE now
      last == Max({sentAt[c] : c \in Sent})
  IN  IF Cardinality(InDay) >= MailsPerDay
      THEN InsideWindow(Frees(1))
      ELSE InsideWindow(IF Sent = {} THEN from ELSE Max({from, last + Pause}))

\* The earliest send queued, or the rule.
NextSendAt ==
  LET planned == {plannedAt[c] : c \in Waiting} \ {Unset}
      coming  == {t \in planned : t >= now}
  IN  IF coming = {} THEN NextByRule ELSE Min(coming)

\* The opening that many sending days later.
AddSendDays(from, days) ==
  LET day[k \in 0 .. days] ==
        IF k = 0 THEN from
        ELSE NextOpening(AtLocalHour(LocalDay(day[k - 1] + Day), StartHour))
  IN  day[days]

EstimatedEnd ==
  LET left  == MailsPerDay - Cardinality(InDay)
      first == Min({Cardinality(Waiting), IF left > 0 THEN left ELSE MailsPerDay})
      rest  == Cardinality(Waiting) - first
      extra == (rest + MailsPerDay - 1) \div MailsPerDay
      gap   == (Pause * 11) \div 10
  IN  IF rest = 0 THEN NextSendAt + (first - 1) * gap
      ELSE AddSendDays(NextSendAt, extra) + (rest - (extra - 1) * MailsPerDay - 1) * gap

\* The page's own: estimateSchedule counts whole days from today, in the hours or
\* not; remainingOf; fitsInOneDay hides the panel about the pace.
DaysLeft     == (Cardinality(Waiting) + MailsPerDay - 1) \div MailsPerDay
LastDay      == LocalDay(now) + DaysLeft - 1
FitsInOneDay == Cardinality(Waiting) <= MailsPerDay

-----------------------------------------------------------------------------
(* The user.                                                               *)

\* startingSentence: in a moment, or at the next opening.
LaunchNow ==
  /\ status = "draft"
  /\ status' = "scheduled"
  /\ promise' = IF InHours(now) THEN now ELSE BrowserOpening(now)
  /\ UNCHANGED <<now, ahead, sendAfter, outcome, due, plannedAt, again, taken, sentAt, pauses>>

\* At a day and hour that the dialog and the server both find in the window.
LaunchLater(at) ==
  /\ status = "draft"
  /\ at > now /\ InHours(at)
  /\ status' = "scheduled" /\ sendAfter' = at /\ promise' = at
  /\ UNCHANGED <<now, ahead, outcome, due, plannedAt, again, taken, sentAt, pauses>>

PauseIt ==
  /\ status \in {"scheduled", "running"} /\ pauses < MaxPauses
  /\ status' = "paused" /\ pauses' = pauses + 1
  /\ UNCHANGED <<now, ahead, sendAfter, promise, outcome, due, plannedAt, again, taken, sentAt>>

ResumeIt ==
  /\ status = "paused" /\ status' = "running"
  /\ UNCHANGED <<now, ahead, sendAfter, promise, outcome, due, plannedAt, again, taken, sentAt, pauses>>

-----------------------------------------------------------------------------
(* The worker: one contact at a time, at its due time or late.             *)

Due(c) == due[c] # Unset /\ due[c] <= now /\ taken = Unset

Take(c) ==
  /\ Due(c)
  /\ IF status = "running" /\ outcome[c] = "pending"
     THEN taken' = c /\ UNCHANGED due
     ELSE due' = [due EXCEPT ![c] = Unset] /\ UNCHANGED taken
  /\ UNCHANGED <<now, ahead, status, sendAfter, promise, outcome, plannedAt, again, sentAt, pauses>>

\* The ceiling of the account: the job ends, the contact waits for another plan.
HoldBack(c) ==
  /\ taken = c
  /\ \E others \in Others : others + Cardinality(InDay) >= AccountLimit
  /\ taken' = Unset /\ due' = [due EXCEPT ![c] = Unset]
  /\ UNCHANGED <<now, ahead, status, sendAfter, promise, outcome, plannedAt, again, sentAt, pauses>>

\* "Not now": the job is tried again, a little later.
TryAgain(c) ==
  /\ taken = c /\ taken' = Unset
  /\ UNCHANGED <<now, ahead, status, sendAfter, promise, outcome, due, plannedAt, again, sentAt, pauses>>

Finish(c, how) ==
  /\ taken = c /\ taken' = Unset
  /\ how = "failed" => c \in Refusable
  /\ due' = [due EXCEPT ![c] = Unset]
  /\ outcome' = [outcome EXCEPT ![c] = how]
  /\ sentAt' = IF how = "sent" THEN [sentAt EXCEPT ![c] = now] ELSE sentAt
  /\ status' = IF Waiting = {c} /\ status = "running" THEN "completed" ELSE status
  /\ again' = again \ {c}
  /\ UNCHANGED <<now, ahead, sendAfter, promise, plannedAt, pauses>>

Tick ==
  /\ now < Horizon /\ now' = now + 1
  /\ \A c \in Contacts : due[c] # Unset => now < due[c] + MaxLate
  /\ UNCHANGED <<ahead, status, sendAfter, promise, outcome, due, plannedAt, again, taken, sentAt, pauses>>

-----------------------------------------------------------------------------
Init ==
  /\ now = 0 /\ ahead \in After
  /\ status = "draft" /\ sendAfter = Unset /\ promise = Unset
  /\ outcome   = [c \in Contacts |-> "pending"]
  /\ due       = [c \in Contacts |-> Unset]
  /\ plannedAt = [c \in Contacts |-> Unset]
  /\ sentAt    = [c \in Contacts |-> Unset]
  /\ again = {} /\ taken = Unset /\ pauses = 0

Next ==
  \/ Complete \/ LaunchNow \/ PauseIt \/ ResumeIt \/ Tick
  \/ \E at \in 0 .. Horizon + Day : LaunchLater(at)
  \/ \E jitter \in Jitter, others \in Others : Plan(jitter, others)
  \/ \E c \in Contacts : Take(c) \/ HoldBack(c) \/ TryAgain(c)
  \/ \E c \in Contacts, how \in {"sent", "failed"} : Finish(c, how)

Spec == Init /\ [][Next]_vars

-----------------------------------------------------------------------------
\* No message is queued for a Sunday or for an hour outside the window, whatever
\* the slots freed, the pauses and the clocks (planner.ts:184-190).
QueuedInHours == \A c \in Contacts : due[c] # Unset => InHours(due[c])

\* Over any twenty-four hours the campaign sends its pace, and one more at the most:
\* a plan made while a message is in the worker's hands does not count it
\* (dispatch.ts:146, planner.ts:176).
PaceIsKept ==
  \A c \in Sent :
    Cardinality({d \in Sent : sentAt[d] \in sentAt[c] - Day .. sentAt[c]}) <= MailsPerDay + 1

\* The countdown runs to the second the job is due at, but for a contact that a
\* plan met again while its job was late (dispatch.ts:233-235).
CountdownIsTrue ==
  \A c \in Waiting \ again : due[c] # Unset /\ due[c] > now => plannedAt[c] = due[c]

\* "So the interface can count down to the real second" (dispatch.ts:221): checked
\* by hand, and false of such a contact: the plan writes a time of its own over the
\* one that has come, the late job is held back, and the job the next plan queues
\* is due at another.
CountdownIsExact ==
  \A c \in Waiting : due[c] # Unset /\ due[c] > now => plannedAt[c] = due[c]

\* Nothing leaves before the launch dialog said it would.
NotBeforePromised ==
  /\ promise # Unset => InHours(promise)
  /\ \A c \in Contacts : due[c] # Unset => due[c] >= promise
  /\ \A c \in Sent : sentAt[c] >= promise

\* The page, the server and the planner read the same rule: the next opening is the
\* first start hour of a sending day, for each of them: seen at every instant of a draft (campaignStats.ts:157-163).
SameOpening ==
  status = "draft" =>
  LET starts == {t \in now .. now + 4 * Day : IsSendDay(t) /\ LocalHour(t) = StartHour}
  IN  /\ NextOpening(now) = Min(starts)
      /\ BrowserOpening(now) = Min(starts)

\* What is announced is in the hours, and the end no earlier than the next, nor
\* than the day the page counts for itself (frontend services/campaigns.ts:178).
ForecastInHours ==
  status \in {"scheduled", "running"} /\ Waiting # {} =>
    /\ InHours(NextSendAt) /\ EstimatedEnd >= NextSendAt
    /\ LocalDay(EstimatedEnd) >= LastDay
    /\ InHours(RetryAt) /\ RetryAt >= now

\* "Then the pace never holds anything back" (frontend services/campaigns.ts:279):
\* checked by hand, and false of what a spent day leaves for the next one.
PaceHoldsNothing == FitsInOneDay => \A c \in Pending : Needed(c) <= 0

PlanIsSafe ==
  /\ QueuedInHours /\ PaceIsKept /\ CountdownIsTrue
  /\ NotBeforePromised /\ SameOpening /\ ForecastInHours
-----------------------------------------------------------------------------
(* What keeps it: inductive.                                               *)

Instants == Nat \cup {Unset}

PaceTypes ==
  /\ now \in Nat /\ ahead \in After
  /\ outcome \in [Contacts -> {"pending", "sent", "failed"}]
  /\ {due, plannedAt, sentAt} \subseteq [Contacts -> Instants]
  /\ {sendAfter, promise} \subseteq Instants /\ again \subseteq Contacts

\* A job waits for nobody who is done with, and only one that is due is taken.
JobsAreHeld ==
  /\ taken # Unset => taken \in Contacts /\ due[taken] # Unset /\ due[taken] <= now
  /\ \A c \in Contacts :
       /\ due[c] # Unset => outcome[c] = "pending"
       /\ sentAt[c] # Unset <=> outcome[c] = "sent"
       /\ sentAt[c] # Unset => sentAt[c] <= now

\* The sends a day back from an instant, those to come after it left out.
SentSince(t) == {s \in Sent : sentAt[s] + Day >= t}
UpTo(c)      == {d \in Waiting : d <= c}

\* When a job leaves, what the day before it holds and all who may leave first are
\* no more than the pace, and one.
RoomIsLeft ==
  \A c \in Contacts : due[c] # Unset =>
    Cardinality(SentSince(Max({due[c], now}))) + Cardinality(UpTo(c)) <= MailsPerDay + 1

\* The time written is that of the job until it has come.
TimeIsKept ==
  \A c \in Waiting \ again :
    IF Passed(due[c]) THEN Passed(plannedAt[c]) ELSE plannedAt[c] = due[c]

WrittenInHours == \A c \in Contacts : plannedAt[c] # Unset => InHours(plannedAt[c])

\* Before the launch nothing is queued; after it no plan is made until the promise.
LaunchIsKept ==
  IF promise = Unset
  THEN /\ status = "draft" /\ sendAfter = Unset
       /\ \A c \in Contacts : due[c] = Unset /\ sentAt[c] = Unset
  ELSE /\ status # "draft" /\ sendAfter \in {promise, Unset}
       /\ \A t \in now .. promise - 1 :
            InHours(t) => sendAfter # Unset /\ sendAfter > t

PaceInv ==
  /\ PaceTypes /\ JobsAreHeld /\ RoomIsLeft /\ TimeIsKept /\ WrittenInHours
  /\ LaunchIsKept /\ QueuedInHours /\ PaceIsKept /\ NotBeforePromised
=============================================================================

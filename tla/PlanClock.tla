------------------------------ MODULE PlanClock ------------------------------
(***************************************************************************)
(* When the worker plans: jobs/planClock.ts, and planAll, planNoLaterThan  *)
(* and the dispatch job of worker.ts.                                      *)
(*                                                                         *)
(* A plan lists the campaigns, plans them one by one, and when it is done  *)
(* sets the one timer to the earliest instant any of them asked for.       *)
(* Meanwhile the timer is unset: a dispatch job, run for one campaign the  *)
(* user has just launched, may set it, and a second plan start before the  *)
(* first has ended.  Time is in ticks of PLAN_AT_MOST_EVERY_MS; a timer at *)
(* zero stops it.                                                          *)
(***************************************************************************)
EXTENDS Naturals

CONSTANTS
  Campaigns,
  Plans,       \* bound: planAll's under way at once
  Job,         \* the dispatch job: one at a time, as the worker does
  PlanEvery,   \* PLAN_AT_LEAST_EVERY_MS
  MaxRun,      \* bound: the longest a plan takes
  Furthest,    \* bound: the furthest opening
  MaxFaults    \* bound: lists and campaigns that fail, deaths of the process

ASSUME ClockAssumption ==
  /\ Job \notin Plans
  /\ PlanEvery \in Nat \ {0} /\ MaxRun \in Nat /\ MaxFaults \in Nat
  /\ Furthest \in Nat /\ Furthest >= PlanEvery

Runs    == Plans \cup {Job}
TooLate == PlanEvery + 2 * MaxRun + 1    \* bound: where late stops counting
Never   == PlanEvery + 1    \* nextPlanAt = Infinity
Nothing == Furthest + 1     \* no retryAt

VARIABLES
  dispatchable, \* campaigns scheduled or running
  opensIn,      \* ticks until the campaign finds something to send
  late,         \* ticks it has had something and no plan for it, since a fault
  timer,        \* ticks until the next plan: nextPlanAt and planTimer
  run,          \* off | begun | listed: how far each plan is
  age,          \* ticks since it began
  todo,         \* campaigns it has listed and not planned yet
  asks,         \* ticks until the earliest instant it was asked for
  seen,         \* campaigns that asked it
  told,         \* campaigns that asked a plan that has ended
  faults

campaignVars == <<dispatchable, opensIn, late>>
runVars      == <<run, age, todo, asks, seen>>
clockVars    == <<campaignVars, timer, runVars, told, faults>>

ClockTypes ==
  /\ dispatchable \subseteq Campaigns
  /\ opensIn \in [Campaigns -> 0 .. Furthest]
  /\ late    \in [Campaigns -> Nat]
  /\ timer   \in 0 .. Never
  /\ run     \in [Runs -> {"off", "begun", "listed"}]
  /\ age     \in [Runs -> 0 .. MaxRun]
  /\ todo    \in [Runs -> SUBSET Campaigns]
  /\ asks    \in [Runs -> 0 .. Nothing]
  /\ seen    \in [Runs -> SUBSET Campaigns]
  /\ told    \subseteq Campaigns
  /\ faults  \in 0 .. MaxFaults

Fault    == faults < MaxFaults /\ faults' = faults + 1
Waiting  == {k \in dispatchable : opensIn[k] = 0}
Planning == {r \in Plans : run[r] # "off"}

-----------------------------------------------------------------------------
(* The user.                                                               *)

\* Launched or resumed, now or for later; its dispatch job comes in time.
Launch(k, n) ==
  /\ k \notin dispatchable
  /\ dispatchable' = dispatchable \cup {k}
  /\ opensIn' = [opensIn EXCEPT ![k] = n]
  /\ UNCHANGED <<late, timer, runVars, told, faults>>

\* Nobody's instant for campaign k stands any more.
Forget(k) ==
  /\ late' = [late EXCEPT ![k] = 0]
  /\ seen' = [r \in Runs |-> seen[r] \ {k}]
  /\ told' = told \ {k}

\* Paused or completed.
Stop(k) ==
  /\ k \in dispatchable
  /\ dispatchable' = dispatchable \ {k}
  /\ opensIn' = [opensIn EXCEPT ![k] = 0]
  /\ Forget(k)
  /\ UNCHANGED <<timer, run, age, todo, asks, faults>>

-----------------------------------------------------------------------------
(* Plans.                                                                  *)

\* The timer fires: planAll.
Fire(r) ==
  /\ timer = 0 /\ run[r] = "off"
  /\ timer' = Never
  /\ run' = [run EXCEPT ![r] = "begun"]
  /\ UNCHANGED <<campaignVars, age, todo, asks, seen, told, faults>>

\* listDispatchableCampaignIds.
List(r) ==
  /\ run[r] = "begun"
  /\ run' = [run EXCEPT ![r] = "listed"]
  /\ todo' = [todo EXCEPT ![r] = dispatchable]
  /\ UNCHANGED <<campaignVars, timer, age, asks, seen, told, faults>>

\* The dispatch job has its one campaign.
StartJob(k) ==
  /\ run[Job] = "off"
  /\ run' = [run EXCEPT ![Job] = "listed"]
  /\ todo' = [todo EXCEPT ![Job] = {k}]
  /\ UNCHANGED <<campaignVars, timer, age, asks, seen, told, faults>>

Done(r, k) == k \in todo[r] /\ todo' = [todo EXCEPT ![r] = @ \ {k}]

\* dispatchCampaign, when it has nothing to plan and no instant to give.
Skip(r, k) ==
  /\ k \notin Waiting
  /\ Done(r, k)
  /\ Forget(k)
  /\ UNCHANGED <<dispatchable, opensIn, timer, run, age, asks, faults>>

\* It says when it opens: retryAt.
AskLater(r, k) ==
  /\ k \in dispatchable \ Waiting
  /\ Done(r, k)
  /\ asks' = [asks EXCEPT ![r] = IF opensIn[k] < @ THEN opensIn[k] ELSE @]
  /\ seen' = [seen EXCEPT ![r] = @ \cup {k}]
  /\ UNCHANGED <<campaignVars, timer, run, age, told, faults>>

\* Its sends are queued, and nothing said of its next opening.
PlanNow(r, k) ==
  /\ k \in Waiting
  /\ Done(r, k)
  /\ \E n \in 1 .. Furthest : opensIn' = [opensIn EXCEPT ![k] = n]
  /\ Forget(k)
  /\ UNCHANGED <<dispatchable, timer, run, age, asks, faults>>

\* It throws: the others are planned all the same.
DispatchFails(r, k) ==
  /\ Fault
  /\ Done(r, k)
  /\ Forget(k)
  /\ UNCHANGED <<dispatchable, opensIn, timer, run, age, asks>>

End(r) ==
  /\ run'  = [run  EXCEPT ![r] = "off"]
  /\ age'  = [age  EXCEPT ![r] = 0]
  /\ todo' = [todo EXCEPT ![r] = {}]
  /\ asks' = [asks EXCEPT ![r] = Nothing]
  /\ seen' = [seen EXCEPT ![r] = {}]

\* Variant: a plan comes only when it is asked for.
WhenAsked(n) == IF n = 0 THEN 1 ELSE IF n < PlanEvery THEN n ELSE Never

\* nextPlanDelay.
Delay(n) == IF n = 0 THEN 1 ELSE IF n < PlanEvery THEN n ELSE PlanEvery

Report(r) ==
  /\ run[r] = "listed" /\ todo[r] = {}
  /\ End(r)
  /\ told' = told \cup seen[r]
  /\ UNCHANGED <<campaignVars, faults>>

\* planNoLaterThan(..., true): whatever the timer had been set to.
PlanAllEnds(r) == Report(r) /\ timer' = Delay(asks[r])

\* planNoLaterThan(...): only if that is earlier.
JobEnds ==
  /\ Report(Job)
  /\ timer' = IF Delay(asks[Job]) < timer THEN Delay(asks[Job]) ELSE timer

\* Variant: a plan that failed is logged, and nothing else.
PlanFailsForGood(r) ==
  /\ run[r] = "begun"
  /\ Fault
  /\ End(r)
  /\ late' = [k \in Campaigns |-> 0]
  /\ UNCHANGED <<dispatchable, opensIn, timer, told>>

\* The campaigns cannot be listed: back in a quarter of an hour.
PlanFails(r) ==
  /\ run[r] = "begun"
  /\ Fault
  /\ End(r)
  /\ late' = [k \in Campaigns |-> 0]
  /\ timer' = Delay(Nothing)
  /\ UNCHANGED <<dispatchable, opensIn, told>>

\* A new process begins with a plan.
Started(r) == [q \in Runs |-> IF q = r THEN "begun" ELSE "off"]

\* The process dies and another starts.
Crash ==
  /\ Fault
  /\ timer' = Never
  /\ \E r \in Plans : run' = Started(r)
  /\ age'  = [r \in Runs |-> 0]
  /\ todo' = [r \in Runs |-> {}]
  /\ asks' = [r \in Runs |-> Nothing]
  /\ seen' = [r \in Runs |-> {}]
  /\ late' = [k \in Campaigns |-> 0]
  /\ told' = {}
  /\ UNCHANGED <<dispatchable, opensIn>>

Less(n) == IF n > 0 THEN n - 1 ELSE 0

Tick ==
  /\ timer > 0
  /\ \A r \in Runs : run[r] # "off" => age[r] < MaxRun
  /\ timer' = IF timer = Never THEN Never ELSE timer - 1
  /\ age' = [r \in Runs |-> IF run[r] = "off" THEN 0 ELSE age[r] + 1]
  /\ asks' = [r \in Runs |-> IF asks[r] = Nothing THEN Nothing ELSE Less(asks[r])]
  /\ opensIn' = [k \in Campaigns |-> Less(opensIn[k])]
  /\ late' = [k \in Campaigns |-> IF k \in Waiting /\ late[k] < TooLate
                               THEN late[k] + 1 ELSE late[k]]
  /\ UNCHANGED <<dispatchable, run, todo, seen, told, faults>>

-----------------------------------------------------------------------------
ClockStarts ==
  /\ dispatchable = {}
  /\ opensIn = [k \in Campaigns |-> 0]
  /\ late    = [k \in Campaigns |-> 0]
  /\ timer   = Never
  /\ \E r \in Plans : run = Started(r)
  /\ age     = [r \in Runs |-> 0]
  /\ todo    = [r \in Runs |-> {}]
  /\ asks    = [r \in Runs |-> Nothing]
  /\ seen    = [r \in Runs |-> {}]
  /\ told    = {}
  /\ faults  = 0

DispatchCampaign(r, k) == Skip(r, k) \/ AskLater(r, k) \/ PlanNow(r, k)

ClockMoves ==
  \/ \E k \in Campaigns : Stop(k) \/ StartJob(k) \/ \E n \in 0 .. Furthest : Launch(k, n)
  \/ \E r \in Plans : Fire(r) \/ List(r) \/ PlanAllEnds(r) \/ PlanFails(r)
  \/ \E r \in Runs, k \in Campaigns : DispatchCampaign(r, k) \/ DispatchFails(r, k)
  \/ JobEnds \/ Crash \/ Tick

ClockSpec == ClockStarts /\ [][ClockMoves]_clockVars

\* Clocks run, timers fire, a plan under way goes on.
ClockFairness ==
  /\ WF_clockVars(Tick) /\ WF_clockVars(JobEnds)
  /\ WF_clockVars(\E r \in Plans : Fire(r))
  /\ \A r \in Plans : WF_clockVars(List(r)) /\ WF_clockVars(PlanAllEnds(r))
  /\ \A r \in Runs : WF_clockVars(\E k \in Campaigns : DispatchCampaign(r, k))

FairClock == ClockSpec /\ ClockFairness

-----------------------------------------------------------------------------
\* The chain of plans never breaks: a timer is set, or a plan is under way that
\* will set it (worker.ts:267-300).
NeverForgotten == timer # Never \/ Planning # {}

\* No campaign with something to send waits longer than the quarter of an hour
\* and two plans' length, whatever plans and jobs overlap (planClock.ts:15).
LookedAtInTime == \A k \in Waiting : late[k] <= PlanEvery + 2 * MaxRun

\* It is planned in the end, or stopped.
OpenIsPlanned == \A k \in Campaigns : k \in Waiting ~> k \notin Waiting

\* The instant a campaign asked for is not missed: when it comes, a plan is due,
\* or under way and yet to see the campaign, or knows its instant
\* (worker.ts:174, planClock.ts:9-12).
AppointmentKept ==
  \A k \in told \cap Waiting :
    timer <= 1 \/ \E r \in Plans : run[r] = "begun" \/ k \in todo[r] \cup seen[r]

\* A campaign waits only while it is open.
LateIsOpen == \A k \in Campaigns \ Waiting : late[k] = 0

\* A plan that has seen to a campaign leaves it waiting no longer than its own age.
PlannedIsRecent ==
  \A r \in Plans : run[r] = "listed" =>
    \A k \in Waiting \ todo[r] : late[k] <= age[r]

\* A plan that is yet to see a campaign came within the quarter-hour of another.
PlanCameInTime ==
  Planning # {} =>
    \A k \in Waiting : \E r \in Planning : late[k] <= PlanEvery + MaxRun + age[r]

\* Between plans the timer leaves no campaign waiting for more than that.
TimerIsInTime ==
  Planning = {} => \A k \in Waiting : late[k] + timer <= PlanEvery + MaxRun

\* All of it together: the inductive invariant.
ClockInv ==
  /\ ClockTypes /\ NeverForgotten /\ LateIsOpen
  /\ PlannedIsRecent /\ PlanCameInTime /\ TimerIsInTime
=============================================================================

------------------------------ MODULE IdleSleep ------------------------------
(***************************************************************************)
(* The worker asleep: jobs/idleSleep.ts and its use in worker.ts.  While   *)
(* nothing is due soon the BullMQ worker is paused; a check every two      *)
(* minutes, or rung for by the API or a plan, pauses and resumes it.       *)
(*                                                                         *)
(* A check reads isPaused, then awaits two reads of Redis, then acts on    *)
(* all three: checks overlap, and each may act on what is no longer so.    *)
(* Time is in ticks; a clock that has reached zero stops it.               *)
(***************************************************************************)
EXTENDS Naturals, FiniteSets

CONSTANTS
  Jobs,        \* jobs of the queue, of either kind
  Rings,       \* bound: checks under way that no interval started
  CheckEvery,  \* IDLE_CHECK_EVERY_MS
  Horizon,     \* IDLE_HORIZON_MS
  MaxRead,     \* bound: the longest a check's reads take
  Furthest,    \* bound: the longest delay of a job
  MaxFaults    \* bound: deaths of the process, checks that fail

Interval == "interval"
Checks   == Rings \cup {Interval}

\* An interval's check ends before the next one starts, and finds a planned job
\* a whole interval and a read ahead of its time.
ASSUME IdleAssumption ==
  /\ Interval \notin Rings
  /\ CheckEvery \in Nat /\ MaxRead \in Nat /\ Furthest \in Nat /\ MaxFaults \in Nat
  /\ MaxRead < CheckEvery
  /\ Horizon \in Nat /\ Horizon >= CheckEvery + MaxRead

VARIABLES
  job,        \* none | delayed | waiting | active | orphan: active, its process dead
  dueIn,      \* ticks until a delayed job is due
  foreseen,   \* jobs added further ahead than the horizon, and behind no other
  slept,      \* ticks it has been due in this sleep, since an interval's check failed
  paused,     \* worker.isPaused()
  checkIn,    \* ticks until the interval's next check
  check,      \* off | begun | counted: how far each check is
  age,        \* ticks since it began
  sawPaused,  \* isPaused() when it began
  sawBusy,    \* its count found a job waiting or active
  faults

jobVars   == <<job, dueIn, foreseen, slept>>
checkVars == <<check, age, sawPaused, sawBusy>>
vars      == <<jobVars, paused, checkIn, checkVars, faults>>

TypeOK ==
  /\ job       \in [Jobs -> {"none", "delayed", "waiting", "active", "orphan"}]
  /\ dueIn     \in [Jobs -> 0 .. Furthest]
  /\ foreseen  \subseteq Jobs
  /\ slept     \in [Jobs -> Nat]
  /\ paused    \in BOOLEAN
  /\ checkIn   \in 0 .. CheckEvery
  /\ check     \in [Checks -> {"off", "begun", "counted"}]
  /\ age       \in [Checks -> 0 .. MaxRead]
  /\ sawPaused \in [Checks -> BOOLEAN]
  /\ sawBusy   \in [Checks -> BOOLEAN]
  /\ faults    \in 0 .. MaxFaults

Fault  == faults < MaxFaults /\ faults' = faults + 1
Due(j) == job[j] = "waiting" \/ (job[j] = "delayed" /\ dueIn[j] = 0)
Idle   == \A j \in Jobs : job[j] # "active"

-----------------------------------------------------------------------------
(* The queue.                                                              *)

\* A job enters the queue, now or for later.
Put(j, n) ==
  /\ job' = [job EXCEPT ![j] = IF n = 0 THEN "waiting" ELSE "delayed"]
  /\ dueIn' = [dueIn EXCEPT ![j] = n]
  /\ foreseen' = IF n > Horizon THEN foreseen \cup {j} ELSE foreseen \ {j}
  /\ slept' = [slept EXCEPT ![j] = 0]
  /\ UNCHANGED <<paused, checkIn, checkVars, faults>>

Add(j) == job[j] = "none" /\ \E n \in 0 .. Furthest : Put(j, n)

\* An awake worker asks for its next job: whatever is due moves to the waiting
\* list, and one of them is taken.
Take(j) ==
  /\ ~paused /\ Idle
  /\ Due(j)
  /\ job' = [d \in Jobs |-> IF d = j THEN "active" ELSE IF Due(d) THEN "waiting" ELSE job[d]]
  /\ foreseen' = {d \in foreseen : Due(d) => d = j}
  /\ UNCHANGED <<dueIn, slept, paused, checkIn, checkVars, faults>>

Finish(j) ==
  /\ job[j] = "active"
  /\ job' = [job EXCEPT ![j] = "none"]
  /\ dueIn' = [dueIn EXCEPT ![j] = 0]
  /\ foreseen' = foreseen \ {j}
  /\ slept' = [slept EXCEPT ![j] = 0]
  /\ UNCHANGED <<paused, checkIn, checkVars, faults>>

\* The stalled check, which a paused worker does not run.
Recover(j) ==
  /\ ~paused
  /\ job[j] = "orphan"
  /\ job' = [job EXCEPT ![j] = "waiting"]
  /\ UNCHANGED <<dueIn, foreseen, slept, paused, checkIn, checkVars, faults>>

-----------------------------------------------------------------------------
(* The checks.                                                             *)

\* decideIdle's first argument, read before anything is awaited.
Begin(i) ==
  /\ check[i] = "off"
  /\ check' = [check EXCEPT ![i] = "begun"]
  /\ age' = [age EXCEPT ![i] = 0]
  /\ sawPaused' = [sawPaused EXCEPT ![i] = paused]
  /\ sawBusy' = [sawBusy EXCEPT ![i] = FALSE]

\* Variant: the interval is stopped with the worker.
CheckOnlyAwake ==
  /\ checkIn = 0
  /\ checkIn' = CheckEvery
  /\ IF paused THEN UNCHANGED checkVars ELSE Begin(Interval)
  /\ UNCHANGED <<jobVars, paused, faults>>

CheckOnTime ==
  /\ checkIn = 0
  /\ checkIn' = CheckEvery
  /\ Begin(Interval)
  /\ UNCHANGED <<jobVars, paused, faults>>

\* The API has queued a plan, or a plan has queued sends.
Ring(i) ==
  /\ i \in Rings
  /\ Begin(i)
  /\ UNCHANGED <<jobVars, paused, checkIn, faults>>

\* Variant: only the jobs that wait are counted.
CountWaiting(i) ==
  /\ check[i] = "begun"
  /\ check' = [check EXCEPT ![i] = "counted"]
  /\ sawBusy' = [sawBusy EXCEPT ![i] = \E j \in Jobs : job[j] = "waiting"]
  /\ UNCHANGED <<jobVars, paused, checkIn, age, sawPaused, faults>>

\* getJobCounts; a dead process's job is still among the active ones.
CountJobs(i) ==
  /\ check[i] = "begun"
  /\ check' = [check EXCEPT ![i] = "counted"]
  /\ sawBusy' = [sawBusy EXCEPT ![i] =
       \E j \in Jobs : job[j] \in {"waiting", "active", "orphan"}]
  /\ UNCHANGED <<jobVars, paused, checkIn, age, sawPaused, faults>>

\* Variant: a delayed job counts once it is due.
DueNow == \E j \in Jobs : job[j] = "delayed" /\ dueIn[j] = 0

\* getDelayed(0, 0): the earliest delayed job.
DueSoon == \E j \in Jobs : job[j] = "delayed" /\ dueIn[j] <= Horizon

\* decideIdle, and what it decided, on all that was read.
Decide(i) ==
  /\ check[i] = "counted"
  /\ check' = [check EXCEPT ![i] = "off"]
  /\ LET busy == sawBusy[i] \/ DueSoon
     IN  paused' = IF busy = sawPaused[i] THEN ~busy ELSE paused
  /\ slept' = [j \in Jobs |-> IF paused' THEN slept[j] ELSE 0]
  /\ age' = [age EXCEPT ![i] = 0]
  /\ sawPaused' = [sawPaused EXCEPT ![i] = FALSE]
  /\ sawBusy' = [sawBusy EXCEPT ![i] = FALSE]
  /\ UNCHANGED <<job, dueIn, foreseen, checkIn, faults>>

\* Redis refuses: the worker is left as it was.
CheckFails(i) ==
  /\ check[i] # "off"
  /\ Fault
  /\ check' = [check EXCEPT ![i] = "off"]
  /\ age' = [age EXCEPT ![i] = 0]
  /\ sawPaused' = [sawPaused EXCEPT ![i] = FALSE]
  /\ sawBusy' = [sawBusy EXCEPT ![i] = FALSE]
  /\ slept' = [j \in Jobs |-> IF i = Interval THEN 0 ELSE slept[j]]
  /\ UNCHANGED <<job, dueIn, foreseen, paused, checkIn>>

-----------------------------------------------------------------------------
\* The process dies and another starts, awake: its job is left active.
Crash ==
  /\ Fault
  /\ job' = [j \in Jobs |-> IF job[j] = "active" THEN "orphan" ELSE job[j]]
  /\ paused' = FALSE
  /\ slept' = [j \in Jobs |-> 0]
  /\ checkIn' = CheckEvery
  /\ check' = [i \in Checks |-> "off"]
  /\ age' = [i \in Checks |-> 0]
  /\ sawPaused' = [i \in Checks |-> FALSE]
  /\ sawBusy' = [i \in Checks |-> FALSE]
  /\ UNCHANGED <<dueIn, foreseen>>

\* Time passes when no timer is due, no read is overdue and an awake worker has
\* seen to what it can do at once.
Quiet ==
  /\ checkIn > 0
  /\ \A i \in Checks : check[i] # "off" => age[i] < MaxRead
  /\ ~paused /\ Idle => \A j \in Jobs : ~Due(j)

Tick ==
  /\ Quiet
  /\ checkIn' = checkIn - 1
  /\ age' = [i \in Checks |-> IF check[i] = "off" THEN 0 ELSE age[i] + 1]
  /\ dueIn' = [j \in Jobs |-> IF dueIn[j] > 0 THEN dueIn[j] - 1 ELSE 0]
  /\ slept' = [j \in Jobs |-> IF paused /\ Due(j) THEN slept[j] + 1 ELSE slept[j]]
  /\ UNCHANGED <<job, foreseen, paused, check, sawPaused, sawBusy, faults>>

Init ==
  /\ job       = [j \in Jobs |-> "none"]
  /\ dueIn     = [j \in Jobs |-> 0]
  /\ foreseen  = {}
  /\ slept     = [j \in Jobs |-> 0]
  /\ paused    = FALSE
  /\ checkIn   = CheckEvery
  /\ check     = [i \in Checks |-> "off"]
  /\ age       = [i \in Checks |-> 0]
  /\ sawPaused = [i \in Checks |-> FALSE]
  /\ sawBusy   = [i \in Checks |-> FALSE]
  /\ faults    = 0

CheckStep(i) == CountJobs(i) \/ Decide(i)

Next ==
  \/ \E j \in Jobs : Add(j) \/ Take(j) \/ Finish(j) \/ Recover(j)
  \/ \E i \in Checks : Ring(i) \/ CheckStep(i) \/ CheckFails(i)
  \/ CheckOnTime \/ Crash \/ Tick

Spec == Init /\ [][Next]_vars

\* Clocks run, the interval fires, Redis answers, and an awake worker works; it
\* takes waiting jobs in their order.  Nobody has to ring.
Fairness ==
  /\ WF_vars(Tick) /\ WF_vars(CheckOnTime)
  /\ \A i \in Checks : WF_vars(CheckStep(i))
  /\ \A j \in Jobs : SF_vars(Take(j)) /\ WF_vars(Finish(j)) /\ SF_vars(Recover(j))

FairSpec == Spec /\ Fairness

-----------------------------------------------------------------------------
\* The worker never sleeps over a due job for longer than a check interval and
\* that check's reads, as long as the checks answer (idleSleep.ts:48-50).
WokenInTime == \A j \in Jobs : slept[j] <= CheckEvery + MaxRead

\* A job planned further ahead than the horizon, due with no other, never waits
\* for the worker to wake, whatever checks overlap, if none fails
\* (idleSleep.ts:68-69, worker.ts:73-76).
ForeseenIsOnTime == faults = 0 => \A j \in foreseen : slept[j] = 0

\* No job is slept over for good, not even the one a dead process left active,
\* which only an awake worker recovers (worker.ts:80-85).
JobRuns == \A j \in Jobs : (Due(j) \/ job[j] = "orphan") ~> job[j] = "active"

\* The interval's check is as old as the interval.
AgeIsElapsed == check[Interval] # "off" => age[Interval] = CheckEvery - checkIn

\* Only a due job is slept over, and only by a paused worker.
SleptIsDue == \A j \in Jobs : slept[j] > 0 => paused /\ Due(j)

\* A check that counted nothing has been under way since before the job waited.
UnseenIsRecent ==
  check[Interval] = "counted" /\ ~sawBusy[Interval] =>
    \A j \in Jobs : job[j] = "waiting" => slept[j] <= age[Interval]

\* Sleep is short: it began since the last interval, or that interval's check has
\* seen the worker paused and is about to wake it.
SleepIsSeen ==
  \A j \in Jobs :
    slept[j] <= IF check[Interval] # "off" /\ sawPaused[Interval]
                THEN CheckEvery + age[Interval] ELSE CheckEvery - checkIn

\* A job planned further ahead than the horizon never meets a worker still asleep:
\* the interval's check that follows, or the one under way that saw the worker
\* paused, decides while the job is not due, and wakes it.
ForeseenAhead ==
  \A j \in foreseen : faults = 0 =>
    /\ slept[j] = 0 /\ job[j] \in {"delayed", "active"}
    /\ paused /\ job[j] = "delayed" =>
         dueIn[j] > IF check[Interval] # "off" /\ sawPaused[Interval]
                    THEN MaxRead - age[Interval] ELSE checkIn + MaxRead

\* All of it together: the inductive invariant.
SleepTimed == TypeOK /\ AgeIsElapsed /\ SleptIsDue /\ UnseenIsRecent /\ SleepIsSeen
SleepInv   == SleepTimed /\ ForeseenAhead
=============================================================================

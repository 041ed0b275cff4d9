-------------------------- MODULE WorkerProofs --------------------------
(***************************************************************************)
(* What is proved of the worker process.  Asleep (IdleSleep), for any      *)
(* jobs, intervals, horizon and overlapping checks: no due job is slept    *)
(* over for longer than one check interval and that check's reads, and a   *)
(* job planned ahead not at all.  Planned (Pace), for any hours, pace,     *)
(* pause and clocks: nothing leaves outside the hours, before the promise  *)
(* or over the pace and one, and what is announced is what the plan keeps. *)
(* Watched (Watch), for any limits, delays and checks under way: what was  *)
(* told is what is so.                                                     *)
(***************************************************************************)
EXTENDS Worker, SequenceTheorems, FiniteSetTheorems, WellFoundedInduction, TLAPS

\* The invariant holds at first.
LEMMA InitInv == Init => SleepTimed
<1> SUFFICES ASSUME Init PROVE SleepTimed
  OBVIOUS
<1>1. sawPaused \in [Checks -> BOOLEAN] /\ sawBusy \in [Checks -> BOOLEAN]
  BY Zenon DEF Init
<1>2. TypeOK
  <2>1. /\ job \in [Jobs -> {"none", "delayed", "waiting", "active", "orphan"}]
        /\ foreseen \subseteq Jobs
        /\ check \in [Checks -> {"off", "begun", "counted"}]
    BY DEF Init
  <2>2. /\ dueIn \in [Jobs -> 0 .. Furthest] /\ slept \in [Jobs -> Nat]
        /\ age \in [Checks -> 0 .. MaxRead]
    BY IdleAssumption DEF Init
  <2>3. checkIn \in 0 .. CheckEvery /\ faults \in 0 .. MaxFaults
    BY IdleAssumption DEF Init
  <2>4. paused \in BOOLEAN
    BY Zenon DEF Init
  <2>5. QED
    BY <1>1, <2>1, <2>2, <2>3, <2>4 DEF TypeOK
<1>3. AgeIsElapsed /\ SleptIsDue /\ UnseenIsRecent /\ SleepIsSeen
  BY IdleAssumption
     DEF Init, AgeIsElapsed, SleptIsDue, UnseenIsRecent, SleepIsSeen, Checks
<1>4. QED
  BY <1>2, <1>3 DEF SleepTimed

\* The queue's own steps: a job is only added, taken or recovered unslept.
LEMMA QueueInv ==
  ASSUME SleepTimed, NEW j \in Jobs, Add(j) \/ Take(j) \/ Finish(j) \/ Recover(j)
  PROVE  SleepTimed'
<1>1. /\ UNCHANGED <<paused, checkIn, checkVars, faults>>
      /\ \A d \in Jobs : slept'[d] = slept[d] \/ slept'[d] = 0
  BY DEF Add, Put, Take, Finish, Recover, SleepTimed, TypeOK
<1>2. TypeOK'
  <2>1. foreseen' \subseteq Jobs
    BY DEF Add, Put, Take, Finish, Recover, SleepTimed, TypeOK
  <2>2. job' \in [Jobs -> {"none", "delayed", "waiting", "active", "orphan"}]
    BY DEF Add, Put, Take, Finish, Recover, SleepTimed, TypeOK
  <2>3. dueIn' \in [Jobs -> 0 .. Furthest] /\ slept' \in [Jobs -> Nat]
    BY IdleAssumption DEF Add, Put, Take, Finish, Recover, SleepTimed, TypeOK
  <2>4. QED
    BY <1>1, <2>1, <2>2, <2>3 DEF SleepTimed, TypeOK, checkVars
<1>3. \A d \in Jobs : slept'[d] > 0 =>
        slept'[d] = slept[d] /\ paused /\ Due(d) /\ job'[d] = job[d] /\ dueIn'[d] = dueIn[d]
  BY DEF Add, Put, Take, Finish, Recover, SleepTimed, TypeOK, SleptIsDue, Due
<1>4. SleptIsDue'
  BY <1>1, <1>3 DEF SleptIsDue, Due
<1>5. AgeIsElapsed' /\ SleepIsSeen'
  BY <1>1, <1>2, IdleAssumption
     DEF AgeIsElapsed, SleepIsSeen, SleepTimed, TypeOK, checkVars, Checks
<1>6. UnseenIsRecent'
  <2> SUFFICES ASSUME check[Interval] = "counted", ~sawBusy[Interval],
                      NEW d \in Jobs, job'[d] = "waiting"
               PROVE  slept'[d] <= age[Interval]
    BY <1>1 DEF UnseenIsRecent, checkVars
  <2>1. age[Interval] \in Nat
    BY IdleAssumption DEF SleepTimed, TypeOK, Checks
  <2>2. CASE slept'[d] > 0
    BY <1>3, <2>2 DEF SleepTimed, UnseenIsRecent
  <2>3. CASE ~(slept'[d] > 0)
    BY <1>2, <2>1, <2>3 DEF TypeOK
  <2>4. QED
    BY <2>2, <2>3
<1>7. QED
  BY <1>2, <1>4, <1>5, <1>6 DEF SleepTimed

\* A check begins, or counts, with nothing else moving.
LEMMA BeginInv ==
  ASSUME SleepTimed, CheckOnTime \/ \E i \in Checks : Ring(i) \/ CountJobs(i)
  PROVE  SleepTimed'
<1> USE IdleAssumption DEF Checks
<1>1. CASE CheckOnTime
  BY <1>1 DEF CheckOnTime, Begin, jobVars, SleepTimed, TypeOK, AgeIsElapsed, SleptIsDue,
              UnseenIsRecent, SleepIsSeen, Due
<1>2. ASSUME NEW i \in Rings, Ring(i) PROVE SleepTimed'
  BY <1>2 DEF Ring, Begin, jobVars, SleepTimed, TypeOK, AgeIsElapsed, SleptIsDue,
              UnseenIsRecent, SleepIsSeen, Due
<1>3. ASSUME NEW i \in Checks, CountJobs(i) PROVE SleepTimed'
  BY <1>3 DEF CountJobs, jobVars, SleepTimed, TypeOK, AgeIsElapsed, SleptIsDue,
              UnseenIsRecent, SleepIsSeen, Due
<1>4. QED
  BY <1>1, <1>2, <1>3 DEF Ring

\* A check decides.  If it leaves a job asleep, the job began to wait after it.
LEMMA DecideInv ==
  ASSUME SleepTimed, NEW i \in Checks, Decide(i)
  PROVE  SleepTimed'
<1> USE IdleAssumption DEF Checks
<1>1. /\ check[i] = "counted" /\ check' = [check EXCEPT ![i] = "off"]
      /\ paused' \in BOOLEAN
      /\ slept' = [j \in Jobs |-> IF paused' THEN slept[j] ELSE 0]
      /\ age' = [age EXCEPT ![i] = 0]
      /\ sawPaused' = [sawPaused EXCEPT ![i] = FALSE]
      /\ sawBusy' = [sawBusy EXCEPT ![i] = FALSE]
      /\ UNCHANGED <<job, dueIn, foreseen, checkIn, faults>>
  BY DEF Decide, SleepTimed, TypeOK
<1>2. TypeOK'
  BY <1>1 DEF SleepTimed, TypeOK
<1>3. SleptIsDue' /\ AgeIsElapsed' /\ UnseenIsRecent'
  BY <1>1 DEF SleepTimed, TypeOK, SleptIsDue, AgeIsElapsed, UnseenIsRecent, Due
<1>4. SleepIsSeen'
  <2>1. CASE i # Interval \/ ~sawPaused[Interval] \/ ~paused'
    <3>1. CASE ~paused'
      BY <1>1, <1>2, <3>1 DEF TypeOK, SleepIsSeen
    <3>2. CASE paused' /\ i = Interval /\ ~sawPaused[Interval]
      BY <1>1, <3>2 DEF SleepTimed, TypeOK, SleepIsSeen
    <3>3. CASE paused' /\ i # Interval
      BY <1>1, <3>3 DEF SleepTimed, TypeOK, SleepIsSeen
    <3>4. QED
      BY <2>1, <3>1, <3>2, <3>3
  <2>2. CASE i = Interval /\ sawPaused[Interval] /\ paused'
    <3>1. ~sawBusy[Interval] /\ ~DueSoon
      BY <2>2 DEF Decide, SleepTimed, TypeOK
    <3>2. ASSUME NEW j \in Jobs, slept[j] > 0 PROVE slept[j] <= age[Interval]
      <4>1. job[j] = "waiting"
        BY <3>1, <3>2 DEF SleepTimed, TypeOK, SleptIsDue, Due, DueSoon
      <4>2. QED
        BY <1>1, <2>2, <3>1, <4>1 DEF SleepTimed, UnseenIsRecent
    <3>3. age[Interval] = CheckEvery - checkIn /\ age[Interval] \in Nat
      BY <1>1, <2>2 DEF SleepTimed, TypeOK, AgeIsElapsed
    <3>4. \A j \in Jobs : slept[j] <= CheckEvery - checkIn
      BY <3>2, <3>3 DEF SleepTimed, TypeOK
    <3>5. QED
      BY <1>1, <2>2, <3>4 DEF SleepTimed, TypeOK, SleepIsSeen
  <2>3. QED
    BY <2>1, <2>2
<1>5. QED
  BY <1>2, <1>3, <1>4 DEF SleepTimed

\* A check that fails, and the process's death.
LEMMA FaultInv ==
  ASSUME SleepTimed, Crash \/ \E i \in Checks : CheckFails(i)
  PROVE  SleepTimed'
<1> USE IdleAssumption DEF Checks, Fault
<1>1. CASE Crash
  <2>1. TypeOK'
    <3>1. sawPaused' \in [Checks -> BOOLEAN] /\ sawBusy' \in [Checks -> BOOLEAN]
      BY <1>1, Zenon DEF Crash
    <3>2. paused' \in BOOLEAN
      BY <1>1, Zenon DEF Crash
    <3>3. /\ job' \in [Jobs -> {"none", "delayed", "waiting", "active", "orphan"}]
          /\ dueIn' \in [Jobs -> 0 .. Furthest] /\ foreseen' \subseteq Jobs
          /\ slept' \in [Jobs -> Nat]
          /\ check' \in [Checks -> {"off", "begun", "counted"}]
          /\ age' \in [Checks -> 0 .. MaxRead]
          /\ checkIn' \in 0 .. CheckEvery /\ faults' \in 0 .. MaxFaults
      BY <1>1 DEF Crash, SleepTimed, TypeOK
    <3>4. QED
      BY <3>1, <3>2, <3>3 DEF TypeOK
  <2>2. /\ slept' = [j \in Jobs |-> 0]
        /\ check'[Interval] = "off"
        /\ checkIn' = CheckEvery
    BY <1>1 DEF Crash
  <2>3. QED
    BY <2>1, <2>2 DEF SleepTimed, AgeIsElapsed, SleptIsDue, UnseenIsRecent, SleepIsSeen
<1>2. ASSUME NEW i \in Checks, CheckFails(i) PROVE SleepTimed'
  BY <1>2 DEF CheckFails, SleepTimed, TypeOK, AgeIsElapsed, SleptIsDue, UnseenIsRecent,
              SleepIsSeen, Due
<1>3. QED
  BY <1>1, <1>2

\* Time passes for the interval, its check and the sleep alike.
LEMMA TickInv == ASSUME SleepTimed, Tick PROVE SleepTimed'
<1> USE IdleAssumption DEF Checks
<1>1. TypeOK'
  BY DEF Tick, Quiet, SleepTimed, TypeOK
<1>2. AgeIsElapsed'
  BY DEF Tick, Quiet, SleepTimed, TypeOK, AgeIsElapsed
<1>3. SleptIsDue'
  BY DEF Tick, Quiet, SleepTimed, TypeOK, SleptIsDue, Due
<1>4. UnseenIsRecent'
  BY DEF Tick, Quiet, SleepTimed, TypeOK, UnseenIsRecent
<1>5. SleepIsSeen'
  BY DEF Tick, Quiet, SleepTimed, TypeOK, SleepIsSeen
<1>6. QED
  BY <1>1, <1>2, <1>3, <1>4, <1>5 DEF SleepTimed

LEMMA TimedStep == SleepTimed /\ [Next]_vars => SleepTimed'
<1> SUFFICES ASSUME SleepTimed, [Next]_vars PROVE SleepTimed'
  OBVIOUS
<1>1. CASE UNCHANGED vars
  BY <1>1 DEF vars, jobVars, checkVars, SleepTimed, TypeOK, AgeIsElapsed, SleptIsDue,
              UnseenIsRecent, SleepIsSeen, Due
<1>2. CASE Next
  BY <1>2, QueueInv, BeginInv, DecideInv, FaultInv, TickInv DEF Next, CheckStep
<1>3. QED
  BY <1>1, <1>2

-----------------------------------------------------------------------------
(* A job planned ahead of the horizon.                                     *)

\* What a foreseen job's time is measured against.
Deadline == IF check[Interval] # "off" /\ sawPaused[Interval]
            THEN MaxRead - age[Interval] ELSE checkIn + MaxRead

\* Whatever the checks are at, a job beyond the horizon is beyond the deadline.
LEMMA HorizonIsFar == ASSUME TypeOK PROVE Deadline \in Nat /\ Deadline <= Horizon
BY IdleAssumption DEF TypeOK, Deadline, Checks

\* The queue's steps: a job is foreseen beyond the horizon, taken awake.
LEMMA QueueAhead ==
  ASSUME SleepInv, NEW j \in Jobs, Add(j) \/ Take(j) \/ Finish(j) \/ Recover(j)
  PROVE  ForeseenAhead'
<1> SUFFICES ASSUME NEW d \in foreseen', faults' = 0
             PROVE  /\ slept'[d] = 0 /\ job'[d] \in {"delayed", "active"}
                    /\ paused' /\ job'[d] = "delayed" => dueIn'[d] > Deadline'
  BY DEF ForeseenAhead, Deadline
<1> USE DEF SleepInv, SleepTimed, TypeOK
<1>1. UNCHANGED <<paused, checkIn, checkVars, faults>> /\ Deadline' = Deadline
  BY DEF Add, Put, Take, Finish, Recover, Deadline, checkVars
<1>2. Deadline \in Nat /\ Deadline <= Horizon
  BY HorizonIsFar
<1>3. CASE Add(j)
  <2>1. PICK n \in 0 .. Furthest : Put(j, n) /\ job[j] = "none"
    BY <1>3 DEF Add
  <2>2. CASE d = j
    <3>1. n > Horizon
      BY <2>1, <2>2, <1>1 DEF Put, ForeseenAhead
    <3>2. job'[j] = "delayed" /\ dueIn'[j] = n /\ slept'[j] = 0
      BY <2>1, <3>1, IdleAssumption DEF Put
    <3>3. QED
      BY <1>1, <1>2, <2>2, <3>1, <3>2, IdleAssumption
  <2>3. CASE d # j
    <3>1. d \in foreseen /\ job'[d] = job[d] /\ dueIn'[d] = dueIn[d] /\ slept'[d] = slept[d]
      BY <2>1, <2>3 DEF Put
    <3>2. QED
      BY <1>1, <3>1 DEF ForeseenAhead, Deadline
  <2>4. QED
    BY <2>2, <2>3
<1>4. CASE Take(j)
  <2>1. ~paused /\ d \in foreseen /\ slept' = slept /\ job'[d] \in {job[d], "active"}
    BY <1>4 DEF Take
  <2>2. QED
    BY <1>1, <2>1 DEF ForeseenAhead
<1>5. CASE Finish(j) \/ Recover(j)
  <2>1. d \in foreseen /\ faults = 0
    BY <1>1, <1>5 DEF Finish, Recover
  <2>2. d # j /\ job'[d] = job[d] /\ dueIn'[d] = dueIn[d] /\ slept'[d] = slept[d]
    BY <1>5, <2>1 DEF Finish, Recover, ForeseenAhead
  <2>3. QED
    BY <1>1, <2>1, <2>2 DEF ForeseenAhead, Deadline
<1>6. QED
  BY <1>3, <1>4, <1>5

\* An interval's check begins with the deadline a check interval ahead, or awake.
LEMMA CheckAhead ==
  ASSUME SleepInv, CheckOnTime \/ \E i \in Checks : Ring(i) \/ CountJobs(i)
  PROVE  ForeseenAhead'
<1> USE IdleAssumption DEF Checks, SleepInv, SleepTimed, TypeOK
<1>1. UNCHANGED <<job, dueIn, foreseen, slept, paused, faults>>
  BY DEF CheckOnTime, Ring, CountJobs, jobVars
<1>2. CASE CheckOnTime
  <2>1. /\ checkIn = 0 /\ check[Interval] = "off"
        /\ sawPaused'[Interval] = paused /\ age'[Interval] = 0
        /\ check'[Interval] = "begun"
    BY <1>2 DEF CheckOnTime, Begin
  <2>2. QED
    BY <1>1, <2>1 DEF ForeseenAhead
<1>3. ASSUME NEW i \in Checks, Ring(i) \/ CountJobs(i) PROVE ForeseenAhead'
  <2>1. /\ (check'[Interval] # "off") = (check[Interval] # "off")
        /\ sawPaused'[Interval] = sawPaused[Interval] /\ age'[Interval] = age[Interval]
        /\ checkIn' = checkIn
    BY <1>3 DEF Ring, Begin, CountJobs
  <2>2. QED
    BY <1>1, <2>1 DEF ForeseenAhead
<1>4. QED
  BY <1>2, <1>3

\* A check that pauses the worker, or leaves it paused having seen it so, found
\* every delayed job beyond the horizon.
LEMMA DecideAhead ==
  ASSUME SleepInv, NEW i \in Checks, Decide(i)
  PROVE  ForeseenAhead'
<1> SUFFICES ASSUME NEW d \in foreseen, faults = 0
             PROVE  /\ slept'[d] = 0 /\ job'[d] \in {"delayed", "active"}
                    /\ paused' /\ job'[d] = "delayed" => dueIn'[d] > Deadline'
  BY DEF Decide, ForeseenAhead, Deadline
<1> USE IdleAssumption DEF Checks, SleepInv, SleepTimed
<1>1. /\ UNCHANGED <<job, dueIn, foreseen, checkIn, faults>>
      /\ slept'[d] = 0 /\ job[d] \in {"delayed", "active"}
  BY DEF Decide, ForeseenAhead, TypeOK
<1>2. Deadline' \in Nat /\ Deadline' <= Horizon
  <2>1. TypeOK'
    BY DecideInv
  <2>2. age'[Interval] \in 0 .. MaxRead /\ checkIn' \in 0 .. CheckEvery
    BY <2>1 DEF TypeOK
  <2>3. MaxRead - age'[Interval] \in 0 .. MaxRead /\ checkIn' + MaxRead \in 0 .. Horizon
    BY <2>2
  <2>4. Deadline' \in {MaxRead - age'[Interval], checkIn' + MaxRead}
    BY DEF Deadline
  <2>5. QED
    BY <2>3, <2>4
<1>3. CASE ~DueSoon /\ job[d] = "delayed"
  BY <1>1, <1>2, <1>3 DEF DueSoon, TypeOK
<1>4. CASE DueSoon
  <2>1. paused' => paused /\ ~sawPaused[i]
    BY <1>4 DEF Decide, TypeOK
  <2>2. CASE i = Interval
    BY <1>1, <2>1, <2>2 DEF Decide, ForeseenAhead, Deadline, TypeOK
  <2>3. CASE i # Interval
    BY <1>1, <2>1, <2>3 DEF Decide, ForeseenAhead, Deadline, TypeOK
  <2>4. QED
    BY <2>2, <2>3
<1>5. QED
  BY <1>1, <1>3, <1>4

\* A tick brings the job and its deadline nearer alike.
LEMMA TickAhead == ASSUME SleepInv, Tick PROVE ForeseenAhead'
<1> USE IdleAssumption DEF Checks, SleepInv, SleepTimed, TypeOK
<1> SUFFICES ASSUME NEW d \in foreseen, faults = 0
             PROVE  /\ slept'[d] = 0 /\ job'[d] \in {"delayed", "active"}
                    /\ paused' /\ job'[d] = "delayed" => dueIn'[d] > Deadline'
  BY DEF Tick, ForeseenAhead, Deadline
<1>1. /\ UNCHANGED <<job, paused, check, sawPaused>> /\ checkIn > 0 /\ checkIn' = checkIn - 1
      /\ check[Interval] # "off" =>
           age[Interval] < MaxRead /\ age'[Interval] = age[Interval] + 1
      /\ dueIn'[d] = IF dueIn[d] > 0 THEN dueIn[d] - 1 ELSE 0
      /\ slept'[d] = IF paused /\ Due(d) THEN slept[d] + 1 ELSE slept[d]
  BY DEF Tick, Quiet
<1>2. paused /\ job[d] = "delayed" => dueIn[d] > Deadline /\ Deadline \in Nat
  BY HorizonIsFar DEF ForeseenAhead, Deadline
<1>3. slept'[d] = 0 /\ job'[d] \in {"delayed", "active"}
  BY <1>1, <1>2 DEF ForeseenAhead, Due
<1>4. paused /\ job[d] = "delayed" => dueIn'[d] > Deadline'
  BY <1>1, <1>2 DEF Deadline
<1>5. QED
  BY <1>1, <1>3, <1>4

LEMMA SleepStep == SleepInv /\ [Next]_vars => SleepInv'
<1> SUFFICES ASSUME SleepInv, [Next]_vars PROVE SleepInv'
  OBVIOUS
<1>1. SleepTimed'
  BY TimedStep DEF SleepInv
<1>2. ASSUME Crash \/ \E i \in Checks : CheckFails(i) PROVE ForeseenAhead'
  <2>1. faults' > 0
    BY <1>2 DEF Crash, CheckFails, Fault, SleepInv, SleepTimed, TypeOK
  <2>2. QED
    BY <2>1 DEF ForeseenAhead
<1>3. ASSUME UNCHANGED vars PROVE ForeseenAhead'
  BY <1>3 DEF vars, jobVars, checkVars, SleepInv, ForeseenAhead
<1>4. ASSUME Next PROVE ForeseenAhead'
  <2>1. CASE \E j \in Jobs : Add(j) \/ Take(j) \/ Finish(j) \/ Recover(j)
    BY <2>1, QueueAhead
  <2>2. CASE CheckOnTime \/ \E i \in Checks : Ring(i) \/ CountJobs(i)
    BY <2>2, CheckAhead
  <2>3. CASE \E i \in Checks : Decide(i)
    BY <2>3, DecideAhead
  <2>4. CASE Crash \/ \E i \in Checks : CheckFails(i)
    BY <2>4, <1>2
  <2>5. CASE Tick
    BY <2>5, TickAhead
  <2>6. QED
    BY <1>4, <2>1, <2>2, <2>3, <2>4, <2>5 DEF Next, CheckStep
<1>5. QED
  BY <1>1, <1>3, <1>4 DEF SleepInv

-----------------------------------------------------------------------------
(* What the watch tells.                                                   *)

Look == [read : Wa!Readings \cup {Never}, ago : 0 .. MaxLook]

\* The numbers the watch counts with.
LEMMA WatchNumbers ==
  ASSUME Wa!TypeOK
  PROVE  /\ Wa!Every \in Nat /\ MaxLook \in Nat /\ Repeat \in Nat
         /\ Wa!Bound = Wa!Every + MaxLook
         /\ nextLook \in Nat /\ nextLook <= Wa!Every /\ steady \in Nat
BY WorkerAssumption DEF Wa!TypeOK, Wa!Every, Wa!Bound

LEMMA LooksAre ==
  ASSUME Wa!TypeOK
  PROVE  /\ Len(looks) \in Nat /\ DOMAIN looks = 1 .. Len(looks)
         /\ \A i \in 1 .. Len(looks) : looks[i] \in Look
<1>1. looks \in Seq(Look)
  BY DEF Wa!TypeOK, Look
<1>2. QED
  BY <1>1, LenProperties, ElementOfSeq

\* What each kind's condition, and what a check makes of a reading, come to.
LEMMA Stopped ==
  ASSUME kind = "worker_stopped", NEW s \in Nat, NEW a \in Nat
  PROVE  /\ Wa!Holds(s) <=> s > StaleAfter
         /\ Wa!WhenAnswered([read |-> s, ago |-> a]) = s + a
         /\ Wa!Alert(s) <=> Wa!Holds(s)
         /\ Wa!WhenAnswered([read |-> Never, ago |-> a]) = Never
         /\ Wa!Alert(Never)
<1>1. StaleAfter \in Nat /\ Never \notin Nat
  BY WorkerAssumption
<1>2. Wa!Holds(s) <=> s > StaleAfter
  BY <1>1 DEF Wa!Holds, Wa!Rate
<1>3. \A r : Wa!Alert(r) <=> ~Wa!Alive(r)
  BY DEF Wa!Alert, Wa!Rate
<1>4. (Wa!Alive(s) <=> s <= StaleAfter) /\ ~Wa!Alive(Never)
  BY <1>1 DEF Wa!Alive
<1>5. QED
  BY <1>1, <1>2, <1>3, <1>4 DEF Wa!WhenAnswered, Wa!Rate

LEMMA Stuck ==
  ASSUME kind = "queue_stuck", NEW s \in Nat \cup {Never}, NEW a \in Nat
  PROVE  /\ Wa!Holds(s) <=> s # Never /\ s > StuckAfter
         /\ Wa!WhenAnswered([read |-> s, ago |-> a]) = IF s = Never THEN s ELSE s + a
         /\ Wa!Alert(s) <=> Wa!Holds(s)
BY WorkerAssumption DEF Wa!Holds, Wa!WhenAnswered, Wa!Alert, Wa!Rate

LEMMA Refused ==
  ASSUME kind = "send_error_rate", NEW s \in Wa!Counts, NEW a
  PROVE  /\ Wa!WhenAnswered([read |-> s, ago |-> a]) = s
         /\ Wa!Alert(s) <=> Wa!Holds(s)
<1>1. PICK n \in Nat, e \in Nat : s = [sent |-> n, errors |-> e]
  BY WorkerAssumption DEF Wa!Counts
<1>2. Wa!Alert(s) <=> n + e >= MinAttempts /\ 2 * e > n + e
  BY <1>1 DEF Wa!Alert, Wa!TooManyErrors, Wa!Rate
<1>3. Wa!Holds(s) <=> n + e >= MinAttempts /\ e > n
  BY <1>1 DEF Wa!Holds, Wa!Rate
<1>4. QED
  BY <1>1, <1>2, <1>3 DEF Wa!WhenAnswered, Wa!Rate


\* A check that fits makes of what it read what is so.
LEMMA FitIsRight ==
  ASSUME Wa!TypeOK, NEW look \in Look, Wa!Fits(look)
  PROVE  Wa!Alert(Wa!WhenAnswered(look)) <=> Wa!Holds(seen)
<1>1. PICK r \in Wa!Readings \cup {Never}, a \in 0 .. MaxLook :
        look = [read |-> r, ago |-> a]
  BY DEF Look
<1>2. a \in Nat /\ MaxLook \in Nat /\ a <= MaxLook /\ Never \notin Nat
  BY WorkerAssumption
<1>3. \/ ~Wa!Rate /\ r # Never /\ r + a = seen
      \/ Wa!Holds(seen) /\ Wa!Alert(Wa!WhenAnswered(look))
      \/ ~Wa!Holds(seen) /\ ~Wa!Alert(Wa!WhenAnswered([read |-> r, ago |-> MaxLook]))
  BY <1>1 DEF Wa!Fits
<1>4. CASE kind = "worker_stopped"
  <2>1. seen \in Nat /\ r \in Nat \cup {Never}
    BY <1>4, WorkerAssumption DEF Wa!TypeOK, Wa!Readings, Wa!Rate
  <2>2. (Wa!Holds(seen) <=> seen > StaleAfter) /\ (Wa!Alert(seen) <=> Wa!Holds(seen))
    BY <1>2, <1>4, <2>1, Stopped
  <2>3. CASE r = Never
    BY <1>1, <1>2, <1>3, <1>4, <2>1, <2>3, Stopped
  <2>4. CASE r \in Nat
    <3>1. /\ Wa!WhenAnswered(look) = r + a
          /\ Wa!WhenAnswered([read |-> r, ago |-> MaxLook]) = r + MaxLook
      BY <1>1, <1>2, <1>4, <2>4, Stopped
    <3>2. /\ Wa!Alert(r + a) <=> r + a > StaleAfter
          /\ Wa!Alert(r + MaxLook) <=> r + MaxLook > StaleAfter
      <4>1. r + a \in Nat /\ r + MaxLook \in Nat
        BY <1>2, <2>4
      <4>2. QED
        BY <1>2, <1>4, <4>1, Stopped
    <3>3. StaleAfter \in Nat
      BY WorkerAssumption
    <3>4. QED
      BY <1>2, <1>3, <2>1, <2>2, <2>4, <3>1, <3>2, <3>3
  <2>5. QED
    BY <2>1, <2>3, <2>4
<1>5. CASE kind = "queue_stuck"
  <2>1. seen \in Nat \cup {Never} /\ r \in Nat \cup {Never} /\ StuckAfter \in Nat
    <3>1. StuckAfter \in Nat
      BY WorkerAssumption
    <3>2. Wa!Readings \subseteq Nat
      BY <1>5, <3>1 DEF Wa!Readings, Wa!Rate
    <3>3. QED
      BY <3>1, <3>2 DEF Wa!TypeOK
  <2>2. (Wa!Holds(seen) <=> seen # Never /\ seen > StuckAfter)
    BY <1>2, <1>5, <2>1, Stuck
  <2>3. CASE r = Never
    BY <1>1, <1>2, <1>3, <1>5, <2>3, Stuck
  <2>4. CASE r \in Nat
    <3>1. /\ Wa!WhenAnswered(look) = r + a
          /\ Wa!WhenAnswered([read |-> r, ago |-> MaxLook]) = r + MaxLook
      BY <1>1, <1>2, <1>5, <2>4, Stuck
    <3>2. /\ Wa!Alert(r + a) <=> r + a > StuckAfter
          /\ Wa!Alert(r + MaxLook) <=> r + MaxLook > StuckAfter
      <4>1. r + a \in Nat /\ r + MaxLook \in Nat
        BY <1>2, <2>4
      <4>2. QED
        BY <1>2, <1>5, <4>1, Stuck
    <3>3. QED
      BY <1>2, <1>3, <2>1, <2>2, <2>4, <3>1, <3>2
  <2>5. QED
    BY <2>1, <2>3, <2>4
<1>6. CASE kind = "send_error_rate"
  <2>1. \A s \in Wa!Counts \cup {Never} : \A x :
          Wa!WhenAnswered([read |-> s, ago |-> x]) = s
    BY <1>6 DEF Wa!WhenAnswered, Wa!Rate
  <2>2. Wa!Rate /\ r \in Wa!Counts \cup {Never}
    BY <1>6 DEF Wa!Readings, Wa!Rate
  <2>3. QED
    BY <1>1, <1>3, <2>1, <2>2
<1>7. QED
  BY <1>4, <1>5, <1>6 DEF Wa!TypeOK

\* Of what is watched, a smaller age or other counts take the place; what a check
\* under way makes of its reading stays what is so, or the time starts again.
LEMMA BecomesSide ==
  ASSUME Wa!TypeOK, NEW s, Wa!Becomes(s),
         s \in Wa!Readings \/ (kind = "queue_stuck" /\ s = Never),
         \/ Wa!Rate \/ s = Never
         \/ s = 0 \/ (seen # Never /\ s <= seen)
  PROVE  steady' = 0 \/ /\ steady' = steady
                        /\ Wa!Holds(s) <=> Wa!Holds(seen)
                        /\ ~Wa!Rate /\ seen # Never => 
                             Wa!Holds(s) <=> Wa!Holds(seen + MaxLook)
<1>1. /\ seen' = s
      /\ steady' \in {0, steady}
      /\ steady' # 0 => 
           Wa!Holds(Wa!WhenAnswered([read |-> seen, ago |-> MaxLook])) = Wa!Holds(s)
  BY DEF Wa!Becomes
<1>2. MaxLook \in Nat /\ Never \notin Nat /\ {StaleAfter, StuckAfter, Expiry} \subseteq Nat
  BY WorkerAssumption
<1>3. CASE kind = "worker_stopped"
  <2>1. seen \in Nat /\ s \in Nat /\ s <= seen
    BY <1>2, <1>3 DEF Wa!TypeOK, Wa!Readings, Wa!Rate
  <2>2. Wa!WhenAnswered([read |-> seen, ago |-> MaxLook]) = seen + MaxLook
    BY <1>2, <1>3, <2>1, Stopped
  <2>3. \A n \in Nat : Wa!Holds(n) <=> n > StaleAfter
    BY <1>2, <1>3, Stopped
  <2>4. QED
    BY <1>1, <1>2, <2>1, <2>2, <2>3
<1>4. CASE kind = "queue_stuck"
  <2>1. seen \in Nat \cup {Never} /\ s \in Nat \cup {Never}
    BY <1>2, <1>4 DEF Wa!TypeOK, Wa!Readings, Wa!Rate
  <2>2. /\ Wa!WhenAnswered([read |-> seen, ago |-> MaxLook])
             = IF seen = Never THEN Never ELSE seen + MaxLook
    BY <1>2, <1>4, <2>1, Stuck
  <2>3. \A n \in Nat : Wa!Holds(n) <=> n > StuckAfter
    BY <1>2, <1>4, Stuck
  <2>4. ~Wa!Holds(Never)
    BY <1>2, <1>4, Stuck
  <2>5. ~Wa!Rate
    BY <1>4 DEF Wa!Rate
  <2>6. CASE seen = Never
    BY <1>1, <1>2, <2>1, <2>2, <2>3, <2>4, <2>5, <2>6
  <2>7. CASE seen # Never
    BY <1>1, <1>2, <2>1, <2>2, <2>3, <2>4, <2>5, <2>7
  <2>8. QED
    BY <2>6, <2>7
<1>5. CASE kind = "send_error_rate"
  BY <1>1, <1>5 DEF Wa!WhenAnswered, Wa!Rate
<1>6. QED
  BY <1>3, <1>4, <1>5 DEF Wa!TypeOK

\* An age has a limit, and is told apart from it as far as it is counted.
LEMMA Limited ==
  ASSUME Wa!TypeOK, ~Wa!Rate
  PROVE  \E limit, cap \in Nat :
           /\ \A n \in Nat : (Wa!Holds(n) <=> n > limit) /\ (Wa!Alert(n) <=> n > limit)
           /\ \A n, a \in Nat : Wa!WhenAnswered([read |-> n, ago |-> a]) = n + a
           /\ Wa!Readings = 0 .. cap /\ limit < cap
           /\ cap = IF kind = "queue_stuck" THEN StuckAfter + 1 ELSE Expiry
<1>1. {StaleAfter, StuckAfter, Expiry} \subseteq Nat /\ StaleAfter < Expiry
  BY WorkerAssumption
<1>2. CASE kind = "worker_stopped"
  <2>1. /\ \A n \in Nat : (Wa!Holds(n) <=> n > StaleAfter) /\ (Wa!Alert(n) <=> Wa!Holds(n))
        /\ \A n, a \in Nat : Wa!WhenAnswered([read |-> n, ago |-> a]) = n + a
    BY <1>2, Stopped
  <2>2. Wa!Readings = 0 .. Expiry
    BY <1>1, <1>2 DEF Wa!Readings, Wa!Rate
  <2>3. QED
    BY <1>1, <1>2, <2>1, <2>2
<1>3. CASE kind = "queue_stuck"
  <2>1. /\ \A n \in Nat : (Wa!Holds(n) <=> n > StuckAfter) /\ (Wa!Alert(n) <=> Wa!Holds(n))
        /\ \A n, a \in Nat : Wa!WhenAnswered([read |-> n, ago |-> a]) = n + a
    <3>1. Never \notin Nat
      BY WorkerAssumption
    <3>2. QED
      BY <1>3, <3>1, Stuck
  <2>2. Wa!Readings = 0 .. StuckAfter + 1
    BY <1>1, <1>3 DEF Wa!Readings, Wa!Rate
  <2>3. StuckAfter + 1 \in Nat /\ StuckAfter < StuckAfter + 1
    BY <1>1
  <2>4. QED
    BY <1>1, <1>3, <2>1, <2>2, <2>3
<1>4. QED
  BY <1>2, <1>3 DEF Wa!TypeOK, Wa!Rate

\* So the checks under way still fit.
LEMMA BecomesFits ==
  ASSUME Wa!TypeOK, NEW s, Wa!Becomes(s), kind' = kind,
         s \in Wa!Readings \/ (kind = "queue_stuck" /\ s = Never),
         \/ Wa!Rate \/ s = Never
         \/ s = 0 \/ (seen # Never /\ s <= seen),
         NEW look \in Look, Wa!Fits(look), steady' # 0
  PROVE  Wa!Fits(look)'
<1>1. /\ seen' = s /\ (Wa!Holds(s) <=> Wa!Holds(seen))
      /\ ~Wa!Rate /\ seen # Never => (Wa!Holds(s) <=> Wa!Holds(seen + MaxLook))
  BY BecomesSide DEF Wa!Becomes
<1>2. PICK r \in Wa!Readings \cup {Never}, a \in 0 .. MaxLook :
        look = [read |-> r, ago |-> a]
  BY DEF Look
<1> DEFINE Last == Wa!WhenAnswered([read |-> r, ago |-> MaxLook])
<1>3. /\ Wa!Holds(seen)' <=> Wa!Holds(seen)
      /\ Wa!Alert(Wa!WhenAnswered(look))' <=> Wa!Alert(Wa!WhenAnswered(look))
      /\ Wa!Alert(Last)' <=> Wa!Alert(Last)
  BY <1>1 DEF Wa!Holds, Wa!Alert, Wa!WhenAnswered, Wa!Rate
<1>4. CASE Wa!Holds(seen)
  <2>1. Wa!Alert(Wa!WhenAnswered(look))
    BY <1>4, FitIsRight
  <2>2. QED
    BY <1>3, <1>4, <2>1 DEF Wa!Fits
<1>5. CASE ~Wa!Holds(seen)
  <2>1. ~Wa!Alert(Last)
    <3>1. CASE ~Wa!Rate /\ r # Never /\ r + a = seen
      <4>1. PICK limit, cap \in Nat :
              /\ \A n \in Nat : (Wa!Holds(n) <=> n > limit) /\ (Wa!Alert(n) <=> n > limit)
              /\ \A n, b \in Nat : Wa!WhenAnswered([read |-> n, ago |-> b]) = n + b
              /\ Wa!Readings = 0 .. cap
        BY <3>1, Limited
      <4>2. r \in Nat /\ a \in Nat /\ MaxLook \in Nat /\ Never \notin Nat
        BY <3>1, <4>1, WorkerAssumption
      <4>3. seen # Never /\ seen \in Nat /\ ~Wa!Holds(seen + MaxLook)
        BY <1>1, <1>5, <3>1, <4>2
      <4>4. Last = r + MaxLook /\ r + MaxLook \in Nat
        BY <4>1, <4>2
      <4>5. seen + MaxLook <= limit /\ r + MaxLook <= seen + MaxLook
        BY <3>1, <4>1, <4>2, <4>3
      <4>6. QED
        BY <4>1, <4>2, <4>3, <4>4, <4>5
    <3>2. CASE ~(~Wa!Rate /\ r # Never /\ r + a = seen)
      BY <1>2, <1>5, <3>2 DEF Wa!Fits
    <3>3. QED
      BY <3>1, <3>2
  <2>2. look.read = r
    BY <1>2
  <2>3. QED
    BY <1>3, <1>5, <2>1, <2>2 DEF Wa!Fits
<1>6. QED
  BY <1>4, <1>5

\* A step that changes what is watched, and a step that changes nothing of it.
LEMMA BecomesInv ==
  ASSUME Wa!WatchInv, NEW s, Wa!Becomes(s), UNCHANGED <<kind, nextLook, looks, told>>,
         s \in Wa!Readings \/ (kind = "queue_stuck" /\ s = Never),
         \/ Wa!Rate \/ s = Never
         \/ s = 0 \/ (seen # Never /\ s <= seen)
  PROVE  Wa!WatchInv'
<1> USE DEF Wa!WatchInv
<1>1. /\ seen' = s
      /\ steady' = 0 \/ (steady' = steady /\ (Wa!Holds(seen)' <=> Wa!Holds(seen)))
  <2>1. Wa!Holds(seen)' <=> Wa!Holds(seen')
    BY DEF Wa!Holds, Wa!Rate
  <2>2. QED
    BY <2>1, BecomesSide DEF Wa!Becomes
<1>2. Wa!Every \in Nat /\ Wa!Every' = Wa!Every /\ Wa!Bound' = Wa!Bound
      /\ MaxLook \in Nat /\ steady \in Nat /\ nextLook <= Wa!Every /\ nextLook \in Nat
  <2>1. Wa!Every' = Wa!Every
    BY DEF Wa!Every, Wa!Rate
  <2>2. QED
    BY <2>1, WatchNumbers DEF Wa!Bound
<1>3. Wa!TypeOK' /\ Wa!OldestFirst'
  <2>1. Wa!Readings' = Wa!Readings
    BY DEF Wa!Readings, Wa!Rate
  <2>2. steady' \in 0 .. Wa!Bound + 1
    BY <1>1, <1>2, WatchNumbers DEF Wa!TypeOK
  <2>3. QED
    BY <1>1, <1>2, <2>1, <2>2 DEF Wa!TypeOK, Wa!OldestFirst
<1>4. Wa!FreshFits'
  <2> SUFFICES ASSUME NEW i \in DOMAIN looks, looks[i].ago < steady'
               PROVE  Wa!Fits(looks[i])'
    BY DEF Wa!FreshFits, Wa!Fresh
  <2>1. looks[i] \in Look /\ looks[i].ago \in Nat
    BY LooksAre, <1>2 DEF Look
  <2>2. steady' # 0 /\ looks[i].ago < steady
    BY <1>1, <2>1
  <2>3. Wa!Fits(looks[i])
    BY <2>2 DEF Wa!FreshFits, Wa!Fresh
  <2>4. PICK look \in Look : look = looks[i]
    BY <2>1
  <2>5. Wa!Fits(look)'
    BY <2>2, <2>3, <2>4, BecomesFits
  <2>6. QED
    BY <2>4, <2>5 DEF Wa!Fits
<1>5. Wa!LookIsDue'
  <2>1. CASE steady' = 0
    BY <1>2, <2>1 DEF Wa!LookIsDue
  <2>2. CASE steady' = steady /\ (Wa!Holds(seen)' <=> Wa!Holds(seen))
    BY <1>2, <2>2 DEF Wa!LookIsDue, Wa!ToldRight, Wa!Fresh
  <2>3. QED
    BY <1>1, <2>1, <2>2
<1>6. Wa!AgainIsDue'
  <2>1. looks # <<>> => looks[1].ago \in Nat
    BY LooksAre, <1>2, EmptySeq DEF Wa!TypeOK, Look
  <2>2. QED
    BY <1>1, <1>2, <2>1 DEF Wa!AgainIsDue
<1>7. QED
  BY <1>3, <1>4, <1>5, <1>6

\* A check reads what is so.
LEMMA NewFits == ASSUME Wa!TypeOK PROVE Wa!Fits([read |-> Wa!Read, ago |-> 0])
<1> DEFINE new == [read |-> Wa!Read, ago |-> 0]
<1>1. {StaleAfter, StuckAfter, Expiry, MaxLook} \subseteq Nat /\ Never \notin Nat
      /\ StaleAfter < Expiry
  BY WorkerAssumption
<1>2. CASE kind = "worker_stopped"
  <2>1. seen \in Nat /\ ~Wa!Rate
    BY <1>1, <1>2 DEF Wa!TypeOK, Wa!Readings, Wa!Rate
  <2>2. CASE seen >= Expiry
    <3>1. Wa!Read = Never
      BY <1>2, <2>2 DEF Wa!Read
    <3>2. Wa!Holds(seen)
      <4>1. \A a \in Nat : Wa!Holds(seen) <=> seen > StaleAfter
        BY <1>2, <2>1, Stopped
      <4>2. StaleAfter \in Nat /\ seen > StaleAfter
        BY <1>1, <2>1, <2>2
      <4>3. QED
        BY <4>1, <4>2
    <3>3. Wa!WhenAnswered([read |-> Never, ago |-> 0]) = Never /\ Wa!Alert(Never)
      BY <1>2, <2>1, Stopped
    <3>4. QED
      BY <3>1, <3>2, <3>3 DEF Wa!Fits
  <2>3. CASE seen < Expiry
    <3>1. Wa!Read = seen
      BY <1>1, <2>1, <2>3 DEF Wa!Read
    <3>2. QED
      BY <1>1, <2>1, <3>1 DEF Wa!Fits
  <2>4. QED
    BY <1>1, <2>1, <2>2, <2>3
<1>3. CASE kind = "queue_stuck"
  <2>1. Wa!Read = seen /\ ~Wa!Rate /\ seen \in Nat \cup {Never}
    BY <1>1, <1>3 DEF Wa!TypeOK, Wa!Readings, Wa!Rate, Wa!Read
  <2>2. CASE seen = Never
    <3>1. ~Wa!Holds(seen) /\ ~Wa!Alert(Wa!WhenAnswered([read |-> Never, ago |-> MaxLook]))
      BY <1>1, <1>3, <2>2, Stuck
    <3>2. QED
      BY <2>1, <2>2, <3>1 DEF Wa!Fits
  <2>3. CASE seen # Never
    BY <2>1, <2>3 DEF Wa!Fits
  <2>4. QED
    BY <2>2, <2>3
<1>4. CASE kind = "send_error_rate"
  <2>1. Wa!Read = seen /\ seen \in Wa!Counts
    BY <1>4 DEF Wa!TypeOK, Wa!Readings, Wa!Rate, Wa!Read
  <2>2. /\ Wa!WhenAnswered([read |-> seen, ago |-> 0]) = seen
        /\ Wa!WhenAnswered([read |-> seen, ago |-> MaxLook]) = seen
        /\ Wa!Alert(seen) <=> Wa!Holds(seen)
    BY <1>4, <2>1, Refused
  <2>3. QED
    BY <2>1, <2>2 DEF Wa!Fits
<1>5. QED
  BY <1>2, <1>3, <1>4 DEF Wa!TypeOK

\* A check is the newest of those under way.
LEMMA CheckInv == ASSUME Wa!WatchInv, Wa!Check PROVE Wa!WatchInv'
<1> USE DEF Wa!WatchInv
<1> DEFINE new == [read |-> Wa!Read, ago |-> 0]
           n   == Len(looks)
<1>1. /\ looks' = Append(looks, new) /\ nextLook' = Wa!Every
      /\ UNCHANGED <<kind, seen, told, steady>>
      /\ Wa!Rate \/ nextLook = 0
  BY DEF Wa!Check
<1>2. /\ Wa!Every \in Nat /\ Wa!Every' = Wa!Every /\ Wa!Bound' = Wa!Bound
      /\ MaxLook \in Nat /\ steady \in Nat /\ nextLook \in Nat /\ Repeat \in Nat
      /\ nextLook <= Wa!Every /\ Wa!Readings' = Wa!Readings
  <2>1. Wa!Every' = Wa!Every /\ Wa!Readings' = Wa!Readings
    BY <1>1 DEF Wa!Every, Wa!Rate, Wa!Readings
  <2>2. QED
    BY <2>1, WatchNumbers DEF Wa!Bound
<1>3. new \in Look
  <2>1. Wa!Read \in Wa!Readings \cup {Never}
    BY DEF Wa!Read, Wa!TypeOK
  <2>2. QED
    BY <1>2, <2>1 DEF Look
<1>4. looks \in Seq(Look) /\ n \in Nat /\ DOMAIN looks = 1 .. n
      /\ \A i \in 1 .. n : looks[i] \in Look /\ looks[i].ago \in 0 .. MaxLook
  BY LooksAre DEF Wa!TypeOK, Look
<1>5. /\ looks' \in Seq(Look) /\ DOMAIN looks' = 1 .. n + 1
      /\ \A i \in 1 .. n : looks'[i] = looks[i]
      /\ looks'[n + 1] = new
  BY <1>1, <1>3, <1>4, AppendProperties, LenProperties
<1> HIDE DEF new, n
<1>6. new.ago = 0
  BY DEF new
<1>7. Wa!TypeOK'
  BY <1>1, <1>2, <1>5 DEF Wa!TypeOK, Look
<1>8. Wa!OldestFirst'
  BY <1>1, <1>4, <1>5, <1>6 DEF Wa!OldestFirst
<1>9. Wa!Fits(new)
  BY NewFits DEF new
<1>10. Wa!FreshFits'
  <2>1. \A look : Wa!Fits(look)' <=> Wa!Fits(look)
    BY <1>1 DEF Wa!Fits, Wa!Holds, Wa!Alert, Wa!WhenAnswered, Wa!Rate
  <2> SUFFICES ASSUME NEW i \in DOMAIN looks', looks'[i].ago < steady
               PROVE  Wa!Fits(looks'[i])
    <3>1. ASSUME NEW i \in DOMAIN looks', looks'[i].ago < steady, Wa!Fits(looks'[i])
          PROVE  Wa!Fits(looks[i])'
      <4>1. PICK look : look = looks'[i]
        OBVIOUS
      <4>2. Wa!Fits(look)'
        BY <2>1, <3>1, <4>1
      <4>3. QED
        BY <4>1, <4>2 DEF Wa!Fits
    <3>2. QED
      BY <1>1, <3>1 DEF Wa!FreshFits, Wa!Fresh
  <2>2. QED
    BY <1>4, <1>5, <1>9 DEF Wa!FreshFits, Wa!Fresh
<1>11. Wa!LookIsDue'
  <2>1. Wa!ToldRight' <=> Wa!ToldRight
    BY <1>1 DEF Wa!ToldRight, Wa!Holds, Wa!Rate
  <2>2. CASE steady = 0
    BY <1>1, <1>2, <2>2 DEF Wa!LookIsDue
  <2>3. CASE steady > 0
    <3>1. looks'[n + 1].ago = 0 /\ n + 1 \in DOMAIN looks'
      BY <1>4, <1>5, <1>6
    <3>2. CASE \E i \in DOMAIN looks : Wa!Fresh(looks[i]) /\ steady <= looks[i].ago + Wa!Every
      BY <1>1, <1>2, <1>4, <1>5, <3>2 DEF Wa!LookIsDue, Wa!Fresh
    <3>3. CASE steady + nextLook <= Wa!Every
      BY <1>1, <1>2, <2>3, <3>1, <3>3 DEF Wa!LookIsDue, Wa!Fresh
    <3>4. CASE Wa!ToldRight /\ \A i \in DOMAIN looks : Wa!Fresh(looks[i])
      BY <1>1, <1>4, <1>5, <1>6, <2>1, <2>3, <3>4 DEF Wa!LookIsDue, Wa!Fresh
    <3>5. QED
      BY <3>2, <3>3, <3>4 DEF Wa!LookIsDue
  <2>4. QED
    BY <1>2, <2>2, <2>3
<1>12. Wa!AgainIsDue'
  <2>1. looks' # <<>>
    BY <1>4, <1>5
  <2>2. CASE looks = <<>>
    <3>1. looks'[1].ago = 0
      BY <1>4, <1>5, <1>6, <2>2, EmptySeq
    <3>2. QED
      BY <1>1, <1>2, <2>1, <2>2, <3>1, WorkerAssumption DEF Wa!AgainIsDue, Wa!TypeOK
  <2>3. CASE looks # <<>>
    <3>1. looks'[1] = looks[1]
      BY <1>4, <1>5, <2>3, EmptySeq DEF n
    <3>2. QED
      BY <1>1, <1>2, <2>1, <2>3, <3>1 DEF Wa!AgainIsDue
  <2>4. QED
    BY <2>2, <2>3
<1>13. QED
  BY <1>7, <1>8, <1>10, <1>11, <1>12

\* The oldest check answers: if it read since anything changed, so did all after it,
\* and what is told is what is so.
LEMMA TellInv == ASSUME Wa!WatchInv, Wa!Tell PROVE Wa!WatchInv'
<1> USE DEF Wa!WatchInv
<1> DEFINE n == Len(looks)
<1>1. /\ looks # <<>> /\ looks' = Tail(looks)
      /\ UNCHANGED <<kind, seen, nextLook, steady>>
      /\ told' = IF ~Wa!Alert(Wa!WhenAnswered(Head(looks))) THEN Never
                 ELSE IF told = Never \/ told >= Repeat THEN 0 ELSE told
  BY DEF Wa!Tell
<1>2. /\ Wa!Every \in Nat /\ Wa!Every' = Wa!Every /\ Wa!Bound' = Wa!Bound
      /\ MaxLook \in Nat /\ steady \in Nat /\ nextLook \in Nat /\ Repeat \in Nat
      /\ nextLook <= Wa!Every /\ Wa!Readings' = Wa!Readings
  <2>1. Wa!Every' = Wa!Every /\ Wa!Readings' = Wa!Readings
    BY <1>1 DEF Wa!Every, Wa!Rate, Wa!Readings
  <2>2. QED
    BY <2>1, WatchNumbers DEF Wa!Bound
<1>3. /\ looks \in Seq(Look) /\ n \in Nat \ {0} /\ DOMAIN looks = 1 .. n
      /\ \A i \in 1 .. n : looks[i] \in Look /\ looks[i].ago \in 0 .. MaxLook
  BY <1>1, LooksAre, EmptySeq DEF Wa!TypeOK, Look
<1>4. /\ looks' \in Seq(Look) /\ Len(looks') = n - 1 /\ DOMAIN looks' = 1 .. n - 1
      /\ \A i \in 1 .. n - 1 : looks'[i] = looks[i + 1]
      /\ Head(looks) = looks[1]
  <2>1. \A s : s # <<>> => Head(s) = s[1]
    OBVIOUS
  <2>2. QED
    BY <1>1, <1>3, <2>1, HeadTailProperties, LenProperties
<1> HIDE DEF n
<1>5. Wa!TypeOK' /\ Wa!OldestFirst'
  <2>1. told' \in Nat \cup {Never}
    BY <1>1 DEF Wa!TypeOK
  <2>2. Wa!TypeOK'
    BY <1>1, <1>2, <1>4, <2>1 DEF Wa!TypeOK, Look
  <2>3. Wa!OldestFirst'
    <3>1. \A i, k \in 1 .. n : i < k => looks[k].ago <= looks[i].ago
      BY <1>3 DEF Wa!OldestFirst
    <3>2. \A i, k \in 1 .. n - 1 : i < k => looks[k + 1].ago <= looks[i + 1].ago
      BY <1>3, <3>1
    <3>3. QED
      BY <1>4, <3>2 DEF Wa!OldestFirst
  <2>4. QED
    BY <2>2, <2>3
<1>6. Wa!FreshFits'
  <2>1. \A look : Wa!Fits(look)' <=> Wa!Fits(look)
    BY <1>1 DEF Wa!Fits, Wa!Holds, Wa!Alert, Wa!WhenAnswered, Wa!Rate
  <2> SUFFICES ASSUME NEW i \in 1 .. n - 1, looks'[i].ago < steady
               PROVE  Wa!Fits(looks[i])'
    BY <1>1, <1>4 DEF Wa!FreshFits, Wa!Fresh
  <2>2. PICK look : look = looks'[i]
    OBVIOUS
  <2>3. Wa!Fits(look)
    <3>1. PICK k \in 1 .. n : k = i + 1 /\ looks[k] = look
      BY <1>3, <1>4, <2>2
    <3>2. looks[k].ago < steady
      BY <2>2, <3>1
    <3>3. QED
      BY <1>3, <3>1, <3>2 DEF Wa!FreshFits, Wa!Fresh
  <2>4. QED
    BY <2>1, <2>2, <2>3 DEF Wa!Fits
<1>7. ASSUME Wa!Fresh(looks[1])
      PROVE  Wa!ToldRight' /\ \A i \in DOMAIN looks' : looks'[i].ago < steady
  <2>1. Wa!Fits(looks[1])
    BY <1>3, <1>7 DEF Wa!FreshFits
  <2>2. Wa!Alert(Wa!WhenAnswered(looks[1])) <=> Wa!Holds(seen)
    BY <1>3, <2>1, FitIsRight
  <2>3. told' # Never <=> Wa!Holds(seen)
    <3>1. Never # 0
      BY WorkerAssumption
    <3>2. QED
      BY <1>1, <1>4, <2>2, <3>1
  <2>4. Wa!ToldRight'
    <3>1. Wa!Holds(seen)' <=> Wa!Holds(seen)
      BY <1>1 DEF Wa!Holds, Wa!Rate
    <3>2. QED
      BY <2>3, <3>1 DEF Wa!ToldRight
  <2>5. \A i \in 1 .. n - 1 : looks[i + 1].ago <= looks[1].ago
    BY <1>3 DEF Wa!OldestFirst
  <2>6. QED
    BY <1>2, <1>3, <1>4, <1>7, <2>4, <2>5 DEF Wa!Fresh
<1>8. Wa!LookIsDue'
  <2>1. CASE Wa!Fresh(looks[1])
    BY <1>1, <1>7, <2>1 DEF Wa!LookIsDue, Wa!Fresh
  <2>2. CASE ~Wa!Fresh(looks[1])
    <3>1. CASE steady + nextLook <= Wa!Every
      BY <1>1, <1>2, <3>1 DEF Wa!LookIsDue
    <3>2. CASE \E i \in DOMAIN looks : Wa!Fresh(looks[i]) /\ steady <= looks[i].ago + Wa!Every
      <4>1. PICK i \in 2 .. n : Wa!Fresh(looks[i]) /\ steady <= looks[i].ago + Wa!Every
        BY <1>3, <2>2, <3>2
      <4>2. PICK k \in 1 .. n - 1 : i = k + 1
        <5>1. i - 1 \in 1 .. n - 1 /\ i = (i - 1) + 1
          BY <1>3, <4>1
        <5>2. QED
          BY <5>1
      <4>3. k \in DOMAIN looks' /\ looks'[k] = looks[i]
        BY <1>4, <4>2
      <4>4. QED
        BY <1>1, <1>2, <4>1, <4>3 DEF Wa!LookIsDue, Wa!Fresh
    <3>3. QED
      BY <1>3, <2>2, <3>1, <3>2 DEF Wa!LookIsDue
  <2>3. QED
    BY <2>1, <2>2
<1>9. Wa!AgainIsDue'
  <2>1. told' = Never \/ (told' \in Nat /\ told' <= Repeat)
    BY <1>1, <1>2 DEF Wa!TypeOK
  <2>2. looks' # <<>> => looks'[1].ago \in Nat
    BY <1>2, <1>3, <1>4, EmptySeq
  <2>3. CASE told' # Never /\ looks' = <<>>
    <3>1. told' + nextLook <= Repeat + Wa!Every
      BY <1>2, <2>1, <2>3
    <3>2. QED
      BY <1>1, <1>2, <2>3, <3>1 DEF Wa!AgainIsDue
  <2>4. CASE told' # Never /\ looks' # <<>>
    <3>1. told' <= Repeat + Wa!Every + looks'[1].ago
      BY <1>2, <2>1, <2>2, <2>4
    <3>2. QED
      BY <1>1, <1>2, <2>4, <3>1 DEF Wa!AgainIsDue
  <2>5. QED
    BY <2>3, <2>4 DEF Wa!AgainIsDue
<1>10. QED
  BY <1>5, <1>6, <1>8, <1>9

\* Where the time starts again there is nothing to show yet.
LEMMA AnewInv == Wa!TypeOK /\ Wa!OldestFirst /\ steady = 0 => Wa!WatchInv
<1> SUFFICES ASSUME Wa!TypeOK, Wa!OldestFirst, steady = 0 PROVE Wa!WatchInv
  OBVIOUS
<1>1. /\ Wa!Every \in Nat /\ nextLook \in Nat /\ nextLook <= Wa!Every
      /\ DOMAIN looks = 1 .. Len(looks) /\ Len(looks) \in Nat
      /\ \A i \in DOMAIN looks : looks[i].ago \in Nat
      /\ looks # <<>> => 1 \in DOMAIN looks
  BY WatchNumbers, LooksAre, EmptySeq DEF Wa!TypeOK, Look
<1>2. Wa!FreshFits
  BY <1>1 DEF Wa!FreshFits, Wa!Fresh
<1>3. Wa!LookIsDue
  BY <1>1 DEF Wa!LookIsDue
<1>4. Wa!AgainIsDue
  BY <1>1 DEF Wa!AgainIsDue
<1>5. QED
  BY <1>2, <1>3, <1>4 DEF Wa!WatchInv

LEMMA WatchInit == Wa!Init => Wa!WatchInv
<1> SUFFICES ASSUME Wa!Init PROVE Wa!WatchInv
  OBVIOUS
<1>1. Wa!Every \in Nat /\ MaxLook \in Nat
  BY WorkerAssumption DEF Wa!Every
<1>2. seen \in Wa!Readings \/ (kind = "queue_stuck" /\ seen = Never)
  <2>1. {Expiry, MaxCount} \subseteq Nat
    BY WorkerAssumption
  <2>2. CASE kind = "worker_stopped"
    BY <2>1, <2>2 DEF Wa!Init, Wa!Readings, Wa!Rate
  <2>3. CASE kind = "queue_stuck"
    BY <2>3 DEF Wa!Init, Wa!Rate
  <2>4. CASE kind = "send_error_rate"
    BY <2>1, <2>4 DEF Wa!Init, Wa!Readings, Wa!Rate, Wa!Counts
  <2>5. QED
    BY <2>2, <2>3, <2>4 DEF Wa!Init
<1>3. Wa!TypeOK
  <2>1. looks \in Seq([read : Wa!Readings \cup {Never}, ago : 0 .. MaxLook])
    BY EmptySeq DEF Wa!Init
  <2>2. nextLook \in 0 .. Wa!Every /\ steady \in 0 .. Wa!Bound + 1
    BY <1>1 DEF Wa!Init, Wa!Bound
  <2>3. QED
    BY <1>2, <2>1, <2>2 DEF Wa!Init, Wa!TypeOK
<1>4. QED
  BY <1>3, AnewInv DEF Wa!Init, Wa!OldestFirst

LEMMA AgainInv == ASSUME Wa!WatchInv, Wa!CheckFails \/ Wa!Restart PROVE Wa!WatchInv'
<1> USE DEF Wa!WatchInv
<1>1. /\ UNCHANGED <<kind, seen>> /\ steady' = 0
      /\ nextLook' \in {nextLook, Wa!Every, 0} /\ told' \in {told, Never}
      /\ looks' = looks \/ looks' = <<>> \/ (looks # <<>> /\ looks' = Tail(looks))
  BY DEF Wa!CheckFails, Wa!Restart
<1>2. /\ Wa!Every \in Nat /\ Wa!Every' = Wa!Every /\ Wa!Bound' = Wa!Bound
      /\ MaxLook \in Nat /\ Wa!Readings' = Wa!Readings
  <2>1. Wa!Every' = Wa!Every /\ Wa!Readings' = Wa!Readings
    BY <1>1 DEF Wa!Every, Wa!Rate, Wa!Readings
  <2>2. QED
    BY <2>1, WatchNumbers DEF Wa!Bound
<1>3. looks' \in Seq(Look) /\ Wa!OldestFirst'
  <2>1. looks \in Seq(Look) /\ DOMAIN looks = 1 .. Len(looks) /\ Len(looks) \in Nat
    BY LooksAre DEF Wa!TypeOK, Look
  <2>2. CASE looks' = looks
    BY <2>1, <2>2 DEF Wa!OldestFirst
  <2>3. CASE looks' = <<>>
    BY <2>3, EmptySeq DEF Wa!OldestFirst
  <2>4. CASE looks # <<>> /\ looks' = Tail(looks)
    <3>1. /\ looks' \in Seq(Look) /\ Len(looks') = Len(looks) - 1
          /\ DOMAIN looks' = 1 .. Len(looks) - 1
          /\ \A i \in 1 .. Len(looks) - 1 : looks'[i] = looks[i + 1]
      BY <2>1, <2>4, HeadTailProperties, LenProperties
    <3>2. \A i, k \in 1 .. Len(looks) : i < k => looks[k].ago <= looks[i].ago
      BY <2>1 DEF Wa!OldestFirst
    <3>3. \A i, k \in 1 .. Len(looks) - 1 : i < k => looks[k + 1].ago <= looks[i + 1].ago
      BY <2>1, <3>2
    <3>4. QED
      BY <3>1, <3>3 DEF Wa!OldestFirst
  <2>5. QED
    BY <1>1, <2>2, <2>3, <2>4
<1>4. Wa!TypeOK'
  <2>1. nextLook' \in 0 .. Wa!Every /\ steady' \in 0 .. Wa!Bound + 1
    BY <1>1, <1>2 DEF Wa!TypeOK, Wa!Bound
  <2>2. looks' \in Seq([read : Wa!Readings \cup {Never}, ago : 0 .. MaxLook])
    BY <1>3 DEF Look
  <2>3. QED
    BY <1>1, <1>2, <2>1, <2>2 DEF Wa!TypeOK
<1>5. (Wa!TypeOK /\ Wa!OldestFirst /\ steady = 0 => Wa!WatchInv)'
  BY AnewInv, PTL
<1>6. QED
  BY <1>1, <1>3, <1>4, <1>5

\* Five minutes on, a check that fitted fits.
LEMMA TickFits ==
  ASSUME Wa!WatchInv, Wa!Tick, Wa!Holds(seen)' <=> Wa!Holds(seen),
         NEW r \in Wa!Readings \cup {Never}, NEW a \in 0 .. MaxLook, a < MaxLook,
         Wa!Fits([read |-> r, ago |-> a])
  PROVE  Wa!Fits([read |-> r, ago |-> a + 1])'
<1> USE DEF Wa!WatchInv
<1> DEFINE look == [read |-> r, ago |-> a]
           next == [read |-> r, ago |-> a + 1]
           last == [read |-> r, ago |-> MaxLook]
<1>1. /\ MaxLook \in Nat /\ a \in Nat /\ Never \notin Nat
      /\ kind' = kind
  BY WorkerAssumption DEF Wa!Tick
<1>2. /\ look \in Look /\ next \in Look
  BY <1>1 DEF Look
<1>3. /\ Wa!Rate' <=> Wa!Rate
      /\ Wa!Alert(Wa!WhenAnswered(next))' <=> Wa!Alert(Wa!WhenAnswered(next))
      /\ Wa!Alert(Wa!WhenAnswered(last))' <=> Wa!Alert(Wa!WhenAnswered(last))
  BY <1>1 DEF Wa!Alert, Wa!WhenAnswered, Wa!Rate
<1>4. CASE Wa!Rate \/ r = Never
  <2>1. Wa!WhenAnswered(next) = r /\ Wa!WhenAnswered(look) = r
    BY <1>4 DEF Wa!WhenAnswered
  <2>2. CASE Wa!Holds(seen)
    BY <1>2, <1>3, <2>1, <2>2, FitIsRight DEF Wa!Fits
  <2>3. CASE ~Wa!Holds(seen)
    BY <1>2, <1>3, <1>4, <2>1, <2>3 DEF Wa!Fits
  <2>4. QED
    BY <2>2, <2>3
<1>5. CASE ~Wa!Rate /\ r # Never
  <2>1. PICK limit, cap \in Nat :
          /\ \A n \in Nat : (Wa!Holds(n) <=> n > limit) /\ (Wa!Alert(n) <=> n > limit)
          /\ \A n, b \in Nat : Wa!WhenAnswered([read |-> n, ago |-> b]) = n + b
          /\ Wa!Readings = 0 .. cap /\ limit < cap
          /\ cap = IF kind = "queue_stuck" THEN StuckAfter + 1 ELSE Expiry
    BY <1>5, Limited
  <2>2. r \in Nat /\ r + a \in Nat /\ r + (a + 1) \in Nat
    BY <1>1, <1>5, <2>1
  <2>3. Wa!WhenAnswered(look) = r + a /\ Wa!WhenAnswered(next) = r + (a + 1)
    BY <1>1, <2>1, <2>2
  <2>4. CASE Wa!Holds(seen)
    <3>1. r + a > limit
      BY <1>2, <2>1, <2>2, <2>3, <2>4, FitIsRight
    <3>2. Wa!Alert(Wa!WhenAnswered(next))
      BY <1>1, <2>1, <2>2, <2>3, <3>1
    <3>3. QED
      BY <1>3, <2>4, <3>2 DEF Wa!Fits
  <2>5. CASE ~Wa!Holds(seen) /\ ~Wa!Alert(Wa!WhenAnswered(last))
    BY <1>3, <2>5 DEF Wa!Fits
  <2>6. CASE ~Wa!Holds(seen) /\ r + a = seen
    <3>1. seen \in Nat /\ seen # Never /\ seen <= limit /\ seen + 1 <= cap
      BY <1>1, <2>1, <2>2, <2>6
    <3>2. seen' = seen + 1
      BY <1>5, <2>1, <3>1 DEF Wa!Tick, Wa!Capped
    <3>3. QED
      BY <1>1, <1>3, <1>5, <2>2, <2>6, <3>1, <3>2 DEF Wa!Fits
  <2>7. QED
    BY <2>4, <2>5, <2>6 DEF Wa!Fits
<1>6. QED
  BY <1>4, <1>5

\* Five minutes pass for all the watch counts.
LEMMA WatchTick == ASSUME Wa!WatchInv, Wa!Tick PROVE Wa!WatchInv'
<1> USE DEF Wa!WatchInv
<1> DEFINE n == Len(looks)
<1>1. /\ kind' = kind /\ nextLook > 0 /\ nextLook' = nextLook - 1
      /\ \A i \in DOMAIN looks : looks[i].ago < MaxLook
      /\ looks' = [i \in DOMAIN looks |-> [looks[i] EXCEPT !.ago = @ + 1]]
      /\ told' = IF told = Never THEN Never ELSE Wa!Capped(told + 1, Repeat + Wa!Bound + 1)
      /\ Wa!Holds(seen)' <=> Wa!Holds(seen')
      /\ steady' = 0 \/ ((Wa!Holds(seen') <=> Wa!Holds(seen))
                         /\ steady' = Wa!Capped(steady + 1, Wa!Bound + 1))
  BY DEF Wa!Tick, Wa!Holds, Wa!Rate
<1>2. /\ Wa!Every \in Nat /\ Wa!Every' = Wa!Every /\ Wa!Bound' = Wa!Bound
      /\ Wa!Bound = Wa!Every + MaxLook
      /\ MaxLook \in Nat /\ steady \in Nat /\ nextLook \in Nat /\ Repeat \in Nat
      /\ nextLook <= Wa!Every /\ Wa!Readings' = Wa!Readings /\ Never \notin Nat
  <2>1. Wa!Every' = Wa!Every /\ Wa!Readings' = Wa!Readings
    BY <1>1 DEF Wa!Every, Wa!Rate, Wa!Readings
  <2>2. Never \notin Nat
    BY WorkerAssumption
  <2>3. QED
    BY <2>1, <2>2, WatchNumbers DEF Wa!Bound
<1>3. /\ n \in Nat /\ DOMAIN looks = 1 .. n
      /\ \A i \in 1 .. n : looks[i] \in Look /\ looks[i].ago \in 0 .. MaxLook
      /\ looks # <<>> => 1 \in 1 .. n
  BY LooksAre, EmptySeq DEF Wa!TypeOK, Look
<1> HIDE DEF n
<1>4. \A i \in 1 .. n :
        /\ looks[i].ago < MaxLook
        /\ looks'[i] = [read |-> looks[i].read, ago |-> looks[i].ago + 1]
        /\ looks'[i] \in Look /\ looks'[i].ago = looks[i].ago + 1 /\ looks[i].ago \in Nat
        /\ looks[i] = [read |-> looks[i].read, ago |-> looks[i].ago]
        /\ looks[i].read \in Wa!Readings \cup {Never}
  <2> SUFFICES ASSUME NEW i \in 1 .. n
               PROVE  /\ looks[i].ago < MaxLook
                      /\ looks'[i] = [read |-> looks[i].read, ago |-> looks[i].ago + 1]
                      /\ looks'[i] \in Look /\ looks'[i].ago = looks[i].ago + 1
                      /\ looks[i].ago \in Nat
                      /\ looks[i] = [read |-> looks[i].read, ago |-> looks[i].ago]
                      /\ looks[i].read \in Wa!Readings \cup {Never}
    OBVIOUS
  <2>1. PICK r \in Wa!Readings \cup {Never}, a \in 0 .. MaxLook :
          looks[i] = [read |-> r, ago |-> a]
    BY <1>3 DEF Look
  <2>2. a < MaxLook
    BY <1>1, <1>3, <2>1
  <2>3. looks'[i] = [read |-> r, ago |-> a + 1]
    BY <1>1, <1>3, <2>1
  <2>4. looks'[i] \in Look
    BY <1>2, <2>2, <2>3 DEF Look
  <2>5. QED
    BY <2>1, <2>2, <2>3, <2>4
<1>5. /\ looks' \in Seq(Look) /\ DOMAIN looks' = 1 .. n
      /\ looks' = <<>> <=> looks = <<>>
  <2>1. looks' \in [1 .. n -> Look]
    BY <1>1, <1>3, <1>4
  <2>2. looks' \in Seq(Look) /\ DOMAIN looks' = 1 .. n
    BY <1>3, <2>1, SeqDef
  <2>3. looks \in Seq(Look)
    BY DEF Wa!TypeOK, Look
  <2>4. looks' = <<>> <=> looks = <<>>
    BY <1>3, <2>2, <2>3, EmptySeq, LenProperties
  <2>5. QED
    BY <2>2, <2>4
<1>6. Wa!TypeOK' /\ Wa!OldestFirst'
  <2>1. seen' \in Wa!Readings \/ (kind = "queue_stuck" /\ seen' = Never)
    <3>1. {StaleAfter, StuckAfter, Expiry} \subseteq Nat
      BY WorkerAssumption
    <3>2. CASE kind = "worker_stopped"
      <4>1. Wa!Readings = 0 .. Expiry /\ ~Wa!Rate /\ kind # "queue_stuck"
        BY <3>2 DEF Wa!Readings, Wa!Rate
      <4>2. seen \in 0 .. Expiry /\ seen # Never
        BY <1>2, <4>1 DEF Wa!TypeOK
      <4>3. seen' = IF seen + 1 < Expiry THEN seen + 1 ELSE Expiry
        BY <4>1, <4>2 DEF Wa!Tick, Wa!Capped
      <4>4. QED
        BY <3>1, <4>1, <4>2, <4>3
    <3>3. CASE kind = "queue_stuck"
      <4>1. Wa!Readings = 0 .. StuckAfter + 1 /\ ~Wa!Rate
        BY <3>3 DEF Wa!Readings, Wa!Rate
      <4>2. seen \in 0 .. StuckAfter + 1 \/ seen = Never
        BY <4>1 DEF Wa!TypeOK
      <4>3. seen' = IF seen = Never THEN Never
                    ELSE IF seen + 1 < StuckAfter + 1 THEN seen + 1 ELSE StuckAfter + 1
        BY <3>3, <4>1 DEF Wa!Tick, Wa!Capped
      <4>4. QED
        BY <3>1, <3>3, <4>1, <4>2, <4>3
    <3>4. CASE kind = "send_error_rate"
      BY <3>4 DEF Wa!Tick, Wa!TypeOK, Wa!Rate
    <3>5. QED
      BY <3>2, <3>3, <3>4 DEF Wa!TypeOK
  <2>2. told' \in Nat \cup {Never} /\ steady' \in 0 .. Wa!Bound + 1
    BY <1>1, <1>2 DEF Wa!TypeOK, Wa!Capped
  <2>3. Wa!TypeOK'
    BY <1>1, <1>2, <1>5, <2>1, <2>2 DEF Wa!TypeOK, Look
  <2>4. Wa!OldestFirst'
    BY <1>3, <1>4, <1>5 DEF Wa!OldestFirst
  <2>5. QED
    BY <2>3, <2>4
<1>7. CASE steady' = 0
  <2>1. (Wa!TypeOK /\ Wa!OldestFirst /\ steady = 0 => Wa!WatchInv)'
    BY AnewInv, PTL
  <2>2. QED
    BY <1>6, <1>7, <2>1
<1>8. CASE /\ Wa!Holds(seen)' <=> Wa!Holds(seen)
           /\ steady' = Wa!Capped(steady + 1, Wa!Bound + 1)
  <2>1. ASSUME NEW i \in 1 .. n PROVE looks'[i].ago < steady' <=> looks[i].ago < steady
    <3>1. looks[i].ago \in Nat /\ looks[i].ago < MaxLook /\ looks'[i].ago = looks[i].ago + 1
      BY <1>4
    <3>2. steady' = IF steady + 1 < Wa!Bound + 1 THEN steady + 1 ELSE Wa!Bound + 1
      BY <1>8 DEF Wa!Capped
    <3>3. QED
      BY <1>2, <3>1, <3>2
  <2>2. steady' <= steady + 1 /\ (steady <= Wa!Bound => steady' = steady + 1)
    BY <1>2, <1>8 DEF Wa!Capped
  <2>3. Wa!FreshFits'
    <3> SUFFICES ASSUME NEW i \in 1 .. n, looks[i].ago < steady PROVE Wa!Fits(looks[i])'
      BY <1>5, <2>1 DEF Wa!FreshFits, Wa!Fresh
    <3>1. PICK r \in Wa!Readings \cup {Never}, a \in 0 .. MaxLook :
            /\ looks[i] = [read |-> r, ago |-> a] /\ a < MaxLook
            /\ looks'[i] = [read |-> r, ago |-> a + 1]
      BY <1>3, <1>4
    <3>2. Wa!Fits([read |-> r, ago |-> a])
      <4>1. Wa!Fits(looks[i])
        BY <1>3 DEF Wa!FreshFits, Wa!Fresh
      <4>2. QED
        BY <3>1, <4>1
    <3>3. Wa!Fits([read |-> r, ago |-> a + 1])'
      BY <1>8, <3>1, <3>2, TickFits
    <3>4. QED
      BY <3>1, <3>3 DEF Wa!Fits
  <2>4. Wa!LookIsDue'
    <3>1. Wa!ToldRight' <=> Wa!ToldRight
      BY <1>1, <1>2, <1>8 DEF Wa!ToldRight, Wa!TypeOK, Wa!Capped
    <3>2. CASE Wa!ToldRight /\ \A i \in DOMAIN looks : Wa!Fresh(looks[i])
      BY <1>3, <1>5, <2>1, <3>1, <3>2 DEF Wa!LookIsDue, Wa!Fresh
    <3>3. CASE \E i \in DOMAIN looks : Wa!Fresh(looks[i]) /\ steady <= looks[i].ago + Wa!Every
      <4>1. PICK i \in 1 .. n : Wa!Fresh(looks[i]) /\ steady <= looks[i].ago + Wa!Every
        BY <1>3, <3>3
      <4>2. looks'[i].ago = looks[i].ago + 1 /\ looks'[i].ago < steady'
        BY <1>4, <2>1, <4>1 DEF Wa!Fresh
      <4>3. steady' <= looks'[i].ago + Wa!Every
        BY <1>2, <1>3, <2>2, <4>1, <4>2
      <4>4. QED
        BY <1>2, <1>5, <4>2, <4>3 DEF Wa!LookIsDue, Wa!Fresh
    <3>4. CASE steady + nextLook <= Wa!Every
      <4>1. steady' + nextLook' <= Wa!Every
        BY <1>1, <1>2, <2>2, <3>4
      <4>2. QED
        BY <1>2, <4>1 DEF Wa!LookIsDue
    <3>5. QED
      BY <3>2, <3>3, <3>4 DEF Wa!LookIsDue
  <2>5. Wa!AgainIsDue'
    <3> SUFFICES ASSUME told' # Never PROVE Wa!AgainIsDue'
      BY DEF Wa!AgainIsDue
    <3>1. told # Never /\ told \in Nat /\ told' \in Nat /\ told' <= told + 1
      BY <1>1, <1>2 DEF Wa!TypeOK, Wa!Capped
    <3>2. CASE looks = <<>>
      <4>1. \/ told + nextLook <= Repeat + Wa!Every
            \/ steady + nextLook <= Wa!Every
        BY <3>1, <3>2 DEF Wa!AgainIsDue
      <4>2. steady' <= steady + 1 /\ steady \in Nat /\ steady' \in Nat /\ nextLook' = nextLook - 1
        BY <1>1, <1>2, <1>6, <2>2 DEF Wa!TypeOK
      <4>3. \/ told' + nextLook' <= Repeat + Wa!Every
            \/ steady' + nextLook' <= Wa!Every
        <5>1. /\ Wa!Every \in Nat /\ Repeat \in Nat /\ nextLook \in Nat /\ nextLook' \in Nat
              /\ steady \in Nat /\ steady' \in Nat /\ told \in Nat /\ told' \in Nat
              /\ nextLook = nextLook' + 1 /\ told' <= told + 1 /\ steady' <= steady + 1
          BY <1>1, <1>2, <3>1, <4>2
        <5>2. PICK l, m, t, u, x, y \in Nat :
                /\ l = nextLook /\ m = nextLook' /\ t = told /\ u = told'
                /\ x = steady /\ y = steady'
          BY <5>1
        <5>3. /\ l = m + 1 /\ u <= t + 1 /\ y <= x + 1
              /\ t + l <= Repeat + Wa!Every \/ x + l <= Wa!Every
          BY <4>1, <5>1, <5>2
        <5>4. u + m <= Repeat + Wa!Every \/ y + m <= Wa!Every
          BY <5>1, <5>3
        <5>5. QED
          BY <5>2, <5>4
      <4>4. QED
        BY <1>2, <1>5, <3>2, <4>3 DEF Wa!AgainIsDue
    <3>3. CASE looks # <<>>
      <4>1. PICK one \in 1 .. n : one = 1
        BY <1>3, <3>3
      <4>2. looks'[one].ago = looks[one].ago + 1 /\ looks[one].ago \in Nat
        BY <1>4
      <4>3. \/ told <= Repeat + Wa!Every + looks[one].ago
            \/ steady <= looks[one].ago + Wa!Every
        BY <3>1, <3>3, <4>1 DEF Wa!AgainIsDue
      <4>4. \/ told' <= Repeat + Wa!Every + looks'[one].ago
            \/ steady' <= looks'[one].ago + Wa!Every
        <5>1. PICK a \in Nat, b \in Nat : a = looks[one].ago /\ b = looks'[one].ago /\ b = a + 1
          BY <4>2
        <5>2. steady' <= steady + 1 /\ steady \in Nat /\ steady' \in Nat
          BY <1>2, <1>6, <2>2 DEF Wa!TypeOK
        <5>3. \/ told' <= Repeat + Wa!Every + b
              \/ steady' <= b + Wa!Every
          BY <1>2, <3>1, <4>3, <5>1, <5>2
        <5>4. QED
          BY <5>1, <5>3
      <4>5. QED
        BY <1>2, <1>5, <3>3, <4>1, <4>4 DEF Wa!AgainIsDue
    <3>4. QED
      BY <3>2, <3>3
  <2>6. QED
    BY <1>6, <2>3, <2>4, <2>5
<1>9. QED
  BY <1>1, <1>7, <1>8

LEMMA WatchStep == Wa!WatchInv /\ [Wa!Next]_watchVars => Wa!WatchInv'
<1> SUFFICES ASSUME Wa!WatchInv, [Wa!Next]_watchVars PROVE Wa!WatchInv'
  OBVIOUS
<1> USE DEF Wa!WatchInv
<1>1. {MaxCount, StuckAfter} \subseteq Nat /\ Never \notin Nat
  BY WorkerAssumption
<1>2. ASSUME UNCHANGED <<kind, seen, nextLook, looks, told, steady>> PROVE Wa!WatchInv'
  <2>1. Wa!Every' = Wa!Every /\ Wa!Readings' = Wa!Readings /\ (Wa!Holds(seen)' <=> Wa!Holds(seen))
    BY <1>2 DEF Wa!Every, Wa!Readings, Wa!Holds, Wa!Rate
  <2>2. Wa!TypeOK' /\ Wa!OldestFirst'
    BY <1>2, <2>1 DEF Wa!TypeOK, Wa!OldestFirst, Wa!Bound
  <2>3. Wa!FreshFits'
    <3>1. \A look : Wa!Fits(look)' <=> Wa!Fits(look)
      BY <1>2 DEF Wa!Fits, Wa!Holds, Wa!Alert, Wa!WhenAnswered, Wa!Rate
    <3>2. ASSUME NEW i \in DOMAIN looks, looks[i].ago < steady PROVE Wa!Fits(looks[i])'
      <4>1. PICK look : look = looks[i]
        OBVIOUS
      <4>2. Wa!Fits(look)'
        BY <3>1, <3>2, <4>1 DEF Wa!FreshFits, Wa!Fresh
      <4>3. QED
        BY <1>2, <4>1, <4>2 DEF Wa!Fits
    <3>3. QED
      BY <1>2, <3>2 DEF Wa!FreshFits, Wa!Fresh
  <2>4. Wa!LookIsDue' /\ Wa!AgainIsDue'
    BY <1>2, <2>1 DEF Wa!LookIsDue, Wa!AgainIsDue, Wa!Fresh, Wa!ToldRight
  <2>5. QED
    BY <2>2, <2>3, <2>4
<1>3. CASE Wa!BeatLost \/ Wa!Stops \/ Wa!Starts \/ UNCHANGED watchVars
  BY <1>2, <1>3 DEF Wa!BeatLost, Wa!Stops, Wa!Starts, watchVars
<1>4. CASE Wa!Beat
  <2>1. Wa!Becomes(0) /\ UNCHANGED <<kind, nextLook, looks, told>> /\ 0 \in Wa!Readings
    BY <1>4, WorkerAssumption DEF Wa!Beat, Wa!Readings, Wa!Rate
  <2>2. QED
    BY <2>1, BecomesInv
<1>5. CASE Wa!JobDue
  <2>1. Wa!Becomes(0) /\ UNCHANGED <<kind, nextLook, looks, told>> /\ 0 \in Wa!Readings
    BY <1>1, <1>5 DEF Wa!JobDue, Wa!Readings, Wa!Rate
  <2>2. QED
    BY <2>1, BecomesInv
<1>6. ASSUME NEW s \in {Never} \cup 0 .. StuckAfter + 1, Wa!JobTaken(s) PROVE Wa!WatchInv'
  <2>1. /\ Wa!Becomes(s) /\ UNCHANGED <<kind, nextLook, looks, told>>
        /\ kind = "queue_stuck" /\ seen # Never /\ (s = Never \/ s \in 0 .. seen)
    BY <1>6 DEF Wa!JobTaken
  <2>2. Wa!Readings = 0 .. StuckAfter + 1
    BY <2>1 DEF Wa!Readings, Wa!Rate
  <2>3. s = Never \/ (s \in Wa!Readings /\ s <= seen)
    BY <1>1, <1>6, <2>1, <2>2
  <2>4. QED
    BY <2>1, <2>3, BecomesInv
<1>7. ASSUME NEW s \in Wa!Counts, Wa!Counted(s) PROVE Wa!WatchInv'
  <2>1. Wa!Becomes(s) /\ UNCHANGED <<kind, nextLook, looks, told>> /\ Wa!Rate
    BY <1>7 DEF Wa!Counted
  <2>2. s \in Wa!Readings
    BY <2>1 DEF Wa!Readings, Wa!Rate
  <2>3. QED
    BY <2>1, <2>2, BecomesInv
<1>8. QED
  BY <1>3, <1>4, <1>5, <1>6, <1>7, CheckInv, TellInv, AgainInv, WatchTick DEF Wa!Next

\* The invariant is enough: once more time has passed than an interval and a slow
\* answer, the first check since has answered, and no later one disagrees.
LEMMA WatchedIsTrue == Wa!WatchInv => Wa!WatchIsTrue
<1> SUFFICES ASSUME Wa!WatchInv, steady > Wa!Bound
             PROVE  Wa!ToldRight /\ (told # Never => told <= Repeat + Wa!Bound)
  BY DEF Wa!WatchIsTrue, Wa!ToldIsTrue, Wa!ToldAgain, Wa!ToldRight
<1> USE DEF Wa!WatchInv
<1>1. /\ Wa!Every \in Nat /\ MaxLook \in Nat /\ Repeat \in Nat
      /\ Wa!Bound = Wa!Every + MaxLook /\ nextLook \in Nat /\ steady \in Nat
  BY WatchNumbers
<1>2. \A i \in DOMAIN looks : looks[i].ago \in Nat /\ steady > looks[i].ago + Wa!Every
  <2> SUFFICES ASSUME NEW i \in DOMAIN looks
               PROVE  looks[i].ago \in Nat /\ steady > looks[i].ago + Wa!Every
    OBVIOUS
  <2>1. looks[i].ago \in 0 .. MaxLook
    BY LooksAre DEF Look
  <2>2. QED
    BY <1>1, <2>1
<1>3. ~(steady + nextLook <= Wa!Every)
  BY <1>1
<1>4. Wa!ToldRight
  BY <1>1, <1>2, <1>3 DEF Wa!LookIsDue
<1>5. ASSUME told # Never PROVE told <= Repeat + Wa!Bound
  <2>1. told \in Nat
    BY <1>5 DEF Wa!TypeOK
  <2>2. CASE looks = <<>>
    BY <1>1, <1>3, <1>5, <2>1, <2>2 DEF Wa!AgainIsDue
  <2>3. CASE looks # <<>>
    <3>1. PICK one \in DOMAIN looks : one = 1
      BY <2>3, LooksAre, EmptySeq DEF Wa!TypeOK
    <3>2. looks[one].ago \in 0 .. MaxLook
      BY LooksAre DEF Look
    <3>3. told <= Repeat + Wa!Every + looks[one].ago
      BY <1>1, <1>2, <1>5, <2>1, <2>3, <3>1, <3>2 DEF Wa!AgainIsDue
    <3>4. QED
      BY <1>1, <2>1, <3>2, <3>3
  <2>4. QED
    BY <2>2, <2>3
<1>6. QED
  BY <1>4, <1>5

-----------------------------------------------------------------------------
(* The plan.  Numbers first.                                               *)

\* What a division is.
LEMMA Divides ==
  ASSUME NEW x \in Int, NEW d \in Nat, d > 0
  PROVE  /\ x \div d \in Int /\ x % d \in 0 .. d - 1
         /\ x = (x \div d) * d + (x % d)
<1>1. x \div d \in Int
  OBVIOUS
<1>2. x % d \in 0 .. d - 1
  OBVIOUS
<1>3. x = d * (x \div d) + (x % d)
  OBVIOUS
<1>4. d * (x \div d) = (x \div d) * d
  BY <1>1
<1> QED
  BY <1>1, <1>2, <1>3, <1>4

\* Multiplying keeps the order.
LEMMA Multiples ==
  ASSUME NEW a \in Int, NEW b \in Int, NEW t \in Nat, t > 0
  PROVE  /\ a * t \in Int
         /\ a <= b => a * t <= b * t
         /\ a < b => a * t + t <= b * t
         /\ (a + 1) * t = a * t + t
OBVIOUS

\* There is one quotient and one remainder.
LEMMA DividedOnce ==
  ASSUME NEW q \in Int, NEW d \in Nat, d > 0, NEW r \in 0 .. d - 1
  PROVE  (q * d + r) \div d = q /\ (q * d + r) % d = r
<1> DEFINE x == q * d + r
           p == x \div d
<1>1. x \in Int /\ q * d \in Int /\ x = q * d + r
  BY Multiples
<1>2. p \in Int /\ x % d \in 0 .. d - 1 /\ x = p * d + (x % d)
  BY <1>1, Divides
<1>3. ~(p < q) /\ ~(q < p)
  BY <1>1, <1>2, Multiples
<1>4. p = q
  BY <1>2, <1>3
<1> QED
  BY <1>1, <1>2, <1>4

-----------------------------------------------------------------------------
(* The wall clock.                                                         *)

\* What the constants of a plan are assumed to be.
LEMMA PaceNumbers ==
  /\ {Day, MailsPerDay, AccountLimit} \subseteq Nat \ {0}
  /\ {Pause, ChangesAt, StartHour, LastHour, Before} \subseteq Nat
  /\ After \subseteq Nat /\ Others \subseteq Nat /\ Unset \notin Nat
  /\ 0 < StartHour /\ StartHour <= LastHour /\ LastHour + 1 < Day
  /\ Pa!Noon \in Nat /\ Pa!Noon < Day /\ Pa!Noon = Day \div 2
<1>1. Day \in Nat \ {0}
  BY PaceAssumption
<1>2. Day \div 2 \in Nat /\ Day \div 2 < Day
  BY <1>1
<1> QED
  BY <1>2, PaceAssumption DEF Pa!Noon

\* The hours the clocks never skip nor repeat.
Steady == StartHour .. LastHour \cup {Pa!Noon}

\* The clocks change at night, and by less than half a day.
LEMMA ClocksChange ==
  ASSUME ahead \in After
  PROVE  /\ ahead \in Nat
         /\ ahead - Before < Day - Pa!Noon
         /\ Before - ahead <= Pa!Noon /\ Before - ahead <= StartHour
         /\ \A a, b \in {ahead, Before} : \A x \in ChangesAt + a .. ChangesAt + b - 1 :
              x % Day \notin Steady
<1>1. ahead \in Nat
  BY PaceNumbers
<1> QED
  BY <1>1, PaceAssumption DEF Steady, Pa!Noon

\* What the wall clock shows.
LEMMA LocalIs ==
  ASSUME ahead \in After, NEW t \in Int
  PROVE  /\ Pa!Local(t) \in Int /\ Pa!LocalDay(t) \in Int /\ Pa!LocalHour(t) \in 0 .. Day - 1
         /\ Pa!Local(t) = Pa!LocalDay(t) * Day + Pa!LocalHour(t)
         /\ Pa!LocalHour(t) = Pa!Local(t) % Day
         /\ t < ChangesAt => Pa!Local(t) = t + Before
         /\ t >= ChangesAt => Pa!Local(t) = t + ahead
<1>1. /\ t < ChangesAt => Pa!Local(t) = t + Before
      /\ t >= ChangesAt => Pa!Local(t) = t + ahead
      /\ Pa!Local(t) \in Int
  BY PaceNumbers, ClocksChange DEF Pa!Local, Pa!Offset
<1>2. Day \in Nat /\ Day > 0
  BY PaceNumbers
<1> QED
  BY <1>1, <1>2, Divides DEF Pa!LocalDay, Pa!LocalHour

\* What shows a day and an hour is in that day, at that hour.
LEMMA ShownOnce ==
  ASSUME ahead \in After, NEW t \in Int, NEW day \in Int, NEW hour \in 0 .. Day - 1,
         Pa!Local(t) = day * Day + hour
  PROVE  Pa!LocalDay(t) = day /\ Pa!LocalHour(t) = hour
<1>1. Day \in Nat /\ Day > 0
  BY PaceNumbers
<1> QED
  BY <1>1, DividedOnce DEF Pa!LocalDay, Pa!LocalHour

\* Where the clocks are steady, the wall clock orders instants as time does.
LEMMA InOrder ==
  ASSUME ahead \in After, NEW t \in Int, NEW u \in Int, t < u,
         Pa!LocalHour(t) \in Steady \/ Pa!LocalHour(u) \in Steady
  PROVE  Pa!Local(t) < Pa!Local(u)
<1>1. /\ {ChangesAt, Before, ahead} \subseteq Nat
      /\ {Pa!Local(t), Pa!Local(u)} \subseteq Int
  BY PaceNumbers, ClocksChange, LocalIs
<1>2. CASE t < ChangesAt /\ u >= ChangesAt
  <2>1. Pa!Local(t) = t + Before /\ Pa!Local(u) = u + ahead
    BY <1>2, LocalIs
  <2>2. SUFFICES ASSUME Pa!Local(t) >= Pa!Local(u) PROVE FALSE
    BY <1>1
  <2>3. /\ Pa!Local(t) \in ChangesAt + ahead .. ChangesAt + Before - 1
        /\ Pa!Local(u) \in ChangesAt + ahead .. ChangesAt + Before - 1
    BY <1>1, <1>2, <2>1, <2>2
  <2>4. Pa!Local(t) % Day \notin Steady /\ Pa!Local(u) % Day \notin Steady
    BY <2>3, ClocksChange
  <2> QED
    BY <2>4 DEF Pa!LocalHour
<1>3. CASE u < ChangesAt
  <2>1. Pa!Local(t) = t + Before /\ Pa!Local(u) = u + Before
    BY <1>1, <1>3, LocalIs
  <2> QED
    BY <1>1, <2>1
<1>4. CASE t >= ChangesAt
  <2>1. Pa!Local(t) = t + ahead /\ Pa!Local(u) = u + ahead
    BY <1>1, <1>4, LocalIs
  <2> QED
    BY <1>1, <2>1
<1> QED
  BY <1>1, <1>2, <1>3, <1>4

\* An hour of a day is found, the clocks changed or not.
LEMMA HourIsFound ==
  ASSUME ahead \in After, NEW day \in Int, NEW hour \in {StartHour, Pa!Noon}
  PROVE  LET at == Pa!AtLocalHour(day, hour)
         IN  /\ at \in Int /\ Pa!Local(at) = day * Day + hour
             /\ Pa!LocalDay(at) = day /\ Pa!LocalHour(at) = hour
<1> DEFINE guess == day * Day + hour
           at    == Pa!AtLocalHour(day, hour)
<1>1. /\ {ChangesAt, Before, ahead} \subseteq Nat /\ hour \in 0 .. Day - 1
      /\ Day \in Nat /\ Day > 0 /\ hour \in Steady
  BY PaceNumbers, ClocksChange DEF Steady
<1>2. guess \in Int /\ guess % Day = hour
  BY <1>1, Multiples, DividedOnce
<1>3. /\ guess \notin ChangesAt + ahead .. ChangesAt + Before - 1
      /\ guess \notin ChangesAt + Before .. ChangesAt + ahead - 1
  BY <1>1, <1>2, ClocksChange
<1>4. at = guess - Pa!Offset(guess - Pa!Offset(guess))
  BY DEF Pa!AtLocalHour
<1> HIDE DEF guess, at
<1>5. at \in Int /\ Pa!Local(at) = guess
  BY <1>1, <1>2, <1>3, <1>4 DEF Pa!Local, Pa!Offset
<1>6. Pa!LocalDay(at) = day /\ Pa!LocalHour(at) = hour
  BY <1>1, <1>5, ShownOnce DEF guess
<1> QED
  BY <1>5, <1>6 DEF guess, at

\* A day on from noon is the next day.
LEMMA NextDay ==
  ASSUME ahead \in After, NEW day \in Int
  PROVE  Pa!DayAfter(day) = day + 1
<1> DEFINE noon == Pa!AtLocalHour(day, Pa!Noon)
<1>1. noon \in Int /\ Pa!Local(noon) = day * Day + Pa!Noon
  BY HourIsFound
<1>2. /\ {ChangesAt, Before, ahead, Day, Pa!Noon} \subseteq Nat /\ Pa!Noon < Day
      /\ ahead - Before < Day - Pa!Noon /\ Before - ahead <= Pa!Noon
  BY PaceNumbers, ClocksChange
<1>3. Pa!DayAfter(day) = Pa!LocalDay(noon + Day)
  BY DEF Pa!DayAfter
<1> HIDE DEF noon
<1>4. /\ day * Day \in Int /\ (day + 1) * Day = day * Day + Day
  BY <1>2, PaceNumbers, Multiples
<1>5. PICK m, l \in Int : m = day * Day /\ l = Pa!Local(noon + Day)
  BY <1>1, <1>2, <1>4, LocalIs
<1>6. l - (m + Day) \in 0 .. Day - 1
  <2>1. /\ noon < ChangesAt => noon = m + Pa!Noon - Before
        /\ noon >= ChangesAt => noon = m + Pa!Noon - ahead
    <3>1. /\ noon < ChangesAt => m + Pa!Noon = noon + Before
          /\ noon >= ChangesAt => m + Pa!Noon = noon + ahead
      BY <1>1, <1>5, LocalIs
    <3> QED
      BY <1>1, <1>2, <1>5, <3>1
  <2>2. /\ noon + Day < ChangesAt => l = noon + Day + Before
        /\ noon + Day >= ChangesAt => l = noon + Day + ahead
    BY <1>1, <1>2, <1>5, LocalIs
  <2> QED
    BY <1>1, <1>2, <1>5, <2>1, <2>2
<1>7. PICK hour \in 0 .. Day - 1 : Pa!Local(noon + Day) = (day + 1) * Day + hour
  <2>1. l = (m + Day) + (l - (m + Day))
    BY <1>2, <1>5
  <2> QED
    BY <1>4, <1>5, <1>6, <2>1
<1> QED
  BY <1>1, <1>2, <1>3, <1>7, ShownOnce

-----------------------------------------------------------------------------
(* The openings.                                                           *)

\* When the start hour of a day is.
Opens(day) == Pa!AtLocalHour(day, StartHour)

\* The first search that ends there, and where it does.
Ends(from, day) == Opens(day) >= from /\ Pa!IsSendDay(Opens(day))

\* The opening after an instant, in the open: it is within three days.
Opening(from) ==
  LET day == Pa!LocalDay(from)
  IN  IF Ends(from, day) THEN Opens(day)
      ELSE IF Ends(from, day + 1) THEN Opens(day + 1) ELSE Opens(day + 2)

\* What the definitions of the two openings compute.
Searches(s, from) ==
  s = [day \in Nat |-> IF Ends(from, day) THEN Opens(day) ELSE s[day + 1]]

\* The start hour of a day is in that day, and at that hour.
LEMMA OpensAt ==
  ASSUME ahead \in After, NEW day \in Int
  PROVE  /\ Opens(day) \in Int /\ Pa!Local(Opens(day)) = day * Day + StartHour
         /\ Pa!LocalDay(Opens(day)) = day /\ Pa!LocalHour(Opens(day)) = StartHour
         /\ Pa!LocalHour(Opens(day)) \in Steady
         /\ Pa!IsSendDay(Opens(day)) <=> day % 7 # 2
<1>1. StartHour \in Steady
  BY PaceNumbers DEF Steady
<1> QED
  BY <1>1, HourIsFound DEF Opens, Pa!IsSendDay

\* A later day is later, at a steady hour of either.
LEMMA DaysInOrder ==
  ASSUME ahead \in After, NEW t \in Int, NEW u \in Int,
         Pa!LocalDay(t) < Pa!LocalDay(u),
         Pa!LocalHour(t) \in Steady \/ Pa!LocalHour(u) \in Steady
  PROVE  t < u /\ Pa!Local(t) < Pa!Local(u)
<1>1. /\ {Pa!Local(t), Pa!Local(u), Pa!LocalDay(t), Pa!LocalDay(u)} \subseteq Int
      /\ Day \in Nat /\ Day > 0
  BY PaceNumbers, LocalIs
<1>2. /\ {Pa!LocalDay(t) * Day, Pa!LocalDay(u) * Day} \subseteq Int
      /\ Pa!LocalDay(t) * Day + Day <= Pa!LocalDay(u) * Day
  BY <1>1, Multiples
<1>3. Pa!Local(t) < Pa!Local(u)
  <2>1. /\ Pa!Local(t) = Pa!LocalDay(t) * Day + Pa!LocalHour(t) /\ Pa!LocalHour(t) \in 0 .. Day - 1
        /\ Pa!Local(u) = Pa!LocalDay(u) * Day + Pa!LocalHour(u) /\ Pa!LocalHour(u) \in 0 .. Day - 1
    BY LocalIs
  <2> QED
    BY <1>1, <1>2, <2>1
<1>4. ~(u < t)
  <2>1. SUFFICES ASSUME u < t PROVE FALSE
    OBVIOUS
  <2>2. Pa!Local(u) < Pa!Local(t)
    BY <2>1, InOrder
  <2> QED
    BY <1>1, <1>3, <2>2
<1>5. u # t
  BY <1>1, <1>3
<1> QED
  BY <1>3, <1>4, <1>5

\* An instant shows no day before one already shown, at a steady hour of either.
LEMMA DaysGoOn ==
  ASSUME ahead \in After, NEW t \in Int, NEW u \in Int, t <= u,
         Pa!LocalHour(t) \in Steady \/ Pa!LocalHour(u) \in Steady
  PROVE  Pa!LocalDay(t) <= Pa!LocalDay(u)
<1>1. {Pa!LocalDay(t), Pa!LocalDay(u)} \subseteq Int
  BY LocalIs
<1>2. ~(Pa!LocalDay(u) < Pa!LocalDay(t))
  BY DaysInOrder
<1> QED
  BY <1>1, <1>2

\* The days are counted from the first.
LEMMA LocalDayIsNat ==
  ASSUME ahead \in After, NEW t \in Nat PROVE Pa!LocalDay(t) \in Nat
<1>1. /\ t \in Int /\ {ChangesAt, Before, ahead} \subseteq Nat /\ Day \in Nat /\ Day > 0
  BY PaceNumbers, ClocksChange
<1>2. Pa!Local(t) \in Nat
  <2>1. Pa!Local(t) = t + Before \/ Pa!Local(t) = t + ahead
    <3>1. /\ t < ChangesAt => Pa!Local(t) = t + Before
          /\ t >= ChangesAt => Pa!Local(t) = t + ahead
      BY <1>1, LocalIs
    <3> QED
      BY <1>1, <3>1
  <2> QED
    BY <1>1, <2>1
<1>3. /\ Pa!LocalDay(t) \in Int /\ Pa!LocalDay(t) * Day \in Int
      /\ Pa!LocalHour(t) \in 0 .. Day - 1
      /\ Pa!Local(t) = Pa!LocalDay(t) * Day + Pa!LocalHour(t)
  BY <1>1, LocalIs, Multiples
<1>4. ~(Pa!LocalDay(t) < 0)
  <2>1. SUFFICES ASSUME Pa!LocalDay(t) < 0 PROVE FALSE
    OBVIOUS
  <2>2. Pa!LocalDay(t) * Day + Day <= 0 * Day /\ 0 * Day = 0
    BY <1>1, <1>3, <2>1, Multiples
  <2> QED
    BY <1>1, <1>2, <1>3, <2>2
<1> QED
  BY <1>3, <1>4

\* A search ends within two days.
LEMMA SearchEnds ==
  ASSUME ahead \in After, NEW from \in Nat, NEW day \in Int
  PROVE  /\ day < Pa!LocalDay(from) => ~Ends(from, day)
         /\ day > Pa!LocalDay(from) =>
              Opens(day) > from /\ (Ends(from, day) <=> day % 7 # 2)
<1>1. /\ from \in Int /\ Opens(day) \in Int /\ Pa!LocalDay(from) \in Int
      /\ Pa!LocalDay(Opens(day)) = day /\ Pa!LocalHour(Opens(day)) \in Steady
      /\ Pa!IsSendDay(Opens(day)) <=> day % 7 # 2
  BY OpensAt, LocalIs
<1>2. day < Pa!LocalDay(from) => Opens(day) < from
  BY <1>1, DaysInOrder
<1>3. day > Pa!LocalDay(from) => from < Opens(day)
  BY <1>1, DaysInOrder
<1> QED
  BY <1>1, <1>2, <1>3 DEF Ends

\* A search from day to day finds the first that ends it.
LEMMA SearchIs ==
  ASSUME ahead \in After, NEW from \in Nat, NEW s, Searches(s, from)
  PROVE  s[Pa!LocalDay(from)] = Opening(from)
<1> DEFINE day == Pa!LocalDay(from)
<1>1. day \in Nat
  BY LocalDayIsNat
<1>2. \A d \in Nat : s[d] = IF Ends(from, d) THEN Opens(d) ELSE s[d + 1]
  BY DEF Searches
<1> HIDE DEF day
<1>3. Ends(from, day + 1) \/ Ends(from, day + 2)
  <2>1. /\ Ends(from, day + 1) <=> (day + 1) % 7 # 2
        /\ Ends(from, day + 2) <=> (day + 2) % 7 # 2
    BY <1>1, SearchEnds DEF day
  <2> QED
    BY <1>1, <2>1
<1>4. /\ s[day] = IF Ends(from, day) THEN Opens(day) ELSE s[day + 1]
      /\ s[day + 1] = IF Ends(from, day + 1) THEN Opens(day + 1) ELSE s[day + 2]
      /\ s[day + 2] = IF Ends(from, day + 2) THEN Opens(day + 2) ELSE s[day + 3]
  <2>1. /\ {day, day + 1, day + 2} \subseteq Nat
        /\ (day + 1) + 1 = day + 2 /\ (day + 2) + 1 = day + 3
    BY <1>1
  <2> QED
    BY <1>2, <2>1
<1> QED
  BY <1>3, <1>4 DEF Opening, day

\* There is one such search: it ends within three days.
LEMMA SearchExists ==
  ASSUME ahead \in After, NEW from \in Nat
  PROVE  \E s : Searches(s, from)
<1> DEFINE day     == Pa!LocalDay(from)
           past(d) == IF d % 7 # 2 THEN Opens(d) ELSE Opens(d + 1)
           val(d)  == IF d > day THEN past(d)
                      ELSE IF Ends(from, day) THEN Opens(day) ELSE past(day + 1)
           s       == [d \in Nat |-> val(d)]
<1>1. day \in Nat
  BY LocalDayIsNat
<1>2. ASSUME NEW d \in Nat
      PROVE  val(d) = IF Ends(from, d) THEN Opens(d) ELSE val(d + 1)
  <2>1. CASE d > day
    <3>1. (Ends(from, d) <=> d % 7 # 2)
      BY <2>1, SearchEnds
    <3>2. d % 7 = 2 => (d + 1) % 7 # 2
      OBVIOUS
    <3>3. d + 1 > day
      BY <1>1, <2>1
    <3> QED
      BY <2>1, <3>1, <3>2, <3>3
  <2>2. CASE d = day
    <3>1. day + 1 > day /\ ~(day > day)
      BY <1>1
    <3> QED
      BY <2>2, <3>1
  <2>3. CASE d < day
    <3>1. ~Ends(from, d)
      BY <2>3, SearchEnds
    <3>2. ~(d > day) /\ ~(d + 1 > day)
      BY <1>1, <2>3
    <3> QED
      BY <3>1, <3>2
  <2> QED
    BY <1>1, <2>1, <2>2, <2>3
<1>3. s = [d \in Nat |-> IF Ends(from, d) THEN Opens(d) ELSE s[d + 1]]
  <2>1. \A d \in Nat : s[d] = val(d) /\ s[d + 1] = val(d + 1)
    OBVIOUS
  <2> HIDE DEF val
  <2> QED
    BY <1>2, <2>1
<1> QED
  BY <1>3 DEF Searches

\* The browser's next opening, and the server's: the same search.
LEMMA BrowserOpeningIs ==
  ASSUME ahead \in After, NEW from \in Nat
  PROVE  Pa!BrowserOpening(from) = Opening(from)
<1> DEFINE s == CHOOSE s : s = [day \in Nat |->
                   LET opens == Pa!AtLocalHour(day, StartHour)
                   IN  IF opens >= from /\ Pa!IsSendDay(opens) THEN opens ELSE s[day + 1]]
<1>1. \A f : Searches(f, from) <=> f = [day \in Nat |->
                   LET opens == Pa!AtLocalHour(day, StartHour)
                   IN  IF opens >= from /\ Pa!IsSendDay(opens) THEN opens ELSE f[day + 1]]
  BY DEF Searches, Ends, Opens
<1>2. Searches(s, from)
  BY <1>1, SearchExists
<1>3. Pa!BrowserOpening(from) = s[Pa!LocalDay(from)]
  BY DEF Pa!BrowserOpening
<1> HIDE DEF s
<1> QED
  BY <1>2, <1>3, SearchIs

\* From the noon of a day, a day later is the next day.
LEMMA NextOpeningIs ==
  ASSUME ahead \in After, NEW from \in Nat
  PROVE  Pa!NextOpening(from) = Opening(from)
<1> DEFINE s == CHOOSE s : s = [day \in Nat |->
                   LET opens == Pa!AtLocalHour(day, StartHour)
                   IN  IF opens >= from /\ Pa!IsSendDay(opens) THEN opens
                       ELSE s[Pa!DayAfter(day)]]
<1>1. \A f : Searches(f, from) <=> f = [day \in Nat |->
                   LET opens == Pa!AtLocalHour(day, StartHour)
                   IN  IF opens >= from /\ Pa!IsSendDay(opens) THEN opens
                       ELSE f[Pa!DayAfter(day)]]
  <2>1. \A day \in Nat : Pa!DayAfter(day) = day + 1
    BY NextDay
  <2> QED
    BY <2>1 DEF Searches, Ends, Opens
<1>2. Searches(s, from)
  BY <1>1, SearchExists
<1>3. Pa!NextOpening(from) = s[Pa!LocalDay(from)]
  BY DEF Pa!NextOpening
<1> HIDE DEF s
<1> QED
  BY <1>2, <1>3, SearchIs

\* The opening found: the first of a sending day, none missed before it.
LEMMA OpeningIs ==
  ASSUME ahead \in After, NEW from \in Nat
  PROVE  LET o == Opening(from)
         IN  /\ o \in Nat /\ o >= from
             /\ Pa!InHours(o) /\ Pa!LocalHour(o) = StartHour
             /\ Pa!LocalDay(o) \in Pa!LocalDay(from) .. Pa!LocalDay(from) + 2
             /\ \A day \in Int : Ends(from, day) => o <= Opens(day)
<1> DEFINE d == Pa!LocalDay(from)
<1>1. d \in Nat
  BY LocalDayIsNat
<1>2. PICK e \in {d, d + 1, d + 2} :
        /\ Opening(from) = Opens(e) /\ Ends(from, e)
        /\ \A f \in Int : f >= d /\ f < e => ~Ends(from, f)
  <2>1. (Ends(from, d + 1) <=> (d + 1) % 7 # 2) /\ (Ends(from, d + 2) <=> (d + 2) % 7 # 2)
    BY <1>1, SearchEnds
  <2>2. Ends(from, d + 1) \/ Ends(from, d + 2)
    BY <1>1, <2>1
  <2> HIDE DEF d
  <2>3. CASE Ends(from, d)
    BY <1>1, <2>3 DEF Opening, d
  <2>4. CASE ~Ends(from, d) /\ Ends(from, d + 1)
    <3>1. \A f \in Int : f >= d /\ f < d + 1 => f = d
      BY <1>1
    <3> QED
      BY <1>1, <2>4, <3>1 DEF Opening, d
  <2>5. CASE ~Ends(from, d) /\ ~Ends(from, d + 1)
    <3>1. \A f \in Int : f >= d /\ f < d + 2 => f = d \/ f = d + 1
      BY <1>1
    <3> QED
      BY <1>1, <2>2, <2>5, <3>1 DEF Opening, d
  <2> QED
    BY <2>3, <2>4, <2>5
<1> HIDE DEF d
<1>3. e \in Int /\ e \in d .. d + 2
  BY <1>1, <1>2
<1>4. /\ Opens(e) \in Int /\ Pa!LocalDay(Opens(e)) = e /\ Pa!LocalHour(Opens(e)) = StartHour
      /\ Opens(e) >= from /\ Pa!IsSendDay(Opens(e))
  BY <1>2, <1>3, OpensAt DEF Ends
<1>5. Pa!InHours(Opens(e))
  BY <1>4, PaceNumbers DEF Pa!InHours
<1>6. ASSUME NEW day \in Int, Ends(from, day) PROVE Opens(e) <= Opens(day)
  <2>1. day >= d
    BY <1>1, <1>6, SearchEnds DEF d
  <2>2. day >= e
    BY <1>1, <1>2, <1>3, <1>6, <2>1
  <2>3. /\ Opens(day) \in Int /\ Pa!LocalDay(Opens(day)) = day
        /\ Pa!LocalHour(Opens(day)) \in Steady
    BY OpensAt
  <2>4. CASE day = e
    BY <1>4, <2>4
  <2>5. CASE day > e
    BY <1>3, <1>4, <2>3, <2>5, DaysInOrder
  <2> QED
    BY <1>3, <2>2, <2>4, <2>5
<1> QED
  BY <1>2, <1>3, <1>4, <1>5, <1>6 DEF d

\* An instant at the start hour of a day is the opening of the day, and a later one
\* of the hours comes after it.
LEMMA OpensFirst ==
  ASSUME ahead \in After, NEW t \in Int, Pa!LocalHour(t) \in StartHour .. LastHour
  PROVE  /\ Opens(Pa!LocalDay(t)) <= t
         /\ Pa!LocalHour(t) = StartHour => t = Opens(Pa!LocalDay(t))
<1> DEFINE day == Pa!LocalDay(t)
<1>1. /\ day \in Int /\ Pa!Local(t) = day * Day + Pa!LocalHour(t) /\ Pa!Local(t) \in Int
      /\ Pa!LocalHour(t) \in Steady
  BY LocalIs DEF Steady
<1> HIDE DEF day
<1>2. /\ Opens(day) \in Int /\ Pa!Local(Opens(day)) = day * Day + StartHour
      /\ day * Day \in Int /\ StartHour \in Int
  <2>1. Day \in Nat /\ Day > 0 /\ StartHour \in Int
    BY PaceNumbers
  <2>2. day * Day \in Int
    BY <1>1, <2>1, Multiples
  <2> QED
    BY <1>1, <2>1, <2>2, OpensAt
<1>3. ~(t < Opens(day))
  <2>1. SUFFICES ASSUME t < Opens(day) PROVE FALSE
    OBVIOUS
  <2>2. Pa!Local(t) < Pa!Local(Opens(day))
    BY <1>1, <1>2, <2>1, InOrder
  <2> QED
    BY <1>1, <1>2, <2>2
<1>4. Pa!LocalHour(t) = StartHour => ~(Opens(day) < t)
  <2>1. SUFFICES ASSUME Pa!LocalHour(t) = StartHour, Opens(day) < t PROVE FALSE
    OBVIOUS
  <2>2. Pa!Local(Opens(day)) < Pa!Local(t)
    BY <1>1, <1>2, <2>1, InOrder
  <2> QED
    BY <1>1, <1>2, <2>1, <2>2
<1> QED
  BY <1>2, <1>3, <1>4 DEF day

\* Nothing before the opening found is in the hours, from out of them; and no start.
LEMMA NothingBefore ==
  ASSUME ahead \in After, NEW from \in Nat, NEW t \in Nat, t >= from, Pa!InHours(t)
  PROVE  /\ ~Pa!InHours(from) => Opening(from) <= t
         /\ Pa!LocalHour(t) = StartHour => Opening(from) <= t
<1> DEFINE day == Pa!LocalDay(t)
<1>1. /\ day \in Int /\ Pa!LocalHour(t) \in StartHour .. LastHour
      /\ Pa!LocalHour(t) \in Steady /\ day % 7 # 2
  BY LocalIs DEF Pa!InHours, Pa!IsSendDay, Steady
<1>2. /\ Opens(day) \in Int /\ Opens(day) <= t
      /\ Pa!LocalHour(t) = StartHour => t = Opens(day)
      /\ Pa!IsSendDay(Opens(day))
  BY <1>1, OpensFirst, OpensAt
<1>3. Opening(from) \in Nat /\ (Opens(day) >= from => Opening(from) <= Opens(day))
  BY <1>1, <1>2, OpeningIs DEF Ends
<1>4. ASSUME ~Pa!InHours(from) PROVE Opens(day) >= from
  <2>1. SUFFICES ASSUME Opens(day) < from PROVE FALSE
    BY <1>2
  <2>2. /\ Pa!LocalDay(from) \in Int /\ Pa!LocalHour(from) \in 0 .. Day - 1
        /\ Pa!LocalDay(Opens(day)) = day /\ Pa!LocalHour(Opens(day)) \in Steady
    BY <1>1, LocalIs, OpensAt
  <2>3. day <= Pa!LocalDay(from) /\ Pa!LocalDay(from) <= day
    BY <1>1, <1>2, <2>1, <2>2, DaysGoOn
  <2>4. Pa!LocalDay(from) = day
    BY <1>1, <2>2, <2>3
  <2>5. from < t
    <3>1. from # t
      BY <1>4
    <3> QED
      BY <3>1
  <2>6. Pa!Local(Opens(day)) < Pa!Local(from) /\ Pa!Local(from) < Pa!Local(t)
    BY <1>1, <1>2, <2>1, <2>2, <2>5, InOrder
  <2>7. /\ Pa!Local(from) = day * Day + Pa!LocalHour(from)
        /\ Pa!Local(t) = day * Day + Pa!LocalHour(t)
        /\ Pa!Local(Opens(day)) = day * Day + StartHour
        /\ day * Day \in Int
    BY <1>1, <2>4, PaceNumbers, LocalIs, OpensAt, Multiples
  <2>8. Pa!LocalHour(from) \in StartHour .. LastHour
    <3> DEFINE m == day * Day
    <3> HIDE DEF day, m
    <3>1. m \in Int /\ StartHour \in Int /\ LastHour \in Int
      BY <2>7, PaceNumbers DEF m
    <3> QED
      BY <1>1, <2>2, <2>6, <2>7, <3>1 DEF m
  <2>9. Pa!IsSendDay(from)
    BY <1>1, <2>4 DEF Pa!IsSendDay
  <2> QED
    BY <1>4, <2>8, <2>9 DEF Pa!InHours
<1> QED
  BY <1>1, <1>2, <1>3, <1>4

\* Each search finds the first start hour of a sending day, before four days.
LEMMA SameOpenings ==
  ASSUME ahead \in After, now \in Nat
  PROVE  Pa!SameOpening
<1> DEFINE o      == Opening(now)
           starts == {t \in now .. now + 4 * Day :
                        Pa!IsSendDay(t) /\ Pa!LocalHour(t) = StartHour}
<1>1. /\ o \in Nat /\ o >= now /\ Pa!InHours(o) /\ Pa!LocalHour(o) = StartHour
      /\ Pa!LocalDay(o) \in Pa!LocalDay(now) .. Pa!LocalDay(now) + 2
  BY OpeningIs
<1> HIDE DEF o
<1>2. o <= now + 4 * Day
  <2> DEFINE d == Pa!LocalDay(now)
             e == Pa!LocalDay(o)
  <2>1. /\ {ChangesAt, Before, ahead, Day, StartHour, Pa!Noon} \subseteq Nat /\ Pa!Noon < Day
        /\ Before - ahead <= Pa!Noon /\ ahead - Before < Day - Pa!Noon /\ StartHour < Day
    BY PaceNumbers, ClocksChange
  <2>2. /\ d \in Int /\ e \in Int /\ {Pa!Local(now), Pa!Local(o)} \subseteq Int
        /\ Pa!Local(now) = d * Day + Pa!LocalHour(now) /\ Pa!LocalHour(now) \in 0 .. Day - 1
        /\ Pa!Local(o) = e * Day + StartHour
    BY <1>1, LocalIs
  <2> HIDE DEF d, e
  <2>3. /\ {d * Day, e * Day} \subseteq Int /\ e * Day <= d * Day + 2 * Day
    <3>1. /\ (d + 1) * Day = d * Day + Day /\ ((d + 1) + 1) * Day = (d + 1) * Day + Day
          /\ {d * Day, (d + 1) * Day, e * Day} \subseteq Int
      BY <2>1, <2>2, PaceNumbers, Multiples
    <3>2. e <= (d + 1) + 1
      BY <1>1, <2>2 DEF d, e
    <3>3. e * Day <= ((d + 1) + 1) * Day
      BY <2>1, <2>2, <3>2, PaceNumbers, Multiples
    <3> QED
      BY <2>1, <3>1, <3>3
  <2>4. Pa!Local(o) - Pa!Local(now) <= 2 * Day + StartHour
    BY <2>1, <2>2, <2>3
  <2>5. o - now <= Pa!Local(o) - Pa!Local(now) + Day
    <3>1. /\ now < ChangesAt => Pa!Local(now) = now + Before
          /\ now >= ChangesAt => Pa!Local(now) = now + ahead
          /\ o < ChangesAt => Pa!Local(o) = o + Before
          /\ o >= ChangesAt => Pa!Local(o) = o + ahead
      BY <1>1, LocalIs
    <3> QED
      BY <1>1, <2>1, <2>2, <3>1
  <2> QED
    BY <1>1, <2>1, <2>2, <2>4, <2>5
<1>3. o \in starts
  BY <1>1, <1>2, PaceNumbers DEF Pa!InHours
<1>4. ASSUME NEW t \in starts PROVE o <= t
  <2>1. t \in Nat /\ t >= now /\ Pa!LocalHour(t) = StartHour /\ Pa!InHours(t)
    BY PaceNumbers DEF Pa!InHours
  <2> QED
    BY <2>1, NothingBefore DEF o
<1>5. Pa!Min(starts) = o
  <2>1. \A x, y \in starts : x <= y /\ y <= x => x = y
    OBVIOUS
  <2> QED
    BY <1>3, <1>4, <2>1 DEF Pa!Min
<1> QED
  BY <1>5, NextOpeningIs, BrowserOpeningIs DEF Pa!SameOpening, o

-----------------------------------------------------------------------------
(* The least and the greatest, and what is counted.                        *)

\* A set of subsets of a finite set has a smallest one in it.
LEMMA SmallestOf ==
  ASSUME NEW top, IsFiniteSet(top), NEW some \in SUBSET SUBSET top, some # {}
  PROVE  \E s \in some : \A r \in SUBSET s : r # s => r \notin some
<1>1. some \subseteq FiniteSubsetsOf(top)
  BY FS_Subset DEF FiniteSubsetsOf
<1>2. PICK s \in some : \A r \in some : <<r, s>> \notin StrictSubsetOrdering(top)
  BY <1>1, WFMin, FS_StrictSubsetOrderingWellFounded
<1>3. ASSUME NEW r \in SUBSET s, r # s, r \in some PROVE FALSE
  BY <1>2, <1>3 DEF StrictSubsetOrdering
<1> QED
  BY <1>3

\* So has any set of naturals.
LEMMA LeastOf ==
  ASSUME NEW some \in SUBSET Nat, some # {}
  PROVE  \E n \in some : \A m \in some : n <= m
<1>1. PICK top \in some : TRUE
  OBVIOUS
<1> DEFINE upTo == {0 .. n : n \in some \cap 0 .. top}
<1>2. IsFiniteSet(0 .. top)
  BY FS_Interval
<1>3. upTo \in SUBSET SUBSET (0 .. top) /\ upTo # {}
  <2>1. top \in some \cap 0 .. top /\ \A n \in some \cap 0 .. top : 0 .. n \in SUBSET (0 .. top)
    OBVIOUS
  <2> QED
    BY <2>1
<1>4. PICK s \in upTo : \A r \in SUBSET s : r # s => r \notin upTo
  <2> HIDE DEF upTo
  <2> QED
    BY <1>2, <1>3, SmallestOf
<1>5. PICK n \in some \cap 0 .. top : s = 0 .. n
  BY <1>4
<1>6. ASSUME NEW m \in some, m < n PROVE FALSE
  <2>1. m \in some \cap 0 .. top /\ n \in 0 .. n /\ n \notin 0 .. m
    BY <1>5, <1>6
  <2>2. 0 .. m \in SUBSET s /\ 0 .. m # s
    BY <1>5, <1>6, <2>1
  <2>3. 0 .. m \in upTo
    BY <2>1
  <2> QED
    BY <1>4, <2>2, <2>3
<1> QED
  BY <1>5, <1>6

\* The Min of the community modules, the Max, and those of two.
LEMMA MinIs ==
  ASSUME NEW some \in SUBSET Nat, some # {}
  PROVE  Pa!Min(some) \in some /\ \A n \in some : Pa!Min(some) <= n
<1>1. \E n \in some : \A m \in some : n <= m
  BY LeastOf
<1> QED
  BY <1>1 DEF Pa!Min

\* And the Max, of a set that has a bound.
LEMMA MaxIs ==
  ASSUME NEW top \in Nat, NEW some \in SUBSET (0 .. top), some # {}
  PROVE  Pa!Max(some) \in some /\ \A n \in some : n <= Pa!Max(some)
<1> DEFINE less == {top - n : n \in some}
<1>1. \A n \in some : n \in Int /\ 0 <= n /\ n <= top
  OBVIOUS
<1>2. PICK l \in less : \A m \in less : l <= m
  <2>1. less \in SUBSET Nat /\ less # {}
    <3>1. \A n \in some : top - n \in Nat
      BY <1>1
    <3> QED
      BY <3>1
  <2> HIDE DEF less
  <2> QED
    BY <2>1, LeastOf
<1>3. PICK n \in some : l = top - n
  BY <1>2
<1>4. ASSUME NEW m \in some PROVE n >= m
  <2>1. top - n <= top - m
    BY <1>2, <1>3
  <2> QED
    BY <1>1, <2>1
<1>5. \E x \in some : \A y \in some : x >= y
  BY <1>4
<1>6. Pa!Max(some) \in some /\ \A y \in some : Pa!Max(some) >= y
  BY <1>5 DEF Pa!Max
<1> QED
  BY <1>6

\* The later of two.
LEMMA MaxOfTwo ==
  ASSUME NEW a \in Int, NEW b \in Int
  PROVE  Pa!Max({a, b}) = IF a >= b THEN a ELSE b
<1>1. \E x \in {a, b} : \A y \in {a, b} : x >= y
  OBVIOUS
<1>2. Pa!Max({a, b}) \in {a, b} /\ \A y \in {a, b} : Pa!Max({a, b}) >= y
  BY <1>1 DEF Pa!Max
<1> QED
  BY <1>2

\* The smaller of two.
LEMMA MinOfTwo ==
  ASSUME NEW a \in Int, NEW b \in Int
  PROVE  Pa!Min({a, b}) = IF a <= b THEN a ELSE b
<1>1. \E x \in {a, b} : \A y \in {a, b} : x <= y
  OBVIOUS
<1>2. Pa!Min({a, b}) \in {a, b} /\ \A y \in {a, b} : Pa!Min({a, b}) <= y
  BY <1>1 DEF Pa!Min
<1> QED
  BY <1>2

\* A plan counts contacts as everybody does.
LEMMA ContactsCount ==
  /\ \A s \in SUBSET Contacts :
       /\ IsFiniteSet(s) /\ Pa!Cardinality(s) = Cardinality(s) /\ Pa!Cardinality(s) \in Nat
       /\ s # {} => Pa!Cardinality(s) >= 1
       /\ \A r \in SUBSET s :
            /\ Pa!Cardinality(r) <= Pa!Cardinality(s)
            /\ Pa!Cardinality(s \ r) = Pa!Cardinality(s) - Pa!Cardinality(r)
       /\ \A c \in Contacts \ s : Pa!Cardinality(s \cup {c}) = Pa!Cardinality(s) + 1
  /\ \E n \in Nat : Contacts = 1 .. n
<1>1. IsFiniteSet(Contacts) /\ Contacts = 1 .. Cardinality(Contacts)
  BY PaceAssumption
<1>2. Cardinality(Contacts) \in Nat
  BY <1>1, FS_CardinalityType
<1>3. ASSUME NEW s \in SUBSET Contacts
      PROVE  IsFiniteSet(s) /\ Pa!Cardinality(s) = Cardinality(s) /\ Cardinality(s) \in Nat
  <2>1. IsFiniteSet(s)
    BY <1>1, FS_Subset
  <2> QED
    BY <2>1, FS_CardinalityType DEF Pa!Cardinality, Cardinality
<1>4. ASSUME NEW s \in SUBSET Contacts, NEW r \in SUBSET s
      PROVE  /\ Pa!Cardinality(r) <= Pa!Cardinality(s)
             /\ Pa!Cardinality(s \ r) = Pa!Cardinality(s) - Pa!Cardinality(r)
  <2>1. IsFiniteSet(s) /\ s \cap r = r /\ r \in SUBSET Contacts /\ s \ r \in SUBSET Contacts
    BY <1>3
  <2>2. Cardinality(r) <= Cardinality(s)
    BY <2>1, FS_Subset
  <2>3. Cardinality(s \ r) = Cardinality(s) - Cardinality(s \cap r)
    BY <2>1, FS_Difference
  <2> QED
    BY <1>3, <2>1, <2>2, <2>3
<1>5. ASSUME NEW s \in SUBSET Contacts, NEW c \in Contacts \ s
      PROVE  Pa!Cardinality(s \cup {c}) = Pa!Cardinality(s) + 1
  <2>1. IsFiniteSet(s) /\ s \cup {c} \in SUBSET Contacts
    BY <1>3
  <2>2. Cardinality(s \cup {c}) = Cardinality(s) + 1
    BY <2>1, FS_AddElement
  <2> QED
    BY <1>3, <2>1, <2>2
<1>6. ASSUME NEW s \in SUBSET Contacts, s # {} PROVE Pa!Cardinality(s) >= 1
  <2>1. Cardinality(s) # 0
    BY <1>3, <1>6, FS_EmptySet
  <2> QED
    BY <1>3, <2>1
<1> QED
  BY <1>1, <1>2, <1>3, <1>4, <1>5, <1>6

-----------------------------------------------------------------------------
(* The times of a plan.                                                    *)

\* What is held of the jobs, whatever the plan.
Held == Pa!PaceTypes /\ Pa!JobsAreHeld

\* What is held of the jobs, set by set.
LEMMA HeldSets ==
  ASSUME Held
  PROVE  /\ now \in Nat /\ ahead \in After
         /\ Pa!Waiting \in SUBSET Contacts /\ Pa!Pending \in SUBSET Pa!Waiting
         /\ Pa!Sent \in SUBSET Contacts /\ Pa!InDay \in SUBSET Pa!Sent
         /\ Pa!Pending \in SUBSET Contacts /\ Pa!InDay \in SUBSET Contacts
         /\ \A c \in Pa!Sent : sentAt[c] \in Nat /\ sentAt[c] <= now
         /\ \A c \in Pa!InDay : now <= sentAt[c] + Day
         /\ \A c \in Contacts :
              /\ due[c] # Unset => due[c] \in Nat /\ c \in Pa!Waiting
              /\ plannedAt[c] # Unset => plannedAt[c] \in Nat
         /\ sendAfter # Unset => sendAfter \in Nat
         /\ promise # Unset => promise \in Nat
<1>1. /\ now \in Nat /\ ahead \in After
      /\ \A c \in Contacts : /\ due[c] \in Nat \cup {Unset} /\ plannedAt[c] \in Nat \cup {Unset}
                             /\ sentAt[c] \in Nat \cup {Unset}
      /\ {sendAfter, promise} \subseteq Nat \cup {Unset}
  BY DEF Held, Pa!PaceTypes, Pa!Instants
<1>2. \A c \in Contacts : (due[c] # Unset => outcome[c] = "pending")
                       /\ (sentAt[c] # Unset => sentAt[c] <= now)
  BY DEF Held, Pa!JobsAreHeld
<1>3. \A c \in Pa!InDay : c \in Pa!Sent /\ sentAt[c] \in Nat /\ now - Day <= sentAt[c]
  BY <1>1 DEF Pa!InDay, Pa!Sent
<1>4. \A c \in Pa!InDay : now <= sentAt[c] + Day
  BY <1>1, <1>3, PaceNumbers
<1> QED
  BY <1>1, <1>2, <1>3, <1>4 DEF Pa!Waiting, Pa!Pending, Pa!Sent, Pa!InDay

\* The n-th slot frees when that many sends of the day have left it.
LEMMA FreesIs ==
  ASSUME Held, NEW n \in 1 .. Pa!Cardinality(Pa!InDay)
  PROVE  \E c \in Pa!InDay :
           /\ Pa!Frees(n) = sentAt[c] + Day /\ Pa!Frees(n) \in Nat
           /\ Pa!Cardinality({e \in Pa!InDay : sentAt[e] <= sentAt[c]}) >= n
<1> DEFINE sent   == {sentAt[c] : c \in Pa!InDay}
           had(d) == {e \in Pa!InDay : sentAt[e] <= sentAt[d]}
           some   == {d \in Pa!InDay : Pa!Cardinality(had(d)) >= n}
           frees  == {sentAt[c] + Day : c \in some}
<1>1. /\ now \in Nat /\ Day \in Nat /\ n \in Nat /\ n >= 1
      /\ Pa!InDay \in SUBSET Contacts /\ Pa!Cardinality(Pa!InDay) \in Nat
      /\ \A c \in Pa!InDay : sentAt[c] \in Nat /\ sentAt[c] <= now
  <2>1. Pa!InDay \in SUBSET Contacts /\ now \in Nat /\ Day \in Nat
    BY HeldSets, PaceNumbers
  <2>2. Pa!Cardinality(Pa!InDay) \in Nat
    BY <2>1, ContactsCount
  <2> QED
    BY <2>1, <2>2, HeldSets
<1>2. Pa!InDay # {}
  <2>1. Pa!Cardinality({}) = 0
    BY ContactsCount, FS_EmptySet
  <2> QED
    BY <1>1, <2>1
<1>3. PICK c \in Pa!InDay : \A e \in Pa!InDay : sentAt[e] <= sentAt[c]
  <2>1. sent \in SUBSET (0 .. now) /\ sent # {}
    BY <1>1, <1>2
  <2>2. Pa!Max(sent) \in sent /\ \A t \in sent : t <= Pa!Max(sent)
    <3> HIDE DEF sent
    <3> QED
      BY <1>1, <2>1, MaxIs
  <2>3. PICK c \in Pa!InDay : Pa!Max(sent) = sentAt[c]
    BY <2>2
  <2> QED
    BY <2>2, <2>3
<1>4. had(c) = Pa!InDay
  BY <1>3
<1>5. c \in some
  BY <1>1, <1>4
<1>6. frees \in SUBSET Nat /\ frees # {}
  <2>1. \A d \in some : sentAt[d] + Day \in Nat
    BY <1>1
  <2> HIDE DEF some
  <2> QED
    BY <1>5, <2>1
<1>7. Pa!Min(frees) \in frees
  <2> HIDE DEF frees
  <2> QED
    BY <1>6, MinIs
<1>8. Pa!Frees(n) = Pa!Min(frees)
  BY DEF Pa!Frees
<1>9. PICK d \in some : Pa!Min(frees) = sentAt[d] + Day
  BY <1>7
<1>10. /\ d \in Pa!InDay /\ sentAt[d] + Day \in Nat
       /\ Pa!Cardinality({e \in Pa!InDay : sentAt[e] <= sentAt[d]}) >= n
  BY <1>1
<1> HIDE DEF frees, some
<1> QED
  BY <1>8, <1>9, <1>10

\* What the definition of Times computes of a contact.
TimeBy(s, c, jitter) ==
  LET before == {d \in Pa!Pending : d < c}
      since  == IF before = {} THEN now ELSE s[Pa!Max(before)] + Pause + jitter
  IN  IF Pa!Needed(c) \in 1 .. Pa!Cardinality(Pa!InDay)
      THEN Pa!Max({since, Pa!Frees(Pa!Needed(c)) + Pa!Margin})
      ELSE since

\* What the definition of Times computes, as far as k.
Timed(s, k, jitter) ==
  s = [c \in {p \in Pa!Pending : p <= k} |-> TimeBy(s, c, jitter)]

\* The last of those who leave before a contact.
LEMMA LastBefore ==
  ASSUME Held, NEW c \in Pa!Pending, {d \in Pa!Pending : d < c} # {}
  PROVE  /\ Pa!Max({d \in Pa!Pending : d < c}) \in Pa!Pending
         /\ Pa!Max({d \in Pa!Pending : d < c}) < c
<1> DEFINE before == {d \in Pa!Pending : d < c}
<1>1. PICK n \in Nat : Contacts = 1 .. n
  BY ContactsCount
<1>2. before \in SUBSET (0 .. n)
  BY <1>1, HeldSets
<1>3. Pa!Max(before) \in before
  <2>1. before # {}
    OBVIOUS
  <2> HIDE DEF before
  <2> QED
    BY <1>2, <2>1, MaxIs
<1> QED
  BY <1>3

\* The times can be told one after the other, as far as any contact.
LEMMA TimedExists ==
  ASSUME Held, NEW jitter, NEW k \in Nat
  PROVE  \E s : Timed(s, k, jitter)
<1> DEFINE bad == {i \in Nat : ~ \E s : Timed(s, i, jitter)}
<1>1. SUFFICES ASSUME bad # {} PROVE FALSE
  OBVIOUS
<1>2. PICK i \in bad : \A j \in bad : i <= j
  <2>1. bad \in SUBSET Nat
    OBVIOUS
  <2> HIDE DEF bad
  <2> QED
    BY <1>1, <2>1, LeastOf
<1>3. PICK n \in Nat : Contacts = 1 .. n
  BY ContactsCount
<1>4. Pa!Pending \in SUBSET (1 .. n)
  BY <1>3, HeldSets
<1>5. i # 0
  <2>1. SUFFICES ASSUME i = 0 PROVE FALSE
    OBVIOUS
  <2>2. {p \in Pa!Pending : p <= 0} = {}
    <3>1. \A p \in Pa!Pending : p \in Int /\ p >= 1
      BY <1>4
    <3> QED
      BY <3>1
  <2> DEFINE s == [c \in {} |-> now]
  <2>3. s = [c \in {p \in Pa!Pending : p <= 0} |-> TimeBy(s, c, jitter)]
    BY <2>2
  <2>4. Timed(s, 0, jitter)
    BY <2>3 DEF Timed
  <2> QED
    BY <2>1, <2>4
<1>6. PICK s : Timed(s, i - 1, jitter)
  <2>1. i - 1 \in Nat /\ i - 1 \notin bad
    BY <1>2, <1>5
  <2> QED
    BY <2>1
<1> DEFINE some == {p \in Pa!Pending : p <= i}
           f    == [c \in some |-> IF c = i THEN TimeBy(s, i, jitter) ELSE s[c]]
<1>7. ASSUME NEW c \in some PROVE f[c] = TimeBy(f, c, jitter)
  <2> DEFINE before == {d \in Pa!Pending : d < c}
  <2>1. i \in Nat /\ c \in Nat /\ c <= i
    BY <1>2, <1>4
  <2>2. before # {} => f[Pa!Max(before)] = s[Pa!Max(before)]
    <3>1. SUFFICES ASSUME before # {} PROVE f[Pa!Max(before)] = s[Pa!Max(before)]
      OBVIOUS
    <3>2. Pa!Max(before) \in Pa!Pending /\ Pa!Max(before) < c
      BY <3>1, LastBefore
    <3> DEFINE m == Pa!Max(before)
    <3> HIDE DEF m, before
    <3>3. m \in some /\ m # i
      <4>1. m \in Pa!Pending /\ m < c
        BY <3>2 DEF m
      <4>2. m \in Nat
        BY <1>4, <4>1
      <4> QED
        BY <2>1, <4>1, <4>2
    <3> QED
      BY <3>3 DEF m
  <2>3. TimeBy(f, c, jitter) = TimeBy(s, c, jitter)
    <3> HIDE DEF f
    <3> QED
      BY <2>2 DEF TimeBy
  <2>4. CASE c = i
    BY <2>3, <2>4
  <2>5. CASE c # i
    <3>1. c \in {p \in Pa!Pending : p <= i - 1}
      BY <1>2, <1>4, <2>5
    <3>2. s[c] = TimeBy(s, c, jitter)
      BY <1>6, <3>1 DEF Timed
    <3> QED
      BY <2>3, <2>5, <3>2
  <2> QED
    BY <2>4, <2>5
<1>8. f = [c \in some |-> TimeBy(f, c, jitter)]
  <2>1. f = [c \in some |-> f[c]]
    OBVIOUS
  <2> HIDE DEF f
  <2> QED
    BY <1>7, <2>1
<1>9. Timed(f, i, jitter)
  <2> HIDE DEF f
  <2> QED
    BY <1>8 DEF Timed
<1> QED
  BY <1>2, <1>9

\* What a plan's times keep to: each after now, and after its slot is free.
LEMMA TimesAre ==
  ASSUME Held, NEW jitter \in Nat
  PROVE  /\ DOMAIN Pa!Times(jitter) = Pa!Pending
         /\ \A c \in Pa!Pending :
              /\ Pa!Times(jitter)[c] \in Nat /\ Pa!Times(jitter)[c] >= now
              /\ Pa!Needed(c) \in 1 .. Pa!Cardinality(Pa!InDay) =>
                   Pa!Times(jitter)[c] > Pa!Frees(Pa!Needed(c))
<1> DEFINE time == CHOOSE time : time = [c \in Pa!Pending |->
              LET before == {d \in Pa!Pending : d < c}
                  since  == IF before = {} THEN now ELSE time[Pa!Max(before)] + Pause + jitter
              IN  IF Pa!Needed(c) \in 1 .. Pa!Cardinality(Pa!InDay)
                  THEN Pa!Max({since, Pa!Frees(Pa!Needed(c)) + Pa!Margin})
                  ELSE since]
<1>1. Pa!Times(jitter) = time
  BY DEF Pa!Times
<1>2. \E s : s = [c \in Pa!Pending |-> TimeBy(s, c, jitter)]
  <2>1. PICK n \in Nat : Contacts = 1 .. n
    BY ContactsCount
  <2>2. {p \in Pa!Pending : p <= n} = Pa!Pending
    BY <2>1, HeldSets
  <2>3. PICK s : Timed(s, n, jitter)
    BY TimedExists
  <2> QED
    BY <2>2, <2>3 DEF Timed
<1>3. time = [c \in Pa!Pending |-> TimeBy(time, c, jitter)]
  BY <1>2 DEF TimeBy
<1> HIDE DEF time
<1>4. \A c \in Pa!Pending : time[c] = TimeBy(time, c, jitter)
  BY <1>3
<1> DEFINE Fine(c) == time[c] \in Nat /\ time[c] >= now
           bad     == {c \in Pa!Pending : ~Fine(c)}
<1>5. now \in Nat /\ Pause \in Nat /\ Pa!Pending \in SUBSET Nat
  <2>1. PICK n \in Nat : Contacts = 1 .. n
    BY ContactsCount
  <2> QED
    BY <2>1, HeldSets, PaceNumbers
<1>6. ASSUME NEW c \in Pa!Pending, NEW since \in Nat,
             since = (IF {d \in Pa!Pending : d < c} = {} THEN now
                      ELSE time[Pa!Max({d \in Pa!Pending : d < c})] + Pause + jitter)
      PROVE  /\ time[c] \in Nat /\ time[c] >= since
             /\ Pa!Needed(c) \in 1 .. Pa!Cardinality(Pa!InDay) =>
                  time[c] > Pa!Frees(Pa!Needed(c))
  <2>1. time[c] = IF Pa!Needed(c) \in 1 .. Pa!Cardinality(Pa!InDay)
                  THEN Pa!Max({since, Pa!Frees(Pa!Needed(c)) + 1}) ELSE since
    BY <1>4, <1>6 DEF TimeBy, Pa!Margin
  <2>2. CASE Pa!Needed(c) \in 1 .. Pa!Cardinality(Pa!InDay)
    <3>1. Pa!Frees(Pa!Needed(c)) \in Nat
      BY <2>2, FreesIs
    <3>2. PICK f \in Nat : f = Pa!Frees(Pa!Needed(c))
      BY <3>1
    <3>3. Pa!Max({since, f + 1}) = IF since >= f + 1 THEN since ELSE f + 1
      BY <3>2, MaxOfTwo
    <3> QED
      BY <2>1, <2>2, <3>2, <3>3
  <2>3. CASE Pa!Needed(c) \notin 1 .. Pa!Cardinality(Pa!InDay)
    BY <2>1, <2>3
  <2> QED
    BY <2>2, <2>3
<1>7. \A c \in Pa!Pending :
        Fine(c) /\ (Pa!Needed(c) \in 1 .. Pa!Cardinality(Pa!InDay) =>
                      time[c] > Pa!Frees(Pa!Needed(c)))
  <2>1. ASSUME NEW c \in Pa!Pending, \A d \in Pa!Pending : d < c => Fine(d)
        PROVE  Fine(c) /\ (Pa!Needed(c) \in 1 .. Pa!Cardinality(Pa!InDay) =>
                             time[c] > Pa!Frees(Pa!Needed(c)))
    <3>1. PICK since \in Nat : since >= now /\
            since = (IF {d \in Pa!Pending : d < c} = {} THEN now
                     ELSE time[Pa!Max({d \in Pa!Pending : d < c})] + Pause + jitter)
      <4>1. CASE {d \in Pa!Pending : d < c} = {}
        BY <1>5, <4>1
      <4>2. CASE {d \in Pa!Pending : d < c} # {}
        <5> DEFINE m == Pa!Max({d \in Pa!Pending : d < c})
        <5>1. Fine(m)
          BY <2>1, <4>2, LastBefore
        <5> HIDE DEF m
        <5>2. time[m] + Pause + jitter \in Nat /\ time[m] + Pause + jitter >= now
          BY <1>5, <5>1
        <5> QED
          BY <4>2, <5>2 DEF m
      <4> QED
        BY <4>1, <4>2
    <3>2. /\ time[c] \in Nat /\ time[c] >= since
          /\ Pa!Needed(c) \in 1 .. Pa!Cardinality(Pa!InDay) =>
               time[c] > Pa!Frees(Pa!Needed(c))
      BY <1>6, <3>1
    <3> QED
      BY <1>5, <3>1, <3>2
  <2>2. bad = {}
    <3>1. SUFFICES ASSUME bad # {} PROVE FALSE
      OBVIOUS
    <3>2. PICK c \in bad : \A d \in bad : c <= d
      <4>1. bad \in SUBSET Nat
        BY <1>5
      <4> HIDE DEF bad
      <4> QED
        BY <3>1, <4>1, LeastOf
    <3>3. \A d \in Pa!Pending : d < c => Fine(d)
      BY <1>5, <3>2
    <3> QED
      BY <2>1, <3>2, <3>3
  <2> QED
    BY <2>1, <2>2
<1> QED
  BY <1>1, <1>3, <1>7

-----------------------------------------------------------------------------
(* What a plan queues.                                                     *)

\* What fits the window of now is in the hours: the clocks do not change in it.
LEMMA StaysInHours ==
  ASSUME ahead \in After, now \in Nat, NEW t \in Nat, t >= now,
         Pa!InHours(now), t - now < Pa!WindowRemaining(now)
  PROVE  Pa!InHours(t)
<1> DEFINE day  == Pa!LocalDay(now)
           hour == Pa!LocalHour(now)
           m    == day * Day
<1>1. /\ {ChangesAt, Before, ahead, Day, StartHour, LastHour} \subseteq Nat
      /\ Day > 0 /\ LastHour < Day
  BY PaceNumbers, ClocksChange
<1>2. /\ day \in Int /\ hour \in StartHour .. LastHour
      /\ Pa!Local(now) = m + hour /\ m \in Int
  <2>1. day \in Int /\ Pa!Local(now) = m + hour /\ hour \in StartHour .. LastHour
    BY LocalIs DEF Pa!InHours
  <2> QED
    BY <1>1, <2>1, Multiples
<1>3. t - now <= LastHour - hour
  BY <1>1, <1>2 DEF Pa!WindowRemaining
<1> HIDE DEF day, hour, m
<1>4. /\ now < ChangesAt => m + hour = now + Before
      /\ now >= ChangesAt => m + hour = now + ahead
      /\ t < ChangesAt => Pa!Local(t) = t + Before
      /\ t >= ChangesAt => Pa!Local(t) = t + ahead
  BY <1>2, LocalIs
<1>5. CASE now < ChangesAt /\ t >= ChangesAt /\ ahead # Before
  <2> DEFINE r == ChangesAt + Before - m
  <2>1. r \in StartHour + 1 .. LastHour
    BY <1>1, <1>2, <1>3, <1>4, <1>5
  <2>2. PICK q \in Nat : q = r
    BY <1>1, <2>1
  <2>3. ChangesAt + Before = m + q /\ ChangesAt + Before - 1 = m + (q - 1)
    BY <1>1, <1>2, <2>2
  <2> HIDE DEF r
  <2>4. /\ q \in 0 .. Day - 1 /\ q - 1 \in 0 .. Day - 1
        /\ q \in Steady /\ q - 1 \in Steady
    BY <1>1, <2>1, <2>2 DEF Steady
  <2>5. (ChangesAt + Before) % Day \in Steady /\ (ChangesAt + Before - 1) % Day \in Steady
    <3>1. (m + q) % Day = q /\ (m + (q - 1)) % Day = q - 1
      BY <1>1, <1>2, <2>4, DividedOnce DEF m
    <3> QED
      BY <2>3, <2>4, <3>1
  <2>6. CASE ahead > Before
    <3>1. ChangesAt + Before \in ChangesAt + Before .. ChangesAt + ahead - 1
      BY <1>1, <2>6
    <3> QED
      BY <2>5, <3>1, ClocksChange
  <2>7. CASE ahead < Before
    <3>1. ChangesAt + Before - 1 \in ChangesAt + ahead .. ChangesAt + Before - 1
      BY <1>1, <2>7
    <3> QED
      BY <2>5, <3>1, ClocksChange
  <2> QED
    BY <1>1, <1>5, <2>6, <2>7
<1>6. CASE ~(now < ChangesAt /\ t >= ChangesAt /\ ahead # Before)
  <2>1. Pa!Local(t) = m + (hour + (t - now))
    BY <1>1, <1>2, <1>4, <1>6
  <2>2. hour + (t - now) \in StartHour .. LastHour
    BY <1>1, <1>2, <1>3
  <2>3. hour + (t - now) \in 0 .. Day - 1
    BY <1>1, <2>2
  <2>4. Pa!LocalDay(t) = day /\ Pa!LocalHour(t) = hour + (t - now)
    BY <1>2, <2>1, <2>3, ShownOnce DEF m
  <2>5. Pa!IsSendDay(t)
    BY <2>4 DEF Pa!InHours, Pa!IsSendDay, day
  <2> QED
    BY <2>2, <2>4, <2>5 DEF Pa!InHours
<1> QED
  BY <1>5, <1>6

\* The room left when a job leaves at t, that of c: for the invariant and its steps.
RoomFor(c, t) ==
  Pa!Cardinality(Pa!SentSince(t)) + Pa!Cardinality(Pa!UpTo(c)) <= MailsPerDay + 1

\* Every job has room at its instant, and at any after it.
RoomAfter == \A c \in Contacts : due[c] # Unset =>
               \A t \in Nat : t >= due[c] /\ t >= now => RoomFor(c, t)

\* Later, no more of the sends are in the day before.
LEMMA SinceLess ==
  ASSUME Held, NEW t \in Nat, NEW u \in Nat, t <= u
  PROVE  /\ Pa!SentSince(u) \in SUBSET Pa!SentSince(t)
         /\ Pa!Cardinality(Pa!SentSince(u)) <= Pa!Cardinality(Pa!SentSince(t))
         /\ {Pa!Cardinality(Pa!SentSince(t)), Pa!Cardinality(Pa!SentSince(u))} \subseteq Nat
         /\ t >= now => Pa!SentSince(t) \in SUBSET Pa!InDay
<1>1. /\ now \in Nat /\ Day \in Nat /\ Pa!Sent \in SUBSET Contacts
      /\ \A s \in Pa!Sent : sentAt[s] \in Nat
  BY HeldSets, PaceNumbers
<1>2. Pa!SentSince(u) \in SUBSET Pa!SentSince(t)
  BY <1>1 DEF Pa!SentSince
<1>3. Pa!SentSince(t) \in SUBSET Contacts
  BY <1>1 DEF Pa!SentSince
<1>4. t >= now => Pa!SentSince(t) \in SUBSET Pa!InDay
  <2>1. SUFFICES ASSUME t >= now, NEW s \in Pa!SentSince(t) PROVE s \in Pa!InDay
    OBVIOUS
  <2>2. s \in Pa!Sent /\ sentAt[s] + Day >= t
    BY DEF Pa!SentSince
  <2>3. sentAt[s] >= now - Day
    BY <1>1, <2>1, <2>2
  <2> QED
    BY <2>2, <2>3 DEF Pa!InDay
<1> QED
  BY <1>2, <1>3, <1>4, ContactsCount

\* The room of a job is the room at its own instant, and at any after it.
LEMMA RoomMeans == Held => (Pa!RoomIsLeft <=> RoomAfter)
<1> SUFFICES ASSUME Held PROVE Pa!RoomIsLeft <=> RoomAfter
  OBVIOUS
<1>1. ASSUME NEW c \in Contacts, due[c] # Unset
      PROVE  (Pa!Cardinality(Pa!SentSince(Pa!Max({due[c], now}))) + Pa!Cardinality(Pa!UpTo(c))
                <= MailsPerDay + 1) <=>
             \A t \in Nat : t >= due[c] /\ t >= now => RoomFor(c, t)
  <2>1. due[c] \in Nat /\ now \in Nat /\ MailsPerDay \in Nat
    BY <1>1, HeldSets, PaceNumbers
  <2>2. PICK u \in Nat : u = Pa!Max({due[c], now})
    BY <2>1, MaxOfTwo
  <2>3. u >= due[c] /\ u >= now /\ \A t \in Nat : t >= due[c] /\ t >= now => u <= t
    BY <2>1, <2>2, MaxOfTwo
  <2>4. Pa!Cardinality(Pa!UpTo(c)) \in Nat
    BY HeldSets, ContactsCount DEF Pa!UpTo
  <2>5. ASSUME RoomFor(c, u), NEW t \in Nat, u <= t PROVE RoomFor(c, t)
    <3>1. /\ Pa!Cardinality(Pa!SentSince(t)) <= Pa!Cardinality(Pa!SentSince(u))
          /\ {Pa!Cardinality(Pa!SentSince(t)), Pa!Cardinality(Pa!SentSince(u))} \subseteq Nat
      BY <2>5, SinceLess
    <3> QED
      BY <2>1, <2>4, <2>5, <3>1 DEF RoomFor
  <2>6. RoomFor(c, u) <=> \A t \in Nat : t >= due[c] /\ t >= now => RoomFor(c, t)
    BY <2>3, <2>5
  <2> QED
    BY <2>2, <2>6 DEF RoomFor
<1> QED
  BY <1>1 DEF Pa!RoomIsLeft, RoomAfter

\* What is planned: a time after now, in the hours, with room for all who may leave
\* first, and for the one in the worker's hands.
LEMMA PlannedIs ==
  ASSUME Held, Pa!MayPlan, NEW jitter \in Nat, NEW others,
         NEW c \in DOMAIN Pa!Planned(jitter, others)
  PROVE  /\ c \in Pa!Pending /\ Pa!Planned(jitter, others)[c] \in Nat
         /\ Pa!Planned(jitter, others)[c] >= now /\ Pa!InHours(Pa!Planned(jitter, others)[c])
         /\ RoomFor(c, Pa!Planned(jitter, others)[c])
<1> DEFINE n == Pa!Cardinality(Pa!InDay)
           at == Pa!Times(jitter)[c]
           ahd == {d \in Pa!Pending : d <= c}
<1>1. PICK limit : limit = {d \in Pa!Pending :
             \A e \in Pa!Pending : e <= d =>
               /\ Pa!Cardinality({f \in Pa!Pending : f <= e}) + Pa!Cardinality(Pa!InDay) + others
                    <= AccountLimit
               /\ Pa!Needed(e) <= Pa!Cardinality(Pa!InDay)
               /\ Pa!Times(jitter)[e] - now < Pa!WindowRemaining(now)}
  OBVIOUS
<1>2. Pa!Planned(jitter, others) = [d \in limit |-> Pa!Times(jitter)[d]]
  BY <1>1 DEF Pa!Planned
<1>3. c \in limit /\ Pa!Planned(jitter, others)[c] = at
  BY <1>2
<1>4. PICK k \in Nat : Contacts = 1 .. k
  BY ContactsCount
<1>5. /\ c \in Pa!Pending /\ c \in Contacts /\ c \in Nat
      /\ Pa!Needed(c) <= n /\ at - now < Pa!WindowRemaining(now)
  <2>1. c \in Pa!Pending /\ c \in Contacts
    BY <1>1, <1>3, HeldSets
  <2>2. c \in Nat /\ c <= c
    BY <1>4, <2>1
  <2>3. \A e \in Pa!Pending : e <= c =>
          Pa!Needed(e) <= Pa!Cardinality(Pa!InDay)
          /\ Pa!Times(jitter)[e] - now < Pa!WindowRemaining(now)
    BY <1>1, <1>3
  <2>4. /\ Pa!Needed(c) <= Pa!Cardinality(Pa!InDay)
        /\ Pa!Times(jitter)[c] - now < Pa!WindowRemaining(now)
    BY <2>1, <2>2, <2>3
  <2> QED
    BY <2>1, <2>2, <2>4
<1>6. /\ at \in Nat /\ at >= now
      /\ Pa!Needed(c) \in 1 .. n => at > Pa!Frees(Pa!Needed(c))
  BY <1>5, TimesAre
<1> HIDE DEF at
<1>7. Pa!InHours(at)
  BY <1>5, <1>6, HeldSets, StaysInHours DEF Pa!MayPlan
<1>8. /\ n \in Nat /\ Pa!Cardinality(ahd) \in Nat /\ MailsPerDay \in Nat
      /\ Pa!Needed(c) = n + Pa!Cardinality(ahd) - MailsPerDay
      /\ Pa!Cardinality(Pa!UpTo(c)) \in Nat
      /\ Pa!Cardinality(Pa!UpTo(c)) <= Pa!Cardinality(ahd) + 1
  <2>1. /\ ahd \in SUBSET Contacts /\ Pa!InDay \in SUBSET Contacts
        /\ Pa!UpTo(c) \in SUBSET Contacts
    BY HeldSets DEF Pa!UpTo
  <2>2. ahd = Pa!UpTo(c) \ {taken}
    BY DEF Pa!UpTo, Pa!Pending
  <2>3. Pa!Needed(c) = n + Pa!Cardinality(ahd) - MailsPerDay
    BY DEF Pa!Needed
  <2> HIDE DEF n, ahd
  <2>4. CASE taken \in Pa!UpTo(c)
    <3>1. Pa!UpTo(c) = ahd \cup {taken} /\ taken \in Contacts \ ahd
      BY <2>1, <2>2, <2>4
    <3>2. Pa!Cardinality(Pa!UpTo(c)) = Pa!Cardinality(ahd) + 1
      BY <2>1, <3>1, ContactsCount
    <3> QED
      BY <2>1, <2>3, <3>2, ContactsCount, PaceNumbers DEF n
  <2>5. CASE taken \notin Pa!UpTo(c)
    <3>1. Pa!UpTo(c) = ahd
      BY <2>2, <2>5
    <3>2. Pa!Cardinality(ahd) \in Nat /\ n \in Nat /\ MailsPerDay \in Nat
      BY <2>1, ContactsCount, PaceNumbers DEF n
    <3> QED
      BY <2>3, <3>1, <3>2
  <2> QED
    BY <2>4, <2>5
<1>9. Pa!Cardinality(Pa!SentSince(at)) \in Nat /\ Pa!Cardinality(Pa!SentSince(at)) <= n
  <2>1. Pa!SentSince(at) \in SUBSET Pa!InDay /\ Pa!InDay \in SUBSET Contacts
    BY <1>6, HeldSets, SinceLess
  <2> QED
    BY <2>1, ContactsCount
<1>10. ASSUME Pa!Needed(c) \in 1 .. n
       PROVE  Pa!Cardinality(Pa!SentSince(at)) <= n - Pa!Needed(c)
  <2>1. PICK d \in Pa!InDay :
          /\ Pa!Frees(Pa!Needed(c)) = sentAt[d] + Day /\ Pa!Frees(Pa!Needed(c)) \in Nat
          /\ Pa!Cardinality({e \in Pa!InDay : sentAt[e] <= sentAt[d]}) >= Pa!Needed(c)
    BY <1>10, FreesIs
  <2> DEFINE had == {e \in Pa!InDay : sentAt[e] <= sentAt[d]}
  <2>2. at > sentAt[d] + Day
    BY <1>6, <1>10, <2>1
  <2>3. Pa!SentSince(at) \in SUBSET (Pa!InDay \ had)
    <3>1. Pa!SentSince(at) \in SUBSET Pa!InDay
      BY <1>6, HeldSets, SinceLess
    <3>2. ASSUME NEW s \in Pa!SentSince(at), s \in had PROVE FALSE
      <4>1. /\ sentAt[s] + Day >= at /\ sentAt[s] <= sentAt[d]
            /\ s \in Pa!Sent /\ d \in Pa!Sent
        BY <3>2, HeldSets DEF Pa!SentSince
      <4>2. sentAt[s] \in Nat /\ sentAt[d] \in Nat /\ Day \in Nat
        BY <4>1, HeldSets, PaceNumbers
      <4> QED
        BY <1>6, <2>2, <4>1, <4>2
    <3> QED
      BY <3>1, <3>2
  <2>4. /\ Pa!InDay \in SUBSET Contacts /\ had \in SUBSET Pa!InDay
        /\ Pa!InDay \ had \in SUBSET Contacts
    BY HeldSets
  <2>5. had \in SUBSET Contacts
    BY <2>4
  <2> HIDE DEF had
  <2>6. /\ Pa!Cardinality(Pa!SentSince(at)) <= Pa!Cardinality(Pa!InDay \ had)
        /\ Pa!Cardinality(Pa!InDay \ had) = n - Pa!Cardinality(had)
        /\ Pa!Cardinality(had) \in Nat
    BY <2>3, <2>4, <2>5, ContactsCount
  <2>7. Pa!Cardinality(had) >= Pa!Needed(c)
    BY <2>1 DEF had
  <2> QED
    BY <1>8, <1>9, <1>10, <2>6, <2>7
<1>11. RoomFor(c, at)
  <2> HIDE DEF n, ahd
  <2>1. CASE Pa!Needed(c) \in 1 .. n
    BY <1>8, <1>9, <1>10, <2>1 DEF RoomFor
  <2>2. CASE Pa!Needed(c) \notin 1 .. n
    <3>1. Pa!Needed(c) <= 0
      BY <1>5, <1>8, <2>2
    <3> QED
      BY <1>8, <1>9, <3>1 DEF RoomFor
  <2> QED
    BY <2>1, <2>2
<1> QED
  BY <1>3, <1>5, <1>6, <1>7, <1>11 DEF at

-----------------------------------------------------------------------------
(* The steps.                                                              *)

\* The hours only depend on the zone.
LEMMA HoursStay ==
  ASSUME UNCHANGED ahead
  PROVE  /\ \A c : Pa!InHours(due[c])' <=> Pa!InHours(due'[c])
         /\ \A c : Pa!InHours(plannedAt[c])' <=> Pa!InHours(plannedAt'[c])
         /\ Pa!InHours(promise)' <=> Pa!InHours(promise')
         /\ \A t : Pa!InHours(t)' <=> Pa!InHours(t)
BY DEF Pa!InHours, Pa!IsSendDay, Pa!LocalDay, Pa!LocalHour, Pa!Local, Pa!Offset

\* The invariant holds again where the room, as RoomAfter has it, does.
LEMMA RoomAgain == Held' /\ RoomAfter' => Pa!RoomIsLeft'
<1>1. Held /\ RoomAfter => Pa!RoomIsLeft
  BY RoomMeans
<1> QED
  BY <1>1, PTL

\* The sets only depend on the contacts.
LEMMA SetsStay ==
  /\ UNCHANGED outcome => UNCHANGED Pa!Waiting
  /\ UNCHANGED sentAt => UNCHANGED Pa!Sent
  /\ UNCHANGED <<outcome, sentAt>> => \A c, t : RoomFor(c, t)' <=> RoomFor(c, t)
<1>1. UNCHANGED outcome => UNCHANGED Pa!Waiting
  BY DEF Pa!Waiting
<1>2. UNCHANGED sentAt => UNCHANGED Pa!Sent
  BY DEF Pa!Sent
<1> QED
  BY <1>1, <1>2 DEF RoomFor, Pa!SentSince, Pa!UpTo

\* A step that only lets go of jobs, or takes one up, or changes the status.
LEMMA QuietStep ==
  ASSUME Pa!PaceInv,
         UNCHANGED <<now, ahead, outcome, plannedAt, again, sentAt, sendAfter, promise>>,
         status' = "draft" <=> status = "draft",
         due' \in [Contacts -> Pa!Instants],
         \A c \in Contacts : due'[c] = due[c] \/ (due'[c] = Unset /\ due[c] <= now),
         taken' # Unset => taken' \in Contacts /\ due'[taken'] # Unset /\ due'[taken'] <= now
  PROVE  Pa!PaceInv'
<1>1. Held /\ RoomAfter
  BY RoomMeans DEF Pa!PaceInv, Held
<1>2. Held'
  BY DEF Pa!PaceInv, Held, Pa!PaceTypes, Pa!JobsAreHeld, Pa!Instants
<1>3. \A c \in Contacts : due'[c] # Unset => due'[c] = due[c]
  OBVIOUS
<1>4. RoomAfter'
  BY <1>1, <1>3, SetsStay DEF RoomAfter
<1>5. Pa!TimeIsKept'
  <2>1. UNCHANGED Pa!Waiting
    BY SetsStay
  <2>2. ASSUME NEW c \in Pa!Waiting \ again
        PROVE  IF due'[c] = Unset \/ due'[c] <= now THEN plannedAt[c] = Unset \/ plannedAt[c] <= now
               ELSE plannedAt[c] = due'[c]
    <3>1. c \in Contacts
      BY DEF Pa!Waiting
    <3>2. IF due[c] = Unset \/ due[c] <= now THEN plannedAt[c] = Unset \/ plannedAt[c] <= now
          ELSE plannedAt[c] = due[c]
      BY DEF Pa!PaceInv, Pa!TimeIsKept, Pa!Passed
    <3> QED
      BY <3>1, <3>2
  <2> QED
    BY <2>1, <2>2 DEF Pa!TimeIsKept, Pa!Passed
<1>6. Pa!WrittenInHours' /\ Pa!QueuedInHours'
  BY <1>3, HoursStay DEF Pa!PaceInv, Pa!WrittenInHours, Pa!QueuedInHours
<1>7. Pa!LaunchIsKept'
  <2>1. promise = Unset => \A c \in Contacts : due[c] = Unset
    BY DEF Pa!PaceInv, Pa!LaunchIsKept
  <2>2. promise = Unset => \A c \in Contacts : due'[c] = Unset
    BY <1>3, <2>1
  <2> QED
    BY <2>2, HoursStay DEF Pa!PaceInv, Pa!LaunchIsKept
<1>8. Pa!PaceIsKept'
  BY SetsStay DEF Pa!PaceInv, Pa!PaceIsKept
<1>9. Pa!NotBeforePromised'
  BY <1>3, SetsStay, HoursStay DEF Pa!PaceInv, Pa!NotBeforePromised
<1> QED
  BY <1>2, <1>4, <1>5, <1>6, <1>7, <1>8, <1>9, RoomAgain DEF Held, Pa!PaceInv

\* Handed over, held back, tried again; paused, resumed, completed.
LEMMA QuietSteps ==
  ASSUME Pa!PaceInv,
         \/ Pa!Complete \/ Pa!PauseIt \/ Pa!ResumeIt \/ UNCHANGED paceVars
         \/ \E c \in Contacts : Pa!Take(c) \/ Pa!HoldBack(c) \/ Pa!TryAgain(c)
  PROVE  Pa!PaceInv'
<1>1. /\ due \in [Contacts -> Pa!Instants] /\ Unset \in Pa!Instants
      /\ taken # Unset => taken \in Contacts /\ due[taken] # Unset /\ due[taken] <= now
  BY DEF Pa!PaceInv, Pa!PaceTypes, Pa!JobsAreHeld, Pa!Instants
<1>2. CASE Pa!Complete \/ Pa!PauseIt \/ Pa!ResumeIt \/ UNCHANGED paceVars
  <2>1. /\ UNCHANGED <<now, ahead, outcome, plannedAt, again, sentAt, sendAfter, promise, due, taken>>
        /\ status' = "draft" <=> status = "draft"
    BY <1>2 DEF Pa!Complete, Pa!MayPlan, Pa!PauseIt, Pa!ResumeIt, paceVars
  <2> QED
    BY <1>1, <2>1, QuietStep
<1>3. ASSUME NEW c \in Contacts, Pa!Take(c) PROVE Pa!PaceInv'
  <2>1. /\ UNCHANGED <<now, ahead, outcome, plannedAt, again, sentAt, sendAfter, promise, status>>
        /\ due[c] # Unset /\ due[c] <= now
        /\ \/ taken' = c /\ due' = due
           \/ taken' = taken /\ due' = [due EXCEPT ![c] = Unset] /\ taken = Unset
    BY <1>3 DEF Pa!Take, Pa!Due
  <2> QED
    BY <1>1, <2>1, QuietStep
<1>4. ASSUME NEW c \in Contacts, Pa!HoldBack(c) \/ Pa!TryAgain(c) PROVE Pa!PaceInv'
  <2>1. /\ UNCHANGED <<now, ahead, outcome, plannedAt, again, sentAt, sendAfter, promise, status>>
        /\ taken = c /\ taken' = Unset
        /\ due' = due \/ due' = [due EXCEPT ![c] = Unset]
    BY <1>4 DEF Pa!HoldBack, Pa!TryAgain
  <2>2. taken # Unset
    <3>1. PICK n \in Nat : Contacts = 1 .. n
      BY ContactsCount
    <3> QED
      BY <2>1, <3>1, PaceNumbers
  <2> QED
    BY <1>1, <2>1, <2>2, QuietStep
<1> QED
  BY <1>2, <1>3, <1>4

\* The launch, at once or later.
LEMMA LaunchStep ==
  ASSUME Pa!PaceInv, Pa!LaunchNow \/ \E at \in 0 .. LastTick + Day : Pa!LaunchLater(at)
  PROVE  Pa!PaceInv'
<1>1. /\ UNCHANGED <<now, ahead, outcome, due, plannedAt, again, taken, sentAt>>
      /\ status = "draft" /\ status' = "scheduled"
  BY DEF Pa!LaunchNow, Pa!LaunchLater
<1>2. Held /\ RoomAfter
  BY RoomMeans DEF Pa!PaceInv, Held
<1>3. /\ promise = Unset /\ sendAfter = Unset
      /\ \A c \in Contacts : due[c] = Unset /\ sentAt[c] = Unset
  BY <1>1 DEF Pa!PaceInv, Pa!LaunchIsKept
<1>4. /\ promise' \in Nat /\ sendAfter' \in Nat \cup {Unset} /\ Pa!InHours(promise')
      /\ \A t \in Nat : t >= now /\ t < promise' /\ Pa!InHours(t) =>
           sendAfter' # Unset /\ sendAfter' > t
      /\ sendAfter' \in {promise', Unset}
  <2>1. CASE Pa!LaunchNow
    <3>1. promise' = (IF Pa!InHours(now) THEN now ELSE Opening(now)) /\ sendAfter' = sendAfter
      BY <1>2, <2>1, HeldSets, BrowserOpeningIs DEF Pa!LaunchNow
    <3>2. CASE Pa!InHours(now)
      BY <1>2, <1>3, <3>1, <3>2, HeldSets
    <3>3. CASE ~Pa!InHours(now)
      <4>1. promise' = Opening(now) /\ Opening(now) \in Nat /\ Pa!InHours(Opening(now))
        BY <1>2, <3>1, <3>3, HeldSets, OpeningIs
      <4>2. \A t \in Nat : t >= now /\ Pa!InHours(t) => Opening(now) <= t
        BY <1>2, <3>3, HeldSets, NothingBefore
      <4> QED
        BY <1>3, <3>1, <4>1, <4>2
    <3> QED
      BY <3>2, <3>3
  <2>2. ASSUME NEW at \in 0 .. LastTick + Day, Pa!LaunchLater(at)
        PROVE  /\ promise' \in Nat /\ sendAfter' \in Nat /\ Pa!InHours(promise')
               /\ \A t \in Nat : t < promise' => sendAfter' # Unset /\ sendAfter' > t
               /\ sendAfter' = promise'
    <3>1. at \in Nat /\ Unset \notin Nat
      BY PaceNumbers
    <3> QED
      BY <2>2, <3>1 DEF Pa!LaunchLater
  <2> QED
    BY <2>1, <2>2
<1>5. Held'
  BY <1>1, <1>4 DEF Pa!PaceInv, Held, Pa!PaceTypes, Pa!JobsAreHeld, Pa!Instants
<1>6. RoomAfter'
  BY <1>1, <1>2, SetsStay DEF RoomAfter
<1>7. Pa!TimeIsKept' /\ Pa!WrittenInHours' /\ Pa!QueuedInHours' /\ Pa!PaceIsKept'
  <2>1. Pa!TimeIsKept'
    BY <1>1, SetsStay DEF Pa!PaceInv, Pa!TimeIsKept, Pa!Passed
  <2>2. Pa!WrittenInHours' /\ Pa!QueuedInHours'
    BY <1>1, HoursStay DEF Pa!PaceInv, Pa!WrittenInHours, Pa!QueuedInHours
  <2>3. Pa!PaceIsKept'
    BY <1>1, SetsStay DEF Pa!PaceInv, Pa!PaceIsKept
  <2> QED
    BY <2>1, <2>2, <2>3
<1>8. Pa!LaunchIsKept'
  <2>1. promise' # Unset /\ status' # "draft"
    BY <1>1, <1>4, PaceNumbers
  <2>2. \A t \in now .. promise' - 1 : t \in Nat /\ t >= now /\ t < promise'
    <3>1. PICK n, p \in Nat : n = now /\ p = promise'
      BY <1>2, <1>4, HeldSets
    <3>2. ASSUME NEW t \in n .. p - 1 PROVE t \in Nat /\ t >= n /\ t < p
      <4>1. n \in Int /\ p - 1 \in Int /\ t \in Int /\ n <= t /\ t <= p - 1 /\ 0 <= n
        OBVIOUS
      <4> QED
        BY <4>1
    <3> QED
      BY <3>1, <3>2
  <2>3. \A t \in now' .. promise' - 1 : Pa!InHours(t)' => sendAfter' # Unset /\ sendAfter' > t
    BY <1>1, <1>4, <2>2, HoursStay
  <2> QED
    BY <1>4, <2>1, <2>3 DEF Pa!LaunchIsKept
<1>9. Pa!NotBeforePromised'
  <2>1. Pa!Sent = {}
    BY <1>3 DEF Pa!Sent
  <2> QED
    BY <1>1, <1>3, <1>4, <2>1, SetsStay, HoursStay DEF Pa!NotBeforePromised
<1> QED
  BY <1>5, <1>6, <1>7, <1>8, <1>9, RoomAgain DEF Held, Pa!PaceInv

\* Time passes: what is late may still leave, and the day before holds no more.
LEMMA TickStep ==
  ASSUME Pa!PaceInv, Pa!Tick
  PROVE  Pa!PaceInv'
<1>1. /\ now' = now + 1
      /\ UNCHANGED <<ahead, status, sendAfter, promise, outcome, due, plannedAt, again, taken, sentAt>>
  BY DEF Pa!Tick
<1>2. Held /\ RoomAfter
  BY RoomMeans DEF Pa!PaceInv, Held
<1>3. now \in Nat /\ now' \in Nat /\ \A t \in Nat : (t <= now => t <= now') /\ (t >= now' => t >= now)
  BY <1>1, <1>2, HeldSets
<1>4. Held'
  <2>1. \A c \in Contacts : /\ due[c] # Unset => due[c] \in Nat
                            /\ sentAt[c] # Unset => sentAt[c] \in Nat
    BY <1>2 DEF Held, Pa!PaceTypes, Pa!Instants
  <2> QED
    BY <1>1, <1>3, <2>1 DEF Pa!PaceInv, Held, Pa!PaceTypes, Pa!JobsAreHeld, Pa!Instants
<1>5. RoomAfter'
  BY <1>1, <1>2, <1>3, SetsStay DEF RoomAfter
<1>6. Pa!TimeIsKept'
  <2>1. UNCHANGED Pa!Waiting
    BY <1>1, SetsStay
  <2>2. ASSUME NEW c \in Pa!Waiting \ again
        PROVE  IF due[c] = Unset \/ due[c] <= now' THEN plannedAt[c] = Unset \/ plannedAt[c] <= now'
               ELSE plannedAt[c] = due[c]
    <3>1. /\ due[c] # Unset => due[c] \in Nat
          /\ plannedAt[c] # Unset => plannedAt[c] \in Nat
      BY <1>2, HeldSets DEF Pa!Waiting
    <3>2. IF due[c] = Unset \/ due[c] <= now THEN plannedAt[c] = Unset \/ plannedAt[c] <= now
          ELSE plannedAt[c] = due[c]
      BY DEF Pa!PaceInv, Pa!TimeIsKept, Pa!Passed
    <3> QED
      BY <1>1, <1>3, <3>1, <3>2
  <2> QED
    BY <1>1, <2>1, <2>2 DEF Pa!TimeIsKept, Pa!Passed
<1>7. Pa!WrittenInHours' /\ Pa!QueuedInHours'
  BY <1>1, HoursStay DEF Pa!PaceInv, Pa!WrittenInHours, Pa!QueuedInHours
<1>8. Pa!PaceIsKept' /\ Pa!NotBeforePromised'
  <2>1. Pa!PaceIsKept'
    BY <1>1, SetsStay DEF Pa!PaceInv, Pa!PaceIsKept
  <2> QED
    BY <1>1, <2>1, SetsStay, HoursStay DEF Pa!PaceInv, Pa!NotBeforePromised
<1>9. Pa!LaunchIsKept'
  <2>1. promise # Unset => \A t \in now' .. promise - 1 : t \in now .. promise - 1
    BY <1>1, <1>2, HeldSets
  <2> QED
    BY <1>1, <2>1, HoursStay DEF Pa!PaceInv, Pa!LaunchIsKept
<1> QED
  BY <1>4, <1>5, <1>6, <1>7, <1>8, <1>9, RoomAgain DEF Held, Pa!PaceInv

\* A message leaves in the room its job had, and makes none less for the others.
LEMMA FinishStep ==
  ASSUME Pa!PaceInv, NEW c \in Contacts, NEW how \in {"sent", "failed"}, Pa!Finish(c, how)
  PROVE  Pa!PaceInv'
<1>1. /\ taken = c /\ taken' = Unset
      /\ due' = [due EXCEPT ![c] = Unset]
      /\ outcome' = [outcome EXCEPT ![c] = how]
      /\ sentAt' = IF how = "sent" THEN [sentAt EXCEPT ![c] = now] ELSE sentAt
      /\ status' = status \/ status' = "completed"
      /\ again' = again \ {c}
      /\ UNCHANGED <<now, ahead, sendAfter, promise, plannedAt>>
  BY DEF Pa!Finish
<1>2. Held /\ RoomAfter
  BY RoomMeans DEF Pa!PaceInv, Held
<1>3. /\ now \in Nat /\ Day \in Nat /\ MailsPerDay \in Nat /\ Unset \notin Nat
      /\ due[c] # Unset /\ due[c] \in Nat /\ due[c] <= now
      /\ outcome[c] = "pending" /\ sentAt[c] = Unset /\ c \in Pa!Waiting /\ c \notin Pa!Sent
  <2>1. taken # Unset
    <3>1. PICK n \in Nat : Contacts = 1 .. n
      BY ContactsCount
    <3> QED
      BY <1>1, <3>1, PaceNumbers
  <2>2. due[c] # Unset /\ due[c] <= now /\ outcome[c] = "pending"
    BY <1>1, <1>2, <2>1 DEF Held, Pa!JobsAreHeld
  <2>3. sentAt[c] = Unset
    BY <1>2, <2>2 DEF Held, Pa!JobsAreHeld
  <2> QED
    BY <1>2, <2>2, <2>3, HeldSets, PaceNumbers DEF Pa!Waiting, Pa!Sent
<1>4. /\ due \in [Contacts -> Nat \cup {Unset}] /\ sentAt \in [Contacts -> Nat \cup {Unset}]
      /\ outcome \in [Contacts -> {"pending", "sent", "failed"}]
  BY <1>2 DEF Held, Pa!PaceTypes, Pa!Instants
<1>5. /\ Pa!Waiting' = Pa!Waiting \ {c}
      /\ how = "sent" => Pa!Sent' = Pa!Sent \cup {c}
      /\ how # "sent" => Pa!Sent' = Pa!Sent
  BY <1>1, <1>3, <1>4 DEF Pa!Waiting, Pa!Sent
<1>6. Held'
  BY <1>1, <1>2, <1>3, <1>4 DEF Held, Pa!PaceTypes, Pa!JobsAreHeld, Pa!Instants
<1>7. RoomFor(c, now)
  BY <1>2, <1>3 DEF RoomAfter
<1>8. ASSUME NEW t \in Nat, t >= now
      PROVE  Pa!SentSince(t)' \in SUBSET (Pa!SentSince(t) \cup {c})
             /\ (how # "sent" => Pa!SentSince(t)' = Pa!SentSince(t))
  BY <1>1, <1>4, <1>5 DEF Pa!SentSince
<1>9. \A x \in Contacts : Pa!UpTo(x)' = Pa!UpTo(x) \ {c}
  BY <1>5 DEF Pa!UpTo
<1>10. RoomAfter'
  <2>1. SUFFICES ASSUME NEW x \in Contacts, due'[x] # Unset,
                        NEW t \in Nat, t >= due'[x], t >= now'
                 PROVE  RoomFor(x, t)'
    BY DEF RoomAfter
  <2>2. x # c /\ due[x] # Unset /\ t >= due[x] /\ t >= now
    BY <1>1, <1>4, <2>1
  <2>3. RoomFor(x, t)
    BY <1>2, <2>2 DEF RoomAfter
  <2> DEFINE s0 == Pa!SentSince(t)
             w0 == Pa!UpTo(x)
  <2>4. /\ s0 \in SUBSET Contacts /\ w0 \in SUBSET Contacts
        /\ c \notin s0 /\ s0 \cup {c} \in SUBSET Contacts /\ w0 \ {c} \in SUBSET Contacts
        /\ Pa!SentSince(now) \in SUBSET Contacts /\ Pa!UpTo(c) \in SUBSET Contacts
        /\ c \in Pa!UpTo(c)
    <3>1. Pa!Sent \in SUBSET Contacts /\ Pa!Waiting \in SUBSET Contacts
      BY <1>2, HeldSets
    <3>2. c \in Nat /\ c <= c
      <4>1. PICK n \in Nat : Contacts = 1 .. n
        BY ContactsCount
      <4> QED
        BY <4>1
    <3> QED
      BY <1>3, <3>1, <3>2 DEF Pa!SentSince, Pa!UpTo
  <2> HIDE DEF s0, w0
  <2>5. /\ {Pa!Cardinality(s0), Pa!Cardinality(w0), Pa!Cardinality(w0 \ {c})} \subseteq Nat
        /\ {Pa!Cardinality(Pa!SentSince(now)), Pa!Cardinality(Pa!UpTo(c))} \subseteq Nat
        /\ Pa!Cardinality(s0 \cup {c}) = Pa!Cardinality(s0) + 1
        /\ Pa!Cardinality(w0 \ {c}) <= Pa!Cardinality(w0)
    BY <2>4, ContactsCount
  <2>6. /\ Pa!SentSince(t)' \in SUBSET (s0 \cup {c})
        /\ how # "sent" => Pa!SentSince(t)' = s0
        /\ Pa!UpTo(x)' = w0 \ {c}
    BY <1>8, <1>9, <2>2 DEF s0, w0
  <2>7. /\ Pa!Cardinality(Pa!SentSince(t)') \in Nat
        /\ Pa!Cardinality(Pa!SentSince(t)') <= Pa!Cardinality(s0) + 1
        /\ how # "sent" => Pa!Cardinality(Pa!SentSince(t)') = Pa!Cardinality(s0)
    <3>1. PICK s1 : s1 = Pa!SentSince(t)'
      OBVIOUS
    <3>2. s1 \in SUBSET (s0 \cup {c}) /\ s1 \in SUBSET Contacts
      BY <2>4, <2>6, <3>1
    <3>3. Pa!Cardinality(s1) \in Nat /\ Pa!Cardinality(s1) <= Pa!Cardinality(s0 \cup {c})
      BY <2>4, <3>2, ContactsCount
    <3> QED
      BY <2>5, <2>6, <3>1, <3>3
  <2>8. RoomFor(x, t)' <=>
          Pa!Cardinality(Pa!SentSince(t)') + Pa!Cardinality(w0 \ {c}) <= MailsPerDay + 1
    BY <2>6 DEF RoomFor
  <2>9. Pa!Cardinality(s0) + Pa!Cardinality(w0) <= MailsPerDay + 1
    BY <2>3 DEF RoomFor, s0, w0
  <2>10. CASE how # "sent"
    BY <1>3, <2>5, <2>7, <2>8, <2>9, <2>10
  <2>11. CASE c \in w0
    <3>1. Pa!Cardinality(w0 \ {c}) = Pa!Cardinality(w0) - 1
      <4>1. {c} \in SUBSET w0 /\ Pa!Cardinality({c}) = 1
        <5>1. c \in Contacts \ {} /\ {} \in SUBSET Contacts /\ {} \cup {c} = {c}
          OBVIOUS
        <5>2. Pa!Cardinality({} \cup {c}) = Pa!Cardinality({}) + 1 /\ Pa!Cardinality({}) = 0
          BY <5>1, ContactsCount, FS_EmptySet
        <5> QED
          BY <2>11, <5>1, <5>2
      <4> QED
        BY <2>4, <4>1, ContactsCount
    <3> QED
      BY <1>3, <2>5, <2>7, <2>8, <2>9, <3>1
  <2>12. CASE c \notin w0
    <3>1. w0 \in SUBSET Pa!UpTo(c) /\ w0 \cup {c} \in SUBSET Pa!UpTo(c)
      <4>1. PICK n \in Nat : Contacts = 1 .. n
        BY ContactsCount
      <4>2. x \in Nat /\ c \in Nat /\ x < c
        BY <1>3, <2>12, <4>1 DEF w0, Pa!UpTo
      <4>3. \A d \in w0 : d \in Pa!Waiting /\ d <= x /\ d \in Nat
        BY <2>4, <4>1 DEF w0, Pa!UpTo
      <4>4. \A d \in w0 : d \in Pa!Waiting /\ d <= c
        BY <4>2, <4>3
      <4> QED
        BY <2>4, <4>4 DEF Pa!UpTo
    <3>2. /\ Pa!Cardinality(w0 \cup {c}) = Pa!Cardinality(w0) + 1
          /\ Pa!Cardinality(w0 \cup {c}) <= Pa!Cardinality(Pa!UpTo(c))
      BY <2>4, <2>12, <3>1, ContactsCount
    <3>3. Pa!Cardinality(s0) <= Pa!Cardinality(Pa!SentSince(now))
      BY <1>2, <1>3, <2>2, SinceLess DEF s0
    <3>4. Pa!Cardinality(Pa!SentSince(now)) + Pa!Cardinality(Pa!UpTo(c)) <= MailsPerDay + 1
      BY <1>7 DEF RoomFor
    <3> QED
      BY <1>3, <2>5, <2>7, <2>8, <3>2, <3>3, <3>4
  <2> QED
    BY <2>10, <2>11, <2>12
<1>11. Pa!TimeIsKept'
  <2>1. ASSUME NEW x \in Pa!Waiting \ again, x # c
        PROVE  IF due'[x] = Unset \/ due'[x] <= now THEN plannedAt[x] = Unset \/ plannedAt[x] <= now
               ELSE plannedAt[x] = due'[x]
    <3>1. x \in Contacts /\ due'[x] = due[x]
      BY <1>1, <1>4, <2>1 DEF Pa!Waiting
    <3> QED
      BY <2>1, <3>1 DEF Pa!PaceInv, Pa!TimeIsKept, Pa!Passed
  <2> QED
    BY <1>1, <1>5, <2>1 DEF Pa!TimeIsKept, Pa!Passed
<1>12. \A x \in Contacts : due'[x] # Unset => due'[x] = due[x]
  BY <1>1, <1>4
<1>13. Pa!WrittenInHours' /\ Pa!QueuedInHours'
  BY <1>1, <1>12, HoursStay DEF Pa!PaceInv, Pa!WrittenInHours, Pa!QueuedInHours
<1>14. promise # Unset /\ promise \in Nat /\ status # "draft"
  BY <1>2, <1>3, HeldSets DEF Pa!PaceInv, Pa!LaunchIsKept
<1>15. Pa!LaunchIsKept'
  BY <1>1, <1>14, HoursStay DEF Pa!PaceInv, Pa!LaunchIsKept
<1>16. Pa!NotBeforePromised'
  <2>1. due[c] >= promise
    BY <1>3 DEF Pa!PaceInv, Pa!NotBeforePromised
  <2>2. now >= promise
    BY <1>3, <1>14, <2>1
  <2>3. \A s \in Pa!Sent' : sentAt'[s] >= promise
    <3>1. \A s \in Pa!Sent : sentAt[s] >= promise /\ s \in Contacts
      BY <1>2, HeldSets DEF Pa!PaceInv, Pa!NotBeforePromised
    <3> QED
      BY <1>1, <1>4, <1>5, <2>2, <3>1
  <2> QED
    BY <1>1, <1>12, <2>3, HoursStay DEF Pa!PaceInv, Pa!NotBeforePromised
<1>17. Pa!PaceIsKept'
  <2> DEFINE In(s) == {d \in Pa!Sent : sentAt[d] \in sentAt[s] - Day .. sentAt[s]}
  <2>1. CASE how # "sent"
    BY <1>1, <1>5, <2>1 DEF Pa!PaceInv, Pa!PaceIsKept
  <2>2. CASE how = "sent"
    <3>1. /\ sentAt' = [sentAt EXCEPT ![c] = now] /\ Pa!Sent' = Pa!Sent \cup {c}
          /\ Pa!Sent \in SUBSET Contacts
          /\ \A s \in Pa!Sent : sentAt[s] \in Nat /\ sentAt[s] <= now
      BY <1>1, <1>2, <1>5, <2>2, HeldSets
    <3>2. /\ sentAt'[c] = now /\ \A s \in Pa!Sent : sentAt'[s] = sentAt[s]
      BY <1>3, <1>4, <3>1
    <3>3. ASSUME NEW s \in Pa!Sent', sentAt'[s] = now
          PROVE  {d \in Pa!Sent' : sentAt'[d] \in sentAt'[s] - Day .. sentAt'[s]}
                   = Pa!SentSince(now) \cup {c}
      <4>1. \A d \in Pa!Sent : sentAt[d] \in now - Day .. now <=> sentAt[d] + Day >= now
        BY <1>3, <3>1
      <4>2. now \in now - Day .. now
        BY <1>3
      <4> QED
        BY <3>1, <3>2, <3>3, <4>1, <4>2 DEF Pa!SentSince
    <3>4. ASSUME NEW s \in Pa!Sent', sentAt'[s] # now
          PROVE  /\ s \in Pa!Sent
                 /\ {d \in Pa!Sent' : sentAt'[d] \in sentAt'[s] - Day .. sentAt'[s]} = In(s)
      <4>1. s \in Pa!Sent /\ sentAt'[s] = sentAt[s]
        BY <3>1, <3>2, <3>4
      <4>2. now \notin sentAt[s] - Day .. sentAt[s]
        BY <1>3, <3>1, <3>4, <4>1
      <4> QED
        BY <3>1, <3>2, <4>1, <4>2
    <3>5. Pa!Cardinality(Pa!SentSince(now) \cup {c}) <= MailsPerDay + 1
      <4>1. /\ Pa!SentSince(now) \in SUBSET Contacts /\ c \notin Pa!SentSince(now)
            /\ Pa!UpTo(c) \in SUBSET Contacts /\ Pa!UpTo(c) # {}
        <5>1. c \in Pa!UpTo(c)
          <6>1. PICK n \in Nat : Contacts = 1 .. n
            BY ContactsCount
          <6> QED
            BY <1>3, <6>1 DEF Pa!UpTo
        <5> QED
          BY <1>2, <1>3, <5>1, HeldSets DEF Pa!SentSince, Pa!UpTo
      <4>2. /\ Pa!Cardinality(Pa!SentSince(now) \cup {c}) = Pa!Cardinality(Pa!SentSince(now)) + 1
            /\ Pa!Cardinality(Pa!SentSince(now)) \in Nat /\ Pa!Cardinality(Pa!UpTo(c)) \in Nat
            /\ Pa!Cardinality(Pa!UpTo(c)) >= 1
        BY <4>1, ContactsCount
      <4> QED
        BY <1>3, <1>7, <4>2 DEF RoomFor
    <3>6. ASSUME NEW s \in Pa!Sent'
          PROVE  Pa!Cardinality({d \in Pa!Sent' : sentAt'[d] \in sentAt'[s] - Day .. sentAt'[s]})
                   <= MailsPerDay + 1
      <4>1. CASE sentAt'[s] = now
        BY <3>3, <3>5, <4>1
      <4>2. CASE sentAt'[s] # now
        BY <3>4, <4>2 DEF Pa!PaceInv, Pa!PaceIsKept
      <4> QED
        BY <4>1, <4>2
    <3> QED
      BY <3>6 DEF Pa!PaceIsKept
  <2> QED
    BY <2>1, <2>2
<1> QED
  BY <1>6, <1>10, <1>11, <1>13, <1>15, <1>16, <1>17, RoomAgain DEF Held, Pa!PaceInv

\* A plan queues in the hours, in the room there is and after the promise.
LEMMA PlanStep ==
  ASSUME Pa!PaceInv, NEW jitter \in Nat, NEW others, Pa!Plan(jitter, others)
  PROVE  Pa!PaceInv'
<1>1. PICK planned : planned = Pa!Planned(jitter, others)
  OBVIOUS
<1> DEFINE Named(c) == c \in DOMAIN planned
<1>2. /\ Pa!MayPlan /\ status' = "running"
      /\ UNCHANGED <<now, ahead, sendAfter, promise, outcome, taken, sentAt>>
      /\ due' = [c \in Contacts |-> IF Named(c) /\ due[c] = Unset THEN planned[c] ELSE due[c]]
      /\ plannedAt' = [c \in Contacts |->
              IF Named(c) /\ Pa!Passed(plannedAt[c]) THEN planned[c] ELSE plannedAt[c]]
      /\ again' = {c \in Contacts : IF Named(c) /\ Pa!Passed(plannedAt[c])
                                    THEN due[c] # Unset /\ Pa!Max({due[c], planned[c]}) > now
                                    ELSE c \in again}
  BY <1>1 DEF Pa!Plan
<1>3. Held /\ RoomAfter
  BY RoomMeans DEF Pa!PaceInv, Held
<1>4. ASSUME NEW c, Named(c)
      PROVE  /\ c \in Pa!Pending /\ c \in Contacts /\ c \in Pa!Waiting /\ outcome[c] = "pending"
             /\ planned[c] \in Nat /\ planned[c] >= now /\ Pa!InHours(planned[c])
             /\ RoomFor(c, planned[c])
  <2>1. /\ c \in Pa!Pending /\ planned[c] \in Nat /\ planned[c] >= now
        /\ Pa!InHours(planned[c]) /\ RoomFor(c, planned[c])
    BY <1>1, <1>2, <1>3, <1>4, PlannedIs
  <2> QED
    BY <1>3, <2>1, HeldSets DEF Pa!Waiting
<1> HIDE DEF Named
<1>5. /\ now \in Nat /\ Unset \notin Nat
      /\ due \in [Contacts -> Nat \cup {Unset}] /\ plannedAt \in [Contacts -> Nat \cup {Unset}]
  BY <1>3, PaceNumbers DEF Held, Pa!PaceTypes, Pa!Instants
<1>6. \A c \in Contacts :
        /\ due'[c] = IF Named(c) /\ due[c] = Unset THEN planned[c] ELSE due[c]
        /\ plannedAt'[c] = IF Named(c) /\ Pa!Passed(plannedAt[c]) THEN planned[c] ELSE plannedAt[c]
  BY <1>2
<1>7. /\ due' \in [Contacts -> Nat \cup {Unset}] /\ plannedAt' \in [Contacts -> Nat \cup {Unset}]
      /\ again' \in SUBSET Contacts
  BY <1>2, <1>4, <1>5
<1>8. Held'
  <2>1. Pa!PaceTypes'
    BY <1>2, <1>3, <1>7 DEF Held, Pa!PaceTypes, Pa!Instants
  <2>2. Pa!JobsAreHeld'
    BY <1>2, <1>3, <1>4, <1>6 DEF Held, Pa!JobsAreHeld
  <2> QED
    BY <2>1, <2>2 DEF Held
<1>9. RoomAfter'
  <2>1. SUFFICES ASSUME NEW c \in Contacts, due'[c] # Unset,
                        NEW t \in Nat, t >= due'[c], t >= now
                 PROVE  RoomFor(c, t)
    BY <1>2, SetsStay DEF RoomAfter
  <2>2. CASE due[c] # Unset
    BY <1>3, <1>6, <2>1, <2>2 DEF RoomAfter
  <2>3. CASE due[c] = Unset
    <3>1. Named(c) /\ due'[c] = planned[c]
      BY <1>6, <2>1, <2>3
    <3>2. PICK u \in Nat : u = planned[c]
      BY <1>4, <3>1
    <3>3. u <= t /\ RoomFor(c, u)
      BY <1>4, <2>1, <3>1, <3>2
    <3>4. /\ Pa!Cardinality(Pa!SentSince(t)) <= Pa!Cardinality(Pa!SentSince(u))
          /\ {Pa!Cardinality(Pa!SentSince(t)), Pa!Cardinality(Pa!SentSince(u))} \subseteq Nat
      BY <1>3, <3>3, SinceLess
    <3>5. Pa!Cardinality(Pa!UpTo(c)) \in Nat /\ MailsPerDay \in Nat
      BY <1>3, HeldSets, ContactsCount, PaceNumbers DEF Pa!UpTo
    <3> QED
      BY <3>3, <3>4, <3>5 DEF RoomFor
  <2> QED
    BY <2>2, <2>3
<1>10. Pa!TimeIsKept'
  <2>1. SUFFICES ASSUME NEW c \in Pa!Waiting, c \notin again'
                 PROVE  IF due'[c] = Unset \/ due'[c] <= now
                        THEN plannedAt'[c] = Unset \/ plannedAt'[c] <= now
                        ELSE plannedAt'[c] = due'[c]
    BY <1>2, SetsStay DEF Pa!TimeIsKept, Pa!Passed
  <2>2. c \in Contacts
    BY DEF Pa!Waiting
  <2>3. CASE Named(c) /\ Pa!Passed(plannedAt[c])
    <3>1. planned[c] \in Nat /\ plannedAt'[c] = planned[c]
      BY <1>4, <1>6, <2>2, <2>3
    <3>2. CASE due[c] = Unset
      <4>1. due'[c] = planned[c]
        BY <1>6, <2>2, <2>3, <3>2
      <4> QED
        BY <3>1, <4>1
    <3>3. CASE due[c] # Unset
      <4>1. due'[c] = due[c] /\ due[c] \in Nat
        BY <1>5, <1>6, <2>2, <3>3
      <4>2. ~(Pa!Max({due[c], planned[c]}) > now)
        BY <1>2, <2>1, <2>2, <2>3, <3>3
      <4>3. PICK a, b \in Nat : a = due[c] /\ b = planned[c]
        BY <3>1, <4>1
      <4>4. a <= now /\ b <= now
        BY <1>5, <4>2, <4>3, MaxOfTwo
      <4> QED
        BY <3>1, <4>1, <4>3, <4>4
    <3> QED
      BY <3>2, <3>3
  <2>4. CASE ~(Named(c) /\ Pa!Passed(plannedAt[c]))
    <3>1. c \notin again /\ plannedAt'[c] = plannedAt[c]
      BY <1>2, <1>6, <2>1, <2>2, <2>4
    <3>2. IF due[c] = Unset \/ due[c] <= now THEN plannedAt[c] = Unset \/ plannedAt[c] <= now
          ELSE plannedAt[c] = due[c]
      BY <2>1, <3>1 DEF Pa!PaceInv, Pa!TimeIsKept, Pa!Passed
    <3>3. due'[c] = due[c]
      <4>1. CASE due[c] = Unset
        BY <1>6, <2>2, <2>4, <3>2, <4>1 DEF Pa!Passed
      <4>2. CASE due[c] # Unset
        BY <1>6, <2>2, <4>2
      <4> QED
        BY <4>1, <4>2
    <3> QED
      BY <3>1, <3>2, <3>3
  <2> QED
    BY <2>3, <2>4
<1>11. Pa!WrittenInHours' /\ Pa!QueuedInHours'
  <2>1. /\ \A c \in Contacts : due[c] # Unset => Pa!InHours(due[c])
        /\ \A c \in Contacts : plannedAt[c] # Unset => Pa!InHours(plannedAt[c])
    BY DEF Pa!PaceInv, Pa!WrittenInHours, Pa!QueuedInHours
  <2>2. \A c \in Contacts : /\ due'[c] # Unset => Pa!InHours(due'[c])
                            /\ plannedAt'[c] # Unset => Pa!InHours(plannedAt'[c])
    BY <1>4, <1>6, <2>1
  <2> QED
    BY <1>2, <2>2, HoursStay DEF Pa!WrittenInHours, Pa!QueuedInHours
<1>12. promise # Unset /\ promise \in Nat /\ promise <= now
  <2>1. promise # Unset /\ promise \in Nat
    <3>1. status # "draft"
      BY <1>2 DEF Pa!MayPlan
    <3> QED
      BY <1>3, <3>1, HeldSets DEF Pa!PaceInv, Pa!LaunchIsKept
  <2>2. ~(now < promise)
    <3>1. SUFFICES ASSUME now < promise PROVE FALSE
      OBVIOUS
    <3>2. now \in now .. promise - 1
      BY <1>5, <2>1, <3>1
    <3>3. sendAfter # Unset /\ sendAfter > now
      BY <1>2, <2>1, <3>2 DEF Pa!PaceInv, Pa!LaunchIsKept, Pa!MayPlan
    <3>4. sendAfter \in Nat /\ sendAfter <= now
      BY <1>2, <1>3, <3>3, HeldSets DEF Pa!MayPlan
    <3> QED
      BY <1>5, <3>3, <3>4
  <2> QED
    BY <1>5, <2>1, <2>2
<1>13. Pa!LaunchIsKept'
  <2>1. promise' # Unset /\ status' # "draft" /\ now' .. promise' - 1 \subseteq now .. promise - 1
    BY <1>2, <1>12
  <2>2. /\ \A t \in now .. promise - 1 : Pa!InHours(t) => sendAfter # Unset /\ sendAfter > t
        /\ sendAfter \in {promise, Unset}
    BY <1>12 DEF Pa!PaceInv, Pa!LaunchIsKept
  <2> QED
    BY <1>2, <2>1, <2>2, HoursStay DEF Pa!LaunchIsKept
<1>14. Pa!PaceIsKept'
  BY <1>2, SetsStay DEF Pa!PaceInv, Pa!PaceIsKept
<1>15. Pa!NotBeforePromised'
  <2>1. \A c \in Contacts : due'[c] # Unset => due'[c] >= promise
    <3>1. ASSUME NEW c \in Contacts, due'[c] # Unset PROVE due'[c] >= promise
      <4>1. CASE due[c] # Unset
        BY <1>6, <3>1, <4>1 DEF Pa!PaceInv, Pa!NotBeforePromised
      <4>2. CASE due[c] = Unset
        <5>1. due'[c] = planned[c] /\ planned[c] \in Nat /\ planned[c] >= now
          BY <1>4, <1>6, <3>1, <4>2
        <5> QED
          BY <1>5, <1>12, <5>1
      <4> QED
        BY <4>1, <4>2
    <3> QED
      BY <3>1
  <2> QED
    BY <1>2, <2>1, SetsStay, HoursStay DEF Pa!PaceInv, Pa!NotBeforePromised
<1> QED
  BY <1>8, <1>9, <1>10, <1>11, <1>13, <1>14, <1>15, RoomAgain DEF Held, Pa!PaceInv

\* The invariant holds at first.
LEMMA PaceStarts == Pa!Init => Pa!PaceInv
<1> SUFFICES ASSUME Pa!Init PROVE Pa!PaceInv
  OBVIOUS
<1>1. /\ now = 0 /\ ahead \in After /\ status = "draft" /\ sendAfter = Unset /\ promise = Unset
      /\ \A c \in Contacts : /\ outcome[c] = "pending" /\ due[c] = Unset
                             /\ plannedAt[c] = Unset /\ sentAt[c] = Unset
      /\ taken = Unset
  BY DEF Pa!Init
<1>2. Pa!PaceTypes
  BY DEF Pa!Init, Pa!PaceTypes, Pa!Instants
<1>3. Pa!Sent = {}
  BY <1>1 DEF Pa!Sent
<1> QED
  BY <1>1, <1>2, <1>3
     DEF Pa!PaceInv, Pa!JobsAreHeld, Pa!RoomIsLeft, Pa!TimeIsKept, Pa!Passed, Pa!WrittenInHours,
         Pa!LaunchIsKept, Pa!QueuedInHours, Pa!PaceIsKept, Pa!NotBeforePromised, Pa!Waiting

\* Every step keeps it.
LEMMA PaceSteps == Pa!PaceInv /\ [Pa!Next]_paceVars => Pa!PaceInv'
<1> SUFFICES ASSUME Pa!PaceInv, [Pa!Next]_paceVars PROVE Pa!PaceInv'
  OBVIOUS
<1>1. \A jitter \in Pa!Jitter : jitter \in Nat
  <2>1. Pause \in Nat /\ Pause \div 5 \in Int
    BY PaceNumbers
  <2> QED
    BY <2>1 DEF Pa!Jitter
<1>2. CASE \E jitter \in Pa!Jitter, others \in Others : Pa!Plan(jitter, others)
  BY <1>1, <1>2, PlanStep
<1>3. CASE \E c \in Contacts, how \in {"sent", "failed"} : Pa!Finish(c, how)
  BY <1>3, FinishStep
<1> QED
  BY <1>2, <1>3, QuietSteps, LaunchStep, TickStep DEF Pa!Next

-----------------------------------------------------------------------------
(* What is announced.                                                      *)

\* What insideWindow gives is in the hours, and not before.
LEMMA InsideIs ==
  ASSUME ahead \in After, NEW t \in Nat
  PROVE  /\ Pa!InsideWindow(t) \in Nat /\ Pa!InsideWindow(t) >= t
         /\ Pa!InHours(Pa!InsideWindow(t))
BY NextOpeningIs, OpeningIs DEF Pa!InsideWindow

\* The next send is announced in the hours, and not before now.
LEMMA NextIs ==
  ASSUME Pa!PaceInv, Pa!Waiting # {}
  PROVE  /\ Pa!NextSendAt \in Nat /\ Pa!NextSendAt >= now /\ Pa!InHours(Pa!NextSendAt)
<1>1. Held /\ now \in Nat /\ ahead \in After
  BY HeldSets DEF Pa!PaceInv, Held
<1> DEFINE planned == {plannedAt[c] : c \in Pa!Waiting} \ {Unset}
           coming  == {t \in planned : t >= now}
<1>2. CASE coming # {}
  <2>1. \A t \in planned : t \in Nat /\ Pa!InHours(t)
    BY <1>1, HeldSets DEF Pa!PaceInv, Pa!WrittenInHours
  <2>2. coming \in SUBSET Nat
    BY <2>1
  <2>3. Pa!Min(coming) \in coming
    <3> HIDE DEF coming
    <3> QED
      BY <1>2, <2>2, MinIs
  <2>4. Pa!NextSendAt = Pa!Min(coming)
    BY <1>2 DEF Pa!NextSendAt
  <2>5. PICK t \in coming : t = Pa!NextSendAt
    BY <2>3, <2>4
  <2> QED
    BY <2>1, <2>5
<1>3. CASE coming = {}
  <2> DEFINE from == IF sendAfter # Unset /\ sendAfter > now THEN sendAfter ELSE now
             last == Pa!Max({sentAt[c] : c \in Pa!Sent})
  <2>1. Pa!NextSendAt = Pa!NextByRule
    BY <1>3 DEF Pa!NextSendAt
  <2>2. from \in Nat /\ from >= now
    BY <1>1, HeldSets
  <2>3. CASE Pa!Cardinality(Pa!InDay) >= MailsPerDay
    <3>1. 1 \in 1 .. Pa!Cardinality(Pa!InDay)
      <4>1. Pa!Cardinality(Pa!InDay) \in Nat
        BY <1>1, HeldSets, ContactsCount
      <4> QED
        BY <2>3, <4>1, PaceNumbers
    <3>2. PICK c \in Pa!InDay : Pa!Frees(1) = sentAt[c] + Day /\ Pa!Frees(1) \in Nat
      BY <1>1, <3>1, FreesIs
    <3>3. Pa!Frees(1) >= now
      BY <1>1, <3>2, HeldSets
    <3>4. Pa!NextByRule = Pa!InsideWindow(Pa!Frees(1))
      BY <2>3 DEF Pa!NextByRule
    <3>5. PICK f \in Nat : f = Pa!Frees(1)
      BY <3>2
    <3>6. /\ Pa!InsideWindow(f) \in Nat /\ Pa!InsideWindow(f) >= f /\ Pa!InHours(Pa!InsideWindow(f))
      BY <1>1, InsideIs
    <3> QED
      BY <1>1, <2>1, <3>3, <3>4, <3>5, <3>6
  <2>4. CASE ~(Pa!Cardinality(Pa!InDay) >= MailsPerDay)
    <3> DEFINE at == IF Pa!Sent = {} THEN from ELSE Pa!Max({from, last + Pause})
    <3>1. Pa!NextByRule = Pa!InsideWindow(at)
      BY <2>4 DEF Pa!NextByRule
    <3>2. at \in Nat /\ at >= now
      <4>1. CASE Pa!Sent = {}
        BY <2>2, <4>1
      <4>2. CASE Pa!Sent # {}
        <5> DEFINE sent == {sentAt[c] : c \in Pa!Sent}
        <5>1. sent \in SUBSET (0 .. now) /\ sent # {}
          BY <1>1, <4>2, HeldSets
        <5>2. Pa!Max(sent) \in sent
          <6> HIDE DEF sent
          <6> QED
            BY <1>1, <5>1, MaxIs
        <5>3. last \in Nat /\ Pause \in Nat
          BY <5>1, <5>2, PaceNumbers
        <5> HIDE DEF from, last
        <5>4. at = IF from >= last + Pause THEN from ELSE last + Pause
          BY <2>2, <4>2, <5>3, MaxOfTwo
        <5> QED
          BY <1>1, <2>2, <5>3, <5>4
      <4> QED
        BY <4>1, <4>2
    <3> HIDE DEF at
    <3>3. /\ Pa!InsideWindow(at) \in Nat /\ Pa!InsideWindow(at) >= at
          /\ Pa!InHours(Pa!InsideWindow(at))
      BY <1>1, <3>2, InsideIs
    <3> QED
      BY <1>1, <2>1, <3>1, <3>2, <3>3
  <2> QED
    BY <2>3, <2>4
<1> QED
  BY <1>2, <1>3

\* What the definition of AddSendDays computes, as far as k.
Added(f, from, k) ==
  f = [i \in 0 .. k |->
         IF i = 0 THEN from
         ELSE Pa!NextOpening(Pa!AtLocalHour(Pa!LocalDay(f[i - 1] + Day), StartHour))]

\* The openings can be told one after the other, as many as there are.
LEMMA AddedExists ==
  ASSUME NEW from, NEW k \in Nat
  PROVE  \E f : Added(f, from, k)
<1> DEFINE bad == {i \in Nat : ~ \E f : Added(f, from, i)}
           Then(t) == Pa!NextOpening(Pa!AtLocalHour(Pa!LocalDay(t + Day), StartHour))
<1>1. SUFFICES ASSUME bad # {} PROVE FALSE
  OBVIOUS
<1>2. PICK i \in bad : \A j \in bad : i <= j
  <2>1. bad \in SUBSET Nat
    OBVIOUS
  <2> HIDE DEF bad
  <2> QED
    BY <1>1, <2>1, LeastOf
<1>3. i # 0
  <2> DEFINE f == [j \in 0 .. 0 |-> from]
  <2>1. f = [j \in 0 .. 0 |-> IF j = 0 THEN from ELSE Then(f[j - 1])]
    <3> HIDE DEF Then
    <3> QED
      OBVIOUS
  <2>2. Added(f, from, 0)
    BY <2>1 DEF Added
  <2> QED
    BY <1>2, <2>2
<1>4. i \in Nat /\ i - 1 \in Nat
  BY <1>2, <1>3
<1>5. PICK f : Added(f, from, i - 1)
  <2>1. i - 1 \notin bad
    BY <1>2, <1>4
  <2> QED
    BY <1>4, <2>1
<1> DEFINE g == [j \in 0 .. i |-> IF j = i THEN Then(f[i - 1]) ELSE f[j]]
<1>6. \A j \in 0 .. i - 1 : f[j] = IF j = 0 THEN from ELSE Then(f[j - 1])
  BY <1>5 DEF Added
<1> HIDE DEF Then
<1>7. ASSUME NEW j \in 0 .. i PROVE g[j] = IF j = 0 THEN from ELSE Then(g[j - 1])
  <2>1. CASE j = i
    <3>1. j - 1 \in 0 .. i /\ j - 1 # i /\ j # 0
      BY <1>3, <1>4, <2>1
    <3> QED
      BY <2>1, <3>1
  <2>2. CASE j # i
    <3>1. j \in 0 .. i - 1 /\ (j # 0 => j - 1 \in 0 .. i /\ j - 1 # i)
      BY <1>4, <2>2
    <3> QED
      BY <1>6, <2>2, <3>1
  <2> QED
    BY <2>1, <2>2
<1>8. g = [j \in 0 .. i |-> IF j = 0 THEN from ELSE Then(g[j - 1])]
  <2>1. g = [j \in 0 .. i |-> g[j]]
    OBVIOUS
  <2> HIDE DEF g
  <2> QED
    BY <1>7, <2>1
<1>9. Added(g, from, i)
  <2> HIDE DEF g
  <2> QED
    BY <1>8 DEF Added, Then
<1> QED
  BY <1>2, <1>9

\* A day after an instant of the hours is in a later day.
LEMMA DayOn ==
  ASSUME ahead \in After, NEW t \in Nat, Pa!LocalHour(t) \in StartHour .. LastHour
  PROVE  Pa!LocalDay(t) < Pa!LocalDay(t + Day)
<1> DEFINE u == t + Day
           d == Pa!LocalDay(t)
           e == Pa!LocalDay(u)
<1>1. /\ {ChangesAt, Before, ahead, Day, StartHour, LastHour, t, u} \subseteq Nat /\ Day > 0
      /\ Before - ahead <= StartHour
  BY PaceNumbers, ClocksChange
<1>2. /\ d \in Int /\ e \in Int /\ Pa!Local(t) = d * Day + Pa!LocalHour(t)
      /\ Pa!Local(u) = e * Day + Pa!LocalHour(u) /\ Pa!LocalHour(u) \in 0 .. Day - 1
      /\ t < ChangesAt => Pa!Local(t) = t + Before
      /\ t >= ChangesAt => Pa!Local(t) = t + ahead
      /\ u < ChangesAt => Pa!Local(u) = u + Before
      /\ u >= ChangesAt => Pa!Local(u) = u + ahead
      /\ {Pa!Local(t), Pa!Local(u)} \subseteq Int
  BY <1>1, LocalIs
<1>3. Pa!Local(u) >= Pa!Local(t) + Day - StartHour
  BY <1>1, <1>2
<1> HIDE DEF u, d, e
<1>4. CASE e <= d
  <2>1. e * Day <= d * Day /\ {d * Day, e * Day} \subseteq Int
    BY <1>1, <1>2, <1>4, Multiples
  <2> QED
    BY <1>1, <1>2, <1>3, <2>1
<1> QED
  BY <1>2, <1>4 DEF u, d, e

\* So many sending days later, it is so many days later at least.
LEMMA AddIs ==
  ASSUME ahead \in After, NEW from \in Nat, Pa!InHours(from), NEW days \in Nat
  PROVE  LET at == Pa!AddSendDays(from, days)
         IN  at \in Nat /\ at >= from /\ Pa!InHours(at)
             /\ Pa!LocalDay(at) >= Pa!LocalDay(from) + days
<1> DEFINE f == CHOOSE f : f = [k \in 0 .. days |->
              IF k = 0 THEN from
              ELSE Pa!NextOpening(Pa!AtLocalHour(Pa!LocalDay(f[k - 1] + Day), StartHour))]
<1>1. Pa!AddSendDays(from, days) = f[days]
  BY DEF Pa!AddSendDays
<1>2. Added(f, from, days)
  <2>1. \A g : Added(g, from, days) <=> g = [k \in 0 .. days |->
             IF k = 0 THEN from
             ELSE Pa!NextOpening(Pa!AtLocalHour(Pa!LocalDay(g[k - 1] + Day), StartHour))]
    BY DEF Added
  <2>2. \E g : Added(g, from, days)
    BY AddedExists
  <2>3. \E g : g = [k \in 0 .. days |->
             IF k = 0 THEN from
             ELSE Pa!NextOpening(Pa!AtLocalHour(Pa!LocalDay(g[k - 1] + Day), StartHour))]
    BY <2>1, <2>2
  <2>4. f = [k \in 0 .. days |->
             IF k = 0 THEN from
             ELSE Pa!NextOpening(Pa!AtLocalHour(Pa!LocalDay(f[k - 1] + Day), StartHour))]
    BY <2>3
  <2> HIDE DEF f
  <2> QED
    BY <2>1, <2>4
<1> HIDE DEF f
<1>3. \A k \in 0 .. days : f[k] =
        IF k = 0 THEN from
        ELSE Pa!NextOpening(Pa!AtLocalHour(Pa!LocalDay(f[k - 1] + Day), StartHour))
  BY <1>2 DEF Added
<1> DEFINE Fine(k) == /\ f[k] \in Nat /\ f[k] >= from /\ Pa!InHours(f[k])
                      /\ Pa!LocalDay(f[k]) >= Pa!LocalDay(from) + k
           bad     == {k \in 0 .. days : ~Fine(k)}
<1>4. Fine(0)
  <2>1. f[0] = from /\ Pa!LocalDay(from) \in Nat
    BY <1>3, LocalDayIsNat
  <2> QED
    BY <2>1
<1>5. ASSUME NEW k \in 0 .. days, k # 0, Fine(k - 1) PROVE Fine(k)
  <2>1. PICK t \in Nat : t = f[k - 1]
    BY <1>5
  <2> DEFINE e == Pa!LocalDay(t + Day)
  <2>2. /\ Pa!LocalHour(t) \in StartHour .. LastHour /\ t >= from
        /\ Pa!LocalDay(t) >= Pa!LocalDay(from) + (k - 1)
    BY <1>5, <2>1 DEF Pa!InHours
  <2>3. /\ Pa!LocalDay(t) \in Nat /\ Pa!LocalDay(from) \in Nat /\ e \in Nat
        /\ Pa!LocalDay(t) < e
    BY <2>2, DayOn, LocalDayIsNat, PaceNumbers
  <2> HIDE DEF e
  <2>4. /\ Opens(e) \in Int /\ Pa!LocalDay(Opens(e)) = e /\ Pa!LocalHour(Opens(e)) \in Steady
    BY <2>3, OpensAt
  <2>5. t < Opens(e)
    BY <2>3, <2>4, DaysInOrder
  <2>6. PICK o \in Nat : o = Opens(e)
    BY <2>4, <2>5
  <2>7. f[k] = Opening(o)
    <3>1. f[k] = Pa!NextOpening(o)
      BY <1>3, <1>5, <2>1, <2>6 DEF Opens, e
    <3> QED
      BY <3>1, NextOpeningIs
  <2>8. /\ Opening(o) \in Nat /\ Opening(o) >= o /\ Pa!InHours(Opening(o))
        /\ Pa!LocalDay(Opening(o)) >= Pa!LocalDay(o)
    <3>1. Pa!LocalDay(o) \in Nat /\ Pa!LocalDay(Opening(o)) \in Pa!LocalDay(o) .. Pa!LocalDay(o) + 2
      BY OpeningIs, LocalDayIsNat
    <3> QED
      BY <3>1, OpeningIs
  <2>9. f[k] \in Nat /\ f[k] >= from /\ Pa!InHours(f[k])
    BY <2>2, <2>5, <2>6, <2>7, <2>8
  <2>10. Pa!LocalDay(f[k]) >= Pa!LocalDay(from) + k
    <3>1. Pa!LocalDay(f[k]) >= e /\ Pa!LocalDay(f[k]) \in Nat
      BY <2>4, <2>6, <2>7, <2>8, LocalDayIsNat
    <3> QED
      BY <2>2, <2>3, <3>1
  <2> QED
    BY <2>9, <2>10
<1>6. bad = {}
  <2>1. SUFFICES ASSUME bad # {} PROVE FALSE
    OBVIOUS
  <2>2. PICK k \in bad : \A j \in bad : k <= j
    <3>1. bad \in SUBSET Nat
      OBVIOUS
    <3> HIDE DEF bad
    <3> QED
      BY <2>1, <3>1, LeastOf
  <2>3. k \in 0 .. days /\ k # 0 /\ ~Fine(k)
    BY <1>4, <2>2
  <2>4. k - 1 \in 0 .. days /\ k - 1 < k
    BY <2>3
  <2>5. Fine(k - 1)
    BY <2>2, <2>4
  <2> HIDE DEF Fine
  <2> QED
    BY <1>5, <2>3, <2>5
<1>7. Fine(days)
  <2>1. days \in 0 .. days
    OBVIOUS
  <2> HIDE DEF Fine
  <2> QED
    BY <1>6, <2>1
<1> QED
  BY <1>1, <1>7
\* How many lots of d it takes for n.
LEMMA Lots ==
  ASSUME NEW n \in Nat, NEW d \in Nat, d > 0, NEW q \in Int, q = (n + d - 1) \div d
  PROVE  /\ q \in Nat /\ n <= q * d /\ q * d \in Int
         /\ (q - 1) * d = q * d - d /\ (q - 1) * d <= n - 1
<1> DEFINE x == n + d - 1
<1>1. x \in Nat
  OBVIOUS
<1>2. /\ x \div d \in Int /\ x % d \in 0 .. d - 1 /\ x = (x \div d) * d + (x % d)
  <2> HIDE DEF x
  <2> QED
    BY <1>1, Divides
<1>3. q * d \in Int /\ (q - 1) * d \in Int /\ ((q - 1) + 1) * d = (q - 1) * d + d
  <2>1. q - 1 \in Int
    OBVIOUS
  <2> QED
    BY <2>1, Multiples
<1>4. PICK r \in 0 .. d - 1 : n + d - 1 = q * d + r
  BY <1>2
<1>5. (q - 1) + 1 = q
  OBVIOUS
<1>6. n <= q * d /\ (q - 1) * d = q * d - d /\ (q - 1) * d <= n - 1
  BY <1>3, <1>4, <1>5
<1>7. q >= 0
  <2>1. SUFFICES ASSUME q < 0 PROVE FALSE
    OBVIOUS
  <2>2. q * d + d <= 0 * d
    BY <2>1, Multiples
  <2> QED
    BY <1>3, <1>6, <2>2
<1> QED
  BY <1>3, <1>6, <1>7

\* As many lots of the pace as the page counts, and one of them may be begun already.
LEMMA DaysAreEnough ==
  ASSUME NEW waiting \in Nat, NEW first \in Nat, NEW pace \in Nat, pace > 0,
         waiting > 0, first <= waiting, first <= pace,
         NEW extra \in Int, extra = ((waiting - first) + pace - 1) \div pace,
         NEW days \in Int, days = (waiting + pace - 1) \div pace
  PROVE  extra \in Nat /\ days \in Nat /\ days - 1 <= extra
<1>1. waiting - first \in Nat
  OBVIOUS
<1>2. /\ extra \in Nat /\ waiting - first <= extra * pace /\ extra * pace \in Int
  BY <1>1, Lots
<1>3. days \in Nat /\ (days - 1) * pace <= waiting - 1
  BY Lots
<1>4. (extra + 1) * pace = extra * pace + pace
  BY <1>2, Multiples
<1>5. CASE days - 1 > extra
  <2>1. days - 1 \in Int /\ extra + 1 \in Int /\ extra + 1 <= days - 1
    BY <1>2, <1>3, <1>5
  <2>2. (extra + 1) * pace <= (days - 1) * pace
    BY <2>1, Multiples
  <2>3. (days - 1) * pace \in Int
    BY <2>1, Multiples
  <2> QED
    BY <1>2, <1>3, <1>4, <2>2, <2>3
<1> QED
  BY <1>2, <1>3, <1>5

\* Some pauses after an instant of the hours, it is no earlier a day.
LEMMA PausesLater ==
  ASSUME ahead \in After, NEW t \in Nat, Pa!InHours(t), NEW n \in Nat, NEW gap \in Nat
  PROVE  /\ t + n * gap \in Nat /\ t + n * gap >= t
         /\ Pa!LocalDay(t + n * gap) >= Pa!LocalDay(t)
<1>1. n * gap \in Nat
  OBVIOUS
<1>2. PICK u \in Nat : u = t + n * gap /\ u >= t
  BY <1>1
<1>3. Pa!LocalHour(t) \in Steady
  BY DEF Pa!InHours, Steady
<1>4. Pa!LocalDay(t) <= Pa!LocalDay(u)
  BY <1>2, <1>3, DaysGoOn
<1>5. Pa!LocalDay(t) \in Nat /\ Pa!LocalDay(u) \in Nat
  BY LocalDayIsNat
<1> QED
  BY <1>2, <1>4, <1>5

\* The end is announced no earlier than the next send, nor than the day the page counts.
LEMMA EndIs ==
  ASSUME Pa!PaceInv, Pa!Waiting # {}
  PROVE  /\ Pa!EstimatedEnd >= Pa!NextSendAt
         /\ Pa!LocalDay(Pa!EstimatedEnd) >= Pa!LastDay
<1>1. Held /\ now \in Nat /\ ahead \in After
  BY HeldSets DEF Pa!PaceInv, Held
<1>2. PICK waiting \in Nat : waiting = Pa!Cardinality(Pa!Waiting) /\ waiting > 0
  BY <1>1, HeldSets, ContactsCount
<1>3. PICK next \in Nat : next = Pa!NextSendAt /\ next >= now /\ Pa!InHours(next)
  BY NextIs
<1>4. MailsPerDay \in Nat /\ MailsPerDay > 0 /\ Pause \in Nat
  BY PaceNumbers
<1>5. PICK gap \in Nat : gap = (Pause * 11) \div 10
  <2>1. Pause * 11 \in Nat
    BY <1>4
  <2>2. PICK x \in Nat : x = Pause * 11
    BY <2>1
  <2>3. x \div 10 \in Int /\ x % 10 \in 0 .. 9 /\ x = (x \div 10) * 10 + (x % 10)
    BY Divides
  <2>4. x \div 10 >= 0
    BY <2>3
  <2> QED
    BY <2>2, <2>3, <2>4
<1> DEFINE left == MailsPerDay - Pa!Cardinality(Pa!InDay)
<1>6. PICK first \in Nat :
        /\ first = Pa!Min({waiting, IF left > 0 THEN left ELSE MailsPerDay})
        /\ first > 0 /\ first <= waiting /\ first <= MailsPerDay
  <2>1. Pa!Cardinality(Pa!InDay) \in Nat
    BY <1>1, HeldSets, ContactsCount
  <2>2. PICK most \in Nat : /\ most = IF left > 0 THEN left ELSE MailsPerDay
                            /\ most > 0 /\ most <= MailsPerDay
    BY <1>4, <2>1
  <2>3. Pa!Min({waiting, most}) = IF waiting <= most THEN waiting ELSE most
    BY MinOfTwo
  <2>4. Pa!Min({waiting, IF left > 0 THEN left ELSE MailsPerDay}) = Pa!Min({waiting, most})
    BY <2>2
  <2> QED
    BY <1>2, <1>4, <2>2, <2>3, <2>4
<1>7. PICK extra \in Nat : extra = ((waiting - first) + MailsPerDay - 1) \div MailsPerDay
  <2>1. (waiting - first) + MailsPerDay - 1 \in Int
    BY <1>4, <1>6
  <2>2. ((waiting - first) + MailsPerDay - 1) \div MailsPerDay \in Int
    BY <1>4, <2>1, Divides
  <2>3. waiting - first \in Nat
    BY <1>6
  <2> QED
    BY <1>4, <2>2, <2>3, Lots
<1>8. Pa!DaysLeft \in Nat /\ Pa!DaysLeft - 1 <= extra
  <2>1. waiting + MailsPerDay - 1 \in Int
    BY <1>4
  <2>2. PICK days \in Int : days = (waiting + MailsPerDay - 1) \div MailsPerDay
    BY <1>4, <2>1, Divides
  <2>3. Pa!DaysLeft = days
    BY <1>2, <2>2 DEF Pa!DaysLeft
  <2> QED
    BY <1>2, <1>4, <1>6, <1>7, <2>2, <2>3, DaysAreEnough
<1>9. /\ Pa!LocalDay(now) \in Nat /\ Pa!LocalDay(next) \in Nat
      /\ Pa!LocalDay(now) <= Pa!LocalDay(next)
  <2>1. Pa!LocalHour(next) \in Steady
    BY <1>3 DEF Pa!InHours, Steady
  <2> QED
    BY <1>1, <1>3, <2>1, DaysGoOn, LocalDayIsNat
<1>10. Pa!EstimatedEnd =
         IF waiting - first = 0 THEN next + (first - 1) * gap
         ELSE Pa!AddSendDays(next, extra)
              + ((waiting - first) - (extra - 1) * MailsPerDay - 1) * gap
  BY <1>2, <1>3, <1>5, <1>6, <1>7 DEF Pa!EstimatedEnd
<1>11. CASE waiting - first = 0
  <2>1. PICK n \in Nat : n = first - 1
    BY <1>6
  <2>2. /\ next + n * gap \in Nat /\ next + n * gap >= next
        /\ Pa!LocalDay(next + n * gap) >= Pa!LocalDay(next)
    BY <1>1, <1>3, PausesLater
  <2>3. PICK u \in Nat : u = next + n * gap
    BY <2>2
  <2>4. Pa!EstimatedEnd = u
    BY <1>10, <1>11, <2>1, <2>3
  <2>5. Pa!DaysLeft <= 1
    <3>1. extra = 0
      <4>1. extra = (MailsPerDay - 1) \div MailsPerDay
        BY <1>4, <1>7, <1>11
      <4>2. (0 * MailsPerDay + (MailsPerDay - 1)) \div MailsPerDay = 0
        <5>1. MailsPerDay - 1 \in 0 .. MailsPerDay - 1
          BY <1>4
        <5> QED
          BY <1>4, <5>1, DividedOnce
      <4>3. 0 * MailsPerDay + (MailsPerDay - 1) = MailsPerDay - 1
        BY <1>4
      <4> QED
        BY <4>1, <4>2, <4>3
    <3> QED
      BY <1>8, <3>1
  <2>6. Pa!LocalDay(u) \in Nat
    BY <1>1, LocalDayIsNat
  <2>7. Pa!LastDay <= Pa!LocalDay(now)
    BY <1>8, <1>9, <2>5 DEF Pa!LastDay
  <2>8. Pa!LastDay \in Int
    BY <1>8, <1>9 DEF Pa!LastDay
  <2> QED
    BY <1>3, <1>9, <2>2, <2>3, <2>4, <2>6, <2>7, <2>8
<1>12. CASE waiting - first # 0
  <2>1. PICK rest \in Nat : rest = waiting - first
    BY <1>6
  <2>2. PICK n \in Nat : n = rest - (extra - 1) * MailsPerDay - 1
    <3>1. (extra - 1) * MailsPerDay <= rest - 1
      BY <1>4, <1>7, <2>1, Lots
    <3>2. (extra - 1) * MailsPerDay \in Int
      BY <1>4, <1>7, Multiples
    <3> QED
      BY <2>1, <3>1, <3>2
  <2>3. PICK at \in Nat : /\ at = Pa!AddSendDays(next, extra) /\ at >= next /\ Pa!InHours(at)
                          /\ Pa!LocalDay(at) >= Pa!LocalDay(next) + extra
    BY <1>1, <1>3, AddIs
  <2>4. /\ at + n * gap \in Nat /\ at + n * gap >= at
        /\ Pa!LocalDay(at + n * gap) >= Pa!LocalDay(at)
    BY <1>1, <2>3, PausesLater
  <2>5. PICK u \in Nat : u = at + n * gap
    BY <2>4
  <2>6. Pa!EstimatedEnd = u
    BY <1>10, <1>12, <2>1, <2>2, <2>3, <2>5
  <2>7. Pa!LocalDay(u) \in Nat /\ Pa!LocalDay(at) \in Nat
    BY <1>1, LocalDayIsNat
  <2>8. Pa!LastDay <= Pa!LocalDay(now) + extra /\ Pa!LastDay \in Int
    BY <1>8, <1>9 DEF Pa!LastDay
  <2> QED
    BY <1>3, <1>9, <2>3, <2>4, <2>5, <2>6, <2>7, <2>8
<1> QED
  BY <1>11, <1>12

\* A plan that found nothing is made again in the hours.
LEMMA RetryIs ==
  ASSUME Pa!PaceInv, status \in {"scheduled", "running"}
  PROVE  Pa!RetryAt \in Nat /\ Pa!RetryAt >= now /\ Pa!InHours(Pa!RetryAt)
<1>1. Held /\ now \in Nat /\ ahead \in After
  BY HeldSets DEF Pa!PaceInv, Held
<1>2. CASE sendAfter # Unset /\ sendAfter > now
  <2>1. sendAfter = promise /\ promise # Unset
    BY <1>2 DEF Pa!PaceInv, Pa!LaunchIsKept
  <2>2. Pa!InHours(sendAfter) /\ sendAfter \in Nat
    BY <1>1, <2>1, HeldSets DEF Pa!PaceInv, Pa!NotBeforePromised
  <2>3. Pa!RetryAt = sendAfter
    BY <1>2 DEF Pa!RetryAt
  <2> QED
    BY <1>1, <1>2, <2>2, <2>3
<1>3. CASE ~(sendAfter # Unset /\ sendAfter > now)
  <2>1. PICK from \in Nat : from = (IF Pa!InHours(now) THEN now + Pa!Noon ELSE now) /\ from >= now
    BY <1>1, PaceNumbers
  <2>2. Pa!RetryAt = Pa!NextOpening(from)
    BY <1>3, <2>1 DEF Pa!RetryAt
  <2>3. Pa!RetryAt = Opening(from)
    BY <1>1, <2>2, NextOpeningIs
  <2>4. Opening(from) \in Nat /\ Opening(from) >= from /\ Pa!InHours(Opening(from))
    BY <1>1, OpeningIs
  <2> QED
    BY <1>1, <2>1, <2>3, <2>4
<1> QED
  BY <1>2, <1>3

\* The countdown is that of the job.
LEMMA CountdownKept == Pa!PaceInv => Pa!CountdownIsTrue
<1> SUFFICES ASSUME Pa!PaceInv,
                    NEW c \in Pa!Waiting \ again, due[c] # Unset, due[c] > now
             PROVE  plannedAt[c] = due[c]
  BY DEF Pa!CountdownIsTrue
<1>1. Held /\ now \in Nat
  BY HeldSets DEF Pa!PaceInv, Held
<1>2. c \in Contacts /\ due[c] \in Nat
  BY <1>1, HeldSets
<1>3. ~Pa!Passed(due[c])
  BY <1>1, <1>2 DEF Pa!Passed
<1> QED
  BY <1>3 DEF Pa!PaceInv, Pa!TimeIsKept

\* What the invariant says of the plan is what the run checks of it.
LEMMA PaceIsSafe == Pa!PaceInv => Pa!PlanIsSafe
<1> SUFFICES ASSUME Pa!PaceInv PROVE Pa!PlanIsSafe
  OBVIOUS
<1>1. now \in Nat /\ ahead \in After
  BY HeldSets DEF Pa!PaceInv, Held
<1>2. Pa!QueuedInHours /\ Pa!PaceIsKept /\ Pa!NotBeforePromised
  BY DEF Pa!PaceInv
<1>3. Pa!CountdownIsTrue
  BY CountdownKept
<1>4. Pa!SameOpening
  BY <1>1, SameOpenings
<1>5. Pa!ForecastInHours
  BY NextIs, EndIs, RetryIs DEF Pa!ForecastInHours
<1> QED
  BY <1>2, <1>3, <1>4, <1>5 DEF Pa!PlanIsSafe

-----------------------------------------------------------------------------
(* The worker process: each part keeps its own invariant, at rest or not.  *)

\* The invariants hold at first.
LEMMA WorkerInits == WorkerInit => WorkerInv
<1> SUFFICES ASSUME WorkerInit PROVE WorkerInv
  OBVIOUS
<1>1. Init /\ Pa!Init /\ Wa!Init
  BY DEF WorkerInit
<1>2. ForeseenAhead
  BY <1>1 DEF Init, ForeseenAhead
<1>3. QED
  BY <1>1, <1>2, InitInv, PaceStarts, WatchInit DEF SleepInv, WorkerInv

\* A step is one of one part, and the others are at rest.
LEMMA WorkerStep == WorkerInv /\ [Sleeps \/ Paces \/ Watches]_workerVars => WorkerInv'
<1> SUFFICES ASSUME WorkerInv, [Sleeps \/ Paces \/ Watches]_workerVars PROVE WorkerInv'
  OBVIOUS
<1>1. [Next]_vars /\ [Pa!Next]_paceVars /\ [Wa!Next]_watchVars
  <2>1. CASE Sleeps
    BY <2>1 DEF Sleeps, Sleeping
  <2>2. CASE Paces
    BY <2>2 DEF Paces
  <2>3. CASE Watches
    BY <2>3 DEF Watches
  <2>4. CASE UNCHANGED workerVars
    BY <2>4 DEF workerVars
  <2>5. QED
    BY <2>1, <2>2, <2>3, <2>4
<1>2. QED
  BY <1>1, SleepStep, PaceSteps, WatchStep DEF WorkerInv

\* A sleep over a due job began since the last interval, or the check that will
\* end it is under way (createIdleController, idleSleep.ts:104-126), and a job
\* planned ahead is looked at before it is due; where a job queued may leave, there
\* is room in the day before it for all who may leave first (planDay,
\* planner.ts:163-196); and what the watch told is owed to the last answer.
THEOREM InvariantHolds == WorkerSpec => []WorkerInv
BY WorkerInits, WorkerStep, PTL DEF WorkerSpec

\* The worker never sleeps over a due job for longer than a check interval and
\* that check's reads, for any intervals and any overlap of checks.
THEOREM Woken == WorkerSpec => []WokenInTime
<1>1. WorkerInv => WokenInTime
  BY IdleAssumption DEF WorkerInv, SleepInv, SleepTimed, TypeOK, SleepIsSeen, WokenInTime, Checks
<1>2. QED
  BY <1>1, InvariantHolds, PTL

\* A job planned further ahead than the horizon, behind no other, never waits for a
\* worker asleep, however many checks overlap, as long as none fails
\* (decideIdle, idleSleep.ts:68-69; the horizon, worker.ts:73-76).
THEOREM Foreseen == WorkerSpec => []ForeseenIsOnTime
<1>1. WorkerInv => ForeseenIsOnTime
  BY DEF WorkerInv, SleepInv, ForeseenAhead, ForeseenIsOnTime
<1>2. QED
  BY <1>1, InvariantHolds, PTL

\* A message is queued for no Sunday and no hour outside the window, over any
\* twenty-four hours a campaign sends its pace and one more at the most, nothing
\* leaves before the launch said it would, and what is announced, the next opening,
\* the next send, the end and the countdown, is what the plan keeps: for any pace,
\* pause, window and change of the clocks at night, however late the jobs and
\* whatever is paused, refused or held back (planDay, planner.ts:163-196;
\* dispatchCampaign, dispatch.ts:79-209; campaignStats.ts:129-240).
THEOREM PlanKeeps == WorkerSpec => []PlanIsSafe
<1>1. WorkerInv => PlanIsSafe
  BY PaceIsSafe DEF WorkerInv, PlanIsSafe
<1>2. QED
  BY <1>1, InvariantHolds, PTL

\* What was mailed of the worker, of the queue and of the refusals is what is so, an
\* interval and a slow answer after it last changed, and is mailed again while it
\* lasts, for any limits, intervals and number of checks under way
\* (createAlertTracker, alerts.ts; startMonitor's checks, index.ts).
THEOREM Watched == WorkerSpec => []WatchIsTrue
<1>1. WorkerInv => WatchIsTrue
  BY WatchedIsTrue DEF WorkerInv, WatchIsTrue
<1>2. QED
  BY <1>1, InvariantHolds, PTL
=============================================================================

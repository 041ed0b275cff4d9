-------------------------------- MODULE Watch --------------------------------
(***************************************************************************)
(* The alerts (services/alerts.ts): a condition, the checks that look at   *)
(* it and the tracker that says what was told.  The tracker keeps its      *)
(* kinds apart, so a behaviour watches one of them:                        *)
(*   worker_stopped   the age of the worker's heartbeat,                   *)
(*   queue_stuck      for how long a job has been due: the API looks at    *)
(*                    both every five minutes (index.ts),                  *)
(*   send_error_rate  what was sent and refused in the hour: the worker    *)
(*                    looks after each plan (worker.ts).                   *)
(* A tick is five minutes; what happens within one comes in any order.     *)
(***************************************************************************)
EXTENDS Integers, Sequences

CONSTANTS
  StaleAfter,   \* HEARTBEAT_STALE_MS
  Expiry,       \* EX of the heartbeat's key
  StuckAfter,   \* QUEUE_STUCK_AFTER_MS
  PlanEvery,    \* the longest time between two plans
  Repeat,       \* ALERT_REPEAT_MS
  MinAttempts,  \* ERROR_RATE_MIN_ATTEMPTS
  MaxCount,     \* bound: sends, and refusals, counted in the hour
  MaxLook,      \* bound: how long a check waits for Redis or the database
  Never         \* null

VARIABLES
  kind,     \* the condition watched
  seen,     \* the age of the heartbeat or of the job due, the counts of the hour
  up,       \* the worker
  beatDue,  \* its heartbeat timer has fired
  nextLook, \* when the next check comes
  looks,    \* the checks under way, in order: what each read, how long ago
  told,     \* tracker: how long ago it was notified
  steady    \* history: since when neither the condition nor its watch changed

vars == <<kind, seen, up, beatDue, nextLook, looks, told, steady>>

-----------------------------------------------------------------------------
Rate  == kind = "send_error_rate"
Every == IF Rate THEN PlanEvery ELSE 1    \* MONITOR_EVERY_MS
Bound == Every + MaxLook

\* The condition itself.
Holds(s) ==
  CASE kind = "worker_stopped" -> s > StaleAfter
    [] kind = "queue_stuck"    -> s # Never /\ s > StuckAfter
    [] Rate                    -> s.sent + s.errors >= MinAttempts /\ s.errors > s.sent

\* readHeartbeat, readQueueHealth, readSendCounts: the heartbeat's key expires.
Read == IF kind = "worker_stopped" /\ seen >= Expiry THEN Never ELSE seen

\* Variant: no heartbeat at all reads as nothing to say.
AliveWhenAbsent(at) == at = Never \/ at <= StaleAfter

\* checkReadiness, on the age of the last heartbeat.
Alive(at) == at # Never /\ at <= StaleAfter

\* sendErrorRateAlert: one refusal in two stands for one in twenty.
TooManyErrors(count) ==
  LET attempts == count.sent + count.errors
  IN  attempts >= MinAttempts /\ 2 * count.errors > attempts

Alert(read) ==
  CASE kind = "worker_stopped" -> ~Alive(read)
    [] kind = "queue_stuck"    -> read # Never /\ read > StuckAfter
    [] Rate                    -> TooManyErrors(read)

\* The age a check has when its answers are there: it reads the clock last.
WhenAnswered(look) ==
  IF Rate \/ look.read = Never THEN look.read ELSE look.read + look.ago

Capped(n, cap) == IF n < cap THEN n ELSE cap

\* A step that changes what is watched to s.  A slow check may still make of what it
\* read before a wait that ended just short of the limit.
Becomes(s) ==
  /\ seen' = s
  /\ steady' = IF Holds(WhenAnswered([read |-> seen, ago |-> MaxLook])) = Holds(s)
               THEN steady ELSE 0

-----------------------------------------------------------------------------
(* What is watched.                                                        *)

Beat ==
  /\ kind = "worker_stopped" /\ up /\ beatDue
  /\ beatDue' = FALSE /\ Becomes(0)
  /\ UNCHANGED <<kind, up, nextLook, looks, told>>

\* A beat that cannot be written is logged; the next is in five minutes.
BeatLost ==
  /\ kind = "worker_stopped" /\ up /\ beatDue
  /\ beatDue' = FALSE
  /\ UNCHANGED <<kind, seen, up, nextLook, looks, told, steady>>

\* Death and start of the worker, which beats at once.
Stops ==
  /\ kind = "worker_stopped" /\ up /\ up' = FALSE
  /\ UNCHANGED <<kind, seen, beatDue, nextLook, looks, told, steady>>

Starts ==
  /\ kind = "worker_stopped" /\ ~up
  /\ up' = TRUE /\ beatDue' = TRUE
  /\ UNCHANGED <<kind, seen, nextLook, looks, told, steady>>

\* A job falls due with none before it; or is taken, and the next was due later.
JobDue ==
  /\ kind = "queue_stuck" /\ seen = Never /\ Becomes(0)
  /\ UNCHANGED <<kind, up, beatDue, nextLook, looks, told>>

JobTaken(next) ==
  /\ kind = "queue_stuck" /\ seen # Never
  /\ next = Never \/ next \in 0 .. seen
  /\ Becomes(next)
  /\ UNCHANGED <<kind, up, beatDue, nextLook, looks, told>>

\* A send or a refusal is recorded, and leaves the hour.
Counted(count) ==
  /\ Rate
  /\ \/ count.sent - seen.sent \in {-1, 1} /\ count.errors = seen.errors
     \/ count.errors - seen.errors \in {-1, 1} /\ count.sent = seen.sent
  /\ Becomes(count)
  /\ UNCHANGED <<kind, up, beatDue, nextLook, looks, told>>

-----------------------------------------------------------------------------
(* The watch.                                                              *)

\* The timer does not wait for the check before.  A plan may come sooner.
Check ==
  /\ Rate \/ nextLook = 0
  /\ Len(looks) <= MaxLook
  /\ nextLook' = Every
  /\ looks' = Append(looks, [read |-> Read, ago |-> 0])
  /\ UNCHANGED <<kind, seen, up, beatDue, told, steady>>

\* runAlertChecks: the oldest check has its answers, and the tracker is updated.
Tell ==
  /\ looks # <<>>
  /\ LET active == Alert(WhenAnswered(Head(looks)))
     IN  told' = IF ~active THEN Never
                 ELSE IF told = Never \/ told >= Repeat THEN 0 ELSE told
  /\ looks' = Tail(looks)
  /\ UNCHANGED <<kind, seen, up, beatDue, nextLook, steady>>

\* A check that fails tells nothing; nor does a plan that fails, which checks nothing.
CheckFails ==
  /\ \/ looks # <<>> /\ looks' = Tail(looks) /\ UNCHANGED nextLook
     \/ Rate /\ nextLook = 0 /\ nextLook' = Every /\ UNCHANGED looks
  /\ steady' = 0
  /\ UNCHANGED <<kind, seen, up, beatDue, told>>

\* The process that watches starts anew: it remembers nothing of what it told.  The
\* monitor's first check is an interval away, the worker plans at once.
Restart ==
  /\ looks' = <<>> /\ told' = Never /\ steady' = 0
  /\ nextLook' = IF Rate THEN 0 ELSE Every
  /\ UNCHANGED <<kind, seen, up, beatDue>>

Tick ==
  /\ nextLook > 0 /\ ~(up /\ beatDue)
  /\ \A i \in DOMAIN looks : looks[i].ago < MaxLook
  /\ nextLook' = nextLook - 1
  /\ beatDue' = (kind = "worker_stopped")
  /\ looks' = [i \in DOMAIN looks |-> [looks[i] EXCEPT !.ago = @ + 1]]
  /\ told' = IF told = Never THEN Never ELSE Capped(told + 1, Repeat + Bound + 1)
  /\ seen' =
       IF Rate \/ seen = Never THEN seen
       ELSE Capped(seen + 1, IF kind = "queue_stuck" THEN StuckAfter + 1 ELSE Expiry)
  /\ steady' = IF Holds(seen') = Holds(seen) THEN Capped(steady + 1, Bound + 1) ELSE 0
  /\ UNCHANGED <<kind, up>>

-----------------------------------------------------------------------------
Counts == [sent : 0 .. MaxCount, errors : 0 .. MaxCount]

Init ==
  /\ kind \in {"worker_stopped", "queue_stuck", "send_error_rate"}
  /\ seen = CASE kind = "worker_stopped" -> Expiry
              [] kind = "queue_stuck"    -> Never
              [] Rate                    -> [sent |-> 0, errors |-> 0]
  /\ up = FALSE /\ beatDue = FALSE
  /\ nextLook = Every /\ looks = <<>> /\ told = Never /\ steady = 0

Next ==
  \/ Beat \/ BeatLost \/ Stops \/ Starts \/ JobDue
  \/ \E next \in {Never} \cup 0 .. StuckAfter + 1 : JobTaken(next)
  \/ \E count \in Counts : Counted(count)
  \/ Check \/ Tell \/ CheckFails \/ Restart \/ Tick

Spec == Init /\ [][Next]_vars

-----------------------------------------------------------------------------
\* A condition that has lasted an interval and a slow answer has been told, one that
\* has ended as long has been withdrawn, whatever beat was lost, key expired, check
\* overlapped another or process forgot: what was mailed is what GET /ready says of
\* the worker (readiness.ts:86).
ToldIsTrue == steady > Bound => (told # Never <=> Holds(seen))

\* While it lasts it is told again (alerts.ts:115).
ToldAgain == steady > Bound /\ told # Never => told <= Repeat + Bound

WatchIsTrue == ToldIsTrue /\ ToldAgain

\* What is read of each kind.
Readings ==
  CASE kind = "worker_stopped" -> 0 .. Expiry
    [] kind = "queue_stuck"    -> 0 .. StuckAfter + 1
    [] Rate                    -> Counts

TypeOK ==
  /\ kind \in {"worker_stopped", "queue_stuck", "send_error_rate"}
  /\ seen \in Readings \/ (kind = "queue_stuck" /\ seen = Never)
  /\ nextLook \in 0 .. Every /\ steady \in 0 .. Bound + 1
  /\ looks \in Seq([read : Readings \cup {Never}, ago : 0 .. MaxLook])
  /\ told \in Nat \cup {Never}

\* The checks answer in the order in which they read.
OldestFirst == \A i, k \in DOMAIN looks : i < k => looks[k].ago <= looks[i].ago

\* A check that read since anything changed, and what it will make of it: the age as
\* it is now, or, a beat or another job later, on the same side of the limit.
Fresh(look) == look.ago < steady
Fits(look)  ==
  \/ ~Rate /\ look.read # Never /\ look.read + look.ago = seen
  \/ Holds(seen) /\ Alert(WhenAnswered(look))
  \/ ~Holds(seen) /\ ~Alert(WhenAnswered([read |-> look.read, ago |-> MaxLook]))

FreshFits == \A i \in DOMAIN looks : Fresh(looks[i]) => Fits(looks[i])

\* The first check since has answered; or it is under way; or it is to come.
ToldRight == told # Never <=> Holds(seen)
LookIsDue ==
  \/ ToldRight /\ \A i \in DOMAIN looks : Fresh(looks[i])
  \/ \E i \in DOMAIN looks : Fresh(looks[i]) /\ steady <= looks[i].ago + Every
  \/ steady + nextLook <= Every

\* What was told is told again by the next check to answer.
AgainIsDue ==
  told # Never =>
    IF looks = <<>>
    THEN told + nextLook <= Repeat + Every \/ steady + nextLook <= Every
    ELSE told <= Repeat + Every + looks[1].ago \/ steady <= looks[1].ago + Every

\* All of it together: the inductive invariant.
WatchInv == TypeOK /\ OldestFirst /\ FreshFits /\ LookIsDue /\ AgainIsDue
=============================================================================

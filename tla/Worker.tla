------------------------------- MODULE Worker -------------------------------
(***************************************************************************)
(* The worker process between two sends: asleep or not (IdleSleep), what   *)
(* it queues when it plans (Pace), and what is told of it (Watch).  Pace   *)
(* takes from IdleSleep that a job is looked at soon after it is due, its  *)
(* bound MaxLate, and gives it jobs added with any delay; Watch sees jobs  *)
(* due for any length of time and a worker that may stop whenever it will. *)
(* Nothing else passes between them, so the behaviours are those of each   *)
(* beside the others at rest.                                              *)
(***************************************************************************)
EXTENDS Integers, IdleSleep

CONSTANTS Contacts, Day, StartHour, LastHour, ChangesAt, Before, After, MailsPerDay, Pause,
          AccountLimit, Others, LastTick, MaxLate, MaxPauses, Refusable, Unset,
          StaleAfter, Expiry, StuckAfter, PlanEvery, Repeat, MinAttempts, MaxCount, MaxLook,
          Never

\* The clocks change by less than half a day, and not in the sending hours nor at noon.
ASSUME PaceAssumption ==
  /\ IsFiniteSet(Contacts) /\ Contacts = 1 .. Cardinality(Contacts)
  /\ {StartHour, LastHour, Before, Pause, ChangesAt, LastTick, MaxLate, MaxPauses} \subseteq Nat
  /\ 0 < StartHour /\ StartHour <= LastHour /\ LastHour + 1 < Day
  /\ {Day, MailsPerDay, AccountLimit} \subseteq Nat \ {0}
  /\ After \subseteq Nat /\ Others \subseteq Nat /\ Unset \notin Nat
  /\ \A after \in After :
       /\ after - Before < Day - Day \div 2
       /\ Before - after <= Day \div 2 /\ Before - after <= StartHour
       /\ \A a, b \in {after, Before} : \A local \in ChangesAt + a .. ChangesAt + b - 1 :
            local % Day \notin StartHour .. LastHour \cup {Day \div 2}

ASSUME WorkerAssumption ==
  /\ {StaleAfter, Expiry, StuckAfter, PlanEvery, Repeat, MinAttempts, MaxCount, MaxLook} \subseteq Nat
  /\ StaleAfter < Expiry /\ Never \notin Nat

VARIABLES side,    \* sleep | pace | watch
          now, ahead, status, sendAfter, promise, outcome, due, plannedAt, again, taken, sentAt, pauses,
          kind, seen, up, beatDue, nextLook, looks, told, steady

Pa == INSTANCE Pace WITH Horizon <- LastTick
Wa == INSTANCE Watch

paceVars ==
  <<now, ahead, status, sendAfter, promise, outcome, due, plannedAt, again, taken, sentAt, pauses>>
watchVars  == <<kind, seen, up, beatDue, nextLook, looks, told, steady>>
workerVars == <<side, vars, paceVars, watchVars>>

WorkerInit ==
  /\ side \in {"sleep", "pace", "watch"}
  /\ Init /\ Pa!Init /\ Wa!Init
  /\ side # "watch" => kind = "worker_stopped"
  /\ side # "pace" => ahead = CHOOSE a \in After : TRUE

Sleeping(A) == side = "sleep" /\ A /\ UNCHANGED <<side, paceVars, watchVars>>
Sleeps      == Sleeping(Next)
Paces       == side = "pace" /\ Pa!Next /\ UNCHANGED <<side, vars, watchVars>>
Watches     == side = "watch" /\ Wa!Next /\ UNCHANGED <<side, vars, paceVars>>

\* As in IdleSleep.
WorkerFairness ==
  /\ WF_workerVars(Sleeping(Tick)) /\ WF_workerVars(Sleeping(CheckOnTime))
  /\ \A i \in Checks : WF_workerVars(Sleeping(CheckStep(i)))
  /\ \A j \in Jobs :
       /\ SF_workerVars(Sleeping(Take(j))) /\ WF_workerVars(Sleeping(Finish(j)))
       /\ SF_workerVars(Sleeping(Recover(j)))

WorkerSpec == WorkerInit /\ [][Sleeps \/ Paces \/ Watches]_workerVars /\ WorkerFairness

\* What keeps each of the three.
WorkerInv == SleepInv /\ Pa!PaceInv /\ Wa!WatchInv

\* What a plan queues and what is announced of it keep to the hours, the pace and
\* the promises of the launch, whatever is late, paused or held back (Pace).
PlanIsSafe == Pa!PlanIsSafe

\* What was mailed of the worker, the queue and the refusals is what is so, one
\* check and one slow answer later, and again while it lasts (Watch).
WatchIsTrue == Wa!WatchIsTrue
=============================================================================

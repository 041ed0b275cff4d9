----------------------------- MODULE SendEngine -----------------------------
(***************************************************************************)
(* The send engine: services/sendEngine.ts, the queue it is driven by      *)
(* (jobs/queues.ts, jobs/processors.ts, worker.ts), the enqueueing half of *)
(* services/dispatch.ts, and the two routes that touch the same rows while *)
(* it runs (pause/resume of a campaign, PATCH of a contact).               *)
(*                                                                         *)
(* One step is one statement, transaction or external call: between two of *)
(* them another worker process, the 'failed' handler, the planner or the   *)
(* user may act, and the process may die.  All the campaigns belong to one *)
(* account, since the daily ceiling is per account.                        *)
(*                                                                         *)
(* A definition marked "Variant" is the code with one plausible mistake in *)
(* it.  Nothing refers to it: it is there to show which property notices.  *)
(***************************************************************************)
EXTENDS Naturals, FiniteSets

CONSTANTS
  Contacts,       \* the rows of `contacts`
  Campaigns,      \* the rows of `campaigns`
  CampaignOf,     \* contacts.campaign_id
  Workers,        \* worker processes alive at some time: two during a deploy
  Frozen,         \* workers that may outlive their own ten-minute claim
  Edited,         \* contacts the user sets to pending or ignored by hand
  DailyLimit,     \* GMAIL_DAILY_LIMIT
  SendAttempts,   \* SEND_ATTEMPTS
  MaxFaults,      \* bound: crashes, failed statements, lost locks, lost plans
  NoWorker, NoContact

ASSUME ConstantsAssumption ==
  /\ IsFiniteSet(Contacts)
  /\ CampaignOf \in [Contacts -> Campaigns]
  /\ Frozen \subseteq Workers
  /\ Edited \subseteq Contacts
  /\ DailyLimit \in Nat
  /\ SendAttempts \in Nat \ {0}
  /\ MaxFaults \in Nat
  /\ NoWorker \notin Workers
  /\ NoContact \notin Contacts

VARIABLES
  \* PostgreSQL
  status,      \* contacts.status
  claimed,     \* contacts whose claimed_at is set and within CLAIM_TIMEOUT
  attempts,    \* contacts.attempts
  sentLog,     \* contacts with a 'sent' row in logs (unique index: at most one)
  recent,      \* those whose 'sent' row is less than 24 hours old
  campaign,    \* campaigns.status
  sentCount,   \* campaigns.sent_count
  errorCount,  \* campaigns.error_count
  \* Redis (BullMQ): the job send-<contact id>
  job,         \* none | waiting (delayed included) | active | failed (kept)
  lock,        \* the worker that holds the active job's lock
  tries,       \* attemptsMade
  \* processes
  pc,          \* where each worker is in sendToContact
  cur,         \* the contact it works on
  handler,     \* failAfterLastAttempt, per contact: none | read | write
  plan,        \* contacts a dispatch has read as pending and not yet enqueued
  \* history, read by no action
  delivered,   \* messages Gmail accepted for the contact
  unwritten,   \* contacts handed to Gmail with no outcome written since
  faults       \* faults so far, at most MaxFaults

dbVars      == <<status, claimed, attempts, sentLog, recent, campaign,
                 sentCount, errorCount>>
queueVars   == <<job, lock, tries>>
workerVars  == <<pc, cur>>
history     == <<delivered, unwritten>>
vars        == <<dbVars, queueVars, workerVars, handler, plan, history, faults>>

-----------------------------------------------------------------------------
ContactStatus  == {"pending", "ignored", "sent", "failed"}
CampaignStatus == {"scheduled", "running", "paused", "completed"}
JobState       == {"none", "waiting", "active", "failed"}

\* The steps of sendToContact between the claim and the statement that gives
\* the contact back (a release, a roll-back or a recorded outcome).
BeforeAttempt == {"count", "prepare", "attempt", "releaseDone", "releaseThrow",
                  "releasePause"}
AfterAttempt  == {"send", "rollBack", "recordSent", "recordFailure"}
Holding       == {"refuse"} \cup BeforeAttempt \cup AfterAttempt
Step          == {"idle", "pause", "done", "threw"} \cup Holding

TypeOK ==
  /\ status     \in [Contacts -> ContactStatus]
  /\ claimed    \subseteq Contacts
  /\ attempts   \in [Contacts -> Nat]
  /\ sentLog    \subseteq Contacts
  /\ recent     \subseteq sentLog
  /\ campaign   \in [Campaigns -> CampaignStatus]
  /\ sentCount  \in [Campaigns -> Nat]
  /\ errorCount \in [Campaigns -> Nat]
  /\ job        \in [Contacts -> JobState]
  /\ lock       \in [Contacts -> Workers \cup {NoWorker}]
  /\ tries      \in [Contacts -> Nat]
  /\ pc         \in [Workers -> Step]
  /\ cur        \in [Workers -> Contacts \cup {NoContact}]
  /\ handler    \in [Contacts -> {"none", "read", "write"}]
  /\ plan       \subseteq Contacts
  /\ delivered  \in [Contacts -> Nat]
  /\ unwritten  \subseteq Contacts
  /\ faults     \in 0 .. MaxFaults
  /\ \A w \in Workers : pc[w] = "idle" <=> cur[w] = NoContact

ContactsOf(k)     == {c \in Contacts : CampaignOf[c] = k}
Having(k, s, st)  == {c \in ContactsOf(k) : st[c] = s}
Holds(w, c)       == cur[w] = c /\ pc[w] \in Holding

\* Variant: "nothing left to take" mistaken for "nothing left".
CompleteIfNoneFree(k, st) ==
  IF campaign[k] = "running" /\ Having(k, "pending", st) \subseteq claimed
  THEN [campaign EXCEPT ![k] = "completed"]
  ELSE campaign

\* completeIfDone, inside the transaction that leaves the statuses at st.
CompleteIfDone(k, st) ==
  IF campaign[k] = "running" /\ Having(k, "pending", st) = {}
  THEN [campaign EXCEPT ![k] = "completed"]
  ELSE campaign

Goto(w, step) == pc' = [pc EXCEPT ![w] = step] /\ UNCHANGED cur

Fault == faults < MaxFaults /\ faults' = faults + 1
NoFault == UNCHANGED faults

-----------------------------------------------------------------------------
(* The planner: dispatchCampaign.  The hours and paces of planDay only say  *)
(* how many sends it plans, here any number the account's ceiling leaves.  *)

\* Pending, and nobody's claim on it is live.
Dispatchable(k) ==
  {c \in ContactsOf(k) : status[c] = "pending" /\ c \notin claimed}

Room == IF Cardinality(recent) < DailyLimit
        THEN DailyLimit - Cardinality(recent) ELSE 0

PlanSends(k) ==
  \E sends \in SUBSET Dispatchable(k) :
    Cardinality(sends) <= Room /\ plan' = plan \cup sends

\* Variant: an empty plan returns without completing the campaign.
DispatchLeavesEmpty(k) ==
  /\ campaign[k] \in {"scheduled", "running"}
  /\ campaign' = [campaign EXCEPT ![k] = "running"]
  /\ PlanSends(k)
  /\ UNCHANGED <<status, claimed, attempts, sentLog, recent, sentCount, errorCount,
                 queueVars, workerVars, handler, history, faults>>

Dispatch(k) ==
  /\ campaign[k] \in {"scheduled", "running"}
  /\ campaign' = [campaign EXCEPT ![k] =
       IF Having(k, "pending", status) = {} THEN "completed" ELSE "running"]
  /\ PlanSends(k)
  /\ UNCHANGED <<status, claimed, attempts, sentLog, recent, sentCount, errorCount,
                 queueVars, workerVars, handler, history, faults>>

\* Variant: a failed job kept for diagnosis does not stop a new one.
EnqueueSendAnew(c) ==
  /\ c \in plan
  /\ plan' = plan \ {c}
  /\ IF job[c] \in {"none", "failed"}
     THEN /\ job' = [job EXCEPT ![c] = "waiting"]
          /\ tries' = [tries EXCEPT ![c] = 0]
     ELSE UNCHANGED <<job, tries>>
  /\ UNCHANGED <<dbVars, lock, workerVars, handler, history, faults>>

\* The job id is the contact's: a second job is refused while one exists,
\* a failed one kept for diagnosis included.
EnqueueSend(c) ==
  /\ c \in plan
  /\ plan' = plan \ {c}
  /\ IF job[c] = "none"
     THEN /\ job' = [job EXCEPT ![c] = "waiting"]
          /\ tries' = [tries EXCEPT ![c] = 0]
     ELSE UNCHANGED <<job, tries>>
  /\ UNCHANGED <<dbVars, lock, workerVars, handler, history, faults>>

\* The planning process dies, or Redis refuses the rest of the plan.
LosePlan ==
  /\ plan # {}
  /\ Fault
  /\ plan' = {}
  /\ UNCHANGED <<dbVars, queueVars, workerVars, handler, history>>

-----------------------------------------------------------------------------
(* sendToContact, one action per await.                                    *)

\* Variants: the claim without its lease, the claim without its campaign.
ClaimableTwice(c) ==
  status[c] = "pending" /\ campaign[CampaignOf[c]] = "running"
ClaimableWhilePaused(c) ==
  status[c] = "pending" /\ c \notin claimed

\* claimContact's conditional UPDATE.
Claimable(c) ==
  /\ status[c] = "pending"
  /\ c \notin claimed
  /\ campaign[CampaignOf[c]] = "running"

\* Variant: attempts read as a retry budget.
AmbiguousAfterRetries(c) == attempts[c] >= SendAttempts

IsAmbiguous(c) == attempts[c] > 0

StartJob(w, c) ==
  /\ pc[w] = "idle"
  /\ job[c] = "waiting"
  /\ job'  = [job EXCEPT ![c] = "active"]
  /\ lock' = [lock EXCEPT ![c] = w]
  /\ cur'  = [cur EXCEPT ![w] = c]
  /\ UNCHANGED tries

\* A worker takes the job and, first thing, the contact.
Claim(w, c) ==
  /\ StartJob(w, c)
  /\ IF Claimable(c)
     THEN /\ claimed' = claimed \cup {c}
          /\ pc' = [pc EXCEPT ![w] = IF IsAmbiguous(c) THEN "refuse" ELSE "count"]
     ELSE /\ pc' = [pc EXCEPT ![w] = "done"]
          /\ UNCHANGED claimed
  /\ UNCHANGED <<status, attempts, sentLog, recent, campaign, sentCount,
                 errorCount, handler, plan, history, faults>>

\* The claim's statement fails: the job throws, the row is as it was.
ClaimFails(w, c) ==
  /\ StartJob(w, c)
  /\ Fault
  /\ pc' = [pc EXCEPT ![w] = "threw"]
  /\ UNCHANGED <<dbVars, handler, plan, history>>

\* Variant: one too many.
CheckLimitLate(w) ==
  /\ pc[w] = "count"
  /\ Goto(w, IF Cardinality(recent) > DailyLimit THEN "releaseDone" ELSE "prepare")
  /\ UNCHANGED <<dbVars, queueVars, handler, plan, history, faults>>

\* countSentToday against the ceiling.
CheckLimit(w) ==
  /\ pc[w] = "count"
  /\ Goto(w, IF Cardinality(recent) >= DailyLimit THEN "releaseDone" ELSE "prepare")
  /\ UNCHANGED <<dbVars, queueVars, handler, plan, history, faults>>

\* getAccessToken then compose: both may fail, the token for good.
Prepare(w) ==
  /\ pc[w] = "prepare"
  /\ \E next \in {"attempt", "releasePause", "releaseThrow"} : Goto(w, next)
  /\ UNCHANGED <<dbVars, queueVars, handler, plan, history, faults>>

\* releaseClaim, whoever holds the claim by now.
ReleaseClaim(w) ==
  /\ \E exit \in {<<"releaseDone", "done">>, <<"releaseThrow", "threw">>,
                  <<"releasePause", "pause">>} :
       pc[w] = exit[1] /\ Goto(w, exit[2])
  /\ claimed' = claimed \ {cur[w]}
  /\ UNCHANGED <<status, attempts, sentLog, recent, campaign, sentCount,
                 errorCount, queueVars, handler, plan, history, faults>>

\* pauseCampaign, from the processor: the account must be reconnected.
PauseForReauthorization(w) ==
  /\ pc[w] = "pause"
  /\ LET k == CampaignOf[cur[w]]
     IN  campaign' = [campaign EXCEPT ![k] = IF @ = "running" THEN "paused" ELSE @]
  /\ Goto(w, "done")
  /\ UNCHANGED <<status, claimed, attempts, sentLog, recent, sentCount, errorCount,
                 queueVars, handler, plan, history, faults>>

CountAttempt(w) ==
  /\ pc[w] = "attempt"
  /\ attempts' = [attempts EXCEPT ![cur[w]] = @ + 1]
  /\ unwritten' = unwritten \cup {cur[w]}
  /\ Goto(w, "send")
  /\ UNCHANGED <<status, claimed, sentLog, recent, campaign, sentCount, errorCount,
                 queueVars, handler, plan, delivered, faults>>

\* Variants: a dropped socket taken for "not now", or for a success.
SilenceIsTransient(w) ==
  /\ pc[w] = "send"
  /\ \/ /\ \E next \in {"recordSent", "rollBack"} : Goto(w, next)
        /\ delivered' = [delivered EXCEPT ![cur[w]] = @ + 1]
     \/ /\ \E next \in {"rollBack", "recordFailure"} : Goto(w, next)
        /\ UNCHANGED delivered
  /\ UNCHANGED <<dbVars, queueVars, handler, plan, unwritten, faults>>

SilenceIsSuccess(w) ==
  /\ pc[w] = "send"
  /\ \/ /\ Goto(w, "recordSent")
        /\ delivered' = [delivered EXCEPT ![cur[w]] = @ + 1]
     \/ /\ \E next \in {"rollBack", "recordFailure", "recordSent"} : Goto(w, next)
        /\ UNCHANGED delivered
  /\ UNCHANGED <<dbVars, queueVars, handler, plan, unwritten, faults>>

\* Gmail accepts, refuses for good, says "not now", or gives no readable
\* answer, in which case the message may or may not have left.
GmailAnswers(w) ==
  /\ pc[w] = "send"
  /\ \/ /\ \E next \in {"recordSent", "recordFailure"} : Goto(w, next)
        /\ delivered' = [delivered EXCEPT ![cur[w]] = @ + 1]
     \/ /\ \E next \in {"rollBack", "recordFailure"} : Goto(w, next)
        /\ UNCHANGED delivered
  /\ UNCHANGED <<dbVars, queueVars, handler, plan, unwritten, faults>>

\* The transient branch: the claim and the attempt are given back.  Below zero
\* the column's CHECK refuses, and the processor throws all the same.
RollBack(w) ==
  /\ pc[w] = "rollBack"
  /\ Goto(w, "threw")
  /\ IF attempts[cur[w]] = 0
     THEN UNCHANGED <<claimed, attempts, unwritten>>
     ELSE /\ claimed' = claimed \ {cur[w]}
          /\ attempts' = [attempts EXCEPT ![cur[w]] = @ - 1]
          /\ unwritten' = unwritten \ {cur[w]}
  /\ UNCHANGED <<status, sentLog, recent, campaign, sentCount, errorCount,
                 queueVars, handler, plan, delivered, faults>>

\* Variant: the counter computed before the contact's status is written.
RecordSentCountedFirst(w) ==
  LET c  == cur[w]
      k  == CampaignOf[c]
      st == [status EXCEPT ![c] = "sent"]
  IN /\ pc[w] = "recordSent"
     /\ c \notin sentLog
     /\ Goto(w, "done")
     /\ status' = st
     /\ sentLog' = sentLog \cup {c}
     /\ recent' = recent \cup {c}
     /\ sentCount' = [sentCount EXCEPT ![k] = Cardinality(Having(k, "sent", status))]
     /\ campaign' = CompleteIfDone(k, st)
     /\ unwritten' = unwritten \ {c}
     /\ UNCHANGED <<claimed, attempts, errorCount, queueVars, handler, plan,
                    delivered, faults>>

\* recordSent.  The claim stays as it is.  A row already there fires the
\* unique index and the transaction is abandoned.
RecordSent(w) ==
  LET c  == cur[w]
      k  == CampaignOf[c]
      st == [status EXCEPT ![c] = "sent"]
  IN /\ pc[w] = "recordSent"
     /\ IF c \in sentLog
        THEN /\ Goto(w, "threw")
             /\ UNCHANGED <<dbVars, unwritten>>
        ELSE /\ Goto(w, "done")
             /\ status' = st
             /\ sentLog' = sentLog \cup {c}
             /\ recent' = recent \cup {c}
             /\ sentCount' = [sentCount EXCEPT ![k] = Cardinality(Having(k, "sent", st))]
             /\ campaign' = CompleteIfDone(k, st)
             /\ unwritten' = unwritten \ {c}
             /\ UNCHANGED <<claimed, attempts, errorCount>>
     /\ UNCHANGED <<queueVars, handler, plan, delivered, faults>>

\* recordFailure's transaction: whatever the contact's status was.
FailureRecorded(c) ==
  LET k  == CampaignOf[c]
      st == [status EXCEPT ![c] = "failed"]
  IN /\ status' = st
     /\ claimed' = claimed \ {c}
     /\ errorCount' = [errorCount EXCEPT ![k] = Cardinality(Having(k, "failed", st))]
     /\ campaign' = CompleteIfDone(k, st)
     /\ unwritten' = unwritten \ {c}
     /\ UNCHANGED <<attempts, sentLog, recent, sentCount, delivered>>

RecordFailure(w) ==
  /\ pc[w] \in {"refuse", "recordFailure"}
  /\ FailureRecorded(cur[w])
  /\ Goto(w, "done")
  /\ UNCHANGED <<queueVars, handler, plan, faults>>

\* A statement fails, nothing of it committed; or the one before committed and
\* its answer was lost (at "send" the attempt's, at "done" the outcome's).  The
\* processor throws where it stands.  Prepare's own errors release the claim.
DbError(w) ==
  /\ pc[w] \in (Holding \ {"prepare"}) \cup {"pause", "done"}
  /\ Fault
  /\ Goto(w, "threw")
  /\ UNCHANGED <<dbVars, queueVars, handler, plan, history>>

-----------------------------------------------------------------------------
(* BullMQ and the 'failed' handler of worker.ts.                           *)

LeaveJob(w) ==
  /\ pc' = [pc EXCEPT ![w] = "idle"]
  /\ cur' = [cur EXCEPT ![w] = NoContact]

\* removeOnComplete, unless the lock was lost: then the job is not its to move.
JobCompletes(w) ==
  /\ pc[w] = "done"
  /\ LeaveJob(w)
  /\ IF lock[cur[w]] = w
     THEN /\ job' = [job EXCEPT ![cur[w]] = "none"]
          /\ lock' = [lock EXCEPT ![cur[w]] = NoWorker]
          /\ tries' = [tries EXCEPT ![cur[w]] = 0]
     ELSE UNCHANGED queueVars
  /\ UNCHANGED <<dbVars, handler, plan, history, faults>>

\* Retried with a backoff, or failed and handed to failAfterLastAttempt.
JobThrows(w) ==
  LET c == cur[w]
  IN /\ pc[w] = "threw"
     /\ LeaveJob(w)
     /\ IF lock[c] # w
        THEN UNCHANGED <<queueVars, handler>>
        ELSE /\ lock' = [lock EXCEPT ![c] = NoWorker]
             /\ tries' = [tries EXCEPT ![c] = @ + 1]
             /\ IF tries[c] + 1 < SendAttempts
                THEN /\ job' = [job EXCEPT ![c] = "waiting"]
                     /\ UNCHANGED handler
                ELSE /\ job' = [job EXCEPT ![c] = "failed"]
                     /\ handler' = [handler EXCEPT ![c] = "read"]
     /\ UNCHANGED <<dbVars, plan, history, faults>>

\* Variant: without "AND status = 'pending'".
FailAfterLastAttemptAnyway(c) ==
  /\ handler[c] = "read"
  /\ handler' = [handler EXCEPT ![c] = "write"]
  /\ UNCHANGED <<dbVars, queueVars, workerVars, plan, history, faults>>

\* recordFailureById reads the contact, only if still pending ...
FailAfterLastAttempt(c) ==
  /\ handler[c] = "read"
  /\ handler' = [handler EXCEPT ![c] = IF status[c] = "pending" THEN "write" ELSE "none"]
  /\ UNCHANGED <<dbVars, queueVars, workerVars, plan, history, faults>>

\* ... then records the failure, in a transaction of its own.
RecordFailureById(c) ==
  /\ handler[c] = "write"
  /\ FailureRecorded(c)
  /\ handler' = [handler EXCEPT ![c] = "none"]
  /\ UNCHANGED <<queueVars, workerVars, plan, faults>>

\* The handler's error is logged and nothing else; or its process dies.
HandlerLost(c) ==
  /\ handler[c] # "none"
  /\ Fault
  /\ handler' = [handler EXCEPT ![c] = "none"]
  /\ UNCHANGED <<dbVars, queueVars, workerVars, plan, history>>

\* The process dies: the job stays active under a lock nobody renews.
Crash(w) ==
  /\ pc[w] # "idle"
  /\ Fault
  /\ LeaveJob(w)
  /\ UNCHANGED <<dbVars, queueVars, handler, plan, history>>

BackToWaiting(c) ==
  /\ job[c] = "active"
  /\ job' = [job EXCEPT ![c] = "waiting"]
  /\ lock' = [lock EXCEPT ![c] = NoWorker]
  /\ UNCHANGED <<dbVars, tries, workerVars, handler, plan, history>>

\* The stalled check finds the job of a dead process ...
RecoverStalled(c) ==
  /\ \A w \in Workers : lock[c] = w => cur[w] # c
  /\ BackToWaiting(c)
  /\ NoFault

\* ... or of a live one that could not renew its lock.
LoseLock(c) ==
  /\ \E w \in Workers : lock[c] = w /\ cur[w] = c
  /\ Fault
  /\ BackToWaiting(c)

\* removeOnFail: a failed job is dropped after a week, long after any live
\* worker that is not frozen has left the contact.
JobExpires(c) ==
  /\ job[c] = "failed"
  /\ handler[c] = "none"
  /\ \A w \in Workers \ Frozen : cur[w] # c
  /\ job' = [job EXCEPT ![c] = "none"]
  /\ tries' = [tries EXCEPT ![c] = 0]
  /\ UNCHANGED <<dbVars, lock, workerVars, handler, plan, history, faults>>

-----------------------------------------------------------------------------
(* Time, retention and the user.                                           *)

\* Variant: a claim with no expiry.
ClaimNeverExpires(c) == c \in claimed /\ FALSE /\ UNCHANGED vars

\* CLAIM_TIMEOUT passes.  Only a frozen worker is still at work by then.
ClaimExpires(c) ==
  /\ c \in claimed
  /\ \A w \in Workers \ Frozen : ~Holds(w, c)
  /\ claimed' = claimed \ {c}
  /\ UNCHANGED <<status, attempts, sentLog, recent, campaign, sentCount,
                 errorCount, queueVars, workerVars, handler, plan, history, faults>>

\* 24 hours pass since the send.
WindowFrees(c) ==
  /\ c \in recent
  /\ recent' = recent \ {c}
  /\ UNCHANGED <<status, claimed, attempts, sentLog, campaign, sentCount,
                 errorCount, queueVars, workerVars, handler, plan, history, faults>>

\* Variant: a cut-off inside the 24-hour window.
PurgeLogTooSoon(c) ==
  /\ c \in sentLog
  /\ sentLog' = sentLog \ {c}
  /\ UNCHANGED <<status, claimed, attempts, recent, campaign, sentCount,
                 errorCount, queueVars, workerVars, handler, plan, history, faults>>

\* services/retention.ts: twelve months pass and the log row is purged.
PurgeLog(c) ==
  /\ c \in sentLog \ recent
  /\ sentLog' = sentLog \ {c}
  /\ UNCHANGED <<status, claimed, attempts, recent, campaign, sentCount,
                 errorCount, queueVars, workerVars, handler, plan, history, faults>>

\* PATCH /contacts/:id: no look at the contact's or the campaign's state.
EditContact(c) ==
  /\ c \in Edited
  /\ \E s \in {"pending", "ignored"} :
       status[c] # s /\ status' = [status EXCEPT ![c] = s]
  /\ UNCHANGED <<claimed, attempts, sentLog, recent, campaign, sentCount,
                 errorCount, queueVars, workerVars, handler, plan, history, faults>>

SetCampaign(k, from, to) ==
  /\ campaign[k] \in from
  /\ campaign' = [campaign EXCEPT ![k] = to]
  /\ UNCHANGED <<status, claimed, attempts, sentLog, recent, sentCount, errorCount,
                 queueVars, workerVars, handler, plan, history, faults>>

Pause(k)  == SetCampaign(k, {"scheduled", "running"}, "paused")
Resume(k) == SetCampaign(k, {"paused"}, "running")

-----------------------------------------------------------------------------
\* Campaigns just launched, which takes a pending contact (routes/campaigns.ts);
\* the user may have set others aside.
Init ==
  /\ status     \in [Contacts -> {"pending", "ignored"}]
  /\ \A k \in Campaigns : Having(k, "pending", status) # {}
  /\ claimed    = {}
  /\ attempts   = [c \in Contacts |-> 0]
  /\ sentLog    = {}
  /\ recent     = {}
  /\ campaign   = [k \in Campaigns |-> "scheduled"]
  /\ sentCount  = [k \in Campaigns |-> 0]
  /\ errorCount = [k \in Campaigns |-> 0]
  /\ job        = [c \in Contacts |-> "none"]
  /\ lock       = [c \in Contacts |-> NoWorker]
  /\ tries      = [c \in Contacts |-> 0]
  /\ pc         = [w \in Workers |-> "idle"]
  /\ cur        = [w \in Workers |-> NoContact]
  /\ handler    = [c \in Contacts |-> "none"]
  /\ plan       = {}
  /\ delivered  = [c \in Contacts |-> 0]
  /\ unwritten  = {}
  /\ faults     = 0

\* What a worker does next on the job it has, faults left out.
WorkerStep(w) ==
  \/ CheckLimit(w) \/ Prepare(w) \/ ReleaseClaim(w)
  \/ PauseForReauthorization(w) \/ CountAttempt(w) \/ GmailAnswers(w)
  \/ RollBack(w) \/ RecordSent(w) \/ RecordFailure(w)
  \/ JobCompletes(w) \/ JobThrows(w)

HandlerStep(c) == FailAfterLastAttempt(c) \/ RecordFailureById(c)

Next ==
  \/ \E k \in Campaigns : Dispatch(k) \/ Pause(k) \/ Resume(k)
  \/ \E w \in Workers : WorkerStep(w) \/ DbError(w) \/ Crash(w)
  \/ \E w \in Workers, c \in Contacts : Claim(w, c) \/ ClaimFails(w, c)
  \/ \E c \in Contacts :
       \/ EnqueueSend(c) \/ HandlerStep(c) \/ HandlerLost(c)
       \/ RecoverStalled(c) \/ LoseLock(c) \/ JobExpires(c)
       \/ ClaimExpires(c) \/ WindowFrees(c) \/ PurgeLog(c) \/ EditContact(c)
  \/ LosePlan

Spec == Init /\ [][Next]_vars

\* A plan made inside the sending hours, with room in the campaign's own pace.
DispatchInHours(k) ==
  Dispatch(k) /\ (Room > 0 /\ Dispatchable(k) # {} => plan' \cap Dispatchable(k) # {})

(***************************************************************************)
(* A live process does its next step; BullMQ hands out waiting jobs in     *)
(* order, so none waits forever behind the others; the planner runs at     *)
(* least every fifteen minutes, now and then in sending hours; the stalled *)
(* check runs every five minutes; clocks run.  Nothing is assumed of the   *)
(* user, of faults, of the purge, or of the removal of failed jobs, which  *)
(* BullMQ only does in passing.                                            *)
(***************************************************************************)
Fairness ==
  /\ \A w \in Workers : WF_vars(WorkerStep(w))
  /\ \A c \in Contacts :
       /\ SF_vars(\E w \in Workers : Claim(w, c))
       /\ WF_vars(EnqueueSend(c))
       /\ WF_vars(HandlerStep(c))
       /\ WF_vars(RecoverStalled(c))
       /\ WF_vars(ClaimExpires(c))
       /\ WF_vars(WindowFrees(c))
  /\ \A k \in Campaigns : WF_vars(DispatchInHours(k))

FairSpec == Spec /\ Fairness

-----------------------------------------------------------------------------
(* Properties.                                                             *)

\* No contact receives the campaign's message twice, whatever crashes, retries,
\* stalls, relaunches and lost answers happen: docs/send-engine.md:85.
AtMostOnce == \A c \in Contacts : delivered[c] <= 1

\* A contact Gmail accepted a message for always carries an attempt, so that
\* a worker taking it later recognises the case (sendEngine.ts:140, 205-209).
CrashIsRecognisable == \A c \in Contacts : delivered[c] > 0 => attempts[c] > 0

\* Two workers never have the same contact in hand (sendEngine.ts:73-79).
OneHolder ==
  \A c \in Contacts, v, w \in Workers : Holds(v, c) /\ Holds(w, c) => v = w

\* With one worker, the sends logged in any 24 hours stay within the account's
\* ceiling, over all its campaigns (sendEngine.ts:168-176, dispatch.ts:178).
CeilingHolds == Cardinality(recent) <= DailyLimit

\* The counters the interface shows agree with the rows (sendEngine.ts:251).
CountsMatchRows ==
  \A k \in Campaigns :
    /\ sentCount[k] = Cardinality(Having(k, "sent", status))
    /\ errorCount[k] = Cardinality(Having(k, "failed", status))

\* A completed campaign has nothing left to send, and nobody about to send it.
CompletedIsSettled ==
  \A c \in Contacts : campaign[CampaignOf[c]] = "completed" =>
    /\ status[c] # "pending"
    /\ \A w \in Workers : ~Holds(w, c)

\* Once a campaign is not running, no further contact of it is taken in hand:
\* only the message already in flight may still leave (sendEngine.ts:90-96).
InHand(k) == {c \in ContactsOf(k) : \E w \in Workers : Holds(w, c)}

PauseStopsClaims ==
  [][\A k \in Campaigns : campaign[k] # "running" => InHand(k)' \subseteq InHand(k)]_vars

\* A contact recorded as sent is never turned into a failure by the engine: it
\* "keeps the outcome it has" (sendEngine.ts:364-366).
SentStaysSent ==
  [][\A c \in Contacts : status[c] = "sent" => status'[c] # "failed"]_vars

\* The contact of a job out of attempts reached nobody (processors.ts:55-58).
ExhaustedReachedNobody ==
  \A c \in Contacts : handler[c] = "write" => delivered[c] = 0

\* A contact left pending with its job among the failed ones: the queue
\* refuses to enqueue it again, yet each plan spends a slot on it.
Stuck(c) == status[c] = "pending" /\ job[c] = "failed" /\ handler[c] = "none"

\* The contact of a failed job kept for diagnosis is decided: "already marked
\* failed" (queues.ts:35).
KeptJobIsDecided == \A c \in Contacts : ~Stuck(c)

\* A contact is refused as ambiguous only when an earlier attempt has no
\* outcome written down (sendEngine.ts:104-106, docs/send-engine.md:147-149).
AmbiguousMeansUnwritten ==
  \A w \in Workers : pc[w] = "refuse" => cur[w] \in unwritten

\* A pending contact of a running campaign is eventually decided, unless its
\* campaign stops running or has a stuck contact: a dead worker's claim expires
\* and the plan takes its contact again (dispatch.ts:140-142).
PendingIsSettled ==
  \A c \in Contacts :
    (status[c] = "pending" /\ campaign[CampaignOf[c]] = "running")
      ~> \/ status[c] # "pending"
         \/ campaign[CampaignOf[c]] # "running"
         \/ \E d \in ContactsOf(CampaignOf[c]) : Stuck(d)

\* A running campaign with nothing pending does not stay running for good, even
\* when its last outcome was recorded while it was paused (dispatch.ts:153-157).
EmptyCampaignEnds ==
  \A k \in Campaigns :
    (campaign[k] = "running" /\ Having(k, "pending", status) = {})
      ~> (campaign[k] # "running" \/ Having(k, "pending", status) # {})

\* Why all this holds as long as no worker outlives its claim.  The contact in
\* a worker's hand is protected by its live claim; if the last-attempt handler
\* of the same job cleared it, by the failed job that blocks the next one.
HolderProtected ==
  \A c \in Contacts, w \in Workers : Holds(w, c) => c \in claimed \/ job[c] = "failed"

\* The 'failed' handler only ever works on a job that failed (worker.ts:188-212).
HandlerFollowsFailure == \A c \in Contacts : handler[c] # "none" => job[c] = "failed"

\* A locked job is an active one.
LockMeansActive == \A c \in Contacts : lock[c] # NoWorker => job[c] = "active"

\* The attempt count of a contact in hand says how far its send got: the counter
\* moves before Gmail is called, and back when nothing left (sendEngine.ts:205-230).
AttemptsTellTheStep ==
  \A w \in Workers :
    /\ pc[w] \in BeforeAttempt => attempts[cur[w]] = 0
    /\ pc[w] \in AfterAttempt => attempts[cur[w]] = 1
    /\ pc[w] \in {"send", "rollBack"} => delivered[cur[w]] = 0
    /\ pc[w] = "recordSent" => delivered[cur[w]] = 1

\* What the log says was sent did reach Gmail, once.
SentWasReceived == \A c \in sentLog : delivered[c] = 1

\* All of it together: the inductive invariant.
IInv ==
  /\ TypeOK
  /\ OneHolder
  /\ HolderProtected
  /\ HandlerFollowsFailure
  /\ LockMeansActive
  /\ AttemptsTellTheStep
  /\ AtMostOnce
  /\ CrashIsRecognisable
  /\ SentWasReceived

\* Why an outcome stands when a single worker sends, frozen or not.  The contact in
\* its hands has its job before it, not behind, so the last-attempt handler is
\* never at work on it (worker.ts:188-212); and neither finds it sent.
HandBeforeOutcome ==
  \A w \in Workers, c \in Contacts :
    Holds(w, c) => job[c] \in {"waiting", "active"} /\ status[c] # "sent"
HandlerBeforeOutcome ==
  \A c \in Contacts : handler[c] = "write" => status[c] # "sent"

OutcomeInv ==
  /\ TypeOK
  /\ HandlerFollowsFailure /\ LockMeansActive
  /\ HandBeforeOutcome /\ HandlerBeforeOutcome

\* If nobody edits the contacts, both find theirs pending, so a campaign with
\* nothing pending has nothing in hand.
PendingUntilOutcome ==
  \A c \in Contacts :
    /\ \A w \in Workers : Holds(w, c) => status[c] = "pending"
    /\ handler[c] = "write" => status[c] = "pending"

SettledInv == OutcomeInv /\ PendingUntilOutcome /\ CompletedIsSettled /\ CountsMatchRows

\* Why the ceiling holds with one worker, and how far several may pass it: each
\* passes the check with room for itself, whatever the others are about to send.
PastCheck ==
  {w \in Workers : pc[w] \in {"prepare", "attempt", "send", "recordSent"}}

CeilingMargin ==
  Cardinality(recent) + Cardinality(PastCheck) < DailyLimit + Cardinality(Workers)

\* The engine implements the outbox: every step of it is one of the outbox's,
\* or none (docs/send-engine.md, "Idempotency, in three layers").
Open  == {c \in Contacts : campaign[CampaignOf[c]] = "running"}
Taken == {c \in Contacts : \E w \in Workers : Holds(w, c)}
Promise == INSTANCE Outbox WITH
  open <- Open, taken <- Taken, inbox <- delivered, reported <- sentLog

KeepsPromise == Promise!Spec
=============================================================================

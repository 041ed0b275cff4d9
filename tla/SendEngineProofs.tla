-------------------------- MODULE SendEngineProofs --------------------------
(***************************************************************************)
(* What is proved of the send engine for every set of contacts, campaigns  *)
(* and workers, every limit and any number of faults.                      *)
(***************************************************************************)
EXTENDS SendEngine, FiniteSetTheorems, TLAPS

-----------------------------------------------------------------------------
(* Typing.                                                                 *)

\* A count over contacts is a natural number.
LEMMA CountType ==
  ASSUME NEW k, NEW s, NEW st
  PROVE  Cardinality(Having(k, s, st)) \in Nat
<1>1. Having(k, s, st) \subseteq Contacts
  BY DEF Having, ContactsOf
<1>2. IsFiniteSet(Having(k, s, st))
  BY <1>1, ConstantsAssumption, FS_Subset
<1>3. QED
  BY <1>2, FS_CardinalityType

\* completeIfDone leaves a campaign status.
LEMMA CompleteType ==
  ASSUME campaign \in [Campaigns -> CampaignStatus], NEW k \in Campaigns, NEW st
  PROVE  CompleteIfDone(k, st) \in [Campaigns -> CampaignStatus]
BY DEF CompleteIfDone, CampaignStatus

\* Every step of the sending process keeps the variables in their types.
LEMMA WorkerStepType ==
  ASSUME TypeOK, NEW w \in Workers, WorkerStep(w)
  PROVE  TypeOK'
<1> USE ConstantsAssumption
<1> USE DEF TypeOK, Goto, dbVars, queueVars, workerVars, history,
            Step, Holding, BeforeAttempt, AfterAttempt
<1>0. pc[w] # "idle" => cur[w] \in Contacts
  OBVIOUS
<1>1. CASE CheckLimit(w)
  BY <1>1 DEF CheckLimit
<1>2. CASE Prepare(w)
  BY <1>2 DEF Prepare
<1>3. CASE ReleaseClaim(w)
  BY <1>3 DEF ReleaseClaim
<1>4. CASE PauseForReauthorization(w)
  BY <1>0, <1>4 DEF PauseForReauthorization, CampaignStatus
<1>5. CASE CountAttempt(w)
  BY <1>0, <1>5 DEF CountAttempt
<1>6. CASE GmailAnswers(w)
  BY <1>0, <1>6 DEF GmailAnswers
<1>7. CASE RollBack(w)
  BY <1>0, <1>7 DEF RollBack
<1>8. CASE RecordSent(w)
  BY <1>0, <1>8, CountType, CompleteType DEF RecordSent, ContactStatus
<1>9. CASE RecordFailure(w)
  BY <1>0, <1>9, CountType, CompleteType
     DEF RecordFailure, FailureRecorded, ContactStatus
<1>10. CASE JobCompletes(w)
  BY <1>10 DEF JobCompletes, LeaveJob, JobState
<1>11. CASE JobThrows(w)
  BY <1>0, <1>11 DEF JobThrows, LeaveJob, JobState
<1>12. QED
  BY <1>1, <1>2, <1>3, <1>4, <1>5, <1>6, <1>7, <1>8, <1>9, <1>10, <1>11
     DEF WorkerStep

\* So does every other step: queue, handler, planner, clocks, user, faults.
LEMMA OtherStepType ==
  ASSUME TypeOK, [Next]_vars, ~ \E w \in Workers : WorkerStep(w)
  PROVE  TypeOK'
<1> USE ConstantsAssumption
<1> USE DEF TypeOK, Goto, dbVars, queueVars, workerVars, history, BackToWaiting,
            Step, Holding, BeforeAttempt, AfterAttempt, JobState, Fault, NoFault
<1>1. ASSUME NEW k \in Campaigns, Dispatch(k) PROVE TypeOK'
  BY <1>1 DEF Dispatch, PlanSends, Dispatchable, ContactsOf, CampaignStatus
<1>2. ASSUME NEW k \in Campaigns, Pause(k) \/ Resume(k) PROVE TypeOK'
  BY <1>2 DEF Pause, Resume, SetCampaign, CampaignStatus
<1>3. ASSUME NEW w \in Workers, DbError(w) PROVE TypeOK'
  BY <1>3 DEF DbError
<1>4. ASSUME NEW w \in Workers, Crash(w) PROVE TypeOK'
  BY <1>4 DEF Crash, LeaveJob
<1>5. ASSUME NEW w \in Workers, NEW c \in Contacts, Claim(w, c) PROVE TypeOK'
  BY <1>5 DEF Claim, StartJob
<1>6. ASSUME NEW w \in Workers, NEW c \in Contacts, ClaimFails(w, c) PROVE TypeOK'
  BY <1>6 DEF ClaimFails, StartJob
<1>7. ASSUME NEW c \in Contacts, EnqueueSend(c) PROVE TypeOK'
  BY <1>7 DEF EnqueueSend
<1>8. ASSUME NEW c \in Contacts, FailAfterLastAttempt(c) PROVE TypeOK'
  BY <1>8 DEF FailAfterLastAttempt
<1>9. ASSUME NEW c \in Contacts, RecordFailureById(c) PROVE TypeOK'
  BY <1>9, CountType, CompleteType
     DEF RecordFailureById, FailureRecorded, ContactStatus
<1>10. ASSUME NEW c \in Contacts, HandlerLost(c) PROVE TypeOK'
  BY <1>10 DEF HandlerLost
<1>11. ASSUME NEW c \in Contacts, RecoverStalled(c) \/ LoseLock(c) PROVE TypeOK'
  BY <1>11 DEF RecoverStalled, LoseLock
<1>12. ASSUME NEW c \in Contacts, JobExpires(c) PROVE TypeOK'
  BY <1>12 DEF JobExpires
<1>13. ASSUME NEW c \in Contacts, ClaimExpires(c) \/ WindowFrees(c) \/ PurgeLog(c)
       PROVE  TypeOK'
  BY <1>13 DEF ClaimExpires, WindowFrees, PurgeLog
<1>14. ASSUME NEW c \in Contacts, EditContact(c) PROVE TypeOK'
  BY <1>14 DEF EditContact, ContactStatus
<1>15. CASE LosePlan
  BY <1>15 DEF LosePlan
<1>16. CASE UNCHANGED vars
  BY <1>16 DEF vars
<1>17. QED
  BY <1>1, <1>2, <1>3, <1>4, <1>5, <1>6, <1>7, <1>8, <1>9, <1>10, <1>11,
     <1>12, <1>13, <1>14, <1>15, <1>16 DEF Next, HandlerStep

\* The engine's variables keep their types, faults or not.
THEOREM TypeCorrect == Spec => []TypeOK
<1>1. Init => TypeOK
  BY ConstantsAssumption
     DEF Init, TypeOK, ContactStatus, CampaignStatus, JobState, Step
<1>2. TypeOK /\ [Next]_vars => TypeOK'
  BY WorkerStepType, OtherStepType
<1>3. QED
  BY <1>1, <1>2, PTL DEF Spec

-----------------------------------------------------------------------------
(* At most one message per contact, as long as no worker outlives its      *)
(* claim.  The inductive invariant is IInv: who holds a contact, what      *)
(* protects it, and what the attempt count says of the step reached.       *)

\* IInv without its typing, which is preserved by the lemmas above.
Safe ==
  /\ OneHolder
  /\ HolderProtected
  /\ HandlerFollowsFailure
  /\ LockMeansActive
  /\ AttemptsTellTheStep
  /\ AtMostOnce
  /\ CrashIsRecognisable
  /\ SentWasReceived

\* A worker with a contact in hand is alone on it.
LEMMA Alone ==
  ASSUME IInv, NEW w \in Workers, pc[w] \in Holding
  PROVE  /\ cur[w] \in Contacts
         /\ \A v \in Workers \ {w} : pc[v] \in Holding => cur[v] # cur[w]
<1>1. cur[w] \in Contacts
  BY DEF IInv, TypeOK, Holding, BeforeAttempt, AfterAttempt
<1>2. QED
  BY <1>1 DEF IInv, OneHolder, Holds

\* Steps of a worker that change nothing but where it stands.
LEMMA MoveSafe ==
  ASSUME IInv, NEW w \in Workers,
         CheckLimit(w) \/ Prepare(w) \/ DbError(w) \/ PauseForReauthorization(w)
  PROVE  Safe'
<1> USE DEF IInv, Safe, CheckLimit, Prepare, DbError, PauseForReauthorization, Goto,
            dbVars, queueVars, history, Step, Holding, BeforeAttempt, AfterAttempt
<1>1. UNCHANGED <<cur, attempts, delivered, claimed, job, lock, handler, sentLog>>
  OBVIOUS
<1>2. pc \in [Workers -> Step] /\ pc' \in [Workers -> Step]
  BY DEF TypeOK
<1>3. /\ pc'[w] \in Holding => pc[w] \in Holding
      /\ \A v \in Workers \ {w} : pc'[v] = pc[v]
  BY <1>2
<1>4. OneHolder' /\ HolderProtected'
  BY <1>1, <1>3 DEF OneHolder, HolderProtected, Holds
<1>5. AttemptsTellTheStep'
  BY <1>1, <1>2, <1>3 DEF AttemptsTellTheStep
<1>6. QED
  BY <1>1, <1>4, <1>5 DEF HandlerFollowsFailure, LockMeansActive, AtMostOnce,
     CrashIsRecognisable, SentWasReceived

\* What the attempt count says of the other workers survives a step that
\* touches the counts of this worker's contact only.
LEMMA OthersKeep ==
  ASSUME IInv, NEW w \in Workers, pc[w] \in Holding,
         cur' = cur,
         \A v \in Workers \ {w} : pc'[v] = pc[v],
         \A c \in Contacts \ {cur[w]} :
           attempts'[c] = attempts[c] /\ delivered'[c] = delivered[c],
         pc'[w] \in BeforeAttempt => attempts'[cur[w]] = 0,
         pc'[w] \in AfterAttempt => attempts'[cur[w]] = 1,
         pc'[w] \in {"send", "rollBack"} => delivered'[cur[w]] = 0,
         pc'[w] = "recordSent" => delivered'[cur[w]] = 1
  PROVE  AttemptsTellTheStep'
<1> SUFFICES ASSUME NEW v \in Workers, pc'[v] \in BeforeAttempt \cup AfterAttempt
             PROVE  /\ pc'[v] \in BeforeAttempt => attempts'[cur[v]] = 0
                    /\ pc'[v] \in AfterAttempt => attempts'[cur[v]] = 1
                    /\ pc'[v] \in {"send", "rollBack"} => delivered'[cur[v]] = 0
                    /\ pc'[v] = "recordSent" => delivered'[cur[v]] = 1
  BY DEF AttemptsTellTheStep, AfterAttempt
<1>1. CASE v = w
  BY <1>1
<1>2. CASE v # w
  <2>1. pc[v] = pc'[v] /\ pc[v] \in Holding
    BY <1>2 DEF Holding
  <2>2. cur[v] \in Contacts \ {cur[w]}
    BY <2>1, <1>2, Alone
  <2>3. QED
    BY <2>1, <2>2 DEF IInv, AttemptsTellTheStep
<1>3. QED
  BY <1>1, <1>2

\* The attempt is counted: from none to one, on a contact nobody else holds.
LEMMA CountAttemptSafe ==
  ASSUME IInv, NEW w \in Workers, CountAttempt(w)
  PROVE  Safe'
<1> USE DEF IInv, Safe, CountAttempt, Goto, queueVars, Step, Holding, BeforeAttempt,
            AfterAttempt
<1>1. UNCHANGED <<cur, delivered, claimed, job, lock, handler, sentLog>>
  OBVIOUS
<1>2. pc \in [Workers -> Step] /\ attempts \in [Contacts -> Nat] /\ cur[w] \in Contacts
  BY Alone DEF TypeOK
<1>3. /\ pc'[w] = "send"
      /\ \A v \in Workers \ {w} : pc'[v] = pc[v]
      /\ \A v \in Workers : pc'[v] \in Holding => pc[v] \in Holding
  BY <1>2
<1>4. /\ attempts[cur[w]] = 0 /\ delivered[cur[w]] = 0
      /\ attempts'[cur[w]] = 1
      /\ \A c \in Contacts \ {cur[w]} : attempts'[c] = attempts[c]
  BY <1>2 DEF AttemptsTellTheStep, CrashIsRecognisable, TypeOK
<1>5. OneHolder' /\ HolderProtected'
  BY <1>1, <1>3 DEF OneHolder, HolderProtected, Holds
<1>6. AttemptsTellTheStep'
  BY <1>1, <1>3, <1>4, OthersKeep
<1>7. AtMostOnce' /\ CrashIsRecognisable' /\ SentWasReceived'
  BY <1>1, <1>4 DEF AtMostOnce, CrashIsRecognisable, SentWasReceived
<1>8. QED
  BY <1>1, <1>5, <1>6, <1>7 DEF HandlerFollowsFailure, LockMeansActive

\* Gmail accepts the contact's first message, or does not.
LEMMA GmailAnswersSafe ==
  ASSUME IInv, NEW w \in Workers, GmailAnswers(w)
  PROVE  Safe'
<1> USE DEF IInv, Safe, GmailAnswers, Goto, dbVars, queueVars, Step, Holding,
            BeforeAttempt, AfterAttempt
<1>1. UNCHANGED <<cur, attempts, claimed, job, lock, handler, sentLog>>
  OBVIOUS
<1>2. pc \in [Workers -> Step] /\ delivered \in [Contacts -> Nat] /\ cur[w] \in Contacts
  BY Alone DEF TypeOK
<1>3. /\ pc'[w] \in {"recordSent", "recordFailure", "rollBack"}
      /\ \A v \in Workers \ {w} : pc'[v] = pc[v]
      /\ \A v \in Workers : pc'[v] \in Holding => pc[v] \in Holding
  BY <1>2
<1>4. /\ attempts[cur[w]] = 1 /\ delivered[cur[w]] = 0
      /\ delivered'[cur[w]] \in {0, 1}
      /\ pc'[w] = "rollBack" => delivered'[cur[w]] = 0
      /\ pc'[w] = "recordSent" => delivered'[cur[w]] = 1
      /\ \A c \in Contacts \ {cur[w]} : delivered'[c] = delivered[c]
  BY <1>2 DEF AttemptsTellTheStep
<1>5. OneHolder' /\ HolderProtected'
  BY <1>1, <1>3 DEF OneHolder, HolderProtected, Holds
<1>6. AttemptsTellTheStep'
  BY <1>1, <1>3, <1>4, OthersKeep
<1>7. AtMostOnce' /\ CrashIsRecognisable' /\ SentWasReceived'
  <2>1. cur[w] \notin sentLog
    BY <1>4 DEF SentWasReceived
  <2>2. QED
    BY <1>1, <1>4, <2>1 DEF AtMostOnce, CrashIsRecognisable, SentWasReceived, TypeOK
<1>8. QED
  BY <1>1, <1>5, <1>6, <1>7 DEF HandlerFollowsFailure, LockMeansActive

\* The worker gives its contact back: a release, a roll-back, an outcome.
LEMMA GiveBackSafe ==
  ASSUME IInv, NEW w \in Workers,
         ReleaseClaim(w) \/ RollBack(w) \/ RecordSent(w) \/ RecordFailure(w)
  PROVE  Safe'
<1> USE DEF IInv, Safe, ReleaseClaim, RollBack, RecordSent, RecordFailure,
            FailureRecorded, Goto, dbVars, queueVars, history, Step, Holding,
            BeforeAttempt, AfterAttempt
<1>1. UNCHANGED <<cur, delivered, job, lock, handler>>
  OBVIOUS
<1>2. /\ pc[w] \in Holding
      /\ pc \in [Workers -> Step]
      /\ attempts \in [Contacts -> Nat]
      /\ cur[w] \in Contacts
  <2>1. pc[w] \in Holding
    OBVIOUS
  <2>2. QED
    BY <2>1, Alone DEF TypeOK
<1>3. /\ pc'[w] \in {"done", "threw", "pause"}
      /\ \A v \in Workers \ {w} : pc'[v] = pc[v]
  BY <1>2
<1>4. claimed' \in {claimed, claimed \ {cur[w]}}
  OBVIOUS
<1>5. /\ \A c \in Contacts \ {cur[w]} : attempts'[c] = attempts[c]
      /\ delivered[cur[w]] > 0 => attempts'[cur[w]] = attempts[cur[w]]
  <2>1. CASE RollBack(w)
    BY <2>1, <1>2 DEF AttemptsTellTheStep
  <2>2. CASE ~RollBack(w)
    BY <2>2
  <2>3. QED
    BY <2>1, <2>2
<1>6. OneHolder'
  BY <1>1, <1>3 DEF OneHolder, Holds
<1>7. HolderProtected'
  <2> SUFFICES ASSUME NEW c \in Contacts, NEW v \in Workers, Holds(v, c)'
               PROVE  c \in claimed' \/ job[c] = "failed"
    BY <1>1 DEF HolderProtected
  <2>1. v # w /\ Holds(v, c)
    BY <1>1, <1>3 DEF Holds
  <2>2. c # cur[w]
    BY <1>2, <2>1, Alone DEF Holds
  <2>3. QED
    BY <2>1, <2>2, <1>4 DEF HolderProtected
<1>8. AttemptsTellTheStep'
  BY <1>1, <1>2, <1>3, <1>5, OthersKeep
<1>9. CrashIsRecognisable' /\ AtMostOnce'
  BY <1>1, <1>2, <1>5 DEF CrashIsRecognisable, AtMostOnce
<1>10. SentWasReceived'
  BY <1>1, <1>2 DEF SentWasReceived, AttemptsTellTheStep
<1>11. QED
  BY <1>1, <1>6, <1>7, <1>8, <1>9, <1>10 DEF HandlerFollowsFailure, LockMeansActive

\* The worker leaves: its job is moved only if its lock is still its own.
LEMMA LeaveSafe ==
  ASSUME IInv, NEW w \in Workers, JobCompletes(w) \/ JobThrows(w) \/ Crash(w)
  PROVE  Safe'
<1> USE DEF IInv, Safe, JobCompletes, JobThrows, Crash, LeaveJob, dbVars, queueVars,
            history
<1>1. UNCHANGED <<attempts, delivered, claimed, sentLog>>
  OBVIOUS
<1>2. /\ pc'[w] = "idle"
      /\ \A v \in Workers \ {w} : pc'[v] = pc[v] /\ cur'[v] = cur[v]
  BY DEF TypeOK
<1>3. \A c \in Contacts :
        \/ job'[c] = job[c] /\ lock'[c] = lock[c] /\ handler'[c] = handler[c]
        \/ /\ job[c] = "active" /\ lock'[c] = NoWorker
           /\ handler'[c] = handler[c] \/ job'[c] = "failed"
  BY ConstantsAssumption DEF TypeOK, LockMeansActive
<1>4. OneHolder'
  BY <1>2 DEF OneHolder, Holds, Holding, BeforeAttempt, AfterAttempt
<1>5. HolderProtected'
  BY <1>1, <1>2, <1>3 DEF HolderProtected, Holds, Holding, BeforeAttempt, AfterAttempt
<1>6. HandlerFollowsFailure' /\ LockMeansActive'
  BY <1>3 DEF HandlerFollowsFailure, LockMeansActive
<1>7. AttemptsTellTheStep'
  BY <1>1, <1>2 DEF AttemptsTellTheStep, BeforeAttempt, AfterAttempt
<1>8. QED
  BY <1>1, <1>4, <1>5, <1>6, <1>7 DEF AtMostOnce, CrashIsRecognisable, SentWasReceived

\* A job is started; the contact is taken only if no claim on it is live, and
\* then nobody holds it: the job was waiting, hence not a failed one.
LEMMA ClaimSafe ==
  ASSUME IInv, NEW w \in Workers, NEW c \in Contacts, Claim(w, c) \/ ClaimFails(w, c)
  PROVE  Safe'
<1> USE DEF IInv, Safe, Claim, ClaimFails, StartJob, dbVars, history
<1>1. UNCHANGED <<attempts, delivered, handler, sentLog>>
  OBVIOUS
<1>2. /\ job[c] = "waiting" /\ job'[c] = "active" /\ lock'[c] = w
      /\ \A d \in Contacts \ {c} : job'[d] = job[d] /\ lock'[d] = lock[d]
      /\ cur'[w] = c
      /\ \A v \in Workers \ {w} : pc'[v] = pc[v] /\ cur'[v] = cur[v]
  BY DEF TypeOK
<1>3. claimed \subseteq claimed'
  OBVIOUS
<1>4. /\ pc'[w] \in {"refuse", "count", "done", "threw"}
      /\ pc'[w] \in {"refuse", "count"} => c \in claimed' \ claimed
      /\ pc'[w] = "count" => attempts[c] = 0
  BY DEF TypeOK, Claimable, IsAmbiguous
<1>5. OneHolder'
  <2> SUFFICES ASSUME NEW d \in Contacts, NEW u \in Workers, NEW v \in Workers,
                      Holds(u, d)', Holds(v, d)', u # v
               PROVE  FALSE
    BY DEF OneHolder
  <2>1. CASE u # w /\ v # w
    BY <2>1, <1>2 DEF OneHolder, Holds
  <2>2. CASE u = w \/ v = w
    <3>1. PICK x \in Workers \ {w} : Holds(x, c)
      BY <2>2, <1>2 DEF Holds
    <3>2. c \notin claimed
      BY <2>2, <1>2, <1>4 DEF Holds, Holding, BeforeAttempt, AfterAttempt
    <3>3. QED
      BY <3>1, <3>2, <1>2 DEF HolderProtected
  <2>3. QED
    BY <2>1, <2>2
<1>6. HolderProtected'
  <2> SUFFICES ASSUME NEW d \in Contacts, NEW v \in Workers, Holds(v, d)'
               PROVE  d \in claimed' \/ job'[d] = "failed"
    BY DEF HolderProtected
  <2>1. CASE v = w
    BY <2>1, <1>2, <1>4 DEF Holds, Holding, BeforeAttempt, AfterAttempt
  <2>2. CASE v # w
    BY <2>2, <1>2, <1>3 DEF HolderProtected, Holds
  <2>3. QED
    BY <2>1, <2>2
<1>7. HandlerFollowsFailure' /\ LockMeansActive'
  BY <1>1, <1>2 DEF HandlerFollowsFailure, LockMeansActive
<1>8. AttemptsTellTheStep'
  BY <1>1, <1>2, <1>4 DEF AttemptsTellTheStep, BeforeAttempt, AfterAttempt
<1>9. QED
  BY <1>1, <1>5, <1>6, <1>7, <1>8 DEF AtMostOnce, CrashIsRecognisable, SentWasReceived

\* The queue moves a job no handler is at.  Here the lifetime of a claim
\* matters: a failed job is not dropped under a live worker.
LEMMA QueueSafe ==
  ASSUME IInv, Frozen = {}, NEW c \in Contacts,
         EnqueueSend(c) \/ RecoverStalled(c) \/ LoseLock(c) \/ JobExpires(c)
  PROVE  Safe'
<1> USE DEF IInv, Safe, EnqueueSend, RecoverStalled, LoseLock, BackToWaiting, JobExpires,
            dbVars, workerVars, queueVars, history
<1>1. UNCHANGED <<pc, cur, attempts, delivered, claimed, handler, sentLog>>
  OBVIOUS
<1>2. \A d \in Contacts \ {c} : job'[d] = job[d] /\ lock'[d] = lock[d]
  BY DEF TypeOK
<1>3. job[c] = "failed" /\ job'[c] # "failed" =>
        handler[c] = "none" /\ \A w \in Workers : ~Holds(w, c)
  BY DEF TypeOK, Holds
<1>4. /\ job'[c] # job[c] => lock'[c] = NoWorker
      /\ job'[c] = job[c] => lock'[c] = lock[c]
  BY DEF TypeOK, LockMeansActive
<1>5. OneHolder' /\ AttemptsTellTheStep'
  BY <1>1 DEF OneHolder, Holds, AttemptsTellTheStep
<1>6. HolderProtected'
  BY <1>1, <1>2, <1>3 DEF HolderProtected, Holds
<1>7. HandlerFollowsFailure' /\ LockMeansActive'
  BY <1>1, <1>2, <1>3, <1>4 DEF HandlerFollowsFailure, LockMeansActive
<1>8. QED
  BY <1>1, <1>5, <1>6, <1>7 DEF AtMostOnce, CrashIsRecognisable, SentWasReceived

\* The 'failed' handler clears a claim only behind a failed job.
LEMMA HandlerSafe ==
  ASSUME IInv, NEW c \in Contacts,
         FailAfterLastAttempt(c) \/ RecordFailureById(c) \/ HandlerLost(c)
  PROVE  Safe'
<1> USE DEF IInv, Safe, FailAfterLastAttempt, RecordFailureById, HandlerLost,
            FailureRecorded, dbVars, workerVars, queueVars, history
<1>1. UNCHANGED <<pc, cur, attempts, delivered, job, lock, sentLog>>
  OBVIOUS
<1>2. /\ claimed \ {c} \subseteq claimed'
      /\ handler[c] # "none"
      /\ \A d \in Contacts \ {c} : handler'[d] = handler[d]
  BY DEF TypeOK
<1>3. job[c] = "failed"
  BY <1>2 DEF HandlerFollowsFailure
<1>4. OneHolder' /\ AttemptsTellTheStep'
  BY <1>1 DEF OneHolder, Holds, AttemptsTellTheStep
<1>5. HolderProtected'
  BY <1>1, <1>2, <1>3 DEF HolderProtected, Holds
<1>6. HandlerFollowsFailure'
  BY <1>1, <1>2, <1>3 DEF HandlerFollowsFailure
<1>7. QED
  BY <1>1, <1>4, <1>5, <1>6 DEF LockMeansActive, AtMostOnce, CrashIsRecognisable,
     SentWasReceived

\* Clocks: a claim lapses only when nobody is at work on its contact.
LEMMA ClockSafe ==
  ASSUME IInv, Frozen = {}, NEW c \in Contacts,
         ClaimExpires(c) \/ WindowFrees(c) \/ PurgeLog(c)
  PROVE  Safe'
<1> USE DEF IInv, Safe, ClaimExpires, WindowFrees, PurgeLog, workerVars, queueVars,
            history
<1>1. UNCHANGED <<pc, cur, attempts, delivered, job, lock, handler>>
  OBVIOUS
<1>2. \/ claimed' = claimed
      \/ claimed' = claimed \ {c} /\ \A w \in Workers : ~Holds(w, c)
  OBVIOUS
<1>3. sentLog' \subseteq sentLog
  OBVIOUS
<1>4. HolderProtected'
  BY <1>1, <1>2 DEF HolderProtected, Holds
<1>5. OneHolder' /\ AttemptsTellTheStep'
  BY <1>1 DEF OneHolder, Holds, AttemptsTellTheStep
<1>6. SentWasReceived'
  BY <1>1, <1>3 DEF SentWasReceived
<1>7. QED
  BY <1>1, <1>4, <1>5, <1>6 DEF HandlerFollowsFailure, LockMeansActive, AtMostOnce,
     CrashIsRecognisable

\* Planning, pausing and editing touch nothing the invariant speaks of.
LEMMA QuietSafe ==
  ASSUME IInv,
         \/ \E k \in Campaigns : Dispatch(k) \/ Pause(k) \/ Resume(k)
         \/ \E c \in Contacts : EditContact(c)
         \/ LosePlan
         \/ UNCHANGED vars
  PROVE  Safe'
<1>1. UNCHANGED <<pc, cur, attempts, delivered, claimed, job, lock, handler, sentLog>>
  BY DEF Dispatch, Pause, Resume, SetCampaign, EditContact, LosePlan, vars, dbVars,
     queueVars, workerVars, history
<1>2. QED
  BY <1>1 DEF IInv, Safe, OneHolder, HolderProtected, Holds, HandlerFollowsFailure,
     LockMeansActive, AttemptsTellTheStep, AtMostOnce, CrashIsRecognisable,
     SentWasReceived

\* IInv is inductive when no worker outlives its claim.
LEMMA Inductive ==
  ASSUME Frozen = {}, IInv, [Next]_vars
  PROVE  IInv'
<1>1. TypeOK'
  BY WorkerStepType, OtherStepType DEF IInv
<1>2. ASSUME NEW w \in Workers, WorkerStep(w) \/ DbError(w) \/ Crash(w)
      PROVE  Safe'
  BY <1>2, MoveSafe, CountAttemptSafe, GmailAnswersSafe, GiveBackSafe, LeaveSafe
     DEF WorkerStep
<1>3. ASSUME NEW c \in Contacts, ~ \E w \in Workers : Claim(w, c) \/ ClaimFails(w, c),
             \/ EnqueueSend(c) \/ HandlerStep(c) \/ HandlerLost(c)
             \/ RecoverStalled(c) \/ LoseLock(c) \/ JobExpires(c)
             \/ ClaimExpires(c) \/ WindowFrees(c) \/ PurgeLog(c)
      PROVE  Safe'
  BY <1>3, QueueSafe, HandlerSafe, ClockSafe DEF HandlerStep
<1>4. Safe'
  BY <1>2, <1>3, ClaimSafe, QuietSafe DEF Next
<1>5. QED
  BY <1>1, <1>4 DEF IInv, Safe

\* The invariant that explains the engine's safety holds throughout: a contact
\* in hand is protected by its live claim or by its failed job, and the attempt
\* count tells how far its send got (sendEngine.ts:80-113, 205-209).
THEOREM InvariantHolds ==
  ASSUME Frozen = {}
  PROVE  Spec => []IInv
<1>1. Init => IInv
  BY ConstantsAssumption
     DEF Init, IInv, TypeOK, ContactStatus, CampaignStatus, JobState, Step, OneHolder,
         Holds, Holding, BeforeAttempt, AfterAttempt, HolderProtected,
         HandlerFollowsFailure, LockMeansActive, AttemptsTellTheStep, AtMostOnce,
         CrashIsRecognisable, SentWasReceived
<1>2. IInv /\ [Next]_vars => IInv'
  BY Inductive
<1>3. QED
  BY <1>1, <1>2, PTL DEF Spec

\* No contact receives the message twice (docs/send-engine.md:85), in any number
\* of crashes, retries, stalls and lost answers.
THEOREM NeverTwice ==
  ASSUME Frozen = {}
  PROVE  Spec => []AtMostOnce
<1>1. IInv => AtMostOnce
  BY DEF IInv
<1>2. QED
  BY <1>1, InvariantHolds, PTL

\* Two workers never have the same contact in hand (sendEngine.ts:73-79).
THEOREM HeldByOne ==
  ASSUME Frozen = {}
  PROVE  Spec => []OneHolder
<1>1. IInv => OneHolder
  BY DEF IInv
<1>2. QED
  BY <1>1, InvariantHolds, PTL

\* A contact that was written to always shows an attempt (sendEngine.ts:205-209).
THEOREM Recognisable ==
  ASSUME Frozen = {}
  PROVE  Spec => []CrashIsRecognisable
<1>1. IInv => CrashIsRecognisable
  BY DEF IInv
<1>2. QED
  BY <1>1, InvariantHolds, PTL

-----------------------------------------------------------------------------
(* Pausing, and the abstract outbox.                                       *)

\* A contact comes into a worker's hand by a claim, never otherwise.
LEMMA OnlyClaimTakes ==
  ASSUME TypeOK, [Next]_vars, NEW w \in Workers, NEW c \in Contacts,
         Holds(w, c)', ~Holds(w, c)
  PROVE  Claim(w, c) /\ Claimable(c)
<1> USE DEF TypeOK, Holds, Holding, BeforeAttempt, AfterAttempt, Goto, dbVars, queueVars,
            workerVars, history
<1>1. pc'[w] \in Holding /\ cur'[w] = c /\ ~(pc[w] \in Holding /\ cur[w] = c)
  OBVIOUS
<1>2. ASSUME NEW v \in Workers, WorkerStep(v) \/ DbError(v) \/ Crash(v)
      PROVE  FALSE
  <2> USE DEF WorkerStep, CheckLimit, Prepare, ReleaseClaim, PauseForReauthorization,
              CountAttempt, GmailAnswers, RollBack, RecordSent, RecordFailure,
              JobCompletes, JobThrows, LeaveJob, DbError, Crash
  <2>1. CASE v = w
    <3>1. cur'[w] = cur[w] \/ pc'[w] = "idle"
      BY <1>2, <2>1
    <3>2. pc[w] \notin Holding => pc'[w] \notin Holding
      BY <1>2, <2>1
    <3>3. QED
      BY <1>1, <3>1, <3>2
  <2>2. CASE v # w
    <3>1. cur'[w] = cur[w] /\ pc'[w] = pc[w]
      BY <1>2, <2>2
    <3>2. QED
      BY <1>1, <3>1
  <2>3. QED
    BY <2>1, <2>2
<1>3. ASSUME NEW v \in Workers, NEW d \in Contacts, Claim(v, d) \/ ClaimFails(v, d)
      PROVE  v = w /\ d = c /\ Claim(w, c) /\ Claimable(c)
  <2>1. v = w
    BY <1>1, <1>3 DEF Claim, ClaimFails, StartJob
  <2>2. d = c
    BY <1>1, <1>3, <2>1 DEF Claim, ClaimFails, StartJob
  <2>3. QED
    BY <1>1, <1>3, <2>1, <2>2 DEF Claim, ClaimFails, StartJob
<1>4. UNCHANGED <<pc, cur>> => FALSE
  BY <1>1
<1>5. ASSUME NEW d \in Contacts,
             \/ EnqueueSend(d) \/ HandlerStep(d) \/ HandlerLost(d)
             \/ RecoverStalled(d) \/ LoseLock(d) \/ JobExpires(d)
             \/ ClaimExpires(d) \/ WindowFrees(d) \/ PurgeLog(d) \/ EditContact(d)
      PROVE  UNCHANGED <<pc, cur>>
  BY <1>5 DEF EnqueueSend, HandlerStep, FailAfterLastAttempt, RecordFailureById,
     HandlerLost, RecoverStalled, LoseLock, BackToWaiting, JobExpires, ClaimExpires,
     WindowFrees, PurgeLog, EditContact
<1>6. (\E k \in Campaigns : Dispatch(k) \/ Pause(k) \/ Resume(k)) \/ LosePlan \/ UNCHANGED vars
        => UNCHANGED <<pc, cur>>
  BY DEF Dispatch, Pause, Resume, SetCampaign, LosePlan, vars
<1>7. QED
  BY <1>2, <1>3, <1>4, <1>5, <1>6 DEF Next

\* Once a campaign is not running, no further contact of it is taken in hand
\* (claimContact's EXISTS clause, sendEngine.ts:90-96).
THEOREM PauseStops == Spec => PauseStopsClaims
<1>1. ASSUME TypeOK, [Next]_vars, NEW k \in Campaigns, campaign[k] # "running"
      PROVE  InHand(k)' \subseteq InHand(k)
  <2> SUFFICES ASSUME NEW c \in ContactsOf(k), NEW w \in Workers, Holds(w, c)'
               PROVE  Holds(w, c)
    BY DEF InHand, ContactsOf
  <2>1. c \in Contacts /\ CampaignOf[c] = k
    BY DEF ContactsOf
  <2>2. QED
    BY <1>1, <2>1, OnlyClaimTakes DEF Claimable
<1>2. TypeOK /\ [Next]_vars =>
        [\A k \in Campaigns : campaign[k] # "running" => InHand(k)' \subseteq InHand(k)]_vars
  BY <1>1
<1>3. QED
  BY <1>2, TypeCorrect, PTL DEF Spec, PauseStopsClaims

\* A worker that lets go of its contact takes nothing from the others.
LEMMA LetGo ==
  ASSUME IInv, NEW w \in Workers, pc[w] \in Holding, pc'[w] \notin Holding,
         \A v \in Workers \ {w} : pc'[v] = pc[v] /\ cur'[v] = cur[v]
  PROVE  cur[w] \in Taken /\ Taken' = Taken \ {cur[w]}
<1>1. cur[w] \in Contacts /\ \A v \in Workers \ {w} : pc[v] \in Holding => cur[v] # cur[w]
  BY Alone
<1>2. QED
  BY <1>1 DEF Taken, Holds

\* A worker that keeps its contact, or had none and takes none, moves nothing.
LEMMA KeepsHold ==
  ASSUME NEW w \in Workers,
         pc'[w] \in Holding <=> pc[w] \in Holding,
         pc[w] \in Holding => cur'[w] = cur[w],
         \A v \in Workers \ {w} : pc'[v] = pc[v] /\ cur'[v] = cur[v]
  PROVE  Taken' = Taken
<1>1. ASSUME NEW v \in Workers, NEW c PROVE Holds(v, c)' <=> Holds(v, c)
  <2>1. CASE v = w
    BY <2>1 DEF Holds
  <2>2. CASE v # w
    BY <2>2 DEF Holds
  <2>3. QED
    BY <2>1, <2>2
<1>2. QED
  BY <1>1 DEF Taken

\* Completing a campaign only closes it.
LEMMA CompletingCloses ==
  ASSUME TypeOK, NEW k \in Campaigns, NEW st, campaign' = CompleteIfDone(k, st)
  PROVE  Open' \subseteq Open
BY ConstantsAssumption DEF TypeOK, CompleteIfDone, Open

\* A step that leaves the hands, the inboxes and the log alone is a switch of
\* what is open, at most.
LEMMA SwitchRefines ==
  ASSUME UNCHANGED <<pc, cur, delivered, sentLog>>
  PROVE  [Promise!Next]_(Promise!vars)
<1>1. Open' \in SUBSET Contacts
  BY DEF Open
<1>2. Taken' = Taken
  BY DEF Taken, Holds
<1>3. QED
  BY <1>1, <1>2 DEF Promise!Next, Promise!Switch

\* A worker's step is a delivery, a giving back, or nothing to the outbox.
LEMMA WorkerRefines ==
  ASSUME IInv, NEW w \in Workers, WorkerStep(w) \/ DbError(w) \/ Crash(w)
  PROVE  [Promise!Next]_(Promise!vars)
<1> USE DEF IInv, Goto, LeaveJob, dbVars, queueVars, history, Step, Holding, BeforeAttempt,
            AfterAttempt
<1>1. pc \in [Workers -> Step] /\ cur \in [Workers -> Contacts \cup {NoContact}]
  BY DEF TypeOK
<1>2. \A v \in Workers \ {w} : pc'[v] = pc[v] /\ cur'[v] = cur[v]
  BY <1>1 DEF WorkerStep, CheckLimit, Prepare, ReleaseClaim, PauseForReauthorization,
     CountAttempt, GmailAnswers, RollBack, RecordSent, RecordFailure, JobCompletes,
     JobThrows, DbError, Crash
<1>3. CASE CheckLimit(w) \/ Prepare(w) \/ CountAttempt(w) \/ JobCompletes(w) \/ JobThrows(w)
  <2>1. /\ UNCHANGED <<campaign, delivered, sentLog>>
        /\ pc'[w] \in Holding <=> pc[w] \in Holding
        /\ pc[w] \in Holding => cur'[w] = cur[w]
    BY <1>1, <1>3 DEF CheckLimit, Prepare, CountAttempt, JobCompletes, JobThrows
  <2>2. Taken' = Taken
    BY <1>2, <2>1, KeepsHold
  <2>3. QED
    BY <2>1, <2>2 DEF Open, Promise!vars
<1>4. CASE PauseForReauthorization(w)
  <2>1. /\ UNCHANGED <<cur, delivered, sentLog>>
        /\ pc[w] \notin Holding /\ pc'[w] \notin Holding
    BY <1>1, <1>4 DEF PauseForReauthorization
  <2>2. Taken' = Taken
    BY <1>2, <2>1, KeepsHold
  <2>3. Open' \in SUBSET Contacts
    BY DEF Open
  <2>4. QED
    BY <2>1, <2>2, <2>3 DEF Promise!Next, Promise!Switch
<1>5. CASE GmailAnswers(w)
  <2>1. /\ UNCHANGED <<cur, campaign, sentLog>>
        /\ pc[w] \in Holding /\ pc'[w] \in Holding
    BY <1>1, <1>5 DEF GmailAnswers
  <2>2. Taken' = Taken /\ Open' = Open
    BY <1>2, <2>1, KeepsHold DEF Open
  <2>3. cur[w] \in Taken /\ cur[w] \in Contacts
    BY <2>1, Alone DEF Taken, Holds
  <2>4. delivered[cur[w]] = 0
    BY <1>5 DEF GmailAnswers, AttemptsTellTheStep
  <2>5. \/ delivered' = delivered
        \/ delivered' = [delivered EXCEPT ![cur[w]] = 1]
    BY <1>5, <2>4 DEF GmailAnswers
  <2>6. QED
    BY <2>1, <2>2, <2>3, <2>4, <2>5 DEF Promise!Next, Promise!Receive, Promise!vars
<1>6. CASE ReleaseClaim(w) \/ RollBack(w) \/ RecordSent(w) \/ RecordFailure(w) \/ DbError(w)
           \/ Crash(w)
  <2>1. delivered' = delivered /\ pc'[w] \notin Holding
    BY <1>1, <1>6 DEF ReleaseClaim, RollBack, RecordSent, RecordFailure, FailureRecorded,
       DbError, Crash
  <2>2. Open' \subseteq Open
    <3>1. CASE RecordSent(w) \/ RecordFailure(w)
      <4>1. cur[w] \in Contacts /\ CampaignOf[cur[w]] \in Campaigns
        BY <3>1, Alone, ConstantsAssumption DEF RecordSent, RecordFailure
      <4>2. campaign' = campaign
            \/ \E st : campaign' = CompleteIfDone(CampaignOf[cur[w]], st)
        BY <3>1 DEF RecordSent, RecordFailure, FailureRecorded
      <4>3. QED
        BY <4>1, <4>2, CompletingCloses DEF Open
    <3>2. CASE ~(RecordSent(w) \/ RecordFailure(w))
      BY <1>6, <3>2 DEF ReleaseClaim, RollBack, DbError, Crash, Open
    <3>3. QED
      BY <3>1, <3>2
  <2>3. \/ sentLog' = sentLog
        \/ /\ sentLog' = sentLog \cup {cur[w]}
           /\ delivered[cur[w]] = 1
    BY <1>6 DEF ReleaseClaim, RollBack, RecordSent, RecordFailure, FailureRecorded,
       DbError, Crash, AttemptsTellTheStep
  <2>4. CASE pc[w] \in Holding
    <3>1. cur[w] \in Taken /\ Taken' = Taken \ {cur[w]} /\ cur[w] \in Contacts
      BY <1>2, <2>1, <2>4, LetGo, Alone
    <3>2. Promise!GiveBack(cur[w])
      BY <2>1, <2>2, <2>3, <3>1 DEF Promise!GiveBack
    <3>3. QED
      BY <3>1, <3>2 DEF Promise!Next
  <2>5. CASE pc[w] \notin Holding
    <3>1. DbError(w) \/ Crash(w)
      BY <1>6, <2>5 DEF ReleaseClaim, RollBack, RecordSent, RecordFailure
    <3>2. UNCHANGED <<campaign, delivered, sentLog>>
      BY <3>1 DEF DbError, Crash
    <3>3. Taken' = Taken
      BY <1>2, <2>1, <2>5, KeepsHold
    <3>4. QED
      BY <3>2, <3>3 DEF Open, Promise!vars
  <2>6. QED
    BY <2>4, <2>5
<1>7. QED
  BY <1>3, <1>4, <1>5, <1>6 DEF WorkerStep

\* A claim takes a contact nobody holds, of a campaign that runs.
LEMMA ClaimRefines ==
  ASSUME IInv, NEW w \in Workers, NEW c \in Contacts, Claim(w, c) \/ ClaimFails(w, c)
  PROVE  [Promise!Next]_(Promise!vars)
<1> USE DEF IInv, StartJob, dbVars, history, Holding, BeforeAttempt, AfterAttempt
<1>1. /\ UNCHANGED <<campaign, delivered, sentLog>>
      /\ pc[w] = "idle" /\ cur'[w] = c
      /\ \A v \in Workers \ {w} : pc'[v] = pc[v] /\ cur'[v] = cur[v]
  BY DEF Claim, ClaimFails, TypeOK
<1>2. Open' = Open
  BY <1>1 DEF Open
<1>3. CASE pc'[w] \in Holding
  <2>1. Claimable(c) /\ job[c] = "waiting"
    BY <1>3 DEF Claim, ClaimFails, TypeOK
  <2>2. c \in Open \ Taken
    BY <2>1 DEF Claimable, Open, Taken, HolderProtected
  <2>3. Taken' = Taken \cup {c}
    BY <1>1, <1>3 DEF Taken, Holds
  <2>4. QED
    BY <1>1, <1>2, <2>2, <2>3 DEF Promise!Next, Promise!Take
<1>4. CASE pc'[w] \notin Holding
  <2>1. Taken' = Taken
    BY <1>1, <1>4, KeepsHold
  <2>2. QED
    BY <1>1, <1>2, <2>1 DEF Promise!vars
<1>5. QED
  BY <1>3, <1>4

\* The engine implements the outbox: a contact is taken while its campaign runs
\* and given back once, receives at most its one message while taken, and the
\* log reports only what left (sendEngine.ts:80-102, 145-242, 255-294).
THEOREM ImplementsOutbox ==
  ASSUME Frozen = {}
  PROVE  Spec => KeepsPromise
<1>1. Init => Promise!Init
  BY ConstantsAssumption
     DEF Init, Promise!Init, Open, Taken, Holds, Holding, BeforeAttempt, AfterAttempt
<1>2. ASSUME IInv, [Next]_vars PROVE [Promise!Next]_(Promise!vars)
  <2>1. ASSUME NEW w \in Workers, NEW c \in Contacts, Claim(w, c) \/ ClaimFails(w, c)
        PROVE  [Promise!Next]_(Promise!vars)
    BY <1>2, <2>1, ClaimRefines
  <2>2. ASSUME NEW w \in Workers, WorkerStep(w) \/ DbError(w) \/ Crash(w)
        PROVE  [Promise!Next]_(Promise!vars)
    BY <1>2, <2>2, WorkerRefines
  <2>3. ASSUME NEW c \in Contacts, PurgeLog(c)
        PROVE  [Promise!Next]_(Promise!vars)
    <3>1. UNCHANGED <<Open, Taken, delivered>> /\ sentLog' = sentLog \ {c}
      BY <2>3 DEF PurgeLog, Open, Taken, Holds, workerVars, history
    <3>2. QED
      BY <3>1 DEF Promise!Next, Promise!Forget
  <2>4. ASSUME NEW c \in Contacts,
               \/ EnqueueSend(c) \/ HandlerStep(c) \/ HandlerLost(c)
               \/ RecoverStalled(c) \/ LoseLock(c) \/ JobExpires(c)
               \/ ClaimExpires(c) \/ WindowFrees(c) \/ EditContact(c)
        PROVE  UNCHANGED <<pc, cur, delivered, sentLog>>
    BY <2>4 DEF EnqueueSend, HandlerStep, FailAfterLastAttempt, RecordFailureById,
       FailureRecorded, HandlerLost, RecoverStalled, LoseLock, BackToWaiting, JobExpires,
       ClaimExpires, WindowFrees, EditContact, dbVars, workerVars, history
  <2>5. ASSUME (\E k \in Campaigns : Dispatch(k) \/ Pause(k) \/ Resume(k)) \/ LosePlan
               \/ UNCHANGED vars
        PROVE  UNCHANGED <<pc, cur, delivered, sentLog>>
    BY <2>5 DEF Dispatch, Pause, Resume, SetCampaign, LosePlan, vars, dbVars, workerVars,
       history
  <2>6. QED
    BY <1>2, <2>1, <2>2, <2>3, <2>4, <2>5, SwitchRefines DEF Next
<1>3. IInv /\ [Next]_vars => [Promise!Next]_(Promise!vars)
  BY <1>2
<1>4. QED
  BY <1>1, <1>3, InvariantHolds, PTL DEF Spec, KeepsPromise, Promise!Spec

-----------------------------------------------------------------------------
(* One worker, as deployed outside the overlap of a release: what was      *)
(* written down stands.  Nothing is assumed of how long the worker takes.  *)

OneWorker == \E w : Workers = {w}

\* A worker's step between two outcomes leaves the rows and the queue alone, and
\* takes nothing in hand.
LEMMA StepKeepsRows ==
  ASSUME TypeOK, NEW w \in Workers,
         \/ CheckLimit(w) \/ Prepare(w) \/ ReleaseClaim(w) \/ PauseForReauthorization(w)
         \/ CountAttempt(w) \/ GmailAnswers(w) \/ RollBack(w) \/ DbError(w)
  PROVE  /\ UNCHANGED <<status, recent, sentCount, errorCount, job, lock, handler>>
         /\ \A v \in Workers, c \in Contacts : Holds(v, c)' => Holds(v, c)
<1> USE DEF CheckLimit, Prepare, ReleaseClaim, PauseForReauthorization, CountAttempt,
            GmailAnswers, RollBack, DbError, Goto, dbVars, queueVars, Holding,
            BeforeAttempt, AfterAttempt
<1>1. UNCHANGED <<status, recent, sentCount, errorCount, job, lock, handler, cur>>
  OBVIOUS
<1>2. \A v \in Workers : pc'[v] \in Holding => pc[v] \in Holding
  BY DEF TypeOK
<1>3. QED
  BY <1>1, <1>2 DEF Holds

\* The rest of the system, but for the queue, the handler and the user's edits.
LEMMA QuietKeepsRows ==
  ASSUME \/ \E k \in Campaigns : Dispatch(k) \/ Pause(k) \/ Resume(k)
         \/ \E c \in Contacts : ClaimExpires(c) \/ WindowFrees(c) \/ PurgeLog(c)
         \/ LosePlan \/ UNCHANGED vars
  PROVE  UNCHANGED <<status, sentCount, errorCount, job, lock, handler, pc, cur>>
BY DEF Dispatch, Pause, Resume, SetCampaign, ClaimExpires, WindowFrees, PurgeLog,
   LosePlan, vars, dbVars, queueVars, workerVars

\* The queue never frees or fails a job in a worker's hands.
LEMMA QueueOutcome ==
  ASSUME OutcomeInv, NEW c \in Contacts,
         EnqueueSend(c) \/ RecoverStalled(c) \/ LoseLock(c) \/ JobExpires(c)
  PROVE  /\ UNCHANGED <<status, sentCount, errorCount, handler, pc, cur>>
         /\ HandlerFollowsFailure' /\ LockMeansActive' /\ HandBeforeOutcome'
         /\ HandlerBeforeOutcome'
<1> USE DEF OutcomeInv, EnqueueSend, RecoverStalled, LoseLock, JobExpires, BackToWaiting,
            Fault, NoFault, dbVars, workerVars
<1>1. UNCHANGED <<status, sentCount, errorCount, handler, pc, cur>>
  OBVIOUS
<1>2. /\ \A d \in Contacts \ {c} : job'[d] = job[d] /\ lock'[d] = lock[d]
      /\ \/ job'[c] = job[c] /\ lock'[c] = lock[c]
         \/ job[c] = "none" /\ job'[c] = "waiting" /\ lock'[c] = lock[c]
         \/ job[c] = "active" /\ job'[c] = "waiting" /\ lock'[c] = NoWorker
         \/ job[c] = "failed" /\ handler[c] = "none" /\ lock'[c] = lock[c]
  BY DEF TypeOK
<1>3. HandlerFollowsFailure' /\ LockMeansActive'
  BY <1>1, <1>2 DEF HandlerFollowsFailure, LockMeansActive
<1>4. HandBeforeOutcome' /\ HandlerBeforeOutcome'
  BY <1>1, <1>2 DEF HandBeforeOutcome, HandlerBeforeOutcome, Holds
<1>5. QED
  BY <1>1, <1>3, <1>4

\* A worker starts a job: one that waits, so the handler is not at work on it.
LEMMA ClaimOutcome ==
  ASSUME OneWorker, OutcomeInv, NEW w \in Workers, NEW c \in Contacts,
         Claim(w, c) \/ ClaimFails(w, c)
  PROVE  /\ UNCHANGED <<status, sentCount, errorCount, handler, campaign>>
         /\ \A v \in Workers, d \in Contacts : Holds(v, d)' => v = w /\ d = c /\ Claimable(c)
         /\ HandlerFollowsFailure' /\ LockMeansActive' /\ HandBeforeOutcome'
         /\ HandlerBeforeOutcome'
<1> USE DEF OutcomeInv, Claim, ClaimFails, StartJob, dbVars
<1>1. /\ UNCHANGED <<status, sentCount, errorCount, handler, campaign>>
      /\ job[c] = "waiting" /\ job'[c] = "active" /\ cur'[w] = c
      /\ \A d \in Contacts \ {c} : job'[d] = job[d] /\ lock'[d] = lock[d]
  BY DEF TypeOK
<1>2. pc'[w] \in Holding => Claimable(c)
  BY DEF TypeOK, Holding, BeforeAttempt, AfterAttempt
<1>3. \A v \in Workers, d \in Contacts : Holds(v, d)' => v = w /\ d = c /\ Claimable(c)
  BY <1>1, <1>2 DEF OneWorker, Holds
<1>4. HandlerFollowsFailure' /\ LockMeansActive' /\ HandlerBeforeOutcome'
  BY <1>1 DEF HandlerFollowsFailure, LockMeansActive, HandlerBeforeOutcome
<1>5. HandBeforeOutcome'
  BY <1>1, <1>3 DEF HandBeforeOutcome, Claimable
<1>6. QED
  BY <1>1, <1>3, <1>4, <1>5

\* A worker leaves its job, with nothing in hand after.
LEMMA LeaveOutcome ==
  ASSUME OneWorker, OutcomeInv, NEW w \in Workers,
         JobCompletes(w) \/ JobThrows(w) \/ Crash(w)
  PROVE  /\ UNCHANGED <<status, sentCount, errorCount, campaign>>
         /\ \A v \in Workers, d \in Contacts : ~Holds(v, d)'
         /\ \A d \in Contacts : handler'[d] = "write" => handler[d] = "write"
         /\ HandlerFollowsFailure' /\ LockMeansActive' /\ HandBeforeOutcome'
         /\ HandlerBeforeOutcome'
<1> USE DEF OutcomeInv, JobCompletes, JobThrows, Crash, LeaveJob, dbVars, queueVars
<1>1. UNCHANGED <<status, sentCount, errorCount, campaign>>
  OBVIOUS
<1>2. \A v \in Workers, d \in Contacts : ~Holds(v, d)'
  BY DEF OneWorker, TypeOK, Holds, Holding, BeforeAttempt, AfterAttempt
<1>3. \A c \in Contacts :
        \/ job'[c] = job[c] /\ lock'[c] = lock[c] /\ handler'[c] = handler[c]
        \/ /\ job[c] = "active" /\ lock'[c] = NoWorker
           /\ handler'[c] = handler[c] \/ (job'[c] = "failed" /\ handler'[c] = "read")
  BY ConstantsAssumption DEF TypeOK, LockMeansActive
<1>4. HandlerFollowsFailure' /\ LockMeansActive' /\ HandlerBeforeOutcome'
  BY <1>1, <1>3 DEF HandlerFollowsFailure, LockMeansActive, HandlerBeforeOutcome
<1>5. HandBeforeOutcome'
  BY <1>2 DEF HandBeforeOutcome
<1>6. QED
  BY <1>1, <1>2, <1>3, <1>4, <1>5

\* The handler of a failed job: nobody holds the job's contact meanwhile.
LEMMA HandlerOutcome ==
  ASSUME OutcomeInv, NEW c \in Contacts, HandlerStep(c) \/ HandlerLost(c)
  PROVE  /\ UNCHANGED <<pc, cur, job, lock>>
         /\ job[c] = "failed" /\ \A w \in Workers : ~Holds(w, c)
         /\ \A d \in Contacts : handler'[d] = "write" =>
              handler[d] = "write" \/ status[d] = "pending"
         /\ RecordFailureById(c) \/ UNCHANGED <<status, sentCount, errorCount, campaign>>
         /\ HandlerFollowsFailure' /\ LockMeansActive' /\ HandBeforeOutcome'
         /\ HandlerBeforeOutcome'
<1> USE DEF OutcomeInv, HandlerStep, FailAfterLastAttempt, RecordFailureById,
            FailureRecorded, HandlerLost, dbVars, queueVars, workerVars
<1>1. /\ UNCHANGED <<pc, cur, job, lock>>
      /\ RecordFailureById(c) \/ UNCHANGED <<status, sentCount, errorCount, campaign>>
  OBVIOUS
<1>2. job[c] = "failed" /\ \A w \in Workers : ~Holds(w, c)
  BY DEF HandlerFollowsFailure, HandBeforeOutcome
<1>3. /\ \A d \in Contacts \ {c} : handler'[d] = handler[d] /\ status'[d] = status[d]
      /\ handler'[c] = "write" => status'[c] = status[c] /\ status[c] = "pending"
  BY DEF TypeOK
<1>4. HandlerFollowsFailure' /\ LockMeansActive' /\ HandlerBeforeOutcome'
  BY <1>1, <1>2, <1>3 DEF HandlerFollowsFailure, LockMeansActive, HandlerBeforeOutcome
<1>5. HandBeforeOutcome'
  BY <1>1, <1>2, <1>3 DEF HandBeforeOutcome, Holds
<1>6. QED
  BY <1>1, <1>2, <1>3, <1>4, <1>5

\* An outcome is recorded by the worker: nothing is in hand after.
LEMMA RecordOutcome ==
  ASSUME OneWorker, OutcomeInv, NEW w \in Workers, RecordSent(w) \/ RecordFailure(w)
  PROVE  /\ UNCHANGED <<cur, job, lock, handler>>
         /\ cur[w] \in Contacts /\ Holds(w, cur[w]) /\ handler[cur[w]] = "none"
         /\ \A v \in Workers, d \in Contacts : ~Holds(v, d)'
         /\ HandlerFollowsFailure' /\ LockMeansActive' /\ HandBeforeOutcome'
         /\ HandlerBeforeOutcome'
<1> USE DEF OutcomeInv, RecordSent, RecordFailure, FailureRecorded, Goto, dbVars, queueVars
<1>1. UNCHANGED <<cur, job, lock, handler>>
  OBVIOUS
<1>2. cur[w] \in Contacts /\ Holds(w, cur[w])
  BY DEF TypeOK, Holds, Holding, AfterAttempt
<1>3. handler[cur[w]] = "none" /\ status[cur[w]] # "sent"
  BY <1>2 DEF HandBeforeOutcome, HandlerFollowsFailure, TypeOK
<1>4. \A v \in Workers, d \in Contacts : ~Holds(v, d)'
  BY DEF OneWorker, TypeOK, Holds, Holding, BeforeAttempt, AfterAttempt
<1>5. \A d \in Contacts \ {cur[w]} : status'[d] = status[d]
  BY <1>2 DEF TypeOK
<1>6. HandlerFollowsFailure' /\ LockMeansActive' /\ HandlerBeforeOutcome'
  BY <1>1, <1>2, <1>3, <1>5 DEF HandlerFollowsFailure, LockMeansActive, HandlerBeforeOutcome
<1>7. HandBeforeOutcome'
  BY <1>4 DEF HandBeforeOutcome
<1>8. QED
  BY <1>1, <1>2, <1>3, <1>4, <1>6, <1>7

\* OutcomeInv is inductive with one worker, and no step fails a contact that is sent.
LEMMA OutcomeStep ==
  ASSUME OneWorker, OutcomeInv, [Next]_vars
  PROVE  OutcomeInv' /\ \A c \in Contacts : status[c] = "sent" => status'[c] # "failed"
<1> DEFINE Rest == /\ HandlerFollowsFailure' /\ LockMeansActive' /\ HandBeforeOutcome'
                   /\ HandlerBeforeOutcome'
                   /\ \A c \in Contacts : status[c] = "sent" => status'[c] # "failed"
<1>1. ASSUME NEW w \in Workers, RecordSent(w) \/ RecordFailure(w) PROVE Rest
  <2>1. cur[w] \in Contacts /\ status[cur[w]] # "sent"
    BY <1>1, RecordOutcome DEF OutcomeInv, HandBeforeOutcome
  <2>2. \A c \in Contacts \ {cur[w]} : status'[c] = status[c]
    BY <1>1, <2>1 DEF RecordSent, RecordFailure, FailureRecorded, OutcomeInv, TypeOK, dbVars
  <2>3. QED
    BY <1>1, <2>1, <2>2, RecordOutcome
<1>2. ASSUME NEW w \in Workers,
             \/ CheckLimit(w) \/ Prepare(w) \/ ReleaseClaim(w)
             \/ PauseForReauthorization(w) \/ CountAttempt(w) \/ GmailAnswers(w)
             \/ RollBack(w) \/ DbError(w)
      PROVE  Rest
  <2>1. /\ UNCHANGED <<status, job, lock, handler>>
        /\ \A v \in Workers, c \in Contacts : Holds(v, c)' => Holds(v, c)
    BY <1>2, StepKeepsRows DEF OutcomeInv
  <2>2. QED
    BY <2>1 DEF OutcomeInv, HandlerFollowsFailure, LockMeansActive, HandBeforeOutcome,
       HandlerBeforeOutcome
<1>3. ASSUME NEW w \in Workers, JobCompletes(w) \/ JobThrows(w) \/ Crash(w) PROVE Rest
  BY <1>3, LeaveOutcome
<1>4. ASSUME NEW w \in Workers, NEW c \in Contacts, Claim(w, c) \/ ClaimFails(w, c)
      PROVE  Rest
  BY <1>4, ClaimOutcome
<1>5. ASSUME NEW c \in Contacts,
             EnqueueSend(c) \/ RecoverStalled(c) \/ LoseLock(c) \/ JobExpires(c)
      PROVE  Rest
  BY <1>5, QueueOutcome
<1>6. ASSUME NEW c \in Contacts, HandlerStep(c) \/ HandlerLost(c) PROVE Rest
  <2>1. CASE RecordFailureById(c)
    <3>1. status[c] # "sent"
      BY <2>1 DEF RecordFailureById, OutcomeInv, HandlerBeforeOutcome
    <3>2. \A d \in Contacts \ {c} : status'[d] = status[d]
      BY <2>1 DEF RecordFailureById, FailureRecorded, OutcomeInv, TypeOK
    <3>3. QED
      BY <1>6, <3>1, <3>2, HandlerOutcome
  <2>2. CASE ~RecordFailureById(c)
    BY <1>6, <2>2, HandlerOutcome
  <2>3. QED
    BY <2>1, <2>2
<1>7. ASSUME NEW c \in Contacts, EditContact(c) PROVE Rest
  <2>1. /\ UNCHANGED <<job, lock, handler, pc, cur>>
        /\ \A d \in Contacts :
             status'[d] = status[d] \/ status'[d] \in {"pending", "ignored"}
    BY <1>7 DEF EditContact, OutcomeInv, TypeOK, queueVars, workerVars
  <2>2. QED
    BY <2>1 DEF OutcomeInv, HandlerFollowsFailure, LockMeansActive, HandBeforeOutcome,
       HandlerBeforeOutcome, Holds
<1>8. ASSUME \/ \E k \in Campaigns : Dispatch(k) \/ Pause(k) \/ Resume(k)
             \/ \E c \in Contacts : ClaimExpires(c) \/ WindowFrees(c) \/ PurgeLog(c)
             \/ LosePlan \/ UNCHANGED vars
      PROVE  Rest
  <2>1. UNCHANGED <<status, job, lock, handler, pc, cur>>
    BY <1>8, QuietKeepsRows
  <2>2. QED
    BY <2>1 DEF OutcomeInv, HandlerFollowsFailure, LockMeansActive, HandBeforeOutcome,
       HandlerBeforeOutcome, Holds
<1> HIDE DEF Rest
<1>9. Rest
  BY <1>1, <1>2, <1>3, <1>4, <1>5, <1>6, <1>7, <1>8 DEF Next, WorkerStep
<1>10. TypeOK'
  BY WorkerStepType, OtherStepType DEF OutcomeInv
<1>11. QED
  BY <1>9, <1>10 DEF OutcomeInv, Rest

LEMMA OutcomeInit == Init => OutcomeInv
<1>1. Init => TypeOK
  BY ConstantsAssumption
     DEF Init, TypeOK, ContactStatus, CampaignStatus, JobState, Step
<1>2. QED
  BY <1>1 DEF Init, OutcomeInv, HandlerFollowsFailure, LockMeansActive, HandBeforeOutcome,
     HandlerBeforeOutcome, Holds, Holding, BeforeAttempt, AfterAttempt

\* With one worker, a contact recorded as sent is never turned into a failure,
\* whatever the worker, its job and the user do (sendEngine.ts:364-366).
THEOREM SentStays ==
  ASSUME OneWorker
  PROVE  Spec => SentStaysSent
<1>1. OutcomeInv /\ [Next]_vars => OutcomeInv'
  BY OutcomeStep
<1>2. OutcomeInv /\ [Next]_vars =>
        [\A c \in Contacts : status[c] = "sent" => status'[c] # "failed"]_vars
  BY OutcomeStep
<1>3. QED
  BY <1>1, <1>2, OutcomeInit, PTL DEF Spec, SentStaysSent

-----------------------------------------------------------------------------
(* One worker, and nobody setting contacts back to pending by hand.        *)

\* An outcome written on a contact that was pending, by whoever writes it, completes
\* the campaign only if it was the last, and is counted.
LEMMA OutcomeCounts ==
  ASSUME SettledInv, NEW c \in Contacts, status[c] = "pending",
         NEW s \in {"sent", "failed"}, NEW st, st = [status EXCEPT ![c] = s], status' = st,
         NEW k, k = CampaignOf[c], campaign' = CompleteIfDone(k, st),
         \/ /\ s = "sent" /\ UNCHANGED errorCount
            /\ sentCount' = [sentCount EXCEPT ![k] = Cardinality(Having(k, "sent", st))]
         \/ /\ s = "failed" /\ UNCHANGED sentCount
            /\ errorCount' = [errorCount EXCEPT ![k] = Cardinality(Having(k, "failed", st))]
  PROVE  /\ CountsMatchRows'
         /\ \A d \in Contacts : campaign'[CampaignOf[d]] = "completed" => st[d] # "pending"
<1>1. /\ k \in Campaigns /\ CountsMatchRows
      /\ status \in [Contacts -> ContactStatus]
      /\ campaign \in [Campaigns -> CampaignStatus]
      /\ sentCount \in [Campaigns -> Nat] /\ errorCount \in [Campaigns -> Nat]
  BY ConstantsAssumption DEF SettledInv, OutcomeInv, TypeOK
<1>2. st[c] = s /\ \A d \in Contacts \ {c} : st[d] = status[d]
  BY <1>1
<1>3. ASSUME NEW j, NEW t, j # k \/ (t # s /\ t # "pending")
      PROVE  Having(j, t, st) = Having(j, t, status)
  BY <1>2, <1>3 DEF Having, ContactsOf
<1>4. ASSUME NEW j \in Campaigns
      PROVE  /\ sentCount'[j] = Cardinality(Having(j, "sent", st))
             /\ errorCount'[j] = Cardinality(Having(j, "failed", st))
  <2>1. /\ sentCount[j] = Cardinality(Having(j, "sent", status))
        /\ errorCount[j] = Cardinality(Having(j, "failed", status))
    BY <1>1 DEF CountsMatchRows
  <2>2. CASE j = k /\ s = "sent"
    <3>1. Having(j, "failed", st) = Having(j, "failed", status)
      BY <1>3, <2>2
    <3>2. QED
      BY <1>1, <2>1, <2>2, <3>1
  <2>3. CASE j = k /\ s = "failed"
    <3>1. Having(j, "sent", st) = Having(j, "sent", status)
      BY <1>3, <2>3
    <3>2. QED
      BY <1>1, <2>1, <2>3, <3>1
  <2>4. CASE j # k
    <3>1. /\ Having(j, "sent", st) = Having(j, "sent", status)
          /\ Having(j, "failed", st) = Having(j, "failed", status)
      BY <1>3, <2>4
    <3>2. sentCount'[j] = sentCount[j] /\ errorCount'[j] = errorCount[j]
      BY <1>1, <2>4
    <3>3. QED
      BY <2>1, <3>1, <3>2
  <2>5. QED
    BY <2>2, <2>3, <2>4
<1>5. CountsMatchRows'
  BY <1>4 DEF CountsMatchRows
<1>6. ASSUME NEW d \in Contacts, campaign'[CampaignOf[d]] = "completed"
      PROVE  st[d] # "pending"
  <2>1. CASE campaign[CampaignOf[d]] = "completed"
    BY <1>2, <2>1 DEF SettledInv, CompletedIsSettled
  <2>2. CASE campaign[CampaignOf[d]] # "completed"
    <3>1. CampaignOf[d] = k
      BY <1>1, <1>6, <2>2 DEF CompleteIfDone
    <3>2. Having(k, "pending", st) = {}
      BY <1>6, <2>2 DEF CompleteIfDone
    <3>3. QED
      BY <3>1, <3>2 DEF Having, ContactsOf
  <2>3. QED
    BY <2>1, <2>2
<1>7. QED
  BY <1>5, <1>6

\* SettledInv is inductive with one worker, if nobody edits the contacts.
LEMMA SettledStep ==
  ASSUME OneWorker, Edited = {}, SettledInv, [Next]_vars
  PROVE  SettledInv'
<1> USE DEF SettledInv
<1> DEFINE NoneLeft == \A c \in Contacts :
             campaign[CampaignOf[c]] = "completed" => status[c] # "pending"
           Found == PendingUntilOutcome' /\ NoneLeft' /\ CountsMatchRows'
<1>0. OutcomeInv /\ TypeOK /\ NoneLeft
  BY DEF OutcomeInv, CompletedIsSettled
\* The steps that leave the rows alone, and every campaign open that was.
<1>1. ASSUME UNCHANGED <<status, sentCount, errorCount>>,
             \A c \in Contacts : handler'[c] = "write" =>
               handler[c] = "write" \/ status[c] = "pending",
             \A w \in Workers, c \in Contacts : Holds(w, c)' =>
               Holds(w, c) \/ status[c] = "pending",
             \A c \in Contacts : campaign'[CampaignOf[c]] = "completed" =>
               campaign[CampaignOf[c]] = "completed" \/ status[c] # "pending"
      PROVE  Found
  <2>1. PendingUntilOutcome'
    BY <1>1 DEF PendingUntilOutcome
  <2>2. NoneLeft'
    BY <1>0, <1>1
  <2>3. CountsMatchRows'
    BY <1>1 DEF CountsMatchRows, Having, ContactsOf
  <2>4. QED
    BY <2>1, <2>2, <2>3
<1>2. ASSUME NEW w \in Workers, RecordSent(w) \/ RecordFailure(w) PROVE Found
  <2>1. PICK c \in Contacts : c = cur[w]
    BY <1>0, <1>2, RecordOutcome
  <2>2. /\ Holds(w, c) /\ handler[c] = "none" /\ handler' = handler
        /\ \A v \in Workers, d \in Contacts : ~Holds(v, d)'
    BY <1>0, <1>2, <2>1, RecordOutcome
  <2>3. status[c] = "pending"
    BY <2>2 DEF PendingUntilOutcome
  <2>4. CASE RecordSent(w) /\ c \in sentLog
    <3>1. UNCHANGED <<status, sentCount, errorCount, campaign>>
      BY <2>1, <2>4 DEF RecordSent, dbVars
    <3>2. QED
      BY <1>1, <2>2, <3>1
  <2>5. CASE RecordSent(w) /\ c \notin sentLog
    <3>1. PICK st, k : st = [status EXCEPT ![c] = "sent"] /\ k = CampaignOf[c]
      OBVIOUS
    <3>2. /\ status' = st /\ campaign' = CompleteIfDone(k, st) /\ UNCHANGED errorCount
          /\ sentCount' = [sentCount EXCEPT ![k] = Cardinality(Having(k, "sent", st))]
      BY <2>1, <2>5, <3>1 DEF RecordSent
    <3>3. CountsMatchRows' /\ NoneLeft'
      BY <2>3, <3>1, <3>2, OutcomeCounts
    <3>4. PendingUntilOutcome'
      BY <1>0, <2>2, <3>1, <3>2 DEF PendingUntilOutcome, TypeOK
    <3>5. QED
      BY <3>3, <3>4
  <2>6. CASE RecordFailure(w)
    <3>1. PICK st, k : st = [status EXCEPT ![c] = "failed"] /\ k = CampaignOf[c]
      OBVIOUS
    <3>2. /\ status' = st /\ campaign' = CompleteIfDone(k, st) /\ UNCHANGED sentCount
          /\ errorCount' = [errorCount EXCEPT ![k] = Cardinality(Having(k, "failed", st))]
      BY <2>1, <2>6, <3>1 DEF RecordFailure, FailureRecorded
    <3>3. CountsMatchRows' /\ NoneLeft'
      BY <2>3, <3>1, <3>2, OutcomeCounts
    <3>4. PendingUntilOutcome'
      BY <1>0, <2>2, <3>1, <3>2 DEF PendingUntilOutcome, TypeOK
    <3>5. QED
      BY <3>3, <3>4
  <2>7. QED
    BY <1>2, <2>4, <2>5, <2>6
<1>3. ASSUME NEW c \in Contacts, RecordFailureById(c) PROVE Found
  <2>1. status[c] = "pending" /\ \A w \in Workers : ~Holds(w, c)
    BY <1>0, <1>3, HandlerOutcome DEF RecordFailureById, PendingUntilOutcome, HandlerStep
  <2>2. PICK st : st = [status EXCEPT ![c] = "failed"]
    OBVIOUS
  <2>3. /\ status' = st /\ campaign' = CompleteIfDone(CampaignOf[c], st)
        /\ UNCHANGED <<sentCount, pc, cur>>
        /\ errorCount' = [errorCount EXCEPT
             ![CampaignOf[c]] = Cardinality(Having(CampaignOf[c], "failed", st))]
        /\ handler' = [handler EXCEPT ![c] = "none"]
    BY <1>3, <2>2 DEF RecordFailureById, FailureRecorded, workerVars
  <2>4. CountsMatchRows' /\ NoneLeft'
    BY <2>1, <2>2, <2>3, OutcomeCounts
  <2>5. PendingUntilOutcome'
    BY <1>0, <2>1, <2>2, <2>3 DEF PendingUntilOutcome, TypeOK, Holds
  <2>6. QED
    BY <2>4, <2>5
<1>4. ASSUME NEW w \in Workers,
             \/ CheckLimit(w) \/ Prepare(w) \/ ReleaseClaim(w)
             \/ PauseForReauthorization(w) \/ CountAttempt(w) \/ GmailAnswers(w)
             \/ RollBack(w) \/ DbError(w)
      PROVE  Found
  <2>1. \A k \in Campaigns : campaign'[k] = "completed" => campaign[k] = "completed"
    BY <1>0, <1>4 DEF CheckLimit, Prepare, ReleaseClaim, PauseForReauthorization,
       CountAttempt, GmailAnswers, RollBack, DbError, dbVars, TypeOK
  <2>2. QED
    BY <1>0, <1>1, <1>4, <2>1, StepKeepsRows, ConstantsAssumption
<1>5. ASSUME NEW w \in Workers, JobCompletes(w) \/ JobThrows(w) \/ Crash(w) PROVE Found
  BY <1>0, <1>1, <1>5, LeaveOutcome
<1>6. ASSUME NEW w \in Workers, NEW c \in Contacts, Claim(w, c) \/ ClaimFails(w, c)
      PROVE  Found
  BY <1>0, <1>1, <1>6, ClaimOutcome DEF Claimable
<1>7. ASSUME NEW c \in Contacts, HandlerStep(c) \/ HandlerLost(c) PROVE Found
  <2>1. CASE RecordFailureById(c)
    BY <1>3, <2>1
  <2>2. CASE ~RecordFailureById(c)
    BY <1>0, <1>1, <1>7, <2>2, HandlerOutcome DEF Holds
  <2>3. QED
    BY <2>1, <2>2
<1>8. ASSUME NEW c \in Contacts,
             EnqueueSend(c) \/ RecoverStalled(c) \/ LoseLock(c) \/ JobExpires(c)
      PROVE  Found
  <2>1. campaign' = campaign
    BY <1>8 DEF EnqueueSend, RecoverStalled, LoseLock, JobExpires, BackToWaiting, dbVars
  <2>2. QED
    BY <1>0, <1>1, <1>8, <2>1, QueueOutcome DEF Holds
<1>9. ASSUME NEW k \in Campaigns, Dispatch(k) PROVE Found
  <2>1. \A j \in Campaigns : campaign'[j] = "completed" =>
          campaign[j] = "completed" \/ (j = k /\ Having(k, "pending", status) = {})
    BY <1>0, <1>9 DEF Dispatch, TypeOK
  <2>2. \A c \in Contacts : campaign'[CampaignOf[c]] = "completed" =>
          campaign[CampaignOf[c]] = "completed" \/ status[c] # "pending"
    BY <2>1, ConstantsAssumption DEF Having, ContactsOf
  <2>3. UNCHANGED <<status, sentCount, errorCount, handler, pc, cur>>
    BY <1>9 DEF Dispatch, workerVars
  <2>4. QED
    BY <1>1, <2>2, <2>3 DEF Holds
<1>10. ASSUME \/ \E k \in Campaigns : Pause(k) \/ Resume(k)
              \/ \E c \in Contacts : ClaimExpires(c) \/ WindowFrees(c) \/ PurgeLog(c)
              \/ LosePlan \/ UNCHANGED vars
       PROVE  Found
  <2>1. UNCHANGED <<status, sentCount, errorCount, handler, pc, cur>>
    BY <1>10, QuietKeepsRows
  <2>2. \A k \in Campaigns : campaign'[k] = "completed" => campaign[k] = "completed"
    BY <1>0, <1>10 DEF Pause, Resume, SetCampaign, ClaimExpires, WindowFrees, PurgeLog,
       LosePlan, vars, dbVars, TypeOK
  <2>3. QED
    BY <1>1, <2>1, <2>2, ConstantsAssumption DEF Holds
<1> HIDE DEF Found, NoneLeft
<1>11. Found
  <2>1. \A c \in Contacts : ~EditContact(c)
    BY DEF EditContact
  <2>2. QED
    BY <1>2, <1>4, <1>5, <1>6, <1>7, <1>8, <1>9, <1>10, <2>1 DEF Next, WorkerStep
<1>12. CompletedIsSettled'
  <2>1. PendingUntilOutcome' /\ NoneLeft'
    BY <1>11 DEF Found
  <2>2. QED
    BY <2>1 DEF NoneLeft, PendingUntilOutcome, CompletedIsSettled
<1>13. QED
  BY <1>11, <1>12, OutcomeStep DEF Found

\* What SettledInv says holds throughout: an outcome is written on a pending contact,
\* once, and the counters and the campaign's status are written with it.
THEOREM SettledHolds ==
  ASSUME OneWorker, Edited = {}
  PROVE  Spec => []SettledInv
<1>1. Init => SettledInv
  <2> SUFFICES ASSUME Init PROVE SettledInv
    OBVIOUS
  <2>1. \A w \in Workers, c \in Contacts : ~Holds(w, c)
    BY DEF Init, Holds, Holding, BeforeAttempt, AfterAttempt
  <2>2. \A k : Having(k, "sent", status) = {} /\ Having(k, "failed", status) = {}
    BY DEF Init, Having, ContactsOf
  <2>3. CountsMatchRows
    BY <2>2, FS_EmptySet DEF Init, CountsMatchRows
  <2>4. CompletedIsSettled /\ PendingUntilOutcome
    BY <2>1, ConstantsAssumption DEF Init, CompletedIsSettled, PendingUntilOutcome
  <2>5. QED
    BY <2>3, <2>4, OutcomeInit DEF SettledInv
<1>2. SettledInv /\ [Next]_vars => SettledInv'
  BY SettledStep
<1>3. QED
  BY <1>1, <1>2, PTL DEF Spec

\* With one worker and contacts nobody edits, a completed campaign has nothing left
\* to send and nobody about to send it (completeIfDone, dispatch.ts:153-157).
THEOREM Settled ==
  ASSUME OneWorker, Edited = {}
  PROVE  Spec => []CompletedIsSettled
<1>1. SettledInv => CompletedIsSettled
  BY DEF SettledInv
<1>2. QED
  BY <1>1, SettledHolds, PTL

\* The counters the interface shows agree with the rows, after any crash, retry or
\* lost answer (sendEngine.ts:251).
THEOREM CountsKept ==
  ASSUME OneWorker, Edited = {}
  PROVE  Spec => []CountsMatchRows
<1>1. SettledInv => CountsMatchRows
  BY DEF SettledInv
<1>2. QED
  BY <1>1, SettledHolds, PTL

-----------------------------------------------------------------------------
(* The ceiling of the account, for any number of workers.                  *)

LEMMA CeilingStep ==
  ASSUME IsFiniteSet(Workers), TypeOK, CeilingMargin, [Next]_vars
  PROVE  CeilingMargin'
<1>1. /\ IsFiniteSet(recent) /\ Cardinality(recent) \in Nat
      /\ IsFiniteSet(PastCheck) /\ Cardinality(PastCheck) \in Nat
      /\ Cardinality(Workers) \in Nat /\ Cardinality(PastCheck) <= Cardinality(Workers)
      /\ DailyLimit \in Nat
  <2>1. recent \subseteq Contacts /\ PastCheck \subseteq Workers
    BY DEF TypeOK, PastCheck
  <2>2. QED
    BY <2>1, FS_Subset, FS_CardinalityType, ConstantsAssumption
\* A step that sends nobody past the check, and counts nothing.
<1>2. ASSUME recent' \subseteq recent, PastCheck' \subseteq PastCheck
      PROVE  CeilingMargin'
  <2>1. /\ Cardinality(recent') \in Nat /\ Cardinality(recent') <= Cardinality(recent)
        /\ Cardinality(PastCheck') \in Nat /\ Cardinality(PastCheck') <= Cardinality(PastCheck)
    BY <1>1, <1>2, FS_Subset, FS_CardinalityType
  <2>2. QED
    BY <1>1, <2>1 DEF CeilingMargin
\* A worker checks: there is room for its own message, the others may each send one.
<1>3. ASSUME NEW w \in Workers, CheckLimit(w) PROVE CeilingMargin'
  <2>1. recent' = recent /\ \A v \in Workers \ {w} : pc'[v] = pc[v]
    BY <1>3 DEF CheckLimit, Goto, TypeOK, dbVars
  <2>2. CASE Cardinality(recent) >= DailyLimit
    <3>1. pc'[w] = "releaseDone"
      BY <1>3, <2>2 DEF CheckLimit, Goto, TypeOK
    <3>2. PastCheck' \subseteq PastCheck
      BY <2>1, <3>1 DEF PastCheck
    <3>3. QED
      BY <1>2, <2>1, <3>2
  <2>3. CASE Cardinality(recent) < DailyLimit
    <3>1. PastCheck' \subseteq Workers
      BY DEF PastCheck
    <3>2. Cardinality(PastCheck') \in Nat /\ Cardinality(PastCheck') <= Cardinality(Workers)
      BY <3>1, FS_Subset, FS_CardinalityType
    <3>3. QED
      BY <1>1, <2>1, <2>3, <3>2 DEF CeilingMargin
  <2>4. QED
    BY <1>1, <2>2, <2>3
\* A worker records its message: one past the check becomes one counted.
<1>4. ASSUME NEW w \in Workers, RecordSent(w) PROVE CeilingMargin'
  <2>1. /\ w \in PastCheck
        /\ pc'[w] \in {"threw", "done"}
        /\ \A v \in Workers \ {w} : pc'[v] = pc[v]
        /\ recent' = recent \/ recent' = recent \cup {cur[w]}
    BY <1>4 DEF RecordSent, Goto, TypeOK, PastCheck, dbVars
  <2>2. PastCheck' = PastCheck \ {w}
    BY <2>1 DEF PastCheck
  <2>3. Cardinality(PastCheck') = Cardinality(PastCheck) - 1
    BY <1>1, <2>1, <2>2, FS_RemoveElement
  <2>4. Cardinality(recent') \in Nat /\ Cardinality(recent') <= Cardinality(recent) + 1
    <3>1. CASE recent' = recent
      BY <1>1, <3>1
    <3>2. CASE recent' = recent \cup {cur[w]}
      <4>1. PICK S, T, x : S = recent /\ x = cur[w] /\ T = S \cup {x}
        OBVIOUS
      <4>2. Cardinality(T) = IF x \in S THEN Cardinality(S) ELSE Cardinality(S) + 1
        BY <1>1, <4>1, FS_AddElement
      <4>3. QED
        BY <1>1, <3>2, <4>1, <4>2
    <3>3. QED
      BY <2>1, <3>1, <3>2
  <2>5. QED
    BY <1>1, <2>3, <2>4 DEF CeilingMargin
<1>5. ASSUME NEW w \in Workers,
             \/ Prepare(w) \/ ReleaseClaim(w) \/ PauseForReauthorization(w)
             \/ CountAttempt(w) \/ GmailAnswers(w) \/ RollBack(w) \/ RecordFailure(w)
             \/ JobCompletes(w) \/ JobThrows(w) \/ DbError(w) \/ Crash(w)
      PROVE  CeilingMargin'
  <2> USE DEF Prepare, ReleaseClaim, PauseForReauthorization, CountAttempt, GmailAnswers,
              RollBack, RecordFailure, FailureRecorded, JobCompletes, JobThrows, DbError,
              Crash, LeaveJob, Goto, dbVars
  <2>1. recent' = recent
    BY <1>5
  <2>2. \A v \in Workers : v \in PastCheck' => v \in PastCheck
    BY <1>5 DEF PastCheck, TypeOK
  <2>3. QED
    BY <1>2, <2>1, <2>2 DEF PastCheck
<1>6. ASSUME NEW w \in Workers, NEW c \in Contacts, Claim(w, c) \/ ClaimFails(w, c)
      PROVE  CeilingMargin'
  <2>1. recent' = recent /\ PastCheck' \subseteq PastCheck
    BY <1>6 DEF Claim, ClaimFails, StartJob, TypeOK, PastCheck, dbVars
  <2>2. QED
    BY <1>2, <2>1
<1>7. ASSUME \/ \E k \in Campaigns : Dispatch(k) \/ Pause(k) \/ Resume(k)
             \/ \E c \in Contacts :
                  \/ EnqueueSend(c) \/ HandlerStep(c) \/ HandlerLost(c)
                  \/ RecoverStalled(c) \/ LoseLock(c) \/ JobExpires(c)
                  \/ ClaimExpires(c) \/ WindowFrees(c) \/ PurgeLog(c) \/ EditContact(c)
             \/ LosePlan \/ UNCHANGED vars
      PROVE  CeilingMargin'
  <2>1. pc' = pc /\ recent' \subseteq recent
    BY <1>7 DEF Dispatch, Pause, Resume, SetCampaign, EnqueueSend, HandlerStep,
       FailAfterLastAttempt, RecordFailureById, FailureRecorded, HandlerLost,
       RecoverStalled, LoseLock, BackToWaiting, JobExpires, ClaimExpires, WindowFrees,
       PurgeLog, EditContact, LosePlan, vars, dbVars, workerVars
  <2>2. QED
    BY <1>2, <2>1 DEF PastCheck
<1>8. QED
  BY <1>3, <1>4, <1>5, <1>6, <1>7 DEF Next, WorkerStep

\* Several workers may pass the account's ceiling between them, each having checked
\* before the others recorded, by one message for each worker but one.
THEOREM CeilingNearlyHolds ==
  ASSUME IsFiniteSet(Workers), Workers # {}
  PROVE  Spec => [](Cardinality(recent) < DailyLimit + Cardinality(Workers))
<1>1. Cardinality(Workers) \in Nat \ {0} /\ DailyLimit \in Nat
  BY FS_CardinalityType, FS_EmptySet, ConstantsAssumption
<1>2. Init => CeilingMargin
  <2> SUFFICES ASSUME Init PROVE CeilingMargin
    OBVIOUS
  <2>1. recent = {} /\ PastCheck = {}
    BY DEF Init, PastCheck
  <2>2. QED
    BY <1>1, <2>1, FS_EmptySet DEF CeilingMargin
<1>3. TypeOK /\ CeilingMargin /\ [Next]_vars => CeilingMargin'
  BY CeilingStep
<1>4. TypeOK /\ CeilingMargin => Cardinality(recent) < DailyLimit + Cardinality(Workers)
  <2> SUFFICES ASSUME TypeOK, CeilingMargin
               PROVE  Cardinality(recent) < DailyLimit + Cardinality(Workers)
    OBVIOUS
  <2>1. recent \subseteq Contacts /\ PastCheck \subseteq Workers
    BY DEF TypeOK, PastCheck
  <2>2. Cardinality(recent) \in Nat /\ Cardinality(PastCheck) \in Nat
    BY <2>1, FS_Subset, FS_CardinalityType, ConstantsAssumption
  <2>3. QED
    BY <1>1, <2>2 DEF CeilingMargin
<1>5. QED
  BY <1>2, <1>3, <1>4, TypeCorrect, PTL DEF Spec

\* With one worker the ceiling holds: the sends logged in any 24 hours stay within
\* it, over all the campaigns of the account (sendEngine.ts:168-176).
THEOREM CeilingKept ==
  ASSUME OneWorker
  PROVE  Spec => []CeilingHolds
<1>1. IsFiniteSet(Workers) /\ Workers # {} /\ Cardinality(Workers) = 1
  BY FS_Singleton DEF OneWorker
<1>2. ASSUME TypeOK, Cardinality(recent) < DailyLimit + Cardinality(Workers)
      PROVE  CeilingHolds
  <2>1. Cardinality(recent) \in Nat /\ DailyLimit \in Nat
    BY <1>2, FS_Subset, FS_CardinalityType, ConstantsAssumption DEF TypeOK
  <2>2. QED
    BY <1>1, <1>2, <2>1 DEF CeilingHolds
<1>3. TypeOK /\ Cardinality(recent) < DailyLimit + Cardinality(Workers) => CeilingHolds
  BY <1>2
<1>4. Spec => [](Cardinality(recent) < DailyLimit + Cardinality(Workers))
  BY <1>1, CeilingNearlyHolds
<1>5. QED
  BY <1>3, <1>4, TypeCorrect, PTL
=============================================================================

--------------------------- MODULE GrantedProofs ---------------------------
(***************************************************************************)
(* What SendEngine takes for granted.  A recording is one step of it: for  *)
(* every set of contacts, the transactions of Ledger, which overlap, never *)
(* miss a completion nor are early, and one worker counts its sends right. *)
(* A campaign is planned again and again: for any campaigns, any plans     *)
(* that overlap and any lengths, the chain of PlanClock never breaks, and  *)
(* no campaign with something to send waits longer than a quarter of an    *)
(* hour and two plans.                                                     *)
(***************************************************************************)
EXTENDS Ledger, PlanClock, FiniteSetTheorems, TLAPS

\* A count over the contacts is a natural number.
LEMMA CountType == ASSUME NEW s PROVE Cardinality(Having(s)) \in Nat
<1>1. Having(s) \subseteq Contacts /\ IsFiniteSet(Contacts)
  BY LedgerAssumption DEF Having
<1>2. QED
  BY <1>1, FS_Subset, FS_CardinalityType

\* The invariant holds at first.
LEMMA InitInv == Init => LInv
BY LedgerAssumption
   DEF Init, LInv, TypeOK, OpenIsPending, HolderIsAlone, Open, Status, Outcome, Handler

\* Every step of a recording keeps the variables in their types.
LEMMA RecordType ==
  ASSUME TypeOK, NEW c \in Contacts,
         \/ Record(c) \/ Rollback(c)
         \/ \E o \in Outcome, p \in Workers \cup {Handler} : Begin(c, o, p)
  PROVE  TypeOK'
<1> USE DEF TypeOK, Advance, rows, Open
<1>1. CASE \E o \in Outcome, p \in Workers \cup {Handler} : Begin(c, o, p)
  BY <1>1 DEF Begin
<1>2. CASE StartCount(c)
  BY <1>2, CountType DEF StartCount
<1>3. CASE LockCampaign(c)
  BY <1>3 DEF LockCampaign
<1>4. CASE CompleteIfDone(c)
  BY <1>4 DEF CompleteIfDone
<1>5. CASE Commit(c)
  BY <1>5 DEF Commit, Status
<1>6. CASE Rollback(c)
  BY <1>6 DEF Rollback
<1>7. QED
  BY <1>1, <1>2, <1>3, <1>4, <1>5, <1>6 DEF Record

\* A recording's steps keep the invariant: while one has the campaign's row no
\* other can commit, so what it has seen stays true.
LEMMA RecordInv ==
  ASSUME LInv, NEW c \in Contacts,
         \/ Record(c) \/ Rollback(c)
         \/ \E o \in Outcome, p \in Workers \cup {Handler} : Begin(c, o, p)
  PROVE  LInv'
<1> USE LedgerAssumption DEF LInv, Advance, rows, Open
<1>1. TypeOK'
  BY RecordType
<1>2. CASE \E o \in Outcome, p \in Workers \cup {Handler} : Begin(c, o, p)
  <2>1. /\ UNCHANGED <<status, campaign, closes, holder>>
        /\ status[c] = "pending" /\ step[c] = "none"
        /\ step' = [step EXCEPT ![c] = "written"]
    BY <1>2 DEF Begin
  <2>2. QED
    BY <1>1, <2>1 DEF TypeOK, OpenIsPending, HolderIsAlone, Having
<1>3. CASE StartCount(c) \/ LockCampaign(c)
  <2>1. /\ UNCHANGED <<status, campaign, closes>>
        /\ \/ step[c] = "written" /\ step' = [step EXCEPT ![c] = "counting"]
              /\ holder' = holder
           \/ step[c] = "counting" /\ step' = [step EXCEPT ![c] = "counted"]
              /\ holder = NoContact /\ holder' = c
    BY <1>3 DEF StartCount, LockCampaign
  <2>2. QED
    BY <1>1, <2>1 DEF TypeOK, OpenIsPending, HolderIsAlone, Having
<1>4. CASE CompleteIfDone(c)
  <2>1. OpenIsPending'
    BY <1>4 DEF CompleteIfDone, OpenIsPending, TypeOK
  <2>2. HolderIsAlone'
    BY <1>4 DEF CompleteIfDone, HolderIsAlone, TypeOK, Having
  <2>3. QED
    BY <1>1, <2>1, <2>2
<1>5. CASE Commit(c)
  <2>1. /\ holder = c /\ holder' = NoContact
        /\ step' = [step EXCEPT ![c] = "none"]
        /\ status' = [status EXCEPT ![c] = outcome[c]]
    BY <1>5 DEF Commit, HolderIsAlone
  <2>2. \A d \in Contacts \ {c} : step[d] \notin {"counted", "checked"}
    BY <2>1 DEF HolderIsAlone
  <2>3. OpenIsPending' /\ HolderIsAlone'
    BY <2>1, <2>2 DEF OpenIsPending, HolderIsAlone, TypeOK
  <2>4. QED
    BY <1>1, <2>3
<1>6. CASE Rollback(c)
  <2>1. /\ UNCHANGED <<status, campaign, closes>>
        /\ step' = [step EXCEPT ![c] = "none"]
        /\ holder' = IF holder = c THEN NoContact ELSE holder
    BY <1>6 DEF Rollback
  <2>2. QED
    BY <1>1, <2>1 DEF TypeOK, OpenIsPending, HolderIsAlone, Having
<1>7. QED
  BY <1>2, <1>3, <1>4, <1>5, <1>6 DEF Record

\* A statement on the campaign's row finds no recording past its counter.
LEMMA SwitchInv ==
  ASSUME LInv, Pause \/ Resume \/ Dispatch
  PROVE  LInv'
<1>1. /\ UNCHANGED <<status, step, outcome, by, count, closes, holder, sentCount, errorCount>>
      /\ holder = NoContact
      /\ campaign' \in {"running", "paused", "completed"}
  BY DEF Pause, Resume, Dispatch, Switch
<1>2. \A c \in Contacts : step[c] # "checked"
  BY <1>1, LedgerAssumption DEF LInv, HolderIsAlone
<1>3. QED
  BY <1>1, <1>2 DEF LInv, TypeOK, OpenIsPending, HolderIsAlone, Open

LEMMA Inductive == LInv /\ [Next]_vars => LInv'
<1> SUFFICES ASSUME LInv, [Next]_vars PROVE LInv'
  OBVIOUS
<1>1. CASE UNCHANGED vars
  BY <1>1 DEF vars, rows, LInv, TypeOK, OpenIsPending, HolderIsAlone, Open, Having
<1>2. CASE Next
  BY <1>2, RecordInv, SwitchInv DEF Next
<1>3. QED
  BY <1>1, <1>2

\* Past its counter's UPDATE a recording alone has the campaign's row, and what
\* its completeIfDone saw is still so (sendEngine.ts:277-286, 318-327).
THEOREM InvariantHolds == Spec => []LInv
BY InitInv, Inductive, PTL DEF Spec

\* A contact is decided only by its own recording's commit.
LEMMA OnlyCommitDecides ==
  ASSUME [Next]_vars, NEW c \in Contacts, status'[c] # status[c], status[c] = "pending"
  PROVE  \E d \in Contacts : Commit(d)
BY DEF Next, Record, Begin, StartCount, LockCampaign, CompleteIfDone, Rollback, Pause,
   Resume, Dispatch, Switch, vars, rows

\* The commit of the last outcome of a running campaign completes it, however
\* many recordings overlap (completeIfDone, sendEngine.ts:343-359).
THEOREM CompletionNotMissed == Spec => LastOutcomeCompletes
<1>1. ASSUME LInv, [Next]_vars, NEW c \in Contacts, status[c] = "pending",
             Having("pending")' = {}, campaign = "running"
      PROVE  campaign' = "completed"
  <2>1. status'[c] # "pending"
    BY <1>1 DEF Having
  <2>2. PICK d \in Contacts : Commit(d)
    BY <1>1, <2>1, OnlyCommitDecides
  <2>3. Having("pending") \subseteq {d}
    BY <1>1, <2>2 DEF Commit, Having, LInv, TypeOK
  <2>4. closes[d]
    BY <1>1, <2>2, <2>3 DEF Commit, Advance, LInv, HolderIsAlone
  <2>5. QED
    BY <2>2, <2>4 DEF Commit
<1>2. LInv /\ [Next]_vars =>
        [\A c \in Contacts :
           (status[c] = "pending" /\ Having("pending")' = {} /\ campaign = "running")
             => campaign' = "completed"]_vars
  BY <1>1
<1>3. QED
  BY <1>2, InvariantHolds, PTL DEF Spec, LastOutcomeCompletes

\* A completed campaign has nothing pending and no recording left to commit.
THEOREM CompletionFinal == Spec => []CompletedIsFinal
<1>1. Init => CompletedIsFinal
  BY DEF Init, CompletedIsFinal
<1>2. ASSUME LInv, CompletedIsFinal, [Next]_vars PROVE CompletedIsFinal'
  <2>1. ASSUME NEW c \in Contacts, Commit(c) PROVE CompletedIsFinal'
    <3> SUFFICES ASSUME campaign' = "completed", NEW d \in Contacts
                 PROVE  status'[d] # "pending" /\ ~Open(d)'
      BY DEF CompletedIsFinal
    <3>1. Having("pending") \subseteq {c}
      <4>1. campaign = "completed" \/ closes[c]
        BY <2>1 DEF Commit
      <4>2. QED
        BY <1>2, <2>1, <4>1
           DEF Commit, Advance, LInv, HolderIsAlone, CompletedIsFinal, Having
    <3>2. CASE d = c
      BY <1>2, <2>1, <3>2 DEF Commit, Advance, Open, LInv, TypeOK, Outcome
    <3>3. CASE d # c
      BY <1>2, <2>1, <3>1, <3>3
         DEF Commit, Advance, Open, LInv, TypeOK, OpenIsPending, Having
    <3>4. QED
      BY <3>2, <3>3
  <2>2. ASSUME NEW c \in Contacts,
               \/ StartCount(c) \/ LockCampaign(c) \/ CompleteIfDone(c) \/ Rollback(c)
               \/ \E o \in Outcome, p \in Workers \cup {Handler} : Begin(c, o, p)
        PROVE  CompletedIsFinal'
    <3>1. UNCHANGED <<status, campaign>>
      BY <2>2 DEF StartCount, LockCampaign, CompleteIfDone, Rollback, Begin, rows
    <3>2. campaign = "completed" => FALSE
      <4>1. campaign = "completed" => status[c] # "pending" /\ step[c] = "none"
        BY <1>2 DEF CompletedIsFinal, Open
      <4>2. QED
        BY <2>2, <4>1 DEF StartCount, LockCampaign, CompleteIfDone, Rollback, Begin,
           Advance, Open
    <3>3. QED
      BY <3>1, <3>2 DEF CompletedIsFinal
  <2>3. CASE Pause \/ Resume \/ Dispatch
    <3>1. UNCHANGED <<status, step>> /\ (campaign' = "completed" => Having("pending") = {})
      BY <2>3 DEF Pause, Resume, Dispatch, Switch
    <3>2. QED
      BY <1>2, <3>1 DEF CompletedIsFinal, Open, Having, LInv, OpenIsPending
  <2>4. CASE UNCHANGED vars
    BY <1>2, <2>4 DEF CompletedIsFinal, Open, vars, rows
  <2>5. QED
    BY <1>2, <2>1, <2>2, <2>3, <2>4 DEF Next, Record
<1>3. LInv /\ CompletedIsFinal /\ [Next]_vars => CompletedIsFinal'
  BY <1>2
<1>4. QED
  BY <1>1, <1>3, InvariantHolds, PTL DEF Spec
\* Only one worker records sends, one at a time: none goes on beside another.
LEMMA SerialStep ==
  ASSUME LInv, SendsAreSerial, SentCountExact, [Next]_vars,
         NEW w, Workers = {w}
  PROVE  SendsAreSerial' /\ SentCountExact'
<1> USE DEF LInv, Open, Having
<1>1. CASE \E c \in Contacts, o \in Outcome, p \in Workers \cup {Handler} : Begin(c, o, p)
  <2>1. PICK c \in Contacts, o \in Outcome, p \in Workers \cup {Handler} : Begin(c, o, p)
    BY <1>1
  <2>2. UNCHANGED <<status, sentCount, count>>
    BY <2>1 DEF Begin, rows
  <2>3. \A d \in Contacts \ {c} : step'[d] = step[d] /\ outcome'[d] = outcome[d]
                                    /\ by'[d] = by[d]
    BY <2>1 DEF Begin, Advance, TypeOK
  <2>4. /\ step'[c] = "written" /\ outcome'[c] = o /\ by'[c] = p
        /\ p = Handler => o = "failed"
        /\ p # Handler => \A d \in Contacts : step[d] # "none" => by[d] # p
    BY <2>1 DEF Begin, Advance, TypeOK
  <2>5. SendsAreSerial'
    BY <2>2, <2>3, <2>4, LedgerAssumption DEF SendsAreSerial
  <2>6. QED
    BY <2>2, <2>5 DEF SentCountExact
<1>2. CASE \E c \in Contacts : StartCount(c)
  BY <1>2 DEF StartCount, Advance, rows, TypeOK, SendsAreSerial, SentCountExact
<1>3. CASE \E c \in Contacts : LockCampaign(c) \/ CompleteIfDone(c) \/ Rollback(c)
  <2>1. /\ UNCHANGED <<status, sentCount, outcome, by, count>>
        /\ \E c \in Contacts : \E s \in {"none", "counted", "checked"} :
             /\ step[c] # "none" /\ step' = [step EXCEPT ![c] = s]
             /\ s # "none" => step[c] # "written"
    BY <1>3 DEF LockCampaign, CompleteIfDone, Rollback, Advance, rows
  <2>2. /\ Having("sent")' = Having("sent")
        /\ \A d \in Contacts : step'[d] # "none" =>
             step[d] # "none" /\ (step'[d] # "written" => step[d] # "written")
    BY <2>1 DEF TypeOK
  <2>3. QED
    BY <2>1, <2>2 DEF SendsAreSerial, SentCountExact
<1>4. CASE \E c \in Contacts : Commit(c)
  <2>1. PICK c \in Contacts : Commit(c)
    BY <1>4
  <2>2. /\ step[c] = "checked" /\ step' = [step EXCEPT ![c] = "none"]
        /\ status' = [status EXCEPT ![c] = outcome[c]]
        /\ sentCount' = IF outcome[c] = "sent" THEN count[c] ELSE sentCount
        /\ UNCHANGED <<outcome, by, count>>
        /\ status[c] = "pending"
    BY <2>1 DEF Commit, Advance, OpenIsPending
  <2>3. CASE outcome[c] = "sent"
    <3>1. \A d \in Contacts : step'[d] # "none" => outcome'[d] # "sent"
      BY <2>2, <2>3 DEF SendsAreSerial, TypeOK
    <3>2. Having("sent")' = Having("sent") \cup {c} /\ c \notin Having("sent")
      BY <2>2, <2>3 DEF TypeOK
    <3>3. IsFiniteSet(Having("sent"))
      BY LedgerAssumption, FS_Subset
    <3>4. Cardinality(Having("sent")') = Cardinality(Having("sent")) + 1
      BY <3>2, <3>3, FS_AddElement
    <3>5. count[c] = Cardinality(Having("sent")) + 1
      BY <2>2, <2>3 DEF SendsAreSerial
    <3>6. SentCountExact'
      BY <2>2, <2>3, <3>4, <3>5 DEF SentCountExact
    <3>7. QED
      BY <3>1, <3>6 DEF SendsAreSerial
  <2>4. CASE outcome[c] # "sent"
    <3>1. Having("sent")' = Having("sent")
      BY <2>2, <2>4 DEF TypeOK
    <3>2. QED
      BY <2>2, <2>4, <3>1 DEF SendsAreSerial, SentCountExact, TypeOK
  <2>5. QED
    BY <2>3, <2>4
<1>5. CASE UNCHANGED vars \/ Pause \/ Resume \/ Dispatch
  BY <1>5 DEF vars, rows, Pause, Resume, Dispatch, Switch, SendsAreSerial, SentCountExact
<1>6. QED
  BY <1>1, <1>2, <1>3, <1>4, <1>5 DEF Next, Record

\* With one worker, sent_count is the number of contacts sent: it sends one at a
\* time (worker.ts:177-186), and handlers only record failures.
THEOREM SendsCounted ==
  ASSUME NEW w, Workers = {w}
  PROVE  Spec => []SentCountExact
<1>1. Init => SendsAreSerial /\ SentCountExact
  <2>1. Init => Having("sent") = {} /\ \A c \in Contacts : ~Open(c)
    BY DEF Init, Having, Open
  <2>2. QED
    BY <2>1, FS_EmptySet DEF Init, SendsAreSerial, SentCountExact
<1>2. LInv /\ SendsAreSerial /\ SentCountExact /\ [Next]_vars
        => SendsAreSerial' /\ SentCountExact'
  BY SerialStep
<1>3. QED
  BY <1>1, <1>2, InvariantHolds, PTL DEF Spec

-----------------------------------------------------------------------------
(* The clock of plans.                                                     *)

\* A delay is a time, and within the quarter-hour.
LEMMA DelayInTime == \A n \in 0 .. Nothing : Delay(n) \in 1 .. PlanEvery
BY ClockAssumption DEF Delay, Nothing

\* The invariant holds at first.
LEMMA ClockInit == ClockStarts => ClockInv
<1> SUFFICES ASSUME ClockStarts PROVE ClockInv
  OBVIOUS
<1> USE ClockAssumption
<1>1. PICK r \in Plans : run = Started(r)
  BY DEF ClockStarts
<1>2. ClockTypes
  BY <1>1 DEF ClockStarts, ClockTypes, Started, Runs, Never, Nothing
<1>3. NeverForgotten /\ PlannedIsRecent /\ TimerIsInTime
  BY <1>1
  DEF ClockStarts, NeverForgotten, PlannedIsRecent, TimerIsInTime, Planning,
      Started, Runs
<1>4. LateIsOpen /\ PlanCameInTime
  BY DEF ClockStarts, LateIsOpen, PlanCameInTime, Waiting
<1>5. QED
  BY <1>2, <1>3, <1>4 DEF ClockInv

\* The user: a campaign opens unlate, or stops.
LEMMA UserClock ==
  ASSUME ClockInv, NEW k \in Campaigns,
         Stop(k) \/ \E n \in 0 .. Furthest : Launch(k, n)
  PROVE  ClockInv'
<1> USE ClockAssumption
<1>1. ClockTypes'
  BY
  DEF Stop, Launch, Forget, ClockInv, ClockTypes, campaignVars, runVars,
      Runs
<1>2. /\ UNCHANGED <<timer, run, age, todo>>
      /\ \A d \in Campaigns : d # k => late'[d] = late[d] /\ (d \in Waiting' <=> d \in Waiting)
      /\ late'[k] = 0
  BY
  DEF Stop, Launch, Forget, ClockInv, ClockTypes, LateIsOpen, Waiting,
      campaignVars, runVars
<1>3. Planning' = Planning /\ NeverForgotten'
  BY <1>2 DEF Planning, NeverForgotten, ClockInv
<1>4. LateIsOpen'
  BY <1>2 DEF LateIsOpen, ClockInv
<1>5. Waiting' \subseteq Campaigns
  BY <1>1 DEF Waiting, ClockTypes
<1>6. PlannedIsRecent'
  BY <1>1, <1>2, <1>5 DEF PlannedIsRecent, ClockInv, ClockTypes, Runs
<1>7. PlanCameInTime'
  <2> SUFFICES ASSUME Planning # {}, NEW d \in Waiting'
               PROVE  \E r \in Planning : late'[d] <= PlanEvery + MaxRun + age[r]
    BY <1>2, <1>3 DEF PlanCameInTime
  <2>1. CASE d = k
    BY <1>2, <2>1 DEF Planning, ClockInv, ClockTypes, Runs
  <2>2. CASE d # k
    BY <1>2, <1>5, <2>2 DEF PlanCameInTime, ClockInv
  <2>3. QED
    BY <2>1, <2>2
<1>8. TimerIsInTime'
  BY <1>2, <1>3, <1>5 DEF TimerIsInTime, NeverForgotten, ClockInv, ClockTypes, Never
<1>9. QED
  BY <1>1, <1>3, <1>4, <1>6, <1>7, <1>8 DEF ClockInv

\* A plan begins, or lists what it is to do: nobody is late for it yet.
LEMMA StartClock ==
  ASSUME ClockInv,
         (\E r \in Plans : Fire(r) \/ List(r)) \/ (\E k \in Campaigns : StartJob(k))
  PROVE  ClockInv'
<1> USE ClockAssumption
<1>1. ASSUME NEW r \in Plans, Fire(r) PROVE ClockInv'
  <2>1. ClockTypes'
    BY <1>1 DEF Fire, ClockInv, ClockTypes, campaignVars, Runs, Never
  <2>2. Waiting' = Waiting /\ late' = late /\ timer = 0
    BY <1>1 DEF Fire, Waiting, campaignVars
  <2>3. Planning' = Planning \cup {r} /\ age' = age
    BY <1>1 DEF Fire, Planning, ClockInv, ClockTypes, Runs
  <2>4. NeverForgotten' /\ TimerIsInTime' /\ LateIsOpen'
    BY <2>2, <2>3 DEF NeverForgotten, TimerIsInTime, LateIsOpen, ClockInv
  <2>5. PlannedIsRecent'
    BY <1>1, <2>2 DEF Fire, PlannedIsRecent, ClockInv, ClockTypes, Runs
  <2>6. PlanCameInTime'
    <3>1. CASE Planning # {}
      BY <2>2, <2>3, <3>1 DEF PlanCameInTime, ClockInv
    <3>2. CASE Planning = {}
      BY <2>2, <2>3, <3>2
         DEF PlanCameInTime, TimerIsInTime, ClockInv, ClockTypes, Runs, Waiting
    <3>3. QED
      BY <3>1, <3>2
  <2>7. QED
    BY <2>1, <2>4, <2>5, <2>6 DEF ClockInv
<1>2. ASSUME NEW r \in Plans, List(r) PROVE ClockInv'
  <2>1. ClockTypes'
    BY <1>2 DEF List, ClockInv, ClockTypes, campaignVars, Runs
  <2>2. Waiting' = Waiting /\ UNCHANGED <<late, timer, age>>
    BY <1>2 DEF List, Waiting, campaignVars
  <2>3. Planning' = Planning
    BY <1>2 DEF List, Planning, ClockInv, ClockTypes, Runs
  <2>4. PlannedIsRecent'
    BY <1>2, <2>2 DEF List, PlannedIsRecent, ClockInv, ClockTypes, Runs, Waiting
  <2>5. QED
    BY <2>1, <2>2, <2>3, <2>4
       DEF ClockInv, NeverForgotten, LateIsOpen, PlanCameInTime, TimerIsInTime
<1>3. ASSUME NEW k \in Campaigns, StartJob(k) PROVE ClockInv'
  <2>1. ClockTypes'
    BY <1>3 DEF StartJob, ClockInv, ClockTypes, campaignVars, Runs
  <2>2. Waiting' = Waiting /\ UNCHANGED <<late, timer, age>>
    BY <1>3 DEF StartJob, Waiting, campaignVars
  <2>3. \A r \in Plans : run'[r] = run[r] /\ todo'[r] = todo[r]
    BY <1>3 DEF StartJob, ClockInv, ClockTypes, Runs
  <2>4. Planning' = Planning
    BY <2>3 DEF Planning
  <2>5. QED
    BY <2>1, <2>2, <2>3, <2>4
       DEF ClockInv, NeverForgotten, LateIsOpen, PlannedIsRecent,
           PlanCameInTime,
           TimerIsInTime
<1>4. QED
  BY <1>1, <1>2, <1>3

\* A campaign is seen to by a plan or a job: it is open and late no longer, or
\* it was not.
LEMMA DispatchClock ==
  ASSUME ClockInv, NEW r \in Runs, NEW k \in Campaigns,
         DispatchCampaign(r, k) \/ DispatchFails(r, k)
  PROVE  ClockInv'
<1> USE ClockAssumption
<1> USE DEF DispatchCampaign, Skip, AskLater, PlanNow, DispatchFails, Done
<1>1. ClockTypes'
  BY DEF Forget, Fault, ClockInv, ClockTypes, Runs, campaignVars, Nothing
<1>2. /\ UNCHANGED <<timer, run, age>>
      /\ todo' = [todo EXCEPT ![r] = @ \ {k}]
      /\ \A d \in Campaigns : d # k => late'[d] = late[d]
      /\ late'[k] = 0
  BY DEF Forget, ClockInv, ClockTypes, LateIsOpen, Waiting, campaignVars
<1>3. \A d \in Campaigns : d # k => (d \in Waiting' <=> d \in Waiting)
  BY DEF Waiting, campaignVars, ClockInv, ClockTypes
<1>4. Planning' = Planning /\ NeverForgotten'
  BY <1>2 DEF Planning, NeverForgotten, ClockInv
<1>5. LateIsOpen'
  BY <1>2, <1>3 DEF LateIsOpen, ClockInv
<1>6. Waiting' \subseteq Campaigns
  BY <1>1 DEF Waiting, ClockTypes
<1>7. PlannedIsRecent'
  <2> SUFFICES ASSUME NEW q \in Plans, run[q] = "listed", NEW d \in Waiting' \ todo'[q]
               PROVE  late'[d] <= age[q]
    BY <1>2 DEF PlannedIsRecent
  <2>1. CASE d = k
    BY <1>2, <2>1 DEF ClockInv, ClockTypes, Runs
  <2>2. CASE d # k
    <3>1. d \in Waiting \ todo[q]
      BY <1>2, <1>3, <1>6, <2>2 DEF ClockInv, ClockTypes, Runs
    <3>2. QED
      BY <1>2, <1>6, <2>2, <3>1 DEF PlannedIsRecent, ClockInv
  <2>3. QED
    BY <2>1, <2>2
<1>8. PlanCameInTime'
  <2> SUFFICES ASSUME Planning # {}, NEW d \in Waiting'
               PROVE  \E q \in Planning : late'[d] <= PlanEvery + MaxRun + age[q]
    BY <1>2, <1>4 DEF PlanCameInTime
  <2>1. CASE d = k
    BY <1>2, <2>1 DEF Planning, ClockInv, ClockTypes, Runs
  <2>2. CASE d # k
    BY <1>2, <1>3, <1>6, <2>2 DEF PlanCameInTime, ClockInv
  <2>3. QED
    BY <2>1, <2>2
<1>9. TimerIsInTime'
  BY <1>2, <1>3, <1>4, <1>6
  DEF TimerIsInTime, NeverForgotten, ClockInv, ClockTypes, Never
<1>10. QED
  BY <1>1, <1>4, <1>5, <1>7, <1>8, <1>9 DEF ClockInv

\* A plan or a job ends: the plan has seen to every campaign, so the timer it
\* sets is in time whatever instant it replaces.
LEMMA EndClock ==
  ASSUME ClockInv, JobEnds \/ \E r \in Plans : PlanAllEnds(r)
  PROVE  ClockInv'
<1> USE ClockAssumption
<1> DEFINE Ends(r) ==
      /\ Report(r)
      /\ timer' \in 0 .. PlanEvery
<1>1. ASSUME NEW r \in Runs, Ends(r)
      PROVE  /\ ClockTypes' /\ NeverForgotten' /\ LateIsOpen' /\ PlannedIsRecent'
             /\ Waiting' = Waiting /\ late' = late
             /\ Planning' = Planning \ {r}
             /\ \A q \in Planning' : age'[q] = age[q]
  <2>1. ClockTypes'
    BY <1>1
    DEF Report, End, ClockInv, ClockTypes, campaignVars, Runs, Nothing,
        Never
  <2>2. Waiting' = Waiting /\ late' = late /\ NeverForgotten'
    BY <1>1 DEF Report, Waiting, NeverForgotten, campaignVars, Never
  <2>3. Planning' = Planning \ {r} /\ \A q \in Planning' : age'[q] = age[q]
    BY <1>1 DEF Report, End, Planning, ClockInv, ClockTypes, Runs
  <2>4. LateIsOpen' /\ PlannedIsRecent'
    BY <1>1, <2>2
    DEF Report, End, LateIsOpen, PlannedIsRecent, ClockInv, ClockTypes, Runs
  <2>5. QED
    BY <2>1, <2>2, <2>3, <2>4
<1>2. ASSUME NEW r \in Plans, PlanAllEnds(r) PROVE ClockInv'
  <2>1. timer' \in 0 .. PlanEvery /\ Ends(r)
    BY <1>2, DelayInTime DEF PlanAllEnds, ClockInv, ClockTypes, Runs
  <2>2. \A k \in Waiting : late[k] \in Nat /\ late[k] <= MaxRun
    BY <1>2
    DEF PlanAllEnds, Report, ClockInv, PlannedIsRecent, ClockTypes, Runs, Waiting
  <2>3. PlanCameInTime'
    BY <1>1, <2>1, <2>2 DEF PlanCameInTime, Planning, ClockTypes, Runs
  <2>4. TimerIsInTime'
    BY <1>1, <2>1, <2>2 DEF TimerIsInTime, Runs
  <2>5. QED
    BY <1>1, <2>1, <2>3, <2>4 DEF ClockInv, Runs
<1>3. CASE JobEnds
  <2>1. Delay(asks[Job]) \in 1 .. PlanEvery
    BY DelayInTime DEF ClockInv, ClockTypes, Runs
  <2>2. timer' \in 0 .. PlanEvery /\ timer' <= timer
    BY <1>3, <2>1 DEF JobEnds, ClockInv, ClockTypes, Never
  <2>3. Ends(Job) /\ Job \in Runs
    BY <1>3, <2>2 DEF JobEnds, Runs
  <2>4. Planning' = Planning
    BY <1>1, <2>3 DEF Planning
  <2>5. PlanCameInTime'
    BY <1>1, <2>3, <2>4 DEF PlanCameInTime, ClockInv
  <2>6. TimerIsInTime'
    BY <1>1, <2>2, <2>3, <2>4 DEF TimerIsInTime, ClockInv, ClockTypes, Waiting, Never
  <2>7. QED
    BY <1>1, <2>3, <2>5, <2>6 DEF ClockInv
<1>4. QED
  BY <1>2, <1>3

\* The list fails, or the process dies: nobody is late since then.
LEMMA FaultClock ==
  ASSUME ClockInv, Crash \/ \E r \in Plans : PlanFails(r)
  PROVE  ClockInv'
<1> USE ClockAssumption DEF Fault
<1>1. CASE Crash
  <2>1. PICK r \in Plans : run' = Started(r)
    BY <1>1 DEF Crash
  <2>2. ClockTypes'
    BY <1>1, <2>1
    DEF Crash, Started, ClockInv, ClockTypes, Runs, Never, Nothing
  <2>3. NeverForgotten' /\ Planning' = {r}
    BY <2>1 DEF NeverForgotten, Planning, Started, Runs
  <2>4. LateIsOpen' /\ PlannedIsRecent'
    BY <1>1, <2>1 DEF Crash, LateIsOpen, PlannedIsRecent, Started, Runs
  <2>5. PlanCameInTime' /\ TimerIsInTime'
    BY <1>1, <2>2, <2>3
    DEF Crash, PlanCameInTime, TimerIsInTime, ClockTypes, Waiting, Runs
  <2>6. QED
    BY <2>2, <2>3, <2>4, <2>5 DEF ClockInv
<1>2. ASSUME NEW r \in Plans, PlanFails(r) PROVE ClockInv'
  <2>1. timer' = PlanEvery
    BY <1>2 DEF PlanFails, Delay, Nothing
  <2>2. ClockTypes'
    BY <1>2, <2>1
    DEF PlanFails, End, ClockInv, ClockTypes, Runs, Never, Nothing
  <2>3. NeverForgotten' /\ LateIsOpen'
    BY <1>2, <2>1 DEF PlanFails, NeverForgotten, LateIsOpen, Never
  <2>4. \A k \in Waiting' : late'[k] = 0
    BY <1>2, <2>2 DEF PlanFails, Waiting, ClockTypes
  <2>5. QED
    BY <2>1, <2>2, <2>3, <2>4
       DEF ClockInv, PlannedIsRecent, PlanCameInTime, TimerIsInTime,
           Planning, ClockTypes, Runs
<1>3. QED
  BY <1>1, <1>2

\* Time passes for plans, timer and campaigns alike.
LEMMA TickClock ==
  ASSUME ClockInv, Tick
  PROVE  ClockInv'
<1> USE ClockAssumption
<1>1. ClockTypes'
  BY DEF Tick, Less, ClockInv, ClockTypes, Runs, Never, Nothing
<1>2. Planning' = Planning /\ NeverForgotten' /\ (Planning = {} => timer' = timer - 1)
  BY DEF Tick, Planning, NeverForgotten, ClockInv, ClockTypes, Never
<1>3. \A r \in Planning : age'[r] = age[r] + 1
  BY DEF Tick, Planning, Runs
<1>4. \A k \in Campaigns : late'[k] <= IF k \in Waiting THEN late[k] + 1 ELSE 0
  BY ClockAssumption DEF Tick, ClockInv, LateIsOpen, ClockTypes
<1>5. Waiting \subseteq Waiting' /\ Waiting' \subseteq Campaigns
  BY DEF Tick, Waiting, Less, ClockInv, ClockTypes
<1>6. LateIsOpen'
  BY <1>5 DEF Tick, LateIsOpen, ClockInv, ClockTypes
<1>7. PlannedIsRecent'
  <2> SUFFICES ASSUME NEW r \in Plans, run[r] = "listed", NEW k \in Waiting' \ todo[r]
               PROVE  late'[k] <= age'[r]
    BY DEF PlannedIsRecent, Tick
  <2>1. CASE k \in Waiting
    BY <1>1, <1>3, <1>4, <1>5, <2>1
    DEF PlannedIsRecent, Planning, ClockInv, ClockTypes, Runs
  <2>2. CASE k \notin Waiting
    BY <1>1, <1>4, <1>5, <2>2 DEF ClockTypes, Runs
  <2>3. QED
    BY <2>1, <2>2
<1>8. PlanCameInTime'
  <2> SUFFICES ASSUME Planning # {}, NEW k \in Waiting'
               PROVE  \E r \in Planning : late'[k] <= PlanEvery + MaxRun + age'[r]
    BY <1>2 DEF PlanCameInTime
  <2>1. CASE k \in Waiting
    BY <1>1, <1>3, <1>4, <1>5, <2>1
    DEF PlanCameInTime, Planning, ClockInv, ClockTypes, Runs
  <2>2. CASE k \notin Waiting
    BY <1>1, <1>4, <1>5, <2>2 DEF Planning, ClockTypes, Runs
  <2>3. QED
    BY <2>1, <2>2
<1>9. TimerIsInTime'
  <2> SUFFICES ASSUME Planning = {}, NEW k \in Waiting'
               PROVE  late'[k] + timer' <= PlanEvery + MaxRun
    BY <1>2 DEF TimerIsInTime
  <2>1. CASE k \in Waiting
    BY <1>2, <1>1, <1>4, <1>5, <2>1 DEF TimerIsInTime, ClockInv, ClockTypes, Never
  <2>2. CASE k \notin Waiting
    BY <1>2, <1>1, <1>4, <1>5, <2>2 DEF NeverForgotten, ClockInv, ClockTypes, Never
  <2>3. QED
    BY <2>1, <2>2
<1>10. QED
  BY <1>1, <1>2, <1>6, <1>7, <1>8, <1>9 DEF ClockInv

LEMMA ClockInductive == ClockInv /\ [ClockMoves]_clockVars => ClockInv'
<1> SUFFICES ASSUME ClockInv, [ClockMoves]_clockVars PROVE ClockInv'
  OBVIOUS
<1>1. CASE UNCHANGED clockVars
  BY <1>1
  DEF clockVars, campaignVars, runVars, ClockInv, ClockTypes, NeverForgotten,
      LateIsOpen,
              PlannedIsRecent, PlanCameInTime, TimerIsInTime, Waiting, Planning
<1>2. CASE ClockMoves
  BY <1>2, UserClock, StartClock, DispatchClock, EndClock, FaultClock, TickClock DEF ClockMoves
<1>3. QED
  BY <1>1, <1>2

\* A timer is set or a plan under way will set it, and plans and timer come
\* before any open campaign is late (planNoLaterThan, worker.ts:286-300).
THEOREM ClockHolds == ClockSpec => []ClockInv
BY ClockInit, ClockInductive, PTL DEF ClockSpec

\* No campaign with something to send waits longer than the quarter-hour and two
\* plans' length, even when a plan's end replaces an earlier instant.
THEOREM LookedAt == ClockSpec => []LookedAtInTime
<1>1. ClockInv => LookedAtInTime
  <2> SUFFICES ASSUME ClockInv, NEW k \in Waiting PROVE late[k] <= PlanEvery + 2 * MaxRun
    BY DEF LookedAtInTime
  <2>1. late[k] \in Nat
    BY DEF ClockInv, ClockTypes, Waiting
  <2>2. CASE Planning # {}
    <3>1. PICK r \in Planning : late[k] <= PlanEvery + MaxRun + age[r]
      BY <2>2 DEF ClockInv, PlanCameInTime
    <3>2. age[r] \in 0 .. MaxRun
      BY DEF Planning, Runs, ClockInv, ClockTypes
    <3>3. QED
      BY <2>1, <3>1, <3>2, ClockAssumption
  <2>3. CASE Planning = {}
    BY <2>1, <2>3, ClockAssumption DEF ClockInv, TimerIsInTime, ClockTypes, Never
  <2>4. QED
    BY <2>2, <2>3
<1>2. QED
  BY <1>1, ClockHolds, PTL
=============================================================================

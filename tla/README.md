# Campaign-Mailer in TLA+

Campaign-Mailer sends personalised e-mail campaigns through a user's own Gmail account,
slowly: a few messages an hour, at most 450 a day per account, Monday to Saturday. An Express
API (`src/backend/src/routes`) writes campaigns and contacts to PostgreSQL; one worker process
(`worker.ts`) plans the day of every running campaign, queues one BullMQ job per send in
Redis, and sends. The worker scales down to sleep, is redeployed while it works, and may die
between any two statements. What must survive all this is in `docs/send-engine.md`: *a contact
must never receive the same campaign email twice.*

This directory holds models of it, the TLC configurations that check them, and proofs of what
matters most.

## Inventory

| Part | State it keeps | Operations | Talks to | Modelled in |
|---|---|---|---|---|
| Send engine (`services/sendEngine.ts`) | `contacts.status, claimed_at, attempts`; `logs`; `campaigns.status, sent_count, error_count` | claim, refuse, check the ceiling, count the attempt, send, roll back, record, complete, pause | Gmail, tokens, composer, PostgreSQL | `SendEngine`, `Ledger`, `Log` |
| Queue (`jobs/queues.ts`, BullMQ) | one job per contact: waiting, active under a lock, failed and kept a week | enqueue (refused while the id exists), start, complete, retry, fail, recover a stalled job | the worker, Redis | `SendEngine`, `IdleSleep` |
| Processors (`jobs/processors.ts`) | none | send one, plan one or all, give up after the last attempt | engine, dispatch | `SendEngine`, `PlanClock` |
| Dispatch (`services/dispatch.ts`) | `campaigns.status`, `contacts.planned_at`, the plan in memory | start a scheduled campaign, pick the contacts, enqueue, complete an empty one | planner, queue | `SendEngine`, `PlanClock`, `Pace` |
| Planner (`services/planner.ts`, `campaignStats.ts`) | none: pure | plan a day, next opening, estimates | | `Pace` |
| Worker (`worker.ts`, `jobs/planClock.ts`, `jobs/idleSleep.ts`, `jobs/heartbeat.ts`) | the plan timer, paused or not | plan all, plan no later than, idle check, wake, beat | queue | `IdleSleep`, `PlanClock`, `Watch` |
| Campaign routes (`routes/campaigns.ts`, `services/campaigns.ts`, `campaignState.ts`) | the `campaigns` row | create, edit, launch, pause, resume, delete, follow up | contacts, dispatch | `Desk` |
| Contacts (`routes/contacts.ts`, `services/contacts.ts`, `contactImport.ts`) | `contacts` rows, `total_contacts` | import, add, mark, delete | campaigns, address book | `Desk`, `Import` |
| Address book (`services/addressBook.ts`, a trigger) | `address_book` rows, the link of each contact | add, correct, remove, import, copy to a campaign | pending contacts | `Book`, `People` |
| Attachments (`routes/attachment.ts`, `services/storage.ts`) | rows and bucket objects | upload under a cap of five, delete | storage | `Desk` |
| v1 API (`routes/v1.ts`, `services/idempotency.ts`) | `api_idempotency_keys` | claim, replay, complete, release, expire | campaigns, contacts | `Api` |
| Integration tokens | `integration_tokens` | create under a cap, revoke | | `Api`, `Session` |
| Google tokens (`tokenRefresh.ts`, `keyRotation.ts`, `users.ts`) | token columns of `users` | renew, re-encrypt, replace at sign-in | Google | `Accounts` |
| SSO (`services/sso.ts`), sign-in | `sso_codes`, the session | issue, burn, sign in, sign out | Google, MailFind | `Accounts`, `Session` |
| Account deletion (`services/accountDeletion.ts`) | everything of a user | revoke, cascade, purge files | Google, storage | `Accounts` |
| Alerts (`services/alerts.ts`, `index.ts`) | when each alert was told | check, tell, withdraw | Redis, mail | `Watch` |
| Backup (`services/backup.ts`) | a copy a day in the bucket | copy, restore | storage | `Book` |
| History, dashboard, statistics | none: they read | filter, page, advise | `logs` | `Log`, `Home`, `Quota` |
| Front end (`src/frontend`) | what each page last read, what is typed, calls under way | its buttons, its polls, its saves | the API | `Editor`, `Import`, `People`, `Home`, `Session`, `Log` |

What is hard, part by part, is the `hazards` list of `PROJECT.json`, each at its line: crashes
between the attempt and its record, answers that never come, claims and locks that lapse, jobs
that outlive their meaning, routes that check and then act, counters computed from a snapshot,
answers that overtake each other on their way to a page.

## Modules

| Module | What it is |
|---|---|
| `SendEngine` | the engine, its queue, the enqueueing half of the planner and the routes that touch the same rows: one action per await |
| `Outbox` | the abstract specification: what a contact may receive and what may be reported, without saying how |
| `Ledger` | the two transactions that record outcomes, statement by statement, as PostgreSQL interleaves them |
| `PlanClock` | when the worker plans: plans that overlap, dispatch jobs, and the one timer they all set |
| `IdleSleep` | the worker asleep: the idle checks of the interval, of a ring and of a plan, as they overlap, over the queue they read |
| `Pace` | what a plan says: hours, paces, windows and a change of clocks, and what is announced of it |
| `Watch` | what is told of a stopped worker, a stuck queue and refused sends |
| `Worker` | the three above as one specification of the worker process between two sends |
| `Desk` | the routes of a campaign, its contacts and its files, cut where they await, beside the worker |
| `Book` | the address book, its trigger, and what a backup makes of it |
| `Api` | idempotency keys around a creation, and the tokens it is made with |
| `Accounts` | one person's account: sign-ins, renewals, the rotation of the key, the deletion |
| `Log` | the send log, the count of the day, the history read from it and the follow-ups made of it |
| `Editor` | the page of one campaign, its panels and dialogs |
| `Import` | a file of contacts, in slices, into a campaign or the book |
| `People` | the page of contacts and the dialog that picks some for a draft |
| `Home`, `Quota` | the dashboard, the list and the form of a campaign; the split of a daily allowance |
| `Session` | who the front end believes is signed in, the account page, the tokens' panel |
| `Front` | the pages as one specification: the router mounts one at a time |
| `MCSendEngine`, `MCDesk`, `MCBook`, `MCLog`, `MCFront` | values and symmetry for TLC |
| `SendEngineProofs`, `GrantedProofs`, `WorkerProofs`, `ApiProofs`, `DeskProofs`, `AccountsProofs`, `BookProofs`, `FrontProofs` | the proofs; `GrantedProofs` has those of `Ledger` and of `PlanClock`, `WorkerProofs` those of `IdleSleep`, of `Pace` and of `Watch`, `FrontProofs` those of every page |

`Ledger` zooms into two actions of `SendEngine` (`RecordSent`, and `FailureRecorded` under both
of its callers). `SendEngine` takes a transaction as one step; `Ledger` asks what is left of
that when two of them overlap. The answer is: everything but `error_count`.

`IdleSleep` and `PlanClock` are what `SendEngine` takes for granted in its fairness: that a job in the
queue is started some day, and that every running campaign is planned again and again. They count time
in ticks. A clock that reaches zero stops time until what it announces happens, and a read or a plan
under way stops it after `MaxRead` or `MaxRun` ticks: that is how a deadline is stated as an invariant.
`Pace` takes its `MaxLate` from `IdleSleep`: a job is looked at soon after it is due.

`Desk` and `Book` take the engine as one step per contact; `SendEngine` takes the desk as moves that
may come at any time. `Editor`, `Home` and `Session` take each route as one step, which `Desk`, `Api`
and `Accounts` cut. `Front` and `Worker` choose one of their parts at the start and leave the others at
rest: the parts share no state, and a page that is not mounted has none.

Definitions marked *Variant* are the code with one mistake in it. No specification refers to
them. They are there to be put in the place of the definition they follow, which shows
that a property notices.

### How `SendEngine` corresponds to the code

State:

- `status, attempts` are columns of `contacts`. `claimed` is the set of contacts whose
  `claimed_at` is set *and* younger than `CLAIM_TIMEOUT`: the code only ever asks that question,
  so an instant is not needed, and the claim's lapse is an action (`ClaimExpires`).
- `sentLog` is the `sent` rows of `logs` (a unique index allows one per contact), `recent` those
  inside the rolling 24 hours that `countSentToday` counts; `WindowFrees` is the passing of time.
- `campaign, sentCount, errorCount` are columns of `campaigns`. All campaigns belong to one
  account, the unit the ceiling counts.
- `job, lock, tries` are BullMQ's: the job of a contact has the contact's id (`queues.ts:47`).
  `waiting` includes delayed jobs, whatever their delay: a delay only postpones.
- `pc, cur` say where each worker process is in `sendToContact`: `count`, `prepare`, `attempt`,
  `send`, `rollBack`, `recordSent`, `recordFailure`, `refuse` and three `release...` steps are its
  awaits; `done` and `threw` are the job's end. `handler` is `failAfterLastAttempt`, which
  `worker.ts:209` starts and does not await, per contact: `read`, then `write`.
- `plan` is what a running dispatch still has to enqueue, in memory.
- `delivered` and `unwritten` are what the world knows and the code does not: messages accepted,
  and attempts with no outcome written. No action reads them.

Every action is one statement, one transaction or one external call with the bookkeeping up
to the next, so between any two anything else may happen. `DbError` is a statement that fails
or whose answer is lost (both exist: at `send` the attempt has been counted, at `done` the
outcome has been committed); `Crash` is the process dying anywhere; `RecoverStalled` and
`LoseLock` are BullMQ taking back the job of a dead or a live worker. Faults are limited to
`MaxFaults` for TLC and to any natural number in the proofs.

Gmail is external: it accepts, refuses for good, asks to wait, or gives no readable answer.
In the last case the message may have left, and the code records a failure rather than retry.
Which HTTP answers fall in which class is not modelled.

`Frozen` is the set of workers that may outlive their own ten-minute claim. Nothing in the code
bounds a call to Google (`gmail.ts:38`), so a process can; a process that is merely slow
does not. With `Frozen = {}` a claim lapses only when no worker has the contact in hand.
`JobExpires`, a week long, likewise waits for workers that are not frozen.

### How `Ledger` corresponds to the code

A recording goes `written` (BEGIN, log row, contact row), `counting` (the counter's UPDATE has
taken its snapshot and waits for the campaign's row), `counted` (it has the row), `checked`
(`completeIfDone` has run), and commits; or it rolls back from anywhere. READ COMMITTED gives each
statement the rows committed when it started plus its own transaction's. The sub-select of the
counter is of that snapshot even when the UPDATE then waits for the row; `completeIfDone` is a new
statement with a new snapshot, made while the row is held. `by` tells a worker's recording from a
handler's: a worker does one job at a time (`concurrency: 1`), handlers are not limited. The user's
edits of contacts are left to `SendEngine`: here statuses only move by recordings.

### How `IdleSleep` corresponds to the code

`paused` is `worker.isPaused()`. A check (`createIdleController`) is three steps: `Begin` reads
`isPaused` into `sawPaused`, `CountJobs` is the answer of `getJobCounts`, `Decide` that of
`getDelayed` with `decideIdle` and the pause or resume it orders. The interval's checks
(`Interval`) and those rung for (`Rings`) interleave freely, and each decides on what it read. A
check that Redis refuses changes nothing (`CheckFails`). Jobs are of either kind: `Add` is
`enqueueSend` or `requestDispatch`, `Take`, `Finish` and `Recover` are BullMQ's, external: an awake
worker takes one job at a time, a paused one takes none and runs no stalled check.

`slept` counts the ticks a job has been due while the worker slept, and starts again when an
interval's check fails: the promise is made as long as checks answer. `foreseen` is
the set of jobs added further ahead than the horizon and not caught behind another. It is what
`ForeseenIsOnTime` is about: a job behind another, due at the same instant, can wait in the queue
while its worker is put to sleep by a check that counted the jobs before the first was taken; that
wait is `WokenInTime`'s.

### How `PlanClock` corresponds to the code

`timer` is `nextPlanAt` and `planTimer` in one: ticks left, or `Never`. A plan (`Plans`, as many at
once as `planAll` has been called and not ended; `Job`, the dispatch job, one at a time) lists the campaigns,
sees to each (`Skip`, `AskLater`, `PlanNow`, `DispatchFails` are the outcomes of `dispatchCampaign`) and
ends in `PlanAllEnds`, which replaces the timer, or `JobEnds`, which only brings it forward.
`opensIn` stands for the start hour, the day, `send_after` and the two windows: when a campaign would
find something to send. A campaign that asks gives that instant as its `retryAt`, one that is planned does not.
`late` counts how long an open campaign has had no plan since the last fault, `told` is the set of
campaigns whose instant an ended plan or job reported.

### How `Pace` corresponds to the code

One campaign of one account from its launch, over a Friday, a Saturday and the Sunday the clocks change.
A day is `Day` ticks instead of twenty-four hours and the sending window is shorter in proportion; the
arithmetic is the code's. `Offset` is `Intl`'s answer for the zone, `AtLocalHour` the code's two passes
over it, `NextOpening` its search from noon to noon; `BrowserOpening` is the front end's own search, by
calendar days. `Planned` is the loop of `planDay` as a function on the pending contacts in their order:
`Needed` says how many sends must have left the window first, `Times` when, and the plan is cut at the
first contact that does not fit. `Plan` is `dispatchCampaign`: the queue refuses the second job of a
contact, and `recordPlannedTimes` leaves a time that has not come. `again` remembers the contacts a plan met while
their job was late: the time it writes for them is neither that job's nor that of the next one
(`plan_countdown` below). Of all others `CountdownIsTrue` says that the countdown is the job's. `LaunchNow`
and `LaunchLater` keep what the dialog announced (`promise`), `NextSendAt` and `EstimatedEnd` are the server's,
`LastDay` and `FitsInOneDay` the page's. With an hour to a tick the jitter rounds to nothing. A plan is one step.
Left out: a pace changed while jobs wait, a contact set back to pending, and the `retryAt` of an
account whose quota is full. `PaceIsKept` grants one send over the pace: the contact in the worker's
hands is not pending for the plan made meanwhile and not in the log yet.

### How `Watch` corresponds to the code

A tick is the monitor's five minutes. `kind` chooses one of the three conditions, `seen` is what Redis or
the database would answer about it. `Check` reads, `Tell` is the tracker on the answer, which may be an
old one; the worker stops and starts, beats or fails to, and the process that watches may restart and
forget what it told. A condition can be told of a wait that ended just short of the limit when the read
is slow: `ToldIsTrue` speaks of what has lasted. One refusal in two stands for one in twenty.
`readQueueHealth` takes a job's timestamp plus its delay as its due instant; whether BullMQ keeps that
true across a retry is not modelled.

### How `Desk` corresponds to the code

A request loads its campaign (`Load`), checks the status it read, and goes through the statements of its
handler one at a time; `req` is what it holds in memory and the statement it is at. `Transition` is
conditional on the status in the row, every other write is not. `CountFiles` counts the committed rows,
`CommitFile` inserts; `InsertMany` and `CommitMany` are a transaction, `SyncCount` and `SyncWrite` the
statement of `syncTotal` from its snapshot to its write. `text` is which version of the message the
campaign has, `cadence` who wrote its schedule last. `Die` ends a request anywhere. The worker is three
actions: it starts a scheduled campaign, decides a pending contact, ends a campaign without any.

### How `Book` corresponds to the code

`entry` is `address_book`, `recipient` the contacts of campaigns with the entry they point to, `logged` whether
the log has a row of them, `tried` whether `attempts` is above zero; `File` is the trigger. An import, a copy and an
add of a contact fill what an entry leaves empty; a correction (`Update`) follows to the recipients nothing has been
sent to yet, those set aside and one in the worker's hands included; a removal takes those the log says nothing of.

Who joins a campaign is decided by a read made before. `AddRead` is the status an import or an add finds, `Insert`
its INSERT, which asks nothing more of the campaign (`routes/contacts.ts:99`, `routes/v1.ts:211`), so a launch may
come between; `adding` says which campaigns have such a request. A copy reads the status to answer by
(`CopyRead`), then its statement checks it again and takes the entry in its snapshot (`CopySelect`), and commits later
(`CopyInsert`): it holds only the lock of the foreign key, which a removal and not a correction waits for, so a copied recipient
may keep the details from before a correction. Each row of an import is a step of its own, linked under the lock of its entry.

`hand` is what the worker read when it claimed: a message already on its way says that. One whose attempt was
counted is refused (`Refuse`); a claim is given back without one (`Release`), and after the job's last try the
failure is written all the same (`GiveUp`). `Copied`, `PutBack` and `Restored` are the backup, as a function of the
state: the invariant says what a restore of this instant's copy would give.

### How `Api` and `Accounts` correspond to the code

`Api`: a call goes `forget`, `insert`, `look` (the statements of `claim`), `create`, `import`, `keep` and
`answered`, or from `look` to `replay` when the key has an answer for it; creations of tokens go `count`,
`commit` under the advisory lock. A closed connection releases the key while its handler goes on (`Close`), and
nothing of that call reaches anybody (`cut`); the keys this happened to are in `closed`. `told` is the answer that
last left under a key, until the key is forgotten; `unkept` the keys whose outcome could not be written. Two bodies
never have one hash. `Accounts`: Google numbers the consents a person gives, and a token is its consent's number
and the key it is sealed under. A sign-in, the worker's renewal, the rotation script and the deletion each
hold what they read until they write. The rotation follows `docs/security.md`: deploy the new key to both
processes, run the script until a run re-encrypts nothing, remove the old one. Either process may restart.

### How the front end's modules correspond to the code

A call has three moments: it is asked, served by the API, and answered, and another call may come
between any two. It may be lost on the way there or back. A component's state is one variable or a
field of one; a closure that carries the filters of its render carries them in its call. What a React
render derives is an operator. Timers fire at any time after they are set: `Editor` keeps no clock.
Lists are sets: a page of `People` holds the entries with as many before them as its offset, one of `Log` the rows
with as many newer. `Quota` is `suggestShares` on functions: `Before` is the order of the code's sort, `Pass` one
round of its loop, `Distribute` all of them; the exact shares are compared as fractions over one denominator, where
the code compares floating-point numbers.
In `Editor` one place of `net` stands for all calls of a kind, the code having one under way at a time
(`saving`, `busy`) or cleaning up behind an effect; in `People`, `Home` and `Log` reads of a list
are a set, since nothing there stops an older one. `Log`'s journal holds the last twenty-four hours only.

## Runs

A cfg instantiates everything with model values or small sets; the check of deadlock is off everywhere,
because a campaign whose contacts are all decided, or a page its user has left, has nothing left to do.

| Run | Bounds | What it shows |
|---|---|---|
| `engine_overlap` | 1 contact the user also edits, 2 workers, 3 attempts, 3 faults | `AtMostOnce`, `PauseStopsClaims`, the inductive invariant `IInv` (one holder, a crash always recognisable) and the refinement `KeepsPromise` |
| `engine_settles` | 1 campaign, 2 contacts nobody edits, 1 worker, ceiling 1, 2 attempts, 1 fault, with fairness | `PendingIsSettled`, `EmptyCampaignEnds`; `CompletedIsSettled`, `CeilingHolds` with one contact waiting for the window of the other, `SentStaysSent` through crashes, retries and the last-attempt handler |
| `ledger` | 3 contacts, 1 worker, with fairness | `SentCountExact`, `LastOutcomeCompletes`, `CompletedIsFinal`, `RecordingEnds`, the inductive invariant `LInv` |
| `plan_clock` | 1 campaign, 2 plans and the dispatch job, quarter-hour of 3 ticks, plans of 2 at most, openings up to 4, 1 fault, with fairness | `LookedAtInTime` and its inductive invariant `ClockInv`; `OpenIsPlanned` |
| `idle_sleep` | sleep: 2 jobs, the interval and 1 ring, intervals of 3 ticks, horizon 4, reads of 1 tick at most, delays up to 6, 1 fault. Plan: 4 contacts, days of 6 ticks with a window of 2, pace 2, ceiling 4 with 0 or 2 other sends, 13 ticks from the Friday, clocks that go back. Watch: a limit of 3 ticks, repeats after 3 | `WokenInTime`, `ForeseenIsOnTime`, `JobRuns` (the orphan of a dead process included); `PlanIsSafe`; `WatchIsTrue`; the inductive invariants of the three, `WorkerInv` |
| `desk` | 2 requests, 1 campaign and a follow-up of it, 1 address, 2 files under a cap of 1, 1 new text | `DeskInv`: no campaign lists a file whose object is gone or is another's; `DeskKeeps`: moves along the graph, a launched campaign changes only by the requests that met it as a draft |
| `book` | 2 entries, 2 recipients, 2 addresses, 1 value of a field | `BookInv`: one entry and one recipient per address, who the log says nothing of is of somebody in the book, a restore gives everyone back; `BookKeeps`: nothing but the user rewrites an entry, nothing a recipient with an outcome, only the user's own deletion takes one the log speaks of, and one joins a launched campaign only by a request that found it a draft |
| `api` | 2 calls, 1 key, 2 bodies, 2 tokens under a cap of 1, 2 faults, with fairness | `OncePerKey`; `RetryFindsIt`: the answer that left under a key is the one a retry of the same call is given, through faults, deaths and closed connections, unless keeping it failed; `KeyServesAgain` |
| `accounts` | 1 sign-in at a time, 2 consents, the account created twice, 1 campaign, 1 code, with fairness | `RotationIsSafe`, `OnlySignInsReplace`, `SendingHeals`; `RevokedMeansRevoked`: the "revoked" a deletion answers is true if it read the newest consent, unless the token it sent was one Google no longer knew: a dead refresh token beside a later consent, or an access token that expired, with no refresh token stored |
| `front` | the editor with 2 texts typed, 1 other action, 1 lost call; an import of 3 files in slices of 2, two at once; 3 entries, pages of 1 or 2, 3 actions; 2 campaigns under an allowance of 2; 2 tokens under a cap of 1; 3 recipients, two of one person | `SavedIsStored`, `TypingIsSaved` (with fairness); `ReportIsTrue`; `SelectionIsSafe`; `AdviceFits`; `SessionIsTrue` |

Why the bounds are enough. Every property of the engine is about one contact, or about the
contacts of one account against a ceiling. Two workers and one contact give every race for a
contact; three faults are enough to crash, lose a lock and lose an answer in one history, and
the third attempt is where the last-attempt handler starts. Two contacts and a ceiling of one are
the smallest in which one send takes the other's room; that several campaigns planned separately share
the ceiling is left to the proof, which takes any number of them. In `Ledger`
three contacts let two recordings overlap while a third is pending, which is what completing too
early needs. In `IdleSleep` the horizon exceeds the interval by one read, as 2.5 minutes exceed two;
delays pass it by two, so that jobs are foreseen and not; two jobs give one behind another. In `PlanClock`
an opening can lie past the quarter-hour, a plan lasts long enough for the timer a job set to fire before
it ends, and a second plan then overlaps it. `TooLate` is where `late` stops counting, past every bound.
In `Pace` four contacts at two a day fill a day, free its slots on the next and leave some for after the
Sunday; `After` is one tick behind `Before`. `Desk` needs two requests for any check to be
overtaken, and one address, since its statements about the list concern each address alone. In `Book` two
entries can exchange an address and two recipients of one campaign can meet on it. In `Api` a retry is a
second call, and its body is the first's or not. In `Accounts` two consents make an older and a newer one,
and a second account one that a stale write could reach; the proofs cover
any number. In the pages' modules two calls under way are
enough to overtake each other; a selection of three can lie on pages of one and of two. What these bounds do
not reach, the proofs do, for the modules that have them.

Two runs are expected to find a violation of what a comment of the repository says; each is a
finding of `PROJECT.json`:

- `engine_frozen`: two alive workers, one held up past its claim and out of its lock, send twice. Without a
  frozen worker `AtMostOnce` is proved.
- `log_day`: `config/env.ts:106` calls the ceiling what one account may send over a rolling 24 hours. The
  count is of log rows, which cascade: deleting a contact already written to, or a paused or
  completed campaign, gives its sends back, and the worker sends as many more the same day. `front` has
  what does hold, `DayIsBounded`.

The same kind of disagreement is kept in cfgs that are not part of the runs, to be checked by hand with
`tlc -config`:

| cfg (module) | Violated | What a document, a comment or a test says |
|---|---|---|
| `engine_exhausted` (`MCSendEngine`) | `ExhaustedReachedNobody` | `processors.ts:55`: no error that reaches the last-attempt handler reached a recipient. The failure to record an accepted send does |
| `engine_kept` (`MCSendEngine`) | `KeptJobIsDecided` | `queues.ts:35`: the contact of a kept failed job is already failed. A relaunch makes it pending again, and the queue refuses it for up to a week |
| `engine_relaunch` (`MCSendEngine`) | `AmbiguousMeansUnwritten` | `sendEngine.ts:104`: the refusal means no outcome was written. It reads `attempts`, which nothing resets: a contact relaunched by hand, as the message advises, is refused again for good |
| `ledger_errors` (`Ledger`) | `ErrorCountExact` | two failures recorded at once leave `error_count` one short, with a single worker: its next job and the handler of its last one |
| `plan_missed` (`PlanClock`) | `AppointmentKept` | `worker.ts:174`: the timer must not miss the instant a launch asked for. A plan under way that listed the campaigns before the launch ends with `replace` and discards it; the campaign waits up to the quarter-hour that `LookedAtInTime` grants |
| `plan_countdown` (`Pace`) | `CountdownIsExact` | `dispatch.ts:221`: the interface can count down to the real second, since a contact planned again keeps its job's time. A late job's time has passed, so the plan writes another; when that job is then held back by the account's ceiling, the next plan queues one for a third time and leaves the second on screen |
| `desk_cap` (`MCDesk`) | `CapHolds` | `services/campaigns.ts:293`: the cap is counted by the INSERT itself. Two that count at once pass it |
| `desk_refused` (`MCDesk`) | `RefusedChangesNothing` | `routes/campaigns.ts:310`: a refused move changes nothing. A launch that loses has already written its schedule |
| `api_closed` (`Api`) | `OneDraftPerKey` | `routes/v1.ts:43`: a retry under a key creates nothing twice. A connection closed early releases the key under its handler |
| `accounts_revoked` (`Accounts`) | `RevokedLeavesNothing` | `docs/RUNBOOK.md:312`: a deletion revokes Google access, or the user is told how to. `googleRevoke.ts:30` counts `invalid_token` as a success, and the one token sent (`accountDeletion.ts:73`) may be one Google no longer knows: an access token that expired, when no refresh token was stored (a first consent whose callback failed, then one that came without), or a dead refresh token beside the access token of a later consent. "Revoked" is answered and the consent stays. `accounts` has what does hold, `RevokedMeansRevoked`, whose exceptions are these two |
| `accounts_files` (`Accounts`) | `FilesGoWithAccount` | `storage.ts:163`: a deletion leaves no file. Those of a campaign deleted before stay in the bucket |
| `book_removed` (`MCBook`) | `RemovedIsOut` | `addressBook.ts:20` and `:364`, and the confirmation the user reads (`Contacts.tsx:663`): a removal takes the person out of the sends still to come. The DELETE spares every recipient with a log row (`:370`), pending ones too. One whose job ran out of attempts before any was counted (`recordFailureById`) has such a row; set to pending again by hand, it is left behind linked to nobody, and its next job, which the queue refuses while it keeps the failed one, sends to it. `book` has what does hold, `NobodyLeftBehind` of `BookInv`: a recipient the log says nothing of. One whose attempt was counted would be refused, and failed |
| `book_removed`, with this property instead | `SentTellsWhatWentOut` | `1790070000000_address-book.sql:15`: a sent row tells what went out. A correction that commits while the message is leaving rewrites it |
| `book_restore` (`MCBook`) | `PutsBackExactly` | `backup.integration.test.ts:102`: a restore puts it back exactly. A recipient already written to whose person left the book brings the person back, since the trigger runs |

and, for the pages, as definitions to be named in a copy of `front.cfg` behind the page's instance:
`NothingIsDropped` (`CampaignEditor.tsx:293`: a refresh after a file or a contact changed overwrites the
draft and clears its mark), `FilesAreShown` (a save's answer carries no files), `TotalIsTrue`
(`ImportDialog.tsx:240` counts the imported twice), `NoEmptyPage` (`Contacts.tsx:178` steps back one page
only), `RowsAnswerFilters` and `ListIsWhole` (the answer that comes last wins, whichever was asked last),
`NoHalfPlan` (one call of the plan refused, the others applied), `ListHasRows`, `LeavingEnds` (a refresh
answered after the sign-out), `NothingLeft` (`Login.tsx` says all data is gone when files were not purged),
`LineSurvives` (`frontend/src/services/history.ts:20`: a log line survives its contact; it cascades),
`TabsAddUp`, `OneFollowUp`; and `PaceHoldsNothing` of `Pace`
(`frontend/src/services/campaigns.ts:279`: what is left fits in one day, so the pace holds nothing back.
It holds back what a day already spent leaves over, and the panel about it is hidden).

## Fairness

`SendEngine`: a live worker does its next step (Node runs on); a waiting job is eventually started
(strong fairness, since BullMQ is first in, first out and the worker's being busy only interrupts);
a plan being enqueued goes on; the stalled check runs (`worker.ts:85`); the claim's ten minutes and
the window's 24 hours pass; the planner plans each running campaign again and again, now and then
in sending hours and with room in the campaign's own pace (`DispatchInHours`). Nothing is assumed
about Gmail's answers (a contact may be told to wait until its attempts are over, and is then failed),
about the user, faults, or the removal of failed jobs. `PendingIsSettled` therefore excepts the
contacts stuck behind a kept job: `engine_kept` shows they exist, and a plan keeps
spending its slots on them.

`IdleSleep`: time passes, the interval fires, Redis answers, jobs end; an awake worker takes the
jobs that wait in their order and runs its stalled check (strong fairness: sleep interrupts both).
Nobody has to ring. `PlanClock`: time passes, timers fire, plans go on. Nothing is assumed of the user.

`Ledger`: each recording goes on, and the lock of a row is granted in order (strong fairness of
`LockCampaign`), which is PostgreSQL's queue.

`Api`: a statement ends, twenty-four hours pass, the worker's purge runs daily. Nobody has to retry.
`Accounts`: sends keep asking for the token, an access token lasts an hour, a sign-in and a deploy that
began end. The script and the deletion need not. `Editor`: the timer of the save fires, the API serves
and answers a save, or the call is lost, which is an answer too. Nothing is assumed of the user.

## What is proved

For any finite set of contacts, any campaigns, workers, ceiling, attempts and faults:

`SendEngineProofs`

| Theorem | Statement | Assumes |
|---|---|---|
| `TypeCorrect` | `Spec => []TypeOK` | |
| `InvariantHolds` | `Spec => []IInv` | `Frozen = {}` |
| `NeverTwice` | `Spec => []AtMostOnce` | `Frozen = {}` |
| `HeldByOne` | `Spec => []OneHolder` | `Frozen = {}` |
| `Recognisable` | `Spec => []CrashIsRecognisable` | `Frozen = {}` |
| `PauseStops` | `Spec => PauseStopsClaims` | |
| `ImplementsOutbox` | `Spec => KeepsPromise` | `Frozen = {}` |
| `SentStays` | `Spec => SentStaysSent` | one worker |
| `SettledHolds`, `Settled`, `CountsKept` | `Spec => []SettledInv`, `[]CompletedIsSettled`, `[]CountsMatchRows` | one worker, no contact edited by hand |
| `CeilingKept` | `Spec => []CeilingHolds` | one worker |
| `CeilingNearlyHolds` | `Spec => [](Cardinality(recent) < DailyLimit + Cardinality(Workers))` | finitely many workers |

`AtMostOnce` is not inductive: from a state where two workers are both about to call Gmail for one
contact, one step breaks it. What excludes that state is a chain. A contact in hand is protected by
its live claim, or by the kept job that refuses another (`HolderProtected`: the last-attempt
handler clears the claim under a worker that lost its lock, but only after that job failed). A
handler works only on a failed job (`HandlerFollowsFailure`) and a lock means an active one
(`LockMeansActive`), so the claim cleared is never one another job could use. Hence one holder. The
attempt count then says how far that holder got (`AttemptsTellTheStep`), and a contact once delivered
carries an attempt (`CrashIsRecognisable`), so that whoever takes it later refuses it. `IInv` is the
conjunction. The refinement maps `open` to the contacts of running campaigns, `taken` to those in
some worker's hand, `inbox` to `delivered` and `reported` to `sentLog`, and needs `IInv` for the steps that
give a contact back.

The next three lines rest on an argument of their own, which allows frozen workers and needs one worker:
`OutcomeInv` says that the contact in a worker's hands has its job before it, not behind, so that the
last-attempt handler is never at work on it, and that neither of them finds it sent. So nothing turns a `sent`
into a `failed`. `SettledInv` adds that, when nobody edits them, both find theirs pending
(`PendingUntilOutcome`): an outcome is written once, the counters change with the rows, and a campaign
completed for want of pending contacts has none in hand.
The deployment runs one worker; during a deploy two may overlap, and then `SentStaysSent` is false: TLC
finds the history with two workers, one attempt and two faults. A worker loses its job's lock while it sends, the other takes the
job and its claim fails, the last-attempt handler of that failed job reads a pending contact, the first worker
records the send, and the handler writes the failure. That is the hazard of
`sendEngine.ts:372`, and why these theorems say "one worker". With edits by hand the counters are known to
differ (see the end of this file).

The ceiling is checked and then passed, so it is no invariant of the check alone. `CeilingMargin` counts
the sends of the window and the workers past their check (`PastCheck`) together: below the ceiling plus the number of workers.
A worker that passes its check found room, one that records moves from the second count to the
first. With one worker that is the ceiling itself;
with two it may be passed by one. The number of workers is the only thing assumed: not how long they take,
nor what is edited meanwhile.

`GrantedProofs`: what `SendEngine` takes for granted of a transaction and of the planner, for any contacts, campaigns,
overlapping plans and lengths

| Theorem | Statement | Assumes |
|---|---|---|
| `InvariantHolds` | `Spec => []LInv` | |
| `CompletionNotMissed` | `Spec => LastOutcomeCompletes` | |
| `CompletionFinal` | `Spec => []CompletedIsFinal` | |
| `SendsCounted` | `Spec => []SentCountExact` | one worker |
| `ClockHolds` | `ClockSpec => []ClockInv` | an opening may lie past the quarter-hour |
| `LookedAt` | `ClockSpec => []LookedAtInTime` | the same |

In `Ledger`, past its counter's UPDATE a recording holds the campaign's row, so nothing else can
commit, so what its `completeIfDone` saw is still so when it commits. `SendsCounted` adds
`SendsAreSerial`: the only worker's send is alone among sends, so its count stays right until it commits.
In `PlanClock`, `ClockInv` follows a plan: what it has seen to is no later than the plan is old
(`PlannedIsRecent`), one under
way came within the quarter-hour of another's end (`PlanCameInTime`), and with none under way the
timer comes in time (`TimerIsInTime`). A plan's end may replace an earlier instant, but it has just
seen to every campaign, which is why the bound survives `replace`.

`WorkerProofs`, for any jobs, overlapping checks, delays, limits and faults

| Theorem | Statement | Assumes |
|---|---|---|
| `InvariantHolds` | `WorkerSpec => []WorkerInv` | reads end within the interval; the horizon covers an interval and a read; "never" is not an instant; the clocks change at night (below) |
| `Woken` | `WorkerSpec => []WokenInTime` | the same |
| `Foreseen` | `WorkerSpec => []ForeseenIsOnTime` | the same |
| `PlanKeeps` | `WorkerSpec => []PlanIsSafe` | the same |
| `Watched` | `WorkerSpec => []WatchIsTrue` | the same |

`SleepInv` says that a sleep over a due job began after the last interval's check decided, or that the
check now under way saw the worker paused and will wake it: a job it counts as absent was put after
it began (`UnseenIsRecent`). So a stale `isPaused` costs one interval, never two. A job foreseen is always
further off than the next check of the interval that will wake the worker for it (`ForeseenAhead`).
`WatchInv` says that checks answer in the order they read, that a check that read since anything changed will
decide as the state now is (`FreshFits`), and that one such has decided, is under way, or comes in time (`LookIsDue`); for
the reminder, the same of the next check to answer (`AgainIsDue`).

`PlanIsSafe` is proved for any hours, pace, pause, ceiling, delays and number of contacts, from `PaceInv`. `PaceIsKept`
is not inductive: what a day will hold depends on jobs that have not run. `RoomIsLeft` says of each job, at its due
instant or now if it is late, that the sends of the day before that instant and everybody who may leave no later than it are
together within the pace and one; as an instant moves on the first number shrinks, a send moves one from the second to the first,
and a plan gives a contact no instant before enough slots are free (`Needed`, `Frees`). `TimeIsKept` ties the time on
screen to the job, `LaunchIsKept` holds every plan back until the promise, in the hours that are left before it.

The forecasts rest on lemmas about the operators. `PaceAssumption` says that the offset of the zone changes by no more than
the start hour and by less than half a day, and that the local times skipped or repeated are neither in the sending hours nor at
noon. Zones change their clocks by two hours at the most and in the night; the window goes from 9 to 19 o'clock. Then a day's start
hour and noon are where `AtLocalHour` says (`HourIsFound`), days keep their order at those hours (`DaysInOrder`), and a noon's next day is the next
(`NextDay`), so that the server's search and the browser's are the same function; it ends within three days, since of two days
in a row one is not a Sunday (`SearchEnds`). `NothingBefore` shows that no start hour of a sending day is passed
over: the opening found is the least. The end announced is compared with the day the page counts by two divisions by
the pace (`DaysAreEnough`). The recursive functions of `Pace` (`Times`, `AddSendDays`, the searches) are shown to exist, and to
have the values they should, by a least contact or day for which they would not.

`ApiProofs`, `DeskProofs`, `AccountsProofs` and `BookProofs`. Assumed: finite sets of calls, tokens, files and addresses (`Api`,
`Desk`), and that "no row" is not a row (`Book`)

| Theorem | Statement | For any |
|---|---|---|
| `StoredOnce` | `Spec => []OncePerKey` | calls, keys, bodies, tokens under any cap, faults |
| `AnswerIsKept` | `Spec => []RetryFindsIt` | the same |
| `FilesAreKept` | `Spec => []DeskInv` | campaigns, files, addresses, requests |
| `MovesAreLegal` | `Spec => DeskKeeps` | the same |
| `CapNearlyHolds` | `Spec => [](\A k \in Campaigns : Cardinality(fileRow[k]) < MaxAttachments + Cardinality(Requests))` | the same, at least one request |
| `CapHoldsAlone` | `Spec => []CapHolds` | one request at a time |
| `RotationSafe` | `Spec => []RotationIsSafe` | sign-ins, consents, accounts created again |
| `RevokedIsRevoked` | `Spec => []RevokedMeansRevoked` | the same |
| `SignInsReplace` | `Spec => OnlySignInsReplace` | the same |
| `BookHolds` | `Spec => [](TypeOK /\ OneEach /\ NobodyLeftBehind)` | entries, recipients, campaigns, addresses |
| `BookIsSafe` | `Spec => []BookInv` | the same, recipients finite in number |
| `BookKept` | `Spec => BookKeeps` | the same |

`OncePerKey` is inductive as it stands, because it says of every call that works under a key what it is about to
find there. A call in hand has its own key running, its body and nothing imported (`ClaimHeld`); a day cannot
pass over it, since a request ends before it (`OldIsSettled`), so the purge frees no key in use; and a call whose
connection closed still has its draft (`DraftsCounted`), so a second call's creation cannot be taken for the
first's. The cap rests on the lock: whoever is past the count holds it (`LockHeld`), so the room seen is there.
`RetryFindsIt` compares what the client was told (`told`) with what the key holds: whoever answers anew has kept its
answer before, and it stays until the day is over, since a kept key is nobody's to settle, release or take (`KeptInv`).
Faults, deaths and closed connections are covered. Left out (`unkept`): a key whose keeping itself failed, for
then the answer leaves all the same (`services/idempotency.ts:82`) and the key says that the call still runs.

`DeskInv` is inductive through `Phases` and `FilesInHand`: what a request is doing says what it holds, and a file
between its object and its row is in one request's hands. A row is deleted before its object and inserted
after, so a request that dies leaves an object without a row and never the contrary. `MovesAreLegal`
follows from `Phases`: a launch or a move is decided by the status its own UPDATE finds, and every other
write of content was let through by a read of a draft, made by a request that `Late` still counts.
`CapHolds` is false of two uploads at once (`desk_cap`); what is proved is how far: a campaign's files and the
uploads that counted them and have not written theirs (`CapMargin`) stay below the cap and one per request,
so each upload under way but one may pass it by a file, and one at a time keeps it.

`RotationIsSafe` adds to the stored tokens those in flight (`NothingOld`): once both processes have the new key
nothing new is sealed with the old one, a token sealed before dies with the process that held it, and a run
that re-encrypted nothing has seen the row as it is. `RevokedMeansRevoked` says of a deletion under way what it
will be able to answer (`Deciding`): if it read the newest consent, the token it took is one Google honours or
Google honours none. An attempt to prove it without the exception of a dead refresh token failed, and showed
the history `accounts_revoked` keeps; that of an expired access token is the other.
`BookHolds` is inductive with one fact about a copy under way: it took its entry of a draft (`CopyMet`). `BookKept` follows from the same steps. That a restore gives everyone back (`RestoreGivesBack`, in `BookInv`) speaks of a
fold over the recipients, in an order nobody chose. Its three facts (the fold exists, it does not depend on the set it is restricted to, each of its values gives
back what was put back so far) are each proved by a smallest counterexample: inclusion is well founded on the finite
subsets, and on a smallest set that fails, the step from that set less one recipient shows that it does not.

`FrontProofs`, for any texts, files, e-mails, contacts, campaigns, tokens, calls and clicks

| Theorem | Statement | Assumes |
|---|---|---|
| `SavedMeansStored` | `Spec => []SavedIsStored` | |
| `ReportsAreTrue` | `Spec => []ReportIsTrue` | finitely many e-mails |
| `ShownIsTrue` | `Spec => []SessionIsTrue` | |
| `SelectionsAreSafe` | `Spec => []SelectionIsSafe` | finitely many contacts |
| `DayStaysBounded` | `Spec => [](page = "log" => Lo!DayIsBounded)` | the same |
| `AdviceAlwaysFits` | `Spec => []AdviceFits` | finitely many campaigns |

Each page has an invariant of its own (`PagesInv` is all of them together), of which the pages
at rest say nothing. `EditorInv`: every answer on its way carries a message the API held at some time, and a save that nothing
was typed over since carries the text on screen (`SaveIsOfText`); so "saved" is shown of a text that was stored, however
the answers overtake each other. `ImportInv`: what a run of the import has counted plus what its last slice was granted is the number of
addresses it added itself, and what it said of the lines it has passed is so (`RunIsTrue`); each address has one run
that added it, so two files at once do not count it twice. A report is of a run that is over. `SessionInv`: the terms seen
are the account's or older (`TermsGoUp`), whoever is about to say goodbye has seen the account go (`GoodbyeIsMeant`), and
what is revoked on screen or on its way there has ended for good (`PanelIsTrue`). That last part was not inductive at
first: it let a token be revoked from a list the panel does not have. It now says that a token is chosen from
a list that is shown, as the buttons are in the list's rows (`IntegrationTokens.tsx`), and that an answered reading holds a list. The pages are given marks that stand for "none", "loading" or "failed" (`MarksAssumption`):
they are none of the values they stand beside.

`PeopleInv` follows a removal: what it counts as removed is gone already (`RemovalIsTrue`), nobody comes back as the
entry it was, and a picker's answer is never read as a removal's (`PickerCopies`); each draft left behind is
charged to a call lost. `LogInv`: an answer that gives a number is that of a follow-up made (`AnswerIsTrue`), which holds one contact of each
address asked for; what left and no deletion took is in the log (`DayIsLogged`), which the ceiling bounds as it is counted. `HomeInv`
adds to what was applied the shares under way: while nobody else sets a pace and no call is lost, each campaign no longer
waited for has its share or nothing left to send (`ApplyFits`), so an apply that succeeded sums to the shares, and
what happens later only takes campaigns out of the sum.

That the shares are fair (`SplitsAreFair`, for any number of campaigns and needs) goes by sums first: `Total` is a fold
over a set in an order nobody chose, and is shown to be the sum whatever that order (`OnTake`), to grow with what
is summed and to be linear. The order of a pass has no ties, so a pass moves exactly as many messages as are
left or can be (`ServedCount`); after m passes each share is its first one moved by m, up to what is left or down to
one, unless the allowance is met (`Dealt`). First shares rounded down leave less than one message a campaign, floored at one they
take less than that too much, so the passes there are meet the allowance (`PassesMeet`), and where no floor or cap bends
the proportion one pass ends it, within a message.

Only model-checked:

- liveness (`PendingIsSettled`, `EmptyCampaignEnds`, `RecordingEnds`, `JobRuns`, `OpenIsPlanned`, `KeyServesAgain`,
  `SendingHeals`, `TypingIsSaved`): fairness and ENABLED are out of the prover's reach;
- the violations.

Every invariant and every action property of the passing runs is stated by a theorem. What a recursive definition computes for every
input is proved without the library's induction theorems, which take an operator that no prover here
instantiates: the argument by a smallest counterexample is made for each fold and each recursive function (`Restored` of
`Book`, `Total` and `Distribute` of `Quota`, the searches, `Times` and `AddSendDays` of `Pace`).

## Not modelled, and why

- String building: templates, the two renderers of the merge, MIME, previews, starter texts, exports. They
  are pure, and unit tests hold them.
- The parser of a file's cells and encodings, the signatures of attachments, the cryptography, Passport and
  the session store, rate limits, request validation, logging, error reporting.
- Which HTTP answer of Gmail is which of the four outcomes.
- The loss of all of Redis, and the worker's shutdown, which only stops it from taking jobs. The timers of
  the daily purge and backup: the purge itself is in `SendEngine` and `Api`, the backup in `Book`.
- Of the backup: tables other than the book and the recipients. Two facts about it were met on the way.
  `TRUNCATE ... CASCADE` also empties tables the copy does not hold (tokens, idempotency keys, exchange
  codes), and restoring rewinds statuses and logs, so that contacts sent since the copy may be written to again.
- Charts, skeletons, toasts, styles, legal pages, the preview and the table of contacts: they show what a
  modelled component holds.
- Known and not given a property: `PATCH` of a contact leaves `sent_count` and `error_count` as they were
  (`routes/contacts.ts:186`) until the next outcome of the same kind; `CountsMatchRows` holds without edits. A
  selection of more than 2000 contacts cannot be copied. `NextSendCountdown.tsx:60` may lose its timer when
  rendered again within two seconds. `quota.ts` says its shares sum to the allowance: they sum to what is
  left when that is less, which is how `SharesAreFair` states it. `LaunchDialog` reads the clock once, when it
  opens, and `estimateSchedule` of the page counts today even when the day's window is over.

## What could come next

1. `Desk` with the engine's own steps instead of one action per contact, so that a deletion meets a send
   half-way.
2. A pace changed, or a contact set back to pending, while jobs wait in `Pace`: `RoomIsLeft` will not hold
   as it is.
3. The schedule of a refused launch, which has a hazard and a cfg but, being false, no theorem.

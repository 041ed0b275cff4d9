------------------------------- MODULE Ledger -------------------------------
(***************************************************************************)
(* The transactions that record outcomes, statement by statement:          *)
(* recordSent and recordFailure of services/sendEngine.ts, run by a worker *)
(* or by its 'failed' handler, which nobody awaits (worker.ts:209).        *)
(*                                                                         *)
(* PostgreSQL runs them READ COMMITTED.  A statement sees what was         *)
(* committed when it started, and its own transaction's writes.  An UPDATE *)
(* of the campaign's row waits for the row's lock, kept until the end of   *)
(* the transaction, but the count it writes is of its snapshot, taken      *)
(* before the wait.  One campaign; SendEngine has each transaction in one  *)
(* step.                                                                   *)
(***************************************************************************)
EXTENDS Naturals, FiniteSets

CONSTANTS
  Contacts,     \* contacts of the campaign
  Workers,      \* processes sending: one job at a time each
  NoContact

\* worker.on('failed'): it works for no worker in particular.
Handler == "handler"

ASSUME LedgerAssumption ==
  IsFiniteSet(Contacts) /\ NoContact \notin Contacts /\ Handler \notin Workers

VARIABLES
  status,       \* contacts.status, as committed
  campaign,     \* campaigns.status, as committed
  sentCount,    \* campaigns.sent_count, as committed
  errorCount,   \* campaigns.error_count, as committed
  step,         \* how far each contact's recording is
  outcome,      \* what it records
  by,           \* who runs it: a worker, or the 'failed' handler
  count,        \* what its count saw, its own contact included
  closes,       \* whether its completeIfDone matched the campaign
  holder        \* whose transaction has the lock of the campaign's row

rows == <<status, campaign, sentCount, errorCount>>
vars == <<rows, step, outcome, by, count, closes, holder>>

Outcome == {"sent", "failed"}
Status  == {"pending", "ignored"} \cup Outcome

Having(s) == {c \in Contacts : status[c] = s}
Open(c)   == step[c] # "none"

TypeOK ==
  /\ status     \in [Contacts -> Status]
  /\ campaign   \in {"running", "paused", "completed"}
  /\ sentCount  \in Nat
  /\ errorCount \in Nat
  /\ step       \in [Contacts -> {"none", "written", "counting", "counted", "checked"}]
  /\ outcome    \in [Contacts -> Outcome]
  /\ by         \in [Contacts -> Workers \cup {Handler}]
  /\ count      \in [Contacts -> Nat]
  /\ closes     \in [Contacts -> BOOLEAN]
  /\ holder     \in Contacts \cup {NoContact}

Advance(c, from, to) ==
  step[c] = from /\ step' = [step EXCEPT ![c] = to]

-----------------------------------------------------------------------------
\* Variant: several jobs at a time in one process.
BeginConcurrently(c, o, p) ==
  /\ status[c] = "pending"
  /\ Advance(c, "none", "written")
  /\ p = Handler => o = "failed"
  /\ outcome' = [outcome EXCEPT ![c] = o]
  /\ by' = [by EXCEPT ![c] = p]
  /\ UNCHANGED <<rows, count, closes, holder>>

\* BEGIN, the log row and the contact's own row: nobody else sees them yet.
\* The worker has the contact in hand, or the handler read it as pending.
Begin(c, o, p) ==
  /\ status[c] = "pending"
  /\ Advance(c, "none", "written")
  /\ p = Handler => o = "failed"
  /\ p # Handler => \A d \in Contacts : Open(d) => by[d] # p
  /\ outcome' = [outcome EXCEPT ![c] = o]
  /\ by' = [by EXCEPT ![c] = p]
  /\ UNCHANGED <<rows, count, closes, holder>>

\* The counter's UPDATE starts: its snapshot counts what is committed, and c.
StartCount(c) ==
  /\ Advance(c, "written", "counting")
  /\ count' = [count EXCEPT ![c] = Cardinality(Having(outcome[c])) + 1]
  /\ UNCHANGED <<rows, outcome, by, closes, holder>>

\* Variant: the counter kept where no lock on the campaign is needed.
LockNothing(c) ==
  /\ Advance(c, "counting", "counted")
  /\ UNCHANGED <<rows, outcome, by, count, closes, holder>>

\* The row is free, or its last holder has ended.
LockCampaign(c) ==
  /\ Advance(c, "counting", "counted")
  /\ holder = NoContact
  /\ holder' = c
  /\ UNCHANGED <<rows, outcome, by, count, closes>>

\* Variant: a contact in somebody's hands taken for a decided one.
CompleteIfNoneFree(c) ==
  /\ Advance(c, "counted", "checked")
  /\ closes' = [closes EXCEPT ![c] =
       campaign = "running" /\ \A d \in Having("pending") : Open(d)]
  /\ UNCHANGED <<rows, outcome, by, count, holder>>

\* completeIfDone: a new statement, a new snapshot, the row already its own.
CompleteIfDone(c) ==
  /\ Advance(c, "counted", "checked")
  /\ closes' = [closes EXCEPT ![c] =
       campaign = "running" /\ Having("pending") \subseteq {c}]
  /\ UNCHANGED <<rows, outcome, by, count, holder>>

Commit(c) ==
  /\ Advance(c, "checked", "none")
  /\ status' = [status EXCEPT ![c] = outcome[c]]
  /\ sentCount' = IF outcome[c] = "sent" THEN count[c] ELSE sentCount
  /\ errorCount' = IF outcome[c] = "failed" THEN count[c] ELSE errorCount
  /\ campaign' = IF closes[c] THEN "completed" ELSE campaign
  /\ holder' = NoContact
  /\ UNCHANGED <<outcome, by, count, closes>>

\* Variant: the connection goes back to the pool with its transaction open.
RollbackForgotten(c) ==
  /\ Open(c)
  /\ step' = [step EXCEPT ![c] = "none"]
  /\ UNCHANGED <<rows, outcome, by, count, closes, holder>>

\* A statement fails: ROLLBACK, and the error goes up.
Rollback(c) ==
  /\ Open(c)
  /\ step' = [step EXCEPT ![c] = "none"]
  /\ holder' = IF holder = c THEN NoContact ELSE holder
  /\ UNCHANGED <<rows, outcome, by, count, closes>>

\* A single statement on the campaign's row, which waits for it to be free:
\* the user pauses or resumes, a plan that found nothing pending completes.
Switch(from, to) ==
  /\ holder = NoContact
  /\ campaign = from
  /\ campaign' = to
  /\ UNCHANGED <<status, sentCount, errorCount, step, outcome, by, count, closes, holder>>

Pause    == Switch("running", "paused")
Resume   == Switch("paused", "running")
Dispatch == Having("pending") = {} /\ Switch("running", "completed")

-----------------------------------------------------------------------------
Init ==
  /\ status     \in [Contacts -> {"pending", "ignored"}]
  /\ campaign   = "running"
  /\ sentCount  = 0
  /\ errorCount = 0
  /\ step       = [c \in Contacts |-> "none"]
  /\ outcome    = [c \in Contacts |-> "failed"]
  /\ by         = [c \in Contacts |-> Handler]
  /\ count      = [c \in Contacts |-> 0]
  /\ closes     = [c \in Contacts |-> FALSE]
  /\ holder     = NoContact

Record(c) ==
  StartCount(c) \/ LockCampaign(c) \/ CompleteIfDone(c) \/ Commit(c)

Next ==
  \/ \E c \in Contacts :
       \/ Record(c) \/ Rollback(c)
       \/ \E o \in Outcome, p \in Workers \cup {Handler} : Begin(c, o, p)
  \/ Pause \/ Resume \/ Dispatch

Spec == Init /\ [][Next]_vars

\* A recording goes on; the row's lock is handed over in order.
Fairness ==
  \A c \in Contacts : SF_vars(LockCampaign(c)) /\ WF_vars(Record(c))

FairSpec == Spec /\ Fairness

-----------------------------------------------------------------------------
\* sent_count is the number of contacts sent: only a worker records a send, and
\* one process sends one at a time (worker.ts:177-186, sendEngine.ts:277-284).
SentCountExact == sentCount = Cardinality(Having("sent"))

\* error_count is the number of contacts that failed (sendEngine.ts:251).
ErrorCountExact == errorCount = Cardinality(Having("failed"))

\* The commit of the last outcome of a running campaign completes it, however
\* many recordings overlap: completeIfDone looks again once the campaign's row
\* is its own, so the later of two always sees the other (sendEngine.ts:327).
LastOutcomeCompletes ==
  [][\A c \in Contacts :
       (status[c] = "pending" /\ Having("pending")' = {} /\ campaign = "running")
         => campaign' = "completed"]_vars

\* A completed campaign has nothing pending and no recording left to commit.
CompletedIsFinal ==
  campaign = "completed" => \A c \in Contacts : status[c] # "pending" /\ ~Open(c)

\* A recording ends, whoever had the campaign's row before (sendEngine.ts:288).
RecordingEnds == \A c \in Contacts : Open(c) ~> ~Open(c)

\* What makes the completion right: past the counter's UPDATE a recording has
\* the campaign's row, so nothing it has read can change under it.
HolderIsAlone ==
  \A c \in Contacts :
    /\ step[c] \in {"counted", "checked"} <=> holder = c
    /\ step[c] = "checked" =>
         (closes[c] <=> campaign = "running" /\ Having("pending") \subseteq {c})

\* An open recording is of a contact still pending.
OpenIsPending == \A c \in Contacts : Open(c) => status[c] = "pending"

\* What makes sent_count right: a send's count is still good when it commits,
\* because no other send is being recorded meanwhile.
SendsAreSerial ==
  \A c \in Contacts : Open(c) /\ outcome[c] = "sent" =>
    /\ by[c] \in Workers
    /\ \A d \in Contacts : Open(d) /\ by[d] = by[c] => d = c
    /\ step[c] # "written" => count[c] = Cardinality(Having("sent")) + 1

LInv == TypeOK /\ OpenIsPending /\ HolderIsAlone
=============================================================================

-------------------------------- MODULE Home --------------------------------
(***************************************************************************)
(* The pages that show every campaign at once: the dashboard with its poll *)
(* and its advice on the daily allowance (Dashboard.tsx, QuotaAdvice.tsx,  *)
(* quota.ts), the list (Campaigns.tsx), and the form that creates one      *)
(* (CampaignNew.tsx).                                                      *)
(*                                                                         *)
(* The advice is computed from what the page last read and applied with    *)
(* one call per campaign, while the worker sends, another tab changes a    *)
(* pace, and the poll reads again.                                         *)
(***************************************************************************)
EXTENDS Naturals, FiniteSets, SequencesExt, Quota

CONSTANTS
  Campaigns,   \* slots for the campaigns of the account: 1, 2, ...
  Limit,       \* accountDailyLimit
  PageSize,    \* PAGE of Campaigns.tsx
  MaxMoves,    \* bound: what the user does, here or in another tab
  MaxMissed,   \* bound: calls that fail on their way there or back
  MaxReads,    \* bound: reads of the page, the first included
  None, Failed \* no answer yet; the call failed

VARIABLES
  view,      \* "dashboard", "campaigns", "new", or "left"
  camps,     \* the campaigns, as the API has them
  board,      \* what is on screen: the state of its load, the rows, if any send is to come
  reads,     \* reads under way
  asking,    \* QuotaAdvice: its confirmation is open
  apply,     \* the calls of an apply under way
  plan,      \* history: the campaigns of the last apply that succeeded, untouched since
  doomed,    \* toDelete
  deletion,  \* a removal under way
  filter,    \* Campaigns: the status asked for, and the offset
  creation,  \* CampaignNew: the state of its form
  moves, missed, asked

hvars == <<view, camps, board, reads, asking, apply, plan, doomed, deletion, filter, creation,
           moves, missed, asked>>
screen == <<view, board, asking, doomed, filter, creation>>

-----------------------------------------------------------------------------
(* services/campaigns.ts, and the advice of services/quota.ts.             *)

Row == [status : {"draft", "scheduled", "running", "paused", "completed", "absent"},
        left : Nat, pace : Nat]
Absent == [status |-> "absent", left |-> 0, pace |-> 1]

IsActive(row) == row.status \in {"scheduled", "running", "paused"}

\* campaignsSharingQuota.
Sharing(rows) == {c \in Campaigns : IsActive(rows[c]) /\ rows[c].left > 0}
Paces(rows, s) == [c \in s |-> rows[c].pace]

Ready == board.state = "ready"

\* quotaAdvice of what is on screen: the pace proposed to each campaign it is
\* about, or nothing.
Advise(l) ==
  LET who    == Sharing(l.rows)
      shares == Suggest([c \in who |-> l.rows[c].left], Limit)
  IN  IF /\ l.state = "ready" /\ Cardinality(who) > 1
         /\ Total(Paces(l.rows, who)) > Limit /\ shares # Paces(l.rows, who)
      THEN shares ELSE NoShares

Advised == Advise(board)

\* The shares that differ from the pace on screen.
Changing == {c \in DOMAIN Advised : Advised[c] # board.rows[c].pace}

-----------------------------------------------------------------------------
Move == moves < MaxMoves /\ moves' = moves + 1
Miss == missed < MaxMissed /\ missed' = missed + 1
Mounted == view \in {"dashboard", "campaigns"}
Quiet == ~asking /\ doomed = 0
\* refresh: on the dashboard two reads that are awaited together.
NewRead == [rows |-> None,
            soon |-> IF view = "dashboard" THEN None ELSE FALSE, lost |-> FALSE]
Refresh == asked < MaxReads /\ asked' = asked + 1 /\ reads' = reads \cup {NewRead}

\* Where the campaigns of the account may stand when the page opens.
Starts == {[status |-> "running", left |-> 1, pace |-> Limit],
           [status |-> "scheduled", left |-> 1, pace |-> Limit],
           [status |-> "draft", left |-> 0, pace |-> 1], Absent}

Init ==
  /\ view \in {"dashboard", "campaigns", "new"}
  /\ camps \in [Campaigns -> Starts]
  /\ board = [state |-> "loading", rows |-> [c \in Campaigns |-> Absent], soon |-> FALSE]
  /\ reads = IF view = "new" THEN {} ELSE {NewRead}
  /\ asking = FALSE /\ apply = None /\ plan = {}
  /\ doomed = 0 /\ deletion = None
  /\ filter = [status |-> "all", offset |-> 0]
  /\ creation = "form"
  /\ moves = 0 /\ missed = 0 /\ asked = 1

-----------------------------------------------------------------------------
(* The reads.                                                              *)

Serve(r) ==
  /\ r \in reads
  /\ \/ r.rows = None /\ reads' = (reads \ {r}) \cup {[r EXCEPT !.rows = camps]} /\ UNCHANGED missed
     \/ /\ r.soon = None
        /\ reads' = (reads \ {r}) \cup {[r EXCEPT !.soon =
                      \E c \in Campaigns : camps[c].status \in {"scheduled", "running"}]}
        /\ UNCHANGED missed
     \/ ~r.lost /\ Miss /\ reads' = (reads \ {r}) \cup {[r EXCEPT !.lost = TRUE]}
  /\ UNCHANGED <<screen, camps, apply, plan, deletion, moves, asked>>

\* A read that fails keeps what is on screen.  Advice that leaves the page takes
\* its dialog with it.
Answered(r) ==
  /\ r \in reads /\ Mounted
  /\ r.lost \/ None \notin {r.rows, r.soon}
  /\ \E l \in {IF ~r.lost THEN [state |-> "ready", rows |-> r.rows, soon |-> r.soon]
               ELSE IF Ready THEN board ELSE [board EXCEPT !.state = "failed"]} :
       board' = l /\ asking' = (asking /\ Advise(l) # NoShares)
  /\ reads' = reads \ {r}
  /\ UNCHANGED <<view, camps, apply, plan, doomed, deletion, filter, creation, moves, missed, asked>>

Retry ==
  /\ board.state = "failed" /\ Mounted
  /\ board' = [board EXCEPT !.state = "loading"]
  /\ Refresh
  /\ UNCHANGED <<view, camps, asking, apply, plan, doomed, deletion, filter, creation, moves, missed>>

\* Every thirty seconds while something is to be sent, or when a countdown ends.
Poll ==
  /\ view = "dashboard" /\ Ready /\ board.soon
  /\ Refresh
  /\ UNCHANGED <<screen, camps, apply, plan, deletion, moves, missed>>

-----------------------------------------------------------------------------
(* The worker, and the user's other tab.                                   *)

Engine(c) ==
  /\ \/ camps[c].status = "scheduled" /\ camps' = [camps EXCEPT ![c].status = "running"]
     \/ /\ camps[c].status = "running" /\ camps[c].left > 0
        /\ camps' = [camps EXCEPT ![c].left = @ - 1,
                                  ![c].status = IF camps[c].left = 1 THEN "completed" ELSE @]
  /\ UNCHANGED <<screen, reads, apply, plan, deletion, moves, missed, asked>>

\* A pace set elsewhere: no plan made before it stands.
SetElsewhere(c, p) ==
  /\ IsActive(camps[c]) /\ camps[c].pace # p /\ Move
  /\ camps' = [camps EXCEPT ![c].pace = p]
  /\ plan' = {}
  /\ apply' = IF apply = None THEN None ELSE [apply EXCEPT !.alone = FALSE]
  /\ UNCHANGED <<screen, reads, deletion, missed, asked>>

-----------------------------------------------------------------------------
(* The advice.                                                             *)

OpenAdvice ==
  /\ view = "dashboard" /\ Quiet /\ Advised # NoShares /\ Move
  /\ asking' = TRUE
  /\ UNCHANGED <<view, camps, board, reads, apply, plan, doomed, deletion, filter, creation, missed, asked>>

CloseAdvice ==
  /\ asking /\ Move
  /\ asking' = FALSE
  /\ UNCHANGED <<view, camps, board, reads, apply, plan, doomed, deletion, filter, creation, missed, asked>>

\* apply: one call per campaign, all at once.  Bound: one apply at a time.
Apply ==
  /\ asking /\ apply = None
  /\ apply' = [shares |-> Advised, waiting |-> Changing, got |-> {},
               failed |-> FALSE, told |-> FALSE,
               alone |-> \A c \in DOMAIN Advised : board.rows[c].pace = camps[c].pace]
  /\ UNCHANGED <<screen, camps, reads, plan, deletion, moves, missed, asked>>

\* PATCH: the pace stays editable until the campaign is finished.  Promise.all is
\* over at the first refusal, the other calls go on.
ServePace(c) ==
  /\ apply # None /\ c \in apply.waiting
  /\ LET ok    == camps[c].status \notin {"completed", "absent"}
         after == IF ok THEN [camps EXCEPT ![c].pace = apply.shares[c]] ELSE camps
         rest  == [apply EXCEPT !.waiting = @ \ {c}]
         over  == apply.told /\ apply.waiting = {c} IN
     \/ /\ camps' = after
        /\ apply' = IF over THEN None
                    ELSE [rest EXCEPT !.failed = @ \/ ~ok,
                                      !.got = IF ok THEN @ \cup {[c |-> c, row |-> after[c]]}
                                              ELSE @]
        /\ UNCHANGED missed
     \/ /\ camps' \in {camps, after}
        /\ apply' = IF over THEN None ELSE [rest EXCEPT !.failed = TRUE]
        /\ Miss
  /\ plan' = IF camps' = camps THEN plan ELSE {}
  /\ UNCHANGED <<screen, reads, deletion, moves, asked>>

\* An apply that is whole is shown, and read again.
Applied ==
  /\ apply # None /\ ~apply.failed /\ apply.waiting = {} /\ Mounted
  /\ board' = [board EXCEPT !.rows = [c \in Campaigns |->
       IF \E g \in apply.got : g.c = c /\ Ready /\ @[c].status # "absent"
       THEN (CHOOSE g \in apply.got : g.c = c).row ELSE @[c]]]
  /\ Refresh
  /\ asking' = FALSE
  /\ plan' = IF apply.alone THEN DOMAIN apply.shares ELSE {}
  /\ apply' = None
  /\ UNCHANGED <<view, camps, doomed, deletion, filter, creation, moves, missed>>

\* Its failure is a word in a corner, and the dialog stays.
ApplyFails ==
  /\ apply # None /\ apply.failed /\ ~apply.told /\ Mounted
  /\ apply' = IF apply.waiting = {} THEN None ELSE [apply EXCEPT !.told = TRUE]
  /\ UNCHANGED <<screen, camps, reads, plan, deletion, moves, missed, asked>>

-----------------------------------------------------------------------------
(* The list of campaigns, its filter and its pages.                        *)

Filtered ==
  SetToSortSeq({c \in Campaigns : board.rows[c].status # "absent"
                  /\ filter.status \in {"all", board.rows[c].status}}, LAMBDA a, b : a < b)

Listed ==
  SubSeq(Filtered, filter.offset + 1, Smaller(filter.offset + PageSize, Len(Filtered)))

\* Always the first page of a new filter.
Refine(s) ==
  /\ view = "campaigns" /\ Ready /\ Quiet /\ s # filter.status /\ Move
  /\ filter' = [status |-> s, offset |-> 0]
  /\ UNCHANGED <<view, camps, board, reads, asking, apply, plan, doomed, deletion, creation, missed, asked>>

\* Pagination, shown when there is more than a page.
TurnPage ==
  /\ view = "campaigns" /\ Ready /\ Quiet /\ Len(Filtered) > PageSize /\ Move
  /\ \/ filter.offset > 0
        /\ filter' = [filter EXCEPT !.offset = Larger(0, @ - PageSize)]
     \/ filter.offset + PageSize < Len(Filtered)
        /\ filter' = [filter EXCEPT !.offset = @ + PageSize]
  /\ UNCHANGED <<view, camps, board, reads, asking, apply, plan, doomed, deletion, creation, missed, asked>>

-----------------------------------------------------------------------------
(* Removing a campaign, from either page; creating one.                    *)

\* The card of a campaign on screen has the button, unless it is sending.
OpenDelete(c) ==
  /\ Mounted /\ Ready /\ Quiet /\ Move
  /\ board.rows[c].status \notin {"absent", "running"}
  /\ IF view = "campaigns" THEN Contains(Listed, c) ELSE board.rows[c].status # "completed"
  /\ doomed' = c
  /\ UNCHANGED <<view, camps, board, reads, asking, apply, plan, deletion, filter, creation, missed, asked>>

CloseDelete ==
  /\ doomed # 0 /\ Move
  /\ doomed' = 0
  /\ UNCHANGED <<view, camps, board, reads, asking, apply, plan, deletion, filter, creation, missed, asked>>

ConfirmDelete ==
  /\ doomed # 0 /\ deletion = None
  /\ deletion' = [c |-> doomed, ans |-> None]
  /\ UNCHANGED <<screen, camps, reads, apply, plan, moves, missed, asked>>

\* DELETE refuses a campaign that is running.
ServeDelete ==
  /\ deletion # None /\ deletion.ans = None
  /\ LET ok == camps[deletion.c].status \notin {"running", "absent"}
         after == IF ok THEN [camps EXCEPT ![deletion.c] = Absent] ELSE camps IN
     \/ /\ camps' = after /\ UNCHANGED missed
        /\ deletion' = [deletion EXCEPT !.ans = IF ok THEN "gone" ELSE "refused"]
     \/ camps' \in {camps, after} /\ Miss /\ deletion' = [deletion EXCEPT !.ans = Failed]
  /\ UNCHANGED <<screen, reads, apply, plan, moves, asked>>

\* onDeleted closes whichever dialog is open by then, and reads again.
Deleted ==
  /\ deletion # None /\ deletion.ans # None /\ Mounted
  /\ IF deletion.ans = "gone" THEN doomed' = 0 /\ Refresh
     ELSE UNCHANGED <<doomed, reads, asked>>
  /\ deletion' = None
  /\ UNCHANGED <<view, camps, board, asking, apply, plan, filter, creation, moves, missed>>

Submit ==
  /\ view = "new" /\ creation = "form" /\ Move
  /\ creation' = "asked"
  /\ UNCHANGED <<view, camps, board, reads, asking, apply, plan, doomed, deletion, filter, missed, asked>>

ServeCreate ==
  /\ creation = "asked"
  /\ \E c \in Campaigns :
       /\ camps[c] = Absent
       /\ \/ /\ camps' = [camps EXCEPT ![c].status = "draft"]
             /\ creation' = "made" /\ UNCHANGED missed
          \/ /\ camps' \in {camps, [camps EXCEPT ![c].status = "draft"]}
             /\ creation' = "lost" /\ Miss
  /\ UNCHANGED <<view, board, reads, asking, apply, plan, doomed, deletion, filter, moves, asked>>

\* The page of the new campaign, or the reason beside the form.
Created ==
  /\ \/ creation = "made" /\ view' = "left" /\ UNCHANGED creation
     \/ creation = "lost" /\ creation' = "form" /\ UNCHANGED view
  /\ UNCHANGED <<camps, board, reads, asking, apply, plan, doomed, deletion, filter, moves, missed, asked>>

-----------------------------------------------------------------------------
Next ==
  \/ \E r \in reads : Serve(r) \/ Answered(r)
  \/ Retry \/ Poll
  \/ \E c \in Campaigns :
       \/ Engine(c) \/ OpenDelete(c)
       \/ \E p \in {1, Limit} : SetElsewhere(c, p)
  \/ OpenAdvice \/ CloseAdvice \/ Apply \/ Applied \/ ApplyFails
  \/ \E c \in IF apply = None THEN {} ELSE apply.waiting : ServePace(c)
  \/ \E s \in {"all", "draft"} : Refine(s)
  \/ TurnPage
  \/ CloseDelete \/ ConfirmDelete \/ ServeDelete \/ Deleted
  \/ Submit \/ ServeCreate \/ Created

Spec == Init /\ [][Next]_hvars

-----------------------------------------------------------------------------
Tables == [Campaigns -> Row]
Boards == [state : {"loading", "ready", "failed"}, rows : Tables, soon : BOOLEAN]
Reads  == [rows : {None} \cup Tables, soon : {None} \cup BOOLEAN, lost : BOOLEAN]
Shares(f) == DOMAIN f \subseteq Campaigns /\ f \in [DOMAIN f -> Nat]
Applies(f) ==
  [shares : {f}, waiting : SUBSET DOMAIN f, got : SUBSET [c : Campaigns, row : Row],
   failed : BOOLEAN, told : BOOLEAN, alone : BOOLEAN]

\* Type correctness.
HomeTypes ==
  /\ view \in {"dashboard", "campaigns", "new", "left"}
  /\ camps \in Tables /\ board \in Boards /\ reads \subseteq Reads
  /\ asking \in BOOLEAN
  /\ apply # None => Shares(apply.shares) /\ apply \in Applies(apply.shares)
  /\ plan \subseteq Campaigns /\ doomed \in Campaigns \cup {0}
  /\ deletion \in {None} \cup [c : Campaigns, ans : {None, Failed, "gone", "refused"}]
  /\ filter \in [status : {"all", "draft"}, offset : Nat]
  /\ creation \in {"form", "asked", "made", "lost"}

\* An apply that succeeded is a plan that fits: whatever was sent, paused or removed
\* since, the paces it set still hold within the allowance.
PlanFits ==
  Total(Paces(camps, {c \in plan : IsActive(camps[c]) /\ camps[c].left > 0})) <= Limit

AdviceFits == HomeTypes /\ PlanFits

\* The shares under way fit; while nobody else sets a pace and no call fails, whoever
\* is not waited for has its own, or nothing left to send.
ApplyFits ==
  apply # None =>
    /\ Total(apply.shares) <= Limit
    /\ apply.alone /\ ~apply.failed =>
         \A c \in DOMAIN apply.shares \ apply.waiting :
           camps[c].pace = apply.shares[c] \/ camps[c].left = 0

\* What makes the advice fit, as an inductive invariant.
HomeInv == AdviceFits /\ ApplyFits

\* QuotaAdvice.tsx, apply: "They go together, so a slow connection does not apply
\* half the plan".  It does not hold: one call may be refused or lost and the others not.
NoHalfPlan ==
  apply # None /\ apply.failed /\ apply.waiting = {} => apply.got = {}

\* A page of the list has rows.  It need not: removing the last campaign of the last
\* page leaves its offset, and with one page left no way back but a filter.
ListHasRows == view = "campaigns" /\ Ready /\ Filtered # <<>> => Listed # <<>>
=============================================================================

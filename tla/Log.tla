--------------------------------- MODULE Log ---------------------------------
(***************************************************************************)
(* The send log and what is made of it in a day: the rows the worker writes *)
(* and its daily ceiling counts (sendEngine.ts), what the cascade of a     *)
(* deletion takes away, the history read from them (services/history.ts,   *)
(* History.tsx, CampaignRecords.tsx), and the follow-up started from a     *)
(* selection of it.                                                        *)
(*                                                                         *)
(* Bound: nothing in a behaviour is older than 24 hours.                   *)
(***************************************************************************)
EXTENDS Naturals, FiniteSetsExt

CONSTANTS
  Recipients,       \* rows of contacts, over the campaigns of the account
  CampaignOf,   \* the campaign of each, which is of a type of its own
  AddressOf,    \* their addresses
  Ceiling,      \* GMAIL_DAILY_LIMIT
  PageLen,      \* PAGE of History.tsx
  MaxPresses,   \* bound: what the user does, here or in another tab
  MaxMisses,    \* bound: calls that fail on their way there or back
  MaxLooks,     \* bound: reads of the page
  None, Failed

VARIABLES
  roster,   \* contacts.status, "gone" without a row
  journal,  \* logs about a contact, numbered as they were written
  away,     \* history: the contacts a message left for
  forgotten,\* history: those whose row a deletion took from the log
  table,    \* what is on screen
  looks,    \* reads under way
  sieve,    \* type, outcome, campaignId and offset
  ticked,   \* selected
  relance,  \* FollowUpDialog
  drafts,   \* history: the follow-ups made, with what each was made from
  presses, misses, looked

lvars == <<roster, journal, away, forgotten, table, looks, sieve, ticked, relance, drafts,
           presses, misses, looked>>
store == <<roster, journal, away, forgotten>>
face  == <<table, sieve, ticked>>

-----------------------------------------------------------------------------
Sources == {CampaignOf[p] : p \in Recipients}
Outcomes  == {"sent", "failed"}
Only(s) == {s} \cup {{x} : x \in s}
Press == presses < MaxPresses /\ presses' = presses + 1
Miss  == misses < MaxMisses /\ misses' = misses + 1

\* The WHERE of the history, with and without the type.
Apart(f) == {e \in journal : e.outcome \in f.outcome /\ CampaignOf[e.who] \in f.campaign}
Fits(f)  == {e \in Apart(f) : CampaignOf[e.who] \in f.type}
Tally(s) == [k \in Sources |-> Cardinality({e \in s : CampaignOf[e.who] = k})]

\* Newest first.
Newer(e, s) == {d \in s : d.at > e.at}
PageOf(f) ==
  {e \in Fits(f) : Cardinality(Newer(e, Fits(f))) \in f.offset..(f.offset + PageLen - 1)}

\* countSentToday: the rows themselves.
SentRows  == {e \in journal : e.outcome = "sent"}
SentToday == Cardinality(SentRows)

\* A row is written as its contact is settled, and numbered by how many were before.
Settled == {p \in Recipients : roster[p] # "pending"}
NewRow(p, o) == [who |-> p, outcome |-> o, at |-> Cardinality(Settled) + 1]

NoDialog == [open |-> FALSE, ids |-> {}, ans |-> None]
Look(f) == [f |-> f, total |-> None, rows |-> None, tabs |-> None, lost |-> FALSE]
Fetch(f) == looked < MaxLooks /\ looked' = looked + 1 /\ looks' = looks \cup {Look(f)}
Everything == [type |-> Sources, outcome |-> Outcomes, campaign |-> Sources, offset |-> 0]

\* The page opens as the day's ceiling is reached.
Init ==
  /\ \E s \in {s \in SUBSET Recipients : Cardinality(s) = Ceiling} :
       LET turn == CHOOSE t \in [s -> 1..Ceiling] : \A p, q \in s : t[p] = t[q] => p = q IN
       /\ roster = [p \in Recipients |-> IF p \in s THEN "sent" ELSE "pending"]
       /\ journal = {[who |-> p, outcome |-> "sent", at |-> turn[p]] : p \in s}
       /\ away = s
  /\ forgotten = {}
  /\ table = [state |-> "loading", rows |-> {}, total |-> 0, tabs |-> None]
  /\ sieve = Everything /\ looks = {Look(Everything)}
  /\ ticked = {} /\ relance = NoDialog /\ drafts = {}
  /\ presses = 0 /\ misses = 0 /\ looked = 1

-----------------------------------------------------------------------------
(* The worker, and deletions from another tab.                             *)

\* One worker: it counts, sends and records.
Send(p) ==
  /\ roster[p] = "pending" /\ SentToday < Ceiling
  /\ \E o \in Outcomes :
       /\ roster' = [roster EXCEPT ![p] = o]
       /\ journal' = journal \cup {NewRow(p, o)}
       /\ away' = IF o = "sent" THEN away \cup {p} ELSE away
  /\ UNCHANGED <<forgotten, face, looks, relance, drafts, presses, misses, looked>>

\* ON DELETE CASCADE, from contacts and from campaigns; a running campaign is paused
\* first.
Cascade(gone) ==
  /\ roster' = [p \in Recipients |-> IF p \in gone THEN "gone" ELSE roster[p]]
  /\ journal' = {e \in journal : e.who \notin gone}
  /\ forgotten' = forgotten \cup (away \cap gone)

Forget ==
  /\ Press
  /\ \/ \E p \in Recipients : roster[p] # "gone" /\ Cascade({p})
     \/ \E k \in Sources : Cascade({p \in Recipients : CampaignOf[p] = k})
  /\ UNCHANGED <<away, face, looks, relance, drafts, misses, looked>>

-----------------------------------------------------------------------------
(* Reading the history: three statements, awaited together.                *)

Serve(l) ==
  /\ l \in looks /\ ~l.lost
  /\ \/ /\ l.total = None /\ UNCHANGED misses
        /\ looks' = (looks \ {l}) \cup {[l EXCEPT !.total = Cardinality(Fits(l.f))]}
     \/ /\ l.rows = None /\ UNCHANGED misses
        /\ looks' = (looks \ {l}) \cup {[l EXCEPT !.rows = PageOf(l.f)]}
     \/ /\ l.tabs = None /\ UNCHANGED misses
        /\ looks' = (looks \ {l}) \cup {[l EXCEPT !.tabs = Tally(Apart(l.f))]}
     \/ l.total = None /\ l.rows = None /\ l.tabs = None /\ Miss
        /\ looks' = (looks \ {l}) \cup {[l EXCEPT !.lost = TRUE]}
  /\ UNCHANGED <<store, face, relance, drafts, presses, looked>>

\* Nothing ties an answer to the filters on screen.
Answered(l) ==
  /\ l \in looks /\ table.state # "left"
  /\ \/ l.lost /\ table' = [table EXCEPT !.state = "failed"]
     \/ /\ ~l.lost /\ None \notin {l.total, l.rows, l.tabs}
        /\ table' = [state |-> "ready", rows |-> l.rows, total |-> l.total, tabs |-> l.tabs]
  /\ looks' = looks \ {l}
  /\ UNCHANGED <<store, sieve, ticked, relance, drafts, presses, misses, looked>>

Retry ==
  /\ table.state = "failed"
  /\ table' = [table EXCEPT !.state = "loading"]
  /\ Fetch(sieve)
  /\ UNCHANGED <<store, sieve, ticked, relance, drafts, presses, misses>>

\* The filters are there once there is, or was asked for, something to filter.
Filtering == [sieve EXCEPT !.offset = 0] # Everything
Shown == table.state = "ready" \/ (table.state = "loading" /\ table.rows # {})
Filters == Shown /\ ~relance.open /\ (table.total > 0 \/ Filtering)

\* refine: always back to the first page.  A row of CampaignRecords filters to its
\* campaign.
Refine(f) ==
  /\ Filters /\ Press
  /\ sieve' = [f EXCEPT !.offset = 0] /\ sieve' # sieve
  /\ Fetch(sieve')
  /\ UNCHANGED <<store, table, ticked, relance, drafts, misses>>

TurnPage ==
  /\ Filters /\ table.total > PageLen /\ Press
  /\ \/ sieve.offset >= PageLen /\ sieve' = [sieve EXCEPT !.offset = @ - PageLen]
     \/ /\ sieve.offset + PageLen < table.total
        /\ sieve' = [sieve EXCEPT !.offset = @ + PageLen]
  /\ Fetch(sieve')
  /\ UNCHANGED <<store, table, ticked, relance, drafts, misses>>

-----------------------------------------------------------------------------
(* The selection, which lasts from page to page, and the follow-up.        *)

OnPage == {e.who : e \in table.rows}

Toggle(ids) ==
  /\ table.state = "ready" /\ Filters /\ ids # {} /\ ids \subseteq OnPage /\ Press
  /\ ticked' = IF ids \subseteq ticked THEN ticked \ ids ELSE ticked \cup ids
  /\ UNCHANGED <<store, table, looks, sieve, relance, drafts, misses, looked>>

Deselect ==
  /\ ticked # {} /\ table.state # "left" /\ ~relance.open /\ Press
  /\ ticked' = {}
  /\ UNCHANGED <<store, table, looks, sieve, relance, drafts, misses, looked>>

\* The dialog can be closed while it waits, which takes nothing back.
OpenOrClose ==
  /\ ticked # {} /\ table.state # "left" /\ Press
  /\ relance' = [relance EXCEPT !.open = ~@]
  /\ UNCHANGED <<store, face, looks, drafts, misses, looked>>

\* The button is busy until the answer.
Create ==
  /\ relance.open /\ relance.ids = {}
  /\ relance' = [relance EXCEPT !.ids = ticked]
  /\ UNCHANGED <<store, face, looks, drafts, presses, misses, looked>>

\* Variant: a row for each id.
CopiesAll(ids) == {ids}

\* createFollowUp: a contact of each address, and ON CONFLICT DO NOTHING for the others.
Copies(ids) ==
  {s \in SUBSET ids : \A p \in ids : Cardinality({q \in s : AddressOf[q] = AddressOf[p]}) = 1}

\* One transaction; a follow-up of nobody is removed by the next and refused, unless the
\* process died between the two.
ServeFollowUp ==
  /\ relance.ids # {} /\ relance.ans = None
  /\ \E to \in Copies({p \in relance.ids : roster[p] # "gone"}) :
       LET made == drafts \cup {[asked |-> relance.ids, to |-> to]} IN
       \/ /\ drafts' = (IF to = {} THEN drafts ELSE made) /\ UNCHANGED misses
          /\ relance' = [relance EXCEPT !.ans = IF to = {} THEN Failed ELSE Cardinality(to)]
       \/ /\ drafts' \in {drafts, made} /\ Miss
          /\ relance' = [relance EXCEPT !.ans = Failed]
  /\ UNCHANGED <<store, face, looks, presses, looked>>

\* Its page opens, or the dialog says why not and stays as it is.
Followed ==
  /\ relance.ans # None /\ table.state # "left"
  /\ IF relance.ans = Failed
     THEN relance' = [relance EXCEPT !.ids = {}, !.ans = None] /\ UNCHANGED <<table, ticked>>
     ELSE /\ relance' = [relance EXCEPT !.open = FALSE]
          /\ table' = [table EXCEPT !.state = "left"] /\ ticked' = {}
  /\ UNCHANGED <<store, looks, sieve, drafts, presses, misses, looked>>

-----------------------------------------------------------------------------
Next ==
  \/ \E p \in Recipients : Send(p)
  \/ Forget
  \/ \E l \in looks : Serve(l) \/ Answered(l)
  \/ Retry
  \/ \E k \in Only(Sources) : Refine([sieve EXCEPT !.type = k])
                             \/ Refine([sieve EXCEPT !.campaign = k])
  \/ \E o \in Only(Outcomes) : Refine([sieve EXCEPT !.outcome = o])
  \/ TurnPage
  \/ Toggle(OnPage) \/ \E p \in OnPage : Toggle({p})
  \/ Deselect \/ OpenOrClose \/ Create \/ ServeFollowUp \/ Followed

Spec == Init /\ [][Next]_lvars

-----------------------------------------------------------------------------
Rows   == [who : Recipients, outcome : Outcomes, at : Nat]
Sieves == [type : SUBSET Sources, outcome : SUBSET Outcomes, campaign : SUBSET Sources,
           offset : Nat]
Tabs   == [Sources -> Nat]
Looks  == [f : Sieves, total : {None} \cup Nat, rows : {None} \cup SUBSET Rows,
           tabs : {None} \cup Tabs, lost : BOOLEAN]

\* Type correctness.
LogTypes ==
  /\ roster \in [Recipients -> {"pending", "sent", "failed", "gone"}]
  /\ journal \subseteq Rows /\ IsFiniteSet(journal)
  /\ away \subseteq Recipients /\ forgotten \subseteq Recipients
  /\ DOMAIN table = {"state", "rows", "total", "tabs"}
  /\ table.state \in {"loading", "ready", "failed", "left"} /\ table.rows \subseteq Rows
  /\ table.total \in Nat /\ table.tabs \in {None} \cup Tabs
  /\ looks \subseteq Looks /\ sieve \in Sieves /\ ticked \subseteq Recipients
  /\ relance \in [open : BOOLEAN, ids : SUBSET Recipients, ans : {None, Failed} \cup Nat]
  /\ drafts \subseteq [asked : SUBSET Recipients, to : SUBSET Recipients]

\* A follow-up writes once to each person selected, those of them that are still
\* there at least, whatever was read or removed since the boxes were ticked; the page
\* that opens is that of a follow-up of the size announced.
FollowUpIsTrue ==
  /\ \A d \in drafts :
       /\ \A p, q \in d.to : AddressOf[p] = AddressOf[q] => p = q
       /\ \A p \in d.asked : roster[p] # "gone" => \E q \in d.to : AddressOf[q] = AddressOf[p]
  /\ table.state = "left" =>
       \E d \in drafts : d.asked = relance.ids /\ Cardinality(d.to) = relance.ans

\* Whatever is deleted meanwhile, the sends of a day pass the ceiling by no more than
\* those a deletion took out of the log.
DayIsBounded == Cardinality(away \ forgotten) <= Ceiling

\* What left and was not forgotten is in the log, which the ceiling bounds.
DayIsLogged ==
  /\ \A p \in away \ forgotten : \E e \in SentRows : e.who = p
  /\ SentToday <= Ceiling

\* An answer of a size is that of a follow-up made, and is never given up.
AnswerIsTrue ==
  /\ relance.ans # None => relance.ids # {}
  /\ relance.ans \notin {None, Failed} =>
       \E d \in drafts : d.asked = relance.ids /\ Cardinality(d.to) = relance.ans
  /\ table.state = "left" => relance.ans \notin {None, Failed}

\* What makes the follow-ups true and the day bounded, as an inductive invariant.
LogInv == LogTypes /\ FollowUpIsTrue /\ AnswerIsTrue /\ DayIsLogged

\* env.ts:106: the ceiling is what "one account may send over a rolling 24 hours, across
\* every campaign".  Deleting a contact or a campaign that was sent to gives the
\* allowance back.
DayIsKept == Cardinality(away) <= Ceiling

\* services/history.ts of the front end: the contact of an entry is "null once the contact has been
\* deleted; the log line survives it".  It does not: logs.contact_id cascades.
LineSurvives == [][journal \subseteq journal']_lvars

\* The tabs, the count and the rows are read by three statements, and need not agree.
TabsAddUp ==
  table.state = "ready" /\ looks = {} /\ sieve.type = Sources =>
    table.total = MapThenSumSet(LAMBDA k : table.tabs[k], Sources)

\* A creation whose answer is lost is offered again, and makes a second follow-up.
OneFollowUp == Cardinality(drafts) <= 1
=============================================================================

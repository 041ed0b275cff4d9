------------------------------- MODULE People -------------------------------
(***************************************************************************)
(* The contacts of the account on screen: the page that lists them         *)
(* (Contacts.tsx), with its selection, its dialogs and the campaign made   *)
(* from a selection, and the dialog that picks some of them for a draft    *)
(* (PickContactsDialog.tsx).                                               *)
(*                                                                         *)
(* Every function of the page closes over the filters of the render it was *)
(* made in, so a call under way carries them.  Escape closes a dialog that *)
(* waits, and what it waits for goes on.                                   *)
(***************************************************************************)
EXTENDS Naturals, FiniteSets

CONSTANTS
  Ids,         \* entries, numbered in the order of the list: 1, 2, ...
  Matching,    \* those the filter lets through
  MaxPick,     \* the most a copy may name (copyToCampaignSchema)
  MaxMade,     \* bound: campaigns made from a selection
  MaxTaps,     \* bound: what the user does
  MaxDrops,    \* bound: calls that fail on their way there or back
  MaxGets,     \* bound: reads of the list under way
  None, Failed   \* no answer yet; the call failed

VARIABLES
  where,     \* "contacts", "picker", or "left"
  entries,   \* the contacts of the account
  gone,      \* history: those removed
  members,   \* the recipients of the picker's draft
  query,     \* filters and sort, page size and offset on screen
  list,      \* what is shown: the state of the load, rows and total
  picked,    \* selected
  sheet,     \* the dialog: its kind, its entry, and where it is
  gets,      \* reads of the list under way
  edit,      \* an add or a change under way
  removal,   \* removals under way, of one entry or of the selection
  made,      \* campaigns made from a selection
  copy,      \* the picker's copy under way
  told,      \* what the last removal or copy said
  taps, drops

pvars == <<where, entries, gone, members, query, list, picked, sheet, gets, edit, removal,
           made, copy, told, taps, drops>>
world == <<entries, gone, members>>
calls == <<edit, removal, made, copy>>

-----------------------------------------------------------------------------
Made   == 1..MaxMade
NoSheet == [kind |-> "none", id |-> 0, face |-> "form"]
Start  == [filter |-> "all", limit |-> 1, offset |-> 0]
First(q) == [q EXCEPT !.offset = 0]
Queries == [filter : {"all", "some"}, limit : {1, 2}, offset : {0}]

Back(q) == [q EXCEPT !.offset = IF @ > q.limit THEN @ - q.limit ELSE 0]

\* addressBook.list: the entries the filter lets through, those whose place in the
\* order falls on the page; the picker's leaves out the draft's own.
Page(q) ==
  LET found == {e \in entries : q.filter = "all" \/ e \in Matching}
                 \ (IF where = "picker" THEN members ELSE {})
      place(e) == Cardinality({f \in found : f < e})
  IN  [rows  |-> {e \in found : place(e) \in q.offset..(q.offset + q.limit - 1)},
       total |-> Cardinality(found)]

Get(q) == gets' = gets \cup {[q |-> q, ans |-> None]}
Tap == taps < MaxTaps /\ taps' = taps + 1
Drop == drops < MaxDrops /\ drops' = drops + 1
Here == where \in {"contacts", "picker"}
Ready == Here /\ list.state = "ready"
Quiet == sheet.kind = "none" /\ copy = None /\ (where = "picker" => told = None)
CanGet == Cardinality(gets) < MaxGets

Init ==
  /\ where \in {"contacts", "picker"}
  /\ entries = {e \in Ids : e < Cardinality(Ids)}
  /\ gone = {}
  /\ members \in IF where = "picker" THEN {{}, entries \cap {1}} ELSE {{}}
  /\ query = Start
  /\ list = [state |-> "loading", rows |-> {}, total |-> 0]
  /\ picked = {} /\ sheet = NoSheet
  /\ gets = {[q |-> Start, ans |-> None]}
  /\ edit = None /\ removal = None /\ copy = None
  /\ made = [i \in Made |-> [step |-> "idle", ids |-> {}, draft |-> "none"]]
  /\ told = None /\ taps = 0 /\ drops = 0

-----------------------------------------------------------------------------
(* The list.                                                               *)

ServePage(g) ==
  /\ g \in gets /\ g.ans = None
  /\ \/ gets' = (gets \ {g}) \cup {[g EXCEPT !.ans = Page(g.q)]} /\ UNCHANGED drops
     \/ gets' = (gets \ {g}) \cup {[g EXCEPT !.ans = Failed]} /\ Drop
  /\ UNCHANGED <<where, world, query, list, picked, sheet, calls, told, taps>>

\* fetchPage: the page takes the answer, whichever filters it was asked with.
\* The picker shows an empty list where the page shows the failure.
Fetched(g) ==
  /\ g \in gets /\ g.ans # None /\ Here
  /\ gets' = gets \ {g}
  /\ list' = IF g.ans # Failed THEN [state |-> "ready", rows |-> g.ans.rows, total |-> g.ans.total]
             ELSE IF where = "picker" THEN [state |-> "ready", rows |-> {}, total |-> 0]
             ELSE [list EXCEPT !.state = "failed"]
  /\ UNCHANGED <<where, world, query, picked, sheet, calls, told, taps, drops>>

Retry ==
  /\ where = "contacts" /\ list.state = "failed" /\ CanGet /\ Tap
  /\ Get(query)
  /\ UNCHANGED <<where, world, query, list, picked, sheet, calls, told, drops>>

\* refine: a filter, a sort or a page size, and always the first page.
Refine(q) ==
  /\ Ready /\ Quiet /\ q # First(query) /\ CanGet /\ Tap
  /\ where = "picker" => q.limit = query.limit
  /\ query' = q
  /\ Get(q)
  /\ UNCHANGED <<where, world, list, picked, sheet, calls, told, drops>>

Turn(q) ==
  /\ q # query /\ query' = q
  /\ Get(q)

\* Pagination, shown when there is more than a page.
TurnPage ==
  /\ Ready /\ Quiet /\ list.total > query.limit /\ CanGet /\ Tap
  /\ \/ query.offset # 0 /\ Turn(Back(query))
     \/ query.offset + query.limit < list.total
          /\ Turn([query EXCEPT !.offset = @ + query.limit])
  /\ UNCHANGED <<where, world, list, picked, sheet, calls, told, drops>>

Shown == list.rows
PageSelected == Shown # {} /\ Shown \subseteq picked

Toggle(e) ==
  /\ Ready /\ Quiet /\ e \in Shown /\ Tap
  /\ picked' = IF e \in picked THEN picked \ {e} ELSE picked \cup {e}
  /\ UNCHANGED <<where, world, query, list, sheet, gets, calls, told, drops>>

TogglePage ==
  /\ Ready /\ Quiet /\ Shown # {} /\ Tap
  /\ picked' = IF PageSelected THEN picked \ Shown ELSE picked \cup Shown
  /\ UNCHANGED <<where, world, query, list, sheet, gets, calls, told, drops>>

Deselect ==
  /\ where = "contacts" /\ Quiet /\ picked # {} /\ Tap
  /\ picked' = {}
  /\ UNCHANGED <<where, world, query, list, sheet, gets, calls, told, drops>>

-----------------------------------------------------------------------------
(* Adding one contact, or changing one.                                    *)

OpenSheet(kind, id) ==
  /\ where = "contacts" /\ Quiet /\ Tap
  /\ CASE kind \in {"edit", "delete"} -> Ready /\ id \in Shown
       [] kind = "create" -> id = 0 /\ list.state # "loading"
       [] OTHER -> id = 0 /\ picked # {}
  /\ sheet' = [kind |-> kind, id |-> id, face |-> "form"]
  /\ UNCHANGED <<where, world, query, list, picked, gets, calls, told, drops>>

\* submit.  Bound: one at a time.
Submit ==
  /\ sheet.kind \in {"create", "edit"} /\ sheet.face = "form" /\ edit = None
  /\ edit' = [id |-> sheet.id, q |-> query, ans |-> None]
  /\ sheet' = [sheet EXCEPT !.face = "waits"]
  /\ UNCHANGED <<where, world, query, list, picked, gets, removal, made, copy, told, taps, drops>>

\* POST adds an address the account has not, PATCH finds its entry or does not.
ServeEdit ==
  /\ edit # None /\ edit.ans = None
  /\ \/ /\ edit.id = 0
        /\ \E e \in Ids \ gone :
             /\ entries' = entries \cup {e}
             /\ edit' = [edit EXCEPT !.ans = IF e \in entries THEN "refused" ELSE "saved"]
        /\ UNCHANGED drops
     \/ /\ edit.id # 0
        /\ edit' = [edit EXCEPT !.ans = IF edit.id \in entries THEN "saved" ELSE "refused"]
        /\ UNCHANGED <<entries, drops>>
     \/ edit' = [edit EXCEPT !.ans = "failed"] /\ Drop /\ UNCHANGED entries
  /\ UNCHANGED <<where, gone, members, query, list, picked, sheet, gets, removal, made, copy, told, taps>>

\* A refusal stays beside its field; a save reads the list again.
Edited ==
  /\ edit # None /\ edit.ans # None /\ Here
  /\ sheet' = IF sheet.face # "waits" \/ sheet.kind \notin {"create", "edit"} THEN sheet
              ELSE [sheet EXCEPT !.face = IF edit.ans = "saved" THEN "saved" ELSE "form"]
  /\ IF edit.ans = "saved" THEN CanGet /\ Get(edit.q) ELSE UNCHANGED gets
  /\ edit' = None
  /\ UNCHANGED <<where, world, query, list, picked, removal, made, copy, told, taps, drops>>

\* Another contact, after one was added.
AddAnother ==
  /\ sheet.kind = "create" /\ sheet.face = "saved"
  /\ sheet' = [sheet EXCEPT !.face = "form"]
  /\ UNCHANGED <<where, world, query, list, picked, gets, calls, told, taps, drops>>

CloseSheet ==
  /\ sheet.kind # "none" /\ Here
  /\ sheet' = NoSheet
  /\ UNCHANGED <<where, world, query, list, picked, gets, calls, told, taps, drops>>

-----------------------------------------------------------------------------
(* Removing one contact, or the selection.                                 *)

\* deleting keeps both confirmations waiting.
ConfirmRemoval ==
  /\ sheet.kind \in {"delete", "delete-selection"} /\ removal = None
  /\ LET ids == IF sheet.kind = "delete" THEN {sheet.id} ELSE picked IN
     removal' = [one |-> sheet.kind = "delete", ids |-> ids, left |-> ids, ok |-> {},
                 len |-> Cardinality(Shown), q |-> query]
  /\ UNCHANGED <<where, world, query, list, picked, sheet, gets, edit, made, copy, told, taps, drops>>

\* One DELETE each.  An entry that went elsewhere is a 404.
RemoveOne(e) ==
  /\ removal # None /\ e \in removal.left
  /\ \/ /\ entries' = entries \ {e} /\ gone' = gone \cup (entries \cap {e})
        /\ removal' = [removal EXCEPT !.left = @ \ {e},
                                      !.ok = IF e \in entries THEN @ \cup {e} ELSE @]
        /\ UNCHANGED drops
     \/ /\ entries' \in {entries, entries \ {e}} /\ gone' = gone \cup (entries \ entries')
        /\ removal' = [removal EXCEPT !.left = @ \ {e}]
        /\ Drop
  /\ UNCHANGED <<where, members, query, list, picked, sheet, gets, edit, made, copy, told, taps>>

\* Variant: every id asked for counts as removed.
RemovedAll == removal.ids

\* Those whose call was answered, not those asked for.
Removed == removal.ok

\* reloadAfterRemoving.
Reload ==
  IF Cardinality(Removed) >= removal.len /\ removal.q.offset > 0
  THEN LET q == [query EXCEPT !.offset = Back(removal.q).offset] IN
       /\ query' = q
       /\ IF q # query THEN Get(q) ELSE UNCHANGED gets
  ELSE Get(removal.q) /\ UNCHANGED query

\* A single removal that fails leaves its dialog; a selection is settled
\* whatever failed, and forgotten.
RemovalEnds ==
  /\ removal # None /\ removal.left = {} /\ Here /\ CanGet
  /\ told' = [ids |-> removal.ids, said |-> Cardinality(Removed)]
  /\ IF removal.one /\ removal.ok = {}
     THEN UNCHANGED <<sheet, picked, query, gets>>
     ELSE /\ sheet' = NoSheet
          /\ picked' = IF removal.one THEN picked \ removal.ids ELSE {}
          /\ Reload
  /\ removal' = None
  /\ UNCHANGED <<where, world, list, edit, made, copy, taps, drops>>

\* Another tab removes an entry.
GoesElsewhere(e) ==
  /\ e \in entries /\ Tap
  /\ entries' = entries \ {e} /\ gone' = gone \cup {e}
  /\ UNCHANGED <<where, members, query, list, picked, sheet, gets, calls, told, drops>>

-----------------------------------------------------------------------------
(* A campaign made from the selection: a draft, then the copy into it.     *)

At(i, step) == made[i].step = step
Put(i, step, draft) ==
  made' = [made EXCEPT ![i] = [step |-> step, ids |-> made[i].ids, draft |-> draft]]
Goto(i, step) == Put(i, step, made[i].draft)

MakeCampaign(i) ==
  /\ sheet.kind = "campaign" /\ sheet.face = "form"
  /\ At(i, "idle") /\ \A j \in 1..(i - 1) : ~At(j, "idle")
  /\ made' = [made EXCEPT ![i] = [step |-> "create", ids |-> picked, draft |-> "none"]]
  /\ sheet' = [sheet EXCEPT !.face = "waits"]
  /\ UNCHANGED <<where, world, query, list, picked, gets, edit, removal, copy, told, taps, drops>>

\* Variant: a copy the API refused leaves its draft behind.
AfterRefusalStop == "failed"

\* A copy that failed, for whatever reason, is followed by the removal.
AfterRefusal == "undo"

\* The three calls, one after another: each may be refused, or lost on its way
\* there or back.
MakeStep(i) ==
  /\ \/ At(i, "create") /\ Put(i, "copy", "empty") /\ UNCHANGED drops
     \/ At(i, "create") /\ Drop /\ \E d \in {"none", "empty"} : Put(i, "failed", d)
     \/ /\ At(i, "copy")
        /\ IF Cardinality(made[i].ids) > MaxPick THEN Goto(i, AfterRefusal)
           ELSE Put(i, "copied", "filled")
        /\ UNCHANGED drops
     \/ At(i, "copy") /\ Drop /\ \E d \in {"empty", "filled"} : Put(i, "undo", d)
     \/ At(i, "undo") /\ Put(i, "failed", "none") /\ UNCHANGED drops
     \/ At(i, "undo") /\ Drop /\ \E d \in {made[i].draft, "none"} : Put(i, "failed", d)
  /\ UNCHANGED <<where, world, query, list, picked, sheet, gets, edit, removal, copy, told, taps>>

\* The failure is said in the dialog, which can try again.
MakeFailed(i) ==
  /\ At(i, "failed") /\ sheet.kind = "campaign" /\ sheet.face = "waits"
  /\ \A j \in Made : made[j].step \in {"idle", "failed", "opened"}
  /\ sheet' = [sheet EXCEPT !.face = "form"]
  /\ UNCHANGED <<where, world, query, list, picked, gets, calls, told, taps, drops>>

\* onCreated: the page goes to the campaign, whatever it shows by then.
MakeEnds(i) ==
  /\ At(i, "copied")
  /\ Goto(i, "opened")
  /\ where' = "left" /\ sheet' = NoSheet /\ picked' = {}
  /\ UNCHANGED <<world, query, list, gets, edit, removal, copy, told, taps, drops>>

-----------------------------------------------------------------------------
(* The picker.                                                             *)

PickAdd ==
  /\ where = "picker" /\ Ready /\ Quiet /\ picked # {}
  /\ copy' = [ids |-> picked, ans |-> None]
  /\ UNCHANGED <<where, world, query, list, picked, sheet, gets, edit, removal, made, told, taps, drops>>

\* copyToCampaign: those the account still has and the draft has not.
PickServed ==
  /\ copy # None /\ copy.ans = None
  /\ \/ /\ members' = members \cup (copy.ids \cap entries)
        /\ copy' = [copy EXCEPT !.ans = Cardinality((copy.ids \cap entries) \ members)]
        /\ UNCHANGED drops
     \/ /\ members' \in {members, members \cup (copy.ids \cap entries)}
        /\ copy' = [copy EXCEPT !.ans = Failed]
        /\ Drop
  /\ UNCHANGED <<where, entries, gone, query, list, picked, sheet, gets, edit, removal, made, told, taps>>

Picked ==
  /\ where = "picker" /\ copy # None /\ copy.ans # None
  /\ told' = [ids |-> copy.ids, said |-> copy.ans]
  /\ picked' = IF copy.ans = Failed THEN picked ELSE {}
  /\ copy' = None
  /\ UNCHANGED <<where, world, query, list, sheet, gets, edit, removal, made, taps, drops>>

\* More of them, read again; or back to the selection of a copy that failed.
PickMore ==
  /\ where = "picker" /\ told # None /\ CanGet
  /\ told' = None
  /\ IF told.said = Failed THEN UNCHANGED gets ELSE Get(query)
  /\ UNCHANGED <<where, world, query, list, picked, sheet, calls, taps, drops>>

-----------------------------------------------------------------------------
Next ==
  \/ Retry \/ TurnPage \/ TogglePage \/ Deselect
  \/ \E g \in gets : ServePage(g) \/ Fetched(g)
  \/ \E q \in Queries : Refine(q)
  \/ \E e \in Ids : Toggle(e) \/ RemoveOne(e) \/ GoesElsewhere(e)
  \/ \E kind \in {"create", "edit", "delete", "delete-selection", "campaign"},
        id \in Ids \cup {0} : OpenSheet(kind, id)
  \/ Submit \/ ServeEdit \/ Edited \/ AddAnother \/ CloseSheet
  \/ ConfirmRemoval \/ RemovalEnds
  \/ \E i \in Made : MakeCampaign(i) \/ MakeStep(i) \/ MakeFailed(i) \/ MakeEnds(i)
  \/ PickAdd \/ PickServed \/ Picked \/ PickMore

Spec == Init /\ [][Next]_pvars

-----------------------------------------------------------------------------
Picks  == SUBSET Ids
Views  == [filter : {"all", "some"}, limit : {1, 2}, offset : Nat]
Sheets == [kind : {"none", "create", "edit", "delete", "delete-selection", "campaign"},
           id : Ids \cup {0}, face : {"form", "waits", "saved"}]
Gets   == [q : Views, ans : {None, Failed} \cup [rows : Picks, total : Nat]]
Edits  == [id : Ids \cup {0}, q : Views, ans : {None, "saved", "refused", "failed"}]
Removals == [one : BOOLEAN, ids : Picks, left : Picks, ok : Picks, len : Nat, q : Views]
Makings  == [step : {"idle", "create", "copy", "copied", "undo", "failed", "opened"},
             ids : Picks, draft : {"none", "empty", "filled"}]

\* Type correctness.
PeopleTypes ==
  /\ where \in {"contacts", "picker", "left"}
  /\ entries \subseteq Ids /\ gone \subseteq Ids \ entries /\ members \subseteq Ids
  /\ query \in Views
  /\ list \in [state : {"loading", "ready", "failed"}, rows : Picks, total : Nat]
  /\ picked \subseteq Ids /\ sheet \in Sheets /\ gets \subseteq Gets
  /\ edit \in {None} \cup Edits /\ removal \in {None} \cup Removals
  /\ made \in [Made -> Makings]
  /\ copy \in {None} \cup [ids : Picks, ans : {None, Failed} \cup Nat]
  /\ told \in {None} \cup [ids : Picks, said : {None, Failed} \cup Nat]
  /\ drops \in Nat /\ taps \in Nat

\* Contacts.tsx: a copy that fails leaves no draft behind, unless it is the
\* answer to the creation, or the removal itself, that was lost.
NoDraftLeft ==
  Cardinality({i \in Made : At(i, "failed") /\ made[i].draft # "none"}) <= drops

\* What a removal says is gone is gone, however many of its calls failed and
\* whatever was already gone when they came.
RemovedAreGone ==
  where # "picker" /\ told # None => told.said <= Cardinality(told.ids \cap gone)

SelectionIsSafe == PeopleTypes /\ NoDraftLeft /\ RemovedAreGone

\* A removal under way counts as removed what is gone already, of what it was asked.
RemovalIsTrue ==
  removal # None => removal.left \subseteq removal.ids /\ removal.ok \subseteq removal.ids \cap gone

\* The picker removes nothing and makes no campaign: what it is told of is a copy.  The
\* page copies nothing: what it is told of is a removal, which counts.
PickerCopies ==
  IF where = "picker"
  THEN sheet = NoSheet /\ edit = None /\ removal = None /\ \A i \in Made : At(i, "idle")
  ELSE told # None => told.said \in Nat

\* What makes the selection safe, as an inductive invariant.
PeopleInv ==
  /\ SelectionIsSafe /\ RemovalIsTrue /\ PickerCopies
  /\ sheet.kind = "delete" => sheet.id \in Ids

\* Contacts.tsx:178, "step back rather than show an empty page".  It does not
\* hold: the selection may have emptied several pages, or another tab this one.
NoEmptyPage ==
  Ready /\ gets = {} /\ removal = None /\ list.total > 0 /\ drops = 0 => Shown # {}

\* The rows on screen answer the filters on screen.  They need not: of two reads
\* under way the one answered last takes the list, whichever was asked last.
RowsAnswerFilters ==
  Ready /\ where = "contacts" /\ gets = {} /\ entries = {e \in Ids : e < Cardinality(Ids)} =>
    list.total = Page(query).total
=============================================================================

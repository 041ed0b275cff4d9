------------------------------- MODULE Editor -------------------------------
(***************************************************************************)
(* The page of one campaign (CampaignEditor.tsx and its panels): the       *)
(* message saved a moment after the last keystroke, the pace saved the     *)
(* same way, the launch, the files, the contacts, and a poll while the     *)
(* campaign is sending.                                                    *)
(*                                                                         *)
(* Every call has a place of its own in net: it is asked, served by the    *)
(* API, and answered, and calls overtake each other at each of the three.  *)
(* The API is what Desk models in detail; here it is one step per call.    *)
(***************************************************************************)
EXTENDS Naturals, FiniteSets

CONSTANTS
  MaxTyped,   \* bound: versions of the message the user types, one after another
  MaxClicks,  \* bound: the user's other actions
  MaxFaults,  \* bound: calls that fail on their way there or back
  MaxFiles,   \* MAX_ATTACHMENTS
  None,
  Loading, Unloaded, Left,        \* the page without a campaign; Missing is one too
  Missing, Refused, Failed, Done  \* the answers that carry no campaign

VARIABLES
  server,   \* the campaign as the API has it
  held,     \* history: the messages the API has had
  net,      \* the calls under way
  load,     \* what the page shows: a state of the load, or a campaign
  text,     \* draft: the message on screen
  typed,    \* the last version typed
  dirty, saving, saveFailed,
  touched,  \* latestDraft.current !== snapshot: the draft set since the save began
  pace,     \* CadencePanel: the value in its field, None when it is not shown
  armed,    \* CadencePanel: its effect has run since its timer last fired
  modal,    \* the dialog over the page
  busy,     \* SendControls or DeleteCampaignDialog waits for an answer
  clicks, faults

shown == <<load, text, typed, dirty, saving, saveFailed, touched, pace, armed, modal, busy>>
evars == <<server, held, net, shown, clicks, faults>>

-----------------------------------------------------------------------------
Statuses == {"draft", "scheduled", "running", "paused", "completed"}
Paces    == {1, 2}
Snapshot == [status : Statuses, text : 0..MaxTyped, pace : Paces,
             rows : BOOLEAN, files : 0..MaxFiles]

\* One place per call the page can have under way.
Places == {"get", "poll", "save", "patch", "pace", "act", "people", "row", "file", "delete"}

Gone     == server = None
Ready    == load \in Snapshot
Closed   == load = Left                         \* the user has left the page
Editable == Ready /\ load.status = "draft"      \* isEditable
Live     == Ready /\ load.status \in {"scheduled", "running"}

Idle(p)     == net[p] = None
Answered(p) == net[p] # None /\ net[p].ans # None
Answer(p)   == net[p].ans
Ask(p, op, arg)  == [net EXCEPT ![p] = [op |-> op, arg |-> arg, ans |-> None]]
Ok(p)       == Answer(p) \notin {Refused, Missing, Failed}

Init ==
  /\ server \in [status : {"draft", "scheduled", "paused"}, text : {0}, pace : {1},
                rows : BOOLEAN, files : 0..MaxFiles]
  /\ held = {0}
  /\ net = [p \in Places |-> IF p = "get" THEN [op |-> "get", arg |-> 0, ans |-> None] ELSE None]
  /\ load = Loading /\ text = 0 /\ typed = 0
  /\ dirty = FALSE /\ saving = FALSE /\ saveFailed = FALSE /\ touched = FALSE
  /\ pace = None /\ armed = FALSE /\ modal = "none" /\ busy = FALSE
  /\ clicks = 0 /\ faults = 0

Click == clicks < MaxClicks /\ clicks' = clicks + 1
Quiet == modal = "none"

-----------------------------------------------------------------------------
(* The API and the way to it.                                              *)

\* What the API answers, and the campaign it leaves.
Refuses(op, arg) ==
  CASE op \in {"save", "upload", "unfile", "people", "row"} -> server.status # "draft"
    [] op = "start"  -> server.status # "draft" \/ server.text = 0 \/ ~server.rows
    [] op = "pause"  -> server.status \notin {"scheduled", "running"}
    [] op = "resume" -> server.status # "paused"
    [] op = "pace"   -> server.status = "completed"
    [] op = "delete" -> server.status = "running"
    [] OTHER -> FALSE

After(op, arg) ==
  CASE op = "save"   -> [server EXCEPT !.text = arg]
    [] op = "pace"   -> [server EXCEPT !.pace = arg]
    [] op = "people" -> [server EXCEPT !.rows = TRUE]
    [] op = "row"    -> [server EXCEPT !.rows = arg]
    [] op = "upload" -> [server EXCEPT !.files = IF @ < MaxFiles THEN @ + 1 ELSE @]
    [] op = "unfile" -> [server EXCEPT !.files = IF @ > 0 THEN @ - 1 ELSE @]
    [] op = "start"  -> [server EXCEPT !.status = "scheduled"]
    [] op = "pause"  -> [server EXCEPT !.status = "paused"]
    [] op = "resume" -> [server EXCEPT !.status = "running"]
    [] op = "delete" -> None
    [] OTHER -> server

\* A PATCH answers the campaign without its files; the page reads none.
Told(op, s) == IF op \in {"save", "pace", "type"} THEN [s EXCEPT !.files = 0] ELSE s

Serve(p) ==
  /\ ~Idle(p) /\ ~Answered(p)
  /\ LET op == net[p].op arg == net[p].arg IN
     IF Gone THEN
       /\ net' = [net EXCEPT ![p].ans = Missing]
       /\ UNCHANGED <<server, held>>
     ELSE IF Refuses(op, arg) \/ (op = "upload" /\ server.files = MaxFiles) THEN
       /\ net' = [net EXCEPT ![p].ans = Refused]
       /\ UNCHANGED <<server, held>>
     ELSE
       /\ server' = After(op, arg)
       /\ net' = [net EXCEPT ![p].ans = IF server' = None THEN Done ELSE Told(op, server')]
       /\ held' = IF server' = None THEN held ELSE held \cup {server'.text}
  /\ UNCHANGED <<shown, clicks, faults>>

\* The call does not arrive, or its answer does not come back.
Lose(p) ==
  /\ ~Idle(p) /\ faults < MaxFaults
  /\ net' = [net EXCEPT ![p].ans = Failed]
  /\ faults' = faults + 1
  /\ UNCHANGED <<server, held, shown, clicks>>

\* The engine goes on by itself.
EngineStep ==
  /\ ~Gone
  /\ \/ server.status = "scheduled" /\ server' = [server EXCEPT !.status = "running"]
     \/ server.status = "running" /\ server' = [server EXCEPT !.status = "completed"]
  /\ UNCHANGED <<held, net, shown, clicks, faults>>

-----------------------------------------------------------------------------
(* Loading, refreshing and polling.                                        *)

CanRefresh == Idle("get")
Refreshing(n) == [n EXCEPT !["get"] = [op |-> "get", arg |-> 0, ans |-> None]]

\* The panels the page mounts with a campaign, and unmounts without one.
PanelFor(l) ==
  IF l \notin Snapshot \/ l.status = "completed" THEN None
  ELSE IF pace = None THEN l.pace ELSE pace

\* setLoad.  A panel that goes takes its dialog and its waiting with it; the
\* effect of CadencePanel runs again when the pace it compares with changes.
Put(l) ==
  /\ load' = l
  /\ pace' = PanelFor(l)
  /\ armed' = IF Ready /\ l \in Snapshot /\ load.pace = l.pace THEN armed ELSE TRUE
  /\ modal' = IF l \in Snapshot /\ (modal = "launch" => l.status = "draft") THEN modal
              ELSE IF modal = "delete" THEN modal ELSE "none"

Show(l) == Put(l) /\ busy' = (busy /\ l \in Snapshot)

Same == UNCHANGED <<load, pace, armed, modal, busy>>

\* refresh: the page takes the campaign and the message it answers.
Refreshed ==
  /\ Answered("get") /\ ~Closed
  /\ net' = [net EXCEPT !["get"] = None]
  /\ IF Ok("get")
     THEN /\ Show(Answer("get"))
          /\ text' = Answer("get").text /\ dirty' = FALSE /\ touched' = TRUE
     ELSE /\ Show(IF Answer("get") = Missing THEN Missing ELSE Unloaded)
          /\ UNCHANGED <<text, dirty, touched>>
  /\ UNCHANGED <<server, held, typed, saving, saveFailed, clicks, faults>>

RetryLoad ==
  /\ load = Unloaded /\ CanRefresh
  /\ Show(Loading)
  /\ net' = Refreshing(net)
  /\ UNCHANGED <<server, held, text, typed, dirty, saving, saveFailed, touched, clicks, faults>>

\* Every ten seconds, while the page shows a campaign that is sending.
PollTimer ==
  /\ Live /\ Idle("poll")
  /\ net' = Ask("poll", "get", 0)
  /\ UNCHANGED <<server, held, shown, clicks, faults>>

\* A missed poll changes nothing.
Polled ==
  /\ Answered("poll") /\ ~Closed
  /\ net' = [net EXCEPT !["poll"] = None]
  /\ IF Ok("poll") THEN Show(Answer("poll")) ELSE Same
  /\ UNCHANGED <<server, held, text, typed, dirty, saving, saveFailed, touched, clicks, faults>>

-----------------------------------------------------------------------------
(* The message.                                                            *)

\* A dialog is modal: nothing is typed under it.
Type ==
  /\ Editable /\ Quiet /\ typed < MaxTyped
  /\ typed' = typed + 1 /\ text' = typed'
  /\ dirty' = TRUE /\ saveFailed' = FALSE /\ touched' = TRUE
  /\ UNCHANGED <<server, held, net, load, saving, pace, armed, modal, busy, clicks, faults>>

Save ==
  /\ Ready
  /\ net' = Ask("save", "save", text)
  /\ saving' = TRUE /\ touched' = FALSE
  /\ UNCHANGED <<server, held, load, text, typed, dirty, pace, armed, modal, busy, clicks, faults>>

AutoSave == dirty /\ ~saving /\ ~saveFailed /\ Save /\ UNCHANGED saveFailed

\* The button in the header's place, on a save that failed.
RetrySave == Editable /\ Quiet /\ saveFailed /\ ~saving /\ Save /\ saveFailed' = FALSE

\* Variant: what was typed while it was saving counts as saved.
StillDirtyNever == FALSE

\* Variant: the screen is no longer marked as saving only when the save worked.
SavingUnlessOk == ~Ok("save")

StillDirty == touched
SavingAfter == FALSE

Saved ==
  /\ Answered("save") /\ ~Closed
  /\ net' = [net EXCEPT !["save"] = None]
  /\ saving' = SavingAfter
  /\ IF Ok("save")
     THEN Show(Answer("save")) /\ dirty' = StillDirty /\ saveFailed' = FALSE
     ELSE saveFailed' = TRUE /\ Same /\ UNCHANGED dirty
  /\ UNCHANGED <<server, held, text, typed, touched, clicks, faults>>

-----------------------------------------------------------------------------
(* Type and pace.                                                          *)

ChangeType ==
  /\ Ready /\ load.status # "completed" /\ Quiet /\ Idle("patch") /\ Click
  /\ net' = Ask("patch", "type", 0)
  /\ UNCHANGED <<server, held, shown, faults>>

SetPace(v) ==
  /\ pace # None /\ v # pace /\ Quiet /\ Click
  /\ pace' = v /\ armed' = TRUE
  /\ UNCHANGED <<server, held, net, load, text, typed, dirty, saving, saveFailed, touched,
                 modal, busy, faults>>

\* The effect compares the field with the campaign shown, whoever changed either;
\* a save that failed is not tried again before one of them does.
PaceTimer ==
  /\ Ready /\ pace # None /\ armed /\ Idle("pace")
  /\ net' = IF pace # load.pace THEN Ask("pace", "pace", pace) ELSE net
  /\ armed' = FALSE
  /\ UNCHANGED <<server, held, load, text, typed, dirty, saving, saveFailed, touched, pace,
                 modal, busy, clicks, faults>>

\* The answer of the type's or the pace's PATCH becomes the campaign shown.
Patched(p) ==
  /\ p \in {"patch", "pace"} /\ Answered(p) /\ ~Closed
  /\ net' = [net EXCEPT ![p] = None]
  /\ IF Ok(p) THEN Show(Answer(p)) ELSE Same
  /\ UNCHANGED <<server, held, text, typed, dirty, saving, saveFailed, touched, clicks, faults>>

-----------------------------------------------------------------------------
(* The one action that makes sense from where the campaign is.             *)

\* launchBlocker: nothing unsaved, a message, and somebody to send it to.
Blocked == dirty \/ load.text = 0 \/ ~load.rows

OpenLaunch ==
  /\ Editable /\ Quiet /\ ~Blocked /\ Click
  /\ modal' = "launch"
  /\ UNCHANGED <<server, held, net, load, text, typed, dirty, saving, saveFailed, touched,
                 pace, armed, busy, faults>>

\* act: the call, and the campaign it answers.
Act(op) ==
  /\ Ready /\ ~busy /\ Idle("act")
  /\ net' = Ask("act", op, 0)
  /\ busy' = TRUE
  /\ UNCHANGED <<server, held, load, text, typed, dirty, saving, saveFailed, touched,
                 pace, armed, modal, faults>>

\* The dialog's date, when one is chosen, is to come and on a day that sends.
ConfirmLaunch == modal = "launch" /\ Act("start") /\ UNCHANGED clicks

Pause  == Ready /\ load.status \in {"scheduled", "running"} /\ Quiet /\ Act("pause") /\ Click
Resume == Ready /\ load.status = "paused" /\ Quiet /\ Act("resume") /\ Click

Acted ==
  /\ Answered("act") /\ ~Closed
  /\ net' = [net EXCEPT !["act"] = None]
  /\ busy' = FALSE
  /\ IF Ok("act") THEN Put(Answer("act")) ELSE UNCHANGED <<load, pace, armed, modal>>
  /\ UNCHANGED <<server, held, text, typed, dirty, saving, saveFailed, touched, clicks, faults>>

-----------------------------------------------------------------------------
(* Contacts, files and the deletion.                                       *)

\* The import, the add by hand and the pick from the address book: a dialog
\* each, whose answer reloads the page while it still shows its report.
OpenPeople ==
  /\ Editable /\ Quiet /\ Click
  /\ modal' = "people"
  /\ UNCHANGED <<server, held, net, load, text, typed, dirty, saving, saveFailed, touched,
                 pace, armed, busy, faults>>

AddPeople ==
  /\ modal = "people" /\ Editable /\ Idle("people")
  /\ net' = Ask("people", "people", 0)
  /\ UNCHANGED <<server, held, shown, clicks, faults>>

\* Escape and the backdrop close a dialog, even one that waits.
CloseModal ==
  /\ ~Quiet
  /\ modal' = "none"
  /\ UNCHANGED <<server, held, net, load, text, typed, dirty, saving, saveFailed, touched,
                 pace, armed, busy, clicks, faults>>

\* A row of the table set aside, put back or deleted: no dialog, and the table
\* is read again before the page is.
RowAction(left) ==
  /\ Editable /\ Quiet /\ load.rows /\ Idle("row") /\ Click
  /\ net' = Ask("row", "row", left)
  /\ UNCHANGED <<server, held, shown, faults>>

FileAction(op) ==
  /\ Editable /\ Quiet /\ Idle("file") /\ Click
  /\ net' = Ask("file", op, 0)
  /\ UNCHANGED <<server, held, shown, faults>>

\* A file dropped or chosen, below the cap the page counts; or removed.
Upload == FileAction("upload") /\ load.files < MaxFiles
Unfile == FileAction("unfile") /\ load.files > 0

\* onChanged: the whole page is read again.
Changed(p) ==
  /\ p \in {"people", "row", "file"} /\ Answered(p) /\ ~Closed
  /\ Ok(p) => CanRefresh
  /\ net' = IF Ok(p) THEN Refreshing([net EXCEPT ![p] = None]) ELSE [net EXCEPT ![p] = None]
  /\ UNCHANGED <<server, held, shown, clicks, faults>>

OpenDelete ==
  /\ Ready /\ load.status # "running" /\ Quiet /\ Click
  /\ modal' = "delete"
  /\ UNCHANGED <<server, held, net, load, text, typed, dirty, saving, saveFailed, touched,
                 pace, armed, busy, faults>>

ConfirmDelete ==
  /\ modal = "delete" /\ Idle("delete")
  /\ net' = Ask("delete", "delete", 0)
  /\ UNCHANGED <<server, held, shown, clicks, faults>>

\* Deleted, the page goes back to the list, and what is still under way is
\* answered to nobody.
Deleted ==
  /\ Answered("delete") /\ ~Closed
  /\ net' = [net EXCEPT !["delete"] = None]
  /\ IF Answer("delete") = Done
     THEN Show(Left) /\ dirty' = FALSE
     ELSE Same /\ UNCHANGED dirty
  /\ UNCHANGED <<server, held, text, typed, saving, saveFailed, touched, clicks, faults>>

-----------------------------------------------------------------------------
Timers == AutoSave \/ PaceTimer \/ PollTimer

Answers ==
  \/ Refreshed \/ Polled \/ Saved \/ Acted \/ Deleted
  \/ \E p \in {"patch", "pace"} : Patched(p)
  \/ \E p \in {"people", "row", "file"} : Changed(p)

User ==
  \/ Type \/ RetrySave \/ RetryLoad \/ ChangeType \/ OpenLaunch \/ OpenPeople \/ AddPeople
  \/ CloseModal \/ OpenDelete \/ ConfirmDelete
  \/ \E v \in Paces : SetPace(v)
  \/ ConfirmLaunch \/ Pause \/ Resume \/ Upload \/ Unfile
  \/ \E left \in BOOLEAN : RowAction(left)

Next ==
  \/ User \/ Timers \/ Answers \/ EngineStep
  \/ \E p \in Places : Serve(p) \/ Lose(p)

\* A call is answered in the end, if only by a failure; a timer fires; the
\* browser runs what follows an answer.
Fairness ==
  /\ WF_evars(AutoSave)
  /\ \A p \in Places : WF_evars(Serve(p))
  /\ WF_evars(Saved)

Spec == Init /\ [][Next]_evars /\ Fairness

-----------------------------------------------------------------------------
\* Type correctness.
TypeOK ==
  /\ server \in Snapshot \cup {None}
  /\ held \subseteq 0..MaxTyped
  /\ load \in Snapshot \cup {Loading, Missing, Unloaded, Left}
  /\ {text, typed} \subseteq 0..MaxTyped
  /\ {dirty, saving, saveFailed, touched, armed, busy} \subseteq BOOLEAN
  /\ pace \in Paces \cup {None}
  /\ modal \in {"none", "launch", "people", "delete"}

\* A header that reads "Enregistré" is true of the message under it: the API has
\* had it, whatever was typed, saved, refused, refreshed or lost meanwhile
\* (CampaignEditor.tsx, save and refresh).
SavedIsStored == TypeOK /\ (Ready /\ ~dirty => text \in held)

\* What each place of net asks, and with what.
OpsAt(p) ==
  CASE p \in {"get", "poll"} -> {"get"}
    [] p = "patch" -> {"type"}
    [] p = "act"   -> {"start", "pause", "resume"}
    [] p = "file"  -> {"upload", "unfile"}
    [] OTHER -> {p}
ArgsOf(op) ==
  CASE op = "save" -> 0..MaxTyped
    [] op = "pace" -> Paces
    [] op = "row"  -> BOOLEAN
    [] OTHER -> {0}
CallOK(p) ==
  /\ net[p] = [op |-> net[p].op, arg |-> net[p].arg, ans |-> net[p].ans]
  /\ net[p].op \in OpsAt(p) /\ net[p].arg \in ArgsOf(net[p].op)

\* An answer that carries a campaign carries a message the API has had: for a save,
\* the one that was sent.
AnswerIsHeld(p) ==
  ~Idle(p) =>
    /\ CallOK(p)
    /\ p # "delete" /\ Answered(p) /\ Ok(p) =>
         Answer(p) \in Snapshot /\ Answer(p).text \in held
    /\ p = "save" /\ Answered(p) /\ Ok(p) => Answer(p).text = net[p].arg

AnswersAreHeld ==
  /\ server # None => server.text \in held
  /\ DOMAIN net = Places
  /\ \A p \in Places : AnswerIsHeld(p)

\* A save under way sends what is on screen, if nothing was written there since.
SaveIsOfText == ~Idle("save") /\ ~touched => text = net["save"].arg

\* All of it together: the inductive invariant.
EditorInv ==
  /\ TypeOK /\ AnswersAreHeld /\ SaveIsOfText
  /\ ~Closed /\ ~dirty => text \in held

\* There is no button to forget: what was typed is saved, or the header says
\* that it is not, or the page has stopped showing a message at all.
TypingIsSaved == dirty ~> (~dirty \/ saveFailed \/ ~Ready)

\* CampaignEditor.tsx:293, "nothing typed is ever dropped".  It does not
\* hold: a file or a contact changed before the save reads the page again.
NothingIsDropped ==
  Editable /\ typed > 0 => text = typed \/ typed \in held

\* The type of Campaign.attachments, "Present on a single campaign, not in the
\* list" (services/campaigns.ts:43).  It does not hold of a PATCH's answer: after
\* any save the page shows no file at all.
FilesAreShown ==
  (\A p \in Places : Idle(p)) /\ Ready /\ ~Gone => load.files = server.files
=============================================================================

-------------------------------- MODULE Desk --------------------------------
(***************************************************************************)
(* The campaign desk: what the signed-in user's requests do to a campaign, *)
(* its contacts and its files (routes/campaigns.ts, routes/contacts.ts,    *)
(* routes/attachment.ts and the repositories behind them) while the worker *)
(* starts, sends and completes the same campaign.                          *)
(*                                                                         *)
(* A handler is asynchronous: it loads the campaign, decides on what it    *)
(* loaded, and acts in statements of its own.  One step here is one        *)
(* statement, transaction or call to the bucket, and between two of them   *)
(* any other request may act and the process may die.  A request refused   *)
(* by what it loaded writes nothing, so Load takes only those that pass.   *)
(*                                                                         *)
(* A definition marked "Variant" is the code with one plausible mistake.   *)
(***************************************************************************)
EXTENDS Naturals, FiniteSets

CONSTANTS
  Requests,        \* requests the web process may be serving at once
  Campaigns,       \* ids, used once: gen_random_uuid() does not repeat
  Opened,          \* bound: those the user creates and works on, the others
                   \* being follow-ups nobody opens
  Emails,          \* addresses a campaign may hold, lower-cased
  Files,           \* object keys, each generated for one upload
  MaxAttachments,  \* MAX_ATTACHMENTS
  MaxTexts,        \* bound: versions of a campaign's message
  NoRequest

ASSUME DeskAssumption ==
  /\ IsFiniteSet(Requests) /\ IsFiniteSet(Files) /\ IsFiniteSet(Emails)
  /\ Opened \subseteq Campaigns
  /\ MaxAttachments \in Nat
  /\ MaxTexts \in Nat
  /\ NoRequest \notin Requests

VARIABLES
  campaign,  \* campaigns.status, "absent" before the INSERT, "gone" after DELETE
  text,      \* which message: subject, body and name; 0 while one is missing
  cadence,   \* who wrote pace, timezone and send_after last
  contact,   \* contacts.status of each address, "absent" without a row
  total,     \* campaigns.total_contacts
  fileRow,   \* campaign_attachments: the files of each campaign
  object,    \* the bucket: files stored
  used,      \* keys already generated
  req,       \* what each request has loaded, and the statement it is at
  launcher   \* history: the request whose transition launched the campaign

vars == <<campaign, text, cadence, contact, total, fileRow, object, used, req,
          launcher>>

-----------------------------------------------------------------------------
Status        == {"draft", "scheduled", "running", "paused", "completed"}
ContactStatus == {"pending", "sent", "failed", "ignored"}
Live          == {k \in Campaigns : campaign[k] \in Status}

\* The moves of campaignState.ts.
Allowed == [draft     |-> {"scheduled"},
            scheduled |-> {"draft", "running", "paused"},
            running   |-> {"paused", "completed"},
            paused    |-> {"running"},
            completed |-> {}]

\* Variant: a scheduled campaign has sent nothing yet, so it may change.
CanEditUntilRunning(s) == s \in {"draft", "scheduled"}

CanEditContent(s) == s = "draft"

CanEditCadence(s) == s # "completed"

CanDelete(s) == s # "running"

\* Where each move of the user starts from and leads to.
Move == [start  |-> [from |-> {"draft"}, to |-> "scheduled"],
         pause  |-> [from |-> {"scheduled", "running"}, to |-> "paused"],
         resume |-> [from |-> {"paused"}, to |-> "running"]]

\* The statement each kind of request begins with once the campaign is loaded.
First == [editText |-> "updateText",  editPace |-> "updatePace",
          start    |-> "count",       pause    |-> "move",
          resume   |-> "move",        delete   |-> "remove",
          import   |-> "existing",    add      |-> "insertOne",
          drop     |-> "dropContact", mark     |-> "markContact",
          upload   |-> "list",        detach   |-> "findFile"]
Op == DOMAIN First

\* What the handler decides on the row it loaded.
Admits(op, s, written) ==
  CASE op \in {"editText", "import", "add", "upload", "detach"} -> CanEditContent(s)
    [] op = "editPace"                -> CanEditCadence(s)
    [] op = "start"                   -> s \in Move[op].from /\ written > 0
    [] op \in {"pause", "resume"}     -> s \in Move[op].from
    [] op = "delete"                  -> CanDelete(s)
    [] op \in {"drop", "mark"}        -> TRUE

Idle == [op |-> "none"]
Serving(r) == req[r].op # "none"
At(r, step) == Serving(r) /\ req[r].step = step
On(r) == req[r].k
Goto(r, step) == req' = [req EXCEPT ![r].step = step]
End(r) == req' = [req EXCEPT ![r] = Idle]

Rows(k)    == {e \in Emails : contact[k][e] # "absent"}
Pending(k) == {e \in Emails : contact[k][e] = "pending"}

message == <<text, cadence>>
files   == <<fileRow, object, used>>
people  == <<contact, total>>

Init ==
  /\ campaign = [k \in Campaigns |-> "absent"]
  /\ text     = [k \in Campaigns |-> 0]
  /\ cadence  = [k \in Campaigns |-> "default"]
  /\ contact  = [k \in Campaigns |-> [e \in Emails |-> "absent"]]
  /\ total    = [k \in Campaigns |-> 0]
  /\ fileRow  = [k \in Campaigns |-> {}]
  /\ object   = {}
  /\ used     = {}
  /\ req      = [r \in Requests |-> Idle]
  /\ launcher = [k \in Campaigns |-> NoRequest]

-----------------------------------------------------------------------------
(* Campaigns.                                                              *)

\* The router finds the campaign among the user's, or answers 404 ...
Found(k) == k \in Live

\* ... and the handler decides on what was found.
Load(r, op, k) ==
  /\ ~Serving(r)
  /\ Found(k)
  /\ Admits(op, campaign[k], text[k])
  /\ req' = [req EXCEPT ![r] =
       [op |-> op, k |-> k, draft |-> campaign[k] = "draft", step |-> First[op],
        email |-> {}, file |-> {}, count |-> 0]]
  /\ UNCHANGED <<campaign, message, people, files, launcher>>

Create(k) ==
  /\ campaign[k] = "absent"
  /\ campaign' = [campaign EXCEPT ![k] = "draft"]
  /\ \E v \in 0 .. MaxTexts : text' = [text EXCEPT ![k] = v]
  /\ UNCHANGED <<cadence, people, files, req, launcher>>

\* createFollowUp is one transaction: the selected contacts that still exist
\* are copied as pending.  One that copied nothing is removed afterwards.
FollowUp(r, k, from) ==
  LET copied == {e \in Emails : \E j \in Live : <<j, e>> \in from /\ e \in Rows(j)}
  IN /\ ~Serving(r)
     /\ campaign[k] = "absent"
     /\ campaign' = [campaign EXCEPT ![k] = "draft"]
     /\ contact' = [contact EXCEPT ![k] =
          [e \in Emails |-> IF e \in copied THEN "pending" ELSE "absent"]]
     /\ total' = [total EXCEPT ![k] = Cardinality(copied)]
     /\ req' = IF copied # {} THEN req
               ELSE [req EXCEPT ![r] =
                 [op |-> "delete", k |-> k, draft |-> TRUE, step |-> "remove",
                  email |-> {}, file |-> {}, count |-> 0]]
     /\ UNCHANGED <<message, files, launcher>>

\* UPDATE ... WHERE id: nothing about the status, nothing if the row is gone.
UpdateText(r) ==
  /\ At(r, "updateText")
  /\ \/ On(r) \notin Live /\ UNCHANGED text
     \/ /\ On(r) \in Live
        /\ \E v \in 0 .. MaxTexts : text' = [text EXCEPT ![On(r)] = v]
  /\ End(r)
  /\ UNCHANGED <<campaign, cadence, people, files, launcher>>

UpdatePace(r) ==
  /\ At(r, "updatePace")
  /\ cadence' = IF On(r) \in Live
                THEN [cadence EXCEPT ![On(r)] = "edited"] ELSE cadence
  /\ End(r)
  /\ UNCHANGED <<campaign, text, people, files, launcher>>

\* The launch: countPendingContacts, then prepare writes the schedule, both
\* before the conditional move.
StartCounts(r) ==
  /\ At(r, "count")
  /\ IF Pending(On(r)) = {} THEN End(r) ELSE Goto(r, "schedule")
  /\ UNCHANGED <<campaign, message, people, files, launcher>>

StartSchedules(r) ==
  /\ At(r, "schedule")
  /\ cadence' = IF On(r) \in Live THEN [cadence EXCEPT ![On(r)] = r] ELSE cadence
  /\ Goto(r, "move")
  /\ UNCHANGED <<campaign, text, people, files, launcher>>

\* Variant: the move is made on the status the handler loaded.
TransitionUnconditional(r, from, to) == campaign' = [campaign EXCEPT ![On(r)] = to]

\* transition: one conditional UPDATE.
Transition(r, from, to) ==
  campaign' = IF campaign[On(r)] \in from
              THEN [campaign EXCEPT ![On(r)] = to] ELSE campaign

\* The move, then the dispatch request and the audit record, which change
\* nothing here: both are logged when they fail.
MakeMove(r) ==
  /\ At(r, "move")
  /\ Transition(r, Move[req[r].op].from, Move[req[r].op].to)
  /\ launcher' = IF req[r].op = "start" /\ campaign' # campaign
                 THEN [launcher EXCEPT ![On(r)] = r] ELSE launcher
  /\ End(r)
  /\ UNCHANGED <<message, people, files>>

\* The cascade takes the contacts, the logs and the attachment rows along; the
\* objects stay in the bucket.
Remove(r) ==
  /\ At(r, "remove")
  /\ campaign' = [campaign EXCEPT ![On(r)] = "gone"]
  /\ contact'  = [contact EXCEPT ![On(r)] = [e \in Emails |-> "absent"]]
  /\ fileRow'  = [fileRow EXCEPT ![On(r)] = {}]
  /\ End(r)
  /\ UNCHANGED <<message, total, object, used, launcher>>

-----------------------------------------------------------------------------
(* Contacts.                                                               *)

\* collectContacts: of the addresses sent, those that are addresses, once each,
\* without the ones the campaign has.
Fresh(k, sent) == sent \ Rows(k)

\* existingEmails, and what it makes of the rows sent.
ReadExisting(r) ==
  /\ At(r, "existing")
  /\ \E sent \in SUBSET Emails :
       req' = [req EXCEPT ![r] = [@ EXCEPT !.email = Fresh(On(r), sent), !.step = "insertMany"]]
  /\ UNCHANGED <<campaign, message, people, files, launcher>>

\* ON CONFLICT DO NOTHING; a campaign deleted since fails the foreign key.
Insert(k, es) ==
  contact' = IF k \in Live
             THEN [contact EXCEPT ![k] =
                    [e \in Emails |-> IF e \in es /\ @[e] = "absent" THEN "pending" ELSE @[e]]]
             ELSE contact

\* insertMany: rows and counter in one transaction.  Its count sees its own
\* rows and those committed before the statement, not what commits while it
\* waits for the campaign's row.
InsertMany(r) ==
  /\ At(r, "insertMany")
  /\ IF req[r].email = {} \/ On(r) \notin Live THEN End(r)
     ELSE req' = [req EXCEPT ![r] =
            [@ EXCEPT !.count = Cardinality(Rows(On(r)) \cup req[r].email), !.step = "commit"]]
  /\ UNCHANGED <<campaign, message, people, files, launcher>>

CommitMany(r) ==
  /\ At(r, "commit")
  /\ Insert(On(r), req[r].email)
  /\ total' = IF On(r) \in Live THEN [total EXCEPT ![On(r)] = req[r].count] ELSE total
  /\ End(r)
  /\ UNCHANGED <<campaign, message, files, launcher>>

\* add and remove: one row, then syncTotal, a statement of its own.
InsertOne(r) ==
  /\ At(r, "insertOne")
  /\ \E e \in Emails :
       /\ Insert(On(r), {e})
       /\ IF On(r) \in Live /\ e \notin Rows(On(r)) THEN Goto(r, "sync") ELSE End(r)
  /\ UNCHANGED <<campaign, message, total, files, launcher>>

DropContact(r) ==
  /\ At(r, "dropContact")
  /\ \E e \in Emails :
       /\ contact' = [contact EXCEPT ![On(r)][e] = "absent"]
       /\ IF e \in Rows(On(r)) THEN Goto(r, "sync") ELSE End(r)
  /\ UNCHANGED <<campaign, message, total, files, launcher>>

\* syncTotal counts, then waits for the campaign's row and writes what it
\* counted.
SyncCount(r) ==
  /\ At(r, "sync")
  /\ req' = [req EXCEPT ![r] =
       [@ EXCEPT !.count = Cardinality(Rows(On(r))), !.step = "syncWrite"]]
  /\ UNCHANGED <<campaign, message, people, files, launcher>>

SyncWrite(r) ==
  /\ At(r, "syncWrite")
  /\ total' = IF On(r) \in Live THEN [total EXCEPT ![On(r)] = req[r].count] ELSE total
  /\ End(r)
  /\ UNCHANGED <<campaign, message, contact, files, launcher>>

\* PATCH /contacts/:contactId: pending or ignored, whatever it was.
MarkContact(r) ==
  /\ At(r, "markContact")
  /\ \E e \in Emails, s \in {"pending", "ignored"} :
       contact' = IF e \in Rows(On(r)) THEN [contact EXCEPT ![On(r)][e] = s] ELSE contact
  /\ End(r)
  /\ UNCHANGED <<campaign, message, total, files, launcher>>

-----------------------------------------------------------------------------
(* Files: a row in the database, an object in the bucket.                  *)

\* listAttachments, before the upload.
ListFiles(r) ==
  /\ At(r, "list")
  /\ IF Cardinality(fileRow[On(r)]) >= MaxAttachments THEN End(r) ELSE Goto(r, "put")
  /\ UNCHANGED <<campaign, message, people, files, launcher>>

\* putAttachment stores under a new key, or the bucket refuses.
PutFile(r) ==
  /\ At(r, "put")
  /\ \/ /\ \E f \in Files \ used :
             /\ used' = used \cup {f}
             /\ object' = object \cup {f}
             /\ req' = [req EXCEPT ![r] = [@ EXCEPT !.file = {f}, !.step = "insertFile"]]
        /\ UNCHANGED fileRow
     \/ End(r) /\ UNCHANGED files
  /\ UNCHANGED <<campaign, message, people, launcher>>

\* addAttachment: the count and the INSERT are one statement.  The count is of
\* the rows committed when it starts.
CountFiles(r) ==
  /\ At(r, "insertFile")
  /\ IF Cardinality(fileRow[On(r)]) < MaxAttachments
     THEN Goto(r, "commitFile") ELSE Goto(r, "deleteObject")
  /\ UNCHANGED <<campaign, message, people, files, launcher>>

\* A campaign deleted meanwhile fails the foreign key: the object stays.
CommitFile(r) ==
  /\ At(r, "commitFile")
  /\ fileRow' = IF On(r) \in Live
                THEN [fileRow EXCEPT ![On(r)] = @ \cup req[r].file] ELSE fileRow
  /\ End(r)
  /\ UNCHANGED <<campaign, message, people, object, used, launcher>>

\* Variant: the object first, then the row.
FindFileObjectFirst(r) ==
  /\ At(r, "findFile")
  /\ \/ \E f \in fileRow[On(r)] :
          /\ req' = [req EXCEPT ![r] = [@ EXCEPT !.file = {f}, !.step = "removeFile"]]
          /\ object' = object \ {f}
     \/ End(r) /\ UNCHANGED object
  /\ UNCHANGED <<campaign, message, people, fileRow, used, launcher>>

FindFile(r) ==
  /\ At(r, "findFile")
  /\ \/ \E f \in fileRow[On(r)] :
          req' = [req EXCEPT ![r] = [@ EXCEPT !.file = {f}, !.step = "removeFile"]]
     \/ End(r)
  /\ UNCHANGED <<campaign, message, people, files, launcher>>

RemoveFile(r) ==
  /\ At(r, "removeFile")
  /\ fileRow' = [fileRow EXCEPT ![On(r)] = @ \ req[r].file]
  /\ Goto(r, "deleteObject")
  /\ UNCHANGED <<campaign, message, people, object, used, launcher>>

\* deleteAttachment, whose failure is logged: the object stays.
DeleteObject(r) ==
  /\ At(r, "deleteObject")
  /\ \/ object' = object \ req[r].file
     \/ UNCHANGED object
  /\ End(r)
  /\ UNCHANGED <<campaign, message, people, fileRow, used, launcher>>

-----------------------------------------------------------------------------
(* The process may die, or a statement fail, at any step of a request.     *)
Die(r) ==
  /\ Serving(r)
  /\ End(r)
  /\ UNCHANGED <<campaign, message, people, files, launcher>>

(* The worker: dispatchCampaign starts a scheduled campaign that is due and *)
(* ends one with nothing pending, the engine decides pending contacts.     *)
WorkerStarts(k) ==
  /\ campaign[k] = "scheduled"
  /\ campaign' = [campaign EXCEPT ![k] = "running"]
  /\ UNCHANGED <<message, people, files, req, launcher>>

WorkerSends(k, e) ==
  /\ campaign[k] = "running"
  /\ contact[k][e] = "pending"
  /\ \E s \in {"sent", "failed"} : contact' = [contact EXCEPT ![k][e] = s]
  /\ UNCHANGED <<campaign, message, total, files, req, launcher>>

WorkerEnds(k) ==
  /\ campaign[k] = "running"
  /\ Pending(k) = {}
  /\ campaign' = [campaign EXCEPT ![k] = "completed"]
  /\ UNCHANGED <<message, people, files, req, launcher>>

OnCampaign(r) == UpdateText(r) \/ UpdatePace(r) \/ StartCounts(r)
  \/ StartSchedules(r) \/ MakeMove(r) \/ Remove(r)
OnContacts(r) == ReadExisting(r) \/ InsertMany(r) \/ CommitMany(r) \/ InsertOne(r)
  \/ DropContact(r) \/ SyncCount(r) \/ SyncWrite(r) \/ MarkContact(r)
OnFiles(r) == ListFiles(r) \/ PutFile(r) \/ CountFiles(r) \/ CommitFile(r)
  \/ FindFile(r) \/ RemoveFile(r) \/ DeleteObject(r)

Next ==
  \/ \E r \in Requests, op \in Op, k \in Opened : Load(r, op, k)
  \/ \E k \in Opened : Create(k)
  \/ \E k \in Campaigns : WorkerStarts(k) \/ WorkerEnds(k)
  \/ \E r \in Requests, k \in Campaigns, from \in SUBSET (Campaigns \X Emails) :
       FollowUp(r, k, from)
  \/ \E k \in Campaigns, e \in Emails : WorkerSends(k, e)
  \/ \E r \in Requests : OnCampaign(r) \/ OnContacts(r) \/ OnFiles(r) \/ Die(r)

Spec == Init /\ [][Next]_vars

-----------------------------------------------------------------------------
Steps == {"updateText", "updatePace", "count", "schedule", "move", "remove",
          "existing", "insertMany", "commit", "insertOne", "dropContact", "sync",
          "syncWrite", "markContact", "list", "put", "insertFile", "commitFile",
          "findFile", "removeFile", "deleteObject"}

\* The statements that write what only a draft may change.
DraftSteps == {"updateText", "existing", "insertMany", "commit", "insertOne",
               "list", "put", "insertFile", "commitFile", "findFile", "removeFile"}

Request == [op : Op, k : Campaigns, draft : BOOLEAN, step : Steps,
            email : SUBSET Emails, file : SUBSET Files, count : Nat]

\* Type correctness of the tables, the bucket and the requests being served.
TypeOK ==
  /\ campaign \in [Campaigns -> Status \cup {"absent", "gone"}]
  /\ text     \in [Campaigns -> 0 .. MaxTexts]
  /\ cadence  \in [Campaigns -> {"default", "edited"} \cup Requests]
  /\ contact  \in [Campaigns -> [Emails -> ContactStatus \cup {"absent"}]]
  /\ total    \in [Campaigns -> Nat]
  /\ fileRow  \in [Campaigns -> SUBSET Files]
  /\ used     \in SUBSET Files
  /\ object   \in SUBSET used
  /\ req      \in [Requests -> Request \cup {Idle}]
  /\ launcher \in [Campaigns -> Requests \cup {NoRequest}]

\* A request is at a statement of its own handler, works on a campaign that was
\* created, and one that may write the message, the files or the list found a
\* draft.
Phases ==
  \A r \in Requests : Serving(r) =>
    /\ campaign[On(r)] # "absent"
    /\ At(r, "count") \/ At(r, "schedule") => req[r].op = "start"
    /\ At(r, "move") => req[r].op \in {"start", "pause", "resume"}
    /\ req[r].step \in DraftSteps => req[r].draft

\* A file a campaign lists can be read: its object is in the bucket, and is no
\* other campaign's, so removing it takes nothing from another.
RowsHaveObjects ==
  /\ \A k \in Campaigns : fileRow[k] \subseteq object
  /\ \A j, k \in Campaigns : j # k => fileRow[j] \cap fileRow[k] = {}

\* A file on its way into the database belongs to its request alone; one about
\* to leave the bucket, to no campaign; one about to be unlisted, to no other.
Inserting(r) == At(r, "insertFile") \/ At(r, "commitFile")

FilesInHand ==
  \A r \in Requests :
    /\ Serving(r) => req[r].file \subseteq used
    /\ Inserting(r) =>
         /\ req[r].file \subseteq object
         /\ \A q \in Requests \ {r} : Serving(q) => req[q].file \cap req[r].file = {}
    /\ Inserting(r) \/ At(r, "deleteObject") =>
         \A k \in Campaigns : req[r].file \cap fileRow[k] = {}
    /\ At(r, "removeFile") =>
         \A k \in Campaigns \ {On(r)} : req[r].file \cap fileRow[k] = {}

\* No campaign lists a file twice over or without its object, at any moment of
\* the uploads, refusals, removals, deletions and failures that overlap.
DeskInv == TypeOK /\ Phases /\ RowsHaveObjects /\ FilesInHand

\* A campaign only ever moves along the graph of campaignState.ts, but for its
\* creation and deletion: a double click, or a request that raced the worker,
\* makes no move the graph does not have.  Nothing returns to draft.
LegalStep ==
  \A k \in Campaigns : campaign'[k] # campaign[k] =>
    \/ campaign[k] = "absent" /\ campaign'[k] = "draft"
    \/ k \in Live /\ campaign'[k] = "gone"
    \/ k \in Live /\ campaign'[k] \in Allowed[campaign[k]] \ {"draft"}
LegalMoves == [][LegalStep]_vars

\* A request that loaded the campaign as a draft is still being served.
Late(k) == \E r \in Requests : Serving(r) /\ On(r) = k /\ req[r].draft

\* Past its launch, a campaign's message, files and list change only by the
\* requests that were under way at the launch: once these have ended the
\* message and the files are fixed, and no address joins the list.
FrozenStep ==
  \A k \in Live : campaign[k] # "draft" /\ ~Late(k) =>
    /\ text'[k] = text[k]
    /\ {e \in Emails : contact'[k][e] # "absent"} \subseteq Rows(k)
    /\ fileRow'[k] = fileRow[k] \/ campaign'[k] = "gone"
FrozenOnceDrained == [][FrozenStep]_vars

\* A campaign moves along its graph, and what it sends is fixed once the requests that
\* met it as a draft have ended (campaignState.ts, routes/campaigns.ts:170).
DeskKeeps == LegalMoves /\ FrozenOnceDrained

\* What services/campaigns.ts:293 says of the cap.  It does not hold: two
\* INSERTs that count at once both count the same rows.
CapHolds == \A k \in Campaigns : Cardinality(fileRow[k]) <= MaxAttachments

\* What routes/campaigns.ts:310 says of a refused move.  It does not hold: the
\* launch that lost has already written its schedule.
RefusedChangesNothing ==
  \A k \in Campaigns, r \in Requests :
    campaign[k] = "scheduled" /\ cadence[k] = r /\ ~Serving(r) => launcher[k] = r
=============================================================================

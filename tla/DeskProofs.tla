----------------------------- MODULE DeskProofs ------------------------------
(***************************************************************************)
(* What is proved of the campaign desk, for every set of requests,         *)
(* campaigns, addresses and files: a listed file has its object and one    *)
(* campaign, a campaign moves along its graph, and what it sends is fixed  *)
(* once the requests that met it as a draft have ended.  Its files pass    *)
(* their cap by less than one for each request served at once.             *)
(***************************************************************************)
EXTENDS Desk, FiniteSetTheorems, TLAPS

\* A request being served is one the router let in.
LEMMA Here ==
  ASSUME TypeOK, NEW r \in Requests, Serving(r)
  PROVE  req[r] \in Request /\ On(r) \in Campaigns
BY DEF TypeOK, Serving, Idle, Request, On

LEMMA NotServing == Idle \notin Request /\ "none" \notin Op
<1>1. "none" \notin Op
  BY DEF Op, First
<1>2. QED
  BY <1>1 DEF Idle, Request

LEMMA RowsType ==
  ASSUME TypeOK, NEW k \in Campaigns, NEW S \in SUBSET Emails
  PROVE  Cardinality(Rows(k) \cup S) \in Nat /\ Cardinality(Rows(k)) \in Nat
<1>1. Rows(k) \cup S \subseteq Emails /\ Rows(k) \subseteq Emails /\ IsFiniteSet(Emails)
  BY DeskAssumption DEF Rows
<1>2. QED
  BY <1>1, FS_Subset, FS_CardinalityType

\* The statements of each handler, in order.
Follows == {<<"count", "schedule">>, <<"schedule", "move">>,
            <<"existing", "insertMany">>, <<"insertMany", "commit">>,
            <<"insertOne", "sync">>, <<"dropContact", "sync">>, <<"sync", "syncWrite">>,
            <<"list", "put">>, <<"put", "insertFile">>, <<"insertFile", "commitFile">>,
            <<"insertFile", "deleteObject">>, <<"findFile", "removeFile">>,
            <<"removeFile", "deleteObject">>}

\* A request ends, or goes on to the next statement of its handler.
GoesOn(r) ==
  /\ req' = [req EXCEPT ![r] = req'[r]]
  /\ \/ req'[r] = Idle
     \/ /\ req'[r] \in Request
        /\ req'[r].op = req[r].op /\ req'[r].k = req[r].k /\ req'[r].draft = req[r].draft
        /\ <<req[r].step, req'[r].step>> \in Follows

\* Going on with one field written: what the statement found.
LEMMA Next1 ==
  ASSUME TypeOK, NEW r \in Requests, Serving(r), NEW s \in Steps,
         <<req[r].step, s>> \in Follows, Goto(r, s)
  PROVE  GoesOn(r) /\ req'[r].file = req[r].file /\ req'[r].step = s /\ req'[r] # Idle
<1> DEFINE q == [req[r] EXCEPT !.step = s]
<1>1. req[r] \in Request
  BY Here
<1>2. req' = [req EXCEPT ![r] = q] /\ req'[r] = q
  BY DEF Goto, TypeOK
<1>3. /\ q \in Request /\ q.step = s /\ q.op = req[r].op /\ q.k = req[r].k
      /\ q.draft = req[r].draft /\ q.file = req[r].file
  BY <1>1 DEF Request
<1> HIDE DEF q
<1>4. QED
  BY <1>2, <1>3, NotServing DEF GoesOn

LEMMA NextEnd ==
  ASSUME TypeOK, NEW r \in Requests, End(r)
  PROVE  GoesOn(r) /\ req'[r] = Idle
BY DEF GoesOn, End, TypeOK

LEMMA NextEmails ==
  ASSUME TypeOK, NEW r \in Requests, At(r, "existing"), NEW S \in SUBSET Emails,
         req' = [req EXCEPT ![r] = [req[r] EXCEPT !.email = S, !.step = "insertMany"]]
  PROVE  GoesOn(r) /\ req'[r].file = req[r].file /\ req'[r].step = "insertMany"
<1> DEFINE m == [req[r] EXCEPT !.email = S]
           q == [m EXCEPT !.step = "insertMany"]
<1>1. req[r] \in Request
  BY Here DEF At
<1>2. req' = [req EXCEPT ![r] = q] /\ req'[r] = q
  BY DEF TypeOK
<1>3. /\ m \in Request /\ m.op = req[r].op /\ m.k = req[r].k
      /\ m.draft = req[r].draft /\ m.file = req[r].file
  BY <1>1 DEF Request
<1> HIDE DEF m
<1>4. /\ q \in Request /\ q.step = "insertMany" /\ q.op = m.op /\ q.k = m.k
      /\ q.draft = m.draft /\ q.file = m.file
  BY <1>3 DEF Request, Steps
<1> HIDE DEF q
<1>5. QED
  BY <1>2, <1>3, <1>4 DEF GoesOn, Follows, At

LEMMA NextCount ==
  ASSUME TypeOK, NEW r \in Requests, Serving(r), NEW n \in Nat, NEW s \in Steps,
         <<req[r].step, s>> \in Follows,
         req' = [req EXCEPT ![r] = [req[r] EXCEPT !.count = n, !.step = s]]
  PROVE  GoesOn(r) /\ req'[r].file = req[r].file /\ req'[r].step = s
<1> DEFINE m == [req[r] EXCEPT !.count = n]
           q == [m EXCEPT !.step = s]
<1>1. req[r] \in Request
  BY Here
<1>2. req' = [req EXCEPT ![r] = q] /\ req'[r] = q
  BY DEF TypeOK
<1>3. /\ m \in Request /\ m.op = req[r].op /\ m.k = req[r].k
      /\ m.draft = req[r].draft /\ m.file = req[r].file
  BY <1>1 DEF Request
<1> HIDE DEF m
<1>4. /\ q \in Request /\ q.step = s /\ q.op = m.op /\ q.k = m.k
      /\ q.draft = m.draft /\ q.file = m.file
  BY <1>3 DEF Request
<1> HIDE DEF q
<1>5. QED
  BY <1>2, <1>3, <1>4 DEF GoesOn

LEMMA NextFile ==
  ASSUME TypeOK, NEW r \in Requests, Serving(r), NEW f \in Files, NEW s \in Steps,
         <<req[r].step, s>> \in Follows,
         req' = [req EXCEPT ![r] = [req[r] EXCEPT !.file = {f}, !.step = s]]
  PROVE  GoesOn(r) /\ req'[r].file = {f} /\ req'[r].step = s /\ req'[r] # Idle
<1> DEFINE m == [req[r] EXCEPT !.file = {f}]
           q == [m EXCEPT !.step = s]
<1>1. req[r] \in Request
  BY Here
<1>2. req' = [req EXCEPT ![r] = q] /\ req'[r] = q
  BY DEF TypeOK
<1>3. /\ m \in Request /\ m.op = req[r].op /\ m.k = req[r].k
      /\ m.draft = req[r].draft /\ m.file = {f}
  BY <1>1 DEF Request
<1> HIDE DEF m
<1>4. /\ q \in Request /\ q.step = s /\ q.op = m.op /\ q.k = m.k
      /\ q.draft = m.draft /\ q.file = m.file
  BY <1>3 DEF Request
<1> HIDE DEF q
<1>5. QED
  BY <1>2, <1>3, <1>4, NotServing DEF GoesOn

\* Every statement of a request goes on in the order of its handler.
LEMMA CampaignGoesOn ==
  ASSUME TypeOK, NEW r \in Requests, OnCampaign(r) \/ Die(r)
  PROVE  /\ GoesOn(r) /\ Serving(r)
         /\ req'[r] = Idle \/ req'[r].file = req[r].file
<1>1. CASE StartCounts(r) \/ StartSchedules(r)
  <2>1. Serving(r) /\ (End(r) \/ \E s \in {"schedule", "move"} :
                          Goto(r, s) /\ <<req[r].step, s>> \in Follows)
    BY <1>1 DEF StartCounts, StartSchedules, At, Follows
  <2>2. QED
    BY <2>1, Next1, NextEnd DEF Steps
<1>2. CASE UpdateText(r) \/ UpdatePace(r) \/ MakeMove(r) \/ Remove(r) \/ Die(r)
  <2>1. Serving(r) /\ End(r)
    BY <1>2 DEF UpdateText, UpdatePace, MakeMove, Remove, Die, At
  <2>2. QED
    BY <2>1, NextEnd
<1>3. QED
  BY <1>1, <1>2 DEF OnCampaign

LEMMA ContactsGoesOn ==
  ASSUME TypeOK, NEW r \in Requests, OnContacts(r)
  PROVE  /\ GoesOn(r) /\ Serving(r)
         /\ req'[r] = Idle \/ req'[r].file = req[r].file
<1>1. CASE ReadExisting(r)
  <2>1. PICK sent \in SUBSET Emails :
          req' = [req EXCEPT ![r] = [req[r] EXCEPT !.email = Fresh(On(r), sent), !.step = "insertMany"]]
    BY <1>1 DEF ReadExisting
  <2>2. PICK S \in SUBSET Emails : S = Fresh(On(r), sent)
    BY DEF Fresh
  <2>3. req' = [req EXCEPT ![r] = [req[r] EXCEPT !.email = S, !.step = "insertMany"]]
    BY <2>1, <2>2
  <2>4. QED
    BY <1>1, <2>3, NextEmails DEF ReadExisting, At
<1>2. CASE InsertMany(r) \/ SyncCount(r)
  <2>1. Serving(r) /\ On(r) \in Campaigns /\ req[r] \in Request
    BY <1>2, Here DEF InsertMany, SyncCount, At
  <2>2. req[r].email \in SUBSET Emails
    BY <2>1 DEF Request
  <2>3. Cardinality(Rows(On(r)) \cup req[r].email) \in Nat /\ Cardinality(Rows(On(r))) \in Nat
    BY <2>1, <2>2, RowsType
  <2>4. \/ End(r)
        \/ \E n \in Nat, s \in {"commit", "syncWrite"} :
             /\ <<req[r].step, s>> \in Follows
             /\ req' = [req EXCEPT ![r] = [req[r] EXCEPT !.count = n, !.step = s]]
    BY <1>2, <2>3 DEF InsertMany, SyncCount, At, Follows
  <2>5. CASE End(r)
    BY <2>1, <2>5, NextEnd
  <2>6. ASSUME NEW n \in Nat, NEW s \in {"commit", "syncWrite"},
               <<req[r].step, s>> \in Follows,
               req' = [req EXCEPT ![r] = [req[r] EXCEPT !.count = n, !.step = s]]
        PROVE  GoesOn(r) /\ req'[r].file = req[r].file
    BY <2>1, <2>6, NextCount DEF Steps
  <2>7. QED
    BY <2>1, <2>4, <2>5, <2>6
<1>3. CASE CommitMany(r) \/ SyncWrite(r) \/ MarkContact(r)
  <2>1. Serving(r) /\ End(r)
    BY <1>3 DEF CommitMany, SyncWrite, MarkContact, At
  <2>2. QED
    BY <2>1, NextEnd
<1>4. CASE InsertOne(r) \/ DropContact(r)
  <2>1. Serving(r) /\ (End(r) \/ (Goto(r, "sync") /\ <<req[r].step, "sync">> \in Follows))
    BY <1>4 DEF InsertOne, DropContact, At, Follows
  <2>2. QED
    BY <2>1, Next1, NextEnd DEF Steps
<1>5. QED
  BY <1>1, <1>2, <1>3, <1>4 DEF OnContacts

LEMMA FilesGoesOn ==
  ASSUME TypeOK, NEW r \in Requests, OnFiles(r)
  PROVE  /\ GoesOn(r) /\ Serving(r)
         /\ \/ req'[r] = Idle
            \/ req'[r].file = req[r].file /\ req'[r].step \notin {"insertFile", "removeFile"}
            \/ \E f \in Files : /\ req'[r].file = {f} /\ req'[r].step = "insertFile"
                               /\ f \notin used /\ used' = used \cup {f}
                               /\ object' = object \cup {f} /\ UNCHANGED fileRow
            \/ \E f \in fileRow[On(r)] : /\ req'[r].file = {f} /\ req'[r].step = "removeFile"
                                        /\ UNCHANGED files
<1>1. CASE PutFile(r) \/ FindFile(r)
  <2>1. Serving(r) /\ On(r) \in Campaigns
    BY <1>1, Here DEF PutFile, FindFile, At
  <2>2. fileRow[On(r)] \subseteq Files
    BY <2>1 DEF TypeOK
  <2>3. \/ End(r)
        \/ \E f \in Files, s \in {"insertFile", "removeFile"} :
             /\ req' = [req EXCEPT ![r] = [req[r] EXCEPT !.file = {f}, !.step = s]]
             /\ <<req[r].step, s>> \in Follows
             /\ s = "insertFile" => /\ f \notin used /\ used' = used \cup {f}
                                   /\ object' = object \cup {f} /\ UNCHANGED fileRow
             /\ s = "removeFile" => f \in fileRow[On(r)] /\ UNCHANGED files
    BY <1>1, <2>2 DEF PutFile, FindFile, At, Follows
  <2>4. CASE End(r)
    BY <2>1, <2>4, NextEnd
  <2>5. ASSUME NEW f \in Files, NEW s \in {"insertFile", "removeFile"},
               req' = [req EXCEPT ![r] = [req[r] EXCEPT !.file = {f}, !.step = s]],
               <<req[r].step, s>> \in Follows
        PROVE  GoesOn(r) /\ req'[r].file = {f} /\ req'[r].step = s
    BY <2>1, <2>5, NextFile DEF Steps
  <2>6. QED
    BY <2>1, <2>3, <2>4, <2>5
<1>2. CASE CommitFile(r) \/ DeleteObject(r)
  <2>1. Serving(r) /\ End(r)
    BY <1>2 DEF CommitFile, DeleteObject, At
  <2>2. QED
    BY <2>1, NextEnd
<1>3. CASE ListFiles(r) \/ CountFiles(r) \/ RemoveFile(r)
  <2>1. Serving(r) /\ (End(r) \/ \E s \in {"put", "commitFile", "deleteObject"} :
                          Goto(r, s) /\ <<req[r].step, s>> \in Follows)
    BY <1>3 DEF ListFiles, CountFiles, RemoveFile, At, Follows
  <2>2. CASE End(r)
    BY <2>1, <2>2, NextEnd
  <2>3. ASSUME NEW s \in {"put", "commitFile", "deleteObject"}, Goto(r, s),
               <<req[r].step, s>> \in Follows
        PROVE  GoesOn(r) /\ req'[r].file = req[r].file /\ req'[r].step = s
    BY <2>1, <2>3, Next1 DEF Steps
  <2>4. QED
    BY <2>1, <2>2, <2>3
<1>4. QED
  BY <1>1, <1>2, <1>3 DEF OnFiles

-----------------------------------------------------------------------------
(* Types.                                                                  *)

LEMMA InsertType ==
  ASSUME TypeOK, NEW k \in Campaigns, NEW S, Insert(k, S)
  PROVE  contact' \in [Campaigns -> [Emails -> ContactStatus \cup {"absent"}]]
<1> DEFINE row == [e \in Emails |-> IF e \in S /\ contact[k][e] = "absent" THEN "pending"
                                   ELSE contact[k][e]]
<1>1. row \in [Emails -> ContactStatus \cup {"absent"}]
  BY DEF TypeOK, ContactStatus
<1>2. contact' = contact \/ contact' = [contact EXCEPT ![k] = row]
  BY DEF Insert
<1>3. QED
  BY <1>1, <1>2 DEF TypeOK

LEMMA RequestType ==
  ASSUME TypeOK, Phases, NEW r \in Requests,
         OnCampaign(r) \/ OnContacts(r) \/ OnFiles(r) \/ Die(r)
  PROVE  TypeOK'
<1> USE DEF message, files, people
<1>1. GoesOn(r) /\ Serving(r) /\ On(r) \in Campaigns /\ req[r] \in Request
  BY CampaignGoesOn, ContactsGoesOn, FilesGoesOn, Here
<1>2. req' \in [Requests -> Request \cup {Idle}]
  BY <1>1 DEF GoesOn, TypeOK
<1>3. /\ campaign' \in [Campaigns -> Status \cup {"absent", "gone"}]
      /\ launcher' \in [Campaigns -> Requests \cup {NoRequest}]
  <2>1. CASE MakeMove(r)
    <3>1. Move[req[r].op].to \in Status
      BY <1>1, <2>1 DEF MakeMove, Phases, Move, Status
    <3>2. QED
      BY <1>1, <2>1, <3>1 DEF MakeMove, Transition, TypeOK
  <2>2. CASE Remove(r)
    BY <1>1, <2>2 DEF Remove, TypeOK
  <2>3. CASE UNCHANGED <<campaign, launcher>>
    BY <2>3 DEF TypeOK
  <2>4. QED
    BY <2>1, <2>2, <2>3 DEF OnCampaign, UpdateText, UpdatePace, StartCounts, StartSchedules,
         OnContacts, ReadExisting, InsertMany, CommitMany, InsertOne, DropContact, SyncCount,
         SyncWrite, MarkContact, OnFiles, ListFiles, PutFile, CountFiles, CommitFile,
         FindFile, RemoveFile, DeleteObject, Die
<1>4. /\ text' \in [Campaigns -> 0 .. MaxTexts]
      /\ cadence' \in [Campaigns -> {"default", "edited"} \cup Requests]
  <2>1. CASE UpdateText(r) \/ UpdatePace(r) \/ StartSchedules(r)
    BY <1>1, <2>1 DEF UpdateText, UpdatePace, StartSchedules, TypeOK
  <2>2. CASE UNCHANGED <<text, cadence>>
    BY <2>2 DEF TypeOK
  <2>3. QED
    BY <2>1, <2>2 DEF OnCampaign, StartCounts, MakeMove, Remove,
         OnContacts, ReadExisting, InsertMany, CommitMany, InsertOne, DropContact, SyncCount,
         SyncWrite, MarkContact, OnFiles, ListFiles, PutFile, CountFiles, CommitFile,
         FindFile, RemoveFile, DeleteObject, Die
<1>5. contact' \in [Campaigns -> [Emails -> ContactStatus \cup {"absent"}]]
  <2>1. CASE CommitMany(r) \/ InsertOne(r)
    BY <1>1, <2>1, InsertType DEF CommitMany, InsertOne
  <2>2. CASE Remove(r)
    BY <1>1, <2>2 DEF Remove, TypeOK
  <2>3. CASE DropContact(r) \/ MarkContact(r)
    <3>1. PICK e \in Emails, t \in ContactStatus \cup {"absent"} :
            contact' = contact \/ contact' = [contact EXCEPT ![On(r)] = [contact[On(r)] EXCEPT ![e] = t]]
      BY <2>3 DEF DropContact, MarkContact, ContactStatus
    <3>2. contact[On(r)] \in [Emails -> ContactStatus \cup {"absent"}]
      BY <1>1 DEF TypeOK
    <3>3. [contact[On(r)] EXCEPT ![e] = t] \in [Emails -> ContactStatus \cup {"absent"}]
      BY <3>2
    <3>4. QED
      BY <1>1, <3>1, <3>3 DEF TypeOK
  <2>4. CASE UNCHANGED contact
    BY <2>4 DEF TypeOK
  <2>5. QED
    BY <2>1, <2>2, <2>3, <2>4 DEF OnCampaign, UpdateText, UpdatePace, StartCounts,
         StartSchedules, MakeMove, OnContacts, ReadExisting, InsertMany, SyncCount, SyncWrite,
         OnFiles, ListFiles, PutFile, CountFiles, CommitFile, FindFile, RemoveFile,
         DeleteObject, Die
<1>6. total' \in [Campaigns -> Nat]
  <2>1. CASE CommitMany(r) \/ SyncWrite(r)
    BY <1>1, <2>1 DEF CommitMany, SyncWrite, TypeOK, Request
  <2>2. CASE UNCHANGED total
    BY <2>2 DEF TypeOK
  <2>3. QED
    BY <2>1, <2>2 DEF OnCampaign, UpdateText, UpdatePace, StartCounts, StartSchedules,
         MakeMove, Remove, OnContacts, ReadExisting, InsertMany, InsertOne, DropContact,
         SyncCount, MarkContact, OnFiles, ListFiles, PutFile, CountFiles, CommitFile,
         FindFile, RemoveFile, DeleteObject, Die
<1>7. /\ fileRow' \in [Campaigns -> SUBSET Files]
      /\ used' \in SUBSET Files /\ object' \in SUBSET used'
  <2>1. CASE OnFiles(r)
    <3>1. req[r].file \subseteq Files
      BY <1>1 DEF Request
    <3>2. CASE PutFile(r)
      BY <3>2 DEF PutFile, TypeOK
    <3>3. CASE CommitFile(r) \/ RemoveFile(r) \/ DeleteObject(r)
      BY <1>1, <3>1, <3>3 DEF CommitFile, RemoveFile, DeleteObject, TypeOK
    <3>4. CASE ListFiles(r) \/ CountFiles(r) \/ FindFile(r)
      BY <3>4 DEF ListFiles, CountFiles, FindFile, TypeOK
    <3>5. QED
      BY <2>1, <3>2, <3>3, <3>4 DEF OnFiles
  <2>2. CASE Remove(r)
    BY <1>1, <2>2 DEF Remove, TypeOK
  <2>3. CASE UNCHANGED files
    BY <2>3 DEF TypeOK
  <2>4. QED
    BY <2>1, <2>2, <2>3 DEF OnCampaign, UpdateText, UpdatePace, StartCounts, StartSchedules,
         MakeMove, OnContacts, ReadExisting, InsertMany, CommitMany, InsertOne, DropContact,
         SyncCount, SyncWrite, MarkContact, Die
<1>8. QED
  BY <1>2, <1>3, <1>4, <1>5, <1>6, <1>7 DEF TypeOK

\* A request that begins, on its first statement and with no file in hand.
Begins(r) ==
  /\ req' = [req EXCEPT ![r] = req'[r]]
  /\ req'[r] \in Request /\ req'[r].file = {}
  /\ ~Serving(r) /\ campaign'[req'[r].k] # "absent"
  /\ req'[r].step = First[req'[r].op]
  /\ req'[r].step \in DraftSteps => req'[r].draft

LEMMA LoadBegins ==
  ASSUME TypeOK, NEW r \in Requests, NEW op \in Op, NEW k \in Campaigns, Load(r, op, k)
  PROVE  Begins(r) /\ req'[r].k = k /\ req'[r].draft = (campaign[k] = "draft")
<1> DEFINE q == [op |-> op, k |-> k, draft |-> campaign[k] = "draft", step |-> First[op],
                 email |-> {}, file |-> {}, count |-> 0]
<1>1. req' = [req EXCEPT ![r] = q] /\ req'[r] = q
  BY DEF Load, TypeOK
<1>2. First[op] \in Steps
  BY DEF Op, First, Steps
<1>3. q \in Request
  BY <1>2 DEF Request
<1>4. First[op] \in DraftSteps => op \in {"editText", "import", "add", "upload", "detach"}
  BY DEF Op, First, DraftSteps
<1>5. First[op] \in DraftSteps => campaign[k] = "draft"
  BY <1>4 DEF Load, Admits, CanEditContent
<1>6. campaign'[k] # "absent"
  BY DEF Load, Found, Live, Status
<1>7. /\ q.op = op /\ q.k = k /\ q.draft = (campaign[k] = "draft") /\ q.step = First[op]
      /\ q.file = {}
  OBVIOUS
<1> HIDE DEF q
<1>8. QED
  BY <1>1, <1>3, <1>5, <1>6, <1>7 DEF Begins, Load

LEMMA FollowUpBegins ==
  ASSUME TypeOK, NEW r \in Requests, NEW k \in Campaigns,
         NEW from \in SUBSET (Campaigns \X Emails), FollowUp(r, k, from)
  PROVE  UNCHANGED req \/ (Begins(r) /\ req'[r].k = k)
<1> DEFINE q == [op |-> "delete", k |-> k, draft |-> TRUE, step |-> "remove",
                 email |-> {}, file |-> {}, count |-> 0]
<1>1. UNCHANGED req \/ (req' = [req EXCEPT ![r] = q] /\ req'[r] = q)
  BY DEF FollowUp, TypeOK
<1>2. q \in Request
  BY DEF Request, Op, First, Steps
<1>3. campaign'[k] = "draft" /\ ~Serving(r)
  BY DEF FollowUp, TypeOK
<1>4. q.k = k /\ q.file = {} /\ q.step = First[q.op] /\ q.step \notin DraftSteps
  BY DEF First, DraftSteps
<1> HIDE DEF q
<1>5. QED
  BY <1>1, <1>2, <1>3, <1>4 DEF Begins

LEMMA OtherType ==
  ASSUME TypeOK,
         \/ \E r \in Requests, op \in Op, k \in Campaigns : Load(r, op, k)
         \/ \E k \in Campaigns : Create(k) \/ WorkerStarts(k) \/ WorkerEnds(k)
         \/ \E k \in Campaigns, e \in Emails : WorkerSends(k, e)
  PROVE  TypeOK'
<1> USE DEF message, files, people
<1>1. CASE \E r \in Requests, op \in Op, k \in Campaigns : Load(r, op, k)
  <2>1. PICK r \in Requests, op \in Op, k \in Campaigns : Load(r, op, k)
    BY <1>1
  <2>2. req' \in [Requests -> Request \cup {Idle}]
    BY <2>1, LoadBegins DEF Begins, TypeOK
  <2>3. QED
    BY <2>1, <2>2 DEF Load, TypeOK
<1>2. CASE \E k \in Campaigns : Create(k) \/ WorkerStarts(k) \/ WorkerEnds(k)
  <2>1. PICK k \in Campaigns : Create(k) \/ WorkerStarts(k) \/ WorkerEnds(k)
    BY <1>2
  <2>2. /\ \E c \in Status : campaign' = [campaign EXCEPT ![k] = c]
        /\ text' = text \/ \E v \in 0 .. MaxTexts : text' = [text EXCEPT ![k] = v]
        /\ UNCHANGED <<cadence, people, files, req, launcher>>
    BY <2>1 DEF Create, WorkerStarts, WorkerEnds, Status
  <2>3. campaign' \in [Campaigns -> Status \cup {"absent", "gone"}]
    BY <2>2 DEF TypeOK
  <2>4. text' \in [Campaigns -> 0 .. MaxTexts]
    BY <2>2 DEF TypeOK
  <2>5. QED
    BY <2>2, <2>3, <2>4 DEF TypeOK
<1>3. CASE \E k \in Campaigns, e \in Emails : WorkerSends(k, e)
  <2>1. PICK k \in Campaigns, e \in Emails, t \in ContactStatus :
          contact' = [contact EXCEPT ![k] = [contact[k] EXCEPT ![e] = t]]
    BY <1>3 DEF WorkerSends, ContactStatus
  <2>2. contact[k] \in [Emails -> ContactStatus \cup {"absent"}]
    BY DEF TypeOK
  <2>3. [contact[k] EXCEPT ![e] = t] \in [Emails -> ContactStatus \cup {"absent"}]
    BY <2>2
  <2>4. contact' \in [Campaigns -> [Emails -> ContactStatus \cup {"absent"}]]
    BY <2>1, <2>3 DEF TypeOK
  <2>5. QED
    BY <1>3, <2>4 DEF WorkerSends, TypeOK
<1>4. QED
  BY <1>1, <1>2, <1>3

LEMMA FollowUpType ==
  ASSUME TypeOK, NEW r \in Requests, NEW k \in Campaigns,
         NEW from \in SUBSET (Campaigns \X Emails), FollowUp(r, k, from)
  PROVE  TypeOK'
<1> DEFINE copied == {e \in Emails : \E j \in Live : <<j, e>> \in from /\ e \in Rows(j)}
           row == [e \in Emails |-> IF e \in copied THEN "pending" ELSE "absent"]
<1>1. copied \subseteq Emails /\ IsFiniteSet(Emails)
  BY DeskAssumption
<1>2. Cardinality(copied) \in Nat
  BY <1>1, FS_Subset, FS_CardinalityType
<1>3. /\ campaign' = [campaign EXCEPT ![k] = "draft"]
      /\ contact' = [contact EXCEPT ![k] = row]
      /\ total' = [total EXCEPT ![k] = Cardinality(copied)]
      /\ UNCHANGED <<text, cadence, fileRow, object, used, launcher>>
  BY DEF FollowUp, message, files
<1>4. row \in [Emails -> ContactStatus \cup {"absent"}]
  BY DEF ContactStatus
<1>5. req' \in [Requests -> Request \cup {Idle}]
  BY FollowUpBegins DEF Begins, TypeOK
<1> HIDE DEF copied, row
<1>6. QED
  BY <1>2, <1>3, <1>4, <1>5 DEF TypeOK, Status

-----------------------------------------------------------------------------
(* Statements in order, on a campaign that was created.                    *)

Created == \A k \in Campaigns : campaign[k] # "absent" => campaign'[k] # "absent"

LEMMA CreatedStays ==
  ASSUME TypeOK, Phases, Next
  PROVE  Created
<1> USE DEF message, files, people
<1>1. CASE \E r \in Requests : OnCampaign(r) \/ OnContacts(r) \/ OnFiles(r) \/ Die(r)
  <2>1. PICK r \in Requests : OnCampaign(r) \/ OnContacts(r) \/ OnFiles(r) \/ Die(r)
    BY <1>1
  <2>2. CASE MakeMove(r)
    BY <2>2, Here DEF MakeMove, Transition, Phases, Move, TypeOK, Created, At
  <2>3. CASE Remove(r)
    BY <2>3, Here DEF Remove, TypeOK, Created, At
  <2>4. CASE UNCHANGED campaign
    BY <2>4 DEF Created
  <2>5. QED
    BY <2>1, <2>2, <2>3, <2>4 DEF OnCampaign, UpdateText, UpdatePace, StartCounts, StartSchedules,
         OnContacts, ReadExisting, InsertMany, CommitMany, InsertOne, DropContact, SyncCount,
         SyncWrite, MarkContact, OnFiles, ListFiles, PutFile, CountFiles, CommitFile,
         FindFile, RemoveFile, DeleteObject, Die
<1>2. CASE \E k \in Campaigns : WorkerStarts(k) \/ WorkerEnds(k) \/ campaign' = [campaign EXCEPT ![k] = "draft"]
  BY <1>2 DEF WorkerStarts, WorkerEnds, TypeOK, Created
<1>3. CASE UNCHANGED campaign
  BY <1>3 DEF Created
<1>4. QED
  BY <1>1, <1>2, <1>3, DeskAssumption DEF Next, Load, Create, FollowUp, WorkerSends

LEMMA PhasesKept ==
  ASSUME TypeOK, TypeOK', Phases, Next
  PROVE  Phases'
<1>1. Created
  BY CreatedStays
<1>2. ASSUME NEW r \in Requests, GoesOn(r), Serving(r) PROVE Phases'
  <2>1. ASSUME NEW p \in Requests, p # r PROVE req'[p] = req[p]
    BY <1>2, <2>1 DEF GoesOn, TypeOK
  <2>2. ASSUME NEW p \in Requests, p # r, Serving(p)'
        PROVE  /\ campaign'[req'[p].k] # "absent"
               /\ req'[p].step \in {"count", "schedule"} => req'[p].op = "start"
               /\ req'[p].step = "move" => req'[p].op \in {"start", "pause", "resume"}
               /\ req'[p].step \in DraftSteps => req'[p].draft
    BY <1>1, <2>1, <2>2, Here DEF Phases, Serving, At, On, Created
  <2>3. ASSUME Serving(r)'
        PROVE  /\ campaign'[req'[r].k] # "absent"
               /\ req'[r].step \in {"count", "schedule"} => req'[r].op = "start"
               /\ req'[r].step = "move" => req'[r].op \in {"start", "pause", "resume"}
               /\ req'[r].step \in DraftSteps => req'[r].draft
    <3>1. /\ req'[r].op = req[r].op /\ req'[r].k = req[r].k /\ req'[r].draft = req[r].draft
          /\ <<req[r].step, req'[r].step>> \in Follows
      BY <1>2, <2>3 DEF GoesOn, Serving, Idle
    <3>2. /\ req'[r].step = "schedule" => req[r].step = "count"
          /\ req'[r].step = "move" => req[r].step = "schedule"
          /\ req'[r].step # "count"
          /\ req'[r].step \in DraftSteps => req[r].step \in DraftSteps
      BY <3>1 DEF Follows, DraftSteps
    <3>3. QED
      BY <1>1, <1>2, <3>1, <3>2, Here DEF Phases, At, On, Created
  <2>4. QED
    BY <2>2, <2>3 DEF Phases, Serving, At, On
<1>3. ASSUME NEW r \in Requests, Begins(r) PROVE Phases'
  <2>1. ASSUME NEW p \in Requests, p # r PROVE req'[p] = req[p]
    BY <1>3, <2>1 DEF Begins, TypeOK
  <2>2. ASSUME NEW p \in Requests, p # r, Serving(p)'
        PROVE  /\ campaign'[req'[p].k] # "absent"
               /\ req'[p].step \in {"count", "schedule"} => req'[p].op = "start"
               /\ req'[p].step = "move" => req'[p].op \in {"start", "pause", "resume"}
               /\ req'[p].step \in DraftSteps => req'[p].draft
    BY <1>1, <2>1, <2>2, Here DEF Phases, Serving, At, On, Created
  <2>3. /\ req'[r].step \in {"count", "schedule"} => req'[r].op = "start"
        /\ req'[r].step = "move" => req'[r].op \in {"start", "pause", "resume"}
    BY <1>3 DEF Begins, Request, Op, First
  <2>4. QED
    BY <1>3, <2>2, <2>3 DEF Begins, Phases, Serving, At, On
<1>4. ASSUME UNCHANGED req PROVE Phases'
  BY <1>1, <1>4, Here DEF Phases, Serving, At, On, Created
<1>5. QED
  <2>1. CASE \E r \in Requests : OnCampaign(r) \/ OnContacts(r) \/ OnFiles(r) \/ Die(r)
    BY <1>2, <2>1, CampaignGoesOn, ContactsGoesOn, FilesGoesOn
  <2>2. CASE \E r \in Requests, op \in Op, k \in Opened : Load(r, op, k)
    BY <1>3, <2>2, LoadBegins, DeskAssumption
  <2>3. CASE \E r \in Requests, k \in Campaigns, from \in SUBSET (Campaigns \X Emails) :
               FollowUp(r, k, from)
    BY <1>3, <1>4, <2>3, FollowUpBegins
  <2>4. QED
    BY <1>4, <2>1, <2>2, <2>3 DEF Next, Create, WorkerStarts, WorkerEnds, WorkerSends

-----------------------------------------------------------------------------
(* Files.                                                                  *)

FileSteps == {"insertFile", "commitFile", "removeFile", "deleteObject"}

\* A step that stores and lists nothing, and leaves its request where no file
\* is at stake.
LEMMA QuietFiles ==
  ASSUME TypeOK, RowsHaveObjects, FilesInHand, UNCHANGED files, NEW r \in Requests,
         req' = [req EXCEPT ![r] = req'[r]],
         \/ req'[r] = Idle
         \/ /\ req'[r].step \notin FileSteps
            /\ req'[r].file = {} \/ (Serving(r) /\ req'[r].file = req[r].file)
  PROVE  RowsHaveObjects' /\ FilesInHand'
<1> USE DEF files
<1>1. RowsHaveObjects'
  BY DEF RowsHaveObjects
<1>2. ASSUME NEW p \in Requests, p # r PROVE req'[p] = req[p]
  BY <1>2 DEF TypeOK
<1>3. Serving(r)' => /\ req'[r].step \notin FileSteps
                     /\ req'[r].file = {} \/ (Serving(r) /\ req'[r].file = req[r].file)
  BY DEF Serving, Idle
<1>4. FilesInHand'
  <2>1. ASSUME NEW p \in Requests, Serving(p)' PROVE req'[p].file \subseteq used
    BY <1>2, <1>3, <2>1 DEF FilesInHand, Serving
  <2>2. ASSUME NEW p \in Requests, Serving(p)', req'[p].step \in FileSteps
        PROVE  p # r /\ req'[p] = req[p]
    <3>1. p # r
      BY <1>3, <2>2 DEF Serving
    <3>2. QED
      BY <1>2, <3>1
  <2>3. ASSUME NEW p \in Requests, Inserting(p)'
        PROVE  /\ req'[p].file \subseteq object
               /\ \A q \in Requests \ {p} : Serving(q)' => req'[q].file \cap req'[p].file = {}
    <3>1. p # r /\ req'[p] = req[p]
      BY <2>2, <2>3 DEF Inserting, At, FileSteps
    <3>2. Inserting(p)
      BY <2>3, <3>1 DEF Inserting, At, Serving
    <3>3. QED
      BY <1>2, <1>3, <3>1, <3>2 DEF FilesInHand, Serving
  <2>4. ASSUME NEW p \in Requests
        PROVE  /\ (Inserting(p) \/ At(p, "deleteObject"))' =>
                    \A k \in Campaigns : req'[p].file \cap fileRow[k] = {}
               /\ At(p, "removeFile")' =>
                    \A k \in Campaigns \ {req'[p].k} : req'[p].file \cap fileRow[k] = {}
    <3>1. (Inserting(p) \/ At(p, "deleteObject") \/ At(p, "removeFile"))' => req'[p] = req[p]
      BY <2>2 DEF Inserting, At, FileSteps
    <3>2. QED
      BY <3>1 DEF FilesInHand, Inserting, At, On, Serving
  <2>5. QED
    BY <2>1, <2>3, <2>4 DEF FilesInHand, Inserting, At, On, Serving
<1>5. QED
  BY <1>1, <1>4

\* The upload: the key is new, so the file is nobody's until its row is written.
LEMMA PutInv ==
  ASSUME DeskInv, NEW r \in Requests, PutFile(r)
  PROVE  RowsHaveObjects' /\ FilesInHand'
<1> USE DEF DeskInv
<1>1. GoesOn(r) /\ Serving(r)
  BY FilesGoesOn DEF OnFiles
<1>2. CASE End(r) /\ UNCHANGED files
  BY <1>1, <1>2, QuietFiles, NextEnd DEF GoesOn
<1>3. CASE ~(End(r) /\ UNCHANGED files)
  <2>1. PICK f \in Files :
          /\ f \notin used /\ used' = used \cup {f} /\ object' = object \cup {f}
          /\ UNCHANGED fileRow
          /\ req' = [req EXCEPT ![r] = [req[r] EXCEPT !.file = {f}, !.step = "insertFile"]]
    BY <1>3 DEF PutFile
  <2>2. req[r].step = "put"
    BY DEF PutFile, At
  <2>3. req'[r].file = {f} /\ req'[r].step = "insertFile" /\ req' = [req EXCEPT ![r] = req'[r]]
    BY <1>1, <2>1, <2>2, NextFile DEF Follows, Steps, GoesOn
  <2>4. ASSUME NEW p \in Requests, p # r PROVE req'[p] = req[p]
    BY <2>3, <2>4 DEF TypeOK
  <2>5. RowsHaveObjects'
    BY <2>1 DEF RowsHaveObjects
  <2>6. \A k \in Campaigns : f \notin fileRow[k]
    BY <2>1 DEF RowsHaveObjects, TypeOK
  <2>7. \A p \in Requests : Serving(p) => f \notin req[p].file
    BY <2>1 DEF FilesInHand
  <2>8. FilesInHand'
    <3> USE DEF Inserting, At, On, Serving
    <3>1. ASSUME NEW p \in Requests, Serving(p)' PROVE req'[p].file \subseteq used'
      BY <2>1, <2>3, <2>4, <3>1 DEF FilesInHand
    <3>2. ASSUME NEW p \in Requests, Inserting(p)'
          PROVE  /\ req'[p].file \subseteq object'
                 /\ \A q \in Requests \ {p} : Serving(q)' => req'[q].file \cap req'[p].file = {}
      <4>1. CASE p = r
        BY <2>1, <2>3, <2>4, <2>7, <4>1
      <4>2. CASE p # r
        BY <2>1, <2>3, <2>4, <2>7, <3>2, <4>2 DEF FilesInHand
      <4>3. QED
        BY <4>1, <4>2
    <3>3. ASSUME NEW p \in Requests
          PROVE  /\ (Inserting(p) \/ At(p, "deleteObject"))' =>
                      \A k \in Campaigns : req'[p].file \cap fileRow'[k] = {}
                 /\ At(p, "removeFile")' =>
                      \A k \in Campaigns \ {req'[p].k} : req'[p].file \cap fileRow'[k] = {}
      <4>1. CASE p = r
        BY <2>1, <2>3, <2>6, <4>1
      <4>2. CASE p # r
        BY <2>1, <2>4, <4>2 DEF FilesInHand
      <4>3. QED
        BY <4>1, <4>2
    <3>4. QED
      BY <3>1, <3>2, <3>3 DEF FilesInHand
  <2>9. QED
    BY <2>5, <2>8
<1>4. QED
  BY <1>2, <1>3

\* A statement that takes a row or an object away, or writes the row of a file
\* that is its request's alone.
LEMMA CommitInv ==
  ASSUME DeskInv, NEW r \in Requests, CommitFile(r)
  PROVE  RowsHaveObjects' /\ FilesInHand'
<1> USE DEF DeskInv, Inserting, At, On, Serving
<1>1. req'[r] = Idle /\ \A p \in Requests \ {r} : req'[p] = req[p]
  BY DEF CommitFile, End, TypeOK
<1>2. /\ UNCHANGED <<object, used>>
      /\ \A k \in Campaigns : fileRow'[k] \subseteq fileRow[k] \cup (IF k = req[r].k THEN req[r].file ELSE {})
  BY DEF CommitFile, TypeOK
<1>3. /\ req[r].file \subseteq object
      /\ \A p \in Requests \ {r} : Serving(p) => req[p].file \cap req[r].file = {}
      /\ \A k \in Campaigns : req[r].file \cap fileRow[k] = {}
  BY DEF CommitFile, FilesInHand
<1>4. RowsHaveObjects'
  BY <1>2, <1>3 DEF RowsHaveObjects
<1>5. FilesInHand'
  <2>1. ~Serving(r)'
    BY <1>1 DEF Idle
  <2>2. ASSUME NEW p \in Requests \ {r}, Serving(p), NEW k \in Campaigns
        PROVE  req[p].file \cap fileRow[k] = {} => req[p].file \cap fileRow'[k] = {}
    BY <1>2, <1>3, <2>2
  <2>3. QED
    BY <1>1, <1>2, <2>1, <2>2 DEF FilesInHand
<1>6. QED
  BY <1>4, <1>5

LEMMA CountInv ==
  ASSUME DeskInv, NEW r \in Requests, CountFiles(r)
  PROVE  RowsHaveObjects' /\ FilesInHand'
<1> USE DEF DeskInv, Inserting, At, On, Serving
<1>1. /\ req'[r].file = req[r].file /\ req'[r].step \in {"commitFile", "deleteObject"}
      /\ req' = [req EXCEPT ![r] = req'[r]] /\ req'[r].k = req[r].k /\ req[r].op # "none"
  <2>1. PICK s \in {"commitFile", "deleteObject"} : Goto(r, s)
    BY DEF CountFiles
  <2>2. <<req[r].step, s>> \in Follows /\ Serving(r) /\ s \in Steps
    BY DEF CountFiles, Follows, Steps
  <2>3. GoesOn(r) /\ req'[r].file = req[r].file /\ req'[r].step = s /\ req'[r] # Idle
    BY <2>1, <2>2, Next1
  <2>4. QED
    BY <2>2, <2>3 DEF GoesOn
<1>2. /\ \A p \in Requests \ {r} : req'[p] = req[p]
      /\ UNCHANGED <<fileRow, object, used>> /\ req[r].step = "insertFile"
  BY <1>1 DEF TypeOK, CountFiles, files
<1>3. RowsHaveObjects'
  BY <1>2 DEF RowsHaveObjects
<1>4. \A p \in Requests : /\ Serving(p)' => Serving(p) /\ req'[p].file = req[p].file
                          /\ Inserting(p)' => Inserting(p)
                          /\ (Inserting(p) \/ At(p, "deleteObject"))' =>
                               Inserting(p) \/ At(p, "deleteObject")
                          /\ At(p, "removeFile")' => At(p, "removeFile") /\ req'[p].k = req[p].k
  BY <1>1, <1>2
<1>5. FilesInHand'
  BY <1>2, <1>4 DEF FilesInHand
<1>6. QED
  BY <1>3, <1>5

\* The removal, its row first: the file it found is no other campaign's.
LEMMA FindInv ==
  ASSUME DeskInv, NEW r \in Requests, FindFile(r)
  PROVE  RowsHaveObjects' /\ FilesInHand'
<1> USE DEF DeskInv
<1>1. GoesOn(r) /\ Serving(r) /\ On(r) \in Campaigns /\ UNCHANGED files
  BY FilesGoesOn, Here DEF OnFiles, FindFile
<1>2. CASE End(r)
  BY <1>1, <1>2, QuietFiles, NextEnd DEF GoesOn
<1>3. CASE ~End(r)
  <2>1. PICK f \in fileRow[On(r)] :
          req' = [req EXCEPT ![r] = [req[r] EXCEPT !.file = {f}, !.step = "removeFile"]]
    BY <1>3 DEF FindFile
  <2>2. f \in Files /\ f \in object /\ f \in used
    BY <1>1, <2>1 DEF RowsHaveObjects, TypeOK
  <2>3. req[r].step = "findFile"
    BY DEF FindFile, At
  <2>4. /\ req'[r].file = {f} /\ req'[r].step = "removeFile" /\ req'[r] # Idle
        /\ req' = [req EXCEPT ![r] = req'[r]] /\ req'[r].k = req[r].k
    BY <1>1, <2>1, <2>2, <2>3, NextFile DEF Follows, Steps, GoesOn
  <2>5. ASSUME NEW p \in Requests, p # r PROVE req'[p] = req[p]
    BY <2>4, <2>5 DEF TypeOK
  <2>6. RowsHaveObjects'
    BY <1>1 DEF RowsHaveObjects, files
  <2>7. \A p \in Requests : Inserting(p) => f \notin req[p].file
    BY <1>1, <2>1 DEF FilesInHand
  <2>8. \A k \in Campaigns : k # req[r].k => f \notin fileRow[k]
    BY <1>1, <2>1 DEF RowsHaveObjects, On
  <2>9. FilesInHand'
    <3> USE DEF Inserting, At, On, Serving, files
    <3>1. ASSUME NEW p \in Requests, Serving(p)' PROVE req'[p].file \subseteq used'
      BY <1>1, <2>2, <2>4, <2>5, <3>1 DEF FilesInHand
    <3>2. ASSUME NEW p \in Requests, Inserting(p)'
          PROVE  /\ req'[p].file \subseteq object'
                 /\ \A q \in Requests \ {p} : Serving(q)' => req'[q].file \cap req'[p].file = {}
      BY <1>1, <2>4, <2>5, <2>7, <3>2 DEF FilesInHand
    <3>3. ASSUME NEW p \in Requests
          PROVE  /\ (Inserting(p) \/ At(p, "deleteObject"))' =>
                      \A k \in Campaigns : req'[p].file \cap fileRow'[k] = {}
                 /\ At(p, "removeFile")' =>
                      \A k \in Campaigns \ {req'[p].k} : req'[p].file \cap fileRow'[k] = {}
      <4>1. CASE p = r
        BY <1>1, <2>4, <2>8, <4>1
      <4>2. CASE p # r
        BY <1>1, <2>5, <4>2 DEF FilesInHand
      <4>3. QED
        BY <4>1, <4>2
    <3>4. QED
      BY <3>1, <3>2, <3>3 DEF FilesInHand
  <2>10. QED
    BY <2>6, <2>9
<1>4. QED
  BY <1>2, <1>3

LEMMA TakeInv ==
  ASSUME DeskInv, NEW r \in Requests, RemoveFile(r) \/ DeleteObject(r) \/ Remove(r)
  PROVE  RowsHaveObjects' /\ FilesInHand'
<1> USE DEF DeskInv, Inserting, At, On, Serving
<1>1. CASE RemoveFile(r)
  <2>1. /\ req'[r].file = req[r].file /\ req'[r].step = "deleteObject" /\ req'[r] # Idle
        /\ req' = [req EXCEPT ![r] = req'[r]] /\ req'[r].k = req[r].k /\ req[r].op # "none"
    <3>1. <<req[r].step, "deleteObject">> \in Follows /\ "deleteObject" \in Steps
          /\ Serving(r) /\ Goto(r, "deleteObject")
      BY <1>1 DEF RemoveFile, Follows, Steps
    <3>2. QED
      BY <3>1, Next1 DEF GoesOn
  <2>2. /\ \A p \in Requests \ {r} : req'[p] = req[p]
        /\ UNCHANGED <<object, used>> /\ req[r].step = "removeFile" /\ req[r].k \in Campaigns
        /\ fileRow' = [fileRow EXCEPT ![req[r].k] = @ \ req[r].file]
    BY <1>1, <2>1, Here DEF TypeOK, RemoveFile
  <2>3. /\ \A k \in Campaigns : fileRow'[k] \subseteq fileRow[k]
        /\ fileRow'[req[r].k] \cap req[r].file = {}
    BY <2>2 DEF TypeOK
  <2>4. RowsHaveObjects'
    BY <2>2, <2>3 DEF RowsHaveObjects
  <2>5. \A k \in Campaigns : req[r].file \cap fileRow'[k] = {}
    BY <2>1, <2>2, <2>3 DEF FilesInHand
  <2>6. FilesInHand'
    <3>1. ASSUME NEW p \in Requests, Serving(p)' PROVE req'[p].file \subseteq used'
      BY <2>1, <2>2, <3>1 DEF FilesInHand
    <3>2. ASSUME NEW p \in Requests, Inserting(p)'
          PROVE  /\ req'[p].file \subseteq object'
                 /\ \A q \in Requests \ {p} : Serving(q)' => req'[q].file \cap req'[p].file = {}
      BY <2>1, <2>2, <3>2 DEF FilesInHand
    <3>3. ASSUME NEW p \in Requests
          PROVE  /\ (Inserting(p) \/ At(p, "deleteObject"))' =>
                      \A k \in Campaigns : req'[p].file \cap fileRow'[k] = {}
                 /\ At(p, "removeFile")' =>
                      \A k \in Campaigns \ {req'[p].k} : req'[p].file \cap fileRow'[k] = {}
      <4>1. CASE p = r
        BY <2>1, <2>5, <4>1
      <4>2. CASE p # r
        <5>1. ASSUME NEW k \in Campaigns, req[p].file \cap fileRow[k] = {}
              PROVE  req[p].file \cap fileRow'[k] = {}
          BY <2>3, <5>1
        <5>2. QED
          BY <2>2, <4>2, <5>1 DEF FilesInHand
      <4>3. QED
        BY <4>1, <4>2
    <3>4. QED
      BY <3>1, <3>2, <3>3 DEF FilesInHand
  <2>7. QED
    BY <2>4, <2>6
<1>2. CASE DeleteObject(r) \/ Remove(r)
  <2>1. /\ req'[r] = Idle /\ \A p \in Requests \ {r} : req'[p] = req[p]
        /\ UNCHANGED used /\ req[r].op # "none"
    BY <1>2 DEF DeleteObject, Remove, End, TypeOK
  <2>2. \A k \in Campaigns : fileRow'[k] \subseteq fileRow[k]
    BY <1>2 DEF DeleteObject, Remove, TypeOK
  <2>3. \/ object' = object
        \/ /\ object' = object \ req[r].file /\ UNCHANGED fileRow
           /\ req[r].step = "deleteObject"
    BY <1>2 DEF DeleteObject, Remove
  <2>4. /\ \A k \in Campaigns : fileRow'[k] \subseteq object'
        /\ \A p \in Requests \ {r} : Inserting(p) => req[p].file \subseteq object'
    BY <2>1, <2>2, <2>3 DEF FilesInHand, RowsHaveObjects
  <2>5. RowsHaveObjects'
    BY <2>2, <2>4 DEF RowsHaveObjects
  <2>6. ~Serving(r)'
    BY <2>1 DEF Idle
  <2>7. ASSUME NEW p \in Requests \ {r}, NEW k \in Campaigns, req[p].file \cap fileRow[k] = {}
        PROVE  req[p].file \cap fileRow'[k] = {}
    BY <2>2, <2>7
  <2>8. FilesInHand'
    BY <2>1, <2>4, <2>6, <2>7 DEF FilesInHand
  <2>9. QED
    BY <2>5, <2>8
<1>3. QED
  BY <1>1, <1>2

LEMMA FilesKept ==
  ASSUME DeskInv, Next
  PROVE  RowsHaveObjects' /\ FilesInHand'
<1> USE DEF DeskInv
<1>1. ASSUME NEW r \in Requests, OnCampaign(r) \/ OnContacts(r) \/ ListFiles(r) \/ Die(r), ~Remove(r)
      PROVE  RowsHaveObjects' /\ FilesInHand'
  <2>1. GoesOn(r) /\ Serving(r) /\ (req'[r] = Idle \/ req'[r].file = req[r].file)
    <3>1. CASE ListFiles(r)
      <4>1. Serving(r) /\ (End(r) \/ (Goto(r, "put") /\ <<req[r].step, "put">> \in Follows))
        BY <3>1 DEF ListFiles, At, Follows
      <4>2. QED
        BY <4>1, Next1, NextEnd DEF Steps
    <3>2. QED
      BY <1>1, <3>1, CampaignGoesOn, ContactsGoesOn
  <2>2. req'[r] = Idle \/ req[r].step \notin {"put", "insertFile", "findFile", "removeFile"}
    <3>1. CASE Die(r)
      BY <3>1, NextEnd DEF Die
    <3>2. QED
      BY <1>1, <3>1 DEF OnCampaign, UpdateText, UpdatePace, StartCounts, StartSchedules, MakeMove,
         OnContacts, ReadExisting, InsertMany, CommitMany, InsertOne, DropContact, SyncCount,
         SyncWrite, MarkContact, ListFiles, At
  <2>3. req'[r] = Idle \/ req'[r].step \notin FileSteps
    BY <2>1, <2>2 DEF GoesOn, Follows, FileSteps
  <2>4. UNCHANGED files
    BY <1>1 DEF OnCampaign, UpdateText, UpdatePace, StartCounts, StartSchedules, MakeMove,
         OnContacts, ReadExisting, InsertMany, CommitMany, InsertOne, DropContact, SyncCount,
         SyncWrite, MarkContact, ListFiles, Die
  <2>5. req' = [req EXCEPT ![r] = req'[r]]
    BY <2>1 DEF GoesOn
  <2>6. QED
    BY <2>1, <2>3, <2>4, <2>5, QuietFiles
<1>2. ASSUME NEW r \in Requests, Begins(r), UNCHANGED files
      PROVE  RowsHaveObjects' /\ FilesInHand'
  <2>1. req'[r].step \notin FileSteps
    BY <1>2 DEF Begins, Request, Op, First, FileSteps
  <2>2. QED
    BY <1>2, <2>1, QuietFiles DEF Begins
<1>3. ASSUME UNCHANGED <<req, files>> PROVE RowsHaveObjects' /\ FilesInHand'
  BY <1>3 DEF files, RowsHaveObjects, FilesInHand, Inserting, At, On, Serving
<1>4. ASSUME NEW r \in Requests, OnFiles(r) \/ Remove(r)
      PROVE  RowsHaveObjects' /\ FilesInHand'
  <2>1. ListFiles(r) => ~Remove(r)
    BY DEF ListFiles, Remove, At
  <2>2. QED
    BY <1>1, <1>4, <2>1, PutInv, CountInv, CommitInv, FindInv, TakeInv DEF OnFiles
<1>5. CASE \E r \in Requests, op \in Op, k \in Opened : Load(r, op, k)
  BY <1>2, <1>5, LoadBegins, DeskAssumption DEF Load
<1>6. CASE \E r \in Requests, k \in Campaigns, from \in SUBSET (Campaigns \X Emails) :
             FollowUp(r, k, from)
  BY <1>2, <1>3, <1>6, FollowUpBegins DEF FollowUp
<1>7. CASE \/ \E k \in Opened : Create(k)
           \/ \E k \in Campaigns : WorkerStarts(k) \/ WorkerEnds(k)
           \/ \E k \in Campaigns, e \in Emails : WorkerSends(k, e)
  BY <1>3, <1>7 DEF Create, WorkerStarts, WorkerEnds, WorkerSends
<1>8. CASE \E r \in Requests : OnCampaign(r) \/ OnContacts(r) \/ OnFiles(r) \/ Die(r)
  BY <1>1, <1>4, <1>8
<1>9. QED
  BY <1>5, <1>6, <1>7, <1>8 DEF Next

LEMMA TypeKept ==
  ASSUME TypeOK, Phases, Next
  PROVE  TypeOK'
<1>1. CASE \E r \in Requests : OnCampaign(r) \/ OnContacts(r) \/ OnFiles(r) \/ Die(r)
  BY <1>1, RequestType
<1>2. CASE \E r \in Requests, k \in Campaigns, from \in SUBSET (Campaigns \X Emails) :
             FollowUp(r, k, from)
  BY <1>2, FollowUpType
<1>3. QED
  BY <1>1, <1>2, OtherType, DeskAssumption DEF Next

\* The invariant holds at first, and every step keeps it.
LEMMA InitInv == Init => DeskInv
<1> SUFFICES ASSUME Init PROVE DeskInv
  OBVIOUS
<1>1. TypeOK
  BY DeskAssumption DEF Init, TypeOK
<1>2. \A r \in Requests : ~Serving(r)
  BY DEF Init, Serving, Idle
<1>3. Phases /\ FilesInHand
  BY <1>2 DEF Phases, FilesInHand, Inserting, At
<1>4. RowsHaveObjects
  BY DEF Init, RowsHaveObjects
<1>5. QED
  BY <1>1, <1>3, <1>4 DEF DeskInv

LEMMA Inductive == DeskInv /\ [Next]_vars => DeskInv'
<1> SUFFICES ASSUME DeskInv, [Next]_vars PROVE DeskInv'
  OBVIOUS
<1>1. CASE UNCHANGED vars
  BY <1>1 DEF vars, message, files, people, DeskInv, TypeOK, Phases, RowsHaveObjects,
       FilesInHand, Inserting, At, On, Serving
<1>2. CASE Next
  <2>1. TypeOK'
    BY <1>2, TypeKept DEF DeskInv
  <2>2. QED
    BY <1>2, <2>1, PhasesKept, FilesKept DEF DeskInv
<1>3. QED
  BY <1>1, <1>2

\* However uploads, refusals, removals, deletions and failures overlap, a listed
\* file has its object and belongs to one campaign (routes/attachment.ts:133).
THEOREM FilesAreKept == Spec => []DeskInv
BY InitInv, Inductive, PTL DEF Spec

-----------------------------------------------------------------------------
(* What a step may never do.                                               *)

\* Every move of a status is one of campaignState.ts, a creation or a deletion.
LEMMA Legal == ASSUME DeskInv, Next PROVE LegalStep
<1> USE DEF DeskInv, message, files, people
<1>1. ASSUME NEW r \in Requests, MakeMove(r) PROVE LegalStep
  <2>1. On(r) \in Campaigns /\ req[r].op \in {"start", "pause", "resume"}
    BY <1>1, Here DEF MakeMove, At, Phases
  <2> DEFINE m == Move[req[r].op]
  <2>2. \/ m.from = {"draft"} /\ m.to = "scheduled"
        \/ m.from = {"scheduled", "running"} /\ m.to = "paused"
        \/ m.from = {"paused"} /\ m.to = "running"
    BY <2>1 DEF Move
  <2>3. campaign' = campaign \/ (campaign[On(r)] \in m.from /\ campaign' = [campaign EXCEPT ![On(r)] = m.to])
    BY <1>1 DEF MakeMove, Transition
  <2> HIDE DEF m
  <2>4. QED
    BY <2>1, <2>2, <2>3 DEF LegalStep, TypeOK, Live, Status, Allowed
<1>2. ASSUME NEW r \in Requests, Remove(r) PROVE LegalStep
  <2>1. On(r) \in Campaigns /\ campaign[On(r)] # "absent"
    BY <1>2, Here DEF Remove, At, Phases
  <2>2. QED
    BY <1>2, <2>1 DEF Remove, LegalStep, TypeOK, Live
<1>3. ASSUME UNCHANGED campaign PROVE LegalStep
  BY <1>3 DEF LegalStep
<1>4. ASSUME NEW k \in Campaigns, campaign[k] = "absent", campaign' = [campaign EXCEPT ![k] = "draft"]
      PROVE  LegalStep
  BY <1>4 DEF LegalStep, TypeOK
<1>5. ASSUME NEW k \in Campaigns, WorkerStarts(k) \/ WorkerEnds(k) PROVE LegalStep
  BY <1>5 DEF WorkerStarts, WorkerEnds, LegalStep, TypeOK, Live, Status, Allowed
<1>6. CASE \E r \in Requests : OnCampaign(r) \/ OnContacts(r) \/ OnFiles(r) \/ Die(r)
  <2>1. PICK r \in Requests : OnCampaign(r) \/ OnContacts(r) \/ OnFiles(r) \/ Die(r)
    BY <1>6
  <2>2. MakeMove(r) \/ Remove(r) \/ UNCHANGED campaign
    BY <2>1 DEF OnCampaign, UpdateText, UpdatePace, StartCounts, StartSchedules,
         OnContacts, ReadExisting, InsertMany, CommitMany, InsertOne, DropContact, SyncCount,
         SyncWrite, MarkContact, OnFiles, ListFiles, PutFile, CountFiles, CommitFile,
         FindFile, RemoveFile, DeleteObject, Die
  <2>3. QED
    BY <1>1, <1>2, <1>3, <2>2
<1>7. QED
  BY <1>3, <1>4, <1>5, <1>6, DeskAssumption DEF Next, Load, Create, FollowUp, WorkerSends

\* A request that is not late for campaign k writes nothing of its message, adds
\* no address, and takes no file but by deleting it.
LEMMA Frozen == ASSUME DeskInv, Next PROVE FrozenStep
<1> SUFFICES ASSUME NEW k \in Live, campaign[k] # "draft", ~Late(k)
             PROVE  /\ text'[k] = text[k]
                    /\ {e \in Emails : contact'[k][e] # "absent"} \subseteq Rows(k)
                    /\ fileRow'[k] = fileRow[k] \/ campaign'[k] = "gone"
  BY DEF FrozenStep
<1> USE DEF DeskInv, message, files, people
<1>1. k \in Campaigns /\ campaign[k] # "absent"
  BY DEF Live, Status
<1>2. ASSUME NEW r \in Requests, Serving(r), On(r) = k
      PROVE  req[r].step \notin DraftSteps
  BY <1>2 DEF Phases, Late, Serving, On
<1> DEFINE TextKept == text'[k] = text[k]
           ListKept == {e \in Emails : contact'[k][e] # "absent"} \subseteq Rows(k)
           FileKept == fileRow'[k] = fileRow[k] \/ campaign'[k] = "gone"
<1>3. ASSUME contact'[k] = contact[k] PROVE ListKept
  BY <1>3 DEF Rows
<1>4. CASE \E r \in Requests : OnCampaign(r) \/ OnContacts(r) \/ OnFiles(r) \/ Die(r)
  <2>1. PICK r \in Requests : OnCampaign(r) \/ OnContacts(r) \/ OnFiles(r) \/ Die(r)
    BY <1>4
  <2>2. Serving(r) /\ On(r) \in Campaigns
    BY <2>1, CampaignGoesOn, ContactsGoesOn, FilesGoesOn, Here
  <2>3. TextKept
    <3>1. CASE UpdateText(r)
      <4>1. On(r) # k
        BY <1>2, <2>2, <3>1 DEF UpdateText, At, DraftSteps
      <4>2. QED
        BY <1>1, <2>2, <3>1, <4>1 DEF UpdateText, TypeOK
    <3>2. QED
      BY <2>1, <3>1 DEF OnCampaign, UpdatePace, StartCounts, StartSchedules, MakeMove, Remove,
         OnContacts, ReadExisting, InsertMany, CommitMany, InsertOne, DropContact, SyncCount,
         SyncWrite, MarkContact, OnFiles, ListFiles, PutFile, CountFiles, CommitFile,
         FindFile, RemoveFile, DeleteObject, Die
  <2>4. ListKept
    <3>1. CASE CommitMany(r) \/ InsertOne(r)
      <4>1. On(r) # k
        BY <1>2, <2>2, <3>1 DEF CommitMany, InsertOne, At, DraftSteps
      <4>2. PICK S : Insert(On(r), S)
        BY <3>1 DEF CommitMany, InsertOne
      <4>3. contact'[k] = contact[k]
        BY <1>1, <2>2, <4>1, <4>2 DEF Insert, TypeOK
      <4>4. QED
        BY <1>3, <4>3
    <3>2. CASE DropContact(r) \/ MarkContact(r)
      <4>1. PICK e \in Emails, t \in {"absent", "pending", "ignored"} :
              \/ contact' = contact
              \/ /\ contact' = [contact EXCEPT ![On(r)] = [contact[On(r)] EXCEPT ![e] = t]]
                 /\ t = "absent" \/ e \in Rows(On(r))
        BY <3>2 DEF DropContact, MarkContact
      <4>2. contact[On(r)] \in [Emails -> ContactStatus \cup {"absent"}]
        BY <2>2 DEF TypeOK
      <4>3. \A d \in Emails : contact'[k][d] # "absent" => contact[k][d] # "absent"
        BY <1>1, <2>2, <4>1, <4>2 DEF TypeOK, Rows
      <4>4. QED
        BY <4>3 DEF Rows
    <3>3. CASE Remove(r)
      <4>1. \A d \in Emails : contact'[k][d] # "absent" => contact[k][d] # "absent"
        BY <1>1, <2>2, <3>3 DEF Remove, TypeOK
      <4>2. QED
        BY <4>1 DEF Rows
    <3>4. CASE UNCHANGED contact
      BY <1>3, <3>4
    <3>5. QED
      BY <2>1, <3>1, <3>2, <3>3, <3>4 DEF OnCampaign, UpdateText, UpdatePace, StartCounts,
         StartSchedules, MakeMove, OnContacts, ReadExisting, InsertMany, SyncCount, SyncWrite,
         OnFiles, ListFiles, PutFile, CountFiles, CommitFile, FindFile, RemoveFile,
         DeleteObject, Die
  <2>5. FileKept
    <3>1. CASE CommitFile(r) \/ RemoveFile(r)
      <4>1. On(r) # k
        BY <1>2, <2>2, <3>1 DEF CommitFile, RemoveFile, At, DraftSteps
      <4>2. QED
        BY <1>1, <2>2, <3>1, <4>1 DEF CommitFile, RemoveFile, TypeOK
    <3>2. CASE Remove(r)
      BY <1>1, <2>2, <3>2 DEF Remove, TypeOK
    <3>3. QED
      BY <2>1, <3>1, <3>2 DEF OnCampaign, UpdateText, UpdatePace, StartCounts, StartSchedules,
         MakeMove, OnContacts, ReadExisting, InsertMany, CommitMany, InsertOne, DropContact,
         SyncCount, SyncWrite, MarkContact, OnFiles, ListFiles, PutFile, CountFiles,
         FindFile, DeleteObject, Die
  <2>6. QED
    BY <2>3, <2>4, <2>5
<1>5. CASE \E j \in Campaigns, e \in Emails : WorkerSends(j, e)
  <2>1. PICK j \in Campaigns, e \in Emails, t \in ContactStatus :
          /\ contact' = [contact EXCEPT ![j] = [contact[j] EXCEPT ![e] = t]]
          /\ contact[j][e] = "pending" /\ UNCHANGED <<text, fileRow>>
    BY <1>5 DEF WorkerSends, ContactStatus
  <2>2. contact[j] \in [Emails -> ContactStatus \cup {"absent"}]
    BY DEF TypeOK
  <2>3. \A d \in Emails : contact'[k][d] # "absent" => contact[k][d] # "absent"
    BY <1>1, <2>1, <2>2 DEF TypeOK
  <2>4. QED
    BY <2>1, <2>3 DEF Rows
<1>6. CASE \/ \E j \in Opened : Create(j)
           \/ \E r \in Requests, j \in Campaigns, from \in SUBSET (Campaigns \X Emails) :
                FollowUp(r, j, from)
  <2>1. text'[k] = text[k] /\ contact'[k] = contact[k] /\ fileRow'[k] = fileRow[k]
    BY <1>1, <1>6, DeskAssumption DEF Create, FollowUp, TypeOK
  <2>2. QED
    BY <1>3, <2>1
<1>7. CASE UNCHANGED <<text, contact, fileRow>>
  BY <1>3, <1>7
<1>8. QED
  BY <1>4, <1>5, <1>6, <1>7 DEF Next, Load, WorkerStarts, WorkerEnds

\* A campaign moves along its graph, and past its launch what it sends changes
\* only by requests that met it as a draft (campaignState.ts,
\* routes/campaigns.ts:170).
THEOREM MovesAreLegal == Spec => DeskKeeps
<1>1. DeskInv /\ [Next]_vars => [LegalStep]_vars /\ [FrozenStep]_vars
  BY Legal, Frozen
<1>2. QED
  BY <1>1, FilesAreKept, PTL DEF Spec, DeskKeeps, LegalMoves, FrozenOnceDrained

-----------------------------------------------------------------------------
(* The cap on the files of a campaign.                                     *)

\* The uploads that counted the files of a campaign, and have not written theirs.
Counted(k) == {r \in Requests : At(r, "commitFile") /\ On(r) = k}

\* A campaign's files and the uploads that counted them stay below what the cap
\* and every request at once could make.
CapMargin ==
  \A k \in Campaigns :
    Cardinality(fileRow[k]) + Cardinality(Counted(k)) < MaxAttachments + Cardinality(Requests)

\* A request holds one file at most.
OneEach == \A r \in Requests : Serving(r) => \E f : req[r].file \subseteq {f}

LEMMA Sizes ==
  ASSUME TypeOK, NEW k \in Campaigns
  PROVE  /\ IsFiniteSet(fileRow[k]) /\ IsFiniteSet(Counted(k))
         /\ Cardinality(fileRow[k]) \in Nat /\ Cardinality(Counted(k)) \in Nat
         /\ Cardinality(Requests) \in Nat /\ Cardinality(Counted(k)) <= Cardinality(Requests)
<1>1. fileRow[k] \subseteq Files /\ Counted(k) \subseteq Requests
  BY DEF TypeOK, Counted
<1>2. QED
  BY <1>1, DeskAssumption, FS_Subset, FS_CardinalityType

\* Fewer files and fewer uploads under way leave the margin as it is.
LEMMA MarginShrinks ==
  ASSUME TypeOK, TypeOK', NEW k \in Campaigns,
         fileRow'[k] \subseteq fileRow[k], Counted(k)' \subseteq Counted(k)
  PROVE  Cardinality(fileRow'[k]) + Cardinality(Counted(k)') <=
           Cardinality(fileRow[k]) + Cardinality(Counted(k))
<1>1. /\ IsFiniteSet(fileRow[k]) /\ IsFiniteSet(Counted(k))
      /\ Cardinality(fileRow[k]) \in Nat /\ Cardinality(Counted(k)) \in Nat
  BY Sizes
<1>2. /\ Cardinality(fileRow'[k]) <= Cardinality(fileRow[k])
      /\ Cardinality(Counted(k)') <= Cardinality(Counted(k))
  BY <1>1, FS_Subset
<1>3. Cardinality(fileRow'[k]) \in Nat /\ Cardinality(Counted(k)') \in Nat
  BY <1>1, FS_Subset, FS_CardinalityType
<1>4. QED
  BY <1>1, <1>2, <1>3

\* Every step but the count and the write of an upload: one request acts, none
\* comes to count, and no campaign gets a file.
LEMMA NoneCounts ==
  ASSUME DeskInv, Next, \A r \in Requests : ~CountFiles(r) /\ ~CommitFile(r)
  PROVE  \A k \in Campaigns : fileRow'[k] \subseteq fileRow[k] /\ Counted(k)' \subseteq Counted(k)
<1> USE DEF DeskInv
<1>1. ASSUME NEW r \in Requests, req' = [req EXCEPT ![r] = req'[r]],
             req'[r] = Idle \/ req'[r].step # "commitFile"
      PROVE  \A k \in Campaigns : Counted(k)' \subseteq Counted(k)
  <2>1. \A p \in Requests \ {r} : req'[p] = req[p]
    BY <1>1 DEF TypeOK
  <2>2. ~At(r, "commitFile")'
    BY <1>1 DEF At, Serving, Idle
  <2>3. QED
    BY <2>1, <2>2 DEF Counted, At, Serving, On
<1>2. ASSUME UNCHANGED req PROVE \A k \in Campaigns : Counted(k)' \subseteq Counted(k)
  BY <1>2 DEF Counted, At, Serving, On
<1>3. ASSUME NEW r \in Requests, Begins(r)
      PROVE  \A k \in Campaigns : Counted(k)' \subseteq Counted(k)
  <2>1. req'[r].step # "commitFile"
    BY <1>3 DEF Begins, Request, Op, First
  <2>2. QED
    BY <1>1, <1>3, <2>1 DEF Begins
<1>4. CASE \E r \in Requests : OnCampaign(r) \/ OnContacts(r) \/ OnFiles(r) \/ Die(r)
  <2>1. PICK r \in Requests : OnCampaign(r) \/ OnContacts(r) \/ OnFiles(r) \/ Die(r)
    BY <1>4
  <2>2. GoesOn(r)
    BY <2>1, CampaignGoesOn, ContactsGoesOn, FilesGoesOn
  <2>3. req'[r] = Idle \/ req[r].step # "insertFile"
    <3>1. CASE Die(r)
      BY <3>1, NextEnd DEF Die
    <3>2. QED
      BY <2>1, <3>1 DEF OnCampaign, UpdateText, UpdatePace, StartCounts, StartSchedules,
         MakeMove, Remove, OnContacts, ReadExisting, InsertMany, CommitMany, InsertOne,
         DropContact, SyncCount, SyncWrite, MarkContact, OnFiles, ListFiles, PutFile,
         FindFile, RemoveFile, DeleteObject, At
  <2>4. req'[r] = Idle \/ req'[r].step # "commitFile"
    BY <2>2, <2>3 DEF GoesOn, Follows
  <2>5. \A k \in Campaigns : fileRow'[k] \subseteq fileRow[k]
    <3>1. CASE OnCampaign(r) \/ OnContacts(r) \/ Die(r)
      BY <3>1 DEF OnCampaign, UpdateText, UpdatePace, StartCounts, StartSchedules, MakeMove,
         Remove, OnContacts, ReadExisting, InsertMany, CommitMany, InsertOne, DropContact,
         SyncCount, SyncWrite, MarkContact, Die, files, TypeOK
    <3>2. CASE OnFiles(r)
      BY <3>2 DEF OnFiles, ListFiles, PutFile, FindFile, RemoveFile, DeleteObject, files, TypeOK
    <3>3. QED
      BY <2>1, <3>1, <3>2
  <2>6. QED
    BY <1>1, <2>2, <2>4, <2>5 DEF GoesOn
<1>5. CASE \E r \in Requests, op \in Op, k \in Opened : Load(r, op, k)
  BY <1>3, <1>5, LoadBegins, DeskAssumption DEF Load, files
<1>6. CASE \E r \in Requests, k \in Campaigns, from \in SUBSET (Campaigns \X Emails) :
             FollowUp(r, k, from)
  BY <1>2, <1>3, <1>6, FollowUpBegins DEF FollowUp, files
<1>7. CASE \/ \E k \in Opened : Create(k)
           \/ \E k \in Campaigns : WorkerStarts(k) \/ WorkerEnds(k)
           \/ \E k \in Campaigns, e \in Emails : WorkerSends(k, e)
  BY <1>2, <1>7 DEF Create, WorkerStarts, WorkerEnds, WorkerSends, files
<1>8. QED
  BY <1>4, <1>5, <1>6, <1>7 DEF Next

LEMMA OneEachStep ==
  ASSUME DeskInv, OneEach, Next
  PROVE  OneEach'
<1> USE DEF DeskInv
<1>1. ASSUME NEW r \in Requests, req' = [req EXCEPT ![r] = req'[r]],
             \/ req'[r] = Idle
             \/ \E f : req'[r].file \subseteq {f}
             \/ Serving(r) /\ req'[r].file = req[r].file
      PROVE  OneEach'
  <2>1. \A p \in Requests \ {r} : req'[p] = req[p]
    BY <1>1 DEF TypeOK
  <2>2. Serving(r)' => \E f : req'[r].file \subseteq {f}
    BY <1>1 DEF OneEach, Serving, Idle
  <2>3. QED
    BY <2>1, <2>2 DEF OneEach, Serving
<1>2. ASSUME UNCHANGED req PROVE OneEach'
  BY <1>2 DEF OneEach, Serving
<1>3. ASSUME NEW r \in Requests, Begins(r) PROVE OneEach'
  BY <1>1, <1>3 DEF Begins
<1>4. CASE \E r \in Requests : OnCampaign(r) \/ OnContacts(r) \/ OnFiles(r) \/ Die(r)
  <2>1. PICK r \in Requests : OnCampaign(r) \/ OnContacts(r) \/ OnFiles(r) \/ Die(r)
    BY <1>4
  <2>2. /\ GoesOn(r) /\ Serving(r)
        /\ req'[r] = Idle \/ req'[r].file = req[r].file \/ \E f : req'[r].file = {f}
    BY <2>1, CampaignGoesOn, ContactsGoesOn, FilesGoesOn
  <2>3. QED
    BY <1>1, <2>2 DEF GoesOn
<1>5. CASE \E r \in Requests, op \in Op, k \in Opened : Load(r, op, k)
  BY <1>3, <1>5, LoadBegins, DeskAssumption
<1>6. CASE \E r \in Requests, k \in Campaigns, from \in SUBSET (Campaigns \X Emails) :
             FollowUp(r, k, from)
  BY <1>2, <1>3, <1>6, FollowUpBegins
<1>7. CASE \/ \E k \in Opened : Create(k)
           \/ \E k \in Campaigns : WorkerStarts(k) \/ WorkerEnds(k)
           \/ \E k \in Campaigns, e \in Emails : WorkerSends(k, e)
  BY <1>2, <1>7 DEF Create, WorkerStarts, WorkerEnds, WorkerSends
<1>8. QED
  BY <1>4, <1>5, <1>6, <1>7 DEF Next

\* An upload that counts finds room for its file, which leaves room for one of
\* every request.
LEMMA CountMargin ==
  ASSUME DeskInv, CapMargin, Next, NEW r \in Requests, CountFiles(r)
  PROVE  CapMargin'
<1> USE DEF DeskInv
<1>1. TypeOK'
  BY TypeKept
<1>2. UNCHANGED fileRow /\ req[r].step = "insertFile" /\ MaxAttachments \in Nat
  BY DeskAssumption DEF CountFiles, files, At
<1>3. \A p \in Requests \ {r} : req'[p] = req[p]
  BY FilesGoesOn DEF OnFiles, GoesOn, TypeOK
<1>4. req'[r].k = req[r].k
  <2>1. GoesOn(r) /\ req'[r] # Idle
    <3>1. PICK s \in {"commitFile", "deleteObject"} : Goto(r, s)
      BY DEF CountFiles
    <3>2. <<req[r].step, s>> \in Follows /\ Serving(r) /\ s \in Steps
      BY DEF CountFiles, Follows, Steps, At
    <3>3. QED
      BY <3>1, <3>2, Next1
  <2>2. QED
    BY <2>1 DEF GoesOn
<1>5. ASSUME NEW k \in Campaigns
      PROVE  Cardinality(fileRow'[k]) + Cardinality(Counted(k)') <
               MaxAttachments + Cardinality(Requests)
  <2>1. /\ Cardinality(fileRow[k]) \in Nat /\ Cardinality(Requests) \in Nat
        /\ Cardinality(Counted(k)') \in Nat /\ Cardinality(Counted(k)') <= Cardinality(Requests)
    <3>1. Counted(k)' \subseteq Requests
      BY DEF Counted
    <3>2. QED
      BY <3>1, Sizes, DeskAssumption, FS_Subset, FS_CardinalityType
  <2>2. CASE k = On(r) /\ Cardinality(fileRow[k]) < MaxAttachments
    BY <1>2, <2>1, <2>2
  <2>3. CASE ~(k = On(r) /\ Cardinality(fileRow[k]) < MaxAttachments)
    <3>1. ~(r \in Counted(k)')
      <4>1. CASE k # On(r)
        BY <1>4, <4>1 DEF Counted, On
      <4>2. CASE k = On(r)
        <5>1. Goto(r, "deleteObject")
          BY <2>3, <4>2 DEF CountFiles
        <5>2. req'[r].step = "deleteObject"
          BY <5>1, Next1 DEF Follows, Steps, CountFiles, At
        <5>3. QED
          BY <5>2 DEF Counted, At
      <4>3. QED
        BY <4>1, <4>2
    <3>2. Counted(k)' \subseteq Counted(k)
      BY <1>3, <3>1 DEF Counted, At, Serving, On
    <3>3. /\ Cardinality(fileRow'[k]) + Cardinality(Counted(k)') <=
               Cardinality(fileRow[k]) + Cardinality(Counted(k))
          /\ Cardinality(Counted(k)) \in Nat
      BY <1>1, <1>2, <3>2, MarginShrinks, Sizes
    <3>4. QED
      BY <1>2, <2>1, <3>3 DEF CapMargin
  <2>4. QED
    BY <2>2, <2>3
<1>6. QED
  BY <1>5 DEF CapMargin

\* An upload that writes its file ends: what it adds to the files it takes from
\* those that counted.
LEMMA CommitMargin ==
  ASSUME DeskInv, OneEach, CapMargin, Next, NEW r \in Requests, CommitFile(r)
  PROVE  CapMargin'
<1> USE DEF DeskInv
<1>1. TypeOK' /\ MaxAttachments \in Nat
  BY TypeKept, DeskAssumption
<1>2. req'[r] = Idle /\ \A p \in Requests \ {r} : req'[p] = req[p]
  BY DEF CommitFile, End, TypeOK
<1>3. \A k \in Campaigns : Counted(k)' = Counted(k) \ {r}
  BY <1>2 DEF Counted, At, Serving, On, Idle
<1>4. ASSUME NEW k \in Campaigns
      PROVE  Cardinality(fileRow'[k]) + Cardinality(Counted(k)') <
               MaxAttachments + Cardinality(Requests)
  <2>1. /\ IsFiniteSet(fileRow[k]) /\ IsFiniteSet(Counted(k))
        /\ Cardinality(fileRow[k]) \in Nat /\ Cardinality(Counted(k)) \in Nat
        /\ Cardinality(Requests) \in Nat
    BY Sizes
  <2>2. CASE k = On(r)
    <3>1. PICK f : req[r].file \subseteq {f}
      BY DEF OneEach, CommitFile, At
    <3>2. fileRow'[k] \subseteq fileRow[k] \cup {f}
      BY <2>2, <3>1 DEF CommitFile, TypeOK
    <3>3. r \in Counted(k)
      BY <2>2 DEF Counted, CommitFile
    <3>4. Cardinality(Counted(k)') = Cardinality(Counted(k)) - 1
      BY <1>3, <2>1, <3>3, FS_RemoveElement
    <3>5. /\ IsFiniteSet(fileRow[k] \cup {f})
          /\ Cardinality(fileRow[k] \cup {f}) \in Nat
          /\ Cardinality(fileRow[k] \cup {f}) <= Cardinality(fileRow[k]) + 1
      <4>1. /\ IsFiniteSet(fileRow[k] \cup {f})
            /\ \/ Cardinality(fileRow[k] \cup {f}) = Cardinality(fileRow[k])
               \/ Cardinality(fileRow[k] \cup {f}) = Cardinality(fileRow[k]) + 1
        BY <2>1, FS_AddElement
      <4>2. QED
        BY <2>1, <4>1
    <3>6. Cardinality(fileRow'[k]) \in Nat /\ Cardinality(fileRow'[k]) <= Cardinality(fileRow[k]) + 1
      BY <2>1, <3>2, <3>5, FS_Subset, FS_CardinalityType
    <3>7. QED
      BY <1>1, <2>1, <3>4, <3>6 DEF CapMargin
  <2>3. CASE k # On(r)
    <3>1. fileRow'[k] = fileRow[k]
      BY <2>3 DEF CommitFile, TypeOK
    <3>2. Counted(k)' = Counted(k)
      BY <1>3, <2>3 DEF Counted
    <3>3. QED
      BY <3>1, <3>2 DEF CapMargin
  <2>4. QED
    BY <2>2, <2>3
<1>5. QED
  BY <1>4 DEF CapMargin

LEMMA MarginStep == DeskInv /\ OneEach /\ CapMargin /\ [Next]_vars => CapMargin'
<1> SUFFICES ASSUME DeskInv, OneEach, CapMargin, [Next]_vars PROVE CapMargin'
  OBVIOUS
<1>1. CASE UNCHANGED vars
  BY <1>1 DEF vars, CapMargin, Counted, At, Serving, On
<1>2. CASE Next /\ \A r \in Requests : ~CountFiles(r) /\ ~CommitFile(r)
  <2>1. TypeOK /\ TypeOK' /\ MaxAttachments \in Nat
    BY <1>2, TypeKept, DeskAssumption DEF DeskInv
  <2>2. ASSUME NEW k \in Campaigns
        PROVE  Cardinality(fileRow'[k]) + Cardinality(Counted(k)') <
                 MaxAttachments + Cardinality(Requests)
    <3>1. fileRow'[k] \subseteq fileRow[k] /\ Counted(k)' \subseteq Counted(k)
      BY <1>2, NoneCounts
    <3>2. /\ Cardinality(fileRow'[k]) + Cardinality(Counted(k)') <=
               Cardinality(fileRow[k]) + Cardinality(Counted(k))
          /\ Cardinality(fileRow[k]) \in Nat /\ Cardinality(Counted(k)) \in Nat
          /\ Cardinality(Requests) \in Nat
      BY <2>1, <3>1, MarginShrinks, Sizes
    <3>3. Cardinality(fileRow'[k]) \in Nat /\ Cardinality(Counted(k)') \in Nat
      BY <2>1, <3>1, Sizes, FS_Subset, FS_CardinalityType
    <3>4. QED
      BY <2>1, <3>2, <3>3 DEF CapMargin
  <2>3. QED
    BY <2>2 DEF CapMargin
<1>3. CASE Next /\ ~(\A r \in Requests : ~CountFiles(r) /\ ~CommitFile(r))
  BY <1>3, CountMargin, CommitMargin
<1>4. QED
  BY <1>1, <1>2, <1>3

\* The uploads under way at once may pass the cap of a campaign, each having counted
\* before the others wrote, by one file for each but one (services/campaigns.ts:293).
THEOREM CapNearlyHolds ==
  ASSUME Requests # {}
  PROVE  Spec => [](\A k \in Campaigns :
                      Cardinality(fileRow[k]) < MaxAttachments + Cardinality(Requests))
<1>1. Init => CapMargin /\ OneEach
  <2> SUFFICES ASSUME Init PROVE CapMargin /\ OneEach
    OBVIOUS
  <2>1. OneEach
    BY DEF Init, OneEach, Serving, Idle
  <2>2. \A k \in Campaigns : fileRow[k] = {} /\ Counted(k) = {}
    BY DEF Init, Counted, At, Serving, Idle
  <2>3. Cardinality(Requests) \in Nat \ {0} /\ MaxAttachments \in Nat
    BY DeskAssumption, FS_CardinalityType, FS_EmptySet
  <2>4. QED
    BY <2>1, <2>2, <2>3, FS_EmptySet DEF CapMargin
<1>2. DeskInv /\ OneEach /\ [Next]_vars => OneEach'
  <2>1. UNCHANGED vars /\ OneEach => OneEach'
    BY DEF vars, OneEach, Serving
  <2>2. QED
    BY <2>1, OneEachStep
<1>3. DeskInv /\ OneEach /\ CapMargin /\ [Next]_vars => CapMargin'
  BY MarginStep
<1>4. DeskInv /\ CapMargin =>
        \A k \in Campaigns : Cardinality(fileRow[k]) < MaxAttachments + Cardinality(Requests)
  <2> SUFFICES ASSUME DeskInv, CapMargin, NEW k \in Campaigns
               PROVE  Cardinality(fileRow[k]) < MaxAttachments + Cardinality(Requests)
    OBVIOUS
  <2>1. /\ Cardinality(fileRow[k]) \in Nat /\ Cardinality(Counted(k)) \in Nat
        /\ Cardinality(Requests) \in Nat /\ MaxAttachments \in Nat
    BY Sizes, DeskAssumption DEF DeskInv
  <2>2. QED
    BY <2>1 DEF CapMargin
<1>5. QED
  BY <1>1, <1>2, <1>3, <1>4, FilesAreKept, PTL DEF Spec

\* Served one at a time, the uploads of a campaign keep its cap: only two at once
\* pass it (services/campaigns.ts:293).
THEOREM CapHoldsAlone ==
  ASSUME NEW r, Requests = {r}
  PROVE  Spec => []CapHolds
<1>1. Requests # {} /\ Cardinality(Requests) = 1 /\ MaxAttachments \in Nat
  BY FS_Singleton, DeskAssumption
<1>2. DeskInv /\ (\A k \in Campaigns :
                    Cardinality(fileRow[k]) < MaxAttachments + Cardinality(Requests)) => CapHolds
  BY <1>1, Sizes DEF CapHolds, DeskInv
<1>3. Spec => [](\A k \in Campaigns :
                   Cardinality(fileRow[k]) < MaxAttachments + Cardinality(Requests))
  BY <1>1, CapNearlyHolds
<1>4. QED
  BY <1>2, <1>3, FilesAreKept, PTL
=============================================================================

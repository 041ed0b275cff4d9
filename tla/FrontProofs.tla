---------------------------- MODULE FrontProofs ----------------------------
(***************************************************************************)
(* The pages of the front end are safe for every number of versions,       *)
(* files, slices, contacts, campaigns, tokens, clicks and faults: the      *)
(* editor, the import dialog, the lists of contacts and what is done with  *)
(* a selection of them, the send log and its follow-ups, the dashboard and *)
(* the split of the allowance it advises, and the session.                 *)
(***************************************************************************)
EXTENDS Front, FiniteSetTheorems, FunctionTheorems, TLAPS

-----------------------------------------------------------------------------
(* The editor of a campaign: a message marked as saved is one that the API *)
(* has had.  The answers on their way carry messages it has had, and a save *)
(* whose draft nothing touched since carries the message on screen.        *)

Shows == Ed!Snapshot \cup {Loading, Missing, Unloaded, Left}

LEMMA EditorConstants ==
  /\ MaxTyped \in Nat /\ MaxFiles \in Nat \ {0}
  /\ None \notin Ed!Snapshot /\ Left \notin Ed!Snapshot
  /\ Left \notin {Loading, Missing, Unloaded}
BY FrontAssumption, MarksAssumption

\* The page starts with nothing under way but its own reading of the campaign.
LEMMA EditorStarts ==
  ASSUME Ed!Init PROVE Ed!EditorInv
<1>1. Ed!TypeOK
  <2>1. 0 \in 0..MaxTyped
    BY EditorConstants
  <2>2. server \in Ed!Snapshot
    BY <2>1 DEF Ed!Init, Ed!Snapshot, Ed!Statuses, Ed!Paces
  <2> QED
    BY <2>1, <2>2 DEF Ed!Init, Ed!TypeOK
<1>2. \A p \in Ed!Places : Ed!AnswerIsHeld(p)
  BY DEF Ed!Init, Ed!AnswerIsHeld, Ed!Places, Ed!Idle, Ed!CallOK, Ed!OpsAt, Ed!ArgsOf,
         Ed!Answered
<1> QED
  BY <1>1, <1>2 DEF Ed!Init, Ed!EditorInv, Ed!AnswersAreHeld, Ed!SaveIsOfText, Ed!Places,
                    Ed!Idle

\* What the page shows next, and the panels that go with it.
LEMMA PutIsTyped ==
  ASSUME Ed!TypeOK, NEW l \in Shows, Ed!Put(l)
  PROVE  /\ load' = l
         /\ pace' \in Ed!Paces \cup {None} /\ armed' \in BOOLEAN
         /\ modal' \in {"none", "launch", "people", "delete"}
<1>1. load' = l /\ armed' \in BOOLEAN /\ modal' \in {"none", "launch", "people", "delete"}
  BY DEF Ed!Put, Ed!TypeOK
<1>2. pace' \in Ed!Paces \cup {None}
  BY DEF Ed!Put, Ed!TypeOK, Ed!PanelFor, Ed!Snapshot
<1> QED
  BY <1>1, <1>2

\* An answer read leaves its place free.
LEMMA ReadKeepsAnswers ==
  ASSUME Ed!AnswersAreHeld, NEW p \in Ed!Places, net' = [net EXCEPT ![p] = None],
         UNCHANGED <<server, held>>
  PROVE  Ed!AnswersAreHeld'
<1>1. ASSUME NEW q \in Ed!Places PROVE Ed!AnswerIsHeld(q)'
  <2>1. CASE q = p
    BY <2>1 DEF Ed!AnswersAreHeld, Ed!AnswerIsHeld, Ed!Idle
  <2>2. CASE q # p
    BY <2>2 DEF Ed!AnswersAreHeld, Ed!AnswerIsHeld, Ed!Idle, Ed!CallOK, Ed!Answered, Ed!Ok,
                Ed!Answer
  <2> QED
    BY <2>1, <2>2
<1> QED
  BY <1>1 DEF Ed!AnswersAreHeld

\* A call asked carries no answer yet.
LEMMA AskKeepsAnswers ==
  ASSUME Ed!AnswersAreHeld, NEW p \in Ed!Places, NEW op \in Ed!OpsAt(p),
         NEW arg \in Ed!ArgsOf(op), net' = Ed!Ask(p, op, arg), UNCHANGED <<server, held>>
  PROVE  Ed!AnswersAreHeld'
<1>1. ASSUME NEW q \in Ed!Places PROVE Ed!AnswerIsHeld(q)'
  <2>1. CASE q = p
    BY <2>1 DEF Ed!AnswersAreHeld, Ed!AnswerIsHeld, Ed!Idle, Ed!CallOK, Ed!Answered, Ed!Ask
  <2>2. CASE q # p
    BY <2>2 DEF Ed!AnswersAreHeld, Ed!AnswerIsHeld, Ed!Idle, Ed!CallOK, Ed!Answered, Ed!Ok,
                Ed!Answer, Ed!Ask
  <2> QED
    BY <2>1, <2>2
<1> QED
  BY <1>1 DEF Ed!AnswersAreHeld, Ed!Ask

LEMMA SameKeepsAnswers ==
  ASSUME Ed!AnswersAreHeld, UNCHANGED <<server, held, net>>
  PROVE  Ed!AnswersAreHeld'
BY DEF Ed!AnswersAreHeld, Ed!AnswerIsHeld, Ed!Idle, Ed!CallOK, Ed!Answered, Ed!Ok, Ed!Answer

\* A call that fails answers nothing, wherever it fails.
LEMMA LoseKeeps ==
  ASSUME Ed!EditorInv, NEW p \in Ed!Places, Ed!Lose(p)
  PROVE  Ed!EditorInv'
<1>1. ASSUME NEW q \in Ed!Places PROVE Ed!AnswerIsHeld(q)'
  <2>1. CASE q = p
    BY <2>1 DEF Ed!EditorInv, Ed!AnswersAreHeld, Ed!AnswerIsHeld, Ed!Idle, Ed!CallOK, Ed!Ok,
                Ed!Answer, Ed!Lose
  <2>2. CASE q # p
    BY <2>2 DEF Ed!EditorInv, Ed!AnswersAreHeld, Ed!AnswerIsHeld, Ed!Idle, Ed!CallOK,
                Ed!Answered, Ed!Ok, Ed!Answer, Ed!Lose
  <2> QED
    BY <2>1, <2>2
<1>2. Ed!AnswersAreHeld'
  BY <1>1 DEF Ed!EditorInv, Ed!AnswersAreHeld, Ed!Lose
<1>3. Ed!SaveIsOfText'
  BY DEF Ed!EditorInv, Ed!SaveIsOfText, Ed!Lose, Ed!Idle, Ed!shown, Ed!AnswersAreHeld,
         Ed!AnswerIsHeld, Ed!CallOK, Ed!Places
<1> QED
  BY <1>2, <1>3 DEF Ed!EditorInv, Ed!TypeOK, Ed!Lose, Ed!shown, Ed!Closed

\* The campaign the API keeps after a call it accepts.
LEMMA AfterIsTyped ==
  ASSUME Ed!TypeOK, NEW p \in Ed!Places, NEW op \in Ed!OpsAt(p), NEW arg \in Ed!ArgsOf(op),
         server # None
  PROVE  /\ Ed!After(op, arg) \in Ed!Snapshot \cup {None}
         /\ p # "delete" => Ed!After(op, arg) \in Ed!Snapshot
         /\ Ed!After(op, arg) \in Ed!Snapshot =>
              /\ Ed!Told(op, Ed!After(op, arg)) \in Ed!Snapshot
              /\ Ed!Told(op, Ed!After(op, arg)).text = Ed!After(op, arg).text
         /\ p = "save" => Ed!After(op, arg).text = arg
<1>1. server \in Ed!Snapshot
  BY DEF Ed!TypeOK
<1>2. p # "delete" => Ed!After(op, arg) \in Ed!Snapshot
  <2>1. CASE p \in {"get", "poll", "patch", "delete"}
    BY <1>1, <2>1 DEF Ed!OpsAt, Ed!After
  <2>2. CASE p \in {"act", "people"}
    BY <1>1, <2>2 DEF Ed!OpsAt, Ed!After, Ed!Snapshot, Ed!Statuses
  <2>3. CASE p = "save"
    BY <1>1, <2>3 DEF Ed!OpsAt, Ed!ArgsOf, Ed!After, Ed!Snapshot
  <2>4. CASE p = "pace"
    BY <1>1, <2>4 DEF Ed!OpsAt, Ed!ArgsOf, Ed!After, Ed!Snapshot
  <2>5. CASE p = "row"
    BY <1>1, <2>5 DEF Ed!OpsAt, Ed!ArgsOf, Ed!After, Ed!Snapshot
  <2>6. CASE p = "file"
    <3>1. server.files \in Nat /\ server.files <= MaxFiles
      BY <1>1, EditorConstants DEF Ed!Snapshot
    <3>2. PICK n : n = server.files
      OBVIOUS
    <3>3. (IF n < MaxFiles THEN n + 1 ELSE n) \in 0..MaxFiles
          /\ (IF n > 0 THEN n - 1 ELSE n) \in 0..MaxFiles
      BY <3>1, <3>2, EditorConstants
    <3>4. Ed!After(op, arg) = [server EXCEPT !.files = IF n < MaxFiles THEN n + 1 ELSE n]
          \/ Ed!After(op, arg) = [server EXCEPT !.files = IF n > 0 THEN n - 1 ELSE n]
      BY <1>1, <2>6, <3>2 DEF Ed!OpsAt, Ed!After, Ed!Snapshot
    <3> QED
      BY <1>1, <3>3, <3>4 DEF Ed!Snapshot
  <2> QED
    BY <2>1, <2>2, <2>3, <2>4, <2>5, <2>6 DEF Ed!Places
<1>3. p = "delete" => Ed!After(op, arg) = None
  BY DEF Ed!OpsAt, Ed!After
<1>4. p = "save" => Ed!After(op, arg).text = arg
  BY <1>1 DEF Ed!OpsAt, Ed!After, Ed!Snapshot
<1>5. ASSUME NEW s \in Ed!Snapshot
      PROVE  Ed!Told(op, s) \in Ed!Snapshot /\ Ed!Told(op, s).text = s.text
  <2>1. 0 \in 0..MaxFiles
    BY EditorConstants
  <2> QED
    BY <2>1 DEF Ed!Told, Ed!Snapshot
<1> QED
  BY <1>2, <1>3, <1>4, <1>5

\* The API keeps what it was sent, and answers what it keeps.
LEMMA ServeKeeps ==
  ASSUME Ed!EditorInv, NEW p \in Ed!Places, Ed!Serve(p)
  PROVE  Ed!EditorInv'
<1> DEFINE op == net[p].op
           arg == net[p].arg
<1>1. /\ ~Ed!Idle(p) /\ Ed!CallOK(p) /\ op \in Ed!OpsAt(p) /\ arg \in Ed!ArgsOf(op)
      /\ DOMAIN net = Ed!Places
  BY DEF Ed!Serve, Ed!EditorInv, Ed!AnswersAreHeld, Ed!AnswerIsHeld, Ed!CallOK
<1>2. PICK ans : net' = [net EXCEPT ![p].ans = ans]
  BY DEF Ed!Serve
<1>3. /\ net'[p] = [op |-> op, arg |-> arg, ans |-> ans]
      /\ \A q \in Ed!Places : q # p => net'[q] = net[q]
      /\ DOMAIN net' = Ed!Places
  BY <1>1, <1>2 DEF Ed!CallOK
<1>4. /\ server' \in Ed!Snapshot \cup {None} /\ (server' # None => server'.text \in held')
      /\ held \subseteq held' /\ held' \subseteq 0..MaxTyped
      /\ p # "delete" /\ ans \notin {Refused, Missing, Failed} =>
           ans \in Ed!Snapshot /\ ans.text \in held'
      /\ p = "save" /\ ans \notin {Refused, Missing, Failed} => ans.text = arg
  <2>1. ans = net'[p].ans
    BY <1>3
  <2>2. CASE UNCHANGED <<server, held>> /\ ans \in {Missing, Refused}
    BY <2>2 DEF Ed!EditorInv, Ed!TypeOK, Ed!AnswersAreHeld
  <2>3. CASE /\ server # None /\ server' = Ed!After(op, arg)
             /\ ans = IF server' = None THEN Done ELSE Ed!Told(op, server')
             /\ held' = IF server' = None THEN held ELSE held \cup {server'.text}
    <3>1. PICK s : s = Ed!After(op, arg)
      OBVIOUS
    <3>2. /\ s \in Ed!Snapshot \cup {None}
          /\ p # "delete" => s \in Ed!Snapshot
          /\ s \in Ed!Snapshot =>
               Ed!Told(op, s) \in Ed!Snapshot /\ Ed!Told(op, s).text = s.text
          /\ p = "save" => s.text = arg
      BY <1>1, <2>3, <3>1, AfterIsTyped DEF Ed!EditorInv
    <3>3. held \subseteq 0..MaxTyped /\ (s \in Ed!Snapshot => s.text \in 0..MaxTyped)
      BY DEF Ed!EditorInv, Ed!TypeOK, Ed!Snapshot
    <3> QED
      BY ONLY <2>3, <3>1, <3>2, <3>3, EditorConstants
  <2>4. \/ UNCHANGED <<server, held>> /\ ans \in {Missing, Refused}
        \/ /\ server # None /\ server' = Ed!After(op, arg)
           /\ ans = IF server' = None THEN Done ELSE Ed!Told(op, server')
           /\ held' = IF server' = None THEN held ELSE held \cup {server'.text}
    <3>1. CASE server = None
      BY <1>1, <1>3, <3>1 DEF Ed!Serve, Ed!Gone, Ed!CallOK
    <3>2. CASE server # None /\ (Ed!Refuses(op, arg) \/ (op = "upload" /\ server.files = MaxFiles))
      BY <1>1, <1>3, <3>2 DEF Ed!Serve, Ed!Gone, Ed!CallOK
    <3>3. CASE /\ server # None
               /\ ~(Ed!Refuses(op, arg) \/ (op = "upload" /\ server.files = MaxFiles))
      BY <1>1, <1>3, <3>3 DEF Ed!Serve, Ed!Gone, Ed!CallOK
    <3> QED
      BY <3>1, <3>2, <3>3
  <2> QED
    BY <2>2, <2>3, <2>4
<1>5. ASSUME NEW q \in Ed!Places PROVE Ed!AnswerIsHeld(q)'
  <2>1. CASE q = p
    BY <1>1, <1>3, <1>4, <2>1 DEF Ed!AnswerIsHeld, Ed!CallOK, Ed!Answered, Ed!Ok, Ed!Answer
  <2>2. CASE q # p
    <3>1. Ed!AnswerIsHeld(q)
      BY DEF Ed!EditorInv, Ed!AnswersAreHeld
    <3> QED
      BY <1>3, <1>4, <2>2, <3>1
      DEF Ed!AnswerIsHeld, Ed!CallOK, Ed!Answered, Ed!Ok, Ed!Answer, Ed!Idle
  <2> QED
    BY <2>1, <2>2
<1>6. Ed!AnswersAreHeld'
  BY <1>3, <1>4, <1>5 DEF Ed!AnswersAreHeld
<1>7. UNCHANGED Ed!shown
  BY DEF Ed!Serve
<1>8. Ed!SaveIsOfText'
  <2>1. "save" \in Ed!Places
    BY DEF Ed!Places
  <2> QED
    BY <1>1, <1>3, <1>7, <2>1 DEF Ed!EditorInv, Ed!SaveIsOfText, Ed!shown, Ed!Idle
<1> QED
  BY <1>4, <1>6, <1>7, <1>8 DEF Ed!EditorInv, Ed!TypeOK, Ed!shown, Ed!Closed

\* The engine changes the status of a campaign, not its message.
LEMMA EngineKeeps ==
  ASSUME Ed!EditorInv, Ed!EngineStep
  PROVE  Ed!EditorInv'
<1>1. /\ server' \in Ed!Snapshot /\ server'.text = server.text /\ server # None
      /\ UNCHANGED <<held, net, Ed!shown>>
  BY DEF Ed!EditorInv, Ed!TypeOK, Ed!EngineStep, Ed!Gone, Ed!Snapshot, Ed!Statuses
<1>2. Ed!AnswersAreHeld'
  BY <1>1 DEF Ed!EditorInv, Ed!AnswersAreHeld, Ed!AnswerIsHeld, Ed!Idle, Ed!CallOK,
              Ed!Answered, Ed!Ok, Ed!Answer
<1> QED
  BY <1>1, <1>2 DEF Ed!EditorInv, Ed!TypeOK, Ed!SaveIsOfText, Ed!shown, Ed!Closed, Ed!Idle

\* What follows an answer, and the page as it is read again.
LEMMA AnswersKeep ==
  ASSUME Ed!EditorInv, Ed!Answers
  PROVE  Ed!EditorInv'
<1>1. /\ Ed!TypeOK /\ Ed!AnswersAreHeld /\ Ed!SaveIsOfText
      /\ ~Ed!Closed /\ ~dirty => text \in held
  BY DEF Ed!EditorInv
<1>2. ASSUME NEW p \in Ed!Places, p # "delete", Ed!Answered(p), Ed!Ok(p)
      PROVE  Ed!Answer(p) \in Ed!Snapshot /\ Ed!Answer(p).text \in held
  BY <1>1, <1>2 DEF Ed!AnswersAreHeld, Ed!AnswerIsHeld, Ed!Answered, Ed!Idle
<1>3. ASSUME NEW l \in Shows, Ed!Show(l)
      PROVE  /\ load' = l /\ pace' \in Ed!Paces \cup {None}
             /\ {armed', busy'} \subseteq BOOLEAN
             /\ modal' \in {"none", "launch", "people", "delete"}
  BY <1>1, <1>3, PutIsTyped DEF Ed!Show
<1>4. held \subseteq 0..MaxTyped /\ {"get", "poll", "save", "act", "delete"} \subseteq Ed!Places
  BY <1>1 DEF Ed!TypeOK, Ed!Places
<1>5. Ed!Same => /\ UNCHANGED load /\ pace' \in Ed!Paces \cup {None}
                 /\ {armed', busy'} \subseteq BOOLEAN
                 /\ modal' \in {"none", "launch", "people", "delete"}
  BY <1>1 DEF Ed!Same, Ed!TypeOK
\* The answer of the page's own reading takes the place of the message.
<1>6. CASE Ed!Refreshed
  <2>1. Ed!AnswersAreHeld'
    BY <1>1, <1>4, <1>6, ReadKeepsAnswers DEF Ed!Refreshed
  <2>2. CASE Ed!Ok("get")
    <3>1. /\ Ed!Answer("get") \in Ed!Snapshot /\ Ed!Answer("get").text \in held
          /\ Ed!Show(Ed!Answer("get")) /\ text' = Ed!Answer("get").text
          /\ touched' = TRUE /\ dirty' = FALSE
      BY <1>2, <1>4, <1>6, <2>2 DEF Ed!Refreshed
    <3>2. /\ load' \in Ed!Snapshot /\ pace' \in Ed!Paces \cup {None}
          /\ {armed', busy'} \subseteq BOOLEAN
          /\ modal' \in {"none", "launch", "people", "delete"}
      BY <1>3, <3>1 DEF Shows
    <3>3. text' \in 0..MaxTyped
      BY <1>4, <3>1
    <3>4. Ed!TypeOK'
      BY <1>1, <1>6, <3>1, <3>2, <3>3 DEF Ed!Refreshed, Ed!TypeOK
    <3> QED
      BY <1>6, <2>1, <3>1, <3>4 DEF Ed!EditorInv, Ed!Refreshed, Ed!SaveIsOfText
  <2>3. CASE ~Ed!Ok("get")
    <3>1. /\ ~Ed!Closed /\ UNCHANGED <<server, held, text, typed, dirty, saving, saveFailed, touched>>
          /\ Ed!Show(Missing) \/ Ed!Show(Unloaded)
      BY <1>6, <2>3 DEF Ed!Refreshed
    <3>2. /\ load' \in {Missing, Unloaded} /\ pace' \in Ed!Paces \cup {None}
          /\ {armed', busy'} \subseteq BOOLEAN
          /\ modal' \in {"none", "launch", "people", "delete"}
      BY <1>3, <3>1 DEF Shows
    <3>3. Ed!TypeOK' /\ ~Ed!Closed'
      BY <1>1, <3>1, <3>2, EditorConstants DEF Ed!TypeOK, Ed!Closed
    <3>4. Ed!SaveIsOfText'
      <4>1. net'["save"] = net["save"]
        BY <1>1, <1>4, <1>6 DEF Ed!Refreshed, Ed!AnswersAreHeld
      <4> QED
        BY <1>1, <3>1, <4>1 DEF Ed!SaveIsOfText, Ed!Idle
    <3> QED
      BY <1>1, <2>1, <3>1, <3>3, <3>4 DEF Ed!EditorInv
  <2> QED
    BY <2>2, <2>3
\* Polls, patches and actions show a campaign, and leave the message alone.
<1>7. ASSUME NEW p \in Ed!Places \ {"get", "delete", "save"}, net' = [net EXCEPT ![p] = None],
             Ed!Answered(p), ~Ed!Closed,
             UNCHANGED <<server, held, text, typed, dirty, saving, saveFailed, touched>>,
             busy' \in BOOLEAN,
             \/ Ed!Ok(p) /\ Ed!Put(Ed!Answer(p))
             \/ UNCHANGED <<load, pace, armed, modal>>
      PROVE  Ed!EditorInv'
  <2>1. Ed!AnswersAreHeld'
    BY <1>1, <1>7, ReadKeepsAnswers
  <2>2. /\ load' \in Shows /\ pace' \in Ed!Paces \cup {None} /\ armed' \in BOOLEAN
        /\ modal' \in {"none", "launch", "people", "delete"}
    <3>1. CASE Ed!Ok(p) /\ Ed!Put(Ed!Answer(p))
      <4>1. Ed!Answer(p) \in Shows
        BY <1>2, <1>7, <3>1 DEF Shows
      <4> QED
        BY <1>1, <3>1, <4>1, PutIsTyped
    <3>2. CASE UNCHANGED <<load, pace, armed, modal>>
      BY <1>1, <3>2 DEF Ed!TypeOK, Shows
    <3> QED
      BY <1>7, <3>1, <3>2
  <2>3. Ed!TypeOK'
    BY <1>1, <1>7, <2>2 DEF Ed!TypeOK, Shows
  <2>4. Ed!SaveIsOfText'
    <3>1. net'["save"] = net["save"]
      BY <1>1, <1>4, <1>7 DEF Ed!AnswersAreHeld
    <3> QED
      BY <1>1, <1>7, <3>1 DEF Ed!SaveIsOfText, Ed!Idle
  <2> QED
    BY <1>1, <1>7, <2>1, <2>3, <2>4 DEF Ed!EditorInv, Ed!Closed
<1>8. CASE Ed!Polled
  BY <1>1, <1>4, <1>7, <1>8 DEF Ed!Polled, Ed!Show, Ed!Same, Ed!TypeOK
<1>9. CASE Ed!Acted
  BY <1>4, <1>7, <1>9 DEF Ed!Acted
<1>10. ASSUME NEW p \in {"patch", "pace"}, Ed!Patched(p) PROVE Ed!EditorInv'
  <2>1. p \in Ed!Places \ {"get", "delete", "save"}
    BY DEF Ed!Places
  <2> QED
    BY <1>1, <1>7, <1>10, <2>1 DEF Ed!Patched, Ed!Show, Ed!Same, Ed!TypeOK
\* A save that was answered is of the message on screen, unless it was touched since.
<1>11. CASE Ed!Saved
  <2>1. Ed!AnswersAreHeld'
    BY <1>1, <1>4, <1>11, ReadKeepsAnswers DEF Ed!Saved
  <2>2. Ed!SaveIsOfText'
    BY <1>1, <1>4, <1>11 DEF Ed!Saved, Ed!SaveIsOfText, Ed!Idle, Ed!AnswersAreHeld
  <2>3. CASE Ed!Ok("save")
    <3>1. /\ Ed!Answer("save") \in Ed!Snapshot /\ Ed!Answer("save").text \in held
          /\ Ed!Show(Ed!Answer("save")) /\ dirty' = touched
      BY <1>2, <1>4, <1>11, <2>3 DEF Ed!Saved, Ed!StillDirty
    <3>2. Ed!TypeOK'
      <4>1. /\ load' \in Ed!Snapshot /\ pace' \in Ed!Paces \cup {None}
            /\ {armed', busy'} \subseteq BOOLEAN
            /\ modal' \in {"none", "launch", "people", "delete"}
        BY <1>3, <3>1 DEF Shows
      <4> QED
        BY <1>1, <1>11, <2>3, <3>1, <4>1 DEF Ed!Saved, Ed!SavingAfter, Ed!TypeOK
    <3>3. ~touched => text \in held
      BY <1>1, <1>4, <1>11, <2>3, <3>1
      DEF Ed!Saved, Ed!SaveIsOfText, Ed!AnswersAreHeld, Ed!AnswerIsHeld, Ed!Idle, Ed!Answered
    <3> QED
      BY <1>11, <2>1, <2>2, <3>1, <3>2, <3>3 DEF Ed!EditorInv, Ed!Saved
  <2>4. CASE ~Ed!Ok("save")
    <3>1. Ed!TypeOK'
      BY <1>1, <1>5, <1>11, <2>4 DEF Ed!Saved, Ed!SavingAfter, Ed!TypeOK
    <3> QED
      BY <1>1, <1>5, <1>11, <2>1, <2>2, <2>4, <3>1 DEF Ed!EditorInv, Ed!Saved, Ed!Closed
  <2> QED
    BY <2>3, <2>4
\* A campaign deleted is left with its message.
<1>12. CASE Ed!Deleted
  <2>1. Ed!AnswersAreHeld'
    BY <1>1, <1>4, <1>12, ReadKeepsAnswers DEF Ed!Deleted
  <2>2. Ed!SaveIsOfText'
    <3>1. net'["save"] = net["save"]
      BY <1>1, <1>4, <1>12 DEF Ed!Deleted, Ed!AnswersAreHeld
    <3> QED
      BY <1>1, <1>12, <3>1 DEF Ed!Deleted, Ed!SaveIsOfText, Ed!Idle
  <2>3. CASE Ed!Answer("delete") = Done
    <3>1. load' = Left /\ dirty' = FALSE /\ Ed!TypeOK'
      BY <1>1, <1>3, <1>12, <2>3 DEF Ed!Deleted, Ed!TypeOK, Shows
    <3> QED
      BY <2>1, <2>2, <3>1 DEF Ed!EditorInv, Ed!Closed
  <2>4. CASE Ed!Answer("delete") # Done
    <3>1. Ed!TypeOK' /\ UNCHANGED <<load, dirty, text, held>>
      BY <1>1, <1>5, <1>12, <2>4 DEF Ed!Deleted, Ed!TypeOK
    <3> QED
      BY <1>1, <2>1, <2>2, <3>1 DEF Ed!EditorInv, Ed!Closed
  <2> QED
    BY <2>3, <2>4
\* Contacts or files that changed have the page read again.
<1>13. ASSUME NEW p \in {"people", "row", "file"}, Ed!Changed(p) PROVE Ed!EditorInv'
  <2> DEFINE read == [net EXCEPT ![p] = None]
             get == [op |-> "get", arg |-> 0, ans |-> None]
  <2>1. p \in Ed!Places /\ p # "save" /\ p # "get"
    BY DEF Ed!Places
  <2>2. UNCHANGED <<server, held, Ed!shown>>
        /\ (net' = read \/ net' = [read EXCEPT !["get"] = get])
    BY <1>13 DEF Ed!Changed, Ed!Refreshing
  <2>3. ASSUME NEW q \in Ed!Places
        PROVE  net'[q] = net[q] \/ net'[q] = None \/ (q = "get" /\ net'[q] = get)
    BY <1>1, <2>1, <2>2 DEF Ed!AnswersAreHeld
  <2>4. ASSUME NEW q \in Ed!Places PROVE Ed!AnswerIsHeld(q)'
    <3>1. CASE net'[q] = net[q]
      BY <1>1, <2>2, <3>1 DEF Ed!AnswersAreHeld, Ed!AnswerIsHeld, Ed!Idle, Ed!CallOK,
                              Ed!Answered, Ed!Ok, Ed!Answer
    <3>2. CASE net'[q] = None
      BY <3>2 DEF Ed!AnswerIsHeld, Ed!Idle
    <3>3. CASE q = "get" /\ net'[q] = get
      BY <3>3 DEF Ed!AnswerIsHeld, Ed!CallOK, Ed!OpsAt, Ed!ArgsOf, Ed!Answered
    <3> QED
      BY <2>3, <3>1, <3>2, <3>3
  <2>5. Ed!AnswersAreHeld'
    BY <1>1, <2>2, <2>4 DEF Ed!AnswersAreHeld
  <2>6. net'["save"] = net["save"]
    BY <1>1, <1>4, <2>1, <2>2 DEF Ed!AnswersAreHeld
  <2> QED
    BY <1>1, <2>2, <2>5, <2>6
    DEF Ed!EditorInv, Ed!TypeOK, Ed!SaveIsOfText, Ed!shown, Ed!Closed, Ed!Idle
<1> QED
  BY <1>6, <1>8, <1>9, <1>10, <1>11, <1>12, <1>13 DEF Ed!Answers

\* A save asked is of the message on screen.
LEMMA SaveKeeps ==
  ASSUME Ed!EditorInv, Ed!Save, saveFailed' \in BOOLEAN
  PROVE  Ed!EditorInv'
<1>1. "save" \in Ed!Places /\ "save" \in Ed!OpsAt("save") /\ text \in Ed!ArgsOf("save")
  BY DEF Ed!Places, Ed!OpsAt, Ed!ArgsOf, Ed!EditorInv, Ed!TypeOK
<1>2. Ed!AnswersAreHeld'
  BY <1>1, AskKeepsAnswers DEF Ed!Save, Ed!EditorInv
<1>3. net'["save"].arg = text
  BY <1>1 DEF Ed!Save, Ed!Ask, Ed!EditorInv, Ed!AnswersAreHeld
<1> QED
  BY <1>2, <1>3 DEF Ed!EditorInv, Ed!Save, Ed!TypeOK, Ed!SaveIsOfText, Ed!Closed

\* Any other call leaves the message alone.
LEMMA AskKeeps ==
  ASSUME Ed!EditorInv, NEW p \in Ed!Places \ {"save"}, NEW op \in Ed!OpsAt(p),
         NEW arg \in Ed!ArgsOf(op), net' = Ed!Ask(p, op, arg) \/ net' = net,
         UNCHANGED <<server, held, load, text, typed, dirty, saving, saveFailed, touched, pace>>,
         {armed', busy'} \subseteq BOOLEAN, modal' \in {"none", "launch", "people", "delete"}
  PROVE  Ed!EditorInv'
<1>1. Ed!AnswersAreHeld'
  BY AskKeepsAnswers, SameKeepsAnswers DEF Ed!EditorInv
<1>2. net'["save"] = net["save"]
  BY DEF Ed!Ask, Ed!EditorInv, Ed!AnswersAreHeld, Ed!Places
<1> QED
  BY <1>1, <1>2 DEF Ed!EditorInv, Ed!TypeOK, Ed!SaveIsOfText, Ed!Closed, Ed!Idle

\* What is typed is not marked as saved, and a save under way is no longer of it.
LEMMA UserKeeps ==
  ASSUME Ed!EditorInv, Ed!User
  PROVE  Ed!EditorInv'
<1>1. Ed!TypeOK /\ Ed!AnswersAreHeld /\ Ed!SaveIsOfText
      /\ (~Ed!Closed /\ ~dirty => text \in held)
  BY DEF Ed!EditorInv
<1>2. CASE Ed!Type
  <2>1. typed + 1 \in 0..MaxTyped
    BY <1>1, <1>2, EditorConstants DEF Ed!Type, Ed!TypeOK
  <2>2. Ed!AnswersAreHeld'
    BY <1>1, <1>2, SameKeepsAnswers DEF Ed!Type
  <2>3. Ed!TypeOK'
    BY <1>1, <1>2, <2>1 DEF Ed!Type, Ed!TypeOK
  <2> QED
    BY <1>2, <2>2, <2>3 DEF Ed!Type, Ed!EditorInv, Ed!SaveIsOfText
<1>3. CASE Ed!RetrySave
  BY <1>3, SaveKeeps DEF Ed!RetrySave
\* The page is read again, from where no message is shown.
<1>4. CASE Ed!RetryLoad
  <2>1. load' = Loading /\ Ed!TypeOK'
    <3>1. Ed!Show(Loading) /\ Loading \in Shows
      BY <1>4 DEF Ed!RetryLoad, Shows
    <3> QED
      BY <1>1, <1>4, <3>1, PutIsTyped DEF Ed!RetryLoad, Ed!Show, Ed!TypeOK
  <2>2. Ed!AnswersAreHeld' /\ net'["save"] = net["save"]
    <3>1. net' = Ed!Ask("get", "get", 0) /\ UNCHANGED <<server, held>>
      BY <1>4 DEF Ed!RetryLoad, Ed!Refreshing, Ed!Ask
    <3>2. "get" \in Ed!Places /\ "get" \in Ed!OpsAt("get") /\ 0 \in Ed!ArgsOf("get")
      BY DEF Ed!Places, Ed!OpsAt, Ed!ArgsOf
    <3>3. Ed!AnswersAreHeld'
      BY <1>1, <3>1, <3>2, AskKeepsAnswers
    <3>4. net'["save"] = net["save"]
      BY <1>1, <3>1 DEF Ed!Ask, Ed!AnswersAreHeld, Ed!Places
    <3> QED
      BY <3>3, <3>4
  <2>3. ~Ed!Closed /\ ~Ed!Closed'
    BY <1>4, <2>1, EditorConstants DEF Ed!RetryLoad, Ed!Closed
  <2> QED
    BY <1>1, <1>4, <2>1, <2>2, <2>3 DEF Ed!RetryLoad, Ed!EditorInv, Ed!SaveIsOfText, Ed!Idle
<1>5. CASE Ed!ChangeType
  BY <1>1, <1>5, AskKeeps
  DEF Ed!ChangeType, Ed!shown, Ed!TypeOK, Ed!Places, Ed!OpsAt, Ed!ArgsOf
<1>6. CASE Ed!OpenLaunch \/ Ed!OpenPeople \/ Ed!CloseModal \/ Ed!OpenDelete
  <2>1. UNCHANGED <<server, held, net, load, text, typed, dirty, saving, saveFailed, touched,
                    pace, armed, busy>>
        /\ modal' \in {"none", "launch", "people", "delete"}
    BY <1>6 DEF Ed!OpenLaunch, Ed!OpenPeople, Ed!CloseModal, Ed!OpenDelete
  <2> QED
    BY <1>1, <2>1, SameKeepsAnswers
    DEF Ed!EditorInv, Ed!TypeOK, Ed!SaveIsOfText, Ed!Closed, Ed!Idle
<1>7. CASE Ed!AddPeople
  BY <1>1, <1>7, AskKeeps
  DEF Ed!AddPeople, Ed!shown, Ed!TypeOK, Ed!Places, Ed!OpsAt, Ed!ArgsOf
<1>8. CASE Ed!ConfirmDelete
  BY <1>1, <1>8, AskKeeps
  DEF Ed!ConfirmDelete, Ed!shown, Ed!TypeOK, Ed!Places, Ed!OpsAt, Ed!ArgsOf
<1>9. ASSUME NEW v \in Ed!Paces, Ed!SetPace(v) PROVE Ed!EditorInv'
  BY <1>1, <1>9, SameKeepsAnswers
  DEF Ed!SetPace, Ed!EditorInv, Ed!TypeOK, Ed!SaveIsOfText, Ed!Closed, Ed!Idle
<1>10. ASSUME NEW op \in {"start", "pause", "resume"}, Ed!Act(op) PROVE Ed!EditorInv'
  BY <1>1, <1>10, AskKeeps DEF Ed!Act, Ed!TypeOK, Ed!Places, Ed!OpsAt, Ed!ArgsOf
<1>11. CASE Ed!ConfirmLaunch \/ Ed!Pause \/ Ed!Resume
  BY <1>10, <1>11 DEF Ed!ConfirmLaunch, Ed!Pause, Ed!Resume
<1>12. ASSUME NEW op \in {"upload", "unfile"}, Ed!FileAction(op) PROVE Ed!EditorInv'
  BY <1>1, <1>12, AskKeeps
  DEF Ed!FileAction, Ed!shown, Ed!TypeOK, Ed!Places, Ed!OpsAt, Ed!ArgsOf
<1>13. CASE Ed!Upload \/ Ed!Unfile
  BY <1>12, <1>13 DEF Ed!Upload, Ed!Unfile
<1>14. ASSUME NEW left \in BOOLEAN, Ed!RowAction(left) PROVE Ed!EditorInv'
  <2>1. "row" \in Ed!Places \ {"save"} /\ "row" \in Ed!OpsAt("row") /\ left \in Ed!ArgsOf("row")
    BY DEF Ed!Places, Ed!OpsAt, Ed!ArgsOf
  <2> QED
    BY <1>1, <1>14, <2>1, AskKeeps DEF Ed!RowAction, Ed!shown, Ed!TypeOK
<1> QED
  BY <1>2, <1>3, <1>4, <1>5, <1>6, <1>7, <1>8, <1>9, <1>11, <1>13, <1>14 DEF Ed!User

LEMMA TimersKeep ==
  ASSUME Ed!EditorInv, Ed!Timers
  PROVE  Ed!EditorInv'
<1>1. Ed!TypeOK
  BY DEF Ed!EditorInv
<1>2. CASE Ed!AutoSave
  BY <1>1, <1>2, SaveKeeps DEF Ed!AutoSave, Ed!TypeOK
<1>3. CASE Ed!PaceTimer
  <2>1. "pace" \in Ed!Places \ {"save"} /\ "pace" \in Ed!OpsAt("pace") /\ pace \in Ed!ArgsOf("pace")
    BY <1>1, <1>3 DEF Ed!PaceTimer, Ed!TypeOK, Ed!Places, Ed!OpsAt, Ed!ArgsOf
  <2> QED
    BY <1>1, <1>3, <2>1, AskKeeps DEF Ed!PaceTimer, Ed!TypeOK
<1>4. CASE Ed!PollTimer
  BY <1>1, <1>4, AskKeeps
  DEF Ed!PollTimer, Ed!shown, Ed!TypeOK, Ed!Places, Ed!OpsAt, Ed!ArgsOf
<1> QED
  BY <1>2, <1>3, <1>4 DEF Ed!Timers

LEMMA EditorKeeps ==
  ASSUME Ed!EditorInv, Ed!Next \/ UNCHANGED editorVars
  PROVE  Ed!EditorInv'
<1>1. CASE UNCHANGED editorVars
  BY <1>1, SameKeepsAnswers
  DEF editorVars, Ed!EditorInv, Ed!TypeOK, Ed!SaveIsOfText, Ed!Closed, Ed!Idle
<1>2. CASE Ed!Next
  BY <1>2, UserKeeps, TimersKeep, AnswersKeep, EngineKeeps, ServeKeeps, LoseKeeps DEF Ed!Next
<1> QED
  BY <1>1, <1>2

LEMMA EditorIsTrue == Ed!EditorInv => Ed!SavedIsStored
BY EditorConstants DEF Ed!EditorInv, Ed!SavedIsStored, Ed!Ready, Ed!Closed

\* A header that reads "Enregistré" is true of the message under it, for every number of
\* versions typed, clicks, files and faults (CampaignEditor.tsx, save and refresh).
THEOREM SavedMeansStored == Spec => []SavedIsStored
<1> DEFINE Inv == page = "editor" => Ed!EditorInv
<1>1. Init => Inv
  BY EditorStarts DEF Init
<1>2. Inv /\ [Next]_vars => Inv'
  <2> SUFFICES ASSUME Inv, [Next]_vars, page' = "editor"
               PROVE  Ed!EditorInv'
    OBVIOUS
  <2>1. page = "editor" /\ (Ed!Next \/ UNCHANGED editorVars)
    <3>1. CASE Editor
      BY <3>1 DEF Editor, EditorOnly
    <3>2. CASE Import \/ People \/ Home \/ Session \/ Log
      BY <3>2 DEF Import, People, Home, Session, Log
    <3>3. CASE UNCHANGED vars
      BY <3>3 DEF vars, pages
    <3> QED
      BY <3>1, <3>2, <3>3 DEF Next
  <2> QED
    BY <2>1, EditorKeeps
<1>3. Inv => SavedIsStored
  BY EditorIsTrue DEF SavedIsStored
<1> QED
  BY <1>1, <1>2, <1>3, PTL DEF Spec

-----------------------------------------------------------------------------
(* The import: what an import counts is what it added, whoever else was     *)
(* adding, and what it says of a line is so.  Both hold of every import     *)
(* under way up to the slice it has reached.                                *)

LEMMA ImportConstants ==
  /\ Slice \in Nat \ {0} /\ MaxRuns \in Nat /\ MaxLosses \in Nat
  /\ Bad \notin Emails /\ \A f \in Files : f \in Seq(Emails \cup {Bad})
BY FrontAssumption

\* The dialog counts as everybody does.
LEMMA Counting ==
  ASSUME NEW S
  PROVE  /\ Im!Cardinality(S) = Cardinality(S)
         /\ Pe!Cardinality(S) = Cardinality(S)
         /\ Lo!Cardinality(S) = Cardinality(S)
         /\ Ho!Cardinality(S) = Cardinality(S)
BY DEF Im!Cardinality, Pe!Cardinality, Lo!Cardinality, Ho!Cardinality, Cardinality

LEMMA ImportStarts ==
  ASSUME IsFiniteSet(Emails), Im!Init PROVE Im!ImportInv
<1>1. stored \subseteq Emails
  BY DEF Im!Init
<1>2. counted \in 0..Cardinality(Emails)
  <2>1. counted = Cardinality(stored)
    BY Counting DEF Im!Init
  <2>2. /\ Cardinality(stored) \in Nat /\ Cardinality(Emails) \in Nat
        /\ Cardinality(stored) <= Cardinality(Emails)
    BY <1>1, FS_Subset, FS_CardinalityType
  <2> QED
    BY <2>1, <2>2
<1>3. Im!ImportTypes
  <2>1. 0 \in 0..MaxRuns /\ 0 \in 0..MaxLosses
    BY ImportConstants
  <2>2. counted \in 0..Im!Cardinality(Emails)
    BY <1>2, Counting
  <2> QED
    BY <1>1, <2>1, <2>2 DEF Im!Init, Im!ImportTypes
<1> QED
  BY <1>3 DEF Im!Init, Im!ImportInv, Im!AddedIsStored, Im!ReportInv, Im!RunInv

\* The rows of a slice are rows of its file.
LEMMA SliceIsOfFile ==
  ASSUME NEW r \in Im!Runs, Im!RunOK(r)
  PROVE  /\ run[r].file \in Seq(Emails \cup {Bad}) /\ Len(run[r].file) \in Nat
         /\ \A i \in 1..Len(run[r].file) : run[r].file[i] \in Emails \cup {Bad}
         /\ run[r].at \in Nat /\ Im!End(r) \in Nat
         /\ run[r].at <= Im!End(r) /\ Im!End(r) <= Len(run[r].file)
         /\ Im!Rows(r) = (run[r].at + 1)..Im!End(r)
<1>1. /\ run[r].file \in Seq(Emails \cup {Bad}) /\ Len(run[r].file) \in Nat
      /\ \A i \in 1..Len(run[r].file) : run[r].file[i] \in Emails \cup {Bad}
  BY ImportConstants DEF Im!RunOK
<1>2. PICK n, at : n = Len(run[r].file) /\ at = run[r].at
  OBVIOUS
<1>3. at \in Nat /\ n \in Nat /\ at <= n
  BY <1>1, <1>2 DEF Im!RunOK
<1>4. Im!End(r) = IF at + Slice < n THEN at + Slice ELSE n
  BY <1>2 DEF Im!End
<1> QED
  BY <1>1, <1>2, <1>3, <1>4, ImportConstants DEF Im!Rows

\* Once a slice is answered, the lines up to its end are said what they are.
LEMMA LinesMerge ==
  ASSUME NEW r \in Im!Runs, Im!RunOK(r), Im!RunIsTrue(r), run[r].step = "answered",
         stored \subseteq Emails,
         NEW i \in 1..Im!End(r)
  PROVE  Im!LineIsTrue(run[r].file, run[r].rejected \cup Im!Rejected(r), i)
<1> DEFINE file == run[r].file
           old == run[r].rejected
           said == {x \in old \cup Im!Rejected(r) : x.line = i + 1}
<1>1. /\ run[r].at \in Nat /\ Im!End(r) \in Nat /\ Im!Rows(r) = (run[r].at + 1)..Im!End(r)
      /\ run[r].at <= Im!End(r)
  BY SliceIsOfFile
<1>2. i \in Nat /\ i >= 1
  BY <1>1
<1>3. ASSUME NEW x \in Im!Rejected(r)
      PROVE  \E j \in Im!Rows(r) : x = [line |-> j + 1, reason |-> Im!Reason(r, j)]
  BY DEF Im!Rejected, Im!Line
\* A line before the slice: nothing more is said of it.
<1>4. CASE i <= run[r].at
  <2>1. said = {x \in old : x.line = i + 1}
    <3>1. ASSUME NEW x \in Im!Rejected(r) PROVE x.line # i + 1
      <4>1. PICK j \in Im!Rows(r) : x = [line |-> j + 1, reason |-> Im!Reason(r, j)]
        BY <1>3
      <4>2. x.line = j + 1 /\ j > i
        BY <1>1, <1>2, <1>4, <4>1
      <4> QED
        BY <1>1, <1>2, <4>2
    <3> QED
      BY <3>1
  <2>2. Im!LineIsTrue(file, old, i)
    BY <1>1, <1>2, <1>4 DEF Im!RunIsTrue
  <2> QED
    BY <2>1, <2>2 DEF Im!LineIsTrue
\* A line of the slice: nothing was said of it, and one thing at most is.
<1>5. CASE i > run[r].at
  <2>1. i \in Im!Rows(r)
    BY <1>1, <1>2, <1>5
  <2>2. ASSUME NEW x \in old PROVE x.line # i + 1
    BY <1>1, <1>2, <1>5 DEF Im!RunOK
  <2>3. PICK one : one = [line |-> i + 1, reason |-> Im!Reason(r, i)]
    OBVIOUS
  <2>4. ASSUME NEW x \in said PROVE x = one
    <3>1. x \in Im!Rejected(r) /\ x.line = i + 1
      BY <2>2
    <3>2. PICK j \in Im!Rows(r) : x = [line |-> j + 1, reason |-> Im!Reason(r, j)]
      BY <1>3, <3>1
    <3>3. j = i
      BY <1>1, <1>2, <3>1, <3>2
    <3> QED
      BY <2>3, <3>2, <3>3
  <2>5. Cardinality(said) <= 1
    <3>1. said \subseteq {one}
      BY <2>4
    <3> QED
      <4>1. IsFiniteSet({one}) /\ Cardinality({one}) = 1
        BY FS_Singleton
      <4>2. Cardinality(said) <= Cardinality({one})
        BY <3>1, <4>1, FS_Subset
      <4> QED
        BY <4>1, <4>2
  <2>6. file[i] = Bad => one \in said /\ one.reason = "invalid_email"
    <3> SUFFICES ASSUME file[i] = Bad PROVE one \in said /\ one.reason = "invalid_email"
      OBVIOUS
    <3>1. one \in Im!Rejected(r)
      BY <2>1, <2>3 DEF Im!Rejected, Im!Line
    <3>2. Im!Reason(r, i) = "invalid_email"
      <4>1. Bad \notin run[r].existing
        BY ImportConstants DEF Im!RunOK
      <4> QED
        BY <4>1 DEF Im!Reason
    <3>3. one.line = i + 1 /\ one.reason = Im!Reason(r, i)
      BY <2>3
    <3> QED
      BY <3>1, <3>2, <3>3
  <2>7. file[i] # Bad => one.reason # "invalid_email"
    <3>1. one.reason = Im!Reason(r, i)
      BY <2>3
    <3> QED
      BY <3>1 DEF Im!Reason
  <2>8. file[i] # Bad => file[i] \in stored
    BY <2>1 DEF Im!RunIsTrue
  <2>9. file[i] = Bad <=> \E x \in said : x.reason = "invalid_email"
    BY <2>4, <2>6, <2>7
  <2>10. Im!Cardinality(said) <= 1
    BY <2>5, Counting
  <2> QED
    BY <2>8, <2>9, <2>10 DEF Im!LineIsTrue
<1> QED
  BY <1>1, <1>2, <1>4, <1>5

\* An import that does not move is as true as it was, whatever was added by others.
LEMMA OthersKeep ==
  ASSUME Im!ImportInv, NEW q \in Im!Runs, run'[q] = run[q], stored \subseteq stored',
         started' \in Nat, started <= started', Im!Added(q)' = Im!Added(q)
  PROVE  Im!RunInv(q)'
<1> SUFFICES ASSUME run[q] # Nil PROVE q <= started' /\ Im!RunOK(q)' /\ Im!RunIsTrue(q)'
  BY DEF Im!RunInv
<1>1. q <= started /\ Im!RunOK(q) /\ Im!RunIsTrue(q) /\ started \in Nat /\ q \in Nat
  BY ImportConstants DEF Im!ImportInv, Im!RunInv, Im!Runs, Im!ImportTypes
<1>2. q <= started'
  BY <1>1
<1>3. Im!RunOK(q)'
  BY <1>1 DEF Im!RunOK
<1>4. Im!RunIsTrue(q)'
  BY <1>1 DEF Im!RunIsTrue, Im!LineIsTrue, Im!Rows, Im!End
<1> QED
  BY <1>2, <1>3, <1>4

LEMMA ReportKeeps ==
  ASSUME Im!ImportInv, UNCHANGED report, stored \subseteq stored', started' \in Nat,
         started <= started',
         report # Nil => run'[report.by] = run[report.by] /\ Im!Added(report.by)' = Im!Added(report.by)
  PROVE  Im!ReportInv'
<1> SUFFICES ASSUME report # Nil PROVE Im!ReportInv'
  BY DEF Im!ReportInv
<1>1. /\ report.by \in 1..started /\ run[report.by] = Nil /\ started \in Nat
      /\ report.imported = Im!Cardinality(Im!Added(report.by))
      /\ \A i \in 1..Len(report.file) : Im!LineIsTrue(report.file, report.rejected, i)
  BY ImportConstants DEF Im!ImportInv, Im!ReportInv, Im!ImportTypes
<1>2. report.by \in 1..started'
  BY <1>1
<1> QED
  BY <1>1, <1>2 DEF Im!ReportInv, Im!LineIsTrue

\* The dialog and the page under it do not touch an import.
LEMMA DialogKeeps ==
  ASSUME Im!ImportInv, Im!ImportTypes', UNCHANGED <<stored, addedBy, run, started>>,
         report' \in {report, Nil}
  PROVE  Im!ImportInv'
<1>1. started \in Nat /\ started <= started /\ stored \subseteq stored
  BY ImportConstants DEF Im!ImportInv, Im!ImportTypes
<1>2. ASSUME NEW q \in Im!Runs PROVE Im!RunInv(q)'
  <2>1. Im!Added(q)' = Im!Added(q)
    BY DEF Im!Added
  <2> QED
    BY <1>1, <2>1, OthersKeep
<1>3. Im!ReportInv'
  <2>1. CASE report' = Nil
    BY <2>1 DEF Im!ReportInv
  <2>2. CASE report' = report
    <3>1. Im!Added(report.by)' = Im!Added(report.by)
      BY <2>2 DEF Im!Added
    <3> QED
      BY <1>1, <2>2, <3>1, ReportKeeps
  <2> QED
    BY <2>1, <2>2
<1> QED
  BY <1>2, <1>3 DEF Im!ImportInv, Im!AddedIsStored

LEMMA DialogActionsKeep ==
  ASSUME IsFiniteSet(Emails), Im!ImportInv,
         \/ Im!Open \/ Im!ChangeFile \/ Im!Close \/ Im!Another \/ Im!Recount
         \/ \E f \in Files : Im!Choose(f)
  PROVE  Im!ImportInv'
<1>1. Im!ImportTypes
  BY DEF Im!ImportInv
<1>2. CASE Im!Open \/ Im!ChangeFile \/ Im!Close \/ Im!Another \/ (\E f \in Files : Im!Choose(f))
  <2>1. /\ UNCHANGED <<stored, addedBy, run, started, losses, counted>>
        /\ report' \in {report, Nil} /\ parsed' \in Files \cup {Nil}
        /\ {open', importing'} \subseteq BOOLEAN
    BY <1>1, <1>2 DEF Im!Open, Im!ChangeFile, Im!Close, Im!Another, Im!Choose, Im!ImportTypes
  <2>2. Im!ImportTypes'
    BY <1>1, <2>1 DEF Im!ImportTypes
  <2> QED
    BY <2>1, <2>2, DialogKeeps
<1>3. CASE Im!Recount
  <2>1. /\ UNCHANGED <<stored, addedBy, run, started, losses, report, parsed, open, importing>>
        /\ counted' = Im!Cardinality(stored)
    BY <1>3 DEF Im!Recount, Im!dialog
  <2>2. counted' \in 0..Im!Cardinality(Emails)
    <3>1. PICK n, m : n = Cardinality(stored) /\ m = Cardinality(Emails)
      OBVIOUS
    <3>2. n \in Nat /\ m \in Nat /\ n <= m
      BY <1>1, <3>1, FS_Subset, FS_CardinalityType DEF Im!ImportTypes
    <3> QED
      BY <2>1, <3>1, <3>2, Counting
  <2>3. Im!ImportTypes'
    BY <1>1, <2>1, <2>2 DEF Im!ImportTypes
  <2> QED
    BY <2>1, <2>3, DialogKeeps
<1> QED
  BY <1>2, <1>3

\* One import moves on without adding: it is to be shown true where it is now.
LEMMA MoveKeeps ==
  ASSUME Im!ImportInv, NEW r \in Im!Runs, NEW v, run' = [run EXCEPT ![r] = v],
         Im!ImportTypes', UNCHANGED <<stored, addedBy>>, started' \in Nat,
         started <= started', Im!RunInv(r)',
         (report' = report /\ (run[r] # Nil \/ r > started \/ v = Nil)) \/ Im!ReportInv'
  PROVE  Im!ImportInv'
<1>1. /\ Im!ImportTypes /\ DOMAIN run = Im!Runs /\ Im!AddedIsStored /\ Im!ReportInv
      /\ started \in Nat /\ stored \subseteq stored'
  BY ImportConstants DEF Im!ImportInv, Im!ImportTypes
<1>2. ASSUME NEW q PROVE Im!Added(q)' = Im!Added(q)
  BY DEF Im!Added
<1>3. ASSUME NEW q \in Im!Runs PROVE Im!RunInv(q)'
  <2>1. CASE q = r
    BY <2>1
  <2>2. CASE q # r
    BY <1>1, <1>2, <2>2, OthersKeep
  <2> QED
    BY <2>1, <2>2
<1>4. Im!ReportInv'
  <2>1. CASE report' = report /\ (run[r] # Nil \/ r > started \/ v = Nil) /\ report # Nil
    <3>1. report.by \in 1..started /\ run[report.by] = Nil
      BY <1>1, <2>1 DEF Im!ReportInv
    <3>2. report.by \in Im!Runs /\ r \in Nat /\ report.by \in Nat /\ report.by <= started
      BY <1>1, <3>1, ImportConstants DEF Im!ImportTypes, Im!Runs
    <3>3. run'[report.by] = run[report.by]
      <4>1. CASE report.by = r
        BY <1>1, <2>1, <3>1, <3>2, <4>1
      <4>2. CASE report.by # r
        BY <1>1, <3>2, <4>2
      <4> QED
        BY <4>1, <4>2
    <3> QED
      BY <1>1, <1>2, <2>1, <3>3, ReportKeeps
  <2>2. CASE report' = report /\ report = Nil
    BY <2>2 DEF Im!ReportInv
  <2> QED
    BY <2>1, <2>2
<1>5. Im!AddedIsStored'
  <2>1. ASSUME NEW e \in Emails PROVE addedBy[e] \in 0..started'
    BY <1>1 DEF Im!AddedIsStored
  <2> QED
    BY <1>1, <2>1 DEF Im!AddedIsStored
<1> QED
  BY <1>1, <1>3, <1>4, <1>5 DEF Im!ImportInv

\* An import that starts has added nothing: its number is new.
LEMMA StartKeeps ==
  ASSUME Im!ImportInv, Im!Start PROVE Im!ImportInv'
<1> PICK r, v : /\ r = started + 1
                /\ v = [file |-> parsed, at |-> 0, imported |-> 0, rejected |-> {},
                        step |-> "asked", existing |-> {}, got |-> 0]
  OBVIOUS
<1>1. /\ Im!ImportTypes /\ DOMAIN run = Im!Runs /\ Im!AddedIsStored
      /\ started \in Nat /\ started < MaxRuns /\ parsed \in Files
      /\ run' = [run EXCEPT ![r] = v] /\ started' = r
      /\ UNCHANGED <<target, stored, addedBy, counted, open, parsed, report, losses>>
      /\ importing' = TRUE
  BY ImportConstants DEF Im!Start, Im!ImportInv, Im!ImportTypes
<1>2. r \in Im!Runs /\ r > started /\ started <= r /\ r \in 0..MaxRuns /\ r \in Nat
  BY <1>1, ImportConstants DEF Im!Runs
<1>3. Im!ImportTypes'
  BY <1>1, <1>2 DEF Im!ImportTypes
<1>4. run'[r] = v
  BY <1>1, <1>2
<1>5. Im!Added(r)' = {}
  BY <1>1, <1>2 DEF Im!AddedIsStored, Im!Added
<1>6. Im!RunOK(r)'
  <2>1. Len(parsed) \in Nat
    BY <1>1, ImportConstants
  <2>2. /\ v.file = parsed /\ v.at = 0 /\ v.imported = 0 /\ v.rejected = {} /\ v.step = "asked"
        /\ v.existing = {} /\ v.got = 0
    OBVIOUS
  <2>3. v.at \in 0..Len(v.file) /\ v.file \in Files
    BY <1>1, <2>1, <2>2
  <2>4. v = [file |-> v.file, at |-> v.at, imported |-> v.imported, rejected |-> v.rejected,
             step |-> v.step, existing |-> v.existing, got |-> v.got]
    BY <2>2
  <2> QED
    BY <1>4, <2>2, <2>3, <2>4 DEF Im!RunOK
<1>7. Im!RunIsTrue(r)'
  <2>1. Im!Cardinality({}) = 0
    BY Counting, FS_EmptySet
  <2> QED
    BY <1>4, <1>5, <2>1 DEF Im!RunIsTrue
<1>8. Im!RunInv(r)'
  BY <1>1, <1>2, <1>6, <1>7 DEF Im!RunInv
<1>9. started' \in Nat /\ started <= started'
  BY <1>1, <1>2
<1> QED
  BY <1>1, <1>2, <1>3, <1>8, <1>9, MoveKeeps

\* What the slice finds there is there.
LEMMA ReadKeeps ==
  ASSUME Im!ImportInv, NEW r \in Im!Runs, Im!Read(r) PROVE Im!ImportInv'
<1> PICK v : v = [run[r] EXCEPT !.step = "collected",
                                !.existing = IF target = "campaign" THEN stored ELSE {}]
  OBVIOUS
<1>1. /\ Im!ImportTypes /\ DOMAIN run = Im!Runs /\ run[r] # Nil /\ started \in Nat
      /\ r <= started /\ Im!RunOK(r) /\ Im!RunIsTrue(r) /\ run[r].step = "asked"
      /\ UNCHANGED <<stored, addedBy, counted, started, losses, open, parsed, importing, report>>
  BY ImportConstants DEF Im!Read, Im!ImportInv, Im!RunInv, Im!ImportTypes, Im!dialog
<1>2. run' = [run EXCEPT ![r] = v] /\ run'[r] = v
  BY <1>1 DEF Im!Read
<1>3. /\ v.file = run[r].file /\ v.at = run[r].at /\ v.imported = run[r].imported
      /\ v.rejected = run[r].rejected /\ v.got = run[r].got /\ v.step = "collected"
      /\ v.existing \subseteq stored
      /\ v = [file |-> v.file, at |-> v.at, imported |-> v.imported, rejected |-> v.rejected,
              step |-> v.step, existing |-> v.existing, got |-> v.got]
  BY <1>1 DEF Im!RunOK
<1>4. Im!RunOK(r)'
  BY <1>1, <1>2, <1>3 DEF Im!RunOK
<1>5. Im!RunIsTrue(r)'
  <2>1. Im!Added(r)' = Im!Added(r)
    BY <1>1 DEF Im!Added
  <2> QED
    BY <1>1, <1>2, <1>3, <2>1 DEF Im!RunIsTrue, Im!LineIsTrue
<1>6. Im!RunInv(r)'
  BY <1>1, <1>4, <1>5 DEF Im!RunInv
<1>7. Im!ImportTypes'
  BY <1>1 DEF Im!ImportTypes
<1>8. started' \in Nat /\ started <= started'
  BY <1>1
<1> QED
  BY <1>1, <1>2, <1>6, <1>7, <1>8, MoveKeeps

\* An import that fails is forgotten, with what it added.
LEMMA LostKeeps ==
  ASSUME Im!ImportInv, NEW r \in Im!Runs, Im!Lose(r) PROVE Im!ImportInv'
<1>1. /\ Im!ImportTypes /\ DOMAIN run = Im!Runs /\ started \in Nat /\ run[r] # Nil
      /\ UNCHANGED <<stored, addedBy, counted, started, open, parsed, report>>
      /\ importing' = FALSE /\ losses' = losses + 1 /\ losses < MaxLosses
      /\ run' = [run EXCEPT ![r] = Nil]
  BY ImportConstants DEF Im!Lose, Im!ImportInv, Im!ImportTypes
<1>2. losses' \in 0..MaxLosses
  BY <1>1, ImportConstants DEF Im!ImportTypes
<1>3. Im!ImportTypes'
  BY <1>1, <1>2 DEF Im!ImportTypes
<1>4. Im!RunInv(r)'
  BY <1>1 DEF Im!RunInv
<1>5. started' \in Nat /\ started <= started'
  BY <1>1
<1> QED
  BY <1>1, <1>3, <1>4, <1>5, MoveKeeps

\* A slice inserted counts what it lets in, and lets in what nobody had added.
LEMMA InsertKeeps ==
  ASSUME IsFiniteSet(Emails), Im!ImportInv, NEW r \in Im!Runs, Im!Insert(r)
  PROVE  Im!ImportInv'
<1> PICK fresh, got : /\ fresh = Im!Accepted(r) \ stored
                      /\ got = Im!Count(r)
  OBVIOUS
<1> PICK v : v = [run[r] EXCEPT !.step = "answered", !.got = got]
  OBVIOUS
<1>1. /\ Im!ImportTypes /\ DOMAIN run = Im!Runs /\ run[r] # Nil /\ started \in Nat
      /\ r <= started /\ Im!RunOK(r) /\ Im!RunIsTrue(r) /\ run[r].step = "collected"
      /\ Im!AddedIsStored /\ Im!ReportInv /\ r \in 1..MaxRuns /\ r \in 1..started
      /\ UNCHANGED <<counted, started, losses, open, parsed, importing, report>>
      /\ stored' = stored \cup Im!Accepted(r)
      /\ addedBy' = [e \in Emails |-> IF e \in fresh THEN r ELSE addedBy[e]]
  BY ImportConstants
  DEF Im!Insert, Im!ImportInv, Im!RunInv, Im!ImportTypes, Im!dialog, Im!Runs
<1>2. run' = [run EXCEPT ![r] = v] /\ run'[r] = v
  BY <1>1 DEF Im!Insert
<1>3. /\ v.file = run[r].file /\ v.at = run[r].at /\ v.imported = run[r].imported
      /\ v.rejected = run[r].rejected /\ v.got = got /\ v.step = "answered"
      /\ v.existing = run[r].existing
      /\ v = [file |-> v.file, at |-> v.at, imported |-> v.imported, rejected |-> v.rejected,
              step |-> v.step, existing |-> v.existing, got |-> v.got]
  BY <1>1 DEF Im!RunOK
<1>4. /\ \A i \in Im!Rows(r) : run[r].file[i] \in Emails \cup {Bad}
      /\ Im!Accepted(r) \subseteq Emails /\ fresh \subseteq Emails
  <2>1. \A i \in Im!Rows(r) : run[r].file[i] \in Emails \cup {Bad}
    BY <1>1, SliceIsOfFile
  <2> QED
    BY <2>1 DEF Im!Accepted
\* What it adds is beside what it and everybody else added before.
<1>5. \A e \in fresh : addedBy[e] = 0
  BY <1>1, <1>4 DEF Im!AddedIsStored
<1>6. /\ Im!Added(r)' = Im!Added(r) \cup fresh /\ Im!Added(r) \cap fresh = {}
      /\ Im!Added(r) \subseteq Emails
  <2>1. r # 0
    BY <1>1
  <2> QED
    BY <1>1, <1>4, <1>5, <2>1 DEF Im!Added
<1>7. ASSUME NEW q, q # r, q # 0 PROVE Im!Added(q)' = Im!Added(q)
  BY <1>1, <1>4, <1>5, <1>7 DEF Im!Added
<1>8. /\ got \in Nat
      /\ Im!Cardinality(Im!Added(r)') = Im!Cardinality(Im!Added(r)) + got
  <2>1. IsFiniteSet(Im!Added(r)) /\ IsFiniteSet(fresh)
    BY <1>4, <1>6, FS_Subset
  <2>2. PICK a, b : a = Cardinality(Im!Added(r)) /\ b = Cardinality(fresh)
    OBVIOUS
  <2>3. a \in Nat /\ b \in Nat
    BY <2>1, <2>2, FS_CardinalityType
  <2>4. Cardinality(Im!Added(r) \cup fresh) = a + b
    <3>1. Cardinality(Im!Added(r) \cap fresh) = 0
      BY <1>6, FS_EmptySet
    <3>2. Cardinality(Im!Added(r) \cup fresh)
            = Cardinality(Im!Added(r)) + Cardinality(fresh) - Cardinality(Im!Added(r) \cap fresh)
      BY <2>1, FS_Union
    <3> QED
      BY <2>2, <2>3, <3>1, <3>2
  <2>5. got = b
    BY <2>2, Counting DEF Im!Count
  <2>6. Im!Cardinality(Im!Added(r)') = a + b
    BY <1>6, <2>4, Counting
  <2> QED
    BY <2>2, <2>3, <2>5, <2>6, Counting
<1>9. stored \subseteq stored' /\ stored' \subseteq Emails
  BY <1>1, <1>4 DEF Im!ImportTypes
<1>10. Im!RunOK(r)'
  BY <1>1, <1>2, <1>3, <1>8, <1>9 DEF Im!RunOK
<1>11. Im!RunIsTrue(r)'
  <2>1. v.imported + v.got = Im!Cardinality(Im!Added(r)')
    <3>1. run[r].imported + 0 = Im!Cardinality(Im!Added(r)) /\ run[r].imported \in Nat
      BY <1>1 DEF Im!RunOK, Im!RunIsTrue
    <3> QED
      BY <1>3, <1>8, <3>1
  <2>2. \A i \in 1..v.at : Im!LineIsTrue(v.file, v.rejected, i)'
    BY <1>1, <1>3, <1>9 DEF Im!RunIsTrue, Im!LineIsTrue
  <2>3. Im!Rows(r)' = Im!Rows(r)
    BY <1>2, <1>3 DEF Im!Rows, Im!End
  <2>4. ASSUME NEW i \in Im!Rows(r), v.file[i] # Bad PROVE v.file[i] \in stored'
    <3>1. CASE v.file[i] \in run[r].existing
      BY <1>1, <1>9, <3>1 DEF Im!RunOK
    <3>2. CASE v.file[i] \notin run[r].existing
      BY <1>1, <1>3, <2>4, <3>2 DEF Im!Accepted
    <3> QED
      BY <3>1, <3>2
  <2> QED
    BY <1>2, <2>1, <2>2, <2>3, <2>4 DEF Im!RunIsTrue, Im!LineIsTrue
<1>12. started' \in Nat /\ started <= started'
  BY <1>1
<1>13. ASSUME NEW q \in Im!Runs PROVE Im!RunInv(q)'
  <2>1. CASE q = r
    BY <1>1, <1>10, <1>11, <2>1 DEF Im!RunInv
  <2>2. CASE q # r
    <3>1. q # 0 /\ run'[q] = run[q]
      BY <1>1, <1>2, <2>2 DEF Im!Runs
    <3>2. Im!Added(q)' = Im!Added(q)
      BY <1>7, <2>2, <3>1
    <3> QED
      BY <1>9, <1>12, <3>1, <3>2, OthersKeep
  <2> QED
    BY <2>1, <2>2
<1>14. Im!ReportInv'
  <2>1. PICK by : by = report.by
    OBVIOUS
  <2>2. report # Nil => by \in 1..started /\ run[by] = Nil /\ by # r /\ by # 0 /\ run'[by] = run[by]
    BY <1>1, <1>2, <2>1 DEF Im!ReportInv
  <2>3. report # Nil => Im!Added(by)' = Im!Added(by)
    BY <1>7, <2>2
  <2>4. Im!Added(report.by)' = Im!Added(by)' /\ Im!Added(report.by) = Im!Added(by)
    BY <1>1, <2>1 DEF Im!Added
  <2> QED
    BY <1>1, <1>9, <1>12, <2>1, <2>2, <2>3, <2>4, ReportKeeps
<1>15. Im!AddedIsStored'
  <2>1. ASSUME NEW e \in Emails
        PROVE  addedBy'[e] \in 0..started /\ (addedBy'[e] # 0 => e \in stored')
    <3>1. CASE e \in fresh
      BY <1>1, <3>1
    <3>2. CASE e \notin fresh
      BY <1>1, <3>2 DEF Im!AddedIsStored
    <3> QED
      BY <3>1, <3>2
  <2> QED
    BY <1>1, <2>1 DEF Im!AddedIsStored
<1>16. Im!ImportTypes'
  <2>1. addedBy' \in [Emails -> 0..MaxRuns]
    BY <1>1 DEF Im!ImportTypes
  <2> QED
    BY <1>1, <1>9, <2>1 DEF Im!ImportTypes
<1> QED
  BY <1>1, <1>2, <1>13, <1>14, <1>15, <1>16 DEF Im!ImportInv

\* A slice merged: what was counted stays counted, and each of its lines is said what it is.
LEMMA NextSliceKeeps ==
  ASSUME Im!ImportInv, NEW r \in Im!Runs, Im!NextSlice(r) PROVE Im!ImportInv'
<1> PICK end, v : /\ end = Im!End(r)
                  /\ v = [Im!Merged(r) EXCEPT !.at = Im!End(r), !.step = "asked",
                                               !.existing = {}, !.got = 0]
  OBVIOUS
<1>1. /\ Im!ImportTypes /\ DOMAIN run = Im!Runs /\ run[r] # Nil /\ started \in Nat
      /\ r <= started /\ Im!RunOK(r) /\ Im!RunIsTrue(r) /\ run[r].step = "answered"
      /\ UNCHANGED <<stored, addedBy, counted, started, losses, open, parsed, importing, report>>
  BY ImportConstants DEF Im!NextSlice, Im!ImportInv, Im!RunInv, Im!ImportTypes, Im!dialog
<1>2. run' = [run EXCEPT ![r] = v] /\ run'[r] = v
  BY <1>1 DEF Im!NextSlice
<1>3. /\ v.file = run[r].file /\ v.at = end /\ v.imported = run[r].imported + run[r].got
      /\ v.rejected = run[r].rejected \cup Im!Rejected(r) /\ v.got = 0 /\ v.step = "asked"
      /\ v.existing = {}
      /\ v = [file |-> v.file, at |-> v.at, imported |-> v.imported, rejected |-> v.rejected,
              step |-> v.step, existing |-> v.existing, got |-> v.got]
  BY <1>1 DEF Im!RunOK, Im!Merged
<1>4. /\ end \in 0..Len(v.file) /\ run[r].at \in Nat /\ run[r].at <= end
      /\ Im!Rows(r) = (run[r].at + 1)..end /\ end \in Nat
  BY <1>1, <1>3, SliceIsOfFile
<1>5. Im!RunOK(r)'
  <2>1. ASSUME NEW x \in v.rejected PROVE x.line \in 2..(end + 1)
    <3>1. CASE x \in run[r].rejected
      <4>1. x.line \in 2..(run[r].at + 1)
        BY <1>1, <3>1 DEF Im!RunOK
      <4> QED
        BY <1>4, <4>1
    <3>2. CASE x \in Im!Rejected(r)
      <4>1. PICK j \in Im!Rows(r) : x.line = j + 1
        BY <3>2 DEF Im!Rejected, Im!Line
      <4> QED
        BY <1>4, <4>1
    <3> QED
      BY <1>3, <3>1, <3>2
  <2>2. v.imported \in Nat
    BY <1>1, <1>3 DEF Im!RunOK
  <2>3. v.file \in Files
    BY <1>1, <1>3 DEF Im!RunOK
  <2>4. /\ v.at \in 0..Len(v.file) /\ \A x \in v.rejected : x.line \in 2..(v.at + 1)
        /\ v.step # "answered" => v.got = 0
        /\ v.step \in {"asked", "collected", "answered"} /\ v.existing \subseteq stored'
        /\ v.got \in Nat
    BY <1>3, <1>4, <2>1
  <2>5. v = [file |-> v.file, at |-> v.at, imported |-> v.imported, rejected |-> v.rejected,
             step |-> v.step, existing |-> v.existing, got |-> v.got]
    BY <1>3
  <2> QED
    BY ONLY <1>2, <2>2, <2>3, <2>4, <2>5 DEF Im!RunOK
<1>6. Im!RunIsTrue(r)'
  <2>1. v.imported + v.got = Im!Cardinality(Im!Added(r))
    BY <1>1, <1>3 DEF Im!RunIsTrue, Im!RunOK
  <2>2. Im!Added(r)' = Im!Added(r)
    BY <1>1 DEF Im!Added
  <2>3. ASSUME NEW i \in 1..end PROVE Im!LineIsTrue(v.file, v.rejected, i)
    <3>1. i \in 1..Im!End(r) /\ stored \subseteq Emails
      BY <1>1 DEF Im!ImportTypes
    <3>2. Im!LineIsTrue(run[r].file, run[r].rejected \cup Im!Rejected(r), i)
      BY ONLY <1>1, <3>1, LinesMerge, r \in Im!Runs
    <3> QED
      BY ONLY <1>3, <3>2
  <2>4. \A i \in 1..end : Im!LineIsTrue(v.file, v.rejected, i)'
    BY <1>1, <2>3 DEF Im!LineIsTrue
  <2>5. v.at = end /\ v.step = "asked"
    BY <1>3
  <2> QED
    BY ONLY <1>2, <2>1, <2>2, <2>4, <2>5 DEF Im!RunIsTrue, Im!LineIsTrue
<1>7. Im!RunInv(r)'
  BY <1>1, <1>5, <1>6 DEF Im!RunInv
<1>8. Im!ImportTypes'
  BY <1>1 DEF Im!ImportTypes
<1>9. started' \in Nat /\ started <= started'
  BY <1>1
<1> QED
  BY <1>1, <1>2, <1>7, <1>8, <1>9, MoveKeeps

\* The report says of the whole file what the slices said of theirs.
LEMMA FinishKeeps ==
  ASSUME Im!ImportInv, NEW r \in Im!Runs, Im!Finish(r) PROVE Im!ImportInv'
<1> PICK n, v : /\ n = Len(run[r].file)
                /\ v = [by |-> r, file |-> run[r].file, imported |-> Im!Merged(r).imported,
                        rejected |-> Im!Merged(r).rejected]
  OBVIOUS
<1>1. /\ Im!ImportTypes /\ DOMAIN run = Im!Runs /\ run[r] # Nil /\ started \in Nat
      /\ r \in 1..started /\ Im!RunOK(r) /\ Im!RunIsTrue(r) /\ run[r].step = "answered"
      /\ UNCHANGED <<stored, addedBy, counted, started, losses, open>>
      /\ importing' = FALSE /\ parsed' = Nil /\ run' = [run EXCEPT ![r] = Nil]
      /\ report' = v /\ Im!End(r) = n
  BY ImportConstants DEF Im!Finish, Im!ImportInv, Im!RunInv, Im!ImportTypes, Im!Runs
<1>2. /\ v.by = r /\ v.file = run[r].file /\ v.imported = run[r].imported + run[r].got
      /\ v.rejected = run[r].rejected \cup Im!Rejected(r)
  BY <1>1 DEF Im!RunOK, Im!Merged
<1>3. Im!ReportInv'
  <2>1. v.imported = Im!Cardinality(Im!Added(r))
    BY <1>1, <1>2 DEF Im!RunIsTrue
  <2>2. Im!Added(r)' = Im!Added(r)
    BY <1>1 DEF Im!Added
  <2>3. ASSUME NEW i \in 1..n PROVE Im!LineIsTrue(v.file, v.rejected, i)
    BY <1>1, <1>2, LinesMerge DEF Im!ImportTypes
  <2>4. \A i \in 1..Len(v.file) : Im!LineIsTrue(v.file, v.rejected, i)'
    BY <1>1, <1>2, <2>3 DEF Im!LineIsTrue
  <2>5. run'[r] = Nil
    BY <1>1
  <2> QED
    BY <1>1, <1>2, <2>1, <2>2, <2>4, <2>5 DEF Im!ReportInv, Im!LineIsTrue
<1>4. Im!RunInv(r)'
  BY <1>1 DEF Im!RunInv
<1>5. Im!ImportTypes'
  BY <1>1 DEF Im!ImportTypes
<1>6. started' \in Nat /\ started <= started'
  BY <1>1
<1> QED
  BY <1>1, <1>3, <1>4, <1>5, <1>6, MoveKeeps

LEMMA ImportKeeps ==
  ASSUME IsFiniteSet(Emails), Im!ImportInv, Im!Next \/ UNCHANGED importVars
  PROVE  Im!ImportInv'
<1>1. CASE UNCHANGED importVars
  <2>1. UNCHANGED <<stored, addedBy, run, started, report>> /\ Im!ImportTypes'
    BY <1>1 DEF importVars, Im!ImportInv, Im!ImportTypes
  <2> QED
    BY <2>1, DialogKeeps
<1>2. CASE Im!Next
  BY <1>2, DialogActionsKeep, StartKeeps, ReadKeeps, InsertKeeps, NextSliceKeeps, FinishKeeps,
     LostKeeps DEF Im!Next
<1> QED
  BY <1>1, <1>2

\* A report counts what its import added and says of each line of its file what is so, for
\* every file, slice length and number of imports beside it, failed before it or closed
\* under it.  The addresses are finitely many, or nothing could be counted.
THEOREM ReportsAreTrue == Spec => []ReportIsTrue
<1> DEFINE Inv == page = "import" => Im!ImportInv
<1>0. IsFiniteSet(Emails)
  BY FrontAssumption
<1>1. Init => Inv
  BY <1>0, ImportStarts DEF Init
<1>2. Inv /\ [Next]_vars => Inv'
  <2> SUFFICES ASSUME Inv, [Next]_vars, page' = "import"
               PROVE  Im!ImportInv'
    OBVIOUS
  <2>1. page = "import" /\ (Im!Next \/ UNCHANGED importVars)
    <3>1. CASE Import
      BY <3>1 DEF Import
    <3>2. CASE Editor \/ People \/ Home \/ Session \/ Log
      BY <3>2 DEF Editor, EditorOnly, People, Home, Session, Log
    <3>3. CASE UNCHANGED vars
      BY <3>3 DEF vars, pages
    <3> QED
      BY <3>1, <3>2, <3>3 DEF Next
  <2> QED
    BY <1>0, <2>1, ImportKeeps
<1>3. Inv => ReportIsTrue
  <2>1. Im!ImportInv => Im!ReportIsTrue
    BY DEF Im!ImportInv, Im!ReportInv, Im!LineIsTrue, Im!Added, Im!ReportIsTrue
  <2> QED
    BY <2>1 DEF ReportIsTrue
<1> QED
  BY <1>1, <1>2, <1>3, PTL DEF Spec

-----------------------------------------------------------------------------
(* The session: what is shown of the terms, the account and its tokens is   *)
(* true of them.  Terms are only accepted upwards, a deleted account stays  *)
(* deleted and a token that has ended never opens anything again, so an     *)
(* answer that comes late is still true.                                    *)

LEMMA SessionMarks ==
  /\ {None, Failed, "idle", "asked"} \cap Tokens = {}
  /\ {None, Failed} \cap {"ok", "idle", "asked"} = {} /\ None \notin Se!Lists
BY MarksAssumption

LEMMA SessionStarts ==
  ASSUME Se!Init PROVE Se!SessionInv
<1>1. account.terms \in {0, 1} /\ account \in Se!Accounts
  <2>1. {0, 1} \subseteq 0..2
    OBVIOUS
  <2> QED
    BY <2>1 DEF Se!Init, Se!Accounts
<1>7. /\ current = 1 /\ bundle = 1 /\ auth = [status |-> "loading", terms |-> 0]
      /\ farewell = None
  BY DEF Se!Init
<1>2. keys \in Se!Lists /\ auth \in Se!Answers
  BY DEF Se!Init, Se!Lists, Se!Answers
<1>3. panel = Se!Closed /\ closing = Se!Still
      /\ calls = {[by |-> "start", ans |-> None, report |-> None]}
  BY DEF Se!Init, Se!Call
<1>4. Se!SessionTypes
  BY <1>1, <1>2, <1>3, <1>7
  DEF Se!SessionTypes, Se!Panels, Se!Closed, Se!Still, Se!Readings, Se!Closings
<1>5. Se!TermsGoUp /\ Se!GoodbyeIsMeant
  BY <1>1, <1>3, <1>7 DEF Se!TermsGoUp, Se!GoodbyeIsMeant, Se!Still
<1>6. Se!PanelIsTrue
  BY <1>3, SessionMarks DEF Se!PanelIsTrue, Se!Closed
<1> QED
  BY <1>4, <1>5, <1>6 DEF Se!SessionInv

\* How the server's tokens may move: none comes back from its end, none is forgotten.
Over == {"revoked", "dropped"}
KeysGoOn ==
  /\ keys' \in Se!Lists
  /\ \A t \in Tokens : keys[t] \in Over => keys'[t] \in Over
  /\ \A t \in Tokens : keys[t] # "absent" => keys'[t] # "absent"

LEMMA KeysMove ==
  ASSUME Se!SessionTypes,
         \/ UNCHANGED keys
         \/ keys' = [t \in Tokens |-> IF keys[t] = "absent" THEN "absent" ELSE "dropped"]
         \/ \E t \in Tokens : keys[t] = "active" /\ keys' = [keys EXCEPT ![t] = "revoked"]
         \/ \E t \in Tokens : keys[t] = "absent" /\ keys' = [keys EXCEPT ![t] = "active"]
  PROVE  KeysGoOn
<1>1. keys \in Se!Lists
  BY DEF Se!SessionTypes
<1>2. CASE UNCHANGED keys
  BY <1>1, <1>2 DEF KeysGoOn
<1>3. CASE keys' = [t \in Tokens |-> IF keys[t] = "absent" THEN "absent" ELSE "dropped"]
  BY <1>1, <1>3 DEF KeysGoOn, Over, Se!Lists
<1>4. ASSUME NEW t \in Tokens, keys[t] = "active", keys' = [keys EXCEPT ![t] = "revoked"]
      PROVE  KeysGoOn
  BY <1>1, <1>4 DEF KeysGoOn, Over, Se!Lists
<1>5. ASSUME NEW t \in Tokens, keys[t] = "absent", keys' = [keys EXCEPT ![t] = "active"]
      PROVE  KeysGoOn
  BY <1>1, <1>5 DEF KeysGoOn, Over, Se!Lists
<1> QED
  BY <1>2, <1>3, <1>4, <1>5

\* A panel that stays, or is opened anew, stays true.
LEMMA PanelStays ==
  ASSUME Se!SessionTypes, Se!PanelIsTrue, KeysGoOn,
         panel' \in {panel, Se!Mounted, Se!Closed}
  PROVE  Se!PanelIsTrue' /\ panel' \in Se!Panels
<1>1. CASE UNCHANGED panel
  <2>1. panel.revoke # None => panel.revoke.id \in Tokens
    BY DEF Se!SessionTypes, Se!Panels
  <2>2. panel.secret # None => panel.secret \in Tokens
    BY DEF Se!SessionTypes, Se!Panels
  <2>3. Se!PanelIsTrue'
    BY <1>1, <2>1, <2>2 DEF Se!PanelIsTrue, Se!Ended, KeysGoOn, Over
  <2> QED
    BY <1>1, <2>3 DEF Se!SessionTypes
<1>2. CASE panel' \in {Se!Mounted, Se!Closed}
  BY <1>2, SessionMarks DEF Se!PanelIsTrue, Se!Mounted, Se!Closed, Se!Panels
<1> QED
  BY <1>1, <1>2

\* What the API does on its own account leaves the screen true.
LEMMA ApiKeeps ==
  ASSUME Se!SessionInv, UNCHANGED <<Se!screen, calls>>, KeysGoOn,
         account' \in Se!Accounts, current' \in 0..2,
         account.terms <= account'.terms, account'.terms <= current', current <= current',
         account'.alive => account.alive,
         closing' \in Se!Closings,
         closing'.step = "gone" => closing.step = "gone" \/ ~account'.alive
  PROVE  Se!SessionInv'
<1>1. Se!SessionTypes /\ Se!TermsGoUp /\ Se!GoodbyeIsMeant /\ Se!PanelIsTrue
      /\ UNCHANGED <<bundle, auth, route, farewell, panel, calls>>
  BY DEF Se!SessionInv, Se!screen
<1>2. Se!SessionTypes' /\ Se!PanelIsTrue'
  <2>1. keys' \in Se!Lists
    BY DEF KeysGoOn
  <2> QED
    BY <1>1, <2>1, PanelStays DEF Se!SessionTypes
<1>3. Se!TermsGoUp'
  <2>1. /\ auth.terms \in 0..2 /\ account.terms \in 0..2 /\ current \in 0..2 /\ bundle \in 0..2
        /\ \A c \in calls : c.ans # None => c.ans.terms \in 0..2
    BY <1>1 DEF Se!SessionTypes, Se!Answers, Se!Readings, Se!Accounts
  <2>2. account'.terms \in 0..2
    BY DEF Se!Accounts
  <2> QED
    BY <1>1, <2>1, <2>2 DEF Se!TermsGoUp
<1>4. Se!GoodbyeIsMeant'
  BY <1>1 DEF Se!GoodbyeIsMeant
<1> QED
  BY <1>2, <1>3, <1>4 DEF Se!SessionInv

\* A call asked or answered beside the screen, by whoever saw the account go if it is to
\* say goodbye.
LEMMA CallsKeep ==
  ASSUME Se!SessionInv, UNCHANGED <<Se!api, Se!screen>>, closing' \in Se!Closings,
         closing'.step = "gone" => closing.step = "gone",
         NEW d \in Se!Readings, calls' \subseteq calls \cup {d},
         d.ans # None => d.ans.terms <= account.terms,
         d.by = "delete" => ~account.alive
  PROVE  Se!SessionInv'
<1>1. Se!SessionTypes /\ Se!TermsGoUp /\ Se!GoodbyeIsMeant /\ Se!PanelIsTrue
      /\ UNCHANGED <<account, keys, current, bundle, auth, route, farewell, panel>>
  BY DEF Se!SessionInv, Se!api, Se!screen
<1>2. Se!SessionTypes' /\ Se!TermsGoUp'
  BY <1>1 DEF Se!SessionTypes, Se!TermsGoUp
<1>3. Se!GoodbyeIsMeant'
  BY <1>1 DEF Se!GoodbyeIsMeant
<1>4. Se!PanelIsTrue'
  BY <1>1, PanelStays, KeysMove
<1> QED
  BY <1>2, <1>3, <1>4 DEF Se!SessionInv

\* What the page shows next is of an answer no newer than the account.
LEMMA ShowKeeps ==
  ASSUME Se!SessionInv, NEW a \in Se!Answers, NEW r, NEW bye, Se!Show(a, r, bye),
         a.terms <= account.terms, bye # None => ~account.alive,
         UNCHANGED <<keys, current>>, account' \in Se!Accounts,
         account'.terms = account.terms, account'.alive = account.alive,
         bundle' \in {bundle, current}, calls' \subseteq calls \cup {Se!Call("start")},
         closing' \in {closing, Se!Still}
  PROVE  Se!SessionInv'
<1>1. Se!SessionTypes /\ Se!TermsGoUp /\ Se!GoodbyeIsMeant /\ Se!PanelIsTrue
  BY DEF Se!SessionInv
<1>2. auth' = a /\ farewell' \in {bye, None} /\ panel' \in {panel, Se!Mounted, Se!Closed}
  BY DEF Se!Show
<1>3. Se!Call("start") = [by |-> "start", ans |-> None, report |-> None]
      /\ Se!Call("start") \in Se!Readings
  BY DEF Se!Call, Se!Readings
<1>4. KeysGoOn
  BY <1>1, KeysMove
<1>5. Se!SessionTypes' /\ Se!PanelIsTrue'
  BY <1>1, <1>2, <1>3, <1>4, PanelStays DEF Se!SessionTypes, KeysGoOn, Se!Still, Se!Closings
<1>6. Se!TermsGoUp'
  <2>1. bundle <= current /\ current <= current
    BY <1>1 DEF Se!TermsGoUp, Se!SessionTypes
  <2> QED
    BY <1>1, <1>2, <1>3, <2>1 DEF Se!TermsGoUp
<1>7. Se!GoodbyeIsMeant'
  BY <1>1, <1>2, <1>3 DEF Se!GoodbyeIsMeant, Se!Still
<1> QED
  BY <1>5, <1>6, <1>7 DEF Se!SessionInv

\* The panel of the tokens, beside the tokens it is about.
LEMMA PanelKeeps ==
  ASSUME Se!SessionInv, panel' \in Se!Panels, Se!PanelIsTrue', keys' \in Se!Lists,
         UNCHANGED <<account, current, bundle, auth, farewell, calls, closing>>
  PROVE  Se!SessionInv'
BY DEF Se!SessionInv, Se!SessionTypes, Se!TermsGoUp, Se!GoodbyeIsMeant

\* What the API does, and what another tab does to it.
LEMMA ApiActionsKeep ==
  ASSUME Se!SessionInv,
         Se!ServeAccept \/ Se!ServeSignOut \/ Se!ServeDelete \/ Se!Elsewhere
  PROVE  Se!SessionInv'
<1>1. Se!SessionTypes /\ Se!TermsGoUp /\ account \in Se!Accounts /\ closing \in Se!Closings
      /\ account.terms \in 0..2 /\ current \in 0..2 /\ account.terms <= current
      /\ account.terms <= account.terms /\ current <= current
  BY DEF Se!SessionInv, Se!SessionTypes, Se!TermsGoUp, Se!Accounts
<1>2. CASE Se!ServeAccept
  <2>1. account' = account \/ (bundle = current /\ account' = [account EXCEPT !.terms = current])
    BY <1>2 DEF Se!ServeAccept, Se!Acceptable
  <2>2. UNCHANGED <<Se!screen, calls, keys, current, closing>>
    BY <1>2 DEF Se!ServeAccept
  <2>3. /\ account' \in Se!Accounts /\ account.terms <= account'.terms
        /\ account'.terms <= current /\ account'.alive = account.alive
    BY <1>1, <2>1 DEF Se!Accounts
  <2> QED
    BY <1>1, <2>2, <2>3, KeysMove, ApiKeeps
<1>3. CASE Se!ServeSignOut
  <2>1. account' = account \/ account' = [account EXCEPT !.session = FALSE]
    BY <1>3 DEF Se!ServeSignOut
  <2>2. UNCHANGED <<Se!screen, calls, keys, current, closing>>
    BY <1>3 DEF Se!ServeSignOut
  <2>3. /\ account' \in Se!Accounts /\ account'.terms = account.terms
        /\ account'.alive = account.alive
    BY <1>1, <2>1 DEF Se!Accounts
  <2> QED
    BY <1>1, <2>2, <2>3, KeysMove, ApiKeeps
<1>4. Se!Gone => /\ account' \in Se!Accounts /\ account'.terms = account.terms
                 /\ ~account'.alive /\ KeysGoOn
  BY <1>1, KeysMove DEF Se!Gone, Se!Accounts
<1>5. CASE Se!ServeDelete
  <2>1. UNCHANGED <<Se!screen, calls, current>>
    BY <1>5 DEF Se!ServeDelete
  <2>2. Se!Gone \/ UNCHANGED <<account, keys>>
    BY <1>5 DEF Se!ServeDelete
  <2>3. closing' \in Se!Closings /\ (closing'.step = "gone" => Se!Gone)
    BY <1>1, <1>5 DEF Se!ServeDelete, Se!Closings, Se!Reports
  <2>4. CASE Se!Gone
    BY <1>1, <1>4, <2>1, <2>3, <2>4, ApiKeeps
  <2>5. CASE UNCHANGED <<account, keys>> /\ ~Se!Gone
    BY <1>1, <2>1, <2>3, <2>5, KeysMove, ApiKeeps
  <2> QED
    BY <2>2, <2>4, <2>5
<1>6. CASE Se!Elsewhere
  <2>1. UNCHANGED <<Se!screen, calls, closing>>
    BY <1>6 DEF Se!Elsewhere, Se!asides
  <2>2. CASE account' = [account EXCEPT !.session = FALSE] /\ UNCHANGED <<keys, current>>
    <3>1. /\ account' \in Se!Accounts /\ account'.terms = account.terms
          /\ account'.alive = account.alive
      BY <1>1, <2>2 DEF Se!Accounts
    <3> QED
      BY <1>1, <2>1, <2>2, <3>1, KeysMove, ApiKeeps
  <2>3. CASE account' = [account EXCEPT !.terms = current] /\ UNCHANGED <<keys, current>>
    <3>1. /\ account' \in Se!Accounts /\ account'.terms = current
          /\ account'.alive = account.alive
      BY <1>1, <2>3 DEF Se!Accounts
    <3> QED
      BY <1>1, <2>1, <2>3, <3>1, KeysMove, ApiKeeps
  <2>4. CASE Se!Gone /\ UNCHANGED current
    BY <1>1, <1>4, <2>1, <2>4, ApiKeeps
  <2>5. CASE /\ UNCHANGED <<account, current>>
             /\ \E t \in Tokens : keys[t] = "active" /\ keys' = [keys EXCEPT ![t] = "revoked"]
    BY <1>1, <2>1, <2>5, KeysMove, ApiKeeps
  <2>6. CASE current = 1 /\ current' = 2 /\ UNCHANGED <<account, keys>>
    <3>1. 1 <= 2 /\ account.terms <= 2
      BY <1>1, <2>6
    <3> QED
      BY <1>1, <2>1, <2>6, <3>1, KeysMove, ApiKeeps
  <2> QED
    BY <1>6, <2>2, <2>3, <2>4, <2>5, <2>6 DEF Se!Elsewhere
<1> QED
  BY <1>2, <1>3, <1>5, <1>6

\* What the page asks, and what it shows of an answer.
LEMMA PageActionsKeep ==
  ASSUME Se!SessionInv,
         \/ \E c \in calls : Se!ServeMe(c) \/ Se!Refreshed(c)
         \/ Se!Retry \/ Se!SignIn \/ Se!Submit \/ Se!Accepted \/ Se!SignOut \/ Se!SignedOut
         \/ Se!Delete \/ Se!Deleted
         \/ \E r \in {"app", "account"} : Se!Visit(r)
  PROVE  Se!SessionInv'
<1>1. Se!SessionTypes /\ Se!TermsGoUp /\ Se!GoodbyeIsMeant /\ account \in Se!Accounts
      /\ closing \in Se!Closings /\ calls \subseteq Se!Readings /\ account.terms \in 0..2
      /\ 0 <= account.terms /\ auth \in Se!Answers /\ auth.terms <= account.terms
  BY DEF Se!SessionInv, Se!SessionTypes, Se!TermsGoUp, Se!Accounts
<1>2. ASSUME NEW c \in calls, Se!ServeMe(c) PROVE Se!SessionInv'
  <2>1. PICK x : /\ calls' = (calls \ {c}) \cup {[c EXCEPT !.ans = x]}
                 /\ x \in {[status |-> "authenticated", terms |-> account.terms],
                           [status |-> "anonymous", terms |-> 0],
                           [status |-> "unreachable", terms |-> 0]}
    BY <1>2 DEF Se!ServeMe
  <2>2. x \in Se!Answers /\ x.terms <= account.terms
    BY <1>1, <2>1 DEF Se!Answers
  <2>3. PICK d : d = [c EXCEPT !.ans = x]
    OBVIOUS
  <2>4. d \in Se!Readings /\ d.ans = x /\ d.by = c.by
    BY <1>1, <2>2, <2>3 DEF Se!Readings
  <2>5. d.by = "delete" => ~account.alive
    BY <1>1, <2>4 DEF Se!GoodbyeIsMeant
  <2>6. calls' \subseteq calls \cup {d}
    BY <2>1, <2>3
  <2>7. UNCHANGED <<Se!api, Se!screen, closing>>
    BY <1>2 DEF Se!ServeMe, Se!asides
  <2> QED
    BY <1>1, <2>2, <2>4, <2>5, <2>6, <2>7, CallsKeep
<1>3. ASSUME NEW c \in calls, Se!Refreshed(c) PROVE Se!SessionInv'
  <2>1. c.ans \in Se!Answers /\ c.ans.terms <= account.terms
    BY <1>1, <1>3 DEF Se!Refreshed, Se!Readings, Se!TermsGoUp
  <2>2. PICK r, bye : Se!Show(c.ans, r, bye) /\ (bye = farewell \/ c.by = "delete")
    BY <1>3 DEF Se!Refreshed
  <2>3. bye # None => ~account.alive
    BY <1>1, <2>2 DEF Se!GoodbyeIsMeant
  <2>4. /\ UNCHANGED <<account, keys, current, bundle>> /\ calls' \subseteq calls
        /\ closing' \in {closing, Se!Still}
    BY <1>3 DEF Se!Refreshed, Se!api
  <2> QED
    BY <1>1, <2>1, <2>2, <2>3, <2>4, ShowKeeps
<1>4. ASSUME NEW by \in {"start", "retry", "terms", "delete"}
      PROVE  Se!Call(by) \in Se!Readings /\ Se!Call(by).ans = None /\ Se!Call(by).by = by
  BY DEF Se!Call, Se!Readings
<1>5. CASE Se!Retry
  <2>1. UNCHANGED <<Se!api, Se!screen, closing>> /\ calls' \subseteq calls \cup {Se!Call("retry")}
    BY <1>5 DEF Se!Retry, Se!asides
  <2> QED
    BY <1>1, <1>4, <2>1, CallsKeep
<1>6. CASE Se!SignIn
  <2>1. [status |-> "loading", terms |-> 0] \in Se!Answers
    BY DEF Se!Answers
  <2>2. /\ account' \in Se!Accounts /\ account'.terms = account.terms
        /\ account'.alive = account.alive
    BY <1>1, <1>6 DEF Se!SignIn, Se!Accounts
  <2>3. /\ Se!Show([status |-> "loading", terms |-> 0], "app", None)
        /\ UNCHANGED <<keys, current, closing>> /\ bundle' \in {bundle, current}
        /\ calls' \subseteq calls \cup {Se!Call("start")}
    BY <1>6 DEF Se!SignIn, Se!asides
  <2> QED
    BY <1>1, <2>1, <2>2, <2>3, ShowKeeps
<1>7. CASE Se!SignedOut
  <2>1. [status |-> "anonymous", terms |-> 0] \in Se!Answers
    BY DEF Se!Answers
  <2>2. /\ Se!Show([status |-> "anonymous", terms |-> 0], route, None)
        /\ UNCHANGED <<account, keys, current, bundle, closing, calls>>
    BY <1>7 DEF Se!SignedOut, Se!api
  <2> QED
    BY <1>1, <2>1, <2>2, ShowKeeps
<1>8. ASSUME NEW r \in {"app", "account"}, Se!Visit(r) PROVE Se!SessionInv'
  <2>1. /\ Se!Show(auth, r, None)
        /\ UNCHANGED <<account, keys, current, bundle, closing, calls>>
    BY <1>8 DEF Se!Visit, Se!api, Se!asides
  <2> QED
    BY <1>1, <2>1, ShowKeeps
<1>9. CASE Se!Submit \/ Se!SignOut \/ Se!Delete
  <2>1. UNCHANGED <<Se!api, Se!screen, calls>>
    BY <1>9 DEF Se!Submit, Se!SignOut, Se!Delete
  <2>2. closing' \in Se!Closings /\ (closing'.step = "gone" => closing.step = "gone")
    BY <1>1, <1>9 DEF Se!Submit, Se!SignOut, Se!Delete, Se!Closings
  <2> QED
    BY <1>4, <2>1, <2>2, CallsKeep
<1>10. CASE Se!Accepted
  <2>1. UNCHANGED <<Se!api, Se!screen, closing>> /\ calls' \subseteq calls \cup {Se!Call("terms")}
    BY <1>10 DEF Se!Accepted
  <2> QED
    BY <1>1, <1>4, <2>1, CallsKeep
<1>11. CASE Se!Deleted
  <2>1. UNCHANGED <<Se!api, Se!screen>>
    BY <1>11 DEF Se!Deleted
  <2>2. closing' \in Se!Closings /\ closing'.step # "gone"
    <3>1. /\ closing = [step |-> closing.step, report |-> closing.report]
          /\ closing' = [closing EXCEPT !.step = "reading", !.report = None] \/ closing' = Se!Still
      BY <1>1, <1>11 DEF Se!Deleted, Se!Closings
    <3>2. closing' = [step |-> "reading", report |-> None] \/ closing' = [step |-> "idle", report |-> None]
      BY <3>1 DEF Se!Still
    <3> QED
      BY <3>2 DEF Se!Closings
  <2>3. CASE calls' = calls
    BY <1>4, <2>1, <2>2, <2>3, CallsKeep
  <2>4. CASE /\ closing.step = "gone"
             /\ calls' = calls \cup {[Se!Call("delete") EXCEPT !.report = closing.report]}
    <3>1. PICK d : d = [by |-> "delete", ans |-> None, report |-> closing.report]
      OBVIOUS
    <3>2. d \in Se!Readings /\ d.ans = None /\ calls' = calls \cup {d}
      BY <1>1, <2>4, <3>1 DEF Se!Call, Se!Readings, Se!Closings
    <3>3. ~account.alive
      BY <1>1, <2>4 DEF Se!GoodbyeIsMeant
    <3> QED
      BY <2>1, <2>2, <3>2, <3>3, CallsKeep
  <2> QED
    BY <1>11, <2>3, <2>4 DEF Se!Deleted
<1> QED
  BY <1>2, <1>3, <1>5, <1>6, <1>7, <1>8, <1>9, <1>10, <1>11

\* A list is of the tokens as they were: what it calls revoked has ended since.
LEMMA PanelActionsKeep ==
  ASSUME Se!SessionInv,
         \/ Se!ServeList \/ Se!Listed \/ Se!Create \/ Se!ServeCreate \/ Se!Created \/ Se!PutAway
         \/ Se!Revoke \/ Se!ServeRevoke \/ Se!Revoked
         \/ \E t \in Tokens : Se!Choose(t)
  PROVE  Se!SessionInv'
<1>1. Se!SessionTypes /\ Se!PanelIsTrue /\ panel \in Se!Panels /\ keys \in Se!Lists
  BY DEF Se!SessionInv, Se!SessionTypes
<1>2. KeysGoOn /\ UNCHANGED <<account, current, bundle, auth, farewell, calls, closing>>
  <2>1. CASE Se!ServeList \/ Se!Listed \/ Se!Create \/ Se!Created \/ Se!PutAway \/ Se!Revoke \/ Se!Revoked
             \/ \E t \in Tokens : Se!Choose(t)
    BY <1>1, <2>1, KeysMove
    DEF Se!ServeList, Se!Listed, Se!Create, Se!Created, Se!PutAway, Se!Revoke, Se!Revoked,
        Se!Choose, Se!Panel, Se!api, Se!asides
  <2>2. CASE Se!ServeCreate
    <3>1. /\ UNCHANGED <<account, current, bundle, auth, farewell, calls, closing>>
          /\ \/ UNCHANGED keys
             \/ \E t \in Tokens : keys[t] = "absent" /\ keys' = [keys EXCEPT ![t] = "active"]
      BY <2>2 DEF Se!ServeCreate, Se!Panel, Se!asides
    <3> QED
      BY <1>1, <3>1, KeysMove
  <2>3. CASE Se!ServeRevoke
    <3>1. /\ UNCHANGED <<account, current, bundle, auth, farewell, calls, closing>>
          /\ \/ UNCHANGED keys
             \/ /\ keys[panel.revoke.id] = "active"
                /\ keys' = [keys EXCEPT ![panel.revoke.id] = "revoked"]
      BY <2>3 DEF Se!ServeRevoke, Se!Panel, Se!asides
    <3>2. panel.revoke.id \in Tokens
      BY <1>1, <2>3 DEF Se!ServeRevoke, Se!Panels
    <3> QED
      BY <1>1, <3>1, <3>2, KeysMove
  <2> QED
    BY <2>1, <2>2, <2>3
<1>3. keys' \in Se!Lists
  BY <1>2 DEF KeysGoOn
\* What the panel held before the step is still true after it.
<1>4. /\ panel.list # None => \A t \in Tokens : panel.list[t] = "revoked" => keys'[t] \in Over
      /\ panel.read # None => \A t \in Tokens : panel.read[t] = "revoked" => keys'[t] \in Over
      /\ panel.revoke # None /\ panel.revoke.ans = "ok" => keys'[panel.revoke.id] \in Over
      /\ panel.create \in Tokens => keys'[panel.create] # "absent"
      /\ panel.secret # None => keys'[panel.secret] # "absent"
  BY <1>1, <1>2 DEF Se!PanelIsTrue, Se!Ended, Se!Panels, KeysGoOn, Over
<1>5. ASSUME NEW p \in Se!Panels, panel' = p,
             p.list # None => \A t \in Tokens : p.list[t] = "revoked" => keys'[t] \in Over,
             p.read # None => \A t \in Tokens : p.read[t] = "revoked" => keys'[t] \in Over,
             p.revoke # None /\ p.revoke.ans = "ok" => keys'[p.revoke.id] \in Over,
             p.create \in Tokens => keys'[p.create] # "absent",
             p.secret # None => keys'[p.secret] # "absent",
             p.listing = "read" => p.read # None,
             p.chosen # None \/ p.revoke # None => p.list # None
      PROVE  Se!SessionInv'
  <2>1. Se!PanelIsTrue'
    BY <1>5 DEF Se!PanelIsTrue, Se!Ended, Over
  <2> QED
    BY <1>2, <1>3, <1>5, <2>1, PanelKeeps
<1>6. /\ panel.listing = "read" => panel.read # None
      /\ panel.chosen # None \/ panel.revoke # None => panel.list # None
  BY <1>1 DEF Se!PanelIsTrue
<1>7. CASE Se!ServeList
  <2>1. PICK p : panel' = p /\ (p = [panel EXCEPT !.listing = "read", !.read = keys]
                                \/ p = [panel EXCEPT !.listing = "idle"])
    BY <1>7 DEF Se!ServeList, Se!Panel
  <2>2. keys' = keys
    BY <1>7 DEF Se!ServeList, Se!api
  <2>3. p \in Se!Panels
    BY <1>1, <2>1 DEF Se!Panels
  <2>4. CASE p = [panel EXCEPT !.listing = "read", !.read = keys]
    <3>1. /\ p.list = panel.list /\ p.listing = "read" /\ p.read = keys /\ p.secret = panel.secret
           /\ p.create = panel.create /\ p.chosen = panel.chosen /\ p.revoke = panel.revoke
      BY <1>1, <2>4 DEF Se!Panels
    <3>2. keys # None /\ \A t \in Tokens : keys[t] = "revoked" => keys'[t] \in Over
      BY <1>1, <2>2, SessionMarks DEF Over
    <3> QED
      BY <1>4, <1>5, <1>6, <2>1, <2>3, <3>1, <3>2
  <2>5. CASE p = [panel EXCEPT !.listing = "idle"]
    BY <1>1, <1>4, <1>5, <1>6, <2>1, <2>3, <2>5 DEF Se!Panels
  <2> QED
    BY <2>1, <2>4, <2>5
<1>8. CASE Se!Listed
  <2>1. PICK p : panel' = p /\ p = [panel EXCEPT !.list = panel.read, !.read = None, !.listing = "idle"]
    BY <1>8 DEF Se!Listed, Se!Panel
  <2>2. panel.read # None
    BY <1>6, <1>8 DEF Se!Listed
  <2>3. p \in Se!Panels
    BY <1>1, <2>1 DEF Se!Panels
  <2> QED
    <3>1. /\ p.list = panel.read /\ p.listing = "idle" /\ p.read = None /\ p.secret = panel.secret
           /\ p.create = panel.create /\ p.chosen = panel.chosen /\ p.revoke = panel.revoke
      BY <1>1, <2>1 DEF Se!Panels
    <3> QED
      BY <1>4, <1>5, <1>6, <2>1, <2>2, <2>3, <3>1
<1>9. CASE Se!Create
  <2>1. PICK p : panel' = p /\ p = [panel EXCEPT !.create = "asked"]
    BY <1>9 DEF Se!Create, Se!Panel
  <2>2. p \in Se!Panels
    BY <1>1, <2>1 DEF Se!Panels
  <2> QED
    BY <1>1, <1>4, <1>5, <1>6, <2>1, <2>2, SessionMarks DEF Se!Panels
\* The token made is there, whether its answer comes back or not.
<1>10. CASE Se!ServeCreate
  <2>1. PICK x : /\ panel' = [panel EXCEPT !.create = x]
                 /\ x = Failed \/ (x \in Tokens /\ keys'[x] # "absent")
    BY <1>1, <1>10 DEF Se!ServeCreate, Se!Panel, Se!Lists
  <2>2. PICK p : p = panel' /\ p = [panel EXCEPT !.create = x]
    BY <2>1
  <2>3. p \in Se!Panels
    BY <1>1, <2>1, <2>2 DEF Se!Panels
  <2> QED
    BY <1>1, <1>4, <1>5, <1>6, <2>1, <2>2, <2>3, SessionMarks DEF Se!Panels
\* The row added is of a token that works, over a list that may be old.
<1>11. CASE Se!Created
  <2>1. keys' = keys
    BY <1>11 DEF Se!Created, Se!api
  <2>2. CASE panel.create = Failed
    <3>1. PICK p : panel' = p /\ p = [panel EXCEPT !.create = "idle"]
      BY <1>11, <2>2 DEF Se!Created, Se!Panel
    <3>2. p \in Se!Panels
      BY <1>1, <3>1 DEF Se!Panels
    <3> QED
      BY <1>1, <1>4, <1>5, <1>6, <3>1, <3>2, SessionMarks DEF Se!Panels
  <2>3. CASE panel.create # Failed
    <3>1. PICK t, l : t = panel.create /\ l = [Se!Holding EXCEPT ![t] = "active"]
      OBVIOUS
    <3>2. t \in Tokens /\ keys'[t] # "absent"
      BY <1>1, <1>4, <1>11, <2>3, <3>1 DEF Se!Created, Se!Panels
    <3>3. /\ l \in Se!Lists
          /\ \A u \in Tokens : l[u] = "revoked" => keys'[u] \in Over
      <4>1. CASE panel.list = None
        BY <3>1, <3>2, <4>1 DEF Se!Holding, Se!Lists
      <4>2. CASE panel.list # None
        BY <1>1, <1>4, <3>1, <3>2, <4>2 DEF Se!Holding, Se!Lists, Se!Panels
      <4> QED
        BY <4>1, <4>2
    <3>4. PICK p : panel' = p /\ p = [panel EXCEPT !.create = "idle", !.secret = t, !.list = l]
      BY <1>11, <2>3, <3>1 DEF Se!Created, Se!Panel
    <3>5. p \in Se!Panels
      BY <1>1, <3>2, <3>3, <3>4 DEF Se!Panels
    <3> QED
      <4>1. /\ p.list = l /\ p.listing = panel.listing /\ p.read = panel.read /\ p.secret = t
             /\ p.create = "idle" /\ p.chosen = panel.chosen /\ p.revoke = panel.revoke
        BY <1>1, <3>4 DEF Se!Panels
      <4> QED
        BY <1>4, <1>5, <1>6, <3>2, <3>3, <3>4, <3>5, <4>1, SessionMarks
  <2> QED
    BY <2>2, <2>3
<1>12. CASE Se!PutAway
  <2>1. PICK p : panel' = p /\ p = [panel EXCEPT !.secret = None]
    BY <1>12 DEF Se!PutAway, Se!Panel
  <2>2. p \in Se!Panels
    BY <1>1, <2>1 DEF Se!Panels
  <2> QED
    BY <1>1, <1>4, <1>5, <1>6, <2>1, <2>2 DEF Se!Panels
<1>13. ASSUME NEW t \in Tokens, Se!Choose(t) PROVE Se!SessionInv'
  <2>1. PICK x \in {t, None} : panel' = [panel EXCEPT !.chosen = x]
    BY <1>13 DEF Se!Choose, Se!Panel
  <2>2. PICK p : panel' = p /\ p = [panel EXCEPT !.chosen = x]
    BY <2>1
  <2>3. p \in Se!Panels /\ panel.list # None
    BY <1>1, <1>13, <2>2 DEF Se!Panels, Se!Choose
  <2> QED
    BY <1>1, <1>4, <1>5, <1>6, <2>2, <2>3 DEF Se!Panels
<1>14. CASE Se!Revoke
  <2>1. PICK p : panel' = p /\ p = [panel EXCEPT !.revoke = [id |-> panel.chosen, ans |-> None]]
    BY <1>14 DEF Se!Revoke, Se!Panel
  <2>2. p \in Se!Panels /\ panel.list # None
    BY <1>1, <1>6, <1>14, <2>1 DEF Se!Panels, Se!Revoke
  <2> QED
    BY <1>1, <1>4, <1>5, <1>6, <2>1, <2>2, SessionMarks DEF Se!Panels
\* Only a token that was revoked is answered as such.
<1>15. CASE Se!ServeRevoke
  <2>1. panel.revoke # None /\ panel.revoke \in [id : Tokens, ans : {None, "ok", Failed}]
    BY <1>1, <1>15 DEF Se!ServeRevoke, Se!Panels
  <2>2. PICK x : /\ panel' = [panel EXCEPT !.revoke.ans = x]
                 /\ x = Failed \/ (x = "ok" /\ keys'[panel.revoke.id] \in Over)
    BY <1>1, <1>15, <2>1 DEF Se!ServeRevoke, Se!Panel, Se!Lists, Over
  <2>3. PICK p, v : /\ panel' = p /\ p = [panel EXCEPT !.revoke = v]
                    /\ v = [id |-> panel.revoke.id, ans |-> x]
    BY <1>1, <2>1, <2>2 DEF Se!Panels
  <2>4. p \in Se!Panels
    BY <1>1, <2>1, <2>2, <2>3 DEF Se!Panels
  <2> QED
    <3>1. /\ p.list = panel.list /\ p.listing = panel.listing /\ p.read = panel.read
          /\ p.secret = panel.secret /\ p.create = panel.create /\ p.chosen = panel.chosen
          /\ p.revoke = v /\ v.ans = x /\ v.id = panel.revoke.id
      BY <1>1, <2>3 DEF Se!Panels
    <3>2. p.revoke # None /\ p.revoke.ans = "ok" => keys'[p.revoke.id] \in Over
      BY <2>2, <3>1, SessionMarks
    <3> QED
      BY <1>4, <1>5, <1>6, <2>1, <2>3, <2>4, <3>1, <3>2
\* The row is marked with the answer of its own revocation.
<1>16. CASE Se!Revoked
  <2>1. /\ panel.revoke # None /\ panel.revoke \in [id : Tokens, ans : {None, "ok", Failed}]
        /\ panel.list \in Se!Lists
    BY <1>1, <1>6, <1>16 DEF Se!Revoked, Se!Panels
  <2>2. PICK l, x : /\ l = Se!Marks(panel.list, panel.revoke)
                    /\ x \in {None, panel.chosen} /\ (panel.revoke.ans # "ok" => x = panel.chosen)
                    /\ panel' = [panel EXCEPT !.list = l, !.revoke = None, !.chosen = x]
    BY <1>1, <1>16 DEF Se!Revoked, Se!Panel, Se!Panels
  <2>3. /\ l \in Se!Lists
        /\ \A t \in Tokens : l[t] = "revoked" => keys'[t] \in Over
    BY <1>4, <2>1, <2>2, SessionMarks DEF Se!Marks, Se!Lists
  <2>4. PICK p : panel' = p /\ p = [panel EXCEPT !.list = l, !.revoke = None, !.chosen = x]
    BY <2>2
  <2>5. p \in Se!Panels
    BY <1>1, <2>2, <2>3, <2>4 DEF Se!Panels
  <2> QED
    <3>1. /\ p.list = l /\ p.listing = panel.listing /\ p.read = panel.read /\ p.secret = panel.secret
           /\ p.create = panel.create /\ p.chosen = x /\ p.revoke = None
      BY <1>1, <2>4 DEF Se!Panels
    <3> QED
      BY <1>4, <1>5, <1>6, <2>2, <2>3, <2>4, <2>5, <3>1, SessionMarks
<1> QED
  BY <1>7, <1>8, <1>9, <1>10, <1>11, <1>12, <1>13, <1>14, <1>15, <1>16

LEMMA SessionKeeps ==
  ASSUME Se!SessionInv, Se!Next \/ UNCHANGED sessionVars
  PROVE  Se!SessionInv'
<1>1. CASE UNCHANGED sessionVars
  BY <1>1 DEF sessionVars, Se!SessionInv, Se!SessionTypes, Se!TermsGoUp, Se!GoodbyeIsMeant,
              Se!PanelIsTrue, Se!Ended
<1>2. CASE Se!Next
  BY <1>2, ApiActionsKeep, PageActionsKeep, PanelActionsKeep DEF Se!Next
<1> QED
  BY <1>1, <1>2

\* What is shown after the gate is shown to someone who accepted terms as new as those of
\* the page.
LEMMA SessionIsSafe == Se!SessionInv => Se!SessionIsTrue
<1> SUFFICES ASSUME Se!SessionInv PROVE Se!SessionIsTrue
  OBVIOUS
<1>1. Se!ContentIsAccepted
  <2> SUFFICES ASSUME Se!Content PROVE account.terms >= bundle
    BY DEF Se!ContentIsAccepted
  <2>1. bundle = auth.terms /\ auth.terms <= account.terms
    BY DEF Se!Content, Se!AtGate, Se!SessionInv, Se!TermsGoUp
  <2>2. bundle \in 0..2 /\ account.terms \in 0..2
    BY DEF Se!SessionInv, Se!SessionTypes, Se!Accounts
  <2> QED
    BY <2>1, <2>2
<1>2. Se!FarewellIsTrue
  BY DEF Se!SessionInv, Se!GoodbyeIsMeant, Se!FarewellIsTrue
<1>3. Se!TokensAreTrue
  BY DEF Se!SessionInv, Se!PanelIsTrue, Se!Ended, Se!TokensAreTrue
<1> QED
  BY <1>1, <1>2, <1>3 DEF Se!SessionIsTrue

\* Nothing is shown of the application without its terms accepted, no goodbye is said to an
\* account that is still there, and no token is called revoked that opens anything, for
\* every number of tokens, acts, versions in flight and lost calls.
THEOREM ShownIsTrue == Spec => []SessionIsTrue
<1> DEFINE Inv == page = "session" => Se!SessionInv
<1>1. Init => Inv
  BY SessionStarts DEF Init
<1>2. Inv /\ [Next]_vars => Inv'
  <2> SUFFICES ASSUME Inv, [Next]_vars, page' = "session"
               PROVE  Se!SessionInv'
    OBVIOUS
  <2>1. page = "session" /\ (Se!Next \/ UNCHANGED sessionVars)
    <3>1. CASE Session
      BY <3>1 DEF Session
    <3>2. CASE Editor \/ Import \/ People \/ Home \/ Log
      BY <3>2 DEF Import, People, Home, Editor, EditorOnly, Log
    <3>3. CASE UNCHANGED vars
      BY <3>3 DEF vars, pages
    <3> QED
      BY <3>1, <3>2, <3>3 DEF Next
  <2> QED
    BY <2>1, SessionKeeps
<1>3. Inv => SessionIsTrue
  BY SessionIsSafe DEF SessionIsTrue
<1> QED
  BY <1>1, <1>2, <1>3, PTL DEF Spec

-----------------------------------------------------------------------------
(* The contacts of the account: whatever is read, removed or made from a   *)
(* selection, in whatever order its calls are answered or lost, what it is *)
(* said to have removed is gone and a draft left behind is a call lost.    *)

LEMMA PeopleConstants == IsFiniteSet(Ids) /\ {MaxMade, MaxPick} \subseteq Nat
BY FrontAssumption

\* A count of entries, and what more of them count.
LEMMA IdsCount ==
  ASSUME NEW S \in SUBSET Ids
  PROVE  /\ Pe!Cardinality(S) \in Nat
         /\ \A R \in SUBSET S : Pe!Cardinality(R) <= Pe!Cardinality(S)
BY PeopleConstants, Counting, FS_Subset, FS_CardinalityType

LEMMA PageIsTyped ==
  ASSUME Pe!PeopleTypes, NEW q PROVE Pe!Page(q) \in [rows : Pe!Picks, total : Nat]
<1> DEFINE found == {e \in entries : q.filter = "all" \/ e \in Matching}
                      \ (IF where = "picker" THEN members ELSE {})
           shown == {e \in found : Pe!Cardinality({f \in found : f < e})
                                     \in q.offset..(q.offset + q.limit - 1)}
<1>1. found \in SUBSET Ids
  BY DEF Pe!PeopleTypes
<1>2. Pe!Page(q) = [rows |-> shown, total |-> Pe!Cardinality(found)]
  BY DEF Pe!Page
<1>3. Pe!Cardinality(found) \in Nat /\ shown \in SUBSET Ids
  BY <1>1, IdsCount
<1> QED
  BY <1>2, <1>3 DEF Pe!Picks

LEMMA PeopleStarts ==
  ASSUME Pe!Init PROVE Pe!PeopleInv
<1>1. Pe!Start \in Pe!Views /\ Pe!NoSheet \in Pe!Sheets
  BY DEF Pe!Start, Pe!Views, Pe!NoSheet, Pe!Sheets
<1>2. Pe!PeopleTypes
  <2>1. members \subseteq Ids
    BY DEF Pe!Init
  <2> QED
    BY <1>1, <2>1 DEF Pe!Init, Pe!PeopleTypes, Pe!Picks, Pe!Gets, Pe!Makings
<1>3. \A i \in Pe!Made : Pe!At(i, "idle")
  BY DEF Pe!Init, Pe!At
<1>4. Pe!NoDraftLeft
  <2>1. {i \in Pe!Made : Pe!At(i, "failed") /\ made[i].draft # "none"} = {}
    BY <1>3 DEF Pe!At
  <2>2. Pe!Cardinality({}) = 0
    BY Counting, FS_EmptySet
  <2> QED
    BY <2>1, <2>2 DEF Pe!NoDraftLeft, Pe!Init
<1> QED
  BY <1>2, <1>3, <1>4 DEF Pe!Init, Pe!PeopleInv, Pe!SelectionIsSafe, Pe!RemovedAreGone,
                          Pe!RemovalIsTrue, Pe!PickerCopies, Pe!NoSheet

\* What was said to be gone still is, as more goes.
LEMMA SaidStays ==
  ASSUME Pe!PeopleTypes, Pe!RemovedAreGone, Pe!PickerCopies,
         gone \subseteq gone', gone' \in SUBSET Ids, UNCHANGED <<told, where>>
  PROVE  Pe!RemovedAreGone'
<1> SUFFICES ASSUME where # "picker", told # None
             PROVE  told.said <= Pe!Cardinality(told.ids \cap gone')
  BY DEF Pe!RemovedAreGone
<1>1. told.said <= Pe!Cardinality(told.ids \cap gone)
  BY DEF Pe!RemovedAreGone
<1>2. told.ids \subseteq Ids /\ told.said \in Nat
  BY DEF Pe!PeopleTypes, Pe!PickerCopies, Pe!Picks
<1>3. /\ {Pe!Cardinality(told.ids \cap gone), Pe!Cardinality(told.ids \cap gone')} \subseteq Nat
      /\ Pe!Cardinality(told.ids \cap gone) <= Pe!Cardinality(told.ids \cap gone')
  <2>1. told.ids \cap gone' \in SUBSET Ids /\ told.ids \cap gone \in SUBSET (told.ids \cap gone')
    BY <1>2
  <2> QED
    BY <2>1, IdsCount
<1> QED
  BY <1>1, <1>2, <1>3

\* The drafts left behind, counted.
LEMMA DraftsCount ==
  ASSUME NEW S \in SUBSET Pe!Made
  PROVE  /\ Pe!Cardinality(S) \in Nat
         /\ \A R \in SUBSET S : Pe!Cardinality(R) <= Pe!Cardinality(S)
         /\ \A i \in Pe!Made : \A R \in SUBSET (S \cup {i}) :
              Pe!Cardinality(R) <= Pe!Cardinality(S) + 1
<1>1. IsFiniteSet(S)
  <2>1. MaxMade \in Int /\ Pe!Made = 1 .. MaxMade
    BY PeopleConstants DEF Pe!Made
  <2>2. IsFiniteSet(Pe!Made)
    BY <2>1, FS_Interval
  <2> QED
    BY <2>2, FS_Subset
<1>2. ASSUME NEW i \in Pe!Made, NEW R \in SUBSET (S \cup {i})
      PROVE  Cardinality(R) <= Cardinality(S) + 1
  <2>1. /\ IsFiniteSet(S \cup {i})
        /\ Cardinality(S \cup {i}) = IF i \in S THEN Cardinality(S) ELSE Cardinality(S) + 1
    BY <1>1, FS_AddElement
  <2>2. /\ Cardinality(R) <= Cardinality(S \cup {i})
        /\ {Cardinality(R), Cardinality(S)} \subseteq Nat
    BY <1>1, <2>1, FS_Subset, FS_CardinalityType
  <2> QED
    BY <2>1, <2>2
<1> QED
  BY <1>1, <1>2, Counting, FS_Subset, FS_CardinalityType

\* What a step that touches no campaign being made has to keep.
LEMMA MadeStays ==
  ASSUME Pe!PeopleTypes, Pe!NoDraftLeft, UNCHANGED made, drops' \in Nat, drops <= drops'
  PROVE  Pe!NoDraftLeft'
<1>1. PICK n : n = Pe!Cardinality({i \in Pe!Made : Pe!At(i, "failed") /\ made[i].draft # "none"})
  OBVIOUS
<1>2. n = Pe!Cardinality({i \in Pe!Made : Pe!At(i, "failed") /\ made[i].draft # "none"})'
  BY <1>1 DEF Pe!At
<1>3. n \in Nat /\ n <= drops /\ drops \in Nat
  BY <1>1, DraftsCount DEF Pe!NoDraftLeft, Pe!PeopleTypes
<1> QED
  BY <1>2, <1>3 DEF Pe!NoDraftLeft, Pe!At

\* What a step that removes nothing and makes nothing has to keep.
LEMMA ListKeeps ==
  ASSUME Pe!PeopleInv, Pe!PeopleTypes', UNCHANGED <<where, gone, told, removal, made>>,
         drops <= drops', where = "picker" => UNCHANGED <<sheet, edit>>,
         sheet'.kind = "delete" => sheet'.id \in Ids
  PROVE  Pe!PeopleInv'
<1>1. Pe!PeopleTypes /\ Pe!NoDraftLeft /\ Pe!RemovedAreGone /\ Pe!RemovalIsTrue /\ Pe!PickerCopies
  BY DEF Pe!PeopleInv, Pe!SelectionIsSafe
<1>2. Pe!NoDraftLeft'
  BY <1>1, MadeStays DEF Pe!PeopleTypes
<1>3. Pe!RemovedAreGone'
  BY <1>1, SaidStays DEF Pe!PeopleTypes
<1> QED
  BY <1>1, <1>2, <1>3 DEF Pe!PeopleInv, Pe!SelectionIsSafe, Pe!RemovalIsTrue, Pe!PickerCopies, Pe!At

LEMMA GetIsTyped ==
  ASSUME Pe!PeopleTypes, NEW q \in Pe!Views, Pe!Get(q) \/ UNCHANGED gets
  PROVE  gets' \subseteq Pe!Gets
BY DEF Pe!Get, Pe!Gets, Pe!PeopleTypes

LEMMA ViewsTurn ==
  ASSUME NEW q \in Pe!Views
  PROVE  /\ [q EXCEPT !.offset = @ + q.limit] \in Pe!Views
         /\ Pe!Back(q) \in Pe!Views /\ Pe!First(q) \in Pe!Views
BY DEF Pe!Views, Pe!Back, Pe!First

\* The list is read and the selection made.
LEMMA ReadingKeeps ==
  ASSUME Pe!PeopleInv,
         \/ \E g \in gets : Pe!ServePage(g) \/ Pe!Fetched(g)
         \/ Pe!Retry \/ Pe!TurnPage \/ Pe!TogglePage \/ Pe!Deselect
         \/ \E q \in Pe!Queries : Pe!Refine(q)
         \/ \E e \in Ids : Pe!Toggle(e)
  PROVE  Pe!PeopleInv'
<1>1. Pe!PeopleTypes /\ (sheet.kind = "delete" => sheet.id \in Ids)
  BY DEF Pe!PeopleInv, Pe!SelectionIsSafe
<1>2. ASSUME NEW g \in gets, Pe!ServePage(g) PROVE Pe!PeopleInv'
  <2>1. PICK a : /\ gets' = (gets \ {g}) \cup {[g EXCEPT !.ans = a]}
                 /\ a \in {Failed} \cup [rows : Pe!Picks, total : Nat]
    BY <1>1, <1>2, PageIsTyped DEF Pe!ServePage
  <2>2. gets' \subseteq Pe!Gets
    BY <1>1, <2>1 DEF Pe!PeopleTypes, Pe!Gets
  <2>3. drops' \in Nat /\ drops <= drops'
    BY <1>1, <1>2 DEF Pe!ServePage, Pe!Drop, Pe!PeopleTypes
  <2> QED
    BY <1>1, <1>2, <2>2, <2>3, ListKeeps DEF Pe!ServePage, Pe!PeopleTypes, Pe!world, Pe!calls
<1>3. ASSUME NEW g \in gets, Pe!Fetched(g) PROVE Pe!PeopleInv'
  <2>1. g.ans \in {None, Failed} \cup [rows : Pe!Picks, total : Nat]
    BY <1>1 DEF Pe!PeopleTypes, Pe!Gets
  <2>2. list' \in [state : {"loading", "ready", "failed"}, rows : Pe!Picks, total : Nat]
    BY <1>1, <1>3, <2>1 DEF Pe!Fetched, Pe!PeopleTypes, Pe!Picks
  <2> QED
    BY <1>1, <1>3, <2>2, ListKeeps DEF Pe!Fetched, Pe!PeopleTypes, Pe!world, Pe!calls
<1>4. CASE Pe!Retry
  BY <1>1, <1>4, GetIsTyped, ListKeeps DEF Pe!Retry, Pe!Tap, Pe!PeopleTypes, Pe!world, Pe!calls
<1>5. ASSUME NEW q \in Pe!Queries, Pe!Refine(q) PROVE Pe!PeopleInv'
  <2>1. q \in Pe!Views
    BY DEF Pe!Queries, Pe!Views
  <2> QED
    BY <1>1, <1>5, <2>1, GetIsTyped, ListKeeps DEF Pe!Refine, Pe!Tap, Pe!PeopleTypes, Pe!world, Pe!calls
<1>6. CASE Pe!TurnPage
  <2>1. PICK q \in Pe!Views : query' = q /\ Pe!Get(q)
    BY <1>1, <1>6, ViewsTurn DEF Pe!TurnPage, Pe!Turn, Pe!PeopleTypes
  <2> QED
    BY <1>1, <1>6, <2>1, GetIsTyped, ListKeeps DEF Pe!TurnPage, Pe!Tap, Pe!PeopleTypes, Pe!world, Pe!calls
<1>7. CASE Pe!TogglePage \/ Pe!Deselect \/ \E e \in Ids : Pe!Toggle(e)
  <2>1. /\ picked' \subseteq Ids /\ taps' \in Nat
        /\ UNCHANGED <<where, Pe!world, query, list, sheet, gets, Pe!calls, told, drops>>
    BY <1>1, <1>7 DEF Pe!TogglePage, Pe!Deselect, Pe!Toggle, Pe!Shown, Pe!PeopleTypes, Pe!Picks, Pe!Tap
  <2> QED
    BY <1>1, <2>1, ListKeeps DEF Pe!PeopleTypes, Pe!world, Pe!calls
<1> QED
  BY <1>2, <1>3, <1>4, <1>5, <1>6, <1>7

\* The dialogs, and a contact added or changed.
LEMMA SheetsKeep ==
  ASSUME Pe!PeopleInv,
         \/ Pe!Submit \/ Pe!ServeEdit \/ Pe!Edited \/ Pe!AddAnother \/ Pe!CloseSheet
         \/ \E kind \in {"create", "edit", "delete", "delete-selection", "campaign"},
               id \in Ids \cup {0} : Pe!OpenSheet(kind, id)
  PROVE  Pe!PeopleInv'
<1>1. /\ Pe!PeopleTypes /\ (sheet.kind = "delete" => sheet.id \in Ids)
      /\ where = "picker" => sheet = Pe!NoSheet /\ edit = None
  BY DEF Pe!PeopleInv, Pe!SelectionIsSafe, Pe!PickerCopies
<1>2. Pe!NoSheet \in Pe!Sheets /\ Pe!NoSheet.kind = "none"
  BY DEF Pe!NoSheet, Pe!Sheets
<1>3. sheet \in Pe!Sheets
  BY <1>1 DEF Pe!PeopleTypes
<1>4. ASSUME NEW kind \in {"create", "edit", "delete", "delete-selection", "campaign"},
             NEW id \in Ids \cup {0}, Pe!OpenSheet(kind, id)
      PROVE  Pe!PeopleInv'
  <2>1. sheet' = [kind |-> kind, id |-> id, face |-> "form"] /\ where = "contacts" /\ taps' \in Nat
    BY <1>1, <1>4 DEF Pe!OpenSheet, Pe!Tap, Pe!PeopleTypes
  <2>2. kind = "delete" => id \in Ids
    BY <1>1, <1>4 DEF Pe!OpenSheet, Pe!Shown, Pe!PeopleTypes, Pe!Picks
  <2>3. sheet' \in Pe!Sheets
    BY <2>1 DEF Pe!Sheets
  <2> QED
    BY <1>1, <1>4, <2>1, <2>2, <2>3, ListKeeps DEF Pe!OpenSheet, Pe!PeopleTypes, Pe!world, Pe!calls
<1>5. ASSUME NEW f \in {"form", "waits", "saved"}, sheet' = [sheet EXCEPT !.face = f]
      PROVE  sheet' \in Pe!Sheets /\ sheet'.kind = sheet.kind /\ sheet'.id = sheet.id
  BY <1>3, <1>5 DEF Pe!Sheets
<1>6. CASE Pe!Submit
  <2>1. edit' \in Pe!Edits
    BY <1>1, <1>3, <1>6 DEF Pe!Submit, Pe!Edits, Pe!PeopleTypes, Pe!Sheets
  <2>2. sheet' \in Pe!Sheets /\ sheet'.kind = sheet.kind /\ sheet'.id = sheet.id
    BY <1>5, <1>6 DEF Pe!Submit
  <2>3. where # "picker"
    BY <1>1, <1>2, <1>6 DEF Pe!Submit
  <2> QED
    BY <1>1, <1>6, <2>1, <2>2, <2>3, ListKeeps DEF Pe!Submit, Pe!PeopleTypes, Pe!world
\* No address that was removed comes back as the entry it was.
<1>7. CASE Pe!ServeEdit
  <2>1. PICK a : a \in {"saved", "refused", "failed"} /\ edit' = [edit EXCEPT !.ans = a]
    BY <1>7 DEF Pe!ServeEdit
  <2>2. edit' \in Pe!Edits
    BY <1>1, <1>7, <2>1 DEF Pe!ServeEdit, Pe!Edits, Pe!PeopleTypes
  <2>3. entries' \subseteq Ids /\ gone \subseteq Ids \ entries'
    BY <1>1, <1>7 DEF Pe!ServeEdit, Pe!PeopleTypes
  <2>4. drops' \in Nat /\ drops <= drops'
    BY <1>1, <1>7 DEF Pe!ServeEdit, Pe!Drop, Pe!PeopleTypes
  <2>5. where # "picker"
    BY <1>1, <1>7 DEF Pe!ServeEdit
  <2> QED
    BY <1>1, <1>7, <2>2, <2>3, <2>4, <2>5, ListKeeps DEF Pe!ServeEdit, Pe!PeopleTypes
<1>8. CASE Pe!Edited
  <2>1. sheet' \in Pe!Sheets /\ sheet'.kind = sheet.kind /\ sheet'.id = sheet.id
    BY <1>3, <1>5, <1>8 DEF Pe!Edited
  <2>2. gets' \subseteq Pe!Gets
    <3>1. edit.q \in Pe!Views
      BY <1>1, <1>8 DEF Pe!Edited, Pe!PeopleTypes, Pe!Edits
    <3> QED
      BY <1>1, <1>8, <3>1, GetIsTyped DEF Pe!Edited
  <2>3. where # "picker"
    BY <1>1, <1>8 DEF Pe!Edited
  <2> QED
    BY <1>1, <1>8, <2>1, <2>2, <2>3, ListKeeps DEF Pe!Edited, Pe!PeopleTypes, Pe!world
<1>9. CASE Pe!AddAnother
  <2>1. sheet' \in Pe!Sheets /\ sheet'.kind = sheet.kind /\ sheet'.id = sheet.id
    BY <1>5, <1>9 DEF Pe!AddAnother
  <2>2. where # "picker"
    BY <1>1, <1>2, <1>9 DEF Pe!AddAnother
  <2> QED
    BY <1>1, <1>9, <2>1, <2>2, ListKeeps DEF Pe!AddAnother, Pe!PeopleTypes, Pe!world, Pe!calls
<1>10. CASE Pe!CloseSheet
  BY <1>1, <1>2, <1>10, ListKeeps DEF Pe!CloseSheet, Pe!PeopleTypes, Pe!world, Pe!calls
<1> QED
  BY <1>4, <1>6, <1>7, <1>8, <1>9, <1>10

\* Removals: an entry that is counted is gone, one that is gone stays so.
LEMMA RemovingKeeps ==
  ASSUME Pe!PeopleInv,
         \/ Pe!ConfirmRemoval \/ Pe!RemovalEnds
         \/ \E e \in Ids : Pe!RemoveOne(e) \/ Pe!GoesElsewhere(e)
  PROVE  Pe!PeopleInv'
<1>1. /\ Pe!PeopleTypes /\ Pe!NoDraftLeft /\ Pe!RemovedAreGone /\ Pe!RemovalIsTrue
      /\ Pe!PickerCopies /\ (sheet.kind = "delete" => sheet.id \in Ids)
  BY DEF Pe!PeopleInv, Pe!SelectionIsSafe
<1>2. CASE Pe!ConfirmRemoval
  <2>1. PICK ids \in SUBSET Ids, n \in Nat, one \in BOOLEAN :
          removal' = [one |-> one, ids |-> ids, left |-> ids, ok |-> {}, len |-> n, q |-> query]
    <3>1. (IF sheet.kind = "delete" THEN {sheet.id} ELSE picked) \in SUBSET Ids
      BY <1>1 DEF Pe!PeopleTypes
    <3>2. Pe!Cardinality(Pe!Shown) \in Nat
      BY <1>1, IdsCount DEF Pe!Shown, Pe!PeopleTypes, Pe!Picks
    <3>3. (sheet.kind = "delete") \in BOOLEAN
      OBVIOUS
    <3> QED
      BY <1>2, <3>1, <3>2, <3>3 DEF Pe!ConfirmRemoval
  <2>2. removal' \in Pe!Removals
    BY <1>1, <2>1 DEF Pe!Removals, Pe!Picks, Pe!PeopleTypes
  <2>3. Pe!RemovalIsTrue'
    BY <2>1 DEF Pe!RemovalIsTrue
  <2>4. where # "picker"
    BY <1>1, <1>2 DEF Pe!ConfirmRemoval, Pe!PickerCopies, Pe!NoSheet
  <2>5. Pe!NoDraftLeft' /\ Pe!RemovedAreGone'
    <3>1. drops \in Nat /\ gone \in SUBSET Ids
      BY <1>1 DEF Pe!PeopleTypes
    <3> QED
      BY <1>1, <1>2, <3>1, MadeStays, SaidStays DEF Pe!ConfirmRemoval, Pe!world
  <2> QED
    BY <1>1, <1>2, <2>2, <2>3, <2>4, <2>5
    DEF Pe!ConfirmRemoval, Pe!PeopleInv, Pe!SelectionIsSafe, Pe!PeopleTypes, Pe!PickerCopies, Pe!world
<1>3. ASSUME NEW e \in Ids, Pe!RemoveOne(e) PROVE Pe!PeopleInv'
  <2>1. removal \in Pe!Removals /\ e \in removal.left /\ where # "picker"
    BY <1>1, <1>3 DEF Pe!RemoveOne, Pe!PeopleTypes, Pe!PickerCopies
  <2>2. /\ gone \subseteq gone' /\ gone' \subseteq Ids \ entries' /\ entries' \subseteq Ids
        /\ drops' \in Nat /\ drops <= drops'
    <3>1. /\ entries \subseteq Ids /\ gone \subseteq Ids \ entries /\ drops \in Nat
          /\ entries' \in {entries, entries \ {e}} /\ drops' \in {drops, drops + 1}
          /\ gone' = gone \cup (entries \ entries')
      BY <1>1, <1>3 DEF Pe!RemoveOne, Pe!Drop, Pe!PeopleTypes
    <3> QED
      BY <3>1
  <2>3. PICK ok : /\ removal' = [removal EXCEPT !.left = @ \ {e}, !.ok = ok]
                  /\ ok = removal.ok \/ (ok = removal.ok \cup {e} /\ e \in gone')
    <3>1. \/ removal' = [removal EXCEPT !.left = @ \ {e}, !.ok = removal.ok]
          \/ e \in gone' /\ removal' = [removal EXCEPT !.left = @ \ {e}, !.ok = removal.ok \cup {e}]
      BY <1>3, <2>1 DEF Pe!RemoveOne, Pe!Removals
    <3> QED
      BY <3>1
  <2>4. /\ removal.ids \subseteq Ids /\ removal.left \subseteq removal.ids
        /\ removal.ok \subseteq removal.ids \cap gone
    BY <1>1, <1>3, <2>1 DEF Pe!RemoveOne, Pe!RemovalIsTrue, Pe!Removals, Pe!Picks
  <2>5. removal' \in Pe!Removals /\ Pe!RemovalIsTrue'
    <3>1. ok \subseteq removal.ids \cap gone'
      BY <2>1, <2>2, <2>3, <2>4
    <3>2. removal' \in Pe!Removals
      BY <2>1, <2>3, <2>4, <3>1 DEF Pe!Removals, Pe!Picks
    <3>3. removal'.left = removal.left \ {e} /\ removal'.ok = ok /\ removal'.ids = removal.ids
      BY <2>1, <2>3 DEF Pe!Removals
    <3> QED
      BY <2>4, <3>1, <3>2, <3>3 DEF Pe!RemovalIsTrue
  <2>6. Pe!NoDraftLeft' /\ Pe!RemovedAreGone'
    BY <1>1, <1>3, <2>2, MadeStays, SaidStays DEF Pe!RemoveOne
  <2> QED
    BY <1>1, <1>3, <2>1, <2>2, <2>5, <2>6
    DEF Pe!RemoveOne, Pe!PeopleInv, Pe!SelectionIsSafe, Pe!PeopleTypes, Pe!PickerCopies
<1>4. ASSUME NEW e \in Ids, Pe!GoesElsewhere(e) PROVE Pe!PeopleInv'
  <2>1. /\ gone \subseteq gone' /\ gone' \subseteq Ids \ entries' /\ entries' \subseteq Ids
        /\ taps' \in Nat /\ drops \in Nat
    BY <1>1, <1>4 DEF Pe!GoesElsewhere, Pe!Tap, Pe!PeopleTypes
  <2>2. Pe!NoDraftLeft' /\ Pe!RemovedAreGone'
    BY <1>1, <1>4, <2>1, MadeStays, SaidStays DEF Pe!GoesElsewhere, Pe!calls
  <2>3. Pe!RemovalIsTrue'
    BY <1>1, <1>4, <2>1 DEF Pe!GoesElsewhere, Pe!calls, Pe!RemovalIsTrue
  <2> QED
    BY <1>1, <1>4, <2>1, <2>2, <2>3
    DEF Pe!GoesElsewhere, Pe!PeopleInv, Pe!SelectionIsSafe, Pe!PeopleTypes, Pe!PickerCopies,
        Pe!calls, Pe!At
\* What is said to be gone is what was counted.
<1>5. CASE Pe!RemovalEnds
  <2>1. /\ removal \in Pe!Removals /\ where # "picker" /\ removal # None
        /\ removal.ok \subseteq removal.ids \cap gone
    BY <1>1, <1>5 DEF Pe!RemovalEnds, Pe!PeopleTypes, Pe!PickerCopies, Pe!RemovalIsTrue
  <2>2. told' \in [ids : Pe!Picks, said : {None, Failed} \cup Nat] /\ told'.said \in Nat
    <3>1. Pe!Cardinality(Pe!Removed) \in Nat /\ removal.ids \in Pe!Picks
      BY <2>1, IdsCount DEF Pe!Removed, Pe!Removals, Pe!Picks
    <3> QED
      BY <1>5, <3>1 DEF Pe!RemovalEnds
  <2>3. Pe!RemovedAreGone'
    <3>1. told'.said = Pe!Cardinality(removal.ok) /\ told'.ids = removal.ids /\ gone' = gone
      BY <1>5 DEF Pe!RemovalEnds, Pe!Removed, Pe!world
    <3>2. removal.ids \cap gone \in SUBSET Ids /\ removal.ok \in SUBSET (removal.ids \cap gone)
      BY <2>1 DEF Pe!Removals, Pe!Picks
    <3>3. Pe!Cardinality(removal.ok) <= Pe!Cardinality(removal.ids \cap gone)
      BY <3>2, IdsCount
    <3> QED
      BY <3>1, <3>3 DEF Pe!RemovedAreGone
  <2>4. /\ sheet' \in {sheet, Pe!NoSheet} /\ picked' \subseteq Ids
        /\ query' \in Pe!Views /\ gets' \subseteq Pe!Gets
    <3>1. query \in Pe!Views /\ removal.q \in Pe!Views
      BY <1>1, <2>1 DEF Pe!PeopleTypes, Pe!Removals
    <3>2. CASE UNCHANGED <<sheet, picked, query, gets>>
      BY <1>1, <3>1, <3>2 DEF Pe!PeopleTypes
    <3>3. CASE /\ sheet' = Pe!NoSheet
               /\ picked' = IF removal.one THEN picked \ removal.ids ELSE {}
               /\ Pe!Reload
      <4>1. picked' \subseteq Ids
        BY <1>1, <3>3 DEF Pe!PeopleTypes
      <4>2. PICK q : q = [query EXCEPT !.offset = Pe!Back(removal.q).offset]
        OBVIOUS
      <4>3. q \in Pe!Views
        BY <3>1, <4>2, ViewsTurn DEF Pe!Views
      <4>4. \/ query' = q /\ (Pe!Get(q) \/ UNCHANGED gets)
            \/ query' = query /\ Pe!Get(removal.q)
        BY <3>3, <4>2 DEF Pe!Reload
      <4> QED
        BY <1>1, <3>1, <3>3, <4>1, <4>3, <4>4, GetIsTyped
    <3> QED
      BY <1>5, <3>2, <3>3 DEF Pe!RemovalEnds
  <2>5. /\ removal' = None /\ drops \in Nat /\ sheet' \in Pe!Sheets
        /\ sheet'.kind = "delete" => sheet'.id \in Ids
    BY <1>1, <1>5, <2>4 DEF Pe!RemovalEnds, Pe!PeopleTypes, Pe!NoSheet, Pe!Sheets
  <2>6. Pe!NoDraftLeft'
    BY <1>1, <1>5, <2>5, MadeStays DEF Pe!RemovalEnds
  <2> QED
    BY <1>1, <1>5, <2>1, <2>2, <2>3, <2>4, <2>5, <2>6
    DEF Pe!RemovalEnds, Pe!PeopleInv, Pe!SelectionIsSafe, Pe!PeopleTypes, Pe!PickerCopies,
        Pe!RemovalIsTrue, Pe!world
<1> QED
  BY <1>2, <1>3, <1>4, <1>5

\* A draft is left behind only as a call is lost.
LEMMA MadeMoves ==
  ASSUME Pe!PeopleTypes, Pe!NoDraftLeft, NEW i \in Pe!Made, NEW m \in Pe!Makings,
         made' = [made EXCEPT ![i] = m], drops' \in {drops, drops + 1},
         m.step = "failed" /\ m.draft # "none" => drops' = drops + 1
  PROVE  Pe!NoDraftLeft' /\ made' \in [Pe!Made -> Pe!Makings]
<1>1. made' \in [Pe!Made -> Pe!Makings]
  BY DEF Pe!PeopleTypes
<1>2. PICK S : S = {j \in Pe!Made : made[j].step = "failed" /\ made[j].draft # "none"}
  OBVIOUS
<1>3. PICK R : R = {j \in Pe!Made : made'[j].step = "failed" /\ made'[j].draft # "none"}
  OBVIOUS
<1>4. Pe!NoDraftLeft = (Pe!Cardinality(S) <= drops) /\ Pe!NoDraftLeft' = (Pe!Cardinality(R) <= drops')
  BY <1>2, <1>3 DEF Pe!NoDraftLeft, Pe!At
<1>5. R \in SUBSET (S \cup {i}) /\ (drops' # drops + 1 => R \in SUBSET S)
  <2>1. \A j \in Pe!Made : made'[j] = IF j = i THEN m ELSE made[j]
    BY DEF Pe!PeopleTypes
  <2> QED
    BY <1>2, <1>3, <2>1
<1>6. /\ {Pe!Cardinality(S), Pe!Cardinality(R), drops} \subseteq Nat
      /\ Pe!Cardinality(R) <= Pe!Cardinality(S) + 1
      /\ drops' # drops + 1 => Pe!Cardinality(R) <= Pe!Cardinality(S)
  <2>1. S \in SUBSET Pe!Made /\ R \in SUBSET Pe!Made
    BY <1>2, <1>3
  <2> QED
    BY <1>5, <2>1, DraftsCount DEF Pe!PeopleTypes
<1>7. Pe!NoDraftLeft'
  <2>1. Pe!Cardinality(S) <= drops
    BY <1>4
  <2>2. Pe!Cardinality(R) <= drops'
    BY <1>6, <2>1
  <2> QED
    BY <1>4, <2>2
<1> QED
  BY <1>1, <1>7

\* A campaign made from the selection, call by call.
LEMMA MakingKeeps ==
  ASSUME Pe!PeopleInv, NEW i \in Pe!Made,
         Pe!MakeCampaign(i) \/ Pe!MakeStep(i) \/ Pe!MakeFailed(i) \/ Pe!MakeEnds(i)
  PROVE  Pe!PeopleInv'
<1>1. /\ Pe!PeopleTypes /\ Pe!NoDraftLeft /\ Pe!RemovedAreGone /\ Pe!RemovalIsTrue
      /\ Pe!PickerCopies /\ (sheet.kind = "delete" => sheet.id \in Ids)
  BY DEF Pe!PeopleInv, Pe!SelectionIsSafe
<1>2. where # "picker" /\ made[i] \in Pe!Makings /\ sheet \in Pe!Sheets /\ drops \in Nat
  BY <1>1 DEF Pe!MakeCampaign, Pe!MakeStep, Pe!MakeFailed, Pe!MakeEnds, Pe!At, Pe!PickerCopies,
              Pe!NoSheet, Pe!PeopleTypes
<1>3. ASSUME Pe!NoDraftLeft', made' \in [Pe!Made -> Pe!Makings], drops' \in Nat,
             where' \in {where, "left"}, sheet' \in Pe!Sheets, picked' \subseteq Ids,
             sheet'.kind = "delete" => sheet'.id \in Ids,
             UNCHANGED <<Pe!world, query, list, gets, edit, removal, copy, told, taps>>
      PROVE  Pe!PeopleInv'
  <2>1. Pe!PeopleTypes' /\ Pe!RemovedAreGone'
    BY <1>1, <1>2, <1>3 DEF Pe!PeopleTypes, Pe!RemovedAreGone, Pe!world
  <2> QED
    BY <1>1, <1>2, <1>3, <2>1
    DEF Pe!PeopleInv, Pe!SelectionIsSafe, Pe!RemovalIsTrue, Pe!PickerCopies, Pe!world
<1>4. CASE Pe!MakeCampaign(i)
  <2>1. PICK m \in Pe!Makings :
          m = [step |-> "create", ids |-> picked, draft |-> "none"]
    BY <1>1 DEF Pe!PeopleTypes, Pe!Makings, Pe!Picks
  <2>2. made' = [made EXCEPT ![i] = m]
    BY <1>4, <2>1 DEF Pe!MakeCampaign
  <2>3. Pe!NoDraftLeft' /\ made' \in [Pe!Made -> Pe!Makings] /\ drops' = drops
    BY <1>1, <1>4, <2>1, <2>2, MadeMoves DEF Pe!MakeCampaign
  <2>4. sheet' \in Pe!Sheets /\ sheet'.kind = "campaign"
    BY <1>2, <1>4 DEF Pe!MakeCampaign, Pe!Sheets
  <2> QED
    BY <1>1, <1>2, <1>3, <1>4, <2>3, <2>4 DEF Pe!MakeCampaign, Pe!PeopleTypes
<1>5. CASE Pe!MakeStep(i)
  <2>1. PICK s \in {"copy", "copied", "undo", "failed"}, d \in {"none", "empty", "filled"} :
          /\ made' = [made EXCEPT ![i] = [step |-> s, ids |-> made[i].ids, draft |-> d]]
          /\ drops' \in {drops, drops + 1}
          /\ s = "failed" /\ d # "none" => drops' = drops + 1
    <3>1. made[i].draft \in {"none", "empty", "filled"}
      BY <1>2 DEF Pe!Makings
    <3>2. \/ Pe!Put(i, "copy", "empty") /\ drops' = drops
          \/ drops' = drops + 1 /\ \E d \in {"none", "empty"} : Pe!Put(i, "failed", d)
          \/ (Pe!Goto(i, "undo") \/ Pe!Put(i, "copied", "filled")) /\ drops' = drops
          \/ drops' = drops + 1 /\ \E d \in {"empty", "filled"} : Pe!Put(i, "undo", d)
          \/ Pe!Put(i, "failed", "none") /\ drops' = drops
          \/ drops' = drops + 1 /\ \E d \in {made[i].draft, "none"} : Pe!Put(i, "failed", d)
      BY <1>5 DEF Pe!MakeStep, Pe!Drop, Pe!AfterRefusal
    <3> QED
      BY <3>1, <3>2 DEF Pe!Put, Pe!Goto
  <2>2. PICK m \in Pe!Makings : m = [step |-> s, ids |-> made[i].ids, draft |-> d]
    BY <1>2 DEF Pe!Makings
  <2>3. Pe!NoDraftLeft' /\ made' \in [Pe!Made -> Pe!Makings] /\ drops' \in Nat
    <3>1. made' = [made EXCEPT ![i] = m]
      BY <2>1, <2>2, Zenon
    <3>2. m.step = "failed" /\ m.draft # "none" => drops' = drops + 1
      BY <2>1, <2>2
    <3>3. drops' \in {drops, drops + 1} /\ drops' \in Nat
      BY <1>2, <2>1
    <3> QED
      BY ONLY <1>1, <3>1, <3>2, <3>3, MadeMoves
  <2> QED
    BY <1>1, <1>2, <1>3, <1>5, <2>3 DEF Pe!MakeStep, Pe!PeopleTypes
<1>6. CASE Pe!MakeFailed(i)
  <2>1. Pe!NoDraftLeft'
    BY <1>1, <1>2, <1>6, MadeStays DEF Pe!MakeFailed, Pe!calls
  <2>2. sheet' \in Pe!Sheets /\ sheet'.kind = "campaign"
    BY <1>2, <1>6 DEF Pe!MakeFailed, Pe!Sheets
  <2> QED
    BY <1>1, <1>2, <1>3, <1>6, <2>1, <2>2 DEF Pe!MakeFailed, Pe!PeopleTypes, Pe!calls
<1>7. CASE Pe!MakeEnds(i)
  <2>1. PICK m \in Pe!Makings :
          m = [step |-> "opened", ids |-> made[i].ids, draft |-> made[i].draft]
    BY <1>2 DEF Pe!Makings
  <2>2. made' = [made EXCEPT ![i] = m]
    BY <1>7, <2>1 DEF Pe!MakeEnds, Pe!Goto, Pe!Put
  <2>3. Pe!NoDraftLeft' /\ made' \in [Pe!Made -> Pe!Makings] /\ drops' = drops
    BY <1>1, <1>7, <2>1, <2>2, MadeMoves DEF Pe!MakeEnds
  <2>4. sheet' \in Pe!Sheets /\ sheet'.kind = "none"
    BY <1>7 DEF Pe!MakeEnds, Pe!Sheets, Pe!NoSheet
  <2> QED
    BY <1>1, <1>2, <1>3, <1>7, <2>3, <2>4 DEF Pe!MakeEnds, Pe!PeopleTypes
<1> QED
  BY <1>4, <1>5, <1>6, <1>7

\* The picker.
LEMMA PickingKeeps ==
  ASSUME Pe!PeopleInv, Pe!PickAdd \/ Pe!PickServed \/ Pe!Picked \/ Pe!PickMore
  PROVE  Pe!PeopleInv'
<1>1. /\ Pe!PeopleTypes /\ Pe!NoDraftLeft /\ Pe!RemovedAreGone /\ Pe!RemovalIsTrue
      /\ Pe!PickerCopies /\ (sheet.kind = "delete" => sheet.id \in Ids)
  BY DEF Pe!PeopleInv, Pe!SelectionIsSafe
<1>2. CASE Pe!PickServed
  <2>1. /\ drops \in Nat /\ drops' \in {drops, drops + 1} /\ members' \subseteq Ids
    BY <1>1, <1>2 DEF Pe!PickServed, Pe!Drop, Pe!PeopleTypes
  <2>2. copy' \in [ids : Pe!Picks, ans : {None, Failed} \cup Nat]
    <3>1. (copy.ids \cap entries) \ members \in SUBSET Ids
      BY <1>1 DEF Pe!PeopleTypes
    <3>2. Pe!Cardinality((copy.ids \cap entries) \ members) \in Nat
      BY <3>1, IdsCount
    <3> QED
      BY <1>1, <1>2, <3>2 DEF Pe!PickServed, Pe!PeopleTypes
  <2> QED
    BY <1>1, <1>2, <2>1, <2>2, ListKeeps DEF Pe!PickServed, Pe!PeopleTypes
<1>3. CASE Pe!PickAdd
  <2>1. copy' \in [ids : Pe!Picks, ans : {None, Failed} \cup Nat]
    BY <1>1, <1>3 DEF Pe!PickAdd, Pe!PeopleTypes, Pe!Picks
  <2> QED
    BY <1>1, <1>3, <2>1, ListKeeps DEF Pe!PickAdd, Pe!PeopleTypes, Pe!world
\* What the picker says is not about a removal.
<1>4. CASE Pe!Picked \/ Pe!PickMore
  <2>1. /\ where = "picker" /\ drops' = drops /\ drops \in Nat
        /\ UNCHANGED <<where, Pe!world, query, list, sheet, edit, removal, made, taps>>
    BY <1>1, <1>4 DEF Pe!Picked, Pe!PickMore, Pe!calls, Pe!PeopleTypes
  <2>2. /\ told' \in {None} \cup [ids : Pe!Picks, said : {None, Failed} \cup Nat]
        /\ copy' \in {None} \cup [ids : Pe!Picks, ans : {None, Failed} \cup Nat]
        /\ picked' \subseteq Ids /\ gets' \subseteq Pe!Gets
    <3>1. CASE Pe!Picked
      BY <1>1, <3>1 DEF Pe!Picked, Pe!PeopleTypes
    <3>2. CASE Pe!PickMore
      BY <1>1, <3>2, GetIsTyped DEF Pe!PickMore, Pe!PeopleTypes, Pe!calls
    <3> QED
      BY <1>4, <3>1, <3>2
  <2>3. Pe!PeopleTypes' /\ Pe!NoDraftLeft'
    BY <1>1, <2>1, <2>2, MadeStays DEF Pe!PeopleTypes, Pe!world
  <2> QED
    BY <1>1, <2>1, <2>3
    DEF Pe!PeopleInv, Pe!SelectionIsSafe, Pe!RemovedAreGone, Pe!RemovalIsTrue, Pe!PickerCopies,
        Pe!world, Pe!At
<1> QED
  BY <1>2, <1>3, <1>4

LEMMA PeopleKeeps ==
  ASSUME Pe!PeopleInv, Pe!Next \/ UNCHANGED peopleVars
  PROVE  Pe!PeopleInv'
<1>1. CASE UNCHANGED peopleVars
  <2>1. Pe!PeopleTypes' /\ (sheet'.kind = "delete" => sheet'.id \in Ids)
    BY <1>1 DEF peopleVars, Pe!PeopleInv, Pe!SelectionIsSafe, Pe!PeopleTypes
  <2> QED
    BY <1>1, <2>1, ListKeeps DEF peopleVars, Pe!PeopleInv, Pe!SelectionIsSafe, Pe!PeopleTypes
<1>2. CASE Pe!Next
  BY <1>2, ReadingKeeps, SheetsKeep, RemovingKeeps, MakingKeeps, PickingKeeps DEF Pe!Next
<1> QED
  BY <1>1, <1>2

-----------------------------------------------------------------------------
(* The send log: a follow-up writes once to each of those it was asked for, *)
(* whatever is sent or deleted meanwhile, and what the log still shows of a *)
(* day is within the ceiling.                                               *)

LEMMA LogConstants == IsFiniteSet(Recipients) /\ Ceiling \in Nat
BY FrontAssumption

LEMMA Finiteness == ASSUME NEW S PROVE Lo!IsFiniteSet(S) <=> IsFiniteSet(S)
BY DEF Lo!IsFiniteSet, IsFiniteSet

\* The rows there are to count.
LEMMA RowsCount ==
  ASSUME Lo!LogTypes, NEW S \in SUBSET journal
  PROVE  IsFiniteSet(S) /\ Lo!Cardinality(S) = Cardinality(S) /\ Lo!Cardinality(S) \in Nat
<1>1. IsFiniteSet(journal)
  BY Finiteness DEF Lo!LogTypes
<1> QED
  BY <1>1, Counting, FS_Subset, FS_CardinalityType

LEMMA LogStarts ==
  ASSUME Lo!Init PROVE Lo!LogInv
<1>1. PICK s \in SUBSET Recipients :
        /\ Lo!Cardinality(s) = Ceiling
        /\ roster = [p \in Recipients |-> IF p \in s THEN "sent" ELSE "pending"]
        /\ journal = {[who |-> p, outcome |-> "sent",
                        at |-> (CHOOSE t \in [s -> 1..Ceiling] :
                                  \A a, b \in s : t[a] = t[b] => a = b)[p]] : p \in s}
        /\ away = s
  BY Zenon DEF Lo!Init
<1>2. PICK turn : turn = CHOOSE t \in [s -> 1..Ceiling] : \A a, b \in s : t[a] = t[b] => a = b
  OBVIOUS
<1>3. IsFiniteSet(s) /\ Cardinality(s) = Ceiling
  BY <1>1, LogConstants, Counting, FS_Subset
\* There are as many numbers as contacts.
<1>4. turn \in [s -> 1..Ceiling]
  <2>1. PICK f : f \in Bijection(s, 1..Ceiling)
    BY <1>3, FS_CardinalityType, Fun_ExistsBijSymmetric DEF ExistsBijection
  <2>2. f \in [s -> 1..Ceiling] /\ \A a, b \in s : f[a] = f[b] => a = b
    BY <2>1 DEF Bijection, Injection, IsInjective
  <2> QED
    BY <1>2, <2>2, Zenon
<1>5. IsFiniteSet(journal) /\ Cardinality(journal) <= Ceiling /\ journal \subseteq Lo!Rows
  <2> DEFINE row(p) == [who |-> p, outcome |-> "sent", at |-> turn[p]]
  <2>1. IsFiniteSet({row(p) : p \in s}) /\ Cardinality({row(p) : p \in s}) <= Cardinality(s)
    <3> DEFINE rows == [p \in s |-> row(p)]
    <3>1. rows \in Surjection(s, {row(p) : p \in s})
      BY DEF Surjection
    <3> QED
      BY <1>3, <3>1, FS_Surjection
  <2>2. \A p \in s : row(p) \in Lo!Rows
    BY <1>4 DEF Lo!Rows, Lo!Outcomes
  <2> QED
    <3>1. journal = {row(p) : p \in s}
      BY <1>1, <1>2, Zenon
    <3> QED
      BY <1>3, <2>1, <2>2, <3>1
<1>6. Lo!Everything \in Lo!Sieves
  BY DEF Lo!Everything, Lo!Sieves, Lo!Outcomes
<1>7. Lo!LogTypes
  <2>1. looks \subseteq Lo!Looks
    BY <1>6 DEF Lo!Init, Lo!Look, Lo!Looks
  <2> QED
    BY <1>1, <1>5, <1>6, <2>1, Finiteness DEF Lo!Init, Lo!LogTypes, Lo!NoDialog
<1>8. Lo!DayIsLogged
  <2>1. Lo!SentRows \in SUBSET journal
    BY DEF Lo!SentRows
  <2>2. Lo!SentToday <= Ceiling
    <3>1. Cardinality(Lo!SentRows) <= Cardinality(journal)
          /\ {Cardinality(Lo!SentRows), Cardinality(journal)} \subseteq Nat
      BY <1>5, <2>1, FS_Subset, FS_CardinalityType
    <3> QED
      BY <1>5, <3>1, Counting, LogConstants DEF Lo!SentToday
  <2>3. \A p \in s : \E e \in Lo!SentRows : e.who = p
    <3>1. ASSUME NEW p \in s PROVE \E e \in journal : e.who = p /\ e.outcome = "sent"
      <4>1. [who |-> p, outcome |-> "sent", at |-> turn[p]] \in journal
        BY <1>1, <1>2
      <4> QED
        BY <4>1
    <3> QED
      BY <3>1 DEF Lo!SentRows
  <2> QED
    BY <1>1, <2>2, <2>3 DEF Lo!DayIsLogged
<1>9. Lo!FollowUpIsTrue /\ Lo!AnswerIsTrue
  BY DEF Lo!Init, Lo!FollowUpIsTrue, Lo!AnswerIsTrue, Lo!NoDialog
<1> QED
  BY <1>7, <1>8, <1>9 DEF Lo!LogInv

\* What a step that writes no row and answers no follow-up has to keep.
LEMMA LogStays ==
  ASSUME Lo!LogInv, Lo!LogTypes', UNCHANGED <<roster, journal, away, forgotten, drafts>>,
         relance'.ids = relance.ids, relance'.ans = relance.ans,
         table'.state = "left" => table.state = "left"
  PROVE  Lo!LogInv'
<1>1. Lo!FollowUpIsTrue /\ Lo!AnswerIsTrue /\ Lo!DayIsLogged
  BY DEF Lo!LogInv
<1>2. Lo!FollowUpIsTrue' /\ Lo!AnswerIsTrue'
  BY <1>1 DEF Lo!FollowUpIsTrue, Lo!AnswerIsTrue
<1>3. Lo!DayIsLogged'
  BY <1>1 DEF Lo!DayIsLogged, Lo!SentRows, Lo!SentToday
<1> QED
  BY <1>2, <1>3 DEF Lo!LogInv

\* The sent rows, as the log moves.
LEMMA SentCount ==
  ASSUME Lo!LogTypes
  PROVE  /\ IsFiniteSet(Lo!SentRows) /\ Lo!SentToday = Cardinality(Lo!SentRows)
         /\ Lo!SentToday \in Nat
BY RowsCount DEF Lo!SentRows, Lo!SentToday

\* A contact is settled once, and nobody comes back.
LEMMA NobodyComesBack ==
  ASSUME Lo!FollowUpIsTrue, Lo!AnswerIsTrue, UNCHANGED <<drafts, relance, table>>,
         \A p \in Recipients : roster'[p] # "gone" => roster[p] # "gone",
         drafts \subseteq [asked : SUBSET Recipients, to : SUBSET Recipients]
  PROVE  Lo!FollowUpIsTrue' /\ Lo!AnswerIsTrue'
<1>1. \A d \in drafts : \A p \in d.asked : roster'[p] # "gone" => roster[p] # "gone"
  OBVIOUS
<1> QED
  BY <1>1 DEF Lo!FollowUpIsTrue, Lo!AnswerIsTrue

\* The worker counts, sends and records.
LEMMA SendKeepsLog ==
  ASSUME Lo!LogInv, NEW p \in Recipients, Lo!Send(p)
  PROVE  Lo!LogInv'
<1>1. /\ Lo!LogTypes /\ Lo!FollowUpIsTrue /\ Lo!AnswerIsTrue /\ Lo!DayIsLogged
      /\ roster \in [Recipients -> {"pending", "sent", "failed", "gone"}]
  BY DEF Lo!LogInv, Lo!LogTypes
<1>2. PICK o \in {"sent", "failed"}, e \in Lo!Rows :
        /\ roster' = [roster EXCEPT ![p] = o] /\ journal' = journal \cup {e}
        /\ e.who = p /\ e.outcome = o
        /\ away' = IF o = "sent" THEN away \cup {p} ELSE away
  <2>1. PICK o \in Lo!Outcomes :
          /\ roster' = [roster EXCEPT ![p] = o] /\ journal' = journal \cup {Lo!NewRow(p, o)}
          /\ away' = IF o = "sent" THEN away \cup {p} ELSE away
    BY DEF Lo!Send
  <2>2. Lo!NewRow(p, o) \in Lo!Rows /\ Lo!NewRow(p, o).who = p /\ Lo!NewRow(p, o).outcome = o
    <3>1. Lo!Cardinality(Lo!Settled) \in Nat
      BY LogConstants, Counting, FS_Subset, FS_CardinalityType DEF Lo!Settled
    <3> QED
      BY <3>1 DEF Lo!NewRow, Lo!Rows
  <2> QED
    BY <2>1, <2>2 DEF Lo!Outcomes
<1>3. /\ UNCHANGED <<forgotten, table, sieve, ticked, looks, relance, drafts>>
      /\ roster[p] = "pending" /\ Lo!SentToday < Ceiling
  BY DEF Lo!Send, Lo!face
<1>4. Lo!LogTypes'
  <2>1. Lo!IsFiniteSet(journal')
    <3>1. IsFiniteSet(journal)
      BY <1>1, Finiteness DEF Lo!LogTypes
    <3>2. IsFiniteSet(journal \cup {e})
      BY <3>1, FS_AddElement
    <3> QED
      BY <1>2, <3>2, Finiteness
  <2>2. /\ roster' \in [Recipients -> {"pending", "sent", "failed", "gone"}]
        /\ journal' \subseteq Lo!Rows /\ away' \subseteq Recipients
    BY <1>1, <1>2 DEF Lo!LogTypes
  <2> QED
    BY <1>1, <1>3, <2>1, <2>2 DEF Lo!LogTypes
<1>5. Lo!FollowUpIsTrue' /\ Lo!AnswerIsTrue'
  <2>1. drafts \subseteq [asked : SUBSET Recipients, to : SUBSET Recipients]
    BY <1>1 DEF Lo!LogTypes
  <2>2. \A q \in Recipients : roster'[q] # "gone" => roster[q] # "gone"
    BY <1>1, <1>2, <1>3
  <2> QED
    BY <1>1, <1>3, <2>1, <2>2, NobodyComesBack
<1>6. Lo!DayIsLogged'
  <2>1. PICK S, R : S = {d \in journal : d.outcome = "sent"} /\ R = {d \in journal' : d.outcome = "sent"}
    OBVIOUS
  <2>2. R \subseteq S \cup {e} /\ S \subseteq R /\ (o = "sent" => e \in R)
    BY <1>2, <2>1
  <2>3. /\ Lo!SentRows = S /\ Lo!SentRows' = R /\ IsFiniteSet(S)
        /\ Cardinality(S) < Ceiling /\ Cardinality(S) \in Nat
    BY <1>1, <1>3, <2>1, SentCount DEF Lo!SentRows
  <2>4. Cardinality(R) <= Ceiling
    <3>1. /\ IsFiniteSet(S \cup {e})
          /\ Cardinality(S \cup {e}) = IF e \in S THEN Cardinality(S) ELSE Cardinality(S) + 1
      BY <2>3, FS_AddElement
    <3>2. {Cardinality(R), Cardinality(S \cup {e})} \subseteq Nat /\ Cardinality(R) <= Cardinality(S \cup {e})
      BY <2>2, <3>1, FS_Subset, FS_CardinalityType
    <3> QED
      BY <2>3, <3>1, <3>2, LogConstants
  <2>5. Lo!SentToday' <= Ceiling
    BY <1>4, <2>3, <2>4, Counting DEF Lo!SentToday
  <2>6. \A q \in away' \ forgotten' : \E d \in R : d.who = q
    BY <1>1, <1>2, <1>3, <2>2, <2>3 DEF Lo!DayIsLogged
  <2> QED
    BY <2>3, <2>5, <2>6 DEF Lo!DayIsLogged
<1> QED
  BY <1>4, <1>5, <1>6 DEF Lo!LogInv

\* A deletion takes rows out of the log, and their contacts with them.
LEMMA ForgetKeeps ==
  ASSUME Lo!LogInv, Lo!Forget
  PROVE  Lo!LogInv'
<1>1. /\ Lo!LogTypes /\ Lo!FollowUpIsTrue /\ Lo!AnswerIsTrue /\ Lo!DayIsLogged
      /\ roster \in [Recipients -> {"pending", "sent", "failed", "gone"}]
  BY DEF Lo!LogInv, Lo!LogTypes
<1>2. PICK g \in SUBSET Recipients : Lo!Cascade(g)
  BY DEF Lo!Forget
<1>3. UNCHANGED <<away, table, sieve, ticked, looks, relance, drafts>>
  BY DEF Lo!Forget, Lo!face
<1>4. /\ roster' = [q \in Recipients |-> IF q \in g THEN "gone" ELSE roster[q]]
      /\ journal' = {e \in journal : e.who \notin g}
      /\ forgotten' = forgotten \cup (away \cap g)
  BY <1>2 DEF Lo!Cascade
<1>5. Lo!LogTypes'
  <2>1. IsFiniteSet(journal')
    BY <1>1, <1>4, RowsCount
  <2>2. /\ roster' \in [Recipients -> {"pending", "sent", "failed", "gone"}]
        /\ journal' \subseteq Lo!Rows /\ forgotten' \subseteq Recipients
    BY <1>1, <1>4 DEF Lo!LogTypes
  <2> QED
    BY <1>1, <1>3, <2>1, <2>2, Finiteness DEF Lo!LogTypes
<1>6. Lo!FollowUpIsTrue' /\ Lo!AnswerIsTrue'
  <2>1. drafts \subseteq [asked : SUBSET Recipients, to : SUBSET Recipients]
    BY <1>1 DEF Lo!LogTypes
  <2>2. \A q \in Recipients : roster'[q] # "gone" => roster[q] # "gone"
    BY <1>1, <1>4
  <2> QED
    BY <1>1, <1>3, <2>1, <2>2, NobodyComesBack
<1>7. Lo!DayIsLogged'
  <2>1. PICK S, R : S = {d \in journal : d.outcome = "sent"} /\ R = {d \in journal' : d.outcome = "sent"}
    OBVIOUS
  <2>2. R = {d \in S : d.who \notin g}
    BY <1>4, <2>1
  <2>3. /\ Lo!SentRows = S /\ Lo!SentRows' = R /\ IsFiniteSet(S)
        /\ Cardinality(S) <= Ceiling /\ Cardinality(S) \in Nat
    BY <1>1, <2>1, SentCount DEF Lo!SentRows, Lo!DayIsLogged
  <2>4. Cardinality(R) <= Cardinality(S) /\ Cardinality(R) \in Nat
    BY <2>2, <2>3, FS_Subset, FS_CardinalityType
  <2>5. Lo!SentToday' <= Ceiling
    BY <2>3, <2>4, Counting, LogConstants DEF Lo!SentToday
  <2>6. \A q \in away' \ forgotten' : \E d \in R : d.who = q
    BY <1>1, <1>3, <1>4, <2>2, <2>3 DEF Lo!DayIsLogged
  <2> QED
    BY <2>3, <2>5, <2>6 DEF Lo!DayIsLogged
<1> QED
  BY <1>5, <1>6, <1>7 DEF Lo!LogInv

\* The history is read, and its filters and its selection move.
LEMMA HistoryKeeps ==
  ASSUME Lo!LogInv,
         \/ \E l \in looks : Lo!Serve(l) \/ Lo!Answered(l)
         \/ Lo!Retry \/ Lo!TurnPage \/ Lo!Deselect \/ Lo!OpenOrClose \/ Lo!Create
         \/ \E f \in Lo!Sieves : Lo!Refine(f)
         \/ \E ids \in SUBSET Lo!OnPage : Lo!Toggle(ids)
  PROVE  Lo!LogInv'
<1>1. Lo!LogTypes /\ relance \in [open : BOOLEAN, ids : SUBSET Recipients, ans : {None, Failed} \cup Nat]
  BY DEF Lo!LogInv, Lo!LogTypes
<1>2. ASSUME NEW f \in Lo!Sieves, Lo!Fetch(f) PROVE looks' \subseteq Lo!Looks
  <2>1. Lo!Look(f) \in Lo!Looks
    BY DEF Lo!Look, Lo!Looks
  <2> QED
    BY <1>1, <1>2, <2>1 DEF Lo!Fetch, Lo!LogTypes
<1>3. ASSUME NEW l \in looks, Lo!Serve(l) PROVE Lo!LogInv'
  <2>1. l \in Lo!Looks
    BY <1>1 DEF Lo!LogTypes
  <2>2. Lo!Fits(l.f) \in SUBSET journal /\ Lo!PageOf(l.f) \in SUBSET Lo!Rows
    BY <1>1 DEF Lo!Fits, Lo!Apart, Lo!PageOf, Lo!LogTypes
  <2>3. Lo!Cardinality(Lo!Fits(l.f)) \in Nat
    BY <1>1, <2>2, RowsCount
  <2>4. Lo!Tally(Lo!Apart(l.f)) \in Lo!Tabs
    <3>1. \A k \in Lo!Sources :
            Lo!Cardinality({e \in Lo!Apart(l.f) : CampaignOf[e.who] = k}) \in Nat
      <4> TAKE k \in Lo!Sources
      <4>1. {e \in Lo!Apart(l.f) : CampaignOf[e.who] = k} \in SUBSET journal
        BY DEF Lo!Apart
      <4> QED
        BY <1>1, <4>1, RowsCount
    <3> QED
      BY <3>1 DEF Lo!Tally, Lo!Tabs
  <2>5. PICK m \in Lo!Looks : looks' = (looks \ {l}) \cup {m}
    <3>1. PICK n, s, t : n = Lo!Cardinality(Lo!Fits(l.f)) /\ s = Lo!PageOf(l.f) /\ t = Lo!Tally(Lo!Apart(l.f))
      OBVIOUS
    <3>2. /\ [l EXCEPT !.total = n] \in Lo!Looks /\ [l EXCEPT !.rows = s] \in Lo!Looks
          /\ [l EXCEPT !.tabs = t] \in Lo!Looks /\ [l EXCEPT !.lost = TRUE] \in Lo!Looks
      BY <2>1, <2>2, <2>3, <2>4, <3>1 DEF Lo!Looks
    <3>3. \/ looks' = (looks \ {l}) \cup {[l EXCEPT !.total = n]}
          \/ looks' = (looks \ {l}) \cup {[l EXCEPT !.rows = s]}
          \/ looks' = (looks \ {l}) \cup {[l EXCEPT !.tabs = t]}
          \/ looks' = (looks \ {l}) \cup {[l EXCEPT !.lost = TRUE]}
      BY <1>3, <3>1 DEF Lo!Serve
    <3> QED
      BY <3>2, <3>3
  <2>6. UNCHANGED <<Lo!store, Lo!face, relance, drafts>>
    BY <1>3 DEF Lo!Serve
  <2>7. Lo!LogTypes'
    BY <1>1, <2>5, <2>6 DEF Lo!LogTypes, Lo!store, Lo!face
  <2> QED
    BY <2>6, <2>7, LogStays DEF Lo!store, Lo!face
<1>4. ASSUME NEW l \in looks, Lo!Answered(l) PROVE Lo!LogInv'
  <2>1. l \in Lo!Looks
    BY <1>1 DEF Lo!LogTypes
  <2>2. UNCHANGED <<Lo!store, sieve, ticked, relance, drafts>> /\ looks' = looks \ {l}
    BY <1>4 DEF Lo!Answered
  <2>3. \/ table' = [table EXCEPT !.state = "failed"]
        \/ /\ None \notin {l.total, l.rows, l.tabs}
           /\ table' = [state |-> "ready", rows |-> l.rows, total |-> l.total, tabs |-> l.tabs]
    BY <1>4 DEF Lo!Answered
  <2>4. /\ DOMAIN table' = {"state", "rows", "total", "tabs"}
        /\ table'.state \in {"ready", "failed"} /\ table'.rows \subseteq Lo!Rows
        /\ table'.total \in Nat /\ table'.tabs \in {None} \cup Lo!Tabs
    BY <1>1, <2>1, <2>3 DEF Lo!LogTypes, Lo!Looks
  <2>5. Lo!LogTypes'
    BY <1>1, <2>2, <2>4 DEF Lo!LogTypes, Lo!store
  <2> QED
    BY <2>2, <2>4, <2>5, LogStays DEF Lo!store
<1>5. CASE Lo!Retry
  <2>1. UNCHANGED <<Lo!store, sieve, ticked, relance, drafts>> /\ looks' \subseteq Lo!Looks
    BY <1>1, <1>2, <1>5 DEF Lo!Retry, Lo!LogTypes
  <2>2. /\ DOMAIN table' = {"state", "rows", "total", "tabs"} /\ table'.state = "loading"
        /\ table'.rows = table.rows /\ table'.total = table.total /\ table'.tabs = table.tabs
    BY <1>1, <1>5 DEF Lo!Retry, Lo!LogTypes
  <2>3. Lo!LogTypes'
    BY <1>1, <2>1, <2>2 DEF Lo!LogTypes, Lo!store
  <2> QED
    BY <2>1, <2>2, <2>3, LogStays DEF Lo!store
<1>6. ASSUME sieve' \in Lo!Sieves, Lo!Fetch(sieve'),
             UNCHANGED <<Lo!store, table, ticked, relance, drafts>>
      PROVE  Lo!LogInv'
  <2>1. looks' \subseteq Lo!Looks
    BY <1>2, <1>6
  <2>2. Lo!LogTypes'
    BY <1>1, <1>6, <2>1 DEF Lo!LogTypes, Lo!store
  <2> QED
    BY <1>6, <2>2, LogStays DEF Lo!store
<1>7. ASSUME NEW f \in Lo!Sieves, Lo!Refine(f) PROVE Lo!LogInv'
  <2>1. sieve' \in Lo!Sieves
    BY <1>7 DEF Lo!Refine, Lo!Sieves
  <2> QED
    BY <1>6, <1>7, <2>1 DEF Lo!Refine
<1>8. CASE Lo!TurnPage
  <2>1. sieve' \in Lo!Sieves
    <3>1. sieve \in Lo!Sieves /\ PageLen \in Nat
      BY <1>1, FrontAssumption DEF Lo!LogTypes
    <3> QED
      BY <1>8, <3>1 DEF Lo!TurnPage, Lo!Sieves
  <2> QED
    BY <1>6, <1>8, <2>1 DEF Lo!TurnPage
<1>9. ASSUME ticked' \subseteq Recipients,
             UNCHANGED <<Lo!store, table, sieve, looks, drafts>>,
             relance' \in [open : BOOLEAN, ids : SUBSET Recipients, ans : {None, Failed} \cup Nat],
             relance'.ids = relance.ids, relance'.ans = relance.ans
      PROVE  Lo!LogInv'
  <2>1. Lo!LogTypes'
    BY <1>1, <1>9 DEF Lo!LogTypes, Lo!store
  <2> QED
    BY <1>9, <2>1, LogStays DEF Lo!store
<1>10. ASSUME NEW ids \in SUBSET Lo!OnPage, Lo!Toggle(ids) PROVE Lo!LogInv'
  <2>1. ticked' \subseteq Recipients
    BY <1>1, <1>10 DEF Lo!Toggle, Lo!OnPage, Lo!LogTypes, Lo!Rows
  <2> QED
    BY <1>1, <1>9, <1>10, <2>1 DEF Lo!Toggle
<1>11. CASE Lo!Deselect
  BY <1>1, <1>9, <1>11 DEF Lo!Deselect
<1>12. CASE Lo!OpenOrClose
  BY <1>1, <1>9, <1>12 DEF Lo!OpenOrClose, Lo!face, Lo!LogTypes
\* A creation is asked for once the last is answered.
<1>13. CASE Lo!Create
  <2>1. /\ relance' = [relance EXCEPT !.ids = ticked] /\ relance.ids = {}
        /\ UNCHANGED <<Lo!store, Lo!face, looks, drafts>>
    BY <1>13 DEF Lo!Create
  <2>2. relance'.ans = relance.ans /\ relance'.ids = ticked /\ relance.ans = None
    BY <1>1, <2>1 DEF Lo!LogInv, Lo!AnswerIsTrue
  <2>3. Lo!LogTypes'
    BY <1>1, <2>1 DEF Lo!LogTypes, Lo!store, Lo!face
  <2>4. Lo!FollowUpIsTrue' /\ Lo!AnswerIsTrue'
    BY <2>1, <2>2 DEF Lo!LogInv, Lo!FollowUpIsTrue, Lo!AnswerIsTrue, Lo!store, Lo!face
  <2>5. Lo!DayIsLogged'
    BY <2>1 DEF Lo!LogInv, Lo!DayIsLogged, Lo!SentRows, Lo!SentToday, Lo!store
  <2> QED
    BY <2>3, <2>4, <2>5 DEF Lo!LogInv
<1> QED
  BY <1>3, <1>4, <1>5, <1>7, <1>8, <1>10, <1>11, <1>12, <1>13

\* One address, one message: a follow-up holds one contact of each address asked for.
LEMMA CopiesAreOfEach ==
  ASSUME NEW ids \in SUBSET Recipients, NEW to \in Lo!Copies(ids)
  PROVE  /\ to \subseteq ids
         /\ \A p, q \in to : AddressOf[p] = AddressOf[q] => p = q
         /\ \A p \in ids : \E q \in to : AddressOf[q] = AddressOf[p]
<1>1. to \subseteq ids /\ \A p \in ids : Lo!Cardinality({q \in to : AddressOf[q] = AddressOf[p]}) = 1
  BY DEF Lo!Copies
<1>2. ASSUME NEW p \in ids
      PROVE  \E x : {q \in to : AddressOf[q] = AddressOf[p]} = {x}
  <2>1. IsFiniteSet({q \in to : AddressOf[q] = AddressOf[p]})
    BY <1>1, LogConstants, FS_Subset
  <2>2. Cardinality({q \in to : AddressOf[q] = AddressOf[p]}) = 1
    BY <1>1, Counting
  <2> QED
    BY <2>1, <2>2, FS_Singleton
<1>3. ASSUME NEW p \in ids PROVE \E q \in to : AddressOf[q] = AddressOf[p]
  BY <1>2
<1>4. ASSUME NEW p \in to, NEW q \in to, AddressOf[p] = AddressOf[q] PROVE p = q
  <2>1. PICK x : {r \in to : AddressOf[r] = AddressOf[p]} = {x}
    BY <1>1, <1>2
  <2>2. p \in {r \in to : AddressOf[r] = AddressOf[p]} /\ q \in {r \in to : AddressOf[r] = AddressOf[p]}
    BY <1>4
  <2> QED
    BY <2>1, <2>2
<1> QED
  BY <1>1, <1>3, <1>4

\* The answer is that of the follow-up made, if one was.
LEMMA FollowUpKeeps ==
  ASSUME Lo!LogInv, Lo!ServeFollowUp
  PROVE  Lo!LogInv'
<1>1. /\ Lo!LogTypes /\ Lo!FollowUpIsTrue /\ Lo!AnswerIsTrue /\ Lo!DayIsLogged
      /\ relance \in [open : BOOLEAN, ids : SUBSET Recipients, ans : {None, Failed} \cup Nat]
  BY DEF Lo!LogInv, Lo!LogTypes
<1>2. PICK ids, to : /\ ids = {p \in relance.ids : roster[p] # "gone"} /\ to \in Lo!Copies(ids)
                     /\ LET more == drafts \cup {[asked |-> relance.ids, to |-> to]} IN
                        \/ /\ drafts' = (IF to = {} THEN drafts ELSE more)
                           /\ relance' = [relance EXCEPT !.ans =
                                            IF to = {} THEN Failed ELSE Lo!Cardinality(to)]
                        \/ drafts' \in {drafts, more} /\ relance' = [relance EXCEPT !.ans = Failed]
  BY DEF Lo!ServeFollowUp
<1>3. /\ UNCHANGED <<Lo!store, Lo!face, looks>> /\ relance.ids # {} /\ relance.ans = None
  BY DEF Lo!ServeFollowUp
<1>4. /\ ids \in SUBSET Recipients /\ to \subseteq relance.ids /\ relance.ids \subseteq Recipients
      /\ \A p, q \in to : AddressOf[p] = AddressOf[q] => p = q
      /\ \A p \in relance.ids : roster[p] # "gone" => \E q \in to : AddressOf[q] = AddressOf[p]
  BY <1>1, <1>2, CopiesAreOfEach
<1>5. Lo!Cardinality(to) \in Nat
  BY <1>4, LogConstants, Counting, FS_Subset, FS_CardinalityType
<1>6. PICK d, a :
        /\ d = [asked |-> relance.ids, to |-> to] /\ drafts' \in {drafts, drafts \cup {d}}
        /\ relance' = [relance EXCEPT !.ans = a]
        /\ a = Failed \/ (a = Lo!Cardinality(to) /\ drafts' = drafts \cup {d})
  BY <1>2
<1>7. /\ relance' = [open |-> relance.open, ids |-> relance.ids, ans |-> a]
      /\ d.asked = relance.ids /\ d.to = to
  BY <1>1, <1>6
<1>8. Lo!LogTypes'
  <2>1. d \in [asked : SUBSET Recipients, to : SUBSET Recipients]
    BY <1>4, <1>6
  <2>2. relance' \in [open : BOOLEAN, ids : SUBSET Recipients, ans : {None, Failed} \cup Nat]
    BY <1>1, <1>5, <1>6, <1>7
  <2>3. drafts' \subseteq [asked : SUBSET Recipients, to : SUBSET Recipients]
    BY <1>1, <1>6, <2>1 DEF Lo!LogTypes
  <2> QED
    BY <1>1, <1>3, <2>2, <2>3 DEF Lo!LogTypes, Lo!store, Lo!face
<1>9. Lo!FollowUpIsTrue' /\ Lo!AnswerIsTrue'
  <2>1. UNCHANGED <<roster, table>> /\ table.state # "left" /\ drafts \subseteq drafts'
    BY <1>1, <1>3, <1>6 DEF Lo!AnswerIsTrue, Lo!store, Lo!face
  <2>2. Lo!AnswerIsTrue'
    BY <1>3, <1>6, <1>7, <2>1 DEF Lo!AnswerIsTrue
  <2>3. \A c \in drafts' : c = d \/ c \in drafts
    BY <1>6
  <2> QED
    BY <1>1, <1>4, <1>7, <2>1, <2>2, <2>3 DEF Lo!FollowUpIsTrue
<1>10. Lo!DayIsLogged'
  BY <1>1, <1>3 DEF Lo!DayIsLogged, Lo!SentRows, Lo!SentToday, Lo!store
<1> QED
  BY <1>8, <1>9, <1>10 DEF Lo!LogInv

\* The page of a follow-up opens on the answer of its creation.
LEMMA FollowedKeeps ==
  ASSUME Lo!LogInv, Lo!Followed
  PROVE  Lo!LogInv'
<1>1. /\ Lo!LogTypes /\ Lo!FollowUpIsTrue /\ Lo!AnswerIsTrue /\ Lo!DayIsLogged
      /\ relance \in [open : BOOLEAN, ids : SUBSET Recipients, ans : {None, Failed} \cup Nat]
  BY DEF Lo!LogInv, Lo!LogTypes
<1>2. UNCHANGED <<Lo!store, looks, sieve, drafts>> /\ relance.ans # None /\ table.state # "left"
  BY DEF Lo!Followed
<1>3. \/ /\ relance.ans = Failed /\ UNCHANGED <<table, ticked>>
         /\ relance' = [open |-> relance.open, ids |-> {}, ans |-> None]
      \/ /\ relance.ans # Failed /\ table' = [table EXCEPT !.state = "left"] /\ ticked' = {}
         /\ relance' = [open |-> FALSE, ids |-> relance.ids, ans |-> relance.ans]
  BY <1>1 DEF Lo!Followed
<1>4. Lo!LogTypes'
  <2>1. /\ DOMAIN table' = {"state", "rows", "total", "tabs"}
        /\ table'.state \in {"loading", "ready", "failed", "left"} /\ table'.rows \subseteq Lo!Rows
        /\ table'.total \in Nat /\ table'.tabs \in {None} \cup Lo!Tabs
        /\ ticked' \subseteq Recipients
    BY <1>1, <1>3 DEF Lo!LogTypes
  <2>2. relance' \in [open : BOOLEAN, ids : SUBSET Recipients, ans : {None, Failed} \cup Nat]
    <3>1. CASE relance' = [open |-> relance.open, ids |-> {}, ans |-> None]
      <4>1. relance.open \in BOOLEAN /\ {} \in SUBSET Recipients
        BY <1>1
      <4> QED
        BY <3>1, <4>1
    <3>2. CASE relance' = [open |-> FALSE, ids |-> relance.ids, ans |-> relance.ans]
      <4>1. relance.ids \in SUBSET Recipients /\ relance.ans \in {None, Failed} \cup Nat
        BY <1>1
      <4> QED
        BY <3>2, <4>1
    <3> QED
      BY <1>3, <3>1, <3>2
  <2> QED
    BY <1>1, <1>2, <2>1, <2>2 DEF Lo!LogTypes, Lo!store
<1>5. Lo!FollowUpIsTrue' /\ Lo!AnswerIsTrue'
  BY <1>1, <1>2, <1>3 DEF Lo!FollowUpIsTrue, Lo!AnswerIsTrue, Lo!store
<1>6. Lo!DayIsLogged'
  BY <1>1, <1>2 DEF Lo!DayIsLogged, Lo!SentRows, Lo!SentToday, Lo!store
<1> QED
  BY <1>4, <1>5, <1>6 DEF Lo!LogInv

LEMMA LogKeeps ==
  ASSUME Lo!LogInv, Lo!Next \/ UNCHANGED logVars
  PROVE  Lo!LogInv'
<1>1. Lo!LogTypes
  BY DEF Lo!LogInv
<1>2. CASE UNCHANGED logVars
  <2>1. Lo!LogTypes'
    BY <1>1, <1>2 DEF logVars, Lo!LogTypes
  <2> QED
    BY <1>2, <2>1, LogStays DEF logVars
<1>3. CASE Lo!Next
  <2>1. ASSUME NEW k \in Lo!Only(Lo!Sources), Lo!Refine([sieve EXCEPT !.type = k])
                                              \/ Lo!Refine([sieve EXCEPT !.campaign = k])
        PROVE  Lo!LogInv'
    <3>1. [sieve EXCEPT !.type = k] \in Lo!Sieves /\ [sieve EXCEPT !.campaign = k] \in Lo!Sieves
      BY <1>1 DEF Lo!LogTypes, Lo!Sieves, Lo!Only
    <3> QED
      BY <2>1, <3>1, HistoryKeeps
  <2>2. ASSUME NEW o \in Lo!Only(Lo!Outcomes), Lo!Refine([sieve EXCEPT !.outcome = o])
        PROVE  Lo!LogInv'
    <3>1. [sieve EXCEPT !.outcome = o] \in Lo!Sieves
      BY <1>1 DEF Lo!LogTypes, Lo!Sieves, Lo!Only
    <3> QED
      BY <2>2, <3>1, HistoryKeeps
  <2>3. Lo!Toggle(Lo!OnPage) \/ (\E p \in Lo!OnPage : Lo!Toggle({p})) => Lo!LogInv'
    <3>1. Lo!OnPage \in SUBSET Lo!OnPage /\ \A p \in Lo!OnPage : {p} \in SUBSET Lo!OnPage
      OBVIOUS
    <3> QED
      BY <3>1, HistoryKeeps
  <2> QED
    BY <1>3, <2>1, <2>2, <2>3, SendKeepsLog, ForgetKeeps, HistoryKeeps, FollowUpKeeps, FollowedKeeps
    DEF Lo!Next
<1> QED
  BY <1>2, <1>3

\* What left in a day and was not forgotten is as many as the log shows, at most.
LEMMA LoggedIsBounded == Lo!LogInv => Lo!DayIsBounded
<1> SUFFICES ASSUME Lo!LogInv PROVE Lo!DayIsBounded
  OBVIOUS
<1>1. /\ Lo!LogTypes /\ Lo!SentToday <= Ceiling
      /\ \A p \in away \ forgotten : \E e \in Lo!SentRows : e.who = p
  BY DEF Lo!LogInv, Lo!DayIsLogged
<1>2. PICK S : S = Lo!SentRows
  OBVIOUS
<1>3. IsFiniteSet(S) /\ Cardinality(S) <= Ceiling /\ Cardinality(S) \in Nat
  BY <1>1, <1>2, SentCount
<1> DEFINE by == [e \in S |-> e.who]
           names == {e.who : e \in S}
<1>4. IsFiniteSet(names) /\ Cardinality(names) <= Cardinality(S)
  <2>1. by \in Surjection(S, names)
    BY DEF Surjection
  <2> QED
    BY <1>3, <2>1, FS_Surjection
<1>5. away \ forgotten \subseteq names
  BY <1>1, <1>2
<1>6. Cardinality(away \ forgotten) <= Cardinality(names)
      /\ {Cardinality(away \ forgotten), Cardinality(names)} \subseteq Nat
  BY <1>4, <1>5, FS_Subset, FS_CardinalityType
<1> QED
  BY <1>3, <1>4, <1>6, LogConstants, Counting DEF Lo!DayIsBounded

\* Whatever the page is, it keeps its own invariant: only its own steps move it.
LEMMA SelectionSteps ==
  ASSUME [Next]_vars
  PROVE  /\ page' = page
         /\ page = "people" => Pe!Next \/ UNCHANGED peopleVars
         /\ page = "log" => Lo!Next \/ UNCHANGED logVars
<1>1. CASE People
  BY <1>1 DEF People
<1>2. CASE Log
  BY <1>2 DEF Log
<1>3. CASE Editor \/ Import \/ Home \/ Session
  BY <1>3 DEF Editor, EditorOnly, Import, Home, Session
<1>4. CASE UNCHANGED vars
  BY <1>4 DEF vars, pages
<1> QED
  BY <1>1, <1>2, <1>3, <1>4 DEF Next

LEMMA SelectionInv ==
  Spec => [](/\ page = "people" => Pe!PeopleInv
             /\ page = "log" => Lo!LogInv)
<1> DEFINE Inv == /\ page = "people" => Pe!PeopleInv
                  /\ page = "log" => Lo!LogInv
<1>1. Init => Inv
  BY PeopleStarts, LogStarts DEF Init
<1>2. Inv /\ [Next]_vars => Inv'
  <2> SUFFICES ASSUME Inv, [Next]_vars PROVE Inv'
    OBVIOUS
  <2>1. ASSUME page' = "people" PROVE Pe!PeopleInv'
    BY <2>1, SelectionSteps, PeopleKeeps
  <2>2. ASSUME page' = "log" PROVE Lo!LogInv'
    BY <2>2, SelectionSteps, LogKeeps
  <2> QED
    BY <2>1, <2>2
<1> QED
  BY <1>1, <1>2, PTL DEF Spec

\* A removal says no more than what is gone, a campaign that could not be made from a
\* selection leaves no draft but to a call lost, and a follow-up writes once to each
\* address it names, for every number of contacts, calls in flight and calls lost.
THEOREM SelectionsAreSafe == Spec => []SelectionIsSafe
<1> DEFINE Inv == /\ page = "people" => Pe!PeopleInv
                  /\ page = "log" => Lo!LogInv
<1>1. Spec => []Inv
  BY SelectionInv
<1>2. Inv => SelectionIsSafe
  BY DEF SelectionIsSafe, Pe!PeopleInv, Lo!LogInv
<1> QED
  BY <1>1, <1>2, PTL

\* The sends of a day pass the ceiling by no more than what a deletion took from the log,
\* for every ceiling and every number of contacts and campaigns.
THEOREM DayStaysBounded == Spec => [](page = "log" => Lo!DayIsBounded)
<1> DEFINE Inv == /\ page = "people" => Pe!PeopleInv
                  /\ page = "log" => Lo!LogInv
<1>1. Spec => []Inv
  BY SelectionInv
<1>2. Inv => (page = "log" => Lo!DayIsBounded)
  BY LoggedIsBounded
<1> QED
  BY <1>1, <1>2, PTL
-----------------------------------------------------------------------------
(* Sums.  Total folds over a set in an order of TLC's choosing: that it is *)
(* the sum whatever the order, and what follows of sums, by the smallest   *)
(* set for which it would not be so.                                       *)

Chosen(s) == CHOOSE x \in s : TRUE

\* What the definition of Total computes, for every subset.
Summed(h, f, top) ==
  h = [s \in SUBSET top |-> IF s = {} THEN 0 ELSE f[Chosen(s)] + h[s \ {Chosen(s)}]]

\* The sum over a part.
Part(f, s) == [x \in s |-> f[x]]
On(f, s) == Ho!Total(Part(f, s))

LEMMA ChosenIn == \A s : s # {} => Chosen(s) \in s
BY DEF Chosen

\* A set of subsets of a finite set has a smallest one in it.
LEMMA SmallestOf ==
  ASSUME NEW top, IsFiniteSet(top), NEW bad \in SUBSET SUBSET top, bad # {}
  PROVE  \E s \in bad : \A r \in SUBSET s : r # s => r \notin bad
<1>1. bad \subseteq FiniteSubsetsOf(top)
  BY FS_Subset DEF FiniteSubsetsOf
<1>2. \E s \in bad : \A r \in bad : <<r, s>> \notin StrictSubsetOrdering(top)
  BY <1>1, WFMin, FS_StrictSubsetOrderingWellFounded
<1>3. PICK s \in bad : \A r \in bad : <<r, s>> \notin StrictSubsetOrdering(top)
  BY <1>2
<1>4. ASSUME NEW r \in SUBSET s, r # s, r \in bad PROVE FALSE
  BY <1>3, <1>4 DEF StrictSubsetOrdering
<1>5. QED
  BY <1>4

\* Two folds over sets one of which contains the other agree, if what they add does.
LEMMA SummedAgree ==
  ASSUME NEW a, NEW b, NEW e, NEW f, NEW g, NEW h, IsFiniteSet(a), a \subseteq b,
         \A x \in a : e[x] = f[x], Summed(g, e, a), Summed(h, f, b)
  PROVE  \A s \in SUBSET a : g[s] = h[s]
<1> DEFINE bad == {s \in SUBSET a : g[s] # h[s]}
<1>1. SUFFICES ASSUME bad # {} PROVE FALSE
  OBVIOUS
<1>2. bad \in SUBSET SUBSET a
  OBVIOUS
<1>3. PICK s \in bad : \A r \in SUBSET s : r # s => r \notin bad
  <2> HIDE DEF bad
  <2> QED
  BY <1>1, <1>2, SmallestOf
<1>4. g[s] = IF s = {} THEN 0 ELSE e[Chosen(s)] + g[s \ {Chosen(s)}]
  BY DEF Summed
<1>5. h[s] = IF s = {} THEN 0 ELSE f[Chosen(s)] + h[s \ {Chosen(s)}]
  BY DEF Summed
<1>6. s # {}
  BY <1>4, <1>5
<1>7. g[s \ {Chosen(s)}] = h[s \ {Chosen(s)}] /\ e[Chosen(s)] = f[Chosen(s)]
  BY <1>3, <1>6, ChosenIn
<1>8. QED
  BY <1>4, <1>5, <1>7

LEMMA SummedExists ==
  ASSUME NEW top, NEW f, IsFiniteSet(top)
  PROVE  \E h : Summed(h, f, top)
<1> DEFINE bad == {s \in SUBSET top : ~ \E h : Summed(h, f, s)}
<1>1. SUFFICES ASSUME bad # {} PROVE FALSE
  OBVIOUS
<1>2. bad \in SUBSET SUBSET top
  OBVIOUS
<1>3. PICK t \in bad : \A r \in SUBSET t : r # t => r \notin bad
  <2> HIDE DEF bad
  <2> QED
  BY <1>1, <1>2, SmallestOf
<1> DEFINE G(s) == CHOOSE h : Summed(h, f, s)
           Step(s) == f[Chosen(s)] + G(s \ {Chosen(s)})[s \ {Chosen(s)}]
           k == [s \in SUBSET t |-> IF s = {} THEN 0 ELSE Step(s)]
<1>4. \A s \in SUBSET t : s # t => Summed(G(s), f, s)
  BY <1>3
<1>5. ASSUME NEW s \in SUBSET t, s # t
      PROVE  k[s] = G(s)[s]
  <2>1. Summed(G(s), f, s)
    BY <1>4, <1>5
  <2>2. G(s)[s] = IF s = {} THEN 0 ELSE f[Chosen(s)] + G(s)[s \ {Chosen(s)}]
    <3> HIDE DEF G
    <3> QED
    BY <2>1 DEF Summed
  <2>3. CASE s = {}
    BY <2>2, <2>3
  <2>4. CASE s # {}
    <3> DEFINE r == s \ {Chosen(s)}
    <3>1. r \in SUBSET t /\ r # t /\ r \subseteq s
      BY <1>5
    <3>2. Summed(G(r), f, r) /\ IsFiniteSet(r)
      BY <1>4, <3>1, FS_Subset
    <3>3. G(r)[r] = G(s)[r]
      <4> HIDE DEF G, r
      <4> QED
        BY <2>1, <3>1, <3>2, SummedAgree
    <3>4. k[s] = f[Chosen(s)] + G(r)[r]
      BY <2>4
    <3> QED
      BY <2>2, <2>4, <3>3, <3>4
  <2> QED
    BY <2>3, <2>4
<1>6. ASSUME NEW s \in SUBSET t
      PROVE  k[s] = IF s = {} THEN 0 ELSE f[Chosen(s)] + k[s \ {Chosen(s)}]
  <2>1. CASE s = {}
    BY <2>1
  <2>2. CASE s # {}
    <3> DEFINE r == s \ {Chosen(s)}
    <3>1. r \in SUBSET t /\ r # t
      BY <2>2, ChosenIn
    <3>2. k[r] = G(r)[r]
      BY <1>5, <3>1
    <3>3. k[s] = f[Chosen(s)] + G(r)[r]
      BY <2>2
    <3> HIDE DEF G, k, r
    <3>4. k[s] = f[Chosen(s)] + k[r]
      BY <3>2, <3>3
    <3> QED
      BY <2>2, <3>4 DEF r
  <2> QED
    BY <2>1, <2>2
<1>7. Summed(k, f, t)
  <2> DEFINE l == [s \in SUBSET t |-> IF s = {} THEN 0 ELSE f[Chosen(s)] + k[s \ {Chosen(s)}]]
  <2>1. k = [s \in SUBSET t |-> k[s]]
    OBVIOUS
  <2> HIDE DEF k
  <2>2. k = l
    BY <1>6, <2>1
  <2>3. QED
    BY <2>2 DEF Summed
<1>8. QED
  BY <1>3, <1>7

LEMMA TotalFolds ==
  ASSUME NEW f, IsFiniteSet(DOMAIN f)
  PROVE  \E h : Summed(h, f, DOMAIN f) /\ Ho!Total(f) = h[DOMAIN f]
<1> DEFINE h == CHOOSE h : Summed(h, f, DOMAIN f)
<1>1. Summed(h, f, DOMAIN f)
  BY SummedExists
<1>2. Ho!Total(f) = h[DOMAIN f]
  BY DEF Ho!Total, Ho!MapThenSumSet, Ho!MapThenFoldSet, Summed, Chosen
<1>3. QED
  BY <1>1, <1>2

LEMMA TotalOfNone == \A f : DOMAIN f = {} => Ho!Total(f) = 0
<1> SUFFICES ASSUME NEW f, DOMAIN f = {} PROVE Ho!Total(f) = 0
  OBVIOUS
<1>1. PICK h : Summed(h, f, {}) /\ Ho!Total(f) = h[{}]
  BY TotalFolds, FS_EmptySet
<1>2. QED
  BY <1>1 DEF Summed

LEMMA TotalChosen ==
  ASSUME NEW s, IsFiniteSet(s), s # {}, NEW f
  PROVE  On(f, s) = f[Chosen(s)] + On(f, s \ {Chosen(s)})
<1> DEFINE c == Chosen(s)
           t == s \ {c}
<1>0. IsFiniteSet(t) /\ DOMAIN Part(f, s) = s /\ DOMAIN Part(f, t) = t
  BY FS_Subset DEF Part
<1>1. PICK h : Summed(h, Part(f, s), s) /\ On(f, s) = h[s]
  BY <1>0, TotalFolds DEF On
<1>2. PICK g : Summed(g, Part(f, t), t) /\ On(f, t) = g[t]
  <2> HIDE DEF t
  <2> QED
  BY <1>0, TotalFolds DEF On
<1>3. c \in s
  BY ChosenIn
<1>4. h[s] = f[c] + h[t]
  BY <1>1, <1>3 DEF Summed, Part
<1>5. g[t] = h[t]
  <2>1. \A x \in t : Part(f, t)[x] = Part(f, s)[x]
    BY DEF Part
  <2>2. IsFiniteSet(t) /\ t \subseteq s
    BY FS_Subset
  <2> HIDE DEF t, c
  <2>3. QED
    BY <1>1, <1>2, <2>1, <2>2, SummedAgree
<1>6. QED
  BY <1>1, <1>2, <1>4, <1>5

LEMMA OnNone == \A f : On(f, {}) = 0
BY TotalOfNone DEF On, Part

LEMMA OnAll == \A f : f = [x \in DOMAIN f |-> f[x]] => Ho!Total(f) = On(f, DOMAIN f)
BY DEF On, Part

LEMMA OnInt ==
  ASSUME NEW top, IsFiniteSet(top), NEW f \in [top -> Int]
  PROVE  \A s \in SUBSET top : On(f, s) \in Int
<1> DEFINE bad == {s \in SUBSET top : On(f, s) \notin Int}
<1>1. SUFFICES ASSUME bad # {} PROVE FALSE
  OBVIOUS
<1>2. PICK s \in bad : \A r \in SUBSET s : r # s => r \notin bad
  <2>1. bad \in SUBSET SUBSET top
    OBVIOUS
  <2> HIDE DEF bad
  <2> QED
  BY <1>1, <2>1, SmallestOf
<1>3. s # {} /\ IsFiniteSet(s)
  <2>1. On(f, {}) = 0
    BY OnNone
  <2>2. IsFiniteSet(s)
    BY FS_Subset
  <2>3. QED
    BY <2>1, <2>2
<1>4. On(f, s) = f[Chosen(s)] + On(f, s \ {Chosen(s)}) /\ Chosen(s) \in s
  BY <1>3, TotalChosen, ChosenIn
<1>5. QED
  BY <1>2, <1>4

\* The order does not matter.
LEMMA OnTake ==
  ASSUME NEW top, IsFiniteSet(top), NEW f \in [top -> Int]
  PROVE  \A s \in SUBSET top : \A x \in s : On(f, s) = f[x] + On(f, s \ {x})
<1> DEFINE bad == {s \in SUBSET top : \E x \in s : On(f, s) # f[x] + On(f, s \ {x})}
<1>1. SUFFICES ASSUME bad # {} PROVE FALSE
  OBVIOUS
<1>2. PICK s \in bad : \A r \in SUBSET s : r # s => r \notin bad
  <2>1. bad \in SUBSET SUBSET top
    OBVIOUS
  <2> HIDE DEF bad
  <2> QED
  BY <1>1, <2>1, SmallestOf
<1>3. PICK x \in s : On(f, s) # f[x] + On(f, s \ {x})
  OBVIOUS
<1> DEFINE c == Chosen(s)
<1>4. On(f, s) = f[c] + On(f, s \ {c}) /\ c \in s
  BY <1>3, TotalChosen, ChosenIn, FS_Subset
<1>5. x # c
  BY <1>3, <1>4
<1>6. On(f, s \ {c}) = f[x] + On(f, (s \ {c}) \ {x})
  BY <1>2, <1>4, <1>5
<1>7. On(f, s \ {x}) = f[c] + On(f, (s \ {x}) \ {c})
  BY <1>2, <1>3, <1>4, <1>5
<1>8. (s \ {x}) \ {c} = (s \ {c}) \ {x}
  OBVIOUS
<1>9. On(f, (s \ {c}) \ {x}) \in Int /\ f[x] \in Int /\ f[c] \in Int
  BY <1>4, OnInt
<1> DEFINE r == On(f, (s \ {c}) \ {x})
<1>10. On(f, s) = f[c] + (f[x] + r)
  BY <1>4, <1>6
<1>11. On(f, s \ {x}) = f[c] + r
  BY <1>7, <1>8
<1>12. On(f, s) = f[x] + On(f, s \ {x})
  <2> HIDE DEF r, c
  <2> QED
  BY <1>9, <1>10, <1>11 DEF r
<1>13. QED
  BY <1>3, <1>12

\* Sums grow with what is summed.
LEMMA OnLess ==
  ASSUME NEW top, IsFiniteSet(top), NEW f \in [top -> Int], NEW g \in [top -> Int],
         \A x \in top : f[x] <= g[x]
  PROVE  \A s \in SUBSET top : On(f, s) <= On(g, s)
<1> DEFINE bad == {s \in SUBSET top : ~(On(f, s) <= On(g, s))}
<1>1. SUFFICES ASSUME bad # {} PROVE FALSE
  OBVIOUS
<1>2. PICK s \in bad : \A r \in SUBSET s : r # s => r \notin bad
  <2>1. bad \in SUBSET SUBSET top
    OBVIOUS
  <2> HIDE DEF bad
  <2> QED
  BY <1>1, <2>1, SmallestOf
<1>3. s # {}
  <2>1. On(f, {}) = 0 /\ On(g, {}) = 0
    BY OnNone
  <2>2. QED
    BY <2>1
<1>4. PICK x \in s : TRUE
  BY <1>3
<1>5. On(f, s) = f[x] + On(f, s \ {x}) /\ On(g, s) = g[x] + On(g, s \ {x})
  BY OnTake
<1>6. On(f, s \ {x}) <= On(g, s \ {x})
  BY <1>2, <1>4
<1>7. On(f, s \ {x}) \in Int /\ On(g, s \ {x}) \in Int /\ f[x] \in Int /\ g[x] \in Int
  BY OnInt
<1>8. QED
  BY <1>5, <1>6, <1>7

\* The sum of sums, and of multiples: one statement for both.
Combines(h, k, f, g, s) == \A x \in s : h[x] = k * f[x] + g[x]

LEMMA OnLinear ==
  ASSUME NEW top, IsFiniteSet(top), NEW f \in [top -> Int], NEW g \in [top -> Int],
         NEW h \in [top -> Int], NEW k \in Int, Combines(h, k, f, g, top)
  PROVE  \A s \in SUBSET top : On(h, s) = k * On(f, s) + On(g, s)
<1> DEFINE bad == {s \in SUBSET top : On(h, s) # k * On(f, s) + On(g, s)}
<1>1. SUFFICES ASSUME bad # {} PROVE FALSE
  OBVIOUS
<1>2. PICK s \in bad : \A r \in SUBSET s : r # s => r \notin bad
  <2>1. bad \in SUBSET SUBSET top
    OBVIOUS
  <2> HIDE DEF bad
  <2> QED
  BY <1>1, <2>1, SmallestOf
<1>3. s # {}
  <2>1. On(f, {}) = 0 /\ On(g, {}) = 0 /\ On(h, {}) = 0
    BY OnNone
  <2>2. k * 0 + 0 = 0
    OBVIOUS
  <2>3. On(h, {}) = k * On(f, {}) + On(g, {})
    BY <2>1, <2>2
  <2>4. QED
    BY <2>3
<1>4. PICK x \in s : TRUE
  BY <1>3
<1>5. /\ On(f, s) = f[x] + On(f, s \ {x}) /\ On(g, s) = g[x] + On(g, s \ {x})
      /\ On(h, s) = h[x] + On(h, s \ {x})
  BY OnTake
<1>6. On(h, s \ {x}) = k * On(f, s \ {x}) + On(g, s \ {x})
  BY <1>2, <1>4
<1>7. /\ On(f, s \ {x}) \in Int /\ On(g, s \ {x}) \in Int /\ f[x] \in Int /\ g[x] \in Int
      /\ h[x] = k * f[x] + g[x]
  BY OnInt DEF Combines
<1>8. k * (f[x] + On(f, s \ {x})) = k * f[x] + k * On(f, s \ {x})
  BY <1>7
<1>9. QED
  BY <1>5, <1>6, <1>7, <1>8

\* Ones add up to how many there are.
LEMMA OnOnes ==
  ASSUME NEW top, IsFiniteSet(top), NEW one \in SUBSET top
  PROVE  \A s \in SUBSET top :
           On([x \in top |-> IF x \in one THEN 1 ELSE 0], s) = Cardinality(s \cap one)
<1> DEFINE f == [x \in top |-> IF x \in one THEN 1 ELSE 0]
           bad == {s \in SUBSET top : On(f, s) # Cardinality(s \cap one)}
<1>0. f \in [top -> Int]
  OBVIOUS
<1>1. SUFFICES ASSUME bad # {} PROVE FALSE
  OBVIOUS
<1>2. PICK s \in bad : \A r \in SUBSET s : r # s => r \notin bad
  <2>1. bad \in SUBSET SUBSET top
    OBVIOUS
  <2> HIDE DEF bad
  <2> QED
  BY <1>1, <2>1, SmallestOf
<1>3. s # {}
  <2>1. {} \cap one = {}
    OBVIOUS
  <2> HIDE DEF f
  <2> QED
  BY <2>1, OnNone, FS_EmptySet
<1>4. PICK x \in s : TRUE
  BY <1>3
<1>5. On(f, s) = f[x] + On(f, s \ {x})
  <2> HIDE DEF f
  <2> QED
  BY <1>0, OnTake
<1>6. On(f, s \ {x}) = Cardinality((s \ {x}) \cap one)
  <2> HIDE DEF f
  <2> QED
  BY <1>2, <1>4
<1>7. IsFiniteSet(s \cap one) /\ Cardinality(s \cap one) \in Nat
  BY FS_Subset, FS_CardinalityType
<1>8. (s \ {x}) \cap one = (s \cap one) \ {x}
  OBVIOUS
<1> DEFINE u == s \cap one
<1>9. Cardinality(u \ {x}) = IF x \in u THEN Cardinality(u) - 1 ELSE Cardinality(u)
  <2>1. IsFiniteSet(u)
    BY <1>7
  <2> HIDE DEF u
  <2> QED
    BY <2>1, FS_RemoveElement
<1>10. f[x] = IF x \in u THEN 1 ELSE 0
  BY <1>4
<1>11. On(f, s) = f[x] + Cardinality(u \ {x})
  BY <1>5, <1>6, <1>8
<1>12. On(f, s) = Cardinality(u)
  <2> HIDE DEF f, u
  <2> QED
  BY <1>7, <1>9, <1>10, <1>11 DEF u
<1>13. QED
  BY <1>12

\* The same of a whole function.
LEMMA TotalIsOn ==
  ASSUME NEW S, NEW f \in [S -> Int] PROVE Ho!Total(f) = On(f, S)
<1>1. Part(f, S) = f
  BY DEF Part
<1>2. QED
  BY <1>1 DEF On

LEMMA TotalInt ==
  ASSUME NEW S, IsFiniteSet(S), NEW f \in [S -> Int] PROVE Ho!Total(f) \in Int
BY TotalIsOn, OnInt

LEMMA TotalLess ==
  ASSUME NEW S, IsFiniteSet(S), NEW f \in [S -> Int], NEW g \in [S -> Int],
         \A x \in S : f[x] <= g[x]
  PROVE  /\ Ho!Total(f) <= Ho!Total(g)
         /\ (\E x \in S : f[x] < g[x]) => Ho!Total(f) < Ho!Total(g)
         /\ \A x \in S, k \in Int : f[x] + k <= g[x] => Ho!Total(f) + k <= Ho!Total(g)
<1>1. On(f, S) <= On(g, S)
  BY OnLess
<1>2. ASSUME NEW x \in S, NEW k \in Int, f[x] + k <= g[x]
      PROVE  On(f, S) + k <= On(g, S)
  <2>1. On(f, S) = f[x] + On(f, S \ {x}) /\ On(g, S) = g[x] + On(g, S \ {x})
    BY OnTake
  <2>2. On(f, S \ {x}) <= On(g, S \ {x})
    BY OnLess
  <2>3. /\ On(f, S \ {x}) \in Int /\ On(g, S \ {x}) \in Int /\ f[x] \in Int /\ g[x] \in Int
    BY OnInt
  <2>4. QED
    BY <1>2, <2>1, <2>2, <2>3
<1>3. ASSUME NEW x \in S, f[x] < g[x] PROVE On(f, S) < On(g, S)
  <2>1. f[x] + 1 <= g[x] /\ f[x] \in Int /\ g[x] \in Int
    BY <1>3
  <2>2. On(f, S) + 1 <= On(g, S)
    BY <1>2, <2>1
  <2>3. On(f, S) \in Int /\ On(g, S) \in Int
    BY OnInt
  <2>4. QED
    BY <2>2, <2>3
<1>4. QED
  BY <1>1, <1>2, <1>3, TotalIsOn

LEMMA TotalLinear ==
  ASSUME NEW S, IsFiniteSet(S), NEW f \in [S -> Int], NEW g \in [S -> Int],
         NEW h \in [S -> Int], NEW k \in Int, Combines(h, k, f, g, S)
  PROVE  Ho!Total(h) = k * Ho!Total(f) + Ho!Total(g)
<1>1. On(h, S) = k * On(f, S) + On(g, S)
  <2>1. \A s \in SUBSET S : On(h, s) = k * On(f, s) + On(g, s)
    BY OnLinear
  <2>2. QED
    BY <2>1
<1>2. Ho!Total(h) = On(h, S) /\ Ho!Total(f) = On(f, S) /\ Ho!Total(g) = On(g, S)
  BY TotalIsOn
<1>3. QED
  BY <1>1, <1>2

LEMMA TotalOnes ==
  ASSUME NEW S, IsFiniteSet(S), NEW one \in SUBSET S
  PROVE  Ho!Total([x \in S |-> IF x \in one THEN 1 ELSE 0]) = Cardinality(one)
<1> DEFINE f == [x \in S |-> IF x \in one THEN 1 ELSE 0]
<1>1. f \in [S -> Int]
  OBVIOUS
<1>2. On(f, S) = Cardinality(S \cap one)
  BY OnOnes
<1>3. S \cap one = one
  OBVIOUS
<1> HIDE DEF f
<1>4. Ho!Total(f) = Cardinality(one)
  BY <1>1, <1>2, <1>3, TotalIsOn
<1>5. QED
  BY <1>4 DEF f

\* One more for each of some, or as many less: the sum moves by how many they are.
LEMMA TotalMoves ==
  ASSUME NEW S, IsFiniteSet(S), NEW one \in SUBSET S, NEW f \in [S -> Int],
         NEW g \in [S -> Int], NEW k \in {1, -1},
         \A x \in S : g[x] = IF x \in one THEN f[x] + k ELSE f[x]
  PROVE  Ho!Total(g) = Ho!Total(f) + k * Cardinality(one)
<1> DEFINE e == [x \in S |-> IF x \in one THEN 1 ELSE 0]
<1>1. e \in [S -> Int] /\ \A x \in S : g[x] = k * e[x] + f[x]
  OBVIOUS
<1>2. Ho!Total(e) = Cardinality(one)
  BY TotalOnes
<1> HIDE DEF e
<1>3. Ho!Total(g) = k * Ho!Total(e) + Ho!Total(f)
  BY <1>1, TotalLinear DEF Combines
<1>4. Ho!Total(f) \in Int /\ Cardinality(one) \in Nat
  BY TotalInt, FS_Subset, FS_CardinalityType
<1>5. QED
  BY <1>2, <1>3, <1>4

-----------------------------------------------------------------------------
(* A pass.                                                                 *)

\* Ranks without a tie fill the places from the first: as many have a rank below k.
LEMMA RanksFill ==
  ASSUME NEW A, IsFiniteSet(A), NEW r \in [A -> Nat],
         \A i \in A : r[i] < Cardinality(A),
         \A i, j \in A : r[i] = r[j] => i = j, NEW k \in Nat
  PROVE  Cardinality({i \in A : r[i] < k}) = IF k < Cardinality(A) THEN k ELSE Cardinality(A)
<1> DEFINE n == Cardinality(A)
           B == {i \in A : r[i] < k}
<1>1. n \in Nat
  BY FS_CardinalityType
<1>2. CASE ~(k < n)
  <2>1. B = A
    BY <1>1, <1>2
  <2>2. QED
    BY <1>2, <2>1
<1>3. CASE k < n
  <2>1. IsFiniteSet(0..(n - 1)) /\ Cardinality(0..(n - 1)) = n
    BY <1>1, FS_Interval
  <2>2. r \in Injection(A, 0..(n - 1))
    BY <1>1 DEF Injection, IsInjective
  <2>3. r \in Surjection(A, 0..(n - 1))
    BY <2>1, <2>2, FS_Injection
  <2> DEFINE q == [i \in B |-> r[i]]
  <2>4. IsFiniteSet(0..(k - 1)) /\ Cardinality(0..(k - 1)) = k
    BY FS_Interval
  <2>5. q \in Injection(B, 0..(k - 1))
    BY DEF Injection, IsInjective
  <2>6. q \in Surjection(B, 0..(k - 1))
    <3>1. ASSUME NEW t \in 0..(k - 1) PROVE \E i \in B : q[i] = t
      <4>1. t \in 0..(n - 1)
        BY <1>1, <1>3
      <4>2. PICK i \in A : r[i] = t
        BY <2>3, <4>1 DEF Surjection
      <4>3. i \in B
        BY <4>2
      <4>4. QED
        BY <4>2, <4>3
    <3>2. q \in [B -> 0..(k - 1)]
      OBVIOUS
    <3>3. QED
      BY <3>1, <3>2 DEF Surjection
  <2>7. Cardinality(B) = k
    <3> HIDE DEF B, q
    <3>1. QED
      BY <2>4, <2>5, <2>6, FS_Injection
  <2>8. QED
    BY <1>3, <2>7
<1>4. QED
  BY <1>2, <1>3

\* A deal of whole shares, each within what is left and larger where more is.
Deal(d, S) ==
  /\ IsFiniteSet(S) /\ S \subseteq Nat /\ S # {}
  /\ d = [needs |-> d.needs, limit |-> d.limit, shares |-> d.shares]
  /\ d.needs \in [S -> Nat] /\ d.limit \in Nat /\ Cardinality(S) <= d.limit
  /\ d.shares \in [S -> Nat]
  /\ \A i \in S : 1 <= d.shares[i] /\ d.shares[i] <= d.needs[i]
  /\ \A i, j \in S : d.needs[i] > d.needs[j] => d.shares[i] >= d.shares[j]

\* Messages are missing.
Up(d) == Ho!Total(d.shares) < d.limit

\* After m passes: no further than the allowance, and until it is met as far as m passes go.
Dealt(d, S, s, m) ==
  /\ s \in [S -> Nat] /\ \A i \in S : 1 <= s[i] /\ s[i] <= d.needs[i]
  /\ IF Up(d) THEN Ho!Total(s) <= d.limit ELSE Ho!Total(s) >= d.limit
  /\ Ho!Total(s) # d.limit =>
       \A i \in S : s[i] = IF Up(d) THEN Ho!Smaller(d.needs[i], d.shares[i] + m)
                           ELSE Ho!Larger(1, d.shares[i] - m)
  /\ \A i, j \in S : d.needs[i] > d.needs[j] => s[i] >= s[j]

\* What a pass is about, by name.
ToMove(d, s) == d.limit - Ho!Total(s)
AbleOf(d, s) ==
  {i \in DOMAIN s : IF ToMove(d, s) > 0 THEN s[i] < d.needs[i] ELSE s[i] > 1}
Ahead(d, s, i) == {j \in AbleOf(d, s) : Ho!Before(d, j, i)}
ServedOf(d, s) ==
  {i \in AbleOf(d, s) : Cardinality(Ahead(d, s, i)) < Ho!Larger(ToMove(d, s), -ToMove(d, s))}

LEMMA PassIs ==
  ASSUME NEW d, NEW s
  PROVE  Ho!Pass(d, s) =
           [i \in DOMAIN s |-> IF i \notin ServedOf(d, s) THEN s[i]
                               ELSE IF ToMove(d, s) > 0 THEN s[i] + 1 ELSE s[i] - 1]
BY Counting DEF Ho!Pass, ServedOf, Ahead, AbleOf, ToMove

LEMMA DealSums ==
  ASSUME NEW d, NEW S, Deal(d, S)
  PROVE  /\ Ho!Total(d.needs) \in Int /\ Ho!Total(d.shares) \in Int
         /\ \A i \in S : Ho!Short(d, i) \in Int
         /\ \A s \in [S -> Nat] : Ho!Total(s) \in Int
         /\ Cardinality(S) \in Nat
<1>1. \A s \in [S -> Nat] : Ho!Total(s) \in Int
  <2>1. ASSUME NEW s \in [S -> Nat] PROVE s \in [S -> Int]
    OBVIOUS
  <2>2. QED
    BY <2>1, TotalInt DEF Deal
<1>2. Ho!Total(d.needs) \in Int /\ Ho!Total(d.shares) \in Int
  BY <1>1 DEF Deal
<1>3. \A i \in S : Ho!Short(d, i) \in Int
  <2>1. ASSUME NEW i \in S PROVE Ho!Short(d, i) \in Int
    <3>1. d.needs[i] \in Int /\ d.limit \in Int /\ d.shares[i] \in Int
      BY DEF Deal
    <3>2. d.needs[i] * d.limit \in Int /\ d.shares[i] * Ho!Total(d.needs) \in Int
      BY <1>2, <3>1
    <3>3. QED
      BY <3>2 DEF Ho!Short
  <2>2. QED
    BY <2>1
<1>4. QED
  BY <1>1, <1>2, <1>3, FS_CardinalityType DEF Deal

\* The order of the passes is one.
LEMMA BeforeOrders ==
  ASSUME NEW d, NEW S, Deal(d, S)
  PROVE  /\ \A i \in S : ~Ho!Before(d, i, i)
         /\ \A i, j \in S : i # j => Ho!Before(d, i, j) \/ Ho!Before(d, j, i)
         /\ \A i, j, k \in S : Ho!Before(d, i, j) /\ Ho!Before(d, j, k) => Ho!Before(d, i, k)
<1>1. \A i \in S : Ho!Short(d, i) \in Int /\ i \in Nat
  BY DealSums DEF Deal
<1>2. QED
  BY <1>1 DEF Ho!Before

\* A pass serves as many as there are messages to move, if as many can.
LEMMA ServedCount ==
  ASSUME NEW d, NEW S, Deal(d, S), NEW s \in [S -> Nat]
  PROVE  /\ ServedOf(d, s) \subseteq AbleOf(d, s) /\ AbleOf(d, s) \subseteq S
         /\ IsFiniteSet(AbleOf(d, s)) /\ Cardinality(AbleOf(d, s)) \in Nat
         /\ Cardinality(ServedOf(d, s)) =
              Ho!Smaller(Ho!Larger(ToMove(d, s), -ToMove(d, s)), Cardinality(AbleOf(d, s)))
         /\ \A i \in AbleOf(d, s), j \in ServedOf(d, s) :
              Ho!Before(d, i, j) => i \in ServedOf(d, s)
         /\ \A i \in ServedOf(d, s) : Cardinality(Ahead(d, s, i)) \in Nat
<1> DEFINE A == AbleOf(d, s)
           left == Ho!Larger(ToMove(d, s), -ToMove(d, s))
           r == [i \in A |-> Cardinality(Ahead(d, s, i))]
<1>1. A \subseteq S /\ IsFiniteSet(A) /\ Cardinality(A) \in Nat
  <2>1. A \subseteq S
    BY DEF AbleOf
  <2>2. QED
    BY <2>1, FS_Subset, FS_CardinalityType DEF Deal
<1>2. left \in Nat
  BY DealSums DEF ToMove, Ho!Larger, Deal
<1>3. \A i \in A : /\ IsFiniteSet(Ahead(d, s, i)) /\ Cardinality(Ahead(d, s, i)) \in Nat
                   /\ Cardinality(Ahead(d, s, i)) < Cardinality(A)
  <2> SUFFICES ASSUME NEW i \in A
               PROVE  /\ IsFiniteSet(Ahead(d, s, i)) /\ Cardinality(Ahead(d, s, i)) \in Nat
                      /\ Cardinality(Ahead(d, s, i)) < Cardinality(A)
    OBVIOUS
  <2>1. Ahead(d, s, i) \subseteq A /\ i \notin Ahead(d, s, i)
    BY <1>1, BeforeOrders DEF Ahead
  <2>2. IsFiniteSet(Ahead(d, s, i)) /\ Cardinality(Ahead(d, s, i)) \in Nat
        /\ Cardinality(Ahead(d, s, i)) <= Cardinality(A)
        /\ (Cardinality(A) = Cardinality(Ahead(d, s, i)) => A = Ahead(d, s, i))
    BY <1>1, <2>1, FS_Subset, FS_CardinalityType
  <2>3. QED
    BY <1>1, <2>1, <2>2
<1>4. \A i, j \in A : Ho!Before(d, i, j) =>
        Cardinality(Ahead(d, s, i)) < Cardinality(Ahead(d, s, j))
  <2> SUFFICES ASSUME NEW i \in A, NEW j \in A, Ho!Before(d, i, j)
               PROVE  Cardinality(Ahead(d, s, i)) < Cardinality(Ahead(d, s, j))
    OBVIOUS
  <2>1. Ahead(d, s, i) \subseteq Ahead(d, s, j)
    BY <1>1, BeforeOrders DEF Ahead
  <2>2. i \in Ahead(d, s, j) /\ i \notin Ahead(d, s, i)
    BY <1>1, BeforeOrders DEF Ahead
  <2>3. Cardinality(Ahead(d, s, i)) <= Cardinality(Ahead(d, s, j))
        /\ (Cardinality(Ahead(d, s, j)) = Cardinality(Ahead(d, s, i)) =>
              Ahead(d, s, j) = Ahead(d, s, i))
    BY <1>3, <2>1, FS_Subset
  <2>4. QED
    BY <1>3, <2>2, <2>3
<1>5. \A i, j \in A : r[i] = r[j] => i = j
  <2> SUFFICES ASSUME NEW i \in A, NEW j \in A, r[i] = r[j], i # j PROVE FALSE
    OBVIOUS
  <2>1. Ho!Before(d, i, j) \/ Ho!Before(d, j, i)
    BY <1>1, BeforeOrders
  <2>2. r[i] = Cardinality(Ahead(d, s, i)) /\ r[j] = Cardinality(Ahead(d, s, j))
    OBVIOUS
  <2>3. /\ Ho!Before(d, i, j) => Cardinality(Ahead(d, s, i)) < Cardinality(Ahead(d, s, j))
        /\ Ho!Before(d, j, i) => Cardinality(Ahead(d, s, j)) < Cardinality(Ahead(d, s, i))
        /\ Cardinality(Ahead(d, s, i)) \in Nat /\ Cardinality(Ahead(d, s, j)) \in Nat
    BY <1>3, <1>4
  <2>4. Cardinality(Ahead(d, s, i)) = Cardinality(Ahead(d, s, j))
    BY <2>2
  <2> HIDE DEF r, A
  <2>5. QED
    BY <2>1, <2>3, <2>4
<1>6. Cardinality({i \in A : r[i] < left}) =
        IF left < Cardinality(A) THEN left ELSE Cardinality(A)
  <2>1. r \in [A -> Nat] /\ \A i \in A : r[i] < Cardinality(A)
    BY <1>3
  <2> HIDE DEF r, A, left
  <2>2. QED
    BY <1>1, <1>2, <1>5, <2>1, RanksFill
<1>7. ServedOf(d, s) = {i \in A : r[i] < left}
  BY DEF ServedOf
<1>8. ASSUME NEW i \in A, NEW j \in ServedOf(d, s), Ho!Before(d, i, j)
      PROVE  i \in ServedOf(d, s)
  <2>1. j \in A /\ Cardinality(Ahead(d, s, j)) < left
    BY DEF ServedOf
  <2>2. Cardinality(Ahead(d, s, i)) < Cardinality(Ahead(d, s, j))
    BY <1>4, <1>8, <2>1
  <2>3. Cardinality(Ahead(d, s, i)) < left
    BY <1>2, <1>3, <2>1, <2>2
  <2>4. QED
    BY <2>3 DEF ServedOf
<1>9. ServedOf(d, s) \subseteq A
  BY DEF ServedOf
<1>10. QED
  BY <1>1, <1>3, <1>6, <1>7, <1>8, <1>9 DEF Ho!Smaller

LEMMA PassStays ==
  ASSUME NEW d, NEW S, Deal(d, S), NEW s \in [S -> Nat], Ho!Total(s) = d.limit
  PROVE  Ho!Pass(d, s) = s
<1>1. ToMove(d, s) = 0
  BY DEF ToMove, Deal
<1>2. ServedOf(d, s) = {}
  <2>1. ASSUME NEW i \in ServedOf(d, s) PROVE FALSE
    <3>1. Cardinality(Ahead(d, s, i)) \in Nat
      BY ServedCount
    <3>2. Cardinality(Ahead(d, s, i)) < Ho!Larger(0, -0)
      BY <1>1 DEF ServedOf
    <3>3. QED
      BY <3>1, <3>2 DEF Ho!Larger
  <2>2. QED
    BY <2>1
<1>3. Ho!Pass(d, s) = [i \in S |-> s[i]]
  BY <1>2, PassIs
<1>4. QED
  BY <1>3

\* What a pass hands out: to all that can take, or until the allowance is met.
LEMMA PassUp ==
  ASSUME NEW d, NEW S, Deal(d, S), NEW s \in [S -> Nat], Ho!Total(s) < d.limit
  PROVE  LET t == Ho!Pass(d, s) IN
         /\ t = [i \in S |-> IF i \in ServedOf(d, s) THEN s[i] + 1 ELSE s[i]]
         /\ t \in [S -> Nat] /\ Ho!Total(t) <= d.limit
         /\ Ho!Total(t) # d.limit => ServedOf(d, s) = AbleOf(d, s)
         /\ AbleOf(d, s) = {i \in S : s[i] < d.needs[i]}
<1> DEFINE t == Ho!Pass(d, s)
           one == ServedOf(d, s)
<1>1. ToMove(d, s) \in Nat /\ ToMove(d, s) > 0 /\ ToMove(d, s) = d.limit - Ho!Total(s)
  BY DealSums DEF ToMove, Deal
<1>2. t = [i \in S |-> IF i \in one THEN s[i] + 1 ELSE s[i]]
  BY <1>1, PassIs
<1>3. t \in [S -> Nat]
  BY <1>2
<1>4. Cardinality(one) = Ho!Smaller(ToMove(d, s), Cardinality(AbleOf(d, s)))
      /\ Cardinality(AbleOf(d, s)) \in Nat
  BY <1>1, ServedCount DEF Ho!Larger
<1>5. one \subseteq AbleOf(d, s) /\ AbleOf(d, s) \subseteq S /\ IsFiniteSet(AbleOf(d, s))
  BY ServedCount
<1>6. Ho!Total(t) = Ho!Total(s) + 1 * Cardinality(one)
  <2>1. s \in [S -> Int] /\ t \in [S -> Int] /\ IsFiniteSet(S) /\ one \in SUBSET S
    BY <1>3, <1>5 DEF Deal
  <2>2. \A x \in S : t[x] = IF x \in one THEN s[x] + 1 ELSE s[x]
    BY <1>2
  <2> HIDE DEF t, one
  <2>3. QED
    BY <2>1, <2>2, TotalMoves
<1>7. Ho!Total(s) \in Int /\ d.limit \in Nat
  BY DealSums DEF Deal
<1>8. Ho!Total(t) <= d.limit
  BY <1>1, <1>4, <1>6, <1>7 DEF Ho!Smaller
<1>9. ASSUME Ho!Total(t) # d.limit PROVE one = AbleOf(d, s)
  <2>1. Cardinality(one) = Cardinality(AbleOf(d, s))
    BY <1>1, <1>4, <1>6, <1>7, <1>9 DEF Ho!Smaller
  <2> HIDE DEF one
  <2>2. QED
    BY <1>5, <2>1, FS_Subset
<1>10. AbleOf(d, s) = {i \in S : s[i] < d.needs[i]}
  BY <1>1 DEF AbleOf
<1>11. QED
  BY <1>2, <1>3, <1>8, <1>9, <1>10

\* What a pass takes back.
LEMMA PassDown ==
  ASSUME NEW d, NEW S, Deal(d, S), NEW s \in [S -> Nat], Ho!Total(s) > d.limit
  PROVE  LET t == Ho!Pass(d, s) IN
         /\ t = [i \in S |-> IF i \in ServedOf(d, s) THEN s[i] - 1 ELSE s[i]]
         /\ t \in [S -> Nat] /\ Ho!Total(t) >= d.limit
         /\ Ho!Total(t) # d.limit => ServedOf(d, s) = AbleOf(d, s)
         /\ AbleOf(d, s) = {i \in S : s[i] > 1}
<1> DEFINE t == Ho!Pass(d, s)
           one == ServedOf(d, s)
<1>0. Ho!Total(s) \in Int /\ d.limit \in Nat
  BY DealSums DEF Deal
<1>1. ToMove(d, s) = d.limit - Ho!Total(s) /\ ~(ToMove(d, s) > 0)
      /\ Ho!Larger(ToMove(d, s), -ToMove(d, s)) = Ho!Total(s) - d.limit
  BY <1>0 DEF ToMove, Ho!Larger
<1>2. t = [i \in S |-> IF i \in one THEN s[i] - 1 ELSE s[i]]
  BY <1>1, PassIs
<1>4. Cardinality(one) = Ho!Smaller(Ho!Total(s) - d.limit, Cardinality(AbleOf(d, s)))
      /\ Cardinality(AbleOf(d, s)) \in Nat
  BY <1>1, ServedCount
<1>5. one \subseteq AbleOf(d, s) /\ AbleOf(d, s) \subseteq S /\ IsFiniteSet(AbleOf(d, s))
  BY ServedCount
<1>10. AbleOf(d, s) = {i \in S : s[i] > 1}
  BY <1>1 DEF AbleOf
<1>3. t \in [S -> Nat]
  BY <1>2, <1>5, <1>10
<1>6. Ho!Total(t) = Ho!Total(s) + (-1) * Cardinality(one)
  <2>1. s \in [S -> Int] /\ t \in [S -> Int] /\ IsFiniteSet(S) /\ one \in SUBSET S
    BY <1>3, <1>5 DEF Deal
  <2>2. \A x \in S : t[x] = IF x \in one THEN s[x] + (-1) ELSE s[x]
    BY <1>2
  <2> HIDE DEF t, one
  <2>3. QED
    BY <2>1, <2>2, TotalMoves
<1>8. Ho!Total(t) >= d.limit
  BY <1>0, <1>4, <1>6 DEF Ho!Smaller
<1>9. ASSUME Ho!Total(t) # d.limit PROVE one = AbleOf(d, s)
  <2>1. Cardinality(one) = Cardinality(AbleOf(d, s))
    BY <1>0, <1>4, <1>6, <1>9 DEF Ho!Smaller
  <2> HIDE DEF one
  <2>2. QED
    BY <1>5, <2>1, FS_Subset
<1>11. QED
  BY <1>2, <1>3, <1>8, <1>9, <1>10

\* More left is short of more, of two with the same share.
LEMMA MoreIsShorter ==
  ASSUME NEW d, NEW S, Deal(d, S), NEW i \in S, NEW j \in S,
         d.needs[i] > d.needs[j], d.shares[i] = d.shares[j]
  PROVE  Ho!Short(d, i) > Ho!Short(d, j)
<1>1. /\ d.needs[i] \in Nat /\ d.needs[j] \in Nat /\ d.limit \in Nat /\ d.limit > 0
      /\ d.shares[i] * Ho!Total(d.needs) \in Int
  <2>1. Cardinality(S) > 0
    BY DealSums, FS_EmptySet DEF Deal
  <2>2. d.limit > 0
    BY <2>1, DealSums DEF Deal
  <2>3. d.shares[i] \in Int /\ Ho!Total(d.needs) \in Int
    BY DealSums DEF Deal
  <2>4. QED
    BY <2>2, <2>3 DEF Deal
<1>2. d.needs[i] * d.limit > d.needs[j] * d.limit
  BY <1>1
<1>3. d.needs[i] * d.limit \in Int /\ d.needs[j] * d.limit \in Int
  BY <1>1
<1>4. QED
  BY <1>1, <1>2, <1>3 DEF Ho!Short

LEMMA PassDealt ==
  ASSUME NEW d, NEW S, Deal(d, S), NEW m \in Nat, NEW s, Dealt(d, S, s, m)
  PROVE  Dealt(d, S, Ho!Pass(d, s), m + 1)
<1> DEFINE t == Ho!Pass(d, s)
<1>1. /\ s \in [S -> Nat] /\ Ho!Total(s) \in Int /\ d.limit \in Nat
      /\ \A i \in S : 1 <= s[i] /\ s[i] <= d.needs[i]
      /\ \A i, j \in S : d.needs[i] > d.needs[j] => s[i] >= s[j]
      /\ d.needs \in [S -> Nat] /\ d.shares \in [S -> Nat]
      /\ \A i \in S : 1 <= d.shares[i] /\ d.shares[i] <= d.needs[i]
      /\ \A i, j \in S : d.needs[i] > d.needs[j] => d.shares[i] >= d.shares[j]
  BY DealSums DEF Dealt, Deal
<1>2. CASE Ho!Total(s) = d.limit
  BY <1>1, <1>2, PassStays DEF Dealt
<1>3. CASE Ho!Total(s) < d.limit
  <2>1. Up(d)
    BY <1>1, <1>3 DEF Dealt
  <2>2. \A i \in S : s[i] = Ho!Smaller(d.needs[i], d.shares[i] + m)
    BY <1>1, <1>3, <2>1 DEF Dealt
  <2>3. /\ t = [i \in S |-> IF i \in ServedOf(d, s) THEN s[i] + 1 ELSE s[i]]
        /\ t \in [S -> Nat] /\ Ho!Total(t) <= d.limit
        /\ Ho!Total(t) # d.limit => ServedOf(d, s) = AbleOf(d, s)
        /\ AbleOf(d, s) = {i \in S : s[i] < d.needs[i]}
    BY <1>1, <1>3, PassUp
  <2>4. ServedOf(d, s) \subseteq AbleOf(d, s)
        /\ \A i \in AbleOf(d, s), j \in ServedOf(d, s) :
             Ho!Before(d, i, j) => i \in ServedOf(d, s)
    BY <1>1, ServedCount
  <2> HIDE DEF t
  <2>5. \A i \in S : 1 <= t[i] /\ t[i] <= d.needs[i]
    BY <1>1, <2>3, <2>4
  <2>6. Ho!Total(t) # d.limit => \A i \in S : t[i] = Ho!Smaller(d.needs[i], d.shares[i] + (m + 1))
    BY <1>1, <2>2, <2>3 DEF Ho!Smaller
  <2>7. ASSUME NEW i \in S, NEW j \in S, d.needs[i] > d.needs[j], ~(t[i] >= t[j]) PROVE FALSE
    <3>1. /\ s[i] = s[j] /\ i \notin ServedOf(d, s) /\ j \in ServedOf(d, s)
          /\ s[j] < d.needs[j]
      BY <1>1, <2>3, <2>4, <2>7
    <3>2. d.shares[i] = d.shares[j] /\ i \in AbleOf(d, s)
      <4>1. s[i] = Ho!Smaller(d.needs[i], d.shares[i] + m)
            /\ s[j] = Ho!Smaller(d.needs[j], d.shares[j] + m)
        BY <2>2
      <4>2. QED
        BY <1>1, <2>3, <2>7, <3>1, <4>1 DEF Ho!Smaller
    <3>3. Ho!Before(d, i, j)
      BY <2>1, <2>7, <3>2, MoreIsShorter DEF Ho!Before, Up
    <3>4. QED
      BY <2>4, <3>1, <3>2, <3>3
  <2>8. QED
    BY <2>1, <2>3, <2>5, <2>6, <2>7 DEF Dealt, t
<1>4. CASE Ho!Total(s) > d.limit
  <2>1. ~Up(d)
    BY <1>1, <1>4 DEF Dealt
  <2>2. \A i \in S : s[i] = Ho!Larger(1, d.shares[i] - m)
    BY <1>1, <1>4, <2>1 DEF Dealt
  <2>3. /\ t = [i \in S |-> IF i \in ServedOf(d, s) THEN s[i] - 1 ELSE s[i]]
        /\ t \in [S -> Nat] /\ Ho!Total(t) >= d.limit
        /\ Ho!Total(t) # d.limit => ServedOf(d, s) = AbleOf(d, s)
        /\ AbleOf(d, s) = {i \in S : s[i] > 1}
    BY <1>1, <1>4, PassDown
  <2>4. ServedOf(d, s) \subseteq AbleOf(d, s)
        /\ \A i \in AbleOf(d, s), j \in ServedOf(d, s) :
             Ho!Before(d, i, j) => i \in ServedOf(d, s)
    BY <1>1, ServedCount
  <2> HIDE DEF t
  <2>5. \A i \in S : 1 <= t[i] /\ t[i] <= d.needs[i]
    BY <1>1, <2>3, <2>4
  <2>6. Ho!Total(t) # d.limit => \A i \in S : t[i] = Ho!Larger(1, d.shares[i] - (m + 1))
    BY <1>1, <2>2, <2>3 DEF Ho!Larger
  <2>7. ASSUME NEW i \in S, NEW j \in S, d.needs[i] > d.needs[j], ~(t[i] >= t[j]) PROVE FALSE
    <3>1. /\ s[i] = s[j] /\ i \in ServedOf(d, s) /\ j \notin ServedOf(d, s)
          /\ s[i] > 1
      BY <1>1, <2>3, <2>4, <2>7
    <3>2. d.shares[i] = d.shares[j] /\ j \in AbleOf(d, s)
      <4>1. s[i] = Ho!Larger(1, d.shares[i] - m) /\ s[j] = Ho!Larger(1, d.shares[j] - m)
        BY <2>2
      <4>2. QED
        BY <1>1, <2>3, <2>7, <3>1, <4>1 DEF Ho!Larger
    <3>3. Ho!Before(d, j, i)
      <4>1. Ho!Short(d, i) \in Int /\ Ho!Short(d, j) \in Int
        BY DealSums
      <4>2. QED
        BY <2>1, <2>7, <3>2, <4>1, MoreIsShorter DEF Ho!Before, Up
    <3>4. QED
      BY <2>4, <3>1, <3>2, <3>3
  <2>8. QED
    BY <2>1, <2>3, <2>5, <2>6, <2>7 DEF Dealt, t
<1>5. QED
  BY <1>1, <1>2, <1>3, <1>4

-----------------------------------------------------------------------------
(* The passes.                                                             *)

LEMMA LeastOf ==
  ASSUME NEW bad \in SUBSET Nat, bad # {}
  PROVE  \E n \in bad : \A m \in Nat : m < n => m \notin bad
<1>1. PICK top \in bad : TRUE
  OBVIOUS
<1> DEFINE upTo == {0..n : n \in bad \cap 0..top}
<1>2. IsFiniteSet(0..top)
  BY FS_Interval
<1>3. upTo \in SUBSET SUBSET (0..top) /\ upTo # {}
  <2>1. top \in bad \cap 0..top
    BY <1>1
  <2>2. \A n \in bad \cap 0..top : 0..n \in SUBSET (0..top)
    OBVIOUS
  <2>3. QED
    BY <2>1, <2>2
<1>4. PICK s \in upTo : \A r \in SUBSET s : r # s => r \notin upTo
  <2> HIDE DEF upTo
  <2> QED
    BY <1>2, <1>3, SmallestOf
<1>5. PICK n \in bad \cap 0..top : s = 0..n
  BY <1>4
<1>6. ASSUME NEW m \in Nat, m < n, m \in bad PROVE FALSE
  <2>1. m \in bad \cap 0..top /\ n \in 0..n /\ n \notin 0..m
    BY <1>5, <1>6
  <2>2. 0..m \in SUBSET s /\ 0..m # s
    BY <1>5, <1>6, <2>1
  <2>3. 0..m \in upTo
    BY <2>1
  <2>4. QED
    BY <1>4, <2>2, <2>3
<1>7. QED
  BY <1>5, <1>6

\* What the definition of Distribute computes, as far as p.
Runs(f, d, p) == f = [n \in 0..p |-> IF n = 0 THEN d.shares ELSE Ho!Pass(d, f[n - 1])]

LEMMA RunsExist ==
  ASSUME NEW d PROVE \A p \in Nat : \E f : Runs(f, d, p)
<1> DEFINE bad == {p \in Nat : ~ \E f : Runs(f, d, p)}
<1>1. SUFFICES ASSUME bad # {} PROVE FALSE
  OBVIOUS
<1>2. PICK p \in bad : \A m \in Nat : m < p => m \notin bad
  <2>1. bad \in SUBSET Nat
    OBVIOUS
  <2> HIDE DEF bad
  <2> QED
    BY <1>1, <2>1, LeastOf
<1>3. CASE p = 0
  <2> DEFINE g == [n \in 0..0 |-> d.shares]
  <2>1. g = [n \in 0..0 |-> IF n = 0 THEN d.shares ELSE Ho!Pass(d, g[n - 1])]
    OBVIOUS
  <2>2. Runs(g, d, 0)
    BY <2>1 DEF Runs
  <2>3. QED
    BY <1>3, <2>2
<1>4. CASE p # 0
  <2>1. p \in Nat /\ p - 1 \in Nat /\ p - 1 < p
    BY <1>4
  <2>2. PICK f : Runs(f, d, p - 1)
    BY <1>2, <2>1
  <2> DEFINE g == [n \in 0..p |-> IF n = p THEN Ho!Pass(d, f[p - 1]) ELSE f[n]]
             h == [n \in 0..p |-> IF n = 0 THEN d.shares ELSE Ho!Pass(d, g[n - 1])]
  <2>3. \A n \in 0..(p - 1) : f[n] = IF n = 0 THEN d.shares ELSE Ho!Pass(d, f[n - 1])
    BY <2>2 DEF Runs
  <2>4. ASSUME NEW n \in 0..p PROVE g[n] = h[n]
    <3>1. CASE n = p
      <4>1. g[n - 1] = f[p - 1] /\ n # 0
        BY <2>1, <3>1
      <4>2. QED
        BY <3>1, <4>1
    <3>2. CASE n # p
      <4>1. n \in 0..(p - 1) /\ g[n] = f[n] /\ (n # 0 => g[n - 1] = f[n - 1])
        BY <2>1, <3>2
      <4>2. QED
        BY <2>3, <4>1
    <3>3. QED
      BY <3>1, <3>2
  <2>5. g = h
    <3>1. g = [n \in 0..p |-> g[n]] /\ h = [n \in 0..p |-> h[n]]
      OBVIOUS
    <3> HIDE DEF g, h
    <3>2. QED
      BY <2>4, <3>1
  <2>6. Runs(g, d, p)
    BY <2>5 DEF Runs
  <2>7. QED
    BY <2>6
<1>5. QED
  BY <1>3, <1>4

LEMMA Distributes ==
  ASSUME NEW d, NEW S, Deal(d, S)
  PROVE  \E f : Runs(f, d, Cardinality(S) + 2)
                /\ Ho!Distribute(d) = f[Cardinality(S) + 2]
<1> DEFINE p == Cardinality(S) + 2
           f == CHOOSE f : Runs(f, d, p)
<1>1. p \in Nat
  BY DealSums
<1>2. Runs(f, d, p)
  <2> HIDE DEF p
  <2> QED
    BY <1>1, RunsExist
<1>3. DOMAIN d.needs = S
  BY DEF Deal
<1>4. Ho!Distribute(d) = f[p]
  BY <1>3, Counting DEF Ho!Distribute, Runs
<1>5. QED
  BY <1>2, <1>4

LEMMA RunDealt ==
  ASSUME NEW d, NEW S, Deal(d, S), NEW p \in Nat, NEW f, Runs(f, d, p),
         NEW k \in 0..p, Dealt(d, S, f[k], k)
  PROVE  \A n \in k..p : Dealt(d, S, f[n], n)
<1> DEFINE bad == {n \in k..p : ~Dealt(d, S, f[n], n)}
<1>1. SUFFICES ASSUME bad # {} PROVE FALSE
  OBVIOUS
<1>2. PICK n \in bad : \A m \in Nat : m < n => m \notin bad
  <2>1. bad \in SUBSET Nat
    OBVIOUS
  <2> HIDE DEF bad
  <2> QED
    BY <1>1, <2>1, LeastOf
<1>3. n # k /\ n - 1 \in k..p /\ n - 1 \in Nat /\ n \in 0..p /\ n # 0
  OBVIOUS
<1>4. Dealt(d, S, f[n - 1], n - 1)
  BY <1>2, <1>3
<1>5. f[n] = Ho!Pass(d, f[n - 1])
  BY <1>3 DEF Runs
<1>6. Dealt(d, S, f[n], (n - 1) + 1)
  BY <1>3, <1>4, <1>5, PassDealt
<1>7. (n - 1) + 1 = n
  BY <1>3
<1>8. QED
  BY <1>6, <1>7

\* A run that has met the allowance stays as it is.
LEMMA RunStays ==
  ASSUME NEW d, NEW S, Deal(d, S), NEW p \in Nat, NEW f, Runs(f, d, p),
         NEW k \in 0..p, f[k] \in [S -> Nat], Ho!Total(f[k]) = d.limit
  PROVE  \A n \in k..p : f[n] = f[k]
<1> DEFINE bad == {n \in k..p : f[n] # f[k]}
<1>1. SUFFICES ASSUME bad # {} PROVE FALSE
  OBVIOUS
<1>2. PICK n \in bad : \A m \in Nat : m < n => m \notin bad
  <2>1. bad \in SUBSET Nat
    OBVIOUS
  <2> HIDE DEF bad
  <2> QED
    BY <1>1, <2>1, LeastOf
<1>3. n # k /\ n - 1 \in k..p /\ n - 1 \in Nat /\ n \in 0..p /\ n # 0
  OBVIOUS
<1>4. f[n - 1] = f[k]
  BY <1>2, <1>3
<1>5. f[n] = Ho!Pass(d, f[n - 1])
  BY <1>3 DEF Runs
<1>6. QED
  BY <1>4, <1>5, PassStays

\* No further than a message each from the allowance, or at what is left, and the
\* passes meet it.
LEMMA PassesMeet ==
  ASSUME NEW d, NEW S, Deal(d, S), NEW s, Dealt(d, S, s, Cardinality(S) + 2),
         \/ d.shares = d.needs /\ Ho!Total(d.needs) <= d.limit
         \/ /\ d.limit < Ho!Total(d.needs)
            /\ Ho!Total(d.shares) > d.limit - Cardinality(S)
            /\ Ho!Total(d.shares) <= d.limit + Cardinality(S)
  PROVE  Ho!Total(s) = Ho!Smaller(d.limit, Ho!Total(d.needs))
<1> DEFINE n == Cardinality(S)
<1>1. /\ s \in [S -> Nat] /\ Ho!Total(s) \in Int /\ d.limit \in Nat /\ IsFiniteSet(S)
      /\ \A i \in S : 1 <= s[i] /\ s[i] <= d.needs[i]
      /\ d.needs \in [S -> Nat] /\ d.shares \in [S -> Nat]
      /\ \A i \in S : 1 <= d.shares[i] /\ d.shares[i] <= d.needs[i]
      /\ Ho!Total(d.needs) \in Int /\ Ho!Total(d.shares) \in Int
      /\ n \in Nat /\ n <= d.limit
  BY DealSums DEF Dealt, Deal
<1>2. s \in [S -> Int] /\ d.needs \in [S -> Int] /\ d.shares \in [S -> Int]
  BY <1>1
<1>3. Ho!Total(s) <= Ho!Total(d.needs)
  BY <1>1, <1>2, TotalLess
<1>4. CASE d.shares = d.needs /\ Ho!Total(d.needs) <= d.limit
  <2>1. CASE Ho!Total(s) = d.limit
    BY <1>1, <1>3, <1>4, <2>1 DEF Ho!Smaller
  <2>2. CASE Ho!Total(s) # d.limit
    <3>1. Up(d)
      BY <1>1, <1>3, <1>4, <2>2 DEF Up, Dealt
    <3>2. \A i \in S : s[i] = d.needs[i]
      BY <1>1, <1>4, <2>2, <3>1 DEF Dealt, Ho!Smaller
    <3>3. s = d.needs
      BY <1>1, <3>2
    <3>4. QED
      BY <1>1, <1>4, <3>3 DEF Ho!Smaller
  <2>3. QED
    BY <2>1, <2>2
<1>5. CASE /\ d.limit < Ho!Total(d.needs)
           /\ Ho!Total(d.shares) > d.limit - n /\ Ho!Total(d.shares) <= d.limit + n
  <2>1. SUFFICES ASSUME Ho!Total(s) # d.limit PROVE FALSE
    BY <1>1, <1>5 DEF Ho!Smaller
  <2>2. CASE Up(d)
    <3>1. Ho!Total(s) < d.limit
      BY <1>1, <2>1, <2>2 DEF Dealt
    <3>2. \A i \in S : s[i] = Ho!Smaller(d.needs[i], d.shares[i] + (n + 2))
      BY <2>1, <2>2 DEF Dealt
    <3>3. PICK i \in S : s[i] # d.needs[i]
      <4>1. s # d.needs
        BY <1>1, <1>5, <3>1
      <4>2. QED
        BY <1>1, <4>1
    <3>4. d.shares[i] + (n + 2) <= s[i] /\ \A j \in S : d.shares[j] <= s[j]
      BY <1>1, <3>2, <3>3 DEF Ho!Smaller
    <3>5. Ho!Total(d.shares) + (n + 2) <= Ho!Total(s)
      <4>1. n + 2 \in Int
        BY <1>1
      <4>2. QED
        BY <1>1, <1>2, <3>4, <4>1, TotalLess
    <3>6. QED
      BY <1>1, <1>5, <3>1, <3>5
  <2>3. CASE ~Up(d)
    <3>1. Ho!Total(s) > d.limit
      BY <1>1, <2>1, <2>3 DEF Dealt
    <3>2. \A i \in S : s[i] = Ho!Larger(1, d.shares[i] - (n + 2))
      BY <2>1, <2>3 DEF Dealt
    <3>3. PICK i \in S : s[i] # 1
      <4> SUFFICES ASSUME \A i \in S : s[i] = 1 PROVE FALSE
        OBVIOUS
      <4>1. s = [x \in S |-> IF x \in S THEN 1 ELSE 0]
        BY <1>1
      <4>2. Ho!Total(s) = n
        BY <1>1, <4>1, TotalOnes
      <4>3. QED
        BY <1>1, <3>1, <4>2
    <3>4. s[i] + (n + 2) <= d.shares[i] /\ \A j \in S : s[j] <= d.shares[j]
      BY <1>1, <3>2, <3>3 DEF Ho!Larger
    <3>5. Ho!Total(s) + (n + 2) <= Ho!Total(d.shares)
      <4>1. n + 2 \in Int
        BY <1>1
      <4>2. QED
        BY <1>1, <1>2, <3>4, <4>1, TotalLess
    <3>6. QED
      BY <1>1, <1>5, <3>1, <3>5
  <2>4. QED
    BY <2>2, <2>3
<1>6. QED
  BY <1>4, <1>5
-----------------------------------------------------------------------------
(* The shares in proportion, rounded down.                                 *)

LEMMA Quotient ==
  ASSUME NEW a \in Nat, NEW t \in Nat, t > 0
  PROVE  a \div t \in Nat /\ (a \div t) * t <= a /\ a < (a \div t) * t + t
OBVIOUS

LEMMA QuotientOne ==
  ASSUME NEW a \in Nat, NEW t \in Nat, t > 0, a >= t
  PROVE  a \div t >= 1
<1>1. a \div t \in Nat /\ a < (a \div t) * t + t
  BY Quotient
<1>2. CASE a \div t = 0
  BY <1>1, <1>2
<1>3. QED
  BY <1>1, <1>2

LEMMA Scales ==
  ASSUME NEW a \in Int, NEW b \in Int, NEW t \in Int, t > 0
  PROVE  /\ a * t \in Int /\ a * t - b * t = (a - b) * t
         /\ a <= b <=> a * t <= b * t
         /\ a < b <=> a * t < b * t
         /\ (a + 1) * t = a * t + t
OBVIOUS

Suggesting(S, needs, limit) ==
  /\ IsFiniteSet(S) /\ S \subseteq Nat /\ S # {} /\ needs \in [S -> Nat]
  /\ (\A i \in S : needs[i] >= 1) /\ limit \in Nat /\ Cardinality(S) <= limit

\* What each share in proportion comes to, rounded down; and what that leaves over.
Floors(S, needs, limit) == [i \in S |-> (needs[i] * limit) \div Ho!Total(needs)]
Behind(S, needs, limit, s) == [i \in S |-> needs[i] * limit - s[i] * Ho!Total(needs)]

LEMMA NeedsTotal ==
  ASSUME NEW S, NEW needs, NEW limit, Suggesting(S, needs, limit)
  PROVE  /\ Ho!Total(needs) \in Nat /\ Ho!Total(needs) > 0 /\ Cardinality(S) \in Nat
         /\ Cardinality(S) > 0 /\ Cardinality(S) <= Ho!Total(needs)
         /\ Ho!Total([i \in S |-> 0]) = 0
<1> DEFINE ones == [x \in S |-> IF x \in S THEN 1 ELSE 0]
           none == [x \in S |-> IF x \in {} THEN 1 ELSE 0]
<1>1. Cardinality(S) \in Nat /\ Cardinality(S) > 0
  BY FS_CardinalityType, FS_EmptySet DEF Suggesting
<1>2. Ho!Total(ones) = Cardinality(S) /\ Ho!Total(none) = Cardinality({})
  BY TotalOnes DEF Suggesting
<1>3. ones \in [S -> Int] /\ needs \in [S -> Int] /\ \A i \in S : ones[i] <= needs[i]
  BY DEF Suggesting
<1>4. Ho!Total(needs) \in Int /\ Ho!Total(ones) <= Ho!Total(needs)
  BY <1>3, TotalInt, TotalLess DEF Suggesting
<1>5. [i \in S |-> 0] = none /\ Cardinality({}) = 0
  BY FS_EmptySet
<1>6. QED
  BY <1>1, <1>2, <1>4, <1>5

\* What the shares are behind the proportion adds up to what is not handed out.
LEMMA BehindSums ==
  ASSUME NEW S, NEW needs, NEW limit, Suggesting(S, needs, limit), NEW s \in [S -> Int]
  PROVE  /\ Behind(S, needs, limit, s) \in [S -> Int]
         /\ Ho!Total(s) \in Int
         /\ Ho!Total(Behind(S, needs, limit, s)) =
              (limit - Ho!Total(s)) * Ho!Total(needs)
<1> DEFINE t == Ho!Total(needs)
           whole == [i \in S |-> needs[i] * limit]
           rest == Behind(S, needs, limit, s)
           none == [i \in S |-> 0]
<1>1. t \in Int /\ limit \in Int /\ IsFiniteSet(S) /\ needs \in [S -> Int]
  <2>1. t \in Nat
    BY NeedsTotal
  <2>2. QED
    BY <2>1 DEF Suggesting
<1>2. /\ whole \in [S -> Int] /\ none \in [S -> Int] /\ rest \in [S -> Int]
      /\ \A i \in S : rest[i] = whole[i] - s[i] * t /\ s[i] * t \in Int
  <2>1. \A i \in S : needs[i] * limit \in Int /\ s[i] * t \in Int
    BY <1>1
  <2> HIDE DEF t
  <2>2. QED
    BY <2>1 DEF Behind, t
<1>3. Combines(whole, limit, needs, none, S)
  BY <1>1 DEF Combines
<1>4. Combines(whole, t, s, rest, S)
  <2>1. ASSUME NEW i \in S PROVE whole[i] = t * s[i] + rest[i]
    <3>1. s[i] * t = t * s[i] /\ whole[i] \in Int /\ rest[i] \in Int
      BY <1>1, <1>2
    <3> HIDE DEF whole, rest, t
    <3>2. QED
      BY <1>1, <1>2, <3>1
  <2> HIDE DEF whole, rest, t
  <2>2. QED
    BY <2>1 DEF Combines
<1>5. Ho!Total(whole) = limit * t + Ho!Total(none) /\ Ho!Total(none) = 0
  <2> HIDE DEF whole
  <2>1. Ho!Total(whole) = limit * Ho!Total(needs) + Ho!Total(none)
    BY <1>1, <1>2, <1>3, TotalLinear
  <2>2. QED
    BY <2>1, NeedsTotal
<1>6. Ho!Total(whole) = t * Ho!Total(s) + Ho!Total(rest)
  <2> HIDE DEF whole, rest, t
  <2>1. QED
    BY <1>1, <1>2, <1>4, TotalLinear
<1>7. Ho!Total(s) \in Int /\ Ho!Total(rest) \in Int
  <2> HIDE DEF rest
  <2>1. QED
    BY <1>1, <1>2, TotalInt
<1>8. Ho!Total(rest) = (limit - Ho!Total(s)) * t
  <2>1. limit * t + 0 = t * Ho!Total(s) + Ho!Total(rest)
    BY <1>5, <1>6
  <2> HIDE DEF rest, t
  <2>2. QED
    BY <1>1, <1>7, <2>1
<1>9. QED
  BY <1>2, <1>7, <1>8

LEMMA FloorsAre ==
  ASSUME NEW S, NEW needs, NEW limit, Suggesting(S, needs, limit)
  PROVE  LET fl == Floors(S, needs, limit)
             b  == Behind(S, needs, limit, fl)
         IN  /\ fl \in [S -> Nat]
             /\ \A i \in S : b[i] \in 0..(Ho!Total(needs) - 1)
             /\ \A i, j \in S : needs[i] > needs[j] => fl[i] >= fl[j]
             /\ Ho!Total(fl) <= limit /\ Ho!Total(fl) > limit - Cardinality(S)
<1> DEFINE t == Ho!Total(needs)
           fl == Floors(S, needs, limit)
           b == Behind(S, needs, limit, fl)
           most == [i \in S |-> t - 1]
           none == [i \in S |-> 0]
           ones == [i \in S |-> IF i \in S THEN 1 ELSE 0]
<1>1. t \in Nat /\ t > 0 /\ limit \in Nat /\ IsFiniteSet(S) /\ needs \in [S -> Nat]
  BY NeedsTotal DEF Suggesting
<1>2. \A i \in S : /\ fl[i] \in Nat /\ needs[i] * limit \in Nat /\ fl[i] * t \in Nat
                   /\ fl[i] * t <= needs[i] * limit /\ needs[i] * limit < fl[i] * t + t
  <2> SUFFICES ASSUME NEW i \in S
      PROVE  /\ fl[i] \in Nat /\ needs[i] * limit \in Nat /\ fl[i] * t \in Nat
             /\ fl[i] * t <= needs[i] * limit /\ needs[i] * limit < fl[i] * t + t
    OBVIOUS
  <2>1. needs[i] * limit \in Nat /\ fl[i] = (needs[i] * limit) \div t
    BY <1>1 DEF Floors
  <2> HIDE DEF t, fl
  <2>2. fl[i] \in Nat /\ fl[i] * t <= needs[i] * limit /\ needs[i] * limit < fl[i] * t + t
    BY <1>1, <2>1, Quotient
  <2>3. QED
    BY <1>1, <2>1, <2>2
<1>3. fl \in [S -> Nat] /\ fl \in [S -> Int]
  BY <1>2 DEF Floors
<1>4. \A i \in S : b[i] \in 0..(t - 1)
  <2>1. \A i \in S : b[i] = needs[i] * limit - fl[i] * t
    BY DEF Behind
  <2> HIDE DEF t, fl, b
  <2>2. QED
    BY <1>1, <1>2, <2>1
<1>5. ASSUME NEW i \in S, NEW j \in S, needs[i] > needs[j] PROVE fl[i] >= fl[j]
  <2>1. needs[j] * limit <= needs[i] * limit
    BY <1>1, <1>5
  <2> HIDE DEF t, fl
  <2>2. fl[j] * t < (fl[i] + 1) * t
    BY <1>1, <1>2, <2>1, Scales
  <2>3. fl[j] < fl[i] + 1
    BY <1>1, <1>2, <2>2, Scales
  <2>4. QED
    BY <1>2, <2>3
<1>6. b \in [S -> Int] /\ Ho!Total(fl) \in Int /\ Ho!Total(b) = (limit - Ho!Total(fl)) * t
  BY <1>3, BehindSums
<1>7. Ho!Total(b) >= 0
  <2>1. none \in [S -> Int] /\ \A i \in S : none[i] <= b[i]
    BY <1>1, <1>4
  <2> HIDE DEF b, t
  <2>2. Ho!Total(none) <= Ho!Total(b)
    BY <1>1, <1>6, <2>1, TotalLess
  <2>3. QED
    BY <2>2, <1>6, NeedsTotal, TotalInt, <1>1
<1>8. Ho!Total(b) < Cardinality(S) * t
  <2>1. most \in [S -> Int] /\ \A i \in S : b[i] <= most[i]
    BY <1>1, <1>4
  <2>2. ones \in [S -> Int] /\ none \in [S -> Int] /\ t - 1 \in Int
    BY <1>1
  <2>3. Combines(most, t - 1, ones, none, S)
    BY <1>1 DEF Combines
  <2>4. Ho!Total(b) <= Ho!Total(most)
    <3> HIDE DEF b, most
    <3>1. QED
      BY <1>1, <1>6, <2>1, TotalLess
  <2>5. Ho!Total(most) = (t - 1) * Ho!Total(ones) + Ho!Total(none)
    <3> HIDE DEF most, ones, none, t
    <3>1. QED
      BY <1>1, <2>1, <2>2, <2>3, TotalLinear
  <2>6. Ho!Total(ones) = Cardinality(S) /\ Ho!Total(none) = 0
    BY <1>1, TotalOnes, NeedsTotal
  <2>7. Cardinality(S) \in Nat /\ Cardinality(S) > 0
    BY NeedsTotal
  <2>8. Ho!Total(b) \in Int
    BY <1>1, <1>6, TotalInt
  <2>9. Ho!Total(most) = (t - 1) * Cardinality(S) + 0
    BY <2>5, <2>6
  <2> HIDE DEF b, t, most
  <2>10. (t - 1) * Cardinality(S) + 0 < Cardinality(S) * t
    BY <1>1, <2>7
  <2>11. (t - 1) * Cardinality(S) \in Int /\ Cardinality(S) * t \in Int
    BY <1>1, <2>7
  <2>12. QED
    BY <2>4, <2>8, <2>9, <2>10, <2>11
<1>9. Ho!Total(fl) <= limit /\ Ho!Total(fl) > limit - Cardinality(S)
  <2>1. Cardinality(S) \in Nat
    BY NeedsTotal
  <2> DEFINE left == limit - Ho!Total(fl)
  <2>2. left \in Int
    BY <1>1, <1>6
  <2>3. 0 * t <= left * t /\ left * t < Cardinality(S) * t
    BY <1>1, <1>6, <1>7, <1>8
  <2>4. 0 <= left /\ left < Cardinality(S)
    <3> HIDE DEF left, t
    <3>1. QED
      BY <1>1, <2>1, <2>2, <2>3, Scales
  <2>5. QED
    BY <1>1, <1>6, <2>1, <2>4
<1>10. QED
  BY <1>3, <1>4, <1>5, <1>9
-----------------------------------------------------------------------------
(* The split is fair.                                                      *)

FirstDeal(S, needs, limit) ==
  [needs |-> needs, limit |-> limit,
   shares |-> [i \in S |-> Ho!Floored((needs[i] * limit) \div Ho!Total(needs), needs[i])]]

LEMMA FirstShares ==
  ASSUME NEW S, NEW needs, NEW limit, Suggesting(S, needs, limit)
  PROVE  LET d  == FirstDeal(S, needs, limit)
             fl == Floors(S, needs, limit)
         IN  /\ \A i \in S : d.shares[i] = Ho!Smaller(Ho!Larger(1, fl[i]), needs[i])
             /\ d.shares \in [S -> Nat]
             /\ limit >= Ho!Total(needs) => d.shares = needs
             /\ limit <= Ho!Total(needs) => \A i \in S : fl[i] <= needs[i]
<1> DEFINE d == FirstDeal(S, needs, limit)
           fl == Floors(S, needs, limit)
           t == Ho!Total(needs)
<1>1. t \in Nat /\ t > 0 /\ fl \in [S -> Nat]
  BY NeedsTotal, FloorsAre
<1>2. limit \in Nat /\ needs \in [S -> Nat] /\ \A i \in S : needs[i] >= 1
  BY DEF Suggesting
<1>3. \A i \in S : d.shares[i] = Ho!Smaller(Ho!Larger(1, fl[i]), needs[i])
  BY DEF FirstDeal, Floors, Ho!Floored
<1>4. d.shares \in [S -> Nat]
  <2>1. \A i \in S : d.shares[i] \in Nat
    BY <1>1, <1>2, <1>3 DEF Ho!Smaller, Ho!Larger
  <2>2. d.shares = [i \in S |-> d.shares[i]]
    BY DEF FirstDeal
  <2> HIDE DEF d
  <2>3. QED
    BY <2>1, <2>2
<1>5. ASSUME NEW i \in S
      PROVE  /\ limit <= t => fl[i] <= needs[i]
             /\ limit >= t => fl[i] >= needs[i]
  <2>1. fl[i] = (needs[i] * limit) \div t /\ needs[i] * limit \in Nat /\ fl[i] \in Nat
    BY <1>1, <1>2 DEF Floors
  <2> HIDE DEF fl, t
  <2>2. fl[i] * t <= needs[i] * limit /\ needs[i] * limit < fl[i] * t + t
    BY <1>1, <2>1, Quotient
  <2>3. fl[i] * t \in Int /\ needs[i] * t \in Int /\ needs[i] \in Nat
    BY <1>1, <1>2, <2>1
  <2>4. CASE limit <= t
    <3>1. needs[i] * limit <= needs[i] * t
      BY <1>1, <1>2, <2>3, <2>4
    <3>2. fl[i] * t <= needs[i] * t
      BY <2>1, <2>2, <2>3, <3>1
    <3>3. fl[i] <= needs[i]
      BY <1>1, <2>1, <2>3, <3>2, Scales
    <3>4. limit >= t => limit = t
      BY <1>1, <1>2, <2>4
    <3>5. ASSUME limit = t PROVE fl[i] >= needs[i]
      <4>1. needs[i] * t < (fl[i] + 1) * t
        BY <1>1, <2>1, <2>2, <2>3, <3>5, Scales
      <4>2. needs[i] < fl[i] + 1
        BY <1>1, <2>1, <2>3, <4>1, Scales
      <4>3. QED
        BY <2>1, <2>3, <4>2
    <3>6. QED
      BY <3>3, <3>4, <3>5
  <2>5. CASE limit > t
    <3>1. needs[i] * t <= needs[i] * limit
      BY <1>1, <1>2, <2>3, <2>5
    <3>2. needs[i] * t < (fl[i] + 1) * t
      BY <1>1, <2>1, <2>2, <2>3, <3>1, Scales
    <3>3. needs[i] < fl[i] + 1
      BY <1>1, <2>1, <2>3, <3>2, Scales
    <3>4. QED
      BY <1>1, <1>2, <2>1, <2>3, <2>5, <3>3
  <2>6. QED
    BY <1>1, <1>2, <2>4, <2>5
<1>6. ASSUME limit >= t PROVE d.shares = needs
  <2>1. ASSUME NEW i \in S PROVE d.shares[i] = needs[i]
    <3>1. fl[i] >= needs[i] /\ fl[i] \in Nat /\ needs[i] \in Nat /\ needs[i] >= 1
      BY <1>1, <1>2, <1>5, <1>6
    <3> HIDE DEF d, fl
    <3>2. QED
      BY <1>3, <3>1 DEF Ho!Smaller, Ho!Larger
  <2> HIDE DEF d
  <2>2. QED
    BY <1>2, <1>4, <2>1
<1>7. QED
  BY <1>3, <1>4, <1>5, <1>6

LEMMA FirstDealIs ==
  ASSUME NEW S, NEW needs, NEW limit, Suggesting(S, needs, limit)
  PROVE  LET d == FirstDeal(S, needs, limit) IN
         /\ Deal(d, S) /\ Dealt(d, S, d.shares, 0)
         /\ \/ d.shares = d.needs /\ Ho!Total(d.needs) <= d.limit
            \/ /\ d.limit < Ho!Total(d.needs)
               /\ Ho!Total(d.shares) > d.limit - Cardinality(S)
               /\ Ho!Total(d.shares) <= d.limit + Cardinality(S)
<1> DEFINE d == FirstDeal(S, needs, limit)
           fl == Floors(S, needs, limit)
           t == Ho!Total(needs)
<1>1. t \in Nat /\ t > 0 /\ fl \in [S -> Nat] /\ Cardinality(S) \in Nat
      /\ Ho!Total(fl) <= limit /\ Ho!Total(fl) > limit - Cardinality(S)
      /\ \A i, j \in S : needs[i] > needs[j] => fl[i] >= fl[j]
  BY NeedsTotal, FloorsAre
<1>2. /\ limit \in Nat /\ needs \in [S -> Nat] /\ \A i \in S : needs[i] >= 1
      /\ IsFiniteSet(S)
  BY DEF Suggesting
<1>3. /\ \A i \in S : d.shares[i] = Ho!Smaller(Ho!Larger(1, fl[i]), needs[i])
      /\ d.shares \in [S -> Nat]
      /\ limit >= t => d.shares = needs
      /\ limit <= t => \A i \in S : fl[i] <= needs[i]
  BY FirstShares
<1>4. d.needs = needs /\ d.limit = limit
      /\ d = [needs |-> d.needs, limit |-> d.limit, shares |-> d.shares]
  BY DEF FirstDeal
<1> HIDE DEF d, fl, t
<1>5. \A i \in S : 1 <= d.shares[i] /\ d.shares[i] <= needs[i]
  BY <1>1, <1>2, <1>3 DEF Ho!Smaller, Ho!Larger
<1>6. \A i, j \in S : needs[i] > needs[j] => d.shares[i] >= d.shares[j]
  <2>1. ASSUME NEW i \in S, NEW j \in S, needs[i] > needs[j] PROVE d.shares[i] >= d.shares[j]
    <3>1. fl[i] \in Nat /\ fl[j] \in Nat /\ fl[i] >= fl[j] /\ needs[i] \in Nat /\ needs[j] \in Nat
          /\ needs[j] >= 1
      BY <1>1, <1>2, <2>1
    <3>2. QED
      BY <1>3, <2>1, <3>1 DEF Ho!Smaller, Ho!Larger
  <2>2. QED
    BY <2>1
<1>7. Deal(d, S)
  BY <1>2, <1>3, <1>4, <1>5, <1>6 DEF Deal, Suggesting
<1>8. Ho!Total(d.shares) \in Int /\ Ho!Total(fl) \in Int
  <2>1. fl \in [S -> Int]
    BY <1>1
  <2>2. QED
    BY <1>2, <1>7, <2>1, DealSums, TotalInt
<1>9. Dealt(d, S, d.shares, 0)
  <2>1. \A i \in S : d.shares[i] = Ho!Smaller(needs[i], d.shares[i] + 0)
                     /\ d.shares[i] = Ho!Larger(1, d.shares[i] - 0)
    BY <1>2, <1>3, <1>5 DEF Ho!Smaller, Ho!Larger
  <2>2. IF Up(d) THEN Ho!Total(d.shares) <= d.limit ELSE Ho!Total(d.shares) >= d.limit
    BY <1>2, <1>4, <1>8 DEF Up
  <2>3. QED
    BY <1>3, <1>4, <1>5, <1>6, <2>1, <2>2 DEF Dealt
<1>10. CASE limit >= t
  BY <1>1, <1>2, <1>3, <1>4, <1>7, <1>9, <1>10 DEF t, d
<1>11. CASE limit < t
  <2>1. \A i \in S : fl[i] <= d.shares[i] /\ d.shares[i] <= fl[i] + 1
    <3>1. \A i \in S : fl[i] <= needs[i]
      BY <1>1, <1>2, <1>3, <1>11
    <3>2. QED
      BY <1>1, <1>2, <1>3, <3>1 DEF Ho!Smaller, Ho!Larger
  <2>2. fl \in [S -> Int] /\ d.shares \in [S -> Int]
    BY <1>1, <1>3
  <2>3. Ho!Total(fl) <= Ho!Total(d.shares)
    BY <1>2, <2>1, <2>2, TotalLess
  <2> DEFINE ones == [i \in S |-> IF i \in S THEN 1 ELSE 0]
             more == [i \in S |-> fl[i] + 1]
  <2>4. ones \in [S -> Int] /\ more \in [S -> Int] /\ Combines(more, 1, fl, ones, S)
        /\ \A i \in S : d.shares[i] <= more[i]
    BY <1>1, <2>1 DEF Combines
  <2>5. Ho!Total(ones) = Cardinality(S)
    BY <1>2, TotalOnes
  <2> HIDE DEF ones, more
  <2>6. Ho!Total(more) = 1 * Ho!Total(fl) + Ho!Total(ones)
    BY <1>2, <2>2, <2>4, TotalLinear
  <2>7. Ho!Total(d.shares) <= Ho!Total(more)
    BY <1>2, <2>2, <2>4, TotalLess
  <2>8. /\ Ho!Total(d.shares) > limit - Cardinality(S)
        /\ Ho!Total(d.shares) <= limit + Cardinality(S)
    BY <1>1, <1>2, <1>8, <2>3, <2>5, <2>6, <2>7
  <2>9. QED
    BY <1>4, <1>7, <1>9, <1>11, <2>8 DEF t, d
<1>12. QED
  BY <1>1, <1>2, <1>10, <1>11

LEMMA SuggestIsDealt ==
  ASSUME NEW S, NEW needs, NEW limit, Suggesting(S, needs, limit)
  PROVE  LET d == FirstDeal(S, needs, limit) IN
         \E f : /\ Runs(f, d, Cardinality(S) + 2)
                /\ Ho!Suggest(needs, limit) = f[Cardinality(S) + 2]
                /\ Dealt(d, S, f[Cardinality(S) + 2], Cardinality(S) + 2)
                /\ Ho!Total(f[Cardinality(S) + 2]) = Ho!Smaller(limit, Ho!Total(needs))
<1> DEFINE d == FirstDeal(S, needs, limit)
           p == Cardinality(S) + 2
<1>1. Deal(d, S) /\ Dealt(d, S, d.shares, 0)
      /\ \/ d.shares = d.needs /\ Ho!Total(d.needs) <= d.limit
         \/ /\ d.limit < Ho!Total(d.needs)
            /\ Ho!Total(d.shares) > d.limit - Cardinality(S)
            /\ Ho!Total(d.shares) <= d.limit + Cardinality(S)
  BY FirstDealIs
<1>2. Cardinality(S) \in 1..limit /\ DOMAIN needs = S /\ p \in Nat /\ 0 \in 0..p /\ p \in 0..p
  <2>1. Cardinality(S) \in Nat /\ Cardinality(S) > 0
    BY NeedsTotal
  <2>2. QED
    BY <2>1 DEF Suggesting
<1>3. Ho!Suggest(needs, limit) = Ho!Distribute(d)
  BY <1>2, Counting DEF Ho!Suggest, FirstDeal
<1>4. d.needs = needs /\ d.limit = limit
  BY DEF FirstDeal
<1> HIDE DEF d, p
<1>5. PICK f : Runs(f, d, p) /\ Ho!Distribute(d) = f[p]
  BY <1>1, Distributes DEF p
<1>6. f[0] = d.shares
  BY <1>2, <1>5 DEF Runs
<1>7. Dealt(d, S, f[p], p)
  <2>1. \A n \in 0..p : Dealt(d, S, f[n], n)
    BY <1>1, <1>2, <1>5, <1>6, RunDealt
  <2>2. QED
    BY <1>2, <2>1
<1>8. Ho!Total(f[p]) = Ho!Smaller(d.limit, Ho!Total(d.needs))
  BY <1>1, <1>7, PassesMeet DEF p
<1>9. QED
  BY <1>3, <1>4, <1>5, <1>7, <1>8 DEF p, d
LEMMA SuggestKeeps ==
  ASSUME NEW S, NEW needs, NEW limit, Suggesting(S, needs, limit),
         limit <= Ho!Total(needs), \A j \in S : needs[j] * limit >= Ho!Total(needs)
  PROVE  LET b == Behind(S, needs, limit, Ho!Suggest(needs, limit)) IN
         \A i \in S : b[i] \in -(Ho!Total(needs) - 1)..(Ho!Total(needs) - 1)
<1> DEFINE t == Ho!Total(needs)
           d == FirstDeal(S, needs, limit)
           fl == Floors(S, needs, limit)
           p == Cardinality(S) + 2
           B(s) == Behind(S, needs, limit, s)
<1>1. /\ t \in Nat /\ t > 0 /\ p \in Nat /\ p >= 1 /\ fl \in [S -> Nat] /\ Ho!Total(fl) <= limit
      /\ \A i \in S : B(fl)[i] \in 0..(t - 1)
  <2>1. t \in Nat /\ t > 0 /\ Cardinality(S) \in Nat
    BY NeedsTotal
  <2>2. fl \in [S -> Nat] /\ Ho!Total(fl) <= limit /\ \A i \in S : B(fl)[i] \in 0..(t - 1)
    BY FloorsAre
  <2>3. p \in Nat /\ p >= 1
    BY <2>1
  <2>4. QED
    BY <2>1, <2>2, <2>3
<1>2. /\ limit \in Nat /\ needs \in [S -> Nat] /\ \A i \in S : needs[i] >= 1
      /\ IsFiniteSet(S) /\ limit <= t /\ fl \in [S -> Int]
  BY <1>1 DEF Suggesting
<1>3. Deal(d, S)
  BY FirstDealIs
<1>4. d.needs = needs /\ d.limit = limit
  BY DEF FirstDeal
<1>5. ASSUME NEW s \in [S -> Int], NEW i \in S
      PROVE  B(s)[i] = needs[i] * limit - s[i] * t /\ s[i] * t \in Int /\ needs[i] * limit \in Int
  <2>1. B(s)[i] = needs[i] * limit - s[i] * t
    BY DEF Behind
  <2> HIDE DEF t, B
  <2>2. QED
    BY <1>1, <1>2, <2>1
<1>6. \A i \in S : fl[i] >= 1 /\ fl[i] <= needs[i]
  <2>1. ASSUME NEW i \in S PROVE fl[i] >= 1
    <3>1. needs[i] * limit >= t /\ needs[i] * limit \in Nat
      BY <1>2
    <3>2. fl[i] = (needs[i] * limit) \div t
      BY DEF Floors
    <3> HIDE DEF t, fl
    <3>3. QED
      BY <1>1, <3>1, <3>2, QuotientOne
  <2>2. \A i \in S : fl[i] <= needs[i]
    BY <1>2, FirstShares
  <2>3. QED
    BY <2>1, <2>2
<1>7. d.shares = fl
  <2>1. d.shares \in [S -> Nat]
        /\ \A i \in S : d.shares[i] = Ho!Smaller(Ho!Larger(1, fl[i]), needs[i])
    BY FirstShares
  <2> HIDE DEF d, fl
  <2>2. \A i \in S : d.shares[i] = fl[i]
    BY <1>1, <1>2, <1>6, <2>1 DEF Ho!Smaller, Ho!Larger
  <2>3. QED
    BY <1>1, <2>1, <2>2
<1>8. PICK f : Runs(f, d, p) /\ Ho!Suggest(needs, limit) = f[p]
  BY SuggestIsDealt
<1>9. f[0] = fl /\ f[1] = Ho!Pass(d, fl)
  BY <1>1, <1>7, <1>8 DEF Runs
<1> HIDE DEF d, fl, p, t, B
<1>10. CASE Ho!Total(fl) = limit
  <2>1. f[0] \in [S -> Nat] /\ Ho!Total(f[0]) = d.limit /\ 0 \in 0..p
    BY <1>1, <1>4, <1>9, <1>10
  <2>2. \A n \in 0..p : f[n] = f[0]
    BY <1>1, <1>3, <1>8, <2>1, RunStays
  <2>3. f[p] = fl
    BY <1>1, <1>9, <2>2
  <2>4. \A i \in S : B(fl)[i] \in -(t - 1)..(t - 1)
    BY <1>1
  <2>5. QED
    BY <1>8, <2>3, <2>4 DEF B, t
<1>11. CASE Ho!Total(fl) < limit
  <2> DEFINE s == Ho!Pass(d, fl)
             one == ServedOf(d, fl)
             none == [i \in S |-> 0]
  <2>1. /\ s = [i \in S |-> IF i \in one THEN fl[i] + 1 ELSE fl[i]]
        /\ s \in [S -> Nat] /\ Ho!Total(s) <= d.limit
        /\ Ho!Total(s) # d.limit => one = AbleOf(d, fl)
        /\ AbleOf(d, fl) = {i \in S : fl[i] < d.needs[i]}
    BY <1>1, <1>3, <1>4, <1>11, PassUp
  <2>2. \A i \in AbleOf(d, fl), j \in one : Ho!Before(d, i, j) => i \in one
    BY <1>1, <1>3, ServedCount
  <2>3. one \subseteq AbleOf(d, fl)
    BY <1>1, <1>3, ServedCount
  <2> HIDE DEF s, one
  <2>4. s \in [S -> Int] /\ none \in [S -> Int] /\ Ho!Total(none) = 0
    BY <2>1, NeedsTotal
  <2>5. B(s) \in [S -> Int] /\ Ho!Total(s) \in Int /\ Ho!Total(B(s)) = (limit - Ho!Total(s)) * t
    BY <2>4, BehindSums DEF B, t
  <2>6. ASSUME NEW i \in S
        PROVE  /\ B(s)[i] = IF i \in one THEN B(fl)[i] - t ELSE B(fl)[i]
               /\ B(fl)[i] \in Int /\ B(s)[i] \in Int
    <3>1. B(s)[i] = needs[i] * limit - s[i] * t /\ s[i] * t \in Int
      BY <1>5, <2>4
    <3>2. B(fl)[i] = needs[i] * limit - fl[i] * t /\ fl[i] * t \in Int /\ needs[i] * limit \in Int
      BY <1>2, <1>5
    <3>3. CASE i \in one
      <4>1. s[i] = fl[i] + 1 /\ fl[i] \in Int
        BY <1>1, <2>1, <3>3
      <4>2. s[i] * t = fl[i] * t + t
        BY <1>1, <4>1, Scales
      <4>3. QED
        BY <1>1, <3>1, <3>2, <3>3, <4>2
    <3>4. CASE i \notin one
      BY <2>1, <3>1, <3>2, <3>4
    <3>5. QED
      BY <3>3, <3>4
  <2>7. \A i \in S : fl[i] = needs[i] => B(fl)[i] <= 0
    <3>1. ASSUME NEW i \in S, fl[i] = needs[i] PROVE B(fl)[i] <= 0
      <4>1. B(fl)[i] = needs[i] * limit - needs[i] * t /\ needs[i] \in Nat
        BY <1>2, <1>5, <3>1
      <4>2. needs[i] * limit <= needs[i] * t /\ needs[i] * limit \in Int /\ needs[i] * t \in Int
        BY <1>1, <1>2, <4>1
      <4>3. QED
        BY <4>1, <4>2
    <3>2. QED
      BY <3>1
  <2>8. Ho!Total(s) = limit
    <3> SUFFICES ASSUME Ho!Total(s) # limit PROVE FALSE
      OBVIOUS
    <3>1. one = {i \in S : fl[i] < needs[i]} /\ Ho!Total(s) <= limit
      BY <1>4, <2>1
    <3>2. \A i \in S : B(s)[i] <= none[i]
      <4> SUFFICES ASSUME NEW i \in S PROVE B(s)[i] <= 0
        OBVIOUS
      <4>1. CASE fl[i] = needs[i]
        BY <1>1, <1>2, <2>6, <2>7, <3>1, <4>1
      <4>2. CASE fl[i] < needs[i]
        BY <1>1, <2>6, <3>1, <4>2
      <4>3. fl[i] \in Int /\ needs[i] \in Int /\ fl[i] <= needs[i]
        BY <1>2, <1>6
      <4>4. QED
        BY <4>1, <4>2, <4>3
    <3>3. Ho!Total(B(s)) <= 0
      BY <1>2, <2>4, <2>5, <3>2, TotalLess
    <3>4. 0 * t < (limit - Ho!Total(s)) * t
      BY <1>1, <1>2, <2>5, <3>1, Scales
    <3>5. QED
      BY <1>1, <1>2, <2>5, <3>3, <3>4
  <2>9. \A i \in S : B(s)[i] \in -(t - 1)..(t - 1)
    <3> SUFFICES ASSUME NEW i \in S, B(s)[i] \notin -(t - 1)..(t - 1) PROVE FALSE
      OBVIOUS
    <3>1. i \in one /\ B(fl)[i] = 0 /\ B(s)[i] < 0
      BY <1>1, <2>6
    <3>2. \A j \in S : B(s)[j] <= none[j]
      <4> SUFFICES ASSUME NEW j \in S, B(s)[j] > 0 PROVE FALSE
        BY <2>4, <2>6
      <4>1. j \notin one /\ B(fl)[j] > 0
        BY <1>1, <2>6
      <4>2. j \in AbleOf(d, fl)
        <5>1. fl[j] \in Int /\ needs[j] \in Int /\ fl[j] <= needs[j]
          BY <1>2, <1>6
        <5>2. fl[j] # needs[j]
          BY <2>6, <2>7, <4>1
        <5>3. QED
          BY <1>4, <2>1, <5>1, <5>2
      <4>3. Ho!Short(d, j) = B(fl)[j] /\ Ho!Short(d, i) = B(fl)[i]
        BY <1>2, <1>4, <1>5, <1>7 DEF Ho!Short, t
      <4>4. Ho!Total(d.shares) < d.limit
        BY <1>4, <1>7, <1>11
      <4>5. Ho!Before(d, j, i)
        BY <3>1, <4>1, <4>3, <4>4 DEF Ho!Before
      <4>6. QED
        BY <2>2, <3>1, <4>1, <4>2, <4>5
    <3>3. Ho!Total(B(s)) < Ho!Total(none)
      <4>1. B(s)[i] < none[i]
        BY <3>1
      <4>2. QED
        BY <1>2, <2>4, <2>5, <3>2, <4>1, TotalLess
    <3>4. (limit - Ho!Total(s)) * t = 0
      BY <1>1, <1>2, <2>8
    <3>5. QED
      BY <2>4, <2>5, <3>3, <3>4
  <2>10. f[1] = s /\ 1 \in 0..p /\ Ho!Total(f[1]) = d.limit /\ f[1] \in [S -> Nat]
    BY <1>1, <1>4, <1>9, <2>1, <2>8 DEF s
  <2>11. \A n \in 1..p : f[n] = f[1]
    BY <1>1, <1>3, <1>8, <2>10, RunStays
  <2>12. f[p] = s
    BY <1>1, <2>10, <2>11
  <2>13. QED
    BY <1>8, <2>9, <2>12 DEF B, t
<1>12. Ho!Total(fl) \in Int
  BY <1>2, TotalInt
<1>13. QED
  BY <1>1, <1>2, <1>10, <1>11, <1>12

LEMMA SuggestIsFair ==
  ASSUME NEW S, NEW needs, NEW limit, Suggesting(S, needs, limit)
  PROVE  /\ Ho!Fair(needs, limit, Ho!Suggest(needs, limit))
         /\ Ho!Suggest(needs, limit) \in [S -> Nat]
         /\ Ho!Total(Ho!Suggest(needs, limit)) <= limit
<1> DEFINE s == Ho!Suggest(needs, limit)
           t == Ho!Total(needs)
           d == FirstDeal(S, needs, limit)
           p == Cardinality(S) + 2
<1>1. Dealt(d, S, s, p) /\ Ho!Total(s) = Ho!Smaller(limit, t) /\ d.needs = needs
  BY SuggestIsDealt DEF FirstDeal
<1>2. t \in Nat /\ limit \in Nat /\ needs \in [S -> Nat]
  <2>1. t \in Nat
    BY NeedsTotal
  <2>2. QED
    BY <2>1 DEF Suggesting
<1>3. DOMAIN needs = S
  BY <1>2
<1>4. ASSUME limit <= t, \A j \in S : needs[j] * limit >= t
      PROVE  \A i \in S : needs[i] * limit - s[i] * t \in -(t - 1)..(t - 1)
  <2>1. \A i \in S : Behind(S, needs, limit, s)[i] \in -(t - 1)..(t - 1)
    BY <1>4, SuggestKeeps
  <2>2. QED
    BY <2>1 DEF Behind
<1> HIDE DEF s, t, d, p
<1>5. /\ s \in [S -> Nat] /\ \A i \in S : s[i] \in 1..needs[i]
      /\ \A i, j \in S : needs[i] > needs[j] => s[i] >= s[j]
  BY <1>1, <1>2 DEF Dealt
<1>6. Ho!Fair(needs, limit, s)
  <2>1. DOMAIN s = DOMAIN needs /\ Ho!Total(s) = Ho!Smaller(limit, Ho!Total(needs))
    BY <1>1, <1>3, <1>5 DEF t
  <2>2. \A i \in DOMAIN needs :
          /\ s[i] \in 1..needs[i]
          /\ \A j \in DOMAIN needs : needs[i] > needs[j] => s[i] >= s[j]
    BY <1>3, <1>5
  <2>3. (limit <= t /\ \A j \in DOMAIN needs : needs[j] * limit >= t) =>
          \A i \in DOMAIN needs : needs[i] * limit - s[i] * t \in -(t - 1)..(t - 1)
    BY <1>3, <1>4
  <2>4. QED
    BY <2>1, <2>2, <2>3 DEF Ho!Fair, t
<1>7. QED
  BY <1>1, <1>2, <1>5, <1>6 DEF Ho!Smaller, s

LEMMA SplitsAreFair == Ho!SharesAreFair
<1>0. MaxSharing \in Nat /\ MaxNeed \in Nat
  BY FrontAssumption
<1> SUFFICES ASSUME NEW n \in 1..MaxSharing, NEW needs \in [1..n -> 1..MaxNeed],
                    NEW limit \in n..(MaxNeed + 2)
             PROVE  Ho!Fair(needs, limit, Ho!Suggest(needs, limit))
  BY DEF Ho!SharesAreFair
<1>1. IsFiniteSet(1..n) /\ Cardinality(1..n) = n
  BY <1>0, FS_Interval
<1>2. needs \in [1..n -> Nat] /\ \A i \in 1..n : needs[i] >= 1
  BY <1>0
<1>3. 1..n \subseteq Nat /\ 1..n # {} /\ limit \in Nat
  BY <1>0, FS_EmptySet, <1>1
<1>4. Suggesting(1..n, needs, limit)
  BY <1>1, <1>2, <1>3 DEF Suggesting
<1>5. QED
  BY <1>4, SuggestIsFair

-----------------------------------------------------------------------------
(* The dashboard.  The advice is a fair split of what the page read, so it *)
(* fits; while nobody else sets a pace and no call is lost, each campaign  *)
(* the calls have reached holds its share or has nothing left, so an apply *)
(* that succeeds leaves paces that fit; and what is sent, paused or        *)
(* removed after it only takes campaigns out of the sum.                   *)

LEMMA HomeConstants ==
  IsFiniteSet(Campaigns) /\ Campaigns \subseteq Nat /\ 0 \notin Campaigns /\ Limit \in Nat
<1>1. IsFiniteSet(Campaigns) /\ Campaigns = 1..Cardinality(Campaigns) /\ Limit \in Nat
  BY FrontAssumption
<1>2. Cardinality(Campaigns) \in Nat
  BY <1>1, FS_CardinalityType
<1> QED
  BY <1>1, <1>2

\* More is in the sum of more.
LEMMA OnMore ==
  ASSUME NEW top, IsFiniteSet(top), NEW f \in [top -> Nat], NEW r \in SUBSET top
  PROVE  \A s \in SUBSET top : r \subseteq s => On(f, r) <= On(f, s)
<1> DEFINE bad == {s \in SUBSET top : r \subseteq s /\ ~(On(f, r) <= On(f, s))}
<1>1. SUFFICES ASSUME bad # {} PROVE FALSE
  OBVIOUS
<1>2. PICK s \in bad : \A q \in SUBSET s : q # s => q \notin bad
  <2>1. bad \in SUBSET SUBSET top
    OBVIOUS
  <2> HIDE DEF bad
  <2> QED
    BY <1>1, <2>1, SmallestOf
<1>3. f \in [top -> Int]
  OBVIOUS
<1>4. On(f, r) \in Int /\ On(f, s) \in Int
  BY <1>3, OnInt
<1>5. PICK x \in s : x \notin r
  BY <1>4
<1>6. On(f, s) = f[x] + On(f, s \ {x}) /\ f[x] \in Nat
  BY <1>3, OnTake
<1>7. s \ {x} \in SUBSET top /\ r \subseteq s \ {x} /\ s \ {x} # s /\ s \ {x} \in SUBSET s
  BY <1>5
<1>8. On(f, r) <= On(f, s \ {x}) /\ On(f, s \ {x}) \in Int
  BY <1>2, <1>3, <1>7, OnInt
<1> QED
  BY <1>4, <1>6, <1>8

LEMMA PartsAreMore ==
  ASSUME NEW s, IsFiniteSet(s), NEW f \in [s -> Nat], NEW r \in SUBSET s, NEW g,
         g = [x \in r |-> g[x]], \A x \in r : g[x] = f[x]
  PROVE  Ho!Total(g) <= Ho!Total(f) /\ Ho!Total(g) \in Int /\ Ho!Total(f) \in Int
<1>1. On(f, r) <= On(f, s) /\ f \in [s -> Int]
  BY OnMore
<1>2. g = Part(f, r)
  BY DEF Part
<1>3. On(f, r) \in Int /\ On(f, s) \in Int
  BY <1>1, OnInt
<1> QED
  BY <1>1, <1>2, <1>3, TotalIsOn DEF On

\* What is proposed is for campaigns of the account, and fits.
LEMMA AdviceIsShares ==
  ASSUME NEW l \in Ho!Boards
  PROVE  Ho!Shares(Ho!Advise(l)) /\ Ho!Total(Ho!Advise(l)) <= Limit
<1> DEFINE who == Ho!Sharing(l.rows)
           needs == [c \in who |-> l.rows[c].left]
<1>1. l.rows \in Ho!Tables
  BY DEF Ho!Boards
<1>2. who \subseteq Campaigns /\ \A c \in who : l.rows[c].left \in Nat /\ l.rows[c].left >= 1
  BY <1>1 DEF Ho!Sharing, Ho!Tables, Ho!Row
<1>3. IsFiniteSet(who) /\ who \subseteq Nat
  BY <1>2, HomeConstants, FS_Subset
<1>4. Ho!Shares(Ho!NoShares) /\ Ho!Total(Ho!NoShares) <= Limit
  BY HomeConstants, TotalOfNone DEF Ho!Shares, Ho!NoShares
<1>5. CASE Ho!Advise(l) # Ho!NoShares
  <2>1. Ho!Advise(l) = Ho!Suggest(needs, Limit) /\ Ho!Suggest(needs, Limit) # Ho!NoShares
    BY <1>5 DEF Ho!Advise
  <2>2. Cardinality(who) \in 1..Limit
    BY <2>1, Counting DEF Ho!Suggest
  <2>3. who # {} /\ Cardinality(who) <= Limit
    BY <2>2, HomeConstants, FS_EmptySet
  <2>4. needs \in [who -> Nat] /\ \A c \in who : needs[c] >= 1
    BY <1>2
  <2> HIDE DEF who, needs
  <2>5. Suggesting(who, needs, Limit)
    BY <1>3, <2>3, <2>4, HomeConstants DEF Suggesting
  <2>6. Ho!Suggest(needs, Limit) \in [who -> Nat] /\ Ho!Total(Ho!Suggest(needs, Limit)) <= Limit
    BY <2>5, SuggestIsFair
  <2> QED
    BY <1>2, <2>1, <2>6 DEF Ho!Shares
<1> QED
  BY <1>4, <1>5

\* What the plan still sends, and for how much a day.
StillSent == {c \in plan : Ho!IsActive(camps[c]) /\ camps[c].left > 0}

\* A step that leaves the plan alone, and its campaigns their paces, keeps it within
\* the allowance: none starts to send again.
LEMMA PlanStays ==
  ASSUME Ho!HomeTypes, Ho!PlanFits, camps' \in Ho!Tables, plan' = plan,
         \A c \in Campaigns : Ho!IsActive(camps'[c]) /\ camps'[c].left > 0 =>
           Ho!IsActive(camps[c]) /\ camps[c].left > 0 /\ camps'[c].pace = camps[c].pace
  PROVE  Ho!PlanFits'
<1> DEFINE before == StillSent
           after == StillSent'
           f == Ho!Paces(camps, before)
           g == Ho!Paces(camps', after)
<1>1. before \subseteq Campaigns /\ after \subseteq before
      /\ \A c \in after : camps'[c].pace = camps[c].pace
  BY DEF StillSent, Ho!HomeTypes
<1>2. camps \in Ho!Tables /\ IsFiniteSet(before)
  BY <1>1, HomeConstants, FS_Subset DEF Ho!HomeTypes
<1>3. f \in [before -> Nat] /\ g = [c \in after |-> g[c]] /\ \A c \in after : g[c] = f[c]
  BY <1>1, <1>2 DEF Ho!Paces, Ho!Tables, Ho!Row
<1>4. Ho!Total(f) <= Limit
  BY DEF Ho!PlanFits, StillSent
<1> HIDE DEF before, after, f, g
<1>5. Ho!Total(g) <= Ho!Total(f) /\ Ho!Total(g) \in Int /\ Ho!Total(f) \in Int
  <2>1. PICK s, r, m, l : s = before /\ r = after /\ m = f /\ l = g
    OBVIOUS
  <2>2. /\ IsFiniteSet(s) /\ r \in SUBSET s /\ m \in [s -> Nat]
        /\ l = [c \in r |-> l[c]] /\ \A c \in r : l[c] = m[c]
    BY <1>1, <1>2, <1>3, <2>1
  <2>3. Ho!Total(l) <= Ho!Total(m) /\ Ho!Total(l) \in Int /\ Ho!Total(m) \in Int
    BY <2>2, PartsAreMore
  <2> QED
    BY <2>1, <2>3
<1>6. Ho!Total(g) <= Limit
  BY <1>4, <1>5, HomeConstants
<1> QED
  BY <1>6 DEF Ho!PlanFits, StillSent, before, after, f, g

LEMMA NoPlanFits == plan = {} => Ho!PlanFits
<1> SUFFICES ASSUME plan = {} PROVE Ho!PlanFits
  OBVIOUS
<1>1. StillSent = {} /\ DOMAIN Ho!Paces(camps, StillSent) = {}
  BY DEF StillSent, Ho!Paces
<1>2. Ho!Total(Ho!Paces(camps, StillSent)) = 0
  BY <1>1, TotalOfNone
<1> QED
  BY <1>2, HomeConstants DEF Ho!PlanFits, StillSent

\* The calls of an apply that nobody touched do not hear of what only ends campaigns.
LEMMA ApplyStays ==
  ASSUME Ho!HomeTypes, Ho!ApplyFits, apply' = apply,
         \A c \in Campaigns : /\ camps'[c].pace = camps[c].pace \/ camps'[c].left = 0
                              /\ camps[c].left = 0 => camps'[c].left = 0
  PROVE  Ho!ApplyFits'
<1> SUFFICES ASSUME apply # None
             PROVE  /\ Ho!Total(apply.shares) <= Limit
                    /\ apply.alone /\ ~apply.failed =>
                         \A c \in DOMAIN apply.shares \ apply.waiting :
                           camps'[c].pace = apply.shares[c] \/ camps'[c].left = 0
  BY DEF Ho!ApplyFits
<1>1. DOMAIN apply.shares \subseteq Campaigns
  BY DEF Ho!HomeTypes, Ho!Shares
<1> QED
  BY <1>1 DEF Ho!ApplyFits

LEMMA HomeStays ==
  ASSUME Ho!HomeInv, Ho!HomeTypes', UNCHANGED <<camps, plan, apply>>
  PROVE  Ho!HomeInv'
BY DEF Ho!HomeInv, Ho!AdviceFits, Ho!PlanFits, Ho!ApplyFits

\* The page opens on any campaigns, with nothing applied.
LEMMA HomeStarts ==
  ASSUME Ho!Init PROVE Ho!HomeInv
<1>1. Ho!Starts \subseteq Ho!Row
  BY HomeConstants DEF Ho!Starts, Ho!Row, Ho!Absent
<1>2. camps \in Ho!Tables /\ Ho!NewRead \in Ho!Reads
  BY <1>1 DEF Ho!Init, Ho!Tables, Ho!NewRead, Ho!Reads
<1>3. board \in Ho!Boards
  BY DEF Ho!Init, Ho!Boards, Ho!Tables, Ho!Row, Ho!Absent
<1>4. reads \subseteq Ho!Reads
  BY <1>2 DEF Ho!Init
<1>5. Ho!HomeTypes
  BY <1>2, <1>3, <1>4 DEF Ho!HomeTypes, Ho!Init
<1> QED
  BY <1>5, NoPlanFits DEF Ho!HomeInv, Ho!AdviceFits, Ho!ApplyFits, Ho!Init

LEMMA RefreshIsTyped ==
  ASSUME Ho!HomeTypes, Ho!Refresh PROVE reads' \subseteq Ho!Reads
<1>1. Ho!NewRead \in Ho!Reads
  BY DEF Ho!NewRead, Ho!Reads
<1> QED
  BY <1>1 DEF Ho!HomeTypes, Ho!Refresh

\* The reads: what they carry is what the API has, some time or other.
LEMMA HomeReadsKeep ==
  ASSUME Ho!HomeInv
  PROVE  /\ \A r \in reads : Ho!Serve(r) \/ Ho!Answered(r) => Ho!HomeInv'
         /\ Ho!Retry \/ Ho!Poll => Ho!HomeInv'
<1>1. Ho!HomeTypes
  BY DEF Ho!HomeInv, Ho!AdviceFits
<1>2. ASSUME NEW r \in reads, Ho!Serve(r) PROVE Ho!HomeInv'
  <2>1. r \in Ho!Reads /\ camps \in Ho!Tables
    BY <1>1 DEF Ho!HomeTypes
  <2>2. PICK q \in Ho!Reads : reads' = (reads \ {r}) \cup {q}
    <3>1. [r EXCEPT !.rows = camps] \in Ho!Reads /\ [r EXCEPT !.lost = TRUE] \in Ho!Reads
      BY <2>1 DEF Ho!Reads
    <3>2. [r EXCEPT !.soon = \E c \in Campaigns : camps[c].status \in {"scheduled", "running"}]
            \in Ho!Reads
      BY <2>1 DEF Ho!Reads
    <3> QED
      BY <1>2, <3>1, <3>2 DEF Ho!Serve
  <2>3. reads' \subseteq Ho!Reads
    BY <1>1, <2>2 DEF Ho!HomeTypes
  <2>4. UNCHANGED <<Ho!screen, camps, apply, plan, deletion>>
    BY <1>2 DEF Ho!Serve
  <2>5. Ho!HomeTypes'
    BY <1>1, <2>3, <2>4 DEF Ho!HomeTypes, Ho!screen
  <2> QED
    BY <2>4, <2>5, HomeStays
<1>3. ASSUME NEW r \in reads, Ho!Answered(r) PROVE Ho!HomeInv'
  <2>1. r \in Ho!Reads /\ board \in Ho!Boards
    BY <1>1 DEF Ho!HomeTypes
  <2>2. board' \in Ho!Boards
    <3>1. CASE ~r.lost
      <4>1. r.rows \in Ho!Tables /\ r.soon \in BOOLEAN
        BY <1>3, <2>1, <3>1 DEF Ho!Answered, Ho!Reads
      <4>2. board' = [state |-> "ready", rows |-> r.rows, soon |-> r.soon]
        BY <1>3, <3>1 DEF Ho!Answered
      <4> QED
        BY <4>1, <4>2 DEF Ho!Boards
    <3>2. CASE r.lost
      <4>1. board' = board \/ board' = [board EXCEPT !.state = "failed"]
        BY <1>3, <3>2 DEF Ho!Answered
      <4> QED
        BY <2>1, <4>1 DEF Ho!Boards
    <3> QED
      BY <3>1, <3>2
  <2>3. asking' \in BOOLEAN /\ reads' \subseteq Ho!Reads
    <3>1. PICK l : asking' = (asking /\ Ho!Advise(l) # Ho!NoShares)
      BY <1>3 DEF Ho!Answered
    <3> QED
      BY <1>1, <1>3, <3>1 DEF Ho!Answered, Ho!HomeTypes
  <2>4. UNCHANGED <<view, camps, apply, plan, doomed, deletion, filter, creation>>
    BY <1>3 DEF Ho!Answered
  <2>5. Ho!HomeTypes'
    BY <1>1, <2>2, <2>3, <2>4 DEF Ho!HomeTypes
  <2> QED
    BY <2>4, <2>5, HomeStays
<1>4. ASSUME Ho!Retry PROVE Ho!HomeInv'
  <2>1. board' \in Ho!Boards /\ reads' \subseteq Ho!Reads
    BY <1>1, <1>4, RefreshIsTyped DEF Ho!Retry, Ho!HomeTypes, Ho!Boards
  <2>2. Ho!HomeTypes'
    BY <1>1, <1>4, <2>1 DEF Ho!Retry, Ho!HomeTypes
  <2> QED
    BY <1>4, <2>2, HomeStays DEF Ho!Retry
<1>5. ASSUME Ho!Poll PROVE Ho!HomeInv'
  <2>1. reads' \subseteq Ho!Reads
    BY <1>1, <1>5, RefreshIsTyped DEF Ho!Poll
  <2>2. Ho!HomeTypes'
    BY <1>1, <1>5, <2>1 DEF Ho!Poll, Ho!HomeTypes, Ho!screen
  <2> QED
    BY <1>5, <2>2, HomeStays DEF Ho!Poll
<1> QED
  BY <1>2, <1>3, <1>4, <1>5

\* The worker ends campaigns and sets no pace.
LEMMA HomeEngineKeeps ==
  ASSUME Ho!HomeInv, NEW c \in Campaigns, Ho!Engine(c)
  PROVE  Ho!HomeInv'
<1>1. Ho!HomeTypes /\ Ho!PlanFits /\ Ho!ApplyFits /\ camps \in Ho!Tables
  BY DEF Ho!HomeInv, Ho!AdviceFits, Ho!HomeTypes
<1>2. camps[c] \in Ho!Row /\ camps = [d \in Campaigns |-> camps[d]]
  BY <1>1 DEF Ho!Tables
<1>3. PICK row \in Ho!Row :
        /\ camps' = [camps EXCEPT ![c] = row] /\ row.pace = camps[c].pace
        /\ Ho!IsActive(row) /\ row.left > 0 => Ho!IsActive(camps[c]) /\ camps[c].left > 0
        /\ camps[c].left = 0 => row.left = 0
  <2>1. CASE camps[c].status = "scheduled" /\ camps' = [camps EXCEPT ![c].status = "running"]
    <3> DEFINE row == [camps[c] EXCEPT !.status = "running"]
    <3>1. row \in Ho!Row /\ row.pace = camps[c].pace /\ row.left = camps[c].left
      BY <1>2 DEF Ho!Row
    <3>2. camps' = [camps EXCEPT ![c] = row] /\ Ho!IsActive(camps[c])
      BY <2>1 DEF Ho!IsActive
    <3> QED
      BY <3>1, <3>2
  <2>2. CASE /\ camps[c].status = "running" /\ camps[c].left > 0
             /\ camps' = [camps EXCEPT ![c].left = @ - 1,
                            ![c].status = IF camps[c].left = 1 THEN "completed" ELSE @]
    <3> DEFINE row == [camps[c] EXCEPT !.left = @ - 1,
                         !.status = IF camps[c].left = 1 THEN "completed" ELSE @]
    <3>1. row \in Ho!Row /\ row.pace = camps[c].pace
      BY <1>2, <2>2 DEF Ho!Row
    <3>2. camps' = [camps EXCEPT ![c] = row] /\ Ho!IsActive(camps[c])
      BY <1>2, <2>2 DEF Ho!IsActive, Ho!Row
    <3>3. camps[c].left # 0 /\ camps[c].left > 0
      BY <2>2
    <3> HIDE DEF row
    <3> QED
      BY <3>1, <3>2, <3>3
  <2> QED
    BY <2>1, <2>2 DEF Ho!Engine
<1>4. camps' \in Ho!Tables /\ \A d \in Campaigns : camps'[d] = IF d = c THEN row ELSE camps[d]
  BY <1>1, <1>3 DEF Ho!Tables
<1>5. UNCHANGED <<Ho!screen, reads, apply, plan, deletion>>
  BY DEF Ho!Engine
<1>6. Ho!HomeTypes'
  BY <1>1, <1>4, <1>5 DEF Ho!HomeTypes, Ho!screen
<1>7. Ho!PlanFits'
  BY <1>1, <1>3, <1>4, <1>5, PlanStays
<1>8. Ho!ApplyFits'
  BY <1>1, <1>3, <1>4, <1>5, ApplyStays
<1> QED
  BY <1>6, <1>7, <1>8 DEF Ho!HomeInv, Ho!AdviceFits

\* A pace set elsewhere breaks what was planned, so nothing is promised of it.
LEMMA SetElsewhereKeeps ==
  ASSUME Ho!HomeInv, NEW c \in Campaigns, NEW p \in {1, Limit}, Ho!SetElsewhere(c, p)
  PROVE  Ho!HomeInv'
<1>1. Ho!HomeTypes /\ Ho!ApplyFits /\ camps \in Ho!Tables
  BY DEF Ho!HomeInv, Ho!AdviceFits, Ho!HomeTypes
<1>2. camps' \in Ho!Tables
  <2>1. camps' = [camps EXCEPT ![c].pace = p] /\ p \in Nat
    BY HomeConstants DEF Ho!SetElsewhere
  <2>2. [camps[c] EXCEPT !.pace = p] \in Ho!Row
    BY <1>1, <2>1 DEF Ho!Tables, Ho!Row
  <2>3. camps' = [camps EXCEPT ![c] = [camps[c] EXCEPT !.pace = p]]
    BY <2>1
  <2> QED
    BY <1>1, <2>2, <2>3 DEF Ho!Tables
<1>3. plan' = {} /\ UNCHANGED <<Ho!screen, reads, deletion>>
      /\ apply' = (IF apply = None THEN None ELSE [apply EXCEPT !.alone = FALSE])
  BY DEF Ho!SetElsewhere
<1>4. apply' # None => /\ apply' \in Ho!Applies(apply.shares) /\ apply'.shares = apply.shares
                       /\ apply # None /\ ~apply'.alone
  BY <1>1, <1>3 DEF Ho!HomeTypes, Ho!Applies
<1>5. Ho!HomeTypes'
  <2>1. apply' # None => Ho!Shares(apply'.shares) /\ apply' \in Ho!Applies(apply'.shares)
    BY <1>1, <1>4 DEF Ho!HomeTypes
  <2> QED
    BY <1>1, <1>2, <1>3, <2>1 DEF Ho!HomeTypes, Ho!screen, Ho!Shares, Ho!Applies
<1>6. Ho!PlanFits'
  <2>1. (plan = {})' => Ho!PlanFits'
    BY NoPlanFits, PTL
  <2> QED
    BY <1>3, <2>1
<1>7. Ho!ApplyFits'
  BY <1>1, <1>4 DEF Ho!ApplyFits
<1> QED
  BY <1>5, <1>6, <1>7 DEF Ho!HomeInv, Ho!AdviceFits

\* The dialog, and the failure that leaves it open.
LEMMA AdviceDialogKeeps ==
  ASSUME Ho!HomeInv, Ho!OpenAdvice \/ Ho!CloseAdvice \/ Ho!ApplyFails
  PROVE  Ho!HomeInv'
<1>1. Ho!HomeTypes /\ Ho!PlanFits /\ Ho!ApplyFits
  BY DEF Ho!HomeInv, Ho!AdviceFits
<1>2. CASE Ho!OpenAdvice \/ Ho!CloseAdvice
  <2>1. /\ asking' \in BOOLEAN
        /\ UNCHANGED <<view, camps, board, reads, apply, plan, doomed, deletion, filter, creation>>
    BY <1>2 DEF Ho!OpenAdvice, Ho!CloseAdvice
  <2>2. Ho!HomeTypes'
    BY <1>1, <2>1 DEF Ho!HomeTypes
  <2> QED
    BY <2>1, <2>2, HomeStays
<1>3. CASE Ho!ApplyFails
  <2>1. /\ apply' = None \/ apply' = [apply EXCEPT !.told = TRUE]
        /\ apply # None /\ UNCHANGED <<Ho!screen, camps, reads, plan, deletion>>
    BY <1>3 DEF Ho!ApplyFails
  <2>2. apply' # None => /\ apply' \in Ho!Applies(apply.shares) /\ apply'.shares = apply.shares
                         /\ apply'.waiting = apply.waiting /\ apply'.failed = apply.failed
                         /\ apply'.alone = apply.alone
    BY <1>1, <2>1 DEF Ho!HomeTypes, Ho!Applies
  <2>3. apply' # None => Ho!Shares(apply'.shares) /\ apply' \in Ho!Applies(apply'.shares)
    BY <1>1, <2>1, <2>2 DEF Ho!HomeTypes
  <2>4. Ho!HomeTypes'
    BY <1>1, <2>1, <2>3 DEF Ho!HomeTypes, Ho!screen, Ho!Shares, Ho!Applies
  <2>5. Ho!ApplyFits'
    BY <1>1, <2>1, <2>2 DEF Ho!ApplyFits
  <2>6. Ho!PlanFits'
    BY <1>1, <2>1 DEF Ho!PlanFits
  <2> QED
    BY <2>4, <2>5, <2>6 DEF Ho!HomeInv, Ho!AdviceFits
<1> QED
  BY <1>2, <1>3

\* Who already has its share on screen, and in the API when nobody touched it, is
\* not waited for.
LEMMA ApplyKeeps ==
  ASSUME Ho!HomeInv, Ho!Apply
  PROVE  Ho!HomeInv'
<1>1. Ho!HomeTypes /\ Ho!PlanFits /\ board \in Ho!Boards
  BY DEF Ho!HomeInv, Ho!AdviceFits, Ho!HomeTypes
<1>2. PICK f, w, k :
        /\ f = Ho!Advised /\ w = Ho!Changing
        /\ k = (\A c \in DOMAIN f : board.rows[c].pace = camps[c].pace)
        /\ apply' = [shares |-> f, waiting |-> w, got |-> {}, failed |-> FALSE, told |-> FALSE,
                     alone |-> k]
  BY DEF Ho!Apply
<1>3. UNCHANGED <<Ho!screen, camps, reads, plan, deletion>>
  BY DEF Ho!Apply
<1>4. Ho!Shares(f) /\ Ho!Total(f) <= Limit
  BY <1>1, <1>2, AdviceIsShares DEF Ho!Advised
<1>5. w \subseteq DOMAIN f /\ k \in BOOLEAN
      /\ \A c \in DOMAIN f \ w : f[c] = board.rows[c].pace
  BY <1>2 DEF Ho!Changing
<1>6. apply' \in Ho!Applies(f) /\ apply'.shares = f
  BY <1>2, <1>5 DEF Ho!Applies
<1>7. Ho!HomeTypes'
  BY <1>1, <1>3, <1>4, <1>6 DEF Ho!HomeTypes, Ho!screen, Ho!Shares, Ho!Applies
<1>8. Ho!ApplyFits'
  BY <1>2, <1>3, <1>4, <1>5 DEF Ho!ApplyFits
<1>9. Ho!PlanFits'
  BY <1>1, <1>3 DEF Ho!PlanFits
<1> QED
  BY <1>7, <1>8, <1>9 DEF Ho!HomeInv, Ho!AdviceFits

\* A call that is answered without a failure left the share where it was sent.
LEMMA ServePaceKeeps ==
  ASSUME Ho!HomeInv, apply # None, NEW c \in apply.waiting, Ho!ServePace(c)
  PROVE  Ho!HomeInv'
<1>1. /\ Ho!HomeTypes /\ Ho!PlanFits /\ Ho!ApplyFits /\ camps \in Ho!Tables
      /\ Ho!Shares(apply.shares) /\ apply \in Ho!Applies(apply.shares)
  BY DEF Ho!HomeInv, Ho!AdviceFits, Ho!HomeTypes
<1>2. PICK f, w : f = apply.shares /\ w = apply.waiting
  OBVIOUS
<1>3. c \in DOMAIN f /\ c \in Campaigns /\ f[c] \in Nat /\ w \subseteq DOMAIN f
      /\ DOMAIN f \subseteq Campaigns
  BY <1>1, <1>2 DEF Ho!Shares, Ho!Applies
<1>4. PICK ok, after :
        /\ ok = (camps[c].status \notin {"completed", "absent"})
        /\ after = IF ok THEN [camps EXCEPT ![c].pace = f[c]] ELSE camps
  OBVIOUS
<1>5. after \in Ho!Tables /\ (ok => after[c].pace = f[c])
      /\ \A d \in Campaigns : d # c => after[d] = camps[d]
  <2>1. [camps[c] EXCEPT !.pace = f[c]] \in Ho!Row
    BY <1>1, <1>3 DEF Ho!Tables, Ho!Row
  <2>2. ok => after = [camps EXCEPT ![c] = [camps[c] EXCEPT !.pace = f[c]]]
    BY <1>4
  <2>3. camps[c] \in Ho!Row
    BY <1>1, <1>3 DEF Ho!Tables
  <2> QED
    BY <1>1, <1>3, <1>4, <2>1, <2>2, <2>3 DEF Ho!Tables, Ho!Row
<1>6. /\ camps' \in {camps, after} /\ plan' = (IF camps' = camps THEN plan ELSE {})
      /\ UNCHANGED <<Ho!screen, reads, deletion>>
      /\ apply' = None \/ \E g, x :
           /\ apply' = [[apply EXCEPT !.waiting = @ \ {c}] EXCEPT !.failed = x, !.got = g]
           /\ g \in {apply.got, apply.got \cup {[c |-> c, row |-> after[c]]}}
           /\ x \in BOOLEAN /\ (~x => ok /\ ~apply.failed /\ camps' = after)
  <2>1. apply.failed \in BOOLEAN /\ ok \in BOOLEAN
    BY <1>1, <1>4 DEF Ho!Applies
  <2>2. camps' \in {camps, after} /\ plan' = (IF camps' = camps THEN plan ELSE {})
        /\ UNCHANGED <<Ho!screen, reads, deletion>>
    BY <1>2, <1>4 DEF Ho!ServePace
  <2> DEFINE over == apply.told /\ apply.waiting = {c}
             rest == [apply EXCEPT !.waiting = @ \ {c}]
             more == IF ok THEN apply.got \cup {[c |-> c, row |-> after[c]]} ELSE apply.got
  <2>3. \/ /\ camps' = after
           /\ apply' = IF over THEN None
                       ELSE [rest EXCEPT !.failed = apply.failed \/ ~ok, !.got = more]
        \/ apply' = IF over THEN None ELSE [rest EXCEPT !.failed = TRUE]
    BY <1>1, <1>2, <1>4 DEF Ho!ServePace, Ho!Applies
  <2>4. CASE apply' = None
    BY <2>2, <2>4
  <2>5. CASE camps' = after /\ apply' = [rest EXCEPT !.failed = apply.failed \/ ~ok, !.got = more]
    <3> DEFINE x == apply.failed \/ ~ok
    <3>1. x \in BOOLEAN /\ (~x => ok /\ ~apply.failed)
          /\ more \in {apply.got, apply.got \cup {[c |-> c, row |-> after[c]]}}
      BY <2>1
    <3>2. apply' = [rest EXCEPT !.failed = x, !.got = more]
      BY <2>5
    <3> HIDE DEF x, more
    <3> QED
      BY <2>2, <2>5, <3>1, <3>2
  <2>6. CASE apply' = [rest EXCEPT !.failed = TRUE]
    <3>1. apply' = [rest EXCEPT !.failed = TRUE, !.got = apply.got]
      BY <1>1, <2>6 DEF Ho!Applies
    <3> QED
      BY <2>2, <3>1
  <2> QED
    BY <2>3, <2>4, <2>5, <2>6
<1>7. apply' # None =>
        /\ apply' \in Ho!Applies(f) /\ apply'.shares = f /\ apply'.waiting = w \ {c}
        /\ apply'.alone = apply.alone
        /\ ~apply'.failed => ok /\ ~apply.failed /\ camps' = after
  <2> SUFFICES ASSUME apply' # None
      PROVE  /\ apply' \in Ho!Applies(f) /\ apply'.shares = f /\ apply'.waiting = w \ {c}
             /\ apply'.alone = apply.alone
             /\ ~apply'.failed => ok /\ ~apply.failed /\ camps' = after
    OBVIOUS
  <2>1. PICK g, x :
          /\ apply' = [[apply EXCEPT !.waiting = @ \ {c}] EXCEPT !.failed = x, !.got = g]
          /\ g \in {apply.got, apply.got \cup {[c |-> c, row |-> after[c]]}}
          /\ x \in BOOLEAN /\ (~x => ok /\ ~apply.failed /\ camps' = after)
    BY <1>6
  <2>2. g \in SUBSET [c : Campaigns, row : Ho!Row]
    <3>1. [c |-> c, row |-> after[c]] \in [c : Campaigns, row : Ho!Row]
      BY <1>3, <1>5 DEF Ho!Tables
    <3> QED
      BY <1>1, <2>1, <3>1 DEF Ho!Applies
  <2> QED
    BY <1>1, <1>2, <2>1, <2>2 DEF Ho!Applies
<1>8. Ho!HomeTypes'
  <2>1. camps' \in Ho!Tables /\ plan' \subseteq Campaigns
    BY <1>1, <1>5, <1>6 DEF Ho!HomeTypes
  <2>2. apply' # None => Ho!Shares(apply'.shares) /\ apply' \in Ho!Applies(apply'.shares)
    BY <1>1, <1>2, <1>7
  <2> QED
    BY <1>1, <1>6, <2>1, <2>2 DEF Ho!HomeTypes, Ho!screen, Ho!Shares, Ho!Applies
<1>9. Ho!PlanFits'
  <2>1. CASE camps' = camps
    BY <1>1, <1>6, <2>1 DEF Ho!PlanFits
  <2>2. CASE plan' = {}
    <3>1. (plan = {})' => Ho!PlanFits'
      BY NoPlanFits, PTL
    <3> QED
      BY <2>2, <3>1
  <2> QED
    BY <1>6, <2>1, <2>2
<1>10. Ho!ApplyFits'
  <2> SUFFICES ASSUME apply' # None
               PROVE  /\ Ho!Total(apply'.shares) <= Limit
                      /\ apply'.alone /\ ~apply'.failed =>
                           \A d \in DOMAIN apply'.shares \ apply'.waiting :
                             camps'[d].pace = apply'.shares[d] \/ camps'[d].left = 0
    BY DEF Ho!ApplyFits
  <2>1. Ho!Total(f) <= Limit
        /\ (apply.alone /\ ~apply.failed =>
              \A d \in DOMAIN f \ w : camps[d].pace = f[d] \/ camps[d].left = 0)
    BY <1>1, <1>2 DEF Ho!ApplyFits
  <2>2. ASSUME apply.alone, ~apply.failed, ok, NEW d \in DOMAIN f \ (w \ {c})
        PROVE  after[d].pace = f[d] \/ after[d].left = 0
    BY <1>3, <1>5, <2>1, <2>2
  <2> QED
    BY <1>7, <2>1, <2>2
<1> QED
  BY <1>8, <1>9, <1>10 DEF Ho!HomeInv, Ho!AdviceFits

\* A plan is what an apply set whole, and it fits as its shares do.
LEMMA AppliedKeeps ==
  ASSUME Ho!HomeInv, Ho!Applied
  PROVE  Ho!HomeInv'
<1>1. /\ Ho!HomeTypes /\ Ho!ApplyFits /\ camps \in Ho!Tables /\ apply # None
      /\ Ho!Shares(apply.shares) /\ apply \in Ho!Applies(apply.shares)
      /\ board \in Ho!Boards
  BY DEF Ho!HomeInv, Ho!AdviceFits, Ho!HomeTypes, Ho!Applied
<1>2. /\ apply' = None /\ asking' = FALSE /\ ~apply.failed /\ apply.waiting = {}
      /\ plan' = (IF apply.alone THEN DOMAIN apply.shares ELSE {})
      /\ UNCHANGED <<view, camps, doomed, deletion, filter, creation>>
  BY DEF Ho!Applied
<1>3. reads' \subseteq Ho!Reads
  BY <1>1, RefreshIsTyped DEF Ho!Applied
<1>4. board' \in Ho!Boards
  <2>1. PICK rows : /\ board' = [board EXCEPT !.rows = rows]
                    /\ rows = [c \in Campaigns |->
                         IF \E g \in apply.got :
                              g.c = c /\ Ho!Ready /\ board.rows[c].status # "absent"
                         THEN (CHOOSE g \in apply.got : g.c = c).row ELSE board.rows[c]]
    BY <1>1 DEF Ho!Applied, Ho!Boards
  <2>2. apply.got \subseteq [c : Campaigns, row : Ho!Row] /\ board.rows \in Ho!Tables
    BY <1>1 DEF Ho!Applies, Ho!Boards
  <2>3. ASSUME NEW c \in Campaigns PROVE rows[c] \in Ho!Row
    <3>1. CASE rows[c] = board.rows[c]
      BY <2>2, <3>1 DEF Ho!Tables
    <3>2. CASE /\ \E g \in apply.got : g.c = c
               /\ rows[c] = (CHOOSE g \in apply.got : g.c = c).row
      <4>1. PICK g \in apply.got : rows[c] = g.row
        BY <3>2
      <4> QED
        BY <2>2, <4>1
    <3> QED
      BY <2>1, <3>1, <3>2
  <2>4. rows \in Ho!Tables
    BY <2>1, <2>3 DEF Ho!Tables
  <2> QED
    BY <1>1, <2>1, <2>4 DEF Ho!Boards
<1>5. Ho!HomeTypes'
  <2>1. plan' \subseteq Campaigns
    BY <1>1, <1>2 DEF Ho!Shares
  <2> QED
    BY <1>1, <1>2, <1>3, <1>4, <2>1 DEF Ho!HomeTypes
<1>6. Ho!PlanFits'
  <2>1. CASE apply.alone
    <3> DEFINE after == {c \in plan' : Ho!IsActive(camps[c]) /\ camps[c].left > 0}
    <3>1. PICK s, r, m, l : /\ s = DOMAIN apply.shares /\ r = after /\ m = apply.shares
                            /\ l = Ho!Paces(camps, after)
      OBVIOUS
    <3>2. s \subseteq Campaigns /\ m \in [s -> Nat] /\ r \in SUBSET s
      BY <1>1, <1>2, <2>1, <3>1 DEF Ho!Shares
    <3>3. IsFiniteSet(s)
      BY <3>2, HomeConstants, FS_Subset
    <3>4. l = [c \in r |-> l[c]] /\ \A c \in r : l[c] = camps[c].pace
      BY <3>1 DEF Ho!Paces
    <3>5. \A c \in r : l[c] = m[c]
      <4>1. \A c \in s : camps[c].pace = m[c] \/ camps[c].left = 0
        BY <1>1, <1>2, <2>1, <3>1 DEF Ho!ApplyFits
      <4>2. \A c \in r : camps[c].left > 0 /\ camps[c].left # 0
        BY <3>1
      <4> QED
        BY <3>2, <3>4, <4>1, <4>2
    <3>6. Ho!Total(l) <= Ho!Total(m) /\ Ho!Total(l) \in Int /\ Ho!Total(m) \in Int
      BY <3>2, <3>3, <3>4, <3>5, PartsAreMore
    <3>7. Ho!Total(m) <= Limit
      BY <1>1, <3>1 DEF Ho!ApplyFits
    <3>8. Ho!Total(l) <= Limit
      BY <3>6, <3>7, HomeConstants
    <3> QED
      BY <1>2, <3>1, <3>8 DEF Ho!PlanFits
  <2>2. CASE ~apply.alone
    <3>1. (plan = {})' => Ho!PlanFits'
      BY NoPlanFits, PTL
    <3> QED
      BY <1>2, <2>2, <3>1
  <2> QED
    BY <2>1, <2>2
<1>7. Ho!ApplyFits'
  BY <1>2 DEF Ho!ApplyFits
<1> QED
  BY <1>5, <1>6, <1>7 DEF Ho!HomeInv, Ho!AdviceFits

\* The list, its filter and its pages, and the dialog of a removal.
LEMMA ListsKeep ==
  ASSUME Ho!HomeInv
  PROVE  /\ \A s \in {"all", "draft"} : Ho!Refine(s) => Ho!HomeInv'
         /\ Ho!TurnPage => Ho!HomeInv'
         /\ \A c \in Campaigns : Ho!OpenDelete(c) => Ho!HomeInv'
         /\ Ho!CloseDelete \/ Ho!ConfirmDelete \/ Ho!Submit \/ Ho!Created => Ho!HomeInv'
<1>1. Ho!HomeTypes
  BY DEF Ho!HomeInv, Ho!AdviceFits
<1>2. ASSUME NEW s \in {"all", "draft"}, Ho!Refine(s) PROVE Ho!HomeInv'
  <2>1. filter' \in [status : {"all", "draft"}, offset : Nat]
    BY <1>2 DEF Ho!Refine
  <2>2. UNCHANGED <<view, camps, board, reads, asking, apply, plan, doomed, deletion, creation>>
    BY <1>2 DEF Ho!Refine
  <2>3. Ho!HomeTypes'
    BY <1>1, <2>1, <2>2 DEF Ho!HomeTypes
  <2> QED
    BY <2>2, <2>3, HomeStays
<1>3. ASSUME Ho!TurnPage PROVE Ho!HomeInv'
  <2>1. filter.offset \in Nat /\ PageSize \in Nat /\ filter \in [status : {"all", "draft"}, offset : Nat]
    BY <1>1, FrontAssumption DEF Ho!HomeTypes
  <2>2. filter' = [filter EXCEPT !.offset = Ho!Larger(0, @ - PageSize)]
        \/ filter' = [filter EXCEPT !.offset = @ + PageSize]
    BY <1>3 DEF Ho!TurnPage
  <2>3. Ho!Larger(0, filter.offset - PageSize) \in Nat /\ filter.offset + PageSize \in Nat
    BY <2>1 DEF Ho!Larger
  <2>4. filter' \in [status : {"all", "draft"}, offset : Nat]
    BY <2>1, <2>2, <2>3
  <2>5. UNCHANGED <<view, camps, board, reads, asking, apply, plan, doomed, deletion, creation>>
    BY <1>3 DEF Ho!TurnPage
  <2>6. Ho!HomeTypes'
    BY <1>1, <2>4, <2>5 DEF Ho!HomeTypes
  <2> QED
    BY <2>5, <2>6, HomeStays
<1>4. ASSUME NEW c \in Campaigns, Ho!OpenDelete(c) PROVE Ho!HomeInv'
  <2>1. doomed' = c /\ UNCHANGED <<view, camps, board, reads, asking, apply, plan, deletion, filter,
                                   creation>>
    BY <1>4 DEF Ho!OpenDelete
  <2>2. Ho!HomeTypes'
    BY <1>1, <2>1 DEF Ho!HomeTypes
  <2> QED
    BY <2>1, <2>2, HomeStays
<1>5. ASSUME Ho!CloseDelete PROVE Ho!HomeInv'
  <2>1. Ho!HomeTypes'
    BY <1>1, <1>5 DEF Ho!CloseDelete, Ho!HomeTypes
  <2> QED
    BY <1>5, <2>1, HomeStays DEF Ho!CloseDelete
<1>6. ASSUME Ho!ConfirmDelete PROVE Ho!HomeInv'
  <2>1. deletion' \in [c : Campaigns, ans : {None, Failed, "gone", "refused"}]
    BY <1>1, <1>6 DEF Ho!ConfirmDelete, Ho!HomeTypes
  <2>2. UNCHANGED <<Ho!screen, camps, reads, apply, plan>>
    BY <1>6 DEF Ho!ConfirmDelete
  <2>3. Ho!HomeTypes'
    BY <1>1, <2>1, <2>2 DEF Ho!HomeTypes, Ho!screen
  <2> QED
    BY <2>2, <2>3, HomeStays
<1>7. ASSUME Ho!Submit \/ Ho!Created PROVE Ho!HomeInv'
  <2>1. /\ view' \in {"dashboard", "campaigns", "new", "left"}
        /\ creation' \in {"form", "asked", "made", "lost"}
        /\ UNCHANGED <<camps, board, reads, asking, apply, plan, doomed, deletion, filter>>
    BY <1>1, <1>7 DEF Ho!Submit, Ho!Created, Ho!HomeTypes
  <2>2. Ho!HomeTypes'
    BY <1>1, <2>1 DEF Ho!HomeTypes
  <2> QED
    BY <2>1, <2>2, HomeStays
<1> QED
  BY <1>2, <1>3, <1>4, <1>5, <1>6, <1>7

\* What is removed sends no more, whoever planned it.
LEMMA ServeDeleteKeeps ==
  ASSUME Ho!HomeInv, Ho!ServeDelete
  PROVE  Ho!HomeInv'
<1>1. Ho!HomeTypes /\ Ho!PlanFits /\ Ho!ApplyFits /\ camps \in Ho!Tables
  BY DEF Ho!HomeInv, Ho!AdviceFits, Ho!HomeTypes
<1>2. deletion \in [c : Campaigns, ans : {None, Failed, "gone", "refused"}]
  BY <1>1 DEF Ho!ServeDelete, Ho!HomeTypes
<1>3. /\ camps' = camps \/ camps' = [camps EXCEPT ![deletion.c] = Ho!Absent]
      /\ deletion' \in {[deletion EXCEPT !.ans = a] : a \in {Failed, "gone", "refused"}}
      /\ UNCHANGED <<Ho!screen, reads, apply, plan>>
  <2>1. PICK ok, after :
          /\ after \in {camps, [camps EXCEPT ![deletion.c] = Ho!Absent]}
          /\ \/ /\ camps' = after
                /\ deletion' = [deletion EXCEPT !.ans = IF ok THEN "gone" ELSE "refused"]
             \/ camps' \in {camps, after} /\ deletion' = [deletion EXCEPT !.ans = Failed]
    BY DEF Ho!ServeDelete
  <2> QED
    BY <2>1 DEF Ho!ServeDelete
<1>4. deletion' \in [c : Campaigns, ans : {None, Failed, "gone", "refused"}]
  BY <1>2, <1>3
<1>5. camps' \in Ho!Tables
      /\ \A d \in Campaigns : camps'[d] = camps[d] \/ camps'[d] = Ho!Absent
  BY <1>1, <1>2, <1>3 DEF Ho!Tables, Ho!Row, Ho!Absent
<1>6. ~Ho!IsActive(Ho!Absent) /\ Ho!Absent.left = 0
  BY DEF Ho!Absent, Ho!IsActive
<1>7. Ho!HomeTypes'
  BY <1>1, <1>3, <1>4, <1>5 DEF Ho!HomeTypes, Ho!screen
<1>8. Ho!PlanFits'
  <2>1. \A d \in Campaigns : Ho!IsActive(camps'[d]) /\ camps'[d].left > 0 =>
          Ho!IsActive(camps[d]) /\ camps[d].left > 0 /\ camps'[d].pace = camps[d].pace
    BY <1>5, <1>6
  <2> QED
    BY <1>1, <1>3, <1>5, <2>1, PlanStays
<1>9. Ho!ApplyFits'
  <2>1. \A d \in Campaigns : /\ camps'[d].pace = camps[d].pace \/ camps'[d].left = 0
                             /\ camps[d].left = 0 => camps'[d].left = 0
    BY <1>5, <1>6
  <2> QED
    BY <1>1, <1>3, <2>1, ApplyStays
<1> QED
  BY <1>7, <1>8, <1>9 DEF Ho!HomeInv, Ho!AdviceFits

LEMMA DeletedKeeps ==
  ASSUME Ho!HomeInv, Ho!Deleted
  PROVE  Ho!HomeInv'
<1>1. Ho!HomeTypes
  BY DEF Ho!HomeInv, Ho!AdviceFits
<1>2. reads' \subseteq Ho!Reads /\ doomed' \in Campaigns \cup {0} /\ deletion' = None
  <2>1. CASE deletion.ans = "gone"
    BY <1>1, <2>1, RefreshIsTyped DEF Ho!Deleted
  <2>2. CASE deletion.ans # "gone"
    BY <1>1, <2>2 DEF Ho!Deleted, Ho!HomeTypes
  <2> QED
    BY <2>1, <2>2
<1>3. UNCHANGED <<view, camps, board, asking, apply, plan, filter, creation>>
  BY DEF Ho!Deleted
<1>4. Ho!HomeTypes'
  BY <1>1, <1>2, <1>3 DEF Ho!HomeTypes
<1> QED
  BY <1>3, <1>4, HomeStays

\* A new campaign is a draft, which sends nothing.
LEMMA ServeCreateKeeps ==
  ASSUME Ho!HomeInv, Ho!ServeCreate
  PROVE  Ho!HomeInv'
<1>1. Ho!HomeTypes /\ Ho!PlanFits /\ Ho!ApplyFits /\ camps \in Ho!Tables
  BY DEF Ho!HomeInv, Ho!AdviceFits, Ho!HomeTypes
<1>2. PICK c \in Campaigns :
        /\ camps[c] = Ho!Absent
        /\ camps' = camps \/ camps' = [camps EXCEPT ![c].status = "draft"]
        /\ creation' \in {"made", "lost"}
  BY DEF Ho!ServeCreate
<1>3. UNCHANGED <<view, board, reads, asking, apply, plan, doomed, deletion, filter>>
  BY DEF Ho!ServeCreate
<1>4. PICK row : row = [Ho!Absent EXCEPT !.status = "draft"]
  OBVIOUS
<1>5. row \in Ho!Row /\ ~Ho!IsActive(row) /\ row.left = 0 /\ row.pace = Ho!Absent.pace
  BY <1>4 DEF Ho!Row, Ho!Absent, Ho!IsActive
<1>6. camps' = camps \/ camps' = [camps EXCEPT ![c] = row]
  BY <1>2, <1>4
<1>7. camps' \in Ho!Tables /\ \A d \in Campaigns : camps'[d] = camps[d] \/ (d = c /\ camps'[d] = row)
  BY <1>1, <1>5, <1>6 DEF Ho!Tables
<1>8. Ho!HomeTypes'
  BY <1>1, <1>2, <1>3, <1>7 DEF Ho!HomeTypes
<1>9. Ho!PlanFits'
  BY <1>1, <1>3, <1>5, <1>7, PlanStays
<1>10. Ho!ApplyFits'
  <2>1. \A d \in Campaigns : /\ camps'[d].pace = camps[d].pace \/ camps'[d].left = 0
                             /\ camps[d].left = 0 => camps'[d].left = 0
    BY <1>2, <1>5, <1>7
  <2> QED
    BY <1>1, <1>3, <2>1, ApplyStays
<1> QED
  BY <1>8, <1>9, <1>10 DEF Ho!HomeInv, Ho!AdviceFits

\* Every step of the dashboard, the list and the form.
LEMMA HomeKeeps ==
  ASSUME Ho!HomeInv, Ho!Next \/ UNCHANGED homeVars
  PROVE  Ho!HomeInv'
<1>1. CASE UNCHANGED homeVars
  <2>1. Ho!HomeTypes'
    BY <1>1 DEF homeVars, Ho!HomeInv, Ho!AdviceFits, Ho!HomeTypes
  <2> QED
    BY <1>1, <2>1, HomeStays DEF homeVars
<1>2. CASE Ho!Next
  <2>1. (\E r \in reads : Ho!Serve(r) \/ Ho!Answered(r)) \/ Ho!Retry \/ Ho!Poll => Ho!HomeInv'
    BY HomeReadsKeep
  <2>2. (\E c \in Campaigns : \/ Ho!Engine(c) \/ Ho!OpenDelete(c)
                              \/ \E p \in {1, Limit} : Ho!SetElsewhere(c, p)) => Ho!HomeInv'
    BY HomeEngineKeeps, SetElsewhereKeeps, ListsKeep
  <2>3. Ho!OpenAdvice \/ Ho!CloseAdvice \/ Ho!Apply \/ Ho!Applied \/ Ho!ApplyFails => Ho!HomeInv'
    BY AdviceDialogKeeps, ApplyKeeps, AppliedKeeps
  <2>4. (\E c \in IF apply = None THEN {} ELSE apply.waiting : Ho!ServePace(c)) => Ho!HomeInv'
    BY ServePaceKeeps
  <2>5. (\E s \in {"all", "draft"} : Ho!Refine(s)) \/ Ho!TurnPage => Ho!HomeInv'
    BY ListsKeep
  <2>6. Ho!CloseDelete \/ Ho!ConfirmDelete \/ Ho!ServeDelete \/ Ho!Deleted => Ho!HomeInv'
    BY ListsKeep, ServeDeleteKeeps, DeletedKeeps
  <2>7. Ho!Submit \/ Ho!ServeCreate \/ Ho!Created => Ho!HomeInv'
    BY ListsKeep, ServeCreateKeeps
  <2> QED
    BY <1>2, <2>1, <2>2, <2>3, <2>4, <2>5, <2>6, <2>7 DEF Ho!Next
<1> QED
  BY <1>1, <1>2

LEMMA HomeSteps ==
  ASSUME [Next]_vars
  PROVE  page' = page /\ (page = "home" => Ho!Next \/ UNCHANGED homeVars)
<1>1. CASE Home
  BY <1>1 DEF Home
<1>2. CASE Editor \/ Import \/ People \/ Session \/ Log
  BY <1>2 DEF Editor, EditorOnly, Import, People, Session, Log
<1>3. CASE UNCHANGED vars
  BY <1>3 DEF vars, pages
<1> QED
  BY <1>1, <1>2, <1>3 DEF Next

\* The split of the allowance is fair for every number of campaigns and every amount
\* left in each; an apply that succeeded fits the allowance whatever is sent, refused
\* or removed after it; and the sends it is about pass the ceiling by no more than a
\* deletion took from the log.
THEOREM AdviceAlwaysFits == Spec => []AdviceFits
<1> DEFINE Inv == page = "home" => Ho!HomeInv
           Day == page = "log" => Lo!DayIsBounded
<1>1. Init => Inv
  BY HomeStarts DEF Init
<1>2. Inv /\ [Next]_vars => Inv'
  BY HomeSteps, HomeKeeps
<1>3. Spec => []Day
  BY DayStaysBounded
<1>4. Inv /\ Day => AdviceFits
  BY SplitsAreFair DEF AdviceFits, Ho!HomeInv
<1> QED
  BY <1>1, <1>2, <1>3, <1>4, PTL DEF Spec
=============================================================================

------------------------------- MODULE Front -------------------------------
(***************************************************************************)
(* The pages of the front end.  The router mounts one of them at a time    *)
(* and a page that is not mounted has no state, so the behaviours of the   *)
(* front end between two navigations are those of its pages, each beside   *)
(* the API and the network it is written against.                          *)
(***************************************************************************)
EXTENDS Naturals, Sequences, FiniteSets

CONSTANTS MaxTyped, MaxClicks, MaxFaults, MaxFiles, None, Loading, Unloaded, Left,
          Missing, Refused, Failed, Done
CONSTANTS Emails, Bad, Files, Slice, MaxRuns, MaxLosses, Nil
CONSTANTS Ids, Matching, MaxPick, MaxMade, MaxTaps, MaxDrops, MaxGets
CONSTANTS Campaigns, Limit, PageSize, MaxMoves, MaxMissed, MaxReads, MaxSharing, MaxNeed
CONSTANTS Tokens, MaxActive, MaxActs, MaxLost
CONSTANTS Recipients, CampaignOf, AddressOf, Ceiling, PageLen, MaxPresses, MaxMisses, MaxLooks

ASSUME FrontAssumption ==
  /\ {MaxTyped, MaxClicks, MaxFaults, MaxRuns, MaxLosses} \subseteq Nat
  /\ {MaxFiles, Slice} \subseteq Nat \ {0}
  /\ Bad \notin Emails
  /\ Files \subseteq Seq(Emails \cup {Bad}) \ {<<>>}
  /\ {MaxPick, MaxMade, MaxTaps, MaxDrops, MaxGets} \subseteq Nat
  /\ {MaxNeed, MaxSharing, MaxMoves, MaxMissed} \subseteq Nat /\ {Limit, PageSize, MaxReads} \subseteq Nat \ {0}
  /\ {MaxActs, MaxLost, MaxPresses, MaxMisses, MaxLooks} \subseteq Nat
  /\ {MaxActive, Ceiling, PageLen} \subseteq Nat \ {0} /\ Ceiling <= Cardinality(Recipients)
  /\ DOMAIN CampaignOf = Recipients /\ DOMAIN AddressOf = Recipients
  /\ Campaigns = 1..Cardinality(Campaigns)
  /\ Ids = 1..Cardinality(Ids) /\ Matching \subseteq Ids
  /\ \A s \in {Emails, Ids, Recipients, Campaigns} : IsFiniteSet(s)

VARIABLES page    \* the page the router has mounted
VARIABLES server, held, net, load, text, typed, dirty, saving, saveFailed, touched, pace,
          armed, modal, busy, clicks, faults
VARIABLES target, stored, addedBy, counted, open, parsed, importing, report, run, started,
          losses
VARIABLES where, entries, gone, members, query, list, picked, sheet, gets, edit, removal,
          made, copy, told, taps, drops
VARIABLES view, camps, board, reads, asking, apply, plan, doomed, deletion, filter, creation,
          moves, missed, asked
VARIABLES account, keys, current, bundle, auth, calls, route, farewell, accept, leaving,
          closing, panel, acts, lost
VARIABLES roster, journal, away, forgotten, table, looks, sieve, ticked, relance, drafts,
          presses, misses, looked

Ed == INSTANCE Editor
Im == INSTANCE Import
Pe == INSTANCE People
Ho == INSTANCE Home
Se == INSTANCE Session
Lo == INSTANCE Log

\* A state of the load, an answer that carries nothing and a mark are none of what they
\* stand beside.
ASSUME MarksAssumption ==
  /\ {None, Left} \cap Ed!Snapshot = {} /\ Left \notin {Loading, Missing, Unloaded}
  /\ {None, Failed, "idle", "asked"} \cap Tokens = {} /\ None \notin Se!Lists
  /\ {None, Failed} \cap {"ok", "idle", "asked"} = {}

editorVars == <<server, held, net, load, text, typed, dirty, saving, saveFailed, touched, pace,
                armed, modal, busy, clicks, faults>>
importVars == <<target, stored, addedBy, counted, open, parsed, importing, report, run, started,
                losses>>
peopleVars == <<where, entries, gone, members, query, list, picked, sheet, gets, edit, removal,
                made, copy, told, taps, drops>>
homeVars == <<view, camps, board, reads, asking, apply, plan, doomed, deletion, filter, creation,
              moves, missed, asked>>
sessionVars == <<account, keys, current, bundle, auth, calls, route, farewell, accept,
                 leaving, closing, panel, acts, lost>>
logVars == <<roster, journal, away, forgotten, table, looks, sieve, ticked, relance, drafts,
             presses, misses, looked>>
pages == <<editorVars, importVars, peopleVars, homeVars, sessionVars, logVars>>
vars == <<page, pages>>

EditorOff ==
  /\ server = None /\ held = None /\ net = None /\ load = None /\ text = None /\ typed = None
  /\ dirty = None /\ saving = None /\ saveFailed = None /\ touched = None /\ pace = None
  /\ armed = None /\ modal = None /\ busy = None /\ clicks = None /\ faults = None

ImportOff ==
  /\ target = None /\ stored = None /\ addedBy = None /\ counted = None /\ open = None
  /\ parsed = None /\ importing = None /\ report = None /\ run = None /\ started = None
  /\ losses = None

PeopleOff ==
  /\ where = None /\ entries = None /\ gone = None /\ members = None /\ query = None
  /\ list = None /\ picked = None /\ sheet = None /\ gets = None /\ edit = None
  /\ removal = None /\ made = None /\ copy = None /\ told = None /\ taps = None
  /\ drops = None

HomeOff ==
  /\ view = None /\ camps = None /\ board = None /\ reads = None /\ asking = None
  /\ apply = None /\ plan = None /\ doomed = None /\ deletion = None /\ filter = None
  /\ creation = None /\ moves = None /\ missed = None /\ asked = None

SessionOff ==
  /\ account = None /\ keys = None /\ current = None /\ bundle = None /\ auth = None
  /\ calls = None /\ route = None /\ farewell = None /\ accept = None /\ leaving = None
  /\ closing = None /\ panel = None /\ acts = None /\ lost = None

LogOff ==
  /\ roster = None /\ journal = None /\ away = None /\ forgotten = None /\ table = None
  /\ looks = None /\ sieve = None /\ ticked = None /\ relance = None /\ drafts = None
  /\ presses = None /\ misses = None /\ looked = None

\* A page keeps the others off.
Init ==
  /\ page \in {"editor", "import", "people", "home", "session", "log"}
  /\ IF page = "editor" THEN Ed!Init ELSE EditorOff
  /\ IF page = "import" THEN Im!Init ELSE ImportOff
  /\ IF page = "people" THEN Pe!Init ELSE PeopleOff
  /\ IF page = "home" THEN Ho!Init ELSE HomeOff
  /\ IF page = "session" THEN Se!Init ELSE SessionOff
  /\ IF page = "log" THEN Lo!Init ELSE LogOff

EditorOnly ==
  UNCHANGED <<page, importVars, peopleVars, homeVars, sessionVars, logVars>>

Editor == page = "editor" /\ Ed!Next /\ EditorOnly
Import == /\ page = "import" /\ Im!Next
          /\ UNCHANGED <<page, editorVars, peopleVars, homeVars, sessionVars, logVars>>
People == /\ page = "people" /\ Pe!Next
          /\ UNCHANGED <<page, editorVars, importVars, homeVars, sessionVars, logVars>>
Home == /\ page = "home" /\ Ho!Next
        /\ UNCHANGED <<page, editorVars, importVars, peopleVars, sessionVars, logVars>>
Session == /\ page = "session" /\ Se!Next
           /\ UNCHANGED <<page, editorVars, importVars, peopleVars, homeVars, logVars>>
Log == /\ page = "log" /\ Lo!Next
       /\ UNCHANGED <<page, editorVars, importVars, peopleVars, homeVars, sessionVars>>

Next == Editor \/ Import \/ People \/ Home \/ Session \/ Log

\* As in Editor.
Fairness ==
  /\ WF_vars(page = "editor" /\ Ed!AutoSave /\ EditorOnly)
  /\ \A p \in Ed!Places :
       WF_vars(page = "editor" /\ Ed!Serve(p) /\ EditorOnly)
  /\ WF_vars(page = "editor" /\ Ed!Saved /\ EditorOnly)

Spec == Init /\ [][Next]_vars /\ Fairness

\* A header that reads "Enregistré" is true of the message under it, whatever was
\* typed, saved, refused, refreshed or lost meanwhile (Editor, SavedIsStored).
SavedIsStored == page = "editor" => Ed!SavedIsStored

\* What was typed is saved, or the header says that it is not, or the page has
\* stopped showing a message (Editor, TypingIsSaved).
TypingIsSaved ==
  (page = "editor" /\ dirty) ~> (page # "editor" \/ ~dirty \/ saveFailed \/ ~Ed!Ready)

\* An import's report counts what it added and names the lines it refused, whatever
\* ran beside it or was closed under it (Import, ReportIsTrue).
ReportIsTrue == page = "import" => Im!ReportIsTrue

\* A selection is safe to act on: a removal says no more than what is gone, a
\* campaign that could not be made from it leaves no draft (People, SelectionIsSafe),
\* and a follow-up writes once to everyone it names (Log, FollowUpIsTrue).
SelectionIsSafe ==
  /\ page = "people" => Pe!SelectionIsSafe
  /\ page = "log" => Lo!FollowUpIsTrue

\* The advice on the daily allowance is a fair split of it, once applied it fits,
\* whatever was sent, refused or removed meanwhile (Quota, SharesAreFair; Home,
\* AdviceFits), and the sends it is about pass it by no more than what a deletion
\* took from the log (Log, DayIsBounded).
AdviceFits ==
  /\ Ho!SharesAreFair
  /\ page = "home" => Ho!AdviceFits
  /\ page = "log" => Lo!DayIsBounded

\* What is shown of the session, the account and its tokens is true of them, whatever
\* another tab, a late answer or a deployment did (Session, SessionIsTrue).
SessionIsTrue == page = "session" => Se!SessionIsTrue

\* The inductive invariants behind them.
PagesInv ==
  /\ page = "editor"  => Ed!EditorInv
  /\ page = "import"  => Im!ImportInv
  /\ page = "people"  => Pe!PeopleInv
  /\ page = "home"    => Ho!HomeInv
  /\ page = "session" => Se!SessionInv
  /\ page = "log"     => Lo!LogInv
=============================================================================

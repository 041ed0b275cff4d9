------------------------------- MODULE Session -------------------------------
(***************************************************************************)
(* Who the front end believes is signed in (AuthProvider.tsx), what it lets *)
(* be seen (RequireAuth.tsx, TermsAcceptance.tsx, ServerUnreachable.tsx,   *)
(* Login.tsx), and the account page: leaving, deleting the account         *)
(* (Account.tsx) and the tokens given to MailFind (IntegrationTokens.tsx). *)
(*                                                                         *)
(* The session is a cookie the page cannot read: what it shows follows     *)
(* answers that other calls, another tab or a deployment may have overtaken. *)
(***************************************************************************)
EXTENDS Naturals, FiniteSets

CONSTANTS
  Tokens,     \* ids of tokens, each used once
  MaxActive,  \* MAX_ACTIVE_TOKENS
  MaxActs,    \* bound: what the user does, here or in another tab
  MaxLost,    \* bound: calls that fail on their way there or back
  None, Failed

VARIABLES
  account,   \* the users row and the session cookie
  keys,      \* integration_tokens
  current,   \* CURRENT_TERMS_VERSION of the API
  bundle,    \* TERMS_VERSION of the page
  auth,      \* AuthProvider: status, and the user's termsVersion
  calls,     \* refreshes under way: who asked, and the answer
  route,     \* where the router is
  farewell,  \* the state /login was given: the report of a deletion
  accept, leaving, closing,  \* the calls of TermsAcceptance, signOut, DeleteAccount
  panel,     \* IntegrationTokens
  acts, lost

svars == <<account, keys, current, bundle, auth, calls, route, farewell, accept, leaving,
           closing, panel, acts, lost>>
api    == <<account, keys, current>>
screen == <<bundle, auth, route, farewell, panel>>
asides == <<accept, leaving, closing>>

-----------------------------------------------------------------------------
Act  == acts < MaxActs /\ acts' = acts + 1
Lose == lost < MaxLost /\ lost' = lost + 1

Closed == [list |-> None, listing |-> "idle", read |-> None, secret |-> None,
           create |-> "idle", chosen |-> None, revoke |-> None]
Mounted == [Closed EXCEPT !.listing = "asked"]

SignedIn == account.alive /\ account.session
Active(l) == {t \in Tokens : l[t] = "active"}

\* The refresh that belongs to a component of the page.
Still == [step |-> "idle", report |-> None]
Call(by) == [by |-> by, ans |-> None, report |-> None]

\* What RequireAuth shows.
AtGate == auth.status = "authenticated" /\ route # "login" /\ auth.terms # bundle
          /\ route # "account"
Content == auth.status = "authenticated" /\ route = "app" /\ ~AtGate
OnAccount == auth.status = "authenticated" /\ route = "account"

\* RequireAuth sends a visitor to /login, Login sends a user to /.
Lands(a, r) == IF a.status = "anonymous" THEN "login"
               ELSE IF a.status = "authenticated" /\ r = "login" THEN "app" ELSE r

\* A page left with its component forgets what the component held.
Show(a, r, bye) ==
  /\ auth' = a /\ route' = Lands(a, r)
  /\ farewell' = IF route' = "login" /\ r = "login" THEN bye ELSE None
  /\ panel' = IF a.status = "authenticated" /\ route' = "account"
              THEN IF OnAccount THEN panel ELSE Mounted ELSE Closed

Init ==
  /\ account \in [alive : {TRUE}, session : {TRUE}, terms : {0, 1}]
  /\ keys = [t \in Tokens |-> "absent"]
  /\ current = 1 /\ bundle = 1
  /\ auth = [status |-> "loading", terms |-> 0]
  /\ calls = {Call("start")}
  /\ route \in {"app", "account"} /\ farewell = None
  /\ accept = "idle" /\ leaving = "idle" /\ closing = Still
  /\ panel = Closed
  /\ acts = 0 /\ lost = 0

-----------------------------------------------------------------------------
(* Reading the session.                                                    *)

ServeMe(c) ==
  /\ c \in calls /\ c.ans = None
  /\ \/ /\ calls' = (calls \ {c}) \cup {[c EXCEPT !.ans =
             IF SignedIn THEN [status |-> "authenticated", terms |-> account.terms]
             ELSE [status |-> "anonymous", terms |-> 0]]}
        /\ UNCHANGED lost
     \/ /\ calls' = (calls \ {c}) \cup {[c EXCEPT !.ans = [status |-> "unreachable", terms |-> 0]]}
        /\ Lose
  /\ UNCHANGED <<api, screen, asides, acts>>

\* refresh, and what the one who awaits it does next: after a deletion, the login
\* page with the report.
Refreshed(c) ==
  /\ c \in calls /\ c.ans # None
  /\ IF c.by = "delete" THEN Show(c.ans, "login", c.report)
     ELSE Show(c.ans, route, farewell)
  /\ calls' = calls \ {c}
  /\ UNCHANGED <<api, bundle, leaving, acts, lost>>
  /\ accept' = IF c.by = "terms" /\ ~AtGate' THEN "idle" ELSE accept
  /\ closing' = IF c.by = "delete" THEN Still ELSE closing

Retry ==
  /\ auth.status = "unreachable"
  /\ \A c \in calls : c.by # "retry"
  /\ Act
  /\ calls' = calls \cup {Call("retry")}
  /\ UNCHANGED <<api, screen, asides, lost>>

\* The way back from Google or MailFind loads the page anew.  Bound: nothing of the
\* page it replaces is under way.
SignIn ==
  /\ route = "login" /\ auth.status = "anonymous" /\ calls = {} /\ account.alive
  /\ accept = "idle" /\ leaving = "idle" /\ closing = Still
  /\ Act
  /\ account' = [account EXCEPT !.session = TRUE]
  /\ bundle' = current
  /\ Show([status |-> "loading", terms |-> 0], "app", None)
  /\ calls' = {Call("start")}
  /\ UNCHANGED <<keys, current, asides, lost>>

Visit(r) ==
  /\ auth.status = "authenticated" /\ route # r /\ Act
  /\ Show(auth, r, None)
  /\ UNCHANGED <<api, bundle, calls, asides, lost>>

-----------------------------------------------------------------------------
(* Accepting the terms.                                                    *)

\* The box ticked and the button pressed.
Submit ==
  /\ AtGate /\ accept = "idle" /\ Act
  /\ accept' = "asked"
  /\ UNCHANGED <<api, screen, calls, leaving, closing, lost>>

\* Only the current terms can be accepted.
Acceptable == bundle = current

ServeAccept ==
  /\ accept = "asked"
  /\ LET after == IF SignedIn /\ Acceptable THEN [account EXCEPT !.terms = bundle] ELSE account IN
     \/ /\ account' = after /\ UNCHANGED lost
        /\ accept' = IF SignedIn /\ Acceptable THEN "ok" ELSE "refused"
     \/ account' \in {account, after} /\ accept' = "refused" /\ Lose
  /\ UNCHANGED <<keys, current, screen, calls, leaving, closing, acts>>

\* Accepted, the session is read again; the button waits for it.
Accepted ==
  /\ \/ accept = "ok" /\ accept' = "reading" /\ calls' = calls \cup {Call("terms")}
     \/ accept = "refused" /\ accept' = "idle" /\ UNCHANGED calls
  /\ UNCHANGED <<api, screen, leaving, closing, acts, lost>>

-----------------------------------------------------------------------------
(* Leaving, and deleting the account.                                      *)

SignOut ==
  /\ auth.status = "authenticated" /\ leaving = "idle" /\ Act
  /\ leaving' = "asked"
  /\ UNCHANGED <<api, screen, calls, accept, closing, lost>>

ServeSignOut ==
  /\ leaving = "asked"
  /\ \/ account' = [account EXCEPT !.session = FALSE] /\ UNCHANGED lost
     \/ account' \in {account, [account EXCEPT !.session = FALSE]} /\ Lose
  /\ leaving' = "answered"
  /\ UNCHANGED <<keys, current, screen, calls, accept, closing, acts>>

\* Whatever the server said.
SignedOut ==
  /\ leaving = "answered"
  /\ Show([status |-> "anonymous", terms |-> 0], route, None)
  /\ leaving' = "idle"
  /\ UNCHANGED <<api, bundle, calls, accept, closing, acts, lost>>

\* The address typed again, and the button pressed.
Delete ==
  /\ OnAccount /\ closing = Still /\ Act
  /\ closing' = [closing EXCEPT !.step = "asked"]
  /\ UNCHANGED <<api, screen, calls, accept, leaving, lost>>

\* The cascade takes the tokens along; Google or the bucket may not answer.
Gone ==
  /\ account' = [account EXCEPT !.alive = FALSE, !.session = FALSE]
  /\ keys' = [t \in Tokens |-> IF keys[t] = "absent" THEN "absent" ELSE "dropped"]

ServeDelete ==
  /\ closing.step = "asked"
  /\ \/ /\ SignedIn /\ Gone /\ UNCHANGED lost
        /\ closing' \in [step : {"gone"}, report : [revoked : BOOLEAN, purged : BOOLEAN]]
     \/ ~SignedIn /\ closing' = [closing EXCEPT !.step = "failed"] /\ UNCHANGED <<account, keys, lost>>
     \/ /\ closing' = [closing EXCEPT !.step = "failed"] /\ Lose
        /\ UNCHANGED <<account, keys>> \/ (SignedIn /\ Gone)
  /\ UNCHANGED <<current, screen, calls, accept, leaving, acts>>

\* The session is read again before the login page says goodbye.
Deleted ==
  /\ \/ /\ closing.step = "gone"
        /\ calls' = calls \cup {[Call("delete") EXCEPT !.report = closing.report]}
        /\ closing' = [closing EXCEPT !.step = "reading", !.report = None]
     \/ closing.step = "failed" /\ closing' = Still /\ UNCHANGED calls
  /\ UNCHANGED <<api, screen, accept, leaving, acts, lost>>

-----------------------------------------------------------------------------
(* Tokens.                                                                 *)

Panel(p) == panel' = p /\ UNCHANGED <<bundle, auth, route, farewell>>

\* The list is read when the page opens; its answer replaces the list.
ServeList ==
  /\ OnAccount /\ panel.listing = "asked"
  /\ \/ SignedIn /\ Panel([panel EXCEPT !.listing = "read", !.read = keys]) /\ UNCHANGED lost
     \/ ~SignedIn /\ Panel([panel EXCEPT !.listing = "idle"]) /\ UNCHANGED lost
     \/ SignedIn /\ Panel([panel EXCEPT !.listing = "idle"]) /\ Lose
  /\ UNCHANGED <<api, calls, asides, acts>>

Listed ==
  /\ OnAccount /\ panel.listing = "read"
  /\ Panel([panel EXCEPT !.list = panel.read, !.read = None, !.listing = "idle"])
  /\ UNCHANGED <<api, calls, asides, acts, lost>>

Holding == IF panel.list = None THEN [t \in Tokens |-> "absent"] ELSE panel.list

Create ==
  /\ OnAccount /\ panel.create = "idle" /\ Act
  /\ Cardinality(Active(Holding)) < MaxActive
  /\ Panel([panel EXCEPT !.create = "asked"])
  /\ UNCHANGED <<api, calls, asides, lost>>

ServeCreate ==
  /\ OnAccount /\ panel.create = "asked"
  /\ \/ \E t \in Tokens :
          /\ keys[t] = "absent" /\ SignedIn /\ Cardinality(Active(keys)) < MaxActive
          /\ keys' = [keys EXCEPT ![t] = "active"]
          /\ \/ Panel([panel EXCEPT !.create = t]) /\ UNCHANGED lost
             \/ Panel([panel EXCEPT !.create = Failed]) /\ Lose
     \/ /\ ~SignedIn \/ Cardinality(Active(keys)) >= MaxActive
        /\ Panel([panel EXCEPT !.create = Failed]) /\ UNCHANGED <<keys, lost>>
     \/ Panel([panel EXCEPT !.create = Failed]) /\ UNCHANGED keys /\ Lose
  /\ UNCHANGED <<account, current, calls, asides, acts>>

\* The secret is shown this once.
Created ==
  /\ OnAccount /\ panel.create \notin {"idle", "asked"}
  /\ Panel(IF panel.create = Failed THEN [panel EXCEPT !.create = "idle"]
           ELSE [panel EXCEPT !.create = "idle", !.secret = panel.create,
                              !.list = [Holding EXCEPT ![panel.create] = "active"]])
  /\ UNCHANGED <<api, calls, asides, acts, lost>>

PutAway ==
  /\ OnAccount /\ panel.secret # None /\ Act
  /\ Panel([panel EXCEPT !.secret = None])
  /\ UNCHANGED <<api, calls, asides, lost>>

\* Révoquer on a row opens the dialog, which can be closed while it waits.
Choose(t) ==
  /\ OnAccount /\ panel.list # None /\ Act
  /\ \/ panel.chosen = None /\ panel.list[t] = "active" /\ Panel([panel EXCEPT !.chosen = t])
     \/ panel.chosen = t /\ Panel([panel EXCEPT !.chosen = None])
  /\ UNCHANGED <<api, calls, asides, lost>>

Revoke ==
  /\ OnAccount /\ panel.chosen # None /\ panel.revoke = None
  /\ Panel([panel EXCEPT !.revoke = [id |-> panel.chosen, ans |-> None]])
  /\ UNCHANGED <<api, calls, asides, acts, lost>>

\* A token that is not there any more answers 404.
ServeRevoke ==
  /\ OnAccount /\ panel.revoke # None /\ panel.revoke.ans = None
  /\ LET t  == panel.revoke.id
         ok == SignedIn /\ keys[t] = "active"
         after == IF ok THEN [keys EXCEPT ![t] = "revoked"] ELSE keys IN
     \/ /\ keys' = after /\ UNCHANGED lost
        /\ Panel([panel EXCEPT !.revoke.ans = IF ok THEN "ok" ELSE Failed])
     \/ keys' \in {keys, after} /\ Panel([panel EXCEPT !.revoke.ans = Failed]) /\ Lose
  /\ UNCHANGED <<account, current, calls, asides, acts>>

\* Variant: marked as the button is pressed, whatever the answer.
MarksAny(l, r) == [l EXCEPT ![r.id] = "revoked"]

\* What the list becomes with an answer.
Marks(l, r) == IF r.ans = "ok" THEN [l EXCEPT ![r.id] = "revoked"] ELSE l

\* A refusal leaves the dialog open; a success closes whichever is open by then.
Revoked ==
  /\ OnAccount /\ panel.revoke # None /\ panel.revoke.ans # None
  /\ Panel([panel EXCEPT !.list = Marks(@, panel.revoke), !.revoke = None,
                         !.chosen = IF panel.revoke.ans = "ok" THEN None ELSE @])
  /\ UNCHANGED <<api, calls, asides, acts, lost>>

-----------------------------------------------------------------------------
(* Another tab, and a deployment with new terms.                           *)

Elsewhere ==
  /\ Act
  /\ \/ account.session /\ account' = [account EXCEPT !.session = FALSE] /\ UNCHANGED <<keys, current>>
     \/ SignedIn /\ account' = [account EXCEPT !.terms = current] /\ UNCHANGED <<keys, current>>
     \/ SignedIn /\ Gone /\ UNCHANGED current
     \/ /\ SignedIn /\ UNCHANGED <<account, current>>
        /\ \E t \in Tokens : keys[t] = "active" /\ keys' = [keys EXCEPT ![t] = "revoked"]
     \/ current' = 2 /\ current = 1 /\ UNCHANGED <<account, keys>>
  /\ UNCHANGED <<screen, calls, asides, lost>>

Next ==
  \/ \E c \in calls : ServeMe(c) \/ Refreshed(c)
  \/ Retry \/ SignIn
  \/ \E r \in {"app", "account"} : Visit(r)
  \/ Submit \/ ServeAccept \/ Accepted
  \/ SignOut \/ ServeSignOut \/ SignedOut
  \/ Delete \/ ServeDelete \/ Deleted
  \/ ServeList \/ Listed \/ Create \/ ServeCreate \/ Created \/ PutAway
  \/ \E t \in Tokens : Choose(t)
  \/ Revoke \/ ServeRevoke \/ Revoked
  \/ Elsewhere

Spec == Init /\ [][Next]_svars

-----------------------------------------------------------------------------
\* Nothing of the application is shown to someone who has not accepted the terms it
\* was built with (TermsAcceptance.tsx: "before anything else").
ContentIsAccepted == Content => account.terms >= bundle

\* The login page says that an account is deleted only when it is.
FarewellIsTrue == farewell # None => ~account.alive

\* A token shown as revoked opens nothing any more, and the secret shown is that of a
\* token that was created.
TokensAreTrue ==
  /\ panel.list # None => \A t \in Tokens : panel.list[t] = "revoked" => keys[t] # "active"
  /\ panel.secret # None => keys[panel.secret] # "absent"

\* The variables, as their readers find them.
Lists   == [Tokens -> {"absent", "active", "revoked", "dropped"}]
Answers == [status : {"loading", "unreachable", "authenticated", "anonymous"}, terms : 0..2]
Reports == [revoked : BOOLEAN, purged : BOOLEAN]
Panels  ==
  [list : Lists \cup {None}, listing : {"idle", "asked", "read"}, read : Lists \cup {None},
   secret : Tokens \cup {None}, create : Tokens \cup {"idle", "asked", Failed},
   chosen : Tokens \cup {None}, revoke : [id : Tokens, ans : {None, "ok", Failed}] \cup {None}]
Readings == [by : {"start", "retry", "terms", "delete"}, ans : Answers \cup {None},
             report : Reports \cup {None}]
Closings == [step : {"idle", "asked", "gone", "failed", "reading"}, report : Reports \cup {None}]
Accounts == [alive : BOOLEAN, session : BOOLEAN, terms : 0..2]
SessionTypes ==
  /\ account \in Accounts /\ keys \in Lists /\ current \in 0..2 /\ bundle \in 0..2
  /\ auth \in Answers /\ calls \subseteq Readings /\ closing \in Closings /\ panel \in Panels

\* The terms a session was seen with are those of the account, or older.
TermsGoUp ==
  /\ auth.terms <= account.terms /\ account.terms <= current /\ bundle <= current
  /\ \A c \in calls : c.ans # None => c.ans.terms <= account.terms

\* Whoever will say goodbye has seen the account go.
GoodbyeIsMeant ==
  (farewell # None \/ closing.step = "gone" \/ \E c \in calls : c.by = "delete") =>
    ~account.alive

\* What is revoked, on screen or on its way there, opens nothing ever again; what was
\* created was there; and only a row of a list that is shown is chosen.
Ended(t) == keys[t] \in {"revoked", "dropped"}
PanelIsTrue ==
  /\ panel.list # None => \A t \in Tokens : panel.list[t] = "revoked" => Ended(t)
  /\ panel.read # None => \A t \in Tokens : panel.read[t] = "revoked" => Ended(t)
  /\ panel.revoke # None /\ panel.revoke.ans = "ok" => Ended(panel.revoke.id)
  /\ panel.create \in Tokens => keys[panel.create] # "absent"
  /\ panel.secret # None => keys[panel.secret] # "absent"
  /\ panel.listing = "read" => panel.read # None
  /\ panel.chosen # None \/ panel.revoke # None => panel.list # None

\* All of it together: the inductive invariant.
SessionInv == SessionTypes /\ TermsGoUp /\ GoodbyeIsMeant /\ PanelIsTrue

SessionIsTrue == ContentIsAccepted /\ FarewellIsTrue /\ TokensAreTrue

\* AuthProvider.tsx: "Whatever the server said, stop showing signed-in content".  It
\* does not hold: a refresh asked by the acceptance of the terms or by a deletion and
\* answered after the sign-out shows it again.
LeavingEnds == [][auth.status = "anonymous" => auth'.status # "authenticated"]_svars

\* A list that is shown has every token of the account that the page created.  It does
\* not hold: the answer to the first reading may come after a creation and undo it.
ListIsWhole == panel.secret # None => Holding[panel.secret] # "absent"

\* Login.tsx: "Votre compte et toutes ses données ont été supprimés".  It is also said
\* when the files could not be purged.
NothingLeft == farewell # None => farewell.purged
=============================================================================

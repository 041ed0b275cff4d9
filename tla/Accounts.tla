------------------------------ MODULE Accounts ------------------------------
(***************************************************************************)
(* One person's account: the users row and the Google tokens encrypted in  *)
(* it, the sign-ins that write them (googleAuth.ts, sso.ts), the worker    *)
(* that renews the access token (tokenRefresh.ts), the rotation of the     *)
(* encryption key (keyRotation.ts, docs/security.md) and the deletion of   *)
(* the account (accountDeletion.ts), which all touch it at once.           *)
(*                                                                         *)
(* Google numbers the consents the person gives; a token is its consent's  *)
(* number and the key it is encrypted under.  One step is one statement or *)
(* one call to Google.                                                     *)
(***************************************************************************)
EXTENDS Naturals

CONSTANTS
  SignIns,    \* Google sign-ins that may be under way at once
  Campaigns,  \* the campaigns the person may create, each with one file
  Codes,      \* sign-in codes issued to MailFind
  MaxGrants,  \* bound: consents given to Google
  MaxIds      \* bound: times the account is created

ASSUME AccountsAssumption == MaxGrants \in Nat /\ MaxIds \in Nat

VARIABLES
  user,      \* the row: id (0: none), access and refresh tokens, and whether
             \* the access token is still valid
  ids,       \* ids given so far
  last,      \* the newest consent
  alive,     \* consents Google still honours
  under,     \* the key the API and the worker encrypt with
  retired,   \* the previous key has been removed and destroyed
  signIn,    \* each sign-in: what it is about to store
  renewal,   \* the worker's call to getAccessToken
  rotation,  \* the rotation script: the row it read
  clean,     \* its last run re-encrypted nothing and read everything
  deletion,  \* the DELETE /users/me being served
  report,    \* history: "whole" if the last deletion answered "revoked", had
             \* read the newest consent and there was none since; "stale" if so
             \* but beside a refresh token of an older, dead consent, "expired"
             \* if so but of an access token Google knew no more
  session,   \* the account of the browser's session, 0 when signed out
  code,      \* sso_codes, those that may still be traded
  row,       \* campaigns in the database
  object     \* campaigns with files in the bucket

vars == <<user, ids, last, alive, under, retired, signIn, renewal, rotation,
          clean, deletion, report, session, code, row, object>>

google   == <<last, alive>>
keys     == <<under, retired, rotation, clean>>
requests == <<signIn, renewal, deletion, report>>
rest     == <<session, code, row, object>>

-----------------------------------------------------------------------------
Grant   == 0 .. MaxGrants
Id      == 0 .. MaxIds
Key     == {"old", "new"}
NoToken == [grant |-> 0, under |-> "none"]
Token   == {NoToken} \cup [grant : Grant \ {0}, under : Key]
NoUser  == [id |-> 0, access |-> NoToken, refresh |-> NoToken, valid |-> FALSE]
Idle    == [step |-> "idle"]

Seal(p, g) == [grant |-> g, under |-> under[p]]

\* A cipher opens what its own key sealed, and what the previous one did while
\* that one is configured.
Opens(k, t) == t # NoToken /\ (t.under = k \/ (k = "new" /\ ~retired))

Init ==
  /\ user = NoUser /\ ids = 0
  /\ last = 0 /\ alive = {}
  /\ under = [api |-> "old", worker |-> "old"] /\ retired = FALSE
  /\ signIn = [s \in SignIns |-> Idle]
  /\ renewal = Idle /\ rotation = Idle /\ clean = FALSE
  /\ deletion = Idle /\ report = "none"
  /\ session = 0 /\ code = {}
  /\ row = {} /\ object = {}

-----------------------------------------------------------------------------
(* Signing in.                                                             *)

\* Google sends the browser back: a refresh token comes with the first consent
\* it honours, and with a later one or not.
Consent(s) ==
  /\ signIn[s] = Idle /\ last < MaxGrants
  /\ last' = last + 1 /\ alive' = alive \cup {last'}
  /\ \E offline \in BOOLEAN :
       /\ alive = {} => offline
       /\ signIn' = [signIn EXCEPT ![s] =
            [step |-> "upsert", access |-> Seal("api", last'),
             refresh |-> IF offline THEN Seal("api", last') ELSE NoToken]]
  /\ report' = "none"
  /\ UNCHANGED <<user, ids, keys, renewal, deletion, rest>>

\* handleGoogleProfile fails: no address, or the statement does.
SignInFails(s) ==
  /\ signIn[s] # Idle
  /\ signIn' = [signIn EXCEPT ![s] = Idle]
  /\ UNCHANGED <<user, ids, google, keys, renewal, deletion, report, rest>>

\* INSERT ... ON CONFLICT DO UPDATE: a new id, or the row that is there.
Row(access, refresh, valid) ==
  IF user.id = 0
  THEN [id |-> ids + 1, access |-> access, refresh |-> refresh, valid |-> valid]
  ELSE [user EXCEPT !.access  = IF access = NoToken THEN @ ELSE access,
                    !.refresh = IF refresh = NoToken THEN @ ELSE refresh,
                    !.valid   = @ \/ valid]

Store(u) ==
  /\ user.id = 0 => ids < MaxIds
  /\ user' = u
  /\ ids' = IF user.id = 0 THEN ids + 1 ELSE ids
  /\ session' = u.id

Upsert(s) ==
  /\ signIn[s] # Idle
  /\ Store(Row(signIn[s].access, signIn[s].refresh, TRUE))
  /\ signIn' = [signIn EXCEPT ![s] = Idle]
  /\ UNCHANGED <<google, keys, renewal, deletion, report, code, row, object>>

\* MailFind vouches for the same Google id, and has no token to give.
PartnerSignIn ==
  /\ Store(Row(NoToken, NoToken, FALSE))
  /\ UNCHANGED <<google, keys, requests, code, row, object>>

\* A session whose account is gone reads as signed out.
SignedIn == session # 0 /\ session = user.id

SignOut ==
  /\ session # 0
  /\ session' = 0
  /\ UNCHANGED <<user, ids, google, keys, requests, code, row, object>>

\* The other way round, MailFind asks for a code and trades it, in one
\* conditional UPDATE, for the account behind it.
IssueCode(c) ==
  /\ SignedIn
  /\ code' = code \cup {c}
  /\ UNCHANGED <<user, ids, google, keys, requests, session, row, object>>

\* ... once, and within sixty seconds.
BurnCode(c) ==
  /\ c \in code
  /\ code' = code \ {c}
  /\ UNCHANGED <<user, ids, google, keys, requests, session, row, object>>

-----------------------------------------------------------------------------
(* The worker's access token.                                              *)

AccessExpires ==
  /\ user.valid
  /\ user' = [user EXCEPT !.valid = FALSE]
  /\ UNCHANGED <<ids, google, keys, requests, rest>>

\* Variant: a stored token is used for as long as it is there.
UsableWhileStored == user.access # NoToken

Usable == user.valid /\ user.access # NoToken

\* findAuthById, and what can be decided on the row: a token still valid for a
\* minute is used as it is, an account without a refresh token reconnects.
RenewRead ==
  /\ renewal = Idle
  /\ user.id # 0 /\ ~Usable /\ Opens(under.worker, user.refresh)
  /\ renewal' = [step |-> "ask", id |-> user.id, grant |-> user.refresh.grant]
  /\ UNCHANGED <<user, ids, google, keys, signIn, deletion, report, rest>>

\* The token endpoint: invalid_grant for a consent Google no longer honours;
\* any other refusal leaves the job to be tried again.
RenewAsk ==
  /\ renewal # Idle /\ renewal.step = "ask"
  /\ \/ /\ renewal.grant \in alive
        /\ renewal' = [step |-> "save", id |-> renewal.id,
                       token |-> Seal("worker", renewal.grant)]
     \/ renewal.grant \notin alive /\ renewal' = Idle
  /\ UNCHANGED <<user, ids, google, keys, signIn, deletion, report, rest>>

\* saveAccessToken: whatever the row holds by now.
RenewSave ==
  /\ renewal # Idle /\ renewal.step = "save"
  /\ user' = IF user.id = renewal.id
             THEN [user EXCEPT !.access = renewal.token, !.valid = TRUE] ELSE user
  /\ renewal' = Idle
  /\ UNCHANGED <<ids, google, keys, signIn, deletion, report, rest>>

\* The person removes the application from their Google account.
RevokeAtGoogle ==
  /\ alive # {}
  /\ alive' = {}
  /\ UNCHANGED <<user, ids, last, keys, requests, rest>>

-----------------------------------------------------------------------------
(* Rotating the encryption key, as docs/security.md has the operator do.   *)

\* A process restarts: what it was serving ends where it was.
Drop(p) ==
  IF p = "api" THEN /\ signIn' = [s \in SignIns |-> Idle] /\ deletion' = Idle
                    /\ UNCHANGED renewal
  ELSE renewal' = Idle /\ UNCHANGED <<signIn, deletion>>

Redeploy(p) ==
  /\ under[p] = "old"
  /\ under' = [under EXCEPT ![p] = "new"]
  /\ Drop(p)
  /\ UNCHANGED <<user, ids, google, retired, rotation, clean, report, rest>>

Restart(p) ==
  /\ Drop(p)
  /\ UNCHANGED <<user, ids, google, keys, report, rest>>

\* reencryptTokens, run once the API and the worker have the new key.
RotateRead ==
  /\ \A p \in DOMAIN under : under[p] = "new"
  /\ ~retired /\ rotation = Idle
  /\ rotation' = [step |-> "update", id |-> user.id, access |-> user.access,
                  refresh |-> user.refresh]
  /\ clean' = FALSE
  /\ UNCHANGED <<user, ids, google, under, retired, requests, rest>>

Current(t) == t = NoToken \/ t.under = "new"
Rotated(t) == IF Current(t) THEN t ELSE [t EXCEPT !.under = "new"]
Matches == rotation.id = user.id /\ rotation.access = user.access
             /\ rotation.refresh = user.refresh

\* Variant: the row is written on its id alone.
RewriteUnconditional ==
  user' = IF rotation.id = user.id /\ user.id # 0
          THEN [user EXCEPT !.access = Rotated(rotation.access),
                            !.refresh = Rotated(rotation.refresh)]
          ELSE user

\* Conditional on the two values read.
Rewrite ==
  user' = IF Matches THEN [user EXCEPT !.access = Rotated(rotation.access),
                                       !.refresh = Rotated(rotation.refresh)]
          ELSE user

\* Variant: the report counts the rows written.
ReportsWritten ==
  Matches => Current(rotation.access) /\ Current(rotation.refresh)

\* The report counts what was re-encrypted, written or not.
ReportsNothing == Current(rotation.access) /\ Current(rotation.refresh)

RotateUpdate ==
  /\ rotation # Idle
  /\ Rewrite
  /\ clean' = ReportsNothing
  /\ rotation' = Idle
  /\ UNCHANGED <<ids, google, under, retired, requests, rest>>

\* The operator removes the previous key and redeploys.
Retire ==
  /\ clean /\ ~retired
  /\ retired' = TRUE
  /\ signIn' = [s \in SignIns |-> Idle] /\ deletion' = Idle /\ renewal' = Idle
  /\ UNCHANGED <<user, ids, google, under, rotation, clean, report, rest>>

-----------------------------------------------------------------------------
(* Campaigns, and deleting the account.                                    *)

\* POST /campaigns and a file, behind the session; the terms are not modelled.
CreateCampaign(k) ==
  /\ SignedIn
  /\ k \notin row \cup object
  /\ row' = row \cup {k} /\ object' = object \cup {k}
  /\ UNCHANGED <<user, ids, google, keys, requests, session, code>>

\* DELETE /campaigns/:id removes the row.
DeleteCampaign(k) ==
  /\ SignedIn /\ k \in row
  /\ row' = row \ {k}
  /\ UNCHANGED <<user, ids, google, keys, requests, session, code, object>>

Newest == IF user.access.grant > user.refresh.grant THEN user.access.grant
          ELSE user.refresh.grant

\* The refresh token is of a consent Google no longer honours, the access token
\* of a later one that came without a refresh token.
Stale == user.refresh # NoToken /\ user.refresh.grant \notin alive
           /\ user.access.grant > user.refresh.grant

\* Variant: only the refresh token is revoked.
BundleRefreshOnly == user.refresh

Bundle == IF user.refresh # NoToken THEN user.refresh ELSE user.access

\* Which of the two that is.
Sent == IF user.refresh # NoToken THEN "refresh"
        ELSE IF user.valid THEN "access" ELSE "expired"

\* The tokens, then the campaigns, are read before anything is deleted.
DeleteRead ==
  /\ SignedIn /\ deletion = Idle
  /\ deletion' = [step |-> "revoke", id |-> user.id, bundle |-> Bundle,
                  sent |-> Sent, newest |-> Newest, stale |-> Stale, listed |-> row,
                  revoked |-> FALSE]
  /\ UNCHANGED <<user, ids, google, keys, signIn, renewal, report, rest>>

\* What Google honours once a token is revoked: none, if it honoured that one;
\* one it no longer honours is as good as revoked.
Revoked(g) == IF g \in alive THEN {} ELSE alive

\* Whether Google knows the token it is sent.  A refresh token lasts as long as
\* its consent; an access token may have expired, before it was read or since:
\* Google then knows no such token, ends nothing, and that counts as a success.
Known == CASE deletion.sent = "refresh" -> {TRUE}
           [] deletion.sent = "access"  -> BOOLEAN
           [] deletion.sent = "expired" -> {FALSE}

\* A failure is logged and told.
DeleteRevoke ==
  /\ deletion # Idle /\ deletion.step = "revoke"
  /\ \/ /\ deletion.bundle = NoToken
        /\ deletion' = [deletion EXCEPT !.step = "row", !.revoked = TRUE]
        /\ UNCHANGED alive
     \/ /\ Opens(under.api, deletion.bundle)
        /\ \E known \in Known :
             /\ alive' = IF known THEN Revoked(deletion.bundle.grant) ELSE alive
             /\ deletion' = [deletion EXCEPT !.step = "row", !.revoked = TRUE,
                                             !.sent = IF known THEN @ ELSE "expired"]
     \/ /\ deletion.bundle # NoToken
        /\ deletion' = [deletion EXCEPT !.step = "row"]
        /\ UNCHANGED alive
  /\ UNCHANGED <<user, ids, last, keys, signIn, renewal, report, rest>>

\* DELETE FROM users, and the cascade.
DeleteRow ==
  /\ deletion # Idle /\ deletion.step = "row"
  /\ IF user.id = deletion.id
     THEN user' = NoUser /\ row' = {} /\ code' = {}
     ELSE UNCHANGED <<user, row, code>>
  /\ deletion' = [deletion EXCEPT !.step = "purge"]
  /\ UNCHANGED <<ids, google, keys, signIn, renewal, report, session, object>>

\* The files of the campaigns listed, those that can be; then the session ends.
DeletePurge ==
  /\ deletion # Idle /\ deletion.step = "purge"
  /\ \E failed \in SUBSET deletion.listed : object' = object \ (deletion.listed \ failed)
  /\ report' = IF ~(deletion.revoked /\ deletion.newest = last) THEN "none"
               ELSE IF deletion.stale THEN "stale"
               ELSE IF deletion.sent = "expired" THEN "expired" ELSE "whole"
  /\ session' = 0
  /\ deletion' = Idle
  /\ UNCHANGED <<user, ids, google, keys, signIn, renewal, code, row>>

-----------------------------------------------------------------------------
SigningIn == PartnerSignIn \/ SignOut
  \/ \E s \in SignIns : Consent(s) \/ SignInFails(s) \/ Upsert(s)
  \/ \E c \in Codes : IssueCode(c) \/ BurnCode(c)
Renewing == AccessExpires \/ RenewRead \/ RenewAsk \/ RenewSave \/ RevokeAtGoogle
Rotating == RotateRead \/ RotateUpdate \/ Retire
  \/ \E p \in DOMAIN under : Redeploy(p) \/ Restart(p)
Deleting == DeleteRead \/ DeleteRevoke \/ DeleteRow \/ DeletePurge
  \/ \E k \in Campaigns : CreateCampaign(k) \/ DeleteCampaign(k)

Next == SigningIn \/ Renewing \/ Rotating \/ Deleting

\* Sends keep asking for the token, access tokens last an hour, a sign-in and
\* a deploy that began end.
Fairness ==
  /\ SF_vars(RenewRead) /\ SF_vars(RenewAsk) /\ SF_vars(RenewSave)
  /\ WF_vars(AccessExpires)
  /\ \A s \in SignIns : WF_vars(Upsert(s) \/ SignInFails(s))
  /\ WF_vars(under # [p \in DOMAIN under |-> "old"]
             /\ \E p \in DOMAIN under : Redeploy(p))

Spec == Init /\ [][Next]_vars
FairSpec == Spec /\ Fairness

-----------------------------------------------------------------------------
User == [id : Id, access : Token, refresh : Token, valid : BOOLEAN]

\* Type correctness of the row, the tokens in flight and the requests.
TypeOK ==
  /\ user \in User /\ ids \in Id /\ user.id <= ids
  /\ last \in Grant /\ alive \in SUBSET (1 .. last)
  /\ under \in [{"api", "worker"} -> Key] /\ retired \in BOOLEAN /\ clean \in BOOLEAN
  /\ signIn \in [SignIns -> {Idle} \cup
       [step : {"upsert"}, access : Token \ {NoToken}, refresh : Token]]
  /\ renewal \in {Idle} \cup [step : {"ask"}, id : Id, grant : Grant \ {0}]
       \cup [step : {"save"}, id : Id, token : Token \ {NoToken}]
  /\ rotation \in {Idle} \cup
       [step : {"update"}, id : Id, access : Token, refresh : Token]
  /\ deletion \in {Idle} \cup
       [step : {"revoke", "row", "purge"}, id : Id, bundle : Token,
        sent : {"refresh", "access", "expired"}, newest : Grant, stale : BOOLEAN,
        listed : SUBSET Campaigns, revoked : BOOLEAN]
  /\ report \in {"none", "stale", "expired", "whole"}
  /\ session \in Id
  /\ code \in SUBSET Codes
  /\ row \in SUBSET Campaigns /\ object \in SUBSET Campaigns

\* Once both processes have the new key nothing is sealed with the old one, and
\* once a run of the script was clean nothing stored, in flight or held by the
\* script itself is.
Deployed == \A p \in DOMAIN under : under[p] = "new"

NothingOld ==
  /\ rotation # Idle \/ clean \/ retired => Deployed
  /\ under.api = "new" => \A s \in SignIns : signIn[s] # Idle =>
       Current(signIn[s].access) /\ Current(signIn[s].refresh)
  /\ under.worker = "new" /\ renewal # Idle /\ renewal.step = "save" =>
       Current(renewal.token)
  /\ clean \/ retired => Current(user.access) /\ Current(user.refresh)
  /\ rotation # Idle /\ ReportsNothing =>
       Current(user.access) /\ Current(user.refresh)

\* The procedure of docs/security.md is safe: when the previous key is removed
\* after a run that re-encrypted nothing, every stored token can be read,
\* whatever sign-in, renewal or deletion ran beside the script.
RotationIsSafe == TypeOK /\ NothingOld

\* The stored consent is only replaced by the one a sign-in just obtained, or
\* goes with the account: neither the worker nor the rotation script, which
\* write what they read earlier, brings an older one back.
ReplacedBySignIn ==
  user'.id = user.id /\ user'.refresh.grant # user.refresh.grant =>
    \E s \in SignIns : /\ signIn[s] # Idle /\ signIn'[s] = Idle
                       /\ user'.refresh.grant = signIn[s].refresh.grant
OnlySignInsReplace == [][ReplacedBySignIn]_vars

\* A consent ends with all those before it: when Google no longer honours the
\* newest it honours none.  What is stored or on its way is a consent given, and
\* a deletion under way has read one whose end is the end of the newest.
Unbroken == last \notin alive => alive = {}

Given ==
  /\ user.access.grant <= last /\ user.refresh.grant <= last
  /\ \A s \in SignIns : signIn[s] # Idle =>
       signIn[s].access.grant <= last /\ signIn[s].refresh.grant <= last
  /\ renewal # Idle => IF renewal.step = "ask" THEN renewal.grant <= last
                       ELSE renewal.token.grant <= last

Deciding ==
  deletion # Idle =>
    /\ deletion.id # 0 /\ deletion.newest <= last
    /\ deletion.newest = last /\ last > 0 /\ ~deletion.stale =>
         /\ deletion.step = "revoke" => deletion.bundle # NoToken /\
              (alive = {} \/ deletion.bundle.grant \in alive)
         /\ deletion.revoked /\ deletion.sent # "expired" => alive = {}

ConsentsKnown == Unbroken /\ Given /\ Deciding

\* A deletion that answered "revoked", and had read the newest consent the
\* person gave, left Google honouring none, with two exceptions: beside a later
\* consent it read a refresh token that was dead, or it read no refresh token and
\* the access token it sent had expired.  In both Google says it knows no such
\* token, which is answered "revoked", and the consent stays.
RevokedMeansRevoked ==
  /\ ConsentsKnown
  /\ report = "whole" /\ last > 0 => alive = {}

\* While Google honours the refresh token stored, the worker comes to hold a
\* token that works, again and again, whatever raced its last renewal.
SendingHeals ==
  []<>(\/ user.refresh.grant \notin alive
       \/ user.valid /\ user.access.grant \in alive)

\* What services/storage.ts:163-167 says of an account deletion that purged what
\* it listed.  It does not hold for a campaign deleted before: its files stay.
FilesGoWithAccount ==
  [][deletion # Idle /\ deletion.step = "purge" /\ deletion' = Idle /\ session' = 0
       /\ object' \cap deletion.listed = {} => object' = {}]_vars

\* What docs/RUNBOOK.md:312 says of every deletion: it revokes Google's access, or the
\* user is told it did not.  It does not hold in the two cases that
\* RevokedMeansRevoked leaves out: the token sent is one Google no longer knows,
\* and the consent stays although the answer is "revoked".
RevokedLeavesNothing ==
  report # "none" /\ last > 0 => alive = {}
=============================================================================

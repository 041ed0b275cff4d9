-------------------------------- MODULE Api ---------------------------------
(***************************************************************************)
(* The v1 API of one account: integration tokens (integrationTokens.ts,    *)
(* integrationAuth.ts) and the creations a program makes through them      *)
(* under an Idempotency-Key (routes/v1.ts, idempotency.ts).                *)
(*                                                                         *)
(* A program that gets no answer sends its request again under the same    *)
(* key.  One step is one statement; a request's connection may close, an   *)
(* import fail, or the process die, between any two of them.               *)
(***************************************************************************)
EXTENDS Naturals, FiniteSets

CONSTANTS
  Requests,   \* calls that may be under way at once, retries included
  Keys,       \* Idempotency-Key values the program uses
  Bodies,     \* what a call asks for; the hash of two is never the same
  Tokens,     \* integration tokens the account may come to have
  MaxActive,  \* MAX_ACTIVE_TOKENS
  MaxFaults,  \* bound: deaths, failed statements, connections closed
  NoRequest, NoBody

ASSUME ApiAssumption ==
  /\ IsFiniteSet(Requests) /\ IsFiniteSet(Tokens)
  /\ MaxActive \in Nat /\ MaxFaults \in Nat
  /\ NoRequest \notin Requests /\ NoBody \notin Bodies

VARIABLES
  token,     \* integration_tokens: absent, active or revoked
  lock,      \* who holds the account's advisory lock
  key,       \* api_idempotency_keys: state, request hash, the request that
             \* claimed it (the row's id), and whether its 24 hours are over
  draft,     \* drafts created under the key since it was claimed
  imported,  \* those whose contacts were stored
  req,       \* each call: its step, what it asks, its outcome
  cut,       \* calls whose connection closed before they answered
  told,      \* history: the answer that left, of the call that has the key
  unkept,    \* history: keys whose outcome could not be kept
  closed,    \* history: keys one of whose calls lost its connection
  faults     \* faults so far

answers == <<cut, told, unkept>>
vars == <<token, lock, key, draft, imported, req, cut, told, unkept, closed, faults>>

-----------------------------------------------------------------------------
Free == [state |-> "free", body |-> NoBody, by |-> NoRequest, old |-> FALSE]
Untold == [body |-> NoBody, code |-> 0]
Idle == [step |-> "idle", key |-> {}, body |-> NoBody, code |-> 0, token |-> {}]

Active == {t \in Tokens : token[t] = "active"}
At(r, step) == req[r].step = step
KeyOf(r) == CHOOSE x \in Keys : x \in req[r].key
Goto(r, step) == req' = [req EXCEPT ![r].step = step]
End(r) == req' = [req EXCEPT ![r] = Idle]
InHand(r) == req[r].step \in {"create", "import", "keep"}
Owns(r) == InHand(r) \/ At(r, "answered")
Fault == faults < MaxFaults /\ faults' = faults + 1
NoFault == UNCHANGED faults

Init ==
  /\ token    = [t \in Tokens |-> "absent"]
  /\ lock     = NoRequest
  /\ key      = [x \in Keys |-> Free]
  /\ draft    = [x \in Keys |-> 0]
  /\ imported = [x \in Keys |-> 0]
  /\ req      = [r \in Requests |-> Idle]
  /\ cut      = {}
  /\ told     = [x \in Keys |-> Untold]
  /\ unkept   = {}
  /\ closed   = {}
  /\ faults   = 0

-----------------------------------------------------------------------------
(* Integration tokens, from the account page.                              *)

\* Variant: the count and the INSERT without the lock.
LockAccountNot(r) ==
  /\ At(r, "idle")
  /\ Goto(r, "count")
  /\ UNCHANGED <<token, lock, key, draft, imported, answers, closed, faults>>

\* BEGIN, then pg_advisory_xact_lock, which waits for whoever has it.
LockAccount(r) ==
  /\ At(r, "idle")
  /\ \E t \in Tokens : token[t] = "absent"  \* bound
  /\ lock = NoRequest
  /\ lock' = r
  /\ Goto(r, "count")
  /\ UNCHANGED <<token, key, draft, imported, answers, closed, faults>>

\* INSERT ... WHERE (SELECT count(*) ...) < MAX_ACTIVE_TOKENS sees what is
\* committed when it starts; COMMIT shows the row and lets the lock go.
CountTokens(r) ==
  /\ At(r, "count")
  /\ IF Cardinality(Active) < MaxActive
     THEN Goto(r, "commit") /\ UNCHANGED lock
     ELSE End(r) /\ lock' = IF lock = r THEN NoRequest ELSE lock
  /\ UNCHANGED <<token, key, draft, imported, answers, closed, faults>>

CommitToken(r) ==
  /\ At(r, "commit")
  /\ \E t \in Tokens : token[t] = "absent" /\ token' = [token EXCEPT ![t] = "active"]
  /\ lock' = IF lock = r THEN NoRequest ELSE lock
  /\ End(r)
  /\ UNCHANGED <<key, draft, imported, answers, closed, faults>>

Revoke(t) ==
  /\ token[t] = "active"
  /\ token' = [token EXCEPT ![t] = "revoked"]
  /\ UNCHANGED <<lock, key, draft, imported, req, answers, closed, faults>>

-----------------------------------------------------------------------------
(* A creation under a key.                                                 *)

\* requireIntegrationToken: the hash of the secret names an active token.  The
\* terms and scope gates and the rate limit behind it change nothing.
Authenticate(r, t, x, b) ==
  /\ At(r, "idle")
  /\ token[t] = "active"
  /\ req' = [req EXCEPT ![r] =
       [step |-> "forget", key |-> {x}, body |-> b, code |-> 0, token |-> {t}]]
  /\ UNCHANGED <<token, lock, key, draft, imported, answers, closed, faults>>

\* The row of a key a day old is gone, with what was said of it.
Forgotten(x) ==
  /\ key'      = [key EXCEPT ![x] = Free]
  /\ draft'    = [draft EXCEPT ![x] = 0]
  /\ imported' = [imported EXCEPT ![x] = 0]
  /\ told'     = [told EXCEPT ![x] = Untold]
  /\ unkept'   = unkept \ {x}

\* claim: an expired key is deleted ...
Forget(r) ==
  LET x == KeyOf(r) IN
  /\ At(r, "forget")
  /\ IF key[x].old THEN Forgotten(x) ELSE UNCHANGED <<key, draft, imported, told, unkept>>
  /\ Goto(r, "insert")
  /\ UNCHANGED <<token, lock, cut, closed, faults>>

Taken(r) == [state |-> "running", body |-> req[r].body, by |-> r, old |-> FALSE]

\* Variant: the row is overwritten when there is one.
ClaimAnyway(r) ==
  /\ At(r, "insert")
  /\ key' = [key EXCEPT ![KeyOf(r)] = Taken(r)]
  /\ Goto(r, "create")
  /\ UNCHANGED <<token, lock, draft, imported, answers, closed, faults>>

\* ... the key is inserted, or someone has it ...
Claim(r) ==
  LET x == KeyOf(r) IN
  /\ At(r, "insert")
  /\ IF key[x] = Free
     THEN /\ key' = [key EXCEPT ![x] = Taken(r)]
          /\ Goto(r, "create")
     ELSE Goto(r, "look") /\ UNCHANGED key
  /\ UNCHANGED <<token, lock, draft, imported, answers, closed, faults>>

\* What a call that did not get its key is answered: 422 for another body,
\* the kept answer, or 409 while there is none.
Answered(k, b) ==
  CASE k.body \notin {b, NoBody} -> 422
    [] k.body = b /\ k.state = "created" -> 201
    [] k.body = b /\ k.state = "refused" -> 404
    [] OTHER -> 409

Look(r) ==
  /\ At(r, "look")
  /\ req' = [req EXCEPT ![r] = [@ EXCEPT !.step = "replay", !.code = Answered(key[KeyOf(r)], req[r].body)]]
  /\ UNCHANGED <<token, lock, key, draft, imported, answers, closed, faults>>

\* POST /campaigns creates the draft, POST /campaigns/:id/contacts finds one
\* that takes contacts or refuses: a 4xx is an answer like another.
Create(r) ==
  /\ At(r, "create")
  /\ \/ /\ draft' = [draft EXCEPT ![KeyOf(r)] = @ + 1]
        /\ Goto(r, "import")
     \/ /\ req' = [req EXCEPT ![r] = [@ EXCEPT !.step = "keep", !.code = 404]]
        /\ UNCHANGED draft
  /\ UNCHANGED <<token, lock, key, imported, answers, closed, faults>>

\* insertMany stores the contacts, or fails: the draft is removed, if that
\* does not fail too, and the answer is a 500.
Import(r) ==
  LET x == KeyOf(r) IN
  /\ At(r, "import")
  /\ \/ /\ imported' = [imported EXCEPT ![x] = @ + 1]
        /\ req' = [req EXCEPT ![r] = [@ EXCEPT !.step = "keep", !.code = 201]]
        /\ NoFault /\ UNCHANGED draft
     \/ /\ Fault
        /\ draft' \in {draft, [draft EXCEPT ![x] = @ - 1]}
        /\ req' = [req EXCEPT ![r] = [@ EXCEPT !.step = "keep", !.code = 500]]
        /\ UNCHANGED imported
  /\ UNCHANGED <<token, lock, key, answers, closed>>

\* release deletes the key by its id, unless an answer was kept under it.
Released(r) ==
  LET x == KeyOf(r) IN
  IF key[x].by = r /\ key[x].state = "running" THEN [key EXCEPT ![x] = Free] ELSE key

\* complete keeps the answer under the key's id.
Completed(r) ==
  LET x == KeyOf(r) kept == IF req[r].code = 201 THEN "created" ELSE "refused" IN
  IF key[x].by = r THEN [key EXCEPT ![x].state = kept] ELSE key

\* Variant: the answer leaves first.
KeepLater(r) ==
  /\ At(r, "keep")
  /\ Goto(r, "answered")
  /\ UNCHANGED <<token, lock, key, draft, imported, answers, closed, faults>>

\* res.json, wrapped: the outcome is kept or the key given back, and whether
\* or not that worked the answer leaves.
Keep(r) ==
  /\ At(r, "keep")
  /\ \/ /\ key' = (IF req[r].code = 500 THEN Released(r) ELSE Completed(r))
        /\ NoFault /\ UNCHANGED unkept
     \/ /\ Fault /\ UNCHANGED key
        /\ unkept' = IF key[KeyOf(r)].by = r THEN unkept \cup {KeyOf(r)} ELSE unkept
  /\ Goto(r, "answered")
  /\ UNCHANGED <<token, lock, draft, imported, cut, told, closed>>

\* The answer leaves, or goes nowhere where the connection is closed.
Leave(r) ==
  /\ req[r].step \in {"answered", "replay"}
  /\ told' = IF At(r, "answered") /\ req[r].code \in {201, 404} /\ r \notin cut
             THEN [told EXCEPT ![KeyOf(r)] = [body |-> req[r].body, code |-> req[r].code]]
             ELSE told
  /\ cut' = cut \ {r}
  /\ End(r)
  /\ UNCHANGED <<token, lock, key, draft, imported, unkept, closed, faults>>

\* The connection closes before the handler answered: the key is released
\* while the handler goes on.
Close(r) ==
  /\ req[r].step \in {"create", "import"} /\ r \notin cut
  /\ Fault
  /\ key' = Released(r)
  /\ cut' = cut \cup {r}
  /\ closed' = closed \cup {KeyOf(r)}
  /\ UNCHANGED <<token, lock, draft, imported, req, told, unkept>>

-----------------------------------------------------------------------------
\* The process dies: every call under way ends where it is, and Postgres
\* rolls the open transaction back.
Die ==
  /\ Fault
  /\ \E r \in Requests : ~At(r, "idle")
  /\ req' = [r \in Requests |-> Idle]
  /\ lock' = NoRequest
  /\ cut' = {}
  /\ UNCHANGED <<token, key, draft, imported, told, unkept, closed>>

\* Twenty-four hours after the claim: no handler lasts that long.
Expire(x) ==
  /\ key[x] # Free /\ ~key[x].old
  /\ \A r \in Requests : Owns(r) => x \notin req[r].key
  /\ key' = [key EXCEPT ![x].old = TRUE]
  /\ UNCHANGED <<token, lock, draft, imported, req, answers, closed, faults>>

\* Variant: only answered keys are purged.
PurgeAnswered(x) ==
  /\ key[x].old /\ key[x].state # "running"
  /\ Forgotten(x)
  /\ UNCHANGED <<token, lock, req, cut, closed, faults>>

\* The worker's daily purge.
Purge(x) ==
  /\ key[x].old
  /\ Forgotten(x)
  /\ UNCHANGED <<token, lock, req, cut, closed, faults>>

Step(r) == CountTokens(r) \/ CommitToken(r) \/ Forget(r) \/ Claim(r) \/ Look(r)
  \/ Create(r) \/ Import(r) \/ Keep(r) \/ Leave(r)

Next ==
  \/ \E r \in Requests : LockAccount(r) \/ Step(r) \/ Close(r)
  \/ \E r \in Requests, t \in Tokens, x \in Keys, b \in Bodies : Authenticate(r, t, x, b)
  \/ \E t \in Tokens : Revoke(t)
  \/ \E x \in Keys : Expire(x) \/ Purge(x)
  \/ Die

\* A statement ends, a day passes, and the purge is scheduled daily.
Fairness ==
  /\ \A r \in Requests : WF_vars(Step(r))
  /\ \A x \in Keys : WF_vars(Expire(x)) /\ WF_vars(Purge(x))

Spec == Init /\ [][Next]_vars
FairSpec == Spec /\ Fairness

-----------------------------------------------------------------------------
Request == [step : {"idle", "count", "commit", "forget", "insert", "look", "create",
                    "import", "keep", "answered", "replay"},
            key : SUBSET Keys, body : Bodies \cup {NoBody},
            code : {0, 201, 404, 409, 422, 500}, token : SUBSET Tokens]
Claimed == [state : {"free", "running", "created", "refused"},
            body : Bodies \cup {NoBody}, by : Requests \cup {NoRequest}, old : BOOLEAN]

AnswersOK ==
  /\ cut    \subseteq Requests
  /\ told   \in [Keys -> [body : Bodies \cup {NoBody}, code : {0, 201, 404}]]
  /\ unkept \subseteq Keys

\* Type correctness of the tables and of the calls under way.
TypeOK ==
  /\ token    \in [Tokens -> {"absent", "active", "revoked"}]
  /\ lock     \in Requests \cup {NoRequest}
  /\ key      \in [Keys -> Claimed]
  /\ draft    \in [Keys -> Nat]
  /\ imported \in [Keys -> Nat]
  /\ req      \in [Requests -> Request]
  /\ AnswersOK
  /\ closed   \subseteq Keys
  /\ faults   \in 0 .. MaxFaults
  /\ \A r \in Requests : req[r].step \in {"idle", "count", "commit"} \/
       \E x \in Keys : req[r].key = {x}

\* The lock is held by whoever counted, or is about to.
LockHeld == \A r \in Requests : req[r].step \in {"count", "commit"} <=> lock = r

\* Two creations at once do not both take the last place: an account never has
\* more active tokens than MAX_ACTIVE_TOKENS.
TokenCap ==
  /\ Cardinality(Active) <= MaxActive
  /\ \A r \in Requests : At(r, "commit") => Cardinality(Active) < MaxActive

\* A call working under a key is the one that claimed it, and nothing has been
\* stored under the key before it stores.
ClaimHeld ==
  \A r \in Requests : InHand(r) /\ KeyOf(r) \notin closed =>
    LET x == KeyOf(r) IN
    /\ key[x].by = r /\ key[x].state = "running" /\ ~key[x].old
    /\ key[x].body = req[r].body
    /\ imported[x] = IF At(r, "keep") /\ req[r].code = 201 THEN 1 ELSE 0

\* What a key says is what was done: nothing under a free one, the creation
\* under one that keeps its answer, and never two creations.
KeysTell ==
  \A x \in Keys \ closed :
    /\ key[x].state \in {"free", "refused"} => imported[x] = 0
    /\ key[x].state = "created" => imported[x] = 1
    /\ imported[x] <= 1

\* Nobody works under a key a day old, and every call about to store contacts
\* has its draft, those of closed connections included.
Importing(x) == {r \in Requests : At(r, "import") /\ req[r].key = {x}}

OldIsSettled  == \A x \in Keys, r \in Requests : key[x].old /\ Owns(r) => req[r].key # {x}
DraftsCounted == \A x \in Keys : draft[x] >= Cardinality(Importing(x))

\* Unless a connection was closed early, a creation retried under one key is
\* stored at most once, however its calls overlap, fail and die.
OncePerKey == TypeOK /\ LockHeld /\ TokenCap /\ ClaimHeld /\ KeysTell
  /\ OldIsSettled /\ DraftsCounted

\* What a call did is kept before its answer leaves: whoever makes it again
\* under the key is given the same answer while the key lasts, whatever has
\* since overlapped, failed, closed or died.  The one exception is the key
\* whose keeping failed: its answer leaves all the same.
RetryFindsIt ==
  \A x \in Keys \ unkept :
    told[x] # Untold => Answered(key[x], told[x].body) = told[x].code

\* A key whose call died is not lost: it answers "still running" for a day and
\* then serves again.
KeyServesAgain ==
  \A x \in Keys : key[x].state = "running" ~> key[x].state # "running"

\* What routes/v1.ts:43-45 says of the key, with connections that close.
OneDraftPerKey == \A x \in Keys : imported[x] <= 1
=============================================================================

------------------------------ MODULE ApiProofs ------------------------------
(***************************************************************************)
(* What is proved of the v1 API, for every set of calls, keys and tokens   *)
(* and every number of faults: two creations of a token do not pass the    *)
(* cap, and a creation retried under its key is stored once.               *)
(***************************************************************************)
EXTENDS Api, FiniteSetTheorems, TLAPS

\* A call that has a key has one, and KeyOf is that one.
LEMMA KeyIs ==
  ASSUME TypeOK, NEW r \in Requests, req[r].step \notin {"idle", "count", "commit"}
  PROVE  KeyOf(r) \in Keys /\ req[r].key = {KeyOf(r)}
BY DEF TypeOK, KeyOf

LEMMA ActiveIsFinite == IsFiniteSet(Active) /\ Cardinality(Active) \in Nat
<1>1. Active \subseteq Tokens /\ IsFiniteSet(Tokens)
  BY ApiAssumption DEF Active
<1>2. QED
  BY <1>1, FS_Subset, FS_CardinalityType

LEMMA ImportingIsFinite ==
  ASSUME NEW x
  PROVE  IsFiniteSet(Importing(x)) /\ Cardinality(Importing(x)) \in Nat
<1>1. Importing(x) \subseteq Requests /\ IsFiniteSet(Requests)
  BY ApiAssumption DEF Importing
<1>2. QED
  BY <1>1, FS_Subset, FS_CardinalityType

\* What was said of the keys keeps its type.
LEMMA AnswersTyped ==
  ASSUME TypeOK,
         \/ UNCHANGED answers
         \/ \E r \in Requests : Forget(r) \/ Keep(r) \/ Leave(r) \/ Close(r)
         \/ Die
         \/ \E x \in Keys : Purge(x)
  PROVE  AnswersOK'
<1> USE DEF TypeOK, AnswersOK
<1>1. CASE UNCHANGED answers
  BY <1>1 DEF answers
<1>2. ASSUME NEW x \in Keys, Forgotten(x), UNCHANGED cut PROVE AnswersOK'
  BY <1>2 DEF Forgotten, Untold
<1>3. ASSUME NEW r \in Requests, Forget(r) \/ Keep(r) \/ Leave(r) \/ Close(r)
      PROVE  AnswersOK'
  <2>1. ~At(r, "replay") => KeyOf(r) \in Keys
    BY <1>3, KeyIs DEF Forget, Keep, Leave, Close, At
  <2>2. req[r].body \in Bodies \cup {NoBody}
    BY DEF Request
  <2>3. CASE Forget(r)
    BY <1>2, <2>1, <2>3 DEF Forget, At
  <2>4. CASE Leave(r)
    BY <2>1, <2>2, <2>4 DEF Leave, At
  <2>5. CASE Keep(r) \/ Close(r)
    BY <2>1, <2>5 DEF Keep, Close, At
  <2>6. QED
    BY <1>3, <2>3, <2>4, <2>5
<1>4. CASE Die
  BY <1>4 DEF Die
<1>5. ASSUME NEW x \in Keys, Purge(x) PROVE AnswersOK'
  BY <1>2, <1>5 DEF Purge
<1>6. QED
  BY <1>1, <1>3, <1>4, <1>5

\* The invariant holds at first.
LEMMA InitInv == Init => OncePerKey
<1> SUFFICES ASSUME Init PROVE OncePerKey
  OBVIOUS
<1> USE ApiAssumption DEF Init, Idle, Free
<1>1. Active = {} /\ \A x \in Keys : Importing(x) = {}
  BY DEF Active, Importing, At
<1>2. Cardinality({}) = 0
  BY FS_EmptySet
<1>3. TypeOK
  BY DEF TypeOK, AnswersOK, Untold, Claimed, Request
<1>4. LockHeld /\ ClaimHeld /\ KeysTell /\ OldIsSettled
  BY DEF LockHeld, ClaimHeld, KeysTell, OldIsSettled, InHand, Owns, At
<1>5. TokenCap
  <2>1. Cardinality(Active) = 0 /\ MaxActive \in Nat
    BY <1>1, <1>2
  <2>2. \A r \in Requests : ~At(r, "commit")
    BY DEF At
  <2>3. QED
    BY <2>1, <2>2 DEF TokenCap
<1>6. DraftsCounted
  <2>1. \A x \in Keys : Cardinality(Importing(x)) = 0 /\ draft[x] = 0
    BY <1>1, <1>2
  <2>2. QED
    BY <2>1 DEF DraftsCounted
<1>7. QED
  BY <1>3, <1>4, <1>5, <1>6 DEF OncePerKey

-----------------------------------------------------------------------------
(* Tokens: the lock's holder is alone between its count and its commit.    *)

\* A step between statements that are not an import moves no draft's counter.
LEMMA ImportingSame ==
  ASSUME NEW r \in Requests, NEW x, req \in [Requests -> Request],
         NEW q \in Request, req' = [req EXCEPT ![r] = q],
         req[r].step # "import", q.step # "import"
  PROVE  Importing(x)' = Importing(x)
BY DEF Importing, At

LEMMA TokenInv ==
  ASSUME OncePerKey, NEW r \in Requests,
         LockAccount(r) \/ CountTokens(r) \/ CommitToken(r)
  PROVE  OncePerKey'
<1> USE ApiAssumption DEF OncePerKey, At, Goto, End
<1>1. /\ UNCHANGED <<key, draft, imported, closed, faults>>
      /\ \E q \in Request : req' = [req EXCEPT ![r] = q]
                            /\ q.step \in {"idle", "count", "commit"}
      /\ req[r].step \in {"idle", "count", "commit"}
  BY DEF LockAccount, CountTokens, CommitToken, TypeOK, Request, Idle
<1>2. PICK q \in Request : req' = [req EXCEPT ![r] = q] /\ q.step \in {"idle", "count", "commit"}
  BY <1>1
<1>3. TypeOK'
  <2>1. AnswersOK'
    BY AnswersTyped DEF LockAccount, CountTokens, CommitToken
  <2>2. QED
    BY <1>1, <1>2, <2>1 DEF TypeOK, LockAccount, CountTokens, CommitToken
<1>4. LockHeld'
  BY <1>1, <1>2 DEF TypeOK, LockHeld, LockAccount, CountTokens, CommitToken, Request, Idle
<1>5. TokenCap'
  <2>1. CASE UNCHANGED token
    <3>1. Active' = Active
      BY <2>1 DEF Active
    <3>2. req'[r].step = "commit" => Cardinality(Active) < MaxActive
      BY <1>1, <1>2 DEF TypeOK, LockAccount, CountTokens, CommitToken, Request, Idle, TokenCap
    <3>3. QED
      BY <1>1, <1>2, <3>1, <3>2 DEF TokenCap, TypeOK
  <2>2. CASE CommitToken(r)
    <3>1. PICK t \in Tokens : token[t] = "absent" /\ token' = [token EXCEPT ![t] = "active"]
      BY <2>2 DEF CommitToken
    <3>2. Active' = Active \cup {t} /\ t \notin Active
      BY <3>1 DEF Active, TypeOK
    <3>3. Cardinality(Active') = Cardinality(Active) + 1
      BY <3>2, ActiveIsFinite, FS_AddElement
    <3>4. \A p \in Requests : req'[p].step # "commit"
      BY <2>2, <1>2 DEF CommitToken, LockHeld, TypeOK, Idle
    <3>5. Cardinality(Active) < MaxActive
      BY <2>2 DEF CommitToken, TokenCap
    <3>6. QED
      BY <3>3, <3>4, <3>5, ActiveIsFinite DEF TokenCap
  <2>3. QED
    BY <2>1, <2>2 DEF LockAccount, CountTokens
<1>6. ClaimHeld' /\ OldIsSettled'
  BY <1>1, <1>2 DEF ClaimHeld, OldIsSettled, InHand, Owns, KeyOf, TypeOK
<1>7. KeysTell'
  BY <1>1 DEF KeysTell
<1>8. DraftsCounted'
  <2>1. \A x : Importing(x)' = Importing(x)
    BY <1>1, <1>2, ImportingSame DEF TypeOK
  <2>2. QED
    BY <1>1, <2>1 DEF DraftsCounted
<1>9. QED
  BY <1>3, <1>4, <1>5, <1>6, <1>7, <1>8

LEMMA RevokeInv ==
  ASSUME OncePerKey, NEW t \in Tokens, Revoke(t)
  PROVE  OncePerKey'
<1> USE DEF OncePerKey, Revoke
<1>1. Active' = Active \ {t} /\ t \in Active
  BY DEF Active, TypeOK
<1>2. Cardinality(Active') = Cardinality(Active) - 1
  BY <1>1, ActiveIsFinite, FS_RemoveElement
<1>3. TokenCap'
  BY <1>2, ActiveIsFinite, ApiAssumption DEF TokenCap, At
<1>4. TypeOK'
  BY AnswersTyped DEF TypeOK
<1>5. LockHeld' /\ ClaimHeld' /\ KeysTell' /\ OldIsSettled'
  BY DEF LockHeld, ClaimHeld, KeysTell, OldIsSettled, InHand, Owns, KeyOf, At
<1>6. DraftsCounted'
  BY DEF DraftsCounted, Importing, At
<1>7. QED
  BY <1>3, <1>4, <1>5, <1>6
-----------------------------------------------------------------------------
(* Keys: a call under way is the one its key knows.                        *)

\* What no step of a keyed call touches.
LEMMA TokensKept ==
  ASSUME LockHeld, TokenCap, UNCHANGED <<token, lock>>, NEW r \in Requests, NEW q,
         req \in [Requests -> Request], req' = [req EXCEPT ![r] = q],
         req[r].step \notin {"count", "commit"}, q.step \notin {"count", "commit"}
  PROVE  LockHeld' /\ TokenCap'
<1>1. Active' = Active
  BY DEF Active
<1>2. \A p \in Requests : req'[p].step = req[p].step \/ p = r
  OBVIOUS
<1>3. req'[r].step = q.step
  OBVIOUS
<1>4. LockHeld'
  BY <1>2, <1>3 DEF LockHeld
<1>5. TokenCap'
  BY <1>1, <1>2, <1>3 DEF TokenCap, At
<1>6. QED
  BY <1>4, <1>5

\* A call authenticates, leaves, or is answered out of another's claim: no key
\* changes.
LEMMA ReadInv ==
  ASSUME OncePerKey, NEW r \in Requests,
         \/ Look(r) \/ Leave(r)
         \/ \E t \in Tokens, x \in Keys, b \in Bodies : Authenticate(r, t, x, b)
  PROVE  OncePerKey'
<1> USE DEF OncePerKey, At, End
<1> DEFINE q == req'[r]
<1>1. /\ req' = [req EXCEPT ![r] = q]
      /\ q \in Request
      /\ q.step \in {"idle", "forget", "replay"}
      /\ q.step = "idle" \/ \E x \in Keys : q.key = {x}
  <2>1. CASE Look(r)
    <3> DEFINE c == Answered(key[KeyOf(r)], req[r].body)
    <3>1. c \in {201, 404, 409, 422}
      BY DEF Answered
    <3>2. PICK x \in Keys : req[r].key = {x}
      BY <2>1 DEF Look, TypeOK
    <3> HIDE DEF c, q
    <3>3. req' = [req EXCEPT ![r] = [req[r] EXCEPT !.step = "replay", !.code = c]]
      BY <2>1 DEF Look, c
    <3> DEFINE moved == [req[r] EXCEPT !.step = "replay"]
    <3>4. moved \in Request /\ moved.step = "replay" /\ moved.key = req[r].key
      BY DEF TypeOK, Request
    <3>5. q = [moved EXCEPT !.code = c]
      BY <3>3 DEF TypeOK, q
    <3> HIDE DEF moved
    <3>6. q \in Request /\ q.step = "replay" /\ q.key = req[r].key
      BY <3>1, <3>4, <3>5 DEF Request
    <3>7. req' = [req EXCEPT ![r] = q]
      BY <3>3 DEF q, TypeOK
    <3>8. QED
      BY <3>2, <3>6, <3>7
  <2>2. CASE Leave(r)
    <3>1. q = Idle /\ Idle \in Request /\ Idle.step = "idle"
      BY <2>2 DEF Leave, TypeOK, Request, Idle
    <3>2. QED
      BY <2>2, <3>1 DEF Leave
  <2>3. CASE \E t \in Tokens, x \in Keys, b \in Bodies : Authenticate(r, t, x, b)
    <3>1. PICK t \in Tokens, x \in Keys, b \in Bodies : Authenticate(r, t, x, b)
      BY <2>3
    <3>2. q = [step |-> "forget", key |-> {x}, body |-> b, code |-> 0, token |-> {t}]
      BY <3>1 DEF Authenticate, TypeOK
    <3>3. q \in Request /\ q.step = "forget" /\ q.key = {x}
      BY <3>2 DEF Request
    <3>4. req' = [req EXCEPT ![r] = q]
      BY <3>1, <3>2 DEF Authenticate
    <3> HIDE DEF q
    <3>5. QED
      BY <3>3, <3>4
  <2>4. QED
    BY <2>1, <2>2, <2>3
<1> HIDE DEF q
<1>2. /\ UNCHANGED <<token, lock, key, draft, imported, closed, faults>>
      /\ req[r].step \in {"idle", "look", "answered", "replay"}
  BY DEF Look, Leave, Authenticate
<1>3. TypeOK'
  <2>1. AnswersOK'
    BY AnswersTyped DEF Look, Authenticate
  <2>2. QED
    BY <1>1, <1>2, <2>1 DEF TypeOK
<1>4. LockHeld' /\ TokenCap'
  BY <1>1, <1>2, TokensKept DEF TypeOK
<1>5. ClaimHeld' /\ OldIsSettled' /\ KeysTell'
  BY <1>1, <1>2 DEF ClaimHeld, OldIsSettled, KeysTell, InHand, Owns, KeyOf, TypeOK
<1>6. DraftsCounted'
  <2>1. \A x : Importing(x)' = Importing(x)
    BY <1>1, <1>2, ImportingSame DEF TypeOK
  <2>2. QED
    BY <1>2, <2>1 DEF DraftsCounted
<1>7. QED
  BY <1>3, <1>4, <1>5, <1>6

\* The first statement of a claim, and the insertion.
LEMMA ClaimInv ==
  ASSUME OncePerKey, NEW r \in Requests, Forget(r) \/ Claim(r)
  PROVE  OncePerKey'
<1> DEFINE x == KeyOf(r)
<1> USE ApiAssumption DEF OncePerKey, At, Goto
<1>1. x \in Keys /\ req[r].key = {x}
  BY KeyIs DEF Forget, Claim
<1> HIDE DEF x
<1>2. PICK s \in {"insert", "create", "look"} : req' = [req EXCEPT ![r].step = s]
  BY DEF Forget, Claim
<1>3. /\ UNCHANGED <<token, lock, closed, faults>>
      /\ req[r].step \in {"forget", "insert"}
  BY DEF Forget, Claim
<1>4. \/ UNCHANGED <<key, draft, imported>> /\ s # "create"
      \/ /\ key[x].old /\ s = "insert"
         /\ key' = [key EXCEPT ![x] = Free]
         /\ draft' = [draft EXCEPT ![x] = 0]
         /\ imported' = [imported EXCEPT ![x] = 0]
      \/ /\ key[x] = Free /\ s = "create"
         /\ key' = [key EXCEPT ![x] = Taken(r)]
         /\ UNCHANGED <<draft, imported>>
  BY <1>1, <1>2, <1>3 DEF Forget, Forgotten, Claim, x, TypeOK, Request
<1> DEFINE q == [req[r] EXCEPT !.step = s]
<1>q. /\ req' = [req EXCEPT ![r] = q]
      /\ q \in Request /\ q.step = s /\ q.key = {x} /\ q.body = req[r].body
  BY <1>1, <1>2 DEF TypeOK, Request
<1> HIDE DEF q
<1>5. TypeOK'
  <2>0. Taken(r) \in Claimed /\ Free \in Claimed
    BY DEF TypeOK, Claimed, Request, Taken, Free
  <2>1. key' \in [Keys -> Claimed]
    BY <1>1, <1>4, <2>0 DEF TypeOK
  <2>2. req' \in [Requests -> Request] /\ \A p \in Requests :
          req'[p].step \in {"idle", "count", "commit"} \/ \E y \in Keys : req'[p].key = {y}
    BY <1>1, <1>q DEF TypeOK
  <2>3. AnswersOK'
    BY AnswersTyped DEF Claim
  <2>4. QED
    BY <1>1, <1>3, <1>4, <2>1, <2>2, <2>3 DEF TypeOK
<1>6. LockHeld' /\ TokenCap'
  BY <1>2, <1>3, <1>q, TokensKept DEF TypeOK
<1>7. \A p \in Requests \ {r} : req'[p] = req[p] /\ InHand(p)' = InHand(p) /\ KeyOf(p)' = KeyOf(p)
  BY <1>q DEF InHand, KeyOf, TypeOK
<1>8. req'[r] = q /\ InHand(r)' = (s = "create") /\ KeyOf(r)' = x
  BY <1>1, <1>2, <1>q DEF InHand, KeyOf, TypeOK
<1>9. \A p \in Requests : InHand(p) => KeyOf(p) \in Keys /\ req[p].key = {KeyOf(p)}
  BY KeyIs DEF InHand
<1>10. ClaimHeld'
  <2> SUFFICES ASSUME NEW p \in Requests, InHand(p)', KeyOf(p)' \notin closed'
              PROVE  (/\ key[KeyOf(p)].by = p /\ key[KeyOf(p)].state = "running"
                      /\ ~key[KeyOf(p)].old /\ key[KeyOf(p)].body = req[p].body
                      /\ imported[KeyOf(p)] = IF At(p, "keep") /\ req[p].code = 201 THEN 1 ELSE 0)'
    BY DEF ClaimHeld
  <2>1. CASE p = r
    <3>1. key[x] = Free /\ key' = [key EXCEPT ![x] = Taken(r)] /\ imported' = imported
      BY <1>4, <1>8, <2>1
    <3>2. imported[x] = 0
      BY <1>1, <1>3, <1>8, <2>1, <3>1 DEF KeysTell, Free
    <3>3. key'[x] = Taken(r)
      BY <1>1, <3>1 DEF TypeOK
    <3>4. QED
      BY <1>8, <1>q, <2>1, <3>1, <3>2, <3>3 DEF Taken
  <2>2. CASE p # r
    <3>1. InHand(p) /\ KeyOf(p) \notin closed
      BY <1>3, <1>7, <2>2
    <3>2. KeyOf(p) # x \/ UNCHANGED <<key, imported>>
      BY <1>4, <3>1, ApiAssumption DEF ClaimHeld, Free
    <3>3. key'[KeyOf(p)] = key[KeyOf(p)] /\ imported'[KeyOf(p)] = imported[KeyOf(p)]
      BY <1>1, <1>4, <1>9, <3>1, <3>2 DEF TypeOK
    <3>4. QED
      BY <1>7, <2>2, <3>1, <3>3 DEF ClaimHeld
  <2>3. QED
    BY <2>1, <2>2
<1>11. KeysTell'
  BY <1>1, <1>3, <1>4 DEF KeysTell, TypeOK, Free, Taken
<1>12. OldIsSettled'
  <2>1. \A y \in Keys : key'[y].old => key[y].old /\ (y # x \/ s # "create")
    BY <1>1, <1>4 DEF TypeOK, Free, Taken
  <2>0. \A p \in Requests : p # r => Owns(p)' = Owns(p)
    BY <1>7 DEF Owns, At
  <2>2. ASSUME NEW y \in Keys, NEW p \in Requests, key'[y].old, Owns(p)'
        PROVE  req'[p].key # {y}
    <3>1. CASE p = r
      BY <1>2, <1>8, <1>q, <2>1, <2>2, <3>1 DEF Owns, At
    <3>2. CASE p # r
      BY <1>7, <2>0, <2>1, <2>2, <3>2 DEF OldIsSettled
    <3>3. QED
      BY <3>1, <3>2
  <2>3. QED
    BY <2>2 DEF OldIsSettled
<1>13. DraftsCounted'
  <2>1. \A y : Importing(y)' = Importing(y)
    BY <1>2, <1>3, <1>q, ImportingSame DEF TypeOK
  <2>2. draft'[x] = draft[x] \/ (key[x].old /\ draft'[x] = 0)
    BY <1>1, <1>4 DEF TypeOK
  <2>3. key[x].old => Importing(x) = {}
    BY <1>1 DEF OldIsSettled, Importing, InHand, Owns
  <2>4. Cardinality({}) = 0
    BY FS_EmptySet
  <2>5. draft'[x] >= Cardinality(Importing(x))
    BY <1>1, <2>2, <2>3, <2>4 DEF DraftsCounted
  <2>6. \A y \in Keys \ {x} : draft'[y] = draft[y]
    BY <1>4 DEF TypeOK
  <2>7. QED
    BY <2>1, <2>5, <2>6 DEF DraftsCounted
<1>14. QED
  BY <1>5, <1>6, <1>10, <1>11, <1>12, <1>13

\* The creation and the import: the call that stores is the one its key knows,
\* so what it finds stored is nothing.
LEMMA WorkInv ==
  ASSUME OncePerKey, NEW r \in Requests, Create(r) \/ Import(r)
  PROVE  OncePerKey'
<1> DEFINE q == req'[r]
<1> USE ApiAssumption DEF OncePerKey, At, Goto
<1>1. PICK x \in Keys : /\ x = KeyOf(r) /\ req[r].key = {x}
                       /\ InHand(r) /\ req[r] \in Request
  BY KeyIs DEF Create, Import, InHand, TypeOK
<1>2. /\ UNCHANGED <<token, lock, key, closed>>
      /\ req[r].step \in {"create", "import"}
  BY DEF Create, Import
<1>3. PICK s \in {"import", "keep"}, c \in {0, 201, 404, 500} :
        /\ s = "keep" => c # 0
        /\ req' = IF s = "import" THEN [req EXCEPT ![r].step = "import"]
                  ELSE [req EXCEPT ![r] = [req[r] EXCEPT !.step = "keep", !.code = c]]
        /\ \/ s = "import" /\ draft' = [draft EXCEPT ![x] = @ + 1]
              /\ req[r].step = "create" /\ UNCHANGED <<imported, faults>>
           \/ /\ s = "keep" /\ c = 404 /\ req[r].step = "create"
              /\ UNCHANGED <<draft, imported, faults>>
           \/ /\ s = "keep" /\ c = 201 /\ req[r].step = "import"
              /\ imported' = [imported EXCEPT ![x] = @ + 1] /\ UNCHANGED <<draft, faults>>
           \/ /\ s = "keep" /\ c = 500 /\ req[r].step = "import" /\ Fault
              /\ draft' \in {draft, [draft EXCEPT ![x] = @ - 1]} /\ UNCHANGED imported
  BY <1>1 DEF Create, Import, NoFault
<1>4. /\ req' = [req EXCEPT ![r] = q]
      /\ q \in Request /\ q.step = s /\ q.key = {x} /\ q.body = req[r].body
      /\ s = "keep" => q.code = c
  <2>1. CASE s = "import"
    <3>1. q = [req[r] EXCEPT !.step = "import"]
      BY <1>3, <2>1 DEF TypeOK
    <3>2. QED
      BY <1>1, <1>3, <2>1, <3>1 DEF Request, TypeOK
  <2>2. CASE s = "keep"
    <3> DEFINE moved == [req[r] EXCEPT !.step = "keep"]
    <3>1. moved \in Request /\ moved.step = "keep" /\ moved.key = {x} /\ moved.body = req[r].body
      BY <1>1 DEF Request
    <3>2. q = [moved EXCEPT !.code = c]
      BY <1>3, <2>2 DEF TypeOK
    <3>3. req' = [req EXCEPT ![r] = q]
      BY <1>3, <2>2, <3>2 DEF TypeOK
    <3> HIDE DEF moved, q
    <3>4. QED
      BY <2>2, <3>1, <3>2, <3>3 DEF Request
  <2>3. QED
    BY <2>1, <2>2
<1> HIDE DEF q
<1>5. \A p \in Requests \ {r} : req'[p] = req[p] /\ InHand(p)' = InHand(p) /\ KeyOf(p)' = KeyOf(p)
  BY <1>4 DEF InHand, KeyOf, TypeOK
<1>6. req'[r] = q /\ InHand(r)' /\ KeyOf(r)' = x
  BY <1>1, <1>4 DEF InHand, KeyOf, TypeOK
<1>7. \A y : IsFiniteSet(Importing(y)) /\ Cardinality(Importing(y)) \in Nat
  BY ImportingIsFinite
<1>8. /\ \A y \in Keys \ {x} : Importing(y)' = Importing(y)
      /\ Importing(x)' = IF s = "import" THEN Importing(x) \cup {r} ELSE Importing(x) \ {r}
  <2>1. ASSUME NEW y \in Keys \ {x} PROVE Importing(y)' = Importing(y)
    BY <1>1, <1>4, <1>5, <1>6 DEF Importing
  <2>2. Importing(x)' = IF s = "import" THEN Importing(x) \cup {r} ELSE Importing(x) \ {r}
    BY <1>1, <1>4, <1>5, <1>6 DEF Importing
  <2>3. QED
    BY <2>1, <2>2
<1>9. r \in Importing(x) <=> req[r].step = "import"
  BY <1>1 DEF Importing
<1>10. DraftsCounted' /\ draft' \in [Keys -> Nat]
  <2>1. CASE s = "import"
    <3>1. Cardinality(Importing(x) \cup {r}) = Cardinality(Importing(x)) + 1
      <4>1. r \notin Importing(x) /\ IsFiniteSet(Importing(x))
        BY <1>3, <1>7, <1>9, <2>1
      <4>2. QED
        BY <4>1, FS_AddElement
    <3>2. draft'[x] = draft[x] + 1 /\ draft' \in [Keys -> Nat]
          /\ \A y \in Keys \ {x} : draft'[y] = draft[y]
      BY <1>1, <1>3, <2>1 DEF TypeOK
    <3>3. draft[x] >= Cardinality(Importing(x)) /\ draft[x] \in Nat
      BY <1>1 DEF DraftsCounted, TypeOK
    <3>4. draft'[x] >= Cardinality(Importing(x)')
      BY <1>1, <1>7, <1>8, <2>1, <3>1, <3>2, <3>3
    <3>5. QED
      BY <1>8, <3>2, <3>4 DEF DraftsCounted
  <2>2. CASE s = "keep"
    <3>1. /\ Cardinality(Importing(x) \ {r}) \in Nat
          /\ Cardinality(Importing(x) \ {r}) =
               IF req[r].step = "import" THEN Cardinality(Importing(x)) - 1
               ELSE Cardinality(Importing(x))
      BY <1>7, <1>9, FS_RemoveElement, FS_CardinalityType
    <3>2. \/ draft' = draft
          \/ draft' = [draft EXCEPT ![x] = @ - 1] /\ req[r].step = "import"
      BY <1>3, <2>2
    <3>3. draft[x] >= Cardinality(Importing(x)) /\ draft[x] \in Nat
      BY <1>1 DEF DraftsCounted, TypeOK
    <3>4. draft[x] - 1 \in Nat \/ req[r].step # "import"
      BY <1>7, <3>1, <3>3
    <3>5. draft' \in [Keys -> Nat] /\ \A y \in Keys \ {x} : draft'[y] = draft[y]
      BY <1>1, <3>2, <3>4 DEF TypeOK
    <3>6. draft'[x] >= Cardinality(Importing(x) \ {r})
      BY <1>1, <1>7, <3>1, <3>2, <3>3 DEF TypeOK
    <3>7. QED
      BY <1>1, <1>8, <2>2, <3>5, <3>6 DEF DraftsCounted
  <2>3. QED
    BY <2>1, <2>2
<1>11. TypeOK'
  <2>1. imported' \in [Keys -> Nat] /\ faults' \in 0 .. MaxFaults
    BY <1>1, <1>3 DEF TypeOK, Fault
  <2>2. AnswersOK'
    BY AnswersTyped DEF Create, Import
  <2>3. QED
    BY <1>1, <1>2, <1>4, <1>10, <2>1, <2>2 DEF TypeOK
<1>12. LockHeld' /\ TokenCap'
  BY <1>2, <1>4, TokensKept DEF TypeOK
<1>13. \A p \in Requests \ {r} : InHand(p) /\ KeyOf(p) \notin closed /\ x \notin closed => KeyOf(p) # x
  BY <1>1 DEF ClaimHeld
<1>14. ClaimHeld'
  <2> SUFFICES ASSUME NEW p \in Requests, InHand(p)', KeyOf(p)' \notin closed
              PROVE  (/\ key[KeyOf(p)].by = p /\ key[KeyOf(p)].state = "running"
                      /\ ~key[KeyOf(p)].old /\ key[KeyOf(p)].body = req[p].body
                      /\ imported[KeyOf(p)] = IF At(p, "keep") /\ req[p].code = 201 THEN 1 ELSE 0)'
    BY <1>2 DEF ClaimHeld
  <2>1. CASE p = r
    <3>1. /\ key[x].by = r /\ key[x].state = "running" /\ ~key[x].old
          /\ key[x].body = req[r].body /\ imported[x] = 0
      BY <1>1, <1>2, <1>6, <2>1 DEF ClaimHeld
    <3>2. imported'[x] = IF s = "keep" /\ c = 201 THEN 1 ELSE 0
      BY <1>1, <1>3, <3>1 DEF TypeOK
    <3>3. QED
      BY <1>2, <1>4, <1>6, <2>1, <3>1, <3>2
  <2>2. CASE p # r
    <3>1. InHand(p) /\ KeyOf(p) \notin closed /\ KeyOf(p) \in Keys
      BY <1>5, <2>2, KeyIs DEF InHand
    <3>2. KeyOf(p) # x
      BY <1>1, <1>13, <2>2, <3>1
    <3>3. imported'[KeyOf(p)] = imported[KeyOf(p)]
      BY <1>3, <3>1, <3>2 DEF TypeOK
    <3>4. QED
      BY <1>2, <1>5, <2>2, <3>1, <3>3 DEF ClaimHeld
  <2>3. QED
    BY <2>1, <2>2
<1>15. KeysTell'
  <2>1. x \notin closed => key[x].state = "running" /\ imported[x] = 0
    BY <1>1, <1>2 DEF ClaimHeld
  <2>2. \A y \in Keys \ {x} : imported'[y] = imported[y]
    BY <1>3 DEF TypeOK
  <2>3. imported'[x] \in {imported[x], imported[x] + 1}
    BY <1>1, <1>3 DEF TypeOK
  <2>4. QED
    BY <1>2, <2>1, <2>2, <2>3 DEF KeysTell
<1>16. OldIsSettled'
  <2>1. \A p \in Requests : Owns(p)' => Owns(p) /\ req'[p].key = req[p].key
    BY <1>1, <1>4, <1>5, <1>6 DEF Owns
  <2>2. QED
    BY <1>2, <2>1 DEF OldIsSettled
<1>17. QED
  BY <1>10, <1>11, <1>12, <1>14, <1>15, <1>16

\* What releasing a key, or keeping an answer under it, makes of the keys: only
\* the one its call still has changes.
LEMMA OwnKeyOnly ==
  ASSUME TypeOK, NEW r \in Requests, NEW x \in Keys, x = KeyOf(r),
         key' \in {key, Released(r), Completed(r)}
  PROVE  /\ key' \in [Keys -> Claimed]
         /\ \A y \in Keys \ {x} : key'[y] = key[y]
         /\ key'[x].old => key[x].old
         /\ key[x].by # r => key' = key
         /\ key' = Released(r) => key'[x] = key[x] \/ key'[x] = Free
         /\ key' = Completed(r) => key' = key \/
              key'[x].state = IF req[r].code = 201 THEN "created" ELSE "refused"
<1>1. Free \in Claimed /\ Free.old = FALSE
  BY DEF Claimed, Free
<1> DEFINE Own == /\ key' \in [Keys -> Claimed]
                  /\ \A y \in Keys \ {x} : key'[y] = key[y]
                  /\ key'[x].old => key[x].old
                  /\ key[x].by # r => key' = key
<1>2. CASE key' = key
  BY <1>2 DEF TypeOK
<1>3. ASSUME key' = Released(r) PROVE Own /\ (key'[x] = key[x] \/ key'[x] = Free)
  BY <1>1, <1>3 DEF TypeOK, Released
<1>4. ASSUME key' = Completed(r)
      PROVE  Own /\ (key' = key \/
               key'[x].state = IF req[r].code = 201 THEN "created" ELSE "refused")
  <2> DEFINE kept == IF req[r].code = 201 THEN "created" ELSE "refused"
             k    == [key[x] EXCEPT !.state = kept]
  <2>1. k \in Claimed /\ k.old = key[x].old /\ k.state = kept
    BY DEF TypeOK, Claimed
  <2>2. key' = IF key[x].by = r THEN [key EXCEPT ![x] = k] ELSE key
    BY <1>4 DEF Completed, TypeOK
  <2> HIDE DEF k
  <2>3. QED
    BY <2>1, <2>2 DEF TypeOK
<1>5. QED
  BY <1>2, <1>3, <1>4

LEMMA KeepInv ==
  ASSUME OncePerKey, NEW r \in Requests, Keep(r)
  PROVE  OncePerKey'
<1> USE ApiAssumption DEF OncePerKey, At, Goto
<1>1. PICK x \in Keys : x = KeyOf(r) /\ req[r].key = {x} /\ InHand(r) /\ req[r] \in Request
  BY KeyIs DEF Keep, InHand, TypeOK
<1>2. /\ UNCHANGED <<token, lock, draft, imported, closed>>
      /\ req[r].step = "keep" /\ req' = [req EXCEPT ![r].step = "answered"]
      /\ faults' \in 0 .. MaxFaults
      /\ \/ key' = key
         \/ key' = Released(r) /\ req[r].code = 500
         \/ key' = Completed(r) /\ req[r].code # 500
  BY DEF Keep, Fault, NoFault, TypeOK
<1> DEFINE q == [req[r] EXCEPT !.step = "answered"]
<1>3. /\ req' = [req EXCEPT ![r] = q]
      /\ q \in Request /\ q.step = "answered" /\ q.key = {x}
  BY <1>1, <1>2 DEF TypeOK, Request
<1> HIDE DEF q
<1>4. /\ key' \in [Keys -> Claimed]
      /\ \A y \in Keys \ {x} : key'[y] = key[y]
      /\ key'[x].old => key[x].old
      /\ key[x].by # r => key' = key
      /\ key' = Released(r) => key'[x] = key[x] \/ key'[x] = Free
      /\ key' = Completed(r) => key' = key \/
           key'[x].state = IF req[r].code = 201 THEN "created" ELSE "refused"
  <2>1. TypeOK /\ x = KeyOf(r) /\ key' \in {key, Released(r), Completed(r)}
    BY <1>1, <1>2
  <2>2. QED
    BY <2>1, OwnKeyOnly
<1>5. TypeOK'
  BY <1>1, <1>2, <1>3, <1>4, AnswersTyped DEF TypeOK
<1>6. LockHeld' /\ TokenCap'
  <2>1. /\ req[r].step \notin {"count", "commit"} /\ q.step \notin {"count", "commit"}
        /\ LockHeld /\ TokenCap /\ UNCHANGED <<token, lock>>
        /\ req \in [Requests -> Request] /\ req' = [req EXCEPT ![r] = q]
    BY <1>2, <1>3 DEF TypeOK
  <2>2. QED
    BY ONLY <2>1, r \in Requests, TokensKept
<1>7. \A p \in Requests : InHand(p)' => p # r /\ InHand(p) /\ req'[p] = req[p] /\ KeyOf(p)' = KeyOf(p)
  BY <1>3 DEF InHand, KeyOf, TypeOK
<1>8. ClaimHeld'
  <2> SUFFICES ASSUME NEW p \in Requests, InHand(p)', KeyOf(p)' \notin closed'
              PROVE  (/\ key[KeyOf(p)].by = p /\ key[KeyOf(p)].state = "running"
                      /\ ~key[KeyOf(p)].old /\ key[KeyOf(p)].body = req[p].body
                      /\ imported[KeyOf(p)] = IF At(p, "keep") /\ req[p].code = 201 THEN 1 ELSE 0)'
    BY <1>2 DEF ClaimHeld
  <2>1. InHand(p) /\ KeyOf(p) \notin closed /\ KeyOf(p) \in Keys /\ p # r
    BY <1>2, <1>7, KeyIs DEF InHand
  <2>2. key'[KeyOf(p)] = key[KeyOf(p)]
    BY <1>4, <2>1 DEF ClaimHeld
  <2>3. QED
    BY <1>2, <1>7, <2>1, <2>2 DEF ClaimHeld
<1>9. KeysTell'
  <2>1. x \notin closed => /\ key[x].state = "running"
                          /\ imported[x] = IF req[r].code = 201 THEN 1 ELSE 0
    BY <1>1, <1>2 DEF ClaimHeld
  <2>2. /\ key'[x].state = "created" => key[x].state = "created" \/ req[r].code = 201
        /\ key'[x].state \in {"free", "refused"} =>
             key[x].state \in {"free", "refused"} \/ req[r].code # 201
    BY <1>2, <1>4 DEF Free
  <2>3. QED
    BY <1>1, <1>2, <1>4, <2>1, <2>2 DEF KeysTell
<1>10. OldIsSettled'
  <2>1. \A p \in Requests : Owns(p)' => Owns(p) /\ req'[p].key = req[p].key
    BY <1>1, <1>3 DEF Owns, InHand, TypeOK
  <2>2. QED
    BY <1>1, <1>4, <2>1 DEF OldIsSettled
<1>11. DraftsCounted'
  <2>1. \A y : Importing(y)' = Importing(y)
    <3>1. /\ req[r].step # "import" /\ q.step # "import" /\ q \in Request
          /\ req \in [Requests -> Request] /\ req' = [req EXCEPT ![r] = q]
      BY <1>2, <1>3 DEF TypeOK
    <3>2. QED
      BY ONLY <3>1, r \in Requests, ImportingSame
  <2>2. QED
    BY <1>2, <2>1 DEF DraftsCounted
<1>12. QED
  BY <1>5, <1>6, <1>8, <1>9, <1>10, <1>11

\* A connection closed early takes its key out of what is promised.
LEMMA CloseInv ==
  ASSUME OncePerKey, NEW r \in Requests, Close(r)
  PROVE  OncePerKey'
<1> USE ApiAssumption DEF OncePerKey, At
<1>1. PICK x \in Keys : x = KeyOf(r)
  BY KeyIs DEF Close
<1>2. /\ UNCHANGED <<token, lock, draft, imported, req>>
      /\ closed' = closed \cup {x} /\ key' = Released(r) /\ faults' \in 0 .. MaxFaults
  BY <1>1 DEF Close, Fault, TypeOK
<1>3. /\ key' \in [Keys -> Claimed]
      /\ \A y \in Keys \ {x} : key'[y] = key[y]
      /\ key'[x].old => key[x].old
  BY <1>1, <1>2, OwnKeyOnly
<1>4. TypeOK'
  BY <1>1, <1>2, <1>3, AnswersTyped DEF TypeOK
<1>5. LockHeld' /\ TokenCap' /\ DraftsCounted'
  BY <1>2 DEF LockHeld, TokenCap, Active, DraftsCounted, Importing
<1>6. ClaimHeld'
  <2>1. \A p \in Requests : InHand(p) => KeyOf(p) \in Keys
    BY KeyIs DEF InHand
  <2>2. \A p \in Requests : InHand(p)' = InHand(p) /\ KeyOf(p)' = KeyOf(p)
    BY <1>2 DEF InHand, KeyOf
  <2>3. QED
    BY <1>2, <1>3, <2>1, <2>2 DEF ClaimHeld
<1>7. KeysTell' /\ OldIsSettled'
  BY <1>2, <1>3 DEF KeysTell, OldIsSettled, InHand, Owns
<1>8. QED
  BY <1>4, <1>5, <1>6, <1>7

-----------------------------------------------------------------------------
(* The process, and the day after.                                         *)

LEMMA DieInv == ASSUME OncePerKey, Die PROVE OncePerKey'
<1> USE ApiAssumption DEF OncePerKey, At, Die
<1>1. \A r \in Requests : req'[r] = Idle
  OBVIOUS
<1>2. Idle \in Request /\ Idle.step = "idle"
  BY DEF Idle, Request
<1>3. TypeOK'
  BY <1>1, <1>2, AnswersTyped DEF TypeOK, Fault
<1>4. LockHeld' /\ TokenCap' /\ ClaimHeld' /\ KeysTell' /\ OldIsSettled'
  BY <1>1, <1>2 DEF LockHeld, TokenCap, Active, ClaimHeld, KeysTell, OldIsSettled, InHand, Owns
<1>5. DraftsCounted'
  <2>1. \A x : Importing(x)' = {}
    BY <1>1, <1>2 DEF Importing
  <2>2. Cardinality({}) = 0 /\ \A x \in Keys : draft'[x] \in Nat
    BY FS_EmptySet DEF TypeOK
  <2>3. \A x \in Keys : draft'[x] >= Cardinality({})
    BY <2>2
  <2>4. QED
    BY <2>1, <2>3 DEF DraftsCounted
<1>6. QED
  BY <1>3, <1>4, <1>5

LEMMA DayInv ==
  ASSUME OncePerKey, NEW x \in Keys, Expire(x) \/ Purge(x)
  PROVE  OncePerKey'
<1> USE ApiAssumption DEF OncePerKey, At
<1>1. UNCHANGED <<token, lock, req, closed, faults>>
  BY DEF Expire, Purge
<1>2. \A r \in Requests : Owns(r) => req[r].key # {x}
  BY DEF Expire, Purge, OldIsSettled
<1> DEFINE k == [key[x] EXCEPT !.old = TRUE]
<1>3. \/ key' = [key EXCEPT ![x] = k] /\ UNCHANGED <<draft, imported>>
      \/ /\ key' = [key EXCEPT ![x] = Free]
         /\ draft' = [draft EXCEPT ![x] = 0] /\ imported' = [imported EXCEPT ![x] = 0]
  BY DEF Expire, Purge, Forgotten
<1>4. /\ k \in Claimed /\ k.state = key[x].state
      /\ Free \in Claimed /\ Free.state = "free" /\ Free.old = FALSE
  BY DEF TypeOK, Claimed, Free
<1> HIDE DEF k
<1>5. TypeOK'
  <2>1. AnswersOK'
    BY AnswersTyped DEF Expire
  <2>2. QED
    BY <1>1, <1>3, <1>4, <2>1 DEF TypeOK
<1>6. LockHeld' /\ TokenCap'
  BY <1>1 DEF LockHeld, TokenCap, Active
<1>7. \A y \in Keys \ {x} : /\ key'[y] = key[y] /\ draft'[y] = draft[y]
                            /\ imported'[y] = imported[y]
  BY <1>3 DEF TypeOK
<1>8. ClaimHeld'
  <2>1. \A p \in Requests : InHand(p) => KeyOf(p) \in Keys \ {x}
    BY <1>2, KeyIs DEF InHand, Owns
  <2>2. \A p \in Requests : InHand(p)' = InHand(p) /\ KeyOf(p)' = KeyOf(p)
    BY <1>1 DEF InHand, KeyOf
  <2>3. QED
    BY <1>1, <1>7, <2>1, <2>2 DEF ClaimHeld
<1>9. KeysTell'
  BY <1>1, <1>3, <1>4, <1>7 DEF KeysTell, TypeOK
<1>10. OldIsSettled'
  BY <1>1, <1>2, <1>7 DEF OldIsSettled, InHand, Owns
<1>11. DraftsCounted'
  <2>1. \A y : Importing(y)' = Importing(y)
    BY <1>1 DEF Importing
  <2>2. Importing(x) = {} /\ Cardinality({}) = 0
    BY <1>2, FS_EmptySet DEF Importing, InHand, Owns
  <2>3. draft'[x] >= Cardinality(Importing(x))
    <3>1. draft'[x] \in Nat
      BY <1>5 DEF TypeOK
    <3>2. QED
      BY <2>2, <3>1
  <2>4. QED
    BY <1>7, <2>1, <2>3 DEF DraftsCounted
<1>12. QED
  BY <1>5, <1>6, <1>8, <1>9, <1>10, <1>11

-----------------------------------------------------------------------------
LEMMA Inductive == OncePerKey /\ [Next]_vars => OncePerKey'
<1> SUFFICES ASSUME OncePerKey, [Next]_vars PROVE OncePerKey'
  OBVIOUS
<1>1. CASE UNCHANGED vars
  <2> USE <1>1 DEF vars, answers, At
  <2>1. TypeOK' /\ LockHeld' /\ TokenCap' /\ KeysTell'
    BY AnswersTyped DEF OncePerKey, TypeOK, LockHeld, TokenCap, Active, KeysTell
  <2>2. ClaimHeld' /\ OldIsSettled' /\ DraftsCounted'
    BY DEF OncePerKey, ClaimHeld, OldIsSettled, DraftsCounted, Importing, InHand, Owns, KeyOf
  <2>3. QED
    BY <2>1, <2>2 DEF OncePerKey
<1>2. ASSUME NEW r \in Requests, LockAccount(r) \/ Step(r) \/ Close(r) PROVE OncePerKey'
  BY <1>2, TokenInv, ReadInv, ClaimInv, WorkInv, KeepInv, CloseInv DEF Step
<1>3. QED
  BY <1>1, <1>2, ReadInv, RevokeInv, DayInv, DieInv DEF Next

\* However calls retry, overlap, fail and die, a creation under one key is
\* stored at most once unless one of its connections closed before the answer,
\* and an account never passes MAX_ACTIVE_TOKENS (routes/v1.ts:43-45,
\* idempotency.ts:45, integrationTokens.ts:107).
THEOREM StoredOnce == Spec => []OncePerKey
BY InitInv, Inductive, PTL DEF Spec

-----------------------------------------------------------------------------
(* Retries: the answer is kept before it leaves.                           *)

\* The key tells a call of this body what this answer says.
Settled(x, b, c) ==
  /\ key[x].body = b
  /\ key[x].state = IF c = 201 THEN "created" ELSE "refused"

\* A call whose connection holds has its key, under which nothing is kept yet ...
HasItsKey ==
  \A r \in Requests : InHand(r) /\ r \notin cut =>
    key[KeyOf(r)].by = r /\ key[KeyOf(r)].body = req[r].body

NothingKeptYet ==
  \A r \in Requests : InHand(r) /\ key[KeyOf(r)].by = r => key[KeyOf(r)].state = "running"

\* ... an answer about to leave is kept, or could not be ...
AnswerHeld ==
  \A r \in Requests :
    At(r, "answered") /\ req[r].code \in {201, 404} /\ r \notin cut =>
      KeyOf(r) \in unkept \/ Settled(KeyOf(r), req[r].body, req[r].code)

\* ... and so is one that left.
ToldHeld ==
  \A x \in Keys \ unkept : told[x] # Untold =>
    told[x].code \in {201, 404} /\ Settled(x, told[x].body, told[x].code)

KeptInv == HasItsKey /\ NothingKeptYet /\ AnswerHeld /\ ToldHeld

LEMMA KeptSuffices == KeptInv => RetryFindsIt
<1> SUFFICES ASSUME KeptInv, NEW x \in Keys \ unkept, told[x] # Untold
             PROVE  Answered(key[x], told[x].body) = told[x].code
  BY DEF RetryFindsIt
<1>1. told[x].code \in {201, 404} /\ Settled(x, told[x].body, told[x].code)
  BY DEF KeptInv, ToldHeld
<1>2. QED
  BY <1>1 DEF Settled, Answered

\* Steps that leave what the keys say, and start no call's work or answer.
LEMMA QuietKept ==
  ASSUME OncePerKey, KeptInv, UNCHANGED <<told, unkept>>,
         \A x \in Keys : /\ key'[x].by = key[x].by /\ key'[x].state = key[x].state
                         /\ key'[x].body = key[x].body,
         \A p \in Requests :
           /\ InHand(p)' => InHand(p) /\ req'[p].key = req[p].key /\ req'[p].body = req[p].body
           /\ At(p, "answered")' => req'[p] = req[p]
           /\ Owns(p)' => (p \in cut => p \in cut')
  PROVE  KeptInv'
<1> USE DEF OncePerKey
<1>1. \A p \in Requests : InHand(p) \/ At(p, "answered") => KeyOf(p) \in Keys
  BY KeyIs DEF InHand, At
<1>2. \A p \in Requests : InHand(p)' \/ At(p, "answered")' => KeyOf(p)' = KeyOf(p) /\ Owns(p)'
  BY DEF KeyOf, Owns
<1>3. HasItsKey'
  BY <1>1, <1>2 DEF KeptInv, HasItsKey
<1>4. NothingKeptYet'
  BY <1>1, <1>2 DEF KeptInv, NothingKeptYet
<1>5. AnswerHeld'
  <2> SUFFICES ASSUME NEW p \in Requests, At(p, "answered")', req'[p].code \in {201, 404},
                      p \notin cut'
               PROVE  KeyOf(p)' \in unkept' \/ Settled(KeyOf(p), req[p].body, req[p].code)'
    BY DEF AnswerHeld
  <2>1. req'[p] = req[p] /\ At(p, "answered") /\ p \notin cut
    BY <1>2 DEF At
  <2>2. KeyOf(p)' = KeyOf(p) /\ KeyOf(p) \in Keys
    BY <1>1, <1>2, <2>1
  <2>3. KeyOf(p) \in unkept \/ Settled(KeyOf(p), req[p].body, req[p].code)
    BY <2>1 DEF KeptInv, AnswerHeld
  <2>4. QED
    BY <2>1, <2>2, <2>3 DEF Settled
<1>6. ToldHeld'
  BY DEF KeptInv, ToldHeld, Settled
<1>7. QED
  BY <1>3, <1>4, <1>5, <1>6 DEF KeptInv

\* A key a day old is nobody's: what it said goes with it.
LEMMA ForgottenKept ==
  ASSUME OncePerKey, KeptInv, NEW x \in Keys, key[x].old, Forgotten(x), UNCHANGED cut,
         \A p \in Requests :
           /\ InHand(p)' => InHand(p) /\ req'[p] = req[p]
           /\ At(p, "answered")' => req'[p] = req[p]
  PROVE  KeptInv'
<1> USE DEF OncePerKey
<1>1. \A p \in Requests : InHand(p) \/ At(p, "answered") => KeyOf(p) \in Keys \ {x}
  BY KeyIs DEF OldIsSettled, Owns, InHand, At
<1>2. \A p \in Requests : InHand(p)' \/ At(p, "answered")' =>
        KeyOf(p)' = KeyOf(p) /\ (At(p, "answered")' => At(p, "answered"))
  BY DEF KeyOf, At
<1>3. /\ \A y \in Keys \ {x} : /\ key'[y] = key[y] /\ told'[y] = told[y]
                               /\ y \in unkept' <=> y \in unkept
      /\ told'[x] = Untold
  BY DEF Forgotten, TypeOK, AnswersOK
<1>4. HasItsKey' /\ NothingKeptYet'
  BY <1>1, <1>2, <1>3 DEF KeptInv, HasItsKey, NothingKeptYet
<1>5. AnswerHeld'
  BY <1>1, <1>2, <1>3 DEF KeptInv, AnswerHeld, Settled
<1>6. ToldHeld'
  BY <1>3 DEF KeptInv, ToldHeld, Settled, Untold
<1>7. QED
  BY <1>4, <1>5, <1>6 DEF KeptInv

\* Only a free key is taken, and nothing was said of it.
LEMMA ClaimKept ==
  ASSUME OncePerKey, KeptInv, NEW r \in Requests, Claim(r), key[KeyOf(r)] = Free
  PROVE  KeptInv'
<1> DEFINE x == KeyOf(r)
<1> USE DEF OncePerKey
<1>1. x \in Keys /\ req[r].step = "insert"
  BY KeyIs DEF Claim, At
<1>2. /\ key' = [key EXCEPT ![x] = Taken(r)] /\ UNCHANGED <<cut, told, unkept>>
      /\ req' = [req EXCEPT ![r].step = "create"]
  BY DEF Claim, Goto, answers
<1>3. \A p \in Requests \ {r} : req'[p] = req[p] /\ KeyOf(p)' = KeyOf(p)
  BY <1>2 DEF KeyOf, TypeOK
<1>4. req'[r].step = "create" /\ KeyOf(r)' = x /\ req'[r].body = req[r].body
  BY <1>2 DEF KeyOf, TypeOK, Request
<1> HIDE DEF x
<1>5. /\ key'[x] = Taken(r) /\ \A y \in Keys \ {x} : key'[y] = key[y]
      /\ key[x] = Free
  BY <1>1, <1>2 DEF TypeOK, x
<1>6. \A p \in Requests : InHand(p) \/ At(p, "answered") => KeyOf(p) \in Keys
  BY KeyIs DEF InHand, At
<1>7. HasItsKey'
  <2>1. \A p \in Requests \ {r} : InHand(p) /\ p \notin cut => KeyOf(p) # x
    BY <1>5, ApiAssumption DEF KeptInv, HasItsKey, Free
  <2>2. QED
    BY <1>2, <1>3, <1>4, <1>5, <1>6, <2>1 DEF KeptInv, HasItsKey, InHand, Taken
<1>8. NothingKeptYet'
  BY <1>2, <1>3, <1>4, <1>5, <1>6 DEF KeptInv, NothingKeptYet, InHand, Taken
<1>9. AnswerHeld'
  <2> SUFFICES ASSUME NEW p \in Requests, At(p, "answered")', req'[p].code \in {201, 404},
                      p \notin cut'
               PROVE  KeyOf(p)' \in unkept' \/ Settled(KeyOf(p), req[p].body, req[p].code)'
    BY DEF AnswerHeld
  <2>1. p # r /\ req'[p] = req[p] /\ KeyOf(p)' = KeyOf(p) /\ At(p, "answered")
    BY <1>3, <1>4 DEF At
  <2>2. KeyOf(p) \in unkept \/ Settled(KeyOf(p), req[p].body, req[p].code)
    BY <1>2, <2>1 DEF KeptInv, AnswerHeld
  <2>3. Settled(KeyOf(p), req[p].body, req[p].code) => KeyOf(p) # x
    BY <1>5 DEF Settled, Free
  <2>4. QED
    BY <1>2, <1>5, <1>6, <2>1, <2>2, <2>3 DEF Settled
<1>10. ToldHeld'
  <2>1. ToldHeld => \A y \in Keys \ unkept : told[y] # Untold => y # x
    BY <1>5 DEF ToldHeld, Settled, Free
  <2>2. QED
    BY <1>2, <1>5, <2>1 DEF KeptInv, ToldHeld, Settled
<1>11. QED
  BY <1>7, <1>8, <1>9, <1>10 DEF KeptInv

\* A call with its key settles it, or the key is one whose keeping failed; a
\* call that lost its key settles nothing.
LEMMA KeepKept ==
  ASSUME OncePerKey, KeptInv, NEW r \in Requests, Keep(r)
  PROVE  KeptInv'
<1> USE DEF OncePerKey
<1>1. PICK x \in Keys : x = KeyOf(r) /\ InHand(r) /\ req[r].step = "keep"
  BY KeyIs DEF Keep, InHand, At
<1>2. /\ UNCHANGED <<cut, told>>
      /\ \/ /\ key' = (IF req[r].code = 500 THEN Released(r) ELSE Completed(r))
            /\ unkept' = unkept
         \/ /\ key' = key
            /\ unkept' = IF key[x].by = r THEN unkept \cup {x} ELSE unkept
  BY <1>1 DEF Keep
<1>3. /\ \A y \in Keys \ {x} : key'[y] = key[y]
      /\ key[x].by # r => key' = key
  <2>1. key' \in {key, Released(r), Completed(r)}
    BY <1>2
  <2>2. QED
    BY <1>1, <2>1, OwnKeyOnly
<1>4. \A p \in Requests : /\ req'[p].key = req[p].key /\ req'[p].code = req[p].code
                          /\ req'[p].body = req[p].body /\ KeyOf(p)' = KeyOf(p)
                          /\ p # r => req'[p] = req[p]
                          /\ req'[r].step = "answered"
  BY DEF Keep, Goto, KeyOf, TypeOK, Request
<1>5. \A p \in Requests : InHand(p) \/ At(p, "answered") => KeyOf(p) \in Keys
  BY KeyIs DEF InHand, At
<1>6. key[x].by = r => key[x].state = "running"
  BY <1>1 DEF KeptInv, NothingKeptYet
<1>7. \A p \in Requests : InHand(p)' => p # r /\ InHand(p)
  BY <1>4 DEF InHand
<1>8. HasItsKey'
  <2>1. \A p \in Requests \ {r} : InHand(p) /\ p \notin cut /\ KeyOf(p) = x => key' = key
    BY <1>3 DEF KeptInv, HasItsKey
  <2>2. QED
    BY <1>2, <1>3, <1>4, <1>5, <1>7, <2>1 DEF KeptInv, HasItsKey
<1>9. NothingKeptYet'
  <2>1. key[x].by = r => key' = key \/ key'[x] = Free \/ key'[x].by = r
    <3>1. x \in DOMAIN key /\ key[x] \in Claimed
      BY DEF TypeOK
    <3>2. QED
      BY <1>1, <1>2, <3>1 DEF Released, Completed, Claimed
  <2>2. QED
    BY <1>3, <1>4, <1>5, <1>7, <2>1, ApiAssumption DEF KeptInv, NothingKeptYet, Free
<1>10. AnswerHeld'
  <2> SUFFICES ASSUME NEW p \in Requests, At(p, "answered")', req'[p].code \in {201, 404},
                      p \notin cut'
               PROVE  KeyOf(p)' \in unkept' \/ Settled(KeyOf(p), req[p].body, req[p].code)'
    BY DEF AnswerHeld
  <2>1. CASE p = r
    <3>1. key[x].by = r /\ key[x].body = req[r].body
      BY <1>1, <1>2, <2>1 DEF KeptInv, HasItsKey
    <3>2. CASE key' = Completed(r)
      <4>1. x \in DOMAIN key /\ key[x] \in Claimed
        BY DEF TypeOK
      <4>2. /\ key'[x].body = key[x].body
            /\ key'[x].state = IF req[r].code = 201 THEN "created" ELSE "refused"
        BY <1>1, <3>1, <3>2, <4>1 DEF Completed, Claimed
      <4>3. QED
        BY <1>1, <1>4, <2>1, <3>1, <4>2 DEF Settled
    <3>3. CASE unkept' = unkept \cup {x}
      BY <1>1, <1>4, <2>1, <3>3
    <3>4. QED
      BY <1>2, <1>4, <2>1, <3>1, <3>2, <3>3
  <2>2. CASE p # r
    <3>1. At(p, "answered") /\ req[p].code \in {201, 404} /\ p \notin cut /\ KeyOf(p) \in Keys
      BY <1>2, <1>4, <1>5, <2>2 DEF At
    <3>2. KeyOf(p) \in unkept \/ Settled(KeyOf(p), req[p].body, req[p].code)
      BY <3>1 DEF KeptInv, AnswerHeld
    <3>3. Settled(KeyOf(p), req[p].body, req[p].code) => key'[KeyOf(p)] = key[KeyOf(p)]
      BY <1>3, <1>6, <3>1 DEF Settled
    <3>4. QED
      BY <1>2, <1>4, <3>2, <3>3 DEF Settled
  <2>3. QED
    BY <2>1, <2>2
<1>11. ToldHeld'
  <2>1. \A y \in Keys : Settled(y, told[y].body, told[y].code) => key'[y] = key[y]
    BY <1>3, <1>6 DEF Settled
  <2>2. \A y \in Keys \ unkept' : y \notin unkept
    BY <1>2
  <2>3. QED
    BY <1>2, <2>1, <2>2 DEF KeptInv, ToldHeld, Settled
<1>12. QED
  BY <1>8, <1>9, <1>10, <1>11 DEF KeptInv

\* The answer that leaves is one that is held.
LEMMA LeaveKept ==
  ASSUME OncePerKey, KeptInv, NEW r \in Requests, Leave(r)
  PROVE  KeptInv'
<1> USE DEF OncePerKey
<1>1. UNCHANGED <<key, unkept>> /\ cut' = cut \ {r} /\ req' = [req EXCEPT ![r] = Idle]
  BY DEF Leave, End
<1>2. \A p \in Requests : /\ p # r => req'[p] = req[p] /\ KeyOf(p)' = KeyOf(p)
                          /\ ~InHand(r)' /\ ~At(r, "answered")'
  BY <1>1 DEF KeyOf, InHand, At, Idle, TypeOK
<1>3. HasItsKey' /\ NothingKeptYet'
  BY <1>1, <1>2 DEF KeptInv, HasItsKey, NothingKeptYet, InHand
<1>4. AnswerHeld'
  BY <1>1, <1>2 DEF KeptInv, AnswerHeld, Settled, At
<1>5. ToldHeld'
  <2>1. CASE told' = told
    BY <1>1, <2>1 DEF KeptInv, ToldHeld, Settled
  <2>2. CASE told' # told
    <3> DEFINE x == KeyOf(r)  b == req[r].body  c == req[r].code
    <3>1. /\ At(r, "answered") /\ c \in {201, 404} /\ r \notin cut
          /\ told' = [told EXCEPT ![x] = [body |-> b, code |-> c]]
      BY <2>2 DEF Leave
    <3>2. x \in Keys
      BY <3>1, KeyIs DEF At
    <3>3. x \in unkept \/ Settled(x, b, c)
      BY <3>1 DEF KeptInv, AnswerHeld
    <3>4. told'[x].body = b /\ told'[x].code = c /\ \A y \in Keys \ {x} : told'[y] = told[y]
      BY <3>1, <3>2 DEF TypeOK, AnswersOK
    <3> HIDE DEF x, b, c
    <3>5. QED
      BY <1>1, <3>1, <3>2, <3>3, <3>4 DEF KeptInv, ToldHeld, Settled
  <2>3. QED
    BY <2>1, <2>2
<1>6. QED
  BY <1>3, <1>4, <1>5 DEF KeptInv

\* A closed connection gives up a key under which nothing is kept.
LEMMA CloseKept ==
  ASSUME OncePerKey, KeptInv, NEW r \in Requests, Close(r)
  PROVE  KeptInv'
<1> USE DEF OncePerKey
<1>1. PICK x \in Keys : x = KeyOf(r) /\ InHand(r) /\ r \notin cut
  BY KeyIs DEF Close, InHand
<1>2. /\ UNCHANGED <<req, told, unkept>> /\ cut' = cut \cup {r}
      /\ key' = Released(r)
  BY DEF Close
<1>3. /\ key[x].by = r /\ key[x].state = "running"
      /\ \A y \in Keys \ {x} : key'[y] = key[y]
      /\ key'[x] = Free
  <2>1. key[x].by = r /\ key[x].state = "running"
    BY <1>1 DEF KeptInv, HasItsKey, NothingKeptYet
  <2>2. QED
    BY <1>1, <1>2, <2>1 DEF Released, TypeOK
<1>4. \A p \in Requests : /\ KeyOf(p)' = KeyOf(p) /\ InHand(p)' = InHand(p)
                          /\ InHand(p) \/ At(p, "answered") => KeyOf(p) \in Keys
  BY <1>2, KeyIs DEF InHand, At, KeyOf
<1>5. HasItsKey'
  <2>1. \A p \in Requests : InHand(p) /\ p \notin cut' => KeyOf(p) # x
    BY <1>2, <1>3 DEF KeptInv, HasItsKey
  <2>2. QED
    BY <1>2, <1>3, <1>4, <2>1 DEF KeptInv, HasItsKey
<1>6. NothingKeptYet'
  BY <1>2, <1>3, <1>4, ApiAssumption DEF KeptInv, NothingKeptYet, Free
<1>7. AnswerHeld'
  <2>1. \A p \in Requests : Settled(KeyOf(p), req[p].body, req[p].code) => KeyOf(p) # x
    BY <1>3 DEF Settled
  <2>2. QED
    BY <1>2, <1>3, <1>4, <2>1 DEF KeptInv, AnswerHeld, Settled, At
<1>8. ToldHeld'
  <2>1. ~Settled(x, told[x].body, told[x].code)
    BY <1>3 DEF Settled
  <2>2. QED
    BY <1>2, <1>3, <2>1 DEF KeptInv, ToldHeld, Settled
<1>9. QED
  BY <1>5, <1>6, <1>7, <1>8 DEF KeptInv

LEMMA KeptStep == OncePerKey /\ KeptInv /\ [Next]_vars => KeptInv'
<1> SUFFICES ASSUME OncePerKey, KeptInv, [Next]_vars PROVE KeptInv'
  OBVIOUS
<1> USE DEF OncePerKey
<1>1. CASE UNCHANGED vars
  BY <1>1, QuietKept DEF vars, InHand, At
<1>2. ASSUME UNCHANGED <<key, cut, told, unkept>>,
             \/ UNCHANGED req
             \/ \E r \in Requests :
                  /\ \A p \in Requests \ {r} : req'[p] = req[p]
                  /\ \/ ~InHand(r)' /\ ~At(r, "answered")'
                     \/ /\ InHand(r) /\ ~At(r, "answered")'
                        /\ req'[r].key = req[r].key /\ req'[r].body = req[r].body
      PROVE  KeptInv'
  BY <1>2, QuietKept DEF InHand, At
<1>3. ASSUME NEW r \in Requests, LockAccount(r) \/ CountTokens(r) \/ CommitToken(r) \/ Look(r)
      PROVE  KeptInv'
  <2>1. \A p \in Requests \ {r} : req'[p] = req[p]
    BY <1>3 DEF LockAccount, CountTokens, CommitToken, Look, Goto, End, TypeOK
  <2>2. ~InHand(r)' /\ ~At(r, "answered")'
    <3>1. req[r] \in Request /\ req \in [Requests -> Request]
      BY DEF TypeOK
    <3>2. ASSUME NEW c, req' = [req EXCEPT ![r] = [@ EXCEPT !.step = "replay", !.code = c]]
          PROVE  req'[r].step = "replay"
      BY <3>1, <3>2 DEF Request
    <3>3. CASE Look(r)
      BY <3>2, <3>3 DEF Look, InHand, At
    <3>4. CASE LockAccount(r) \/ CountTokens(r) \/ CommitToken(r)
      BY <3>1, <3>4 DEF LockAccount, CountTokens, CommitToken, Goto, End, Idle, Request,
                        InHand, At
    <3>5. QED
      BY <1>3, <3>3, <3>4
  <2>3. QED
    BY <1>2, <1>3, <2>1, <2>2 DEF LockAccount, CountTokens, CommitToken, Look, answers
<1>4. ASSUME NEW r \in Requests, Create(r) \/ Import(r) PROVE KeptInv'
  <2>1. /\ UNCHANGED <<key, cut, told, unkept>> /\ InHand(r)
        /\ \/ Goto(r, "import")
           \/ \E c \in {201, 404, 500} :
                req' = [req EXCEPT ![r] = [@ EXCEPT !.step = "keep", !.code = c]]
    BY <1>4 DEF Create, Import, answers, InHand, At
  <2>2. req[r] \in Request /\ req \in [Requests -> Request]
    BY DEF TypeOK
  <2>3. /\ \A p \in Requests \ {r} : req'[p] = req[p]
        /\ req'[r].step # "answered"
        /\ req'[r].key = req[r].key /\ req'[r].body = req[r].body
    <3>1. CASE Goto(r, "import")
      BY <2>2, <3>1 DEF Goto, Request
    <3>2. ASSUME NEW c \in {201, 404, 500},
                 req' = [req EXCEPT ![r] = [@ EXCEPT !.step = "keep", !.code = c]]
          PROVE  /\ \A p \in Requests \ {r} : req'[p] = req[p]
                 /\ req'[r].step = "keep"
                 /\ req'[r].key = req[r].key /\ req'[r].body = req[r].body
      BY <2>2, <3>2 DEF Request
    <3>3. QED
      BY <2>1, <3>1, <3>2
  <2>4. QED
    BY <1>2, <2>1, <2>3 DEF At
<1>5. ASSUME NEW r \in Requests, Forget(r) PROVE KeptInv'
  <2>1. KeyOf(r) \in Keys
    BY <1>5, KeyIs DEF Forget, At
  <2>2. /\ \A p \in Requests \ {r} : req'[p] = req[p]
        /\ ~InHand(r)' /\ ~At(r, "answered")'
    BY <1>5 DEF Forget, Goto, InHand, At, TypeOK, Request
  <2>3. CASE key[KeyOf(r)].old
    <3>1. Forgotten(KeyOf(r)) /\ UNCHANGED cut
      BY <1>5, <2>3 DEF Forget
    <3>2. \A p \in Requests : /\ InHand(p)' => InHand(p) /\ req'[p] = req[p]
                              /\ At(p, "answered")' => req'[p] = req[p]
      BY <2>2 DEF InHand
    <3>3. QED
      BY <2>1, <2>3, <3>1, <3>2, ForgottenKept
  <2>4. CASE ~key[KeyOf(r)].old
    BY <1>2, <1>5, <2>2, <2>4 DEF Forget
  <2>5. QED
    BY <2>3, <2>4
<1>6. ASSUME NEW x \in Keys, Purge(x) PROVE KeptInv'
  <2>1. UNCHANGED <<req, cut>> /\ key[x].old /\ Forgotten(x)
    BY <1>6 DEF Purge
  <2>2. QED
    BY <2>1, ForgottenKept DEF InHand
<1>7. ASSUME NEW r \in Requests, Claim(r) PROVE KeptInv'
  <2>1. CASE key[KeyOf(r)] = Free
    BY <1>7, <2>1, ClaimKept
  <2>2. CASE key[KeyOf(r)] # Free
    <3>1. Goto(r, "look") /\ UNCHANGED <<key, cut, told, unkept>>
      BY <1>7, <2>2 DEF Claim, answers
    <3>2. /\ \A p \in Requests \ {r} : req'[p] = req[p]
          /\ ~InHand(r)' /\ ~At(r, "answered")'
      BY <3>1 DEF Goto, InHand, At, TypeOK, Request
    <3>3. QED
      BY <1>2, <3>1, <3>2
  <2>3. QED
    BY <2>1, <2>2
<1>8. ASSUME NEW r \in Requests, NEW t \in Tokens, NEW x \in Keys, NEW b \in Bodies,
             Authenticate(r, t, x, b)
      PROVE  KeptInv'
  <2>1. /\ \A p \in Requests \ {r} : req'[p] = req[p]
        /\ ~InHand(r)' /\ ~At(r, "answered")'
    BY <1>8 DEF Authenticate, InHand, At, TypeOK
  <2>2. QED
    BY <1>2, <1>8, <2>1 DEF Authenticate, answers
<1>9. ASSUME NEW t \in Tokens, Revoke(t) PROVE KeptInv'
  BY <1>2, <1>9 DEF Revoke, answers
<1>10. ASSUME NEW x \in Keys, Expire(x) PROVE KeptInv'
  <2>1. UNCHANGED <<req, cut, told, unkept>>
    BY <1>10 DEF Expire, answers
  <2>2. \A y \in Keys : /\ key'[y].by = key[y].by /\ key'[y].state = key[y].state
                        /\ key'[y].body = key[y].body
    <3>1. key \in [Keys -> Claimed] /\ key' = [key EXCEPT ![x].old = TRUE]
      BY <1>10 DEF Expire, TypeOK
    <3>2. QED
      BY <3>1 DEF Claimed
  <2>3. QED
    BY <2>1, <2>2, QuietKept DEF InHand, At
<1>11. CASE Die
  <2>1. UNCHANGED <<key, told, unkept>> /\ \A p \in Requests : req'[p] = Idle
    BY <1>11 DEF Die
  <2>2. \A p \in Requests : ~InHand(p)' /\ ~At(p, "answered")'
    BY <2>1 DEF InHand, At, Idle
  <2>3. QED
    BY <2>1, <2>2, QuietKept DEF Owns
<1>12. QED
  BY <1>1, <1>3, <1>4, <1>5, <1>6, <1>7, <1>8, <1>9, <1>10, <1>11,
     KeepKept, LeaveKept, CloseKept DEF Next, Step

\* Whoever makes a call again under its key, with the same body, is given the
\* answer the first was given, for any number of calls, keys, bodies and faults
\* and through deaths, overlaps and connections that close, as long as the key
\* lasts: the outcome is written before the answer leaves (routes/v1.ts:91-108,
\* idempotency.ts:58-95).  Only a key whose keeping itself failed is left out.
THEOREM AnswerIsKept == Spec => []RetryFindsIt
<1>1. Init => KeptInv
  BY DEF Init, Idle, Untold, KeptInv, HasItsKey, NothingKeptYet, AnswerHeld, ToldHeld, InHand, At
<1>2. OncePerKey /\ KeptInv /\ [Next]_vars => (OncePerKey /\ KeptInv)'
  BY Inductive, KeptStep
<1>3. QED
  BY <1>1, <1>2, InitInv, KeptSuffices, PTL DEF Spec
=============================================================================

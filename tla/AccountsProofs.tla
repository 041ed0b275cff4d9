--------------------------- MODULE AccountsProofs ---------------------------
(***************************************************************************)
(* What is proved of an account's tokens, for every number of sign-ins,    *)
(* consents and re-creations: the rotation of the encryption key is safe,  *)
(* nothing but a sign-in replaces the consent stored, and a deletion that  *)
(* says it revoked the application's access did.                           *)
(***************************************************************************)
EXTENDS Accounts, TLAPS

AccountsInv == RotationIsSafe /\ RevokedMeansRevoked

\* What is known of a token, its parts and its seal.
LEMMA TokenParts ==
  /\ NoToken \in Token /\ NoToken.grant = 0 /\ NoToken.under = "none"
  /\ \A t \in Token : t.grant \in Grant /\ t.grant \in Nat /\ (t.grant = 0 <=> t = NoToken)
  /\ \A t \in Token \ {NoToken} : t.under \in Key /\ t.grant \in Grant \ {0}
BY AccountsAssumption DEF Token, NoToken, Grant

LEMMA SealIsToken ==
  ASSUME TypeOK, NEW p \in {"api", "worker"}, NEW g \in Grant \ {0}
  PROVE  /\ Seal(p, g) \in Token \ {NoToken}
         /\ Seal(p, g).grant = g /\ Seal(p, g).under = under[p]
<1>1. [grant |-> g, under |-> under[p]] \in [grant : Grant \ {0}, under : Key]
  BY DEF TypeOK
<1>2. QED
  BY <1>1, AccountsAssumption DEF Seal, Token, NoToken, Grant

LEMMA RotatedIsToken ==
  ASSUME NEW t \in Token
  PROVE  /\ Rotated(t) \in Token /\ Rotated(t).grant = t.grant
         /\ Current(Rotated(t)) /\ (Rotated(t) = NoToken <=> t = NoToken)
<1>1. CASE Current(t)
  BY <1>1 DEF Rotated
<1>2. CASE ~Current(t)
  <2>1. t \in [grant : Grant \ {0}, under : Key] /\ t # NoToken
    BY <1>2 DEF Current, Token
  <2> DEFINE u == [t EXCEPT !.under = "new"]
  <2>2. u \in [grant : Grant \ {0}, under : Key] /\ u.grant = t.grant /\ u.under = "new"
    BY <2>1 DEF Key
  <2>3. Rotated(t) = u
    BY <1>2 DEF Rotated
  <2> HIDE DEF u
  <2>4. u # NoToken
    BY <2>2 DEF NoToken
  <2>5. QED
    BY <2>1, <2>2, <2>3, <2>4 DEF Current, Token
<1>3. QED
  BY <1>1, <1>2

\* The row's parts.
LEMMA UserParts ==
  ASSUME TypeOK
  PROVE  /\ user.id \in Id /\ user.access \in Token /\ user.refresh \in Token
         /\ user.valid \in BOOLEAN /\ NoUser \in User
BY TokenParts, AccountsAssumption DEF TypeOK, User, NoUser, Id

\* The invariant holds at first.
LEMMA InitInv == Init => AccountsInv
<1> SUFFICES ASSUME Init PROVE AccountsInv
  OBVIOUS
<1> USE AccountsAssumption DEF Init, Idle
<1>1. NoUser \in User /\ NoUser.id = 0 /\ NoUser.access = NoToken /\ NoUser.refresh = NoToken
  BY TokenParts DEF User, NoUser, Id
<1>2. TypeOK
  <2>1. user \in User /\ ids \in Id /\ user.id <= ids
    BY <1>1 DEF Id
  <2>2. last \in Grant /\ alive \in SUBSET (1 .. last)
    BY DEF Grant
  <2>3. under \in [{"api", "worker"} -> Key]
    BY DEF Key
  <2>4. session \in Id /\ code \in SUBSET Codes /\ row \in SUBSET Campaigns
        /\ object \in SUBSET Campaigns
    BY DEF Id
  <2>5. QED
    BY <2>1, <2>2, <2>3, <2>4 DEF TypeOK
<1>3. NothingOld
  BY DEF NothingOld
<1>4. RevokedMeansRevoked
  BY <1>1, TokenParts DEF RevokedMeansRevoked, ConsentsKnown, Unbroken, Given, Deciding
<1>5. QED
  BY <1>2, <1>3, <1>4 DEF AccountsInv, RotationIsSafe

-----------------------------------------------------------------------------
(* Signing in.                                                             *)

LEMMA ConsentInv ==
  ASSUME AccountsInv, NEW s \in SignIns, Consent(s)
  PROVE  AccountsInv'
<1> USE AccountsAssumption DEF AccountsInv, RotationIsSafe, RevokedMeansRevoked, ConsentsKnown
<1>1. /\ last \in Nat /\ last' = last + 1 /\ last' \in Grant \ {0} /\ alive' = alive \cup {last'}
      /\ UNCHANGED <<user, ids, under, retired, rotation, clean, renewal, deletion,
                     session, code, row, object>>
      /\ report' = "none"
  BY DEF Consent, TypeOK, Grant, keys, rest
<1>2. PICK r \in Token :
        /\ r # NoToken => r = Seal("api", last')
        /\ signIn' = [signIn EXCEPT ![s] =
             [step |-> "upsert", access |-> Seal("api", last'), refresh |-> r]]
  BY <1>1, SealIsToken, TokenParts DEF Consent
<1>3. /\ Seal("api", last') \in Token \ {NoToken} /\ Seal("api", last').grant = last'
      /\ Seal("api", last').under = under["api"]
  BY <1>1, SealIsToken
<1> DEFINE q == [step |-> "upsert", access |-> Seal("api", last'), refresh |-> r]
<1>4. /\ signIn' = [signIn EXCEPT ![s] = q]
      /\ q \in [step : {"upsert"}, access : Token \ {NoToken}, refresh : Token]
      /\ q.access = Seal("api", last') /\ q.refresh = r
  BY <1>2, <1>3
<1> HIDE DEF q
<1>5. TypeOK'
  <2>1. alive' \in SUBSET (1 .. last')
    BY <1>1 DEF TypeOK
  <2>2. last' \in Grant
    BY <1>1
  <2>3. QED
    BY <1>1, <1>4, <2>1, <2>2 DEF TypeOK
<1>6. NothingOld'
  <2>1. under["api"] = "new" => Current(q.access) /\ Current(q.refresh)
    BY <1>2, <1>3, <1>4 DEF Current
  <2>2. QED
    BY <1>1, <1>4, <2>1 DEF NothingOld, Deployed, TypeOK, ReportsNothing, Current
<1>7. Unbroken' /\ Given' /\ Deciding'
  <2>1. \A t \in Token : t.grant <= last => t.grant <= last'
    BY <1>1, TokenParts
  <2>2. q.access.grant <= last' /\ q.refresh.grant <= last'
    BY <1>1, <1>2, <1>3, <1>4, TokenParts
  <2>3. Unbroken'
    BY <1>1 DEF Unbroken
  <2>4. Given'
    <3>1. user'.access.grant <= last' /\ user'.refresh.grant <= last'
      BY <1>1, <2>1, UserParts DEF Given
    <3>2. \A p \in SignIns : signIn'[p] # Idle => signIn'[p].access.grant <= last'
                                                 /\ signIn'[p].refresh.grant <= last'
      BY <1>4, <2>1, <2>2 DEF Given, TypeOK, Idle
    <3>3. renewal' # Idle => IF renewal'.step = "ask" THEN renewal'.grant <= last'
                            ELSE renewal'.token.grant <= last'
      BY <1>1, <2>1 DEF Given, TypeOK, Grant
    <3>4. QED
      BY <3>1, <3>2, <3>3 DEF Given
  <2>5. Deciding'
    BY <1>1 DEF Deciding, TypeOK, Grant
  <2>6. QED
    BY <2>3, <2>4, <2>5
<1>8. QED
  BY <1>1, <1>5, <1>6, <1>7

LEMMA SignInFailsInv ==
  ASSUME AccountsInv, NEW s \in SignIns, SignInFails(s)
  PROVE  AccountsInv'
<1> USE DEF AccountsInv, RotationIsSafe, RevokedMeansRevoked, ConsentsKnown
<1>1. /\ signIn' = [signIn EXCEPT ![s] = Idle]
      /\ UNCHANGED <<user, ids, last, alive, under, retired, rotation, clean, renewal,
                     deletion, report, session, code, row, object>>
  BY DEF SignInFails, google, keys, rest
<1>2. \A p \in SignIns : signIn'[p] # Idle => signIn[p] # Idle /\ signIn'[p] = signIn[p]
  BY <1>1 DEF TypeOK
<1>3. TypeOK'
  BY <1>1 DEF TypeOK
<1>4. NothingOld'
  BY <1>1, <1>2 DEF NothingOld, Deployed, ReportsNothing, Current
<1>5. Unbroken' /\ Given' /\ Deciding'
  BY <1>1, <1>2 DEF Unbroken, Given, Deciding
<1>6. QED
  BY <1>1, <1>3, <1>4, <1>5

\* What a statement that stores a row leaves: its tokens are those given or
\* those that were there.
LEMMA StoreInv ==
  ASSUME AccountsInv, NEW a \in Token, NEW r \in Token, NEW v \in BOOLEAN,
         Store(Row(a, r, v)), a.grant <= last, r.grant <= last,
         under["api"] = "new" => Current(a) /\ Current(r),
         signIn' \in [SignIns -> {Idle} \cup
           [step : {"upsert"}, access : Token \ {NoToken}, refresh : Token]],
         \A p \in SignIns : signIn'[p] # Idle => signIn'[p] = signIn[p],
         UNCHANGED <<google, keys, renewal, deletion, report, code, row, object>>
  PROVE  AccountsInv' /\ (user'.refresh.grant = r.grant \/ user'.id # user.id
                          \/ user'.refresh.grant = user.refresh.grant)
<1> USE AccountsAssumption DEF AccountsInv, RotationIsSafe, RevokedMeansRevoked,
                               ConsentsKnown
<1>1. /\ user' = Row(a, r, v) /\ ids' \in Id /\ session' = user'.id
      /\ ids' = IF user.id = 0 THEN ids + 1 ELSE ids
      /\ UNCHANGED <<last, alive, under, retired, rotation, clean, renewal, deletion,
                     report, code, row, object>>
  BY UserParts DEF Store, Id, TypeOK, google, keys
<1>2. /\ user' \in User /\ user'.id \in Id /\ user'.id <= ids'
      /\ user'.access = a \/ user'.access = user.access
      /\ user'.refresh = r \/ (user'.refresh = user.refresh /\ r = NoToken)
           \/ user'.refresh = user.refresh
  <2>1. CASE user.id = 0
    <3>1. user' = [id |-> ids + 1, access |-> a, refresh |-> r, valid |-> v]
      BY <1>1, <2>1 DEF Row
    <3>2. ids' = ids + 1 /\ ids' \in Id
      BY <1>1, <2>1
    <3>3. QED
      BY <3>1, <3>2 DEF User, Id
  <2>2. CASE user.id # 0
    <3>1. user' = [user EXCEPT !.access  = IF a = NoToken THEN user.access ELSE a,
                               !.refresh = IF r = NoToken THEN user.refresh ELSE r,
                               !.valid   = user.valid \/ v]
      BY <1>1, <2>2 DEF Row
    <3>2. /\ user'.id = user.id
          /\ user'.access = IF a = NoToken THEN user.access ELSE a
          /\ user'.refresh = IF r = NoToken THEN user.refresh ELSE r
          /\ user' \in User
      BY <3>1 DEF TypeOK, User
    <3>3. ids' = ids /\ user.id <= ids
      BY <1>1, <2>2 DEF TypeOK
    <3>4. QED
      BY <3>2, <3>3, UserParts
  <2>3. QED
    BY <2>1, <2>2
<1>3. TypeOK'
  BY <1>1, <1>2 DEF TypeOK
<1>4. NothingOld'
  <2>1. Current(user.access) /\ Current(user.refresh)
        /\ (under["api"] = "new") => Current(user'.access) /\ Current(user'.refresh)
    BY <1>2
  <2>2. rotation # Idle \/ clean \/ retired => under["api"] = "new"
    BY DEF NothingOld, Deployed, TypeOK
  <2>3. QED
    BY <1>1, <2>1, <2>2 DEF NothingOld, Deployed, ReportsNothing, Current
<1>5. Unbroken' /\ Given' /\ Deciding'
  BY <1>1, <1>2 DEF Unbroken, Given, Deciding
<1>6. QED
  BY <1>1, <1>2, <1>3, <1>4, <1>5

LEMMA UpsertInv ==
  ASSUME AccountsInv, NEW s \in SignIns, Upsert(s)
  PROVE  AccountsInv' /\ ReplacedBySignIn
<1> USE DEF AccountsInv, RotationIsSafe, RevokedMeansRevoked, ConsentsKnown
<1> DEFINE a == signIn[s].access
           r == signIn[s].refresh
<1>1. /\ signIn[s] # Idle /\ a \in Token /\ r \in Token
      /\ Store(Row(a, r, TRUE)) /\ signIn' = [signIn EXCEPT ![s] = Idle]
      /\ UNCHANGED <<google, keys, renewal, deletion, report, code, row, object>>
  BY DEF Upsert, TypeOK
<1>2. a.grant <= last /\ r.grant <= last
  BY <1>1 DEF Given
<1>3. under["api"] = "new" => Current(a) /\ Current(r)
  BY <1>1 DEF NothingOld
<1>4. signIn' \in [SignIns -> {Idle} \cup
           [step : {"upsert"}, access : Token \ {NoToken}, refresh : Token]]
      /\ \A p \in SignIns : signIn'[p] # Idle => signIn'[p] = signIn[p]
      /\ signIn'[s] = Idle
  BY <1>1 DEF TypeOK
<1> HIDE DEF a, r
<1>5. AccountsInv' /\ (user'.refresh.grant = r.grant \/ user'.id # user.id
                       \/ user'.refresh.grant = user.refresh.grant)
  BY <1>1, <1>2, <1>3, <1>4, StoreInv
<1>6. QED
  BY <1>1, <1>4, <1>5 DEF ReplacedBySignIn, r

LEMMA PartnerSignInInv ==
  ASSUME AccountsInv, PartnerSignIn
  PROVE  AccountsInv' /\ ReplacedBySignIn
<1> USE DEF AccountsInv, RotationIsSafe, RevokedMeansRevoked, ConsentsKnown
<1>1. /\ Store(Row(NoToken, NoToken, FALSE)) /\ UNCHANGED signIn
      /\ UNCHANGED <<google, keys, renewal, deletion, report, code, row, object>>
  BY DEF PartnerSignIn, requests
<1>2. NoToken \in Token /\ NoToken.grant <= last /\ Current(NoToken)
  BY TokenParts, AccountsAssumption DEF TypeOK, Grant, Current
<1>3. AccountsInv'
  <2>1. signIn' \in [SignIns -> {Idle} \cup
           [step : {"upsert"}, access : Token \ {NoToken}, refresh : Token]]
    BY <1>1 DEF TypeOK
  <2>2. \A p \in SignIns : signIn'[p] # Idle => signIn'[p] = signIn[p]
    BY <1>1
  <2>3. QED
    BY <1>1, <1>2, <2>1, <2>2, StoreInv
<1>4. user'.id = user.id => user'.refresh.grant = user.refresh.grant
  BY <1>1, AccountsAssumption DEF Store, Row, TypeOK, User, Id
<1>5. QED
  BY <1>3, <1>4 DEF ReplacedBySignIn

\* Steps that touch neither a token nor a consent.
LEMMA AsideInv ==
  ASSUME AccountsInv, UNCHANGED <<user, ids, google, keys, requests>>,
         session' \in Id, code' \in SUBSET Codes,
         row' \in SUBSET Campaigns, object' \in SUBSET Campaigns
  PROVE  AccountsInv'
<1> USE DEF AccountsInv, RotationIsSafe, RevokedMeansRevoked, ConsentsKnown, google,
            keys, requests
<1>1. TypeOK'
  BY DEF TypeOK
<1>2. NothingOld'
  BY DEF NothingOld, Deployed, ReportsNothing, Current
<1>3. Unbroken' /\ Given' /\ Deciding'
  BY DEF Unbroken, Given, Deciding
<1>4. QED
  BY <1>1, <1>2, <1>3

LEMMA SessionInv ==
  ASSUME AccountsInv,
         \/ SignOut
         \/ \E c \in Codes : IssueCode(c) \/ BurnCode(c)
         \/ \E k \in Campaigns : CreateCampaign(k) \/ DeleteCampaign(k)
  PROVE  AccountsInv' /\ UNCHANGED user
<1>1. /\ session \in Id /\ 0 \in Id /\ code \in SUBSET Codes
      /\ row \in SUBSET Campaigns /\ object \in SUBSET Campaigns
  BY AccountsAssumption DEF AccountsInv, RotationIsSafe, TypeOK, Id
<1>2. CASE SignOut
  BY <1>1, <1>2, AsideInv DEF SignOut
<1>3. CASE \E c \in Codes : IssueCode(c) \/ BurnCode(c)
  BY <1>1, <1>3, AsideInv DEF IssueCode, BurnCode
<1>4. CASE \E k \in Campaigns : CreateCampaign(k) \/ DeleteCampaign(k)
  BY <1>1, <1>4, AsideInv DEF CreateCampaign, DeleteCampaign
<1>5. QED
  BY <1>2, <1>3, <1>4

-----------------------------------------------------------------------------
(* The worker's access token.                                              *)

LEMMA AccessExpiresInv ==
  ASSUME AccountsInv, AccessExpires
  PROVE  AccountsInv' /\ ReplacedBySignIn
<1> USE DEF AccountsInv, RotationIsSafe, RevokedMeansRevoked, ConsentsKnown
<1>1. /\ user' = [user EXCEPT !.valid = FALSE]
      /\ UNCHANGED <<ids, last, alive, under, retired, rotation, clean, signIn, renewal,
                     deletion, report, session, code, row, object>>
  BY DEF AccessExpires, google, keys, requests, rest
<1>2. /\ user' \in User /\ user'.id = user.id /\ user'.access = user.access
      /\ user'.refresh = user.refresh
  BY <1>1 DEF TypeOK, User
<1>3. TypeOK'
  BY <1>1, <1>2 DEF TypeOK
<1>4. NothingOld'
  BY <1>1, <1>2 DEF NothingOld, Deployed, ReportsNothing, Current
<1>5. Unbroken' /\ Given' /\ Deciding'
  BY <1>1, <1>2 DEF Unbroken, Given, Deciding
<1>6. QED
  BY <1>1, <1>2, <1>3, <1>4, <1>5 DEF ReplacedBySignIn

\* A renewal that starts, goes on or ends, and writes nothing.
LEMMA RenewalInv ==
  ASSUME AccountsInv,
         UNCHANGED <<user, ids, google, keys, signIn, deletion, report, rest>>,
         renewal' \in {Idle} \cup [step : {"ask"}, id : Id, grant : Grant \ {0}]
           \cup [step : {"save"}, id : Id, token : Token \ {NoToken}],
         renewal' # Idle => IF renewal'.step = "ask" THEN renewal'.grant <= last
                            ELSE /\ renewal'.token.grant <= last
                                 /\ under["worker"] = "new" => Current(renewal'.token)
  PROVE  AccountsInv'
<1> USE DEF AccountsInv, RotationIsSafe, RevokedMeansRevoked, ConsentsKnown, google,
            keys, rest
<1>1. TypeOK'
  BY DEF TypeOK
<1>2. NothingOld'
  BY DEF NothingOld, Deployed, ReportsNothing, Current
<1>3. Unbroken' /\ Given' /\ Deciding'
  BY DEF Unbroken, Given, Deciding
<1>4. QED
  BY <1>1, <1>2, <1>3

LEMMA RenewReadInv ==
  ASSUME AccountsInv, RenewRead
  PROVE  AccountsInv'
<1> USE DEF AccountsInv, RotationIsSafe, RevokedMeansRevoked, ConsentsKnown
<1>1. user.refresh # NoToken /\ user.refresh.grant \in Grant \ {0}
      /\ user.refresh.grant <= last /\ user.id \in Id
  BY UserParts, TokenParts DEF RenewRead, Opens, Given
<1>2. renewal' = [step |-> "ask", id |-> user.id, grant |-> user.refresh.grant]
  BY DEF RenewRead
<1>3. renewal' \in [step : {"ask"}, id : Id, grant : Grant \ {0}]
      /\ renewal'.step = "ask" /\ renewal'.grant <= last
  BY <1>1, <1>2
<1>4. QED
  BY <1>3, RenewalInv DEF RenewRead

LEMMA RenewAskInv ==
  ASSUME AccountsInv, RenewAsk
  PROVE  AccountsInv'
<1> USE DEF AccountsInv, RotationIsSafe, RevokedMeansRevoked, ConsentsKnown
<1>1. CASE renewal' = Idle
  BY <1>1, RenewalInv DEF RenewAsk
<1>2. CASE renewal' # Idle
  <2>1. renewal' = [step |-> "save", id |-> renewal.id,
                    token |-> Seal("worker", renewal.grant)]
    BY <1>2 DEF RenewAsk
  <2>2. renewal.id \in Id /\ renewal.grant \in Grant \ {0} /\ renewal.grant <= last
    BY DEF RenewAsk, TypeOK, Given, Idle
  <2>3. /\ Seal("worker", renewal.grant) \in Token \ {NoToken}
        /\ Seal("worker", renewal.grant).grant = renewal.grant
        /\ Seal("worker", renewal.grant).under = under["worker"]
    BY <2>2, SealIsToken
  <2>4. /\ renewal' \in [step : {"save"}, id : Id, token : Token \ {NoToken}]
        /\ renewal'.step = "save" /\ renewal'.token.grant <= last
        /\ under["worker"] = "new" => Current(renewal'.token)
    BY <2>1, <2>2, <2>3 DEF Current
  <2>5. QED
    BY <2>4, RenewalInv DEF RenewAsk
<1>3. QED
  BY <1>1, <1>2

LEMMA RenewSaveInv ==
  ASSUME AccountsInv, RenewSave
  PROVE  AccountsInv' /\ ReplacedBySignIn
<1> USE DEF AccountsInv, RotationIsSafe, RevokedMeansRevoked, ConsentsKnown
<1>1. /\ UNCHANGED <<ids, last, alive, under, retired, rotation, clean, signIn,
                     deletion, report, session, code, row, object>>
      /\ renewal' = Idle
  BY DEF RenewSave, google, keys, rest
<1>2. /\ renewal.token \in Token \ {NoToken} /\ renewal.token.grant <= last
      /\ under["worker"] = "new" => Current(renewal.token)
  BY DEF RenewSave, TypeOK, Given, NothingOld, Idle
<1>3. /\ user' \in User /\ user'.id = user.id /\ user'.refresh = user.refresh
      /\ user'.access = user.access \/ user'.access = renewal.token
  BY <1>2 DEF RenewSave, TypeOK, User
<1>4. TypeOK'
  BY <1>1, <1>3 DEF TypeOK
<1>5. NothingOld'
  <2>1. rotation # Idle \/ clean \/ retired => under["worker"] = "new"
    BY DEF NothingOld, Deployed, TypeOK
  <2>2. QED
    BY <1>1, <1>2, <1>3, <2>1 DEF NothingOld, Deployed, ReportsNothing, Current
<1>6. Unbroken' /\ Given' /\ Deciding'
  BY <1>1, <1>2, <1>3 DEF Unbroken, Given, Deciding
<1>7. QED
  BY <1>1, <1>3, <1>4, <1>5, <1>6 DEF ReplacedBySignIn

LEMMA RevokeAtGoogleInv ==
  ASSUME AccountsInv, RevokeAtGoogle
  PROVE  AccountsInv'
<1> USE DEF AccountsInv, RotationIsSafe, RevokedMeansRevoked, ConsentsKnown
<1>1. /\ alive' = {}
      /\ UNCHANGED <<user, ids, last, under, retired, rotation, clean, signIn, renewal,
                     deletion, report, session, code, row, object>>
  BY DEF RevokeAtGoogle, keys, requests, rest
<1>2. TypeOK'
  BY <1>1 DEF TypeOK
<1>3. NothingOld'
  BY <1>1 DEF NothingOld, Deployed, ReportsNothing, Current
<1>4. Unbroken' /\ Given' /\ Deciding'
  BY <1>1 DEF Unbroken, Given, Deciding
<1>5. QED
  BY <1>1, <1>2, <1>3, <1>4

-----------------------------------------------------------------------------
(* Rotating the encryption key.                                            *)

\* What a process that restarts leaves, with its new key or not.
LEMMA DropInv ==
  ASSUME AccountsInv, NEW p \in {"api", "worker"}, Drop(p),
         \/ UNCHANGED under
         \/ under[p] = "old" /\ under' = [under EXCEPT ![p] = "new"],
         UNCHANGED <<user, ids, google, retired, rotation, clean, report, rest>>
  PROVE  AccountsInv'
<1> USE DEF AccountsInv, RotationIsSafe, RevokedMeansRevoked, ConsentsKnown, google, rest
<1>1. /\ \A s \in SignIns : signIn'[s] # Idle => signIn'[s] = signIn[s]
      /\ signIn' \in [SignIns -> {Idle} \cup
           [step : {"upsert"}, access : Token \ {NoToken}, refresh : Token]]
      /\ deletion' # Idle => deletion' = deletion
      /\ renewal' # Idle => renewal' = renewal
      /\ IF p = "api" THEN \A s \in SignIns : signIn'[s] = Idle ELSE renewal' = Idle
  BY DEF Drop, TypeOK
<1>2. /\ under' \in [{"api", "worker"} -> Key]
      /\ under'["api"] = "new" => p = "api" \/ under["api"] = "new"
      /\ under'["worker"] = "new" => p = "worker" \/ under["worker"] = "new"
      /\ under["api"] = "new" => under'["api"] = "new"
      /\ under["worker"] = "new" => under'["worker"] = "new"
  BY DEF TypeOK, Key
<1>3. TypeOK'
  BY <1>1, <1>2 DEF TypeOK
<1>4. NothingOld'
  <2>1. Deployed => Deployed'
    BY <1>2 DEF Deployed, TypeOK
  <2>2. QED
    BY <1>1, <1>2, <2>1 DEF NothingOld, ReportsNothing, Current
<1>5. Unbroken' /\ Given' /\ Deciding'
  BY <1>1 DEF Unbroken, Given, Deciding
<1>6. QED
  BY <1>3, <1>4, <1>5

LEMMA RedeployInv ==
  ASSUME AccountsInv, NEW p \in DOMAIN under, Redeploy(p) \/ Restart(p)
  PROVE  AccountsInv'
<1>1. p \in {"api", "worker"}
  BY DEF AccountsInv, RotationIsSafe, TypeOK
<1>2. QED
  BY <1>1, DropInv DEF Redeploy, Restart, keys

LEMMA RotateReadInv ==
  ASSUME AccountsInv, RotateRead
  PROVE  AccountsInv'
<1> USE DEF AccountsInv, RotationIsSafe, RevokedMeansRevoked, ConsentsKnown
<1>1. /\ Deployed /\ ~retired /\ clean' = FALSE
      /\ UNCHANGED <<user, ids, last, alive, under, retired, signIn, renewal, deletion,
                     report, session, code, row, object>>
  BY DEF RotateRead, Deployed, google, requests, rest
<1>2. /\ rotation' = [step |-> "update", id |-> user.id, access |-> user.access,
                      refresh |-> user.refresh]
      /\ rotation' \in [step : {"update"}, id : Id, access : Token, refresh : Token]
      /\ rotation'.access = user.access /\ rotation'.refresh = user.refresh
  BY UserParts DEF RotateRead
<1>3. TypeOK'
  BY <1>1, <1>2 DEF TypeOK
<1>4. NothingOld'
  BY <1>1, <1>2 DEF NothingOld, Deployed, ReportsNothing, Current
<1>5. Unbroken' /\ Given' /\ Deciding'
  BY <1>1 DEF Unbroken, Given, Deciding
<1>6. QED
  BY <1>1, <1>3, <1>4, <1>5

\* What the script writes is the row it read, under the new key.
LEMMA RotateUpdateInv ==
  ASSUME AccountsInv, RotateUpdate
  PROVE  AccountsInv' /\ ReplacedBySignIn
<1> USE DEF AccountsInv, RotationIsSafe, RevokedMeansRevoked, ConsentsKnown
<1>1. /\ rotation # Idle /\ rotation' = Idle /\ clean' = ReportsNothing
      /\ UNCHANGED <<ids, last, alive, under, retired, signIn, renewal, deletion,
                     report, session, code, row, object>>
  BY DEF RotateUpdate, google, requests, rest
<1>2. /\ user' \in User /\ user'.id = user.id
      /\ user'.access = user.access \/ user'.access = Rotated(user.access)
      /\ user'.refresh = user.refresh \/ user'.refresh = Rotated(user.refresh)
  <2>1. CASE Matches
    <3>1. user' = [user EXCEPT !.access = Rotated(user.access),
                               !.refresh = Rotated(user.refresh)]
      BY <2>1 DEF RotateUpdate, Rewrite, Matches
    <3>2. Rotated(user.access) \in Token /\ Rotated(user.refresh) \in Token
      BY UserParts, RotatedIsToken
    <3>3. QED
      BY <3>1, <3>2 DEF TypeOK, User
  <2>2. CASE ~Matches
    BY <2>2 DEF RotateUpdate, Rewrite, TypeOK
  <2>3. QED
    BY <2>1, <2>2
<1>3. /\ user'.access.grant = user.access.grant /\ user'.refresh.grant = user.refresh.grant
      /\ Current(user.access) => Current(user'.access)
      /\ Current(user.refresh) => Current(user'.refresh)
  BY <1>2, UserParts, RotatedIsToken
<1>4. TypeOK'
  BY <1>1, <1>2 DEF TypeOK, ReportsNothing, Current
<1>5. NothingOld'
  <2>1. Deployed /\ Deployed'
    BY <1>1 DEF NothingOld, Deployed
  <2>2. clean' \/ retired' => Current(user.access) /\ Current(user.refresh)
    BY <1>1 DEF NothingOld
  <2>3. \A t : Current(t) <=> Current(t)'
    BY DEF Current
  <2>4. QED
    BY <1>1, <1>3, <2>1, <2>2 DEF NothingOld, Current
<1>6. Unbroken' /\ Given' /\ Deciding'
  BY <1>1, <1>3 DEF Unbroken, Given, Deciding
<1>7. QED
  BY <1>1, <1>3, <1>4, <1>5, <1>6 DEF ReplacedBySignIn

LEMMA RetireInv ==
  ASSUME AccountsInv, Retire
  PROVE  AccountsInv'
<1> USE DEF AccountsInv, RotationIsSafe, RevokedMeansRevoked, ConsentsKnown
<1>1. /\ clean /\ retired' = TRUE
      /\ signIn' = [s \in SignIns |-> Idle] /\ deletion' = Idle /\ renewal' = Idle
      /\ UNCHANGED <<user, ids, last, alive, under, rotation, clean, report, session,
                     code, row, object>>
  BY DEF Retire, google, rest
<1>2. TypeOK'
  BY <1>1 DEF TypeOK
<1>3. NothingOld'
  BY <1>1 DEF NothingOld, Deployed, ReportsNothing, Current
<1>4. Unbroken' /\ Given' /\ Deciding'
  BY <1>1 DEF Unbroken, Given, Deciding
<1>5. QED
  BY <1>1, <1>2, <1>3, <1>4

-----------------------------------------------------------------------------
(* Deleting the account.                                                   *)

Deletions == [step : {"revoke", "row", "purge"}, id : Id, bundle : Token,
              sent : {"refresh", "access", "expired"}, newest : Grant, stale : BOOLEAN,
              listed : SUBSET Campaigns, revoked : BOOLEAN]

\* When the newest consent was read and no dead refresh token hides it, the
\* token to be revoked is one Google honours, or none is.
LEMMA BundleDecides ==
  ASSUME AccountsInv, Newest = last, last > 0, ~Stale
  PROVE  Bundle # NoToken /\ (alive = {} \/ Bundle.grant \in alive)
<1> USE DEF AccountsInv, RotationIsSafe, RevokedMeansRevoked, ConsentsKnown
<1>1. /\ user.access \in Token /\ user.refresh \in Token /\ last \in Nat
      /\ user.access.grant \in Nat /\ user.refresh.grant \in Nat
      /\ user.access.grant <= last /\ user.refresh.grant <= last
  BY UserParts, TokenParts, AccountsAssumption DEF Given, TypeOK, Grant
<1>2. CASE user.refresh = NoToken
  <2>1. Bundle = user.access /\ user.access.grant = last
    BY <1>1, <1>2, TokenParts DEF Bundle, Newest
  <2>2. QED
    BY <1>1, <2>1, TokenParts DEF Unbroken
<1>3. CASE user.refresh # NoToken
  <2>1. Bundle = user.refresh
    BY <1>3 DEF Bundle
  <2>2. user.refresh.grant \in alive \/ user.refresh.grant = last
    BY <1>1, <1>3 DEF Stale, Newest
  <2>3. QED
    BY <1>3, <2>1, <2>2 DEF Unbroken
<1>4. QED
  BY <1>2, <1>3

LEMMA DeleteReadInv ==
  ASSUME AccountsInv, DeleteRead
  PROVE  AccountsInv'
<1> USE DEF AccountsInv, RotationIsSafe, RevokedMeansRevoked, ConsentsKnown
<1>1. UNCHANGED <<user, ids, last, alive, under, retired, rotation, clean, signIn, renewal,
                  report, session, code, row, object>>
  BY DEF DeleteRead, google, keys, rest
<1>2. Bundle \in Token /\ Newest \in Grant /\ Newest <= last /\ Stale \in BOOLEAN
      /\ Sent \in {"refresh", "access", "expired"}
  BY UserParts, TokenParts DEF Bundle, Newest, Given, Stale, Sent
<1> DEFINE d == [step |-> "revoke", id |-> user.id, bundle |-> Bundle, sent |-> Sent,
                 newest |-> Newest, stale |-> Stale, listed |-> row, revoked |-> FALSE]
<1>3. deletion' = d /\ d \in Deletions /\ user.id # 0
  BY <1>2, UserParts DEF DeleteRead, SignedIn, TypeOK, Deletions
<1>4. /\ deletion'.id = user.id /\ deletion'.newest = Newest /\ deletion'.stale = Stale
      /\ deletion'.bundle = Bundle /\ ~deletion'.revoked
  BY <1>3
<1> HIDE DEF d
<1>5. TypeOK'
  BY <1>1, <1>3 DEF TypeOK, Deletions
<1>6. NothingOld'
  BY <1>1 DEF NothingOld, Deployed, ReportsNothing, Current
<1>7. Deciding'
  BY <1>1, <1>2, <1>3, <1>4, BundleDecides DEF Deciding
<1>8. Unbroken' /\ Given'
  BY <1>1 DEF Unbroken, Given
<1>9. QED
  BY <1>1, <1>5, <1>6, <1>7, <1>8

LEMMA DeleteRevokeInv ==
  ASSUME AccountsInv, DeleteRevoke
  PROVE  AccountsInv'
<1> USE DEF AccountsInv, RotationIsSafe, RevokedMeansRevoked, ConsentsKnown
<1>1. /\ deletion # Idle /\ deletion.step = "revoke" /\ deletion \in Deletions
      /\ UNCHANGED <<user, ids, last, under, retired, rotation, clean, signIn, renewal,
                     report, session, code, row, object>>
  BY DEF DeleteRevoke, keys, rest, TypeOK, Deletions
<1>2. /\ deletion' \in Deletions /\ deletion'.step = "row" /\ deletion'.id = deletion.id
      /\ deletion'.newest = deletion.newest /\ deletion'.stale = deletion.stale
      /\ \/ /\ deletion'.revoked = deletion.revoked /\ deletion'.sent = deletion.sent
            /\ UNCHANGED alive
         \/ deletion.bundle = NoToken /\ UNCHANGED alive
         \/ alive' = Revoked(deletion.bundle.grant)
         \/ deletion'.sent = "expired" /\ UNCHANGED alive
  <2>1. CASE deletion.bundle = NoToken /\ UNCHANGED alive
               /\ deletion' = [deletion EXCEPT !.step = "row", !.revoked = TRUE]
    BY <1>1, <2>1 DEF Deletions
  <2>2. CASE deletion' = [deletion EXCEPT !.step = "row"] /\ UNCHANGED alive
    BY <1>1, <2>2 DEF Deletions
  <2>3. ASSUME NEW known \in Known,
               alive' = (IF known THEN Revoked(deletion.bundle.grant) ELSE alive),
               deletion' = [deletion EXCEPT !.step = "row", !.revoked = TRUE,
                                            !.sent = IF known THEN @ ELSE "expired"]
        PROVE  /\ deletion' \in Deletions /\ deletion'.step = "row"
               /\ deletion'.id = deletion.id /\ deletion'.newest = deletion.newest
               /\ deletion'.stale = deletion.stale
               /\ \/ alive' = Revoked(deletion.bundle.grant)
                  \/ deletion'.sent = "expired" /\ UNCHANGED alive
    <3>1. CASE known
      BY <1>1, <2>3, <3>1 DEF Deletions
    <3>2. CASE ~known
      BY <1>1, <2>3, <3>2 DEF Deletions
    <3>3. QED
      BY <3>1, <3>2
  <2>4. QED
    BY <2>1, <2>2, <2>3 DEF DeleteRevoke
<1>3. alive' \subseteq alive /\ (alive' = {} \/ alive' = alive)
  BY <1>2 DEF Revoked
<1>4. TypeOK'
  BY <1>1, <1>2, <1>3 DEF TypeOK, Deletions
<1>5. NothingOld'
  BY <1>1 DEF NothingOld, Deployed, ReportsNothing, Current
<1>6. Deciding'
  BY <1>1, <1>2, <1>3 DEF Deciding, Revoked
<1>7. Unbroken' /\ Given'
  BY <1>1, <1>3 DEF Unbroken, Given
<1>8. QED
  BY <1>1, <1>3, <1>4, <1>5, <1>6, <1>7

LEMMA DeleteRowInv ==
  ASSUME AccountsInv, DeleteRow
  PROVE  AccountsInv' /\ ReplacedBySignIn
<1> USE DEF AccountsInv, RotationIsSafe, RevokedMeansRevoked, ConsentsKnown
<1>1. /\ deletion # Idle /\ deletion.step = "row" /\ deletion \in Deletions
      /\ deletion' = [deletion EXCEPT !.step = "purge"]
      /\ UNCHANGED <<ids, last, alive, under, retired, rotation, clean, signIn, renewal,
                     report, session, object>>
  BY DEF DeleteRow, google, keys, TypeOK, Deletions
<1>2. /\ deletion' \in Deletions /\ deletion'.step = "purge" /\ deletion'.id = deletion.id
      /\ deletion'.newest = deletion.newest /\ deletion'.stale = deletion.stale
      /\ deletion'.revoked = deletion.revoked /\ deletion'.sent = deletion.sent
  BY <1>1 DEF Deletions
<1>3. \/ UNCHANGED <<user, row, code>>
      \/ user' = NoUser /\ row' = {} /\ code' = {} /\ user.id = deletion.id
  BY DEF DeleteRow
<1>4. NoUser \in User /\ NoUser.id = 0 /\ NoUser.access = NoToken /\ NoUser.refresh = NoToken
  BY UserParts DEF NoUser
<1>5. TypeOK'
  <2>1. user' \in User /\ user'.id <= ids'
    BY <1>1, <1>3, <1>4, AccountsAssumption DEF TypeOK, Id
  <2>2. QED
    BY <1>1, <1>2, <1>3, <2>1 DEF TypeOK, Deletions
<1>6. NothingOld'
  BY <1>1, <1>3, <1>4 DEF NothingOld, Deployed, ReportsNothing, Current
<1>7. Deciding' /\ Unbroken'
  BY <1>1, <1>2 DEF Deciding, Unbroken
<1>8. Given'
  BY <1>1, <1>3, <1>4, TokenParts, AccountsAssumption DEF Given, TypeOK, Grant
<1>9. ReplacedBySignIn
  BY <1>1, <1>3, <1>4 DEF ReplacedBySignIn, Deciding
<1>10. QED
  BY <1>1, <1>5, <1>6, <1>7, <1>8, <1>9

LEMMA DeletePurgeInv ==
  ASSUME AccountsInv, DeletePurge
  PROVE  AccountsInv'
<1> USE DEF AccountsInv, RotationIsSafe, RevokedMeansRevoked, ConsentsKnown
<1>1. /\ deletion # Idle /\ deletion.step = "purge" /\ deletion' = Idle /\ session' = 0
      /\ UNCHANGED <<user, ids, last, alive, under, retired, rotation, clean, signIn,
                     renewal, code, row>>
  BY DEF DeletePurge, google, keys
<1>2. /\ report' \in {"none", "stale", "expired", "whole"}
      /\ report' = "whole" => /\ deletion.revoked /\ deletion.newest = last
                              /\ ~deletion.stale /\ deletion.sent # "expired"
  BY DEF DeletePurge
<1>3. TypeOK'
  <2>1. object' \in SUBSET Campaigns
    BY DEF DeletePurge, TypeOK
  <2>2. session' \in Id
    BY <1>1, AccountsAssumption DEF Id
  <2>3. QED
    BY <1>1, <1>2, <2>1, <2>2 DEF TypeOK
<1>4. NothingOld'
  BY <1>1 DEF NothingOld, Deployed, ReportsNothing, Current
<1>5. Unbroken' /\ Given' /\ Deciding'
  BY <1>1 DEF Unbroken, Given, Deciding
<1>6. QED
  BY <1>1, <1>2, <1>3, <1>4, <1>5 DEF Deciding

-----------------------------------------------------------------------------
(* The theorems.                                                           *)

LEMMA StepInv ==
  ASSUME AccountsInv, [Next]_vars
  PROVE  AccountsInv' /\ ReplacedBySignIn
<1>1. CASE SigningIn
  BY <1>1, ConsentInv, SignInFailsInv, UpsertInv, PartnerSignInInv, SessionInv
     DEF SigningIn, ReplacedBySignIn, Consent, SignInFails
<1>2. CASE Renewing
  BY <1>2, AccessExpiresInv, RenewReadInv, RenewAskInv, RenewSaveInv, RevokeAtGoogleInv
     DEF Renewing, ReplacedBySignIn, RenewRead, RenewAsk, RevokeAtGoogle
<1>3. CASE Rotating
  BY <1>3, RotateReadInv, RotateUpdateInv, RetireInv, RedeployInv
     DEF Rotating, ReplacedBySignIn, RotateRead, Retire, Redeploy, Restart
<1>4. CASE Deleting
  BY <1>4, DeleteReadInv, DeleteRevokeInv, DeleteRowInv, DeletePurgeInv, SessionInv
     DEF Deleting, ReplacedBySignIn, DeleteRead, DeleteRevoke, DeletePurge
<1>5. CASE UNCHANGED vars
  <2>1. UNCHANGED <<user, ids, google, keys, requests>>
    BY <1>5 DEF vars, google, keys, requests
  <2>2. /\ session' \in Id /\ code' \in SUBSET Codes
        /\ row' \in SUBSET Campaigns /\ object' \in SUBSET Campaigns
    BY <1>5 DEF vars, AccountsInv, RotationIsSafe, TypeOK
  <2>3. QED
    BY <2>1, <2>2, AsideInv DEF ReplacedBySignIn
<1>6. QED
  BY <1>1, <1>2, <1>3, <1>4, <1>5 DEF Next

LEMMA AccountsInvHolds == Spec => []AccountsInv
<1>1. AccountsInv /\ [Next]_vars => AccountsInv'
  BY StepInv
<1>2. QED
  BY InitInv, <1>1, PTL DEF Spec

\* However sign-ins, renewals, deletions and restarts run beside the rotation
\* script (src/backend/src/services/keyRotation.ts), nothing that is stored or
\* on its way is under the old key once a run re-encrypted nothing.
THEOREM RotationSafe == Spec => []RotationIsSafe
BY AccountsInvHolds, PTL DEF AccountsInv

\* The deletion of an account (accountDeletion.ts) that revoked a token, having
\* read the newest consent, left Google honouring nothing, however many consents
\* were given and accounts created, unless it sent a dead refresh token beside a
\* later consent or, for want of a refresh token, an expired access token
\* (googleRevoke.ts:25-31).
THEOREM RevokedIsRevoked == Spec => []RevokedMeansRevoked
BY AccountsInvHolds, PTL DEF AccountsInv

\* Neither the worker (tokenRefresh.ts) nor the rotation script, which write
\* what they read earlier, brings an older consent back.
THEOREM SignInsReplace == Spec => OnlySignInsReplace
<1>1. AccountsInv /\ [Next]_vars => [ReplacedBySignIn]_vars
  BY StepInv
<1>2. QED
  BY AccountsInvHolds, <1>1, PTL DEF Spec, OnlySignInsReplace
=============================================================================

-------------------------------- MODULE Book --------------------------------
(***************************************************************************)
(* The address book of one account (addressBook.ts and the trigger of      *)
(* migration 1790070000000): one entry per address, and the recipients of  *)
(* the campaigns, snapshots linked to it.                                  *)
(*                                                                         *)
(* An import, a correction and a removal lock the entry's row until they   *)
(* commit, so those of one entry follow each other and each is one step    *)
(* here.  What that lock does not hold is in steps of its own: a request   *)
(* that adds to a campaign reads its status first and inserts whatever it  *)
(* has become; a copy reads the entry in its statement's snapshot and      *)
(* takes only the foreign key's lock, which lets a correction pass; the    *)
(* worker sends what it read when it claimed the recipient.  The daily     *)
(* copy of the tables (backup.ts) is read in one transaction and restored  *)
(* in another.                                                             *)
(***************************************************************************)
EXTENDS Naturals, FiniteSetsExt

CONSTANTS
  Campaigns, Entries, Recipients,  \* ids, used once
  Emails,                          \* addresses, normalised
  Names,                           \* values of a contact's other fields
  Blank,                           \* fields left empty
  None, Gone                       \* no row yet, or no link; no row any more

ASSUME BookAssumption ==
  /\ Blank \notin Names
  /\ None \notin Entries /\ None # Gone

VARIABLES
  launched,   \* campaigns past draft; one unscheduled again is left to Desk
  entry,      \* address_book
  recipient,  \* contacts
  hand,       \* what the worker read of a recipient when it claimed it
  adding,     \* campaigns some import or add found to be drafts, and adds to
  copy        \* POST /contacts/copy, from its read to its commit

vars == <<launched, entry, recipient, hand, adding, copy>>

-----------------------------------------------------------------------------
Details == [email : Emails, name : Names \cup {Blank}]
Settled == {"sent", "failed"}
Waiting == {"pending", "ignored"}
Snapshots == [campaign : Campaigns, email : Emails, name : Names \cup {Blank},
              book : Entries \cup {None}, status : Settled \cup Waiting,
              logged : BOOLEAN,   \* something in the log
              tried  : BOOLEAN]   \* attempts > 0

Copies == [campaign : Campaigns, book : Entries, draft : BOOLEAN,
           takes : Details \cup {None}, met : BOOLEAN]

ASSUME NoRowAssumption == {None, Gone} \cap (Details \cup Snapshots \cup Copies) = {}

In(b)      == entry[b] \notin {None, Gone}
There(c)   == recipient[c] \notin {None, Gone}
Of(k)      == {c \in Recipients : There(c) /\ recipient[c].campaign = k}
Holds(k, e) == \E c \in Of(k) : recipient[c].email = e
Known(e)   == {b \in Entries : In(b) /\ entry[b].email = e}
Said(c)    == [email |-> recipient[c].email, name |-> recipient[c].name]

Init ==
  /\ launched  = {}
  /\ entry     = [b \in Entries |-> None]
  /\ recipient = [c \in Recipients |-> None]
  /\ hand      = [c \in Recipients |-> None]
  /\ adding    = {}
  /\ copy      = None

-----------------------------------------------------------------------------
(* The book.                                                               *)

\* add: the unique index on the address refuses a second entry.
Add(b, d) ==
  /\ entry[b] = None /\ Known(d.email) = {}
  /\ entry' = [entry EXCEPT ![b] = d]
  /\ UNCHANGED <<launched, recipient, hand, adding, copy>>

\* Variant: a correction reaches every recipient.
FollowsAny(c, b) == There(c) /\ recipient[c].book = b

\* The recipients a correction reaches: those not sent to yet ...
Follows(c, b) == There(c) /\ recipient[c].book = b /\ recipient[c].status \in Waiting

\* ... but in a campaign that has the new address under another recipient.
Corrected(b, d) ==
  [c \in Recipients |->
     IF /\ Follows(c, b)
        /\ \A o \in Of(recipient[c].campaign) \ {c} : recipient[o].email # d.email
     THEN [recipient[c] EXCEPT !.email = d.email, !.name = d.name]
     ELSE recipient[c]]

Distinct(rs) ==
  \A c, o \in Recipients : c # o /\ There(c) /\ There(o) =>
    rs[c].campaign # rs[o].campaign \/ rs[c].email # rs[o].email

\* update: the entry and its recipients, or neither when an index refuses.
Update(b, d) ==
  /\ In(b) /\ Known(d.email) \subseteq {b}
  /\ Distinct(Corrected(b, d))
  /\ entry' = [entry EXCEPT ![b] = d]
  /\ recipient' = Corrected(b, d)
  /\ UNCHANGED <<launched, hand, adding, copy>>

\* Variant: one set aside by hand is not to be sent, so it may stay.
LeavesIfPending(c, b) ==
  There(c) /\ recipient[c].book = b /\ recipient[c].status = "pending" /\ ~recipient[c].logged

\* The recipients a removal takes along: no outcome, and nothing in the log.
Leaves(c, b) ==
  There(c) /\ recipient[c].book = b /\ recipient[c].status \in Waiting /\ ~recipient[c].logged

\* remove: the others lose their link (ON DELETE SET NULL).
Remove(b) ==
  /\ In(b)
  /\ entry' = [entry EXCEPT ![b] = Gone]
  /\ recipient' = [c \in Recipients |->
       IF Leaves(c, b) THEN Gone
       ELSE IF There(c) /\ recipient[c].book = b THEN [recipient[c] EXCEPT !.book = None]
       ELSE recipient[c]]
  /\ UNCHANGED <<launched, hand, adding, copy>>

\* Variant: the file wins over the entry, blanks included.
FilledFromFile(d, n) == [d EXCEPT !.name = n]

\* COALESCE: the entry keeps its values and only what is empty is filled.
Filled(d, n) == [d EXCEPT !.name = IF @ = Blank THEN n ELSE @]

\* INSERT ... ON CONFLICT DO UPDATE, of importRows and of the trigger.
File(b, d) ==
  /\ IF Known(d.email) = {} THEN entry[b] = None ELSE b \in Known(d.email)
  /\ entry' = [entry EXCEPT ![b] =
       IF Known(d.email) = {} THEN d ELSE Filled(entry[b], d.name)]

ImportRow(b, d) ==
  /\ File(b, d)
  /\ UNCHANGED <<launched, recipient, hand, adding, copy>>

-----------------------------------------------------------------------------
(* Recipients.                                                             *)

Row(k, b, d) == [campaign |-> k, email |-> d.email, name |-> d.name, book |-> b,
                 status |-> "pending", logged |-> FALSE, tried |-> FALSE]

\* POST /contacts, /contacts/import and the programs' /v1 find a draft ...
AddRead(k) ==
  /\ k \notin launched
  /\ adding' = adding \cup {k}
  /\ UNCHANGED <<launched, entry, recipient, hand, copy>>

\* ... and insert, launched since or not: the trigger links the recipient to its
\* entry, creating or filling it, and borrows what the file left empty ...
Insert(c, k, b, d) ==
  /\ k \in adding /\ recipient[c] = None /\ ~Holds(k, d.email)
  /\ File(b, d)
  /\ recipient' = [recipient EXCEPT ![c] =
       Row(k, b, [d EXCEPT !.name = IF @ = Blank THEN entry'[b].name ELSE @])]
  /\ UNCHANGED <<launched, hand, adding, copy>>

\* ... until the last of them has answered, or died.
AddEnd(k) ==
  /\ k \in adding
  /\ adding' = adding \ {k}
  /\ UNCHANGED <<launched, entry, recipient, hand, copy>>

\* copyToCampaign finds the campaign and reads its status ...
CopyRead(k, b) ==
  /\ copy = None /\ In(b)
  /\ copy' = [campaign |-> k, book |-> b, draft |-> k \notin launched,
              takes |-> None, met |-> FALSE]
  /\ UNCHANGED <<launched, entry, recipient, hand, adding>>

\* Variant: the status read first decides.
CopyIfRead(k) == copy.draft

CopyIfDraft(k) == k \notin launched

\* ... its INSERT takes the entry as its snapshot has it, of a campaign that is
\* still a draft there ...
CopySelect ==
  /\ copy # None /\ copy.takes = None
  /\ copy' = IF CopyIfDraft(copy.campaign) /\ In(copy.book)
             THEN [copy EXCEPT !.takes = entry[copy.book],
                               !.met = copy.campaign \notin launched]
             ELSE None
  /\ UNCHANGED <<launched, entry, recipient, hand, adding>>

\* ... and commits, corrected or launched since or not: nothing if the campaign
\* holds the address, and fails if the entry the link points to is gone.
CopyInsert ==
  /\ copy # None /\ copy.takes # None
  /\ LET k == copy.campaign b == copy.book IN
     IF In(b) /\ ~Holds(k, copy.takes.email)
     THEN \E c \in Recipients :
            recipient[c] = None /\ recipient' = [recipient EXCEPT ![c] = Row(k, b, copy.takes)]
     ELSE UNCHANGED recipient
  /\ copy' = None
  /\ UNCHANGED <<launched, entry, hand, adding>>

Launch(k) ==
  /\ k \notin launched
  /\ launched' = launched \cup {k}
  /\ UNCHANGED <<entry, recipient, hand, adding, copy>>

\* PATCH /contacts/:contactId.
Mark(c, s) ==
  /\ There(c)
  /\ recipient' = [recipient EXCEPT ![c] = [@ EXCEPT !.status = s]]
  /\ UNCHANGED <<launched, entry, hand, adding, copy>>

\* DELETE /contacts/:contactId, whatever was sent; the log rows go with it.
Drop(c) ==
  /\ There(c)
  /\ recipient' = [recipient EXCEPT ![c] = Gone]
  /\ UNCHANGED <<launched, entry, hand, adding, copy>>

Claimable(c) ==
  /\ There(c) /\ hand[c] = None
  /\ recipient[c].campaign \in launched /\ recipient[c].status = "pending"

Decided(r, outcome) == [r EXCEPT !.status = outcome, !.logged = TRUE]

\* claimContact returns the address and the fields the message is built from.
Claim(c) ==
  /\ Claimable(c) /\ ~recipient[c].tried
  /\ hand' = [hand EXCEPT ![c] = Said(c)]
  /\ UNCHANGED <<launched, entry, recipient, adding, copy>>

\* isAmbiguous: an attempt was counted before, so the message may have left.
Refuse(c) ==
  /\ Claimable(c) /\ recipient[c].tried
  /\ recipient' = [recipient EXCEPT ![c] = Decided(@, "failed")]
  /\ UNCHANGED <<launched, entry, hand, adding, copy>>

\* The attempt is counted, and its outcome recorded if the row is still there.
Tried(c, outcome) ==
  IF There(c) THEN [recipient EXCEPT ![c] = Decided([@ EXCEPT !.tried = TRUE], outcome)]
  ELSE recipient

Send(c) ==
  /\ hand[c] # None
  /\ recipient' = Tried(c, "sent")
  /\ hand' = [hand EXCEPT ![c] = None]
  /\ UNCHANGED <<launched, entry, adding, copy>>

\* Gmail refuses the message for good, or gives no answer that can be read.
Fail(c) ==
  /\ hand[c] # None
  /\ recipient' = Tried(c, "failed")
  /\ hand' = [hand EXCEPT ![c] = None]
  /\ UNCHANGED <<launched, entry, adding, copy>>

\* Not now: no room today, no token, no message, or Gmail says so.  The claim is
\* given back and no attempt stays counted ...
Release(c) ==
  /\ hand[c] # None
  /\ hand' = [hand EXCEPT ![c] = None]
  /\ UNCHANGED <<launched, entry, recipient, adding, copy>>

\* ... and after the job's last one recordFailureById writes the failure.
GiveUp(c) ==
  /\ Claimable(c)
  /\ recipient' = [recipient EXCEPT ![c] = Decided(@, "failed")]
  /\ UNCHANGED <<launched, entry, hand, adding, copy>>

Next ==
  \/ \E b \in Entries, d \in Details : Add(b, d) \/ Update(b, d) \/ ImportRow(b, d)
  \/ \E b \in Entries : Remove(b)
  \/ \E c \in Recipients, k \in Campaigns, b \in Entries, d \in Details : Insert(c, k, b, d)
  \/ \E k \in Campaigns, b \in Entries : CopyRead(k, b)
  \/ CopySelect \/ CopyInsert
  \/ \E k \in Campaigns : AddRead(k) \/ AddEnd(k) \/ Launch(k)
  \/ \E c \in Recipients, s \in Waiting : Mark(c, s)
  \/ \E c \in Recipients : Drop(c) \/ Claim(c) \/ Refuse(c)
  \/ \E c \in Recipients : Send(c) \/ Fail(c) \/ Release(c) \/ GiveUp(c)

Spec == Init /\ [][Next]_vars

-----------------------------------------------------------------------------
(* The daily copy, and the way back.                                       *)

\* createBackup: who is in the book, and what each recipient says.
Copied ==
  [book |-> [e \in Emails |-> IF Known(e) = {} THEN None
                              ELSE entry[CHOOSE b \in Known(e) : TRUE].name],
   said |-> [c \in {d \in Recipients : There(d)} |-> Said(c)]]

\* insertRow: the trigger sees a row put back like any other.
PutBack(c, copied) ==
  LET e     == copied.said[c].email
      held  == copied.book[e]
      name  == IF held \in {None, Blank} THEN copied.said[c].name ELSE held
  IN  IF recipient[c].book # None THEN copied
      ELSE [book |-> [copied.book EXCEPT ![e] = name],
            said |-> [copied.said EXCEPT ![c].name = IF @ = Blank THEN name ELSE @]]

\* restoreBackup of that copy: the book first, then the recipients one by one.
Restored == FoldSet(PutBack, Copied, {c \in Recipients : There(c)})

-----------------------------------------------------------------------------
\* Type correctness of the two tables, the copy and the worker's hand.
TypeOK ==
  /\ launched  \in SUBSET Campaigns
  /\ entry     \in [Entries -> Details \cup {None, Gone}]
  /\ recipient \in [Recipients -> Snapshots \cup {None, Gone}]
  /\ hand      \in [Recipients -> Details \cup {None}]
  /\ adding    \in SUBSET Campaigns
  /\ copy      \in {None} \cup Copies

\* An address is one entry, and once in a campaign.
OneEach ==
  /\ \A a, b \in Entries : a # b /\ In(a) /\ In(b) => entry[a].email # entry[b].email
  /\ \A c, o \in Recipients : c # o /\ There(c) /\ There(o) =>
       recipient[c].campaign # recipient[o].campaign \/ recipient[c].email # recipient[o].email

\* A recipient the log says nothing of belongs to a person in the book: whichever
\* import, copy, correction or removal came last, no first message is still to come for
\* somebody removed.  Of a recipient with something in the log, which a removal leaves
\* and the user may set to be sent to again, nothing is said: see RemovedIsOut.
NobodyLeftBehind ==
  \A c \in Recipients : There(c) =>
    /\ recipient[c].book # None => In(recipient[c].book)
    /\ ~recipient[c].logged => recipient[c].book # None /\ recipient[c].status \in Waiting

\* A restore loses nobody, changes no name the book has, and no recipient of someone
\* in it.
RestoreGivesBack ==
  /\ \A e \in Emails : Copied.book[e] # None =>
       Restored.book[e] = Copied.book[e] \/ Copied.book[e] = Blank
  /\ \A c \in DOMAIN Copied.said :
       recipient[c].book # None => Restored.said[c] = Copied.said[c]

BookInv == TypeOK /\ OneEach /\ NobodyLeftBehind /\ RestoreGivesBack

\* What an entry says changes only by the user's own correction: an import, a
\* copy or a campaign's add fills what is empty and changes nothing else.
EntryKept(b) ==
  In(b) /\ entry'[b] # entry[b] /\ entry'[b] # Gone =>
    \/ \E d \in Details : Update(b, d)
    \/ entry[b].name = Blank /\ entry'[b].email = entry[b].email
EntriesKeep == [][\A b \in Entries : EntryKept(b)]_vars

\* A recipient with an outcome keeps the address and fields it says, and one with
\* something in the log is deleted by hand only, whatever happens to the person's entry.
\* None joins a campaign past its launch but by a request that found it a draft: the
\* import or add that read its status, the copy whose statement saw it.
RecipientFixed(c) ==
  /\ There(c) /\ recipient[c].status \in Settled /\ recipient'[c] # Gone =>
       Said(c)' = Said(c)
  /\ There(c) /\ recipient[c].logged /\ recipient'[c] = Gone => Drop(c)
  /\ recipient[c] = None /\ recipient'[c] # None =>
       \/ recipient'[c].campaign \in adding
       \/ copy # None /\ copy.met /\ recipient'[c].campaign = copy.campaign
RecipientsFixed == [][\A c \in Recipients : RecipientFixed(c)]_vars

\* Nothing but the user rewrites an entry, and nothing at all a recipient that was
\* written to or failed and not set to pending again (1790070000000_address-book.sql:8-16).
BookKeeps == EntriesKeep /\ RecipientsFixed

\* What addressBook.ts:20 and the confirmation of a removal say, that it takes the
\* person "out of the sends still to come" (Contacts.tsx:663 in French).  It does not
\* hold: one that failed before any attempt was counted and was set to pending again has
\* something in the log, so it stays, linked to nobody, and its next job sends to it.
RemovedIsOut ==
  [][\A c \in Recipients :
       /\ There(c) /\ recipient[c].status = "pending" /\ ~recipient[c].tried
       /\ recipient[c].book # None /\ recipient'[c] # Gone
       => recipient'[c].book # None]_vars

\* What backup.ts:197 and its test promise, "either the whole copy is in place", "puts it
\* back exactly".  It does not hold: a recipient already sent to whose person was removed
\* brings the person back into the book.
PutsBackExactly == Restored = Copied

\* What migration 1790070000000:15-16 says of a sent row.  It does not hold: a
\* correction that commits while the message is leaving rewrites it.
SentTellsWhatWentOut ==
  [][\A c \in Recipients :
       hand[c] # None /\ hand'[c] = None /\ There(c)' /\ recipient'[c].status = "sent"
       => Said(c)' = hand[c]]_vars
=============================================================================

----------------------------- MODULE BookProofs -----------------------------
(***************************************************************************)
(* What is proved of the address book, for any entries, recipients,        *)
(* campaigns and addresses: one entry and one recipient per address, who   *)
(* may still be written to after leaving the book, and who may rewrite     *)
(* what.                                                                   *)
(***************************************************************************)
EXTENDS Book, FiniteSetTheorems, TLAPS

\* A copy's statement takes the entry only of a campaign it sees as a draft.
CopyMet == copy # None /\ copy.takes # None => copy.met

\* What the unique indexes, the trigger and that statement keep.
BookStands == TypeOK /\ OneEach /\ NobodyLeftBehind /\ CopyMet

\* What a step may not do.
StepKeeps == /\ \A b \in Entries : EntryKept(b)
             /\ \A c \in Recipients : RecipientFixed(c)

EntriesApart ==
  \A a, b \in Entries : a # b /\ In(a) /\ In(b) => entry[a].email # entry[b].email
RecipientsApart ==
  \A c, o \in Recipients : c # o /\ There(c) /\ There(o) =>
    recipient[c].campaign # recipient[o].campaign \/ recipient[c].email # recipient[o].email

LEMMA Apart == OneEach <=> EntriesApart /\ RecipientsApart
BY DEF OneEach, EntriesApart, RecipientsApart

\* What is a row and what is not.
LEMMA RowParts ==
  ASSUME TypeOK
  PROVE  /\ \A d \in Details : d # None /\ d # Gone
         /\ \A r \in Snapshots : r # None /\ r # Gone
         /\ \A b \in Entries : In(b) <=> entry[b] \in Details
         /\ \A c \in Recipients : There(c) <=> recipient[c] \in Snapshots
BY NoRowAssumption DEF TypeOK, In, There

LEMMA InitStands == Init => BookStands
<1> SUFFICES ASSUME Init PROVE BookStands
  OBVIOUS
<1>1. TypeOK
  BY DEF Init, TypeOK
<1>2. OneEach /\ NobodyLeftBehind /\ CopyMet
  BY DEF Init, OneEach, NobodyLeftBehind, In, There, CopyMet
<1>3. QED
  BY <1>1, <1>2 DEF BookStands

-----------------------------------------------------------------------------
(* The entries.                                                            *)

\* Adding to the book, or filling what it holds: one entry per address, nobody
\* leaves it, and what it says is kept.
LEMMA FileKeeps ==
  ASSUME BookStands, NEW b \in Entries, NEW d \in Details, File(b, d)
  PROVE  /\ entry' \in [Entries -> Details \cup {None, Gone}]
         /\ entry'[b] \in Details /\ entry'[b].email = d.email
         /\ EntriesApart'
         /\ \A a \in Entries : In(a) => In(a)'
         /\ \A a \in Entries : EntryKept(a)
<1> USE DEF BookStands
<1>1. entry \in [Entries -> Details \cup {None, Gone}] /\ EntriesApart
  BY Apart DEF TypeOK
<1>2. CASE Known(d.email) = {}
  <2>1. entry[b] = None /\ entry' = [entry EXCEPT ![b] = d]
    BY <1>2 DEF File
  <2>2. \A a \in Entries : In(a) => a # b /\ entry[a].email # d.email
    BY <1>2, <2>1 DEF Known, In
  <2>3. \A a \in Entries : IF a = b THEN entry'[a] = d ELSE entry'[a] = entry[a]
    BY <1>1, <2>1
  <2>4. QED
    BY <1>1, <2>1, <2>2, <2>3 DEF EntriesApart, EntryKept, In
<1>3. CASE Known(d.email) # {}
  <2> DEFINE f == Filled(entry[b], d.name)
  <2>1. In(b) /\ entry[b] \in Details /\ entry[b].email = d.email
    BY <1>3, RowParts DEF File, Known
  <2>2. f \in Details /\ f.email = d.email
        /\ (f # entry[b] => entry[b].name = Blank)
    BY <2>1 DEF Filled, Details
  <2>3. entry' = [entry EXCEPT ![b] = f]
    BY <1>3 DEF File
  <2> HIDE DEF f
  <2>4. \A a \in Entries : IF a = b THEN entry'[a] = f ELSE entry'[a] = entry[a]
    BY <1>1, <2>3
  <2>5. In(b)'
    BY <2>2, <2>4, RowParts DEF In
  <2>6. entry' \in [Entries -> Details \cup {None, Gone}]
    BY <1>1, <2>2, <2>3
  <2>7. QED
    BY <1>1, <2>1, <2>2, <2>4, <2>5, <2>6 DEF EntriesApart, EntryKept, In
<1>4. QED
  BY <1>2, <1>3

\* What is so of the recipients when only the entries move, and nobody leaves.
LEMMA RecipientsStay ==
  ASSUME BookStands, UNCHANGED recipient, \A a \in Entries : In(a) => In(a)'
  PROVE  /\ RecipientsApart' /\ NobodyLeftBehind'
         /\ \A c \in Recipients : RecipientFixed(c)
<1> USE DEF BookStands
<1>1. RecipientsApart'
  BY Apart DEF RecipientsApart, There
<1>2. \A c \in Recipients : There(c) /\ recipient[c].book # None => recipient[c].book \in Entries
  BY RowParts DEF Snapshots
<1>3. NobodyLeftBehind'
  BY <1>2 DEF NobodyLeftBehind, There
<1>4. \A c \in Recipients : RecipientFixed(c)
  BY RowParts DEF RecipientFixed, Said, There
<1>5. QED
  BY <1>1, <1>3, <1>4

LEMMA AddStands ==
  ASSUME BookStands, NEW b \in Entries, NEW d \in Details, Add(b, d) \/ ImportRow(b, d)
  PROVE  BookStands' /\ StepKeeps
<1>1. File(b, d) /\ UNCHANGED <<launched, recipient, hand, adding, copy>>
  BY DEF Add, ImportRow, File
<1>2. RecipientsApart' /\ NobodyLeftBehind' /\ \A c \in Recipients : RecipientFixed(c)
  BY <1>1, FileKeeps, RecipientsStay
<1>3. TypeOK'
  BY <1>1, FileKeeps DEF BookStands, TypeOK
<1>4. OneEach'
  BY <1>1, <1>2, FileKeeps, Apart DEF OneEach, EntriesApart, RecipientsApart
<1>5. QED
  BY <1>1, <1>2, <1>3, <1>4, FileKeeps DEF BookStands, StepKeeps, CopyMet

LEMMA UpdateStands ==
  ASSUME BookStands, NEW b \in Entries, NEW d \in Details, Update(b, d)
  PROVE  BookStands' /\ StepKeeps
<1> USE DEF BookStands
<1>1. /\ In(b) /\ Known(d.email) \subseteq {b} /\ Distinct(Corrected(b, d))
      /\ entry' = [entry EXCEPT ![b] = d] /\ recipient' = Corrected(b, d)
      /\ UNCHANGED <<launched, hand, adding, copy>>
  BY DEF Update
<1>2. /\ entry' \in [Entries -> Details \cup {None, Gone}]
      /\ \A a \in Entries : IF a = b THEN entry'[a] = d ELSE entry'[a] = entry[a]
  BY <1>1 DEF TypeOK
<1>3. ASSUME NEW c \in Recipients
      PROVE  \/ recipient'[c] = recipient[c]
             \/ /\ There(c) /\ recipient[c].status \in Waiting
                /\ recipient'[c] = [recipient[c] EXCEPT !.email = d.email, !.name = d.name]
  BY <1>1 DEF Corrected, Follows
<1>4. ASSUME NEW c \in Recipients, recipient'[c] # recipient[c]
      PROVE  /\ There(c) /\ recipient'[c] \in Snapshots
             /\ recipient[c].status \in Waiting
             /\ recipient'[c].book = recipient[c].book
             /\ recipient'[c].logged = recipient[c].logged
             /\ recipient'[c].status = recipient[c].status
             /\ recipient'[c].campaign = recipient[c].campaign
             /\ recipient'[c] # Gone
  <2>1. recipient[c] \in Snapshots /\ d \in Details /\ There(c)
        /\ recipient[c].status \in Waiting
        /\ recipient'[c] = [recipient[c] EXCEPT !.email = d.email, !.name = d.name]
    BY <1>3, <1>4, RowParts
  <2>2. QED
    BY <2>1, RowParts DEF Snapshots, Details
<1>5. TypeOK'
  <2>1. recipient' \in [Recipients -> Snapshots \cup {None, Gone}]
    BY <1>1, <1>4 DEF TypeOK, Corrected
  <2>2. QED
    BY <1>1, <1>2, <2>1 DEF TypeOK
<1>6. \A c \in Recipients : There(c)' => There(c)
  BY <1>4 DEF There
<1>7. OneEach'
  <2>1. EntriesApart'
    BY <1>1, <1>2, Apart DEF EntriesApart, Known, In
  <2>2. RecipientsApart'
    BY <1>1, <1>6 DEF RecipientsApart, Distinct
  <2>3. QED
    BY <2>1, <2>2 DEF OneEach, EntriesApart, RecipientsApart
<1>8. NobodyLeftBehind'
  <2>1. \A a \in Entries : In(a) => In(a)'
    BY <1>2, RowParts DEF In
  <2>2. \A c \in Recipients : There(c) /\ recipient[c].book # None => recipient[c].book \in Entries
    BY RowParts DEF Snapshots
  <2>3. QED
    BY <1>4, <1>6, <2>1, <2>2 DEF NobodyLeftBehind, There
<1>9. StepKeeps
  <2>1. \A a \in Entries : EntryKept(a)
    BY <1>2 DEF EntryKept
  <2>2. ASSUME NEW c \in Recipients PROVE RecipientFixed(c)
    BY <1>4, RowParts DEF RecipientFixed, Said, There, Settled, Waiting
  <2>3. QED
    BY <2>1, <2>2 DEF StepKeeps
<1>10. QED
  BY <1>1, <1>5, <1>7, <1>8, <1>9 DEF CopyMet

LEMMA RemoveStands ==
  ASSUME BookStands, NEW b \in Entries, Remove(b)
  PROVE  BookStands' /\ StepKeeps
<1> USE DEF BookStands
<1>1. /\ entry' = [entry EXCEPT ![b] = Gone]
      /\ UNCHANGED <<launched, hand, adding, copy>>
      /\ recipient' = [c \in Recipients |->
           IF Leaves(c, b) THEN Gone
           ELSE IF There(c) /\ recipient[c].book = b THEN [recipient[c] EXCEPT !.book = None]
           ELSE recipient[c]]
  BY DEF Remove
<1>2. /\ entry' \in [Entries -> Details \cup {None, Gone}]
      /\ \A a \in Entries : IF a = b THEN entry'[a] = Gone ELSE entry'[a] = entry[a]
  BY <1>1 DEF TypeOK
<1>3. ASSUME NEW c \in Recipients
      PROVE  \/ /\ recipient'[c] = Gone /\ There(c) /\ recipient[c].status \in Waiting
                /\ ~recipient[c].logged
             \/ /\ There(c) /\ recipient[c].book = b /\ ~Leaves(c, b)
                /\ recipient'[c] \in Snapshots /\ recipient'[c].book = None
                /\ recipient'[c].email = recipient[c].email
                /\ recipient'[c].name = recipient[c].name
                /\ recipient'[c].campaign = recipient[c].campaign
                /\ recipient'[c].status = recipient[c].status
                /\ recipient'[c].logged = recipient[c].logged
             \/ recipient'[c] = recipient[c] /\ ~(There(c) /\ recipient[c].book = b)
  <2>1. CASE Leaves(c, b)
    BY <1>1, <2>1 DEF Leaves
  <2>2. CASE ~Leaves(c, b) /\ There(c) /\ recipient[c].book = b
    <3>1. recipient[c] \in Snapshots /\ recipient'[c] = [recipient[c] EXCEPT !.book = None]
      BY <1>1, <2>2, RowParts
    <3>2. QED
      BY <2>2, <3>1 DEF Snapshots
  <2>3. CASE ~Leaves(c, b) /\ ~(There(c) /\ recipient[c].book = b)
    BY <1>1, <2>3
  <2>4. QED
    BY <2>1, <2>2, <2>3
<1>4. TypeOK'
  <2>1. recipient' \in [Recipients -> Snapshots \cup {None, Gone}]
    BY <1>1, <1>3 DEF TypeOK
  <2>2. QED
    BY <1>1, <1>2, <2>1 DEF TypeOK
<1>5. \A c \in Recipients : There(c)' =>
        /\ There(c) /\ recipient'[c].email = recipient[c].email
        /\ recipient'[c].campaign = recipient[c].campaign
  BY <1>3 DEF There
<1>6. OneEach'
  <2>1. EntriesApart'
    BY <1>2, Apart DEF EntriesApart, In
  <2>2. RecipientsApart'
    BY <1>5, Apart DEF RecipientsApart
  <2>3. QED
    BY <2>1, <2>2 DEF OneEach, EntriesApart, RecipientsApart
<1>7. NobodyLeftBehind'
  <2> SUFFICES ASSUME NEW c \in Recipients, There(c)'
               PROVE  /\ recipient'[c].book # None => In(recipient[c].book)'
                      /\ recipient'[c].book # None => recipient'[c].book = recipient[c].book
                      /\ ~recipient'[c].logged => /\ recipient'[c].book # None
                                                  /\ recipient'[c].status \in Waiting
    BY DEF NobodyLeftBehind, In
  <2>1. There(c) /\ recipient[c] \in Snapshots
    BY <1>5, RowParts
  <2>2. CASE recipient'[c] = recipient[c] /\ recipient[c].book # b
    BY <1>2, <2>1, <2>2 DEF NobodyLeftBehind, In, Snapshots
  <2>3. CASE recipient'[c].book = None /\ recipient[c].book = b /\ ~Leaves(c, b)
    BY <1>3, <2>1, <2>3, BookAssumption DEF NobodyLeftBehind, Leaves, There
  <2>4. QED
    BY <1>3, <2>1, <2>2, <2>3 DEF There
<1>8. StepKeeps
  <2>1. \A a \in Entries : EntryKept(a)
    BY <1>2 DEF EntryKept
  <2>2. ASSUME NEW c \in Recipients PROVE RecipientFixed(c)
    BY <1>3, RowParts DEF RecipientFixed, Said, There, Settled, Waiting
  <2>3. QED
    BY <2>1, <2>2 DEF StepKeeps
<1>9. QED
  BY <1>1, <1>4, <1>6, <1>7, <1>8 DEF CopyMet

-----------------------------------------------------------------------------
(* The recipients.                                                         *)

\* One more recipient of a campaign found a draft, linked to somebody in the book.
LEMMA OneMore ==
  ASSUME BookStands, NEW c \in Recipients, NEW r \in Snapshots,
         recipient[c] = None, recipient' = [recipient EXCEPT ![c] = r],
         \/ r.campaign \in adding
         \/ copy # None /\ copy.met /\ r.campaign = copy.campaign,
         ~Holds(r.campaign, r.email), r.status = "pending",
         r.book \in Entries, In(r.book)', \A a \in Entries : In(a) => In(a)'
  PROVE  /\ recipient' \in [Recipients -> Snapshots \cup {None, Gone}]
         /\ RecipientsApart' /\ NobodyLeftBehind'
         /\ \A o \in Recipients : RecipientFixed(o)
<1> USE DEF BookStands
<1>1. /\ recipient' \in [Recipients -> Snapshots \cup {None, Gone}]
      /\ \A o \in Recipients : IF o = c THEN recipient'[o] = r
                               ELSE recipient'[o] = recipient[o]
  BY DEF TypeOK
<1>2. RecipientsApart'
  BY <1>1, Apart DEF RecipientsApart, There, Holds, Of
<1>3. \A o \in Recipients : There(o) /\ recipient[o].book # None => recipient[o].book \in Entries
  BY RowParts DEF Snapshots
<1>4. NobodyLeftBehind'
  BY <1>1, <1>3, BookAssumption DEF NobodyLeftBehind, There, Waiting
<1>5. \A o \in Recipients : RecipientFixed(o)
  BY <1>1, RowParts DEF RecipientFixed, Said, There
<1>6. QED
  BY <1>1, <1>2, <1>4, <1>5

LEMMA InsertStands ==
  ASSUME BookStands, NEW c \in Recipients, NEW k \in Campaigns, NEW b \in Entries,
         NEW d \in Details, Insert(c, k, b, d)
  PROVE  BookStands' /\ StepKeeps
<1> DEFINE n == IF d.name = Blank THEN entry'[b].name ELSE d.name
           q == [campaign |-> k, email |-> d.email, name |-> n, book |-> b,
                 status |-> "pending", logged |-> FALSE, tried |-> FALSE]
<1>1. /\ k \in adding /\ recipient[c] = None /\ ~Holds(k, d.email) /\ File(b, d)
      /\ UNCHANGED <<launched, hand, adding, copy>>
  BY DEF Insert
<1>2. /\ entry' \in [Entries -> Details \cup {None, Gone}] /\ entry'[b] \in Details
      /\ EntriesApart' /\ \A a \in Entries : In(a) => In(a)'
      /\ \A a \in Entries : EntryKept(a)
  BY <1>1, FileKeeps
<1>3. [d EXCEPT !.name = n].name = n /\ [d EXCEPT !.name = n].email = d.email
      /\ n \in Names \cup {Blank}
  BY <1>2 DEF Details
<1>4. PICK r \in Snapshots :
        /\ recipient' = [recipient EXCEPT ![c] = r]
        /\ r.campaign = k /\ r.email = d.email /\ r.status = "pending" /\ r.book = b
  <2>1. recipient' = [recipient EXCEPT ![c] = q] /\ q \in Snapshots
    BY <1>3 DEF Insert, Row, Snapshots, Details, Waiting
  <2>2. /\ q.campaign = k /\ q.email = d.email /\ q.status = "pending" /\ q.book = b
    OBVIOUS
  <2> HIDE DEF q
  <2>3. QED
    BY <2>1, <2>2
<1>5. In(b)'
  BY <1>2, NoRowAssumption DEF In
<1>6. /\ recipient' \in [Recipients -> Snapshots \cup {None, Gone}]
      /\ RecipientsApart' /\ NobodyLeftBehind'
      /\ \A o \in Recipients : RecipientFixed(o)
  BY <1>1, <1>2, <1>4, <1>5, OneMore
<1>7. TypeOK'
  BY <1>1, <1>2, <1>6 DEF BookStands, TypeOK
<1>8. OneEach'
  BY <1>2, <1>6 DEF OneEach, EntriesApart, RecipientsApart
<1>9. QED
  BY <1>1, <1>2, <1>6, <1>7, <1>8 DEF BookStands, StepKeeps, CopyMet

\* What is so when the entries and the recipients stay as they are.
LEMMA BothStay ==
  ASSUME BookStands, UNCHANGED <<entry, recipient>>, launched' \in SUBSET Campaigns,
         hand' \in [Recipients -> Details \cup {None}],
         adding' \in SUBSET Campaigns,
         copy' \in {None} \cup Copies, CopyMet'
  PROVE  BookStands' /\ StepKeeps
<1>1. \A a \in Entries : In(a) <=> In(a)'
  BY DEF In
<1>2. RecipientsApart' /\ NobodyLeftBehind' /\ \A c \in Recipients : RecipientFixed(c)
  BY <1>1, RecipientsStay
<1>3. TypeOK'
  BY DEF BookStands, TypeOK
<1>4. EntriesApart'
  BY <1>1, Apart DEF EntriesApart, BookStands
<1>5. OneEach'
  BY <1>2, <1>4 DEF OneEach, EntriesApart, RecipientsApart
<1>6. QED
  BY <1>2, <1>3, <1>5 DEF BookStands, StepKeeps, EntryKept

LEMMA CopyInsertStands ==
  ASSUME BookStands, CopyInsert
  PROVE  BookStands' /\ StepKeeps
<1>1. /\ copy # None /\ copy' = None /\ UNCHANGED <<launched, entry, hand, adding>>
  BY DEF CopyInsert
<1>2. CASE UNCHANGED recipient
  BY <1>1, <1>2, BothStay DEF BookStands, TypeOK, CopyMet
<1>3. CASE recipient' # recipient
  <2>1. PICK c \in Recipients :
          /\ In(copy.book) /\ copy.takes # None
          /\ ~Holds(copy.campaign, copy.takes.email) /\ recipient[c] = None
          /\ recipient' = [recipient EXCEPT ![c] =
                             Row(copy.campaign, copy.book, copy.takes)]
    BY <1>3 DEF CopyInsert
  <2>2. /\ copy.campaign \in Campaigns /\ copy.book \in Entries
        /\ copy.takes \in Details /\ copy.met
    BY <1>1, <2>1 DEF BookStands, TypeOK, Copies, CopyMet
  <2>3. PICK r \in Snapshots :
          /\ r = Row(copy.campaign, copy.book, copy.takes)
          /\ r.campaign = copy.campaign /\ r.status = "pending"
          /\ r.email = copy.takes.email /\ r.book = copy.book
    <3> DEFINE q == Row(copy.campaign, copy.book, copy.takes)
    <3>1. /\ q \in Snapshots /\ q.campaign = copy.campaign /\ q.status = "pending"
          /\ q.email = copy.takes.email /\ q.book = copy.book
      BY <2>2 DEF Row, Snapshots, Details, Waiting
    <3> HIDE DEF q
    <3>2. \E r \in Snapshots : r = q /\ r.campaign = copy.campaign /\ r.status = "pending"
                                /\ r.email = copy.takes.email /\ r.book = copy.book
      BY <3>1
    <3>3. QED
      BY <3>2 DEF q
  <2>4. \A a \in Entries : In(a) <=> In(a)'
    BY <1>1 DEF In
  <2>5. In(r.book)' /\ recipient' = [recipient EXCEPT ![c] = r]
    BY <1>1, <2>1, <2>3 DEF In
  <2>6. /\ recipient' \in [Recipients -> Snapshots \cup {None, Gone}]
        /\ RecipientsApart' /\ NobodyLeftBehind'
        /\ \A o \in Recipients : RecipientFixed(o)
    BY <1>1, <2>1, <2>2, <2>3, <2>4, <2>5, OneMore
  <2>7. TypeOK'
    BY <1>1, <2>6 DEF BookStands, TypeOK
  <2>8. EntriesApart'
    BY <1>1, <2>4, Apart DEF EntriesApart, BookStands
  <2>9. OneEach'
    BY <2>6, <2>8 DEF OneEach, EntriesApart, RecipientsApart
  <2>10. QED
    BY <1>1, <2>6, <2>7, <2>9 DEF BookStands, StepKeeps, EntryKept, CopyMet
<1>4. QED
  BY <1>2, <1>3

LEMMA ReadStands ==
  ASSUME BookStands,
         \/ \E k \in Campaigns, b \in Entries : CopyRead(k, b)
         \/ CopySelect
         \/ \E k \in Campaigns : AddRead(k) \/ AddEnd(k) \/ Launch(k)
         \/ \E c \in Recipients : Claim(c) \/ Release(c)
  PROVE  BookStands' /\ StepKeeps
<1> USE DEF BookStands
<1>1. CASE \E k \in Campaigns, b \in Entries : CopyRead(k, b)
  <2>1. PICK k \in Campaigns, b \in Entries : CopyRead(k, b)
    BY <1>1
  <2>2. copy' \in Copies /\ copy'.takes = None
    BY <2>1 DEF CopyRead, Copies
  <2>3. QED
    BY <2>1, <2>2, BothStay DEF CopyRead, TypeOK, CopyMet
<1>2. CASE CopySelect
  <2>1. copy' \in {None} \cup Copies /\ CopyMet'
    <3>1. CASE copy' = None
      BY <3>1 DEF CopyMet
    <3>2. CASE copy' # None
      <4>1. /\ copy \in Copies /\ copy.campaign \notin launched
            /\ entry[copy.book] \in Details
            /\ copy' = [copy EXCEPT !.takes = entry[copy.book],
                                    !.met = copy.campaign \notin launched]
        BY <1>2, <3>2, RowParts DEF CopySelect, CopyIfDraft, TypeOK, Copies
      <4>2. QED
        BY <4>1 DEF Copies, CopyMet
    <3>3. QED
      BY <3>1, <3>2
  <2>2. QED
    BY <1>2, <2>1, BothStay DEF CopySelect, TypeOK
<1>3. CASE \E k \in Campaigns : AddRead(k) \/ AddEnd(k) \/ Launch(k)
  BY <1>3, BothStay DEF AddRead, AddEnd, Launch, TypeOK, CopyMet
<1>4. CASE \E c \in Recipients : Claim(c) \/ Release(c)
  <2>1. PICK c \in Recipients : Claim(c) \/ Release(c)
    BY <1>4
  <2>2. UNCHANGED <<launched, entry, recipient, adding, copy>>
    BY <2>1 DEF Claim, Release
  <2>3. hand' \in [Recipients -> Details \cup {None}]
    <3>1. CASE Claim(c)
      <4>1. Said(c) \in Details
        BY <3>1, RowParts DEF Claim, Claimable, Said, Snapshots, Details
      <4>2. QED
        BY <3>1, <4>1 DEF Claim, TypeOK
    <3>2. CASE Release(c)
      BY <3>2 DEF Release, TypeOK
    <3>3. QED
      BY <2>1, <3>1, <3>2
  <2>4. QED
    BY <2>2, <2>3, BothStay DEF TypeOK, CopyMet
<1>5. QED
  BY <1>1, <1>2, <1>3, <1>4

\* A status that changes, by hand or with an outcome, and nothing else of a row.
LEMMA StatusOnly ==
  ASSUME BookStands, NEW c \in Recipients, NEW r \in Snapshots, There(c),
         recipient' = [recipient EXCEPT ![c] = r], UNCHANGED entry,
         r.campaign = recipient[c].campaign, r.email = recipient[c].email,
         r.name = recipient[c].name, r.book = recipient[c].book,
         ~r.logged => ~recipient[c].logged /\ r.status \in Waiting
  PROVE  /\ recipient' \in [Recipients -> Snapshots \cup {None, Gone}]
         /\ OneEach' /\ NobodyLeftBehind' /\ StepKeeps
<1> USE DEF BookStands
<1>1. /\ recipient' \in [Recipients -> Snapshots \cup {None, Gone}]
      /\ \A o \in Recipients : IF o = c THEN recipient'[o] = r
                               ELSE recipient'[o] = recipient[o]
  BY DEF TypeOK
<1>2. \A o \in Recipients : There(o)' =>
        /\ There(o) /\ recipient'[o].email = recipient[o].email
        /\ recipient'[o].campaign = recipient[o].campaign
        /\ recipient'[o].book = recipient[o].book
  BY <1>1 DEF There
<1>3. OneEach'
  <2>1. EntriesApart'
    BY Apart DEF EntriesApart, In
  <2>2. RecipientsApart'
    BY <1>2, Apart DEF RecipientsApart
  <2>3. QED
    BY <2>1, <2>2 DEF OneEach, EntriesApart, RecipientsApart
<1>4. NobodyLeftBehind'
  BY <1>1, <1>2 DEF NobodyLeftBehind, In
<1>5. StepKeeps
  <2>1. \A o \in Recipients : RecipientFixed(o)
    BY <1>1, RowParts DEF RecipientFixed, Said, There
  <2>2. QED
    BY <2>1 DEF StepKeeps, EntryKept
<1>6. QED
  BY <1>1, <1>3, <1>4, <1>5

LEMMA MarkStands ==
  ASSUME BookStands, NEW c \in Recipients, NEW s \in Waiting, Mark(c, s)
  PROVE  BookStands' /\ StepKeeps
<1> DEFINE r == [recipient[c] EXCEPT !.status = s]
<1>1. /\ There(c) /\ recipient' = [recipient EXCEPT ![c] = r]
      /\ UNCHANGED <<launched, entry, hand, adding, copy>>
  BY DEF Mark
<1>2. recipient[c] \in Snapshots
  BY <1>1, RowParts DEF BookStands
<1>3. /\ r \in Snapshots /\ r.campaign = recipient[c].campaign
      /\ r.email = recipient[c].email /\ r.name = recipient[c].name
      /\ r.book = recipient[c].book /\ r.logged = recipient[c].logged /\ r.status = s
  BY <1>2 DEF Snapshots
<1> HIDE DEF r
<1>4. /\ recipient' \in [Recipients -> Snapshots \cup {None, Gone}]
      /\ OneEach' /\ NobodyLeftBehind' /\ StepKeeps
  BY <1>1, <1>3, StatusOnly
<1>5. QED
  BY <1>1, <1>4 DEF BookStands, TypeOK, CopyMet

LEMMA DropStands ==
  ASSUME BookStands, NEW c \in Recipients, Drop(c)
  PROVE  BookStands' /\ StepKeeps
<1> USE DEF BookStands
<1>1. /\ There(c) /\ UNCHANGED <<launched, entry, hand, adding, copy>>
      /\ recipient' = [recipient EXCEPT ![c] = Gone]
  BY DEF Drop
<1>2. /\ recipient' \in [Recipients -> Snapshots \cup {None, Gone}]
      /\ \A o \in Recipients : IF o = c THEN recipient'[o] = Gone
                               ELSE recipient'[o] = recipient[o]
  BY <1>1 DEF TypeOK
<1>3. TypeOK' /\ CopyMet'
  BY <1>1, <1>2 DEF TypeOK, CopyMet
<1>4. OneEach' /\ NobodyLeftBehind'
  BY <1>1, <1>2 DEF OneEach, NobodyLeftBehind, In, There
<1>5. \A o \in Recipients : RecipientFixed(o)
  BY <1>1, <1>2 DEF RecipientFixed, Said, There
<1>6. QED
  BY <1>1, <1>3, <1>4, <1>5 DEF StepKeeps, EntryKept

LEMMA OutcomeStands ==
  ASSUME BookStands, NEW c \in Recipients, Send(c) \/ Fail(c) \/ Refuse(c) \/ GiveUp(c)
  PROVE  BookStands' /\ StepKeeps
<1>1. /\ UNCHANGED <<launched, entry, adding, copy>>
      /\ hand' \in [Recipients -> Details \cup {None}]
  BY DEF Send, Fail, Refuse, GiveUp, BookStands, TypeOK
<1>2. CASE UNCHANGED recipient
  BY <1>1, <1>2, BothStay DEF BookStands, TypeOK, CopyMet
<1>3. CASE recipient' # recipient
  <2>1. There(c)
    BY <1>3 DEF Send, Fail, Refuse, GiveUp, Tried, Claimable
  <2>2. recipient[c] \in Snapshots
    BY <2>1, RowParts DEF BookStands
  <2>3. PICK s \in Settled, t \in BOOLEAN :
          recipient' = [recipient EXCEPT
                          ![c] = Decided([recipient[c] EXCEPT !.tried = t], s)]
    <3>1. CASE Send(c) \/ Fail(c)
      BY <2>1, <3>1 DEF Send, Fail, Tried, Settled
    <3>2. CASE Refuse(c) \/ GiveUp(c)
      <4>1. recipient[c] = [recipient[c] EXCEPT !.tried = recipient[c].tried]
            /\ recipient[c].tried \in BOOLEAN
        BY <2>2 DEF Snapshots
      <4>2. QED
        BY <3>2, <4>1 DEF Refuse, GiveUp, Settled
    <3>3. QED
      BY <3>1, <3>2
  <2> DEFINE r == Decided([recipient[c] EXCEPT !.tried = t], s)
  <2>4. /\ r \in Snapshots /\ r.campaign = recipient[c].campaign
        /\ r.email = recipient[c].email /\ r.name = recipient[c].name
        /\ r.book = recipient[c].book /\ r.logged = TRUE
    BY <2>2, <2>3 DEF Snapshots, Decided
  <2> HIDE DEF r
  <2>5. recipient' = [recipient EXCEPT ![c] = r]
    BY <2>3 DEF r
  <2>6. /\ recipient' \in [Recipients -> Snapshots \cup {None, Gone}]
        /\ OneEach' /\ NobodyLeftBehind' /\ StepKeeps
    BY <1>1, <2>1, <2>4, <2>5, StatusOnly
  <2>7. QED
    BY <1>1, <2>6 DEF BookStands, TypeOK, CopyMet
<1>4. QED
  BY <1>2, <1>3

-----------------------------------------------------------------------------
(* The way back: FoldSet, by induction over finite sets.  The library's     *)
(* induction theorems take an operator; that a set of counterexamples has a *)
(* smallest one says as much, and needs none.                               *)

Taken(s) == CHOOSE x \in s : TRUE

\* What the definition of FoldSet computes, up to a set of recipients.
Folded(f, top) ==
  f = [s \in SUBSET top |-> IF s = {} THEN Copied
                            ELSE PutBack(Taken(s), f[s \ {Taken(s)}])]

LEMMA TakenIn == \A s : s # {} => Taken(s) \in s
BY DEF Taken

\* A set of finite sets has a smallest one in it.
LEMMA Smallest ==
  ASSUME NEW top, NEW bad \in SUBSET FiniteSubsetsOf(top), bad # {}
  PROVE  \E s \in bad : \A r \in bad : ~(r \subseteq s /\ r # s)
<1>1. \E s \in bad : \A r \in bad : <<r, s>> \notin StrictSubsetOrdering(top)
  BY WFMin, FS_StrictSubsetOrderingWellFounded
<1>2. QED
  BY <1>1 DEF StrictSubsetOrdering, FiniteSubsetsOf

LEMMA FoldedAgree ==
  ASSUME NEW a, NEW b, NEW f, NEW g, IsFiniteSet(a), Folded(f, a), Folded(g, b),
         a \subseteq b
  PROVE  \A s \in SUBSET a : f[s] = g[s]
<1> DEFINE bad == {s \in SUBSET a : f[s] # g[s]}
<1>1. SUFFICES ASSUME bad # {} PROVE FALSE
  OBVIOUS
<1>2. \A s \in bad : IsFiniteSet(s)
  BY FS_Subset
<1>3. PICK s \in bad : \A r \in bad : ~(r \subseteq s /\ r # s)
  <2>1. bad \in SUBSET FiniteSubsetsOf(a)
    BY <1>2 DEF FiniteSubsetsOf
  <2>2. bad # {}
    BY <1>1
  <2> HIDE DEF bad
  <2>3. QED
    BY <2>1, <2>2, Smallest
<1>4. f[s] = IF s = {} THEN Copied ELSE PutBack(Taken(s), f[s \ {Taken(s)}])
  BY DEF Folded
<1>5. g[s] = IF s = {} THEN Copied ELSE PutBack(Taken(s), g[s \ {Taken(s)}])
  BY DEF Folded
<1>6. s # {}
  BY <1>4, <1>5
<1>7. f[s \ {Taken(s)}] = g[s \ {Taken(s)}]
  BY <1>3, <1>6, TakenIn
<1>8. QED
  BY <1>4, <1>5, <1>7

LEMMA FoldedExists ==
  ASSUME NEW top, IsFiniteSet(top)
  PROVE  \E f : Folded(f, top)
<1> DEFINE bad == {s \in SUBSET top : ~ \E f : Folded(f, s)}
<1>1. SUFFICES ASSUME bad # {} PROVE FALSE
  OBVIOUS
<1>2. \A s \in SUBSET top : IsFiniteSet(s)
  BY FS_Subset
<1>3. PICK t \in bad : \A r \in bad : ~(r \subseteq t /\ r # t)
  <2>1. bad \in SUBSET FiniteSubsetsOf(top)
    BY <1>2 DEF FiniteSubsetsOf
  <2>2. bad # {}
    BY <1>1
  <2> HIDE DEF bad
  <2>3. QED
    BY <2>1, <2>2, Smallest
<1> DEFINE G(s) == CHOOSE f : Folded(f, s)
           h == [s \in SUBSET t |-> IF s = {} THEN Copied
                                    ELSE PutBack(Taken(s), G(s \ {Taken(s)})[s \ {Taken(s)}])]
<1>4. \A s \in SUBSET t : s # t => Folded(G(s), s)
  BY <1>3
<1>5. ASSUME NEW s \in SUBSET t, s # t
      PROVE  h[s] = G(s)[s]
  <2>1. Folded(G(s), s)
    BY <1>4, <1>5
  <2>2. G(s)[s] = IF s = {} THEN Copied ELSE PutBack(Taken(s), G(s)[s \ {Taken(s)}])
    <3> HIDE DEF G
    <3> QED
    BY <2>1 DEF Folded
  <2>3. CASE s = {}
    BY <2>2, <2>3
  <2>4. CASE s # {}
    <3> DEFINE r == s \ {Taken(s)}
    <3>1. r \in SUBSET t /\ r # t /\ r \subseteq s
      BY <1>5
    <3>2. Folded(G(r), r) /\ IsFiniteSet(r)
      BY <1>2, <1>4, <3>1
    <3>3. G(r)[r] = G(s)[r]
      <4> HIDE DEF G, r
      <4> QED
        BY <2>1, <3>1, <3>2, FoldedAgree
    <3> HIDE DEF G
    <3>4. h[s] = PutBack(Taken(s), G(r)[r])
      BY <2>4
    <3>5. QED
      BY <2>2, <2>4, <3>3, <3>4
  <2>5. QED
    BY <2>3, <2>4
<1>6. ASSUME NEW s \in SUBSET t
      PROVE  h[s] = IF s = {} THEN Copied ELSE PutBack(Taken(s), h[s \ {Taken(s)}])
  <2>1. CASE s = {}
    BY <2>1
  <2>2. CASE s # {}
    <3> DEFINE r == s \ {Taken(s)}
    <3>1. r \in SUBSET t /\ r # t
      BY <2>2, TakenIn
    <3>2. h[r] = G(r)[r]
      BY <1>5, <3>1
    <3>3. h[s] = PutBack(Taken(s), G(r)[r])
      BY <2>2
    <3> HIDE DEF G, h, r
    <3>4. h[s] = PutBack(Taken(s), h[r])
      BY <3>2, <3>3
    <3> QED
      BY <2>2, <3>4 DEF r
  <2>3. QED
    BY <2>1, <2>2
<1>7. Folded(h, t)
  <2> DEFINE k == [s \in SUBSET t |-> IF s = {} THEN Copied
                            ELSE PutBack(Taken(s), h[s \ {Taken(s)}])]
  <2>1. h = [s \in SUBSET t |-> h[s]]
    OBVIOUS
  <2> HIDE DEF h
  <2>2. h = k
    BY <1>6, <2>1
  <2>3. QED
    BY <2>2 DEF Folded
<1>8. QED
  BY <1>3, <1>7

\* A copy on its way back: what it still holds of the one that was taken.
GivesBack(copied) ==
  /\ copied = [book |-> copied.book, said |-> copied.said]
  /\ copied.book \in [Emails -> Names \cup {Blank, None}]
  /\ copied.said \in [{c \in Recipients : There(c)} -> Details]
  /\ \A e \in Emails : Copied.book[e] # None =>
       copied.book[e] = Copied.book[e] \/ Copied.book[e] = Blank
  /\ \A c \in DOMAIN Copied.said :
       recipient[c].book # None => copied.said[c] = Copied.said[c]

LEMMA CopiedGivesBack ==
  ASSUME TypeOK
  PROVE  GivesBack(Copied)
<1>1. \A c \in Recipients : There(c) => Said(c) \in Details
  BY RowParts DEF Said, Snapshots, Details
<1>2. \A e \in Emails : Known(e) # {} =>
        entry[CHOOSE b \in Known(e) : TRUE].name \in Names \cup {Blank}
  <2> SUFFICES ASSUME NEW e \in Emails, Known(e) # {}
               PROVE  entry[CHOOSE b \in Known(e) : TRUE].name \in Names \cup {Blank}
    OBVIOUS
  <2>1. PICK b \in Known(e) : b = CHOOSE x \in Known(e) : TRUE
    OBVIOUS
  <2>2. entry[b] \in Details
    BY RowParts DEF Known
  <2>3. QED
    BY <2>1, <2>2 DEF Details
<1>3. QED
  BY <1>1, <1>2 DEF GivesBack, Copied

LEMMA PutBackGivesBack ==
  ASSUME TypeOK, NEW copied, GivesBack(copied), NEW c \in Recipients, There(c)
  PROVE  GivesBack(PutBack(c, copied))
<1>1. CASE recipient[c].book # None
  BY <1>1 DEF PutBack
<1>2. CASE recipient[c].book = None
  <2> DEFINE e    == copied.said[c].email
             held == copied.book[e]
             name == IF held \in {None, Blank} THEN copied.said[c].name ELSE held
             says == [copied.said[c] EXCEPT !.name = IF @ = Blank THEN name ELSE @]
  <2>1. /\ copied.said[c] \in Details /\ e \in Emails
        /\ held \in Names \cup {Blank, None} /\ name \in Names \cup {Blank}
        /\ says \in Details
    BY DEF GivesBack, Details
  <2>2. ASSUME Copied.book[e] # None, Copied.book[e] # Blank
        PROVE  name = Copied.book[e]
    <3>1. held = Copied.book[e]
      BY <2>1, <2>2 DEF GivesBack
    <3>2. QED
      BY <2>2, <3>1
  <2>3. PutBack(c, copied) = [book |-> [copied.book EXCEPT ![e] = name],
                              said |-> [copied.said EXCEPT ![c] = says]]
    BY <1>2 DEF PutBack
  <2> HIDE DEF e, held, name, says
  <2>4. QED
    BY <1>2, <2>1, <2>2, <2>3 DEF GivesBack
<1>3. QED
  BY <1>1, <1>2

LEMMA FoldedGivesBack ==
  ASSUME TypeOK, NEW top, top \subseteq {c \in Recipients : There(c)}, IsFiniteSet(top),
         NEW f, Folded(f, top)
  PROVE  \A s \in SUBSET top : GivesBack(f[s])
<1> DEFINE bad == {s \in SUBSET top : ~GivesBack(f[s])}
<1>1. SUFFICES ASSUME bad # {} PROVE FALSE
  OBVIOUS
<1>2. PICK s \in bad : \A r \in bad : ~(r \subseteq s /\ r # s)
  <2>1. bad \in SUBSET FiniteSubsetsOf(top)
    BY FS_Subset DEF FiniteSubsetsOf
  <2>2. bad # {}
    BY <1>1
  <2> HIDE DEF bad
  <2>3. QED
    BY <2>1, <2>2, Smallest
<1>3. f[s] = IF s = {} THEN Copied ELSE PutBack(Taken(s), f[s \ {Taken(s)}])
  BY DEF Folded
<1>4. s # {}
  BY <1>3, CopiedGivesBack
<1>5. GivesBack(f[s \ {Taken(s)}]) /\ Taken(s) \in Recipients /\ There(Taken(s))
  BY <1>2, <1>4, TakenIn
<1>6. GivesBack(f[s])
  BY <1>3, <1>4, <1>5, PutBackGivesBack
<1>7. QED
  BY <1>6

LEMMA RestoreKeeps ==
  ASSUME TypeOK, IsFiniteSet(Recipients)
  PROVE  RestoreGivesBack
<1> DEFINE s == {c \in Recipients : There(c)}
           f == CHOOSE g : Folded(g, s)
<1>1. IsFiniteSet(s)
  BY FS_Subset
<1>2. Folded(f, s)
  BY <1>1, FoldedExists
<1>3. Restored = f[s]
  BY DEF Restored, FoldSet, MapThenFoldSet, Folded, Taken
<1>4. GivesBack(f[s])
  <2> HIDE DEF f
  <2>1. s \in SUBSET s
    OBVIOUS
  <2>2. QED
    BY <1>1, <1>2, <2>1, FoldedGivesBack
<1>5. GivesBack(Restored)
  BY <1>3, <1>4
<1>6. QED
  BY <1>5 DEF GivesBack, RestoreGivesBack

-----------------------------------------------------------------------------
(* The theorems.                                                           *)

LEMMA StepStands ==
  ASSUME BookStands, [Next]_vars
  PROVE  BookStands' /\ StepKeeps
<1>1. CASE UNCHANGED vars
  BY <1>1, BothStay DEF vars, BookStands, TypeOK, CopyMet
<1>2. CASE Next
  BY <1>2, AddStands, UpdateStands, RemoveStands, InsertStands, CopyInsertStands,
     ReadStands, MarkStands, DropStands, OutcomeStands DEF Next
<1>3. QED
  BY <1>1, <1>2

\* Whatever imports, copies, corrections, removals and launches run beside the
\* worker (src/backend/src/services/addressBook.ts): one entry per address, one
\* recipient per address in a campaign, and a recipient the log says nothing of is
\* of a person still in the book.
THEOREM BookHolds == Spec => [](TypeOK /\ OneEach /\ NobodyLeftBehind)
<1>1. BookStands /\ [Next]_vars => BookStands'
  BY StepStands
<1>2. BookStands => TypeOK /\ OneEach /\ NobodyLeftBehind
  BY DEF BookStands
<1>3. QED
  BY InitStands, <1>1, <1>2, PTL DEF Spec

\* The same, and a restored copy of the tables (src/backend/src/services/backup.ts)
\* loses nobody of the book, and changes no name it has and no recipient linked to it.
THEOREM BookIsSafe ==
  ASSUME IsFiniteSet(Recipients)
  PROVE  Spec => []BookInv
<1>1. BookStands /\ [Next]_vars => BookStands'
  BY StepStands
<1>2. BookStands => BookInv
  BY RestoreKeeps DEF BookStands, BookInv
<1>3. QED
  BY InitStands, <1>1, <1>2, PTL DEF Spec

\* Nothing but the user rewrites an entry, nothing a recipient with an outcome, only
\* the user's own deletion takes one the log speaks of, and one joins a launched
\* campaign only by a request that found it a draft
\* (src/backend/migrations/1790070000000_address-book.sql, routes/contacts.ts).
THEOREM BookKept == Spec => BookKeeps
<1>1. BookStands /\ [Next]_vars => BookStands'
  BY StepStands
<1>2. BookStands /\ [Next]_vars => [\A b \in Entries : EntryKept(b)]_vars
  BY StepStands DEF StepKeeps
<1>3. BookStands /\ [Next]_vars => [\A c \in Recipients : RecipientFixed(c)]_vars
  BY StepStands DEF StepKeeps
<1>4. QED
  BY InitStands, <1>1, <1>2, <1>3, PTL DEF Spec, BookKeeps, EntriesKeep, RecipientsFixed
=============================================================================

------------------------------- MODULE Import -------------------------------
(***************************************************************************)
(* A file of contacts into a campaign or into the address book: the dialog *)
(* (ImportDialog.tsx), the slices it is sent in (services/contacts.ts,     *)
(* services/addressBook.ts of the front end) and what the API does with    *)
(* each (contactImport.ts, insertMany, importRows).                        *)
(*                                                                         *)
(* Closing the dialog forgets its file and does not stop the slices: a     *)
(* second file can be under way beside the first, and each may fail        *)
(* half-way.                                                               *)
(***************************************************************************)
EXTENDS Naturals, Sequences, FiniteSets

CONSTANTS
  Emails,      \* addresses, normalised
  Bad,         \* a cell that is not an address
  Files,       \* the files at hand: sequences of Emails \cup {Bad}
  Slice,       \* IMPORT_BATCH_LIMIT
  MaxRuns,     \* bound: imports started
  MaxLosses,   \* bound: requests that fail on their way there or back
  Nil

VARIABLES
  target,    \* where the rows go: "campaign" or "book"
  stored,    \* the addresses it holds
  addedBy,   \* history: the import that added each
  counted,   \* what the page under the dialog believes it holds
  open, parsed, importing, report,  \* ImportDialog's state
  run,       \* the imports under way
  started, losses

dialog == <<open, parsed, importing, report>>
ivars == <<target, stored, addedBy, counted, dialog, run, started, losses>>

-----------------------------------------------------------------------------
Runs == 1..MaxRuns

\* The rows of the slice an import has reached; line 1 of the file is its header.
End(r)  == IF run[r].at + Slice < Len(run[r].file) THEN run[r].at + Slice ELSE Len(run[r].file)
Rows(r) == (run[r].at + 1)..End(r)

Line(r, i) == i + 1

\* collectContacts: the first row of each new address is accepted.
First(r, i) == \A j \in Rows(r) : j < i => run[r].file[j] # run[r].file[i]
Accepted(r) ==
  {run[r].file[i] : i \in {j \in Rows(r) : run[r].file[j] \notin {Bad} \cup run[r].existing}}
Reason(r, i) ==
  LET e == run[r].file[i] IN
  CASE e = Bad -> "invalid_email"
    [] e \in run[r].existing -> "already_imported"
    [] OTHER -> "duplicate_in_file"
Rejected(r) ==
  {[line |-> Line(r, i), reason |-> Reason(r, i)] : i \in
     {j \in Rows(r) : run[r].file[j] \in {Bad} \cup run[r].existing \/ ~First(r, j)}}

Init ==
  /\ target \in {"campaign", "book"}
  /\ stored \in {{}} \cup {{e} : e \in Emails}
  /\ addedBy = [e \in Emails |-> 0]
  /\ counted = Cardinality(stored)
  /\ open = FALSE /\ parsed = Nil /\ importing = FALSE /\ report = Nil
  /\ run = [r \in Runs |-> Nil]
  /\ started = 0 /\ losses = 0

-----------------------------------------------------------------------------
(* The dialog.                                                             *)

Open ==
  /\ ~open
  /\ open' = TRUE
  /\ UNCHANGED <<target, stored, addedBy, counted, parsed, importing, report, run, started, losses>>

Choose(f) ==
  /\ open /\ report = Nil /\ parsed = Nil
  /\ parsed' = f
  /\ UNCHANGED <<target, stored, addedBy, counted, open, importing, report, run, started, losses>>

ChangeFile ==
  /\ open /\ report = Nil /\ parsed # Nil /\ ~importing
  /\ parsed' = Nil
  /\ UNCHANGED <<target, stored, addedBy, counted, open, importing, report, run, started, losses>>

\* run: the rows, mapped to the four fields, slice after slice.
Start ==
  /\ open /\ report = Nil /\ parsed # Nil /\ ~importing /\ started < MaxRuns
  /\ started' = started + 1
  /\ run' = [run EXCEPT ![started + 1] =
       [file |-> parsed, at |-> 0, imported |-> 0, rejected |-> {}, step |-> "asked",
        existing |-> {}, got |-> 0]]
  /\ importing' = TRUE
  /\ UNCHANGED <<target, stored, addedBy, counted, open, parsed, report, losses>>

\* Escape, the cross, or "Terminé": whatever the dialog shows is forgotten ...
Close ==
  /\ open
  /\ open' = FALSE
  /\ parsed' = Nil /\ report' = Nil /\ importing' = FALSE
  /\ UNCHANGED <<target, stored, addedBy, counted, run, started, losses>>

\* ... and so it is for another file.
Another ==
  /\ open /\ report # Nil
  /\ parsed' = Nil /\ report' = Nil /\ importing' = FALSE
  /\ UNCHANGED <<target, stored, addedBy, counted, open, run, started, losses>>

-----------------------------------------------------------------------------
(* One slice on the server.                                                *)

\* A campaign's addresses are read before the rows are looked at; the book is
\* left to its index.
Read(r) ==
  /\ run[r] # Nil /\ run[r].step = "asked"
  /\ run' = [run EXCEPT ![r].step = "collected",
                        ![r].existing = IF target = "campaign" THEN stored ELSE {}]
  /\ UNCHANGED <<target, stored, addedBy, counted, dialog, started, losses>>

\* Variant: the rows accepted are the rows imported.
CountAccepted(r) == Cardinality(Accepted(r))

\* rowCount, or xmax = 0: what the index let in.
Count(r) == Cardinality(Accepted(r) \ stored)

Insert(r) ==
  /\ run[r] # Nil /\ run[r].step = "collected"
  /\ stored' = stored \cup Accepted(r)
  /\ addedBy' = [e \in Emails |-> IF e \in Accepted(r) \ stored THEN r ELSE addedBy[e]]
  /\ run' = [run EXCEPT ![r].step = "answered", ![r].got = Count(r)]
  /\ UNCHANGED <<target, counted, dialog, started, losses>>

-----------------------------------------------------------------------------
(* Its answer.                                                             *)

Merged(r) == [run[r] EXCEPT !.imported = @ + run[r].got, !.rejected = @ \cup Rejected(r)]

NextSlice(r) ==
  /\ run[r] # Nil /\ run[r].step = "answered" /\ End(r) < Len(run[r].file)
  /\ run' = [run EXCEPT ![r] =
       [Merged(r) EXCEPT !.at = End(r), !.step = "asked", !.existing = {}, !.got = 0]]
  /\ UNCHANGED <<target, stored, addedBy, counted, dialog, started, losses>>

\* The last one: the report takes the dialog, whatever it showed meanwhile.
Finish(r) ==
  /\ run[r] # Nil /\ run[r].step = "answered" /\ End(r) = Len(run[r].file)
  /\ report' = [by |-> r, file |-> run[r].file, imported |-> Merged(r).imported,
                rejected |-> Merged(r).rejected]
  /\ parsed' = Nil /\ importing' = FALSE
  /\ run' = [run EXCEPT ![r] = Nil]
  /\ UNCHANGED <<target, stored, addedBy, counted, open, started, losses>>

\* A slice fails, on its way there or back: a toast, and the rest is not sent.
Lose(r) ==
  /\ run[r] # Nil /\ run[r].step \in {"asked", "answered"} /\ losses < MaxLosses
  /\ losses' = losses + 1
  /\ run' = [run EXCEPT ![r] = Nil]
  /\ importing' = FALSE
  /\ UNCHANGED <<target, stored, addedBy, counted, open, parsed, report, started>>

\* onImported: the page reads its figures again.
Recount ==
  /\ report # Nil /\ counted # Cardinality(stored)
  /\ counted' = Cardinality(stored)
  /\ UNCHANGED <<target, stored, addedBy, dialog, run, started, losses>>

Next ==
  \/ Open \/ ChangeFile \/ Start \/ Close \/ Another \/ Recount
  \/ \E f \in Files : Choose(f)
  \/ \E r \in Runs : Read(r) \/ Insert(r) \/ NextSlice(r) \/ Finish(r) \/ Lose(r)

Spec == Init /\ [][Next]_ivars

-----------------------------------------------------------------------------
\* Type correctness.
ImportTypes ==
  /\ stored \subseteq Emails
  /\ addedBy \in [Emails -> 0..MaxRuns]
  /\ counted \in 0..Cardinality(Emails)
  /\ {open, importing} \subseteq BOOLEAN
  /\ parsed \in Files \cup {Nil}
  /\ started \in 0..MaxRuns /\ losses \in 0..MaxLosses

\* A report is true of its file whatever ran beside it, failed before it or was
\* closed under it: it counts what this import added and nobody else's, each line
\* it refuses is the line of the file it names, and every address of the file that
\* it does not refuse as invalid is there (ImportDialog.tsx, run; contactImport.ts).
ReportIsTrue ==
  ImportTypes /\
  (report # Nil =>
    /\ report.imported = Cardinality({e \in Emails : addedBy[e] = report.by})
    /\ \A i \in 1..Len(report.file) :
         LET said == {x \in report.rejected : x.line = i + 1} IN
         /\ Cardinality(said) <= 1
         /\ report.file[i] = Bad <=> \E x \in said : x.reason = "invalid_email"
         /\ report.file[i] # Bad => report.file[i] \in stored)

\* What an import under way has reached.
Reasons == {"invalid_email", "already_imported", "duplicate_in_file"}
RunOK(r) ==
  /\ run[r] = [file |-> run[r].file, at |-> run[r].at, imported |-> run[r].imported,
               rejected |-> run[r].rejected, step |-> run[r].step,
               existing |-> run[r].existing, got |-> run[r].got]
  /\ run[r].file \in Files /\ run[r].at \in 0..Len(run[r].file)
  /\ run[r].imported \in Nat /\ run[r].got \in Nat
  /\ \A x \in run[r].rejected : x.line \in 2..(run[r].at + 1)
  /\ run[r].step \in {"asked", "collected", "answered"}
  /\ run[r].step # "answered" => run[r].got = 0
  /\ run[r].existing \subseteq stored

\* What is said of line i + 1 of a file is so.
LineIsTrue(file, rejected, i) ==
  LET said == {x \in rejected : x.line = i + 1} IN
  /\ Cardinality(said) <= 1
  /\ file[i] = Bad <=> \E x \in said : x.reason = "invalid_email"
  /\ file[i] # Bad => file[i] \in stored

Added(r) == {e \in Emails : addedBy[e] = r}

\* What it counts is what it added, what it said of the slices before is so, and the
\* addresses of a slice that was answered are there.
RunIsTrue(r) ==
  /\ run[r].imported + run[r].got = Cardinality(Added(r))
  /\ \A i \in 1..run[r].at : LineIsTrue(run[r].file, run[r].rejected, i)
  /\ run[r].step = "answered" =>
       \A i \in Rows(r) : run[r].file[i] # Bad => run[r].file[i] \in stored

RunInv(r) == run[r] # Nil => r <= started /\ RunOK(r) /\ RunIsTrue(r)

\* What was added is there, and was added by an import that was started.
AddedIsStored == \A e \in Emails : addedBy[e] \in 0..started /\ (addedBy[e] # 0 => e \in stored)

\* A report is of an import that is over.
ReportInv ==
  report # Nil =>
    /\ report.by \in 1..started /\ run[report.by] = Nil
    /\ report.imported = Cardinality(Added(report.by))
    /\ \A i \in 1..Len(report.file) : LineIsTrue(report.file, report.rejected, i)

\* All of it together: the inductive invariant.
ImportInv ==
  /\ ImportTypes /\ DOMAIN run = Runs
  /\ AddedIsStored /\ ReportInv /\ \A r \in Runs : RunInv(r)

\* ImportDialog.tsx:107, "How many contacts the campaign already holds, so the
\* dialog can say 'ajoutés à'", and :240, "La campagne en compte maintenant".  It
\* does not hold: once the page has counted again, what was added is counted twice.
TotalIsTrue ==
  (report # Nil /\ target = "campaign" /\ \A r \in Runs : run[r] = Nil) =>
    (counted = Cardinality(stored) => counted + report.imported = Cardinality(stored))
=============================================================================

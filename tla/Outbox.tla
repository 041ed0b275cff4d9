------------------------------- MODULE Outbox -------------------------------
(***************************************************************************)
(* What the send engine promises, without saying how.  A contact is taken  *)
(* only while its campaign runs and given back once; while it is taken it  *)
(* may receive its one message; what the log reports as sent did leave.    *)
(* docs/send-engine.md, "Idempotency, in three layers".                    *)
(***************************************************************************)
EXTENDS Naturals

CONSTANT Contacts

VARIABLES
  open,      \* contacts whose campaign is running
  taken,     \* contacts some worker has in hand
  inbox,     \* messages each contact received
  reported   \* contacts the log says were sent

vars == <<open, taken, inbox, reported>>

Init ==
  /\ open = {}
  /\ taken = {}
  /\ inbox = [c \in Contacts |-> 0]
  /\ reported = {}

Take(c) ==
  /\ c \in open \ taken
  /\ taken' = taken \cup {c}
  /\ UNCHANGED <<open, inbox, reported>>

Receive(c) ==
  /\ c \in taken
  /\ inbox[c] = 0
  /\ inbox' = [inbox EXCEPT ![c] = 1]
  /\ UNCHANGED <<open, taken, reported>>

\* With or without a report; the last contact given back may close a campaign.
GiveBack(c) ==
  /\ c \in taken
  /\ taken' = taken \ {c}
  /\ reported' \in {reported} \cup {reported \cup {d} : d \in {c} \cap {e \in Contacts : inbox[e] = 1}}
  /\ open' \subseteq open
  /\ UNCHANGED inbox

\* Campaigns start, pause, resume, complete.
Switch(contacts) ==
  /\ open' = contacts
  /\ UNCHANGED <<taken, inbox, reported>>

\* A report outlives its use and is purged.
Forget(c) ==
  /\ reported' = reported \ {c}
  /\ UNCHANGED <<open, taken, inbox>>

Next ==
  \/ \E c \in Contacts : Take(c) \/ Receive(c) \/ GiveBack(c) \/ Forget(c)
  \/ \E contacts \in SUBSET Contacts : Switch(contacts)

Spec == Init /\ [][Next]_vars
=============================================================================

------------------------------- MODULE MCBook -------------------------------
(* Finite instances of Book for TLC. *)
EXTENDS Book, TLC

\* No action names an id, an address or a value, and no liveness is checked.
Symmetry == Permutations(Entries) \cup Permutations(Recipients)
              \cup Permutations(Emails)
=============================================================================

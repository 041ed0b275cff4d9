------------------------------- MODULE MCDesk -------------------------------
(* Finite instances of Desk for TLC. *)
EXTENDS Desk, TLC

\* Requests and files are interchangeable: no action names one, and no
\* liveness is checked here.
Symmetry == Permutations(Requests) \cup Permutations(Files)
=============================================================================

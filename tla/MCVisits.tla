------------------------------ MODULE MCVisits ------------------------------
(* Visits for TLC: one appointment, two tickets, two providers. *)
EXTENDS Visits, TLC

Identifiers == Permutations(Staff) \cup Permutations(Request)
=============================================================================

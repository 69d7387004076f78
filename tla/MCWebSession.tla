---------------------------- MODULE MCWebSession ----------------------------
(* WebSession for TLC. *)
EXTENDS WebSession, TLC

Identifiers == Permutations(Tab) \cup Permutations(Caller) \cup Permutations(Session)
=============================================================================

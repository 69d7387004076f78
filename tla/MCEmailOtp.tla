----------------------------- MODULE MCEmailOtp -----------------------------
(* EmailOtp for TLC: one address, up to four codes, two attempts each. *)
EXTENDS EmailOtp, TLC

Identifiers == Permutations(Challenge) \cup Permutations(Request)
=============================================================================

--------------------------- MODULE MCMobileSession ---------------------------
(* MobileSession for TLC: two requests refused at once, two sign-ins. *)
EXTENDS MobileSession, TLC

Identifiers == Permutations(Caller) \cup Permutations(Session)
=============================================================================

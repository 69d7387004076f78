---------------------------- MODULE MCMemberships ----------------------------
(***************************************************************************)
(* Two users, one of whom founds one of two organizations under one key,   *)
(* two invitations, each resent at most once, and a plan of two seats.     *)
(***************************************************************************)
EXTENDS Memberships, TLC

Names == Permutations(Organization) \cup Permutations(Task)
=============================================================================

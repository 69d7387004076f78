---------------------------- MODULE MCCashDrawer ----------------------------
(* CashDrawer for TLC: registers, sessions and requests are interchangeable. *)
EXTENDS CashDrawer, TLC

Identifiers == Permutations(Ids) \cup Permutations(Entries)
                 \cup Permutations(Requests) \cup Permutations(Registers)
=============================================================================

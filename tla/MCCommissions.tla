---------------------------- MODULE MCCommissions ----------------------------
(* Commissions for TLC.                                                      *)
EXTENDS Commissions, TLC

Scope(branch, staff, service) == [branch |-> branch, staff |-> staff, service |-> service]

\* One branch, one staff member, one service.  A staff member's own rule, and one
\* for a service at a branch: more columns, and still less specific.
TwoScopes == {Scope(Wildcard, "ama", Wildcard), Scope("accra", Wildcard, "cut")}

Identifiers == Permutations(Ids) \cup Permutations(Requests)

Terms(type, rate, fixed, basis) ==
    [type |-> type, rate |-> rate, fixed |-> fixed, basis |-> basis]

\* A share of the net amount, half of the price, a fixed amount above the prices.
Policies == {Terms("PERCENTAGE", 3333, 0, "NET_LINE_AFTER_ADJUSTMENTS"),
             Terms("PERCENTAGE", 5000, 0, "GROSS_LINE"),
             Terms("FIXED", 0, 8, "GROSS_LINE")}

ThreeLines == {"cut", "wash", "oil"}
InThisOrder == [l \in ThreeLines |-> CASE l = "cut" -> 0 [] l = "wash" -> 1 [] l = "oil" -> 2]
BothWays == {-5, -1, 2}
=============================================================================

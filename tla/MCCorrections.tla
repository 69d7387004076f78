--------------------------- MODULE MCCorrections ---------------------------
(* Corrections of one small sale for TLC: a haircut and a bottle of oil.    *)
EXTENDS Corrections, TLC

LinePrice == [l \in Lines |-> IF l \in ProductLines THEN 2 ELSE 40]
Units == [l \in ProductLines |-> 2]
NoDiscount == 0
OneOff == -1

\* The owner alone, or the owner and the manager.
OneOrBoth == {Owners, Owners \cup Executors}

\* Half of the haircut's price; 1 and 39 of it, each rounded up, exceed it.
HalfRule == [type |-> "PERCENTAGE", rate |-> 5000, fixed |-> 0, basis |-> "GROSS_LINE"]
HaircutAccrual == [l \in Lines \ ProductLines |->
    [rule |-> HalfRule, basisAmount |-> LinePrice[l],
     amount |-> CommissionAmount(HalfRule, LinePrice[l])]]

Service == Lines \ ProductLines
SomeItems == {[l \in Service |-> 1], [l \in ProductLines |-> 1],
              [l \in Lines |-> IF l \in ProductLines THEN 2 ELSE 39]}

Identifiers == Permutations(Ids) \cup Permutations(Requests) \cup Permutations(Keys)
=============================================================================

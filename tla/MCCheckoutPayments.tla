------------------------- MODULE MCCheckoutPayments -------------------------
(* CheckoutPayments with small sets of identifiers for TLC.                 *)
EXTENDS CheckoutPayments, TLC

DeltaSet == {-2}

\* Payment and key identifiers and request slots are interchangeable.
Identifiers == Permutations(Payments) \cup Permutations(Keys) \cup Permutations(Requests)
=============================================================================

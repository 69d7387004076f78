--------------------------- MODULE MCStockLedger ---------------------------
(* StockLedger for TLC: two units of each variant, and sales and returns of *)
(* one or two of them.                                                      *)
EXTENDS StockLedger, TLC

TwoEach == [v \in Variants |-> 2]
Of(v, d) == [variant |-> v, delta |-> d]

\* No product, one line, the same variant twice, or two variants in either order; and
\* a return.
SalesAndReturns ==
    {<<>>} \cup {<<Of(v, d)>> : v \in Variants, d \in {-2, 1}}
      \cup {<<Of(v, -1), Of(w, -1)>> : v \in Variants, w \in Variants}
Changes == {-1, 3}

Identifiers == Permutations(Variants) \cup Permutations(Settlements)
                 \cup Permutations(Transactions \ Settlements)
=============================================================================

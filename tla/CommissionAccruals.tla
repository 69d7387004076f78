------------------------- MODULE CommissionAccruals -------------------------
(***************************************************************************)
(* The commission of one SALE: the accruals written while the sale posts,  *)
(* and the corrective accruals every executed correction of the sale adds. *)
(* Posting and corrections each run inside one database transaction under  *)
(* a lock on the checkout or on the sale (modules CheckoutPayments and     *)
(* Corrections), so here each is one step.  What varies is the data: any   *)
(* mix of SERVICE and PRODUCT lines, discount or surcharge, and policy.    *)
(***************************************************************************)
EXTENDS CommissionMath

CONSTANTS
    Lines,        \* line items of the checkout
    Order,        \* Order[l]: the displayOrder of line l, distinct
    Kinds,        \* kinds of line this instance considers
    Prices,       \* gross prices a line may have
    Adjustments,  \* what the checkout's adjustments may add up to
    Rules,        \* rules that may match a line (NONE: no policy)
    MaxSteps      \* bound: corrections of a sale that are considered

\* What the instance has to choose; MCCommissions assumes it.
DataSound ==
    /\ IsFiniteSet(Lines) /\ Lines # {}
    /\ Order \in [Lines -> Nat]
    /\ \A k, l \in Lines : Order[k] = Order[l] => k = l
    /\ Prices \subseteq Nat \ {0}
    /\ Adjustments \subseteq Int
    /\ \A rule \in Rules :
          /\ rule.type \in {"PERCENTAGE", "FIXED", "NONE"}
          /\ rule.rate \in 0 .. BasisPoints
          /\ rule.fixed \in Nat
          /\ rule.basis \in {"GROSS_LINE", "NET_LINE_AFTER_ADJUSTMENTS"}

VARIABLES
    line,        \* the sale's lines: kind, gross price, displayOrder
    adjustment,  \* the sale's adjustmentTotalMinor
    matched,     \* the rule selectMostSpecificRule picks for each line
    accrual,     \* table commission_accruals, the EARNED rows, by line
    refunded,    \* what executed corrections took back of each line
    reversed,    \* table commission_accruals: the sum of the corrective rows of each line
    steps,       \* number of corrections executed (bounded by MaxSteps)
    parts        \* history: in how many of them each line was given back, or a part of it

vars == <<line, adjustment, matched, accrual, refunded, reversed, steps, parts>>
sale == <<line, adjustment, matched>>

ServiceLines == {l \in Lines : line[l].kind = "SERVICE"}
-----------------------------------------------------------------------------
\* accrueForTransaction: the amount the commission of a line is computed on.
\* The adjustment of the whole sale is shared among its SERVICE lines only.
BasisOf(l) ==
    IF matched[l].basis = "GROSS_LINE" THEN line[l].gross
    ELSE NetAmount(line, ServiceLines, adjustment, l)

\* The table refuses a negative basis (commission_accruals_basis_amount_non_negative),
\* and the rounding of a percentage refuses to compute one: the posting rolls back.
Accruable(l) == BasisOf(l) >= 0

Post ==
    /\ DOMAIN accrual = {}
    /\ \A l \in ServiceLines : Accruable(l)
    /\ accrual' = [l \in ServiceLines |->
          [rule |-> matched[l], basisAmount |-> BasisOf(l),
           amount |-> CommissionAmount(matched[l], BasisOf(l))]]
    /\ UNCHANGED <<sale, refunded, reversed, steps, parts>>

\* adjustForCorrection: one executed correction takes `amounts' back, each
\* within what its line has left (CorrectionExecution checks it under the lock).
Correct(amounts) ==
    /\ DOMAIN accrual # {}
    /\ steps < MaxSteps
    /\ \A l \in DOMAIN amounts : refunded[l] + amounts[l] <= line[l].gross
    /\ refunded' = [l \in Lines |->
          IF l \in DOMAIN amounts THEN refunded[l] + amounts[l] ELSE refunded[l]]
    /\ reversed' = [l \in DOMAIN reversed |->
          IF l \in DOMAIN amounts \cap DOMAIN accrual
          THEN reversed[l] + Adjustment(accrual[l], reversed[l], amounts[l], line[l].gross)
          ELSE reversed[l]]
    /\ steps' = steps + 1
    /\ parts' = [l \in Lines |-> IF l \in DOMAIN amounts THEN parts[l] + 1 ELSE parts[l]]
    /\ UNCHANGED <<sale, accrual>>

\* A REVERSAL takes every line back whole.
Whole == [l \in Lines |-> line[l].gross]

\* Any checkout that can be paid: a total above zero.
Init ==
    /\ \E kind \in [Lines -> Kinds], gross \in [Lines -> Prices] :
          line = [l \in Lines |-> [kind |-> kind[l], gross |-> gross[l], order |-> Order[l]]]
    /\ adjustment \in Adjustments
    /\ GrossOf(line, Lines) + adjustment > 0
    /\ matched \in [Lines -> Rules]
    /\ accrual = [l \in {} |-> 0]
    /\ refunded = [l \in Lines |-> 0]
    /\ reversed = [l \in Lines |-> 0]
    /\ steps = 0
    /\ parts = [l \in Lines |-> 0]

Next ==
    \/ Post
    \/ Correct(Whole)
    \/ \E l \in Lines : \E a \in 1 .. line[l].gross : Correct([k \in {l} |-> a])

Spec == Init /\ [][Next]_vars
-----------------------------------------------------------------------------
(* Properties.                                                             *)

ServicesOnly == ServiceLines = Lines
Net(l) == NetAmount(line, ServiceLines, adjustment, l)

\* Every accrual has a basis and an amount its table accepts.
TypeOK ==
    /\ DOMAIN accrual \subseteq Lines
    /\ \A l \in DOMAIN accrual :
          /\ accrual[l].rule \in Rules
          /\ accrual[l].basisAmount \in Nat
          /\ accrual[l].amount \in Nat
    /\ refunded \in [Lines -> Nat]
    /\ reversed \in [Lines -> Nat]

\* The net amounts of a sale of services add up exactly to its total, for
\* discounts and surcharges alike.
SharesAddUp ==
    ServicesOnly => SumFunction([l \in Lines |-> Net(l)]) = GrossOf(line, Lines) + adjustment

\* Rounding never turns the order of two lines around: the line with the larger
\* price keeps at least as much of it (as long as the services are worth the discount).
LargerLineKeepsMore ==
    \A k, l \in ServiceLines :
        (GrossOf(line, ServiceLines) + adjustment >= 0 /\ line[k].gross >= line[l].gross) =>
        \/ Net(k) >= Net(l)
        \/ line[k].gross = line[l].gross /\ line[k].order > line[l].order

\* No discount a sale of services can have makes the basis of a commission
\* negative, so its posting is never refused on that account.
ServiceSalesPost == ServicesOnly => \A l \in Lines : Accruable(l)

\* A discount or surcharge is shared out exactly, in the order of the prices, and
\* never blocks a sale of services (commission-adjustment-allocation.util.ts:23-78).
SharesSound == TypeOK /\ SharesAddUp /\ LargerLineKeepsMore /\ ServiceSalesPost

\* However many corrections take back however much of a line, in whatever parts,
\* its commission follows, and a line without a commission gives none back.  Each
\* part is rounded and capped by what is left, so a line given back whole in
\* several parts may keep a residue: fewer minor units than there were parts
\* (commission-adjustment.service.ts:59-90).
ReversalsSound ==
    \A l \in Lines :
        IF l \in DOMAIN accrual
        THEN FollowsShare(accrual[l].amount, reversed[l], refunded[l], line[l].gross, parts[l])
        ELSE reversed[l] = 0

\* What the documents say and the code does not do.

\* The comment on calculateCommissionAmount: the caller has validated that the
\* basis amount is not negative.
BasisNeverNegative == \A l \in ServiceLines : BasisOf(l) >= 0
=============================================================================

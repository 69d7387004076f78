--------------------------- MODULE CommissionMath ---------------------------
(***************************************************************************)
(* The exact-integer arithmetic of the commission services.  Every amount  *)
(* is a number of minor currency units; the code computes with BigInt, so  *)
(* nothing overflows.  A line item is a record with its kind, its gross    *)
(* price and its displayOrder; a rule is a record [type, rate, fixed,      *)
(* basis], NONE also standing for "no rule matched".                       *)
(***************************************************************************)
EXTENDS Integers, FiniteSets, Functions

BasisPoints == 10000

Least(a, b) == IF a <= b THEN a ELSE b
AtLeastZero(a) == IF a >= 0 THEN a ELSE 0

\* roundHalfUpDivision: n / d rounded half up, for 0 <= n and 0 < d.
RoundHalfUp(n, d) == (2 * n + d) \div (2 * d)

\* calculateCommissionAmount.
CommissionAmount(rule, basisAmount) ==
    CASE rule.type = "NONE" -> 0
      [] rule.type = "FIXED" -> rule.fixed
      [] rule.type = "PERCENTAGE" -> RoundHalfUp(basisAmount * rule.rate, BasisPoints)
-----------------------------------------------------------------------------
(* allocateAdjustmentsAcrossLines: a signed adjustment shared among the    *)
(* lines of S in proportion to their gross amounts, by largest remainders. *)

GrossOf(line, S) == SumFunction([l \in S |-> line[l].gross])

\* Mutant: division as JavaScript's BigInt does it, towards zero.
TruncatedShare(line, S, adjustment, l) ==
    LET n == line[l].gross * adjustment IN
    IF n >= 0 THEN n \div GrossOf(line, S) ELSE -((-n) \div GrossOf(line, S))

FloorShare(line, S, adjustment, l) == (line[l].gross * adjustment) \div GrossOf(line, S)

Remainder(line, S, adjustment, l) ==
    line[l].gross * adjustment - FloorShare(line, S, adjustment, l) * GrossOf(line, S)

\* What the floors leave over goes out one unit at a time.
UnitsLeft(line, S, adjustment) ==
    adjustment - SumFunction([l \in S |-> FloorShare(line, S, adjustment, l)])

\* m comes before l: a larger remainder, or as large and displayed earlier.
RanksBefore(line, S, adjustment, m, l) ==
    LET rm == Remainder(line, S, adjustment, m)
        rl == Remainder(line, S, adjustment, l)
    IN rm > rl \/ (rm = rl /\ line[m].order < line[l].order)

ExtraUnit(line, S, adjustment, l) ==
    Cardinality({m \in S : RanksBefore(line, S, adjustment, m, l)}) < UnitsLeft(line, S, adjustment)

NetAmount(line, S, adjustment, l) ==
    IF GrossOf(line, S) = 0 THEN line[l].gross
    ELSE line[l].gross + FloorShare(line, S, adjustment, l)
           + (IF ExtraUnit(line, S, adjustment, l) THEN 1 ELSE 0)
-----------------------------------------------------------------------------
(* What a correction takes back of an EARNED accrual, given what earlier   *)
(* corrections already took back of it.                                    *)

Unreversed(accrual, already) == AtLeastZero(accrual.amount - already)

\* calculatePercentageAdjustmentBasis.
AdjustmentBasis(accrual, requested, gross) ==
    IF gross <= 0 THEN 0 ELSE RoundHalfUp(accrual.basisAmount * requested, gross)

PercentageAdjustment(accrual, already, requested, gross) ==
    Least(CommissionAmount(accrual.rule, AdjustmentBasis(accrual, requested, gross)),
          Unreversed(accrual, already))

\* Mutant: a part takes its share of what is left, not of what was earned.
FixedShareOfRest(accrual, already, requested, gross) ==
    IF gross <= 0 \/ requested >= gross THEN Unreversed(accrual, already)
    ELSE RoundHalfUp(Unreversed(accrual, already) * requested, gross)

\* calculateFixedAdjustmentAmount: a full-line correction takes what is left.
FixedAdjustment(accrual, already, requested, gross) ==
    IF gross <= 0 \/ requested >= gross THEN Unreversed(accrual, already)
    ELSE Least(RoundHalfUp(accrual.amount * requested, gross), Unreversed(accrual, already))

\* adjustForCorrection, for one corrective line item.
Adjustment(accrual, already, requested, gross) ==
    CASE accrual.rule.type = "PERCENTAGE" -> PercentageAdjustment(accrual, already, requested, gross)
      [] accrual.rule.type = "FIXED" -> FixedAdjustment(accrual, already, requested, gross)
      [] accrual.rule.type = "NONE" -> 0
-----------------------------------------------------------------------------
(* What the properties of both users of this arithmetic ask of a line.     *)

\* `taken' was taken back of a commission of `amount' when `back' of the line's
\* price `gross' was given back in `parts' parts: never more than was earned, the
\* share of the money to within the two roundings of each part, and of a line
\* given back whole all but fewer minor units than there were parts - nothing is
\* left when it was given back at once.
FollowsShare(amount, taken, back, gross, parts) ==
    /\ taken <= amount
    /\ amount * back - taken * gross <= 2 * parts * gross
    /\ taken * gross - amount * back <= 2 * parts * gross
    /\ back = gross => amount - taken < parts
=============================================================================

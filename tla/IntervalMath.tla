---------------------------- MODULE IntervalMath ----------------------------
(***************************************************************************)
(* The arithmetic of local-time intervals, as in interval-math.util.ts: a  *)
(* day's opening or availability is a sequence of ranges <<from, to>> of   *)
(* minutes, `to' excluded.                                                 *)
(***************************************************************************)
EXTENDS Integers, SequencesExt

\* Touching ranges are joined as overlapping ones are.
MergeInto(merged, range) ==
    IF merged # <<>> /\ range[1] <= Last(merged)[2]
    THEN [merged EXCEPT ![Len(merged)][2] = IF range[2] > @ THEN range[2] ELSE @]
    ELSE Append(merged, range)

MergeRanges(ranges) ==
    FoldLeft(MergeInto, <<>>, SortSeq(ranges, LAMBDA a, b : a[1] < b[1]))

Overlap(a, b) == <<IF a[1] > b[1] THEN a[1] ELSE b[1], IF a[2] < b[2] THEN a[2] ELSE b[2]>>

IntersectRanges(as, bs) ==
    MergeRanges(SetToSeq({o \in {Overlap(a, b) : a \in ToSet(as), b \in ToSet(bs)} : o[1] < o[2]}))

\* What one removed window leaves of a range: it, its two ends, one, or nothing.
Remaining(range, cut) ==
    IF cut[2] <= range[1] \/ cut[1] >= range[2] THEN <<range>>
    ELSE (IF cut[1] > range[1] THEN << <<range[1], cut[1]>> >> ELSE <<>>)
         \o (IF cut[2] < range[2] THEN << <<cut[2], range[2]>> >> ELSE <<>>)

SubtractRanges(base, removed) ==
    FoldLeft(LAMBDA left, cut : FlattenSeq([i \in DOMAIN left |-> Remaining(left[i], cut)]),
             MergeRanges(base), removed)

\* The reference: ranges as the minutes they hold.
Minutes(range) == range[1] .. range[2] - 1
MinutesOf(ranges) == UNION {Minutes(range) : range \in ToSet(ranges)}
=============================================================================

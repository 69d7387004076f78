----------------------------- MODULE MCBooking -----------------------------
(* Booking for TLC: a day of eight units, two providers of whom the second   *)
(* takes longer, two appointments.                                           *)
EXTENDS Booking, TLC

DayTime == 0 .. 8
StartSet == {2, 5}
ProviderSet == {1, 2}
DurationOf == [p \in ProviderSet |-> p]

Window(adds, from, to) == [adds |-> adds, window |-> <<from, to>>]
Day(hours, rules, exceptions) == [hours |-> hours, rules |-> rules, exceptions |-> exceptions]

\* Split hours, rules out of order, touching and overlapping, and exceptions that
\* cut, trim, remove and add.
Schedules == {
    Day(<< <<1, 8>> >>, << <<4, 7>>, <<2, 4>> >>, <<>>),
    Day(<< <<0, 3>>, <<4, 8>> >>, << <<0, 8>> >>, << Window(FALSE, 5, 6) >>),
    Day(<< <<2, 8>> >>, << <<1, 5>>, <<3, 4>> >>, << Window(TRUE, 6, 8), Window(FALSE, 0, 3) >>),
    Day(<< <<0, 8>> >>, << <<2, 6>> >>, << Window(FALSE, 0, 8), Window(TRUE, 3, 5) >>),
    Day(<<>>, << <<0, 8>> >>, <<>>) }

Identifiers == Permutations(CustomerKey) \cup Permutations(Command)
=============================================================================

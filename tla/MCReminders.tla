----------------------------- MODULE MCReminders -----------------------------
(* Reminders on small instances. *)
EXTENDS Reminders

CONSTANTS p1, p2, j1, j2, h1, h2

TwoPeople == {p1, p2}
OnePerson == {p1}
TwoRuns == {j1, j2}
TwoAsks == {<<p2, 1>>, <<p2, 2>>}
TwoReaders == {h1, h2}
YesAndDate == {"yes", "date"}
AnyAnswer == {"yes", "no", "date", "other"}
=============================================================================

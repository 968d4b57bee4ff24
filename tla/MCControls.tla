----------------------------- MODULE MCControls -----------------------------
(* An instance of Controls for TLC.                                        *)
EXTENDS Controls, TLC

\* A blank, three days, a blank, and a day of the next month.
MCCalendar == <<0, 1, 2, 3, 0, 4>>

\* A clock that is behind, and both sides of each threshold.
MCAges == {-20, 0, 9, 59, 60, 89, 3569, 3570, 84570, 107999, 6370170, 6372000,
           72000000}

\* Seconds, minutes, hours, days and months.
MCSteps == {7, 31, 1790, 40000, 2500000, 9000000}

\* The calendar's cells are interchangeable.
Symmetry == Permutations(Cells)

=============================================================================

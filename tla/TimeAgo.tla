------------------------------- MODULE TimeAgo -------------------------------
(***************************************************************************)
(* How old a notification says it is: TimeFormatHelper.timeAgoString, and  *)
(* the cell whose label keeps the text of when it was configured.          *)
(***************************************************************************)
EXTENDS Integers

CONSTANTS
  Ages,      \* the ages, in seconds, at which the screen may be opened
  Steps,     \* bound: the seconds that may go by at a time
  MaxSteps   \* bound: how often they go by

ASSUME AgesAssumption ==
  Ages \subseteq Int /\ Steps \subseteq Nat \ {0} /\ MaxSteps \in Nat

VARIABLES
  age,     \* seconds since the notification was made; negative: clocks differ
  text,    \* the label, as a number and a unit
  toldAt,  \* the age the label was computed for
  steps    \* how often time has passed

labelVars == <<age, text, toldAt, steps>>

Units == {"now", "seconds", "minutes", "hours", "days", "months", "years"}

\* (a / b).rounded() of a non-negative a.
Rounded(a, b) == (2 * a + b) \div (2 * b)

\* Mutant: a year is as long as thirty months.
MutantYearsAgo(days) ==
  LET months == Rounded(days, 30)
  IN  IF months < 12 THEN <<months, "months">> ELSE <<Rounded(months, 30), "years">>

\* From the days on, the end of timeAgoString.
YearsAgo(days) ==
  LET months == Rounded(days, 30)
  IN  IF months < 12 THEN <<months, "months">> ELSE <<Rounded(months, 12), "years">>

\* Mutant: days are taken for twelve hours.
MutantDaysAgo(hours) ==
  LET days == Rounded(hours, 12)
  IN  IF days < 30 THEN <<days, "days">> ELSE YearsAgo(days)

\* Its days, which are sixty hours long.
DaysAgo(hours) ==
  LET days == Rounded(hours, 60)
  IN  IF days < 30 THEN <<days, "days">> ELSE YearsAgo(days)

\* timeAgoString, of seconds that are whole.
TimeAgoString(seconds) ==
  LET minutes == Rounded(seconds, 60)
      hours   == Rounded(minutes, 60)
  IN  IF seconds < 10 THEN <<0, "now">>
      ELSE IF seconds < 60 THEN <<seconds, "seconds">>
      ELSE IF minutes < 60 THEN <<minutes, "minutes">>
      ELSE IF hours < 24 THEN <<hours, "hours">>
      ELSE DaysAgo(hours)

LabelInit ==
  /\ age \in Ages
  /\ text = TimeAgoString(age)
  /\ toldAt = age
  /\ steps = 0

Wait(d) ==
  /\ steps < MaxSteps
  /\ age' = age + d
  /\ steps' = steps + 1
  /\ UNCHANGED <<text, toldAt>>

\* configure(cell:with:), when the row comes on screen again.
Configure ==
  /\ toldAt # age
  /\ text' = TimeAgoString(age)
  /\ toldAt' = age
  /\ UNCHANGED <<age, steps>>

LabelNext == Configure \/ \E d \in Steps : Wait(d)

LabelSpec == LabelInit /\ [][LabelNext]_labelVars

----------------------------------------------------------------------------
\* What a text says, in seconds, and the seconds of its unit.
Unit(t) ==
  CASE t[2] \in {"now", "seconds"} -> 1
    [] t[2] = "minutes" -> 60
    [] t[2] = "hours" -> 3600
    [] t[2] = "days" -> 86400
    [] t[2] = "months" -> 30 * 86400
    [] t[2] = "years" -> 360 * 86400

Says(t) == t[1] * Unit(t)

LabelTypeOK ==
  /\ age \in Int
  /\ text[1] \in Nat /\ text[2] \in Units
  /\ toldAt \in Int /\ toldAt <= age
  /\ steps \in 0..MaxSteps

\* However long ago it was drawn, no label makes a notification older than it is
\* by more than half of the label's unit and the half minute of the rounding
\* before; and when drawn, a label in units below a day is no more behind than
\* that, either (timeAgoString).
AgeIsTrue ==
  /\ 2 * Says(text) <= 2 * (IF age < 0 THEN 0 ELSE age) + Unit(text) + 60
  /\ text[2] \in {"seconds", "minutes", "hours"} =>
       2 * toldAt <= 2 * Says(text) + Unit(text) + 60

\* Drawn again, a label never says less than before, whichever units it goes
\* through, except where it comes to the days, which are sixty hours long: they
\* begin with "0 days ago".
NeverSoundsNewer ==
  [][Says(text') < Says(text) => text[2] # "days" /\ text'[2] = "days"]_labelVars

=============================================================================

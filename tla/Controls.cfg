\* Six items for three cells, the first day before the minimum; up to seven steps
\* of time, each between seconds and months.
\* The bound on time stops the notifications: no deadlock check.
CONSTANTS
  Calendar <- MCCalendar
  Cells = {c1, c2, c3}
  Minimum = 2
  Ages <- MCAges
  Steps <- MCSteps
  MaxSteps = 7
SPECIFICATION ControlsSpec
SYMMETRY Symmetry
INVARIANTS
  ControlsTypeOK
  DoneOffersRange
  RangeWasTapped
  AgeIsTrue
PROPERTIES
  NeverSoundsNewer
CHECK_DEADLOCK FALSE

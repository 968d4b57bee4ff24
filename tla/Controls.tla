------------------------------ MODULE Controls ------------------------------
(***************************************************************************)
(* Two screens that share no state with any other part: the calendar of    *)
(* the date range picker and the list of notifications with their ages.    *)
(* Each fills the screen alone; a behaviour is that of the one that was    *)
(* opened, while the other waits in a fixed state.                         *)
(***************************************************************************)
EXTENDS DateRangePicker, TimeAgo

VARIABLE opened  \* the screen the behaviour is about

controlsVars == <<pickerVars, labelVars, opened>>

ControlsInit ==
  /\ opened \in {"calendar", "notifications"}
  /\ PickerInit /\ (opened # "calendar" => start = NoDay)
  /\ LabelInit /\ (opened # "notifications" => age = 0)

OnCalendar ==
  /\ opened = "calendar"
  /\ PickerNext
  /\ UNCHANGED <<labelVars, opened>>

OnNotifications ==
  /\ opened = "notifications"
  /\ LabelNext
  /\ UNCHANGED <<pickerVars, opened>>

ControlsNext == OnCalendar \/ OnNotifications

ControlsSpec == ControlsInit /\ [][ControlsNext]_controlsVars

ControlsTypeOK ==
  /\ opened \in {"calendar", "notifications"}
  /\ PickerTypeOK
  /\ LabelTypeOK

=============================================================================

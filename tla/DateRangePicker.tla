--------------------------- MODULE DateRangePicker ---------------------------
(***************************************************************************)
(* The calendar from which a range of days is picked                       *)
(* (CalendarDateRangePickerViewController). A tap is answered by the cell  *)
(* it hits, and cells are reused: a cell remembers the day it was last     *)
(* configured with, also where it now stands for no day.                   *)
(***************************************************************************)
EXTENDS Naturals, Sequences

CONSTANTS
  Calendar,  \* the day each item of the collection shows, NoDay for weekdays and blanks
  Cells,     \* the cells the collection view has made
  Minimum    \* minimumDate

NoDay  == 0
NoItem == 0
Items  == DOMAIN Calendar
Days   == {Calendar[i] : i \in Items} \ {NoDay}

ASSUME CalendarAssumption == Calendar \in Seq(Nat)
ASSUME MinimumAssumption  == Minimum \in Nat \ {NoDay}

VARIABLES
  start,      \* selectedStartDate
  end,        \* selectedEndDate
  done,       \* the Done button is enabled
  cell,       \* per cell: the item it stands for and its date
  picked,     \* the range given to the delegate last
  tapped,     \* history: the days that were given or tapped on
  blank,      \* history: an item that shows no day was tapped
  restarted   \* history: a complete range was begun anew

range == <<start, end>>
history == <<tapped, blank, restarted>>
pickerVars == <<range, done, cell, picked, history>>

PickerTypeOK ==
  /\ range \in (Days \cup {NoDay}) \X (Days \cup {NoDay})
  /\ done \in BOOLEAN
  /\ cell \in [Cells -> [item : Items \cup {NoItem}, date : Days \cup {NoDay}]]
  /\ picked \in (Days \cup {NoDay}) \X (Days \cup {NoDay})
  /\ tapped \in SUBSET Days
  /\ <<blank, restarted>> \in BOOLEAN \X BOOLEAN

\* The caller may give no range, an allowed start, or a whole range.
PickerInit ==
  /\ start \in {d \in Days : d >= Minimum} \cup {NoDay}
  /\ end \in {d \in Days : start # NoDay /\ start < d} \cup {NoDay}
  /\ done = (start # NoDay /\ end # NoDay)
  /\ cell = [c \in Cells |-> [item |-> NoItem, date |-> NoDay]]
  /\ picked = <<NoDay, NoDay>>
  /\ tapped = {start, end} \ {NoDay}
  /\ blank = FALSE
  /\ restarted = FALSE

\* Mutant: a cell that has a date keeps it.
MutantConfiguredOnce(c, i) ==
  [item |-> i,
   date |-> IF Calendar[i] = NoDay \/ cell[c].date # NoDay THEN cell[c].date ELSE Calendar[i]]

\* Cell c configured for item i. reset() takes the drawing off, not the date.
Configured(c, i) ==
  [item |-> i,
   date |-> IF Calendar[i] = NoDay THEN cell[c].date ELSE Calendar[i]]

OnScreen == {cell[c].item : c \in Cells} \ {NoItem}

\* Scrolling takes an item off the screen, and its cell into the reuse queue,
Hide(c) ==
  /\ cell[c].item # NoItem
  /\ cell' = [cell EXCEPT ![c].item = NoItem]
  /\ UNCHANGED <<range, done, picked, history>>

\* or brings one on with a cell out of the queue.
Show(c, i) ==
  /\ cell[c].item = NoItem
  /\ i \notin OnScreen
  /\ cell' = [cell EXCEPT ![c] = Configured(c, i)]
  /\ UNCHANGED <<range, done, picked, history>>

\* reloadData configures all items on screen anew, each with any of the cells.
Reload ==
  \E which \in [OnScreen -> Cells] :
    /\ \A i, j \in OnScreen : which[i] = which[j] => i = j
    /\ cell' = [c \in Cells |->
                 IF \E i \in OnScreen : which[i] = c
                   THEN Configured(c, CHOOSE i \in OnScreen : which[i] = c)
                   ELSE [cell[c] EXCEPT !.item = NoItem]]

SetRange(s, e) == start' = s /\ end' = e

\* Mutant: the end is taken as it comes.
MutantSelectAny(d) ==
  \/ /\ start = NoDay
     /\ SetRange(d, end)
     /\ UNCHANGED <<done, restarted>>
  \/ /\ start # NoDay /\ end = NoDay
     /\ SetRange(start, d)
     /\ done' = TRUE
     /\ UNCHANGED restarted
  \/ /\ start # NoDay /\ end # NoDay
     /\ SetRange(d, NoDay)
     /\ restarted' = TRUE
     /\ UNCHANGED done

\* Mutant: the range is kept as its first day and the day after its last.
MutantSelectExclusive(d) ==
  \/ /\ start = NoDay \/ end # NoDay
     /\ SetRange(d, NoDay)
     /\ restarted' = (restarted \/ end # NoDay)
     /\ UNCHANGED done
  \/ /\ start # NoDay
     /\ end = NoDay
     /\ IF start < d
          THEN SetRange(start, d + 1) /\ done' = TRUE
          ELSE SetRange(d, NoDay) /\ UNCHANGED done
     /\ UNCHANGED restarted

\* The three cases of didSelectItemAt: a first day, a second one that ends
\* the range or moves its start back, and a third one that begins anew.
Select(d) ==
  \/ /\ start = NoDay
     /\ SetRange(d, end)
     /\ UNCHANGED <<done, restarted>>
  \/ /\ start # NoDay /\ end = NoDay
     /\ IF start < d
          THEN SetRange(start, d) /\ done' = TRUE
          ELSE SetRange(d, end) /\ UNCHANGED done
     /\ UNCHANGED restarted
  \/ /\ start # NoDay /\ end # NoDay
     /\ SetRange(d, NoDay)
     /\ restarted' = TRUE
     /\ UNCHANGED done

\* didSelectItemAt, past its early returns.
Tap(c) ==
  /\ cell[c].item # NoItem
  /\ cell[c].date # NoDay
  /\ cell[c].date >= Minimum
  /\ Select(cell[c].date)
  /\ Reload
  /\ tapped' = tapped \cup ({Calendar[cell[c].item]} \ {NoDay})
  /\ blank' = (blank \/ Calendar[cell[c].item] = NoDay)
  /\ UNCHANGED picked

\* didTapDone, past its early return.
TapDone ==
  /\ done
  /\ start # NoDay /\ end # NoDay
  /\ picked' = range
  /\ UNCHANGED <<range, done, cell, history>>

PickerNext ==
  \/ \E c \in Cells : Hide(c) \/ Tap(c) \/ \E i \in Items : Show(c, i)
  \/ TapDone

PickerSpec == PickerInit /\ [][PickerNext]_pickerVars

----------------------------------------------------------------------------
\* Done hands over nothing but a range: it begins on an allowed day and ends
\* after it, whatever was tapped in whatever order. Done is on while there is
\* one, and only then, until a range is begun anew, which leaves it on although
\* it then does nothing (didSelectItemAt, didTapDone).
DoneOffersRange ==
  /\ picked # <<NoDay, NoDay>> => Minimum <= picked[1] /\ picked[1] < picked[2]
  /\ end # NoDay => done
  /\ done => end # NoDay \/ restarted

\* The range is made of days that were given or tapped on, until a tap on an item that
\* shows no day: its cell may still have the day of another item.
RangeWasTapped == ~blank => {start, end} \ {NoDay} \subseteq tapped

=============================================================================

--------------------------- MODULE StandaloneProofs ---------------------------
(***************************************************************************)
(* Proofs about the parts that share no state with any other: the two      *)
(* screens of Controls and the counting join of FriendsFetch.              *)
(*                                                                         *)
(* DateRangePicker, for any calendar and any cells: the selection is       *)
(* nothing, a day or a range (SelectionIsRange), and a cell that stands    *)
(* for a day has that day's date, whatever it stood for before             *)
(* (CellsKnowTheirDay). TimeAgo, for any age: a label's text is that of    *)
(* the age it was told for; the rest is arithmetic about quotients that    *)
(* are rounded five times in a row. FriendsFetch, for any finite set of    *)
(* documents: completion was called if and only if the join is full.       *)
(***************************************************************************)
EXTENDS Controls, FriendsFetch, FiniteSetTheorems, TLAPS

----------------------------------------------------------------------------
\* A cell that stands for a day has the date of that day, and no other item's.
CellsKnowTheirDay ==
  \A c \in Cells :
    cell[c].item # NoItem /\ Calendar[cell[c].item] # NoDay =>
      cell[c].date = Calendar[cell[c].item]

\* What was selected is nothing, an allowed day, or a range that begins with one.
SelectionIsRange ==
  /\ start # NoDay => Minimum <= start
  /\ end # NoDay => start # NoDay /\ start < end

PickerInv ==
  /\ PickerTypeOK
  /\ CellsKnowTheirDay
  /\ SelectionIsRange
  /\ DoneOffersRange
  /\ RangeWasTapped

CellType == [item : Items \cup {NoItem}, date : Days \cup {NoDay}]

\* Configuring a cell gives it the item, and the item's day if it has one.
LEMMA ConfiguredFacts ==
  ASSUME PickerTypeOK, NEW c \in Cells, NEW i \in Items
  PROVE  /\ Configured(c, i) \in CellType
         /\ Configured(c, i).item = i
         /\ Calendar[i] # NoDay => Configured(c, i).date = Calendar[i]
<1>1. cell[c].date \in Days \cup {NoDay}
  BY DEF PickerTypeOK
<1>2. Calendar[i] \in Days \cup {NoDay}
  BY DEF Days
<1> QED BY <1>1, <1>2 DEF Configured, CellType

LEMMA DaysAreNumbers == Days \subseteq Nat \ {NoDay}
  BY CalendarAssumption DEF Days, Items

LEMMA PickerStart == PickerInit => PickerInv
<1> SUFFICES ASSUME PickerInit PROVE PickerInv
  OBVIOUS
<1>1. PickerTypeOK
  BY DEF PickerInit, PickerTypeOK, range
<1>2. CellsKnowTheirDay
  BY DEF PickerInit, CellsKnowTheirDay
<1>3. SelectionIsRange
  BY DEF PickerInit, SelectionIsRange
<1>4. DoneOffersRange
  BY DEF PickerInit, DoneOffersRange
<1>5. RangeWasTapped
  BY DEF PickerInit, RangeWasTapped
<1> QED BY <1>1, <1>2, <1>3, <1>4, <1>5 DEF PickerInv

\* Reloading configures cells and takes others off the screen.
LEMMA ReloadFacts ==
  ASSUME PickerTypeOK, CellsKnowTheirDay, Reload
  PROVE  cell' \in [Cells -> CellType] /\ CellsKnowTheirDay'
<1>1. PICK which \in [OnScreen -> Cells] :
        cell' = [c \in Cells |->
                  IF \E i \in OnScreen : which[i] = c
                    THEN Configured(c, CHOOSE i \in OnScreen : which[i] = c)
                    ELSE [cell[c] EXCEPT !.item = NoItem]]
  BY DEF Reload
<1>2. OnScreen \subseteq Items
  BY DEF OnScreen, PickerTypeOK
<1>3. ASSUME NEW c \in Cells
      PROVE  /\ cell'[c] \in CellType
             /\ cell'[c].item # NoItem /\ Calendar[cell'[c].item] # NoDay =>
                  cell'[c].date = Calendar[cell'[c].item]
  <2>1. CASE \E i \in OnScreen : which[i] = c
    <3>1. PICK i \in OnScreen : cell'[c] = Configured(c, i)
      BY <1>1, <2>1
    <3>2. i \in Items
      BY <1>2
    <3> QED BY <3>1, <3>2, ConfiguredFacts
  <2>2. CASE ~ \E i \in OnScreen : which[i] = c
    <3>1. cell'[c] = [cell[c] EXCEPT !.item = NoItem]
      BY <1>1, <2>2
    <3>2. cell[c] \in CellType
      BY DEF PickerTypeOK, CellType
    <3> QED BY <3>1, <3>2 DEF CellType
  <2> QED BY <2>1, <2>2
<1>4. cell' = [c \in Cells |-> cell'[c]]
  BY <1>1
<1> QED BY <1>3, <1>4 DEF CellsKnowTheirDay

LEMMA PickerStep == PickerInv /\ [PickerNext]_pickerVars => PickerInv'
<1> SUFFICES ASSUME PickerInv, [PickerNext]_pickerVars PROVE PickerInv'
  OBVIOUS
<1> USE DEF PickerInv
<1>1. ASSUME NEW c \in Cells, Hide(c) PROVE PickerInv'
  <2>1. /\ cell' \in [Cells -> CellType]
        /\ CellsKnowTheirDay'
    <3>1. cell' = [cell EXCEPT ![c].item = NoItem] /\ cell \in [Cells -> CellType]
      BY <1>1 DEF Hide, PickerTypeOK, CellType
    <3> QED BY <3>1 DEF CellsKnowTheirDay, CellType
  <2>2. UNCHANGED <<range, done, picked, history>>
    BY <1>1 DEF Hide
  <2> QED BY <2>1, <2>2 DEF PickerTypeOK, SelectionIsRange, DoneOffersRange, RangeWasTapped,
            range, history, CellType
<1>2. ASSUME NEW c \in Cells, NEW i \in Items, Show(c, i) PROVE PickerInv'
  <2>1. /\ cell' \in [Cells -> CellType]
        /\ CellsKnowTheirDay'
    <3>1. cell' = [cell EXCEPT ![c] = Configured(c, i)] /\ cell \in [Cells -> CellType]
      BY <1>2 DEF Show, PickerTypeOK, CellType
    <3> QED BY <3>1, ConfiguredFacts DEF CellsKnowTheirDay
  <2>2. UNCHANGED <<range, done, picked, history>>
    BY <1>2 DEF Show
  <2> QED BY <2>1, <2>2 DEF PickerTypeOK, SelectionIsRange, DoneOffersRange, RangeWasTapped,
            range, history, CellType
<1>3. ASSUME NEW c \in Cells, Tap(c) PROVE PickerInv'
  <2> DEFINE d == cell[c].date
  <2>1. /\ cell[c].item \in Items
        /\ d \in Days /\ d \in Nat /\ Minimum <= d /\ d # NoDay
        /\ start \in Days \cup {NoDay} /\ end \in Days \cup {NoDay}
        /\ start \in Nat /\ end \in Nat /\ Minimum \in Nat
    <3>1. cell[c].item \in Items \cup {NoItem} /\ d \in Days \cup {NoDay}
      BY DEF PickerTypeOK
    <3>2. cell[c].item # NoItem /\ d # NoDay /\ d >= Minimum
      BY <1>3 DEF Tap
    <3>3. start \in Days \cup {NoDay} /\ end \in Days \cup {NoDay}
      BY DEF PickerTypeOK, range
    <3>4. Days \subseteq Nat /\ NoDay \in Nat
      BY DaysAreNumbers DEF NoDay
    <3> HIDE DEF d
    <3> QED BY <3>1, <3>2, <3>3, <3>4, MinimumAssumption
  <2>2. /\ Select(d)
        /\ tapped' = tapped \cup ({Calendar[cell[c].item]} \ {NoDay})
        /\ blank' = (blank \/ Calendar[cell[c].item] = NoDay)
        /\ picked' = picked
    BY <1>3 DEF Tap
  <2>3. cell' \in [Cells -> CellType] /\ CellsKnowTheirDay'
    BY <1>3, ReloadFacts DEF Tap
  <2>4. Calendar[cell[c].item] \in Days \cup {NoDay}
    BY <2>1 DEF Days
  <2>5. PickerTypeOK'
    BY <2>1, <2>2, <2>3, <2>4 DEF Select, SetRange, PickerTypeOK, range, CellType
  <2>6. SelectionIsRange'
    BY <2>1, <2>2 DEF Select, SetRange, SelectionIsRange
  <2>7. DoneOffersRange'
    BY <2>1, <2>2 DEF Select, SetRange, DoneOffersRange
  <2>8. ~blank' => d \in tapped'
    <3>1. cell[c].item # NoItem
      BY <1>3 DEF Tap
    <3>2. ~blank' => Calendar[cell[c].item] # NoDay
      BY <2>2
    <3>3. ~blank' => Calendar[cell[c].item] = d
      BY <3>1, <3>2 DEF CellsKnowTheirDay
    <3>4. Calendar[cell[c].item] # NoDay => Calendar[cell[c].item] \in tapped'
      BY <2>2
    <3> QED BY <3>2, <3>3, <3>4
  <2>9. RangeWasTapped'
    BY <2>2, <2>8 DEF Select, SetRange, RangeWasTapped
  <2> QED BY <2>3, <2>5, <2>6, <2>7, <2>9
<1>4. CASE TapDone
  <2>1. PickerTypeOK' /\ CellsKnowTheirDay' /\ SelectionIsRange' /\ RangeWasTapped'
    BY <1>4 DEF TapDone, PickerTypeOK, CellsKnowTheirDay, SelectionIsRange, RangeWasTapped,
           range, history
  <2>2. DoneOffersRange'
    BY <1>4 DEF TapDone, SelectionIsRange, DoneOffersRange, range, history
  <2> QED BY <2>1, <2>2
<1>5. CASE UNCHANGED pickerVars
  BY <1>5 DEF pickerVars, PickerTypeOK, CellsKnowTheirDay, SelectionIsRange, DoneOffersRange,
         RangeWasTapped, range, history
<1> QED BY <1>1, <1>2, <1>3, <1>4, <1>5 DEF PickerNext

----------------------------------------------------------------------------
\* The quotients of timeAgoString, one by one.
Minutes(s) == Rounded(s, 60)
Hours(s)   == Rounded(Minutes(s), 60)
SixtyHours(s) == Rounded(Hours(s), 60)
Months(s)  == Rounded(SixtyHours(s), 30)
Years(s)   == Rounded(Months(s), 12)

LEMMA QuotientFacts ==
  ASSUME NEW s \in Int
  PROVE  /\ Minutes(s) \in Int /\ 120 * Minutes(s) <= 2 * s + 60
         /\ 2 * s + 60 < 120 * Minutes(s) + 120
         /\ Hours(s) \in Int /\ 120 * Hours(s) <= 2 * Minutes(s) + 60
         /\ 2 * Minutes(s) + 60 < 120 * Hours(s) + 120
         /\ SixtyHours(s) \in Int /\ 120 * SixtyHours(s) <= 2 * Hours(s) + 60
         /\ 2 * Hours(s) + 60 < 120 * SixtyHours(s) + 120
         /\ Months(s) \in Int /\ 60 * Months(s) <= 2 * SixtyHours(s) + 30
         /\ 2 * SixtyHours(s) + 30 < 60 * Months(s) + 60
         /\ Years(s) \in Int /\ 24 * Years(s) <= 2 * Months(s) + 12
         /\ 2 * Months(s) + 12 < 24 * Years(s) + 24
<1>1. /\ Minutes(s) \in Int /\ 120 * Minutes(s) <= 2 * s + 60
      /\ 2 * s + 60 < 120 * Minutes(s) + 120
  BY DEF Minutes, Rounded
<1>2. /\ Hours(s) \in Int /\ 120 * Hours(s) <= 2 * Minutes(s) + 60
      /\ 2 * Minutes(s) + 60 < 120 * Hours(s) + 120
  BY <1>1 DEF Hours, Rounded
<1>3. /\ SixtyHours(s) \in Int /\ 120 * SixtyHours(s) <= 2 * Hours(s) + 60
      /\ 2 * Hours(s) + 60 < 120 * SixtyHours(s) + 120
  BY <1>2 DEF SixtyHours, Rounded
<1>4. /\ Months(s) \in Int /\ 60 * Months(s) <= 2 * SixtyHours(s) + 30
      /\ 2 * SixtyHours(s) + 30 < 60 * Months(s) + 60
  BY <1>3 DEF Months, Rounded
<1>5. /\ Years(s) \in Int /\ 24 * Years(s) <= 2 * Months(s) + 12
      /\ 2 * Months(s) + 12 < 24 * Years(s) + 24
  BY <1>4 DEF Years, Rounded
<1> QED BY <1>1, <1>2, <1>3, <1>4, <1>5

\* What a label says, case by case of timeAgoString.
LEMMA TextTold ==
  ASSUME NEW s \in Int
  PROVE  \/ s < 10 /\ TimeAgoString(s) = <<0, "now">>
         \/ 10 <= s /\ s < 60 /\ TimeAgoString(s) = <<s, "seconds">>
         \/ 60 <= s /\ Minutes(s) < 60 /\ TimeAgoString(s) = <<Minutes(s), "minutes">>
         \/ /\ 60 <= s /\ Minutes(s) >= 60 /\ Hours(s) < 24
            /\ TimeAgoString(s) = <<Hours(s), "hours">>
         \/ /\ 60 <= s /\ Minutes(s) >= 60 /\ Hours(s) >= 24 /\ SixtyHours(s) < 30
            /\ TimeAgoString(s) = <<SixtyHours(s), "days">>
         \/ /\ 60 <= s /\ Minutes(s) >= 60 /\ Hours(s) >= 24 /\ SixtyHours(s) >= 30
            /\ Months(s) < 12
            /\ TimeAgoString(s) = <<Months(s), "months">>
         \/ /\ 60 <= s /\ Minutes(s) >= 60 /\ Hours(s) >= 24 /\ SixtyHours(s) >= 30
            /\ Months(s) >= 12
            /\ TimeAgoString(s) = <<Years(s), "years">>
<1>1. TimeAgoString(s) =
        IF s < 10 THEN <<0, "now">>
        ELSE IF s < 60 THEN <<s, "seconds">>
        ELSE IF Minutes(s) < 60 THEN <<Minutes(s), "minutes">>
        ELSE IF Hours(s) < 24 THEN <<Hours(s), "hours">>
        ELSE IF SixtyHours(s) < 30 THEN <<SixtyHours(s), "days">>
        ELSE IF Months(s) < 12 THEN <<Months(s), "months">>
        ELSE <<Years(s), "years">>
  BY DEF TimeAgoString, DaysAgo, YearsAgo, Minutes, Hours, SixtyHours, Months, Years
<1>2. /\ Minutes(s) \in Int /\ Hours(s) \in Int /\ SixtyHours(s) \in Int
      /\ Months(s) \in Int
  BY QuotientFacts
<1>3. CASE s < 10
  BY <1>1, <1>3
<1>4. CASE 10 <= s /\ s < 60
  BY <1>1, <1>4
<1>5. CASE 60 <= s /\ Minutes(s) < 60
  BY <1>1, <1>5
<1>6. CASE 60 <= s /\ Minutes(s) >= 60 /\ Hours(s) < 24
  BY <1>1, <1>2, <1>6
<1>7. CASE 60 <= s /\ Minutes(s) >= 60 /\ Hours(s) >= 24 /\ SixtyHours(s) < 30
  BY <1>1, <1>2, <1>7
<1>8. CASE 60 <= s /\ Minutes(s) >= 60 /\ Hours(s) >= 24 /\ SixtyHours(s) >= 30
           /\ Months(s) < 12
  BY <1>1, <1>2, <1>8
<1>9. CASE 60 <= s /\ Minutes(s) >= 60 /\ Hours(s) >= 24 /\ SixtyHours(s) >= 30
           /\ Months(s) >= 12
  BY <1>1, <1>2, <1>9
<1> QED BY <1>2, <1>3, <1>4, <1>5, <1>6, <1>7, <1>8, <1>9

\* The seconds of each unit.
LEMMA SaysFacts ==
  /\ \A n \in Int : Unit(<<n, "now">>) = 1 /\ Says(<<n, "now">>) = n
  /\ \A n \in Int : Unit(<<n, "seconds">>) = 1 /\ Says(<<n, "seconds">>) = n
  /\ \A n \in Int : Unit(<<n, "minutes">>) = 60 /\ Says(<<n, "minutes">>) = 60 * n
  /\ \A n \in Int : Unit(<<n, "hours">>) = 3600 /\ Says(<<n, "hours">>) = 3600 * n
  /\ \A n \in Int : Unit(<<n, "days">>) = 86400 /\ Says(<<n, "days">>) = 86400 * n
  /\ \A n \in Int : Unit(<<n, "months">>) = 2592000 /\ Says(<<n, "months">>) = 2592000 * n
  /\ \A n \in Int : Unit(<<n, "years">>) = 31104000 /\ Says(<<n, "years">>) = 31104000 * n
  BY DEF Unit, Says

\* Time does not turn the quotients back.
LEMMA QuotientsGrow ==
  ASSUME NEW s \in Int, NEW t \in Int, s <= t
  PROVE  /\ Minutes(s) <= Minutes(t) /\ Hours(s) <= Hours(t)
         /\ SixtyHours(s) <= SixtyHours(t) /\ Months(s) <= Months(t) /\ Years(s) <= Years(t)
<1>1. Minutes(s) <= Minutes(t)
  BY QuotientFacts
<1>2. Hours(s) <= Hours(t)
  BY <1>1, QuotientFacts
<1>3. SixtyHours(s) <= SixtyHours(t)
  BY <1>2, QuotientFacts
<1>4. Months(s) <= Months(t)
  BY <1>3, QuotientFacts
<1>5. Years(s) <= Years(t)
  BY <1>4, QuotientFacts
<1> QED BY <1>1, <1>2, <1>3, <1>4, <1>5

\* The seconds a label says, as one expression.
Told(s) ==
  IF s < 10 THEN 0
  ELSE IF s < 60 THEN s
  ELSE IF Minutes(s) < 60 THEN 60 * Minutes(s)
  ELSE IF Hours(s) < 24 THEN 3600 * Hours(s)
  ELSE IF SixtyHours(s) < 30 THEN 86400 * SixtyHours(s)
  ELSE IF Months(s) < 12 THEN 2592000 * Months(s)
  ELSE 31104000 * Years(s)

InDays(s) == s >= 60 /\ Minutes(s) >= 60 /\ Hours(s) >= 24 /\ SixtyHours(s) < 30

LEMMA SaysTold ==
  ASSUME NEW s \in Int
  PROVE  /\ Says(TimeAgoString(s)) = Told(s)
         /\ TimeAgoString(s)[2] = "days" <=> InDays(s)
<1>1. /\ Minutes(s) \in Int /\ Hours(s) \in Int /\ SixtyHours(s) \in Int
      /\ Months(s) \in Int /\ Years(s) \in Int
  BY QuotientFacts
<1>2. CASE s < 10 /\ TimeAgoString(s) = <<0, "now">>
  BY <1>2, SaysFacts DEF Told, InDays
<1>3. CASE 10 <= s /\ s < 60 /\ TimeAgoString(s) = <<s, "seconds">>
  BY <1>3, SaysFacts DEF Told, InDays
<1>4. CASE 60 <= s /\ Minutes(s) < 60 /\ TimeAgoString(s) = <<Minutes(s), "minutes">>
  BY <1>1, <1>4, SaysFacts DEF Told, InDays
<1>5. CASE /\ 60 <= s /\ Minutes(s) >= 60 /\ Hours(s) < 24
           /\ TimeAgoString(s) = <<Hours(s), "hours">>
  BY <1>1, <1>5, SaysFacts DEF Told, InDays
<1>6. CASE /\ 60 <= s /\ Minutes(s) >= 60 /\ Hours(s) >= 24 /\ SixtyHours(s) < 30
           /\ TimeAgoString(s) = <<SixtyHours(s), "days">>
  BY <1>1, <1>6, SaysFacts DEF Told, InDays
<1>7. CASE /\ 60 <= s /\ Minutes(s) >= 60 /\ Hours(s) >= 24 /\ SixtyHours(s) >= 30
           /\ Months(s) < 12
           /\ TimeAgoString(s) = <<Months(s), "months">>
  BY <1>1, <1>7, SaysFacts DEF Told, InDays
<1>8. CASE /\ 60 <= s /\ Minutes(s) >= 60 /\ Hours(s) >= 24 /\ SixtyHours(s) >= 30
           /\ Months(s) >= 12
           /\ TimeAgoString(s) = <<Years(s), "years">>
  BY <1>1, <1>8, SaysFacts DEF Told, InDays
<1> QED BY <1>2, <1>3, <1>4, <1>5, <1>6, <1>7, <1>8, TextTold

LEMMA SoundsOlder ==
  ASSUME NEW s \in Int, NEW t \in Int, s <= t, Told(t) < Told(s)
  PROVE  ~InDays(s) /\ InDays(t)
<1>1. /\ Minutes(s) \in Int /\ Hours(s) \in Int /\ SixtyHours(s) \in Int
      /\ Months(s) \in Int /\ Years(s) \in Int
      /\ Minutes(t) \in Int /\ Hours(t) \in Int /\ SixtyHours(t) \in Int
      /\ Months(t) \in Int /\ Years(t) \in Int
  BY QuotientFacts
<1>2. /\ Minutes(s) <= Minutes(t) /\ Hours(s) <= Hours(t)
      /\ SixtyHours(s) <= SixtyHours(t) /\ Months(s) <= Months(t) /\ Years(s) <= Years(t)
  BY QuotientsGrow
<1>3. /\ s >= 60 => Minutes(s) >= 1
      /\ t >= 60 => Minutes(t) >= 1
      /\ Minutes(t) >= 60 => Hours(t) >= 1
      /\ SixtyHours(t) >= 30 => Months(t) >= 1
      /\ Months(t) >= 12 => Years(t) >= 1
  <2>1. /\ 2 * s + 60 < 120 * Minutes(s) + 120
        /\ 2 * t + 60 < 120 * Minutes(t) + 120
        /\ 2 * Minutes(t) + 60 < 120 * Hours(t) + 120
        /\ 2 * SixtyHours(t) + 30 < 60 * Months(t) + 60
        /\ 2 * Months(t) + 12 < 24 * Years(t) + 24
    BY QuotientFacts
  <2> QED BY <1>1, <2>1
<1> QED BY <1>1, <1>2, <1>3 DEF Told, InDays

LabelInv ==
  /\ LabelTypeOK
  /\ text = TimeAgoString(toldAt)

\* A text that was right when it was told does not exaggerate later.
LEMMA TextIsTrue == LabelInv => AgeIsTrue
<1> SUFFICES ASSUME LabelInv PROVE AgeIsTrue
  OBVIOUS
<1> DEFINE s == toldAt
<1>1. age \in Int /\ s \in Int /\ s <= age /\ text = TimeAgoString(s)
  BY DEF LabelInv, LabelTypeOK
<1>2. /\ Minutes(s) \in Int /\ 120 * Minutes(s) <= 2 * s + 60
      /\ 2 * s + 60 < 120 * Minutes(s) + 120
      /\ Hours(s) \in Int /\ 120 * Hours(s) <= 2 * Minutes(s) + 60
      /\ 2 * Minutes(s) + 60 < 120 * Hours(s) + 120
      /\ SixtyHours(s) \in Int /\ 120 * SixtyHours(s) <= 2 * Hours(s) + 60
      /\ Months(s) \in Int /\ 60 * Months(s) <= 2 * SixtyHours(s) + 30
      /\ Years(s) \in Int /\ 24 * Years(s) <= 2 * Months(s) + 12
  BY <1>1, QuotientFacts
<1> HIDE DEF s
<1>3. CASE s < 10 /\ text = <<0, "now">>
  BY <1>1, <1>3, SaysFacts DEF AgeIsTrue, s
<1>4. CASE 10 <= s /\ s < 60 /\ text = <<s, "seconds">>
  BY <1>1, <1>4, SaysFacts DEF AgeIsTrue, s
<1>5. CASE 60 <= s /\ text = <<Minutes(s), "minutes">>
  BY <1>1, <1>2, <1>5, SaysFacts DEF AgeIsTrue, s
<1>6. CASE 60 <= s /\ text = <<Hours(s), "hours">>
  BY <1>1, <1>2, <1>6, SaysFacts DEF AgeIsTrue, s
<1>7. CASE 60 <= s /\ text = <<SixtyHours(s), "days">>
  BY <1>1, <1>2, <1>7, SaysFacts DEF AgeIsTrue, s
<1>8. CASE 60 <= s /\ text = <<Months(s), "months">>
  BY <1>1, <1>2, <1>8, SaysFacts DEF AgeIsTrue, s
<1>9. CASE 60 <= s /\ text = <<Years(s), "years">>
  BY <1>1, <1>2, <1>9, SaysFacts DEF AgeIsTrue, s
<1> QED BY <1>1, <1>3, <1>4, <1>5, <1>6, <1>7, <1>8, <1>9, TextTold

LEMMA TextType ==
  ASSUME NEW s \in Int
  PROVE  TimeAgoString(s)[1] \in Nat /\ TimeAgoString(s)[2] \in Units
<1>1. /\ Minutes(s) \in Int /\ Hours(s) \in Int /\ SixtyHours(s) \in Int
      /\ Months(s) \in Int /\ Years(s) \in Int
      /\ s >= 60 => Minutes(s) >= 0
      /\ Minutes(s) >= 60 => Hours(s) >= 0
      /\ Hours(s) >= 24 => SixtyHours(s) >= 0
      /\ SixtyHours(s) >= 30 => Months(s) >= 0
      /\ Months(s) >= 12 => Years(s) >= 0
  <2>1. /\ 2 * s + 60 < 120 * Minutes(s) + 120
        /\ 2 * Minutes(s) + 60 < 120 * Hours(s) + 120
        /\ 2 * Hours(s) + 60 < 120 * SixtyHours(s) + 120
        /\ 2 * SixtyHours(s) + 30 < 60 * Months(s) + 60
        /\ 2 * Months(s) + 12 < 24 * Years(s) + 24
        /\ Minutes(s) \in Int /\ Hours(s) \in Int /\ SixtyHours(s) \in Int
        /\ Months(s) \in Int /\ Years(s) \in Int
    BY QuotientFacts
  <2> QED BY <2>1
<1> QED BY <1>1, TextTold DEF Units

LEMMA LabelStart == LabelInit => LabelInv
<1> SUFFICES ASSUME LabelInit PROVE LabelInv
  OBVIOUS
<1>1. age \in Int /\ toldAt = age /\ text = TimeAgoString(age) /\ steps = 0
  BY AgesAssumption DEF LabelInit
<1> QED BY <1>1, TextType, AgesAssumption DEF LabelInv, LabelTypeOK

LEMMA LabelStep == LabelInv /\ [LabelNext]_labelVars => LabelInv'
<1> SUFFICES ASSUME LabelInv, [LabelNext]_labelVars PROVE LabelInv'
  OBVIOUS
<1> USE DEF LabelInv
<1>1. CASE Configure
  <2>1. age \in Int /\ toldAt' = age /\ text' = TimeAgoString(age) /\ UNCHANGED <<age, steps>>
    BY <1>1 DEF Configure, LabelTypeOK
  <2> QED BY <2>1, TextType DEF LabelTypeOK
<1>2. ASSUME NEW d \in Steps, Wait(d) PROVE LabelInv'
  BY <1>2, AgesAssumption DEF Wait, LabelTypeOK
<1>3. CASE UNCHANGED labelVars
  BY <1>3 DEF labelVars, LabelTypeOK
<1> QED BY <1>1, <1>2, <1>3 DEF LabelNext

\* Drawn again, a label says less only where it comes to the days.
LEMMA LabelSoundsOlder ==
  LabelInv /\ [LabelNext]_labelVars =>
    (Says(text') < Says(text) => text[2] # "days" /\ text'[2] = "days")
<1> SUFFICES ASSUME LabelInv, [LabelNext]_labelVars, Says(text') < Says(text)
             PROVE  text[2] # "days" /\ text'[2] = "days"
  OBVIOUS
<1>1. toldAt \in Int /\ age \in Int /\ toldAt <= age /\ text = TimeAgoString(toldAt)
  BY DEF LabelInv, LabelTypeOK
<1>2. Told(toldAt) \in Int
  <2> DEFINE s == toldAt
  <2>1. /\ Minutes(s) \in Int /\ Hours(s) \in Int /\ SixtyHours(s) \in Int
        /\ Months(s) \in Int /\ Years(s) \in Int
    BY <1>1, QuotientFacts
  <2> QED BY <1>1, <2>1 DEF Told
<1>3. CASE Configure
  <2>1. text' = TimeAgoString(age)
    BY <1>3 DEF Configure
  <2>2. Told(age) < Told(toldAt)
    BY <1>1, <2>1, SaysTold
  <2> QED BY <1>1, <2>1, <2>2, SaysTold, SoundsOlder
<1>4. CASE text' = text
  BY <1>1, <1>2, <1>4, SaysTold
<1> QED BY <1>3, <1>4 DEF LabelNext, Wait, labelVars

----------------------------------------------------------------------------
ControlsInv ==
  /\ opened \in {"calendar", "notifications"}
  /\ PickerInv
  /\ LabelInv

LEMMA ControlsInvariant == ControlsSpec => []ControlsInv
<1>1. ControlsInit => ControlsInv
  BY PickerStart, LabelStart DEF ControlsInit, ControlsInv
<1>2. ControlsInv /\ [ControlsNext]_controlsVars => ControlsInv'
  <2> SUFFICES ASSUME ControlsInv, [ControlsNext]_controlsVars PROVE ControlsInv'
    OBVIOUS
  <2> USE DEF ControlsInv
  <2>1. opened' = opened
    BY DEF ControlsNext, OnCalendar, OnNotifications, controlsVars
  <2>2. [PickerNext]_pickerVars
    BY DEF ControlsNext, OnCalendar, OnNotifications, controlsVars
  <2>3. [LabelNext]_labelVars
    BY DEF ControlsNext, OnCalendar, OnNotifications, controlsVars
  <2> QED BY <2>1, <2>2, <2>3, PickerStep, LabelStep
<1> QED BY <1>1, <1>2, PTL DEF ControlsSpec

\* Every variable of the two screens keeps its type.
THEOREM ControlsTypes == ControlsSpec => []ControlsTypeOK
<1>1. ControlsInv => ControlsTypeOK
  BY DEF ControlsInv, ControlsTypeOK, PickerInv, LabelInv
<1> QED BY <1>1, ControlsInvariant, PTL

\* On any calendar, with any minimum and any taps, Done hands over a range of
\* allowed days or nothing (didSelectItemAt, didTapDone).
THEOREM DoneIsRange == ControlsSpec => []DoneOffersRange
<1>1. ControlsInv => DoneOffersRange
  BY DEF ControlsInv, PickerInv
<1> QED BY <1>1, ControlsInvariant, PTL

\* However cells are reused, a range is made of days that were given or tapped
\* on, until an item that shows no day was tapped.
THEOREM RangeIsTapped == ControlsSpec => []RangeWasTapped
<1>1. ControlsInv => RangeWasTapped
  BY DEF ControlsInv, PickerInv
<1> QED BY <1>1, ControlsInvariant, PTL

\* For an age of any number of seconds, the label does not exaggerate
\* (timeAgoString).
THEOREM AgesAreTrue == ControlsSpec => []AgeIsTrue
<1>1. ControlsInv => AgeIsTrue
  BY TextIsTrue DEF ControlsInv
<1> QED BY <1>1, ControlsInvariant, PTL

\* Whatever time goes by, a label drawn again only ever says less where it comes
\* to the days (timeAgoString).
THEOREM AgesGrow == ControlsSpec => NeverSoundsNewer
<1>1. ControlsInv /\ [ControlsNext]_controlsVars =>
        [Says(text') < Says(text) => text[2] # "days" /\ text'[2] = "days"]_labelVars
  <2>1. [ControlsNext]_controlsVars => [LabelNext]_labelVars
    BY DEF ControlsNext, OnCalendar, OnNotifications, controlsVars
  <2> QED BY <2>1, LabelSoundsOlder DEF ControlsInv
<1> QED BY <1>1, ControlsInvariant, PTL DEF ControlsSpec, NeverSoundsNewer

----------------------------------------------------------------------------
\* Counting the friends against the documents tells whether all were found
\* (friends.count == documents.count in fetchFriends).
LEMMA CountTellsAll ==
  ASSUME NEW D \in SUBSET Docs, NEW F \in SUBSET D
  PROVE  Cardinality(F) = Cardinality(D) <=> F = D
<1>1. IsFiniteSet(D)
  BY DocsAssumption, FS_Subset
<1>2. QED
  BY <1>1, FS_Subset

\* The invariant holds before the query is answered.
LEMMA IInvInit == Init => IInv
BY DEF Init, IInv, TypeOK, Partition

\* The invariant survives every callback.
LEMMA IInvStep == IInv /\ [Next]_vars => IInv'
<1> SUFFICES ASSUME IInv, [Next]_vars PROVE IInv'
  OBVIOUS
<1> USE DEF IInv, TypeOK, Partition, Complete
<1>1. CASE QueryAnswered
  <2>1. documents' \subseteq Docs /\ lookups' \subseteq documents'
    BY <1>1 DEF QueryAnswered
  <2>2. friends = {} /\ friends' = {}
    BY <1>1 DEF QueryAnswered
  <2>3. TypeOK' /\ Partition'
    BY <1>1, <2>1, <2>2 DEF QueryAnswered
  <2>4. CASE documents' = {}
    BY <1>1, <2>2, <2>3, <2>4 DEF QueryAnswered
  <2>5. CASE documents' # {}
    BY <1>1, <2>2, <2>3, <2>5 DEF QueryAnswered
  <2>6. QED
    BY <2>4, <2>5
<1>2. CASE QueryFailed
  BY <1>2 DEF QueryFailed
<1>3. ASSUME NEW d \in Docs, LookupFound(d) PROVE IInv'
  <2>1. stage = "joining" /\ d \in documents /\ d \notin friends
    BY <1>3 DEF LookupFound
  <2>2. friends' \in SUBSET documents /\ documents' = documents /\ documents \in SUBSET Docs
    BY <1>3, <2>1 DEF LookupFound
  <2>3. completed = 0
    BY <2>1
  <2>4. Cardinality(friends') = Cardinality(documents) <=> friends' = documents
    BY <2>2, CountTellsAll
  <2>5. TypeOK' /\ Partition'
    BY <1>3, <2>1, <2>2, <2>3 DEF LookupFound
  <2>6. CASE friends' = documents
    BY <1>3, <2>1, <2>2, <2>3, <2>4, <2>5, <2>6 DEF LookupFound
  <2>7. CASE friends' # documents
    BY <1>3, <2>1, <2>2, <2>3, <2>4, <2>5, <2>7 DEF LookupFound
  <2>8. QED
    BY <2>6, <2>7
<1>4. ASSUME NEW d \in Docs, LookupEmpty(d) PROVE IInv'
  BY <1>4 DEF LookupEmpty
<1>5. CASE UNCHANGED vars
  BY <1>5 DEF vars
<1>6. QED
  BY <1>1, <1>2, <1>3, <1>4, <1>5 DEF Next

\* The invariant holds of every reachable state.
LEMMA InvariantHolds == Spec => []IInv
<1>1. QED
  BY IInvInit, IInvStep, PTL DEF Spec

\* Every variable of a call of fetchFriends keeps its type.
THEOREM TypeCorrect == Spec => []TypeOK
<1>1. IInv => TypeOK
  BY DEF IInv
<1>2. QED
  BY InvariantHolds, <1>1, PTL

\* However many friendships there are and in whatever order their lookups
\* come back, fetchFriends completes at most once and with all of them.
THEOREM JoinCompletesOnce == Spec => []OnceWithAll
<1>1. IInv => OnceWithAll
  BY DEF IInv, OnceWithAll
<1>2. QED
  BY InvariantHolds, <1>1, PTL

\* fetchFriends is silent about a finished join exactly when a document was
\* broken.
THEOREM JoinSilence == Spec => []SilentOnlyIfBroken
<1>1. IInv => SilentOnlyIfBroken
  BY DEF IInv, TypeOK, Partition, SilentOnlyIfBroken
<1>2. QED
  BY InvariantHolds, <1>1, PTL

=============================================================================

--------------------------- MODULE ListLayoutProofs ---------------------------
(***************************************************************************)
(* Theorems about ListLayout for any items, adapters, widths and lists.    *)
(* That the cache is never stale holds for any function of the data, the   *)
(* width and the inner lists' rows, and is proved first. Where the cells   *)
(* lie is proved from the loop of prepare().                               *)
(***************************************************************************)
EXTENDS ListLayout, WellFoundedInduction, TLAPS

\* The part of the type invariant that the argument needs.
DataOK == data \in Lists /\ numberOfItems \in Nat

Inv ==
  /\ DataOK
  /\ LayoutIsCurrent
  /\ CacheIsKnown
  /\ PassLeavesNothing

LEMMA LengthOfLists ==
  ASSUME NEW d \in Lists
  PROVE  Len(d) \in Nat
BY ListsAssumption

LEMMA InvInit == Init => Inv
BY ListsAssumption
DEF Init, Inv, DataOK, LayoutIsCurrent, CacheIsKnown, PassLeavesNothing

\* An empty cache awaits a pass: nothing is claimed of it.
LEMMA Reloaded ==
  ASSUME Inv, ReloadCollectionView, data' \in Lists
  PROVE  Inv'
BY DEF ReloadCollectionView, Inv, DataOK, LayoutIsCurrent, CacheIsKnown, PassLeavesNothing

LEMMA LayoutPassStep ==
  ASSUME Inv, LayoutPass
  PROVE  Inv'
<1> USE DEF Inv
<1> DEFINE new == Arranged(data, width, rows)
<1>1. /\ data' = data /\ rows' = rows /\ width' = width
      /\ numberOfItems' = Len(data)
  BY DEF LayoutPass, Prepare
<1>2. DataOK'
  BY <1>1, LengthOfLists DEF DataOK
<1>3. CASE Outdated \/ cache = <<>>
  <2>1. cachedWidth' = width /\ cache' = new.cells
    BY <1>3 DEF LayoutPass, Prepare
  <2>2. LayoutIsCurrent' /\ PassLeavesNothing'
    BY <1>1, <2>1 DEF LayoutIsCurrent, PassLeavesNothing
  <2>3. CacheIsKnown'
    BY <1>1, <2>1, LengthOfLists DEF CacheIsKnown, DataOK
  <2> QED BY <1>2, <2>2, <2>3
<1>4. CASE ~(Outdated \/ cache = <<>>)
  <2>1. /\ UNCHANGED <<cachedWidth, cache, grown>>
        /\ width = cachedWidth /\ numberOfItems = Len(data) /\ cache # <<>>
    BY <1>4 DEF LayoutPass, Prepare, Outdated
  <2>2. grown = {} => cache = Arranged(data, width, rows).cells
    BY <2>1 DEF CacheIsKnown
  <2>3. LayoutIsCurrent' /\ PassLeavesNothing'
    BY <1>1, <2>1, <2>2 DEF LayoutIsCurrent, PassLeavesNothing
  <2>4. CacheIsKnown'
    BY <1>1, <2>1, <2>2, LengthOfLists DEF CacheIsKnown, DataOK
  <2> QED BY <1>2, <2>3, <2>4
<1> QED BY <1>3, <1>4

\* More items than were laid out: the cache is known to be outdated.
LEMMA DidLoadBottomStep ==
  ASSUME Inv, DidLoadBottom
  PROVE  Inv'
<1> USE DEF Inv
<1>1. data' \in Lists /\ Len(data') > Len(data)
  BY DEF DidLoadBottom
<1>2. /\ UNCHANGED <<cache, cachedWidth, numberOfItems, rows, grown>>
      /\ invalid' = TRUE
  BY DEF DidLoadBottom, layout
<1>3. Len(data) \in Nat /\ Len(data') \in Nat
  BY <1>1, LengthOfLists DEF DataOK
<1>4. CacheIsKnown'
  BY <1>1, <1>2, <1>3 DEF CacheIsKnown, DataOK
<1> QED BY <1>1, <1>2, <1>4 DEF DataOK, LayoutIsCurrent, PassLeavesNothing

LEMMA ChangeBoundsStep ==
  ASSUME Inv, ChangeBounds
  PROVE  Inv'
BY DEF ChangeBounds, layout, Inv, DataOK, LayoutIsCurrent, CacheIsKnown, PassLeavesNothing

LEMMA ConfigureStep ==
  ASSUME Inv, NEW c \in Children, Configure(c)
  PROVE  Inv'
BY DEF Configure, layout, Inv, DataOK, LayoutIsCurrent, CacheIsKnown, PassLeavesNothing

LEMMA ChildDidLoadBottomStep ==
  ASSUME Inv, NEW c \in Children, ChildDidLoadBottom(c)
  PROVE  Inv'
<1>1. /\ UNCHANGED <<data, width, cache, cachedWidth, numberOfItems, invalid>>
      /\ grown' # {}
  BY DEF ChildDidLoadBottom, layout
<1> QED BY <1>1 DEF Inv, DataOK, LayoutIsCurrent, CacheIsKnown, PassLeavesNothing

LEMMA InvNext == Inv /\ [Next]_vars => Inv'
<1> SUFFICES ASSUME Inv, [Next]_vars PROVE Inv'
  OBVIOUS
<1>1. CASE LayoutPass BY <1>1, LayoutPassStep
<1>2. CASE DidLoad
  <2>1. data' \in Lists /\ ReloadCollectionView
    BY <1>2 DEF DidLoad
  <2> QED BY <2>1, Reloaded
<1>3. CASE DidLoadBottom BY <1>3, DidLoadBottomStep
<1>4. CASE ChangeBounds BY <1>4, ChangeBoundsStep
<1>5. ASSUME NEW c \in Children, Configure(c) PROVE Inv'
  BY <1>5, ConfigureStep
<1>6. ASSUME NEW c \in Children, ChildDidLoad(c) PROVE Inv'
  <2>1. data' \in Lists /\ ReloadCollectionView
    BY <1>6 DEF ChildDidLoad, Inv, DataOK
  <2> QED BY <2>1, Reloaded
<1>7. ASSUME NEW c \in Children, ChildDidLoadBottom(c) PROVE Inv'
  BY <1>7, ChildDidLoadBottomStep
<1>8. CASE UNCHANGED vars
  BY <1>8 DEF vars, layout, Inv, DataOK, LayoutIsCurrent, CacheIsKnown, PassLeavesNothing
<1> QED BY <1>1, <1>2, <1>3, <1>4, <1>5, <1>6, <1>7, <1>8 DEF Next

\* However data, widths and inner lists change, a layout pass leaves the cells
\* of the present data at the present width, unless an inner list was extended.
THEOREM CacheNeverStale == Spec => []LayoutIsCurrent
<1>1. Inv => LayoutIsCurrent BY DEF Inv
<1> QED BY <1>1, InvInit, InvNext, PTL DEF Spec

----------------------------------------------------------------------------
(* Induction. Every non-empty set of natural numbers has a least element,   *)
(* so a set with 0 and the successor of each of its members has them all;   *)
(* so a loop over n elements has a result after each of them.               *)

LEMMA LeastNumber ==
  ASSUME NEW T, T \subseteq Nat, T # {}
  PROVE  \E x \in T : \A y \in T : x <= y
<1> DEFINE R == OpToRel(<, Nat)
<1>1. IsWellFoundedOn(R, Nat)
  BY NatLessThanWellFounded, Zenon
<1>2. \A x, y \in Nat : y < x => <<y, x>> \in R
  BY DEF OpToRel
<1> HIDE DEF R
<1>3. PICK x \in T : \A y \in T : ~(<<y, x>> \in R)
  BY <1>1, WFMin
<1>4. ASSUME NEW y \in T PROVE x <= y
  <2>1. x \in Nat /\ y \in Nat /\ ~(y < x)
    BY <1>2, <1>3
  <2> QED BY <2>1
<1> QED BY <1>4

LEMMA SetInduction ==
  ASSUME NEW S, 0 \in S, \A n \in Nat : n \in S => n + 1 \in S
  PROVE  Nat \subseteq S
<1> DEFINE T == Nat \ S
<1> SUFFICES ASSUME T # {} PROVE FALSE
  OBVIOUS
<1>1. PICK x \in T : \A y \in T : x <= y
  <2> HIDE DEF T
  <2>1. T \subseteq Nat
    BY DEF T
  <2> QED BY <2>1, LeastNumber
<1>2. x # 0 /\ x \in Nat
  OBVIOUS
<1>3. x - 1 \in Nat /\ x - 1 \notin T
  BY <1>1, <1>2
<1> QED BY <1>3

\* What a loop does to a result in S at each of its n elements, and the results.
Bodies(S, n) == [S \X (1..n) -> S]
IsLoop(f, S, n, base, body) ==
  f \in [0..n -> S] /\ f[0] = base /\ \A i \in 1..n : f[i] = body[<<f[i - 1], i>>]

LEMMA Iteration ==
  ASSUME NEW S, NEW n \in Nat, NEW base \in S, NEW body \in Bodies(S, n)
  PROVE  \E f : IsLoop(f, S, n, base, body)
<1> body \in [S \X (1..n) -> S]
  BY DEF Bodies
<1> DEFINE Good(m, f) == f[0] = base /\ \A i \in 1..m : f[i] = body[<<f[i - 1], i>>]
           Done == {m \in Nat : m <= n => \E f \in [0..m -> S] : Good(m, f)}
<1>1. 0 \in Done
  <2>1. [i \in 0..0 |-> base] \in [0..0 -> S] /\ Good(0, [i \in 0..0 |-> base])
    OBVIOUS
  <2> QED BY <2>1
<1>2. ASSUME NEW m \in Nat, m \in Done PROVE m + 1 \in Done
  <2> SUFFICES ASSUME m + 1 <= n PROVE \E f \in [0..m + 1 -> S] : Good(m + 1, f)
    OBVIOUS
  <2>1. PICK f \in [0..m -> S] : Good(m, f)
    BY <1>2
  <2> DEFINE v == body[<<f[m], m + 1>>]
             g == [i \in 0..m + 1 |-> IF i = m + 1 THEN v ELSE f[i]]
  <2>2. v \in S
    OBVIOUS
  <2>3. g \in [0..m + 1 -> S]
    <3> HIDE DEF v
    <3> QED BY <2>2
  <2>4. ASSUME NEW i \in 1..m + 1 PROVE g[i] = body[<<g[i - 1], i>>]
    <3>1. CASE i = m + 1
      <4>1. g[i] = v /\ i - 1 = m /\ g[i - 1] = f[m]
        BY <3>1
      <4> QED BY <3>1, <4>1
    <3>2. CASE i # m + 1
      <4>1. i \in 1..m /\ i - 1 \in 0..m
        BY <3>2
      <4>2. g[i] = f[i] /\ g[i - 1] = f[i - 1]
        BY <4>1
      <4> QED BY <2>1, <4>1, <4>2
    <3> QED BY <3>1, <3>2
  <2>5. g[0] = base
    BY <2>1
  <2>6. Good(m + 1, g)
    <3> HIDE DEF g
    <3> QED BY <2>4, <2>5
  <2> HIDE DEF g
  <2> QED BY <2>3, <2>6
<1>3. n \in Done
  <2> HIDE DEF Done
  <2> QED BY <1>1, <1>2, SetInduction
<1> QED BY <1>3 DEF IsLoop

----------------------------------------------------------------------------
(* Columns are counted modulo their number.                                *)

LEMMA DivMod ==
  ASSUME NEW k \in Nat, NEW n \in Nat \ {0}
  PROVE  k \div n \in Nat /\ k % n \in 0..n - 1 /\ k = n * (k \div n) + (k % n)
OBVIOUS

LEMMA Remainder ==
  ASSUME NEW n \in Nat \ {0}, NEW q \in Nat, NEW r \in 0..n - 1, NEW k \in Nat, k = n * q + r
  PROVE  k % n = r
OBVIOUS

LEMMA Multiple ==
  ASSUME NEW n \in Nat \ {0}, NEW q \in Nat
  PROVE  /\ n * q \in Nat /\ n * 0 = 0 /\ n * (q + 1) = n * q + n
         /\ q # 0 => n * (q - 1) = n * q - n
OBVIOUS

LEMMA Wraps ==
  ASSUME NEW n \in Nat \ {0}, NEW k \in Nat
  PROVE  (k + 1) % n = IF k % n >= n - 1 THEN 0 ELSE (k % n) + 1
<1> DEFINE q == k \div n  r == k % n
<1>1. q \in Nat /\ r \in 0..n - 1 /\ k = n * q + r
  BY DivMod
<1> HIDE DEF q, r
<1>2. CASE r >= n - 1
  <2>1. k + 1 = n * (q + 1) + 0 /\ q + 1 \in Nat /\ 0 \in 0..n - 1
    BY <1>1, <1>2, Multiple
  <2>2. (k + 1) % n = 0
    <3> DEFINE m == q + 1  j == k + 1
    <3>1. m \in Nat /\ j \in Nat /\ j = n * m + 0 /\ 0 \in 0..n - 1
      BY <2>1
    <3> HIDE DEF m, j
    <3>2. j % n = 0
      BY <3>1, Remainder
    <3> QED BY <3>2 DEF j
  <2> QED BY <1>2, <2>2 DEF r
<1>3. CASE r < n - 1
  <2>1. k + 1 = n * q + (r + 1) /\ r + 1 \in 0..n - 1
    BY <1>1, <1>3, Multiple
  <2>2. (k + 1) % n = r + 1
    BY <1>1, <2>1, Remainder
  <2> QED BY <1>1, <1>3, <2>2 DEF r
<1> QED BY <1>1, <1>2, <1>3

LEMMA Above ==
  ASSUME NEW n \in Nat \ {0}, NEW k \in Nat, k >= n
  PROVE  (k - n) % n = k % n
<1> DEFINE q == k \div n  r == k % n
<1>1. q \in Nat /\ r \in 0..n - 1 /\ k = n * q + r
  BY DivMod
<1> HIDE DEF q, r
<1>2. q # 0
  BY <1>1, Multiple
<1>3. k - n = n * (q - 1) + r /\ q - 1 \in Nat /\ k - n \in Nat
  BY <1>1, <1>2, Multiple
<1>4. (k - n) % n = r
  <2> DEFINE m == q - 1  j == k - n
  <2>1. m \in Nat /\ j \in Nat /\ j = n * m + r
    BY <1>3
  <2> HIDE DEF m, j
  <2>2. j % n = r
    BY <1>1, <2>1, Remainder
  <2> QED BY <2>2 DEF j
<1> QED BY <1>4 DEF r

LEMMA Apart ==
  ASSUME NEW n \in Nat \ {0}, NEW a \in Nat, NEW b \in Nat, b < a, a - b < n
  PROVE  a % n # b % n
<1> SUFFICES ASSUME a % n = b % n PROVE FALSE
  OBVIOUS
<1> DEFINE q == a \div n  p == b \div n
<1>1. q \in Nat /\ p \in Nat /\ a - b = n * q - n * p
  <2>1. q \in Nat /\ a = n * q + (a % n) /\ a % n \in 0..n - 1
    BY DivMod
  <2>2. p \in Nat /\ b = n * p + (b % n)
    BY DivMod
  <2> HIDE DEF q, p
  <2>3. n * q \in Nat /\ n * p \in Nat
    BY <2>1, <2>2
  <2> QED BY <2>1, <2>2, <2>3
<1> HIDE DEF q, p
<1>2. n * q - n * p = n * (q - p)
  BY <1>1
<1>3. CASE q - p <= 0
  BY <1>1, <1>2, <1>3
<1>4. CASE q - p >= 1
  <2>1. n * (q - p) >= n
    BY <1>1, <1>4
  <2> QED BY <1>1, <1>2, <2>1
<1> QED BY <1>1, <1>3, <1>4

----------------------------------------------------------------------------
(* The loop of prepare(), for n columns, after k items.                    *)

Cell == [column : Nat, top : Nat, height : Nat]
Loop(n) == [cells : Seq(Cell), column : 0..n - 1, yOffset : [0..n - 1 -> Nat], bottom : Nat]

End(cell) == cell.top + cell.height + CellPadding

InColumn(cells, n, j) ==
  /\ cells[j].column = (j - 1) % n
  /\ cells[j].top = CellPadding +
       IF j <= n THEN 0 ELSE cells[j - n].top + cells[j - n].height + CellPadding

\* yOffset has the end of the lowest cell of each column, which is one of the
\* last n cells, or 0.
Laid(s, n, k) ==
  /\ s \in Loop(n) /\ Len(s.cells) = k /\ s.column = k % n
  /\ \A j \in 1..k : InColumn(s.cells, n, j)
  /\ \A j \in 1..k : j > k - n => s.yOffset[(j - 1) % n] = End(s.cells[j])
  /\ \A c \in 0..n - 1 : c >= k => s.yOffset[c] = 0
  /\ \A j \in 1..k : End(s.cells[j]) <= s.bottom
  /\ s.bottom > 0 => \E j \in 1..k : End(s.cells[j]) = s.bottom

LEMMA PlacedType ==
  ASSUME NEW n \in Nat \ {0}, NEW s \in Loop(n), NEW h \in Nat
  PROVE  LET maxY == s.yOffset[s.column] + CellPadding + h + CellPadding
             cell == [column |-> s.column, top |-> maxY - h - CellPadding, height |-> h]
             t == Placed(s, n, h)
         IN /\ t \in Loop(n) /\ cell \in Cell /\ maxY \in Nat
            /\ t.cells = Append(s.cells, cell)
            /\ t.column = IF s.column >= n - 1 THEN 0 ELSE s.column + 1
            /\ t.yOffset = [s.yOffset EXCEPT ![s.column] = maxY]
            /\ t.bottom = Larger(s.bottom, maxY)
            /\ cell.top = s.yOffset[s.column] + CellPadding
            /\ End(cell) = maxY
<1> DEFINE maxY == s.yOffset[s.column] + CellPadding + h + CellPadding
           top == maxY - h - CellPadding
           cell == [column |-> s.column, top |-> top, height |-> h]
           t == Placed(s, n, h)
<1>1. /\ s.cells \in Seq(Cell) /\ s.column \in 0..n - 1 /\ s.bottom \in Nat
      /\ s.yOffset \in [0..n - 1 -> Nat] /\ CellPadding \in Nat
  BY HeightsAssumption DEF Loop
<1>2. s.yOffset[s.column] \in Nat
  BY <1>1
<1>3. maxY \in Nat /\ top \in Nat /\ top = s.yOffset[s.column] + CellPadding
      /\ top + h + CellPadding = maxY
  <2>1. PICK y \in Nat : y = s.yOffset[s.column]
    BY <1>2
  <2>2. maxY = y + CellPadding + h + CellPadding /\ top = maxY - h - CellPadding
    BY <2>1
  <2> HIDE DEF maxY, top
  <2>3. CellPadding \in Nat
    BY <1>1
  <2>4. maxY \in Nat /\ top = y + CellPadding
    BY <2>2, <2>3
  <2> QED BY <2>1, <2>2, <2>3, <2>4
<1>4. t = [cells   |-> Append(s.cells, cell),
           column  |-> IF s.column >= n - 1 THEN 0 ELSE s.column + 1,
           yOffset |-> [s.yOffset EXCEPT ![s.column] = maxY],
           bottom  |-> Larger(s.bottom, maxY)]
  BY DEF Placed
<1> HIDE DEF maxY, top, t
<1>5. cell \in Cell
  BY <1>1, <1>3 DEF Cell
<1>6. Larger(s.bottom, maxY) \in Nat
  BY <1>1, <1>3 DEF Larger
<1>7. t \in Loop(n)
  <2>1. Append(s.cells, cell) \in Seq(Cell)
    BY <1>1, <1>5
  <2>2. (IF s.column >= n - 1 THEN 0 ELSE s.column + 1) \in 0..n - 1
    BY <1>1
  <2>3. [s.yOffset EXCEPT ![s.column] = maxY] \in [0..n - 1 -> Nat]
    BY <1>1, <1>3
  <2> QED BY <1>4, <1>6, <2>1, <2>2, <2>3 DEF Loop
<1>8. cell.top = s.yOffset[s.column] + CellPadding /\ End(cell) = maxY
  BY <1>3 DEF End
<1> QED BY <1>3, <1>4, <1>5, <1>7, <1>8 DEF maxY, top, t

LEMMA LaidFirst ==
  ASSUME NEW n \in Nat \ {0}
  PROVE  Laid([cells |-> <<>>, column |-> 0, yOffset |-> [c \in 0..n - 1 |-> 0], bottom |-> 0], n, 0)
<1> DEFINE s == [cells |-> <<>>, column |-> 0, yOffset |-> [c \in 0..n - 1 |-> 0], bottom |-> 0]
<1>1. s \in Loop(n)
  BY DEF Loop
<1>2. 0 % n = 0
  BY Multiple, Remainder
<1>3. s.cells = <<>> /\ Len(s.cells) = 0 /\ s.column = 0 /\ s.bottom = 0
      /\ \A c \in 0..n - 1 : s.yOffset[c] = 0
  OBVIOUS
<1> HIDE DEF s
<1>4. Laid(s, n, 0)
  BY <1>1, <1>2, <1>3 DEF Laid
<1> QED BY <1>4 DEF s

LEMMA LaidNext ==
  ASSUME NEW n \in Nat \ {0}, NEW k \in Nat, NEW s, Laid(s, n, k), NEW h \in Nat
  PROVE  Laid(Placed(s, n, h), n, k + 1)
<1> DEFINE maxY == s.yOffset[s.column] + CellPadding + h + CellPadding
           cell == [column |-> s.column, top |-> maxY - h - CellPadding, height |-> h]
           t == Placed(s, n, h)
<1>1. /\ s \in Loop(n) /\ Len(s.cells) = k /\ s.column = k % n
      /\ \A j \in 1..k : InColumn(s.cells, n, j)
      /\ \A j \in 1..k : j > k - n => s.yOffset[(j - 1) % n] = End(s.cells[j])
      /\ \A c \in 0..n - 1 : c >= k => s.yOffset[c] = 0
      /\ \A j \in 1..k : End(s.cells[j]) <= s.bottom
      /\ s.bottom > 0 => \E j \in 1..k : End(s.cells[j]) = s.bottom
  BY DEF Laid
<1>2. /\ t \in Loop(n) /\ cell \in Cell /\ maxY \in Nat
      /\ t.cells = Append(s.cells, cell)
      /\ t.column = IF s.column >= n - 1 THEN 0 ELSE s.column + 1
      /\ t.yOffset = [s.yOffset EXCEPT ![s.column] = maxY]
      /\ t.bottom = Larger(s.bottom, maxY)
      /\ cell.top = s.yOffset[s.column] + CellPadding
      /\ End(cell) = maxY
  BY <1>1, PlacedType
<1>3. cell.column = k % n
  BY <1>1
<1> HIDE DEF maxY, cell, t
<1>4. /\ s.cells \in Seq(Cell) /\ s.yOffset \in [0..n - 1 -> Nat] /\ s.bottom \in Nat
      /\ CellPadding \in Nat
  BY <1>1, HeightsAssumption DEF Loop
<1>5. /\ t.cells \in Seq(Cell) /\ Len(t.cells) = k + 1 /\ t.cells[k + 1] = cell
      /\ \A j \in 1..k : t.cells[j] = s.cells[j]
  BY <1>1, <1>2, <1>4
<1>6. t.column = (k + 1) % n
  BY <1>1, <1>2, Wraps
<1>7. k % n \in 0..n - 1 /\ t.yOffset[k % n] = maxY
      /\ \A c \in 0..n - 1 : c # k % n => t.yOffset[c] = s.yOffset[c]
  BY <1>1, <1>2, <1>4, DivMod
<1>8. ASSUME NEW j \in 1..k + 1 PROVE InColumn(t.cells, n, j)
  <2>1. CASE j \in 1..k
    <3>1. t.cells[j] = s.cells[j] /\ (j > n => t.cells[j - n] = s.cells[j - n])
      BY <1>5, <2>1
    <3> QED BY <1>1, <2>1, <3>1 DEF InColumn
  <2>2. CASE j = k + 1 /\ j <= n
    <3>1. k % n = k /\ k \in 0..n - 1
      BY <2>2, Multiple, Remainder
    <3>2. s.yOffset[s.column] = 0
      BY <1>1, <3>1
    <3>3. t.cells[j].column = (j - 1) % n /\ t.cells[j].top = CellPadding + 0
      BY <1>2, <1>3, <1>4, <1>5, <2>2, <3>2
    <3> QED BY <2>2, <3>3 DEF InColumn
  <2>3. CASE j = k + 1 /\ j > n
    <3> DEFINE i == k + 1 - n
    <3>1. i \in 1..k /\ i > k - n /\ i - 1 = k - n /\ k >= n
      BY <2>3
    <3>2. (i - 1) % n = k % n
      BY <3>1, Above
    <3>3. s.yOffset[s.column] = End(s.cells[i])
      BY <1>1, <3>1, <3>2
    <3> HIDE DEF i
    <3>4. t.cells[i] = s.cells[i] /\ s.cells[i] \in Cell
      BY <1>1, <1>4, <1>5, <3>1
    <3>5. t.cells[j].column = (j - 1) % n
      BY <1>3, <1>5, <2>3
    <3>6. t.cells[j].top = End(t.cells[i]) + CellPadding
      BY <1>2, <1>5, <2>3, <3>3, <3>4
    <3>7. j - n = i /\ End(t.cells[i]) + CellPadding = CellPadding + (t.cells[i].top + t.cells[i].height + CellPadding)
      <4>1. j - n = i
        BY <2>3 DEF i
      <4>2. t.cells[i].top \in Nat /\ t.cells[i].height \in Nat
        BY <3>4 DEF Cell
      <4> QED BY <1>4, <4>1, <4>2 DEF End
    <3> QED BY <2>3, <3>5, <3>6, <3>7 DEF InColumn
  <2> QED BY <2>1, <2>2, <2>3
<1>9. ASSUME NEW j \in 1..k + 1, j > k + 1 - n PROVE t.yOffset[(j - 1) % n] = End(t.cells[j])
  <2>1. CASE j = k + 1
    BY <1>2, <1>5, <1>7, <2>1
  <2>2. CASE j \in 1..k
    <3>1. j - 1 \in Nat /\ j - 1 < k /\ k - (j - 1) < n
      BY <1>9, <2>2
    <3>2. (j - 1) % n # k % n /\ (j - 1) % n \in 0..n - 1
      BY <3>1, Apart, DivMod
    <3>3. j > k - n
      BY <1>9
    <3> QED BY <1>1, <1>5, <1>7, <2>2, <3>2, <3>3
  <2> QED BY <2>1, <2>2
<1>10. ASSUME NEW c \in 0..n - 1, c >= k + 1 PROVE t.yOffset[c] = 0
  <2>1. k % n = k
    BY <1>10, Multiple, Remainder
  <2> QED BY <1>1, <1>7, <1>10, <2>1
<1>11. t.bottom \in Nat /\ t.bottom >= s.bottom /\ t.bottom >= maxY /\ t.bottom \in {s.bottom, maxY}
  BY <1>2, <1>4 DEF Larger
<1>12. ASSUME NEW j \in 1..k + 1 PROVE End(t.cells[j]) <= t.bottom
  <2>1. CASE j = k + 1
    BY <1>2, <1>5, <1>11, <2>1
  <2>2. CASE j \in 1..k
    <3>1. End(s.cells[j]) <= s.bottom /\ End(s.cells[j]) \in Nat
      <4>1. s.cells[j] \in Cell
        BY <1>1, <1>4, <2>2
      <4>2. s.cells[j].top \in Nat /\ s.cells[j].height \in Nat
        BY <4>1 DEF Cell
      <4>3. \A a, b \in Nat : a + b + CellPadding \in Nat
        BY <1>4
      <4>4. End(s.cells[j]) \in Nat
        BY <4>2, <4>3 DEF End
      <4> QED BY <1>1, <2>2, <4>4
    <3> QED BY <1>4, <1>5, <1>11, <2>2, <3>1
  <2> QED BY <2>1, <2>2
<1>13. ASSUME t.bottom > 0 PROVE \E j \in 1..k + 1 : End(t.cells[j]) = t.bottom
  <2>1. CASE t.bottom = maxY
    BY <1>2, <1>5, <2>1
  <2>2. CASE t.bottom = s.bottom
    BY <1>1, <1>5, <1>13, <2>2
  <2> QED BY <1>11, <2>1, <2>2
<1>14. Laid(t, n, k + 1)
  <2>1. t \in Loop(n) /\ Len(t.cells) = k + 1 /\ t.column = (k + 1) % n
    BY <1>2, <1>5, <1>6
  <2>2. \A j \in 1..k + 1 : InColumn(t.cells, n, j) /\ End(t.cells[j]) <= t.bottom
    BY <1>8, <1>12
  <2>3. \A j \in 1..k + 1 : j > k + 1 - n => t.yOffset[(j - 1) % n] = End(t.cells[j])
    BY <1>9
  <2>4. \A c \in 0..n - 1 : c >= k + 1 => t.yOffset[c] = 0
    BY <1>10
  <2> QED BY <2>1, <2>2, <2>3, <2>4, <1>13 DEF Laid
<1> QED BY <1>14 DEF t

LEMMA ColumnsPositive ==
  ASSUME NEW d \in Lists, NEW w \in Widths
  PROVE  Columns(d, w) \in Nat \ {0}
<1>1. d \in Seq(Items) /\ w \in Nat \ {0}
  BY ListsAssumption, WidthsAssumption
<1>2. CASE d # <<>> /\ CellWidth[<<d[1], w>>] > 0
  <2>1. d[1] \in Items
    BY <1>1, <1>2
  <2>2. CellWidth[<<d[1], w>>] \in Nat \ {0} /\ CellWidth[<<d[1], w>>] <= w
    BY <1>2, <2>1, WidthsAssumption
  <2>3. \A c \in Nat \ {0} : c <= w => w \div c \in Nat \ {0}
    BY <1>1
  <2> QED BY <1>2, <2>2, <2>3 DEF Columns
<1>3. CASE ~(d # <<>> /\ CellWidth[<<d[1], w>>] > 0)
  BY <1>3 DEF Columns
<1> QED BY <1>2, <1>3

LEMMA HeightNatural ==
  ASSUME NEW i \in Items, NEW w \in Widths, NEW r \in [Children -> 0..MaxRows]
  PROVE  Height(i, w, r) \in Nat
<1>1. SubcellHeight \in Nat /\ MaxRows \in Nat
  BY HeightsAssumption
<1>2. CASE i \in Children
  <2>1. r[i] \in Nat
    BY <1>1, <1>2
  <2>2. \A a \in Nat : a * SubcellHeight \in Nat
    BY <1>1
  <2> QED BY <1>2, <2>1, <2>2 DEF Height
<1>3. CASE i \notin Children
  BY <1>3, HeightsAssumption DEF Height
<1> QED BY <1>2, <1>3

\* The loop lays out all items, in the number of columns the first one decides.
LEMMA ArrangedLaid ==
  ASSUME NEW d \in Lists, NEW w \in Widths, NEW r \in [Children -> 0..MaxRows]
  PROVE  Laid(Arranged(d, w, r), Columns(d, w), Len(d))
<1> DEFINE n == Columns(d, w)
           len == Len(d)
           start == [cells |-> <<>>, column |-> 0, yOffset |-> [c \in 0..n - 1 |-> 0], bottom |-> 0]
           Next1(s, k) == Placed(s, n, Height(d[k], w, r))
           All(f) == [k \in 0..len |-> IF k = 0 THEN start ELSE Next1(f[k - 1], k)]
           after == CHOOSE f : f = All(f)
           Good == {k \in Nat : k <= len => Laid(after[k], n, k)}
<1>1. n \in Nat \ {0} /\ len \in Nat
  BY ColumnsPositive, LengthOfLists
<1>2. Arranged(d, w, r) = after[len]
  BY DEF Arranged
<1>3. \A k \in 1..len : Height(d[k], w, r) \in Nat
  <2>1. \A k \in 1..len : d[k] \in Items
    BY ListsAssumption
  <2> QED BY <2>1, HeightNatural
<1>4. Laid(start, n, 0) /\ start \in Loop(n)
  <2>1. Laid(start, n, 0)
    BY <1>1, LaidFirst
  <2> QED BY <2>1 DEF Laid
<1> HIDE DEF n, len, start
<1>5. after = All(after)
  <2> DEFINE body == [p \in Loop(n) \X (1..len) |-> Next1(p[1], p[2])]
  <2>1. body \in Bodies(Loop(n), len)
    <3>1. ASSUME NEW s \in Loop(n), NEW k \in 1..len PROVE Next1(s, k) \in Loop(n)
      BY <1>1, <1>3, PlacedType
    <3> HIDE DEF Next1
    <3> QED BY <3>1 DEF Bodies
  <2>2. PICK f : IsLoop(f, Loop(n), len, start, body)
    <3> HIDE DEF body
    <3> QED BY <1>1, <1>4, <2>1, Iteration
  <2>3. ASSUME NEW k \in 1..len PROVE f[k] = Next1(f[k - 1], k)
    <3> HIDE DEF Next1
    <3>1. f[k - 1] \in Loop(n)
      BY <1>1, <2>2 DEF IsLoop
    <3> QED BY <2>2, <3>1 DEF IsLoop
  <2>4. f = All(f)
    <3> HIDE DEF Next1
    <3> QED BY <1>1, <2>2, <2>3 DEF IsLoop
  <2> HIDE DEF All
  <2> QED BY <2>4
<1> HIDE DEF after
<1>6. after[0] = start /\ \A k \in 1..len : after[k] = Next1(after[k - 1], k)
  <2> HIDE DEF Next1
  <2> QED BY <1>1, <1>5
<1>7. 0 \in Good
  BY <1>4, <1>6
<1>8. ASSUME NEW k \in Nat, k \in Good PROVE k + 1 \in Good
  <2> SUFFICES ASSUME k + 1 <= len PROVE Laid(after[k + 1], n, k + 1)
    OBVIOUS
  <2>1. Laid(after[k], n, k)
    BY <1>1, <1>8
  <2>2. k + 1 \in 1..len /\ after[k + 1] = Placed(after[k], n, Height(d[k + 1], w, r))
    BY <1>1, <1>6
  <2> QED BY <1>1, <1>3, <2>1, <2>2, LaidNext
<1>9. len \in Good
  <2> HIDE DEF Good
  <2> QED BY <1>1, <1>7, <1>8, SetInduction
<1> QED BY <1>1, <1>2, <1>9 DEF n, len

----------------------------------------------------------------------------
(* The cells of the layout: their types, columns and ends.                 *)

Stacked(cells, d, w) ==
  Len(cells) = Len(d) /\ \A j \in 1..Len(cells) : InColumn(cells, Columns(d, w), j)

\* The cells that are kept are those of as many items as there are, or of fewer.
StackIsKnown ==
  cache # <<>> =>
    /\ numberOfItems <= Len(data)
    /\ numberOfItems = Len(data) => Stacked(cache, data, cachedWidth)

Fitted ==
  /\ \A k \in 1..Len(cache) : End(cache[k]) <= contentHeight
  /\ ~reused /\ contentHeight > 0 =>
       \/ invalid /\ cache = <<>>
       \/ \E k \in 1..Len(cache) : End(cache[k]) = contentHeight

CellsInv == TypeOK /\ CellsStack /\ StackIsKnown /\ Fitted

LEMMA StackMeans == CellsStack <=> (~invalid => Stacked(cache, data, width))
BY DEF CellsStack, Stacked, InColumn

LEMMA StackMeansNext == CellsStack' <=> (~invalid' => Stacked(cache', data', width'))
BY DEF CellsStack, Stacked, InColumn

\* What prepare() computes of the present data.
LEMMA ArrangedFacts ==
  ASSUME TypeOK
  PROVE  LET new == Arranged(data, width, rows) IN
           /\ new.cells \in Seq(Cell) /\ new.bottom \in Nat
           /\ Stacked(new.cells, data, width)
           /\ \A k \in 1..Len(new.cells) : End(new.cells[k]) <= new.bottom
           /\ new.bottom > 0 => \E k \in 1..Len(new.cells) : End(new.cells[k]) = new.bottom
<1> DEFINE new == Arranged(data, width, rows)
<1>1. Laid(new, Columns(data, width), Len(data))
  BY ArrangedLaid DEF TypeOK
<1> HIDE DEF new
<1>2. new.cells \in Seq(Cell) /\ new.bottom \in Nat
  BY <1>1 DEF Laid, Loop
<1> QED BY <1>1, <1>2 DEF Laid, Stacked, new

LEMMA CellsInit == Init => CellsInv
<1> SUFFICES ASSUME Init PROVE CellsInv
  OBVIOUS
<1>1. TypeOK
  <2>1. cache \in Seq(Cell)
    BY DEF Init
  <2>2. data \in Lists /\ contentHeight \in Nat /\ numberOfItems \in Nat
        /\ cachedWidth \in Widths \cup {0}
    BY ListsAssumption DEF Init
  <2>3. /\ rows \in [Children -> 0..MaxRows] /\ width \in Widths
        /\ attached \subseteq Children /\ grown \subseteq Children
        /\ invalid \in BOOLEAN /\ reused \in BOOLEAN
    BY DEF Init
  <2> QED BY <2>1, <2>2, <2>3 DEF TypeOK, Cell
<1>2. cache = <<>> /\ Len(cache) = 0 /\ invalid /\ contentHeight = 0
  BY DEF Init
<1> QED BY <1>1, <1>2 DEF CellsInv, CellsStack, StackIsKnown, Fitted

LEMMA CellsPass ==
  ASSUME CellsInv, LayoutPass
  PROVE  CellsInv'
<1> USE DEF CellsInv
<1> DEFINE new == Arranged(data, width, rows)
<1>1. /\ invalid' = FALSE /\ numberOfItems' = Len(data)
      /\ UNCHANGED <<data, rows, attached, width>>
  BY DEF LayoutPass, Prepare
<1>2. Len(data) \in Nat /\ contentHeight \in Nat /\ width \in Widths
  BY LengthOfLists DEF TypeOK
<1>3. CASE Outdated \/ cache = <<>>
  <2>1. /\ cachedWidth' = width /\ cache' = new.cells /\ grown' = {} /\ reused' = ~Outdated
        /\ contentHeight' = Larger(IF Outdated THEN 0 ELSE contentHeight, new.bottom)
    BY <1>3 DEF LayoutPass, Prepare
  <2>2. /\ new.cells \in Seq(Cell) /\ new.bottom \in Nat
        /\ Stacked(new.cells, data, width)
        /\ \A k \in 1..Len(new.cells) : End(new.cells[k]) <= new.bottom
        /\ new.bottom > 0 => \E k \in 1..Len(new.cells) : End(new.cells[k]) = new.bottom
    BY ArrangedFacts
  <2> HIDE DEF new
  <2>3. /\ contentHeight' \in Nat /\ new.bottom <= contentHeight'
        /\ Outdated => contentHeight' = new.bottom
    BY <1>2, <2>1, <2>2 DEF Larger
  <2>4. TypeOK'
    BY <1>1, <1>2, <2>1, <2>2, <2>3 DEF TypeOK, Cell, Outdated
  <2>5. CellsStack'
    BY <1>1, <2>1, <2>2, StackMeansNext
  <2>6. StackIsKnown'
    <3>1. Stacked(cache', data', cachedWidth')
      BY <1>1, <2>1, <2>2
    <3>2. numberOfItems' <= Len(data')
      BY <1>1, <1>2
    <3> QED BY <3>1, <3>2 DEF StackIsKnown, Stacked
  <2>7. Fitted'
    <3>1. ASSUME NEW k \in 1..Len(cache') PROVE End(cache'[k]) <= contentHeight'
      <4>1. cache'[k] \in Cell
        BY <2>1, <2>2
      <4>2. End(cache'[k]) \in Nat
        <5>1. \A a, b \in Nat : a + b + CellPadding \in Nat
          BY HeightsAssumption
        <5> QED BY <4>1, <5>1 DEF End, Cell
      <4>3. End(cache'[k]) <= new.bottom
        BY <2>1, <2>2
      <4> QED BY <2>2, <2>3, <4>2, <4>3
    <3>2. ASSUME ~reused', contentHeight' > 0
          PROVE  \E k \in 1..Len(cache') : End(cache'[k]) = contentHeight'
      <4>1. contentHeight' = new.bottom
        BY <2>1, <2>3, <3>2
      <4> QED BY <2>1, <2>2, <3>2, <4>1
    <3> QED BY <3>1, <3>2 DEF Fitted, End
  <2> QED BY <2>4, <2>5, <2>6, <2>7
<1>4. CASE ~(Outdated \/ cache = <<>>)
  <2>1. /\ UNCHANGED <<cachedWidth, cache, contentHeight, grown, reused>>
        /\ width = cachedWidth /\ numberOfItems = Len(data) /\ cache # <<>>
    BY <1>4 DEF LayoutPass, Prepare, Outdated
  <2>2. Stacked(cache, data, width)
    BY <2>1 DEF StackIsKnown
  <2>3. TypeOK'
    BY <1>1, <1>2, <2>1 DEF TypeOK
  <2>4. CellsStack' /\ StackIsKnown'
    BY <1>1, <2>1, <2>2, StackMeansNext DEF StackIsKnown
  <2>5. Fitted'
    BY <1>1, <2>1 DEF Fitted
  <2> QED BY <2>3, <2>4, <2>5
<1> QED BY <1>3, <1>4

LEMMA CellsReloaded ==
  ASSUME CellsInv, ReloadCollectionView, data' \in Lists, rows' \in [Children -> 0..MaxRows],
         UNCHANGED <<attached, width>>
  PROVE  CellsInv'
<1>1. cache' = <<>> /\ Len(cache') = 0 /\ invalid' = TRUE
      /\ UNCHANGED <<contentHeight, cachedWidth, numberOfItems, grown, reused>>
  BY DEF ReloadCollectionView
<1>2. TypeOK'
  BY <1>1 DEF CellsInv, TypeOK
<1> QED BY <1>1, <1>2 DEF CellsInv, CellsStack, StackIsKnown, Fitted

\* Steps that leave the cells alone, and the data, or extend it and leave a pass to come.
LEMMA CellsKept ==
  ASSUME CellsInv, TypeOK',
         UNCHANGED <<cache, contentHeight, cachedWidth, numberOfItems, reused>>,
         \/ UNCHANGED <<data, width, invalid>>
         \/ invalid' = TRUE /\ data' = data
         \/ invalid' = TRUE /\ Len(data') > Len(data)
  PROVE  CellsInv'
<1> USE DEF CellsInv
<1>1. Len(data) \in Nat /\ Len(data') \in Nat /\ numberOfItems \in Nat
  BY LengthOfLists DEF TypeOK
<1>2. CellsStack'
  BY StackMeans, StackMeansNext
<1>3. StackIsKnown'
  <2>1. CASE data' = data
    BY <2>1 DEF StackIsKnown
  <2>2. CASE Len(data') > Len(data)
    BY <1>1, <2>2 DEF StackIsKnown
  <2> QED BY <2>1, <2>2
<1>4. Fitted'
  <2>1. invalid => invalid'
    OBVIOUS
  <2> QED BY <2>1 DEF Fitted, End
<1> QED BY <1>2, <1>3, <1>4

LEMMA RowsChange ==
  ASSUME TypeOK, NEW c \in Children, NEW n \in 0..MaxRows
  PROVE  [rows EXCEPT ![c] = n] \in [Children -> 0..MaxRows]
BY DEF TypeOK

LEMMA CellsStep == CellsInv /\ [Next]_vars => CellsInv'
<1> SUFFICES ASSUME CellsInv, [Next]_vars PROVE CellsInv'
  OBVIOUS
<1>1. TypeOK /\ data \in Lists /\ rows \in [Children -> 0..MaxRows]
  BY DEF CellsInv, TypeOK
<1>2. CASE LayoutPass
  BY <1>2, CellsPass
<1>3. CASE DidLoad
  BY <1>1, <1>3, CellsReloaded DEF DidLoad
<1>4. CASE DidLoadBottom
  <2>1. data' \in Lists /\ Len(data') > Len(data) /\ invalid' = TRUE
        /\ UNCHANGED <<rows, attached, width, cache, contentHeight, cachedWidth, numberOfItems, grown, reused>>
    BY <1>4 DEF DidLoadBottom, layout
  <2>2. TypeOK'
    BY <1>1, <2>1 DEF TypeOK
  <2> QED BY <2>1, <2>2, CellsKept
<1>5. CASE ChangeBounds
  <2>1. width' \in Widths /\ invalid' = TRUE
        /\ UNCHANGED <<data, rows, attached, cache, contentHeight, cachedWidth, numberOfItems, grown, reused>>
    BY <1>5 DEF ChangeBounds, layout
  <2>2. TypeOK'
    BY <1>1, <2>1 DEF TypeOK
  <2> QED BY <2>1, <2>2, CellsKept
<1>6. ASSUME NEW c \in Children, Configure(c) PROVE CellsInv'
  <2>1. attached' = attached \cup {c}
        /\ UNCHANGED <<data, rows, width, invalid, cache, contentHeight, cachedWidth, numberOfItems, grown, reused>>
    BY <1>6 DEF Configure, layout
  <2>2. TypeOK'
    BY <1>1, <2>1 DEF TypeOK
  <2> QED BY <2>1, <2>2, CellsKept
<1>7. ASSUME NEW c \in Children, ChildDidLoad(c) PROVE CellsInv'
  BY <1>1, <1>7, RowsChange, CellsReloaded DEF ChildDidLoad
<1>8. ASSUME NEW c \in Children, ChildDidLoadBottom(c) PROVE CellsInv'
  <2>1. PICK n \in rows[c] + 1..MaxRows : rows' = [rows EXCEPT ![c] = n]
    BY <1>8 DEF ChildDidLoadBottom
  <2>2. n \in 0..MaxRows
    BY <1>1, HeightsAssumption
  <2>3. grown' = grown \cup {c}
        /\ UNCHANGED <<data, attached, width, invalid, cache, contentHeight, cachedWidth, numberOfItems, reused>>
    BY <1>8 DEF ChildDidLoadBottom, layout
  <2>4. rows' \in [Children -> 0..MaxRows]
    BY <1>1, <2>1, <2>2, RowsChange
  <2>5. TypeOK'
    BY <1>1, <2>3, <2>4 DEF TypeOK
  <2> QED BY <2>3, <2>5, CellsKept
<1>9. CASE UNCHANGED vars
  <2>1. UNCHANGED <<data, rows, attached, width, invalid, cache, contentHeight, cachedWidth, numberOfItems, grown, reused>>
    BY <1>9 DEF vars, layout
  <2>2. TypeOK'
    BY <1>1, <2>1 DEF TypeOK
  <2> QED BY <2>1, <2>2, CellsKept
<1> QED BY <1>2, <1>3, <1>4, <1>5, <1>6, <1>7, <1>8, <1>9 DEF Next

\* The layout's variables keep their types: no top is negative and no column is
\* missing, whatever the adapters ask for (prepare).
THEOREM TypeCorrect == Spec => []TypeOK
<1>1. CellsInv => TypeOK BY DEF CellsInv
<1> QED BY <1>1, CellsInit, CellsStep, PTL DEF Spec

\* For any items, widths and heights, a layout pass leaves the columns filled in
\* turn and each cell two paddings below the one above it (prepare).
THEOREM ColumnsFilled == Spec => []CellsStack
<1>1. CellsInv => CellsStack BY DEF CellsInv
<1> QED BY <1>1, CellsInit, CellsStep, PTL DEF Spec

\* The content ends where its lowest cell ends, but for a list that was loaded
\* again with as many items in less space (contentHeight, invalidateCache).
THEOREM EndsAtLowestCell == Spec => []ContentFits
<1>1. ASSUME CellsInv PROVE ContentFits
  <2> SUFFICES ASSUME ~invalid PROVE ContentFits
    BY DEF ContentFits
  <2> QED BY <1>1 DEF CellsInv, Fitted, End, ContentFits
<1> QED BY <1>1, CellsInit, CellsStep, PTL DEF Spec

\* Two cells of one column are at least two paddings apart.
CellsApart ==
  \A k \in 1..Len(cache) : \A j \in 1..k - 1 :
    cache[j].column = cache[k].column => End(cache[j]) + CellPadding <= cache[k].top

LEMMA StackIsApart ==
  ASSUME TypeOK, Stacked(cache, data, width)
  PROVE  CellsApart
<1> DEFINE n == Columns(data, width)
           len == Len(cache)
           Clear(k) == \A j \in 1..k - 1 :
             cache[j].column = cache[k].column => End(cache[j]) + CellPadding <= cache[k].top
           Good == {m \in Nat : \A k \in 1..len : k <= m => Clear(k)}
<1>1. /\ n \in Nat \ {0} /\ len \in Nat /\ CellPadding \in Nat
      /\ \A k \in 1..len : cache[k] \in Cell
  <2>1. data \in Lists /\ width \in Widths /\ cache \in Seq(Cell)
    BY DEF TypeOK, Cell
  <2> QED BY <2>1, ColumnsPositive, HeightsAssumption
<1>2. \A k \in 1..len : InColumn(cache, n, k)
  BY DEF Stacked
<1> HIDE DEF n, len
<1>3. \A k \in 1..len : /\ cache[k].top \in Nat /\ End(cache[k]) \in Nat
                        /\ cache[k].top <= End(cache[k])
  <2> SUFFICES ASSUME NEW k \in 1..len
               PROVE  cache[k].top \in Nat /\ End(cache[k]) \in Nat /\ cache[k].top <= End(cache[k])
    OBVIOUS
  <2>1. cache[k].top \in Nat /\ cache[k].height \in Nat
    BY <1>1 DEF Cell
  <2>2. \A a, b \in Nat : a + b + CellPadding \in Nat /\ a <= a + b + CellPadding
    BY <1>1
  <2> QED BY <2>1, <2>2 DEF End
<1>4. 0 \in Good
  OBVIOUS
<1>5. ASSUME NEW m \in Nat, m \in Good PROVE m + 1 \in Good
  <2> SUFFICES ASSUME m + 1 \in 1..len PROVE Clear(m + 1)
    <3>1. \A k \in 1..len : k <= m + 1 => k <= m \/ k = m + 1
      BY <1>1
    <3> HIDE DEF Clear
    <3> QED BY <1>5, <3>1
  <2> SUFFICES ASSUME NEW j \in 1..m, cache[j].column = cache[m + 1].column
               PROVE  End(cache[j]) + CellPadding <= cache[m + 1].top
    OBVIOUS
  <2>1. j \in 1..len /\ j - 1 \in Nat /\ j - 1 < m /\ (j - 1) % n = m % n
    BY <1>1, <1>2 DEF InColumn
  <2>2. m - (j - 1) >= n
    <3> DEFINE b == j - 1
    <3>1. b \in Nat /\ b < m /\ b % n = m % n
      BY <2>1
    <3> HIDE DEF b
    <3>2. ~(m - b < n)
      BY <1>1, <3>1, Apart
    <3>3. m - b >= n
      BY <1>1, <3>1, <3>2
    <3> QED BY <3>3 DEF b
  <2> DEFINE i == m + 1 - n
  <2>3. i \in 1..m /\ i \in 1..len /\ j <= i /\ m + 1 > n
    BY <1>1, <2>1, <2>2
  <2>4. cache[m + 1].top = CellPadding + (cache[i].top + cache[i].height + CellPadding)
    BY <1>1, <1>2, <2>3 DEF InColumn
  <2> HIDE DEF i
  <2>5. cache[m + 1].top = End(cache[i]) + CellPadding
    <3>1. cache[i].top \in Nat /\ cache[i].height \in Nat
      BY <1>1, <2>3 DEF Cell
    <3> QED BY <1>1, <2>4, <3>1 DEF End
  <2>6. CASE j = i
    BY <1>1, <1>3, <2>3, <2>5, <2>6
  <2>7. CASE j < i
    <3>1. cache[i].column = m % n
      <4>1. (i - 1) % n = m % n
        <5>1. m \in Nat /\ m >= n /\ i - 1 = m - n
          BY <1>1, <2>3 DEF i
        <5> QED BY <1>1, <5>1, Above
      <4> QED BY <1>2, <2>3, <4>1 DEF InColumn
    <3>2. cache[j].column = m % n
      BY <1>2, <2>1 DEF InColumn
    <3>3. j \in 1..i - 1 /\ Clear(i)
      BY <1>1, <1>5, <2>3, <2>7
    <3>4. End(cache[j]) + CellPadding <= cache[i].top
      BY <3>1, <3>2, <3>3
    <3> QED BY <1>1, <1>3, <2>1, <2>3, <2>5, <3>4
  <2> QED BY <1>1, <2>1, <2>3, <2>6, <2>7
<1>6. len \in Good
  <2> HIDE DEF Good
  <2> QED BY <1>1, <1>4, <1>5, SetInduction
<1>7. \A k \in 1..len : Clear(k)
  BY <1>1, <1>6
<1> QED BY <1>7 DEF CellsApart, len

\* After a layout pass no two cells overlap, however many items and columns
\* there are and however high the cells (prepare).
THEOREM CellsNeverOverlap == Spec => [](~invalid => CellsApart)
<1>1. CellsInv => (~invalid => CellsApart)
  BY StackMeans, StackIsApart DEF CellsInv
<1> QED BY <1>1, CellsInit, CellsStep, PTL DEF Spec

=============================================================================

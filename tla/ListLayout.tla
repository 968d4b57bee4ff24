----------------------------- MODULE ListLayout -----------------------------
(***************************************************************************)
(* The cells of one list (ATCGenericCollectionViewController) under the    *)
(* liquid layout (ATCLiquidCollectionViewLayout). Some of its items hold   *)
(* lists of their own, shown inside a cell: the cell is as high as the     *)
(* rows of that list, which change under the layout that measured them.    *)
(*                                                                         *)
(* The layout keeps what it computed until the width or the number of      *)
(* items differs, or a list tells it that its data was loaded again.       *)
(***************************************************************************)
EXTENDS Integers, Sequences

CONSTANTS
  Items,          \* the objects of the data source
  Children,       \* the items that hold a list
  Widths,         \* the widths of the screen, contentWidth
  CellWidth,      \* an adapter's size(containerBounds:object:).width
  RowHeight,      \* the same for the height of an item without a list
  SubcellHeight,  \* the height of a row of an inner list
  CellPadding,
  Lists,          \* bound: what the data source may hold
  MaxRows         \* bound: rows of an inner list

ASSUME ListsAssumption == Lists \subseteq Seq(Items) /\ <<>> \in Lists
ASSUME ChildrenAssumption == Children \subseteq Items
ASSUME HeightsAssumption ==
  /\ RowHeight \in [Items \X Widths -> Nat]
  /\ {SubcellHeight, CellPadding, MaxRows} \subseteq Nat
\* An adapter asks for the whole width or for a part of it; a cell wider than
\* the list would leave it without a column, and prepare() without an index.
ASSUME WidthsAssumption ==
  /\ Widths \subseteq Nat \ {0}
  /\ CellWidth \in [Items \X Widths -> Nat]
  /\ \A i \in Items, w \in Widths : CellWidth[<<i, w>>] <= w

VARIABLES
  data,           \* genericDataSource's objects
  rows,           \* numberOfObjects() of each inner list
  attached,       \* the inner lists whose parent is this one
  width,          \* contentWidth
  cache,          \* cache: column, top and height of each cell
  contentHeight,
  cachedWidth,
  numberOfItems,
  invalid,        \* the layout awaits a pass
  grown,          \* history: inner lists that were extended since the cells were computed
  reused          \* history: the cells were computed again for the same width and number

layout == <<cache, contentHeight, cachedWidth, numberOfItems>>
vars == <<data, rows, attached, width, layout, invalid, grown, reused>>

TypeOK ==
  /\ data \in Lists
  /\ rows \in [Children -> 0..MaxRows]
  /\ attached \subseteq Children
  /\ width \in Widths
  /\ cache \in Seq([column : Nat, top : Nat, height : Nat])
  /\ contentHeight \in Nat
  /\ cachedWidth \in Widths \cup {0}
  /\ numberOfItems \in Nat
  /\ invalid \in BOOLEAN
  /\ grown \subseteq Children
  /\ reused \in BOOLEAN

Init ==
  /\ data = <<>>
  /\ rows \in [Children -> 0..MaxRows]
  /\ attached = {}
  /\ width \in Widths
  /\ cache = <<>>
  /\ contentHeight = 0
  /\ cachedWidth = 0
  /\ numberOfItems = 0
  /\ invalid = TRUE
  /\ grown = {}
  /\ reused = FALSE

----------------------------------------------------------------------------
(* prepare().                                                              *)

\* The first item decides; an empty list has one column.
Columns(d, w) ==
  IF d # <<>> /\ CellWidth[<<d[1], w>>] > 0 THEN w \div CellWidth[<<d[1], w>>] ELSE 1

Height(i, w, r) == IF i \in Children THEN r[i] * SubcellHeight ELSE RowHeight[<<i, w>>]

Larger(x, y) == IF x > y THEN x ELSE y

\* Mutant: the inset moves the cell up.
MutantPlacedInsetUp(before, columns, height) ==
  LET maxY == before.yOffset[before.column] + CellPadding + height + CellPadding
      cell == [column |-> before.column, top |-> maxY - height - 3 * CellPadding, height |-> height]
  IN [cells   |-> Append(before.cells, cell),
      column  |-> IF before.column >= columns - 1 THEN 0 ELSE before.column + 1,
      yOffset |-> [before.yOffset EXCEPT ![before.column] = maxY],
      bottom  |-> Larger(before.bottom, maxY)]

\* Mutant: the last of several columns is left out.
MutantPlacedWrapsEarly(before, columns, height) ==
  LET maxY == before.yOffset[before.column] + CellPadding + height + CellPadding
      cell == [column |-> before.column, top |-> maxY - height - CellPadding, height |-> height]
  IN [cells   |-> Append(before.cells, cell),
      column  |-> IF before.column >= columns - 2 THEN 0 ELSE before.column + 1,
      yOffset |-> [before.yOffset EXCEPT ![before.column] = maxY],
      bottom  |-> Larger(before.bottom, maxY)]

\* The body of the loop: one more cell, before the inset as high as maxY says.
Placed(before, columns, height) ==
  LET maxY == before.yOffset[before.column] + CellPadding + height + CellPadding
      cell == [column |-> before.column, top |-> maxY - height - CellPadding, height |-> height]
  IN [cells   |-> Append(before.cells, cell),
      column  |-> IF before.column >= columns - 1 THEN 0 ELSE before.column + 1,
      yOffset |-> [before.yOffset EXCEPT ![before.column] = maxY],
      bottom  |-> Larger(before.bottom, maxY)]

\* The loop over the items: their cells, and the end of the lowest.
Arranged(d, w, r) ==
  LET columns == Columns(d, w)
      after[k \in 0..Len(d)] ==
        IF k = 0 THEN
          [cells |-> <<>>, column |-> 0, yOffset |-> [c \in 0..columns - 1 |-> 0], bottom |-> 0]
        ELSE Placed(after[k - 1], columns, Height(d[k], w, r))
  IN after[Len(d)]

Outdated == width # cachedWidth \/ numberOfItems # Len(data)

\* Mutant: the height is only ever raised.
MutantPrepareKeepsHeight ==
  /\ numberOfItems' = Len(data)
  /\ IF Outdated \/ cache = <<>>
       THEN LET new == Arranged(data, width, rows) IN
              /\ cachedWidth' = width
              /\ cache' = new.cells
              /\ contentHeight' = Larger(contentHeight, new.bottom)
              /\ grown' = {}
              /\ reused' = ~Outdated
       ELSE UNCHANGED <<cachedWidth, cache, contentHeight, grown, reused>>

\* invalidateCache empties the cache but keeps the content's height, which the
\* computation then starts from unless the layout is outdated as well.
Prepare ==
  /\ numberOfItems' = Len(data)
  /\ IF Outdated \/ cache = <<>>
       THEN LET new == Arranged(data, width, rows) IN
              /\ cachedWidth' = width
              /\ cache' = new.cells
              /\ contentHeight' = Larger(IF Outdated THEN 0 ELSE contentHeight, new.bottom)
              /\ grown' = {}
              /\ reused' = ~Outdated
       ELSE UNCHANGED <<cachedWidth, cache, contentHeight, grown, reused>>

LayoutPass ==
  /\ invalid
  /\ invalid' = FALSE
  /\ Prepare
  /\ UNCHANGED <<data, rows, attached, width>>

----------------------------------------------------------------------------
(* The list.                                                               *)

\* reloadCollectionView
ReloadCollectionView ==
  /\ cache' = <<>>
  /\ invalid' = TRUE
  /\ UNCHANGED <<contentHeight, cachedWidth, numberOfItems, grown, reused>>

\* didLoadFirst and didLoadTop, with what the data source then holds.
DidLoad ==
  /\ data' \in Lists
  /\ ReloadCollectionView
  /\ UNCHANGED <<rows, attached, width>>

\* didLoadBottom inserts rows and leaves the layout to see that their number
\* has changed.
DidLoadBottom ==
  /\ \E d \in Lists : Len(d) > Len(data) /\ SubSeq(d, 1, Len(data)) = data /\ data' = d
  /\ invalid' = TRUE
  /\ UNCHANGED <<rows, attached, width, layout, grown, reused>>

\* The list is scrolled or gets another width; both invalidate the layout.
ChangeBounds ==
  /\ width' \in Widths
  /\ invalid' = TRUE
  /\ UNCHANGED <<data, rows, attached, layout, grown, reused>>

----------------------------------------------------------------------------
(* The lists inside its cells.                                             *)

\* The cell of an inner list is configured: its view is loaded, which sends its
\* first request, and this list becomes its parent.
Configure(c) ==
  /\ ~invalid
  /\ c \notin attached
  /\ \E k \in 1..Len(cache) : k <= Len(data) /\ data[k] = c
  /\ attached' = attached \cup {c}
  /\ UNCHANGED <<data, rows, width, layout, invalid, grown, reused>>

\* Mutant: the parent is not told.
MutantChildLoadsAlone(c) ==
  /\ c \in attached
  /\ \E n \in 0..MaxRows : rows' = [rows EXCEPT ![c] = n]
  /\ UNCHANGED <<data, attached, width, layout, invalid, grown, reused>>

\* didLoadFirst or didLoadTop of an inner list: reloadCollectionView goes on to
\* its parent.
ChildDidLoad(c) ==
  /\ c \in attached
  /\ \E n \in 0..MaxRows : rows' = [rows EXCEPT ![c] = n]
  /\ ReloadCollectionView
  /\ UNCHANGED <<data, attached, width>>

\* didLoadBottom of an inner list, which does not tell its parent.
ChildDidLoadBottom(c) ==
  /\ c \in attached
  /\ \E n \in rows[c] + 1..MaxRows : rows' = [rows EXCEPT ![c] = n]
  /\ grown' = grown \cup {c}
  /\ UNCHANGED <<data, attached, width, layout, invalid, reused>>

Next ==
  \/ LayoutPass \/ DidLoad \/ DidLoadBottom \/ ChangeBounds
  \/ \E c \in Children : Configure(c) \/ ChildDidLoad(c) \/ ChildDidLoadBottom(c)

Spec == Init /\ [][Next]_vars

----------------------------------------------------------------------------
(* Properties.                                                             *)

\* After a layout pass the cells are those of the data as it is now, at the
\* width of the screen and with the inner lists' present heights, although the
\* layout compares only a width and a number. The exception is an inner list
\* that was extended at its bottom: its cell keeps the height it had.
LayoutIsCurrent ==
  ~invalid /\ grown = {} => cache = Arranged(data, width, rows).cells

\* After a layout pass the columns are filled in turn, and each cell begins
\* two paddings below the one above it in its column: no two overlap.
CellsStack ==
  ~invalid =>
    LET columns == Columns(data, width) IN
      /\ Len(cache) = Len(data)
      /\ \A k \in 1..Len(cache) :
           /\ cache[k].column = (k - 1) % columns
           /\ cache[k].top = CellPadding +
                IF k <= columns THEN 0
                ELSE cache[k - columns].top + cache[k - columns].height + CellPadding

\* After a layout pass one can scroll to the end of the lowest cell and no
\* farther. The exception is a list loaded again with the same number of items
\* in less space: until the width or the number changes it can be scrolled
\* into the void.
ContentFits ==
  ~invalid =>
    /\ \A k \in 1..Len(cache) : cache[k].top + cache[k].height + CellPadding <= contentHeight
    /\ ~reused /\ contentHeight > 0 =>
         \E k \in 1..Len(cache) : cache[k].top + cache[k].height + CellPadding = contentHeight

\* Why LayoutIsCurrent holds: a cache that is kept is that of the same data,
\* or there are more items now.
CacheIsKnown ==
  cache # <<>> =>
    /\ numberOfItems <= Len(data)
    /\ numberOfItems = Len(data) /\ grown = {} => cache = Arranged(data, cachedWidth, rows).cells

PassLeavesNothing == ~invalid => width = cachedWidth /\ numberOfItems = Len(data)

=============================================================================

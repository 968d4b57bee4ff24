\* Up to three of four items at two widths, inner lists of up to two rows.
CONSTANTS
  Items <- MCItems
  Children <- MCChildren
  Widths <- MCWidths
  CellWidth <- MCCellWidth
  RowHeight <- MCRowHeight
  SubcellHeight = 2
  CellPadding = 1
  Lists <- MCLists
  MaxRows = 2
SPECIFICATION Spec
INVARIANTS
  TypeOK
  LayoutIsCurrent
  CellsStack
  ContentFits

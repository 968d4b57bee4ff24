---------------------------- MODULE MCListLayout ----------------------------
(* A home screen for TLC: a chart as wide as the screen, a pie chart that   *)
(* leaves room for a second or third column, and two inner lists.           *)
EXTENDS ListLayout, SequencesExt

MCItems == {"chart", "pie", "stocks", "news"}
MCChildren == {"stocks", "news"}
MCWidths == {4, 6}
MCCellWidth == [x \in MCItems \X MCWidths |-> IF x[1] = "pie" THEN 2 ELSE x[2]]
MCRowHeight == [x \in MCItems \X MCWidths |-> IF x[1] = "pie" THEN 3 ELSE x[2] - 2]
MCLists == {d \in SeqOf(MCItems, 3) : IsInjective(d)}

=============================================================================

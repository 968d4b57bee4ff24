----------------------------- MODULE MCSearch ------------------------------
(* Three documents and three texts for TLC: the empty text matches all, one *)
(* text matches the ends of the collection and one only its last document. *)
EXTENDS Search

MCDocuments == 1..3
MCTexts == {"", "a", "ab"}
MCBlank == ""
MCMatching == [t \in MCTexts |-> CASE t = "" -> {1, 2, 3} [] t = "a" -> {1, 3} [] OTHER -> {3}]

=============================================================================

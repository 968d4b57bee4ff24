----------------------------- MODULE MCSession -----------------------------
(* An instance of SessionForms for TLC.                                    *)
EXTENDS SessionForms, TLC

\* Users are interchangeable, and so are slots.
Symmetry == Permutations(Users) \cup Permutations(Slots)

=============================================================================

------------------------- MODULE MCHomeworkJournal -------------------------
(* HomeworkJournal for TLC: two homework of a group lesson, or one alone.  *)
EXTENDS HomeworkJournal, TLC

CONSTANTS h1, h2

MCHomework == {h1, h2}
MCOneHomework == {h1}
Symmetry == Permutations(MCHomework)
=============================================================================

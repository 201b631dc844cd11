------------------------- MODULE MCLessonLifecycle -------------------------
(* LessonLifecycle for TLC: a lesson, a copy of it and two homework.       *)
EXTENDS LessonLifecycle, TLC

CONSTANTS h1, h2, l1, l2

MCHomework == {h1, h2}
MCLesson == {l1, l2}
Symmetry == Permutations(MCHomework) \cup Permutations(MCLesson)

\* Bound of run lessons: journals of two logs, and those of three in which
\* listeners did not act, are continued; every step that writes the next log
\* is checked.
ShortJournal ==
  \/ clock < 3
  \/ clock = 3 /\ \A l \in logs : l.status \notin {"opened", "sent", "revision"}
=============================================================================

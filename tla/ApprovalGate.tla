---------------------------- MODULE ApprovalGate ----------------------------
(***************************************************************************)
(* What the methodist of a learning plan is promised: "with a methodist    *)
(* the teacher cannot, without an agreement, send homework or answer the   *)
(* solution of a listener" (plans_offcanvas_new.html, line 34).            *)
(*                                                                         *)
(* A note is an entry of the journal of a homework.  One that is in effect *)
(* may make the status that the homework has for its listener.  Whatever   *)
(* the work on homework adds and takes away, a decision of the teacher of  *)
(* a supervised homework never takes effect by it: it has to wait first,   *)
(* and what waits takes effect only by an approval.  Whether a listener    *)
(* may read a note that waits is another question, and left open here.     *)
(***************************************************************************)
CONSTANTS
  Homework,   \* the homework of the plan
  Note,       \* what may be written in their journals
  Decision    \* the notes that are decisions of a teacher

VARIABLES
  effective,   \* the notes that are in effect for listeners
  waiting,     \* the notes that were submitted and are not agreed
  supervised   \* the homework whose plan has a methodist

gate == <<effective, waiting, supervised>>

TypeOK ==
  /\ effective \subseteq Note
  /\ waiting \subseteq Note \cap Decision
  /\ supervised \subseteq Homework

Init == effective = {} /\ waiting = {} /\ supervised \subseteq Homework

\* Notes are published, submitted and removed; methodists come and go.
Work ==
  /\ TypeOK'
  /\ effective' \cap waiting = {}
  /\ waiting' \cap effective = {}
  /\ \A n \in (effective' \ effective) \cap Decision : n.homework \notin supervised'

\* Some of the waiting notes are agreed, and nothing else happens.
Approve ==
  /\ effective \subseteq effective'
  /\ effective' \subseteq effective \cup waiting
  /\ waiting' = waiting \ effective'
  /\ UNCHANGED supervised

Next == Work \/ Approve

Spec == Init /\ [][Next]_gate
=============================================================================

-------------------------- MODULE LessonLifecycle --------------------------
(***************************************************************************)
(* The lessons of one learning plan and the homework attached to them.     *)
(*                                                                         *)
(* HomeworkJournal lets the handlers of lessons and plans change homework  *)
(* at any time; here they run when the lessons allow it.  Each action is   *)
(* what its handler does to the lessons, joined with the action of the     *)
(* journal for what it does to the homework.                               *)
(***************************************************************************)
EXTENDS Naturals, FiniteSets

CONSTANTS
  Lesson,    \* the ids a lesson row may get
  Homework,  \* the ids a homework row may get
  MaxDt,     \* bound of the journal: how many logs are created
  CopyEndpoint   \* is PATCH lessons/<pk>/rescheduling/, which the site serves
                 \* and none of its own pages calls, in use?

ASSUME LessonAssumption ==
  /\ IsFiniteSet(Lesson) /\ IsFiniteSet(Homework)
  /\ MaxDt \in Nat
  /\ CopyEndpoint \in BOOLEAN

VARIABLES
  status,     \* the status of each lesson, "none" when there is no such row
  homeworks,  \* Lesson.homeworks: a rescheduled lesson shares its homework
  absent,     \* the homework of each lesson whose listener is not in
              \* lesson.get_listeners(), of the plan or additional ones
  rows, logs, groups, metodist, clock, outbox   \* of the journal

vars == <<status, homeworks, absent, rows, logs, groups, metodist, clock, outbox>>

LessonStatuses == {"none", "planned", "held", "cancelled"}

attached == UNION {homeworks[ls] : ls \in Lesson}

Journal == INSTANCE HomeworkJournal WITH LogEndpoint <- FALSE

Having(s) == {ls \in Lesson : status[ls] = s}

HomeworkOf(lss) == UNION {homeworks[ls] : ls \in lss}

(***************************************************************************)
(* Adding homework to a lesson.  Nothing is assigned unless it is held.    *)
(***************************************************************************)
Attach(ls, hs) ==
  /\ status[ls] # "none"
  /\ homeworks' = [homeworks EXCEPT ![ls] = @ \cup hs]
  /\ UNCHANGED <<status, absent>>

\* Mistake: the status of the lesson is not looked at.
AddHomework_Always(ls, hs) == Attach(ls, hs) /\ Journal!AddHomework(hs, TRUE)

AddHomework(ls, hs) ==
  /\ Attach(ls, hs)
  /\ Journal!AddHomework(hs, status[ls] = "held")

AddHomeworkTelegram(ls, hs, by) ==
  /\ Attach(ls, hs)
  /\ Journal!AddHomeworkTelegram(hs, status[ls] = "held", by)

(***************************************************************************)
(* A lesson is held: its status is saved first, then its homework is set   *)
(* one after another, on the site that of the present listeners, in the    *)
(* bot all of it.  For a cancelled homework both mean to tell the          *)
(* methodist of the plan: without one the handler fails, and what comes    *)
(* later in its loop is never set.                                         *)
(***************************************************************************)
\* Mistake: the notice fails for every cancelled homework.
Fails_Always(hs) == \E h \in hs : Journal!StatusIn(h, {"cancelled"})

Fails(hs) == ~metodist /\ \E h \in hs : Journal!StatusIn(h, {"cancelled"})

Hold(ls, hs) ==
  /\ status[ls] = "planned"
  /\ status' = [status EXCEPT ![ls] = "held"]
  /\ UNCHANGED <<homeworks, absent>>
  /\ IF Fails(hs)
     THEN \E done \in SUBSET {h \in hs : ~Journal!StatusIn(h, {"cancelled"})} :
            Journal!SetAssigned(done)
     ELSE Journal!SetAssigned(hs)

SetPassed(ls) == Hold(ls, homeworks[ls] \ absent[ls])

SetPassedTelegram(ls) == Hold(ls, homeworks[ls])

\* An administrator takes it back; the journal of the homework is kept.
SetNotHeld(ls) ==
  /\ status[ls] \in {"held", "cancelled"}
  /\ status' = [status EXCEPT ![ls] = "planned"]
  /\ UNCHANGED <<homeworks, absent, rows, logs, groups, metodist, clock, outbox>>

(***************************************************************************)
(* Making lessons: a new one, or a copy of a cancelled one, which may have *)
(* been held, on another date.  The copy has the same homework but not the *)
(* additional listeners, so more of the homework is of absent listeners.   *)
(***************************************************************************)
CreateLesson(ls) ==
  /\ status[ls] = "none"
  /\ status' = [status EXCEPT ![ls] = "planned"]
  /\ UNCHANGED <<homeworks, absent, rows, logs, groups, metodist, clock, outbox>>

Reschedule(ls, copy) ==
  /\ CopyEndpoint
  /\ status[ls] # "none" /\ status[copy] = "none"
  /\ status' = [status EXCEPT ![copy] = "planned", ![ls] = "cancelled"]
  /\ homeworks' = [homeworks EXCEPT ![copy] = homeworks[ls]]
  /\ \E more \in SUBSET homeworks[ls] :
       absent' = [absent EXCEPT ![copy] = absent[ls] \cup more]
  /\ UNCHANGED <<rows, logs, groups, metodist, clock, outbox>>

(***************************************************************************)
(* Removing homework and lessons.  Deleting a homework detaches it from    *)
(* every lesson; deleting a lesson keeps its homework.                     *)
(***************************************************************************)
\* Mistake: the status of the lesson is not looked at.
Restore_Any(ls, new) ==
  LET old == homeworks[ls] IN
  /\ status[ls] # "none"
  /\ homeworks' = [k \in Lesson |-> IF k = ls THEN new ELSE homeworks[k] \ old]
  /\ absent' = [k \in Lesson |-> absent[k] \ old]
  /\ Journal!ReplaceHomework(old, new)
  /\ UNCHANGED status

Restore(ls, new) ==
  LET old == homeworks[ls] IN
  /\ status[ls] = "planned"
  /\ homeworks' = [k \in Lesson |-> IF k = ls THEN new ELSE homeworks[k] \ old]
  /\ absent' = [k \in Lesson |-> absent[k] \ old]
  /\ Journal!ReplaceHomework(old, new)
  /\ UNCHANGED status

ClosePlan ==
  LET old == HomeworkOf(Having("planned")) IN
  /\ status' = [k \in Lesson |-> IF status[k] = "planned" THEN "none"
                                 ELSE status[k]]
  /\ homeworks' = [k \in Lesson |-> homeworks[k] \ old]
  /\ absent' = [k \in Lesson |-> absent[k] \ old]
  /\ Journal!ReplaceHomework(old, {})

\* Mistakes: the homework is still attached to the lesson; its rows are
\* deleted without their logs.
DeleteLesson_Attached(ls) ==
  /\ status' = [status EXCEPT ![ls] = "none"]
  /\ UNCHANGED <<homeworks, absent, rows, logs, groups, metodist, clock, outbox>>

DeleteLesson_WithRows(ls) ==
  /\ status' = [status EXCEPT ![ls] = "none"]
  /\ homeworks' = [k \in Lesson |-> homeworks[k] \ homeworks[ls]]
  /\ absent' = [k \in Lesson |-> absent[k] \ homeworks[ls]]
  /\ rows' = rows \ homeworks[ls]
  /\ UNCHANGED <<logs, groups, metodist, clock, outbox>>

DeleteLesson(ls) ==
  /\ status[ls] # "none"
  /\ status' = [status EXCEPT ![ls] = "none"]
  /\ homeworks' = [homeworks EXCEPT ![ls] = {}]
  /\ absent' = [absent EXCEPT ![ls] = {}]
  /\ Journal!Detach(homeworks[ls] \ HomeworkOf(Lesson \ {ls}))

\* The listeners of the plan or the additional ones of a lesson change.
SetListeners(hs) ==
  /\ \A ls \in Lesson : hs[ls] \subseteq homeworks[ls]
  /\ absent' = hs
  /\ UNCHANGED <<status, homeworks, rows, logs, groups, metodist, clock, outbox>>

SetMetodist(b) == UNCHANGED <<status, homeworks, absent>> /\ Journal!SetMetodist(b)

WorkOnHomework == UNCHANGED <<status, homeworks, absent>> /\ Journal!Work

Init ==
  /\ status = [ls \in Lesson |-> "none"]
  /\ homeworks = [ls \in Lesson |-> {}]
  /\ absent = [ls \in Lesson |-> {}]
  /\ Journal!Init

Next ==
  \/ \E ls \in Lesson :
       \/ \E hs \in SUBSET Homework :
            \/ AddHomework(ls, hs)
            \/ \E by \in Journal!Creators : AddHomeworkTelegram(ls, hs, by)
            \/ Restore(ls, hs)
       \/ SetPassed(ls)
       \/ SetPassedTelegram(ls)
       \/ SetNotHeld(ls)
       \/ CreateLesson(ls)
       \/ \E copy \in Lesson : Reschedule(ls, copy)
       \/ DeleteLesson(ls)
  \/ ClosePlan
  \/ \E hs \in [Lesson -> SUBSET rows] : SetListeners(hs)
  \/ \E b \in BOOLEAN : SetMetodist(b)
  \/ WorkOnHomework

Spec == Init /\ [][Next]_vars

----------------------------------------------------------------------------
\* Lessons refer to homework that exists, and only lessons that exist do.
TypeOK ==
  /\ status \in [Lesson -> LessonStatuses]
  /\ homeworks \in [Lesson -> SUBSET rows] /\ absent \in [Lesson -> SUBSET rows]
  /\ \A ls \in Having("none") : homeworks[ls] = {}
  /\ \A ls \in Lesson : absent[ls] \subseteq homeworks[ls]

\* A homework is set only when a lesson it belongs to is held: as soon as it
\* is created, or by the step that holds the lesson, and then only if it was
\* not cancelled.  Neither rescheduling, restoring nor marking a lesson as
\* not held ever sets homework; a lesson that was taken back and is held
\* again sets it again.
AssignedByHolding ==
  [][\A l \in logs' : l.dt > clock /\ l.status = "assigned" =>
       \E ls \in Lesson :
         /\ status'[ls] = "held" /\ l.homework \in homeworks'[ls]
         /\ \/ l.homework \notin rows
            \/ /\ status[ls] = "planned"
               /\ ~Journal!StatusIn(l.homework, {"cancelled"})]_vars

Becomes(s) == {ls \in Lesson : status[ls] # s /\ status'[ls] = s}

SetIn(h, s) == Journal!StatusIn(h, s)'

\* With a methodist, holding a lesson sets all homework of its present
\* listeners that was not cancelled: the loop always reaches its end.
HoldingSetsAllUnderMetodist ==
  [][metodist => \A ls \in Becomes("held") :
       \A h \in homeworks[ls] \ absent[ls] : SetIn(h, {"assigned", "cancelled"})]_vars

\* What is added to a lesson that is not held "is saved and will be set when
\* the lesson has been held" (the bot, homeworks.py).
HoldingSetsAll ==
  [][\A ls \in Becomes("held") :
       \A h \in homeworks[ls] \ absent[ls] : SetIn(h, {"assigned", "cancelled"})]_vars

\* Homework is removed, with its journal, only while a lesson it belongs to
\* is planned.
RemovedWasPlanned ==
  [][rows \ rows' \subseteq HomeworkOf(Having("planned"))]_vars

\* Closing a plan removes "the lessons that were not held and the homework
\* for them" (plans_item_modal_setstatus.html), not that of held lessons.
\* The code removes what is in a planned lesson, also when a held one shares
\* it: its copy, or the lesson it is a copy of.
ClosingKeepsHeldWork ==
  [][(\E ls \in Lesson : status[ls] # "none" /\ status'[ls] = "none")
       => (rows \ rows') \cap HomeworkOf(Having("held")) = {}]_vars

\* The handlers of lessons and plans touch homework only in the ways that
\* HomeworkJournal allows, so what holds of every journal holds here.
ImplementsJournal == Journal!Spec
=============================================================================

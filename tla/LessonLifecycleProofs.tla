----------------------- MODULE LessonLifecycleProofs -----------------------
(***************************************************************************)
(* The lessons of a plan, for any number of lessons and homework: they     *)
(* implement HomeworkJournal, so that every theorem about a journal holds  *)
(* of theirs; homework is set by holding a lesson and removed only while   *)
(* its lesson is planned.                                                  *)
(***************************************************************************)
EXTENDS LessonLifecycle, FiniteSetTheorems, TLAPS

\* What the steps of lessons keep: with it, they are steps of a journal.
IInv == TypeOK /\ rows \subseteq Homework

-----------------------------------------------------------------------------
USE LessonAssumption

(***************************************************************************)
(* The homework of a lesson that is added to, restored or copied, and of   *)
(* the others.                                                             *)
(***************************************************************************)
LEMMA AddKeeps ==
  ASSUME IInv, NEW ls \in Lesson, NEW hs \in SUBSET Homework,
         Attach(ls, hs), Journal!Create(hs)
  PROVE  IInv'
BY DEF IInv, TypeOK, Attach, Having, Journal!Create

\* Restoring a lesson replaces homework of that lesson only.
LEMMA RestoreKeeps ==
  ASSUME IInv, NEW ls \in Lesson, NEW hs \in SUBSET Homework,
         Restore(ls, hs)
  PROVE  IInv'
BY DEF IInv, TypeOK, Restore, Having, Journal!ReplaceHomework

\* Closing the plan takes lessons and homework away together.
LEMMA ClosePlanKeeps ==
  ASSUME IInv, ClosePlan
  PROVE  IInv'
BY DEF IInv, TypeOK, ClosePlan, Having, HomeworkOf,
       Journal!ReplaceHomework, LessonStatuses

\* Holding a lesson changes its status and logs only.
LEMMA HoldKeeps ==
  ASSUME IInv, NEW ls \in Lesson, NEW hs, Hold(ls, hs)
  PROVE  IInv'
BY DEF IInv, TypeOK, Hold, Having, LessonStatuses,
       Journal!SetAssigned

\* A deleted lesson leaves its homework without a lesson.
LEMMA DeleteLessonKeeps ==
  ASSUME IInv, NEW ls \in Lesson, DeleteLesson(ls)
  PROVE  IInv'
<1>1. /\ rows' = rows
      /\ status' = [status EXCEPT ![ls] = "none"]
      /\ homeworks' = [homeworks EXCEPT ![ls] = {}]
      /\ absent' = [absent EXCEPT ![ls] = {}]
  BY DEF DeleteLesson, Journal!Detach
<1>2. TypeOK' /\ rows' \subseteq Homework
  BY <1>1 DEF IInv, TypeOK, Having, LessonStatuses
<1> QED
  BY <1>2 DEF IInv

\* A copy has the homework of the lesson it is a copy of.
LEMMA RescheduleKeeps ==
  ASSUME IInv, NEW ls \in Lesson, NEW copy \in Lesson, Reschedule(ls, copy)
  PROVE  IInv' /\ attached' = attached
<1>1. copy # ls /\ homeworks[copy] = {} /\ CopyEndpoint
  BY DEF IInv, TypeOK, Having, Reschedule
<1>2. IInv'
  BY <1>1 DEF IInv, TypeOK, Reschedule, Having, LessonStatuses
<1>3. \A k \in Lesson : homeworks'[k] = IF k = copy THEN homeworks[ls]
                                                    ELSE homeworks[k]
  BY DEF IInv, TypeOK, Reschedule
<1> QED
  BY <1>1, <1>2, <1>3 DEF attached

\* What is done with the homework of lessons changes neither.
LEMMA WorkKeepsRows ==
  ASSUME Journal!Work
  PROVE  UNCHANGED <<rows, attached, groups, metodist>>
BY DEF Journal!Work, Journal!Open, Journal!SendAnswer, Journal!CheckAnswer,
       Journal!SetCancelled, Journal!AgreeHomework, Journal!AgreeTelegram,
       Journal!DeleteLog, Journal!Delete, Journal!DeleteFeedback,
       Journal!EditFeedback, Journal!AgreeFound, Journal!AgreeLog

\* Every step keeps the invariant.
LEMMA StepKeeps == IInv /\ [Next]_vars => IInv'
<1> SUFFICES ASSUME IInv, [Next]_vars PROVE IInv'
  OBVIOUS
<1>1. ASSUME NEW ls \in Lesson, NEW hs \in SUBSET Homework,
             AddHomework(ls, hs)
      PROVE  IInv'
  BY <1>1, AddKeeps DEF AddHomework, Journal!AddHomework
<1>2. ASSUME NEW ls \in Lesson, NEW hs \in SUBSET Homework, NEW by,
             AddHomeworkTelegram(ls, hs, by)
      PROVE  IInv'
  BY <1>2, AddKeeps DEF AddHomeworkTelegram, Journal!AddHomeworkTelegram
<1>3. ASSUME NEW ls \in Lesson, SetPassed(ls) \/ SetPassedTelegram(ls)
      PROVE  IInv'
  BY <1>3, HoldKeeps DEF SetPassed, SetPassedTelegram
<1>4. ASSUME NEW ls \in Lesson, SetNotHeld(ls) \/ CreateLesson(ls)
      PROVE  IInv'
  BY <1>4 DEF SetNotHeld, CreateLesson, IInv, TypeOK, Having,
              LessonStatuses
<1>5. ASSUME NEW hs \in [Lesson -> SUBSET rows], SetListeners(hs)
      PROVE  IInv'
  BY <1>5 DEF SetListeners, IInv, TypeOK, Having
<1>6. ASSUME NEW b, SetMetodist(b)
      PROVE  IInv'
  BY <1>6 DEF SetMetodist, Journal!SetMetodist, IInv, TypeOK, Having
<1>7. CASE WorkOnHomework
  <2>1. UNCHANGED <<rows, status, homeworks, absent>>
    BY <1>7, WorkKeepsRows DEF WorkOnHomework
  <2> QED
    BY <2>1 DEF IInv, TypeOK, Having
<1>8. CASE UNCHANGED vars
  BY <1>8 DEF vars, IInv, TypeOK, Having
<1> QED
  BY <1>1, <1>2, <1>3, <1>4, <1>5, <1>6, <1>7, <1>8, RestoreKeeps,
     ClosePlanKeeps, DeleteLessonKeeps, RescheduleKeeps DEF Next

\* There are no lessons and no homework at first.
LEMMA InitKeeps == Init => IInv
BY DEF Init, Journal!Init, IInv, TypeOK, Having, LessonStatuses

(***************************************************************************)
(* Lessons refer to homework that exists, and only lessons that exist do.  *)
(***************************************************************************)
LEMMA Invariance == Spec => []IInv
BY InitKeeps, StepKeeps, PTL DEF Spec

\* Lessons refer to homework that exists, and only lessons that exist do.
THEOREM TypeCorrect == Spec => []TypeOK
<1>1. IInv => TypeOK
  BY DEF IInv
<1> QED
  BY <1>1, Invariance, PTL

(***************************************************************************)
(* A step of the lessons is a step of the journal, or none.                *)
(***************************************************************************)
LEMMA StepOfJournal == IInv /\ [Next]_vars => [Journal!Next]_(Journal!vars)
<1> SUFFICES ASSUME IInv, [Next]_vars PROVE [Journal!Next]_(Journal!vars)
  OBVIOUS
<1> USE DEF Journal!Next
<1>1. ASSUME NEW ls \in Lesson, NEW hs \in SUBSET Homework,
             \/ AddHomework(ls, hs)
             \/ \E by \in Journal!Creators : AddHomeworkTelegram(ls, hs, by)
      PROVE  Journal!Next
  BY <1>1 DEF AddHomework, AddHomeworkTelegram
<1>2. homeworks \in [Lesson -> SUBSET Homework]
  BY DEF IInv, TypeOK
<1>3. ASSUME NEW ls \in Lesson, NEW hs \in SUBSET Homework, Restore(ls, hs)
      PROVE  Journal!Next
  BY <1>2, <1>3 DEF Restore
<1>4. ASSUME NEW ls \in Lesson, SetPassed(ls) \/ SetPassedTelegram(ls)
      PROVE  Journal!Next
  <2>1. PICK hs \in SUBSET Homework : Hold(ls, hs)
    BY <1>2, <1>4 DEF SetPassed, SetPassedTelegram
  <2>2. \E done \in SUBSET Homework : Journal!SetAssigned(done)
    BY <2>1 DEF Hold
  <2> QED
    BY <2>2
<1>5. ASSUME NEW ls \in Lesson, SetNotHeld(ls) \/ CreateLesson(ls)
      PROVE  UNCHANGED Journal!vars
  BY <1>5 DEF SetNotHeld, CreateLesson, Journal!vars, attached
<1>6. ASSUME NEW ls \in Lesson, NEW copy \in Lesson, Reschedule(ls, copy)
      PROVE  UNCHANGED Journal!vars
  BY <1>6, RescheduleKeeps DEF Reschedule, Journal!vars
<1>7. ASSUME NEW ls \in Lesson, DeleteLesson(ls)
      PROVE  Journal!Next
  BY <1>2, <1>7 DEF DeleteLesson, HomeworkOf
<1>8. CASE ClosePlan
  <2>1. HomeworkOf(Having("planned")) \in SUBSET Homework
    BY <1>2 DEF HomeworkOf, Having
  <2> QED
    BY <1>8, <2>1 DEF ClosePlan
<1>9. ASSUME NEW hs \in [Lesson -> SUBSET rows], SetListeners(hs)
      PROVE  UNCHANGED Journal!vars
  BY <1>9 DEF SetListeners, Journal!vars, attached
<1>10. CASE \/ WorkOnHomework
            \/ \E b \in BOOLEAN : SetMetodist(b)
  BY <1>10 DEF WorkOnHomework, SetMetodist
<1>11. CASE UNCHANGED vars
  BY <1>11 DEF vars, Journal!vars, attached
<1> QED
  BY <1>1, <1>3, <1>4, <1>5, <1>6, <1>7, <1>8, <1>9, <1>10, <1>11 DEF Next

(***************************************************************************)
(* What lessons and plans do to homework is what HomeworkJournal allows.   *)
(***************************************************************************)
THEOREM KeepsJournal == Spec => ImplementsJournal
<1>1. Init => Journal!Init
  BY DEF Init
<1> QED
  BY <1>1, StepOfJournal, Invariance, PTL
     DEF Spec, ImplementsJournal, Journal!Spec

(***************************************************************************)
(* The theorems about a journal, carried over.  Of every name of the       *)
(* journal there are two here, that of the module and that of its proofs.  *)
(***************************************************************************)
Theory == INSTANCE HomeworkJournalProofs WITH LogEndpoint <- FALSE

\* The two copies of the journal take the same steps.
LEMMA SameNext == Journal!Next = Theory!Next
BY DEF Journal!Statuses, Theory!Statuses, Journal!Users, Journal!Agreements, Journal!Verdicts, 
       Journal!Creators, Journal!NewLog, Journal!LogsOf, Journal!Newest, 
       Journal!StatusIn, Journal!AcceptedOnly, Journal!Undecided, Journal!GroupOf, 
       Journal!Peers, Journal!NewestRun, Journal!Supervised, Journal!Write, 
       Journal!Decide, Journal!Orders, Journal!Assignment, Journal!Tell, 
       Journal!TellOf, Journal!Create, Journal!Creation, 
       Journal!AddHomework, Journal!AddHomeworkTelegram, 
       Journal!SetAssigned, Journal!Open, Journal!SendAnswer, 
       Journal!CheckAnswer, Journal!SetCancelled, Journal!MayDeleteLog, 
       Journal!Delete, Journal!DeleteLog, Journal!DeleteFeedback, 
       Journal!AgreeHomework, Journal!ToAgreement, Journal!AgreeFound, 
       Journal!AgreeTelegram, Journal!EditFeedback, Journal!AgreeLog, 
       Journal!ReplaceHomework, Journal!Detach, Journal!SetMetodist, 
       Journal!Work, Journal!Next, Journal!Cardinality, Theory!Users, 
       Theory!Agreements, Theory!Verdicts, Theory!Creators, Theory!NewLog, 
       Theory!LogsOf, Theory!Newest, Theory!StatusIn, Theory!AcceptedOnly, 
       Theory!Undecided, Theory!GroupOf, Theory!Peers, Theory!NewestRun, 
       Theory!Supervised, Theory!Write, Theory!Decide, Theory!Orders, 
       Theory!Assignment, Theory!Tell, Theory!TellOf, Theory!Create, 
       Theory!Creation, Theory!AddHomework, Theory!AddHomeworkTelegram, 
       Theory!SetAssigned, Theory!Open, Theory!SendAnswer, 
       Theory!CheckAnswer, Theory!SetCancelled, Theory!MayDeleteLog, 
       Theory!Delete, Theory!DeleteLog, Theory!DeleteFeedback, 
       Theory!AgreeHomework, Theory!ToAgreement, Theory!AgreeFound, 
       Theory!AgreeTelegram, Theory!EditFeedback, Theory!AgreeLog, 
       Theory!ReplaceHomework, Theory!Detach, Theory!SetMetodist, 
       Theory!Work, Theory!Next, Theory!Cardinality

\* A behaviour of lessons is one of the journal the theorems are about.
LEMMA SpecOfJournal == Spec => Theory!Spec
<1>1. Init => Theory!Init
  BY DEF Init, Journal!Init, Theory!Init
<1>2. IInv /\ [Next]_vars => [Theory!Next]_(Theory!vars)
  BY SameNext, StepOfJournal DEF Journal!vars, Theory!vars
<1> QED
  BY <1>1, <1>2, Invariance, PTL DEF Spec, Theory!Spec

\* The constants are as the theorems about a journal assume.
LEMMA TheoryApplies == Theory!ConstantsAssumption
BY DEF Theory!ConstantsAssumption, Theory!IsFiniteSet, IsFiniteSet

(***************************************************************************)
(* The journal of the homework of lessons keeps the log of every creation, *)
(* is opened first, only decisions wait in it, they are agreed in order,   *)
(* and the verdicts that are told are in effect, whatever its lessons go   *)
(* through.                                                                *)
(***************************************************************************)
JournalInv ==
  /\ Journal!TypeOK
  /\ Journal!CreationLogKept
  /\ Journal!OpenedFirst /\ Journal!OnlyDecisionsWait
  /\ Journal!AgreedInOrder /\ Journal!VerdictToldIsInEffect

\* Whatever lessons go through, the invariants of the journal hold.
THEOREM JournalHolds == Spec => []JournalInv
<1>1. Theory!Spec => []Theory!IInv
  BY TheoryApplies, Theory!Invariance
<1>2. Theory!Spec => []Theory!VerdictToldIsInEffect
  BY TheoryApplies, Theory!VerdictIsInEffect
<1>3. Theory!IInv /\ Theory!VerdictToldIsInEffect => JournalInv
  BY DEF Theory!IInv, JournalInv, Journal!LogsOf, Theory!LogsOf,
         Journal!TypeOK, Theory!TypeOK, Journal!Log, Theory!Log,
         Journal!Notice, Theory!Notice, Journal!Statuses, Theory!Statuses,
         Journal!Users, Theory!Users, Journal!Agreements, Theory!Agreements,
         Journal!CreationLogKept, Theory!CreationLogKept,
         Journal!OpenedFirst, Theory!OpenedFirst,
         Journal!OnlyDecisionsWait, Theory!OnlyDecisionsWait,
         Journal!AgreedInOrder, Theory!AgreedInOrder,
         Journal!VerdictToldIsInEffect, Theory!VerdictToldIsInEffect,
         Journal!AcceptedOnly, Theory!AcceptedOnly
<1> QED
  BY <1>1, <1>2, <1>3, SpecOfJournal, PTL

\* Under a methodist no decision of a teacher takes effect for the listener
\* (makes their status, colour and actions, or is shown by the bot) unless by
\* an approval, whether it came with a lesson or after it.
THEOREM GateHolds == Spec => Journal!ImplementsGate
<1>1. Theory!Spec => Theory!ImplementsGate
  BY TheoryApplies, Theory!KeepsGate
<1>2. Theory!Gate!Init => Journal!Gate!Init
  BY DEF Theory!Gate!Init, Journal!Gate!Init, Theory!Id, Journal!Id,
         Theory!Supervised, Journal!Supervised
<1>3. [Theory!Gate!Next]_(Theory!Gate!gate) => [Journal!Gate!Next]_(Journal!Gate!gate)
  BY DEF Journal!Gate!Next, Theory!Gate!Next, Journal!Gate!gate,
         Theory!Gate!gate, Journal!Gate!Work, Theory!Gate!Work,
         Journal!Gate!Approve, Theory!Gate!Approve, Journal!Gate!TypeOK,
         Theory!Gate!TypeOK, Journal!Id, Theory!Id, Journal!Note,
         Theory!Note, Journal!Decision, Theory!Decision, Journal!Supervised,
         Theory!Supervised, Journal!Statuses, Theory!Statuses,
         Journal!Users, Theory!Users
<1> QED
  BY <1>1, <1>2, <1>3, SpecOfJournal, PTL
     DEF Theory!ImplementsGate, Journal!ImplementsGate,
         Theory!Gate!Spec, Journal!Gate!Spec
-----------------------------------------------------------------------------
(***************************************************************************)
(* What a step does to homework that it does not create, hold or remove.   *)
(***************************************************************************)
LogsOK ==
  /\ logs \subseteq Journal!Log /\ clock \in Nat
  /\ \A l \in logs : l.dt \in Nat /\ l.dt <= clock

\* The assignments a step adds.
Assigned == {l \in logs' : l.dt > clock /\ l.status = "assigned"}

\* A decided log keeps its time.
LEMMA DecideKeepsDt ==
  ASSUME LogsOK, NEW S, NEW v, S \subseteq logs, Journal!Decide(S, v)
  PROVE  \A l \in logs' : l.dt \in Nat /\ l.dt <= clock
<1>1. \A l \in S : [l EXCEPT !.agreement = v].dt = l.dt
  BY DEF LogsOK, Journal!Log
<1> QED
  BY <1>1 DEF LogsOK, Journal!Decide

\* Work on homework assigns none: only its decisions touch assignments.
LEMMA WorkAssignsNone ==
  ASSUME LogsOK, Journal!Work
  PROVE  Assigned = {}
<1> USE DEF Assigned, LogsOK
<1>1. ASSUME NEW h, NEW u, NEW s \in {"accepted", "revision"},
             Journal!Open(h) \/ Journal!SendAnswer(h)
             \/ Journal!CheckAnswer(h, u, s) \/ Journal!SetCancelled(h, u)
      PROVE  Assigned = {}
  BY <1>1 DEF Journal!Open, Journal!SendAnswer, Journal!CheckAnswer,
              Journal!SetCancelled, Journal!Write, Journal!NewLog
<1>2. ASSUME NEW h, NEW v, Journal!AgreeHomework(h, v)
      PROVE  Assigned = {}
  <2>1. PICK S : S \subseteq logs /\ Journal!Decide(S, v)
    BY <1>2 DEF Journal!AgreeHomework, Journal!Undecided, Journal!Newest
  <2> QED
    BY <2>1, DecideKeepsDt
<1>3. ASSUME NEW h, NEW v, Journal!AgreeFound(h, v)
      PROVE  Assigned = {}
  <2>1. Journal!ToAgreement(h) \subseteq logs
    BY DEF Journal!ToAgreement, Journal!Undecided
  <2> QED
    BY <1>3, <2>1, DecideKeepsDt DEF Journal!AgreeFound
<1>4. ASSUME NEW l, Journal!Delete(l)
      PROVE  Assigned = {}
  BY <1>4 DEF Journal!Delete
<1> QED
  BY <1>1, <1>2, <1>3, <1>4
     DEF Journal!Work, Journal!AgreeTelegram, Journal!EditFeedback,
         Journal!DeleteLog, Journal!DeleteFeedback, Journal!AgreeLog

\* The logs are as old as the clock says.
LEMMA LogsAreOK == Spec => []LogsOK
<1>1. Theory!Spec => []Theory!IInv
  BY TheoryApplies, Theory!Invariance
<1>2. Theory!IInv => LogsOK
  BY DEF Theory!IInv, LogsOK, Theory!TypeOK, Theory!JournalIsOrdered,
         Theory!Log, Journal!Log, Theory!Statuses, Journal!Statuses,
         Theory!Users, Journal!Users, Theory!Agreements, Journal!Agreements
<1> QED
  BY <1>1, <1>2, SpecOfJournal, PTL

\* The step that holds a lesson assigns only its homework, and only what was
\* not cancelled.
LEMMA HoldAssigns ==
  ASSUME LogsOK, IInv, NEW ls \in Lesson, NEW hs \in SUBSET homeworks[ls],
         Hold(ls, hs), NEW l \in Assigned
  PROVE  /\ status'[ls] = "held" /\ l.homework \in homeworks'[ls]
         /\ status[ls] = "planned"
         /\ ~Journal!StatusIn(l.homework, {"cancelled"})
<1>1. /\ status[ls] = "planned" /\ status'[ls] = "held"
      /\ homeworks' = homeworks
  BY DEF Hold, IInv, TypeOK
<1>2. PICK done \in SUBSET hs : Journal!SetAssigned(done)
  BY DEF Hold
<1>3. \A m \in logs' : m \in logs \/
        \E h \in done : m.homework = h /\ ~Journal!StatusIn(h, {"cancelled"})
  BY <1>2 DEF Journal!SetAssigned, Journal!Write, Journal!Assignment,
              Journal!NewLog
<1> QED
  BY <1>1, <1>3 DEF Assigned, LogsOK

\* Every step assigns by holding a lesson, or in one that is held.
LEMMA StepAssigns ==
  ASSUME LogsOK, IInv, [Next]_vars, NEW l \in Assigned
  PROVE  \E ls \in Lesson :
           /\ status'[ls] = "held" /\ l.homework \in homeworks'[ls]
           /\ \/ l.homework \notin rows
              \/ /\ status[ls] = "planned"
                 /\ ~Journal!StatusIn(l.homework, {"cancelled"})
<1> DEFINE Held(ls) ==
             /\ status'[ls] = "held" /\ l.homework \in homeworks'[ls]
             /\ \/ l.homework \notin rows
                \/ /\ status[ls] = "planned"
                   /\ ~Journal!StatusIn(l.homework, {"cancelled"})
<1>1. l \in logs' /\ l \notin logs /\ l.status = "assigned"
  BY DEF Assigned, LogsOK
<1>2. ASSUME NEW ls \in Lesson, NEW hs \in SUBSET Homework, NEW by,
             AddHomework(ls, hs) \/ AddHomeworkTelegram(ls, hs, by)
      PROVE  Held(ls)
  <2>1. /\ hs \cap rows = {}
        /\ \A h \in hs : h \in homeworks'[ls]
        /\ status' = status
    BY <1>2 DEF AddHomework, AddHomeworkTelegram, Attach, IInv, TypeOK,
                Journal!AddHomework, Journal!AddHomeworkTelegram,
                Journal!Create
  <2>2. l.homework \in hs /\ status[ls] = "held"
    BY <1>1, <1>2 DEF AddHomework, AddHomeworkTelegram,
         Journal!AddHomework, Journal!AddHomeworkTelegram, Journal!Write,
         Journal!Assignment, Journal!Creation, Journal!NewLog
  <2> QED
    BY <2>1, <2>2
<1>3. ASSUME NEW ls \in Lesson, SetPassed(ls) \/ SetPassedTelegram(ls)
      PROVE  Held(ls)
  <2>1. PICK hs \in SUBSET homeworks[ls] : Hold(ls, hs)
    BY <1>3 DEF SetPassed, SetPassedTelegram
  <2> QED
    BY <2>1, HoldAssigns
<1>4. ASSUME NEW old, NEW new, Journal!ReplaceHomework(old, new)
      PROVE  FALSE
  BY <1>1, <1>4 DEF Journal!ReplaceHomework, Journal!Creation, Journal!NewLog
<1>5. ASSUME NEW ls, DeleteLesson(ls)
      PROVE  FALSE
  BY <1>1, <1>5 DEF DeleteLesson, Journal!Detach
<1>6. ASSUME NEW ls, NEW x,
             \/ SetNotHeld(ls) \/ CreateLesson(ls) \/ Reschedule(ls, x)
             \/ SetListeners(x) \/ SetMetodist(x) \/ UNCHANGED vars
      PROVE  FALSE
  BY <1>1, <1>6 DEF SetNotHeld, CreateLesson, Reschedule, SetListeners,
                    SetMetodist, Journal!SetMetodist, vars
<1>7. ~WorkOnHomework
  BY WorkAssignsNone DEF WorkOnHomework
<1> QED
  BY <1>2, <1>3, <1>4, <1>5, <1>6, <1>7 DEF Next, Restore, ClosePlan

(***************************************************************************)
(* Homework is set by holding one of its lessons or at its creation for a  *)
(* held one, never by any other handler, and not when it was cancelled.    *)
(***************************************************************************)
THEOREM OnlyHoldingAssigns == Spec => AssignedByHolding
<1>1. LogsOK /\ IInv /\ [Next]_vars =>
        [\A l \in logs' : l.dt > clock /\ l.status = "assigned" =>
           \E ls \in Lesson :
             /\ status'[ls] = "held" /\ l.homework \in homeworks'[ls]
             /\ \/ l.homework \notin rows
                \/ /\ status[ls] = "planned"
                   /\ ~Journal!StatusIn(l.homework, {"cancelled"})]_vars
  BY StepAssigns DEF Assigned
<1> QED
  BY <1>1, LogsAreOK, Invariance, PTL DEF Spec, AssignedByHolding
-----------------------------------------------------------------------------
(***************************************************************************)
(* Setting homework leaves none of it unset: each assignment is the newest *)
(* log of its homework.                                                    *)
(***************************************************************************)
LEMMA SetAssignedSets ==
  ASSUME LogsOK, NEW hs \in SUBSET Homework, Journal!SetAssigned(hs),
         NEW h \in hs
  PROVE  SetIn(h, {"assigned", "cancelled"})
<1> DEFINE todo == {g \in hs : ~Journal!StatusIn(g, {"cancelled"})}
           At(n, g) == Journal!Assignment(g, clock + n[g], metodist)
<1>1. PICK n \in Journal!Orders(todo) :
        logs' = logs \cup {At(n, g) : g \in todo}
  BY DEF Journal!SetAssigned, Journal!Write
<1>2. \A g \in todo : /\ At(n, g).homework = g /\ At(n, g).status = "assigned"
                     /\ At(n, g).dt = clock + n[g]
  BY DEF Journal!Assignment, Journal!NewLog
<1>3. \A g \in todo : n[g] \in Nat /\ n[g] > 0
  <2>1. Journal!Cardinality(todo) \in Nat
    BY FS_Subset, FS_CardinalityType DEF Journal!Cardinality, Cardinality
  <2> QED
    BY <1>1, <2>1 DEF Journal!Orders
<1> HIDE DEF At
<1>4. CASE h \in todo
  <2>1. At(n, h) \in Journal!LogsOf(h)'
    BY <1>1, <1>2, <1>4 DEF Journal!LogsOf
  <2>2. \A m \in Journal!LogsOf(h)' : m.dt <= At(n, h).dt
    BY <1>1, <1>2, <1>3, <1>4 DEF Journal!LogsOf, LogsOK
  <2> QED
    BY <1>2, <1>4, <2>1, <2>2 DEF SetIn, Journal!StatusIn, Journal!Newest
<1>5. CASE h \notin todo
  <2>1. Journal!LogsOf(h)' = Journal!LogsOf(h)
    BY <1>1, <1>2, <1>5 DEF Journal!LogsOf
  <2> QED
    BY <1>5, <2>1 DEF SetIn, Journal!StatusIn, Journal!Newest
<1> QED
  BY <1>4, <1>5

\* Only SetPassed and SetPassedTelegram make a lesson held, one at a time.
LEMMA HeldByHolding ==
  ASSUME IInv, [Next]_vars, NEW ls \in Becomes("held")
  PROVE  \E hs \in SUBSET Homework :
           homeworks[ls] \ absent[ls] \subseteq hs /\ Hold(ls, hs)
<1> USE DEF Becomes, IInv, TypeOK
<1>1. ASSUME NEW k \in Lesson, SetPassed(k) \/ SetPassedTelegram(k)
      PROVE  \E hs \in SUBSET Homework :
               homeworks[k] \ absent[k] \subseteq hs /\ Hold(k, hs)
  BY <1>1 DEF SetPassed, SetPassedTelegram
<1>2. ASSUME NEW k \in Lesson, NEW hs, Hold(k, hs)
      PROVE  k = ls
  BY <1>2 DEF Hold
<1>3. ASSUME NEW k \in Lesson, NEW m \in Lesson,
             \/ SetNotHeld(k) \/ CreateLesson(k) \/ Reschedule(k, m)
             \/ DeleteLesson(k) \/ ClosePlan
      PROVE  FALSE
  BY <1>3 DEF SetNotHeld, CreateLesson, Reschedule, DeleteLesson, ClosePlan
<1>4. ASSUME UNCHANGED status
      PROVE  FALSE
  BY <1>4
<1> QED
  BY <1>1, <1>2, <1>3, <1>4
     DEF Next, AddHomework, AddHomeworkTelegram, Attach, Restore,
         SetListeners, SetMetodist, WorkOnHomework, vars

(***************************************************************************)
(* With a methodist the loop that holds a lesson reaches its end: the only *)
(* notice it may send, that of a cancelled homework, has someone to go to. *)
(***************************************************************************)
THEOREM HoldingSetsAllSupervised == Spec => HoldingSetsAllUnderMetodist
<1>1. ASSUME LogsOK, IInv, [Next]_vars, metodist, NEW ls \in Becomes("held"),
             NEW h \in homeworks[ls] \ absent[ls]
      PROVE  SetIn(h, {"assigned", "cancelled"})
  <2>1. PICK hs \in SUBSET Homework :
          homeworks[ls] \ absent[ls] \subseteq hs /\ Hold(ls, hs)
    BY <1>1, HeldByHolding
  <2>2. Journal!SetAssigned(hs)
    BY <1>1, <2>1 DEF Hold, Fails
  <2> QED
    BY <1>1, <2>1, <2>2, SetAssignedSets
<1>2. LogsOK /\ IInv /\ [Next]_vars =>
        [metodist => \A ls \in Becomes("held") :
           \A h \in homeworks[ls] \ absent[ls] :
             SetIn(h, {"assigned", "cancelled"})]_vars
  BY <1>1
<1> QED
  BY <1>2, LogsAreOK, Invariance, PTL
     DEF Spec, HoldingSetsAllUnderMetodist

-----------------------------------------------------------------------------
(***************************************************************************)
(* Homework goes only with a lesson that is restored or with its plan.     *)
(***************************************************************************)
LEMMA RowsRemoved ==
  ASSUME IInv, [Next]_vars
  PROVE  \/ rows \ rows' = {}
         \/ ClosePlan
         \/ \E ls \in Lesson : \E hs : Restore(ls, hs)
<1>1. ASSUME WorkOnHomework
      PROVE  rows' = rows
  BY <1>1, WorkKeepsRows DEF WorkOnHomework
<1>2. ASSUME NEW hs, Journal!Create(hs)
      PROVE  rows \ rows' = {}
  BY <1>2 DEF Journal!Create
<1>3. ASSUME NEW ls, NEW x,
             \/ Hold(ls, x) \/ SetNotHeld(ls) \/ CreateLesson(ls)
             \/ Reschedule(ls, x) \/ DeleteLesson(ls) \/ SetListeners(x)
             \/ SetMetodist(x) \/ UNCHANGED vars
      PROVE  rows' = rows
  BY <1>3 DEF Hold, SetNotHeld, CreateLesson, Reschedule, DeleteLesson,
              SetListeners, SetMetodist, Journal!SetAssigned,
              Journal!Detach, Journal!SetMetodist, vars
<1> QED
  BY <1>1, <1>2, <1>3
     DEF Next, AddHomework, AddHomeworkTelegram, Journal!AddHomework,
         Journal!AddHomeworkTelegram, SetPassed, SetPassedTelegram

\* Restoring a lesson and closing the plan remove homework, and only that of
\* a lesson that is planned.
THEOREM OnlyPlannedIsRemoved == Spec => RemovedWasPlanned
<1>1. ASSUME IInv, [Next]_vars
      PROVE  rows \ rows' \subseteq HomeworkOf(Having("planned"))
  <2>1. ASSUME NEW ls \in Lesson, NEW hs, Restore(ls, hs)
        PROVE  rows \ rows' \subseteq HomeworkOf(Having("planned"))
    BY <2>1 DEF Restore, HomeworkOf, Having, Journal!ReplaceHomework
  <2>2. ASSUME ClosePlan
        PROVE  rows \ rows' \subseteq HomeworkOf(Having("planned"))
    BY <2>2 DEF ClosePlan, Journal!ReplaceHomework
  <2> QED
    BY <1>1, <2>1, <2>2, RowsRemoved
<1>2. IInv /\ [Next]_vars =>
        [rows \ rows' \subseteq HomeworkOf(Having("planned"))]_vars
  BY <1>1
<1> QED
  BY <1>2, Invariance, PTL DEF Spec, RemovedWasPlanned
=============================================================================

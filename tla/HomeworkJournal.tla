-------------------------- MODULE HomeworkJournal --------------------------
(***************************************************************************)
(* The journal of homework (table HomeworkLog) of one learning plan.       *)
(*                                                                         *)
(* A homework row has no status column: its status is the status of its    *)
(* newest log, and every handler of the site and of the Telegram bot that  *)
(* changes a homework appends, decides or deletes logs.  When the plan has *)
(* a methodist, what a teacher or a curator decides is recorded with an    *)
(* undecided "agreement".  For the listener it has no effect before it is  *)
(* agreed: the status, the colour and the actions that the site gives the  *)
(* listener are those of the newest log that is agreed or needs no         *)
(* agreement, and the bot shows no other.  The list of logs on the site's  *)
(* page is not filtered: a listener can read there what still waits.       *)
(*                                                                         *)
(* The module is open: lessons are not described here, so the handlers of  *)
(* lessons and plans that change homework (SetAssigned, ReplaceHomework,   *)
(* Detach, SetMetodist) may run at any time.  LessonLifecycle closes it.   *)
(***************************************************************************)
EXTENDS Naturals, FiniteSets

CONSTANTS
  Homework,     \* the ids a homework row may get
  MaxDt,        \* bound: how many logs a behaviour may create
  LogEndpoint   \* is POST homeworks/logs/<pk>/, which no page calls, in use?

ASSUME ConstantsAssumption ==
  /\ IsFiniteSet(Homework)
  /\ MaxDt \in Nat
  /\ LogEndpoint \in BOOLEAN

VARIABLES
  rows,      \* the homework rows that exist
  attached,  \* those that belong to a lesson, and so to a plan
  logs,      \* the HomeworkLog rows that exist
  groups,    \* the HomeworkGroups rows: sets of homework given together
  metodist,  \* does the plan have a methodist?
  clock,     \* the creation time of the newest log so far
  outbox     \* what the last handler told the listeners

vars == <<rows, attached, logs, groups, metodist, clock, outbox>>

(***************************************************************************)
(* Rows.  Users are told apart as far as the handlers do: "reviewer" acts  *)
(* as the methodist of the plan or an administrator, "teacher" as a        *)
(* curator or as the teacher of the homework, whose name the creation and  *)
(* the assignment carry.  The JSON of an agreement has four meanings: {}   *)
(* ("none", nothing to agree), accepted false without and with a date      *)
(* ("pending", "declined") and accepted true.                              *)
(***************************************************************************)
Statuses == {"created", "opened", "sent", "accepted", "revision",
             "cancelled", "assigned"}
Users == {"listener", "teacher", "reviewer"}
Agreements == {"none", "pending", "declined", "accepted"}
Verdicts == {"accepted", "declined"}
Creators == {"teacher", "methodist", "administrator"}

Log == [homework : Homework, dt : 1..MaxDt, status : Statuses,
        user : Users, agreement : Agreements]
Notice == [to : Homework, about : Homework, status : Statuses]

NewLog(h, t, s, u, a) ==
  [homework |-> h, dt |-> t, status |-> s, user |-> u, agreement |-> a]

(***************************************************************************)
(* Queries.  A status is read as the newest log, so a homework without     *)
(* logs has none and the handler that asks for it fails (no step).         *)
(***************************************************************************)
LogsOf(h) == {l \in logs : l.homework = h}

Newest(S) == {l \in S : \A m \in S : m.dt <= l.dt}

StatusIn(h, S) == \E l \in Newest(LogsOf(h)) : l.status \in S

\* What get_status(accepted_only=True), which is asked for the listener,
\* chooses from: the logs that are in effect.
AcceptedOnly(h) == {l \in LogsOf(h) : l.agreement \in {"none", "accepted"}}

\* Mistake: every log that had to be agreed is decided, agreed ones again.
Undecided_Any(hs) == {l \in logs : l.homework \in hs /\ l.agreement # "none"}

Undecided(hs) ==
  {l \in logs : l.homework \in hs /\ l.agreement \in {"pending", "declined"}}

\* The homework whose assignment is agreed together with that of h.
GroupOf(h) == {h} \cup UNION {g \in groups : h \in g}

Peers(h) == IF StatusIn(h, {"assigned"}) THEN GroupOf(h) ELSE {h}

\* The logs a deletion may touch: the newest ones of one status.
NewestRun(h) ==
  {l \in LogsOf(h) : \A m \in LogsOf(h) : l.dt <= m.dt => m.status = l.status}

\* The methodist a handler finds through get_lesson().get_learning_plan().
Supervised(h) == metodist /\ h \in attached

(***************************************************************************)
(* Updates.                                                                *)
(***************************************************************************)
\* Logs are created at k later times; auto_now_add never repeats a time.
Write(S, k) ==
  /\ clock + k <= MaxDt
  /\ logs' = logs \cup S
  /\ clock' = clock + k

Decide(S, verdict) ==
  logs' = (logs \ S) \cup {[l EXCEPT !.agreement = verdict] : l \in S}

\* The order in which a loop visits the homework of a set.
Orders(hs) == {n \in [hs -> 1..Cardinality(hs)] :
                 \A a, b \in hs : n[a] = n[b] => a = b}

\* Mistake: the methodist is forgotten.
Assignment_Ungated(h, t, needs) == NewLog(h, t, "assigned", "teacher", "none")

\* The log set_assigned() creates.
Assignment(h, t, needs) ==
  NewLog(h, t, "assigned", "teacher", IF needs THEN "pending" ELSE "none")

Tell(hs, s) == {[to |-> h, about |-> h, status |-> s] : h \in hs}

TellOf(S) == UNION {Tell({l.homework}, l.status) : l \in S}

(***************************************************************************)
(* Creating homework for the listeners of a lesson: from the site, where   *)
(* all rows are created before the first is assigned, and from the bot,    *)
(* which finishes one listener before the next.  Both assign at once when  *)
(* the lesson is already held, and group the rows when there are several.  *)
(* The bot tells the listeners whenever the methodist is the creator, and  *)
(* leaves what an administrator creates unassigned; what a curator creates *)
(* for a lesson that is not held it deletes again (no step).               *)
(***************************************************************************)
Create(hs) ==
  /\ hs # {} /\ hs \cap rows = {}
  /\ rows' = rows \cup hs
  /\ attached' = attached \cup hs
  /\ groups' = IF Cardinality(hs) > 1 THEN groups \cup {hs} ELSE groups
  /\ UNCHANGED metodist

Creation(h, t) == NewLog(h, t, "created", "teacher", "none")

AddHomework(hs, held) ==
  LET k == Cardinality(hs) IN
  /\ Create(hs)
  /\ \E n \in Orders(hs) :
       IF held
       THEN Write({Creation(h, clock + n[h]) : h \in hs} \cup
                  {Assignment(h, clock + k + n[h], metodist) : h \in hs}, 2 * k)
       ELSE Write({Creation(h, clock + n[h]) : h \in hs}, k)
  /\ outbox' = IF held /\ ~metodist THEN Tell(hs, "assigned") ELSE {}

AddHomeworkTelegram(hs, held, by) ==
  LET k == Cardinality(hs)
      assigning == held /\ by # "administrator" IN
  /\ by = "methodist" => metodist
  /\ Create(hs)
  /\ \E n \in Orders(hs) :
       IF assigning
       THEN Write({Creation(h, clock + 2 * n[h] - 1) : h \in hs} \cup
                  {Assignment(h, clock + 2 * n[h], metodist) : h \in hs}, 2 * k)
       ELSE Write({Creation(h, clock + n[h]) : h \in hs}, k)
  /\ outbox' = IF assigning /\ (~metodist \/ by = "methodist")
               THEN Tell(hs, "assigned") ELSE {}

(***************************************************************************)
(* set_assigned() for each of the homework hs of a lesson being held.      *)
(***************************************************************************)
SetAssigned(hs) ==
  LET todo == {h \in hs : ~StatusIn(h, {"cancelled"})} IN
  /\ hs \subseteq attached
  /\ \E n \in Orders(todo) :
       Write({Assignment(h, clock + n[h], metodist) : h \in todo},
             Cardinality(todo))
  /\ outbox' = IF metodist THEN {} ELSE Tell(todo, "assigned")
  /\ UNCHANGED <<rows, attached, groups, metodist>>

(***************************************************************************)
(* The listener opens the page of a new homework, and sends an answer.     *)
(* Neither the site nor the bot looks at the status again when the answer  *)
(* arrives: the form may have been opened at any earlier time.             *)
(***************************************************************************)
\* Mistake: an assigned homework counts as new, too.
Open_Assigned(h) ==
  /\ StatusIn(h, {"created", "assigned"})
  /\ Write({NewLog(h, clock + 1, "opened", "listener", "none")}, 1)
  /\ outbox' = {}
  /\ UNCHANGED <<rows, attached, groups, metodist>>

Open(h) ==
  /\ StatusIn(h, {"created"})
  /\ Write({NewLog(h, clock + 1, "opened", "listener", "none")}, 1)
  /\ outbox' = {}
  /\ UNCHANGED <<rows, attached, groups, metodist>>

\* Mistake: the answer of the listener waits for the methodist, too.
SendAnswer_Gated(h) ==
  /\ h \in rows
  /\ Write({NewLog(h, clock + 1, "sent", "listener",
                   IF Supervised(h) THEN "pending" ELSE "none")}, 1)
  /\ outbox' = {}
  /\ UNCHANGED <<rows, attached, groups, metodist>>

SendAnswer(h) ==
  /\ h \in rows
  /\ Write({NewLog(h, clock + 1, "sent", "listener", "none")}, 1)
  /\ outbox' = {}
  /\ UNCHANGED <<rows, attached, groups, metodist>>

(***************************************************************************)
(* An answer is checked: accepted or sent back for revision.  The notice   *)
(* of the site, which names the lesson, fails for a homework without one.  *)
(***************************************************************************)
\* Mistake: the listener is told before the methodist agrees.
CheckAnswer_Early(h, u, s) ==
  LET accepting == Supervised(h) /\ u = "teacher" IN
  /\ h \in rows
  /\ Write({NewLog(h, clock + 1, s, u,
                   IF accepting THEN "pending" ELSE "none")}, 1)
  /\ outbox' = Tell({h}, s)
  /\ UNCHANGED <<rows, attached, groups, metodist>>

CheckAnswer(h, u, s) ==
  LET accepting == Supervised(h) /\ u = "teacher" IN
  /\ h \in rows
  /\ Write({NewLog(h, clock + 1, s, u,
                    IF accepting THEN "pending" ELSE "none")}, 1)
  /\ \/ ~accepting /\ outbox' = Tell({h}, s)
     \/ (accepting \/ h \notin attached) /\ outbox' = {}
  /\ UNCHANGED <<rows, attached, groups, metodist>>

SetCancelled(h, u) ==
  /\ StatusIn(h, Statuses \ {"accepted", "cancelled"})
  /\ Write({NewLog(h, clock + 1, "cancelled", u, "none")}, 1)
  /\ outbox' = {}
  /\ UNCHANGED <<rows, attached, groups, metodist>>

(***************************************************************************)
(* Deleting a log: on the site under get_delete_log_permission, in the bot *)
(* from the button shown under a feedback, which is not checked again.     *)
(***************************************************************************)
MayDeleteLog(l, u) ==
  /\ l \in NewestRun(l.homework)
  /\ \/ /\ u = "reviewer" \/ (u = "teacher" /\ l.user = "teacher")
        /\ l.status \notin {"created", "opened", "sent"}
        /\ ~StatusIn(l.homework, {"created", "opened"})
     \/ /\ u = "listener" /\ l.user = "listener"
        /\ l.status = "sent"

Delete(l) == /\ l \in logs
             /\ logs' = logs \ {l}
             /\ outbox' = {}
             /\ UNCHANGED <<rows, attached, groups, metodist, clock>>

DeleteLog(l, u) == MayDeleteLog(l, u) /\ Delete(l)

\* Mistake: the button of the bot is shown under every log.
DeleteFeedback_Any(l) == Delete(l)

DeleteFeedback(l) == l.status \in {"accepted", "revision"} /\ Delete(l)

(***************************************************************************)
(* Agreements.  The decision on an assignment covers the whole group when  *)
(* the assignment is the newest log; any other decision covers one         *)
(* homework.  All undecided logs are decided, declined ones again.  When   *)
(* the homework has lost its lesson, the notices fail: on the site, where  *)
(* each log is saved and told of before the next, no other log is decided. *)
(***************************************************************************)
AgreeHomework(h, verdict) ==
  LET to_agreement == Undecided(Peers(h)) IN
  /\ StatusIn(h, Statuses)
  /\ \E done \in {to_agreement, Newest(to_agreement)} :
       /\ \/ h \in attached /\ done = to_agreement
          \/ /\ h \notin attached
             /\ verdict = "accepted" => done = Newest(to_agreement)
       /\ Decide(done, verdict)
       /\ outbox' = IF verdict = "accepted" /\ h \in attached
                    THEN TellOf(done) ELSE {}
  /\ UNCHANGED <<rows, attached, groups, metodist, clock>>

\* Mistake: assignments are left out.
ToAgreement_Answers(h) ==
  {l \in Undecided(Peers(h)) : l.status \in {"revision", "accepted"}}

ToAgreement(h) == {l \in Undecided(Peers(h)) :
                     l.status \in {"revision", "accepted", "assigned"}}

AgreeFound(h, verdict) ==
  /\ Decide(ToAgreement(h), verdict)
  /\ outbox' = IF verdict = "accepted" /\ h \in attached
               THEN TellOf(ToAgreement(h)) ELSE {}
  /\ UNCHANGED <<rows, attached, groups, metodist, clock>>

\* The bot does not check again who presses the button, and when.
AgreeTelegram(h, verdict) == ToAgreement(h) # {} /\ AgreeFound(h, verdict)

\* A methodist, of any plan, who edits a feedback in the bot agrees the
\* homework with it.
EditFeedback(l) ==
  /\ l.status \in {"accepted", "revision"}
  /\ AgreeFound(l.homework, "accepted")

\* The endpoint of one log: the logs of the group up to its creation time
\* are decided, and the listener of the log is told of the whole group.
AgreeLog(l, verdict) ==
  LET hws == IF l.status = "assigned" THEN GroupOf(l.homework)
             ELSE {l.homework}
      told == IF l.status \in {"assigned", "accepted", "revision"}
              THEN {[to |-> l.homework, about |-> h, status |-> l.status] :
                      h \in hws}
              ELSE {} IN
  /\ LogEndpoint
  /\ l.homework \in attached
  /\ Decide({m \in Undecided(hws) : m.dt <= l.dt}, verdict)
  /\ outbox' = IF verdict = "accepted" THEN told ELSE {}
  /\ UNCHANGED <<rows, attached, groups, metodist, clock>>

(***************************************************************************)
(* A plan that is closed loses homework, logs first; a lesson that is      *)
(* restored gets new homework in exchange; a lesson that is deleted leaves *)
(* its homework without a plan; the plan gets a methodist or loses them.   *)
(***************************************************************************)
\* Mistake: removed homework stays in its group.
ReplaceHomework_InGroup(old, new) ==
  /\ old \subseteq attached /\ new = {}
  /\ rows' = rows \ old /\ attached' = attached \ old
  /\ logs' = {l \in logs : l.homework \notin old}
  /\ outbox' = {}
  /\ UNCHANGED <<groups, metodist, clock>>

ReplaceHomework(old, new) ==
  /\ old \subseteq attached /\ new \cap rows = {}
  /\ rows' = (rows \ old) \cup new
  /\ attached' = (attached \ old) \cup new
  /\ groups' = {g \ old : g \in groups}
  /\ \E n \in Orders(new) :
       /\ clock + Cardinality(new) <= MaxDt
       /\ logs' = {l \in logs : l.homework \notin old} \cup
                  {Creation(h, clock + n[h]) : h \in new}
       /\ clock' = clock + Cardinality(new)
  /\ outbox' = {}
  /\ UNCHANGED metodist

Detach(hs) ==
  /\ \A g \in groups : g \subseteq hs \/ g \cap hs = {}
  /\ attached' = attached \ hs
  /\ outbox' = {}
  /\ UNCHANGED <<rows, logs, groups, metodist, clock>>

SetMetodist(b) ==
  /\ metodist' = b
  /\ outbox' = {}
  /\ UNCHANGED <<rows, attached, logs, groups, clock>>

(***************************************************************************)
(* The specification.                                                      *)
(***************************************************************************)
Init ==
  /\ rows = {} /\ attached = {} /\ logs = {} /\ groups = {}
  /\ metodist \in BOOLEAN
  /\ clock = 0
  /\ outbox = {}

Work ==
  \/ \E h \in Homework :
       \/ Open(h)
       \/ SendAnswer(h)
       \/ \E u \in {"teacher", "reviewer"}, s \in {"accepted", "revision"} :
            CheckAnswer(h, u, s)
       \/ \E u \in {"teacher", "reviewer"} : SetCancelled(h, u)
       \/ \E v \in Verdicts : AgreeHomework(h, v) \/ AgreeTelegram(h, v)
  \/ \E l \in logs :
       \/ \E u \in Users : DeleteLog(l, u)
       \/ DeleteFeedback(l)
       \/ EditFeedback(l)
       \/ \E v \in Verdicts : AgreeLog(l, v)

Next ==
  \/ Work
  \/ \E hs \in SUBSET Homework :
       \/ \E held \in BOOLEAN : AddHomework(hs, held)
       \/ \E held \in BOOLEAN, by \in Creators :
            AddHomeworkTelegram(hs, held, by)
       \/ SetAssigned(hs)
       \/ \E new \in SUBSET Homework : ReplaceHomework(hs, new)
       \/ Detach(hs)
  \/ \E b \in BOOLEAN : SetMetodist(b)

Spec == Init /\ [][Next]_vars

----------------------------------------------------------------------------
\* The rows are well-formed, and the cascades leave no log and no group
\* member without its homework (homework/models.py, on_delete=CASCADE).  The
\* homework of a group has lessons, or lost them, together.
TypeOK ==
  /\ rows \subseteq Homework
  /\ attached \subseteq rows
  /\ logs \subseteq Log
  /\ \A l \in logs : l.homework \in rows
  /\ groups \subseteq SUBSET rows
  /\ \A g \in groups : g \subseteq attached \/ g \cap attached = {}
  /\ metodist \in BOOLEAN
  /\ clock \in 0..MaxDt
  /\ outbox \subseteq Notice

\* Whatever is deleted or agreed, a homework keeps the log of its creation,
\* its only one, older than every other log and in need of no agreement: the
\* many get_status().status of the code never meet an empty journal.
CreationLogKept ==
  \A h \in rows : \E c \in LogsOf(h) :
    /\ c.status = "created" /\ c.agreement = "none"
    /\ \A m \in LogsOf(h) \ {c} : m.status # "created" /\ c.dt < m.dt

\* A homework is marked as opened at most once, right after its creation:
\* opening its page never hides an assignment, an answer or a decision.
OpenedFirst ==
  \A l \in logs : l.status = "opened" =>
    \A m \in LogsOf(l.homework) \ {l} :
      IF m.status = "created" THEN m.dt < l.dt
      ELSE m.status # "opened" /\ l.dt < m.dt

\* Only decisions of a teacher or a curator wait for an agreement, so the
\* site, which agrees whatever is undecided, and the bot, which looks at the
\* statuses as well, always decide the same logs.
OnlyDecisionsWait ==
  \A l \in logs : l.agreement # "none" =>
    /\ l.user = "teacher"
    /\ l.status \in {"assigned", "accepted", "revision"}

\* A listener who is told that an answer was accepted or sent back has such a
\* verdict in effect, and not only one that waits, whatever was agreed, in
\* which order and by which of the four handlers that agree.
VerdictToldIsInEffect ==
  \A n \in outbox : n.status \in {"accepted", "revision"} =>
    n.to = n.about /\ \E l \in AcceptedOnly(n.about) : l.status = n.status

\* A listener who is told of new homework has it assigned in effect: the
\* status on the listener's pages may be that of an assignment.
AssignmentToldIsInEffect ==
  \A n \in outbox : n.status = "assigned" =>
    \E l \in AcceptedOnly(n.about) : l.status = "assigned"

\* What the methodist refused stays refused once the work went on: the
\* teacher was told that it is NOT agreed (homeworks_agreement.py), so it is
\* not agreed together with a later decision of the same homework.
OldRefusalStands ==
  [][\A l \in logs :
       /\ l.agreement = "declined"
       /\ \E m \in logs : /\ m.homework = l.homework /\ l.dt < m.dt
                         /\ m.agreement = "pending"
       => [l EXCEPT !.agreement = "accepted"] \notin logs']_vars

\* Agreements follow the journal: as long as a homework has its lesson, no
\* decision is agreed while an older one of the same homework still waits,
\* so a late agreement never uncovers an older decision.
AgreedInOrder ==
  \A l, m \in logs :
    /\ l.homework = m.homework /\ l.homework \in attached
    /\ l.agreement = "accepted" /\ m.dt < l.dt
    => m.agreement \in {"none", "accepted"}

\* An agreed decision never waits for an agreement again.
AgreedStaysAgreed ==
  [][\A l \in logs : l.agreement = "accepted" =>
       \A m \in logs' : m.homework = l.homework /\ m.dt = l.dt => m = l]_vars

\* The journal keeps the promise of ApprovalGate: what a teacher decides under
\* a methodist makes the status, the colour and the actions a listener has on
\* the site, and what the bot shows, only after an agreement.  Nothing is said
\* of what else the site's page displays: its list of logs has those that
\* wait as well (HomeworkSerializer.get_logs), and get_assigned the date of
\* an assignment that waits.
Id(l) == [homework |-> l.homework, dt |-> l.dt, status |-> l.status,
          user |-> l.user]
Note == [homework : Homework, dt : 1..MaxDt, status : Statuses, user : Users]
Decision == {n \in Note : n.user = "teacher" /\
                          n.status \in {"assigned", "accepted", "revision"}}

Gate == INSTANCE ApprovalGate WITH
  effective <- {Id(l) : l \in {m \in logs : m.agreement \in {"none", "accepted"}}},
  waiting <- {Id(l) : l \in {m \in logs : m.agreement \in {"pending", "declined"}}},
  supervised <- {h \in rows : Supervised(h)}

ImplementsGate == Gate!Spec
=============================================================================

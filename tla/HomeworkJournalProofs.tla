----------------------- MODULE HomeworkJournalProofs -----------------------
(***************************************************************************)
(* Proofs about HomeworkJournal, for every set of homework and bound.      *)
(*                                                                         *)
(* A step changes the journal in one of three ways: it removes whole       *)
(* homework and adds new logs (Grown), deletes one log (Removed), or       *)
(* decides some undecided logs (Decided); or it is Quiet.  One lemma for   *)
(* each way shows that it keeps the inductive invariant IInv, one lemma    *)
(* for each action shows that it is of one of these ways, and the theorems *)
(* follow from the ways alone.                                             *)
(***************************************************************************)
EXTENDS HomeworkJournal, FiniteSetTheorems, TLAPS

\* What auto_now_add gives: times are not repeated and never go back.
JournalIsOrdered ==
  /\ \A l \in logs : l.dt <= clock
  /\ \A l, m \in logs : l.homework = m.homework /\ l.dt = m.dt => l = m

IInv ==
  /\ TypeOK
  /\ JournalIsOrdered
  /\ CreationLogKept
  /\ OpenedFirst
  /\ OnlyDecisionsWait
  /\ AgreedInOrder

\* Everything but the logs is typed in the next state.
RestOK ==
  /\ rows \subseteq Homework
  /\ attached \subseteq rows
  /\ groups \subseteq SUBSET rows
  /\ \A g \in groups : g \subseteq attached \/ g \cap attached = {}
  /\ metodist \in BOOLEAN
  /\ outbox \subseteq Notice

(***************************************************************************)
(* The three ways a journal changes.                                       *)
(***************************************************************************)
\* The logs S are new: later than all others, creations only of new
\* homework and before its other logs, openings only of untouched homework,
\* agreements only pending and only on decisions, and under a methodist no
\* decision of a teacher without an agreement.
Fresh(S) ==
  /\ S \subseteq Log
  /\ \A l \in S : clock < l.dt /\ l.dt <= clock'
  /\ \A l \in S : l.homework \in rows'
  /\ \A l, m \in S : l.homework = m.homework /\ l.dt = m.dt => l = m
  /\ \A l \in S : l.status = "created" =>
       /\ l.homework \notin rows /\ l.agreement = "none"
       /\ \A m \in S : m.homework = l.homework /\ m # l =>
            m.status # "created" /\ l.dt < m.dt
  /\ \A l \in S : l.status = "opened" =>
       /\ \A m \in S : m.homework = l.homework => m = l
       /\ \A m \in logs : m.homework = l.homework => m.status = "created"
  /\ \A l \in S : l.agreement # "none" =>
       /\ l.agreement = "pending" /\ l.user = "teacher"
       /\ l.status \in {"assigned", "accepted", "revision"}
  /\ \A l \in S : Id(l) \in Decision /\ l.agreement = "none" =>
       ~(metodist' /\ l.homework \in attached')

Grown(old, S) ==
  /\ clock' \in 0..MaxDt /\ clock <= clock'
  /\ logs' = {l \in logs : l.homework \notin old} \cup S
  /\ rows \ old \subseteq rows'
  /\ rows' \cap old = {}
  /\ attached' \cap rows \subseteq attached
  /\ \A h \in rows' \ rows : \E c \in S : c.homework = h /\ c.status = "created"
  /\ Fresh(S)

Removed(l) ==
  /\ logs' = logs \ {l} /\ l.status # "created"
  /\ UNCHANGED <<rows, attached, clock>>

Decided(S, v) ==
  /\ v \in Verdicts
  /\ S \subseteq logs
  /\ \A l \in S : l.agreement \in {"pending", "declined"}
  /\ v = "accepted" =>
       \A l \in S, m \in logs :
         /\ l.homework = m.homework /\ l.homework \in attached
         /\ m.dt < l.dt /\ m.agreement \in {"pending", "declined"}
         => m \in S
  /\ Decide(S, v)
  /\ UNCHANGED <<rows, attached, metodist, clock>>

\* The journal does not change, homework may lose its lesson.
Quiet ==
  /\ UNCHANGED <<rows, logs, clock>>
  /\ attached' \subseteq attached

Change ==
  \/ \E old, S : Grown(old, S)
  \/ \E l : Removed(l)
  \/ \E S, v : Decided(S, v)
  \/ Quiet

----------------------------------------------------------------------------
\* The logs the handlers build are well-formed.
LEMMA NewLogType ==
  ASSUME NEW h \in Homework, NEW t \in 1..MaxDt, NEW s \in Statuses,
         NEW u \in Users, NEW a \in Agreements
  PROVE  NewLog(h, t, s, u, a) \in Log
BY DEF NewLog, Log

\* Deciding a log changes nothing but its agreement.
LEMMA DecideOne ==
  ASSUME NEW l \in Log, NEW v \in Verdicts, NEW d,
         d = [l EXCEPT !.agreement = v]
  PROVE  /\ d \in Log
         /\ d.homework = l.homework /\ d.dt = l.dt
         /\ d.status = l.status /\ d.user = l.user
         /\ d.agreement = v
BY DEF Log, Verdicts, Agreements

\* A step that removes homework and adds fresh logs keeps the invariant.
LEMMA GrownKeepsIInv ==
  ASSUME IInv, RestOK', NEW old, NEW S, Grown(old, S)
  PROVE  IInv'
<1> USE ConstantsAssumption
<1>1. \A l \in logs : l \in Log /\ l.homework \in rows /\ l.dt <= clock
  BY DEF IInv, TypeOK, JournalIsOrdered
<1>2. /\ \A l \in logs' : l \in S \/ (l \in logs /\ l.homework \notin old)
      /\ \A l \in logs : l.homework \notin old => l \in logs'
      /\ \A l \in S : l \in logs'
  BY DEF Grown
<1>3. \A l \in Log : l.dt \in Int
  BY DEF Log
<1>4. clock \in Int /\ clock' \in Int /\ clock <= clock'
  BY DEF Grown, IInv, TypeOK
<1>5. S \subseteq Log /\ (\A l \in S : clock < l.dt /\ l.dt <= clock' /\ l.homework \in rows')
  BY DEF Grown, Fresh
<1>6. TypeOK'
  <2>1. logs' \subseteq Log
    BY <1>1, <1>2, <1>5
  <2>2. \A l \in logs' : l.homework \in rows'
    BY <1>1, <1>2, <1>5 DEF Grown
  <2> QED
    BY <2>1, <2>2 DEF TypeOK, RestOK, Grown
<1>7. JournalIsOrdered'
  <2>1. \A l \in logs' : l.dt <= clock'
    BY <1>1, <1>2, <1>3, <1>4, <1>5
  <2>2. ASSUME NEW l \in logs', NEW m \in logs', l.homework = m.homework, l.dt = m.dt
        PROVE  l = m
    <3>1. CASE l \in S /\ m \in S
      BY <2>2, <3>1 DEF Grown, Fresh
    <3>2. CASE l \in logs /\ m \in logs
      BY <2>2, <3>2 DEF IInv, JournalIsOrdered
    <3>3. CASE l \in S /\ m \in logs
      BY <2>2, <3>3, <1>1, <1>3, <1>4, <1>5
    <3>4. CASE l \in logs /\ m \in S
      BY <2>2, <3>4, <1>1, <1>3, <1>4, <1>5
    <3> QED
      BY <3>1, <3>2, <3>3, <3>4, <1>2
  <2> QED
    BY <2>1, <2>2 DEF JournalIsOrdered
<1>8. CreationLogKept'
  <2> SUFFICES ASSUME NEW h \in rows'
               PROVE  \E c \in logs' :
                        /\ c.homework = h
                        /\ c.status = "created" /\ c.agreement = "none"
                        /\ \A m \in logs' : m.homework = h /\ m # c =>
                             m.status # "created" /\ c.dt < m.dt
    BY DEF CreationLogKept, LogsOf
  <2>1. CASE h \in rows
    <3>1. h \notin old
      BY DEF Grown
    <3>2. PICK c \in logs :
             /\ c.homework = h
             /\ c.status = "created" /\ c.agreement = "none"
             /\ \A m \in logs : m.homework = h /\ m # c =>
                  m.status # "created" /\ c.dt < m.dt
      BY <2>1 DEF IInv, CreationLogKept, LogsOf
    <3>3. c \in logs'
      BY <3>1, <3>2, <1>2
    <3>4. ASSUME NEW m \in logs', m.homework = h, m # c
          PROVE  m.status # "created" /\ c.dt < m.dt
      <4>1. CASE m \in logs
        BY <3>2, <3>4, <4>1
      <4>2. CASE m \in S
        <5>1. m.status # "created"
          BY <2>1, <3>4, <4>2 DEF Grown, Fresh
        <5>2. c.dt < m.dt
          BY <4>2, <3>2, <1>1, <1>3, <1>4, <1>5
        <5> QED
          BY <5>1, <5>2
      <4> QED
        BY <4>1, <4>2, <1>2
    <3> QED
      BY <3>2, <3>3, <3>4
  <2>2. CASE h \notin rows
    <3>1. PICK c \in S : c.homework = h /\ c.status = "created"
      BY <2>2 DEF Grown
    <3>2. \A m \in logs' : m.homework = h => m \in S
      BY <2>2, <1>1, <1>2
    <3>3. c.agreement = "none"
          /\ \A m \in S : m.homework = h /\ m # c =>
               m.status # "created" /\ c.dt < m.dt
      BY <3>1 DEF Grown, Fresh
    <3> QED
      BY <3>1, <3>2, <3>3, <1>2
  <2> QED
    BY <2>1, <2>2
<1>9. OpenedFirst'
  <2> SUFFICES ASSUME NEW l \in logs', l.status = "opened",
                      NEW m \in logs', m.homework = l.homework, m # l
               PROVE  IF m.status = "created" THEN m.dt < l.dt
                      ELSE m.status # "opened" /\ l.dt < m.dt
    BY DEF OpenedFirst, LogsOf
  <2>1. CASE l \in logs /\ m \in logs
    BY <2>1 DEF IInv, OpenedFirst, LogsOf
  <2>2. CASE l \in S
    <3>1. m \notin S
      BY <2>2 DEF Grown, Fresh
    <3>2. m \in logs /\ m.status = "created"
      BY <2>2, <3>1, <1>2 DEF Grown, Fresh
    <3> QED
      BY <2>2, <3>2, <1>1, <1>3, <1>4, <1>5
  <2>3. CASE l \in logs /\ m \in S
    <3>1. m.status # "created"
      BY <2>3, <1>1 DEF Grown, Fresh
    <3>2. m.status # "opened"
      BY <2>3 DEF Grown, Fresh
    <3> QED
      BY <2>3, <3>1, <3>2, <1>1, <1>3, <1>4, <1>5
  <2> QED
    BY <2>1, <2>2, <2>3, <1>2
<1>10. OnlyDecisionsWait'
  BY <1>2 DEF Grown, Fresh, IInv, OnlyDecisionsWait
<1>11. AgreedInOrder'
  <2> SUFFICES ASSUME NEW l \in logs', NEW m \in logs',
                      l.homework = m.homework, l.homework \in attached',
                      l.agreement = "accepted", m.dt < l.dt
               PROVE  m.agreement \in {"none", "accepted"}
    BY DEF AgreedInOrder
  <2>1. l \in logs
    BY <1>2 DEF Grown, Fresh
  <2>2. l.homework \in attached
    BY <2>1, <1>1 DEF Grown
  <2>3. m \in logs
    BY <2>1, <1>1, <1>2, <1>3, <1>4, <1>5
  <2> QED
    BY <2>1, <2>2, <2>3 DEF IInv, AgreedInOrder
<1> QED
  BY <1>6, <1>7, <1>8, <1>9, <1>10, <1>11 DEF IInv

\* Deleting a log that is not a creation keeps the invariant.
LEMMA RemovedKeepsIInv ==
  ASSUME IInv, RestOK', NEW l, Removed(l)
  PROVE  IInv'
<1>1. logs' \subseteq logs /\ UNCHANGED <<rows, attached, clock>>
  BY DEF Removed
<1>2. TypeOK'
  BY <1>1 DEF IInv, TypeOK, RestOK
<1>3. JournalIsOrdered'
  BY <1>1 DEF IInv, JournalIsOrdered
<1>4. CreationLogKept'
  <2> SUFFICES ASSUME NEW h \in rows
               PROVE  \E c \in logs' :
                        /\ c.homework = h
                        /\ c.status = "created" /\ c.agreement = "none"
                        /\ \A m \in logs' : m.homework = h /\ m # c =>
                             m.status # "created" /\ c.dt < m.dt
    BY <1>1 DEF CreationLogKept, LogsOf
  <2>1. PICK c \in logs :
           /\ c.homework = h
           /\ c.status = "created" /\ c.agreement = "none"
           /\ \A m \in logs : m.homework = h /\ m # c =>
                m.status # "created" /\ c.dt < m.dt
    BY DEF IInv, CreationLogKept, LogsOf
  <2>2. c \in logs'
    BY <2>1 DEF Removed
  <2> QED
    BY <1>1, <2>1, <2>2
<1>5. OpenedFirst'
  BY <1>1 DEF IInv, OpenedFirst, LogsOf
<1>6. OnlyDecisionsWait'
  BY <1>1 DEF IInv, OnlyDecisionsWait
<1>7. AgreedInOrder'
  BY <1>1 DEF IInv, AgreedInOrder
<1> QED
  BY <1>2, <1>3, <1>4, <1>5, <1>6, <1>7 DEF IInv

\* After a decision every log is an old one that was not decided, or a
\* decided one with the new agreement.
LEMMA DecidedLogs ==
  ASSUME IInv, NEW S, NEW v, Decided(S, v), NEW d \in logs'
  PROVE  \E l \in logs :
           /\ d.homework = l.homework /\ d.dt = l.dt
           /\ d.status = l.status /\ d.user = l.user
           /\ d \in Log
           /\ \/ l \notin S /\ d = l
              \/ l \in S /\ d = [l EXCEPT !.agreement = v] /\ d.agreement = v
<1>1. logs \subseteq Log /\ v \in Verdicts /\ S \subseteq logs
  BY DEF IInv, TypeOK, Decided
<1>2. CASE d \in logs \ S
  BY <1>1, <1>2
<1>3. CASE \E l \in S : d = [l EXCEPT !.agreement = v]
  <2>1. PICK l \in S : d = [l EXCEPT !.agreement = v]
    BY <1>3
  <2> QED
    BY <1>1, <2>1, DecideOne
<1> QED
  BY <1>2, <1>3 DEF Decided, Decide

\* Deciding undecided logs, the older ones first, keeps the invariant.
LEMMA DecidedKeepsIInv ==
  ASSUME IInv, RestOK', NEW S, NEW v, Decided(S, v)
  PROVE  IInv'
<1>0. UNCHANGED <<rows, attached, clock>> /\ S \subseteq logs /\ v \in Verdicts
  BY DEF Decided
<1>1. \A d \in logs' : \E l \in logs :
        /\ d.homework = l.homework /\ d.dt = l.dt
        /\ d.status = l.status /\ d.user = l.user
        /\ d \in Log
        /\ \/ l \notin S /\ d = l
           \/ l \in S /\ d = [l EXCEPT !.agreement = v] /\ d.agreement = v
  BY DecidedLogs
<1>2. \A l \in logs : l.agreement = "none" \/ l.agreement = "accepted" => l \in logs'
  BY DEF Decided, Decide
<1>3. TypeOK'
  <2>1. logs' \subseteq Log /\ \A d \in logs' : d.homework \in rows'
    BY <1>0, <1>1 DEF IInv, TypeOK
  <2> QED
    BY <1>0, <2>1 DEF IInv, TypeOK, RestOK
<1>4. JournalIsOrdered'
  <2>1. \A d \in logs' : d.dt <= clock'
    BY <1>0, <1>1 DEF IInv, JournalIsOrdered
  <2>2. ASSUME NEW d \in logs', NEW e \in logs', d.homework = e.homework, d.dt = e.dt
        PROVE  d = e
    <3>1. PICK l \in logs :
            /\ d.homework = l.homework /\ d.dt = l.dt
            /\ \/ l \notin S /\ d = l
               \/ l \in S /\ d = [l EXCEPT !.agreement = v]
      BY <1>1
    <3>2. PICK m \in logs :
            /\ e.homework = m.homework /\ e.dt = m.dt
            /\ \/ m \notin S /\ e = m
               \/ m \in S /\ e = [m EXCEPT !.agreement = v]
      BY <1>1
    <3>3. l = m
      BY <2>2, <3>1, <3>2 DEF IInv, JournalIsOrdered
    <3> QED
      BY <3>1, <3>2, <3>3
  <2> QED
    BY <2>1, <2>2 DEF JournalIsOrdered
<1>5. CreationLogKept'
  <2> SUFFICES ASSUME NEW h \in rows
               PROVE  \E c \in logs' :
                        /\ c.homework = h
                        /\ c.status = "created" /\ c.agreement = "none"
                        /\ \A m \in logs' : m.homework = h /\ m # c =>
                             m.status # "created" /\ c.dt < m.dt
    BY <1>0 DEF CreationLogKept, LogsOf
  <2>1. PICK c \in logs :
           /\ c.homework = h
           /\ c.status = "created" /\ c.agreement = "none"
           /\ \A m \in logs : m.homework = h /\ m # c =>
                m.status # "created" /\ c.dt < m.dt
    BY DEF IInv, CreationLogKept, LogsOf
  <2>2. c \in logs' /\ c \notin S
    BY <1>2, <2>1 DEF Decided
  <2>3. ASSUME NEW m \in logs', m.homework = h, m # c
        PROVE  m.status # "created" /\ c.dt < m.dt
    <3>1. PICK l \in logs :
            /\ m.homework = l.homework /\ m.dt = l.dt /\ m.status = l.status
            /\ \/ l \notin S /\ m = l
               \/ l \in S
      BY <1>1
    <3>2. l # c
      BY <2>2, <2>3, <3>1
    <3> QED
      BY <2>1, <2>3, <3>1, <3>2
  <2> QED
    BY <2>1, <2>2, <2>3
<1>6. OpenedFirst'
  <2> SUFFICES ASSUME NEW d \in logs', d.status = "opened",
                      NEW e \in logs', e.homework = d.homework, e # d
               PROVE  IF e.status = "created" THEN e.dt < d.dt
                      ELSE e.status # "opened" /\ d.dt < e.dt
    BY DEF OpenedFirst, LogsOf
  <2>1. PICK l \in logs :
          /\ d.homework = l.homework /\ d.dt = l.dt /\ d.status = l.status
          /\ \/ l \notin S /\ d = l
             \/ l \in S /\ d = [l EXCEPT !.agreement = v]
    BY <1>1
  <2>2. PICK m \in logs :
          /\ e.homework = m.homework /\ e.dt = m.dt /\ e.status = m.status
          /\ \/ m \notin S /\ e = m
             \/ m \in S /\ e = [m EXCEPT !.agreement = v]
    BY <1>1
  <2>3. l # m
    BY <2>1, <2>2
  <2> QED
    BY <2>1, <2>2, <2>3 DEF IInv, OpenedFirst, LogsOf
<1>7. OnlyDecisionsWait'
  <2> SUFFICES ASSUME NEW d \in logs', d.agreement # "none"
               PROVE  /\ d.user = "teacher"
                      /\ d.status \in {"assigned", "accepted", "revision"}
    BY DEF OnlyDecisionsWait
  <2>1. PICK l \in logs :
          /\ d.status = l.status /\ d.user = l.user
          /\ (l \notin S /\ d = l) \/ l \in S
    BY <1>1
  <2>2. l.agreement # "none"
    BY <2>1 DEF Decided
  <2> QED
    BY <2>1, <2>2 DEF IInv, OnlyDecisionsWait
<1>8. AgreedInOrder'
  <2> SUFFICES ASSUME NEW d \in logs', NEW e \in logs',
                      d.homework = e.homework, d.homework \in attached,
                      d.agreement = "accepted", e.dt < d.dt
               PROVE  e.agreement \in {"none", "accepted"}
    BY <1>0 DEF AgreedInOrder
  <2>1. PICK l \in logs :
          /\ d.homework = l.homework /\ d.dt = l.dt
          /\ (l \notin S /\ d = l) \/ (l \in S /\ d.agreement = v)
    BY <1>1
  <2>2. PICK m \in logs :
          /\ e.homework = m.homework /\ e.dt = m.dt
          /\ (m \notin S /\ e = m) \/ (m \in S /\ e.agreement = v)
    BY <1>1
  <2>3. CASE l \notin S
    <3>1. m.agreement \in {"none", "accepted"}
      BY <2>1, <2>2, <2>3 DEF IInv, AgreedInOrder
    <3>2. m \notin S
      BY <3>1 DEF Decided
    <3> QED
      BY <2>2, <3>1, <3>2
  <2>4. CASE l \in S
    <3>1. v = "accepted"
      BY <2>1, <2>4 DEF Decided
    <3>2. m \in S \/ m.agreement \notin {"pending", "declined"}
      BY <2>1, <2>2, <2>4, <3>1 DEF Decided
    <3>3. m.agreement \in Agreements
      BY DEF IInv, TypeOK, Log
    <3> QED
      BY <2>2, <3>1, <3>2, <3>3 DEF Agreements
  <2> QED
    BY <2>3, <2>4
<1> QED
  BY <1>3, <1>4, <1>5, <1>6, <1>7, <1>8 DEF IInv

\* A step that leaves the journal alone keeps the invariant.
LEMMA QuietKeepsIInv ==
  ASSUME IInv, RestOK', Quiet
  PROVE  IInv'
<1>1. TypeOK'
  BY DEF IInv, TypeOK, RestOK, Quiet
<1>2. JournalIsOrdered' /\ CreationLogKept' /\ OpenedFirst' /\ OnlyDecisionsWait'
  BY DEF IInv, JournalIsOrdered, CreationLogKept, OpenedFirst,
         OnlyDecisionsWait, LogsOf, Quiet
<1>3. AgreedInOrder'
  BY DEF IInv, AgreedInOrder, Quiet
<1> QED
  BY <1>1, <1>2, <1>3 DEF IInv

----------------------------------------------------------------------------
(***************************************************************************)
(* Every action changes the journal in one of these ways.                  *)
(***************************************************************************)
\* The places that a loop over a set gives to its members.
LEMMA OrdersType ==
  ASSUME NEW hs \in SUBSET Homework, NEW n \in Orders(hs)
  PROVE  /\ Cardinality(hs) \in Nat
         /\ \A h \in hs : n[h] \in Nat /\ 1 <= n[h] /\ n[h] <= Cardinality(hs)
<1>1. Cardinality(hs) \in Nat
  BY FS_Subset, FS_CardinalityType, ConstantsAssumption
<1>2. \A h \in hs : n[h] \in 1..Cardinality(hs)
  BY DEF Orders
<1> QED
  BY <1>1, <1>2

\* One log of the homework h is appended; that of a teacher who decides waits
\* for the methodist, an opening finds only the creation.
Appending(h, s, u, a) ==
  /\ h \in rows /\ s \in Statuses \ {"created"} /\ u \in Users
  /\ a \in {"none", "pending"}
  /\ Write({NewLog(h, clock + 1, s, u, a)}, 1)
  /\ UNCHANGED <<rows, attached, metodist>>
  /\ s = "opened" => \A m \in logs : m.homework = h => m.status = "created"
  /\ a = "pending" => u = "teacher" /\ s \in {"assigned", "accepted", "revision"}
  /\ a = "none" /\ u = "teacher" /\ s \in {"assigned", "accepted", "revision"}
       => ~Supervised(h)

\* Appending one log is a way to grow.
LEMMA AppendingChange ==
  ASSUME IInv, NEW h, NEW s, NEW u, NEW a, Appending(h, s, u, a)
  PROVE  Change
<1>0. h \in rows /\ s \in Statuses /\ u \in Users /\ a \in {"none", "pending"}
  BY DEF Appending
<1> DEFINE new == NewLog(h, clock + 1, s, u, a)
<1>1. /\ clock \in Nat /\ clock' = clock + 1 /\ clock' \in 0..MaxDt
      /\ clock + 1 \in 1..MaxDt
  BY ConstantsAssumption DEF IInv, TypeOK, Appending, Write
<1>2. new \in Log
  BY <1>0, <1>1, NewLogType DEF IInv, TypeOK, Agreements
<1>3. /\ new.homework = h /\ new.dt = clock + 1 /\ new.status = s
      /\ new.user = u /\ new.agreement = a
  BY DEF NewLog
<1>4. Id(new) \in Decision => u = "teacher" /\ s \in {"assigned", "accepted", "revision"}
  BY <1>3 DEF Id, Decision
<1> HIDE DEF new
<1>5. Fresh({new})
  BY <1>0, <1>1, <1>2, <1>3, <1>4 DEF Fresh, Appending, Supervised
<1>6. logs' = {l \in logs : l.homework \notin {}} \cup {new}
  BY DEF Appending, Write, new
<1>7. Grown({}, {new})
  BY <1>1, <1>5, <1>6 DEF Grown, Appending
<1> QED
  BY <1>7 DEF Change

\* The homework old is removed, hs is created at the times c by the logs C,
\* and to, a part of it, is assigned at the later times d by the logs D.
Creating(old, hs, to, c, d, C, D) ==
  /\ old \subseteq rows /\ hs \subseteq Homework \ rows /\ to \subseteq hs
  /\ rows' = (rows \ old) \cup hs
  /\ attached' = (attached \ old) \cup hs
  /\ clock' \in 0..MaxDt /\ clock <= clock'
  /\ \A h \in hs : c[h] \in Nat /\ clock < c[h] /\ c[h] <= clock'
  /\ \A h \in to : d[h] \in Nat /\ c[h] < d[h] /\ d[h] <= clock'
  /\ C = {Creation(h, c[h]) : h \in hs}
  /\ D = {Assignment(h, d[h], metodist) : h \in to}
  /\ logs' = {l \in logs : l.homework \notin old} \cup (C \cup D)
  /\ UNCHANGED metodist

\* New homework is created, and some of it assigned afterwards.
LEMMA CreatingChange ==
  ASSUME IInv, NEW old, NEW hs, NEW to, NEW c, NEW d, NEW C, NEW D,
         Creating(old, hs, to, c, d, C, D)
  PROVE  Change
<1>0. /\ old \subseteq rows /\ hs \subseteq Homework \ rows /\ to \subseteq hs
      /\ rows' = (rows \ old) \cup hs
      /\ attached' = (attached \ old) \cup hs
      /\ clock' \in 0..MaxDt /\ clock <= clock'
      /\ \A h \in hs : c[h] \in Nat /\ clock < c[h] /\ c[h] <= clock'
      /\ \A h \in to : d[h] \in Nat /\ c[h] < d[h] /\ d[h] <= clock'
      /\ C = {Creation(h, c[h]) : h \in hs}
      /\ D = {Assignment(h, d[h], metodist) : h \in to}
      /\ UNCHANGED metodist
  BY DEF Creating
<1>1. clock \in Nat /\ metodist \in BOOLEAN /\ MaxDt \in Nat
  BY ConstantsAssumption DEF IInv, TypeOK
<1>2. \A h \in hs : /\ Creation(h, c[h]) \in Log
                    /\ Creation(h, c[h]).homework = h
                    /\ Creation(h, c[h]).dt = c[h]
                    /\ Creation(h, c[h]).status = "created"
                    /\ Creation(h, c[h]).agreement = "none"
  <2>1. \A h \in hs : h \in Homework /\ c[h] \in 1..MaxDt
    BY <1>0, <1>1
  <2> QED
    BY <2>1 DEF Creation, NewLog, Log, Statuses, Users, Agreements
<1>3. \A h \in to : /\ Assignment(h, d[h], metodist) \in Log
                    /\ Assignment(h, d[h], metodist).homework = h
                    /\ Assignment(h, d[h], metodist).dt = d[h]
                    /\ Assignment(h, d[h], metodist).status = "assigned"
                    /\ Assignment(h, d[h], metodist).user = "teacher"
                    /\ Assignment(h, d[h], metodist).agreement =
                         (IF metodist THEN "pending" ELSE "none")
  <2>1. \A h \in to : d[h] \in 1..MaxDt /\ h \in Homework
    BY <1>0, <1>1
  <2> QED
    BY <1>1, <2>1 DEF Assignment, NewLog, Log, Statuses, Users, Agreements
<1>4. \A l \in C : /\ l \in Log /\ l.homework \in hs
                   /\ l.dt = c[l.homework]
                   /\ l.status = "created" /\ l.agreement = "none"
                   /\ l = Creation(l.homework, c[l.homework])
  BY <1>0, <1>2
<1>5. \A l \in D : /\ l \in Log /\ l.homework \in to
                   /\ l.dt = d[l.homework]
                   /\ l.status = "assigned" /\ l.user = "teacher"
                   /\ l.agreement = (IF metodist THEN "pending" ELSE "none")
                   /\ l = Assignment(l.homework, d[l.homework], metodist)
  BY <1>0, <1>3
<1>6. \A h \in hs : \E l \in C : l.homework = h /\ l.status = "created"
  BY <1>0, <1>2
<1>7. logs' = {l \in logs : l.homework \notin old} \cup (C \cup D)
  BY DEF Creating
<1>8. Fresh(C \cup D)
  <2>1. C \cup D \subseteq Log
    BY <1>0, <1>4, <1>5
  <2>2. \A l \in C \cup D : /\ clock < l.dt /\ l.dt <= clock'
                            /\ l.homework \in rows'
    <3>1. \A l \in C : clock < l.dt /\ l.dt <= clock'
      BY <1>0, <1>4
    <3>2. \A l \in D : clock < l.dt /\ l.dt <= clock'
      BY <1>0, <1>1, <1>5
    <3> QED
      BY <1>0, <3>1, <3>2, <1>4, <1>5
  <2>3. \A l, m \in C \cup D : l.homework = m.homework /\ l.dt = m.dt => l = m
    <3>1. \A l \in C, m \in D : l.homework = m.homework => l.dt < m.dt /\ m.dt # l.dt
      BY <1>0, <1>1, <1>4, <1>5
    <3> QED
      BY <1>0, <3>1, <1>4, <1>5
  <2>4. \A l \in C \cup D : l.status = "created" =>
          /\ l.homework \notin rows /\ l.agreement = "none"
          /\ \A m \in C \cup D : m.homework = l.homework /\ m # l =>
               m.status # "created" /\ l.dt < m.dt
    <3>1. \A l \in C \cup D : l.status = "created" => l \in C
      BY <1>5
    <3>2. \A l \in C, m \in D : m.homework = l.homework => l.dt < m.dt
      BY <1>0, <1>4, <1>5
    <3>3. \A l, m \in C : m.homework = l.homework => m = l
      BY <1>0, <1>4
    <3> QED
      BY <1>0, <3>1, <3>2, <3>3, <1>4, <1>5
  <2>5. \A l \in C \cup D : l.status # "opened"
    BY <1>0, <1>4, <1>5
  <2>6. \A l \in C \cup D : l.agreement # "none" =>
          /\ l.agreement = "pending" /\ l.user = "teacher"
          /\ l.status \in {"assigned", "accepted", "revision"}
    BY <1>0, <1>1, <1>4, <1>5
  <2>7. \A l \in C \cup D : Id(l) \in Decision /\ l.agreement = "none" => ~metodist
    <3>1. \A l \in C : Id(l) \notin Decision
      BY <1>4 DEF Id, Decision
    <3> QED
      BY <1>0, <3>1, <1>1, <1>5
  <2> QED
    BY <1>0, <2>1, <2>2, <2>3, <2>4, <2>5, <2>6, <2>7 DEF Fresh
<1>9. Grown(old, C \cup D)
  <2>1. attached \subseteq rows
    BY DEF IInv, TypeOK
  <2>2. \A h \in rows' \ rows : \E l \in C \cup D : l.homework = h /\ l.status = "created"
    BY <1>0, <1>6
  <2> QED
    BY <1>0, <1>7, <1>8, <2>1, <2>2 DEF Grown
<1> QED
  BY <1>9 DEF Change

\* What listeners are told is well-formed.
LEMMA TellType ==
  ASSUME NEW hs \in SUBSET Homework, NEW s \in Statuses
  PROVE  Tell(hs, s) \subseteq Notice
BY DEF Tell, Notice

\* So is what they are told of logs of the journal.
LEMMA TellOfType ==
  ASSUME TypeOK, NEW S \in SUBSET logs
  PROVE  TellOf(S) \subseteq Notice
<1>1. \A l \in S : l.homework \in Homework /\ l.status \in Statuses
  BY DEF TypeOK, Log
<1>2. \A l \in S : Tell({l.homework}, l.status) \subseteq Notice
  BY <1>1, TellType
<1> QED
  BY <1>2 DEF TellOf

\* Creating homework leaves everything but the logs and the notices typed.
LEMMA CreateType ==
  ASSUME TypeOK, NEW hs \in SUBSET Homework, Create(hs), (outbox \subseteq Notice)'
  PROVE  RestOK'
<1>1. rows' \subseteq Homework /\ attached' \subseteq rows' /\ metodist' \in BOOLEAN
  BY DEF TypeOK, Create
<1>2. groups' \subseteq SUBSET rows'
  BY DEF TypeOK, Create
<1>3. ASSUME NEW g \in groups'
      PROVE  g \subseteq attached' \/ g \cap attached' = {}
  <2>1. CASE g = hs
    BY <2>1 DEF Create
  <2>2. CASE g \in groups
    BY <2>2 DEF TypeOK, Create
  <2> QED
    BY <1>3, <2>1, <2>2 DEF Create
<1> QED
  BY <1>1, <1>2, <1>3 DEF RestOK

\* A handler that leaves rows, lessons, groups and methodist alone.
LEMMA RestKept ==
  ASSUME TypeOK, UNCHANGED <<rows, attached, groups, metodist>>,
         (outbox \subseteq Notice)'
  PROVE  RestOK'
BY DEF TypeOK, RestOK

\* Creating homework on the site.
LEMMA AddHomeworkChange ==
  ASSUME IInv, NEW hs \in SUBSET Homework, NEW held \in BOOLEAN, AddHomework(hs, held)
  PROVE  RestOK' /\ Change
<1> DEFINE k == Cardinality(hs)
<1>1. TypeOK /\ clock \in Nat /\ MaxDt \in Nat
  BY ConstantsAssumption DEF IInv, TypeOK
<1>2. PICK n \in Orders(hs) :
        IF held
        THEN Write({Creation(h, clock + n[h]) : h \in hs} \cup
                   {Assignment(h, clock + k + n[h], metodist) : h \in hs}, 2 * k)
        ELSE Write({Creation(h, clock + n[h]) : h \in hs}, k)
  BY DEF AddHomework
<1>3. k \in Nat /\ \A h \in hs : n[h] \in Nat /\ 1 <= n[h] /\ n[h] <= k
  BY OrdersType
<1>4. /\ hs \cap rows = {} /\ UNCHANGED metodist
      /\ rows' = (rows \ {}) \cup hs /\ attached' = (attached \ {}) \cup hs
  BY DEF AddHomework, Create
<1>5. RestOK'
  <2>1. (outbox \subseteq Notice)'
    BY TellType DEF AddHomework, Statuses
  <2> QED
    BY <1>1, <2>1, CreateType DEF AddHomework
<1> DEFINE c == [h \in hs |-> clock + n[h]]
           d == [h \in hs |-> clock + k + n[h]]
           C == {Creation(h, c[h]) : h \in hs}
           D(to) == {Assignment(h, d[h], metodist) : h \in to}
<1>6. \A h \in hs : /\ c[h] = clock + n[h] /\ d[h] = clock + k + n[h]
                    /\ c[h] \in Nat /\ clock < c[h] /\ d[h] \in Nat /\ c[h] < d[h]
                    /\ c[h] <= clock + k /\ d[h] <= clock + 2 * k
  BY <1>1, <1>3
<1>7. /\ {Creation(h, clock + n[h]) : h \in hs} = C
      /\ {Assignment(h, clock + k + n[h], metodist) : h \in hs} = D(hs)
      /\ D({}) = {}
  BY <1>6
<1> HIDE DEF c, d, k
<1>8. CASE held
  <2>1. Write(C \cup D(hs), 2 * k)
    BY <1>2, <1>7, <1>8
  <2>2. /\ clock' = clock + 2 * k /\ clock' \in 0..MaxDt
        /\ logs' = logs \cup (C \cup D(hs))
    BY <2>1, <1>1, <1>3 DEF Write
  <2>3. \A h \in hs : c[h] <= clock' /\ d[h] <= clock'
    BY <2>2, <1>1, <1>3, <1>6
  <2>4. Creating({}, hs, hs, c, d, C, D(hs))
    BY <2>2, <2>3, <1>1, <1>3, <1>4, <1>6 DEF Creating
  <2> QED
    BY <2>4, <1>5, CreatingChange
<1>9. CASE ~held
  <2>1. Write(C, k)
    BY <1>2, <1>7, <1>9
  <2>2. /\ clock' = clock + k /\ clock' \in 0..MaxDt
        /\ logs' = logs \cup (C \cup D({}))
    BY <2>1, <1>1, <1>3, <1>7 DEF Write
  <2>3. Creating({}, hs, {}, c, d, C, D({}))
    BY <2>2, <1>1, <1>3, <1>4, <1>6 DEF Creating
  <2> QED
    BY <2>3, <1>5, CreatingChange
<1> QED
  BY <1>8, <1>9

\* Creating homework in the bot, one listener after another.
LEMMA AddHomeworkTelegramChange ==
  ASSUME IInv, NEW hs \in SUBSET Homework, NEW held \in BOOLEAN,
         NEW by \in Creators, AddHomeworkTelegram(hs, held, by)
  PROVE  RestOK' /\ Change
<1> DEFINE k == Cardinality(hs)
           assigning == held /\ by # "administrator"
<1>1. TypeOK /\ clock \in Nat /\ MaxDt \in Nat
  BY ConstantsAssumption DEF IInv, TypeOK
<1>2. PICK n \in Orders(hs) :
        IF assigning
        THEN Write({Creation(h, clock + 2 * n[h] - 1) : h \in hs} \cup
                   {Assignment(h, clock + 2 * n[h], metodist) : h \in hs}, 2 * k)
        ELSE Write({Creation(h, clock + n[h]) : h \in hs}, k)
  BY DEF AddHomeworkTelegram
<1>3. k \in Nat /\ \A h \in hs : n[h] \in Nat /\ 1 <= n[h] /\ n[h] <= k
  BY OrdersType
<1>4. /\ hs \cap rows = {} /\ UNCHANGED metodist
      /\ rows' = (rows \ {}) \cup hs /\ attached' = (attached \ {}) \cup hs
  BY DEF AddHomeworkTelegram, Create
<1>5. RestOK'
  <2>1. (outbox \subseteq Notice)'
    BY TellType DEF AddHomeworkTelegram, Statuses
  <2> QED
    BY <1>1, <2>1, CreateType DEF AddHomeworkTelegram
<1>6. CASE assigning
  <2> DEFINE c == [h \in hs |-> clock + 2 * n[h] - 1]
             d == [h \in hs |-> clock + 2 * n[h]]
             C == {Creation(h, c[h]) : h \in hs}
             D == {Assignment(h, d[h], metodist) : h \in hs}
  <2>1. \A h \in hs : /\ c[h] = clock + 2 * n[h] - 1 /\ d[h] = clock + 2 * n[h]
                      /\ c[h] \in Nat /\ clock < c[h] /\ d[h] \in Nat
                      /\ c[h] < d[h] /\ c[h] <= clock + 2 * k /\ d[h] <= clock + 2 * k
    BY <1>1, <1>3
  <2>2. /\ {Creation(h, clock + 2 * n[h] - 1) : h \in hs} = C
        /\ {Assignment(h, clock + 2 * n[h], metodist) : h \in hs} = D
    BY <2>1
  <2> HIDE DEF c, d, k
  <2>3. Write(C \cup D, 2 * k)
    BY <1>2, <1>6, <2>2
  <2>4. /\ clock' = clock + 2 * k /\ clock' \in 0..MaxDt
        /\ logs' = logs \cup (C \cup D)
    BY <2>3, <1>1, <1>3 DEF Write
  <2>5. Creating({}, hs, hs, c, d, C, D)
    BY <2>1, <2>4, <1>1, <1>3, <1>4 DEF Creating
  <2> QED
    BY <2>5, <1>5, CreatingChange
<1>7. CASE ~assigning
  <2> DEFINE c == [h \in hs |-> clock + n[h]]
             C == {Creation(h, c[h]) : h \in hs}
  <2>1. \A h \in hs : /\ c[h] = clock + n[h]
                      /\ c[h] \in Nat /\ clock < c[h] /\ c[h] <= clock + k
    BY <1>1, <1>3
  <2>2. {Creation(h, clock + n[h]) : h \in hs} = C
    BY <2>1
  <2> HIDE DEF c, k
  <2>3. Write(C, k)
    BY <1>2, <1>7, <2>2
  <2>4. /\ clock' = clock + k /\ clock' \in 0..MaxDt
        /\ logs' = logs \cup (C \cup {})
    BY <2>3, <1>1, <1>3 DEF Write
  <2>5. Creating({}, hs, {}, c, c, C, {})
    BY <2>1, <2>4, <1>1, <1>3, <1>4 DEF Creating
  <2> QED
    BY <2>5, <1>5, CreatingChange
<1> QED
  BY <1>6, <1>7

\* Replacing homework, when a plan is closed or a lesson restored.
LEMMA ReplaceHomeworkChange ==
  ASSUME IInv, NEW old, NEW new \in SUBSET Homework, ReplaceHomework(old, new)
  PROVE  RestOK' /\ Change
<1>1. TypeOK /\ clock \in Nat /\ MaxDt \in Nat
  BY ConstantsAssumption DEF IInv, TypeOK
<1>2. /\ old \subseteq attached /\ new \cap rows = {}
      /\ rows' = (rows \ old) \cup new
      /\ attached' = (attached \ old) \cup new
      /\ groups' = {g \ old : g \in groups}
      /\ outbox' = {} /\ UNCHANGED metodist
  BY DEF ReplaceHomework
<1>3. RestOK'
  <2>1. \A g \in groups : /\ g \subseteq rows
                          /\ g \subseteq attached \/ g \cap attached = {}
    BY <1>1 DEF TypeOK
  <2>2. groups' \subseteq SUBSET rows'
    BY <1>2, <2>1
  <2>3. \A g \in groups' : g \subseteq attached' \/ g \cap attached' = {}
    BY <1>2, <2>1
  <2> QED
    BY <1>1, <1>2, <2>2, <2>3 DEF TypeOK, RestOK
<1>4. PICK n \in Orders(new) :
        /\ clock + Cardinality(new) <= MaxDt
        /\ logs' = {l \in logs : l.homework \notin old} \cup
                   {Creation(h, clock + n[h]) : h \in new}
        /\ clock' = clock + Cardinality(new)
  BY DEF ReplaceHomework
<1>5. /\ Cardinality(new) \in Nat
      /\ \A h \in new : n[h] \in Nat /\ 1 <= n[h] /\ n[h] <= Cardinality(new)
  BY OrdersType
<1> DEFINE c == [h \in new |-> clock + n[h]]
           C == {Creation(h, c[h]) : h \in new}
<1>6. \A h \in new : /\ c[h] = clock + n[h] /\ c[h] \in Nat
                     /\ clock < c[h] /\ c[h] <= clock'
  BY <1>1, <1>4, <1>5
<1>7. logs' = {l \in logs : l.homework \notin old} \cup (C \cup {})
  BY <1>4, <1>6
<1> HIDE DEF c
<1>8. Creating(old, new, {}, c, c, C, {})
  <2>1. clock' \in 0..MaxDt /\ clock <= clock'
    BY <1>1, <1>4, <1>5
  <2>2. old \subseteq rows
    BY <1>1, <1>2 DEF TypeOK
  <2> QED
    BY <1>2, <1>6, <1>7, <2>1, <2>2 DEF Creating
<1> QED
  BY <1>3, <1>8, CreatingChange

\* Setting the homework of a lesson that is held.
LEMMA SetAssignedChange ==
  ASSUME IInv, NEW hs \in SUBSET Homework, SetAssigned(hs)
  PROVE  RestOK' /\ Change
<1> DEFINE todo == {h \in hs : ~StatusIn(h, {"cancelled"})}
<1>1. /\ TypeOK /\ clock \in Nat /\ MaxDt \in Nat /\ metodist \in BOOLEAN
      /\ todo \subseteq rows /\ todo \in SUBSET Homework
  BY ConstantsAssumption DEF IInv, TypeOK, SetAssigned
<1>2. PICK n \in Orders(todo) :
        Write({Assignment(h, clock + n[h], metodist) : h \in todo},
              Cardinality(todo))
  BY DEF SetAssigned
<1> HIDE DEF todo
<1>3. /\ Cardinality(todo) \in Nat
      /\ \A h \in todo : n[h] \in Nat /\ 1 <= n[h] /\ n[h] <= Cardinality(todo)
  BY <1>1, OrdersType
<1>4. UNCHANGED <<rows, attached, groups, metodist>>
  BY DEF SetAssigned
<1>5. RestOK'
  <2>1. (outbox \subseteq Notice)'
    BY <1>1, TellType DEF SetAssigned, todo, Statuses
  <2> QED
    BY <1>1, <1>4, <2>1, RestKept
<1> DEFINE S == {Assignment(h, clock + n[h], metodist) : h \in todo}
<1>6. /\ clock' = clock + Cardinality(todo) /\ clock' \in 0..MaxDt
      /\ logs' = logs \cup S
  BY <1>1, <1>2, <1>3 DEF Write
<1>7. \A l \in S : /\ l \in Log /\ l.homework \in todo
                   /\ l.dt = clock + n[l.homework]
                   /\ l.status = "assigned" /\ l.user = "teacher"
                   /\ l.agreement = (IF metodist THEN "pending" ELSE "none")
                   /\ l = Assignment(l.homework, clock + n[l.homework], metodist)
  <2>1. \A h \in todo : h \in Homework /\ clock + n[h] \in 1..MaxDt
    BY <1>1, <1>3, <1>6
  <2> QED
    BY <1>1, <2>1 DEF Assignment, NewLog, Log, Statuses, Users, Agreements
<1> HIDE DEF S
<1>8. Fresh(S)
  <2>1. \A l \in S : clock < l.dt /\ l.dt <= clock'
    BY <1>1, <1>3, <1>6, <1>7
  <2> QED
    BY <1>1, <1>4, <1>7, <2>1 DEF Fresh
<1>9. Grown({}, S)
  BY <1>1, <1>3, <1>4, <1>6, <1>8 DEF Grown
<1> QED
  BY <1>5, <1>9 DEF Change

\* A homework has a status only if it exists.
LEMMA StatusOfRow ==
  ASSUME TypeOK, NEW h, NEW S, StatusIn(h, S)
  PROVE  h \in rows
BY DEF TypeOK, StatusIn, Newest, LogsOf

\* Opening the page of a new homework.
LEMMA OpenChange ==
  ASSUME IInv, NEW h \in Homework, Open(h)
  PROVE  RestOK' /\ Change
<1>1. TypeOK /\ h \in rows
  BY StatusOfRow DEF IInv, Open
<1>2. UNCHANGED <<rows, attached, groups, metodist>> /\ outbox' = {}
  BY DEF Open
<1>3. RestOK'
  BY <1>1, <1>2, RestKept
<1>4. \A m \in logs : m.homework = h => m.status = "created"
  <2>1. PICK c \in logs :
          /\ c.homework = h
          /\ \A m \in logs : m.homework = h /\ m # c =>
               m.status # "created" /\ c.dt < m.dt
    BY <1>1 DEF IInv, CreationLogKept, LogsOf
  <2>2. PICK l \in logs : /\ l.homework = h /\ l.status = "created"
                         /\ \A m \in logs : m.homework = h => m.dt <= l.dt
    BY DEF Open, StatusIn, Newest, LogsOf
  <2>3. l = c
    BY <2>1, <2>2
  <2>4. \A m \in logs : m.dt \in Int
    BY <1>1 DEF TypeOK, Log
  <2> QED
    BY <2>1, <2>2, <2>3, <2>4
<1>5. Write({NewLog(h, clock + 1, "opened", "listener", "none")}, 1)
  BY DEF Open
<1>6. Appending(h, "opened", "listener", "none")
  BY <1>1, <1>2, <1>4, <1>5 DEF Appending, Statuses, Users
<1> QED
  BY <1>3, <1>6, AppendingChange

\* Sending an answer.
LEMMA SendAnswerChange ==
  ASSUME IInv, NEW h \in Homework, SendAnswer(h)
  PROVE  RestOK' /\ Change
<1>1. /\ h \in rows /\ outbox' = {}
      /\ UNCHANGED <<rows, attached, groups, metodist>>
      /\ Write({NewLog(h, clock + 1, "sent", "listener", "none")}, 1)
  BY DEF SendAnswer
<1>2. RestOK'
  BY <1>1, RestKept DEF IInv
<1>3. Appending(h, "sent", "listener", "none")
  BY <1>1 DEF Appending, Statuses, Users
<1> QED
  BY <1>2, <1>3, AppendingChange

\* Checking an answer.
LEMMA CheckAnswerChange ==
  ASSUME IInv, NEW h \in Homework, NEW u \in {"teacher", "reviewer"},
         NEW s \in {"accepted", "revision"}, CheckAnswer(h, u, s)
  PROVE  RestOK' /\ Change
<1> DEFINE a == IF Supervised(h) /\ u = "teacher" THEN "pending" ELSE "none"
<1>1. /\ h \in rows
      /\ UNCHANGED <<rows, attached, groups, metodist>>
      /\ Write({NewLog(h, clock + 1, s, u, a)}, 1)
      /\ outbox' = {} \/ outbox' = Tell({h}, s)
  BY DEF CheckAnswer
<1>2. s \in Statuses \ {"created"} /\ u \in Users
  BY DEF Statuses, Users
<1>3. RestOK'
  <2>1. (outbox \subseteq Notice)'
    BY <1>1, <1>2, TellType
  <2> QED
    BY <1>1, <2>1, RestKept DEF IInv
<1>4. /\ a \in {"none", "pending"}
      /\ a = "pending" => u = "teacher"
      /\ a = "none" /\ u = "teacher" => ~Supervised(h)
  OBVIOUS
<1> HIDE DEF a
<1>5. Appending(h, s, u, a)
  BY <1>1, <1>2, <1>4 DEF Appending
<1> QED
  BY <1>3, <1>5, AppendingChange

\* Cancelling a homework.
LEMMA SetCancelledChange ==
  ASSUME IInv, NEW h \in Homework, NEW u \in {"teacher", "reviewer"},
         SetCancelled(h, u)
  PROVE  RestOK' /\ Change
<1>1. h \in rows
  BY StatusOfRow DEF IInv, SetCancelled
<1>2. /\ UNCHANGED <<rows, attached, groups, metodist>> /\ outbox' = {}
      /\ Write({NewLog(h, clock + 1, "cancelled", u, "none")}, 1)
  BY DEF SetCancelled
<1>3. RestOK'
  BY <1>2, RestKept DEF IInv
<1>4. Appending(h, "cancelled", u, "none")
  BY <1>1, <1>2 DEF Appending, Statuses, Users
<1> QED
  BY <1>3, <1>4, AppendingChange

\* Deleting a log.
LEMMA DeleteChange ==
  ASSUME IInv, NEW l, Delete(l), l.status # "created"
  PROVE  RestOK' /\ Change
<1>1. RestOK'
  BY RestKept DEF IInv, Delete
<1>2. Removed(l)
  BY DEF Delete, Removed
<1> QED
  BY <1>1, <1>2 DEF Change

\* The homework that is agreed together with h exists, and loses its lesson
\* only together with h.
LEMMA GroupOfType ==
  ASSUME TypeOK, NEW h \in rows
  PROVE  /\ GroupOf(h) \subseteq rows
         /\ Peers(h) \subseteq GroupOf(h)
         /\ h \notin attached => GroupOf(h) \cap attached = {}
BY DEF TypeOK, GroupOf, Peers

\* What is undecided, and that nothing undecided of the homework is missed.
LEMMA UndecidedOf ==
  ASSUME NEW hs
  PROVE  /\ \A l \in Undecided(hs) :
              /\ l \in logs /\ l.homework \in hs
              /\ l.agreement \in {"pending", "declined"}
         /\ \A l \in Undecided(hs), m \in logs :
              l.homework = m.homework /\ m.agreement \in {"pending", "declined"}
              => m \in Undecided(hs)
BY DEF Undecided

\* Agreeing on the site.
LEMMA AgreeHomeworkChange ==
  ASSUME IInv, NEW h \in Homework, NEW v \in Verdicts, AgreeHomework(h, v)
  PROVE  RestOK' /\ Change
<1> DEFINE ta == Undecided(Peers(h))
<1>1. TypeOK /\ h \in rows
  BY StatusOfRow DEF IInv, AgreeHomework
<1>2. UNCHANGED <<rows, attached, groups, metodist, clock>>
  BY DEF AgreeHomework
<1>3. PICK done :
        /\ done = ta \/ (h \notin attached /\ done = Newest(ta))
        /\ Decide(done, v)
        /\ outbox' = {} \/ outbox' = TellOf(done)
  BY DEF AgreeHomework
<1>4. done \subseteq ta /\ ta \subseteq logs
  BY <1>3 DEF Newest, Undecided
<1>5. RestOK'
  <2>1. (outbox \subseteq Notice)'
    BY <1>1, <1>3, <1>4, TellOfType
  <2> QED
    BY <1>1, <1>2, <2>1, RestKept
<1>6. \A l \in done, m \in ta : l.homework \in attached => m \in done
  <2>1. CASE done = ta
    BY <2>1
  <2>2. CASE h \notin attached
    <3>1. \A l \in ta : l.homework \in Peers(h)
      BY DEF Undecided
    <3> QED
      BY <1>1, <1>4, <2>2, <3>1, GroupOfType
  <2> QED
    BY <1>3, <2>1, <2>2
<1>7. Decided(done, v)
  BY <1>2, <1>3, <1>4, <1>6, UndecidedOf DEF Decided
<1> QED
  BY <1>5, <1>7 DEF Change

\* Agreeing in the bot.
LEMMA AgreeFoundChange ==
  ASSUME IInv, NEW h \in Homework, NEW v \in Verdicts, AgreeFound(h, v)
  PROVE  RestOK' /\ Change
<1> DEFINE ta == ToAgreement(h)
<1>1. ta = Undecided(Peers(h)) /\ ta \subseteq logs
  <2>1. \A l \in Undecided(Peers(h)) :
          l \in logs /\ l.status \in {"revision", "accepted", "assigned"}
    BY DEF IInv, OnlyDecisionsWait, Undecided
  <2> QED
    BY <2>1 DEF ToAgreement
<1>2. /\ UNCHANGED <<rows, attached, groups, metodist, clock>>
      /\ Decide(ta, v)
      /\ outbox' = {} \/ outbox' = TellOf(ta)
  BY DEF AgreeFound
<1>3. RestOK'
  <2>1. (outbox \subseteq Notice)'
    BY <1>1, <1>2, TellOfType DEF IInv
  <2> QED
    BY <1>2, <2>1, RestKept DEF IInv
<1>4. Decided(ta, v)
  BY <1>1, <1>2, UndecidedOf DEF Decided
<1> QED
  BY <1>3, <1>4 DEF Change

\* Agreeing one log and the older ones.
LEMMA AgreeLogChange ==
  ASSUME IInv, NEW l \in logs, NEW v \in Verdicts, AgreeLog(l, v)
  PROVE  RestOK' /\ Change
<1> DEFINE hws == IF l.status = "assigned" THEN GroupOf(l.homework)
                  ELSE {l.homework}
           S == {m \in Undecided(hws) : m.dt <= l.dt}
           told == {[to |-> l.homework, about |-> h, status |-> l.status] :
                      h \in hws}
<1>1. /\ TypeOK /\ l.homework \in rows /\ rows \subseteq Homework
      /\ l.status \in Statuses /\ \A m \in logs : m.dt \in Int
  BY DEF IInv, TypeOK, Log
<1>2. /\ UNCHANGED <<rows, attached, groups, metodist, clock>>
      /\ Decide(S, v)
      /\ outbox' = {} \/ outbox' = told
  BY DEF AgreeLog
<1>3. hws \subseteq Homework
  BY <1>1, GroupOfType
<1>4. RestOK'
  <2>1. (outbox \subseteq Notice)'
    BY <1>1, <1>2, <1>3 DEF Notice
  <2> QED
    BY <1>1, <1>2, <2>1, RestKept
<1> HIDE DEF hws
<1>5. S \subseteq Undecided(hws) /\ Undecided(hws) \subseteq logs
  BY DEF Undecided
<1>6. \A k \in S, m \in Undecided(hws) : m.dt < k.dt => m \in S
  BY <1>1, <1>5
<1> HIDE DEF S
<1>7. Decided(S, v)
  BY <1>2, <1>5, <1>6, UndecidedOf DEF Decided
<1> QED
  BY <1>4, <1>7 DEF Change

\* A lesson is deleted, or the plan gets or loses its methodist.
LEMMA QuietChange ==
  ASSUME IInv, \/ \E hs \in SUBSET Homework : Detach(hs)
               \/ \E b \in BOOLEAN : SetMetodist(b)
  PROVE  RestOK' /\ Change
<1>1. CASE \E hs \in SUBSET Homework : Detach(hs)
  <2>1. PICK hs \in SUBSET Homework : Detach(hs)
    BY <1>1
  <2>2. \A g \in groups : g \subseteq attached' \/ g \cap attached' = {}
    BY <2>1 DEF IInv, TypeOK, Detach
  <2> QED
    BY <2>1, <2>2 DEF IInv, TypeOK, RestOK, Detach, Quiet, Change
<1>2. CASE \E b \in BOOLEAN : SetMetodist(b)
  BY <1>2 DEF IInv, TypeOK, RestOK, SetMetodist, Quiet, Change
<1> QED
  BY <1>1, <1>2

\* Every step changes the journal in one of the four ways.
LEMMA NextChange ==
  ASSUME IInv, Next
  PROVE  RestOK' /\ Change
<1>1. CASE \E h \in Homework : Open(h) \/ SendAnswer(h)
  BY <1>1, OpenChange, SendAnswerChange
<1>2. CASE \E h \in Homework, u \in {"teacher", "reviewer"} :
             \/ \E s \in {"accepted", "revision"} : CheckAnswer(h, u, s)
             \/ SetCancelled(h, u)
  BY <1>2, CheckAnswerChange, SetCancelledChange
<1>3. CASE \E h \in Homework, v \in Verdicts :
             AgreeHomework(h, v) \/ AgreeTelegram(h, v)
  BY <1>3, AgreeHomeworkChange, AgreeFoundChange DEF AgreeTelegram
<1>4. CASE \E l \in logs : (\E u \in Users : DeleteLog(l, u)) \/ DeleteFeedback(l)
  <2>1. PICK l \in logs : (\E u \in Users : DeleteLog(l, u)) \/ DeleteFeedback(l)
    BY <1>4
  <2>2. Delete(l) /\ l.status # "created"
    BY <2>1 DEF DeleteLog, MayDeleteLog, DeleteFeedback
  <2> QED
    BY <2>2, DeleteChange
<1>5. CASE \E l \in logs : EditFeedback(l) \/ \E v \in Verdicts : AgreeLog(l, v)
  <2>1. \A l \in logs : l.homework \in Homework
    BY DEF IInv, TypeOK, Log
  <2>2. "accepted" \in Verdicts
    BY DEF Verdicts
  <2> QED
    BY <1>5, <2>1, <2>2, AgreeFoundChange, AgreeLogChange DEF EditFeedback
<1>6. CASE \E hs \in SUBSET Homework :
             \/ \E held \in BOOLEAN : AddHomework(hs, held)
             \/ \E held \in BOOLEAN, by \in Creators :
                  AddHomeworkTelegram(hs, held, by)
  BY <1>6, AddHomeworkChange, AddHomeworkTelegramChange
<1>7. CASE \E hs \in SUBSET Homework :
             SetAssigned(hs) \/ \E new \in SUBSET Homework : ReplaceHomework(hs, new)
  BY <1>7, SetAssignedChange, ReplaceHomeworkChange
<1>8. CASE \/ \E hs \in SUBSET Homework : Detach(hs)
           \/ \E b \in BOOLEAN : SetMetodist(b)
  BY <1>8, QuietChange
<1> QED
  BY <1>1, <1>2, <1>3, <1>4, <1>5, <1>6, <1>7, <1>8 DEF Next, Work

----------------------------------------------------------------------------
(***************************************************************************)
(* The theorems.                                                           *)
(***************************************************************************)
\* The invariant holds at first, and every step keeps it.
LEMMA InitIInv == Init => IInv
<1> SUFFICES ASSUME Init PROVE IInv
  OBVIOUS
<1> USE ConstantsAssumption
<1>1. TypeOK
  BY DEF Init, TypeOK
<1>2. JournalIsOrdered /\ CreationLogKept /\ OpenedFirst
  BY DEF Init, JournalIsOrdered, CreationLogKept, OpenedFirst, LogsOf
<1>3. OnlyDecisionsWait /\ AgreedInOrder
  BY DEF Init, OnlyDecisionsWait, AgreedInOrder
<1> QED
  BY <1>1, <1>2, <1>3 DEF IInv

\* One step of the invariant, stuttering included.
LEMMA StepIInv == IInv /\ [Next]_vars => IInv'
<1> SUFFICES ASSUME IInv, [Next]_vars PROVE IInv'
  OBVIOUS
<1>1. CASE Next
  <2>1. RestOK' /\ Change
    BY <1>1, NextChange
  <2> QED
    BY <2>1, GrownKeepsIInv, RemovedKeepsIInv, DecidedKeepsIInv, QuietKeepsIInv
       DEF Change
<1>2. CASE UNCHANGED vars
  <2>1. RestOK' /\ Quiet
    BY <1>2 DEF IInv, TypeOK, RestOK, Quiet, vars
  <2> QED
    BY <2>1, QuietKeepsIInv
<1> QED
  BY <1>1, <1>2

\* The inductive invariant is an invariant, whatever the homework is and
\* however many logs are created.
THEOREM Invariance == Spec => []IInv
BY InitIInv, StepIInv, PTL DEF Spec

\* The rows of the journal stay well-formed: no log and no group refers to
\* homework that was removed.
THEOREM TypeCorrect == Spec => []TypeOK
<1>1. IInv => TypeOK
  BY DEF IInv
<1> QED
  BY <1>1, Invariance, PTL

\* No deletion of a log, on the site or in the bot, takes the creation away.
THEOREM CreationKept == Spec => []CreationLogKept
<1>1. IInv => CreationLogKept
  BY DEF IInv
<1> QED
  BY <1>1, Invariance, PTL

\* A homework is opened at most once, right after its creation.
THEOREM OpenedOnce == Spec => []OpenedFirst
<1>1. IInv => OpenedFirst
  BY DEF IInv
<1> QED
  BY <1>1, Invariance, PTL

\* The site and the bot always find the same logs to agree.
THEOREM DecisionsWait == Spec => []OnlyDecisionsWait
<1>1. IInv => OnlyDecisionsWait
  BY DEF IInv
<1> QED
  BY <1>1, Invariance, PTL

\* Agreements follow the order of the decisions.
THEOREM InOrder == Spec => []AgreedInOrder
<1>1. IInv => AgreedInOrder
  BY DEF IInv
<1> QED
  BY <1>1, Invariance, PTL

\* A decision that was agreed keeps its agreement as long as it exists.
THEOREM StaysAgreed == Spec => AgreedStaysAgreed
<1> DEFINE Stays == \A l \in logs : l.agreement = "accepted" =>
                      \A m \in logs' : m.homework = l.homework /\ m.dt = l.dt => m = l
<1>1. ASSUME IInv, Next
      PROVE  Stays
  <2> SUFFICES ASSUME NEW l \in logs, l.agreement = "accepted",
                      NEW m \in logs', m.homework = l.homework, m.dt = l.dt
               PROVE  m = l
    OBVIOUS
  <2>1. \A k \in logs : k.homework = l.homework /\ k.dt = l.dt => k = l
    BY <1>1 DEF IInv, JournalIsOrdered
  <2>2. ASSUME NEW old, NEW S, Grown(old, S)
        PROVE  m = l
    <3>1. l.dt <= clock /\ l.dt \in Int /\ clock \in Int
      BY <1>1 DEF IInv, TypeOK, JournalIsOrdered, Log
    <3>2. m \notin S
      BY <2>2, <3>1 DEF Grown, Fresh
    <3> QED
      BY <2>1, <2>2, <3>2 DEF Grown
  <2>3. ASSUME NEW S, NEW v, Decided(S, v)
        PROVE  m = l
    <3>1. PICK k \in logs :
            /\ m.homework = k.homework /\ m.dt = k.dt
            /\ (k \notin S /\ m = k) \/ k \in S
      BY <1>1, <2>3, DecidedLogs
    <3>2. k = l
      BY <2>1, <3>1
    <3> QED
      BY <2>3, <3>1, <3>2 DEF Decided
  <2>4. CASE (\E k : Removed(k)) \/ Quiet
    BY <2>1, <2>4 DEF Removed, Quiet
  <2> QED
    BY <1>1, <2>2, <2>3, <2>4, NextChange DEF Change
<1>2. IInv /\ [Next]_vars => [Stays]_vars
  BY <1>1
<1> QED
  BY <1>2, Invariance, PTL DEF Spec, AgreedStaysAgreed

----------------------------------------------------------------------------
(***************************************************************************)
(* The journal implements ApprovalGate: growing, removing and what happens *)
(* to lessons and methodists is Work, deciding is Approve or a stutter.    *)
(***************************************************************************)
EffectiveNotes == {Id(l) : l \in {m \in logs : m.agreement \in {"none", "accepted"}}}
WaitingNotes == {Id(l) : l \in {m \in logs : m.agreement \in {"pending", "declined"}}}
SupervisedHomework == {h \in rows : Supervised(h)}

\* The notes of the gate, by the logs they stand for.
LEMMA IdOf ==
  ASSUME NEW l, NEW m, Id(l) = Id(m)
  PROVE  l.homework = m.homework /\ l.dt = m.dt /\ l.status = m.status /\ l.user = m.user
BY DEF Id

\* The gate is well-typed.
LEMMA GateType == IInv => Gate!TypeOK
<1> SUFFICES ASSUME IInv PROVE Gate!TypeOK
  OBVIOUS
<1>1. \A l \in logs : Id(l) \in Note
  BY DEF IInv, TypeOK, Log, Id, Note
<1>2. \A l \in logs : l.agreement \in {"pending", "declined"} => Id(l) \in Decision
  <2>1. \A l \in logs : l.agreement \in {"pending", "declined"} =>
          /\ l.user = "teacher"
          /\ l.status \in {"assigned", "accepted", "revision"}
    BY DEF IInv, OnlyDecisionsWait
  <2> QED
    BY <1>1, <2>1 DEF Decision, Id
<1>3. {h \in rows : Supervised(h)} \subseteq Homework
  BY DEF IInv, TypeOK
<1> QED
  BY <1>1, <1>2, <1>3 DEF Gate!TypeOK

\* A step that adds no decision of a supervised teacher to what is in effect, and
\* mixes up no two notes, is work.
LEMMA WorkStep ==
  ASSUME IInv, IInv',
         \A l \in logs' :
           \/ l \in logs
           \/ /\ clock < l.dt
              /\ Id(l) \in Decision /\ l.agreement = "none" =>
                   ~(metodist' /\ l.homework \in attached')
              /\ l.agreement # "accepted"
  PROVE  Gate!Work
<1>1. Gate!TypeOK'
  BY GateType, PTL
<1>2. \A l \in logs, m \in logs' : Id(l) = Id(m) => l = m
  <2> SUFFICES ASSUME NEW l \in logs, NEW m \in logs', Id(l) = Id(m)
               PROVE  l = m
    OBVIOUS
  <2>1. l.homework = m.homework /\ l.dt = m.dt
    BY IdOf
  <2>2. l.dt <= clock /\ l.dt \in Int /\ clock \in Int
    BY DEF IInv, TypeOK, JournalIsOrdered, Log
  <2>3. m \in logs
    BY <2>1, <2>2
  <2> QED
    BY <2>1, <2>3 DEF IInv, JournalIsOrdered
<1>3. EffectiveNotes' \cap WaitingNotes = {} /\ WaitingNotes' \cap EffectiveNotes = {}
  BY <1>2 DEF EffectiveNotes, WaitingNotes
<1>4. ASSUME NEW n \in (EffectiveNotes' \ EffectiveNotes) \cap Decision
      PROVE  n.homework \notin SupervisedHomework'
  <2>1. PICK l \in logs' : n = Id(l) /\ l.agreement \in {"none", "accepted"}
    BY <1>4 DEF EffectiveNotes
  <2>2. l \notin logs
    BY <1>4, <2>1 DEF EffectiveNotes
  <2>3. ~(metodist' /\ l.homework \in attached') /\ n.homework = l.homework
    BY <1>4, <2>1, <2>2 DEF Id
  <2> QED
    BY <2>3 DEF SupervisedHomework, Supervised
<1> QED
  BY <1>1, <1>3, <1>4
     DEF Gate!Work, EffectiveNotes, WaitingNotes, SupervisedHomework

\* A decision approves what it accepts and changes nothing when it declines.
LEMMA DecideStep ==
  ASSUME IInv, NEW S, NEW v, Decided(S, v)
  PROVE  Gate!Approve \/ UNCHANGED <<EffectiveNotes, WaitingNotes, SupervisedHomework>>
<1>1. /\ S \subseteq logs /\ v \in Verdicts
      /\ \A l \in S : l.agreement \in {"pending", "declined"}
      /\ UNCHANGED <<rows, attached, metodist>>
  BY DEF Decided
<1>2. SupervisedHomework' = SupervisedHomework
  BY <1>1 DEF SupervisedHomework, Supervised
<1>3. \A d \in logs' : \E l \in logs :
        /\ Id(d) = Id(l)
        /\ \/ l \notin S /\ d = l
           \/ l \in S /\ d.agreement = v
  BY DecidedLogs DEF Id
<1>4. \A l \in logs : \E d \in logs' :
        /\ Id(d) = Id(l)
        /\ \/ l \notin S /\ d = l
           \/ l \in S /\ d.agreement = v
  <2>1. ASSUME NEW l \in S
        PROVE  \E d \in logs' : Id(d) = Id(l) /\ d.agreement = v
    <3>1. [l EXCEPT !.agreement = v] \in logs' /\ l \in Log
      BY <1>1 DEF IInv, TypeOK, Decided, Decide
    <3> QED
      BY <1>1, <3>1, DecideOne DEF Id
  <2>2. \A l \in logs \ S : l \in logs'
    BY DEF Decided, Decide
  <2> QED
    BY <1>1, <2>1, <2>2
<1>5. \A l, m \in logs : Id(l) = Id(m) => l = m
  BY IdOf DEF IInv, JournalIsOrdered
<1>6. CASE v = "accepted"
  <2>1. EffectiveNotes \subseteq EffectiveNotes'
    BY <1>1, <1>4, <1>6 DEF EffectiveNotes
  <2>2. EffectiveNotes' \subseteq EffectiveNotes \cup WaitingNotes
    BY <1>1, <1>3, <1>6 DEF EffectiveNotes, WaitingNotes
  <2>3. WaitingNotes' \subseteq WaitingNotes \ EffectiveNotes'
    <3> SUFFICES ASSUME NEW d \in logs', d.agreement \in {"pending", "declined"}
                 PROVE  Id(d) \in WaitingNotes /\ Id(d) \notin EffectiveNotes'
      BY DEF WaitingNotes
    <3>1. d \in logs /\ d \notin S
      BY <1>3, <1>6
    <3>2. ASSUME NEW e \in logs', e.agreement \in {"none", "accepted"}, Id(e) = Id(d)
          PROVE  FALSE
      <4>1. PICK l \in logs : Id(e) = Id(l) /\ ((l \notin S /\ e = l) \/ l \in S)
        BY <1>3
      <4>2. Id(l) = Id(d)
        BY <3>2, <4>1
      <4>3. l = d
        BY <1>5, <3>1, <4>2
      <4> QED
        BY <3>1, <3>2, <4>1, <4>3
    <3> QED
      BY <3>1, <3>2 DEF WaitingNotes, EffectiveNotes
  <2>4. WaitingNotes \ EffectiveNotes' \subseteq WaitingNotes'
    <3> SUFFICES ASSUME NEW l \in logs, l.agreement \in {"pending", "declined"},
                        Id(l) \notin EffectiveNotes'
                 PROVE  Id(l) \in WaitingNotes'
      BY DEF WaitingNotes
    <3>1. l \notin S
      BY <1>4, <1>6 DEF EffectiveNotes
    <3>2. l \in logs'
      BY <1>4, <3>1
    <3> QED
      BY <3>2 DEF WaitingNotes
  <2> QED
    BY <1>2, <2>1, <2>2, <2>3, <2>4
       DEF Gate!Approve, EffectiveNotes, WaitingNotes, SupervisedHomework
<1>7. CASE v = "declined"
  <2>1. EffectiveNotes' = EffectiveNotes
    BY <1>1, <1>3, <1>4, <1>7 DEF EffectiveNotes
  <2>2. WaitingNotes' = WaitingNotes
    BY <1>1, <1>3, <1>4, <1>7 DEF WaitingNotes
  <2> QED
    BY <1>2, <2>1, <2>2
<1> QED
  BY <1>1, <1>6, <1>7 DEF Verdicts

\* With a methodist, what a teacher decides takes effect for the listener (in
\* the status, the colour and the actions on the site and in what the bot
\* shows) only by an agreement: the journal implements the gate.
THEOREM KeepsGate == Spec => ImplementsGate
<1>1. Init => Gate!Init
  BY DEF Init, Gate!Init
<1>2. ASSUME IInv, IInv', [Next]_vars
      PROVE  [Gate!Next]_(Gate!gate)
  <2>1. CASE Next
    <3>1. ASSUME NEW old, NEW S, Grown(old, S)
          PROVE  Gate!Work
      <4>1. \A l \in logs' : l \in logs \/ l \in S
        BY <3>1 DEF Grown
      <4>2. \A l \in S : /\ clock < l.dt /\ l.agreement # "accepted"
                         /\ Id(l) \in Decision /\ l.agreement = "none" =>
                              ~(metodist' /\ l.homework \in attached')
        BY <3>1 DEF Grown, Fresh
      <4> QED
        BY <1>2, <4>1, <4>2, WorkStep
    <3>2. CASE (\E l : Removed(l)) \/ Quiet
      <4>1. logs' \subseteq logs
        BY <3>2 DEF Removed, Quiet
      <4> QED
        BY <1>2, <4>1, WorkStep DEF Gate!Next
    <3>3. ASSUME NEW S, NEW v, Decided(S, v)
          PROVE  [Gate!Next]_(Gate!gate)
      BY <1>2, <3>3, DecideStep
         DEF Gate!Next, Gate!gate, EffectiveNotes, WaitingNotes, SupervisedHomework
    <3> QED
      BY <1>2, <2>1, <3>1, <3>2, <3>3, NextChange DEF Change, Gate!Next
  <2>2. CASE UNCHANGED vars
    BY <2>2 DEF vars, Gate!gate, Supervised
  <2> QED
    BY <1>2, <2>1, <2>2
<1> QED
  BY <1>1, <1>2, Invariance, PTL DEF Spec, ImplementsGate, Gate!Spec
----------------------------------------------------------------------------
(***************************************************************************)
(* The verdict a listener is told of is in effect.  Telling of it is the   *)
(* last thing an action does, so what was told before plays no part.       *)
(***************************************************************************)
\* Deciding logs puts them into effect when they are accepted.
LEMMA DecidedTakesEffect ==
  ASSUME TypeOK, NEW S \in SUBSET logs, Decide(S, "accepted"),
         NEW n \in TellOf(S)
  PROVE  n.to = n.about /\ \E l \in AcceptedOnly(n.about)' : l.status = n.status
<1>1. PICK l \in S : n \in Tell({l.homework}, l.status)
  BY DEF TellOf
<1>2. n.to = l.homework /\ n.about = l.homework /\ n.status = l.status
  BY <1>1 DEF Tell
<1> DEFINE d == [l EXCEPT !.agreement = "accepted"]
<1>3. /\ d.homework = l.homework /\ d.status = l.status
      /\ d.agreement = "accepted"
  BY DecideOne DEF TypeOK, Verdicts
<1>4. d \in logs'
  BY DEF Decide
<1>5. d \in AcceptedOnly(n.about)'
  BY <1>2, <1>3, <1>4 DEF AcceptedOnly, LogsOf
<1> QED
  BY <1>2, <1>3, <1>5

\* Deciding the logs up to one that is in the journal puts that one into effect.
LEMMA AgreeLogTakesEffect ==
  ASSUME TypeOK, NEW l \in logs, NEW v \in Verdicts, AgreeLog(l, v),
         NEW n \in outbox', n.status \in {"accepted", "revision"}
  PROVE  n.to = n.about /\ \E m \in AcceptedOnly(n.about)' : m.status = n.status
<1>1. /\ v = "accepted" /\ l.status \in {"accepted", "revision"}
      /\ n.to = l.homework /\ n.about = l.homework /\ n.status = l.status
  BY DEF AgreeLog
<1> DEFINE S == {m \in Undecided({l.homework}) : m.dt <= l.dt}
           d == [l EXCEPT !.agreement = "accepted"]
<1>2. Decide(S, "accepted")
  BY <1>1 DEF AgreeLog
<1>3. /\ d.homework = l.homework /\ d.status = l.status
      /\ d.agreement = "accepted" /\ l.dt \in Int /\ l.agreement \in Agreements
  BY DecideOne DEF TypeOK, Verdicts, Log
<1>4. CASE l \in S
  <2>1. d \in logs'
    BY <1>2, <1>4 DEF Decide
  <2> QED
    BY <1>1, <1>3, <2>1 DEF AcceptedOnly, LogsOf
<1>5. CASE l \notin S
  <2>1. l \in logs' /\ l.agreement \in {"none", "accepted"}
    BY <1>2, <1>3, <1>5 DEF Decide, Undecided, Agreements
  <2> QED
    BY <1>1, <2>1 DEF AcceptedOnly, LogsOf
<1> QED
  BY <1>4, <1>5

\* No step tells a verdict that is not in effect after it.
LEMMA VerdictStep ==
  ASSUME IInv, Next, NEW n \in outbox', n.status \in {"accepted", "revision"}
  PROVE  n.to = n.about /\ \E l \in AcceptedOnly(n.about)' : l.status = n.status
<1> DEFINE InEffect == n.to = n.about /\ \E l \in AcceptedOnly(n.about)' : l.status = n.status
<1> HIDE DEF InEffect
<1>1. ASSUME NEW hs, NEW x, NEW by,
             \/ AddHomework(hs, x) \/ AddHomeworkTelegram(hs, x, by)
             \/ SetAssigned(hs)
      PROVE  FALSE
  BY <1>1 DEF AddHomework, AddHomeworkTelegram, SetAssigned, Tell
<1>2. ASSUME NEW h, NEW u,
             \/ Open(h) \/ SendAnswer(h) \/ SetCancelled(h, u) \/ Delete(h)
             \/ ReplaceHomework(h, u) \/ Detach(h) \/ SetMetodist(h)
      PROVE  FALSE
  BY <1>2 DEF Open, SendAnswer, SetCancelled, Delete, ReplaceHomework,
              Detach, SetMetodist
<1>3. ASSUME NEW h, NEW u, NEW s, CheckAnswer(h, u, s)
      PROVE  InEffect
  <2>1. ~(Supervised(h) /\ u = "teacher") /\ n \in Tell({h}, s)
    BY <1>3 DEF CheckAnswer
  <2>2. NewLog(h, clock + 1, s, u, "none") \in logs'
    BY <1>3, <2>1 DEF CheckAnswer, Write
  <2>3. NewLog(h, clock + 1, s, u, "none") \in AcceptedOnly(h)'
    BY <2>2 DEF AcceptedOnly, LogsOf, NewLog
  <2> QED
    BY <2>1, <2>3 DEF Tell, InEffect, NewLog
<1>4. ASSUME NEW h, NEW v \in Verdicts, AgreeHomework(h, v)
      PROVE  InEffect
  <2>1. v = "accepted" /\ \E S \in SUBSET logs : Decide(S, v) /\ n \in TellOf(S)
    BY <1>4 DEF AgreeHomework, Undecided, Newest
  <2> QED
    BY <2>1, DecidedTakesEffect DEF InEffect, IInv
<1>5. ASSUME NEW h, NEW v \in Verdicts, AgreeFound(h, v)
      PROVE  InEffect
  <2>1. v = "accepted" /\ \E S \in SUBSET logs : Decide(S, v) /\ n \in TellOf(S)
    BY <1>5 DEF AgreeFound, ToAgreement, Undecided
  <2> QED
    BY <2>1, DecidedTakesEffect DEF InEffect, IInv
<1>6. ASSUME NEW l \in logs, NEW v \in Verdicts, AgreeLog(l, v)
      PROVE  InEffect
  BY <1>6, AgreeLogTakesEffect DEF InEffect, IInv
<1>7. "accepted" \in Verdicts
  BY DEF Verdicts
<1>8. Work => InEffect
  BY <1>2, <1>3, <1>4, <1>5, <1>6, <1>7
     DEF Work, AgreeTelegram, DeleteLog, DeleteFeedback, EditFeedback
<1> QED
  BY <1>1, <1>2, <1>8 DEF Next, InEffect

\* A verdict the listener is told of is among those that
\* get_status(accepted_only=True) chooses the listener's status from.
THEOREM VerdictIsInEffect == Spec => []VerdictToldIsInEffect
<1>1. Init => VerdictToldIsInEffect
  BY DEF Init, VerdictToldIsInEffect
<1>2. IInv /\ VerdictToldIsInEffect /\ [Next]_vars => VerdictToldIsInEffect'
  <2>1. CASE UNCHANGED vars
    BY <2>1 DEF vars, VerdictToldIsInEffect, AcceptedOnly, LogsOf
  <2>2. ASSUME IInv, Next PROVE VerdictToldIsInEffect'
    BY <2>2, VerdictStep DEF VerdictToldIsInEffect
  <2> QED
    BY <2>1, <2>2
<1> QED
  BY <1>1, <1>2, Invariance, PTL DEF Spec
=============================================================================

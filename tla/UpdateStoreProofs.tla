-------------------------- MODULE UpdateStoreProofs --------------------------
(***************************************************************************)
(* Proofs about the updates of one bot.                                    *)
(***************************************************************************)
EXTENDS UpdateStore, TQueueProofs

-----------------------------------------------------------------------------
(***************************************************************************)
(* The inductive invariant.                                                *)
(***************************************************************************)
\* The events that the queue and its log may hold.
Known == {e \in Event : e.data # Nothing =>
            e.data \in Arrived /\ e.expires = expires[e.data]}

\* What is known of the updates that arrived, and of the bot.
HistoryInv ==
  /\ now \in Nat /\ offset \in Nat
  /\ Arrived \subseteq Update /\ expires \in [Arrived -> Nat]
  /\ handed \subseteq Arrived /\ dropped \subseteq Arrived
  /\ given \subseteq Nat

\* The disk and the entries on their way to it hold the queue in memory, and
\* so would a disk with only the first of them hold a queue.
LogInv ==
  /\ Sound(queue, Known)
  /\ unwritten \in Seq(Entry)
  /\ Good(disk, Known)
  /\ Safe(disk, unwritten, Known)
  /\ Written(disk, unwritten) = queue.events

\* What is before the tail was given; what is before the offset of the bot was
\* handed to it.
IdsInv ==
  /\ "kill" \notin breaks => \A i \in given : i < queue.tail
  /\ breaks \cap {"kill", "wrap"} = {} =>
       /\ offset <= queue.tail
       /\ \A i \in Live(queue) : i < offset => queue.events[i].data \in handed

\* All of it: no part is inductive without the others.
Inv == HistoryInv /\ LogInv /\ IdsInv /\ FreshIds

\* A known event whose data is cleared is known.
LEMMA KnownClosed ==
  Clearable(Known) /\ Known \subseteq Event
BY DEF Known, Clearable, Event, Cleared

\* What the events of the queue are, in terms of updates.
QueueData ==
  /\ InQueue = {queue.events[i].data : i \in Live(queue)}
  /\ InQueue \subseteq Arrived
  /\ \A i \in Live(queue) : /\ queue.events[i].data \in Arrived
                            /\ queue.events[i].expires = expires[queue.events[i].data]
                            /\ i \in Nat /\ i < queue.tail

\* The queue holds updates that arrived, with the expiry they came with.
LEMMA KnownData == LogInv => QueueData
<1> SUFFICES ASSUME LogInv
             PROVE  QueueData
  OBVIOUS
<1>1. \A i \in Live(queue) : i \in Ids(queue) /\ queue.events[i] \in Known
                             /\ queue.events[i].data # Nothing
                             /\ i \in Nat /\ i < queue.tail
  BY SoundIds, KnownClosed DEF LogInv, Live
<1>2. InQueue = {queue.events[i].data : i \in Live(queue)}
  BY DEF InQueue, DataOf, Live
<1> QED
  BY <1>1, <1>2 DEF Known, QueueData

\* The same after a step.
LEMMA KnownDataNext == LogInv' => QueueData'
BY KnownData, PTL

\* What an operation of the queue does to the log.
LEMMA DoKeeps ==
  ASSUME LogInv, NEW r, Do(r), Known \subseteq Known', Steps(queue, r, Known'),
         disk' = disk
  PROVE  LogInv' /\ queue' = r.queue
<1>1. queue' = r.queue /\ unwritten' = unwritten \o r.log
  BY DEF Do
<1>2. /\ Sound(queue', Known') /\ r.log \in Seq(Entry)
      /\ Safe(queue.events, r.log, Known')
      /\ Written(queue.events, r.log) = queue'.events
  BY <1>1 DEF Steps
<1>3. /\ unwritten \in Seq(Entry) /\ Written(disk, unwritten) = queue.events
      /\ Good(disk, Known') /\ Safe(disk, unwritten, Known')
  BY More DEF LogInv
<1>4. unwritten' \in Seq(Entry)
  BY <1>1, <1>2, <1>3, ConcatProperties
<1>5. Safe(disk, unwritten', Known')
  BY <1>1, <1>2, <1>3, SafeConcat
<1>6. Written(disk, unwritten') = queue'.events
  BY <1>1, <1>2, <1>3, WrittenConcat
<1> QED
  BY <1>1, <1>2, <1>3, <1>4, <1>5, <1>6 DEF LogInv

\* The updates the server may let go of unseen.
Excused == dropped \cup confirmed \cup {u \in Arrived : expires[u] < now}

\* A step that loses only what it may is a step of UpdateDelivery.
LEMMA Delivers ==
  ASSUME Inv, Inv', Arrived \subseteq Arrived', handed \subseteq handed',
         handed' \subseteq Arrived,
         \A u \in InQueue \cup (Arrived' \ Arrived) :
           u \in InQueue' \/ u \in handed \/ u \in Excused'
  PROVE  Delivery!Step
<1>1. InQueue' \subseteq Arrived'
  BY KnownDataNext DEF Inv, QueueData
<1> QED
  BY <1>1 DEF Delivery!Step, Delivery!Taken, Excused

\* A new queue, and one that starts from a placeholder.
LEMMA InitHolds == Init => Inv
<1> SUFFICES ASSUME Init
             PROVE  Inv
  OBVIOUS
<1>1. OldTail \in 2..MaxId - 1 /\ MaxId \in Nat
  BY StoreAssumption, QueueAssumption
<1>2. Placeholder \in Known
  BY DEF Placeholder, Known, Event
<1>3. Good(disk, Known)
  <2>1. CASE disk = <<>>
    BY <2>1 DEF Good
  <2>2. CASE disk = With(<<>>, OldTail - 1, Placeholder)
    <3>1. disk = [k \in {OldTail - 1} |-> Placeholder]
      BY <2>2 DEF With
    <3>2. DOMAIN disk = {OldTail - 1} /\ OldTail - 1 \in 1..MaxId - 2
      BY <1>1, <3>1
    <3> QED
      BY <1>2, <3>1, <3>2 DEF Good
  <2> QED
    BY <2>1, <2>2 DEF Init
<1>4. Sound(queue, Known) /\ queue.events = disk
  BY <1>3, KnownClosed, ReplaySound DEF Init
<1>5. LogInv
  <2>1. Safe(disk, <<>>, Known)
    BY <1>3, SafeNone
  <2>2. Written(disk, <<>>) = disk
    BY <1>3, GoodIsFcn, WrittenNone
  <2>3. unwritten \in Seq(Entry)
    BY EmptySeq DEF Init
  <2> QED
    BY <1>3, <1>4, <2>1, <2>2, <2>3 DEF Init, LogInv
<1>6. queue.tail \in Nat /\ \A i \in Ids(queue) : i \in Nat /\ i < queue.tail
  <2>1. queue.tail \in Nat
    BY <1>4, QueueAssumption DEF Sound
  <2> QED
    BY <1>4, <2>1, SoundIds, KnownClosed
<1>7. HistoryInv
  BY <1>4, <1>6 DEF Init, HistoryInv, Arrived, Ids
<1>8. IdsInv
  <2>1. Live(queue) = {}
    <3>1. \A i \in DOMAIN disk : disk[i] = Placeholder
      BY DEF Init, With
    <3> QED
      BY <1>4, <3>1 DEF Live, Ids, Placeholder
  <2>2. given = Ids(queue)
    BY <1>4 DEF Init, Ids
  <2> QED
    BY <1>6, <2>1, <2>2 DEF Init, IdsInv
<1> QED
  BY <1>5, <1>7, <1>8 DEF Inv, FreshIds, Init
-----------------------------------------------------------------------------
(***************************************************************************)
(* Each action keeps the invariant and the promise of UpdateDelivery.      *)
(***************************************************************************)
LEMMA ArriveKeeps ==
  ASSUME Inv, NEW u \in Update, NEW ttl \in Ttl, Arrive(u, ttl)
  PROVE  /\ u \notin Arrived /\ Arrived' = Arrived \cup {u} /\ Arrived' \subseteq Update
         /\ expires' \in [Arrived' -> Nat]
         /\ Known \subseteq Known' /\ Clearable(Known')
         /\ [data |-> u, expires |-> now + ttl] \in Known'
         /\ u # Nothing
<1>1. u \in Nat /\ ttl \in Nat \ {0} /\ now \in Nat /\ Nothing \notin Update
  BY StoreAssumption, QueueAssumption DEF Inv, HistoryInv
<1>2. u \notin Arrived
  BY <1>1 DEF Arrive
<1>3. expires' = With(expires, u, now + ttl)
  BY DEF Arrive
<1>4. Arrived' = Arrived \cup {u} /\ expires'[u] = now + ttl
      /\ \A v \in Arrived : expires'[v] = expires[v]
  BY <1>2, <1>3 DEF With, Arrived
<1>5. Arrived' \subseteq Update
  BY <1>4 DEF Inv, HistoryInv
<1>6. expires' \in [Arrived' -> Nat]
  <2>1. expires' = [v \in Arrived' |-> expires'[v]]
    BY <1>3, <1>4 DEF With, Arrived
  <2>2. \A v \in Arrived' : expires'[v] \in Nat
    BY <1>1, <1>4 DEF Inv, HistoryInv
  <2> QED
    BY <2>1, <2>2
<1>7. Known \subseteq Known'
  BY <1>4 DEF Known
<1>8. Clearable(Known')
  BY DEF Known, Clearable, Event, Cleared
<1>9. [data |-> u, expires |-> now + ttl] \in Known'
  BY <1>1, <1>4 DEF Known, Event
<1> QED
  BY <1>1, <1>2, <1>4, <1>5, <1>6, <1>7, <1>8, <1>9

\* A full queue drops the update.
LEMMA PushRefusedKeeps ==
  ASSUME Inv, NEW u \in Update, NEW ttl \in Ttl, PushRefused(u, ttl)
  PROVE  Inv' /\ Delivery!Step
<1>1. Arrive(u, ttl) /\ dropped' = dropped \cup {u}
      /\ UNCHANGED <<queue, disk, unwritten, now, offset, handed, given, confirmed, breaks>>
  BY DEF PushRefused, Arrive
<1>2. /\ Arrived' = Arrived \cup {u} /\ Arrived' \subseteq Update
      /\ expires' \in [Arrived' -> Nat] /\ Known \subseteq Known'
  BY <1>1, ArriveKeeps
<1>3. HistoryInv'
  BY <1>1, <1>2 DEF Inv, HistoryInv
<1>4. LogInv'
  BY <1>1, <1>2, More DEF Inv, LogInv
<1>5. IdsInv' /\ FreshIds'
  BY <1>1 DEF Inv, IdsInv, FreshIds, Live, Ids
<1>6. Inv'
  BY <1>3, <1>4, <1>5 DEF Inv
<1>7. \A v \in InQueue : v \in InQueue'
  BY <1>1 DEF InQueue, DataOf, Ids
<1>8. u \in Excused'
  BY <1>1 DEF Excused
<1>9. handed' = handed /\ handed \subseteq Arrived
  BY <1>1 DEF Inv, HistoryInv
<1> QED
  BY <1>2, <1>6, <1>7, <1>8, <1>9, Delivers

\* An update is pushed behind the others, or after a new beginning.
LEMMA PushUpdateKeeps ==
  ASSUME Inv, NEW u \in Update, NEW ttl \in Ttl, PushUpdate(u, ttl)
  PROVE  Inv' /\ Delivery!Step
<1> DEFINE e == [data |-> u, expires |-> now + ttl]
           id == queue'.tail - 1
           before == IF Wraps(queue) THEN {} ELSE given
<1>1. Arrive(u, ttl) /\ UNCHANGED <<disk, now, offset, handed, confirmed>>
  BY DEF PushUpdate, Arrive
<1>2. /\ u \notin Arrived /\ Arrived' = Arrived \cup {u} /\ Arrived' \subseteq Update
      /\ expires' \in [Arrived' -> Nat] /\ Known \subseteq Known' /\ Clearable(Known')
      /\ e \in Known' /\ e.data # Nothing /\ e.data = u
  BY <1>1, ArriveKeeps
<1>3. PICK first \in FirstIds : Do(Push(queue, e, first))
  BY DEF PushUpdate
<1>4. /\ given' = before \cup {id}
      /\ breaks' = breaks \cup (IF Wraps(queue) THEN {"wrap"} ELSE {})
                          \cup (IF id \in before THEN {"twice"} ELSE {})
      /\ dropped' = IF Wraps(queue) THEN dropped \cup InQueue ELSE dropped
  BY DEF PushUpdate
<1> DEFINE r == Push(queue, e, first)
<1> HIDE DEF e
<1>5. Sound(queue, Known')
  BY <1>2, More DEF Inv, LogInv
<1>6. /\ Steps(queue, r, Known')
      /\ r.queue.tail - 1 = IF Wraps(queue) \/ queue.tail = 0 THEN first ELSE queue.tail
      /\ r.queue.tail - 1 \in 1..MaxId - 2
      /\ Live(r.queue) = (IF Wraps(queue) THEN {} ELSE Live(queue)) \cup {r.queue.tail - 1}
      /\ r.queue.events[r.queue.tail - 1] = e
      /\ ~Wraps(queue) => \A j \in Live(queue) : r.queue.events[j] = queue.events[j]
  BY <1>2, <1>5, PushSteps
<1>7. LogInv' /\ queue' = r.queue
  <2> HIDE DEF r
  <2> QED
    BY <1>1, <1>2, <1>3, <1>6, DoKeeps DEF Inv, r
<1> HIDE DEF r
<1>8. /\ id = IF Wraps(queue) \/ queue.tail = 0 THEN first ELSE queue.tail
      /\ id \in Nat /\ id < queue'.tail /\ queue'.tail \in Nat /\ queue.tail \in Nat
      /\ Live(queue') = (IF Wraps(queue) THEN {} ELSE Live(queue)) \cup {id}
      /\ queue'.events[id] = e
      /\ ~Wraps(queue) => \A j \in Live(queue) : queue'.events[j] = queue.events[j]
  <2>1. queue'.tail \in Nat /\ queue.tail \in Nat
    BY <1>5, <1>6, <1>7, QueueAssumption DEF Steps, Sound
  <2> QED
    BY <1>6, <1>7, <2>1, QueueAssumption
<1> HIDE DEF id, before
<1>9. HistoryInv'
  <2>1. given' \subseteq Nat
    BY <1>4, <1>8 DEF Inv, HistoryInv, before
  <2>2. dropped' \subseteq Arrived'
    BY <1>2, <1>4, KnownData DEF Inv, HistoryInv, QueueData
  <2> QED
    BY <1>1, <1>2, <2>1, <2>2 DEF Inv, HistoryInv
<1>10. ASSUME "kill" \notin breaks, NEW i \in before
       PROVE  i < queue.tail /\ i < queue'.tail /\ i # id
  <2>1. i \in given /\ ~Wraps(queue) /\ i \in Nat
    BY <1>10 DEF before, Inv, HistoryInv
  <2>2. i < queue.tail
    BY <1>10, <2>1 DEF Inv, IdsInv
  <2>3. queue.tail # 0 /\ id = queue.tail
    BY <1>8, <2>1, <2>2
  <2> QED
    BY <1>8, <2>1, <2>2, <2>3
<1>11. IdsInv'
  <2>1. "kill" \notin breaks' => \A i \in given' : i < queue'.tail
    <3>1. "kill" \notin breaks' => "kill" \notin breaks
      BY <1>4
    <3> QED
      BY <1>4, <1>8, <1>10, <3>1
  <2>2. ASSUME breaks' \cap {"kill", "wrap"} = {}
        PROVE  /\ offset' <= queue'.tail
               /\ \A i \in Live(queue') : i < offset' => queue'.events[i].data \in handed'
    <3>1. breaks \cap {"kill", "wrap"} = {} /\ ~Wraps(queue)
      BY <1>4, <2>2
    <3>2. /\ offset <= queue.tail /\ offset \in Nat
          /\ \A i \in Live(queue) : i < offset => queue.events[i].data \in handed
      BY <3>1 DEF Inv, IdsInv, HistoryInv
    <3>3. queue.tail <= id
      BY <1>8, <3>1
    <3>4. ~(id < offset) /\ offset <= queue'.tail
      BY <1>8, <3>2, <3>3
    <3> QED
      BY <1>1, <1>8, <3>1, <3>2, <3>4
  <2> QED
    BY <2>1, <2>2 DEF IdsInv
<1>12. FreshIds'
  <2>1. "twice" \in breaks' => "kill" \in breaks'
    <3>1. CASE "kill" \in breaks
      BY <1>4, <3>1
    <3>2. CASE "kill" \notin breaks
      <4>1. "twice" \notin breaks
        BY <3>2 DEF Inv, FreshIds
      <4>2. id \notin before
        BY <1>10, <3>2
      <4> QED
        BY <1>4, <4>1, <4>2
    <3> QED
      BY <3>1, <3>2
  <2>2. confirmed' # {} => breaks' \cap {"kill", "wrap"} # {}
    <3>1. confirmed # {} => breaks \cap {"kill", "wrap"} # {}
      BY DEF Inv, FreshIds
    <3> QED
      BY <1>1, <1>4, <3>1
  <2> QED
    BY <2>1, <2>2 DEF FreshIds
<1>13. Inv'
  BY <1>7, <1>9, <1>11, <1>12 DEF Inv
<1>14. ASSUME NEW v \in InQueue
       PROVE  v \in InQueue' \/ v \in Excused'
  <2>1. CASE Wraps(queue)
    BY <1>4, <2>1 DEF Excused
  <2>2. CASE ~Wraps(queue)
    <3>1. PICK i \in Live(queue) : v = queue.events[i].data
      BY KnownData DEF Inv, QueueData
    <3>2. i \in Live(queue') /\ queue'.events[i].data = v
      BY <1>8, <2>2, <3>1
    <3> QED
      BY <1>7, <3>2, KnownDataNext DEF QueueData
  <2> QED
    BY <2>1, <2>2
<1>15. u \in InQueue'
  <2>1. id \in Live(queue') /\ queue'.events[id].data = u
    BY <1>2, <1>8
  <2> QED
    BY <1>7, <2>1, KnownDataNext DEF QueueData
<1>16. handed' = handed /\ handed \subseteq Arrived
  BY <1>1 DEF Inv, HistoryInv
<1> QED
  BY <1>2, <1>13, <1>14, <1>15, <1>16, Delivers

(***************************************************************************)
(* The answers of getUpdates: the bot moves on behind the last it has had. *)
(***************************************************************************)
LEMMA ReceiveKeeps ==
  ASSUME Inv, NEW ids \in SUBSET Live(queue), Receive(ids)
  PROVE  /\ offset' \in Nat /\ handed \subseteq handed' /\ handed' \subseteq Arrived
         /\ \/ offset' = offset
            \/ /\ offset' <= queue.tail
               /\ \A i \in ids : queue.events[i].data \in handed'
               /\ \A i \in Nat : i < offset' => \E j \in ids : i <= j
<1>1. /\ \A i \in Live(queue) : i \in Nat /\ i < queue.tail /\ queue.events[i].data \in Arrived
      /\ offset \in Nat /\ handed \subseteq Arrived
  BY KnownData DEF Inv, QueueData, HistoryInv
<1>2. \A i \in ids : queue.events[i].data \in DataOf(ids)
  BY DEF DataOf, Live
<1>3. DataOf(ids) \subseteq Arrived
  BY <1>1 DEF DataOf
<1>4. CASE /\ ids # {}
           /\ handed' = handed \cup DataOf(ids)
           /\ offset' = Max(ids) + 1
  <2>1. ids \in SUBSET (0..queue.tail) /\ queue.tail \in Nat
    BY <1>1, QueueAssumption DEF Inv, LogInv, Sound
  <2>2. Max(ids) \in ids /\ \A i \in ids : i <= Max(ids)
    BY <1>4, <2>1, MaxOf
  <2>3. Max(ids) \in Nat /\ Max(ids) < queue.tail
    BY <1>1, <2>2
  <2>4. offset' \in Nat /\ offset' <= queue.tail
    BY <1>4, <2>1, <2>3
  <2>5. \A i \in Nat : i < offset' => i <= Max(ids)
    BY <1>4, <2>3
  <2> QED
    BY <1>1, <1>2, <1>3, <1>4, <2>2, <2>4, <2>5
<1>5. CASE UNCHANGED <<handed, offset>>
  BY <1>1, <1>5
<1> QED
  BY <1>4, <1>5 DEF Receive

\* What is before the place a bot reads from, it asked to forget.
LEMMA FromType ==
  ASSUME NEW q, NEW D, Sound(q, D), Clearable(D), NEW from \in Nat
  PROVE  /\ From(q, from) \in Nat
         /\ \A i \in Ids(q) : i < From(q, from) => ~TooFar(q, from) /\ From(q, from) = from
<1>1. Ids(q) \in SUBSET Nat /\ q.tail \in Nat
  <2>1. q.tail \in Nat
    BY QueueAssumption DEF Sound
  <2> QED
    BY <2>1, SoundIds DEF Clearable
<1>2. GetHead(q) \in Nat /\ \A i \in Ids(q) : GetHead(q) <= i
  <2>1. CASE Ids(q) = {}
    BY <1>1, <2>1 DEF GetHead
  <2>2. CASE Ids(q) # {}
    <3>1. Min(Ids(q)) \in Ids(q) /\ \A i \in Ids(q) : Min(Ids(q)) <= i
      BY <1>1, <2>2, MinOf
    <3> QED
      BY <1>1, <2>2, <3>1 DEF GetHead
  <2> QED
    BY <2>1, <2>2
<1>3. CASE from <= 0 \/ TooFar(q, from)
  <2>1. From(q, from) = GetHead(q)
    BY <1>3 DEF From
  <2> QED
    BY <1>1, <1>2, <2>1
<1>4. CASE ~(from <= 0 \/ TooFar(q, from))
  BY <1>4 DEF From
<1> QED
  BY <1>3, <1>4

\* The known events change only when an update arrives.
LEMMA SameKnown == UNCHANGED expires => Known' = Known /\ Arrived' = Arrived
BY DEF Known, Arrived

\* getUpdates: what goes had been handed over, expired or was confirmed.
LEMMA GetUpdatesKeeps ==
  ASSUME Inv, NEW limit \in Limit, GetUpdates(limit)
  PROVE  Inv' /\ Delivery!Step
<1> DEFINE r == Answer(queue, offset, limit)
           from == From(queue, offset)
<1>1. /\ Do(r) /\ Receive(r.ids)
      /\ confirmed' = IF TooFar(queue, offset) THEN confirmed
                      ELSE confirmed \cup
                           (DataOf({i \in Ids(queue) : i < offset}) \ handed)
      /\ UNCHANGED <<disk, now, expires, dropped, given, breaks>>
  BY DEF GetUpdates
<1>2. Sound(queue, Known) /\ Clearable(Known) /\ offset \in Nat /\ now \in Nat /\ limit \in Nat
  BY KnownClosed, StoreAssumption DEF Inv, LogInv, HistoryInv
<1>3. /\ from \in Nat
      /\ \A i \in Ids(queue) : i < from => ~TooFar(queue, offset) /\ from = offset
  BY <1>2, FromType
<1> HIDE DEF from
<1>4. r = Get(queue, from, TRUE, limit, now)
  BY DEF Answer, from
<1> HIDE DEF r
<1>5. /\ Steps(queue, r, Known)
      /\ r.queue.tail = queue.tail
      /\ r.ids \subseteq Live(queue)
      /\ Live(r.queue) \subseteq Live(queue)
      /\ \A i \in Live(r.queue) : r.queue.events[i] = queue.events[i]
      /\ \A i \in Live(queue) \ Live(r.queue) : i < from \/ queue.events[i].expires < now
      /\ \A i \in Live(r.queue) \ r.ids : \A j \in r.ids : j < i
  <2> HIDE DEF Inv
  <2>1. LET g == Get(queue, from, TRUE, limit, now)
        IN /\ Steps(queue, g, Known)
           /\ g.queue.tail = queue.tail
           /\ g.ids \subseteq Live(queue)
           /\ Live(g.queue) \subseteq Live(queue)
           /\ \A i \in Live(g.queue) : g.queue.events[i] = queue.events[i]
           /\ \A i \in Live(queue) \ Live(g.queue) :
                i < from \/ queue.events[i].expires < now
           /\ \A i \in Live(g.queue) \ g.ids : \A j \in g.ids : j < i
    BY <1>2, <1>3, GetSteps, Zenon
  <2> QED
    BY <1>4, <2>1
<1>6. Known' = Known /\ Arrived' = Arrived
  BY <1>1, SameKnown
<1>7. LogInv' /\ queue' = r.queue
  BY <1>1, <1>5, <1>6, DoKeeps DEF Inv
<1>8. /\ offset' \in Nat /\ handed \subseteq handed' /\ handed' \subseteq Arrived
      /\ \/ offset' = offset
         \/ /\ offset' <= queue.tail
            /\ \A i \in r.ids : queue.events[i].data \in handed'
            /\ \A i \in Nat : i < offset' => \E j \in r.ids : i <= j
  BY <1>1, <1>5, ReceiveKeeps
<1>9. \A i \in Live(queue) : /\ i \in Nat /\ i \in Ids(queue)
                             /\ queue.events[i].data \in Arrived
                             /\ queue.events[i].expires = expires[queue.events[i].data]
                             /\ queue.events[i].data # Nothing
  BY KnownData DEF Inv, QueueData, Live
<1>10. HistoryInv'
  BY <1>1, <1>6, <1>8 DEF Inv, HistoryInv
<1>11. IdsInv'
  <2>1. "kill" \notin breaks' => \A i \in given' : i < queue'.tail
    BY <1>1, <1>5, <1>7 DEF Inv, IdsInv
  <2>2. ASSUME breaks' \cap {"kill", "wrap"} = {}
        PROVE  /\ offset' <= queue'.tail
               /\ \A i \in Live(queue') : i < offset' => queue'.events[i].data \in handed'
    <3>1. /\ offset <= queue.tail
          /\ \A i \in Live(queue) : i < offset => queue.events[i].data \in handed
      BY <1>1, <2>2 DEF Inv, IdsInv
    <3>2. CASE offset' = offset
      BY <1>5, <1>7, <1>8, <3>1, <3>2
    <3>3. CASE /\ offset' <= queue.tail
               /\ \A i \in r.ids : queue.events[i].data \in handed'
               /\ \A i \in Nat : i < offset' => \E j \in r.ids : i <= j
      <4>1. ASSUME NEW i \in Live(r.queue), i < offset'
            PROVE  queue.events[i].data \in handed'
        <5>1. i \in Nat /\ \A j \in r.ids : j \in Nat
          BY <1>5, <1>9
        <5>2. PICK j \in r.ids : i <= j
          BY <3>3, <4>1, <5>1
        <5>3. i \in r.ids
          BY <1>5, <5>1, <5>2
        <5> QED
          BY <3>3, <5>3
      <4> QED
        BY <1>5, <1>7, <3>3, <4>1
    <3> QED
      BY <1>8, <3>2, <3>3
  <2> QED
    BY <2>1, <2>2 DEF IdsInv
<1>12. FreshIds'
  <2>1. ASSUME breaks \cap {"kill", "wrap"} = {}
        PROVE  confirmed' = {}
    <3>1. confirmed = {} /\ \A i \in Live(queue) : i < offset => queue.events[i].data \in handed
      BY <2>1 DEF Inv, IdsInv, FreshIds
    <3>2. DataOf({i \in Ids(queue) : i < offset}) \subseteq handed
      BY <3>1 DEF DataOf, Live
    <3> QED
      BY <1>1, <3>1, <3>2
  <2> QED
    BY <1>1, <2>1 DEF Inv, FreshIds
<1>13. Inv'
  BY <1>7, <1>10, <1>11, <1>12 DEF Inv
<1>14. ASSUME NEW v \in InQueue
       PROVE  v \in InQueue' \/ v \in handed \/ v \in Excused'
  <2>1. PICK i \in Live(queue) : v = queue.events[i].data
    BY KnownData DEF Inv, QueueData
  <2>2. CASE i \in Live(queue')
    <3>1. queue'.events[i].data = v
      BY <1>5, <1>7, <2>1, <2>2
    <3> QED
      BY <1>7, <2>2, <3>1, KnownDataNext DEF QueueData
  <2>3. CASE queue.events[i].expires < now
    BY <1>1, <1>6, <1>9, <2>1, <2>3 DEF Excused
  <2>4. CASE i < from
    <3>1. ~TooFar(queue, offset) /\ i < offset /\ i \in Ids(queue)
      BY <1>3, <1>9, <2>1, <2>4
    <3>2. v \in DataOf({j \in Ids(queue) : j < offset})
      BY <1>9, <2>1, <3>1 DEF DataOf
    <3>3. v \in handed \/ v \in confirmed'
      BY <1>1, <3>1, <3>2
    <3> QED
      BY <3>3 DEF Excused
  <2> QED
    BY <1>5, <1>7, <2>1, <2>2, <2>3, <2>4
<1> QED
  BY <1>6, <1>8, <1>13, <1>14, Delivers

\* getUpdates with a negative offset.
LEMMA GetLastKeeps ==
  ASSUME Inv, NEW n \in Limit, GetLast(n)
  PROVE  Inv' /\ Delivery!Step
<1> DEFINE c == Clear(queue, n)
           most == Max(Limit)
           r == Answer(c.queue, 0, most)
           w == [queue |-> r.queue, log |-> c.log \o r.log]
           from == From(c.queue, 0)
<1>1. /\ Do(w) /\ Receive(r.ids)
      /\ dropped' = dropped \cup DataOf(Ids(queue) \ Ids(c.queue))
      /\ UNCHANGED <<disk, now, expires, given, confirmed, breaks>>
  BY DEF GetLast
<1>2. Sound(queue, Known) /\ Clearable(Known) /\ now \in Nat /\ n \in Nat /\ n # 0
  BY KnownClosed, StoreAssumption DEF Inv, LogInv, HistoryInv
<1>3. most \in Nat
  <2> HIDE DEF Inv, GetLast
  <2>1. Limit \in SUBSET (0..100) /\ 100 \in Nat /\ Limit # {}
    <3>1. Limit \subseteq 1..100 /\ Limit # {}
      BY StoreAssumption
    <3>2. \A i \in 1..100 : i \in 0..100
      OBVIOUS
    <3> QED
      BY <3>1, <3>2
  <2>2. Max(Limit) \in Limit
    BY <2>1, MaxOf
  <2>3. \A i \in Limit : i \in Nat
    BY <2>1
  <2> QED
    BY <2>2, <2>3
<1>4. /\ Steps(queue, c, Known)
      /\ c.queue.tail = queue.tail
      /\ Ids(c.queue) \subseteq Ids(queue)
      /\ Live(c.queue) \subseteq Live(queue)
      /\ \A i \in Ids(c.queue) : c.queue.events[i] = queue.events[i]
  BY <1>2, ClearSteps
<1> HIDE DEF c, most
<1>5. Sound(c.queue, Known)
  BY <1>4 DEF Steps
<1>6. /\ from \in Nat
      /\ \A i \in Ids(c.queue) : i < from => from = 0
  BY <1>2, <1>5, FromType
<1> HIDE DEF from
<1>7. r = Get(c.queue, from, TRUE, most, now)
  BY DEF Answer, from
<1> HIDE DEF r
<1>8. /\ Steps(c.queue, r, Known)
      /\ r.queue.tail = queue.tail
      /\ r.ids \subseteq Live(c.queue)
      /\ Live(r.queue) \subseteq Live(c.queue)
      /\ \A i \in Live(r.queue) : r.queue.events[i] = c.queue.events[i]
      /\ \A i \in Live(c.queue) \ Live(r.queue) :
           i < from \/ c.queue.events[i].expires < now
      /\ \A i \in Live(r.queue) \ r.ids : \A j \in r.ids : j < i
  <2> HIDE DEF Inv
  <2>1. LET g == Get(c.queue, from, TRUE, most, now)
        IN /\ Steps(c.queue, g, Known)
           /\ g.queue.tail = c.queue.tail
           /\ g.ids \subseteq Live(c.queue)
           /\ Live(g.queue) \subseteq Live(c.queue)
           /\ \A i \in Live(g.queue) : g.queue.events[i] = c.queue.events[i]
           /\ \A i \in Live(c.queue) \ Live(g.queue) :
                i < from \/ c.queue.events[i].expires < now
           /\ \A i \in Live(g.queue) \ g.ids : \A j \in g.ids : j < i
    BY <1>2, <1>3, <1>5, <1>6, GetSteps, Zenon
  <2> QED
    BY <1>4, <1>7, <2>1
<1>9. Steps(queue, w, Known) /\ w.queue = r.queue
  BY <1>4, <1>8, StepsTwice
<1> HIDE DEF w
<1>10. Known' = Known /\ Arrived' = Arrived
  BY <1>1, SameKnown
<1>11. LogInv' /\ queue' = r.queue
  BY <1>1, <1>9, <1>10, DoKeeps DEF Inv
<1>12. Live(c.queue) \subseteq Ids(c.queue)
  BY DEF Live
<1>13. /\ Live(queue') \subseteq Live(queue) /\ queue'.tail = queue.tail
       /\ \A i \in Live(queue') : queue'.events[i] = queue.events[i]
  BY <1>4, <1>8, <1>11, <1>12
<1>14. /\ offset' \in Nat /\ handed \subseteq handed' /\ handed' \subseteq Arrived
       /\ \/ offset' = offset
          \/ /\ offset' <= queue.tail
             /\ \A i \in r.ids : queue.events[i].data \in handed'
             /\ \A i \in Nat : i < offset' => \E j \in r.ids : i <= j
  <2>1. r.ids \in SUBSET Live(queue)
    BY <1>4, <1>8
  <2> QED
    BY <1>1, <2>1, ReceiveKeeps
<1>15. \A i \in Live(queue) : /\ i \in Nat /\ i \in Ids(queue)
                              /\ queue.events[i].data \in Arrived
                              /\ queue.events[i].expires = expires[queue.events[i].data]
                              /\ queue.events[i].data # Nothing
  BY KnownData DEF Inv, QueueData, Live
<1>16. HistoryInv'
  <2>1. DataOf(Ids(queue) \ Ids(c.queue)) \subseteq Arrived
    BY <1>15 DEF DataOf, Live
  <2> QED
    BY <1>1, <1>10, <1>14, <2>1 DEF Inv, HistoryInv
<1>17. IdsInv'
  <2>1. "kill" \notin breaks' => \A i \in given' : i < queue'.tail
    BY <1>1, <1>13 DEF Inv, IdsInv
  <2>2. ASSUME breaks' \cap {"kill", "wrap"} = {}
        PROVE  /\ offset' <= queue'.tail
               /\ \A i \in Live(queue') : i < offset' => queue'.events[i].data \in handed'
    <3>1. /\ offset <= queue.tail
          /\ \A i \in Live(queue) : i < offset => queue.events[i].data \in handed
      BY <1>1, <2>2 DEF Inv, IdsInv
    <3>2. CASE offset' = offset
      BY <1>13, <1>14, <3>1, <3>2
    <3>3. CASE /\ offset' <= queue.tail
               /\ \A i \in r.ids : queue.events[i].data \in handed'
               /\ \A i \in Nat : i < offset' => \E j \in r.ids : i <= j
      <4>1. ASSUME NEW i \in Live(r.queue), i < offset'
            PROVE  queue.events[i].data \in handed'
        <5>1. i \in Nat /\ \A j \in r.ids : j \in Nat
          BY <1>4, <1>8, <1>15
        <5>2. PICK j \in r.ids : i <= j
          BY <3>3, <4>1, <5>1
        <5>3. i \in r.ids
          BY <1>8, <5>1, <5>2
        <5> QED
          BY <3>3, <5>3
      <4> QED
        BY <1>11, <1>13, <3>3, <4>1
    <3> QED
      BY <1>14, <3>2, <3>3
  <2> QED
    BY <2>1, <2>2 DEF IdsInv
<1>18. FreshIds'
  BY <1>1 DEF Inv, FreshIds
<1>19. Inv'
  BY <1>11, <1>16, <1>17, <1>18 DEF Inv
<1>20. ASSUME NEW v \in InQueue
       PROVE  v \in InQueue' \/ v \in Excused'
  <2>1. PICK i \in Live(queue) : v = queue.events[i].data
    BY KnownData DEF Inv, QueueData
  <2>2. CASE i \in Live(queue')
    <3>1. queue'.events[i].data = v
      BY <1>13, <2>1, <2>2
    <3> QED
      BY <1>11, <2>2, <3>1, KnownDataNext DEF QueueData
  <2>3. CASE i \notin Ids(c.queue)
    <3>1. i \in Ids(queue) \ Ids(c.queue) /\ queue.events[i].data # Nothing
      BY <1>15, <2>3
    <3>2. v \in DataOf(Ids(queue) \ Ids(c.queue))
      BY <2>1, <3>1 DEF DataOf
    <3> QED
      BY <1>1, <3>2 DEF Excused
  <2>4. CASE i \in Ids(c.queue) /\ i \notin Live(queue')
    <3>1. c.queue.events[i] = queue.events[i]
      BY <1>4, <2>4
    <3>2. i \in Live(c.queue)
      BY <1>15, <2>4, <3>1 DEF Live
    <3>3. i \in Nat /\ ~(i < from)
      BY <1>6, <1>15, <2>4
    <3>4. queue.events[i].expires < now
      BY <1>8, <1>11, <2>4, <3>1, <3>2, <3>3
    <3> QED
      BY <1>1, <1>10, <1>15, <2>1, <3>4 DEF Excused
  <2> QED
    BY <2>2, <2>3, <2>4
<1> QED
  BY <1>10, <1>14, <1>19, <1>20, Delivers

\* The bot forgets where it was.
LEMMA BotRestartKeeps ==
  ASSUME Inv, BotRestart
  PROVE  Inv' /\ Delivery!Step
<1>1. offset' = 0 /\ UNCHANGED <<queue, disk, unwritten, now, handed, expires, dropped,
                                 given, confirmed, breaks>>
  BY DEF BotRestart
<1>2. Known' = Known /\ Arrived' = Arrived /\ InQueue' = InQueue
  BY <1>1, SameKnown DEF InQueue, DataOf, Ids
<1>3. \A i \in Live(queue) : ~(i < 0)
  BY KnownData DEF Inv, QueueData
<1>4. queue.tail \in Nat
  BY QueueAssumption DEF Inv, LogInv, Sound
<1>5. HistoryInv' /\ LogInv' /\ FreshIds'
  BY <1>1, <1>2 DEF Inv, HistoryInv, LogInv, FreshIds
<1>6. IdsInv'
  BY <1>1, <1>3, <1>4 DEF Inv, IdsInv
<1>7. Inv' /\ handed' = handed /\ handed \subseteq Arrived
  BY <1>1, <1>5, <1>6 DEF Inv, HistoryInv
<1> QED
  BY <1>2, <1>7, Delivers

\* drop_pending_updates.
LEMMA DropPendingKeeps ==
  ASSUME Inv, DropPending
  PROVE  Inv' /\ Delivery!Step
<1> DEFINE r == Clear(queue, 0)
<1>1. /\ Do(r) /\ dropped' = dropped \cup InQueue
      /\ UNCHANGED <<disk, now, offset, handed, expires, given, confirmed, breaks>>
  BY DEF DropPending
<1>2. Sound(queue, Known) /\ Clearable(Known)
  BY KnownClosed DEF Inv, LogInv
<1>3. /\ Steps(queue, r, Known) /\ r.queue.tail = queue.tail
      /\ Live(r.queue) \subseteq Live(queue)
      /\ \A i \in Live(r.queue) : r.queue.events[i] = queue.events[i]
  BY <1>2, ClearSteps
<1> HIDE DEF r
<1>4. Known' = Known /\ Arrived' = Arrived
  BY <1>1, SameKnown
<1>5. LogInv' /\ queue' = r.queue
  BY <1>1, <1>3, <1>4, DoKeeps DEF Inv
<1>6. HistoryInv' /\ FreshIds'
  BY <1>1, <1>4, KnownData DEF Inv, HistoryInv, QueueData, FreshIds
<1>7. IdsInv'
  BY <1>1, <1>3, <1>5 DEF Inv, IdsInv
<1>8. Inv' /\ handed' = handed /\ handed \subseteq Arrived
  BY <1>1, <1>5, <1>6, <1>7 DEF Inv, HistoryInv
<1>9. InQueue \subseteq Excused'
  BY <1>1 DEF Excused
<1> QED
  BY <1>4, <1>8, <1>9, Delivers

\* A collection takes only what expired.
LEMMA CollectKeeps ==
  ASSUME Inv, NEW stop \in Ids(queue) \cup {queue.tail}, Collect(stop)
  PROVE  Inv' /\ Delivery!Step
<1> DEFINE r == RunGc(queue, stop, now)
<1>1. Do(r) /\ UNCHANGED <<disk, now, offset, handed, expires, dropped, given,
                           confirmed, breaks>>
  BY DEF Collect
<1>2. Sound(queue, Known) /\ Clearable(Known) /\ now \in Nat
  BY KnownClosed DEF Inv, LogInv, HistoryInv
<1>3. /\ Steps(queue, r, Known) /\ r.queue.tail = queue.tail
      /\ Live(r.queue) \subseteq Live(queue)
      /\ \A i \in Live(r.queue) : r.queue.events[i] = queue.events[i]
      /\ \A i \in Live(queue) \ Live(r.queue) : queue.events[i].expires < now
  <2> HIDE DEF Inv
  <2> QED
    BY <1>2, RunGcSteps, Zenon
<1> HIDE DEF r
<1>4. Known' = Known /\ Arrived' = Arrived
  BY <1>1, SameKnown
<1>5. LogInv' /\ queue' = r.queue
  BY <1>1, <1>3, <1>4, DoKeeps DEF Inv
<1>6. HistoryInv' /\ FreshIds'
  BY <1>1, <1>4 DEF Inv, HistoryInv, FreshIds
<1>7. IdsInv'
  BY <1>1, <1>3, <1>5 DEF Inv, IdsInv
<1>8. Inv' /\ handed' = handed /\ handed \subseteq Arrived
  BY <1>1, <1>5, <1>6, <1>7 DEF Inv, HistoryInv
<1>9. ASSUME NEW v \in InQueue
      PROVE  v \in InQueue' \/ v \in Excused'
  <2>1. PICK i \in Live(queue) : v = queue.events[i].data
    BY KnownData DEF Inv, QueueData
  <2>2. CASE i \in Live(queue')
    <3>1. queue'.events[i].data = v
      BY <1>3, <1>5, <2>1, <2>2
    <3> QED
      BY <1>5, <2>2, <3>1, KnownDataNext DEF QueueData
  <2>3. CASE i \notin Live(queue')
    <3>1. queue.events[i].expires < now
      BY <1>3, <1>5, <2>3
    <3>2. v \in Arrived /\ expires[v] < now
      BY <2>1, <3>1, KnownData DEF Inv, QueueData
    <3> QED
      BY <1>1, <1>4, <3>2 DEF Excused
  <2> QED
    BY <2>2, <2>3
<1> QED
  BY <1>4, <1>8, <1>9, Delivers

\* Writing entries does not change what disk and entries hold together.
LEMMA FlushKeeps ==
  ASSUME Inv, NEW n \in 1..Len(unwritten), Flush(n)
  PROVE  Inv' /\ Delivery!Step
<1> DEFINE s == SubSeq(unwritten, 1, n)
           t == SubSeq(unwritten, n + 1, Len(unwritten))
<1>1. /\ unwritten' = t /\ disk' = Written(disk, s)
      /\ UNCHANGED <<queue, now, offset, handed, expires, dropped, given,
                     confirmed, breaks>>
  BY DEF Flush
<1>2. /\ unwritten \in Seq(Entry) /\ Len(unwritten) \in Nat
      /\ Safe(disk, unwritten, Known) /\ Written(disk, unwritten) = queue.events
  BY LenProperties DEF Inv, LogInv
<1>3. s \in Seq(Entry) /\ t \in Seq(Entry) /\ s \o t = unwritten
  <2>1. \A k \in 1..Len(unwritten) : unwritten[k] \in Entry
    BY <1>2, ElementOfSeq
  <2>2. s \in Seq(Entry)
    BY <1>2, <2>1, SubSeqProperties
  <2>3. t \in Seq(Entry)
    <3>1. n + 1 \in Int /\ \A k \in n + 1..Len(unwritten) : unwritten[k] \in Entry
      BY <1>2, <2>1
    <3> QED
      BY <1>2, <3>1, SubSeqProperties
  <2>4. s \o t = SubSeq(unwritten, 1, Len(unwritten))
    <3>1. /\ 1 \in 1..Len(unwritten) + 1 /\ n \in 1 - 1..Len(unwritten)
          /\ Len(unwritten) \in n..Len(unwritten)
      BY <1>2
    <3> QED
      BY <1>2, <3>1, ConcatAdjacentSubSeq
  <2> QED
    BY <1>2, <2>2, <2>3, <2>4, SubSeqFull
<1>4. Good(disk', Known)
  <2>1. n \in 0..Len(unwritten)
    BY <1>2
  <2> QED
    BY <1>1, <1>2, <2>1 DEF Safe
<1> HIDE DEF s, t
<1>5. Safe(disk', unwritten', Known) /\ Written(disk', unwritten') = queue.events
  <2>1. Safe(disk, s \o t, Known) /\ Written(disk, s \o t) = queue.events
    BY <1>2, <1>3
  <2>2. Safe(Written(disk, s), t, Known)
    BY <1>3, <2>1, SafeConcat
  <2>3. Written(Written(disk, s), t) = queue.events
    BY <1>3, <2>1, WrittenConcat
  <2> QED
    BY <1>1, <2>2, <2>3
<1>6. Known' = Known /\ Arrived' = Arrived /\ InQueue' = InQueue
  BY <1>1, SameKnown DEF InQueue, DataOf, Ids
<1>7. LogInv'
  BY <1>1, <1>3, <1>4, <1>5, <1>6 DEF Inv, LogInv
<1>8. HistoryInv' /\ IdsInv' /\ FreshIds'
  BY <1>1, <1>6 DEF Inv, HistoryInv, IdsInv, FreshIds
<1>9. Inv' /\ handed' = handed /\ handed \subseteq Arrived
  BY <1>1, <1>7, <1>8 DEF Inv, HistoryInv
<1> QED
  BY <1>6, <1>9, Delivers

\* The disk alone holds a sound queue, so a start finds one.
LEMMA KillKeeps ==
  ASSUME Inv, Kill
  PROVE  Inv' /\ Delivery!Step
<1>1. /\ queue' = Replay(disk) /\ unwritten' = <<>>
      /\ breaks' = IF unwritten # <<>> THEN breaks \cup {"kill"} ELSE breaks
      /\ dropped' = dropped \cup (InQueue \ InQueue')
      /\ UNCHANGED <<disk, now, offset, handed, expires, given, confirmed>>
  BY DEF Kill
<1>2. Good(disk, Known) /\ Known \subseteq Event /\ Sound(queue, Known)
  BY KnownClosed DEF Inv, LogInv
<1>3. Known' = Known /\ Arrived' = Arrived
  BY <1>1, SameKnown
<1>4. Sound(queue', Known) /\ queue'.events = disk
  BY <1>1, <1>2, ReplaySound
<1>5. LogInv'
  <2>1. Safe(disk, <<>>, Known)
    BY <1>2, SafeNone
  <2>2. Written(disk, <<>>) = disk
    BY <1>2, GoodIsFcn, WrittenNone
  <2>3. <<>> \in Seq(Entry)
    BY EmptySeq
  <2> QED
    BY <1>1, <1>2, <1>3, <1>4, <2>1, <2>2, <2>3 DEF LogInv
<1>6. HistoryInv'
  BY <1>1, <1>3, KnownData DEF Inv, HistoryInv, QueueData
<1>7. unwritten = <<>> => queue'.tail = queue.tail /\ queue'.events = queue.events
  <2>1. ASSUME unwritten = <<>>
        PROVE  queue'.events = queue.events
    <3>1. Written(disk, <<>>) = disk
      BY <1>2, GoodIsFcn, WrittenNone
    <3> QED
      BY <1>4, <2>1, <3>1 DEF Inv, LogInv
  <2> QED
    BY <1>2, <1>4, <2>1, SameTail
<1>8. IdsInv'
  <2>1. ASSUME "kill" \notin breaks'
        PROVE  /\ \A i \in given' : i < queue'.tail
               /\ breaks' \cap {"kill", "wrap"} = {} =>
                    /\ offset' <= queue'.tail
                    /\ \A i \in Live(queue') :
                         i < offset' => queue'.events[i].data \in handed'
    <3>1. unwritten = <<>> /\ breaks' = breaks
      BY <1>1, <2>1
    <3>2. Live(queue') = Live(queue)
      BY <1>7, <3>1 DEF Live, Ids
    <3> QED
      BY <1>1, <1>7, <2>1, <3>1, <3>2 DEF Inv, IdsInv
  <2> QED
    BY <2>1 DEF IdsInv
<1>9. FreshIds'
  BY <1>1 DEF Inv, FreshIds
<1>10. Inv' /\ handed' = handed /\ handed \subseteq Arrived
  BY <1>1, <1>5, <1>6, <1>8, <1>9 DEF Inv, HistoryInv
<1>11. \A v \in InQueue : v \in InQueue' \/ v \in Excused'
  BY <1>1 DEF Excused
<1> QED
  BY <1>3, <1>10, <1>11, Delivers

\* Time only excuses more.
LEMMA TickKeeps ==
  ASSUME Inv, Tick
  PROVE  Inv' /\ Delivery!Step
<1>1. now' = now + 1 /\ UNCHANGED <<queue, disk, unwritten, offset, handed, expires,
                                    dropped, given, confirmed, breaks>>
  BY DEF Tick
<1>2. Known' = Known /\ Arrived' = Arrived /\ InQueue' = InQueue
  BY <1>1, SameKnown DEF InQueue, DataOf, Ids
<1>3. Inv'
  BY <1>1, <1>2 DEF Inv, HistoryInv, LogInv, IdsInv, FreshIds
<1>4. handed' = handed /\ handed \subseteq Arrived
  BY <1>1 DEF Inv, HistoryInv
<1> QED
  BY <1>2, <1>3, <1>4, Delivers

\* Every step keeps the invariant and the promise of UpdateDelivery.
LEMMA StepKeeps == Inv /\ [Next]_vars => Inv' /\ [Delivery!Step]_Delivery!vars
<1> SUFFICES ASSUME Inv, [Next]_vars
             PROVE  Inv' /\ [Delivery!Step]_Delivery!vars
  OBVIOUS
<1> USE DEF Delivery!vars
<1>1. ASSUME NEW u \in Update, NEW ttl \in Ttl, PushRefused(u, ttl) \/ PushUpdate(u, ttl)
      PROVE  Inv' /\ Delivery!Step
  BY <1>1, PushRefusedKeeps, PushUpdateKeeps
<1>2. ASSUME NEW limit \in Limit, GetUpdates(limit) \/ GetLast(limit)
      PROVE  Inv' /\ Delivery!Step
  BY <1>2, GetUpdatesKeeps, GetLastKeeps
<1>3. CASE BotRestart
  BY <1>3, BotRestartKeeps
<1>4. CASE DropPending
  BY <1>4, DropPendingKeeps
<1>5. ASSUME NEW stop \in Ids(queue) \cup {queue.tail}, Collect(stop)
      PROVE  Inv' /\ Delivery!Step
  BY <1>5, CollectKeeps
<1>6. ASSUME NEW n \in 1..Len(unwritten), Flush(n)
      PROVE  Inv' /\ Delivery!Step
  BY <1>6, FlushKeeps
<1>7. CASE Kill
  BY <1>7, KillKeeps
<1>8. CASE Tick
  BY <1>8, TickKeeps
<1>9. CASE UNCHANGED vars
  <2>1. /\ UNCHANGED <<queue, disk, unwritten, now, offset, handed, expires, dropped,
                       given, confirmed, breaks>>
    BY <1>9 DEF vars
  <2>2. Known' = Known /\ Arrived' = Arrived /\ InQueue' = InQueue
    BY <2>1, SameKnown DEF InQueue, DataOf, Ids
  <2>3. Inv'
    BY <2>1, <2>2 DEF Inv, HistoryInv, LogInv, IdsInv, FreshIds
  <2>4. UNCHANGED <<Arrived, InQueue, handed,
                    dropped \cup confirmed \cup {u \in Arrived : expires[u] < now}>>
    BY <2>1, <2>2
  <2> QED
    BY <2>3, <2>4
<1> QED
  BY <1>1, <1>2, <1>3, <1>4, <1>5, <1>6, <1>7, <1>8, <1>9 DEF Next

\* The invariant holds always.
LEMMA Invariance == Spec => []Inv
<1>1. Inv /\ [Next]_vars => Inv'
  BY StepKeeps
<1> QED
  BY <1>1, InitHolds, PTL DEF Spec

-----------------------------------------------------------------------------
(***************************************************************************)
(* The queue keeps its shape: ids in range, the tail behind the newest,    *)
(* only the newest empty, a collection due while an update waits.          *)
(***************************************************************************)
THEOREM TypeCorrect == Spec => []TypeOK
<1>1. Inv => TypeOK
  <2> SUFFICES ASSUME Inv
               PROVE  TypeOK
    OBVIOUS
  <2>1. Sound(queue, Known) /\ handed \subseteq Arrived /\ dropped \subseteq Arrived
    BY DEF Inv, LogInv, HistoryInv
  <2>2. /\ \A i \in Ids(queue) : queue.events[i] \in Event /\ i \in 1..MaxId - 2
        /\ Ids(queue) # {} => queue.tail # 0 /\ Newest(queue) = queue.tail - 1
        /\ \A i \in Ids(queue) \ Live(queue) : i = queue.tail - 1
    BY <2>1, SoundIds, KnownClosed
  <2>3. queue.tail \in 0..MaxId - 1 /\ (Live(queue) # {} => queue.gc_at # 0)
    BY <2>1 DEF Sound
  <2>4. Ids(queue) # {} => queue.tail = Newest(queue) + 1
    BY <2>2, <2>3, QueueAssumption
  <2>5. Ids(queue) \ Live(queue) \subseteq {queue.tail - 1}
    BY <2>2
  <2> QED
    BY <2>1, <2>2, <2>3, <2>4, <2>5 DEF TypeOK
<1> QED
  BY <1>1, Invariance, PTL

(***************************************************************************)
(* The log holds the queue: a start from the entries written, and those on *)
(* their way, finds the same events and gives the same next id.            *)
(***************************************************************************)
THEOREM LogAlwaysHoldsTheQueue == Spec => []LogHoldsTheQueue
<1>1. Inv => LogHoldsTheQueue
  <2> SUFFICES ASSUME Inv
               PROVE  LogHoldsTheQueue
    OBVIOUS
  <2>1. /\ Sound(queue, Known) /\ Known \subseteq Event
        /\ Written(disk, unwritten) = queue.events
    BY KnownClosed DEF Inv, LogInv
  <2>2. Good(queue.events, Known)
    BY <2>1 DEF Sound
  <2> DEFINE started == Replay(queue.events)
  <2>3. Sound(started, Known) /\ started.events = queue.events
    BY <2>1, <2>2, ReplaySound
  <2> HIDE DEF started
  <2>4. started.tail = queue.tail
    BY <2>1, <2>3, SameTail
  <2> QED
    BY <2>1, <2>3, <2>4 DEF LogHoldsTheQueue, started
<1> QED
  BY <1>1, Invariance, PTL

(***************************************************************************)
(* No id is given twice, and no update confirmed unseen, unless a kill     *)
(* lost entries of the log or the ids began again.                         *)
(***************************************************************************)
THEOREM IdsAreFresh == Spec => []FreshIds
<1>1. Inv => FreshIds
  BY DEF Inv
<1> QED
  BY <1>1, Invariance, PTL

(***************************************************************************)
(* The store keeps the promise of UpdateDelivery, kills and refused pushes *)
(* included.                                                               *)
(***************************************************************************)
THEOREM KeepsDelivery == Spec => DeliversUpdates
<1>1. Init => Delivery!Init
  <2> SUFFICES ASSUME Init
               PROVE  Delivery!Init
    OBVIOUS
  <2>1. Arrived = {} /\ handed = {}
    BY DEF Init, Arrived
  <2>2. InQueue \subseteq Arrived
    BY InitHolds, KnownData DEF Inv, QueueData
  <2> QED
    BY <2>1, <2>2 DEF Delivery!Init
<1>2. Inv /\ [Next]_vars => [Delivery!Step]_Delivery!vars
  BY StepKeeps
<1> QED
  BY <1>1, <1>2, Invariance, PTL DEF Spec, DeliversUpdates, Delivery!Spec
=============================================================================

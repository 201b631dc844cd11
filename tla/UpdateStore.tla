---------------------------- MODULE UpdateStore ----------------------------
(***************************************************************************)
(* The updates of one bot in the Telegram API server, from their arrival   *)
(* to a bot that asks for them: the queue in memory, its log on disk, a    *)
(* server that is killed and started again, and the calls of getUpdates.   *)
(*                                                                         *)
(* The log is written by another thread, a moment later and in order, so a *)
(* kill leaves on disk what was written up to some entry.  The bot asks    *)
(* from the id after the last it has had, and this alone confirms what it  *)
(* has had; an answer may be lost on its way.                              *)
(***************************************************************************)
EXTENDS TQueue

CONSTANTS
  Ttl,            \* how long updates live: 86400, 150 or 30 seconds
  OldTail,        \* a tail the ids may have reached before
  Limit,          \* how many updates the bot asks for
  MaxNow,         \* bound: the clock
  MaxUnwritten,   \* bound: entries of the log not yet written
  MaxKills        \* bound: kills

ASSUME StoreAssumption ==
  /\ Update \subseteq Nat
  /\ Ttl \subseteq Nat \ {0} /\ Ttl # {}
  /\ OldTail \in 2..MaxId - 1
  /\ Limit \subseteq 1..100 /\ Limit # {}
  /\ MaxNow \in Nat /\ MaxUnwritten \in Nat /\ MaxKills \in Nat

VARIABLES
  queue,      \* the queue in memory
  disk,       \* the events in the log, by id
  unwritten,  \* entries on their way to the log
  now,        \* the clock of the server
  offset,     \* the bot: from where it asks next, 0 from the start
  handed,     \* history: updates the bot has had
  expires,    \* history: when the updates that arrived expire
  dropped,    \* history: updates dropped by a request, a limit or a kill
  given,      \* history: the ids given to updates since they last began
  confirmed,  \* history: updates the bot confirmed without having had them
  breaks,     \* history: what has broken the order of the ids: "kill", a
              \* kill that lost entries, "wrap", a new beginning of the
              \* ids, "twice", an id given to a second update
  kills       \* how many kills there were
vars == <<queue, disk, unwritten, now, offset, handed, expires, dropped,
          given, confirmed, breaks, kills>>

DataOf(S) == {queue.events[i].data : i \in S} \ {Nothing}
InQueue == DataOf(Ids(queue))
Arrived == DOMAIN expires

Placeholder == [data |-> Nothing, expires |-> 1]

(***************************************************************************)
(* A new queue, or one whose updates are all gone and whose ids are high.  *)
(***************************************************************************)
Init ==
  /\ disk \in {<<>>, With(<<>>, OldTail - 1, Placeholder)}
  /\ queue = Replay(disk)
  /\ unwritten = <<>>
  /\ now = 1
  /\ offset \in {0, queue.tail}
  /\ handed = {} /\ expires = <<>> /\ dropped = {}
  /\ given = DOMAIN disk /\ confirmed = {} /\ breaks = {}
  /\ kills = 0

\* What an operation does to the queue, and writes to the log.
Do(r) ==
  \E s \in {r} :
    /\ queue' = s.queue
    /\ unwritten' = unwritten \o s.log
    /\ Len(unwritten') <= MaxUnwritten

(***************************************************************************)
(* add_update_impl(): an update arrives; when the queue is full it is      *)
(* dropped, and when the ids start again so is what waits.  Updates are    *)
(* numbered as they arrive.                                                *)
(***************************************************************************)
Arrive(u, ttl) ==
  /\ Arrived = {v \in Update : v < u}
  /\ now + ttl < MaxNow
  /\ expires' = With(expires, u, now + ttl)
  /\ UNCHANGED <<disk, now, offset, handed, confirmed, kills>>

PushRefused(u, ttl) ==
  /\ Arrive(u, ttl)
  /\ Full(queue)
  /\ dropped' = dropped \cup {u}
  /\ UNCHANGED <<queue, unwritten, given, breaks>>

PushUpdate(u, ttl) ==
  /\ Arrive(u, ttl)
  /\ ~Full(queue)
  /\ \E first \in FirstIds : Do(Push(queue, [data |-> u, expires |-> now + ttl], first))
  /\ LET id == queue'.tail - 1
         known == IF Wraps(queue) THEN {} ELSE given
     IN /\ given' = known \cup {id}
        /\ breaks' = breaks \cup (IF Wraps(queue) THEN {"wrap"} ELSE {})
                            \cup (IF id \in known THEN {"twice"} ELSE {})
  /\ dropped' = IF Wraps(queue) THEN dropped \cup InQueue ELSE dropped

(***************************************************************************)
(* do_get_updates(): from an id, or from the head when it is too far or    *)
(* not given.  The bot that gets the answer moves on behind it.            *)
(***************************************************************************)
\* Mistake: an id out of range is taken as it is.
From_Any(q, from) == IF from <= 0 THEN GetHead(q) ELSE from

From(q, from) == IF from <= 0 \/ TooFar(q, from) THEN GetHead(q) ELSE from

Answer(q, from, limit) == Get(q, From(q, from), TRUE, limit, now)

Receive(ids) ==
  \/ /\ ids # {}
     /\ handed' = handed \cup DataOf(ids)
     /\ offset' = Max(ids) + 1
  \/ UNCHANGED <<handed, offset>>

GetUpdates(limit) ==
  /\ queue.tail # 0
  /\ LET r == Answer(queue, offset, limit)
     IN Do(r) /\ Receive(r.ids)
  /\ confirmed' = IF TooFar(queue, offset) THEN confirmed
                  ELSE confirmed \cup
                       (DataOf({i \in Ids(queue) : i < offset}) \ handed)
  /\ UNCHANGED <<disk, now, expires, dropped, given, breaks, kills>>

\* A negative offset asks for the last n updates and forgets the others.
GetLast(n) ==
  /\ queue.tail # 0
  /\ LET cleared == Clear(queue, n)
         r == Answer(cleared.queue, 0, Max(Limit))
     IN /\ Do([queue |-> r.queue, log |-> cleared.log \o r.log])
        /\ Receive(r.ids)
        /\ dropped' = dropped \cup DataOf(Ids(queue) \ Ids(cleared.queue))
  /\ UNCHANGED <<disk, now, expires, given, confirmed, breaks, kills>>

BotRestart ==
  /\ offset # 0
  /\ offset' = 0
  /\ UNCHANGED <<queue, disk, unwritten, now, handed, expires, dropped, given,
                 confirmed, breaks, kills>>

(***************************************************************************)
(* drop_pending_updates of setWebhook and deleteWebhook.                   *)
(***************************************************************************)
DropPending ==
  /\ GetSize(queue) > 0
  /\ Do(Clear(queue, 0))
  /\ dropped' = dropped \cup InQueue
  /\ UNCHANGED <<disk, now, offset, handed, expires, given, confirmed, breaks, kills>>

(***************************************************************************)
(* The collection of expired events, due when its time is past.            *)
(***************************************************************************)
Collect(stop) ==
  /\ queue.gc_at # 0 /\ queue.gc_at < now
  /\ UNCHANGED <<disk, now, offset, handed, expires, dropped, given,
                 confirmed, breaks, kills>>
  /\ Do(RunGc(queue, stop, now))

(***************************************************************************)
(* The thread of the log writes some entries; a kill loses the others, and *)
(* the server starts from the log.                                         *)
(***************************************************************************)
Flush(n) ==
  /\ n \in 1..Len(unwritten)
  /\ UNCHANGED <<queue, now, offset, handed, expires, dropped, given,
                 confirmed, breaks, kills>>
  /\ unwritten' = SubSeq(unwritten, n + 1, Len(unwritten))
  /\ disk' = Written(disk, SubSeq(unwritten, 1, n))

Kill ==
  /\ kills < MaxKills
  /\ kills' = kills + 1
  /\ breaks' = IF unwritten # <<>> THEN breaks \cup {"kill"} ELSE breaks
  /\ queue' = Replay(disk)
  /\ unwritten' = <<>>
  /\ dropped' = dropped \cup (InQueue \ InQueue')
  /\ UNCHANGED <<disk, now, offset, handed, expires, given, confirmed>>

Tick ==
  /\ now < MaxNow
  /\ now' = now + 1
  /\ UNCHANGED <<queue, disk, unwritten, offset, handed, expires, dropped,
                 given, confirmed, breaks, kills>>

Next ==
  \/ \E u \in Update, ttl \in Ttl : PushRefused(u, ttl) \/ PushUpdate(u, ttl)
  \/ \E limit \in Limit : GetUpdates(limit) \/ GetLast(limit)
  \/ BotRestart \/ DropPending
  \/ \E stop \in Ids(queue) \cup {queue.tail} : Collect(stop)
  \/ \E n \in 1..Len(unwritten) : Flush(n)
  \/ Kill \/ Tick

(***************************************************************************)
(* The clock runs, the log is written, and the collection that is due gets *)
(* through in time now and then: the manager calls it in its own timer.    *)
(***************************************************************************)
Fairness ==
  /\ WF_vars(Tick)
  /\ WF_vars(Flush(Len(unwritten)))
  /\ WF_vars(Collect(queue.tail))

Spec == Init /\ [][Next]_vars /\ Fairness

-----------------------------------------------------------------------------
(***************************************************************************)
(* The queue: only the newest event may be empty and the tail follows it,  *)
(* and a collection is due as long as an update waits.                     *)
(***************************************************************************)
TypeOK ==
  /\ queue.tail \in 0..MaxId - 1
  /\ \A i \in Ids(queue) : queue.events[i] \in Event /\ i \in 1..MaxId - 2
  /\ Ids(queue) # {} => queue.tail = Newest(queue) + 1
  /\ Ids(queue) \ Live(queue) \subseteq {queue.tail - 1}
  /\ Live(queue) # {} => queue.gc_at # 0
  /\ handed \subseteq Arrived /\ dropped \subseteq Arrived

(***************************************************************************)
(* Once the log is written, a server that starts from it has the same      *)
(* events and gives the same next id as the one that stopped, whatever was *)
(* forgotten, collected or cleared before.                                 *)
(***************************************************************************)
LogHoldsTheQueue ==
  LET started == Replay(Written(disk, unwritten))
  IN started.tail = queue.tail /\ started.events = queue.events

(***************************************************************************)
(* As long as no kill loses entries of the log, no id is given to a second *)
(* update before the ids begin again; and as long as they do not, the bot  *)
(* confirms, by asking behind it, no update that it has not had.           *)
(***************************************************************************)
FreshIds ==
  /\ "twice" \in breaks => "kill" \in breaks
  /\ confirmed # {} => breaks \cap {"kill", "wrap"} # {}

(***************************************************************************)
(* The promise of UpdateDelivery: what leaves the queue unseen expired, or *)
(* was dropped, or was confirmed by the bot nevertheless.                  *)
(***************************************************************************)
Delivery == INSTANCE UpdateDelivery WITH
  arrived <- Arrived, kept <- InQueue, handed <- handed,
  excused <- dropped \cup confirmed \cup {u \in Arrived : expires[u] < now}
DeliversUpdates == Delivery!Spec

(***************************************************************************)
(* No update stays for ever, even when no bot asks: what has expired is    *)
(* collected, so once no more arrive the queue is empty in the end.        *)
(***************************************************************************)
NothingStays == <>[](InQueue = {})
=============================================================================

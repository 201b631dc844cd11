------------------------------- MODULE TQueue -------------------------------
(***************************************************************************)
(* The queue of updates of one bot in the Telegram API server: the class   *)
(* TQueueImpl of TQueue.cpp, as operators on the value of a queue.         *)
(*                                                                         *)
(* An update gets the id that follows the newest one.  The events of a     *)
(* queue are kept in memory and in a log on disk, and the id to give next  *)
(* is not stored by itself: when the newest event is taken away its data   *)
(* is cleared, in memory and in the log, and the empty event stays as a    *)
(* placeholder from which the next id is found after a restart.            *)
(*                                                                         *)
(* An operator that changes a queue yields the new queue and the entries   *)
(* it writes to the log, in order: a put (of a new event, or over the old  *)
(* one) or an erase.  Limits on bytes are not told apart from the limit on *)
(* the number of events.                                                   *)
(***************************************************************************)
EXTENDS Integers, Sequences, FiniteSetsExt

CONSTANTS
  Update,          \* the data of events
  Nothing,         \* the data of a placeholder
  MaxId,           \* EventId::MAX_ID, ids are less than it
  FirstIds,        \* what the random choice of a first id may be
  FutureSlack,     \* how far behind the tail a reader may ask: 10
  MaxQueueEvents   \* MAX_QUEUE_EVENTS

ASSUME QueueAssumption ==
  /\ Nothing \notin Update
  /\ MaxId \in Nat /\ MaxId > 3 /\ FutureSlack \in Nat /\ MaxQueueEvents \in Nat \ {0}
  /\ FirstIds # {} /\ FirstIds \subseteq 1..(MaxId \div 2)

(***************************************************************************)
(* A queue: the id to give next (0 before the first), the events by id and *)
(* the time its next collection is due (0 when none is).                   *)
(***************************************************************************)
Event == [data : Update \cup {Nothing}, expires : Nat \ {0}]

EmptyQueue == [tail |-> 0, events |-> <<>>, gc_at |-> 0]

Ids(q) == DOMAIN q.events

Live(q) == {i \in Ids(q) : q.events[i].data # Nothing}

Newest(q) == Max(Ids(q))

GetHead(q) == IF Ids(q) = {} THEN q.tail ELSE Min(Ids(q))

GetSize(q) == IF Ids(q) = {} THEN 0
              ELSE Cardinality(Ids(q)) - IF Newest(q) \in Live(q) THEN 0 ELSE 1

Full(q) == Cardinality(Ids(q)) >= MaxQueueEvents

Expired(q, i, now) == q.events[i].expires < now

Keep(q, S) == [i \in S |-> q.events[i]]

With(f, i, e) == [k \in DOMAIN f \cup {i} |-> IF k = i THEN e ELSE f[k]]

Cleared(e) == [e EXCEPT !.data = Nothing]

(***************************************************************************)
(* The log of a queue.                                                     *)
(***************************************************************************)
Put(i, e) == [id |-> i, op |-> "put", event |-> e]
Erase(i) == [id |-> i, op |-> "erase"]

Ascending(S) ==
  [k \in 1..Cardinality(S) |-> CHOOSE i \in S : Cardinality({j \in S : j < i}) = k - 1]

EraseAll(S) == [k \in 1..Cardinality(S) |-> Erase(Ascending(S)[k])]

(***************************************************************************)
(* do_push(): a placeholder gives way to the new event.                    *)
(***************************************************************************)
\* Mistake: the placeholder stays before the new event.
DoPush_Keeps(q, i, e) ==
  [queue |-> [tail |-> i + 1,
              events |-> With(q.events, i, e),
              gc_at |-> IF Ids(q) = {} /\ e.data # Nothing THEN e.expires ELSE q.gc_at],
   log |-> <<Put(i, e)>>]

DoPush(q, i, e) ==
  LET old == IF Ids(q) = {} THEN {} ELSE {Newest(q)} \ Live(q)
      kept == Ids(q) \ old
  IN [queue |-> [tail |-> i + 1,
                 events |-> With(Keep(q, kept), i, e),
                 gc_at |-> IF kept = {} /\ e.data # Nothing THEN e.expires
                           ELSE q.gc_at],
      log |-> Append(EraseAll(old), Put(i, e))]

\* push(): the ids start again, and what waits is dropped, at the last one.
Wraps(q) == q.tail # 0 /\ q.tail + 1 >= MaxId

Push(q, e, first) ==
  IF Wraps(q)
  THEN LET r == DoPush([q EXCEPT !.events = <<>>], first, e)
       IN [r EXCEPT !.log = EraseAll(Ids(q)) \o @]
  ELSE DoPush(q, IF q.tail = 0 THEN first ELSE q.tail, e)

(***************************************************************************)
(* pop() for the events of a set, oldest first: the newest event of the    *)
(* queue becomes a placeholder, the others go.                             *)
(***************************************************************************)
\* Mistake: the newest event goes like the others.
Pop_Newest(q, S) ==
  [queue |-> [q EXCEPT !.events = Keep(q, Ids(q) \ S)], log |-> EraseAll(S)]

Pop(q, S) ==
  LET newest == {i \in S : i + 1 = q.tail}
      last == q.tail - 1
  IN [queue |-> [q EXCEPT !.events = [i \in Ids(q) \ (S \ newest) |->
                   IF i \in newest THEN Cleared(q.events[i]) ELSE q.events[i]]],
      log |-> EraseAll(S \ newest) \o
              IF newest \cap Live(q) = {} THEN <<>>
              ELSE <<Put(last, Cleared(q.events[last]))>>]

Forget(q, i) == Pop(q, {i} \cap Ids(q))

(***************************************************************************)
(* get(): the events from an id on, as many as the reader takes.  What has *)
(* expired on the way goes, and what is before when it is to be forgotten. *)
(***************************************************************************)
TooFar(q, from) ==
  \/ from > q.tail + FutureSlack
  \/ from < GetHead(q) - MaxQueueEvents

Fresh(q, now) == {i \in Live(q) : ~Expired(q, i, now)}

Get(q, from, forget, limit, now) ==
  LET fresh == {i \in Fresh(q, now) : i >= from}
      ids == {i \in fresh : Cardinality({j \in fresh : j < i}) < limit}
      reached == {i \in Ids(q) : \A j \in fresh \ ids : i < j}
      passed == {i \in reached : forget \/ i >= from}
      r == Pop(q, passed \ ids)
  IN [queue |-> r.queue, log |-> r.log, ids |-> ids]

(***************************************************************************)
(* run_gc() for one queue, which may run out of its time at any event: it  *)
(* stops there, or at the second event that has not expired, and is due    *)
(* again when the first such event expires.                                *)
(***************************************************************************)
\* Mistake: a collection that runs out of time is not due again.
RunGc_Once(q, stop, now) ==
  LET fresh == {i \in Fresh(q, now) : i < stop}
      others == {i \in fresh : \E j \in fresh : j < i}
      end == IF others # {} THEN Min(others) ELSE stop
      due == IF fresh # {} THEN q.events[Min(fresh)].expires
             ELSE 0
      r == Pop(q, {i \in Ids(q) : i < end} \ fresh)
  IN [r EXCEPT !.queue.gc_at = due]

RunGc(q, stop, now) ==
  LET fresh == {i \in Fresh(q, now) : i < stop}
      others == {i \in fresh : \E j \in fresh : j < i}
      end == IF others # {} THEN Min(others) ELSE stop
      due == IF fresh # {} THEN q.events[Min(fresh)].expires
             ELSE IF stop \in Ids(q) THEN q.events[stop].expires
             ELSE 0
      r == Pop(q, {i \in Ids(q) : i < end} \ fresh)
  IN [r EXCEPT !.queue.gc_at = due]

(***************************************************************************)
(* clear(): the last keep events stay, an empty one counted among them.    *)
(* When none is to stay, the newest stays as a placeholder.                *)
(***************************************************************************)
LastIds(q, n) == {i \in Ids(q) : Cardinality({j \in Ids(q) : j > i}) < n}

\* Mistake: when none is to stay, the newest goes like the others.
Clear_All(q, keep) ==
  LET stay == LastIds(q, keep)
  IN IF GetSize(q) <= keep THEN [queue |-> q, log |-> <<>>]
     ELSE [queue |-> [q EXCEPT !.events = Keep(q, stay)], log |-> EraseAll(Ids(q) \ stay)]

Clear(q, keep) ==
  LET stay == LastIds(q, IF keep = 0 THEN 1 ELSE keep)
      old == Newest(q)
      hollow == keep = 0 /\ old \in Live(q)
  IN IF GetSize(q) <= keep THEN [queue |-> q, log |-> <<>>]
     ELSE [queue |-> [q EXCEPT !.events = [i \in stay |->
                        IF keep = 0 THEN Cleared(q.events[i]) ELSE q.events[i]]],
           log |-> (IF hollow THEN <<Put(old, Cleared(q.events[old]))>> ELSE <<>>)
                   \o EraseAll(Ids(q) \ stay)]

(***************************************************************************)
(* The log and the start.  Of the entries of an id the last one counts.    *)
(* The events found on disk are pushed one by one in their order, so a     *)
(* placeholder stays only when it is the newest, and the first update sets *)
(* the time of the collection.                                             *)
(***************************************************************************)
LastPuts(entries) ==
  {k \in DOMAIN entries :
     /\ entries[k].op = "put"
     /\ \A m \in DOMAIN entries : m > k => entries[m].id # entries[k].id}

Written(disk, entries) ==
  LET puts == LastPuts(entries)
      named(K) == {entries[k].id : k \in K}
      put(i) == entries[CHOOSE k \in puts : entries[k].id = i].event
  IN [i \in named(puts) \cup (DOMAIN disk \ named(DOMAIN entries)) |->
        IF i \in named(puts) THEN put(i) ELSE disk[i]]

Replay(disk) ==
  LET live == {i \in DOMAIN disk : disk[i].data # Nothing}
      tail == IF DOMAIN disk = {} THEN 0 ELSE Max(DOMAIN disk) + 1
  IN [tail |-> tail,
      events |-> [i \in live \cup (DOMAIN disk \cap {tail - 1}) |-> disk[i]],
      gc_at |-> IF live = {} THEN 0 ELSE disk[Min(live)].expires]
=============================================================================

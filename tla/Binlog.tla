------------------------------- MODULE Binlog -------------------------------
(***************************************************************************)
(* The log on disk behind the databases of the Telegram API server, and a  *)
(* map kept in it: BinlogKeyValue over ConcurrentBinlog over Binlog.       *)
(*                                                                         *)
(* Threads change the map under a lock, which gives each change its place  *)
(* in the order of the log, and hand the entries to an actor afterwards,   *)
(* in any order.  The actor puts them in order again, writes them to the   *)
(* file a moment later, and syncs the file when someone asked for it.      *)
(* When the file holds much that is out of date it is written anew beside  *)
(* the old one, which it replaces.  A kill loses what was not written, a   *)
(* power failure may lose what was not synced, and both may leave a piece  *)
(* of an entry at the end; unlink and rename are durable at once.  Sizes   *)
(* are not told apart: the file is written and rewritten early or late.    *)
(* There is no encryption.                                                 *)
(***************************************************************************)
EXTENDS Integers, Sequences, FiniteSetsExt

CONSTANTS
  Key, Value,    \* the values are those of each key
  Threads,       \* how many threads
  Promise,
  Nothing,       \* no message, no entry, no promise
  MaxCalls,      \* bound: changes of the map and promises asked for
  MaxReindexes,  \* bound: how often the file is written anew
  MaxCrashes     \* bound: kills and power failures

Entry ==
  [op : {"add", "rewrite"}, id : Nat \ {0}, key : Key, value : UNION {Value[k] : k \in Key}]
    \cup [op : {"erase"}, id : Nat \ {0}]

ASSUME BinlogAssumption ==
  /\ Nothing \notin Promise \cup Entry
  /\ Threads \in Nat /\ MaxCalls \in Nat
  /\ MaxReindexes \in Nat /\ MaxCrashes \in Nat

VARIABLES
  map,      \* map_: of each key its value and the id of its event
  seq,      \* last_event_id_: the next number in the order of the log
  sending,  \* the entries that threads have still to hand to the actor
  mailbox,  \* the messages of the actor
  actor,    \* the actor
  disk,     \* the files
  aborted,  \* history: a check of the actor failed
  line, asked,  \* history: as in DurableMap
  start,    \* history: how far line goes back before the start
  count     \* how many calls, rewritten files and crashes
vars == <<map, seq, sending, mailbox, actor, disk, aborted, line, asked,
          start, count>>

(***************************************************************************)
(* Entries of the log.  Number and entry go to the actor together; one     *)
(* without an entry only carries a promise.                                *)
(***************************************************************************)
Add(id, k, v) == [op |-> "add", id |-> id, key |-> k, value |-> v]
Rewrite(id, k, v) == [op |-> "rewrite", id |-> id, key |-> k, value |-> v]
Erase(id) == [op |-> "erase", id |-> id]
Torn == [op |-> "torn"]

With(f, x, y) == [z \in DOMAIN f \cup {x} |-> IF z = x THEN y ELSE f[z]]

Part(n, entry, promise) == [seq |-> n, entry |-> entry, promise |-> promise]
Events(parts) == [kind |-> "events", parts |-> parts]
ForceSync(promise) == [kind |-> "sync", promise |-> promise]

(***************************************************************************)
(* BinlogEventsProcessor: the live events by id, and the last id added.    *)
(* An event written anew keeps its mark of a rewrite, and is added by it   *)
(* when its id is new.                                                     *)
(***************************************************************************)
NoEvents == [live |-> <<>>, last |-> 0]

Wrong(p, e) ==
  /\ e.id <= p.last
  /\ e.op = "add" \/ e.id \notin DOMAIN p.live

DoEvent(p, e) ==
  IF e.op = "erase" THEN [p EXCEPT !.live = Restrict(@, DOMAIN @ \ {e.id})]
  ELSE [live |-> With(p.live, e.id, e), last |-> IF e.id > p.last THEN e.id ELSE p.last]

\* What is before a piece of an entry.
Whole(log) ==
  SubSeq(log, 1, Min({i \in DOMAIN log : log[i] = Torn} \cup {Len(log) + 1}) - 1)

\* What do_event() makes of one entry after the other: the last entry of an
\* id counts, unless it erases.
Counts(s) ==
  {n \in DOMAIN s : s[n].op # "erase" /\ \A m \in DOMAIN s : m > n => s[m].id # s[n].id}

DoEvents(s) ==
  [live |-> [i \in {s[n].id : n \in Counts(s)} |-> s[CHOOSE n \in Counts(s) : s[n].id = i]],
   last |-> Max({0} \cup {s[n].id : n \in {m \in DOMAIN s : s[m].op # "erase"}})]

Load(log) == DoEvents(Whole(log))

Ascending(S) ==
  [k \in 1..Cardinality(S) |-> CHOOSE i \in S : Cardinality({j \in S : j < i}) = k - 1]

Compact(p) ==
  LET ids == Ascending(DOMAIN p.live) IN [k \in DOMAIN ids |-> p.live[ids[k]]]

\* The map of the events: the first of a key counts.
Contents(p) ==
  LET ids(k) == {i \in DOMAIN p.live : p.live[i].key = k}
  IN [k \in {p.live[i].key : i \in DOMAIN p.live} |->
       [value |-> p.live[Min(ids(k))].value, id |-> Min(ids(k))]]

Values(m) == [k \in DOMAIN m |-> m[k].value]

(***************************************************************************)
(* BinlogActor and its Binlog: the next number in order (begin_), what     *)
(* came too early, whether a message is being handled, the events, what is *)
(* not written yet, need_sync_; the promises that wait for a number, those *)
(* that wait for the sync; the flags for which the timer is set; and how   *)
(* far the file is being written anew, closed or destroyed.                *)
(***************************************************************************)
NewActor(p) ==
  [begin |-> p.last + 1, pending |-> {}, busy |-> FALSE, events |-> p,
   buffer |-> <<>>, need_sync |-> FALSE, waits |-> {}, promises |-> {},
   lazy |-> FALSE, force |-> FALSE, flush |-> FALSE, timer |-> FALSE,
   stage |-> "run"]

File(log, synced) == [log |-> log, synced |-> synced]

(***************************************************************************)
(* Steps of the actor, as pairs of the actor and the files.                *)
(***************************************************************************)
Both(a, d) == [a |-> a, d |-> d]

Flush(r) ==
  Both([r.a EXCEPT !.buffer = <<>>, !.need_sync = @ \/ r.a.buffer # <<>>],
       [r.d EXCEPT !["main"].log = @ \o r.a.buffer])

Sync(r) ==
  LET w == Flush(r)
  IN IF w.a.need_sync
     THEN Both([w.a EXCEPT !.need_sync = FALSE],
               [w.d EXCEPT !["main"].synced = Len(w.d["main"].log)])
     ELSE w

\* Mistake: the flag is raised and the timer not set.
TryFlush_Unarmed(r) ==
  IF r.a.buffer = <<>> THEN {r}
  ELSE {Flush(r), IF r.a.force THEN r ELSE [r EXCEPT !.a.flush = TRUE]}

\* What is not a millisecond old may wait.
TryFlush(r) ==
  IF r.a.buffer = <<>> THEN {r}
  ELSE {Flush(r),
        IF r.a.force THEN r ELSE [r EXCEPT !.a.flush = TRUE, !.a.timer = TRUE]}

DoImmediateSync(a, S) ==
  IF S = {} THEN a
  ELSE [a EXCEPT !.promises = @ \cup S, !.force = TRUE, !.timer = @ \/ ~a.force]

\* Mistake: a promise waits for a sync that was asked for by no one.
DoLazySync_Idle(a, p) ==
  IF p = Nothing THEN a ELSE [a EXCEPT !.promises = @ \cup {p}]

DoLazySync(a, p) ==
  IF p = Nothing THEN a
  ELSE [a EXCEPT !.promises = @ \cup {p}, !.lazy = @ \/ ~a.force,
                 !.timer = @ \/ (~a.lazy /\ ~a.force)]

\* Mistake: the promise waits for one number more.
Due_Late(a) == {w \in a.waits : w.seq < a.begin - 1}

Due(a) == {w \in a.waits : w.seq < a.begin}

FlushImmediateSync(a) ==
  DoImmediateSync([a EXCEPT !.waits = @ \ Due(a)], {w.promise : w \in Due(a)})

(***************************************************************************)
(* OrderedEventsProcessor.                                                 *)
(***************************************************************************)
MaxUnfinished(a) == Max({a.begin - 1} \cup {w.seq : w \in a.pending})

\* Mistake: what has come is run in the order it came in.
Ready_Arrived(a) == a.pending

Ready(a) == {w \in a.pending : w.seq = a.begin}

(***************************************************************************)
(* do_reindex() begins: the new file gets what lives; what was not written *)
(* to the old file is in it, too.                                          *)
(***************************************************************************)
\* Mistake: the new file is made from the old one.
Reindex_FromFile(r) ==
  Both([r.a EXCEPT !.stage = "rewriting", !.buffer = <<>>],
       With(r.d, "new", File(Compact(Load(r.d["main"].log)), 0)))

Reindex(r) ==
  Both([r.a EXCEPT !.stage = "rewriting", !.buffer = <<>>],
       With(r.d, "new", File(Compact(r.a.events), 0)))

MayReindex(r) ==
  /\ count.reindexes < MaxReindexes
  /\ r.d["main"].log # <<>>
  /\ Len(r.d["main"].log \o r.a.buffer) > Cardinality(DOMAIN r.a.events.live)

(***************************************************************************)
(* init(): a new file without the old one takes its place; what lives in   *)
(* the file is read up to a piece of an entry, which is cut off.           *)
(***************************************************************************)
Renamed(d) ==
  IF "main" \in DOMAIN d THEN d
  ELSE With(<<>>, "main", IF "new" \in DOMAIN d THEN d["new"] ELSE File(<<>>, 0))

Opened(d) ==
  [Renamed(d) EXCEPT !["main"] =
     File(Whole(@.log), Min({@.synced, Len(Whole(@.log))}))]

-----------------------------------------------------------------------------
Init ==
  /\ map = <<>> /\ seq = 1
  /\ sending = {}
  /\ mailbox = <<>>
  /\ actor = NewActor(NoEvents)
  /\ disk = With(<<>>, "main", File(<<>>, 0))
  /\ aborted = FALSE
  /\ line = <<Values(map)>> /\ asked = <<>> /\ start = 1
  /\ count = [calls |-> 0, reindexes |-> 0, crashes |-> 0]

Become(r) == actor' = r.a /\ disk' = r.d

(***************************************************************************)
(* BinlogKeyValue: the map changes and a number is taken under the lock.   *)
(***************************************************************************)
Calls ==
  /\ actor.stage \notin {"closed", "destroying"}
  /\ count.calls < MaxCalls
  /\ count' = [count EXCEPT !.calls = @ + 1]

Changes(maps) ==
  /\ Calls
  /\ map' = maps[Len(maps)]
  /\ seq' = seq + Len(maps)
  /\ line' = line \o [i \in DOMAIN maps |-> Values(maps[i])]
  /\ UNCHANGED <<actor, disk, aborted, asked, start>>

Takes(part) ==
  /\ Cardinality(sending) < Threads
  /\ sending' = sending \cup {part}
  /\ UNCHANGED mailbox

Set(k, v) ==
  /\ IF k \in DOMAIN map
     THEN /\ map[k].value # v
          /\ Takes(Part(seq, Rewrite(map[k].id, k, v), Nothing))
          /\ Changes(<<[map EXCEPT ![k].value = v]>>)
     ELSE /\ Takes(Part(seq, Add(seq, k, v), Nothing))
          /\ Changes(<<With(map, k, [value |-> v, id |-> seq])>>)

EraseKey(k) ==
  /\ k \in DOMAIN map
  /\ Takes(Part(seq, Erase(map[k].id), Nothing))
  /\ Changes(<<Restrict(map, DOMAIN map \ {k})>>)

\* erase_batch() sends under the lock.  Its entries are written one by one.
EraseBatch(S) ==
  /\ Cardinality(sending) < Threads
  /\ S # {} /\ S \subseteq DOMAIN map
  /\ LET ids == Ascending({map[k].id : k \in S})
         erased(n) == {k \in S : map[k].id \in {ids[i] : i \in 1..n}}
     IN /\ mailbox' = Append(mailbox, Events(
             {Part(seq + i - 1, Erase(ids[i]), Nothing) : i \in DOMAIN ids}))
        /\ Changes([n \in DOMAIN ids |-> Restrict(map, DOMAIN map \ erased(n))])
  /\ UNCHANGED sending

Send(part) ==
  /\ mailbox' = Append(mailbox, Events({part}))
  /\ sending' = sending \ {part}
  /\ UNCHANGED <<map, seq, actor, disk, aborted, line, asked, start, count>>

(***************************************************************************)
(* A promise that everything up to a moment is on disk.  It covers nothing *)
(* if nothing has changed since the start: need_sync_ is false then, even  *)
(* when the server before was killed and its file is not synced.           *)
(***************************************************************************)
Asks(p, moment) ==
  /\ p \notin DOMAIN asked
  /\ Calls
  /\ asked' = With(asked, p, IF moment > start THEN moment ELSE 1)
  /\ UNCHANGED <<map, actor, disk, aborted, line, start>>

\* The moment after every change whose call has returned.
Returned ==
  LET held == {w.seq : w \in sending}
      changes == {w \in sending : w.entry # Nothing /\ w.seq..seq - 1 \subseteq held}
  IN Len(line) - Cardinality(changes)

AskForceSync(p) ==
  /\ Asks(p, Returned)
  /\ mailbox' = Append(mailbox, ForceSync(p))
  /\ UNCHANGED <<seq, sending>>

\* lazy_sync(): in its turn, after the changes before it.
AskLazySync(p) ==
  /\ Asks(p, Len(line))
  /\ Takes(Part(seq, Nothing, p))
  /\ seq' = seq + 1

(***************************************************************************)
(* The actor takes a message.                                              *)
(***************************************************************************)
ActorStep == actor.stage = "run" /\ ~aborted

Outside == <<map, seq, sending, line, asked, start>>

Receive ==
  /\ ActorStep /\ ~actor.busy
  /\ mailbox # <<>>
  /\ mailbox' = Tail(mailbox)
  /\ LET m == Head(mailbox)
     IN IF m.kind = "sync"
        THEN /\ actor' = IF MaxUnfinished(actor) = actor.begin - 1
                         THEN DoImmediateSync(actor, {m.promise})
                         ELSE [actor EXCEPT !.waits = @ \cup
                                {[seq |-> MaxUnfinished(actor), promise |-> m.promise]}]
             /\ UNCHANGED aborted
        ELSE /\ aborted' = (\E w \in m.parts : w.seq < actor.begin)
             /\ actor' = [actor EXCEPT !.pending = @ \cup m.parts, !.busy = TRUE]
  /\ UNCHANGED <<Outside, disk, count>>

(***************************************************************************)
(* The next entry in order goes to the events and to the buffer, which is  *)
(* written when it is large; and the file may be written anew.             *)
(***************************************************************************)
Added(a, w) ==
  LET b == DoLazySync([a EXCEPT !.pending = @ \ {w}, !.begin = @ + 1], w.promise)
  IN IF w.entry = Nothing THEN b
     ELSE [b EXCEPT !.events = DoEvent(@, w.entry), !.buffer = Append(@, w.entry)]

Run ==
  /\ ActorStep /\ actor.busy
  /\ \E w \in Ready(actor) :
       IF w.entry # Nothing /\ Wrong(actor.events, w.entry)
       THEN aborted' = TRUE /\ UNCHANGED <<actor, disk, count>>
       ELSE \E r \in {Both(Added(actor, w), disk), Flush(Both(Added(actor, w), disk))} :
              /\ \/ Become(r) /\ UNCHANGED count
                 \/ /\ w.entry # Nothing /\ MayReindex(r)
                    /\ Become(Reindex(r))
                    /\ count' = [count EXCEPT !.reindexes = @ + 1]
              /\ UNCHANGED aborted
  /\ UNCHANGED <<Outside, mailbox>>

Finish ==
  /\ ActorStep /\ actor.busy
  /\ Ready(actor) = {}
  /\ \E r \in TryFlush(Both(FlushImmediateSync([actor EXCEPT !.busy = FALSE]), disk)) :
       Become(r)
  /\ UNCHANGED <<Outside, mailbox, aborted, count>>

(***************************************************************************)
(* do_reindex() goes on: the new file is synced, the old one goes, and the *)
(* new one gets its name.                                                  *)
(***************************************************************************)
\* Mistake: the new file takes the place of the old one before it is synced.
SyncNew_Later ==
  /\ actor.stage = "rewriting"
  /\ actor' = [actor EXCEPT !.stage = "synced", !.need_sync = FALSE]
  /\ UNCHANGED <<Outside, mailbox, disk, aborted, count>>

SyncNew ==
  /\ actor.stage = "rewriting"
  /\ Become(Both([actor EXCEPT !.stage = "synced", !.need_sync = FALSE],
                 [disk EXCEPT !["new"].synced = Len(disk["new"].log)]))
  /\ UNCHANGED <<Outside, mailbox, aborted, count>>

Unlink ==
  /\ actor.stage = "synced"
  /\ Become(Both([actor EXCEPT !.stage = "unlinked"],
                 Restrict(disk, DOMAIN disk \ {"main"})))
  /\ UNCHANGED <<Outside, mailbox, aborted, count>>

RenameNew ==
  /\ actor.stage = "unlinked"
  /\ Become(Both([actor EXCEPT !.stage = "run"], Renamed(disk)))
  /\ UNCHANGED <<Outside, mailbox, aborted, count>>

(***************************************************************************)
(* timeout_expired().  What was asked for a moment of line that is now     *)
(* over is kept, with the other promises that wait for this sync.          *)
(***************************************************************************)
After(moment, n) == IF moment < n THEN 1 ELSE moment - n + 1

KeepAll(S) ==
  LET n == Max({1} \cup {asked[p] : p \in S})
  IN /\ line' = SubSeq(line, n, Len(line))
     /\ asked' = [p \in DOMAIN asked \ S |-> After(asked[p], n)]
     /\ start' = After(start, n)

Timeout ==
  /\ ActorStep /\ ~actor.busy /\ actor.timer
  /\ LET a == [actor EXCEPT !.lazy = FALSE, !.force = FALSE, !.flush = FALSE,
                            !.timer = FALSE]
     IN IF actor.lazy \/ actor.force
        THEN /\ Become(Sync(Both([a EXCEPT !.promises = {}], disk)))
             /\ KeepAll(actor.promises)
        ELSE /\ \E r \in TryFlush(Both(a, disk)) : Become(r)
             /\ UNCHANGED <<line, asked, start>>
  /\ UNCHANGED <<map, seq, sending, mailbox, aborted, count>>

(***************************************************************************)
(* The server closes the log, and may destroy it: the file that was being  *)
(* written anew goes first.                                                *)
(***************************************************************************)
Quiet ==
  /\ ActorStep /\ ~actor.busy
  /\ mailbox = <<>>
  /\ sending = {}

Close ==
  /\ Quiet
  /\ LET r == Flush(Both([actor EXCEPT !.promises = {}], disk))
     IN /\ Become(Both([NewActor(NoEvents) EXCEPT !.stage = "closed"], Sync(r).d))
        /\ line' = IF r.a.need_sync THEN <<line[Len(line)]>> ELSE line
  /\ asked' = <<>> /\ start' = Len(line')
  /\ UNCHANGED <<map, seq, sending, mailbox, aborted, count>>

DestroyNew ==
  /\ Quiet
  /\ Become(Both([NewActor(NoEvents) EXCEPT !.stage = "destroying"],
                 Restrict(Flush(Both(actor, disk)).d, {"main"})))
  /\ asked' = <<>>
  /\ UNCHANGED <<map, seq, sending, mailbox, aborted, line, start, count>>

DestroyMain ==
  /\ actor.stage = "destroying"
  /\ actor' = [actor EXCEPT !.stage = "closed"]
  /\ disk' = <<>>
  /\ map' = <<>>
  /\ line' = <<Values(map')>> /\ asked' = <<>> /\ start' = 1
  /\ UNCHANGED <<seq, sending, mailbox, aborted, count>>

(***************************************************************************)
(* init(), after a close or a crash: the map is what the file holds.       *)
(***************************************************************************)
Restart(d, since) ==
  LET p == Load(d["main"].log)
  IN /\ disk' = d
     /\ map' = Contents(p)
     /\ seq' = p.last + 1
     /\ actor' = NewActor(p)
     /\ sending' = {}
     /\ mailbox' = <<>>
     /\ asked' = <<>>
     /\ line' = since /\ start' = Len(since)
     /\ UNCHANGED aborted

Open ==
  /\ actor.stage = "closed"
  /\ Restart(Opened(disk), line)
  /\ UNCHANGED count

(***************************************************************************)
(* What a crash leaves of a file: at least so much of it, and perhaps a    *)
(* piece of the next entry.                                                *)
(***************************************************************************)
Remains(f, least) ==
  IF f \notin DOMAIN disk THEN {<<>>}
  ELSE LET log == disk[f].log \o (IF f = "main" THEN actor.buffer ELSE <<>>)
           cut == {SubSeq(log, 1, n) : n \in least..Len(log) - 1}
       IN cut \cup {Append(l, Torn) : l \in cut} \cup {log}

Crash(least, durable) ==
  /\ ~aborted
  /\ count.crashes < MaxCrashes
  /\ count' = [count EXCEPT !.crashes = @ + 1]
  /\ \E main \in Remains("main", least["main"]), new \in Remains("new", least["new"]) :
       LET left == [f \in DOMAIN disk |->
                     LET log == IF f = "main" THEN main ELSE new
                     IN File(log, IF durable THEN Len(log) ELSE disk[f].synced)]
           values == Values(Contents(Load(Opened(left)["main"].log)))
           at == {i \in DOMAIN line : line[i] = values}
       IN Restart(Opened(left), IF at = {} THEN <<values>> ELSE SubSeq(line, 1, Max(at)))

\* The new file may be half written when the server is killed.
Kill ==
  Crash([f \in {"main", "new"} |->
          IF f \notin DOMAIN disk \/ (f = "new" /\ actor.stage = "rewriting") THEN 0
          ELSE Len(disk[f].log)], FALSE)

\* After a power failure all that a file has is durable.
PowerLoss ==
  Crash([f \in {"main", "new"} |->
          IF f \in DOMAIN disk THEN disk[f].synced ELSE 0], TRUE)

-----------------------------------------------------------------------------
ThreadNext ==
  \/ \E k \in Key : EraseKey(k) \/ \E v \in Value[k] : Set(k, v)
  \/ \E S \in SUBSET Key : EraseBatch(S)
  \/ \E p \in Promise : AskLazySync(p) \/ AskForceSync(p)
  \/ \E part \in sending : Send(part)

ActorNext ==
  Receive \/ Run \/ Finish \/ Timeout \/ SyncNew \/ Unlink \/ RenameNew

Next ==
  \/ ThreadNext \/ ActorNext
  \/ Close \/ DestroyNew \/ DestroyMain \/ Open
  \/ Kill \/ PowerLoss

(***************************************************************************)
(* A thread that took a number hands its entry over, and the actor, whose  *)
(* timer goes off, takes every step it can.                                *)
(***************************************************************************)
Fairness ==
  /\ WF_vars(\E part \in sending : Send(part))
  /\ WF_vars(Receive) /\ WF_vars(Run) /\ WF_vars(Finish) /\ WF_vars(Timeout)
  /\ WF_vars(SyncNew) /\ WF_vars(Unlink) /\ WF_vars(RenameNew)

Spec == Init /\ [][Next]_vars /\ Fairness

(***************************************************************************)
(* Properties.                                                             *)
(***************************************************************************)
\* Every number that was taken is on its way exactly once until its turn
\* comes; who waits for the timer has set it; and a key lives in one event.
InMail == UNION {mailbox[i].parts : i \in {j \in DOMAIN mailbox : mailbox[j].kind = "events"}}
TypeOK ==
  /\ map \in UNION {[K -> [value : UNION {Value[k] : k \in K}, id : 1..seq - 1]] : K \in SUBSET Key}
  /\ actor.stage = "run" =>
       /\ actor.begin..seq - 1 = {w.seq : w \in actor.pending \cup InMail \cup sending}
       /\ Cardinality(actor.pending) + Cardinality(InMail) + Cardinality(sending)
            = seq - actor.begin
  /\ (actor.promises # {} \/ actor.lazy \/ actor.force \/ actor.flush) => actor.timer
  /\ \A i, j \in DOMAIN actor.events.live :
       actor.events.live[i].key = actor.events.live[j].key => i = j

\* No check of the actor fails: entries come to it in an order it can put
\* right, and never one for an event that is gone
\* (OrderedEventsProcessor::add, Binlog::do_event).
NeverAborts == ~aborted

\* What is in the file, in the buffer, and on its way makes the map, in the
\* order of the numbers, also while the file is written anew
\* (Binlog::do_reindex, BinlogKeyValue).
OnItsWay ==
  LET parts == {w \in actor.pending \cup InMail \cup sending : w.entry # Nothing}
      numbers == Ascending({w.seq : w \in parts})
  IN [i \in DOMAIN numbers |-> (CHOOSE w \in parts : w.seq = numbers[i]).entry]
DiskHoldsTheMap ==
  LET f == IF actor.stage = "run" THEN "main" ELSE "new"
  IN actor.stage \notin {"closed", "destroying"} =>
       Contents(Load(disk[f].log \o actor.buffer \o OnItsWay)) = map

\* A crash takes the map back to what it was at one moment, and to none
\* before what a kept promise covers.
Durable == INSTANCE DurableMap WITH map <- Values(map)
KeepsPromises == Durable!Spec

\* Each promise of a sync is kept, or fails with the log
\* (ConcurrentBinlog::force_sync, BinlogInterface::lazy_sync).
EveryPromiseKept == \A p \in Promise : p \in DOMAIN asked ~> p \notin DOMAIN asked

\* In the end the file holds the map, though nobody asked for a sync
\* (BinlogActor::try_flush).
WrittenInTheEnd ==
  <>[](actor.stage = "run" => Contents(Load(disk["main"].log)) = map)
=============================================================================

-------------------------- MODULE WebhookDelivery --------------------------
(***************************************************************************)
(* A webhook: the actor that takes the updates of a bot from their queue   *)
(* and posts them to the bot over a few connections, as WebhookActor.cpp.  *)
(*                                                                         *)
(* The updates of one chat are sent one after the other; those of several  *)
(* chats at the same time.  An update that fails is sent again later, or   *)
(* is given up when it would have expired by then.  The actor acts only    *)
(* when something happens: a notice of new updates, an answer, the end of  *)
(* a connection, or the one timer it sets itself.  The address of the bot  *)
(* is given (so that its renewal wakes nobody), and the header of the      *)
(* request is never too long.                                              *)
(***************************************************************************)
EXTENDS TQueue

CONSTANTS
  ChatOf,         \* the queue of each update: webhook_queue_id
  MaxConn,        \* max_connections
  MaxTimeout,     \* the longest delay: between 60 and 120 seconds
  RetryAfter,     \* the delays the bot asks for, 0 for none
  Ttl,            \* how long each update lives: 0 if less than a tick
  OldTail,        \* the tail the ids have reached before, 0 for a new queue
  MaxNow,         \* bound: the clock
  MaxCloses       \* bound: how often the webhook is closed

ASSUME WebhookAssumption ==
  /\ Update \subseteq Nat
  /\ ChatOf \in [Update -> Nat \ {0}]
  /\ MaxConn \in Nat \ {0}
  /\ MaxTimeout \subseteq Nat \ {0} /\ MaxTimeout # {}
  /\ RetryAfter \subseteq Nat /\ 0 \in RetryAfter
  /\ Ttl \in [Update -> Nat]
  /\ OldTail \in {0} \cup 2..MaxId - 1
  /\ MaxNow \in Nat /\ MaxCloses \in Nat

VARIABLES
  queue,      \* the queue of updates
  now,        \* the clock
  open,       \* is a webhook set
  hook,       \* its actor
  strays,     \* updates on their way over connections of closed webhooks
  received,   \* history: updates the bot has had
  expires,    \* history: when the updates that arrived expire
  dropped,    \* history: updates dropped by a request or a limit
  closes      \* history: how often a webhook was closed
vars == <<queue, now, open, hook, strays, received, expires, dropped,
          closes>>

(***************************************************************************)
(* The actor: the updates it has loaded, by id and as a list for each      *)
(* chat; the chats whose first update waits to be sent, each with the time *)
(* from which it may; the connections; and the timer, 0 when not set.      *)
(***************************************************************************)
MaxLoaded == 2 * MaxConn

Closed == [state |-> "closed", id |-> 0]
Idle == [state |-> "idle", id |-> 0]
Sent(id) == [state |-> "sent", id |-> id]

In(h, state) == {c \in 1..MaxConn : h.conns[c].state = state}
Busy(h) == In(h, "sent") \cup In(h, "received")
Chats(h) == DOMAIN h.lists

NewHook ==
  [offset |-> 0, empty |-> FALSE, loaded |-> <<>>, lists |-> <<>>,
   waiting |-> {}, conns |-> [c \in 1..MaxConn |-> Closed], timer |-> 1,
   closing |-> FALSE]

Without(f, x) == [y \in DOMAIN f \ {x} |-> f[y]]

(***************************************************************************)
(* load_updates(): as many updates as there is room for lists.  The steps  *)
(* of the actor are sets of outcomes, each the queue and the actor.        *)
(***************************************************************************)
\* Mistake: a chat whose first update is being sent waits again.
Load_Again(h, from, r, new) ==
  LET chat(id) == ChatOf[r.queue.events[id].data]
      listed == {chat(id) : id \in new}
      old(c) == IF c \in Chats(h) THEN h.lists[c] ELSE <<>>
  IN [queue |-> r.queue,
      hook |-> [h EXCEPT
        !.empty = r.ids = {},
        !.offset = IF new = {} THEN from ELSE Max(new) + 1,
        !.loaded = [id \in DOMAIN h.loaded \cup new |->
          IF id \notin new THEN h.loaded[id]
          ELSE [update |-> r.queue.events[id].data, chat |-> chat(id), wake |-> now,
                delay |-> 1, fails |-> 0, expires |-> r.queue.events[id].expires]],
        !.lists = [c \in Chats(h) \cup listed |->
          old(c) \o Ascending({id \in new : chat(id) = c})],
        !.waiting = @ \cup {[wake |-> now, chat |-> c] : c \in listed}]]

Load(h, from, r, new) ==
  LET chat(id) == ChatOf[r.queue.events[id].data]
      listed == {chat(id) : id \in new}
      old(c) == IF c \in Chats(h) THEN h.lists[c] ELSE <<>>
  IN [queue |-> r.queue,
      hook |-> [h EXCEPT
        !.empty = r.ids = {},
        !.offset = IF new = {} THEN from ELSE Max(new) + 1,
        !.loaded = [id \in DOMAIN h.loaded \cup new |->
          IF id \notin new THEN h.loaded[id]
          ELSE [update |-> r.queue.events[id].data, chat |-> chat(id), wake |-> now,
                delay |-> 1, fails |-> 0, expires |-> r.queue.events[id].expires]],
        !.lists = [c \in Chats(h) \cup listed |->
          old(c) \o Ascending({id \in new : chat(id) = c})],
        !.waiting = @ \cup {[wake |-> now, chat |-> c] : c \in listed \ Chats(h)}]]

\* Mistake: what comes before is forgotten as it is for getUpdates.
LoadUpdates_Forgets(q, h) ==
  LET start == IF h.offset = 0 THEN GetHead(q) ELSE h.offset
      from == IF TooFar(q, start) THEN GetHead(q) ELSE start
      room == MaxLoaded - Cardinality(Chats(h))
  IN IF h.empty \/ room = 0 THEN {[queue |-> q, hook |-> h]}
     ELSE IF start = 0 THEN {[queue |-> q, hook |-> [h EXCEPT !.empty = TRUE]]}
     ELSE {Load(h, from, r, r.ids \ DOMAIN h.loaded) : r \in {Get(q, from, TRUE, room, now)}}

LoadUpdates(q, h) ==
  LET start == IF h.offset = 0 THEN GetHead(q) ELSE h.offset
      from == IF TooFar(q, start) THEN GetHead(q) ELSE start
      room == MaxLoaded - Cardinality(Chats(h))
  IN IF h.empty \/ room = 0 THEN {[queue |-> q, hook |-> h]}
     ELSE IF start = 0 THEN {[queue |-> q, hook |-> [h EXCEPT !.empty = TRUE]]}
     ELSE {Load(h, from, r, r.ids \ DOMAIN h.loaded) : r \in {Get(q, from, FALSE, room, now)}}

(***************************************************************************)
(* create_new_connections(): at most one for each list, and one when there *)
(* is none yet.  Flood control and errors let only k be made (some at the  *)
(* last moment of the clock); when the actor is left with none, it tries   *)
(* again in a second.                                                      *)
(***************************************************************************)
Luck == IF now = MaxNow THEN 1..MaxConn ELSE 0..MaxConn

CreateConnections(h) ==
  LET closed == In(h, "closed")
      have == MaxConn - Cardinality(closed)
      need == Max({1, Min({Cardinality(Chats(h)), MaxConn})})
      made(k) == {c \in closed : Cardinality({d \in closed : d < c}) < Min({k, need - have})}
  IN {[h EXCEPT
         !.conns = [c \in 1..MaxConn |-> IF c \in made(k) THEN Idle ELSE @[c]],
         !.timer = IF Chats(h) # {} /\ have = 0 /\ k = 0 THEN now + 1 ELSE 0] : k \in Luck}

(***************************************************************************)
(* send_updates(): while there is a ready connection, the first update of  *)
(* the chat that waits longest; and the timer for the next.                *)
(***************************************************************************)
Sooner(v, w) == v.wake < w.wake \/ (v.wake = w.wake /\ v.chat < w.chat)

SendUpdates(h) ==
  LET idle == Ascending(In(h, "idle"))
      due == {w \in h.waiting : w.wake <= now}
      rank(w) == Cardinality({v \in due : Sooner(v, w)}) + 1
      sending == {w \in due : rank(w) <= Len(idle)}
      left == h.waiting \ sending
      user(c) == {w \in sending : idle[rank(w)] = c}
  IN [h EXCEPT
        !.waiting = left,
        !.conns = [c \in 1..MaxConn |->
          IF user(c) = {} THEN @[c]
          ELSE Sent(Head(h.lists[(CHOOSE w \in user(c) : TRUE).chat]))],
        !.timer = IF Cardinality(sending) < Len(idle) /\ left # {}
                  THEN Min({w.wake : w \in left} \cup ({@} \ {0})) ELSE @]

(***************************************************************************)
(* loop(): the timer set before stays when no new one is set.              *)
(***************************************************************************)
Loop(q, h) ==
  UNION {{[queue |-> l.queue, hook |-> [s EXCEPT !.timer = IF @ = 0 THEN h.timer ELSE @]] :
            s \in {SendUpdates(c) : c \in CreateConnections(l.hook)}} :
         l \in LoadUpdates(q, h)}

LoopTwice(q, h) == UNION {Loop(r.queue, r.hook) : r \in Loop(q, h)}

(***************************************************************************)
(* drop_event(): the next update of the chat may go.                       *)
(***************************************************************************)
\* Mistake: the chat of the next update does not wait for a connection.
DropEvent_Alone(q, h, id) ==
  LET chat == h.loaded[id].chat
      rest == Tail(h.lists[chat])
  IN [queue |-> Forget(q, id).queue,
      hook |-> [h EXCEPT
        !.loaded = Without(@, id),
        !.lists = IF rest = <<>> THEN Without(@, chat) ELSE [@ EXCEPT ![chat] = rest]]]

DropEvent(q, h, id) ==
  LET chat == h.loaded[id].chat
      rest == Tail(h.lists[chat])
  IN [queue |-> Forget(q, id).queue,
      hook |-> [h EXCEPT
        !.loaded = Without(@, id),
        !.lists = IF rest = <<>> THEN Without(@, chat) ELSE [@ EXCEPT ![chat] = rest],
        !.waiting = IF rest = <<>> THEN @
                    ELSE @ \cup {[wake |-> h.loaded[Head(rest)].wake, chat |-> chat]}]]

(***************************************************************************)
(* on_update_error(): the delay doubles from the second failure on, unless *)
(* the bot asks for one.                                                   *)
(***************************************************************************)
NextDelay(u, retry, most) ==
  IF retry = 0 /\ u.fails > 0 THEN Min({most, 2 * u.delay}) ELSE u.delay

Wait(u, retry, most) ==
  IF retry = 0 /\ u.fails > 0 THEN NextDelay(u, retry, most) ELSE retry

GivesUp(u, retry, most) == now + Wait(u, retry, most) > u.expires

\* Mistake: the update goes to the end of its list.
OnUpdateError_Back(q, h, id, retry, most) ==
  LET u == h.loaded[id]
      wake == now + Wait(u, retry, most)
  IN IF GivesUp(u, retry, most) THEN DropEvent(q, h, id)
     ELSE [queue |-> q,
           hook |-> [h EXCEPT
             !.loaded[id] = [u EXCEPT !.delay = NextDelay(u, retry, most),
                                      !.wake = wake, !.fails = @ + 1],
             !.lists[u.chat] = Append(Tail(@), id),
             !.waiting = @ \cup {[wake |-> wake, chat |-> u.chat]}]]

OnUpdateError(q, h, id, retry, most) ==
  LET u == h.loaded[id]
      wake == now + Wait(u, retry, most)
  IN IF GivesUp(u, retry, most) THEN DropEvent(q, h, id)
     ELSE [queue |-> q,
           hook |-> [h EXCEPT
             !.loaded[id] = [u EXCEPT !.delay = NextDelay(u, retry, most),
                                      !.wake = wake, !.fails = @ + 1],
             !.waiting = @ \cup {[wake |-> wake, chat |-> u.chat]}]]

-----------------------------------------------------------------------------
DataOf(S) == {queue.events[i].data : i \in S} \ {Nothing}
InQueue == DataOf(Ids(queue))
Loaded(h) == {h.loaded[id].update : id \in DOMAIN h.loaded}
Carried(h, C) == {h.loaded[h.conns[c].id].update : c \in C}
Arrived == DOMAIN expires

Init ==
  /\ queue = IF OldTail = 0 THEN EmptyQueue
             ELSE Replay(With(<<>>, OldTail - 1, [data |-> Nothing, expires |-> 1]))
  /\ now = 1
  /\ open = FALSE
  /\ hook = NewHook
  /\ strays = {} /\ received = {} /\ expires = <<>> /\ dropped = {}
  /\ closes = 0

\* What a handler leaves the queue and the actor in.
Become(outcomes) == \E r \in outcomes : queue' = r.queue /\ hook' = r.hook

(***************************************************************************)
(* add_update_impl(): an update is pushed, and the actor told of it by a   *)
(* call that runs at once, on the same thread.                             *)
(***************************************************************************)
\* Mistake: the actor goes on taking the queue for empty.
Updated_Unheard(q) == Loop(q, hook)

Updated(q) == Loop(q, [hook EXCEPT !.empty = FALSE])

PushUpdate(u) ==
  /\ Arrived = {v \in Update : v < u}
  /\ ~Full(queue)
  /\ expires' = With(expires, u, now + Ttl[u])
  /\ dropped' = IF Wraps(queue) THEN dropped \cup InQueue ELSE dropped
  /\ \E first \in FirstIds :
       \E r \in {Push(queue, [data |-> u, expires |-> now + Ttl[u]], first)} :
         Become(IF open THEN Updated(r.queue) ELSE {[queue |-> r.queue, hook |-> hook]})
  /\ UNCHANGED <<now, open, strays, received, closes>>

Timer ==
  /\ open
  /\ hook.timer # 0 /\ hook.timer <= now
  /\ UNCHANGED <<now, open, strays, received, expires, dropped, closes>>
  /\ Become(Loop(queue, [hook EXCEPT !.timer = 0]))

(***************************************************************************)
(* The bot receives a request, or one of a webhook closed since.           *)
(***************************************************************************)
BotReceives(c) ==
  /\ open
  /\ hook.conns[c].state = "sent"
  /\ hook' = [hook EXCEPT !.conns[c].state = "received"]
  /\ received' = received \cup Carried(hook, {c})
  /\ UNCHANGED <<queue, now, open, strays, expires, dropped, closes>>

BotReceivesStray(u) ==
  /\ u \in strays
  /\ strays' = strays \ {u}
  /\ received' = received \cup {u}
  /\ UNCHANGED <<queue, now, open, hook, expires, dropped, closes>>

(***************************************************************************)
(* handle(): an answer that the bot has had the update.                    *)
(***************************************************************************)
Answer(c, conn, r) ==
  Become(UNION {Loop(s.queue, [s.hook EXCEPT !.conns[c] = conn]) : s \in {r}})

AnswerOk(c, conn) ==
  /\ open
  /\ hook.conns[c].state = "received"
  /\ UNCHANGED <<now, open, strays, received, expires, dropped, closes>>
  /\ Answer(c, conn, DropEvent(queue, hook, hook.conns[c].id))

(***************************************************************************)
(* Any other answer; and the end of a connection, after which the actor    *)
(* loops twice.  What is not sent again in time is given up.               *)
(***************************************************************************)
Fails(c, retry, most) ==
  LET id == hook.conns[c].id
      u == hook.loaded[id]
  IN /\ c \in Busy(hook)
     /\ GivesUp(u, retry, most) \/ now + Wait(u, retry, most) <= MaxNow
     /\ dropped' = IF GivesUp(u, retry, most) THEN dropped \cup {u.update} ELSE dropped

AnswerError(c, conn, retry, most) ==
  /\ open
  /\ hook.conns[c].state = "received"
  /\ Fails(c, retry, most)
  /\ Answer(c, conn, OnUpdateError(queue, hook, hook.conns[c].id, retry, most))
  /\ UNCHANGED <<now, open, strays, received, expires, closes>>

\* A request in flight may still reach the bot when its connection ends.
Leave(h, C) == strays' = strays \cup (Carried(h, C \cap In(h, "sent")) \ received)

Hangup(c, most) ==
  /\ open
  /\ c \in Busy(hook)
  /\ Fails(c, 0, most)
  /\ Become(UNION {LoopTwice(r.queue, [r.hook EXCEPT !.conns[c] = Closed]) :
                   r \in {OnUpdateError(queue, hook, hook.conns[c].id, 0, most)}})
  /\ Leave(hook, {c})
  /\ UNCHANGED <<now, open, received, expires, closes>>

IdleHangup(c) ==
  /\ open
  /\ c \in In(hook, "idle")
  /\ Become(LoopTwice(queue, [hook EXCEPT !.conns[c] = Closed]))
  /\ UNCHANGED <<now, open, strays, received, expires, dropped, closes>>

(***************************************************************************)
(* When the bot has answered 410 for too long the actor stops after this   *)
(* answer, by a message to itself.                                         *)
(***************************************************************************)
AnswerGone(c, most) ==
  /\ open /\ closes < MaxCloses
  /\ hook.conns[c].state = "received"
  /\ Fails(c, 0, most)
  /\ Become({[r EXCEPT !.hook.conns[c] = Closed, !.hook.closing = TRUE] :
             r \in {OnUpdateError(queue, hook, hook.conns[c].id, 0, most)}})
  /\ UNCHANGED <<now, open, strays, received, expires, closes>>

(***************************************************************************)
(* The webhook is closed, by its actor or by its owner; the owner sets it  *)
(* again and may have what waits dropped in between.                       *)
(***************************************************************************)
Close ==
  /\ open
  /\ closes < MaxCloses \/ hook.closing
  /\ open' = FALSE
  /\ closes' = closes + 1
  /\ Leave(hook, 1..MaxConn)
  /\ hook' = NewHook
  /\ UNCHANGED <<queue, now, received, expires, dropped>>

Open ==
  /\ ~open
  /\ open' = TRUE
  /\ UNCHANGED <<queue, now, hook, strays, received, expires, dropped, closes>>

DropPending ==
  /\ ~open
  /\ GetSize(queue) > 0
  /\ queue' = Clear(queue, 0).queue
  /\ dropped' = dropped \cup InQueue
  /\ UNCHANGED <<now, open, hook, strays, received, expires, closes>>

Collect ==
  /\ queue.gc_at # 0 /\ queue.gc_at < now
  /\ \E stop \in Ids(queue) \cup {queue.tail} : queue' = RunGc(queue, stop, now).queue
  /\ UNCHANGED <<now, open, hook, strays, received, expires, dropped, closes>>

Tick ==
  /\ now < MaxNow
  /\ now' = now + 1
  /\ UNCHANGED <<queue, open, hook, strays, received, expires, dropped, closes>>

Next ==
  \/ \E u \in Update : PushUpdate(u)
  \/ Timer
  \/ \E c \in 1..MaxConn :
       \/ BotReceives(c)
       \/ \E conn \in {Idle, Closed} :
            \/ AnswerOk(c, conn)
            \/ \E retry \in RetryAfter, most \in MaxTimeout :
                 AnswerError(c, conn, retry, most)
       \/ \E most \in MaxTimeout : Hangup(c, most) \/ AnswerGone(c, most)
       \/ IdleHangup(c)
  \/ \E u \in strays : BotReceivesStray(u)
  \/ Close \/ Open \/ DropPending \/ Collect \/ Tick

(***************************************************************************)
(* The actors run, requests arrive, and none waits for its answer for      *)
(* ever: a connection is closed after a minute without one.  (Any answer   *)
(* and the end of the connection satisfy the fairness of AnswerOk.)        *)
(***************************************************************************)
Fairness ==
  /\ WF_vars(Tick)
  /\ WF_vars(Timer)
  /\ WF_vars(Close /\ hook.closing)
  /\ \A c \in 1..MaxConn : WF_vars(BotReceives(c)) /\ WF_vars(AnswerOk(c, Idle))

Spec == Init /\ [][Next]_vars /\ Fairness

-----------------------------------------------------------------------------
Excused == dropped \cup {u \in Arrived : expires[u] < now}

(***************************************************************************)
(* There are no more lists than the actor may load; they hold loaded       *)
(* updates, and a chat waits for one time.                                 *)
(***************************************************************************)
TypeOK ==
  /\ Cardinality(Chats(hook)) <= MaxLoaded
  /\ hook.timer \in Nat
  /\ \A v, w \in hook.waiting : v.chat = w.chat => v = w
  /\ \A c \in Chats(hook) : hook.lists[c] \in Seq(DOMAIN hook.loaded)
  /\ received \subseteq Arrived /\ dropped \subseteq Arrived

(***************************************************************************)
(* No chat is forgotten and none is served twice: the first update of each *)
(* list either waits to be sent, or is on exactly one connection; and the  *)
(* lists hold what is loaded, each update once.                            *)
(***************************************************************************)
EachChatServedOnce ==
  /\ \A c \in Chats(hook) :
       LET head == Head(hook.lists[c])
           carrying == {k \in Busy(hook) : hook.conns[k].id = head}
           waits == {w \in hook.waiting : w.chat = c}
       IN hook.lists[c] # <<>> /\ Cardinality(waits) + Cardinality(carrying) = 1
  /\ \A k \in Busy(hook) : \E c \in Chats(hook) : hook.conns[k].id = Head(hook.lists[c])
  /\ \A c \in Chats(hook) : IsInjective(hook.lists[c])
  /\ DOMAIN hook.loaded = UNION {Range(hook.lists[c]) : c \in Chats(hook)}

(***************************************************************************)
(* The bot has the updates of a chat in their order: for the first time    *)
(* only after those that came before, unless they are excused.             *)
(***************************************************************************)
InOrder ==
  [][\A u \in received' \ received : \A v \in Arrived :
       v < u /\ ChatOf[v] = ChatOf[u] => v \in received \cup Excused]_vars

(***************************************************************************)
(* The promise of UpdateDelivery, by a webhook that may be closed and set  *)
(* again while updates are loaded or on their way.                         *)
(***************************************************************************)
Delivery == INSTANCE UpdateDelivery WITH
  arrived <- Arrived, kept <- InQueue \cup Loaded(hook),
  handed <- received, excused <- Excused
DeliversUpdates == Delivery!Spec

(***************************************************************************)
(* The actor never sleeps over an update: once the webhook stays set, the  *)
(* bot gets in the end every update that is not excused.                   *)
(***************************************************************************)
EveryUpdateSettles == <>[]open => <>[](Arrived \subseteq received \cup Excused)
=============================================================================

------------------------- MODULE WebhookOrderProofs -------------------------
(***************************************************************************)
(* Proofs that the updates of a webhook arrive, those of one chat in their *)
(* order, although ids may begin again.                                    *)
(***************************************************************************)
EXTENDS WebhookDeliveryProofs

(***************************************************************************)
(* The bot gets fewer updates than half of the ids, which are some 2^31:   *)
(* ids may begin again, but they do not come near those of before.         *)
(***************************************************************************)
IdsLast ==
  /\ IsFiniteSet(Update)
  /\ Cardinality(Update) + FutureSlack + 2 < MaxId \div 2

-----------------------------------------------------------------------------
(***************************************************************************)
(* What the actor and its queue know of the updates that arrived, of which *)
(* those of S are settled.                                                 *)
(***************************************************************************)
DataAt(q, i) == q.events[i].data

Number(exp) == Cardinality(DOMAIN exp)

\* Updates wait in the order in which they came, and none is lost.
QueueOK(q, exp, S) ==
  /\ \A i, j \in Live(q) : i < j => DataAt(q, i) < DataAt(q, j)
  /\ \A u \in DOMAIN exp : u \in S \/ \E i \in Live(q) : DataAt(q, i) = u
  /\ \A i \in Live(q) : i >= q.tail - Number(exp) - 1
  /\ q.tail = 0 => DOMAIN exp = {}

\* An id is near the tail, or from before the ids began again and far off.
Near(q, exp, x) == x <= q.tail /\ x >= q.tail - Number(exp) - 1
Far(q, exp, x) == x < MaxId /\ x - q.tail >= MaxId \div 2 - Number(exp) - 2
Reached(q, exp, x) == Near(q, exp, x) \/ Far(q, exp, x)

UpdateAt(h, i) == h.loaded[i].update

\* What is loaded comes before what is still to be loaded.
LoadedOK(q, h, exp, S) ==
  /\ \A i \in DOMAIN h.loaded :
       Reached(q, exp, i) /\ (i <= q.tail => i < h.offset /\ h.offset <= q.tail)
  /\ \A i \in DOMAIN h.loaded, j \in Live(q) :
       /\ j = i => DataAt(q, j) = UpdateAt(h, i)
       /\ j > i \/ i > q.tail => UpdateAt(h, i) < DataAt(q, j)
  /\ h.offset # 0 => q.tail # 0 /\ Reached(q, exp, h.offset)
  /\ h.offset <= q.tail =>
       \A j \in Live(q) : j < h.offset /\ DataAt(q, j) \notin S => j \in DOMAIN h.loaded

\* The updates of a chat are listed in their order.
SortedOK(h) ==
  \A c \in Chats(h) : \A k, l \in DOMAIN h.lists[c] :
    k < l => UpdateAt(h, h.lists[c][k]) < UpdateAt(h, h.lists[c][l])

World(q, h, exp, S) == QueueOK(q, exp, S) /\ LoadedOK(q, h, exp, S) /\ SortedOK(h)

\* What came before the update u in its chat is settled.
Earlier(u, exp, S) ==
  \A v \in DOMAIN exp : v < u /\ ChatOf[v] = ChatOf[u] => v \in S

-----------------------------------------------------------------------------
(***************************************************************************)
(* The types of what is compared.                                          *)
(***************************************************************************)
\* Of a queue.
LEMMA QueueTyped ==
  ASSUME NEW q, NEW exp, Sound(q, Known(exp)), DOMAIN exp \subseteq Update
  PROVE  /\ q.tail \in Nat /\ q.tail < MaxId /\ Live(q) \subseteq Ids(q)
         /\ \A i \in Ids(q) : i \in Nat \ {0} /\ i < q.tail
         /\ \A i \in Live(q) : DataAt(q, i) \in DOMAIN exp /\ DataAt(q, i) \in Nat
                               /\ q.events[i].expires = exp[DataAt(q, i)]
         /\ \A i \in Ids(q) \ Live(q) : i = q.tail - 1
         /\ q.tail # 0 => GetHead(q) \in Ids(q)
         /\ \A i \in Ids(q) : GetHead(q) <= i
<1>1. q.tail \in Nat /\ q.tail < MaxId
  BY QueueAssumption DEF Sound
<1>2. /\ Ids(q) \in SUBSET Nat /\ Ids(q) \subseteq 1..MaxId - 2
      /\ Live(q) \subseteq Ids(q)
      /\ \A i \in Ids(q) : q.events[i] \in Known(exp) /\ i < q.tail
      /\ \A i \in Ids(q) \ Live(q) : i = q.tail - 1
  BY KnownEvents, SoundIds
<1>3. ASSUME NEW i \in Live(q)
      PROVE  /\ DataAt(q, i) \in DOMAIN exp /\ DataAt(q, i) \in Nat
             /\ q.events[i].expires = exp[DataAt(q, i)]
  <2>1. q.events[i] \in Known(exp) /\ q.events[i].data # Nothing
    BY <1>2 DEF Live
  <2> QED
    BY <2>1, WebhookAssumption DEF Known, DataAt
<1>4. q.tail # 0 => Ids(q) # {}
  BY DEF Sound
<1>5. Ids(q) # {} => GetHead(q) \in Ids(q) /\ \A i \in Ids(q) : GetHead(q) <= i
  BY <1>2, MinOf DEF GetHead
<1> QED
  BY <1>1, <1>2, <1>3, <1>4, <1>5

\* Of an actor.
LEMMA ActorTyped ==
  ASSUME NEW h, NEW B, NEW exp, HookOK(h, B, Known(exp))
  PROVE  /\ h.offset \in Nat /\ DOMAIN h.loaded \subseteq Nat
         /\ \A i \in DOMAIN h.loaded :
              /\ UpdateAt(h, i) \in DOMAIN exp /\ UpdateAt(h, i) \in Nat
              /\ h.loaded[i].chat = ChatOf[UpdateAt(h, i)]
<1>1. h.offset \in Nat /\ DOMAIN h.loaded \subseteq Nat
  BY DEF HookOK, HookTyped, Shaped
<1>2. ASSUME NEW i \in DOMAIN h.loaded
      PROVE  /\ UpdateAt(h, i) \in DOMAIN exp /\ UpdateAt(h, i) \in Nat
             /\ h.loaded[i].chat = ChatOf[UpdateAt(h, i)]
  <2> DEFINE u == h.loaded[i]
             e == [data |-> u.update, expires |-> u.expires]
  <2>1. u \in LoadedUpdate(Known(exp))
    BY DEF HookOK, HookTyped
  <2>2. u.update \in Update /\ e \in Known(exp) /\ u.chat = ChatOf[u.update]
    BY <2>1 DEF LoadedUpdate
  <2>3. e.data = u.update
    OBVIOUS
  <2> HIDE DEF u, e
  <2>4. u.update # Nothing /\ u.update \in Nat
    BY <2>2, QueueAssumption, WebhookAssumption
  <2>5. u.update \in DOMAIN exp
    BY <2>2, <2>3, <2>4, KnownEvents
  <2> QED
    BY <2>2, <2>4, <2>5 DEF u, UpdateAt
<1> QED
  BY <1>1, <1>2

\* How many updates have arrived.
LEMMA NumberType ==
  ASSUME IdsLast, NEW exp, DOMAIN exp \subseteq Update
  PROVE  /\ Number(exp) \in Nat /\ IsFiniteSet(DOMAIN exp)
         /\ Number(exp) + FutureSlack + 2 < MaxId \div 2
         /\ \A u \in Update \ DOMAIN exp : \A t : Number(With(exp, u, t)) = Number(exp) + 1
<1>1. DOMAIN exp \in SUBSET Update /\ IsFiniteSet(Update)
  BY DEF IdsLast
<1>2. IsFiniteSet(DOMAIN exp) /\ Number(exp) <= Cardinality(Update)
  BY <1>1, FS_Subset DEF Number
<1>3. Number(exp) \in Nat /\ Cardinality(Update) \in Nat
  BY <1>1, <1>2, FS_CardinalityType DEF Number
<1>4. MaxId \in Nat /\ FutureSlack \in Nat /\ MaxId \div 2 \in Nat
  BY QueueAssumption
<1>5. ASSUME NEW u \in Update \ DOMAIN exp, NEW t
      PROVE  Number(With(exp, u, t)) = Number(exp) + 1
  <2>1. DOMAIN With(exp, u, t) = DOMAIN exp \cup {u}
    BY DEF With
  <2> QED
    BY <1>2, <2>1, FS_AddElement DEF Number
<1> QED
  BY <1>2, <1>3, <1>4, <1>5 DEF IdsLast

-----------------------------------------------------------------------------
(***************************************************************************)
(* What may be sent, and what keeps this so.                               *)
(***************************************************************************)
\* All that came before the first update of a list is settled.
LEMMA FirstEarlier ==
  ASSUME NEW q, NEW h, NEW exp, NEW S, NEW B, NEW c \in Chats(h),
         Sound(q, Known(exp)), DOMAIN exp \subseteq Update,
         HookOK(h, B, Known(exp)), World(q, h, exp, S)
  PROVE  Earlier(UpdateAt(h, First(h, c)), exp, S)
<1> DEFINE f == First(h, c)
           u == UpdateAt(h, f)
<1>1. /\ f \in DOMAIN h.loaded /\ h.loaded[f].chat = c /\ 1 \in DOMAIN h.lists[c]
      /\ DOMAIN h.lists[c] \subseteq Nat \ {0} /\ h.lists[c][1] = f
  BY DEF HookOK, ListsOK, ListOK, First
<1>2. /\ DOMAIN h.loaded \subseteq Nat /\ h.offset \in Nat
      /\ \A i \in DOMAIN h.loaded :
           UpdateAt(h, i) \in Nat /\ h.loaded[i].chat = ChatOf[UpdateAt(h, i)]
  BY ActorTyped
<1>3. /\ q.tail \in Nat /\ Live(q) \subseteq Ids(q)
      /\ \A i \in Ids(q) : i \in Nat \ {0} /\ i < q.tail
      /\ \A i \in Live(q) : DataAt(q, i) \in Nat
  BY QueueTyped
<1> HIDE DEF f
<1>4. SUFFICES ASSUME NEW v \in DOMAIN exp, v < u, ChatOf[v] = ChatOf[u], v \notin S
               PROVE  FALSE
  BY DEF Earlier, f
<1>5. PICK j \in Live(q) : DataAt(q, j) = v
  BY <1>4 DEF World, QueueOK
<1>6. u \in Nat /\ v \in Nat /\ j \in Nat /\ f \in Nat
  BY <1>1, <1>2, <1>3, <1>5
<1>7. ~(j > f \/ f > q.tail) /\ j # f
  <2>1. ~(u < v) /\ u # v
    BY <1>4, <1>6
  <2> QED
    BY <1>1, <1>5, <2>1 DEF World, LoadedOK
<1>8. j < f /\ f <= q.tail
  BY <1>3, <1>6, <1>7
<1>9. f < h.offset /\ h.offset <= q.tail
  BY <1>1, <1>8 DEF World, LoadedOK
<1>10. j \in DOMAIN h.loaded
  <2>1. j < h.offset
    BY <1>2, <1>6, <1>8, <1>9
  <2> QED
    BY <1>4, <1>5, <1>9, <2>1 DEF World, LoadedOK
<1>11. UpdateAt(h, j) = v
  BY <1>5, <1>10 DEF World, LoadedOK
<1>12. h.loaded[j].chat = c
  BY <1>1, <1>2, <1>4, <1>10, <1>11
<1>13. PICK k \in DOMAIN h.lists[c] : h.lists[c][k] = j
  BY <1>10, <1>12 DEF HookOK, ListsOK
<1>14. k > 1
  BY <1>1, <1>7, <1>13
<1>15. u < v
  BY <1>1, <1>11, <1>13, <1>14 DEF World, SortedOK
<1> QED
  BY <1>4, <1>6, <1>15

\* Nothing else of an actor matters to its queue.
LEMMA WorldSame ==
  ASSUME NEW q, NEW h, NEW g, NEW exp, NEW S, NEW B, World(q, h, exp, S),
         HookOK(h, B, Known(exp)), DOMAIN g.loaded = DOMAIN h.loaded,
         \A i \in DOMAIN h.loaded : g.loaded[i].update = h.loaded[i].update,
         g.lists = h.lists, g.offset = h.offset
  PROVE  World(q, g, exp, S)
<1>1. Chats(g) = Chats(h) /\ \A i \in DOMAIN h.loaded : UpdateAt(g, i) = UpdateAt(h, i)
  BY DEF Chats, UpdateAt
<1>2. LoadedOK(q, g, exp, S)
  BY <1>1 DEF World, LoadedOK
<1>3. SortedOK(g)
  <2>1. \A c \in Chats(h) : \A k \in DOMAIN h.lists[c] : h.lists[c][k] \in DOMAIN h.loaded
    BY DEF HookOK, ListsOK, ListOK
  <2> QED
    BY <1>1, <2>1 DEF World, SortedOK
<1> QED
  BY <1>2, <1>3 DEF World

\* Only settled updates may leave the queue, and more may be settled.
LEMMA QueueShrinks ==
  ASSUME NEW q, NEW p, NEW h, NEW exp, NEW S, NEW T, World(q, h, exp, S), S \subseteq T,
         p.tail = q.tail, Live(p) \subseteq Live(q),
         \A i \in Live(p) : p.events[i] = q.events[i],
         \A i \in Live(q) \ Live(p) : DataAt(q, i) \in T
  PROVE  World(p, h, exp, T)
<1>1. \A i \in Live(p) : DataAt(p, i) = DataAt(q, i)
  BY DEF DataAt
<1>2. QueueOK(p, exp, T)
  <2>1. \A i, j \in Live(p) : i < j => DataAt(p, i) < DataAt(p, j)
    BY <1>1 DEF World, QueueOK
  <2>2. \A u \in DOMAIN exp : u \in T \/ \E i \in Live(p) : DataAt(p, i) = u
    <3>1. \A u \in DOMAIN exp : u \in S \/ \E i \in Live(q) : DataAt(q, i) = u
      BY DEF World, QueueOK
    <3> QED
      BY <1>1, <3>1
  <2> QED
    BY <2>1, <2>2 DEF World, QueueOK
<1>3. LoadedOK(p, h, exp, T)
  <2>1. \A x : Reached(p, exp, x) <=> Reached(q, exp, x)
    BY DEF Reached, Near, Far
  <2>2. \A i \in DOMAIN h.loaded :
          Reached(p, exp, i) /\ (i <= p.tail => i < h.offset /\ h.offset <= p.tail)
    BY <2>1 DEF World, LoadedOK
  <2>3. \A i \in DOMAIN h.loaded, j \in Live(p) :
          /\ j = i => DataAt(p, j) = UpdateAt(h, i)
          /\ j > i \/ i > p.tail => UpdateAt(h, i) < DataAt(p, j)
    BY <1>1 DEF World, LoadedOK
  <2>4. h.offset # 0 => p.tail # 0 /\ Reached(p, exp, h.offset)
    BY <2>1 DEF World, LoadedOK
  <2>5. h.offset <= p.tail =>
          \A j \in Live(p) : j < h.offset /\ DataAt(p, j) \notin T => j \in DOMAIN h.loaded
    BY <1>1 DEF World, LoadedOK
  <2> QED
    BY <2>2, <2>3, <2>4, <2>5 DEF LoadedOK
<1> QED
  BY <1>2, <1>3 DEF World

\* Forgetting an update that is settled.
LEMMA DropWorld ==
  ASSUME NEW q, NEW h, NEW exp, NEW S, NEW B, NEW k \in B,
         Sound(q, Known(exp)), DOMAIN exp \subseteq Update,
         HookOK(h, B, Known(exp)), World(q, h, exp, S),
         UpdateAt(h, h.conns[k].id) \in S
  PROVE  World(DropEvent(q, h, h.conns[k].id).queue, DropEvent(q, h, h.conns[k].id).hook, exp, S)
<1> DEFINE id == h.conns[k].id
           chat == h.loaded[id].chat
           list == h.lists[chat]
           rest == Tail(list)
           p == DropEvent(q, h, id).queue
           g == DropEvent(q, h, id).hook
<1>1. /\ id \in DOMAIN h.loaded /\ chat \in Chats(h) /\ Shaped(h)
      /\ list \in Seq(DOMAIN h.loaded) /\ 1 \in DOMAIN list
  BY DEF HookOK, HookTyped, ServedOK, ListsOK, ListOK, Serves, ChatAt
<1>2. list # <<>>
  <2>1. DOMAIN <<>> = {}
    OBVIOUS
  <2> QED
    BY <1>1, <2>1
<1>3. /\ DOMAIN rest = {n \in Nat \ {0} : n + 1 \in DOMAIN list}
      /\ \A n \in DOMAIN rest : rest[n] = list[n + 1]
  BY <1>1, <1>2, HeadAndTail
<1>4. /\ g.loaded = [i \in DOMAIN h.loaded \ {id} |-> h.loaded[i]]
      /\ g.offset = h.offset
  BY <1>1 DEF DropEvent, Without, Shaped
<1>5. g.lists = IF rest = <<>> THEN [c \in Chats(h) \ {chat} |-> h.lists[c]]
                ELSE [h.lists EXCEPT ![chat] = rest]
  BY <1>1 DEF DropEvent, Without, Shaped, Chats
<1>6. /\ p.tail = q.tail /\ Live(p) = Live(q) \ {id}
      /\ \A i \in Live(p) : p.events[i] = q.events[i]
  <2>1. {id} \cap Ids(q) \in SUBSET Ids(q) /\ Clearable(Known(exp))
    BY KnownEvents
  <2>2. /\ Pop(q, {id} \cap Ids(q)).queue.tail = q.tail
        /\ Live(Pop(q, {id} \cap Ids(q)).queue) = Live(q) \ ({id} \cap Ids(q))
        /\ \A i \in Live(q) \ ({id} \cap Ids(q)) : Pop(q, {id} \cap Ids(q)).queue.events[i] = q.events[i]
    BY <2>1, PopSteps
  <2>3. p = Pop(q, {id} \cap Ids(q)).queue
    BY DEF DropEvent, Forget
  <2>4. Live(q) \subseteq Ids(q)
    BY QueueTyped
  <2> HIDE DEF p, id
  <2> QED
    BY <2>2, <2>3, <2>4
<1>7. \A i \in Live(q) \ Live(p) : DataAt(q, i) \in S
  <2>1. id \in Live(q) => DataAt(q, id) = UpdateAt(h, id)
    BY <1>1 DEF World, LoadedOK
  <2> HIDE DEF p
  <2> QED
    BY <1>6, <2>1
<1> HIDE DEF g, p, rest, list
<1>8. World(p, h, exp, S)
  BY <1>6, <1>7, QueueShrinks
<1>9. /\ DOMAIN g.loaded = DOMAIN h.loaded \ {id}
      /\ \A i \in DOMAIN g.loaded : UpdateAt(g, i) = UpdateAt(h, i)
  BY <1>4 DEF UpdateAt
<1>10. LoadedOK(p, g, exp, S)
  <2>1. \A j \in Live(p) : j # id
    BY <1>6
  <2> QED
    BY <1>4, <1>8, <1>9, <2>1 DEF World, LoadedOK
<1>11. SortedOK(g)
  <2>1. \A c \in Chats(h) : \A n \in DOMAIN h.lists[c] :
          h.lists[c][n] \in DOMAIN h.loaded /\ h.loaded[h.lists[c][n]].chat = c
    BY DEF HookOK, ListsOK, ListOK
  <2>2. \A n, m \in DOMAIN list : list[n] = list[m] => n = m
    BY <1>1 DEF HookOK, ListsOK, ListOK, list
  <2>3. list[1] = id
    BY DEF HookOK, ServedOK, Serves, First, ChatAt, list
  <2>4. ASSUME NEW c \in Chats(g), NEW m \in DOMAIN g.lists[c], NEW n \in DOMAIN g.lists[c], m < n
        PROVE  UpdateAt(g, g.lists[c][m]) < UpdateAt(g, g.lists[c][n])
    <3>1. CASE c = chat
      <4>1. Chats(g) = IF rest = <<>> THEN Chats(h) \ {chat} ELSE Chats(h)
        BY <1>5 DEF Chats, HookOK, HookTyped
      <4>2. g.lists[c] = rest
        BY <1>1, <1>5, <2>4, <3>1, <4>1 DEF Chats
      <4>3. /\ m + 1 \in DOMAIN list /\ n + 1 \in DOMAIN list /\ m + 1 < n + 1
            /\ rest[m] = list[m + 1] /\ rest[n] = list[n + 1]
            /\ m + 1 # 1 /\ n + 1 # 1
        BY <1>3, <2>4, <4>2
      <4>4. UpdateAt(h, list[m + 1]) < UpdateAt(h, list[n + 1])
        BY <1>1, <4>3 DEF World, SortedOK, list
      <4>5. list[m + 1] # id /\ list[n + 1] # id
        BY <1>1, <2>2, <2>3, <4>3
      <4>6. list[m + 1] \in DOMAIN g.loaded /\ list[n + 1] \in DOMAIN g.loaded
        BY <1>1, <1>9, <2>1, <4>3, <4>5 DEF list
      <4> QED
        BY <1>9, <4>2, <4>3, <4>4, <4>6
    <3>2. CASE c # chat
      <4>1. c \in Chats(h) /\ g.lists[c] = h.lists[c]
        BY <1>5, <2>4, <3>2 DEF Chats, HookOK, HookTyped
      <4>2. UpdateAt(h, h.lists[c][m]) < UpdateAt(h, h.lists[c][n])
        BY <2>4, <4>1 DEF World, SortedOK
      <4>3. h.lists[c][m] \in DOMAIN g.loaded /\ h.lists[c][n] \in DOMAIN g.loaded
        BY <1>9, <2>1, <2>4, <3>2, <4>1
      <4> QED
        BY <1>9, <4>1, <4>2, <4>3
    <3> QED
      BY <3>1, <3>2
  <2> QED
    BY <2>4 DEF SortedOK
<1> QED
  BY <1>8, <1>10, <1>11 DEF World, g, p

\* An update that failed is given up, or waits where it is.
LEMMA ErrorWorld ==
  ASSUME NEW q, NEW h, NEW exp, NEW S, NEW B, NEW k \in B, NEW retry \in Nat, NEW most \in Nat,
         Sound(q, Known(exp)), DOMAIN exp \subseteq Update,
         HookOK(h, B, Known(exp)), World(q, h, exp, S),
         GivesUp(h.loaded[h.conns[k].id], retry, most) => UpdateAt(h, h.conns[k].id) \in S,
         NEW r, r = OnUpdateError(q, h, h.conns[k].id, retry, most)
  PROVE  World(r.queue, r.hook, exp, S)
<1> DEFINE id == h.conns[k].id
           u == h.loaded[id]
           delay == NextDelay(u, retry, most)
           wake == now + Wait(u, retry, most)
<1>1. CASE GivesUp(u, retry, most)
  <2>1. World(DropEvent(q, h, id).queue, DropEvent(q, h, id).hook, exp, S)
    BY <1>1, DropWorld
  <2>2. r = DropEvent(q, h, id)
    BY <1>1 DEF OnUpdateError
  <2> QED
    BY <2>1, <2>2
<1>2. CASE ~GivesUp(u, retry, most)
  <2> DEFINE v == [u EXCEPT !.delay = delay, !.wake = wake, !.fails = @ + 1]
             g == [h EXCEPT !.loaded[id] = v,
                            !.waiting = @ \cup {[wake |-> wake, chat |-> u.chat]}]
  <2>1. r.queue = q /\ r.hook = g
    BY <1>2 DEF OnUpdateError
  <2>2. Shaped(h) /\ id \in DOMAIN h.loaded /\ u \in LoadedUpdate(Known(exp))
        /\ h.loaded \in [DOMAIN h.loaded -> LoadedUpdate(Known(exp))]
    BY DEF HookOK, HookTyped, ServedOK, Serves
  <2>3. v.update = u.update
    <3> HIDE DEF u, delay, wake
    <3> QED
      BY <2>2 DEF LoadedUpdate
  <2>4. /\ g.loaded = [h.loaded EXCEPT ![id] = v] /\ g.lists = h.lists
        /\ g.offset = h.offset
    <3> HIDE DEF v
    <3> QED
      BY <2>2 DEF Shaped
  <2> HIDE DEF g, v
  <2>5. DOMAIN g.loaded = DOMAIN h.loaded /\ \A i \in DOMAIN h.loaded : g.loaded[i].update = h.loaded[i].update
    BY <2>2, <2>3, <2>4
  <2>6. World(q, g, exp, S)
    BY <2>4, <2>5, WorldSame
  <2> QED
    BY <2>1, <2>6
<1> QED
  BY <1>1, <1>2

-----------------------------------------------------------------------------
(***************************************************************************)
(* load_updates() takes up where it stopped.                               *)
(***************************************************************************)
\* A list sorted by f stays so when the ids of S, sorted by f, are added.
LEMMA StaysSorted ==
  ASSUME NEW N \in SUBSET Nat, NEW s \in Seq(N), NEW S \in SUBSET N, IsFiniteSet(S),
         NEW f \in [N -> Nat],
         \A k, l \in DOMAIN s : k < l => f[s[k]] < f[s[l]],
         \A k \in DOMAIN s, i \in S : f[s[k]] < f[i],
         \A i, j \in S : i < j => f[i] < f[j]
  PROVE  LET u == s \o Ascending(S)
         IN  \A k, l \in DOMAIN u : k < l => f[u[k]] < f[u[l]]
<1> DEFINE t == Ascending(S)
           u == s \o t
<1>1. /\ t \in Seq(S) /\ \A k \in DOMAIN t : t[k] \in S
      /\ \A k, l \in DOMAIN t : k < l => t[k] < t[l]
  BY OfChat
<1> HIDE DEF t
<1>2. t \in Seq(N)
  BY <1>1, SeqOf
<1>3. /\ DOMAIN u = 1..Len(s) + Len(t)
      /\ Len(s) \in Nat /\ Len(t) \in Nat /\ DOMAIN s = 1..Len(s) /\ DOMAIN t = 1..Len(t)
      /\ \A k \in DOMAIN s : k \in DOMAIN u /\ u[k] = s[k]
      /\ \A k \in DOMAIN u : k \in DOMAIN s \/ (k - Len(s) \in DOMAIN t /\ u[k] = t[k - Len(s)])
  BY <1>2, Joined
<1> HIDE DEF u
<1>4. ASSUME NEW k \in DOMAIN u, NEW l \in DOMAIN u, k < l
      PROVE  f[u[k]] < f[u[l]]
  <2>1. k \in Int /\ l \in Int
    BY <1>3
  <2>2. CASE l \in DOMAIN s
    <3>1. k \in DOMAIN s
      BY <1>3, <1>4, <2>1, <2>2
    <3> QED
      BY <1>3, <1>4, <2>2, <3>1
  <2>3. CASE l \notin DOMAIN s
    <3>1. l - Len(s) \in DOMAIN t /\ u[l] = t[l - Len(s)] /\ u[l] \in S
      BY <1>1, <1>3, <2>3
    <3>2. CASE k \in DOMAIN s
      BY <1>3, <3>1, <3>2
    <3>3. CASE k \notin DOMAIN s
      <4>1. k - Len(s) \in DOMAIN t /\ u[k] = t[k - Len(s)] /\ u[k] \in S
        BY <1>1, <1>3, <3>3
      <4>2. k - Len(s) < l - Len(s)
        BY <1>3, <1>4, <2>1
      <4> QED
        BY <1>1, <3>1, <4>1, <4>2
    <3> QED
      BY <3>2, <3>3
  <2> QED
    BY <2>2, <2>3
<1> QED
  BY <1>4 DEF u, t

\* Where the actor takes up: after what it has loaded, at the first update
\* that may be missing.
LEMMA TakesUp ==
  ASSUME IdsLast, NEW q, NEW h, NEW exp, NEW S, NEW B,
         Sound(q, Known(exp)), DOMAIN exp \subseteq Update,
         HookOK(h, B, Known(exp)), World(q, h, exp, S),
         NEW start, start = IF h.offset = 0 THEN GetHead(q) ELSE h.offset, start # 0,
         NEW from, from = IF TooFar(q, start) THEN GetHead(q) ELSE start
  PROVE  /\ q.tail # 0 /\ from \in Nat /\ Near(q, exp, from)
         /\ \A i \in DOMAIN h.loaded : i <= q.tail => i < from
         /\ \A j \in Live(q) : j < from /\ DataAt(q, j) \notin S => j \in DOMAIN h.loaded
<1>1. /\ q.tail \in Nat /\ q.tail < MaxId /\ Live(q) \subseteq Ids(q)
      /\ \A i \in Ids(q) : i \in Nat \ {0} /\ i < q.tail
      /\ \A i \in Ids(q) \ Live(q) : i = q.tail - 1
      /\ q.tail # 0 => GetHead(q) \in Ids(q)
      /\ \A i \in Ids(q) : GetHead(q) <= i
  BY QueueTyped
<1>2. h.offset \in Nat /\ DOMAIN h.loaded \subseteq Nat
  BY ActorTyped
<1>3. Number(exp) \in Nat /\ Number(exp) + FutureSlack + 2 < MaxId \div 2
      /\ FutureSlack \in Nat /\ MaxId \div 2 \in Nat /\ MaxQueueEvents \in Nat
  BY NumberType, QueueAssumption
<1>4. /\ \A i \in DOMAIN h.loaded : i <= q.tail => i < h.offset /\ h.offset <= q.tail
      /\ h.offset # 0 => q.tail # 0 /\ Reached(q, exp, h.offset)
      /\ h.offset <= q.tail =>
           \A j \in Live(q) : j < h.offset /\ DataAt(q, j) \notin S => j \in DOMAIN h.loaded
      /\ \A i \in Live(q) : i >= q.tail - Number(exp) - 1
  BY DEF World, LoadedOK, QueueOK
<1>5. q.tail # 0
  <2>1. q.tail = 0 => Ids(q) = {}
    BY <1>1
  <2>2. Ids(q) = {} => GetHead(q) = q.tail
    BY DEF GetHead
  <2> QED
    BY <1>4, <2>1, <2>2
<1>6. GetHead(q) \in Ids(q) /\ GetHead(q) \in Nat \ {0} /\ GetHead(q) < q.tail
  BY <1>1, <1>5
<1>7. CASE from = GetHead(q)
  <2>1. Near(q, exp, from)
    <3>1. GetHead(q) >= q.tail - Number(exp) - 1
      BY <1>1, <1>3, <1>4, <1>6
    <3> QED
      BY <1>1, <1>6, <1>7, <3>1 DEF Near
  <2>2. \A j \in Live(q) : ~(j < from)
    BY <1>1, <1>6, <1>7
  <2>3. ASSUME NEW i \in DOMAIN h.loaded, i <= q.tail
        PROVE  i < from
    <3>1. i < h.offset /\ h.offset <= q.tail /\ h.offset # 0 /\ i \in Nat
      BY <1>2, <1>4, <2>3
    <3>2. start = h.offset
      BY <3>1
    <3>3. CASE TooFar(q, start)
      <4>1. h.offset < GetHead(q) - MaxQueueEvents
        BY <1>1, <1>2, <1>3, <3>1, <3>2, <3>3 DEF TooFar
      <4> QED
        BY <1>2, <1>3, <1>6, <1>7, <3>1, <4>1
    <3>4. CASE ~TooFar(q, start)
      BY <3>1, <3>2, <3>4
    <3> QED
      BY <3>3, <3>4
  <2> QED
    BY <1>5, <1>6, <1>7, <2>1, <2>2, <2>3
<1>8. CASE from # GetHead(q)
  <2>1. from = h.offset /\ h.offset # 0 /\ ~TooFar(q, h.offset)
    BY <1>8
  <2>2. ~Far(q, exp, h.offset)
    BY <1>1, <1>2, <1>3, <2>1 DEF Far, TooFar
  <2>3. Near(q, exp, h.offset)
    BY <1>4, <2>1, <2>2 DEF Reached
  <2>4. h.offset <= q.tail
    BY <2>3 DEF Near
  <2> QED
    BY <1>2, <1>4, <1>5, <2>1, <2>3, <2>4
<1> QED
  BY <1>7, <1>8

\* The list of a chat before loading, and what is loaded for it.
Old(h, c) == IF c \in Chats(h) THEN h.lists[c] ELSE <<>>

Of(q, new, c) == {i \in new : ChatOf[DataAt(q, i)] = c}

\* What the actor knows after loading, id by id.
LEMMA LoadShape ==
  ASSUME NEW h, NEW D, NEW B, HookOK(h, B, D), NEW from, NEW r, NEW new
  PROVE  LET g == Load(h, from, r, new).hook
         IN  /\ DOMAIN g.loaded = DOMAIN h.loaded \cup new
             /\ \A i \in DOMAIN h.loaded \ new : UpdateAt(g, i) = UpdateAt(h, i)
             /\ \A i \in new : UpdateAt(g, i) = DataAt(r.queue, i)
             /\ g.offset = IF new = {} THEN from ELSE Max(new) + 1
             /\ \A c \in Chats(g) : g.lists[c] = Old(h, c) \o Ascending(Of(r.queue, new, c))
<1> DEFINE chat(id) == ChatOf[r.queue.events[id].data]
           listed == {chat(id) : id \in new}
           entry(id) == [update |-> r.queue.events[id].data, chat |-> chat(id),
                         wake |-> now, delay |-> 1, fails |-> 0,
                         expires |-> r.queue.events[id].expires]
           g == Load(h, from, r, new).hook
<1>1. Shaped(h)
  BY DEF HookOK, HookTyped
<1>2. g.loaded = [id \in DOMAIN h.loaded \cup new |->
                    IF id \notin new THEN h.loaded[id] ELSE entry(id)]
  BY <1>1 DEF Load, Shaped
<1>3. g.lists = [c \in Chats(h) \cup listed |-> Old(h, c) \o Ascending(Of(r.queue, new, c))]
  BY <1>1 DEF Load, Shaped, Old, Of, DataAt
<1>4. g.offset = IF new = {} THEN from ELSE Max(new) + 1
  BY <1>1 DEF Load, Shaped
<1>5. \A i : entry(i).update = DataAt(r.queue, i)
  BY DEF DataAt
<1> HIDE DEF g, entry, listed
<1>6. /\ DOMAIN g.loaded = DOMAIN h.loaded \cup new
      /\ \A i \in DOMAIN h.loaded \ new : UpdateAt(g, i) = UpdateAt(h, i)
      /\ \A i \in new : UpdateAt(g, i) = DataAt(r.queue, i)
  BY <1>2, <1>5 DEF UpdateAt
<1>7. \A c \in Chats(g) : g.lists[c] = Old(h, c) \o Ascending(Of(r.queue, new, c))
  BY <1>3 DEF Chats
<1> QED
  BY <1>4, <1>6, <1>7 DEF g

\* Loading keeps the world in order.
LEMMA LoadWorld ==
  ASSUME IdsLast, NEW q, NEW h, NEW exp, NEW S, NEW B,
         Sound(q, Known(exp)), DOMAIN exp \subseteq Update,
         HookOK(h, B, Known(exp)), World(q, h, exp, S), now \in Nat,
         \A u \in DOMAIN exp : exp[u] < now => u \in S,
         NEW r \in LoadUpdates(q, h)
  PROVE  World(r.queue, r.hook, exp, S)
<1> DEFINE start == IF h.offset = 0 THEN GetHead(q) ELSE h.offset
           from == IF TooFar(q, start) THEN GetHead(q) ELSE start
           room == MaxLoaded - Cardinality(Chats(h))
           s == Get(q, from, FALSE, room, now)
           new == s.ids \ DOMAIN h.loaded
<1>1. \/ r = [queue |-> q, hook |-> h]
      \/ r = [queue |-> q, hook |-> [h EXCEPT !.empty = TRUE]]
      \/ start # 0 /\ r = Load(h, from, s, new)
  BY DEF LoadUpdates
<1>2. CASE r = [queue |-> q, hook |-> h]
  BY <1>2
<1>3. CASE r = [queue |-> q, hook |-> [h EXCEPT !.empty = TRUE]]
  <2> DEFINE g == [h EXCEPT !.empty = TRUE]
  <2>1. g.loaded = h.loaded /\ g.lists = h.lists /\ g.offset = h.offset
    BY DEF HookOK, HookTyped, Shaped
  <2>2. r.hook = g /\ r.queue = q
    BY <1>3
  <2> HIDE DEF g
  <2>3. World(q, g, exp, S)
    BY <2>1, WorldSame
  <2> QED
    BY <2>2, <2>3
<1>4. CASE start # 0 /\ r = Load(h, from, s, new)
  <2> DEFINE p == s.queue
             g == Load(h, from, s, new).hook
  <2>1. /\ q.tail # 0 /\ from \in Nat /\ Near(q, exp, from)
        /\ \A i \in DOMAIN h.loaded : i <= q.tail => i < from
        /\ \A j \in Live(q) : j < from /\ DataAt(q, j) \notin S => j \in DOMAIN h.loaded
    <3> HIDE DEF start
    <3> USE DEF start
    <3> QED
      BY <1>4, TakesUp
  <2>2. room \in Nat
    <3>1. IsFiniteSet(Chats(h)) /\ Cardinality(Chats(h)) <= MaxLoaded
      BY DEF HookOK, HookTyped
    <3>2. Cardinality(Chats(h)) \in Nat
      BY <3>1, FS_CardinalityType
    <3>3. MaxLoaded \in Nat
      BY WebhookAssumption DEF MaxLoaded
    <3> QED
      BY <3>1, <3>2, <3>3
  <2> HIDE DEF start, from, room
  <2>3. LET x == Get(q, from, FALSE, room, now)
        IN  /\ Steps(q, x, Known(exp))
            /\ x.queue.tail = q.tail
            /\ x.ids \subseteq Live(x.queue) /\ \A i \in x.ids : i >= from
            /\ IsFiniteSet(x.ids) /\ Cardinality(x.ids) <= room
            /\ Live(x.queue) \subseteq Live(q)
            /\ \A i \in Live(x.queue) : x.queue.events[i] = q.events[i]
            /\ \A i \in Live(q) \ Live(x.queue) : q.events[i].expires < now
            /\ \A i \in Live(x.queue) \ x.ids : i >= from => \A j \in x.ids : j < i
    <3>1. from \in Nat /\ Clearable(Known(exp))
      BY <2>1, KnownEvents
    <3> QED
      BY <2>2, <3>1, GetKept, Zenon
  <2>4. /\ p.tail = q.tail /\ s.ids \subseteq Live(p) /\ \A i \in s.ids : i >= from
        /\ IsFiniteSet(s.ids) /\ Live(p) \subseteq Live(q)
        /\ \A i \in Live(p) : p.events[i] = q.events[i]
        /\ \A i \in Live(q) \ Live(p) : q.events[i].expires < now
        /\ \A i \in Live(p) \ s.ids : i >= from => \A j \in s.ids : j < i
    BY <2>3
  <2>5. r.queue = p /\ r.hook = g
    <3> HIDE DEF s, new
    <3> QED
      BY <1>4 DEF Load
  <2>6. Sound(p, Known(exp))
    BY <2>3 DEF Steps
  <2> HIDE DEF s, p
  <2>7. /\ q.tail \in Nat /\ q.tail < MaxId /\ Live(p) \subseteq Ids(p)
        /\ \A i \in Ids(p) : i \in Nat \ {0} /\ i < q.tail
        /\ \A i \in Live(p) : DataAt(p, i) \in DOMAIN exp /\ DataAt(p, i) \in Nat
    BY <2>4, <2>6, QueueTyped
  <2>8. World(p, h, exp, S)
    <3>1. \A i \in Live(q) \ Live(p) : DataAt(q, i) \in S
      BY <2>4, QueueTyped
    <3> QED
      BY <2>4, <3>1, QueueShrinks
  <2>9. /\ h.offset \in Nat /\ DOMAIN h.loaded \subseteq Nat
        /\ \A i \in DOMAIN h.loaded : UpdateAt(h, i) \in Nat
    BY ActorTyped
  <2>10. /\ DOMAIN g.loaded = DOMAIN h.loaded \cup new
         /\ \A i \in DOMAIN h.loaded : UpdateAt(g, i) = UpdateAt(h, i)
         /\ \A i \in new : UpdateAt(g, i) = DataAt(p, i)
         /\ g.offset = IF new = {} THEN from ELSE Max(new) + 1
    <3>1. DOMAIN h.loaded \ new = DOMAIN h.loaded
      OBVIOUS
    <3> HIDE DEF new
    <3> QED
      BY <3>1, LoadShape DEF p
  <2>11. new \subseteq s.ids /\ new \subseteq Live(p) /\ s.ids \subseteq DOMAIN h.loaded \cup new
         /\ new \in SUBSET Nat /\ IsFiniteSet(new) /\ new \in SUBSET (0..q.tail)
    <3>1. new \in SUBSET s.ids
      OBVIOUS
    <3>2. IsFiniteSet(new)
      BY <2>4, <3>1, FS_Subset
    <3> QED
      BY <2>4, <2>7, <3>1, <3>2
  <2>12. new # {} => Max(new) \in new /\ \A i \in new : i <= Max(new)
    BY <2>7, <2>11, MaxOf
  <2> HIDE DEF new, g
  <2>13. g.offset \in Nat /\ g.offset >= from /\ g.offset <= q.tail
         /\ \A i \in new : i < g.offset
    <3>1. CASE new = {}
      BY <2>1, <2>10, <3>1 DEF Near
    <3>2. CASE new # {}
      <4>1. Max(new) \in Nat /\ Max(new) >= from /\ Max(new) < q.tail
        BY <2>4, <2>7, <2>11, <2>12, <3>2
      <4> QED
        BY <2>1, <2>7, <2>10, <2>11, <2>12, <3>2, <4>1
    <3> QED
      BY <3>1, <3>2
  <2>14. LoadedOK(p, g, exp, S)
    <3>1. ASSUME NEW i \in DOMAIN g.loaded
          PROVE  Reached(p, exp, i) /\ (i <= p.tail => i < g.offset /\ g.offset <= p.tail)
      <4>1. CASE i \in DOMAIN h.loaded
        <5>1. Reached(p, exp, i) /\ i \in Nat
          BY <2>8, <2>9, <4>1 DEF World, LoadedOK
        <5> QED
          BY <2>1, <2>4, <2>13, <4>1, <5>1
      <4>2. CASE i \in new
        <5>1. i >= p.tail - Number(exp) - 1
          BY <2>8, <2>11, <4>2 DEF World, QueueOK
        <5>2. i \in Ids(p) /\ p.tail = q.tail
          BY <2>4, <2>7, <2>11, <4>2
        <5>3. i <= p.tail /\ i \in Nat
          BY <2>7, <5>2
        <5> QED
          BY <2>4, <2>13, <4>2, <5>1, <5>3 DEF Reached, Near
      <4> QED
        BY <2>10, <4>1, <4>2
    <3>2. ASSUME NEW i \in DOMAIN g.loaded, NEW j \in Live(p)
          PROVE  /\ j = i => DataAt(p, j) = UpdateAt(g, i)
                 /\ j > i \/ i > p.tail => UpdateAt(g, i) < DataAt(p, j)
      <4>1. CASE i \in DOMAIN h.loaded
        BY <2>8, <2>10, <4>1 DEF World, LoadedOK
      <4>2. CASE i \in new
        <5>0. i \in Live(p) /\ UpdateAt(g, i) = DataAt(p, i) /\ i \in Ids(p) /\ p.tail = q.tail
          BY <2>4, <2>7, <2>10, <2>11, <4>2
        <5>1. i \in Live(p) /\ UpdateAt(g, i) = DataAt(p, i) /\ ~(i > p.tail)
          BY <2>7, <5>0
        <5>2. j > i => i < j
          BY <2>7, <5>1
        <5> QED
          BY <2>8, <5>1, <5>2 DEF World, QueueOK
      <4> QED
        BY <2>10, <4>1, <4>2
    <3>3. p.tail # 0 /\ Reached(p, exp, g.offset)
      <4>1. g.offset >= q.tail - Number(exp) - 1
        <5>1. Number(exp) \in Nat
          BY NumberType
        <5> QED
          BY <2>1, <2>7, <2>13, <5>1 DEF Near
      <4> QED
        BY <2>1, <2>4, <2>13, <4>1 DEF Reached, Near
    <3>4. ASSUME NEW j \in Live(p), j < g.offset, DataAt(p, j) \notin S
          PROVE  j \in DOMAIN g.loaded
      <4>1. j \in Nat /\ j \in Live(q) /\ DataAt(q, j) = DataAt(p, j)
        BY <2>4, <2>7 DEF DataAt
      <4>2. CASE j < from
        BY <2>1, <2>10, <3>4, <4>1, <4>2
      <4>3. CASE j >= from /\ j \in s.ids
        BY <2>10, <2>11, <4>3
      <4>4. CASE j >= from /\ j \notin s.ids
        <5>1. new # {}
          BY <2>1, <2>10, <3>4, <4>1, <4>4
        <5>2. Max(new) < j
          BY <2>4, <2>11, <2>12, <4>4, <5>1
        <5>3. Max(new) \in Nat
          BY <2>11, <2>12, <5>1
        <5> QED
          BY <2>10, <3>4, <4>1, <5>1, <5>2, <5>3
      <4> QED
        BY <2>1, <4>1, <4>2, <4>3, <4>4
    <3> QED
      BY <3>1, <3>2, <3>3, <3>4 DEF LoadedOK
  <2>15. SortedOK(g)
    <3> DEFINE N == DOMAIN g.loaded
               f == [i \in N |-> UpdateAt(g, i)]
    <3>1. \A c \in Chats(g) : g.lists[c] = Old(h, c) \o Ascending(Of(p, new, c))
      <4> HIDE DEF new
      <4> QED
        BY LoadShape DEF g, p
    <3>2. N \in SUBSET Nat /\ f \in [N -> Nat] /\ \A i \in N : f[i] = UpdateAt(g, i)
      <4>1. N \in SUBSET Nat
        BY <2>9, <2>10, <2>11
      <4>2. \A i \in N : UpdateAt(g, i) \in Nat
        BY <2>7, <2>9, <2>10, <2>11
      <4> HIDE DEF N
      <4> QED
        BY <4>1, <4>2
    <3>3. ASSUME NEW c \in Chats(g), NEW k \in DOMAIN g.lists[c], NEW l \in DOMAIN g.lists[c], k < l
          PROVE  UpdateAt(g, g.lists[c][k]) < UpdateAt(g, g.lists[c][l])
      <4> DEFINE a == Old(h, c)
                 Z == Of(p, new, c)
      <4>1. a \in Seq(N) /\ \A n \in DOMAIN a : a[n] \in DOMAIN h.loaded
        <5>1. CASE c \in Chats(h)
          <6>1. h.lists[c] \in Seq(DOMAIN h.loaded) /\ \A n \in DOMAIN h.lists[c] : h.lists[c][n] \in DOMAIN h.loaded
            BY <5>1 DEF HookOK, HookTyped, ListsOK, ListOK
          <6>2. \A n \in DOMAIN h.lists[c] : h.lists[c][n] \in N
            BY <2>10, <6>1
          <6> HIDE DEF N
          <6>3. h.lists[c] \in Seq(N)
            BY <6>1, <6>2, SeqOf
          <6> QED
            BY <5>1, <6>1, <6>3 DEF Old
        <5>2. CASE c \notin Chats(h)
          <6>1. DOMAIN <<>> = {}
            OBVIOUS
          <6> HIDE DEF N
          <6>2. <<>> \in Seq(N)
            OBVIOUS
          <6> QED
            BY <5>2, <6>1, <6>2 DEF Old
        <5> QED
          BY <5>1, <5>2
      <4>2. Z \in SUBSET new
        BY DEF Of
      <4>3. Z \in SUBSET N /\ IsFiniteSet(Z)
        BY <2>10, <2>11, <4>2, FS_Subset
      <4>4. \A n, m \in DOMAIN a : n < m => UpdateAt(h, a[n]) < UpdateAt(h, a[m])
        <5>1. CASE c \in Chats(h)
          BY <2>8, <5>1 DEF World, SortedOK, Old
        <5>2. CASE c \notin Chats(h)
          <6>1. DOMAIN <<>> = {}
            OBVIOUS
          <6> QED
            BY <5>2, <6>1 DEF Old
        <5> QED
          BY <5>1, <5>2
      <4>5. g.lists[c] = a \o Ascending(Z)
        BY <3>1
      <4> HIDE DEF a, Z, f, N
      <4>6. \A n, m \in DOMAIN a : n < m => f[a[n]] < f[a[m]]
        <5>1. \A n \in DOMAIN a : f[a[n]] = UpdateAt(h, a[n])
          BY <2>10, <3>2, <4>1 DEF N
        <5> QED
          BY <4>4, <5>1
      <4>7. ASSUME NEW n \in DOMAIN a, NEW i \in Z
            PROVE  f[a[n]] < f[i]
        <5>1. a[n] \in DOMAIN h.loaded /\ i \in new /\ i \in Live(p) /\ a[n] \in N /\ i \in N
          BY <2>10, <2>11, <4>1, <4>2 DEF N
        <5>2. f[a[n]] = UpdateAt(h, a[n]) /\ f[i] = DataAt(p, i)
          BY <2>10, <3>2, <5>1
        <5>3. i > a[n] \/ a[n] > p.tail
          BY <2>1, <2>4, <2>7, <2>9, <2>11, <5>1
        <5> QED
          BY <2>8, <5>1, <5>2, <5>3 DEF World, LoadedOK
      <4>8. ASSUME NEW i \in Z, NEW j \in Z, i < j
            PROVE  f[i] < f[j]
        <5>1. i \in new /\ j \in new /\ i \in Live(p) /\ j \in Live(p) /\ i \in N /\ j \in N
          BY <2>10, <2>11, <4>2 DEF N
        <5>2. f[i] = DataAt(p, i) /\ f[j] = DataAt(p, j)
          BY <2>10, <3>2, <5>1
        <5> QED
          BY <2>8, <4>8, <5>1, <5>2 DEF World, QueueOK
      <4> DEFINE w == a \o Ascending(Z)
      <4>9. \A n, m \in DOMAIN w : n < m => f[w[n]] < f[w[m]]
        BY <3>2, <4>1, <4>3, <4>6, <4>7, <4>8, StaysSorted
      <4>10. \A n \in DOMAIN w : w[n] \in N
        <5>1. Ascending(Z) \in Seq(Z) /\ \A n \in DOMAIN Ascending(Z) : Ascending(Z)[n] \in Z
          <6>1. Z \in SUBSET Nat
            BY <3>2, <4>3
          <6> QED
            BY <4>3, <6>1, OfChat
        <5>2. \A n \in DOMAIN Ascending(Z) : Ascending(Z)[n] \in N
          BY <4>3, <5>1
        <5>3. Ascending(Z) \in Seq(N)
          BY <5>1, <5>2, SeqOf
        <5>4. /\ \A n \in DOMAIN w : n \in DOMAIN a \/ (n - Len(a) \in DOMAIN Ascending(Z) /\ w[n] = Ascending(Z)[n - Len(a)])
              /\ \A n \in DOMAIN a : w[n] = a[n]
          BY <4>1, <5>3, Joined
        <5>5. \A n \in DOMAIN a : a[n] \in N
          BY <2>10, <4>1 DEF N
        <5> HIDE DEF w
        <5> QED
          BY <5>2, <5>4, <5>5
      <4> HIDE DEF w
      <4>11. g.lists[c] = w
        BY <4>5 DEF w
      <4> QED
        BY <3>2, <3>3, <4>9, <4>10, <4>11
    <3> HIDE DEF g
    <3> QED
      BY <3>3 DEF SortedOK
  <2> QED
    BY <2>5, <2>8, <2>14, <2>15 DEF World
<1> HIDE DEF s, new, from, start
<1> QED
  BY <1>1, <1>2, <1>3, <1>4

-----------------------------------------------------------------------------
(***************************************************************************)
(* An update arrives behind all others, also when ids begin again.         *)
(***************************************************************************)
LEMMA PushWorld ==
  ASSUME IdsLast, NEW q, NEW h, NEW exp, NEW S, NEW T, NEW B,
         Sound(q, Known(exp)), DOMAIN exp \subseteq Update,
         HookOK(h, B, Known(exp)), World(q, h, exp, S), S \subseteq T,
         NEW u \in Update \ DOMAIN exp, \A v \in DOMAIN exp : v < u,
         NEW t \in Nat \ {0}, NEW first \in FirstIds,
         Wraps(q) => \A j \in Live(q) : DataAt(q, j) \in T
  PROVE  World(Push(q, [data |-> u, expires |-> t], first).queue, h, With(exp, u, t), T)
<1> DEFINE e == [data |-> u, expires |-> t]
           p == Push(q, e, first).queue
           new == With(exp, u, t)
           n == Number(exp)
           i == p.tail - 1
           H == MaxId \div 2
<1>1. /\ q.tail \in Nat /\ q.tail < MaxId /\ Live(q) \subseteq Ids(q)
      /\ \A j \in Ids(q) : j \in Nat \ {0} /\ j < q.tail
      /\ \A j \in Live(q) : DataAt(q, j) \in DOMAIN exp /\ DataAt(q, j) \in Nat
  BY QueueTyped
<1>2. /\ h.offset \in Nat /\ DOMAIN h.loaded \subseteq Nat
      /\ \A k \in DOMAIN h.loaded : UpdateAt(h, k) \in DOMAIN exp /\ UpdateAt(h, k) \in Nat
  BY ActorTyped
<1>3. /\ DOMAIN new = DOMAIN exp \cup {u} /\ DOMAIN new \subseteq Update
      /\ n \in Nat /\ Number(new) = n + 1 /\ n + 1 + FutureSlack + 2 < H
  <2>1. DOMAIN new = DOMAIN exp \cup {u} /\ DOMAIN new \subseteq Update
    BY DEF With
  <2>2. n \in Nat /\ Number(new) = n + 1
    BY NumberType
  <2> HIDE DEF new
  <2>3. Number(new) + FutureSlack + 2 < H
    BY <2>1, NumberType
  <2> QED
    BY <2>1, <2>2, <2>3
<1>4. MaxId \in Nat /\ H \in Nat /\ 2 * H <= MaxId /\ FutureSlack \in Nat /\ first \in 1..H /\ u \in Nat
  BY QueueAssumption, WebhookAssumption
<1>5. e \in Known(new) /\ e.data = u /\ e.data # Nothing
  <2>1. u # Nothing /\ e \in Event
    BY QueueAssumption DEF Event
  <2>2. new[u] = t
    BY DEF With
  <2> QED
    BY <1>3, <2>1, <2>2 DEF Known
<1>6. Sound(q, Known(new)) /\ Clearable(Known(new))
  <2>1. Known(exp) \subseteq Known(new) /\ Clearable(Known(new))
    BY KnownEvents
  <2> HIDE DEF new
  <2> QED
    BY <2>1, More
<1> HIDE DEF e, new
<1>7. LET r == Push(q, e, first)
          m == r.queue.tail - 1
      IN /\ Steps(q, r, Known(new))
         /\ m = (IF Wraps(q) \/ q.tail = 0 THEN first ELSE q.tail)
         /\ m \in 1..MaxId - 2
         /\ Live(r.queue) = (IF Wraps(q) THEN {} ELSE Live(q)) \cup {m}
         /\ r.queue.events[m] = e
         /\ ~Wraps(q) => \A j \in Live(q) : r.queue.events[j] = q.events[j]
  BY <1>5, <1>6, PushSteps
<1>8. /\ i = (IF Wraps(q) \/ q.tail = 0 THEN first ELSE q.tail)
      /\ i \in 1..MaxId - 2
      /\ Live(p) = (IF Wraps(q) THEN {} ELSE Live(q)) \cup {i}
      /\ DataAt(p, i) = u
      /\ ~Wraps(q) => \A j \in Live(q) : DataAt(p, j) = DataAt(q, j)
      /\ Sound(p, Known(new))
  BY <1>5, <1>7 DEF DataAt, Steps
<1> HIDE DEF p
<1>9. p.tail \in Nat /\ p.tail = i + 1 /\ i \in Nat
  <2>1. p.tail \in Nat
    BY <1>3, <1>8, QueueTyped
  <2> QED
    BY <2>1, <1>8
<1> HIDE DEF i, n, H
<1>10. /\ \A k \in DOMAIN h.loaded : Reached(q, exp, k) /\ (k <= q.tail => k < h.offset /\ h.offset <= q.tail)
       /\ h.offset # 0 => q.tail # 0 /\ Reached(q, exp, h.offset)
       /\ h.offset <= q.tail =>
            \A j \in Live(q) : j < h.offset /\ DataAt(q, j) \notin S => j \in DOMAIN h.loaded
  BY DEF World, LoadedOK
<1>11. SortedOK(h)
  BY DEF World
<1>12. \A v \in DOMAIN exp : v \in S \/ \E j \in Live(q) : DataAt(q, j) = v
  BY DEF World, QueueOK
<1>13. ASSUME ~Wraps(q) /\ q.tail # 0
       PROVE  World(p, h, new, T)
  <2>1. /\ i = q.tail /\ p.tail = q.tail + 1 /\ Live(p) = Live(q) \cup {q.tail}
        /\ \A j \in Live(q) : DataAt(p, j) = DataAt(q, j)
        /\ DataAt(p, i) = u
    BY <1>8, <1>9, <1>13
  <2>2. QueueOK(p, new, T)
    <3>1. ASSUME NEW j \in Live(p), NEW k \in Live(p), j < k
          PROVE  DataAt(p, j) < DataAt(p, k)
      <4>1. j # q.tail
        BY <1>1, <2>1, <3>1
      <4>2. CASE k = q.tail
        BY <1>1, <2>1, <4>1, <4>2
      <4>3. CASE k # q.tail
        BY <2>1, <3>1, <4>1, <4>3 DEF World, QueueOK
      <4> QED
        BY <4>2, <4>3
    <3>2. ASSUME NEW v \in DOMAIN new, v \notin T
          PROVE  \E j \in Live(p) : DataAt(p, j) = v
      <4>1. CASE v = u
        BY <2>1, <4>1
      <4>2. CASE v \in DOMAIN exp
        <5>1. PICK j \in Live(q) : DataAt(q, j) = v
          BY <1>12, <3>2, <4>2
        <5> QED
          BY <2>1, <5>1
      <4> QED
        BY <1>3, <4>1, <4>2
    <3>3. \A j \in Live(p) : j >= p.tail - Number(new) - 1
      <4>1. \A j \in Live(q) : j >= q.tail - n - 1
        BY DEF World, QueueOK, n
      <4> QED
        BY <1>1, <1>3, <2>1, <4>1
    <3> QED
      BY <1>9, <2>1, <3>1, <3>2, <3>3 DEF QueueOK
  <2>3. \A k \in Nat : Reached(q, exp, k) =>
          Reached(p, new, k) /\ (k <= p.tail => k <= q.tail)
    BY <1>1, <1>3, <1>4, <1>9, <2>1 DEF Reached, Near, Far, n, H
  <2>4. LoadedOK(p, h, new, T)
    <3>1. ASSUME NEW k \in DOMAIN h.loaded
          PROVE  Reached(p, new, k) /\ (k <= p.tail => k < h.offset /\ h.offset <= p.tail)
      BY <1>1, <1>2, <1>10, <2>1, <2>3
    <3>2. ASSUME NEW k \in DOMAIN h.loaded, NEW j \in Live(p)
          PROVE  /\ j = k => DataAt(p, j) = UpdateAt(h, k)
                 /\ j > k \/ k > p.tail => UpdateAt(h, k) < DataAt(p, j)
      <4>1. CASE j = q.tail
        <5>1. j # k
          BY <1>1, <1>2, <1>10, <4>1
        <5>2. UpdateAt(h, k) < u
          BY <1>2
        <5>3. DataAt(p, j) = u
          BY <2>1, <4>1
        <5> QED
          BY <5>1, <5>2, <5>3
      <4>2. CASE j # q.tail
        <5>1. j \in Live(q) /\ DataAt(p, j) = DataAt(q, j)
          BY <2>1, <4>2
        <5>2. k > p.tail => k > q.tail
          BY <1>1, <1>2, <2>1
        <5> QED
          BY <5>1, <5>2 DEF World, LoadedOK
      <4> QED
        BY <4>1, <4>2
    <3>3. h.offset # 0 => p.tail # 0 /\ Reached(p, new, h.offset)
      BY <1>1, <1>2, <1>10, <2>1, <2>3
    <3>4. ASSUME h.offset <= p.tail, NEW j \in Live(p), j < h.offset, DataAt(p, j) \notin T
          PROVE  j \in DOMAIN h.loaded
      <4>1. h.offset <= q.tail
        BY <1>1, <1>2, <1>10, <2>3, <3>4
      <4>2. j # q.tail
        BY <1>1, <1>2, <3>4, <4>1
      <4>3. j \in Live(q) /\ DataAt(q, j) \notin S
        BY <2>1, <3>4, <4>2
      <4> QED
        BY <1>10, <3>4, <4>1, <4>3
    <3> QED
      BY <3>1, <3>2, <3>3, <3>4 DEF LoadedOK
  <2> QED
    BY <1>11, <2>2, <2>4 DEF World
<1>14. ASSUME Wraps(q) \/ q.tail = 0
       PROVE  World(p, h, new, T)
  <2>1. Live(p) = {i} /\ p.tail = first + 1 /\ i = first
    <3>1. q.tail = 0 => Live(q) = {}
      BY <1>1
    <3> QED
      BY <1>4, <1>8, <1>9, <1>14, <3>1
  <2>2. \A v \in DOMAIN exp : v \in T
    <3>1. q.tail = 0 => DOMAIN exp = {}
      BY DEF World, QueueOK
    <3> QED
      BY <1>12, <1>14, <3>1
  <2>3. QueueOK(p, new, T)
    <3>1. i >= p.tail - Number(new) - 1
      BY <1>3, <1>9
    <3>2. \A v \in DOMAIN new : v \in T \/ \E j \in Live(p) : DataAt(p, j) = v
      BY <1>3, <1>8, <2>1, <2>2
    <3>3. ~(i < i) /\ p.tail # 0
      BY <1>9
    <3> QED
      BY <2>1, <3>1, <3>2, <3>3 DEF QueueOK
  <2>4. ASSUME NEW k \in Nat, Reached(q, exp, k), q.tail # 0
        PROVE  Reached(p, new, k) /\ k > p.tail
    <3>1. q.tail = MaxId - 1
      BY <1>1, <1>4, <1>14, <2>4 DEF Wraps
    <3>2. ~Far(q, exp, k)
      BY <1>3, <1>4, <3>1 DEF Far, n, H
    <3>3. k <= MaxId - 1 /\ k >= MaxId - n - 2
      BY <1>3, <1>4, <2>4, <3>1, <3>2 DEF Reached, Near, n
    <3>4. k - p.tail >= H - Number(new) - 2 /\ k < MaxId
      BY <1>3, <1>4, <2>1, <3>3
    <3> QED
      BY <1>3, <1>4, <1>9, <3>4 DEF Reached, Far, H
  <2>5. q.tail = 0 => DOMAIN h.loaded = {} /\ h.offset = 0
    <3>1. q.tail = 0 => DOMAIN exp = {}
      BY DEF World, QueueOK
    <3> QED
      BY <1>2, <1>10, <3>1
  <2>6. LoadedOK(p, h, new, T)
    <3>1. ASSUME NEW k \in DOMAIN h.loaded
          PROVE  Reached(p, new, k) /\ k > p.tail
      BY <1>2, <1>10, <2>4, <2>5
    <3>2. h.offset # 0 => p.tail # 0 /\ Reached(p, new, h.offset) /\ h.offset > p.tail
      BY <1>2, <1>9, <1>10, <2>4, <2>5
    <3>3. \A k \in DOMAIN h.loaded : UpdateAt(h, k) < u /\ k # i /\ ~(k <= p.tail)
      BY <1>2, <1>9, <3>1
    <3>4. h.offset <= p.tail => \A j \in Live(p) : ~(j < h.offset)
      BY <1>2, <1>9, <2>1, <3>2
    <3> QED
      BY <1>8, <2>1, <3>1, <3>2, <3>3, <3>4 DEF LoadedOK
  <2> QED
    BY <1>11, <2>3, <2>6 DEF World
<1> QED
  BY <1>13, <1>14 DEF p, new, e

-----------------------------------------------------------------------------
(***************************************************************************)
(* What the bot is known to have: it has had the updates in R, and those   *)
(* of the connections it has received are among them.                      *)
(***************************************************************************)
Got(h, R) == \A k \in In(h, "received") : UpdateAt(h, h.conns[k].id) \in R

Told(q, h, exp, S, R) == World(q, h, exp, S) /\ Got(h, R)

\* The actor g has loaded what h has, and nothing more has been received.
Same(h, g) ==
  /\ g.loaded = h.loaded /\ g.lists = h.lists /\ g.offset = h.offset
  /\ \A k \in In(g, "received") : k \in In(h, "received") /\ g.conns[k].id = h.conns[k].id

LEMMA SameTold ==
  ASSUME NEW q, NEW h, NEW g, NEW exp, NEW S, NEW R, NEW B,
         HookOK(h, B, Known(exp)), Same(h, g), Told(q, h, exp, S, R)
  PROVE  Told(q, g, exp, S, R)
<1>1. World(q, g, exp, S)
  <2>1. World(q, h, exp, S) /\ g.loaded = h.loaded /\ g.lists = h.lists /\ g.offset = h.offset
    BY DEF Told, Same
  <2> QED
    BY <2>1, WorldSame
<1>2. Got(g, R)
  BY DEF Told, Same, Got, UpdateAt
<1> QED
  BY <1>1, <1>2 DEF Told

\* Making connections and sending.
LEMMA CreateSame ==
  ASSUME NEW h, NEW D, NEW B, HookOK(h, B, D), NEW g \in CreateConnections(h)
  PROVE  Same(h, g)
<1> DEFINE closed == In(h, "closed")
           have == MaxConn - Cardinality(closed)
           need == Max({1, Min({Cardinality(Chats(h)), MaxConn})})
           made(n) == {c \in closed : Cardinality({d \in closed : d < c}) < Min({n, need - have})}
<1>1. PICK n \in Luck : g = [h EXCEPT
         !.conns = [c \in 1..MaxConn |-> IF c \in made(n) THEN Idle ELSE @[c]],
         !.timer = IF Chats(h) # {} /\ have = 0 /\ n = 0 THEN now + 1 ELSE 0]
  BY DEF CreateConnections
<1> DEFINE M == made(n)
<1> HIDE DEF M, have, need
<1>2. /\ g.loaded = h.loaded /\ g.lists = h.lists /\ g.offset = h.offset
      /\ g.conns = [c \in 1..MaxConn |-> IF c \in M THEN Idle ELSE h.conns[c]]
  BY <1>1 DEF HookOK, HookTyped, Shaped, M
<1>3. \A c \in 1..MaxConn : g.conns[c].state = "received" => g.conns[c] = h.conns[c]
  BY <1>2 DEF Idle
<1> QED
  BY <1>2, <1>3 DEF Same, In

LEMMA SendSame ==
  ASSUME NEW h, NEW D, NEW B, HookOK(h, B, D)
  PROVE  Same(h, SendUpdates(h))
<1> DEFINE idle == Ascending(In(h, "idle"))
           due == {w \in h.waiting : w.wake <= now}
           rank(w) == Cardinality({v \in due : Sooner(v, w)}) + 1
           sending == {w \in due : rank(w) <= Len(idle)}
           user(c) == {w \in sending : idle[rank(w)] = c}
           conns == [c \in 1..MaxConn |->
             IF user(c) = {} THEN h.conns[c]
             ELSE Sent(Head(h.lists[(CHOOSE w \in user(c) : TRUE).chat]))]
           g == SendUpdates(h)
<1>1. Shaped(h)
  BY DEF HookOK, HookTyped
<1>2. /\ g.loaded = h.loaded /\ g.lists = h.lists /\ g.offset = h.offset
      /\ g.conns = conns
  BY <1>1 DEF SendUpdates, Shaped
<1>3. \A c \in 1..MaxConn : conns[c].state = "received" => conns[c] = h.conns[c]
  <2> HIDE DEF sending, idle
  <2> QED
    BY DEF Sent
<1> HIDE DEF conns, g
<1> QED
  BY <1>2, <1>3 DEF Same, In, g

\* Loading.
LEMMA LoadGot ==
  ASSUME NEW q, NEW h, NEW D, NEW R, HookOK(h, Busy(h), D), Sound(q, D), Clearable(D),
         now \in Nat, Got(h, R), NEW r \in LoadUpdates(q, h)
  PROVE  Got(r.hook, R)
<1> DEFINE start == IF h.offset = 0 THEN GetHead(q) ELSE h.offset
           from == IF TooFar(q, start) THEN GetHead(q) ELSE start
           room == MaxLoaded - Cardinality(Chats(h))
           s == Get(q, from, FALSE, room, now)
           new == s.ids \ DOMAIN h.loaded
<1>1. r.hook.conns = h.conns
  BY LoadUpdatesKeeps
<1>2. \A i \in DOMAIN h.loaded : UpdateAt(r.hook, i) = UpdateAt(h, i)
  <2>1. r.hook = h \/ r.hook = [h EXCEPT !.empty = TRUE] \/ r.hook = Load(h, from, s, new).hook
    <3>1. r \in {[queue |-> q, hook |-> h], [queue |-> q, hook |-> [h EXCEPT !.empty = TRUE]],
                 Load(h, from, s, new)}
      BY DEF LoadUpdates
    <3> DEFINE x == [h EXCEPT !.empty = TRUE]
               y == Load(h, from, s, new)
    <3> HIDE DEF s, new, from, x, y
    <3>2. r = [queue |-> q, hook |-> h] \/ r = [queue |-> q, hook |-> x] \/ r = y
      BY <3>1 DEF x, y
    <3>3. r.hook = h \/ r.hook = x \/ r.hook = y.hook
      BY <3>2
    <3> QED
      BY <3>3 DEF x, y
  <2>2. DOMAIN h.loaded \ new = DOMAIN h.loaded
    OBVIOUS
  <2> HIDE DEF new, s, from
  <2>3. \A i \in DOMAIN h.loaded : UpdateAt(Load(h, from, s, new).hook, i) = UpdateAt(h, i)
    BY <2>2, LoadShape
  <2>4. \A i \in DOMAIN h.loaded : UpdateAt([h EXCEPT !.empty = TRUE], i) = UpdateAt(h, i)
    BY DEF HookOK, HookTyped, Shaped, UpdateAt
  <2> QED
    BY <2>1, <2>3, <2>4
<1>3. \A k \in In(h, "received") : h.conns[k].id \in DOMAIN h.loaded
  BY DEF HookOK, ServedOK, Serves, Busy
<1> QED
  BY <1>1, <1>2, <1>3 DEF Got, In

\* A loop of the actor.
LEMMA LoopTold ==
  ASSUME IdsLast, NEW q, NEW h, NEW exp, NEW S, NEW R,
         Sound(q, Known(exp)), DOMAIN exp \subseteq Update,
         HookOK(h, Busy(h), Known(exp)), Told(q, h, exp, S, R), now \in Nat,
         \A u \in DOMAIN exp : exp[u] < now => u \in S,
         NEW r \in Loop(q, h)
  PROVE  Told(r.queue, r.hook, exp, S, R)
<1>1. PICK l \in LoadUpdates(q, h) : \E c \in CreateConnections(l.hook) :
         r = [queue |-> l.queue,
              hook |-> [SendUpdates(c) EXCEPT !.timer = IF @ = 0 THEN h.timer ELSE @]]
  BY DEF Loop
<1>2. PICK c \in CreateConnections(l.hook) :
         r = [queue |-> l.queue,
              hook |-> [SendUpdates(c) EXCEPT !.timer = IF @ = 0 THEN h.timer ELSE @]]
  BY <1>1
<1>3. Clearable(Known(exp))
  BY KnownEvents
<1>4. HookOK(l.hook, Busy(h), Known(exp)) /\ Sound(l.queue, Known(exp)) /\ l.hook.conns = h.conns
  BY <1>3, LoadUpdatesKeeps
<1>5. Busy(l.hook) = Busy(h)
  BY <1>4 DEF Busy, In
<1>6. HookOK(l.hook, Busy(l.hook), Known(exp))
  BY <1>4, <1>5
<1>7. HookOK(c, Busy(c), Known(exp))
  BY <1>6, CreateKeeps
<1> DEFINE s == SendUpdates(c)
<1>8. HookOK(s, Busy(s), Known(exp))
  BY <1>7, SendKeeps
<1>9. Told(l.queue, l.hook, exp, S, R)
  <2>1. World(l.queue, l.hook, exp, S)
    BY LoadWorld DEF Told
  <2>2. Got(l.hook, R)
    BY <1>3, LoadGot DEF Told
  <2> QED
    BY <2>1, <2>2 DEF Told
<1>10. Told(l.queue, c, exp, S, R)
  BY <1>6, <1>9, CreateSame, SameTold
<1>11. Told(l.queue, s, exp, S, R)
  BY <1>7, <1>10, SendSame, SameTold
<1> HIDE DEF s
<1> DEFINE g == [s EXCEPT !.timer = IF @ = 0 THEN h.timer ELSE @]
<1>12. r.hook = g /\ r.queue = l.queue
  BY <1>2 DEF s
<1>13. Same(s, g)
  BY <1>8 DEF HookOK, HookTyped, Shaped, Same, In
<1> HIDE DEF g
<1>14. Told(l.queue, g, exp, S, R)
  BY <1>8, <1>11, <1>13, SameTold
<1> QED
  BY <1>12, <1>14

\* More may be settled, and the bot may have had more.
LEMMA MoreTold ==
  ASSUME NEW q, NEW h, NEW exp, NEW S, NEW T, NEW R, NEW Q,
         Told(q, h, exp, S, R), S \subseteq T, R \subseteq Q
  PROVE  Told(q, h, exp, T, Q)
<1>1. World(q, h, exp, T)
  BY QueueShrinks DEF Told
<1>2. Got(h, Q)
  BY DEF Told, Got
<1> QED
  BY <1>1, <1>2 DEF Told

\* A connection that is free again.
LEMMA FreedTold ==
  ASSUME NEW q, NEW h, NEW g, NEW exp, NEW S, NEW R, NEW k \in Busy(h),
         HookOK(h, Busy(h), Known(exp)), Got(h, R),
         HookOK(g, Busy(h) \ {k}, Known(exp)), g.conns = h.conns, World(q, g, exp, S),
         \A i \in DOMAIN h.loaded \ {h.conns[k].id} : UpdateAt(g, i) = UpdateAt(h, i),
         NEW conn \in {Idle, Closed}
  PROVE  Told(q, [g EXCEPT !.conns[k] = conn], exp, S, R)
<1> DEFINE f == [g EXCEPT !.conns[k] = conn]
<1>1. /\ f.loaded = g.loaded /\ f.lists = g.lists /\ f.offset = g.offset
      /\ f.conns = [h.conns EXCEPT ![k] = conn]
      /\ h.conns \in [1..MaxConn -> Conn] /\ k \in 1..MaxConn
  BY DEF HookOK, HookTyped, Shaped, Busy, In
<1> HIDE DEF f
<1>2. World(q, f, exp, S)
  BY <1>1, WorldSame
<1>3. ASSUME NEW l \in In(f, "received")
      PROVE  UpdateAt(f, f.conns[l].id) \in R
  <2>0. l \in 1..MaxConn /\ f.conns[l].state = "received" /\ conn.state # "received"
    BY DEF In, Idle, Closed
  <2>1. l # k /\ l \in In(h, "received") /\ f.conns[l] = h.conns[l]
    BY <1>1, <2>0 DEF In
  <2>2. l \in Busy(h)
    BY <2>1 DEF Busy
  <2>3. h.conns[l].id \in DOMAIN h.loaded /\ h.conns[l].id # h.conns[k].id
    BY <2>1, <2>2 DEF HookOK, ServedOK, Serves
  <2>4. UpdateAt(f, h.conns[l].id) = UpdateAt(h, h.conns[l].id)
    <3>1. UpdateAt(g, h.conns[l].id) = UpdateAt(h, h.conns[l].id)
      BY <2>3
    <3> QED
      BY <1>1, <3>1 DEF UpdateAt
  <2> QED
    BY <2>1, <2>4 DEF Got
<1> QED
  BY <1>2, <1>3 DEF Told, Got, f

\* An answer that the bot has had the update.
LEMMA DropTold ==
  ASSUME NEW q, NEW h, NEW exp, NEW S, NEW R, NEW k \in Busy(h),
         Sound(q, Known(exp)), DOMAIN exp \subseteq Update,
         HookOK(h, Busy(h), Known(exp)), Told(q, h, exp, S, R),
         UpdateAt(h, h.conns[k].id) \in S, NEW conn \in {Idle, Closed},
         NEW r, r = DropEvent(q, h, h.conns[k].id)
  PROVE  Told(r.queue, [r.hook EXCEPT !.conns[k] = conn], exp, S, R)
<1> DEFINE id == h.conns[k].id
<1>1. World(r.queue, r.hook, exp, S)
  BY DropWorld DEF Told
<1>2. HookOK(r.hook, Busy(h) \ {k}, Known(exp))
  BY DropKeeps
<1>3. r.hook.conns = h.conns /\ r.hook.loaded = [i \in DOMAIN h.loaded \ {id} |-> h.loaded[i]]
  BY DEF DropEvent, Without, HookOK, HookTyped, Shaped
<1>4. \A i \in DOMAIN h.loaded \ {id} : UpdateAt(r.hook, i) = UpdateAt(h, i)
  BY <1>3 DEF UpdateAt
<1> QED
  BY <1>1, <1>2, <1>3, <1>4, FreedTold DEF Told

\* Any other answer, or none.
LEMMA ErrorTold ==
  ASSUME NEW q, NEW h, NEW exp, NEW S, NEW R, NEW k \in Busy(h),
         NEW retry \in Nat, NEW most \in Nat, now \in Nat,
         Sound(q, Known(exp)), DOMAIN exp \subseteq Update,
         HookOK(h, Busy(h), Known(exp)), Told(q, h, exp, S, R),
         GivesUp(h.loaded[h.conns[k].id], retry, most) => UpdateAt(h, h.conns[k].id) \in S,
         NEW conn \in {Idle, Closed},
         NEW r, r = OnUpdateError(q, h, h.conns[k].id, retry, most)
  PROVE  Told(r.queue, [r.hook EXCEPT !.conns[k] = conn], exp, S, R)
<1> DEFINE id == h.conns[k].id
<1>1. CASE GivesUp(h.loaded[id], retry, most)
  <2>1. r = DropEvent(q, h, id)
    BY <1>1 DEF OnUpdateError
  <2> QED
    BY <1>1, <2>1, DropTold
<1>2. CASE ~GivesUp(h.loaded[id], retry, most)
  <2>1. World(r.queue, r.hook, exp, S)
    BY <1>2, ErrorWorld DEF Told
  <2>2. HookOK(r.hook, Busy(h) \ {k}, Known(exp)) /\ r.hook.conns = h.conns
    <3>1. LET x == OnUpdateError(q, h, h.conns[k].id, retry, most)
          IN  /\ HookOK(x.hook, Busy(h) \ {k}, Known(exp)) /\ x.hook.conns = h.conns
              /\ x.queue \in {q, Forget(q, h.conns[k].id).queue}
      BY ErrorKeeps
    <3> QED
      BY <3>1
  <2>3. \A i \in DOMAIN h.loaded \ {id} : UpdateAt(r.hook, i) = UpdateAt(h, i)
    <3> DEFINE u == h.loaded[id]
               wake == now + Wait(u, retry, most)
               v == [u EXCEPT !.delay = NextDelay(u, retry, most), !.wake = wake, !.fails = @ + 1]
               g == [h EXCEPT !.loaded[id] = v,
                              !.waiting = @ \cup {[wake |-> wake, chat |-> u.chat]}]
    <3>1. r.hook = g
      BY <1>2 DEF OnUpdateError
    <3> HIDE DEF v
    <3>2. g.loaded = [h.loaded EXCEPT ![id] = v]
      BY DEF HookOK, HookTyped, Shaped
    <3> HIDE DEF g
    <3> QED
      BY <3>1, <3>2 DEF UpdateAt
  <2> QED
    BY <2>1, <2>2, <2>3, FreedTold DEF Told
<1> QED
  BY <1>1, <1>2

-----------------------------------------------------------------------------
(***************************************************************************)
(* The invariant: what waits, what is loaded and what is on its way come   *)
(* in the order of arrival.                                                *)
(***************************************************************************)
Settled == received \cup Excused

OrderInv ==
  /\ Told(queue, hook, expires, Settled, received)
  /\ \A u \in strays : Earlier(u, expires, Settled)

\* What is on a connection comes first.
LEMMA CarriedEarlier ==
  ASSUME Inv, OrderInv
  PROVE  \A u \in Carried(hook, Busy(hook)) : u \in Arrived /\ Earlier(u, expires, Settled)
<1>1. ASSUME NEW c \in Busy(hook)
      PROVE  Earlier(UpdateAt(hook, hook.conns[c].id), expires, Settled)
  <2>1. HookOK(hook, Busy(hook), Known(expires)) /\ Sound(queue, Known(expires))
        /\ DOMAIN expires \subseteq Update
    BY DEF Inv, Arrived
  <2>2. /\ hook.conns[c].id = First(hook, ChatAt(hook, c)) /\ ChatAt(hook, c) \in Chats(hook)
    BY <2>1 DEF HookOK, ServedOK, ListsOK, Serves, ChatAt
  <2>3. World(queue, hook, expires, Settled)
    BY DEF OrderInv, Told
  <2>4. Earlier(UpdateAt(hook, First(hook, ChatAt(hook, c))), expires, Settled)
    BY <2>1, <2>2, <2>3, FirstEarlier
  <2> QED
    BY <2>2, <2>4
<1> QED
  BY <1>1, OnlyArrived DEF Carried, UpdateAt

\* What is settled remains so.
LEMMA SettledGrows ==
  ASSUME Inv, [Next]_vars
  PROVE  /\ received \subseteq received' /\ Settled \subseteq Settled'
         /\ \A u \in DOMAIN expires : expires[u] < now => u \in Settled'
<1>1. /\ received \subseteq received' /\ dropped \subseteq dropped'
      /\ now' \in {now, now + 1}
  BY DEF Next, vars, PushUpdate, Timer, BotReceives, AnswerOk, AnswerError, Hangup, AnswerGone,
         Fails, IdleHangup, BotReceivesStray, Close, Open, DropPending, Collect, Tick
<1>2. Arrived \subseteq Arrived' /\ \A u \in Arrived : expires'[u] = expires[u]
  <2>1. CASE \E u \in Update : PushUpdate(u)
    <3>1. PICK u \in Update : PushUpdate(u)
      BY <2>1
    <3>2. u \notin Arrived /\ expires' = With(expires, u, now + Ttl[u])
      BY <3>1, WebhookAssumption DEF PushUpdate, Inv
    <3> QED
      BY <3>2 DEF With, Arrived
  <2>2. CASE ~\E u \in Update : PushUpdate(u)
    <3>1. expires' = expires
      BY <2>2 DEF Next, vars, Timer, BotReceives, AnswerOk, AnswerError, Hangup, AnswerGone,
         IdleHangup, BotReceivesStray, Close, Open, DropPending, Collect, Tick
    <3> QED
      BY <3>1 DEF Arrived
  <2> QED
    BY <2>1, <2>2
<1>3. \A u \in Arrived : expires[u] < now => expires'[u] < now'
  <2>1. now \in Nat /\ \A u \in Arrived : expires[u] \in Nat
    BY DEF Inv
  <2> QED
    BY <1>1, <1>2, <2>1
<1>4. \A u \in Arrived : expires[u] < now => u \in Excused'
  BY <1>2, <1>3 DEF Excused
<1>5. dropped' \subseteq Excused' /\ \A u \in Excused : u \in dropped \/ (u \in Arrived /\ expires[u] < now)
  BY DEF Excused
<1>6. Excused \subseteq Excused'
  BY <1>1, <1>4, <1>5
<1> QED
  BY <1>1, <1>4, <1>6 DEF Settled, Arrived

\* What left and what is on its way.
LEMMA StraysEarlier ==
  ASSUME Inv, OrderInv, [Next]_vars
  PROVE  (\A u \in strays : Earlier(u, expires, Settled))'
<1>1. Settled \subseteq Settled' /\ strays \subseteq Arrived
  BY SettledGrows DEF Inv
<1>2. \A u \in strays \cup Carried(hook, Busy(hook)) : u \in Arrived /\ Earlier(u, expires, Settled)
  BY <1>1, CarriedEarlier DEF OrderInv
<1>3. strays' \subseteq strays \cup Carried(hook, Busy(hook))
  <2>1. \A C : Carried(hook, C \cap In(hook, "sent")) \subseteq Carried(hook, Busy(hook))
    BY DEF Carried, Busy
  <2> QED
    BY <2>1 DEF Next, vars, PushUpdate, Timer, BotReceives, AnswerOk, AnswerError, Hangup, AnswerGone,
         Leave, IdleHangup, BotReceivesStray, Close, Open, DropPending, Collect, Tick
<1>4. ASSUME NEW u \in strays'
      PROVE  \A v \in DOMAIN expires' : v < u /\ ChatOf[v] = ChatOf[u] => v \in Settled'
  <2>1. u \in Arrived /\ Earlier(u, expires, Settled)
    BY <1>2, <1>3
  <2>2. CASE \E w \in Update : PushUpdate(w)
    <3>1. PICK w \in Update : PushUpdate(w)
      BY <2>2
    <3>2. expires' = With(expires, w, now + Ttl[w]) /\ u < w
      BY <2>1, <3>1 DEF PushUpdate
    <3>3. DOMAIN expires' = DOMAIN expires \cup {w}
      BY <3>2 DEF With
    <3>4. ~(w < u)
      <4>1. u \in Nat /\ w \in Nat
        BY <2>1, WebhookAssumption DEF Inv
      <4> QED
        BY <3>2, <4>1
    <3> QED
      BY <1>1, <2>1, <3>3, <3>4 DEF Earlier
  <2>3. CASE ~\E w \in Update : PushUpdate(w)
    <3>1. expires' = expires
      BY <2>3 DEF Next, vars, Timer, BotReceives, AnswerOk, AnswerError, Hangup, AnswerGone,
         IdleHangup, BotReceivesStray, Close, Open, DropPending, Collect, Tick
    <3> QED
      BY <1>1, <2>1, <3>1 DEF Earlier
  <2> QED
    BY <2>2, <2>3
<1> QED
  BY <1>4 DEF Earlier

\* Loops of the actor, one or two.
LEMMA LoopsTold ==
  ASSUME IdsLast, Inv, NEW q, NEW h, NEW S, NEW R, Ordered(q, h), Told(q, h, expires, S, R),
         \A u \in DOMAIN expires : expires[u] < now => u \in S
  PROVE  /\ \A r \in Loop(q, h) : Told(r.queue, r.hook, expires, S, R)
         /\ \A r \in LoopTwice(q, h) : Told(r.queue, r.hook, expires, S, R)
<1>1. now \in Nat /\ DOMAIN expires \subseteq Update
  BY DEF Inv, Arrived
<1>2. \A p, g : Ordered(p, g) /\ Told(p, g, expires, S, R) =>
        \A r \in Loop(p, g) : Told(r.queue, r.hook, expires, S, R)
  BY <1>1, LoopTold DEF Ordered
<1>3. \A r \in Loop(q, h) : Ordered(r.queue, r.hook) /\ Told(r.queue, r.hook, expires, S, R)
  BY <1>2, LoopsOrdered
<1>4. \A r \in LoopTwice(q, h) : \E s \in Loop(q, h) : r \in Loop(s.queue, s.hook)
  BY DEF LoopTwice
<1> QED
  BY <1>2, <1>3, <1>4

\* The timer, the requests that arrive, and the answers keep the order.
LEMMA AnswersTold ==
  ASSUME IdsLast, Inv, OrderInv, [Next]_vars,
         \/ Timer
         \/ \E c \in 1..MaxConn :
              \/ BotReceives(c)
              \/ \E conn \in {Idle, Closed} :
                   \/ AnswerOk(c, conn)
                   \/ \E retry \in RetryAfter, most \in MaxTimeout :
                        AnswerError(c, conn, retry, most)
              \/ \E most \in MaxTimeout : Hangup(c, most) \/ AnswerGone(c, most)
              \/ IdleHangup(c)
  PROVE  Told(queue', hook', expires', Settled', received')
<1> DEFINE D == Known(expires)
           S == Settled'
           R == received'
<1>1. /\ HookOK(hook, Busy(hook), D) /\ Sound(queue, D) /\ Shaped(hook) /\ now \in Nat
      /\ DOMAIN expires \subseteq Update /\ Ordered(queue, hook) /\ Clearable(D)
  BY KnownEvents DEF Inv, Ordered, HookOK, HookTyped, Arrived
<1>2. \A most \in MaxTimeout : most \in Nat
  BY WebhookAssumption
<1>3. \A retry \in RetryAfter : retry \in Nat
  BY WebhookAssumption
<1>4. /\ Told(queue, hook, expires, Settled, received)
      /\ Told(queue, hook, expires, S, R)
      /\ received \subseteq R /\ Settled \subseteq S
      /\ \A u \in DOMAIN expires : expires[u] < now => u \in S
  <2>1. received \subseteq R /\ Settled \subseteq S /\ \A u \in DOMAIN expires : expires[u] < now => u \in S
    BY SettledGrows
  <2> HIDE DEF S, R
  <2> QED
    BY <2>1, MoreTold DEF OrderInv
<1>5. \A c \in 1..MaxConn : hook.conns[c].state \in {"sent", "received"} => c \in Busy(hook)
  BY DEF Busy, In
<1>6. dropped' \subseteq S
  BY DEF Settled, Excused
<1>7. expires' = expires
  BY DEF Timer, BotReceives, AnswerOk, AnswerError, Hangup, AnswerGone, IdleHangup
<1> HIDE DEF S, R
<1>8. SUFFICES Told(queue', hook', expires, S, R)
  BY <1>7 DEF S, R
<1>9. ASSUME NEW c \in Busy(hook), NEW retry \in Nat, NEW most \in Nat, NEW conn \in {Idle, Closed},
             Fails(c, retry, most)
      PROVE  LET s == OnUpdateError(queue, hook, hook.conns[c].id, retry, most)
             IN  /\ Ordered(s.queue, [s.hook EXCEPT !.conns[c] = conn])
                 /\ Told(s.queue, [s.hook EXCEPT !.conns[c] = conn], expires, S, R)
  <2> DEFINE s == OnUpdateError(queue, hook, hook.conns[c].id, retry, most)
  <2>0. s = OnUpdateError(queue, hook, hook.conns[c].id, retry, most)
    OBVIOUS
  <2> HIDE DEF s
  <2>1. /\ HookOK(s.hook, Busy(hook) \ {c}, D) /\ s.hook.conns = hook.conns /\ Sound(s.queue, D)
    BY <2>0, FailKeeps
  <2>2. Ordered(s.queue, [s.hook EXCEPT !.conns[c] = conn])
    BY <2>1, AnswerKeeps
  <2>3. GivesUp(hook.loaded[hook.conns[c].id], retry, most) => UpdateAt(hook, hook.conns[c].id) \in S
    BY <1>6, <1>9 DEF Fails, UpdateAt
  <2>4. Told(s.queue, [s.hook EXCEPT !.conns[c] = conn], expires, S, R)
    BY <1>1, <1>4, <2>0, <2>3, ErrorTold
  <2> QED
    BY <2>2, <2>4 DEF s
<1>10. CASE Timer
  <2> DEFINE h == [hook EXCEPT !.timer = 0]
  <2>1. /\ Shaped(h) /\ h.loaded = hook.loaded /\ h.lists = hook.lists
        /\ h.waiting = hook.waiting /\ h.conns = hook.conns /\ h.offset = hook.offset
    BY <1>1 DEF Shaped
  <2>2. PICK r \in Loop(queue, h) : queue' = r.queue /\ hook' = r.hook
    BY <1>10 DEF Timer, Become
  <2> HIDE DEF h
  <2>3. Busy(h) = Busy(hook) /\ Same(hook, h)
    BY <2>1 DEF Busy, In, Same
  <2>4. Ordered(queue, h)
    BY <1>1, <2>1, <2>3, OrderedSame
  <2>5. Told(queue, h, expires, S, R)
    BY <1>1, <1>4, <2>3, SameTold
  <2> QED
    BY <1>4, <2>2, <2>4, <2>5, LoopsTold
<1>11. ASSUME NEW c \in 1..MaxConn, BotReceives(c)
       PROVE  Told(queue', hook', expires, S, R)
  <2>1. c \in Busy(hook) /\ hook' = [hook EXCEPT !.conns[c].state = "received"] /\ queue' = queue
    BY <1>5, <1>11 DEF BotReceives
  <2>2. /\ hook'.loaded = hook.loaded /\ hook'.lists = hook.lists /\ hook'.offset = hook.offset
        /\ hook'.conns = [hook.conns EXCEPT ![c].state = "received"]
        /\ hook.conns \in [1..MaxConn -> Conn]
    BY <1>1, <2>1 DEF Shaped
  <2>3. /\ hook'.conns[c].id = hook.conns[c].id
        /\ \A k \in 1..MaxConn \ {c} : hook'.conns[k] = hook.conns[k]
    <3>1. hook.conns[c] \in Conn
      BY <2>2
    <3>2. hook'.conns[c] = [hook.conns[c] EXCEPT !.state = "received"]
      BY <2>2
    <3>3. \A k \in 1..MaxConn \ {c} : hook'.conns[k] = hook.conns[k]
      BY <2>2
    <3> QED
      BY <3>1, <3>2, <3>3 DEF Conn
  <2>4. World(queue, hook', expires, S)
    BY <1>1, <1>4, <2>2, WorldSame DEF Told
  <2>5. \A i : UpdateAt(hook', i) = UpdateAt(hook, i)
    BY <2>2 DEF UpdateAt
  <2>6. ASSUME NEW k \in In(hook', "received")
        PROVE  UpdateAt(hook, hook'.conns[k].id) \in R
    <3>1. CASE k = c
      <4>1. UpdateAt(hook, hook.conns[c].id) \in Carried(hook, {c})
        BY DEF Carried, UpdateAt
      <4>2. R = received \cup Carried(hook, {c})
        BY <1>11 DEF BotReceives, R
      <4> QED
        BY <2>3, <3>1, <4>1, <4>2
    <3>2. CASE k # c
      <4>1. k \in 1..MaxConn /\ hook'.conns[k].state = "received"
        BY DEF In
      <4>2. k \in In(hook, "received") /\ hook'.conns[k].id = hook.conns[k].id
        BY <2>3, <3>2, <4>1 DEF In
      <4> QED
        BY <1>4, <4>2 DEF Told, Got
    <3> QED
      BY <3>1, <3>2
  <2> QED
    BY <2>1, <2>4, <2>5, <2>6 DEF Told, Got
<1>12. ASSUME NEW c \in 1..MaxConn, NEW conn \in {Idle, Closed}, AnswerOk(c, conn)
       PROVE  Told(queue', hook', expires, S, R)
  <2> DEFINE s == DropEvent(queue, hook, hook.conns[c].id)
             h == [s.hook EXCEPT !.conns[c] = conn]
  <2>1. c \in Busy(hook) /\ c \in In(hook, "received")
    BY <1>5, <1>12 DEF AnswerOk, In
  <2>2. UpdateAt(hook, hook.conns[c].id) \in S
    BY <1>4, <2>1 DEF Told, Got, Settled
  <2>3. HookOK(DropEvent(queue, hook, hook.conns[c].id).hook, Busy(hook) \ {c}, D)
    BY <1>1, <2>1, DropKeeps
  <2>4. s.hook.conns = hook.conns /\ s.queue = Forget(queue, hook.conns[c].id).queue
    BY <1>1 DEF DropEvent, Shaped
  <2>5. Sound(s.queue, D)
    BY <1>1, <2>4, ForgetKeeps
  <2>6. PICK r \in Loop(s.queue, h) : queue' = r.queue /\ hook' = r.hook
    BY <1>12 DEF AnswerOk, Answer, Become
  <2>7. s = DropEvent(queue, hook, hook.conns[c].id)
    OBVIOUS
  <2> HIDE DEF s
  <2>8. Ordered(s.queue, h)
    BY <2>1, <2>3, <2>4, <2>5, <2>7, AnswerKeeps
  <2>9. Told(s.queue, h, expires, S, R)
    BY <1>1, <1>4, <2>1, <2>2, <2>7, DropTold
  <2> HIDE DEF h
  <2> QED
    BY <1>4, <2>6, <2>8, <2>9, LoopsTold
<1>13. ASSUME NEW c \in 1..MaxConn, NEW conn \in {Idle, Closed}, NEW retry \in RetryAfter,
              NEW most \in MaxTimeout, AnswerError(c, conn, retry, most)
       PROVE  Told(queue', hook', expires, S, R)
  <2> DEFINE s == OnUpdateError(queue, hook, hook.conns[c].id, retry, most)
             h == [s.hook EXCEPT !.conns[c] = conn]
  <2>1. c \in Busy(hook) /\ Fails(c, retry, most)
    BY <1>13 DEF AnswerError, Fails
  <2>2. Ordered(s.queue, h) /\ Told(s.queue, h, expires, S, R)
    BY <1>2, <1>3, <1>9, <2>1
  <2>3. PICK r \in Loop(s.queue, h) : queue' = r.queue /\ hook' = r.hook
    BY <1>13 DEF AnswerError, Answer, Become
  <2> HIDE DEF s, h
  <2> QED
    BY <1>4, <2>2, <2>3, LoopsTold
<1>14. ASSUME NEW c \in 1..MaxConn, NEW most \in MaxTimeout, Hangup(c, most)
       PROVE  Told(queue', hook', expires, S, R)
  <2> DEFINE s == OnUpdateError(queue, hook, hook.conns[c].id, 0, most)
             h == [s.hook EXCEPT !.conns[c] = Closed]
  <2>1. c \in Busy(hook) /\ Fails(c, 0, most)
    BY <1>14 DEF Hangup
  <2>2. Ordered(s.queue, h) /\ Told(s.queue, h, expires, S, R)
    BY <1>2, <1>9, <2>1
  <2>3. PICK r \in LoopTwice(s.queue, h) : queue' = r.queue /\ hook' = r.hook
    BY <1>14 DEF Hangup, Become
  <2> HIDE DEF s, h
  <2> QED
    BY <1>4, <2>2, <2>3, LoopsTold
<1>15. ASSUME NEW c \in 1..MaxConn, NEW most \in MaxTimeout, AnswerGone(c, most)
       PROVE  Told(queue', hook', expires, S, R)
  <2> DEFINE s == OnUpdateError(queue, hook, hook.conns[c].id, 0, most)
             h == [s.hook EXCEPT !.conns[c] = Closed]
             g == [s.hook EXCEPT !.conns[c] = Closed, !.closing = TRUE]
  <2>1. c \in Busy(hook) /\ Fails(c, 0, most)
    BY <1>15 DEF AnswerGone, Fails
  <2>2. Ordered(s.queue, h) /\ Told(s.queue, h, expires, S, R)
    BY <1>2, <1>9, <2>1
  <2>3. queue' = s.queue /\ hook' = [s.hook EXCEPT !.conns[c] = Closed, !.closing = TRUE]
    <3>1. OnUpdateError(queue, hook, hook.conns[c].id, 0, most) = [queue |-> s.queue, hook |-> s.hook]
      BY DEF OnUpdateError, DropEvent
    <3>2. \E r \in {[x EXCEPT !.hook.conns[c] = Closed, !.hook.closing = TRUE] :
              x \in {OnUpdateError(queue, hook, hook.conns[c].id, 0, most)}} :
            queue' = r.queue /\ hook' = r.hook
      BY <1>15 DEF AnswerGone, Become
    <3>3. \A a, b : LET x == [queue |-> a, hook |-> b]
                         y == [x EXCEPT !.hook.conns[c] = Closed, !.hook.closing = TRUE]
                     IN  /\ y.queue = a
                         /\ y.hook = [b EXCEPT !.conns[c] = Closed, !.closing = TRUE]
      OBVIOUS
    <3>4. LET x == [queue |-> s.queue, hook |-> s.hook]
              y == [x EXCEPT !.hook.conns[c] = Closed, !.hook.closing = TRUE]
          IN  queue' = y.queue /\ hook' = y.hook
      BY <3>1, <3>2
    <3> HIDE DEF s
    <3> QED
      BY <3>3, <3>4
  <2>4. HookOK(s.hook, Busy(hook) \ {c}, D)
    <3>1. LET x == OnUpdateError(queue, hook, hook.conns[c].id, 0, most)
          IN  /\ HookOK(x.hook, Busy(hook) \ {c}, D) /\ x.hook.conns = hook.conns
              /\ Sound(x.queue, D)
      <4> HIDE DEF s
      <4>1. most \in Nat
        BY <1>2
      <4> QED
        BY <2>1, <4>1, FailKeeps
    <3> QED
      BY <3>1
  <2> HIDE DEF s
  <2>5. Shaped(s.hook)
    BY <2>4 DEF HookOK, HookTyped
  <2>6. Same(h, g) /\ HookOK(h, Busy(h), D)
    BY <2>2, <2>5 DEF Shaped, Same, In, Ordered
  <2>7. hook' = g
    BY <2>3
  <2> HIDE DEF g, h
  <2>8. Told(s.queue, g, expires, S, R)
    BY <2>2, <2>6, SameTold
  <2> QED
    BY <2>3, <2>7, <2>8
<1>16. ASSUME NEW c \in 1..MaxConn, IdleHangup(c)
       PROVE  Told(queue', hook', expires, S, R)
  <2> DEFINE h == [hook EXCEPT !.conns[c] = Closed]
  <2>1. c \in In(hook, "idle")
    BY <1>16 DEF IdleHangup
  <2>2. Busy(hook) \ {c} = Busy(hook)
    BY <2>1 DEF Busy, In
  <2>3. HookOK(hook, Busy(hook) \ {c}, D) /\ Closed \in {Idle, Closed}
    BY <1>1, <2>2
  <2>4. HookOK(h, Busy(h), D)
    BY <2>3, FreeKeeps
  <2>5. Ordered(queue, h)
    BY <1>1, <2>4 DEF Ordered
  <2>6. PICK r \in LoopTwice(queue, h) : queue' = r.queue /\ hook' = r.hook
    BY <1>16 DEF IdleHangup, Become
  <2>7. Same(hook, h)
    BY <1>1 DEF Same, Shaped, In, Closed
  <2> HIDE DEF h
  <2>8. Told(queue, h, expires, S, R)
    BY <1>1, <1>4, <2>7, SameTold
  <2> QED
    BY <1>4, <2>5, <2>6, <2>8, LoopsTold
<1> QED
  BY <1>10, <1>11, <1>12, <1>13, <1>14, <1>15, <1>16

\* An actor that was just set has loaded nothing.
LEMMA NewHookTold ==
  ASSUME NEW q, NEW exp, NEW S, NEW R, QueueOK(q, exp, S),
         Sound(q, Known(exp)), DOMAIN exp \subseteq Update
  PROVE  Told(q, NewHook, exp, S, R)
<1>1. DOMAIN <<>> = {}
  OBVIOUS
<1>2. /\ DOMAIN NewHook.loaded = {} /\ Chats(NewHook) = {} /\ NewHook.offset = 0
      /\ In(NewHook, "received") = {}
  BY <1>1 DEF NewHook, Chats, In, Closed
<1>3. \A j \in Live(q) : ~(j < 0)
  BY QueueTyped
<1> QED
  BY <1>2, <1>3 DEF Told, World, LoadedOK, SortedOK, Got

\* What the owner, the collection and the clock do keeps the order.
LEMMA OthersTold ==
  ASSUME IdsLast, Inv, OrderInv, [Next]_vars,
         \/ \E u \in strays : BotReceivesStray(u)
         \/ Close \/ Open \/ DropPending \/ Collect \/ Tick
         \/ UNCHANGED vars
  PROVE  Told(queue', hook', expires', Settled', received')
<1> DEFINE D == Known(expires)
           S == Settled'
           R == received'
<1>1. /\ HookOK(hook, Busy(hook), D) /\ Sound(queue, D) /\ now \in Nat
      /\ DOMAIN expires \subseteq Update /\ Clearable(D)
  BY KnownEvents DEF Inv, Arrived
<1>2. /\ Told(queue, hook, expires, S, R)
      /\ \A u \in DOMAIN expires : expires[u] < now => u \in S
  <2>1. received \subseteq R /\ Settled \subseteq S /\ \A u \in DOMAIN expires : expires[u] < now => u \in S
    BY SettledGrows
  <2> HIDE DEF S, R
  <2> QED
    BY <2>1, MoreTold DEF OrderInv
<1>3. dropped' \subseteq S
  BY DEF Settled, Excused
<1>4. expires' = expires
  BY DEF BotReceivesStray, Close, Open, DropPending, Collect, Tick, vars
<1> HIDE DEF S, R
<1>5. SUFFICES Told(queue', hook', expires, S, R)
  BY <1>4 DEF S, R
<1>6. CASE \/ \E u \in strays : BotReceivesStray(u)
           \/ Open \/ Tick \/ UNCHANGED vars
  <2>1. queue' = queue /\ hook' = hook
    BY <1>6 DEF BotReceivesStray, Open, Tick, vars
  <2> QED
    BY <1>2, <2>1
<1>7. CASE Close
  <2>1. hook' = NewHook /\ queue' = queue
    BY <1>7 DEF Close
  <2> QED
    BY <1>1, <1>2, <2>1, NewHookTold DEF Told, World
<1>8. CASE DropPending
  <2> DEFINE p == Clear(queue, 0).queue
  <2>1. LET x == Clear(queue, 0)
        IN  /\ Steps(queue, x, D)
            /\ x.queue.tail = queue.tail
            /\ Ids(x.queue) \subseteq Ids(queue)
            /\ Live(x.queue) \subseteq Live(queue)
            /\ \A i \in Live(x.queue) : x.queue.events[i] = queue.events[i]
            /\ 0 # 0 => \A i \in Ids(x.queue) : x.queue.events[i] = queue.events[i]
    BY <1>1, ClearSteps
  <2>2. queue' = p /\ hook' = hook /\ dropped' = dropped \cup InQueue
    BY <1>8 DEF DropPending
  <2> HIDE DEF p
  <2>3. /\ p.tail = queue.tail /\ Live(p) \subseteq Live(queue)
        /\ \A i \in Live(p) : p.events[i] = queue.events[i]
    BY <2>1 DEF p
  <2>4. \A i \in Live(queue) : DataAt(queue, i) \in S
    <3>1. \A i \in Live(queue) : DataAt(queue, i) \in InQueue
      BY DEF InQueue, DataOf, DataAt, Live
    <3> QED
      BY <1>3, <2>2, <3>1
  <2>5. World(p, hook, expires, S)
    BY <1>2, <2>3, <2>4, QueueShrinks DEF Told
  <2> QED
    BY <1>2, <2>2, <2>5 DEF Told
<1>9. CASE Collect
  <2>1. PICK stop \in Ids(queue) \cup {queue.tail} : queue' = RunGc(queue, stop, now).queue
    BY <1>9 DEF Collect
  <2> DEFINE p == RunGc(queue, stop, now).queue
  <2>2. LET x == RunGc(queue, stop, now)
        IN  /\ Steps(queue, x, D)
            /\ x.queue.tail = queue.tail
            /\ Live(x.queue) \subseteq Live(queue)
            /\ \A i \in Live(x.queue) : x.queue.events[i] = queue.events[i]
            /\ \A i \in Live(queue) \ Live(x.queue) : queue.events[i].expires < now
    BY <1>1, RunGcSteps
  <2>3. queue' = p /\ hook' = hook
    BY <1>9, <2>1 DEF Collect
  <2> HIDE DEF p
  <2>4. /\ p.tail = queue.tail /\ Live(p) \subseteq Live(queue)
        /\ \A i \in Live(p) : p.events[i] = queue.events[i]
        /\ \A i \in Live(queue) \ Live(p) : queue.events[i].expires < now
    BY <2>2 DEF p
  <2>5. \A i \in Live(queue) \ Live(p) : DataAt(queue, i) \in S
    BY <1>1, <1>2, <2>4, QueueTyped
  <2>6. World(p, hook, expires, S)
    BY <1>2, <2>4, <2>5, QueueShrinks DEF Told
  <2> QED
    BY <1>2, <2>3, <2>6 DEF Told
<1> QED
  BY <1>6, <1>7, <1>8, <1>9

\* An update that arrives keeps the order.
LEMMA PushTold ==
  ASSUME IdsLast, Inv, OrderInv, [Next]_vars, NEW u \in Update, PushUpdate(u)
  PROVE  Told(queue', hook', expires', Settled', received')
<1> DEFINE exp == With(expires, u, now + Ttl[u])
           S == Settled'
           e == [data |-> u, expires |-> now + Ttl[u]]
<1>1. /\ HookOK(hook, Busy(hook), Known(expires)) /\ Sound(queue, Known(expires))
      /\ now \in Nat \ {0} /\ DOMAIN expires \subseteq Update /\ now' = now
      /\ received' = received /\ expires' = exp
  BY DEF Inv, Arrived, PushUpdate
<1>2. u \notin DOMAIN expires /\ \A v \in DOMAIN expires : v < u
  BY WebhookAssumption DEF PushUpdate, Arrived
<1>3. now + Ttl[u] \in Nat \ {0}
  BY <1>1, WebhookAssumption
<1>4. /\ Settled \subseteq S /\ dropped' \subseteq S
      /\ \A v \in DOMAIN exp : exp[v] < now => v \in S
  <2>1. dropped' \subseteq S /\ \A v \in DOMAIN expires' : expires'[v] < now' => v \in S
    BY DEF Settled, Excused, Arrived
  <2> HIDE DEF exp, S
  <2>2. Settled \subseteq S
    BY SettledGrows DEF S
  <2> QED
    BY <1>1, <2>1, <2>2
<1>5. PICK first \in FirstIds :
         Become(IF open THEN Updated(Push(queue, e, first).queue)
                ELSE {[queue |-> Push(queue, e, first).queue, hook |-> hook]})
  BY DEF PushUpdate
<1> DEFINE q == Push(queue, e, first).queue
<1>6. Wraps(queue) => \A j \in Live(queue) : DataAt(queue, j) \in S
  <2>1. \A j \in Live(queue) : DataAt(queue, j) \in InQueue
    BY DEF InQueue, DataOf, DataAt, Live
  <2>2. Wraps(queue) => InQueue \subseteq dropped'
    BY DEF PushUpdate
  <2> HIDE DEF S
  <2> QED
    BY <1>4, <2>1, <2>2
<1> HIDE DEF S
<1>7. World(q, hook, exp, S)
  BY <1>1, <1>2, <1>3, <1>4, <1>6, PushWorld DEF OrderInv, Told
<1>8. Known(expires) \subseteq Known(exp) /\ Clearable(Known(exp)) /\ DOMAIN exp \subseteq Update
  <2>1. DOMAIN exp = DOMAIN expires \cup {u}
    BY DEF With
  <2> QED
    BY <1>1, <1>2, <2>1, KnownEvents
<1>9. e \in Known(exp) /\ e.data # Nothing
  <2>1. u \in DOMAIN exp /\ exp[u] = now + Ttl[u]
    BY DEF With
  <2>2. e \in Event
    BY <1>3 DEF Event
  <2> QED
    BY <2>1, <2>2, QueueAssumption DEF Known
<1> HIDE DEF exp
<1>10. Sound(queue, Known(exp)) /\ HookOK(hook, Busy(hook), Known(exp))
  BY <1>1, <1>8, More, MoreEvents DEF Clearable
<1> HIDE DEF e
<1>11. Sound(q, Known(exp))
  <2>1. LET x == Push(queue, e, first) IN Steps(queue, x, Known(exp))
    BY <1>8, <1>9, <1>10, PushSteps
  <2> QED
    BY <2>1 DEF Steps
<1>12. PICK r \in (IF open THEN Updated(q) ELSE {[queue |-> q, hook |-> hook]}) :
         queue' = r.queue /\ hook' = r.hook
  BY <1>5 DEF Become
<1> HIDE DEF q
<1>13. Got(hook, received)
  BY DEF OrderInv, Told
<1>14. Told(queue', hook', exp, S, received)
  <2>1. CASE ~open
    <3>1. r = [queue |-> q, hook |-> hook]
      BY <1>12, <2>1
    <3>2. queue' = q /\ hook' = hook
      BY <1>12, <3>1
    <3> QED
      BY <1>7, <1>13, <3>2 DEF Told
  <2>2. CASE open
    <3> DEFINE h == [hook EXCEPT !.empty = FALSE]
    <3>1. r \in Loop(q, h)
      BY <1>12, <2>2 DEF Updated
    <3>2. Shaped(hook)
      BY <1>10 DEF HookOK, HookTyped
    <3>3. /\ Shaped(h) /\ h.loaded = hook.loaded /\ h.lists = hook.lists
          /\ h.waiting = hook.waiting /\ h.conns = hook.conns /\ h.offset = hook.offset
      BY <3>2 DEF Shaped
    <3> HIDE DEF h
    <3>4. Busy(h) = Busy(hook) /\ Same(hook, h)
      BY <3>3 DEF Busy, In, Same
    <3>5. HookOK(h, Busy(h), Known(exp))
      BY <1>10, <3>3, <3>4, SameChats
    <3>6. Told(q, h, exp, S, received)
      <4>1. Told(q, hook, exp, S, received)
        BY <1>7, <1>13 DEF Told
      <4> QED
        BY <1>10, <3>4, <4>1, SameTold
    <3>7. Told(r.queue, r.hook, exp, S, received)
      <4>1. now \in Nat
        BY <1>1
      <4> QED
        BY <1>4, <1>8, <1>11, <3>1, <3>5, <3>6, <4>1, LoopTold
    <3> QED
      BY <1>12, <3>7
  <2> QED
    BY <2>1, <2>2
<1> QED
  BY <1>1, <1>14 DEF S

\* Every step keeps the order.
LEMMA OrderNext ==
  ASSUME IdsLast, Inv, OrderInv, [Next]_vars
  PROVE  OrderInv'
<1>1. Told(queue', hook', expires', Settled', received')
  <2>1. ASSUME NEW u \in Update, PushUpdate(u)
        PROVE  Told(queue', hook', expires', Settled', received')
    BY <2>1, PushTold
  <2>2. CASE \/ Timer
             \/ \E c \in 1..MaxConn :
                  \/ BotReceives(c)
                  \/ \E conn \in {Idle, Closed} :
                       \/ AnswerOk(c, conn)
                       \/ \E retry \in RetryAfter, most \in MaxTimeout :
                            AnswerError(c, conn, retry, most)
                  \/ \E most \in MaxTimeout : Hangup(c, most) \/ AnswerGone(c, most)
                  \/ IdleHangup(c)
    BY <2>2, AnswersTold
  <2>3. CASE \/ \E u \in strays : BotReceivesStray(u)
             \/ Close \/ Open \/ DropPending \/ Collect \/ Tick
             \/ UNCHANGED vars
    BY <2>3, OthersTold
  <2> QED
    BY <2>1, <2>2, <2>3 DEF Next
<1>2. (\A u \in strays : Earlier(u, expires, Settled))'
  BY StraysEarlier
<1> QED
  BY <1>1, <1>2 DEF OrderInv

\* The order holds at first.
LEMMA OrderInit ==
  ASSUME Init
  PROVE  OrderInv
<1>1. DOMAIN <<>> = {}
  OBVIOUS
<1>2. Inv
  BY InitOK
<1>3. DOMAIN expires = {} /\ strays = {} /\ hook = NewHook
  BY <1>1 DEF Init
<1>4. Sound(queue, Known(expires)) /\ DOMAIN expires \subseteq Update
  BY <1>2 DEF Inv, Arrived
<1>5. Live(queue) = {}
  BY <1>3, <1>4, QueueTyped
<1>6. QueueOK(queue, expires, Settled)
  BY <1>3, <1>5 DEF QueueOK
<1>7. Told(queue, hook, expires, Settled, received)
  BY <1>3, <1>4, <1>6, NewHookTold
<1> QED
  BY <1>3, <1>7 DEF OrderInv

LEMMA OrderHolds ==
  ASSUME IdsLast
  PROVE  Spec => []OrderInv
<1>1. Init => OrderInv
  BY OrderInit
<1>2. Inv /\ OrderInv /\ [Next]_vars => OrderInv'
  BY OrderNext
<1> QED
  BY <1>1, <1>2, InvHolds, PTL DEF Spec

-----------------------------------------------------------------------------
(***************************************************************************)
(* handle(), load_updates() and send_updates(): the bot has the updates of *)
(* a chat in the order in which they came, however they fail and whenever  *)
(* the webhook is closed and set again, also when the ids of the queue     *)
(* begin again.                                                            *)
(***************************************************************************)
THEOREM ArrivesInOrder ==
  ASSUME IdsLast
  PROVE  Spec => InOrder
<1> DEFINE A == \A u \in received' \ received : \A v \in Arrived :
                  v < u /\ ChatOf[v] = ChatOf[u] => v \in received \cup Excused
<1>1. Inv /\ OrderInv /\ [Next]_vars => [A]_vars
  <2> SUFFICES ASSUME Inv, OrderInv, Next
               PROVE  A
    OBVIOUS
  <2>1. \A u \in received' \ received : u \in strays \cup Carried(hook, Busy(hook))
    <3>1. \A c \in 1..MaxConn : hook.conns[c].state = "sent" =>
            Carried(hook, {c}) \subseteq Carried(hook, Busy(hook))
      BY DEF Carried, Busy, In
    <3> QED
      BY <3>1 DEF Next, PushUpdate, Timer, BotReceives, AnswerOk, AnswerError, Hangup, AnswerGone,
         IdleHangup, BotReceivesStray, Close, Open, DropPending, Collect, Tick
  <2>2. \A u \in strays \cup Carried(hook, Busy(hook)) : Earlier(u, expires, Settled)
    BY CarriedEarlier DEF OrderInv
  <2> QED
    BY <2>1, <2>2 DEF Earlier, Settled, Arrived
<1>2. Spec => [][A]_vars
  BY <1>1, InvHolds, OrderHolds, PTL DEF Spec
<1> QED
  BY <1>2 DEF InOrder

\* The bot has only updates that arrived before, and a request that reaches
\* it changes nothing that is kept.
LEMMA HandedOver ==
  ASSUME Inv, Next
  PROVE  /\ received' \subseteq Arrived
         /\ \/ received' = received
            \/ /\ Arrived' = Arrived /\ InQueue' = InQueue
               /\ Loaded(hook)' = Loaded(hook)
<1>1. CASE \E u \in strays : BotReceivesStray(u)
  BY <1>1 DEF Inv, BotReceivesStray, Arrived, InQueue, DataOf, Ids, Loaded
<1>2. CASE \E c \in 1..MaxConn : BotReceives(c)
  <2>1. PICK c \in 1..MaxConn : BotReceives(c)
    BY <1>2
  <2>2. Carried(hook, {c}) \subseteq Arrived
    <3>1. Carried(hook, {c}) \subseteq Carried(hook, Busy(hook))
      BY <2>1 DEF BotReceives, Carried, Busy, In
    <3> QED
      BY <3>1, OnlyArrived
  <2>3. hook'.loaded = hook.loaded
    BY <2>1 DEF BotReceives, Inv, HookOK, HookTyped, Shaped
  <2> QED
    BY <2>1, <2>2, <2>3 DEF BotReceives, Inv, Arrived, InQueue, DataOf, Ids, Loaded
<1>3. CASE ~(\E u \in strays : BotReceivesStray(u)) /\ ~\E c \in 1..MaxConn : BotReceives(c)
  BY <1>3 DEF Inv, Next, PushUpdate, Timer, AnswerOk, AnswerError, Hangup, AnswerGone,
     IdleHangup, Close, Open, DropPending, Collect, Tick
<1> QED
  BY <1>1, <1>2, <1>3

\* What the actor keeps has arrived, and what has arrived and is not settled
\* is still in the queue.
Accounted ==
  /\ InQueue \cup Loaded(hook) \subseteq Arrived
  /\ \A v \in Arrived : v \in Settled \/ v \in InQueue

LEMMA AllAccounted ==
  ASSUME Inv, OrderInv
  PROVE  Accounted
<1>1. InQueue \cup Loaded(hook) \subseteq Arrived
  BY OnlyArrived DEF Loaded
<1>2. ASSUME NEW v \in Arrived, v \notin Settled
      PROVE  v \in InQueue
  <2>1. PICK i \in Live(queue) : DataAt(queue, i) = v
    BY <1>2 DEF OrderInv, Told, World, QueueOK, Arrived
  <2> QED
    BY <2>1 DEF InQueue, DataOf, DataAt, Live
<1> QED
  BY <1>1, <1>2 DEF Accounted

(***************************************************************************)
(* The webhook keeps what UpdateDelivery promises: an update stays in the  *)
(* queue or with the actor until the bot has had it, unless it is excused. *)
(***************************************************************************)
THEOREM Delivers ==
  ASSUME IdsLast
  PROVE  Spec => DeliversUpdates
<1>1. Init => Delivery!Init
  <2> SUFFICES ASSUME Init PROVE Delivery!Init
    OBVIOUS
  <2>1. DOMAIN <<>> = {}
    OBVIOUS
  <2>2. Inv
    BY InitOK
  <2>3. Arrived = {} /\ received = {} /\ Loaded(hook) = {}
    BY <2>1 DEF Init, Arrived, Loaded, NewHook
  <2>4. InQueue = {}
    BY <2>2, <2>3, OnlyArrived
  <2> QED
    BY <2>3, <2>4 DEF Delivery!Init
<1>2. Inv /\ OrderInv /\ Accounted' /\ [Next]_vars => [Delivery!Step]_(Delivery!vars)
  <2> SUFFICES ASSUME Inv, OrderInv, Accounted', Next
               PROVE  Delivery!Step
    <3>1. UNCHANGED vars => UNCHANGED Delivery!vars
      BY DEF vars, Delivery!vars, Arrived, InQueue, DataOf, Ids, Loaded, Excused
    <3> QED
      BY <3>1
  <2>1. received \subseteq received'
    BY SettledGrows
  <2>2. Arrived \subseteq Arrived'
    BY DEF Next, PushUpdate, With, Arrived, Timer, BotReceives, AnswerOk, AnswerError, Hangup, AnswerGone,
       IdleHangup, BotReceivesStray, Close, Open, DropPending, Collect, Tick
  <2>3. received' \subseteq Arrived
    BY HandedOver
  <2>4. InQueue \cup Loaded(hook) \subseteq Arrived
    BY AllAccounted DEF Accounted
  <2>5. (InQueue \cup Loaded(hook) \subseteq Arrived)'
    BY DEF Accounted
  <2>6. \A v \in Arrived' : v \in Settled' \/ v \in InQueue'
    BY DEF Accounted
  <2>7. ASSUME NEW v \in InQueue \cup Loaded(hook) \cup (Arrived' \ Arrived),
               v \notin InQueue' \cup Loaded(hook)'
        PROVE  v \in received \cup Excused'
    <3>1. v \in Arrived'
      BY <2>2, <2>4
    <3>2. v \in received' \cup Excused'
      BY <2>6, <2>7, <3>1 DEF Settled
    <3>3. received' = received
      BY <2>7, HandedOver
    <3> QED
      BY <3>2, <3>3
  <2> QED
    BY <2>1, <2>2, <2>3, <2>5, <2>7 DEF Delivery!Step, Delivery!Taken
<1>3. Inv /\ OrderInv => Accounted
  BY AllAccounted
<1> QED
  BY <1>1, <1>2, <1>3, InvHolds, OrderHolds, PTL DEF Spec, DeliversUpdates, Delivery!Spec

=============================================================================

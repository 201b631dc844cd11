----------------------- MODULE WebhookDeliveryProofs -----------------------
(***************************************************************************)
(* Proofs about a webhook.                                                 *)
(***************************************************************************)
EXTENDS WebhookDelivery, TQueueProofs

-----------------------------------------------------------------------------
(***************************************************************************)
(* What an actor is between two calls.                                     *)
(***************************************************************************)
\* An update loaded from a queue whose events are those of D.
LoadedUpdate(D) ==
  {u \in [update : Update, chat : Nat \ {0}, wake : Nat, delay : Nat,
          fails : Nat, expires : Nat] :
     [data |-> u.update, expires |-> u.expires] \in D /\ u.chat = ChatOf[u.update]}

Conn == [state : {"closed", "idle", "sent", "received"}, id : Nat]

Shaped(h) ==
  h \in [offset : Nat, empty : BOOLEAN, loaded : {h.loaded},
         lists : {h.lists}, waiting : {h.waiting},
         conns : [1..MaxConn -> Conn], timer : Nat, closing : BOOLEAN]

HookTyped(h, D) ==
  /\ Shaped(h)
  /\ DOMAIN h.loaded \subseteq Nat
  /\ h.loaded \in [DOMAIN h.loaded -> LoadedUpdate(D)]
  /\ Chats(h) \subseteq Nat /\ IsFiniteSet(Chats(h))
  /\ Cardinality(Chats(h)) <= MaxLoaded
  /\ h.lists \in [Chats(h) -> Seq(DOMAIN h.loaded)]
  /\ h.waiting \subseteq [wake : Nat, chat : Chats(h)]

\* Every loaded update is once in the list of its chat.
ListOK(h, c) ==
  /\ 1 \in DOMAIN h.lists[c] /\ DOMAIN h.lists[c] \subseteq Nat \ {0}
  /\ \A k \in DOMAIN h.lists[c] :
       /\ h.lists[c][k] \in DOMAIN h.loaded
       /\ h.loaded[h.lists[c][k]].chat = c
  /\ \A k, l \in DOMAIN h.lists[c] : h.lists[c][k] = h.lists[c][l] => k = l

ListsOK(h) ==
  /\ \A c \in Chats(h) : ListOK(h, c)
  /\ \A id \in DOMAIN h.loaded :
       /\ h.loaded[id].chat \in Chats(h)
       /\ \E k \in DOMAIN h.lists[h.loaded[id].chat] : h.lists[h.loaded[id].chat][k] = id

First(h, c) == h.lists[c][1]

Waits(h, c) == \E w \in h.waiting : w.chat = c

ChatAt(h, k) == h.loaded[h.conns[k].id].chat

\* Every chat waits or is served, by one of the connections in B.
Serves(h, k) ==
  /\ h.conns[k].id \in DOMAIN h.loaded
  /\ h.conns[k].id = First(h, ChatAt(h, k))
  /\ ~Waits(h, ChatAt(h, k))

ServedOK(h, B) ==
  /\ \A v, w \in h.waiting : v.chat = w.chat => v = w
  /\ \A k \in B : Serves(h, k)
  /\ \A k, l \in B : h.conns[k].id = h.conns[l].id => k = l
  /\ \A c \in Chats(h) : Waits(h, c) \/ \E k \in B : h.conns[k].id = First(h, c)

HookOK(h, B, D) == HookTyped(h, D) /\ ListsOK(h) /\ ServedOK(h, B)

-----------------------------------------------------------------------------

(***************************************************************************)
(* About sequences.                                                        *)
(***************************************************************************)
\* A sequence is one of its own elements.
LEMMA SeqOf ==
  ASSUME NEW S, NEW T, NEW s \in Seq(S), \A k \in DOMAIN s : s[k] \in T
  PROVE  s \in Seq(T)
<1>1. s \in [1..Len(s) -> S] /\ Len(s) \in Nat /\ DOMAIN s = 1..Len(s)
  BY LenProperties
<1>2. s \in [1..Len(s) -> T]
  BY <1>1
<1> QED
  BY <1>1, <1>2, SeqDef

\* The head of a sequence is its first element, the tail has the others.
LEMMA HeadAndTail ==
  ASSUME NEW S, NEW s \in Seq(S), s # <<>>
  PROVE  /\ 1 \in DOMAIN s /\ Head(s) = s[1]
         /\ Tail(s) \in Seq(S)
         /\ DOMAIN Tail(s) = {k \in Nat \ {0} : k + 1 \in DOMAIN s}
         /\ \A k \in DOMAIN Tail(s) : Tail(s)[k] = s[k + 1]
         /\ Tail(s) = <<>> <=> DOMAIN s = {1}
<1>1. Len(s) \in Nat \ {0} /\ DOMAIN s = 1..Len(s)
  BY EmptySeq, LenProperties
<1>2. Tail(s) \in Seq(S) /\ Len(Tail(s)) = Len(s) - 1
  BY HeadTailProperties
<1>3. DOMAIN Tail(s) = 1..Len(s) - 1
  BY <1>2, LenProperties
<1>4. \A k \in 1..Len(s) - 1 : Tail(s)[k] = s[k + 1]
  BY <1>1, <1>2, HeadTailProperties
<1>5. Tail(s) = <<>> <=> Len(s) = 1
  <2>1. Tail(s) = <<>> <=> Len(Tail(s)) = 0
    BY <1>2, EmptySeq
  <2> QED
    BY <1>1, <1>2, <2>1
<1>6. {k \in Nat \ {0} : k + 1 \in 1..Len(s)} = 1..Len(s) - 1
  BY <1>1
<1>7. 1..Len(s) = {1} <=> Len(s) = 1
  BY <1>1
<1> QED
  BY <1>1, <1>2, <1>3, <1>4, <1>5, <1>6, <1>7

-----------------------------------------------------------------------------
(***************************************************************************)
(* An answer or the end of a connection: the connection no longer serves   *)
(* its chat, whose next update waits, or the same one waits again.         *)
(***************************************************************************)
\* The next update of the chat waits, if there is one.
LEMMA DropKeeps ==
  ASSUME NEW q, NEW h, NEW D, NEW B, HookOK(h, B, D), NEW k \in B
  PROVE  HookOK(DropEvent(q, h, h.conns[k].id).hook, B \ {k}, D)
<1> DEFINE id == h.conns[k].id
           chat == h.loaded[id].chat
           list == h.lists[chat]
           rest == Tail(list)
           g == DropEvent(q, h, id).hook
<1>1. /\ id \in DOMAIN h.loaded /\ chat \in Chats(h) /\ id = list[1]
      /\ ~Waits(h, chat)
  BY DEF HookOK, ServedOK, ListsOK, Serves, ChatAt, First
<1>2. /\ list \in Seq(DOMAIN h.loaded) /\ 1 \in DOMAIN list
      /\ DOMAIN list \subseteq Nat \ {0}
      /\ \A n \in DOMAIN list : list[n] \in DOMAIN h.loaded /\ h.loaded[list[n]].chat = chat
      /\ \A n, m \in DOMAIN list : list[n] = list[m] => n = m
  BY <1>1 DEF HookOK, HookTyped, ListsOK, ListOK
<1>2a. list # <<>>
  <2>1. 1 \notin DOMAIN <<>>
    OBVIOUS
  <2> QED
    BY <1>2, <2>1
<1>3. /\ rest \in Seq(DOMAIN h.loaded)
      /\ DOMAIN rest = {n \in Nat \ {0} : n + 1 \in DOMAIN list}
      /\ \A n \in DOMAIN rest : rest[n] = list[n + 1]
      /\ rest = <<>> <=> DOMAIN list = {1}
  BY <1>2, <1>2a, HeadAndTail
<1>4. g.loaded = [i \in DOMAIN h.loaded \ {id} |-> h.loaded[i]]
  BY DEF DropEvent, Without, HookOK, HookTyped, Shaped
<1>4l. g.lists = IF rest = <<>> THEN [c \in Chats(h) \ {chat} |-> h.lists[c]]
                 ELSE [h.lists EXCEPT ![chat] = rest]
  BY DEF DropEvent, Without, Chats, HookOK, HookTyped, Shaped
<1>4w. g.waiting = IF rest = <<>> THEN h.waiting
                   ELSE h.waiting \cup {[wake |-> h.loaded[Head(rest)].wake, chat |-> chat]}
  BY DEF DropEvent, HookOK, HookTyped, Shaped
<1>4c. g.conns = h.conns
  BY DEF DropEvent, HookOK, HookTyped, Shaped
<1>4t. Shaped(g)
  BY DEF DropEvent, HookOK, HookTyped, Shaped
<1> HIDE DEF g, rest, list
<1>5. \A n \in DOMAIN rest : rest[n] \in DOMAIN h.loaded \ {id} /\ h.loaded[rest[n]].chat = chat
  <2>1. ASSUME NEW n \in DOMAIN rest
        PROVE  rest[n] \in DOMAIN h.loaded \ {id} /\ h.loaded[rest[n]].chat = chat
    <3>1. n \in Nat \ {0} /\ n + 1 \in DOMAIN list /\ rest[n] = list[n + 1] /\ n + 1 # 1
      BY <1>3
    <3> QED
      BY <1>1, <1>2, <3>1
  <2> QED
    BY <2>1
<1>6. rest \in Seq(DOMAIN g.loaded)
  <2>1. DOMAIN g.loaded = DOMAIN h.loaded \ {id}
    BY <1>4
  <2> QED
    BY <1>3, <1>5, <2>1, SeqOf
<1>7. ASSUME NEW c \in Chats(h), c # chat
      PROVE  h.lists[c] \in Seq(DOMAIN g.loaded)
  <2>1. h.lists[c] \in Seq(DOMAIN h.loaded)
    BY DEF HookOK, HookTyped
  <2>2. \A n \in DOMAIN h.lists[c] : /\ h.lists[c][n] \in DOMAIN h.loaded
                                     /\ h.loaded[h.lists[c][n]].chat = c
    BY DEF HookOK, ListsOK, ListOK
  <2>3. DOMAIN g.loaded = DOMAIN h.loaded \ {id}
    BY <1>4
  <2>4. \A n \in DOMAIN h.lists[c] : h.lists[c][n] \in DOMAIN g.loaded
    BY <1>7, <2>2, <2>3
  <2> QED
    BY <2>1, <2>4, SeqOf
<1>a. /\ DOMAIN g.loaded = DOMAIN h.loaded \ {id}
      /\ \A i \in DOMAIN g.loaded : g.loaded[i] = h.loaded[i]
      /\ Chats(g) = IF rest = <<>> THEN Chats(h) \ {chat} ELSE Chats(h)
      /\ \A c \in Chats(g) : c # chat => g.lists[c] = h.lists[c]
      /\ rest # <<>> => g.lists[chat] = rest
  BY <1>1, <1>4, <1>4l DEF Chats, HookOK, HookTyped, Shaped
<1>b. rest # <<>> => 1 \in DOMAIN rest
  BY <1>3, <1>2
<1>8. HookTyped(g, D)
  <2>1. g.loaded \in [DOMAIN g.loaded -> LoadedUpdate(D)] /\ DOMAIN g.loaded \subseteq Nat
    <3>1. /\ \A i \in DOMAIN h.loaded : h.loaded[i] \in LoadedUpdate(D)
          /\ DOMAIN h.loaded \subseteq Nat
      BY DEF HookOK, HookTyped
    <3>2. g.loaded = [i \in DOMAIN g.loaded |-> g.loaded[i]]
      BY <1>4
    <3> QED
      BY <1>a, <3>1, <3>2
  <2>2. /\ Chats(g) \in SUBSET Chats(h)
        /\ Chats(h) \subseteq Nat /\ IsFiniteSet(Chats(h)) /\ Cardinality(Chats(h)) <= MaxLoaded
    BY <1>a DEF HookOK, HookTyped
  <2>3. /\ Chats(g) \subseteq Nat /\ IsFiniteSet(Chats(g))
        /\ Cardinality(Chats(g)) <= MaxLoaded
    <3>1. Cardinality(Chats(g)) <= Cardinality(Chats(h)) /\ IsFiniteSet(Chats(g))
      BY <2>2, FS_Subset
    <3>2. Cardinality(Chats(g)) \in Nat /\ Cardinality(Chats(h)) \in Nat /\ MaxLoaded \in Nat
      BY <2>2, <3>1, FS_CardinalityType, WebhookAssumption DEF MaxLoaded
    <3> QED
      BY <2>2, <3>1, <3>2
  <2>4. g.lists \in [Chats(g) -> Seq(DOMAIN g.loaded)]
    <3>1. \A c \in Chats(g) : g.lists[c] \in Seq(DOMAIN g.loaded)
      BY <1>6, <1>7, <1>a
    <3>2. g.lists = [c \in Chats(g) |-> g.lists[c]]
      BY <1>4l DEF Chats, HookOK, HookTyped, Shaped
    <3> QED
      BY <3>1, <3>2
  <2>5. g.waiting \subseteq [wake : Nat, chat : Chats(g)]
    <3>1. \A w \in h.waiting : w \in [wake : Nat, chat : Chats(h)] /\ w.chat # chat
      BY <1>1 DEF HookOK, HookTyped, Waits
    <3>2. \A w \in h.waiting : w \in [wake : Nat, chat : Chats(g)]
      BY <1>a, <3>1
    <3>3. rest # <<>> => h.loaded[Head(rest)].wake \in Nat
      <4>1. rest # <<>> => Head(rest) \in DOMAIN h.loaded
        BY <1>3, HeadTailProperties
      <4> QED
        BY <4>1 DEF HookOK, HookTyped, LoadedUpdate
    <3>4. rest # <<>> => [wake |-> h.loaded[Head(rest)].wake, chat |-> chat] \in [wake : Nat, chat : Chats(g)]
      BY <1>1, <1>a, <3>3
    <3> QED
      BY <1>4w, <3>2, <3>4
  <2> QED
    BY <1>4t, <2>1, <2>3, <2>4, <2>5 DEF HookTyped
<1>9. ListsOK(g)
  <2>1. ASSUME NEW c \in Chats(g)
        PROVE  ListOK(g, c)
    <3>1. CASE c # chat
      <4>1. ListOK(h, c) /\ g.lists[c] = h.lists[c]
        BY <1>a, <2>1, <3>1 DEF HookOK, ListsOK
      <4>2. \A n \in DOMAIN g.lists[c] : g.lists[c][n] \in DOMAIN g.loaded /\ g.loaded[g.lists[c][n]].chat = c
        <5>1. \A n \in DOMAIN h.lists[c] : h.lists[c][n] \in DOMAIN h.loaded /\ h.loaded[h.lists[c][n]].chat = c
          BY <4>1 DEF ListOK
        <5> QED
          BY <1>a, <3>1, <4>1, <5>1
      <4> QED
        BY <4>1, <4>2 DEF ListOK
    <3>2. CASE c = chat
      <4>1. rest # <<>> /\ g.lists[c] = rest /\ 1 \in DOMAIN rest
        BY <1>a, <1>b, <2>1, <3>2
      <4>2. \A n \in DOMAIN rest : rest[n] \in DOMAIN g.loaded /\ g.loaded[rest[n]].chat = c
        BY <1>5, <1>a, <3>2
      <4>3. \A n, m \in DOMAIN rest : rest[n] = rest[m] => n = m
        BY <1>2, <1>3
      <4>4. DOMAIN rest \subseteq Nat \ {0}
        BY <1>3
      <4> QED
        BY <4>1, <4>2, <4>3, <4>4 DEF ListOK
    <3> QED
      BY <3>1, <3>2
  <2>2. ASSUME NEW i \in DOMAIN g.loaded
        PROVE  /\ g.loaded[i].chat \in Chats(g)
               /\ \E n \in DOMAIN g.lists[g.loaded[i].chat] : g.lists[g.loaded[i].chat][n] = i
    <3> DEFINE c == h.loaded[i].chat
    <3>1. /\ i \in DOMAIN h.loaded /\ i # id /\ g.loaded[i].chat = c
          /\ c \in Chats(h) /\ \E n \in DOMAIN h.lists[c] : h.lists[c][n] = i
      BY <1>a, <2>2 DEF HookOK, ListsOK
    <3> HIDE DEF c
    <3>2. CASE c # chat
      BY <1>a, <3>1, <3>2
    <3>3. CASE c = chat
      <4>1. PICK n \in DOMAIN list : list[n] = i
        BY <3>1, <3>3 DEF list
      <4>2. n \in Nat \ {0} /\ n # 1
        BY <1>1, <1>2, <3>1, <4>1
      <4>3. n - 1 \in Nat \ {0} /\ (n - 1) + 1 = n
        BY <4>2
      <4>4. n - 1 \in DOMAIN rest /\ rest[n - 1] = i
        BY <1>3, <4>1, <4>3
      <4>5. rest # <<>>
        <5>1. DOMAIN <<>> = {}
          OBVIOUS
        <5> QED
          BY <4>4, <5>1
      <4> QED
        BY <1>1, <1>a, <3>1, <3>3, <4>4, <4>5
    <3> QED
      BY <3>2, <3>3
  <2> QED
    BY <2>1, <2>2 DEF ListsOK
<1>10. ServedOK(g, B \ {k})
  <2>1. /\ \A v, w \in h.waiting : v.chat = w.chat => v = w
        /\ \A l \in B : Serves(h, l)
        /\ \A l, m \in B : h.conns[l].id = h.conns[m].id => l = m
        /\ \A c \in Chats(h) : Waits(h, c) \/ \E l \in B : h.conns[l].id = First(h, c)
    BY DEF HookOK, ServedOK
  <2>2. \A c : c # chat => (Waits(g, c) <=> Waits(h, c))
    BY <1>4w DEF Waits
  <2>3. rest # <<>> => Waits(g, chat)
    <3>1. rest # <<>> => \E w \in g.waiting : w = [wake |-> h.loaded[Head(rest)].wake, chat |-> chat]
      BY <1>4w
    <3> QED
      BY <3>1 DEF Waits
  <2>4. \A v, w \in g.waiting : v.chat = w.chat => v = w
    BY <1>1, <1>4w, <2>1 DEF Waits
  <2>5. ASSUME NEW l \in B \ {k}
        PROVE  Serves(g, l) /\ ChatAt(h, l) # chat
    <3>1. /\ h.conns[l].id \in DOMAIN h.loaded /\ h.conns[l].id # id
          /\ h.conns[l].id = First(h, ChatAt(h, l)) /\ ~Waits(h, ChatAt(h, l))
          /\ ChatAt(h, l) \in Chats(h)
      BY <2>1, <2>5 DEF Serves, HookOK, ListsOK, ChatAt
    <3>2. ChatAt(h, l) # chat
      BY <1>1, <3>1 DEF First, list
    <3>3. ChatAt(g, l) = ChatAt(h, l) /\ First(g, ChatAt(h, l)) = First(h, ChatAt(h, l))
      BY <1>4c, <1>a, <3>1, <3>2 DEF ChatAt, First
    <3> QED
      BY <1>4c, <1>a, <2>2, <3>1, <3>2, <3>3 DEF Serves
  <2>6. \A l, m \in B \ {k} : g.conns[l].id = g.conns[m].id => l = m
    BY <1>4c, <2>1
  <2>7. ASSUME NEW c \in Chats(g)
        PROVE  Waits(g, c) \/ \E l \in B \ {k} : g.conns[l].id = First(g, c)
    <3>1. CASE c = chat
      BY <1>a, <2>3, <2>7, <3>1
    <3>2. CASE c # chat
      <4>1. c \in Chats(h) /\ First(g, c) = First(h, c)
        BY <1>a, <2>7, <3>2 DEF First
      <4>2. First(h, c) # id
        <5>1. h.loaded[First(h, c)].chat = c
          BY <4>1 DEF First, HookOK, ListsOK, ListOK
        <5> QED
          BY <3>2, <5>1
      <4> QED
        BY <1>4c, <2>1, <2>2, <3>2, <4>1, <4>2
    <3> QED
      BY <3>1, <3>2
  <2> QED
    BY <2>4, <2>5, <2>6, <2>7 DEF ServedOK
<1> QED
  BY <1>8, <1>9, <1>10, Zenon DEF HookOK, g

\* Nothing else of an actor matters to its chats than what it loaded, its
\* lists, who waits and the connections that serve.
LEMMA SameChats ==
  ASSUME NEW h, NEW g, NEW D, NEW B, HookOK(h, B, D), Shaped(g),
         g.loaded = h.loaded, g.lists = h.lists, g.waiting = h.waiting,
         \A k \in B : g.conns[k].id = h.conns[k].id
  PROVE  HookOK(g, B, D)
<1>1. Chats(g) = Chats(h)
  BY DEF Chats
<1>2. HookTyped(g, D)
  BY <1>1 DEF HookOK, HookTyped
<1>3. ListsOK(g)
  <2>1. \A c : ListOK(g, c) <=> ListOK(h, c)
    BY DEF ListOK
  <2> QED
    BY <1>1, <2>1 DEF HookOK, ListsOK
<1>4. ServedOK(g, B)
  <2>1. \A c : (Waits(g, c) <=> Waits(h, c)) /\ First(g, c) = First(h, c)
    BY DEF Waits, First
  <2>2. \A k \in B : ChatAt(g, k) = ChatAt(h, k) /\ g.conns[k].id = h.conns[k].id
    BY DEF ChatAt
  <2>3. \A k \in B : Serves(g, k) <=> Serves(h, k)
    BY <2>1, <2>2 DEF Serves
  <2> QED
    BY <1>1, <2>1, <2>2, <2>3 DEF HookOK, ServedOK
<1> QED
  BY <1>2, <1>3, <1>4 DEF HookOK

\* The update that failed waits to be sent again.
LEMMA RetryKeeps ==
  ASSUME NEW h, NEW D, NEW B, HookOK(h, B, D), NEW k \in B,
         NEW delay \in Nat, NEW wake \in Nat
  PROVE  LET id == h.conns[k].id
             u == h.loaded[id]
             g == [h EXCEPT
               !.loaded[id] = [u EXCEPT !.delay = delay, !.wake = wake, !.fails = @ + 1],
               !.waiting = @ \cup {[wake |-> wake, chat |-> u.chat]}]
         IN  HookOK(g, B \ {k}, D)
<1> DEFINE id == h.conns[k].id
           u == h.loaded[id]
           v == [u EXCEPT !.delay = delay, !.wake = wake, !.fails = @ + 1]
           chat == u.chat
           g == [h EXCEPT !.loaded[id] = v,
                          !.waiting = @ \cup {[wake |-> wake, chat |-> chat]}]
<1>1. /\ id \in DOMAIN h.loaded /\ chat \in Chats(h) /\ id = First(h, chat)
      /\ ~Waits(h, chat)
  BY DEF HookOK, ServedOK, ListsOK, Serves, ChatAt
<1>2. u \in LoadedUpdate(D)
  BY <1>1 DEF HookOK, HookTyped
<1>3. v \in LoadedUpdate(D) /\ v.chat = chat
  <2> HIDE DEF u
  <2>1. /\ u \in [update : Update, chat : Nat \ {0}, wake : Nat, delay : Nat,
                fails : Nat, expires : Nat]
        /\ [data |-> u.update, expires |-> u.expires] \in D /\ u.chat = ChatOf[u.update]
    BY <1>2 DEF LoadedUpdate
  <2>2. u.fails + 1 \in Nat
    BY <2>1
  <2>3. v \in [update : Update, chat : Nat \ {0}, wake : Nat, delay : Nat,
             fails : Nat, expires : Nat]
    BY <2>1, <2>2
  <2>4. v.update = u.update /\ v.expires = u.expires /\ v.chat = u.chat
    BY <2>1
  <2> QED
    BY <2>1, <2>3, <2>4 DEF LoadedUpdate
<1>4. g.loaded = [h.loaded EXCEPT ![id] = v]
  BY DEF HookOK, HookTyped, Shaped
<1>4w. g.waiting = h.waiting \cup {[wake |-> wake, chat |-> chat]}
  BY DEF HookOK, HookTyped, Shaped
<1>4l. g.lists = h.lists
  BY DEF HookOK, HookTyped, Shaped
<1>4c. g.conns = h.conns
  BY DEF HookOK, HookTyped, Shaped
<1>4t. Shaped(g)
  BY DEF HookOK, HookTyped, Shaped
<1> HIDE DEF g, v
<1>5. /\ DOMAIN g.loaded = DOMAIN h.loaded
      /\ g.loaded \in [DOMAIN h.loaded -> LoadedUpdate(D)]
      /\ \A i \in DOMAIN h.loaded : g.loaded[i].chat = h.loaded[i].chat
  BY <1>1, <1>3, <1>4 DEF HookOK, HookTyped
<1>6. Chats(g) = Chats(h)
  BY <1>4l DEF Chats
<1>7. HookTyped(g, D)
  <2>1. g.waiting \subseteq [wake : Nat, chat : Chats(g)]
    BY <1>1, <1>4w, <1>6 DEF HookOK, HookTyped
  <2>2. /\ DOMAIN h.loaded \subseteq Nat
        /\ Chats(h) \subseteq Nat /\ IsFiniteSet(Chats(h)) /\ Cardinality(Chats(h)) <= MaxLoaded
        /\ h.lists \in [Chats(h) -> Seq(DOMAIN h.loaded)]
    BY DEF HookOK, HookTyped
  <2> QED
    BY <1>4l, <1>4t, <1>5, <1>6, <2>1, <2>2 DEF HookTyped
<1>8. ListsOK(g)
  <2>1. \A c \in Chats(h) : ListOK(h, c)
    BY DEF HookOK, ListsOK
  <2>2. \A c \in Chats(h) : ListOK(g, c)
    BY <1>4l, <1>5, <2>1 DEF ListOK
  <2>3. \A i \in DOMAIN h.loaded :
          /\ h.loaded[i].chat \in Chats(h)
          /\ \E n \in DOMAIN h.lists[h.loaded[i].chat] : h.lists[h.loaded[i].chat][n] = i
    BY DEF HookOK, ListsOK
  <2> QED
    BY <1>4l, <1>5, <1>6, <2>2, <2>3 DEF ListsOK
<1>9. ServedOK(g, B \ {k})
  <2>1. /\ \A x, y \in h.waiting : x.chat = y.chat => x = y
        /\ \A l \in B : Serves(h, l)
        /\ \A l, m \in B : h.conns[l].id = h.conns[m].id => l = m
        /\ \A c \in Chats(h) : Waits(h, c) \/ \E l \in B : h.conns[l].id = First(h, c)
    BY DEF HookOK, ServedOK
  <2>2. \A c : c # chat => (Waits(g, c) <=> Waits(h, c))
    BY <1>4w DEF Waits
  <2>3. Waits(g, chat)
    <3>1. \E w \in g.waiting : w = [wake |-> wake, chat |-> chat]
      BY <1>4w
    <3> QED
      BY <3>1 DEF Waits
  <2>4. \A x, y \in g.waiting : x.chat = y.chat => x = y
    BY <1>1, <1>4w, <2>1 DEF Waits
  <2>5. \A c : First(g, c) = First(h, c)
    BY <1>4l DEF First
  <2>6. ASSUME NEW l \in B \ {k}
        PROVE  Serves(g, l)
    <3>1. /\ h.conns[l].id \in DOMAIN h.loaded /\ h.conns[l].id # id
          /\ h.conns[l].id = First(h, ChatAt(h, l)) /\ ~Waits(h, ChatAt(h, l))
      BY <2>1, <2>6 DEF Serves
    <3>2. ChatAt(h, l) # chat
      BY <1>1, <3>1
    <3>3. ChatAt(g, l) = ChatAt(h, l)
      BY <1>4c, <1>5, <3>1 DEF ChatAt
    <3> QED
      BY <1>4c, <1>5, <2>2, <2>5, <3>1, <3>2, <3>3 DEF Serves
  <2>7. \A l, m \in B \ {k} : g.conns[l].id = g.conns[m].id => l = m
    BY <1>4c, <2>1
  <2>8. ASSUME NEW c \in Chats(g)
        PROVE  Waits(g, c) \/ \E l \in B \ {k} : g.conns[l].id = First(g, c)
    <3>1. CASE c = chat
      BY <2>3, <3>1
    <3>2. CASE c # chat
      <4>1. c \in Chats(h) /\ ListOK(h, c)
        BY <1>6, <2>8 DEF HookOK, ListsOK
      <4>2. First(h, c) # id
        BY <3>2, <4>1 DEF First, ListOK
      <4> QED
        BY <1>4c, <2>1, <2>2, <2>5, <3>2, <4>1, <4>2
    <3> QED
      BY <3>1, <3>2
  <2> QED
    BY <2>4, <2>6, <2>7, <2>8 DEF ServedOK
<1> QED
  BY <1>7, <1>8, <1>9, Zenon DEF HookOK, g, v

\* The update that failed waits again, or is given up and the next waits.
LEMMA ErrorKeeps ==
  ASSUME NEW q, NEW h, NEW D, NEW B, HookOK(h, B, D), NEW k \in B,
         NEW retry \in Nat, NEW most \in Nat, now \in Nat
  PROVE  LET r == OnUpdateError(q, h, h.conns[k].id, retry, most)
         IN  /\ HookOK(r.hook, B \ {k}, D) /\ r.hook.conns = h.conns
             /\ r.queue \in {q, Forget(q, h.conns[k].id).queue}
<1>a. HookOK(DropEvent(q, h, h.conns[k].id).hook, B \ {k}, D)
  BY DropKeeps, Zenon
<1>b. \A delay, wake \in Nat :
        LET id == h.conns[k].id
            u == h.loaded[id]
            g == [h EXCEPT
               !.loaded[id] = [u EXCEPT !.delay = delay, !.wake = wake, !.fails = @ + 1],
               !.waiting = @ \cup {[wake |-> wake, chat |-> u.chat]}]
        IN  HookOK(g, B \ {k}, D)
  BY RetryKeeps, Zenon
<1> DEFINE id == h.conns[k].id
           u == h.loaded[id]
           r == OnUpdateError(q, h, id, retry, most)
           delay == NextDelay(u, retry, most)
           wake == now + Wait(u, retry, most)
<1>1. u \in LoadedUpdate(D)
  BY DEF HookOK, HookTyped, ServedOK, Serves
<1>2. u.delay \in Nat /\ u.fails \in Nat
  BY <1>1 DEF LoadedUpdate
<1>3. delay \in Nat /\ wake \in Nat
  <2>1. Min({most, 2 * u.delay}) \in Nat
    <3>1. {most, 2 * u.delay} \in SUBSET Nat /\ {most, 2 * u.delay} # {}
      BY <1>2
    <3> QED
      BY <3>1, MinOf
  <2> QED
    BY <1>2, <2>1 DEF NextDelay, Wait
<1> HIDE DEF delay, wake
<1>4. CASE GivesUp(u, retry, most)
  <2>1. r = DropEvent(q, h, id)
    BY <1>4 DEF OnUpdateError
  <2>3. /\ DropEvent(q, h, id).queue = Forget(q, id).queue
        /\ DropEvent(q, h, id).hook.conns = h.conns
    BY DEF DropEvent, HookOK, HookTyped, Shaped
  <2> QED
    BY <1>a, <2>1, <2>3
<1>5. CASE ~GivesUp(u, retry, most)
  <2> DEFINE g == [h EXCEPT
               !.loaded[id] = [u EXCEPT !.delay = delay, !.wake = wake, !.fails = @ + 1],
               !.waiting = @ \cup {[wake |-> wake, chat |-> u.chat]}]
  <2>1. r.queue = q /\ r.hook = g
    BY <1>5 DEF OnUpdateError, delay, wake
  <2>2. HookOK(g, B \ {k}, D)
    BY <1>3, <1>b, Zenon
  <2>3. g.conns = h.conns
    BY DEF HookOK, HookTyped, Shaped
  <2> HIDE DEF g, r
  <2>4. HookOK(r.hook, B \ {k}, D) /\ r.hook.conns = h.conns /\ r.queue \in {q, Forget(q, id).queue}
    BY <2>1, <2>2, <2>3
  <2> QED
    BY <2>4 DEF r
<1> QED
  BY <1>4, <1>5

\* New connections serve nobody yet.
LEMMA CreateKeeps ==
  ASSUME NEW h, NEW D, HookOK(h, Busy(h), D), now \in Nat, NEW g \in CreateConnections(h)
  PROVE  HookOK(g, Busy(g), D)
<1> DEFINE closed == In(h, "closed")
           have == MaxConn - Cardinality(closed)
           need == Max({1, Min({Cardinality(Chats(h)), MaxConn})})
           made(n) == {c \in closed : Cardinality({d \in closed : d < c}) < Min({n, need - have})}
<1>1. PICK n \in Luck : g = [h EXCEPT
         !.conns = [c \in 1..MaxConn |-> IF c \in made(n) THEN Idle ELSE @[c]],
         !.timer = IF Chats(h) # {} /\ have = 0 /\ n = 0 THEN now + 1 ELSE 0]
  BY DEF CreateConnections
<1> DEFINE M == made(n)
<1>2. M \subseteq closed
  OBVIOUS
<1> HIDE DEF M, have, need
<1>3. Shaped(h)
  BY DEF HookOK, HookTyped
<1>4. /\ g.loaded = h.loaded /\ g.lists = h.lists /\ g.waiting = h.waiting
      /\ g.conns = [c \in 1..MaxConn |-> IF c \in M THEN Idle ELSE h.conns[c]]
  BY <1>1, <1>3 DEF Shaped, M
<1>5. Shaped(g)
  <2>1. g.conns \in [1..MaxConn -> Conn]
    <3>1. h.conns \in [1..MaxConn -> Conn]
      BY <1>3 DEF Shaped
    <3>2. Idle \in Conn
      BY DEF Idle, Conn
    <3> QED
      BY <1>4, <3>1, <3>2
  <2>2. g.timer \in Nat /\ g = [h EXCEPT !.conns = g.conns, !.timer = g.timer]
    <3> DEFINE x == [c \in 1..MaxConn |-> IF c \in made(n) THEN Idle ELSE h.conns[c]]
               t == IF Chats(h) # {} /\ have = 0 /\ n = 0 THEN now + 1 ELSE 0
    <3>1. t \in Nat /\ g = [h EXCEPT !.conns = x, !.timer = t]
      BY <1>1
    <3> HIDE DEF x, t
    <3>2. g.conns = x /\ g.timer = t
      BY <1>3, <3>1 DEF Shaped
    <3> QED
      BY <3>1, <3>2
  <2> QED
    BY <1>3, <2>1, <2>2 DEF Shaped
<1>6. \A c \in 1..MaxConn : c \notin M => g.conns[c] = h.conns[c]
  BY <1>4
<1>7. \A c \in M : g.conns[c].state = "idle" /\ h.conns[c].state = "closed" /\ c \in 1..MaxConn
  BY <1>2, <1>4 DEF In, Idle
<1>8. Busy(g) = Busy(h) /\ Busy(h) \cap M = {} /\ Busy(h) \subseteq 1..MaxConn
  BY <1>6, <1>7 DEF Busy, In
<1>9. \A c \in Busy(h) : g.conns[c] = h.conns[c]
  BY <1>6, <1>8
<1> QED
  BY <1>4, <1>5, <1>8, <1>9, SameChats

\* Those that wait are as many as their chats; of any two one is sooner,
\* and comes before the other.
LEMMA WaitersRank ==
  ASSUME NEW h, NEW D, NEW B, HookOK(h, B, D), NEW due \in SUBSET h.waiting
  PROVE  /\ IsFiniteSet(due)
         /\ \A w \in due : Cardinality({v \in due : Sooner(v, w)}) \in Nat
         /\ \A v, w \in due :
              v # w => Cardinality({x \in due : Sooner(x, v)}) #
                       Cardinality({x \in due : Sooner(x, w)})
<1>1. /\ h.waiting \subseteq [wake : Nat, chat : Chats(h)]
      /\ Chats(h) \subseteq Nat /\ IsFiniteSet(Chats(h))
      /\ \A v, w \in h.waiting : v.chat = w.chat => v = w
  BY DEF HookOK, HookTyped, ServedOK
<1>2. IsFiniteSet(due)
  <2> DEFINE f == [w \in due |-> w.chat]
  <2>1. f \in [due -> Chats(h)]
    BY <1>1
  <2>2. \A v, w \in due : f[v] = f[w] => v = w
    BY <1>1
  <2> HIDE DEF f
  <2>3. f \in Injection(due, Chats(h))
    BY <2>1, <2>2 DEF Injection, IsInjective
  <2> QED
    BY <1>1, <2>3, FS_Injection
<1> DEFINE earlier(w) == {x \in due : Sooner(x, w)}
<1>3. \A w \in due : earlier(w) \in SUBSET due /\ IsFiniteSet(earlier(w)) /\ Cardinality(earlier(w)) \in Nat
  <2>1. ASSUME NEW w \in due
        PROVE  earlier(w) \in SUBSET due /\ IsFiniteSet(earlier(w)) /\ Cardinality(earlier(w)) \in Nat
    <3>1. earlier(w) \in SUBSET due
      OBVIOUS
    <3> HIDE DEF earlier
    <3>2. IsFiniteSet(earlier(w))
      BY <1>2, <3>1, FS_Subset
    <3> QED
      BY <3>1, <3>2, FS_CardinalityType
  <2> QED
    BY <2>1
<1>4. \A w \in due : w.wake \in Nat /\ w.chat \in Nat
  BY <1>1
<1>5. ASSUME NEW v \in due, NEW w \in due, Sooner(v, w)
      PROVE  Cardinality(earlier(v)) < Cardinality(earlier(w))
  <2>1. v \in earlier(w)
    BY <1>5
  <2>2. v \notin earlier(v)
    BY <1>4 DEF Sooner
  <2>3. earlier(v) \in SUBSET earlier(w)
    BY <1>4, <1>5 DEF Sooner
  <2> HIDE DEF earlier
  <2>4. /\ Cardinality(earlier(v)) <= Cardinality(earlier(w))
        /\ Cardinality(earlier(v)) # Cardinality(earlier(w))
    BY <1>3, <2>1, <2>2, <2>3, FS_Subset
  <2> QED
    BY <1>3, <2>4
<1>6. \A v, w \in due : v # w => Sooner(v, w) \/ Sooner(w, v)
  <2>1. \A v, w \in due : v # w => v.chat # w.chat
    BY <1>1
  <2> QED
    BY <1>4, <2>1 DEF Sooner
<1>7. \A v, w \in due : v # w => Cardinality(earlier(v)) # Cardinality(earlier(w))
  <2> HIDE DEF earlier
  <2> QED
    BY <1>3, <1>5, <1>6
<1> QED
  BY <1>2, <1>3, <1>7

\* The idle connections are listed each once.
LEMMA IdleListed ==
  ASSUME NEW h
  PROVE  LET idle == Ascending(In(h, "idle"))
         IN  /\ Len(idle) \in Nat
             /\ \A n \in 1..Len(idle) : idle[n] \in In(h, "idle")
             /\ \A m, n \in 1..Len(idle) : idle[m] = idle[n] => m = n
<1> DEFINE S == In(h, "idle")
<1>1. S \in SUBSET Nat /\ IsFiniteSet(S)
  <2>1. 1..MaxConn \subseteq Nat /\ IsFiniteSet(1..MaxConn) /\ S \in SUBSET (1..MaxConn)
    BY WebhookAssumption, FS_Interval DEF In
  <2> HIDE DEF S
  <2> QED
    BY <2>1, FS_Subset
<1> HIDE DEF S
<1>2. /\ Cardinality(S) \in Nat /\ Len(Ascending(S)) = Cardinality(S)
      /\ Ascending(S) \in [1..Cardinality(S) -> S]
  BY <1>1, AscendingLists, AscendingSeq
<1>3. \A m, n \in 1..Cardinality(S) : Ascending(S)[m] = Ascending(S)[n] => m = n
  <2>1. \A m, n \in 1..Cardinality(S) : m < n => Ascending(S)[m] < Ascending(S)[n]
    BY <1>1, AscendingGrows
  <2>2. \A n \in 1..Cardinality(S) : Ascending(S)[n] \in Nat
    BY <1>1, <1>2
  <2> QED
    BY <1>2, <2>1, <2>2
<1> QED
  BY <1>2, <1>3 DEF S

\* The chats that wait longest are served, each by one connection.
LEMMA SendKeeps ==
  ASSUME NEW h, NEW D, HookOK(h, Busy(h), D), now \in Nat
  PROVE  HookOK(SendUpdates(h), Busy(SendUpdates(h)), D)
<1> DEFINE I == In(h, "idle")
           idle == Ascending(I)
           due == {w \in h.waiting : w.wake <= now}
           rank(w) == Cardinality({v \in due : Sooner(v, w)}) + 1
           sending == {w \in due : rank(w) <= Len(idle)}
           left == h.waiting \ sending
           user(c) == {w \in sending : idle[rank(w)] = c}
           place(w) == idle[rank(w)]
           conns == [c \in 1..MaxConn |->
             IF user(c) = {} THEN h.conns[c]
             ELSE Sent(Head(h.lists[(CHOOSE w \in user(c) : TRUE).chat]))]
           g == SendUpdates(h)
<1>1. Shaped(h)
  BY DEF HookOK, HookTyped
<1>2. /\ g.loaded = h.loaded /\ g.lists = h.lists /\ g.waiting = left
      /\ g.conns = conns
  BY <1>1 DEF SendUpdates, Shaped
<1>3. g.timer \in Nat /\ g = [h EXCEPT !.waiting = left, !.conns = conns, !.timer = g.timer]
  <2> DEFINE T == {w.wake : w \in left} \cup ({h.timer} \ {0})
             C == Cardinality(sending) < Len(idle) /\ left # {}
             t == IF C THEN Min(T) ELSE h.timer
  <2>1. h.timer \in Nat
    BY <1>1 DEF Shaped
  <2>2. T \in SUBSET Nat
    <3>1. \A w \in left : w.wake \in Nat
      BY DEF HookOK, HookTyped
    <3> QED
      BY <2>1, <3>1
  <2>3. C => T # {}
    OBVIOUS
  <2>4. g = [h EXCEPT !.waiting = left, !.conns = conns, !.timer = t]
    BY DEF SendUpdates
  <2> HIDE DEF T, C, left, conns, g
  <2>5. t \in Nat
    BY <2>1, <2>2, <2>3, MinOf
  <2>6. g.timer = t
    BY <1>1, <2>4 DEF Shaped
  <2> QED
    BY <2>4, <2>5, <2>6
<1>4. /\ \A w \in sending : rank(w) \in 1..Len(idle)
      /\ \A v, w \in sending : rank(v) = rank(w) => v = w
  <2>1. due \in SUBSET h.waiting
    OBVIOUS
  <2> HIDE DEF due
  <2>2. /\ \A w \in due : Cardinality({v \in due : Sooner(v, w)}) \in Nat
        /\ \A v, w \in due :
              v # w => Cardinality({x \in due : Sooner(x, v)}) #
                       Cardinality({x \in due : Sooner(x, w)})
    BY <2>1, WaitersRank
  <2>3. Len(idle) \in Nat
    BY IdleListed
  <2> QED
    BY <2>2, <2>3
<1>5. /\ \A w \in sending : place(w) \in I
      /\ \A v, w \in sending : place(v) = place(w) => v = w
  <2>1. /\ \A n \in 1..Len(idle) : idle[n] \in I
        /\ \A m, n \in 1..Len(idle) : idle[m] = idle[n] => m = n
    BY IdleListed
  <2> HIDE DEF rank, sending, idle, I
  <2> QED
    BY <1>4, <2>1
<1>6. \A w \in sending : w \in h.waiting
  OBVIOUS
<1>7. \A c \in 1..MaxConn : user(c) = {w \in sending : place(w) = c}
  OBVIOUS
<1> HIDE DEF place, sending, rank, idle, due
<1>8. \A c \in 1..MaxConn \ I : conns[c] = h.conns[c]
  <2>1. \A c \in 1..MaxConn \ I : user(c) = {}
    BY <1>5, <1>7
  <2> QED
    BY <2>1
<1>9. \A w \in sending : place(w) \in 1..MaxConn /\ conns[place(w)] = Sent(Head(h.lists[w.chat]))
  <2>1. ASSUME NEW w \in sending
        PROVE  place(w) \in 1..MaxConn /\ conns[place(w)] = Sent(Head(h.lists[w.chat]))
    <3>1. place(w) \in 1..MaxConn
      BY <1>5 DEF In
    <3>2. user(place(w)) = {w}
      BY <1>5, <1>7, <3>1
    <3> QED
      BY <3>1, <3>2
  <2> QED
    BY <2>1
<1>10. \A c \in I : (\E w \in sending : place(w) = c) \/ conns[c] = h.conns[c]
  BY <1>7 DEF In
<1>11. \A w \in sending : w.chat \in Chats(h) /\ Head(h.lists[w.chat]) = First(h, w.chat)
  <2>1. ASSUME NEW w \in sending
        PROVE  w.chat \in Chats(h) /\ Head(h.lists[w.chat]) = First(h, w.chat)
    <3>1. w.chat \in Chats(h)
      BY <1>6 DEF HookOK, HookTyped
    <3>2. h.lists[w.chat] \in Seq(DOMAIN h.loaded) /\ 1 \in DOMAIN h.lists[w.chat]
      BY <3>1 DEF HookOK, HookTyped, ListsOK, ListOK
    <3> QED
      BY <3>1, <3>2 DEF First
  <2> QED
    BY <2>1
<1>12. \A c \in Chats(h) : First(h, c) \in DOMAIN h.loaded /\ h.loaded[First(h, c)].chat = c
  BY DEF HookOK, ListsOK, ListOK, First
<1>13. conns \in [1..MaxConn -> Conn]
  <2>1. \A w \in sending : Sent(Head(h.lists[w.chat])) \in Conn
    <3>1. \A w \in sending : Head(h.lists[w.chat]) \in Nat
      BY <1>11, <1>12 DEF HookOK, HookTyped
    <3> QED
      BY <3>1 DEF Conn, Sent
  <2>2. h.conns \in [1..MaxConn -> Conn]
    BY <1>1 DEF Shaped
  <2>3. conns = [c \in 1..MaxConn |-> conns[c]]
    OBVIOUS
  <2> HIDE DEF conns
  <2>4. \A c \in 1..MaxConn : conns[c] \in Conn
    BY <1>8, <1>9, <1>10, <2>1, <2>2
  <2> QED
    BY <2>3, <2>4
<1>14. Shaped(g)
  <2> HIDE DEF g, conns, left
  <2>1. g.waiting = left
    BY <1>2
  <2> QED
    BY <1>1, <1>2, <1>3, <1>13 DEF Shaped
<1> DEFINE P == {place(w) : w \in sending}
<1>15. Busy(g) = Busy(h) \cup P
  <2> HIDE DEF conns, g
  <2>0. g.conns = conns
    BY <1>2
  <2>1. ASSUME NEW w \in sending
        PROVE  g.conns[place(w)].state = "sent"
    <3>1. conns[place(w)] = Sent(Head(h.lists[w.chat]))
      BY <1>9
    <3> QED
      BY <2>0, <3>1 DEF Sent
  <2>2. P \subseteq I /\ \A c \in I : c \in P \/ conns[c] = h.conns[c]
    BY <1>5, <1>10
  <2> HIDE DEF P
  <2>3. \A c \in P : g.conns[c].state = "sent"
    BY <2>1 DEF P
  <2>4. \A c \in 1..MaxConn : c \in P \/ g.conns[c] = h.conns[c]
    BY <1>2, <1>8, <2>2
  <2> QED
    BY <2>2, <2>3, <2>4 DEF Busy, In
<1>16. Busy(h) \cap I = {} /\ Busy(h) \subseteq 1..MaxConn
  BY DEF Busy, In
<1>17. HookTyped(g, D)
  <2>1. left \subseteq h.waiting /\ Chats(g) = Chats(h)
    BY <1>2 DEF Chats
  <2> HIDE DEF g, left, conns
  <2> QED
    BY <1>2, <1>14, <2>1 DEF HookOK, HookTyped
<1>18. ListsOK(g)
  <2> HIDE DEF g
  <2>1. \A c : ListOK(g, c) <=> ListOK(h, c)
    BY <1>2 DEF ListOK
  <2>2. Chats(g) = Chats(h)
    BY <1>2 DEF Chats
  <2> QED
    BY <1>2, <2>1, <2>2 DEF HookOK, ListsOK
<1>19. ServedOK(g, Busy(g))
  <2> DEFINE B == Busy(h)
  <2>1. /\ \A v, w \in h.waiting : v.chat = w.chat => v = w
        /\ \A l \in B : Serves(h, l)
        /\ \A l, m \in B : h.conns[l].id = h.conns[m].id => l = m
        /\ \A c \in Chats(h) : Waits(h, c) \/ \E l \in B : h.conns[l].id = First(h, c)
    BY DEF HookOK, ServedOK
  <2>2. \A w \in h.waiting : w \in sending \/ w \in g.waiting
    BY <1>2
  <2>3. \A w \in g.waiting : w \in h.waiting /\ w \notin sending
    BY <1>2
  <2>4. /\ \A l \in B : g.conns[l] = h.conns[l]
        /\ \A w \in sending : g.conns[place(w)].id = First(h, w.chat)
    <3> HIDE DEF g, conns
    <3>1. \A l \in B : l \in 1..MaxConn \ I
      BY <1>16
    <3> HIDE DEF I, B
    <3>2. \A l \in B : g.conns[l] = h.conns[l]
      BY <1>2, <1>8, <3>1
    <3>3. ASSUME NEW w \in sending
          PROVE  g.conns[place(w)].id = First(h, w.chat)
      <4>1. g.conns[place(w)] = Sent(First(h, w.chat))
        BY <1>2, <1>9, <1>11
      <4> QED
        BY <4>1 DEF Sent
    <3> QED
      BY <3>2, <3>3
  <2>5. Chats(g) = Chats(h) /\ \A c : First(g, c) = First(h, c)
    BY <1>2 DEF Chats, First
  <2>6. \A w \in sending : /\ First(h, w.chat) \in DOMAIN h.loaded
                           /\ h.loaded[First(h, w.chat)].chat = w.chat
                           /\ Waits(h, w.chat) /\ ~Waits(g, w.chat)
    BY <1>6, <1>11, <1>12, <2>1, <2>3 DEF Waits
  <2> HIDE DEF g, B, conns, left, I
  <2>7. \A l \in B : Serves(g, l)
    <3>1. \A l \in B : ChatAt(g, l) = ChatAt(h, l)
      BY <1>2, <2>4 DEF ChatAt
    <3>2. \A c : Waits(g, c) => Waits(h, c)
      BY <2>3 DEF Waits
    <3> QED
      BY <1>2, <2>1, <2>4, <2>5, <3>1, <3>2 DEF Serves
  <2>8. \A w \in sending : Serves(g, place(w))
    <3>1. \A w \in sending : ChatAt(g, place(w)) = w.chat
      BY <1>2, <2>4, <2>6 DEF ChatAt
    <3> QED
      BY <1>2, <2>4, <2>5, <2>6, <3>1 DEF Serves
  <2>9. \A l \in B, w \in sending : g.conns[l].id # g.conns[place(w)].id
    BY <2>1, <2>4, <2>6 DEF Serves, ChatAt
  <2>10. \A v, w \in sending : g.conns[place(v)].id = g.conns[place(w)].id => v = w
    BY <1>6, <2>1, <2>4, <2>6
  <2>11. Busy(g) = B \cup P
    BY <1>15 DEF B
  <2>12. \A l \in Busy(g) : Serves(g, l)
    BY <2>7, <2>8, <2>11
  <2>13. \A l, m \in Busy(g) : g.conns[l].id = g.conns[m].id => l = m
    BY <2>1, <2>4, <2>9, <2>10, <2>11
  <2>14. \A c \in Chats(g) : Waits(g, c) \/ \E l \in Busy(g) : g.conns[l].id = First(g, c)
    <3>1. ASSUME NEW c \in Chats(h), ~Waits(g, c)
          PROVE  \E l \in Busy(g) : g.conns[l].id = First(g, c)
      <4>1. CASE Waits(h, c)
        <5>1. PICK w \in sending : w.chat = c
          BY <2>2, <3>1, <4>1 DEF Waits
        <5> QED
          BY <2>4, <2>5, <2>11, <5>1
      <4>2. CASE ~Waits(h, c)
        BY <2>1, <2>4, <2>5, <2>11, <4>2
      <4> QED
        BY <4>1, <4>2
    <3> QED
      BY <2>5, <3>1
  <2>15. \A v, w \in g.waiting : v.chat = w.chat => v = w
    BY <2>1, <2>3
  <2> QED
    BY <2>12, <2>13, <2>14, <2>15 DEF ServedOK
<1> QED
  BY <1>17, <1>18, <1>19 DEF HookOK

-----------------------------------------------------------------------------
(***************************************************************************)
(* load_updates(): what is loaded comes after what the lists hold.         *)
(***************************************************************************)
\* The updates of a chat in the order of their ids.
LEMMA OfChat ==
  ASSUME NEW S \in SUBSET Nat, IsFiniteSet(S)
  PROVE  /\ Ascending(S) \in Seq(S) /\ Len(Ascending(S)) \in Nat
         /\ DOMAIN Ascending(S) = 1..Len(Ascending(S))
         /\ \A k \in DOMAIN Ascending(S) : Ascending(S)[k] \in S
         /\ \A i \in S : \E k \in DOMAIN Ascending(S) : Ascending(S)[k] = i
         /\ \A k, l \in DOMAIN Ascending(S) : k < l => Ascending(S)[k] < Ascending(S)[l]
<1>1. /\ Cardinality(S) \in Nat
      /\ Ascending(S) \in [1..Cardinality(S) -> S]
      /\ \A i \in S : \E k \in 1..Cardinality(S) : Ascending(S)[k] = i
  BY AscendingLists
<1>2. /\ Ascending(S) \in Seq(S) /\ Len(Ascending(S)) = Cardinality(S)
      /\ DOMAIN Ascending(S) = 1..Cardinality(S)
  BY AscendingSeq
<1>3. \A k, l \in 1..Cardinality(S) : k < l => Ascending(S)[k] < Ascending(S)[l]
  BY AscendingGrows
<1> QED
  BY <1>1, <1>2, <1>3

\* What joining two sequences without a common element keeps.
LEMMA Joined ==
  ASSUME NEW S, NEW s \in Seq(S), NEW t \in Seq(S)
  PROVE  LET u == s \o t
         IN  /\ u \in Seq(S) /\ DOMAIN u = 1..Len(s) + Len(t)
             /\ Len(s) \in Nat /\ Len(t) \in Nat
             /\ DOMAIN s = 1..Len(s) /\ DOMAIN t = 1..Len(t)
             /\ \A k \in DOMAIN s : k \in DOMAIN u /\ u[k] = s[k]
             /\ \A k \in DOMAIN t : k + Len(s) \in DOMAIN u /\ u[k + Len(s)] = t[k]
             /\ \A k \in DOMAIN u : k \in DOMAIN s \/ (k - Len(s) \in DOMAIN t /\ u[k] = t[k - Len(s)])
<1> DEFINE u == s \o t
<1>1. /\ u \in Seq(S) /\ Len(u) = Len(s) + Len(t)
      /\ \A i \in 1..Len(s) + Len(t) : u[i] = IF i <= Len(s) THEN s[i] ELSE t[i - Len(s)]
  BY ConcatProperties
<1>2. /\ Len(s) \in Nat /\ Len(t) \in Nat /\ DOMAIN s = 1..Len(s) /\ DOMAIN t = 1..Len(t)
  BY LenProperties
<1>3. DOMAIN u = 1..Len(s) + Len(t)
  BY <1>1, LenProperties
<1> HIDE DEF u
<1>4. \A k \in 1..Len(s) : k \in 1..Len(s) + Len(t) /\ u[k] = s[k]
  BY <1>1, <1>2
<1>5. \A k \in 1..Len(t) : k + Len(s) \in 1..Len(s) + Len(t) /\ u[k + Len(s)] = t[k]
  <2>1. ASSUME NEW k \in 1..Len(t)
        PROVE  k + Len(s) \in 1..Len(s) + Len(t) /\ u[k + Len(s)] = t[k]
    <3>1. k + Len(s) \in 1..Len(s) + Len(t) /\ ~(k + Len(s) <= Len(s)) /\ (k + Len(s)) - Len(s) = k
      BY <1>2
    <3> QED
      BY <1>1, <3>1
  <2> QED
    BY <2>1
<1>6. \A k \in 1..Len(s) + Len(t) : k \in 1..Len(s) \/ (k - Len(s) \in 1..Len(t) /\ u[k] = t[k - Len(s)])
  <2>1. ASSUME NEW k \in 1..Len(s) + Len(t), k \notin 1..Len(s)
        PROVE  k - Len(s) \in 1..Len(t) /\ u[k] = t[k - Len(s)]
    <3>1. k \in Int /\ ~(k <= Len(s)) /\ k - Len(s) \in 1..Len(t)
      BY <1>2, <2>1
    <3> QED
      BY <1>1, <3>1
  <2> QED
    BY <2>1
<1> QED
  BY <1>1, <1>2, <1>3, <1>4, <1>5, <1>6 DEF u

\* A list to which the ids of S are added.
LEMMA ListGrows ==
  ASSUME NEW N \in SUBSET Nat, NEW s \in Seq(N), NEW S \in SUBSET N, IsFiniteSet(S),
         \A k \in DOMAIN s : s[k] \notin S,
         \A k, l \in DOMAIN s : s[k] = s[l] => k = l
  PROVE  LET u == s \o Ascending(S)
         IN  /\ u \in Seq(N) /\ DOMAIN u \subseteq Nat \ {0}
             /\ 1 \in DOMAIN s => 1 \in DOMAIN u /\ u[1] = s[1]
             /\ S # {} => 1 \in DOMAIN u
             /\ \A k \in DOMAIN u : u[k] \in S \/ \E l \in DOMAIN s : u[k] = s[l]
             /\ \A k \in DOMAIN s : \E l \in DOMAIN u : u[l] = s[k]
             /\ \A i \in S : \E l \in DOMAIN u : u[l] = i
             /\ \A k, l \in DOMAIN u : u[k] = u[l] => k = l
<1> DEFINE t == Ascending(S)
           u == s \o t
<1>1. /\ t \in Seq(S) /\ Len(t) \in Nat /\ DOMAIN t = 1..Len(t)
      /\ \A k \in DOMAIN t : t[k] \in S
      /\ \A i \in S : \E k \in DOMAIN t : t[k] = i
      /\ \A k, l \in DOMAIN t : k < l => t[k] < t[l]
  BY OfChat
<1> HIDE DEF t
<1>2. t \in Seq(N)
  BY <1>1, SeqOf
<1>3. /\ u \in Seq(N) /\ DOMAIN u = 1..Len(s) + Len(t)
      /\ Len(s) \in Nat /\ DOMAIN s = 1..Len(s)
      /\ \A k \in DOMAIN s : k \in DOMAIN u /\ u[k] = s[k]
      /\ \A k \in DOMAIN t : k + Len(s) \in DOMAIN u /\ u[k + Len(s)] = t[k]
      /\ \A k \in DOMAIN u : k \in DOMAIN s \/ (k - Len(s) \in DOMAIN t /\ u[k] = t[k - Len(s)])
  BY <1>2, Joined
<1> HIDE DEF u
<1>4. \A k, l \in DOMAIN t : t[k] = t[l] => k = l
  <2>1. ASSUME NEW k \in DOMAIN t, NEW l \in DOMAIN t, t[k] = t[l]
        PROVE  k = l
    <3>0. t[k] \in S /\ k \in 1..Len(t) /\ l \in 1..Len(t)
      BY <1>1
    <3>a. t[k] \in Nat
      BY <3>0
    <3>1. k \in Int /\ l \in Int /\ t[k] \in Int
      BY <3>0, <3>a
    <3>2. ~(t[k] < t[l]) /\ ~(t[l] < t[k])
      BY <2>1, <3>1
    <3> QED
      BY <1>1, <3>1, <3>2
  <2> QED
    BY <2>1
<1>5. S # {} => 1 \in DOMAIN u
  <2>1. ASSUME NEW i \in S
        PROVE  Len(t) >= 1
    <3>1. PICK k \in 1..Len(t) : t[k] = i
      BY <1>1
    <3> QED
      BY <1>1, <3>1
  <2>2. S # {} => Len(t) >= 1
    BY <2>1
  <2>3. Len(t) >= 1 => 1 \in 1..Len(s) + Len(t)
    BY <1>1, <1>3
  <2> QED
    BY <1>3, <2>2, <2>3
<1>6. \A k, l \in DOMAIN u : u[k] = u[l] => k = l
  <2>1. ASSUME NEW k \in DOMAIN u, NEW l \in DOMAIN u, u[k] = u[l]
        PROVE  k = l
    <3>1. k \in Int /\ l \in Int
      BY <1>3
    <3>2. CASE k \in DOMAIN s /\ l \in DOMAIN s
      BY <1>3, <2>1, <3>2
    <3>3. CASE k \notin DOMAIN s /\ l \notin DOMAIN s
      <4>1. k - Len(s) \in DOMAIN t /\ l - Len(s) \in DOMAIN t /\ t[k - Len(s)] = t[l - Len(s)]
        BY <1>3, <2>1, <3>3
      <4>2. k - Len(s) = l - Len(s)
        BY <1>4, <4>1
      <4> QED
        BY <1>3, <3>1, <4>2
    <3>4. CASE k \in DOMAIN s /\ l \notin DOMAIN s
      BY <1>1, <1>3, <2>1, <3>4
    <3>5. CASE k \notin DOMAIN s /\ l \in DOMAIN s
      BY <1>1, <1>3, <2>1, <3>5
    <3> QED
      BY <3>2, <3>3, <3>4, <3>5
  <2> QED
    BY <2>1
<1>7. \A k \in DOMAIN u : u[k] \in S \/ \E l \in DOMAIN s : u[k] = s[l]
  BY <1>1, <1>3
<1>8. \A i \in S : \E l \in DOMAIN u : u[l] = i
  <2>1. ASSUME NEW i \in S
        PROVE  \E l \in DOMAIN u : u[l] = i
    <3>1. PICK k \in DOMAIN t : t[k] = i
      BY <1>1
    <3> QED
      BY <1>3, <3>1
  <2> QED
    BY <2>1
<1>9. \A k \in DOMAIN s : \E l \in DOMAIN u : u[l] = s[k]
  BY <1>3
<1> QED
  BY <1>1, <1>3, <1>5, <1>6, <1>7, <1>8, <1>9 DEF u, t

\* The lists of the chats grow; a chat that had none waits.
LEMMA LoadKeeps ==
  ASSUME NEW h, NEW D, NEW B, HookOK(h, B, D), D \subseteq Event, now \in Nat,
         NEW from \in Nat, NEW r, NEW new \in SUBSET (1..MaxId - 2),
         new \cap DOMAIN h.loaded = {},
         Cardinality(Chats(h)) + Cardinality(new) <= MaxLoaded,
         \A i \in new : r.queue.events[i] \in D /\ r.queue.events[i].data # Nothing
  PROVE  HookOK(Load(h, from, r, new).hook, B, D)
<1> DEFINE chat(id) == ChatOf[r.queue.events[id].data]
           listed == {chat(id) : id \in new}
           old(c) == IF c \in Chats(h) THEN h.lists[c] ELSE <<>>
           entry(id) == [update |-> r.queue.events[id].data, chat |-> chat(id),
                         wake |-> now, delay |-> 1, fails |-> 0,
                         expires |-> r.queue.events[id].expires]
           ofChat(c) == {id \in new : chat(id) = c}
           waiters == {[wake |-> now, chat |-> c] : c \in listed \ Chats(h)}
           g == Load(h, from, r, new).hook
<1>1. new \in SUBSET Nat /\ IsFiniteSet(new) /\ Cardinality(new) \in Nat
  <2>1. 1..MaxId - 2 \subseteq Nat /\ IsFiniteSet(1..MaxId - 2)
    BY QueueAssumption, FS_Interval
  <2> QED
    BY <2>1, FS_Subset, FS_CardinalityType
<1>2. ASSUME NEW id \in new
      PROVE  entry(id) \in LoadedUpdate(D) /\ entry(id).chat = chat(id) /\ chat(id) \in Nat \ {0}
  <2> DEFINE e == r.queue.events[id]
  <2>1. e \in D /\ e \in Event /\ e.data # Nothing
    OBVIOUS
  <2> HIDE DEF e
  <2>2. e.data \in Update /\ e.expires \in Nat /\ e = [data |-> e.data, expires |-> e.expires]
    BY <2>1 DEF Event
  <2>3. ChatOf[e.data] \in Nat \ {0}
    BY <2>2, WebhookAssumption
  <2> QED
    BY <2>1, <2>2, <2>3 DEF LoadedUpdate, e
<1>3. Shaped(h)
  BY DEF HookOK, HookTyped
<1>4. g.loaded = [id \in DOMAIN h.loaded \cup new |->
                    IF id \notin new THEN h.loaded[id] ELSE entry(id)]
  BY <1>3 DEF Load, Shaped
<1>5. g.lists = [c \in Chats(h) \cup listed |-> old(c) \o Ascending(ofChat(c))]
  BY <1>3 DEF Load, Shaped
<1>6. g.waiting = h.waiting \cup waiters
  BY <1>3 DEF Load, Shaped
<1>7. g.conns = h.conns
  BY <1>3 DEF Load, Shaped
<1>8. Shaped(g)
  <2> DEFINE o == IF new = {} THEN from ELSE Max(new) + 1
  <2>1. o \in Nat
    <3>1. new \in SUBSET (0..MaxId) /\ MaxId \in Nat
      BY QueueAssumption
    <3>2. new # {} => Max(new) \in new
      BY <3>1, MaxOf
    <3>3. new # {} => Max(new) \in Nat
      BY <1>1, <3>2, Zenon
    <3>4. new # {} => Max(new) + 1 \in Nat
      BY <3>3
    <3> QED
      BY <3>4
  <2>2. /\ g = [h EXCEPT !.empty = g.empty, !.offset = o, !.loaded = g.loaded,
                         !.lists = g.lists, !.waiting = g.waiting]
        /\ g.empty \in BOOLEAN
    <3> DEFINE em == r.ids = {}
    <3>1. g = [h EXCEPT !.empty = em, !.offset = o, !.loaded = g.loaded,
                        !.lists = g.lists, !.waiting = g.waiting]
      <4> HIDE DEF entry, ofChat, old, listed, waiters
      <4>1. g = [h EXCEPT !.empty = em, !.offset = o,
                   !.loaded = [id \in DOMAIN h.loaded \cup new |->
                      IF id \notin new THEN h.loaded[id] ELSE entry(id)],
                   !.lists = [c \in Chats(h) \cup listed |-> old(c) \o Ascending(ofChat(c))],
                   !.waiting = @ \cup waiters]
        BY DEF Load, entry, ofChat, old, listed, waiters
      <4> HIDE DEF g
      <4> QED
        BY <1>4, <1>5, <1>6, <4>1
    <3>2. em \in BOOLEAN
      OBVIOUS
    <3> HIDE DEF em, g
    <3>3. g.empty = em
      BY <1>3, <3>1 DEF Shaped
    <3> QED
      BY <3>1, <3>2, <3>3
  <2> HIDE DEF g, o
  <2> QED
    BY <1>3, <2>1, <2>2 DEF Shaped
<1> HIDE DEF g, waiters
<1>9. /\ DOMAIN g.loaded = DOMAIN h.loaded \cup new
      /\ DOMAIN g.loaded \in SUBSET Nat
      /\ \A i \in DOMAIN h.loaded : g.loaded[i] = h.loaded[i]
      /\ \A i \in new : g.loaded[i] = entry(i)
  <2> HIDE DEF entry
  <2>1. DOMAIN h.loaded \subseteq Nat
    BY DEF HookOK, HookTyped
  <2> QED
    BY <1>1, <1>4, <2>1
<1>10. Chats(g) = Chats(h) \cup listed /\ \A c \in Chats(g) : g.lists[c] = old(c) \o Ascending(ofChat(c))
  BY <1>5 DEF Chats
<1>11. listed \subseteq Nat \ {0} /\ \A i \in new : g.loaded[i].chat = chat(i)
  BY <1>2, <1>9
<1>12. \A c : ofChat(c) \in SUBSET new /\ (ofChat(c) # {} <=> c \in listed)
  OBVIOUS
<1>13. \A i, c : i \in ofChat(c) <=> i \in new /\ g.loaded[i].chat = c
  BY <1>11
<1> DEFINE N == DOMAIN g.loaded
<1>14. \A c \in Chats(h) : /\ h.lists[c] \in Seq(DOMAIN h.loaded) /\ ListOK(h, c)
                           /\ c \in Nat
  BY DEF HookOK, HookTyped, ListsOK
<1>15. \A c \in Chats(h) : h.lists[c] \in Seq(N)
  <2>1. ASSUME NEW c \in Chats(h)
        PROVE  h.lists[c] \in Seq(N)
    <3>1. \A k \in DOMAIN h.lists[c] : h.lists[c][k] \in N
      BY <1>9, <1>14 DEF ListOK
    <3> HIDE DEF N
    <3> QED
      BY <1>14, <3>1, SeqOf
  <2> QED
    BY <2>1
<1> HIDE DEF N, ofChat, chat, entry, listed
<1>16. ASSUME NEW c \in Chats(g)
       PROVE  LET u == g.lists[c]
              IN /\ u \in Seq(N)
                 /\ ListOK(g, c)
                 /\ c \in Chats(h) => First(g, c) = First(h, c) /\ \A k \in DOMAIN h.lists[c] : \E l \in DOMAIN u : u[l] = h.lists[c][k]
                 /\ \A i \in ofChat(c) : \E l \in DOMAIN u : u[l] = i
  <2> DEFINE s == old(c)
             S == ofChat(c)
             u == s \o Ascending(S)
  <2>1. N \in SUBSET Nat /\ S \in SUBSET N /\ IsFiniteSet(S)
    <3>1. S \in SUBSET new
      BY <1>12
    <3>2. IsFiniteSet(S)
      BY <1>1, <3>1, FS_Subset
    <3> QED
      BY <1>9, <3>1, <3>2 DEF N
  <2>2. s \in Seq(N)
    BY <1>15
  <2>3. \A k \in DOMAIN s : s[k] \notin S /\ s[k] \in DOMAIN h.loaded /\ h.loaded[s[k]].chat = c
    <3>1. CASE c \in Chats(h)
      <4>1. \A k \in DOMAIN s : s[k] \in DOMAIN h.loaded /\ h.loaded[s[k]].chat = c
        BY <1>14, <3>1 DEF ListOK
      <4>2. S \cap DOMAIN h.loaded = {}
        BY <1>12
      <4> QED
        BY <4>1, <4>2
    <3>2. CASE c \notin Chats(h)
      <4>1. DOMAIN <<>> = {}
        OBVIOUS
      <4> QED
        BY <3>2, <4>1
    <3> QED
      BY <3>1, <3>2
  <2>4. \A k, l \in DOMAIN s : s[k] = s[l] => k = l
    <3>1. CASE c \in Chats(h)
      BY <1>14, <3>1 DEF ListOK
    <3>2. CASE c \notin Chats(h)
      <4>1. DOMAIN <<>> = {}
        OBVIOUS
      <4> QED
        BY <3>2, <4>1
    <3> QED
      BY <3>1, <3>2
  <2>5. c \in Chats(h) => s = h.lists[c] /\ 1 \in DOMAIN s
    BY <1>14 DEF ListOK
  <2>6. c \notin Chats(h) => S # {}
    BY <1>10, <1>12, <1>16
  <2>7. g.lists[c] = u
    BY <1>10, <1>16
  <2> HIDE DEF s, S
  <2>8. /\ u \in Seq(N) /\ DOMAIN u \subseteq Nat \ {0}
        /\ 1 \in DOMAIN s => 1 \in DOMAIN u /\ u[1] = s[1]
        /\ S # {} => 1 \in DOMAIN u
        /\ \A k \in DOMAIN u : u[k] \in S \/ \E l \in DOMAIN s : u[k] = s[l]
        /\ \A k \in DOMAIN s : \E l \in DOMAIN u : u[l] = s[k]
        /\ \A i \in S : \E l \in DOMAIN u : u[l] = i
        /\ \A k, l \in DOMAIN u : u[k] = u[l] => k = l
    BY <2>1, <2>2, <2>3, <2>4, ListGrows
  <2> HIDE DEF u
  <2>9. 1 \in DOMAIN u
    BY <2>5, <2>6, <2>8
  <2>10. \A k \in DOMAIN u : u[k] \in DOMAIN g.loaded /\ g.loaded[u[k]].chat = c
    <3>1. \A i \in S : i \in new /\ g.loaded[i].chat = c
      BY <1>13 DEF S
    <3>2. \A k \in DOMAIN s : s[k] \in DOMAIN h.loaded /\ g.loaded[s[k]].chat = c
      BY <1>9, <2>3
    <3> QED
      BY <1>9, <2>8, <3>1, <3>2
  <2>11. ListOK(g, c)
    BY <2>7, <2>8, <2>9, <2>10 DEF ListOK
  <2>12. c \in Chats(h) => First(g, c) = First(h, c)
    BY <2>5, <2>7, <2>8 DEF First
  <2> QED
    BY <2>5, <2>7, <2>8, <2>11, <2>12 DEF S
<1>17. HookTyped(g, D)
  <2>1. g.loaded \in [DOMAIN g.loaded -> LoadedUpdate(D)]
    <3>1. \A i \in DOMAIN h.loaded : g.loaded[i] \in LoadedUpdate(D)
      BY <1>9 DEF HookOK, HookTyped
    <3>2. \A i \in new : g.loaded[i] \in LoadedUpdate(D)
      BY <1>2, <1>9 
    <3>3. g.loaded = [i \in DOMAIN g.loaded |-> g.loaded[i]]
      BY <1>4
    <3> QED
      BY <1>9, <3>1, <3>2, <3>3
  <2>2. /\ Chats(g) \subseteq Nat /\ IsFiniteSet(Chats(g))
        /\ Cardinality(Chats(g)) <= MaxLoaded
    <3>1. Chats(h) \subseteq Nat /\ IsFiniteSet(Chats(h)) /\ Cardinality(Chats(h)) \in Nat
      BY FS_CardinalityType DEF HookOK, HookTyped
    <3>2. IsFiniteSet(listed) /\ Cardinality(listed) <= Cardinality(new)
      <4> DEFINE f == [i \in new |-> chat(i)]
      <4>1. f \in Surjection(new, listed)
        BY DEF Surjection, listed
      <4> HIDE DEF f
      <4> QED
        BY <1>1, <4>1, FS_Surjection
    <3>3. Cardinality(listed) \in Nat
      BY <3>2, FS_CardinalityType
    <3>4. /\ IsFiniteSet(Chats(h) \cup listed)
          /\ Cardinality(Chats(h) \cup listed) = Cardinality(Chats(h)) + Cardinality(listed)
                                                 - Cardinality(Chats(h) \cap listed)
      BY <3>1, <3>2, FS_Union
    <3>5. Cardinality(Chats(h) \cap listed) \in Nat
      <4>1. Chats(h) \cap listed \in SUBSET listed
        OBVIOUS
      <4> QED
        BY <3>2, <4>1, FS_Subset, FS_CardinalityType
    <3>6. MaxLoaded \in Nat
      BY WebhookAssumption DEF MaxLoaded
    <3>7. Cardinality(Chats(h) \cup listed) <= MaxLoaded
      BY <1>1, <3>1, <3>2, <3>3, <3>4, <3>5, <3>6
    <3> QED
      BY <1>10, <1>11, <3>1, <3>4, <3>7
  <2>3. g.lists \in [Chats(g) -> Seq(DOMAIN g.loaded)]
    <3>1. g.lists = [c \in Chats(g) |-> g.lists[c]]
      BY <1>5 DEF Chats
    <3> QED
      BY <1>16, <3>1 DEF N
  <2>4. g.waiting \subseteq [wake : Nat, chat : Chats(g)]
    <3>1. h.waiting \subseteq [wake : Nat, chat : Chats(h)]
      BY DEF HookOK, HookTyped
    <3> QED
      BY <1>6, <1>10, <3>1 DEF waiters
  <2> QED
    BY <1>8, <1>9, <2>1, <2>2, <2>3, <2>4 DEF HookTyped
<1>18. ListsOK(g)
  <2>1. ASSUME NEW i \in DOMAIN g.loaded
        PROVE  /\ g.loaded[i].chat \in Chats(g)
               /\ \E k \in DOMAIN g.lists[g.loaded[i].chat] : g.lists[g.loaded[i].chat][k] = i
    <3> DEFINE c == g.loaded[i].chat
    <3>1. CASE i \in DOMAIN h.loaded
      <4>1. /\ c = h.loaded[i].chat /\ c \in Chats(h)
            /\ \E k \in DOMAIN h.lists[c] : h.lists[c][k] = i
        BY <1>9, <3>1 DEF HookOK, ListsOK
      <4> HIDE DEF c
      <4>2. c \in Chats(g)
        BY <1>10, <4>1
      <4>3. \A k \in DOMAIN h.lists[c] : \E l \in DOMAIN g.lists[c] : g.lists[c][l] = h.lists[c][k]
        BY <1>16, <4>1, <4>2
      <4>4. \E l \in DOMAIN g.lists[c] : g.lists[c][l] = i
        BY <4>1, <4>3
      <4> QED
        BY <4>2, <4>4 DEF c
    <3>2. CASE i \in new
      <4>1. i \in ofChat(c) /\ c \in listed
        BY <1>12, <1>13, <3>2
      <4> HIDE DEF c
      <4>2. c \in Chats(g)
        BY <1>10, <4>1
      <4>3. \E l \in DOMAIN g.lists[c] : g.lists[c][l] = i
        BY <1>16, <4>1, <4>2
      <4> QED
        BY <4>2, <4>3 DEF c
    <3> QED
      BY <1>9, <3>1, <3>2
  <2> QED
    BY <1>16, <2>1 DEF ListsOK
<1>19. ServedOK(g, B)
  <2>1. /\ \A v, w \in h.waiting : v.chat = w.chat => v = w
        /\ \A l \in B : Serves(h, l)
        /\ \A l, m \in B : h.conns[l].id = h.conns[m].id => l = m
        /\ \A c \in Chats(h) : Waits(h, c) \/ \E l \in B : h.conns[l].id = First(h, c)
    BY DEF HookOK, ServedOK
  <2>2. \A w \in h.waiting : w.chat \in Chats(h)
    BY DEF HookOK, HookTyped
  <2>3. \A w \in waiters : w.chat \in listed \ Chats(h) /\ w = [wake |-> now, chat |-> w.chat]
    BY DEF waiters
  <2>4. \A v, w \in g.waiting : v.chat = w.chat => v = w
    BY <1>6, <2>1, <2>2, <2>3
  <2>5. \A c \in Chats(h) : Waits(g, c) <=> Waits(h, c)
    BY <1>6, <2>3 DEF Waits
  <2>6. \A c \in listed \ Chats(h) : Waits(g, c)
    <3>1. ASSUME NEW c \in listed \ Chats(h)
          PROVE  Waits(g, c)
      <4>1. [wake |-> now, chat |-> c] \in g.waiting
        BY <1>6 DEF waiters
      <4> QED
        BY <4>1 DEF Waits
    <3> QED
      BY <3>1
  <2>7. \A c \in Chats(h) : First(g, c) = First(h, c)
    BY <1>10, <1>16
  <2>8. ASSUME NEW l \in B
        PROVE  Serves(g, l)
    <3>1. /\ h.conns[l].id \in DOMAIN h.loaded
          /\ h.conns[l].id = First(h, ChatAt(h, l)) /\ ~Waits(h, ChatAt(h, l))
          /\ ChatAt(h, l) \in Chats(h)
      BY <2>1 DEF Serves, HookOK, ListsOK, ChatAt
    <3>2. ChatAt(g, l) = ChatAt(h, l)
      BY <1>7, <1>9, <3>1 DEF ChatAt
    <3> QED
      BY <1>7, <1>9, <2>5, <2>7, <3>1, <3>2 DEF Serves
  <2>9. \A c \in Chats(g) : Waits(g, c) \/ \E l \in B : g.conns[l].id = First(g, c)
    BY <1>7, <1>10, <2>1, <2>5, <2>6, <2>7
  <2> QED
    BY <1>7, <2>1, <2>4, <2>8, <2>9 DEF ServedOK
<1> QED
  BY <1>17, <1>18, <1>19 DEF HookOK, g

\* The id at which a queue begins.
LEMMA HeadType ==
  ASSUME NEW q, NEW D, Sound(q, D), D \subseteq Event
  PROVE  GetHead(q) \in Nat
<1>1. q.tail \in Nat
  BY QueueAssumption DEF Sound
<1>2. Ids(q) \in SUBSET Nat
  BY SoundIds
<1>3. Ids(q) # {} => Min(Ids(q)) \in Nat
  BY <1>2, MinOf
<1> QED
  BY <1>1, <1>3 DEF GetHead

\* Loading keeps the queue and the actor in order, and no connection changes.
LEMMA LoadUpdatesKeeps ==
  ASSUME NEW q, NEW h, NEW D, NEW B, HookOK(h, B, D), Sound(q, D), Clearable(D),
         now \in Nat, NEW r \in LoadUpdates(q, h)
  PROVE  HookOK(r.hook, B, D) /\ Sound(r.queue, D) /\ r.hook.conns = h.conns
<1> DEFINE start == IF h.offset = 0 THEN GetHead(q) ELSE h.offset
           from == IF TooFar(q, start) THEN GetHead(q) ELSE start
           room == MaxLoaded - Cardinality(Chats(h))
<1>1. Shaped(h) /\ h.offset \in Nat /\ D \subseteq Event
  BY DEF HookOK, HookTyped, Shaped, Clearable
<1>2. start \in Nat /\ from \in Nat
  BY <1>1, HeadType
<1>3. room \in Nat /\ Cardinality(Chats(h)) \in Nat /\ MaxLoaded \in Nat
  <2>1. IsFiniteSet(Chats(h)) /\ Cardinality(Chats(h)) <= MaxLoaded
    BY DEF HookOK, HookTyped
  <2>2. Cardinality(Chats(h)) \in Nat
    BY <2>1, FS_CardinalityType
  <2>3. MaxLoaded \in Nat
    BY WebhookAssumption DEF MaxLoaded
  <2> QED
    BY <2>1, <2>2, <2>3
<1> DEFINE s == Get(q, from, FALSE, room, now)
           new == s.ids \ DOMAIN h.loaded
<1>4. r \in {[queue |-> q, hook |-> h], [queue |-> q, hook |-> [h EXCEPT !.empty = TRUE]],
             Load(h, from, s, new)}
  BY DEF LoadUpdates
<1>5. CASE r = [queue |-> q, hook |-> h]
  BY <1>5
<1>6. CASE r = [queue |-> q, hook |-> [h EXCEPT !.empty = TRUE]]
  <2> DEFINE g == [h EXCEPT !.empty = TRUE]
  <2>1. /\ Shaped(g) /\ g.loaded = h.loaded /\ g.lists = h.lists /\ g.waiting = h.waiting
        /\ g.conns = h.conns
    BY <1>1 DEF Shaped
  <2>2. r.hook = g /\ r.queue = q
    BY <1>6
  <2> HIDE DEF g
  <2>3. HookOK(g, B, D)
    BY <2>1, SameChats
  <2> QED
    BY <2>1, <2>2, <2>3
<1>7. CASE r = Load(h, from, s, new)
  <2> HIDE DEF from, room
  <2>1. LET x == Get(q, from, FALSE, room, now)
        IN  /\ Steps(q, x, D)
            /\ x.ids \subseteq Live(x.queue)
            /\ IsFiniteSet(x.ids) /\ Cardinality(x.ids) <= room
    <3>1. FALSE \in BOOLEAN
      OBVIOUS
    <3> QED
      BY <1>2, <1>3, <3>1, GetAny, Zenon
  <2>2. Sound(s.queue, D)
    BY <2>1 DEF Steps
  <2>3. /\ Live(s.queue) \subseteq Ids(s.queue) /\ Ids(s.queue) \subseteq 1..MaxId - 2
        /\ \A i \in Ids(s.queue) : s.queue.events[i] \in D
    BY <1>1, <2>2, SoundIds
  <2>4. /\ new \in SUBSET (1..MaxId - 2) /\ new \cap DOMAIN h.loaded = {}
        /\ \A i \in new : s.queue.events[i] \in D /\ s.queue.events[i].data # Nothing
    <3>1. \A i \in Live(s.queue) : s.queue.events[i].data # Nothing
      BY DEF Live
    <3> HIDE DEF s
    <3> QED
      BY <2>1, <2>3, <3>1 DEF s
  <2>5. Cardinality(Chats(h)) + Cardinality(new) <= MaxLoaded
    <3>1. IsFiniteSet(s.ids) /\ new \in SUBSET s.ids /\ Cardinality(s.ids) <= room
      BY <2>1
    <3> HIDE DEF new, s
    <3>2. Cardinality(new) <= Cardinality(s.ids) /\ Cardinality(new) \in Nat /\ Cardinality(s.ids) \in Nat
      BY <3>1, FS_Subset, FS_CardinalityType
    <3> QED
      BY <1>3, <3>1, <3>2 DEF room
  <2>6. r.queue = s.queue /\ r.hook = Load(h, from, s, new).hook
    <3> HIDE DEF s, new
    <3> QED
      BY <1>7 DEF Load
  <2>7. Load(h, from, s, new).hook.conns = h.conns
    <3> HIDE DEF s, new
    <3> QED
      BY <1>1 DEF Load, Shaped
  <2> HIDE DEF s, new
  <2>8. HookOK(Load(h, from, s, new).hook, B, D)
    BY <1>1, <1>2, <2>4, <2>5, LoadKeeps
  <2> QED
    BY <2>2, <2>6, <2>7, <2>8
<1> HIDE DEF s, new, from
<1> QED
  BY <1>4, <1>5, <1>6, <1>7

\* And so does a loop of the actor.
LEMMA LoopKeeps ==
  ASSUME NEW q, NEW h, NEW D, HookOK(h, Busy(h), D), Sound(q, D), Clearable(D),
         now \in Nat, NEW r \in Loop(q, h)
  PROVE  HookOK(r.hook, Busy(r.hook), D) /\ Sound(r.queue, D)
<1>0. PICK l \in LoadUpdates(q, h) : \E c \in CreateConnections(l.hook) :
         r = [queue |-> l.queue,
              hook |-> [SendUpdates(c) EXCEPT !.timer = IF @ = 0 THEN h.timer ELSE @]]
  BY DEF Loop
<1>1. PICK c \in CreateConnections(l.hook) :
         r = [queue |-> l.queue,
              hook |-> [SendUpdates(c) EXCEPT !.timer = IF @ = 0 THEN h.timer ELSE @]]
  BY <1>0
<1>2. HookOK(l.hook, Busy(h), D) /\ Sound(l.queue, D) /\ l.hook.conns = h.conns
  BY LoadUpdatesKeeps
<1>3. Busy(l.hook) = Busy(h)
  BY <1>2 DEF Busy, In
<1>4. HookOK(c, Busy(c), D)
  BY <1>2, <1>3, CreateKeeps
<1> DEFINE s == SendUpdates(c)
<1>5. HookOK(s, Busy(s), D)
  BY <1>4, SendKeeps
<1> HIDE DEF s
<1>6. Shaped(s) /\ h.timer \in Nat
  BY <1>5 DEF HookOK, HookTyped, Shaped
<1> DEFINE g == [s EXCEPT !.timer = IF @ = 0 THEN h.timer ELSE @]
<1>7. r.hook = g /\ r.queue = l.queue
  BY <1>1 DEF s
<1>8. /\ Shaped(g) /\ g.loaded = s.loaded /\ g.lists = s.lists /\ g.waiting = s.waiting
      /\ g.conns = s.conns
  BY <1>6 DEF Shaped
<1> HIDE DEF g
<1>9. Busy(g) = Busy(s)
  BY <1>8 DEF Busy, In
<1>10. HookOK(g, Busy(g), D)
  BY <1>5, <1>8, <1>9, SameChats
<1> QED
  BY <1>2, <1>7, <1>10

-----------------------------------------------------------------------------
(***************************************************************************)
(* The invariant: the queue and the actor are in order, and they hold      *)
(* nothing but updates that arrived.                                       *)
(***************************************************************************)
Known(exp) ==
  {e \in Event : e.data # Nothing => e.data \in DOMAIN exp /\ e.expires = exp[e.data]}

Inv ==
  /\ now \in Nat \ {0}
  /\ expires \in [Arrived -> Nat] /\ Arrived \subseteq Update
  /\ received \subseteq Arrived /\ strays \subseteq Arrived /\ dropped \subseteq Arrived
  /\ Sound(queue, Known(expires))
  /\ HookOK(hook, Busy(hook), Known(expires))

\* Known events can be cleared, and are known for good.
LEMMA KnownEvents ==
  ASSUME NEW exp
  PROVE  /\ Known(exp) \subseteq Event /\ Clearable(Known(exp))
         /\ \A e \in Known(exp) : e.data # Nothing => e.data \in DOMAIN exp
         /\ \A u, t : u \notin DOMAIN exp => Known(exp) \subseteq Known(With(exp, u, t))
<1>1. ASSUME NEW e \in Known(exp)
      PROVE  Cleared(e) \in Known(exp)
  <2>1. e \in [data : Update \cup {Nothing}, expires : Nat \ {0}]
    BY <1>1 DEF Known, Event
  <2>2. Cleared(e) \in Event /\ Cleared(e).data = Nothing
    BY <2>1 DEF Cleared, Event
  <2> QED
    BY <2>2 DEF Known
<1>2. ASSUME NEW u, NEW t, u \notin DOMAIN exp
      PROVE  Known(exp) \subseteq Known(With(exp, u, t))
  <2>1. DOMAIN exp \subseteq DOMAIN With(exp, u, t) /\ \A v \in DOMAIN exp : With(exp, u, t)[v] = exp[v]
    BY <1>2 DEF With
  <2> QED
    BY <2>1 DEF Known
<1> QED
  BY <1>1, <1>2 DEF Known, Clearable

\* What holds of an actor for some events holds for more.
LEMMA MoreEvents ==
  ASSUME NEW h, NEW B, NEW D, NEW E, D \subseteq E, HookOK(h, B, D)
  PROVE  HookOK(h, B, E)
<1>1. LoadedUpdate(D) \subseteq LoadedUpdate(E)
  BY DEF LoadedUpdate
<1>2. HookTyped(h, E)
  BY <1>1 DEF HookOK, HookTyped
<1> QED
  BY <1>2 DEF HookOK

\* A connection that serves nobody may become idle or be closed.
LEMMA FreeKeeps ==
  ASSUME NEW h, NEW D, NEW c \in 1..MaxConn, HookOK(h, Busy(h) \ {c}, D),
         NEW conn \in {Idle, Closed}
  PROVE  LET g == [h EXCEPT !.conns[c] = conn] IN HookOK(g, Busy(g), D)
<1> DEFINE g == [h EXCEPT !.conns[c] = conn]
<1>1. Shaped(h) /\ conn \in Conn /\ conn.state \notin {"sent", "received"}
  BY DEF HookOK, HookTyped, Idle, Closed, Conn
<1>2. /\ g.loaded = h.loaded /\ g.lists = h.lists /\ g.waiting = h.waiting
      /\ g.conns = [h.conns EXCEPT ![c] = conn] /\ Shaped(g)
  BY <1>1 DEF Shaped
<1>3. h.conns \in [1..MaxConn -> Conn]
  BY <1>1 DEF Shaped
<1> HIDE DEF g
<1>4. g.conns[c] = conn /\ \A k \in 1..MaxConn \ {c} : g.conns[k] = h.conns[k]
  BY <1>2, <1>3
<1>5. Busy(g) = Busy(h) \ {c}
  BY <1>1, <1>4 DEF Busy, In
<1>6. \A k \in Busy(h) \ {c} : g.conns[k].id = h.conns[k].id
  BY <1>4 DEF Busy, In
<1>7. HookOK(g, Busy(h) \ {c}, D)
  BY <1>2, <1>6, SameChats
<1> QED
  BY <1>5, <1>7 DEF g

\* Forgetting an event keeps the queue sound.
LEMMA ForgetKeeps ==
  ASSUME NEW q, NEW D, Sound(q, D), Clearable(D), NEW i
  PROVE  Sound(Forget(q, i).queue, D)
<1>1. {i} \cap Ids(q) \in SUBSET Ids(q)
  OBVIOUS
<1>2. Steps(q, Pop(q, {i} \cap Ids(q)), D)
  BY <1>1, PopSteps
<1> QED
  BY <1>2 DEF Forget, Steps

\* Two loops are as good as one.
LEMMA LoopTwiceKeeps ==
  ASSUME NEW q, NEW h, NEW D, HookOK(h, Busy(h), D), Sound(q, D), Clearable(D),
         now \in Nat, NEW r \in LoopTwice(q, h)
  PROVE  HookOK(r.hook, Busy(r.hook), D) /\ Sound(r.queue, D)
<1>1. PICK s \in Loop(q, h) : r \in Loop(s.queue, s.hook)
  BY DEF LoopTwice
<1>2. HookOK(s.hook, Busy(s.hook), D) /\ Sound(s.queue, D)
  BY LoopKeeps
<1> QED
  BY <1>1, <1>2, LoopKeeps

\* A webhook that was just set.
LEMMA NewHookOK ==
  ASSUME NEW D
  PROVE  HookOK(NewHook, Busy(NewHook), D)
<1>1. DOMAIN <<>> = {}
  OBVIOUS
<1>2. Busy(NewHook) = {}
  BY DEF Busy, In, NewHook, Closed
<1>3. HookTyped(NewHook, D)
  <2>1. Shaped(NewHook)
    BY DEF Shaped, NewHook, Closed, Conn
  <2>2. <<>> \in [{} -> LoadedUpdate(D)] /\ <<>> \in [{} -> Seq({})]
    BY <1>1
  <2>3. IsFiniteSet({}) /\ Cardinality({}) = 0
    BY FS_EmptySet
  <2>4. MaxLoaded \in Nat
    BY WebhookAssumption DEF MaxLoaded
  <2>5. NewHook.loaded = <<>> /\ NewHook.lists = <<>> /\ NewHook.waiting = {}
    BY DEF NewHook
  <2>6. Chats(NewHook) = {}
    BY <1>1, <2>5 DEF Chats
  <2> QED
    BY <1>1, <2>1, <2>2, <2>3, <2>4, <2>5, <2>6 DEF HookTyped
<1>4. ListsOK(NewHook) /\ ServedOK(NewHook, {})
  BY <1>1 DEF ListsOK, ServedOK, NewHook, Chats
<1> QED
  BY <1>2, <1>3, <1>4 DEF HookOK

\* The queue and the actor in order, for what has arrived.
Ordered(q, h) == Sound(q, Known(expires)) /\ HookOK(h, Busy(h), Known(expires))

\* An update on a connection has arrived, and so has all that waits.
LEMMA OnlyArrived ==
  ASSUME Inv
  PROVE  /\ \A i \in DOMAIN hook.loaded : hook.loaded[i].update \in Arrived
         /\ \A c \in Busy(hook) : hook.conns[c].id \in DOMAIN hook.loaded
         /\ Carried(hook, Busy(hook)) \subseteq Arrived
         /\ InQueue \subseteq Arrived
<1>1. HookOK(hook, Busy(hook), Known(expires)) /\ Sound(queue, Known(expires))
  BY DEF Inv
<1>2. \A c \in Busy(hook) : hook.conns[c].id \in DOMAIN hook.loaded
  BY <1>1 DEF HookOK, ServedOK, Serves
<1>3. ASSUME NEW i \in DOMAIN hook.loaded
      PROVE  hook.loaded[i].update \in Arrived
  <2>1. hook.loaded[i] \in LoadedUpdate(Known(expires))
    BY <1>1 DEF HookOK, HookTyped
  <2> DEFINE u == hook.loaded[i]
             e == [data |-> u.update, expires |-> u.expires]
  <2>2. u.update \in Update /\ e \in Known(expires)
    BY <2>1 DEF LoadedUpdate
  <2>3. e.data = u.update
    OBVIOUS
  <2> HIDE DEF u, e
  <2>4. u.update # Nothing
    BY <2>2, QueueAssumption
  <2>5. u.update \in DOMAIN expires
    BY <2>2, <2>3, <2>4, KnownEvents
  <2> QED
    BY <2>5 DEF u, Arrived
<1>4. InQueue \subseteq Arrived
  <2>1. \A i \in Ids(queue) : queue.events[i] \in Known(expires)
    BY <1>1 DEF Sound, Good, Ids
  <2> QED
    BY <2>1, KnownEvents DEF InQueue, DataOf, Arrived
<1> QED
  BY <1>2, <1>3, <1>4 DEF Carried

\* An answer: the connection is free, the update done with, the actor loops.
LEMMA AnswerKeeps ==
  ASSUME Inv, NEW c \in Busy(hook), NEW conn \in {Idle, Closed}, NEW r,
         HookOK(r.hook, Busy(hook) \ {c}, Known(expires)),
         r.hook.conns = hook.conns, Sound(r.queue, Known(expires))
  PROVE  Ordered(r.queue, [r.hook EXCEPT !.conns[c] = conn])
<1>1. Busy(r.hook) = Busy(hook) /\ c \in 1..MaxConn
  BY DEF Busy, In
<1>2. LET g == [r.hook EXCEPT !.conns[c] = conn] IN HookOK(g, Busy(g), Known(expires))
  BY <1>1, FreeKeeps
<1> QED
  BY <1>2 DEF Ordered

\* What a failed request leaves.
LEMMA FailKeeps ==
  ASSUME Inv, NEW c \in Busy(hook), NEW retry \in Nat, NEW most \in Nat, NEW r,
         r = OnUpdateError(queue, hook, hook.conns[c].id, retry, most)
  PROVE  /\ HookOK(r.hook, Busy(hook) \ {c}, Known(expires))
         /\ r.hook.conns = hook.conns /\ Sound(r.queue, Known(expires))
<1>1. now \in Nat /\ HookOK(hook, Busy(hook), Known(expires)) /\ Sound(queue, Known(expires))
  BY DEF Inv
<1>2. LET x == OnUpdateError(queue, hook, hook.conns[c].id, retry, most)
      IN  /\ HookOK(x.hook, Busy(hook) \ {c}, Known(expires)) /\ x.hook.conns = hook.conns
          /\ x.queue \in {queue, Forget(queue, hook.conns[c].id).queue}
  BY <1>1, ErrorKeeps
<1>3. Clearable(Known(expires))
  BY KnownEvents
<1>4. Sound(Forget(queue, hook.conns[c].id).queue, Known(expires))
  BY <1>1, <1>3, ForgetKeeps
<1> QED
  BY <1>1, <1>2, <1>4

\* Loops of the actor, one or two.
LEMMA LoopsOrdered ==
  ASSUME Inv, NEW q, NEW h, Ordered(q, h)
  PROVE  /\ \A r \in Loop(q, h) : Ordered(r.queue, r.hook)
         /\ \A r \in LoopTwice(q, h) : Ordered(r.queue, r.hook)
<1>1. now \in Nat /\ Clearable(Known(expires))
  BY KnownEvents DEF Inv
<1>2. HookOK(h, Busy(h), Known(expires)) /\ Sound(q, Known(expires))
  BY DEF Ordered
<1>3. \A r \in Loop(q, h) : HookOK(r.hook, Busy(r.hook), Known(expires)) /\ Sound(r.queue, Known(expires))
  BY <1>1, <1>2, LoopKeeps
<1>4. \A r \in LoopTwice(q, h) : HookOK(r.hook, Busy(r.hook), Known(expires)) /\ Sound(r.queue, Known(expires))
  BY <1>1, <1>2, LoopTwiceKeeps
<1> QED
  BY <1>3, <1>4 DEF Ordered

\* The invariant after a step in which no update arrives.
LEMMA OrderedNext ==
  ASSUME Inv, Ordered(queue', hook'), expires' = expires, now' \in Nat \ {0},
         received' \subseteq Arrived, strays' \subseteq Arrived, dropped' \subseteq Arrived
  PROVE  Inv'
BY DEF Inv, Ordered, Arrived

\* The invariant holds at first: of a new queue, or one from before.
LEMMA InitOK ==
  ASSUME Init
  PROVE  Inv
<1>1. DOMAIN <<>> = {}
  OBVIOUS
<1>2. now \in Nat \ {0}
  BY DEF Init
<1>3. /\ expires = <<>> /\ Arrived = {} /\ expires \in [Arrived -> Nat]
      /\ received \subseteq Arrived /\ strays \subseteq Arrived /\ dropped \subseteq Arrived
  BY <1>1 DEF Init, Arrived
<1>4. HookOK(hook, Busy(hook), Known(expires))
  BY NewHookOK DEF Init
<1>5. Sound(queue, Known(expires))
  <2> DEFINE D == Known(expires)
             e == [data |-> Nothing, expires |-> 1]
             d == With(<<>>, OldTail - 1, e)
  <2>1. CASE OldTail = 0
    <3>1. queue = EmptyQueue
      BY <2>1 DEF Init
    <3>2. EmptyQueue.tail = 0 /\ EmptyQueue.events = <<>> /\ EmptyQueue.gc_at = 0
      BY DEF EmptyQueue
    <3>3. Ids(EmptyQueue) = {} /\ Live(EmptyQueue) = {}
      BY <1>1, <3>2 DEF Ids, Live
    <3>4. <<>> \in [{} -> D]
      BY <1>1
    <3>5. EmptyQueue \in [tail : 0..MaxId - 1, events : {EmptyQueue.events}, gc_at : Nat]
      BY QueueAssumption DEF EmptyQueue
    <3> QED
      BY <1>1, <3>1, <3>2, <3>3, <3>4, <3>5 DEF Sound, Good
  <2>2. CASE OldTail # 0
    <3>1. queue = Replay(d)
      BY <2>2 DEF Init
    <3>2. OldTail \in 2..MaxId - 1
      BY <2>2, WebhookAssumption
    <3>3. OldTail - 1 \in 1..MaxId - 2
      BY <3>2, QueueAssumption
    <3>4. e \in D
      BY DEF Known, Event
    <3>5. DOMAIN d = {OldTail - 1} /\ d \in [{OldTail - 1} -> D] /\ d[OldTail - 1] = e
      <4> HIDE DEF e, D
      <4> QED
        BY <1>1, <3>4 DEF With
    <3> HIDE DEF d, e, D
    <3>6. Good(d, D)
      BY <3>3, <3>5, QueueAssumption DEF Good
    <3>7. D \subseteq Event
      BY KnownEvents DEF D
    <3>8. Sound(Replay(d), D)
      BY <3>6, <3>7, ReplaySound
    <3> QED
      BY <3>1, <3>8 DEF D
  <2> QED
    BY <2>1, <2>2
<1> QED
  BY <1>2, <1>3, <1>4, <1>5 DEF Inv

\* An update that arrives is pushed, and the actor of an open webhook loops.
LEMMA PushOK ==
  ASSUME Inv, NEW u \in Update, PushUpdate(u)
  PROVE  Inv'
<1> DEFINE D == Known(expires)
           E == Known(expires')
           e == [data |-> u, expires |-> now + Ttl[u]]
<1>1. u \notin Arrived /\ expires' = With(expires, u, now + Ttl[u]) /\ now \in Nat \ {0}
  BY WebhookAssumption DEF PushUpdate, Inv
<1>2. Arrived' = Arrived \cup {u} /\ now + Ttl[u] \in Nat \ {0}
  BY <1>1, WebhookAssumption DEF Arrived, With
<1>3. D \subseteq E /\ Clearable(E) /\ E \subseteq Event
  BY <1>1, KnownEvents DEF Arrived
<1>4. e \in E /\ e.data # Nothing
  <2>1. u \in DOMAIN expires' /\ expires'[u] = now + Ttl[u]
    BY <1>1 DEF With
  <2>2. e \in Event
    BY <1>2 DEF Event
  <2> QED
    BY <2>1, <2>2, QueueAssumption DEF Known
<1>5. Sound(queue, E) /\ HookOK(hook, Busy(hook), E)
  BY <1>3, More, MoreEvents DEF Inv
<1>6. PICK first \in FirstIds :
         Become(IF open THEN Updated(Push(queue, e, first).queue)
                ELSE {[queue |-> Push(queue, e, first).queue, hook |-> hook]})
  BY DEF PushUpdate
<1> DEFINE q == Push(queue, e, first).queue
<1> HIDE DEF e, E
<1>7. Sound(q, E)
  <2>1. LET x == Push(queue, e, first) IN Steps(queue, x, E)
    BY <1>3, <1>4, <1>5, PushSteps
  <2> QED
    BY <2>1 DEF Steps
<1> HIDE DEF q
<1>8. PICK r \in (IF open THEN Updated(q) ELSE {[queue |-> q, hook |-> hook]}) :
         queue' = r.queue /\ hook' = r.hook
  BY <1>6 DEF Become, q
<1>9. Sound(queue', E) /\ HookOK(hook', Busy(hook'), E)
  <2>1. CASE ~open
    <3>1. r = [queue |-> q, hook |-> hook]
      BY <1>8, <2>1
    <3>2. queue' = q /\ hook' = hook
      BY <1>8, <3>1
    <3> QED
      BY <1>5, <1>7, <3>2
  <2>2. CASE open
    <3> DEFINE h == [hook EXCEPT !.empty = FALSE]
    <3>1. r \in Loop(q, h)
      BY <1>8, <2>2 DEF Updated
    <3>2. Shaped(hook)
      BY <1>5 DEF HookOK, HookTyped
    <3>3. /\ Shaped(h) /\ h.loaded = hook.loaded /\ h.lists = hook.lists
          /\ h.waiting = hook.waiting /\ h.conns = hook.conns
      BY <3>2 DEF Shaped
    <3> HIDE DEF h
    <3>4. Busy(h) = Busy(hook)
      BY <3>3 DEF Busy, In
    <3>5. HookOK(h, Busy(h), E)
      BY <1>5, <3>3, <3>4, SameChats
    <3>6. HookOK(r.hook, Busy(r.hook), E) /\ Sound(r.queue, E)
      BY <1>1, <1>3, <1>7, <3>1, <3>5, LoopKeeps
    <3> QED
      BY <1>8, <3>6
  <2> QED
    BY <2>1, <2>2
<1>10. /\ received' \subseteq Arrived' /\ strays' \subseteq Arrived' /\ dropped' \subseteq Arrived'
  BY <1>2, OnlyArrived DEF Inv, PushUpdate
<1>11. expires' \in [Arrived' -> Nat] /\ Arrived' \subseteq Update
  <2>1. expires \in [Arrived -> Nat] /\ Arrived \subseteq Update
    BY DEF Inv
  <2> QED
    BY <1>1, <1>2, <2>1 DEF With, Arrived
<1>12. now' = now
  BY DEF PushUpdate
<1> QED
  BY <1>1, <1>9, <1>10, <1>11, <1>12 DEF Inv, E

\* An actor that differs in nothing its chats see is as good.
LEMMA OrderedSame ==
  ASSUME NEW q, NEW h, NEW g, Ordered(q, h), Shaped(g),
         g.loaded = h.loaded, g.lists = h.lists, g.waiting = h.waiting,
         Busy(g) = Busy(h), \A k \in Busy(h) : g.conns[k].id = h.conns[k].id
  PROVE  Ordered(q, g)
BY SameChats DEF Ordered

\* The timer, the requests that arrive, and the answers keep the invariant.
LEMMA AnswersOK ==
  ASSUME Inv,
         \/ Timer
         \/ \E c \in 1..MaxConn :
              \/ BotReceives(c)
              \/ \E conn \in {Idle, Closed} :
                   \/ AnswerOk(c, conn)
                   \/ \E retry \in RetryAfter, most \in MaxTimeout :
                        AnswerError(c, conn, retry, most)
              \/ \E most \in MaxTimeout : Hangup(c, most) \/ AnswerGone(c, most)
              \/ IdleHangup(c)
  PROVE  Inv'
<1> DEFINE D == Known(expires)
<1>1. /\ Ordered(queue, hook) /\ Shaped(hook) /\ now \in Nat \ {0}
      /\ received \subseteq Arrived /\ strays \subseteq Arrived /\ dropped \subseteq Arrived
      /\ hook.conns \in [1..MaxConn -> Conn]
  BY DEF Inv, Ordered, HookOK, HookTyped, Shaped
<1>2. /\ \A i \in DOMAIN hook.loaded : hook.loaded[i].update \in Arrived
      /\ \A c \in Busy(hook) : hook.conns[c].id \in DOMAIN hook.loaded
      /\ Carried(hook, Busy(hook)) \subseteq Arrived
  BY OnlyArrived
<1>3. \A most \in MaxTimeout : most \in Nat
  BY WebhookAssumption
<1>4. \A retry \in RetryAfter : retry \in Nat
  BY WebhookAssumption
<1>5. \A c \in 1..MaxConn : hook.conns[c].state \in {"sent", "received"} => c \in Busy(hook)
  BY DEF Busy, In
<1>6. CASE Timer
  <2> DEFINE h == [hook EXCEPT !.timer = 0]
  <2>1. /\ Shaped(h) /\ h.loaded = hook.loaded /\ h.lists = hook.lists
        /\ h.waiting = hook.waiting /\ h.conns = hook.conns
    BY <1>1 DEF Shaped
  <2>2. PICK r \in Loop(queue, h) : queue' = r.queue /\ hook' = r.hook
    BY <1>6 DEF Timer, Become
  <2> HIDE DEF h
  <2>3. Busy(h) = Busy(hook)
    BY <2>1 DEF Busy, In
  <2>4. Ordered(queue, h)
    BY <1>1, <2>1, <2>3, OrderedSame
  <2>5. Ordered(queue', hook')
    BY <2>2, <2>4, LoopsOrdered
  <2> QED
    BY <1>1, <1>6, <2>5, OrderedNext DEF Timer
<1>7. ASSUME NEW c \in 1..MaxConn, BotReceives(c)
      PROVE  Inv'
  <2>1. c \in Busy(hook) /\ hook' = [hook EXCEPT !.conns[c].state = "received"] /\ queue' = queue
    BY <1>5, <1>7 DEF BotReceives
  <2>2. /\ Shaped(hook') /\ hook'.loaded = hook.loaded /\ hook'.lists = hook.lists
        /\ hook'.waiting = hook.waiting
        /\ hook'.conns = [hook.conns EXCEPT ![c].state = "received"]
    <3>1. [hook.conns EXCEPT ![c].state = "received"] \in [1..MaxConn -> Conn]
      BY <1>1 DEF Conn
    <3> QED
      BY <1>1, <2>1, <3>1 DEF Shaped
  <2>3. /\ hook'.conns[c].state = "received" /\ hook'.conns[c].id = hook.conns[c].id
        /\ \A k \in 1..MaxConn \ {c} : hook'.conns[k] = hook.conns[k]
    <3>1. hook.conns[c] \in Conn
      BY <1>1
    <3>2. hook'.conns[c] = [hook.conns[c] EXCEPT !.state = "received"]
      BY <1>1, <2>2
    <3>3. \A k \in 1..MaxConn \ {c} : hook'.conns[k] = hook.conns[k]
      BY <1>1, <2>2
    <3> QED
      BY <3>1, <3>2, <3>3 DEF Conn
  <2>4. Busy(hook') = Busy(hook) /\ \A k \in Busy(hook) : hook'.conns[k].id = hook.conns[k].id
    BY <2>1, <2>3 DEF Busy, In
  <2>5. Ordered(queue', hook')
    BY <1>1, <2>1, <2>2, <2>4, OrderedSame
  <2>6. received' \subseteq Arrived
    BY <1>1, <1>2, <1>7, <2>1 DEF BotReceives, Carried
  <2> QED
    BY <1>1, <1>7, <2>5, <2>6, OrderedNext DEF BotReceives
<1>8. ASSUME NEW c \in 1..MaxConn, NEW conn \in {Idle, Closed}, AnswerOk(c, conn)
      PROVE  Inv'
  <2> DEFINE s == DropEvent(queue, hook, hook.conns[c].id)
             h == [s.hook EXCEPT !.conns[c] = conn]
  <2>1. c \in Busy(hook)
    BY <1>5, <1>8 DEF AnswerOk
  <2>2. /\ HookOK(hook, Busy(hook), D) /\ Sound(queue, D) /\ Clearable(D)
    BY KnownEvents DEF Inv
  <2>3. HookOK(DropEvent(queue, hook, hook.conns[c].id).hook, Busy(hook) \ {c}, D)
    BY <2>1, <2>2, DropKeeps
  <2>4. s.hook.conns = hook.conns /\ s.queue = Forget(queue, hook.conns[c].id).queue
    BY <1>1 DEF DropEvent, Shaped
  <2>5. Sound(s.queue, D)
    BY <2>2, <2>4, ForgetKeeps
  <2>6. PICK r \in Loop(s.queue, h) : queue' = r.queue /\ hook' = r.hook
    BY <1>8 DEF AnswerOk, Answer, Become
  <2> HIDE DEF s
  <2>7. Ordered(s.queue, h)
    BY <2>1, <2>3, <2>4, <2>5, AnswerKeeps DEF s
  <2> HIDE DEF h
  <2>8. Ordered(queue', hook')
    BY <2>6, <2>7, LoopsOrdered
  <2> QED
    BY <1>1, <1>8, <2>8, OrderedNext DEF AnswerOk
<1>9. ASSUME NEW c \in 1..MaxConn, NEW retry, NEW most, Fails(c, retry, most)
      PROVE  c \in Busy(hook) /\ dropped' \subseteq Arrived
  BY <1>1, <1>2, <1>9 DEF Fails
<1>10. ASSUME NEW c \in Busy(hook), NEW retry \in Nat, NEW most \in Nat, NEW conn \in {Idle, Closed}
       PROVE  LET s == OnUpdateError(queue, hook, hook.conns[c].id, retry, most)
              IN  /\ Ordered(s.queue, [s.hook EXCEPT !.conns[c] = conn])
                  /\ HookOK(s.hook, Busy(hook) \ {c}, D) /\ s.hook.conns = hook.conns
  <2> DEFINE s == OnUpdateError(queue, hook, hook.conns[c].id, retry, most)
  <2>0. s = OnUpdateError(queue, hook, hook.conns[c].id, retry, most)
    OBVIOUS
  <2> HIDE DEF s
  <2>1. /\ HookOK(s.hook, Busy(hook) \ {c}, D) /\ s.hook.conns = hook.conns /\ Sound(s.queue, D)
    BY <2>0, FailKeeps
  <2>2. Ordered(s.queue, [s.hook EXCEPT !.conns[c] = conn])
    BY <2>1, AnswerKeeps
  <2> QED
    BY <2>1, <2>2 DEF s
<1>11. ASSUME NEW c \in 1..MaxConn, NEW conn \in {Idle, Closed}, NEW retry \in RetryAfter,
              NEW most \in MaxTimeout, AnswerError(c, conn, retry, most)
       PROVE  Inv'
  <2> DEFINE s == OnUpdateError(queue, hook, hook.conns[c].id, retry, most)
             h == [s.hook EXCEPT !.conns[c] = conn]
  <2>1. c \in Busy(hook) /\ dropped' \subseteq Arrived
    BY <1>9, <1>11 DEF AnswerError
  <2>2. Ordered(s.queue, h)
    BY <1>3, <1>4, <1>10, <2>1
  <2>3. PICK r \in Loop(s.queue, h) : queue' = r.queue /\ hook' = r.hook
    BY <1>11 DEF AnswerError, Answer, Become
  <2> HIDE DEF s, h
  <2>4. Ordered(queue', hook')
    BY <2>2, <2>3, LoopsOrdered
  <2> QED
    BY <1>1, <1>11, <2>1, <2>4, OrderedNext DEF AnswerError
<1>12. \A C : strays \cup (Carried(hook, C \cap In(hook, "sent")) \ received) \subseteq Arrived
  BY <1>1, <1>2 DEF Carried, Busy
<1>13. ASSUME NEW c \in 1..MaxConn, NEW most \in MaxTimeout, Hangup(c, most)
       PROVE  Inv'
  <2> DEFINE s == OnUpdateError(queue, hook, hook.conns[c].id, 0, most)
             h == [s.hook EXCEPT !.conns[c] = Closed]
  <2>1. c \in Busy(hook) /\ dropped' \subseteq Arrived
    BY <1>9, <1>13 DEF Hangup
  <2>2. Ordered(s.queue, h)
    BY <1>3, <1>10, <2>1
  <2>3. PICK r \in LoopTwice(s.queue, h) : queue' = r.queue /\ hook' = r.hook
    BY <1>13 DEF Hangup, Become
  <2> HIDE DEF s, h
  <2>4. Ordered(queue', hook')
    BY <2>2, <2>3, LoopsOrdered
  <2>5. strays' \subseteq Arrived
    BY <1>12, <1>13 DEF Hangup, Leave
  <2> QED
    BY <1>1, <1>13, <2>1, <2>4, <2>5, OrderedNext DEF Hangup
<1>14. ASSUME NEW c \in 1..MaxConn, NEW most \in MaxTimeout, AnswerGone(c, most)
       PROVE  Inv'
  <2> DEFINE s == OnUpdateError(queue, hook, hook.conns[c].id, 0, most)
             h == [s.hook EXCEPT !.conns[c] = Closed]
             g == [s.hook EXCEPT !.conns[c] = Closed, !.closing = TRUE]
  <2>1. c \in Busy(hook) /\ dropped' \subseteq Arrived
    BY <1>9, <1>14 DEF AnswerGone
  <2>2. /\ Ordered(s.queue, h) /\ HookOK(s.hook, Busy(hook) \ {c}, D)
    BY <1>3, <1>10, <2>1
  <2>3. queue' = s.queue /\ hook' = [s.hook EXCEPT !.conns[c] = Closed, !.closing = TRUE]
    <3>1. OnUpdateError(queue, hook, hook.conns[c].id, 0, most) = [queue |-> s.queue, hook |-> s.hook]
      BY DEF OnUpdateError, DropEvent
    <3>2. \E r \in {[x EXCEPT !.hook.conns[c] = Closed, !.hook.closing = TRUE] :
              x \in {OnUpdateError(queue, hook, hook.conns[c].id, 0, most)}} :
            queue' = r.queue /\ hook' = r.hook
      BY <1>14 DEF AnswerGone, Become
    <3>3. \A a, b : LET x == [queue |-> a, hook |-> b]
                         y == [x EXCEPT !.hook.conns[c] = Closed, !.hook.closing = TRUE]
                     IN  /\ y.queue = a
                         /\ y.hook = [b EXCEPT !.conns[c] = Closed, !.closing = TRUE]
      OBVIOUS
    <3>4. LET x == [queue |-> s.queue, hook |-> s.hook]
              y == [x EXCEPT !.hook.conns[c] = Closed, !.hook.closing = TRUE]
          IN  queue' = y.queue /\ hook' = y.hook
      BY <3>1, <3>2
    <3> HIDE DEF s
    <3> QED
      BY <3>3, <3>4
  <2> HIDE DEF s
  <2>4. Shaped(s.hook)
    BY <2>2 DEF HookOK, HookTyped
  <2>5. /\ g = [h EXCEPT !.closing = TRUE] /\ Shaped(h)
    BY <2>2, <2>4 DEF Shaped, Ordered, HookOK, HookTyped
  <2>6. hook' = g
    BY <2>3
  <2> HIDE DEF g, h
  <2>7. /\ Shaped(g) /\ g.loaded = h.loaded /\ g.lists = h.lists /\ g.waiting = h.waiting
        /\ g.conns = h.conns
    BY <2>5 DEF Shaped
  <2>8. Busy(g) = Busy(h)
    BY <2>7 DEF Busy, In
  <2>9. Ordered(queue', hook')
    BY <2>2, <2>3, <2>6, <2>7, <2>8, OrderedSame
  <2> QED
    BY <1>1, <1>14, <2>1, <2>9, OrderedNext DEF AnswerGone
<1>15. ASSUME NEW c \in 1..MaxConn, IdleHangup(c)
       PROVE  Inv'
  <2> DEFINE h == [hook EXCEPT !.conns[c] = Closed]
  <2>1. c \in In(hook, "idle")
    BY <1>15 DEF IdleHangup
  <2>2. Busy(hook) \ {c} = Busy(hook)
    BY <2>1 DEF Busy, In
  <2>3. HookOK(hook, Busy(hook) \ {c}, D) /\ Closed \in {Idle, Closed} /\ Sound(queue, D)
    BY <2>2 DEF Inv
  <2>4. HookOK(h, Busy(h), D)
    BY <2>3, FreeKeeps
  <2>5. Ordered(queue, h)
    BY <2>3, <2>4 DEF Ordered
  <2>6. PICK r \in LoopTwice(queue, h) : queue' = r.queue /\ hook' = r.hook
    BY <1>15 DEF IdleHangup, Become
  <2> HIDE DEF h
  <2>7. Ordered(queue', hook')
    BY <2>5, <2>6, LoopsOrdered
  <2> QED
    BY <1>1, <1>15, <2>7, OrderedNext DEF IdleHangup
<1> QED
  BY <1>6, <1>7, <1>8, <1>11, <1>13, <1>14, <1>15

\* What the owner, the collection and the clock do keeps the invariant.
LEMMA OthersOK ==
  ASSUME Inv,
         \/ \E u \in strays : BotReceivesStray(u)
         \/ Close \/ Open \/ DropPending \/ Collect \/ Tick
  PROVE  Inv'
<1> DEFINE D == Known(expires)
<1>1. /\ Ordered(queue, hook) /\ now \in Nat \ {0}
      /\ received \subseteq Arrived /\ strays \subseteq Arrived /\ dropped \subseteq Arrived
  BY DEF Inv, Ordered
<1>2. Carried(hook, Busy(hook)) \subseteq Arrived /\ InQueue \subseteq Arrived
  BY OnlyArrived
<1>3. Sound(queue, D) /\ Clearable(D) /\ HookOK(hook, Busy(hook), D)
  BY KnownEvents DEF Inv
<1>4. ASSUME NEW u \in strays, BotReceivesStray(u)
      PROVE  Inv'
  BY <1>1, <1>4, OrderedNext DEF BotReceivesStray
<1>5. CASE Close
  <2>1. hook' = NewHook /\ queue' = queue
    BY <1>5 DEF Close
  <2>2. Ordered(queue', hook')
    BY <1>3, <2>1, NewHookOK DEF Ordered
  <2>3. strays' \subseteq Arrived
    BY <1>1, <1>2, <1>5 DEF Close, Leave, Carried, Busy
  <2> QED
    BY <1>1, <1>5, <2>2, <2>3, OrderedNext DEF Close
<1>6. CASE Open
  BY <1>1, <1>6, OrderedNext DEF Open
<1>7. CASE DropPending
  <2>1. LET x == Clear(queue, 0) IN Steps(queue, x, D)
    BY <1>3, ClearSteps
  <2>2. queue' = Clear(queue, 0).queue /\ hook' = hook
    BY <1>7 DEF DropPending
  <2>3. Ordered(queue', hook')
    BY <1>1, <2>1, <2>2 DEF Ordered, Steps
  <2>4. dropped' \subseteq Arrived
    BY <1>1, <1>2, <1>7 DEF DropPending
  <2> QED
    BY <1>1, <1>7, <2>3, <2>4, OrderedNext DEF DropPending
<1>8. CASE Collect
  <2>1. PICK stop \in Ids(queue) \cup {queue.tail} : queue' = RunGc(queue, stop, now).queue
    BY <1>8 DEF Collect
  <2>2. LET x == RunGc(queue, stop, now) IN Steps(queue, x, D)
    BY <1>1, <1>3, RunGcSteps
  <2>3. hook' = hook
    BY <1>8 DEF Collect
  <2>4. Ordered(queue', hook')
    BY <1>1, <2>1, <2>2, <2>3 DEF Ordered, Steps
  <2> QED
    BY <1>1, <1>8, <2>4, OrderedNext DEF Collect
<1>9. CASE Tick
  BY <1>1, <1>9, OrderedNext DEF Tick
<1> QED
  BY <1>4, <1>5, <1>6, <1>7, <1>8, <1>9

\* Every step keeps the invariant.
LEMMA NextOK ==
  ASSUME Inv, [Next]_vars
  PROVE  Inv'
<1>1. ASSUME NEW u \in Update, PushUpdate(u)
      PROVE  Inv'
  BY <1>1, PushOK
<1>2. CASE \/ Timer
           \/ \E c \in 1..MaxConn :
                \/ BotReceives(c)
                \/ \E conn \in {Idle, Closed} :
                     \/ AnswerOk(c, conn)
                     \/ \E retry \in RetryAfter, most \in MaxTimeout :
                          AnswerError(c, conn, retry, most)
                \/ \E most \in MaxTimeout : Hangup(c, most) \/ AnswerGone(c, most)
                \/ IdleHangup(c)
  BY <1>2, AnswersOK
<1>3. CASE \/ \E u \in strays : BotReceivesStray(u)
           \/ Close \/ Open \/ DropPending \/ Collect \/ Tick
  BY <1>3, OthersOK
<1>4. CASE UNCHANGED vars
  <2>1. Ordered(queue', hook') /\ expires' = expires
    BY <1>4 DEF vars, Inv, Ordered
  <2> QED
    BY <1>4, <2>1, OrderedNext DEF vars, Inv
<1> QED
  BY <1>1, <1>2, <1>3, <1>4 DEF Next

\* The invariant always holds.
LEMMA InvHolds == Spec => []Inv
<1>1. Init => Inv
  BY InitOK
<1>2. Inv /\ [Next]_vars => Inv'
  BY NextOK
<1> QED
  BY <1>1, <1>2, PTL DEF Spec

(***************************************************************************)
(* load_updates(), drop_event() and on_update_error() keep the actor well  *)
(* formed, for any number of connections, chats and updates: its lists are *)
(* not more than it may load and hold loaded updates, and no chat waits    *)
(* for two times.                                                          *)
(***************************************************************************)
THEOREM TypeCorrect == Spec => []TypeOK
<1>1. Inv => TypeOK
  <2> SUFFICES ASSUME Inv PROVE TypeOK
    OBVIOUS
  <2>1. HookOK(hook, Busy(hook), Known(expires))
    BY DEF Inv
  <2>2. hook.timer \in Nat
    BY <2>1 DEF HookOK, HookTyped, Shaped
  <2> QED
    BY <2>1, <2>2 DEF TypeOK, Inv, HookOK, HookTyped, ServedOK
<1> QED
  BY <1>1, InvHolds, PTL

(***************************************************************************)
(* However answers, lost connections and new updates interleave: no chat   *)
(* is forgotten by the actor and none is served twice.                     *)
(***************************************************************************)
THEOREM ServesEachChatOnce == Spec => []EachChatServedOnce
<1>1. Inv => EachChatServedOnce
  <2> SUFFICES ASSUME Inv PROVE EachChatServedOnce
    OBVIOUS
  <2>1. HookOK(hook, Busy(hook), Known(expires))
    BY DEF Inv
  <2>2. /\ \A v, w \in hook.waiting : v.chat = w.chat => v = w
        /\ \A k \in Busy(hook) : Serves(hook, k)
        /\ \A k, l \in Busy(hook) : hook.conns[k].id = hook.conns[l].id => k = l
        /\ \A c \in Chats(hook) : Waits(hook, c) \/ \E k \in Busy(hook) : hook.conns[k].id = First(hook, c)
    BY <2>1 DEF HookOK, ServedOK
  <2>3. \A c \in Chats(hook) : hook.lists[c] \in Seq(DOMAIN hook.loaded) /\ ListOK(hook, c)
    BY <2>1 DEF HookOK, HookTyped, ListsOK
  <2>4. ASSUME NEW c \in Chats(hook)
        PROVE  hook.lists[c] # <<>> /\ Head(hook.lists[c]) = First(hook, c)
    <3>1. 1 \in DOMAIN hook.lists[c] /\ hook.lists[c] \in Seq(DOMAIN hook.loaded)
      BY <2>3 DEF ListOK
    <3>2. DOMAIN <<>> = {}
      OBVIOUS
    <3>3. hook.lists[c] # <<>>
      BY <3>1, <3>2
    <3> QED
      BY <3>1, <3>3, HeadAndTail DEF First
  <2>5. ASSUME NEW c \in Chats(hook)
        PROVE  LET carrying == {k \in Busy(hook) : hook.conns[k].id = Head(hook.lists[c])}
                   waits == {w \in hook.waiting : w.chat = c}
               IN  Cardinality(waits) + Cardinality(carrying) = 1
    <3> DEFINE carrying == {k \in Busy(hook) : hook.conns[k].id = Head(hook.lists[c])}
               waits == {w \in hook.waiting : w.chat = c}
    <3>1. hook.loaded[First(hook, c)].chat = c
      BY <2>3 DEF ListOK, First
    <3>2. CASE Waits(hook, c)
      <4>1. PICK w \in hook.waiting : w.chat = c
        BY <3>2 DEF Waits
      <4>2. waits = {w}
        BY <2>2, <4>1
      <4>3. carrying = {}
        BY <2>2, <2>4, <3>1, <3>2 DEF Serves, ChatAt
      <4> HIDE DEF carrying, waits
      <4>4. Cardinality(carrying) = 0
        BY <4>3, FS_EmptySet
      <4>5. Cardinality(waits) = 1
        BY <4>2, FS_Singleton
      <4> QED
        BY <4>4, <4>5 DEF carrying, waits
    <3>3. CASE ~Waits(hook, c)
      <4>1. PICK k \in Busy(hook) : hook.conns[k].id = First(hook, c)
        BY <2>2, <3>3
      <4>2. carrying = {k}
        BY <2>2, <2>4, <4>1
      <4>3. waits = {}
        BY <3>3 DEF Waits
      <4> HIDE DEF carrying, waits
      <4>4. Cardinality(waits) = 0
        BY <4>3, FS_EmptySet
      <4>5. Cardinality(carrying) = 1
        BY <4>2, FS_Singleton
      <4> QED
        BY <4>4, <4>5 DEF carrying, waits
    <3> QED
      BY <3>2, <3>3
  <2>6. \A k \in Busy(hook) : \E c \in Chats(hook) : hook.conns[k].id = Head(hook.lists[c])
    <3>1. ASSUME NEW k \in Busy(hook)
          PROVE  \E c \in Chats(hook) : hook.conns[k].id = Head(hook.lists[c])
      <4>1. ChatAt(hook, k) \in Chats(hook) /\ hook.conns[k].id = First(hook, ChatAt(hook, k))
        BY <2>1, <2>2 DEF HookOK, ListsOK, Serves, ChatAt
      <4> QED
        BY <2>4, <4>1
    <3> QED
      BY <3>1
  <2>7. \A c \in Chats(hook) : IsInjective(hook.lists[c])
    BY <2>3 DEF IsInjective, ListOK
  <2>8. DOMAIN hook.loaded = UNION {Range(hook.lists[c]) : c \in Chats(hook)}
    <3>1. ASSUME NEW i \in DOMAIN hook.loaded
          PROVE  \E c \in Chats(hook) : i \in Range(hook.lists[c])
      BY <2>1 DEF HookOK, ListsOK, Range
    <3>2. ASSUME NEW c \in Chats(hook), NEW i \in Range(hook.lists[c])
          PROVE  i \in DOMAIN hook.loaded
      BY <2>3 DEF ListOK, Range
    <3> QED
      BY <3>1, <3>2
  <2> QED
    BY <2>4, <2>5, <2>6, <2>7, <2>8 DEF EachChatServedOnce
<1> QED
  BY <1>1, InvHolds, PTL

=============================================================================

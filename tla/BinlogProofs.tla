---------------------------- MODULE BinlogProofs ----------------------------
(***************************************************************************)
(* Proofs about the log on disk: no check of its actor fails, the disk     *)
(* with what is on its way makes the map, and a crash takes the map back   *)
(* to one moment, none before what a kept promise covers.                  *)
(***************************************************************************)
EXTENDS Binlog, FiniteSetTheorems, SequenceTheorems, TLAPS

(***************************************************************************)
(* The parts on their way to the actor, and the promises they carry.       *)
(***************************************************************************)
PartOf == [seq : Nat, entry : Entry \cup {Nothing}, promise : Promise \cup {Nothing}]

Message ==
  [kind : {"events"}, parts : SUBSET PartOf] \cup [kind : {"sync"}, promise : Promise]

MailParts(mb) == UNION {mb[i].parts : i \in {j \in DOMAIN mb : mb[j].kind = "events"}}

Earlier(mb, i) ==
  UNION {mb[h].parts : h \in {j \in DOMAIN mb : j < i /\ mb[j].kind = "events"}}

Way(a, mb, sd) == a.pending \cup MailParts(mb) \cup sd

\* Every number that was taken is in one place until its turn comes.
Numbered(a, mb, sd, q) ==
  /\ q \in Nat /\ a.begin \in 1..q
  /\ a.pending \subseteq PartOf /\ sd \subseteq PartOf /\ mb \in Seq(Message)
  /\ \A w \in Way(a, mb, sd) : w.seq \in a.begin..q - 1
  /\ \A n \in a.begin..q - 1 : \E w \in Way(a, mb, sd) : w.seq = n
  /\ \A v, w \in Way(a, mb, sd) : v.seq = w.seq => v = w
  /\ a.pending \cap MailParts(mb) = {}
  /\ sd \cap (a.pending \cup MailParts(mb)) = {}
  /\ \A i \in DOMAIN mb : mb[i].kind = "events" => mb[i].parts \cap Earlier(mb, i) = {}

(***************************************************************************)
(* What the map was after each number: ms[n], at the moment at[n].         *)
(***************************************************************************)
Moments == UNION {[K -> UNION {Value[k] : k \in Key}] : K \in SUBSET Key}

MapOK(m, n) ==
  /\ DOMAIN m \subseteq Key
  /\ m \in [DOMAIN m -> [value : UNION {Value[k] : k \in Key}, id : 1..n]]
  /\ \A k \in DOMAIN m : m[k].value \in Value[k]
  /\ \A k, l \in DOMAIN m : m[k].id = m[l].id => k = l

\* The entry e with the number n makes the map l of the map m.
Makes(e, n, m, l) ==
  \/ /\ e.op = "add" /\ e.id = n /\ e.key \notin DOMAIN m
     /\ l = With(m, e.key, [value |-> e.value, id |-> n])
  \/ /\ e.op = "rewrite" /\ e.key \in DOMAIN m /\ m[e.key].id = e.id
     /\ l = [m EXCEPT ![e.key].value = e.value]
  \/ /\ e.op = "erase"
     /\ \E k \in DOMAIN m : m[k].id = e.id /\ l = Restrict(m, DOMAIN m \ {k})

Chain(W, b, q, ln, ms, at) ==
  /\ \A n \in b - 1..q - 1 :
       at[n] \in 1..Len(ln) /\ ln[at[n]] = Values(ms[n]) /\ MapOK(ms[n], n)
  /\ \A m, n \in b - 1..q - 1 : m <= n => at[m] <= at[n]
  /\ \A w \in W :
       IF w.entry = Nothing THEN at[w.seq] = at[w.seq - 1] /\ ms[w.seq] = ms[w.seq - 1]
       ELSE at[w.seq] = at[w.seq - 1] + 1 /\ Makes(w.entry, w.seq, ms[w.seq - 1], ms[w.seq])
  /\ at[q - 1] = Len(ln)

(***************************************************************************)
(* The events of the actor.                                                *)
(***************************************************************************)
Written == {e \in Entry : e.op # "erase"}

EventsTyped(p) ==
  /\ p \in [live : {p.live}, last : Nat]
  /\ DOMAIN p.live \subseteq 1..p.last
  /\ p.live \in [DOMAIN p.live -> Written]
  /\ \A i \in DOMAIN p.live : p.live[i].id = i /\ p.live[i].value \in Value[p.live[i].key]

OneEach(p) == \A i, j \in DOMAIN p.live : p.live[i].key = p.live[j].key => i = j

(***************************************************************************)
(* The files.  The first n entries of the log l make the map of the moment *)
(* g[n], none of them after x, if they are at least k.                     *)
(***************************************************************************)
EntryOK == {e \in Entry : e.op # "erase" => e.value \in Value[e.key]}

Finds(l, value) ==
  LET p == DoEvents(l) IN OneEach(p) /\ Values(Contents(p)) = value

Follows(l, k, ln, g, x) ==
  /\ l \in Seq(EntryOK) /\ k \in 0..Len(l)
  /\ \A n \in k..Len(l) : g[n] \in 1..x /\ Finds(SubSeq(l, 1, n), ln[g[n]])
  /\ \A m, n \in k..Len(l) : m <= n => g[m] <= g[n]

Rewriting(a) == a.stage \in {"rewriting", "synced", "unlinked"}

MainOK(a, d, ln, st, g, x) ==
  /\ "main" \in DOMAIN d
  /\ d["main"].log \in Seq(EntryOK) /\ d["main"].synced \in 0..Len(d["main"].log)
  /\ Follows(d["main"].log \o a.buffer, d["main"].synced, ln, g, x)
  /\ a.stage = "run" =>
       /\ DoEvents(d["main"].log \o a.buffer).live = a.events.live
       /\ g[Len(d["main"].log \o a.buffer)] = x
       /\ \/ a.need_sync
          \/ d["main"].synced = Len(d["main"].log)
          \/ g[Len(d["main"].log)] <= st

NewOK(a, d) ==
  /\ "new" \in DOMAIN d
  /\ d["new"].log \in Seq(EntryOK)
  /\ DoEvents(d["new"].log).live = a.events.live
  /\ a.stage # "rewriting" => d["new"].synced = Len(d["new"].log)
  /\ a.buffer = <<>>

DiskOK(a, d, ln, st, g, x) ==
  /\ DOMAIN d \subseteq {"main", "new"}
  /\ \A f \in DOMAIN d : d[f] = File(d[f].log, d[f].synced)
  /\ a.buffer \in Seq(EntryOK)
  /\ IF a.stage = "unlinked" THEN "main" \notin DOMAIN d ELSE MainOK(a, d, ln, st, g, x)
  /\ Rewriting(a) => NewOK(a, d)

(***************************************************************************)
(* The promises: each waits in one place, for a moment that is reached     *)
(* when its turn comes.                                                    *)
(***************************************************************************)
Waiting(a) == {w.promise : w \in a.waits}
IsSync(mb, i) == i \in DOMAIN mb /\ mb[i].kind = "sync"
Asking(mb) == {mb[i].promise : i \in {j \in DOMAIN mb : mb[j].kind = "sync"}}
Carried(W) == {w.promise : w \in W} \ {Nothing}

PromisesOnce(a, mb, W, ask) ==
  /\ a.promises \cup Waiting(a) \cup Asking(mb) \cup Carried(W) \subseteq DOMAIN ask
  /\ a.promises \cap (Waiting(a) \cup Asking(mb) \cup Carried(W)) = {}
  /\ Waiting(a) \cap (Asking(mb) \cup Carried(W)) = {}
  /\ Asking(mb) \cap Carried(W) = {}
  /\ \A v, w \in a.waits : v.promise = w.promise => v = w
  /\ \A i, j \in DOMAIN mb : IsSync(mb, i) /\ IsSync(mb, j) /\ mb[i].promise = mb[j].promise => i = j
  /\ \A v, w \in W : v.promise = w.promise /\ v.promise # Nothing => v = w

AskedOK(ask, ln, st) ==
  /\ DOMAIN ask \subseteq Promise
  /\ ask \in [DOMAIN ask -> 1..Len(ln)]
  /\ \A p \in DOMAIN ask : ask[p] = 1 \/ ask[p] > st

Moment(at, b, n) == at[IF n < b THEN b - 1 ELSE n]

Reached(a, mb, W, q, ask, at) ==
  /\ \A p \in a.promises : ask[p] <= at[a.begin - 1]
  /\ \A w \in a.waits : w.seq < q /\ ask[w.promise] <= Moment(at, a.begin, w.seq)
  /\ \A w \in W : w.promise # Nothing => ask[w.promise] <= at[w.seq]
  /\ \A i \in DOMAIN mb : IsSync(mb, i) =>
       \E n \in 0..q - 1 :
         /\ ask[mb[i].promise] <= Moment(at, a.begin, n)
         /\ n < a.begin \/ \E w \in a.pending \cup Earlier(mb, i) : w.seq = n

(***************************************************************************)
(* The actor.                                                              *)
(***************************************************************************)
Stages == {"run", "rewriting", "synced", "unlinked", "closed", "destroying"}

Shaped(a) ==
  a \in [begin : Nat, pending : SUBSET PartOf, busy : BOOLEAN, events : {a.events},
         buffer : {a.buffer}, need_sync : BOOLEAN,
         waits : SUBSET [seq : Nat, promise : Promise], promises : SUBSET Promise,
         lazy : BOOLEAN, force : BOOLEAN, flush : BOOLEAN, timer : BOOLEAN,
         stage : Stages]

TimerOK(a) ==
  /\ (a.promises # {} \/ a.lazy \/ a.force \/ a.flush) => a.timer
  /\ a.promises # {} => a.lazy \/ a.force

BusyOK(a) == (Rewriting(a) => a.busy) /\ (~a.busy => Ready(a) = {})

IsOpen(a) == a.stage \notin {"closed", "destroying"}

Runs(a, mb, sd, q, d, ln, st, ask, ms, at, g) ==
  /\ Numbered(a, mb, sd, q)
  /\ Chain(Way(a, mb, sd), a.begin, q, ln, ms, at)
  /\ EventsTyped(a.events) /\ OneEach(a.events)
  /\ a.events.last < a.begin /\ Contents(a.events) = ms[a.begin - 1]
  /\ DiskOK(a, d, ln, st, g, at[a.begin - 1])
  /\ PromisesOnce(a, mb, Way(a, mb, sd), ask)
  /\ Reached(a, mb, Way(a, mb, sd), q, ask, at)
  /\ BusyOK(a)

\* The file holds the last moment.
Complete(d, ln, g) ==
  /\ "main" \in DOMAIN d /\ DOMAIN d \subseteq {"main", "new"}
  /\ \A f \in DOMAIN d : d[f] = File(d[f].log, d[f].synced)
  /\ Follows(d["main"].log, d["main"].synced, ln, g, Len(ln))
  /\ g[Len(d["main"].log)] = Len(ln)

\* Closed: the file is there as a whole, or was destroyed.
Rests(a, mb, sd, d, ln, ask, g) ==
  /\ a = [NewActor(NoEvents) EXCEPT !.stage = a.stage]
  /\ mb = <<>> /\ sd = {} /\ DOMAIN ask = {}
  /\ \/ a.stage = "closed" /\ DOMAIN d = {} /\ Finds(<<>>, ln[Len(ln)])
     \/ Complete(d, ln, g)

Story(ms, at, g) ==
  IF IsOpen(actor)
  THEN /\ Runs(actor, mailbox, sending, seq, disk, line, start, asked, ms, at, g)
       /\ map = ms[seq - 1]
  ELSE Rests(actor, mailbox, sending, disk, line, asked, g)

Typed ==
  /\ seq \in Nat \ {0} /\ MapOK(map, seq - 1)
  /\ line \in Seq(Moments) /\ line # <<>> /\ line[Len(line)] = Values(map)
  /\ start \in 1..Len(line) /\ AskedOK(asked, line, start)
  /\ Shaped(actor) /\ TimerOK(actor)
  /\ aborted = FALSE

IInv == Typed /\ \E ms, at, g : Story(ms, at, g)

-----------------------------------------------------------------------------
(***************************************************************************)
(* Numbers: the least, the greatest, and a set in order.  These are lemmas *)
(* of module TQueueProofs, whose constants play no part in them.           *)
(***************************************************************************)
Numbers == INSTANCE TQueueProofs WITH
  Update <- {}, Nothing <- 0, MaxId <- 4, FirstIds <- {1}, FutureSlack <- 0,
  MaxQueueEvents <- 1

\* The least of some numbers is one of them.
LEMMA MinOf ==
  ASSUME NEW S \in SUBSET Nat, S # {}
  PROVE  Min(S) \in S /\ \A i \in S : Min(S) <= i
BY Numbers!MinOf DEF Min, Numbers!Min

\* So is the greatest.
LEMMA MaxOf ==
  ASSUME NEW n \in Nat, NEW S \in SUBSET (0..n), S # {}
  PROVE  Max(S) \in S /\ \A i \in S : i <= Max(S)
<1> DEFINE T == {n - i : i \in S}
<1>1. T \in SUBSET Nat /\ T # {}
  <2>1. \A i \in S : i \in 0..n
    OBVIOUS
  <2>2. \A i \in 0..n : n - i \in Nat
    OBVIOUS
  <2> QED
    BY <2>1, <2>2
<1>2. Min(T) \in T /\ \A i \in T : Min(T) <= i
  BY <1>1, MinOf
<1>3. PICK x \in S : Min(T) = n - x
  BY <1>2
<1>4. \A y \in S : x >= y
  BY <1>2, <1>3
<1> QED
  BY <1>4 DEF Max

\* Finite sets are the same in both modules.
LEMMA SameFinite ==
  /\ \A S : Numbers!IsFiniteSet(S) = IsFiniteSet(S)
  /\ \A S : Numbers!Cardinality(S) = Cardinality(S)
BY Zenon DEF IsFiniteSet, Cardinality, Numbers!IsFiniteSet, Numbers!Cardinality

\* Ascending is the same in both modules.
LEMMA SameAscending ==
  ASSUME NEW S
  PROVE  Ascending(S) = Numbers!Ascending(S)
BY Zenon DEF Ascending, Numbers!Ascending, Cardinality, Numbers!Cardinality,
             IsFiniteSet, Numbers!IsFiniteSet

\* Ascending lists every number of a finite set, the less before the greater.
LEMMA AscendingSeq ==
  ASSUME NEW S \in SUBSET Nat, IsFiniteSet(S)
  PROVE  /\ Cardinality(S) \in Nat
         /\ Ascending(S) \in Seq(S) /\ Len(Ascending(S)) = Cardinality(S)
         /\ DOMAIN Ascending(S) = 1..Cardinality(S)
         /\ \A i \in S : \E k \in 1..Cardinality(S) : Ascending(S)[k] = i
<1>1. Ascending(S) = Numbers!Ascending(S) /\ Numbers!Cardinality(S) = Cardinality(S)
      /\ Numbers!IsFiniteSet(S)
  BY SameAscending, SameFinite
<1>2. /\ Numbers!Ascending(S) \in Seq(S)
      /\ Len(Numbers!Ascending(S)) = Numbers!Cardinality(S)
      /\ DOMAIN Numbers!Ascending(S) = 1..Numbers!Cardinality(S)
  BY <1>1, Numbers!AscendingSeq
<1>3. \A i \in S : \E k \in 1..Numbers!Cardinality(S) : Numbers!Ascending(S)[k] = i
  BY <1>1, Numbers!AscendingLists
<1> QED
  BY <1>1, <1>2, <1>3, FS_CardinalityType

\* A later place holds a greater number.
LEMMA AscendingGrows ==
  ASSUME NEW S \in SUBSET Nat, IsFiniteSet(S),
         NEW k \in 1..Cardinality(S), NEW l \in 1..Cardinality(S), k < l
  PROVE  Ascending(S)[k] < Ascending(S)[l]
BY SameAscending, SameFinite, Numbers!AscendingGrows

\* Different places hold different numbers.
LEMMA AscendingOnce ==
  ASSUME NEW S \in SUBSET Nat, IsFiniteSet(S),
         NEW k \in 1..Cardinality(S), NEW l \in 1..Cardinality(S),
         Ascending(S)[k] = Ascending(S)[l]
  PROVE  k = l
<1>1. /\ Cardinality(S) \in Nat
      /\ Ascending(S)[k] \in Nat /\ Ascending(S)[l] \in Nat
  BY AscendingSeq, ElementOfSeq
<1>2. CASE k < l
  BY <1>1, <1>2, AscendingGrows
<1>3. CASE l < k
  BY <1>1, <1>3, AscendingGrows
<1> QED
  BY <1>1, <1>2, <1>3

\* A finite set of numbers has a greatest.
LEMMA MaxFinite ==
  ASSUME NEW S \in SUBSET Nat, IsFiniteSet(S), S # {}
  PROVE  Max(S) \in S /\ \A i \in S : i <= Max(S)
<1> DEFINE c == Cardinality(S)
<1>1. /\ c \in Nat /\ Ascending(S) \in Seq(S) /\ Len(Ascending(S)) = c
      /\ \A i \in S : \E k \in 1..c : Ascending(S)[k] = i
  BY AscendingSeq
<1>2. c \in 1..c
  <2>1. PICK i \in S : TRUE
    OBVIOUS
  <2>2. PICK k \in 1..c : Ascending(S)[k] = i
    BY <1>1, <2>1
  <2> QED
    BY <1>1, <2>2
<1>3. Ascending(S)[c] \in Nat
  BY <1>1, <1>2, ElementOfSeq
<1>4. ASSUME NEW i \in S
      PROVE  i \in 0..Ascending(S)[c]
  <2>1. PICK k \in 1..c : Ascending(S)[k] = i
    BY <1>1
  <2>2. k = c \/ k < c
    BY <1>1
  <2> HIDE DEF c
  <2>3. k < c => Ascending(S)[k] < Ascending(S)[c]
    BY <1>2, AscendingGrows DEF c
  <2> QED
    BY <1>3, <2>1, <2>2, <2>3
<1> QED
  BY <1>3, <1>4, MaxOf

\* What some numbers up to n make is finite.
LEMMA ImageFinite ==
  ASSUME NEW n \in Nat, NEW T \in SUBSET (1..n), NEW f
  PROVE  IsFiniteSet({f[k] : k \in T})
<1> DEFINE h == [k \in T |-> f[k]]
<1>1. IsFiniteSet(1..n) /\ IsFiniteSet(T)
  <2>1. IsFiniteSet(1..n)
    BY FS_Interval
  <2> QED
    BY <2>1, FS_Subset
<1>2. h \in Surjection(T, {f[k] : k \in T})
  BY DEF Surjection
<1> QED
  BY <1>1, <1>2, FS_Surjection

-----------------------------------------------------------------------------
(***************************************************************************)
(* What entries leave: of each id its last entry, unless that erases.      *)
(***************************************************************************)

\* The entry n of s is the one that counts for its id.
LastOf(s, n) == s[n].op # "erase" /\ \A m \in 1..Len(s) : m > n => s[m].id # s[n].id

\* The events f are what the entries s leave.
Leaves(s, f) ==
  /\ \A i : i \in DOMAIN f <=> \E n \in 1..Len(s) : LastOf(s, n) /\ s[n].id = i
  /\ \A n \in 1..Len(s) : LastOf(s, n) => f[s[n].id] = s[n]
  /\ f = [i \in DOMAIN f |-> f[i]]

\* What do_event() leaves of a sequence of entries is what it leaves live.
LEMMA DoEventsLive ==
  ASSUME NEW s \in Seq(Entry)
  PROVE  Leaves(s, DoEvents(s).live)
<1> DEFINE f == DoEvents(s).live
<1>1. DOMAIN s = 1..Len(s) /\ Len(s) \in Nat
  BY LenProperties
<1>2. Counts(s) = {n \in 1..Len(s) : LastOf(s, n)}
  BY <1>1 DEF Counts, LastOf
<1>3. f = [i \in {s[n].id : n \in Counts(s)} |-> s[CHOOSE n \in Counts(s) : s[n].id = i]]
  BY DEF DoEvents
<1>4. ASSUME NEW n \in Counts(s)
      PROVE  f[s[n].id] = s[n]
  <2> DEFINE c == CHOOSE k \in Counts(s) : s[k].id = s[n].id
  <2>1. c \in Counts(s) /\ s[c].id = s[n].id
    OBVIOUS
  <2>2. f[s[n].id] = s[c]
    <3>1. s[n].id \in {s[k].id : k \in Counts(s)}
      OBVIOUS
    <3> QED
      BY <1>3, <3>1
  <2>3. c = n
    BY <1>1, <1>2, <2>1 DEF LastOf
  <2> QED
    BY <2>2, <2>3
<1>5. \A i : i \in DOMAIN f <=> \E n \in 1..Len(s) : LastOf(s, n) /\ s[n].id = i
  BY <1>2, <1>3
<1>6. f = [i \in DOMAIN f |-> f[i]]
  BY <1>3
<1> HIDE DEF f
<1> QED
  BY <1>2, <1>4, <1>5, <1>6 DEF Leaves, f

\* The entries say it all.
LEMMA LeavesOne ==
  ASSUME NEW s, NEW f, NEW h, Leaves(s, f), Leaves(s, h)
  PROVE  f = h
<1>1. DOMAIN f = DOMAIN h
  BY DEF Leaves
<1>2. ASSUME NEW i \in DOMAIN f
      PROVE  f[i] = h[i]
  <2>1. PICK n \in 1..Len(s) : LastOf(s, n) /\ s[n].id = i
    BY DEF Leaves
  <2> QED
    BY <2>1 DEF Leaves
<1> QED
  BY <1>1, <1>2, Zenon DEF Leaves

\* The last id that was added is at least every other.
LEMMA DoEventsLast ==
  ASSUME NEW s \in Seq(Entry)
  PROVE  /\ DoEvents(s).last \in Nat
         /\ \A n \in 1..Len(s) : s[n].op # "erase" => s[n].id <= DoEvents(s).last
         /\ \/ DoEvents(s).last = 0
            \/ \E n \in 1..Len(s) : s[n].op # "erase" /\ s[n].id = DoEvents(s).last
<1> DEFINE T == {m \in DOMAIN s : s[m].op # "erase"}
           f == [n \in 1..Len(s) |-> s[n].id]
           ids == {s[n].id : n \in T}
<1>1. DOMAIN s = 1..Len(s) /\ Len(s) \in Nat /\ \A n \in 1..Len(s) : s[n] \in Entry
  BY LenProperties, ElementOfSeq
<1>2. IsFiniteSet(ids)
  <2>1. T \in SUBSET (1..Len(s))
    BY <1>1
  <2>2. ids = {f[n] : n \in T}
    BY <1>1
  <2> HIDE DEF f, T, ids
  <2>3. IsFiniteSet({f[n] : n \in T})
    BY <1>1, <2>1, ImageFinite
  <2> QED
    BY <2>2, <2>3
<1>3. \A n \in 1..Len(s) : s[n].id \in Nat
  BY <1>1 DEF Entry
<1>4. {0} \cup ids \in SUBSET Nat /\ IsFiniteSet({0} \cup ids) /\ {0} \cup ids # {}
  <2>1. ids \subseteq Nat
    BY <1>1, <1>3
  <2>2. IsFiniteSet({0})
    BY FS_Singleton
  <2>3. IsFiniteSet({0} \cup ids)
    BY <1>2, <2>2, FS_Union
  <2> QED
    BY <2>1, <2>3
<1>5. DoEvents(s).last = Max({0} \cup ids)
  BY DEF DoEvents
<1> DEFINE x == Max({0} \cup ids)
<1>6. x \in {0} \cup ids /\ \A i \in {0} \cup ids : i <= x
  BY <1>4, MaxFinite
<1>7. \A n \in 1..Len(s) : s[n].op # "erase" => s[n].id \in ids
  BY <1>1
<1>8. \A i \in ids : \E n \in 1..Len(s) : s[n].op # "erase" /\ s[n].id = i
  BY <1>1
<1> HIDE DEF T, ids, x
<1> QED
  BY <1>4, <1>5, <1>6, <1>7, <1>8 DEF x

\* What an entry is.
LEMMA EntryIs ==
  /\ EntryOK \subseteq Entry /\ Torn \notin Entry
  /\ \A e \in Entry : e.id \in Nat \ {0} /\ e.op \in {"add", "rewrite", "erase"}
  /\ \A e \in Entry : e.op # "erase" => e.key \in Key
  /\ Entry \cap {Nothing} = {}
<1>1. Torn \notin Entry
  BY DEF Torn, Entry
<1>2. \A e \in Entry : e.id \in Nat \ {0} /\ e.op \in {"add", "rewrite", "erase"}
  BY DEF Entry
<1>3. \A e \in Entry : e.op # "erase" => e.key \in Key
  BY DEF Entry
<1> QED
  BY <1>1, <1>2, <1>3, BinlogAssumption DEF EntryOK

\* One entry more.
Put(f, e) ==
  IF e.op = "erase" THEN Restrict(f, DOMAIN f \ {e.id}) ELSE With(f, e.id, e)

\* What one more entry does to the live events.
LEMMA PutAt ==
  ASSUME NEW f, NEW e
  PROVE  /\ e.op = "erase" => /\ DOMAIN Put(f, e) = DOMAIN f \ {e.id}
                              /\ \A i \in DOMAIN f \ {e.id} : Put(f, e)[i] = f[i]
         /\ e.op # "erase" => /\ DOMAIN Put(f, e) = DOMAIN f \cup {e.id}
                              /\ Put(f, e)[e.id] = e
                              /\ \A i \in DOMAIN f \ {e.id} : Put(f, e)[i] = f[i]
         /\ Put(f, e) = [i \in DOMAIN Put(f, e) |-> Put(f, e)[i]]
BY DEF Put, With, Restrict

\* One more entry is put on what the entries before it leave.
LEMMA LeavesAppend ==
  ASSUME NEW s \in Seq(Entry), NEW e \in Entry, NEW f, Leaves(s, f)
  PROVE  Leaves(Append(s, e), Put(f, e))
<1> DEFINE n == Len(s)
           u == Append(s, e)
           h == Put(f, e)
<1>1. /\ n \in Nat /\ Len(u) = n + 1 /\ u[n + 1] = e
      /\ \A k \in 1..n : u[k] = s[k] /\ k \in 1..n + 1
  BY AppendProperties, LenProperties
<1>2. /\ e.op = "erase" => DOMAIN h = DOMAIN f \ {e.id}
      /\ e.op # "erase" => DOMAIN h = DOMAIN f \cup {e.id} /\ h[e.id] = e
      /\ \A i \in DOMAIN f \ {e.id} : h[i] = f[i]
      /\ h = [i \in DOMAIN h |-> h[i]]
  BY PutAt
<1> HIDE DEF n, u, h
<1>3. \A k \in 1..n : LastOf(u, k) <=> LastOf(s, k) /\ s[k].id # e.id
  BY <1>1 DEF LastOf, n
<1>4. LastOf(u, n + 1) <=> e.op # "erase"
  BY <1>1 DEF LastOf
<1>5. \A k \in 1..n + 1 : k \in 1..n \/ k = n + 1
  BY <1>1
<1>6. ASSUME NEW i, i \in DOMAIN h
      PROVE  \E k \in 1..Len(u) : LastOf(u, k) /\ u[k].id = i
  <2>1. CASE i = e.id
    BY <1>1, <1>2, <1>4, <1>6, <2>1
  <2>2. CASE i # e.id
    <3>1. PICK k \in 1..n : LastOf(s, k) /\ s[k].id = i
      BY <1>2, <1>6, <2>2 DEF Leaves, n
    <3> QED
      BY <1>1, <1>3, <2>2, <3>1
  <2> QED
    BY <2>1, <2>2
<1>7. ASSUME NEW k \in 1..Len(u), LastOf(u, k)
      PROVE  u[k].id \in DOMAIN h /\ h[u[k].id] = u[k]
  <2>1. CASE k \in 1..n
    BY <1>1, <1>2, <1>3, <1>7, <2>1 DEF Leaves, n
  <2>2. CASE k = n + 1
    BY <1>1, <1>2, <1>4, <1>7, <2>2
  <2> QED
    BY <1>1, <1>5, <2>1, <2>2
<1> QED
  BY <1>2, <1>6, <1>7, Zenon DEF Leaves, u, h

\* The live events after one more entry.
LEMMA LiveAppend ==
  ASSUME NEW s \in Seq(Entry), NEW e \in Entry
  PROVE  DoEvents(Append(s, e)).live = Put(DoEvents(s).live, e)
<1>1. Append(s, e) \in Seq(Entry)
  BY AppendProperties
<1> QED
  BY <1>1, DoEventsLive, LeavesAppend, LeavesOne, Zenon

\* The events of a log are typed when its entries are.
LEMMA LoadTyped ==
  ASSUME NEW s \in Seq(EntryOK)
  PROVE  EventsTyped(DoEvents(s))
<1> DEFINE p == DoEvents(s)
<1>1. s \in Seq(Entry)
  BY EntryIs, SeqDef
<1>2. Leaves(s, p.live)
  BY <1>1, DoEventsLive
<1>3. /\ p.last \in Nat
      /\ \A n \in 1..Len(s) : s[n].op # "erase" => s[n].id <= p.last
  BY <1>1, DoEventsLast
<1>4. p \in [live : {p.live}, last : Nat]
  BY <1>3 DEF DoEvents
<1> HIDE DEF p
<1>5. ASSUME NEW i \in DOMAIN p.live
      PROVE  /\ i \in 1..p.last /\ p.live[i].id = i /\ p.live[i] \in Written
             /\ p.live[i].value \in Value[p.live[i].key]
  <2>1. PICK n \in 1..Len(s) : LastOf(s, n) /\ s[n].id = i /\ p.live[i] = s[n]
    BY <1>2 DEF Leaves
  <2>2. s[n] \in EntryOK /\ s[n].op # "erase" /\ i <= p.last
    BY <1>3, <2>1, ElementOfSeq DEF LastOf
  <2>3. i \in Nat \ {0} /\ s[n] \in Entry
    BY <2>1, <2>2, EntryIs
  <2>4. i \in 1..p.last
    BY <1>3, <2>2, <2>3
  <2>5. p.live[i].value \in Value[p.live[i].key]
    BY <2>1, <2>2 DEF EntryOK
  <2> QED
    BY <2>1, <2>2, <2>3, <2>4, <2>5 DEF Written
<1>6. p.live \in [DOMAIN p.live -> Written]
  BY <1>2, <1>5 DEF Leaves
<1> QED
  BY <1>4, <1>5, <1>6, Zenon DEF EventsTyped, p

\* No entries, no events.
LEMMA NoneLive ==
  DoEvents(<<>>) = NoEvents /\ DOMAIN NoEvents.live = {} /\ EventsTyped(NoEvents)
  /\ OneEach(NoEvents)
<1>1. <<>> \in Seq(EntryOK) /\ <<>> \in Seq(Entry) /\ Len(<<>>) = 0 /\ DOMAIN <<>> = {}
  BY EmptySeq
<1>2. DOMAIN DoEvents(<<>>).live = {}
  <2>1. Leaves(<<>>, DoEvents(<<>>).live)
    BY <1>1, DoEventsLive, Zenon
  <2>2. \A n \in 1..Len(<<>>) : FALSE
    BY <1>1
  <2> QED
    BY <2>1, <2>2, Zenon DEF Leaves
<1>3. DoEvents(<<>>).live = <<>>
  <2>1. Leaves(<<>>, <<>>)
    BY <1>1 DEF Leaves
  <2> QED
    BY <1>1, <2>1, DoEventsLive, LeavesOne, Zenon
<1>4. DoEvents(<<>>).last = 0
  <2>1. \A n \in 1..Len(<<>>) : FALSE
    BY <1>1
  <2> QED
    BY <1>1, <2>1, DoEventsLast, Zenon
<1>5. DoEvents(<<>>) = NoEvents
  BY <1>3, <1>4 DEF DoEvents, NoEvents
<1> QED
  BY <1>1, <1>2, <1>5, LoadTyped DEF OneEach

\* The closed form is what do_event() computes, one entry after the other
\* (BinlogEventsProcessor::do_event).
THEOREM EventsOneByOne ==
  /\ DoEvents(<<>>) = NoEvents
  /\ \A s \in Seq(Entry), e \in Entry : DoEvents(Append(s, e)) = DoEvent(DoEvents(s), e)
<1>1. ASSUME NEW s \in Seq(Entry), NEW e \in Entry
      PROVE  DoEvents(Append(s, e)) = DoEvent(DoEvents(s), e)
  <2> DEFINE n == Len(s)
             u == Append(s, e)
             p == DoEvents(s)
             q == DoEvents(u)
             r == DoEvent(p, e)
             i == e.id
  <2>1. /\ u \in Seq(Entry) /\ n \in Nat /\ Len(u) = n + 1 /\ u[n + 1] = e
        /\ \A k \in 1..n : u[k] = s[k] /\ k \in 1..n + 1
    BY AppendProperties, LenProperties
  <2>2. /\ p.last \in Nat
        /\ \A k \in 1..n : s[k].op # "erase" => s[k].id <= p.last
        /\ p.last = 0 \/ \E k \in 1..n : s[k].op # "erase" /\ s[k].id = p.last
    BY DoEventsLast
  <2>3. /\ q.last \in Nat
        /\ \A k \in 1..n + 1 : u[k].op # "erase" => u[k].id <= q.last
        /\ q.last = 0 \/ \E k \in 1..n + 1 : u[k].op # "erase" /\ u[k].id = q.last
    BY <2>1, DoEventsLast
  <2>4. q.live = Put(p.live, e)
    BY LiveAppend
  <2>5. i \in Nat \ {0}
    BY DEF Entry
  <2>6. p = [live |-> p.live, last |-> p.last] /\ q = [live |-> q.live, last |-> q.last]
    BY DEF DoEvents
  <2>7. /\ r.live = Put(p.live, e)
        /\ r.last = IF e.op # "erase" /\ i > p.last THEN i ELSE p.last
        /\ r = [live |-> r.live, last |-> r.last]
    BY <2>6 DEF DoEvent, Put
  <2> HIDE DEF n, u, p, q, r, i
  <2>8. n + 1 \in 1..n + 1 /\ \A k \in 1..n + 1 : k \in 1..n \/ k = n + 1
    BY <2>1
  <2>9. \A k \in 1..n : s[k].op # "erase" => s[k].id <= q.last
    BY <2>1, <2>3
  <2>10. e.op # "erase" => i <= q.last
    BY <2>1, <2>3, <2>8 DEF i
  <2>11. p.last <= q.last
    BY <2>2, <2>3, <2>9
  <2>12. q.last <= p.last \/ (e.op # "erase" /\ q.last = i)
    <3>1. CASE q.last = 0
      BY <2>2, <3>1
    <3>2. ASSUME NEW k \in 1..n + 1, u[k].op # "erase", u[k].id = q.last
          PROVE  q.last <= p.last \/ (e.op # "erase" /\ q.last = i)
      BY <2>1, <2>2, <2>8, <3>2 DEF i
    <3> QED
      BY <2>3, <3>1, <3>2
  <2>13. q.last = IF e.op # "erase" /\ i > p.last THEN i ELSE p.last
    BY <2>2, <2>3, <2>5, <2>10, <2>11, <2>12
  <2> QED
    BY <2>4, <2>6, <2>7, <2>13 DEF u, p, q, r
<1> QED
  BY <1>1, NoneLive

\* What lives, written to a new file, lives there.
LEMMA CompactLive ==
  ASSUME NEW p, EventsTyped(p)
  PROVE  /\ Compact(p) \in Seq(EntryOK)
         /\ DoEvents(Compact(p)).live = p.live
         /\ IsFiniteSet(DOMAIN p.live) /\ Len(Compact(p)) = Cardinality(DOMAIN p.live)
<1> DEFINE S == DOMAIN p.live
           c == Cardinality(S)
           ids == Ascending(S)
           l == Compact(p)
<1>1. p.last \in Nat /\ S \in SUBSET (1..p.last)
  BY DEF EventsTyped
<1>2. IsFiniteSet(S) /\ S \in SUBSET Nat
  <2>1. IsFiniteSet(1..p.last)
    <3>1. 1 \in Int /\ p.last \in Int
      BY <1>1
    <3> QED
      BY <3>1, FS_Interval, Zenon
  <2>2. S \subseteq Nat
    BY <1>1
  <2> QED
    BY <1>1, <2>1, <2>2, FS_Subset
<1>3. /\ c \in Nat /\ ids \in Seq(S) /\ DOMAIN ids = 1..c
      /\ \A i \in S : \E k \in 1..c : ids[k] = i
  BY <1>2, AscendingSeq
<1>4. \A k \in 1..c : ids[k] \in S
  BY <1>3, ElementOfSeq
<1>5. \A k, m \in 1..c : ids[k] = ids[m] => k = m
  BY <1>2, AscendingOnce
<1>6. l = [k \in 1..c |-> p.live[ids[k]]]
  BY <1>3 DEF Compact
<1>7. \A i \in S : p.live[i] \in EntryOK /\ p.live[i].op # "erase" /\ p.live[i].id = i
  BY DEF EventsTyped, EntryOK, Written
<1> HIDE DEF S, c, ids, l
<1>8. l \in Seq(EntryOK) /\ Len(l) = c
  BY <1>3, <1>4, <1>6, <1>7, SeqDef
<1>9. l \in Seq(Entry)
  BY <1>8, EntryIs, SeqDef
<1>10. \A k \in 1..c : l[k] = p.live[ids[k]] /\ l[k].id = ids[k] /\ l[k].op # "erase"
  BY <1>4, <1>6, <1>7
<1>11. \A k \in 1..c : LastOf(l, k)
  BY <1>5, <1>8, <1>10 DEF LastOf
<1>12. Leaves(l, p.live)
  <2>1. \A i : i \in S <=> \E k \in 1..c : LastOf(l, k) /\ l[k].id = i
    BY <1>3, <1>4, <1>10, <1>11
  <2>2. \A k \in 1..c : LastOf(l, k) => p.live[l[k].id] = l[k]
    BY <1>10
  <2>3. p.live = [i \in S |-> p.live[i]]
    BY DEF EventsTyped, S
  <2> QED
    BY <1>8, <2>1, <2>2, <2>3, Zenon DEF Leaves, S
<1>13. DoEvents(l).live = p.live
  BY <1>9, <1>12, DoEventsLive, LeavesOne, Zenon
<1> QED
  BY <1>2, <1>8, <1>13 DEF l, S, c

-----------------------------------------------------------------------------
(***************************************************************************)
(* The beginning and the end of a sequence.                                *)
(***************************************************************************)
LEMMA Prefix ==
  ASSUME NEW S, NEW s \in Seq(S), NEW n \in 0..Len(s)
  PROVE  /\ SubSeq(s, 1, n) \in Seq(S) /\ Len(SubSeq(s, 1, n)) = n
         /\ \A i \in 1..n : SubSeq(s, 1, n)[i] = s[i]
<1>1. Len(s) \in Nat /\ n \in Int /\ 1 \in Int
  BY LenProperties
<1>2. \A i \in 1..n : s[i] \in S
  BY <1>1, ElementOfSeq
<1>3. /\ SubSeq(s, 1, n) \in Seq(S)
      /\ Len(SubSeq(s, 1, n)) = IF 1 <= n THEN n - 1 + 1 ELSE 0
      /\ \A i \in 1..n - 1 + 1 : SubSeq(s, 1, n)[i] = s[1 + i - 1]
  BY <1>1, <1>2, SubSeqProperties
<1> QED
  BY <1>1, <1>3

\* A prefix of a prefix is a prefix.
LEMMA PrefixTwice ==
  ASSUME NEW S, NEW s \in Seq(S), NEW n \in 0..Len(s), NEW m \in 0..n
  PROVE  SubSeq(SubSeq(s, 1, n), 1, m) = SubSeq(s, 1, m)
<1>1. /\ SubSeq(s, 1, n) \in Seq(S) /\ Len(SubSeq(s, 1, n)) = n
      /\ \A i \in 1..n : SubSeq(s, 1, n)[i] = s[i]
  BY Prefix
<1>2. m \in 0..Len(s) /\ Len(s) \in Nat
  BY LenProperties
<1>3. /\ SubSeq(s, 1, m) \in Seq(S) /\ Len(SubSeq(s, 1, m)) = m
      /\ \A i \in 1..m : SubSeq(s, 1, m)[i] = s[i]
  BY <1>2, Prefix
<1> DEFINE t == SubSeq(s, 1, n)
<1> HIDE DEF t
<1>4. /\ SubSeq(t, 1, m) \in Seq(S) /\ Len(SubSeq(t, 1, m)) = m
      /\ \A i \in 1..m : SubSeq(t, 1, m)[i] = t[i]
  BY <1>1, Prefix DEF t
<1>5. \A i \in 1..m : SubSeq(t, 1, m)[i] = SubSeq(s, 1, m)[i]
  BY <1>1, <1>3, <1>4 DEF t
<1>6. SubSeq(t, 1, m) = SubSeq(s, 1, m)
  BY <1>3, <1>4, <1>5, SeqEqual
<1> QED
  BY <1>6 DEF t

\* The prefixes of a longer sequence by one.
LEMMA PrefixAppend ==
  ASSUME NEW S, NEW s \in Seq(S), NEW e \in S
  PROVE  /\ \A n \in 0..Len(s) : SubSeq(Append(s, e), 1, n) = SubSeq(s, 1, n)
         /\ SubSeq(Append(s, e), 1, Len(s) + 1) = Append(s, e)
<1> DEFINE u == Append(s, e)
<1>1. /\ u \in Seq(S) /\ Len(u) = Len(s) + 1 /\ Len(s) \in Nat
      /\ \A i \in 1..Len(s) : u[i] = s[i]
  BY AppendProperties, LenProperties
<1> HIDE DEF u
<1>2. ASSUME NEW n \in 0..Len(s)
      PROVE  SubSeq(u, 1, n) = SubSeq(s, 1, n)
  <2>1. n \in 0..Len(u)
    BY <1>1
  <2>2. /\ SubSeq(u, 1, n) \in Seq(S) /\ Len(SubSeq(u, 1, n)) = n
        /\ \A i \in 1..n : SubSeq(u, 1, n)[i] = u[i]
    BY <1>1, <2>1, Prefix
  <2>3. /\ SubSeq(s, 1, n) \in Seq(S) /\ Len(SubSeq(s, 1, n)) = n
        /\ \A i \in 1..n : SubSeq(s, 1, n)[i] = s[i]
    BY Prefix
  <2>4. \A i \in 1..n : SubSeq(u, 1, n)[i] = SubSeq(s, 1, n)[i]
    BY <1>1, <2>2, <2>3
  <2> QED
    BY <2>2, <2>3, <2>4, SeqEqual
<1>3. SubSeq(u, 1, Len(s) + 1) = u
  BY <1>1, SubSeqFull
<1> QED
  BY <1>2, <1>3 DEF u

\* A prefix of the first part is one of the whole.
LEMMA PrefixConcat ==
  ASSUME NEW S, NEW s \in Seq(S), NEW t \in Seq(S), NEW n \in 0..Len(s)
  PROVE  SubSeq(s \o t, 1, n) = SubSeq(s, 1, n)
<1> DEFINE u == s \o t
<1>1. /\ u \in Seq(S) /\ Len(u) = Len(s) + Len(t) /\ Len(s) \in Nat /\ Len(t) \in Nat
      /\ \A i \in 1..Len(s) : u[i] = s[i]
  BY ConcatProperties, LenProperties
<1> HIDE DEF u
<1>2. n \in 0..Len(u)
  BY <1>1
<1>3. /\ SubSeq(u, 1, n) \in Seq(S) /\ Len(SubSeq(u, 1, n)) = n
      /\ \A i \in 1..n : SubSeq(u, 1, n)[i] = u[i]
  BY <1>1, <1>2, Prefix
<1>4. /\ SubSeq(s, 1, n) \in Seq(S) /\ Len(SubSeq(s, 1, n)) = n
      /\ \A i \in 1..n : SubSeq(s, 1, n)[i] = s[i]
  BY Prefix
<1>5. \A i \in 1..n : SubSeq(u, 1, n)[i] = SubSeq(s, 1, n)[i]
  BY <1>1, <1>3, <1>4
<1>6. SubSeq(u, 1, n) = SubSeq(s, 1, n)
  BY <1>3, <1>4, <1>5, SeqEqual
<1> QED
  BY <1>6 DEF u

\* Appending comes after joining.
LEMMA ConcatAppend ==
  ASSUME NEW S, NEW s \in Seq(S), NEW t \in Seq(S), NEW e \in S
  PROVE  s \o Append(t, e) = Append(s \o t, e)
<1> DEFINE u == Append(t, e)
           v == s \o t
<1>1. /\ u \in Seq(S) /\ Len(u) = Len(t) + 1 /\ u[Len(t) + 1] = e
      /\ \A i \in 1..Len(t) : u[i] = t[i]
  BY AppendProperties
<1>2. /\ v \in Seq(S) /\ Len(v) = Len(s) + Len(t)
      /\ \A i \in 1..Len(s) + Len(t) : v[i] = IF i <= Len(s) THEN s[i] ELSE t[i - Len(s)]
  BY ConcatProperties
<1>3. Len(s) \in Nat /\ Len(t) \in Nat
  BY LenProperties
<1> HIDE DEF u, v
<1>4. /\ s \o u \in Seq(S) /\ Len(s \o u) = Len(s) + Len(u)
      /\ \A i \in 1..Len(s) + Len(u) : (s \o u)[i] = IF i <= Len(s) THEN s[i] ELSE u[i - Len(s)]
  BY <1>1, ConcatProperties
<1>5. /\ Append(v, e) \in Seq(S) /\ Len(Append(v, e)) = Len(v) + 1
      /\ Append(v, e)[Len(v) + 1] = e
      /\ \A i \in 1..Len(v) : Append(v, e)[i] = v[i]
  <2>1. v \in Seq(S)
    BY <1>2
  <2> QED
    BY <2>1, AppendProperties
<1>6. ASSUME NEW i \in 1..Len(s) + Len(t) + 1
      PROVE  (s \o u)[i] = Append(v, e)[i]
  <2>1. CASE i <= Len(s)
    BY <1>1, <1>2, <1>3, <1>4, <1>5, <2>1
  <2>2. CASE i > Len(s) /\ i <= Len(s) + Len(t)
    <3>1. i - Len(s) \in 1..Len(t)
      BY <1>3, <2>2
    <3>2. (s \o u)[i] = u[i - Len(s)]
      BY <1>1, <1>3, <1>4, <2>2
    <3>3. Append(v, e)[i] = v[i] /\ v[i] = t[i - Len(s)]
      BY <1>2, <1>3, <1>5, <2>2
    <3> QED
      BY <1>1, <3>1, <3>2, <3>3
  <2>3. CASE i = Len(s) + Len(t) + 1
    <3>1. i - Len(s) = Len(t) + 1
      BY <1>3, <2>3
    <3> QED
      BY <1>1, <1>2, <1>3, <1>4, <1>5, <2>3, <3>1
  <2>4. i <= Len(s) \/ (i > Len(s) /\ i <= Len(s) + Len(t)) \/ i = Len(s) + Len(t) + 1
    BY <1>3
  <2> QED
    BY <2>1, <2>2, <2>3, <2>4
<1>7. Len(s \o u) = Len(Append(v, e)) /\ Len(s \o u) = Len(s) + Len(t) + 1
  BY <1>1, <1>2, <1>3, <1>4, <1>5
<1>8. s \o u = Append(v, e)
  BY <1>4, <1>5, <1>6, <1>7, SeqEqual
<1> QED
  BY <1>8 DEF u, v

\* The rest of s from n on.
LEMMA Suffix ==
  ASSUME NEW S, NEW s \in Seq(S), NEW n \in 1..Len(s)
  PROVE  /\ SubSeq(s, n, Len(s)) \in Seq(S)
         /\ Len(SubSeq(s, n, Len(s))) = Len(s) - n + 1
         /\ \A i \in n..Len(s) : SubSeq(s, n, Len(s))[i - n + 1] = s[i]
<1>1. Len(s) \in Nat /\ n \in Int /\ Len(s) \in Int /\ n <= Len(s)
  BY LenProperties
<1>2. \A i \in n..Len(s) : s[i] \in S
  BY <1>1, ElementOfSeq
<1>3. /\ SubSeq(s, n, Len(s)) \in Seq(S)
      /\ Len(SubSeq(s, n, Len(s))) = IF n <= Len(s) THEN Len(s) - n + 1 ELSE 0
      /\ \A i \in 1..Len(s) - n + 1 : SubSeq(s, n, Len(s))[i] = s[n + i - 1]
  BY <1>1, <1>2, SubSeqProperties
<1>4. \A i \in n..Len(s) : i - n + 1 \in 1..Len(s) - n + 1 /\ n + (i - n + 1) - 1 = i
  BY <1>1
<1> QED
  BY <1>1, <1>3, <1>4

-----------------------------------------------------------------------------
(***************************************************************************)
(* A file ends at a piece of an entry.                                     *)
(***************************************************************************)
LEMMA WholeClean ==
  ASSUME NEW l \in Seq(Entry)
  PROVE  Whole(l) = l
<1> DEFINE T == {i \in DOMAIN l : l[i] = Torn} \cup {Len(l) + 1}
<1>1. DOMAIN l = 1..Len(l) /\ Len(l) \in Nat /\ \A i \in 1..Len(l) : l[i] \in Entry
  BY LenProperties, ElementOfSeq
<1>2. T = {Len(l) + 1}
  BY <1>1, EntryIs
<1>3. Min(T) = Len(l) + 1
  <2>1. {Len(l) + 1} \in SUBSET Nat /\ {Len(l) + 1} # {}
    BY <1>1
  <2>2. Min({Len(l) + 1}) \in {Len(l) + 1}
    BY <2>1, MinOf
  <2> HIDE DEF T
  <2> QED
    BY <1>2, <2>2
<1>4. Whole(l) = SubSeq(l, 1, Len(l) + 1 - 1)
  <2>1. Whole(l) = SubSeq(l, 1, Min(T) - 1)
    BY Zenon DEF Whole
  <2> HIDE DEF T
  <2> QED
    BY <1>3, <2>1
<1>5. Len(l) + 1 - 1 = Len(l)
  BY <1>1
<1> QED
  BY <1>4, <1>5, SubSeqFull

\* A piece of an entry at the end is cut off.
LEMMA WholeTorn ==
  ASSUME NEW l \in Seq(Entry)
  PROVE  Whole(Append(l, Torn)) = l
<1> DEFINE u == Append(l, Torn)
           T == {i \in DOMAIN u : u[i] = Torn} \cup {Len(u) + 1}
<1>1. Len(l) \in Nat /\ \A i \in 1..Len(l) : l[i] \in Entry
  BY LenProperties, ElementOfSeq
<1>2. l \in Seq(Entry \cup {Torn}) /\ Torn \in Entry \cup {Torn}
  BY SeqDef
<1>3. /\ u \in Seq(Entry \cup {Torn}) /\ Len(u) = Len(l) + 1 /\ u[Len(l) + 1] = Torn
      /\ DOMAIN u = 1..Len(l) + 1
      /\ \A i \in 1..Len(l) : u[i] = l[i]
  <2>1. /\ u \in Seq(Entry \cup {Torn}) /\ Len(u) = Len(l) + 1 /\ u[Len(l) + 1] = Torn
        /\ \A i \in 1..Len(l) : u[i] = l[i]
    BY <1>2, AppendProperties
  <2> QED
    BY <2>1, LenProperties
<1>4. SubSeq(u, 1, Len(l)) = l
  <2>1. SubSeq(u, 1, Len(l)) = SubSeq(l, 1, Len(l))
    <3>1. Len(l) \in 0..Len(l)
      BY <1>1
    <3> QED
      BY <1>2, <3>1, PrefixAppend
  <2> QED
    BY <2>1, SubSeqFull
<1> HIDE DEF u
<1>5. T = {Len(l) + 1, Len(l) + 2}
  <2>1. \A i \in 1..Len(l) : u[i] # Torn
    BY <1>1, <1>3, EntryIs
  <2>2. \A i \in 1..Len(l) + 1 : i \in 1..Len(l) \/ i = Len(l) + 1
    BY <1>1
  <2>3. Len(l) + 1 \in 1..Len(l) + 1 /\ Len(u) + 1 = Len(l) + 2
    BY <1>1, <1>3
  <2> QED
    BY <1>3, <2>1, <2>2, <2>3
<1>6. Min(T) = Len(l) + 1
  <2> HIDE DEF T
  <2>1. T \in SUBSET Nat /\ T # {}
    BY <1>1, <1>5
  <2>2. Min(T) \in T /\ \A i \in T : Min(T) <= i
    BY <2>1, MinOf
  <2> QED
    BY <1>1, <1>5, <2>2
<1>7. Whole(u) = SubSeq(u, 1, Len(l) + 1 - 1)
  <2>1. Whole(u) = SubSeq(u, 1, Min(T) - 1)
    BY Zenon DEF Whole
  <2> HIDE DEF T
  <2> QED
    BY <1>6, <2>1
<1>8. Len(l) + 1 - 1 = Len(l)
  BY <1>1
<1> QED
  BY <1>4, <1>7, <1>8 DEF u

-----------------------------------------------------------------------------
(***************************************************************************)
(* The map of the events, and what an entry makes of both.                 *)
(***************************************************************************)
LiveOK(f, n) ==
  /\ DOMAIN f \subseteq 1..n /\ f \in [DOMAIN f -> Written]
  /\ \A i \in DOMAIN f : f[i].id = i /\ f[i].value \in Value[f[i].key]

OneKey(f) == \A i, j \in DOMAIN f : f[i].key = f[j].key => i = j

\* The map m is the one of the events f.
Shows(f, m) ==
  /\ \A k : k \in DOMAIN m <=> \E i \in DOMAIN f : f[i].key = k
  /\ \A i \in DOMAIN f : m[f[i].key] = [value |-> f[i].value, id |-> i]
  /\ m = [k \in DOMAIN m |-> m[k]]

\* The events are typed when their live ones are.
LEMMA EventsAre ==
  ASSUME NEW p
  PROVE  /\ EventsTyped(p) => LiveOK(p.live, p.last) /\ p.last \in Nat
         /\ OneEach(p) <=> OneKey(p.live)
         /\ p \in [live : {p.live}, last : Nat] /\ LiveOK(p.live, p.last) => EventsTyped(p)
BY Zenon DEF EventsTyped, LiveOK, OneEach, OneKey

\* The map of the events shows them.
LEMMA ContentsShow ==
  ASSUME NEW p, OneKey(p.live), DOMAIN p.live \subseteq Nat
  PROVE  Shows(p.live, Contents(p))
<1> DEFINE f == p.live
           C == Contents(p)
           ids(k) == {i \in DOMAIN f : f[i].key = k}
<1>1. C = [k \in {f[i].key : i \in DOMAIN f} |->
             [value |-> f[Min(ids(k))].value, id |-> Min(ids(k))]]
  BY Zenon DEF Contents
<1>2. ASSUME NEW i \in DOMAIN f
      PROVE  C[f[i].key] = [value |-> f[i].value, id |-> i]
  <2>1. ids(f[i].key) = {i}
    BY DEF OneKey
  <2>2. Min(ids(f[i].key)) = i
    <3>1. {i} \in SUBSET Nat /\ {i} # {}
      OBVIOUS
    <3>2. Min({i}) \in {i}
      BY <3>1, MinOf
    <3> HIDE DEF ids
    <3> QED
      BY <2>1, <3>2
  <2> HIDE DEF ids
  <2>3. f[i].key \in {f[j].key : j \in DOMAIN f}
    OBVIOUS
  <2>4. C[f[i].key] = [value |-> f[Min(ids(f[i].key))].value, id |-> Min(ids(f[i].key))]
    BY <1>1, <2>3
  <2> QED
    BY <2>2, <2>4
<1>3. \A k : k \in DOMAIN C <=> \E i \in DOMAIN f : f[i].key = k
  BY <1>1
<1>4. C = [k \in DOMAIN C |-> C[k]]
  BY <1>1
<1> QED
  BY <1>2, <1>3, <1>4, Zenon DEF Shows

\* The events show one map only.
LEMMA ShowsOne ==
  ASSUME NEW f, NEW m, NEW l, Shows(f, m), Shows(f, l)
  PROVE  m = l
<1>1. DOMAIN m = DOMAIN l
  BY DEF Shows
<1>2. ASSUME NEW k \in DOMAIN m
      PROVE  m[k] = l[k]
  <2>1. PICK i \in DOMAIN f : f[i].key = k
    BY DEF Shows
  <2> QED
    BY <2>1 DEF Shows
<1> QED
  BY <1>1, <1>2, Zenon DEF Shows

\* What a live event is.
LEMMA LiveEntry ==
  ASSUME NEW f, NEW n, LiveOK(f, n), NEW i \in DOMAIN f
  PROVE  /\ i \in 1..n /\ f[i].id = i /\ f[i].op # "erase"
         /\ f[i].key \in Key /\ f[i].value \in Value[f[i].key]
         /\ f[i].value \in UNION {Value[k] : k \in Key}
<1>1. f[i] \in Entry /\ f[i].op # "erase"
  BY DEF LiveOK, Written
<1>2. f[i].key \in Key
  BY <1>1, EntryIs
<1> QED
  BY <1>1, <1>2 DEF LiveOK

\* The map that well-formed events show is well-formed.
LEMMA ShownOK ==
  ASSUME NEW f, NEW n, LiveOK(f, n), OneKey(f), NEW m, Shows(f, m)
  PROVE  MapOK(m, n)
<1>1. ASSUME NEW k \in DOMAIN m
      PROVE  /\ k \in Key /\ m[k].value \in Value[k]
             /\ m[k] \in [value : UNION {Value[j] : j \in Key}, id : 1..n]
             /\ m[k].id \in DOMAIN f /\ f[m[k].id].key = k
  <2>1. PICK i \in DOMAIN f : f[i].key = k
    BY DEF Shows
  <2>2. m[k] = [value |-> f[i].value, id |-> i]
    BY <2>1 DEF Shows
  <2>3. /\ i \in 1..n /\ k \in Key /\ f[i].value \in Value[k]
        /\ f[i].value \in UNION {Value[j] : j \in Key}
    BY <2>1, LiveEntry
  <2> QED
    BY <2>1, <2>2, <2>3
<1>2. \A k, l \in DOMAIN m : m[k].id = m[l].id => k = l
  BY <1>1
<1>3. m \in [DOMAIN m -> [value : UNION {Value[k] : k \in Key}, id : 1..n]]
  BY <1>1 DEF Shows
<1> QED
  BY <1>1, <1>2, <1>3 DEF MapOK

\* An entry changes the events as it changes the map.
LEMMA MakesLive ==
  ASSUME NEW n \in Nat \ {0}, NEW f, LiveOK(f, n - 1), OneKey(f), NEW c, Shows(f, c),
         NEW e \in Entry, NEW m, Makes(e, n, c, m), MapOK(m, n)
  PROVE  /\ LiveOK(Put(f, e), n) /\ OneKey(Put(f, e)) /\ Shows(Put(f, e), m)
         /\ e \in EntryOK
         /\ e.op = "add" => e.id = n
         /\ e.op # "add" => e.id \in DOMAIN f
<1> DEFINE h == Put(f, e)
<1>1. /\ e.op = "erase" => DOMAIN h = DOMAIN f \ {e.id}
      /\ e.op # "erase" => DOMAIN h = DOMAIN f \cup {e.id} /\ h[e.id] = e
      /\ \A i \in DOMAIN f \ {e.id} : h[i] = f[i]
      /\ h = [i \in DOMAIN h |-> h[i]]
  <2>1. /\ e.op = "erase" => DOMAIN h = DOMAIN f \ {e.id}
        /\ e.op # "erase" => DOMAIN h = DOMAIN f \cup {e.id} /\ h[e.id] = e
    BY PutAt
  <2>2. \A i \in DOMAIN f \ {e.id} : h[i] = f[i]
    BY PutAt
  <2>3. h = [i \in DOMAIN h |-> h[i]]
    BY DEF Put, With, Restrict
  <2> QED
    BY <2>1, <2>2, <2>3
<1> HIDE DEF h
<1>2. /\ \A i \in DOMAIN f : i \in 1..n - 1 /\ f[i].id = i /\ f[i].value \in Value[f[i].key]
      /\ \A i \in DOMAIN f : f[i] \in Written
  BY DEF LiveOK
<1>3. e.op \in {"add", "rewrite", "erase"} /\ e.id \in Nat \ {0}
  BY EntryIs
<1>4. CASE e.op = "erase"
  <2>1. PICK k \in DOMAIN c : c[k].id = e.id /\ m = Restrict(c, DOMAIN c \ {k})
    BY <1>4 DEF Makes
  <2>2. PICK i \in DOMAIN f : f[i].key = k
    BY DEF Shows
  <2>3. i = e.id
    <3>1. c[k] = [value |-> f[i].value, id |-> i]
      BY <2>2 DEF Shows
    <3> QED
      BY <2>1, <3>1
  <2>4. DOMAIN m = DOMAIN c \ {k} /\ (\A l \in DOMAIN m : m[l] = c[l])
        /\ m = [l \in DOMAIN m |-> m[l]]
    BY <2>1 DEF Restrict
  <2>5. DOMAIN h = DOMAIN f \ {i} /\ \A j \in DOMAIN h : h[j] = f[j]
    BY <1>1, <1>4, <2>3
  <2>6. \A j \in DOMAIN h : f[j].key # k
    BY <2>2, <2>5 DEF OneKey
  <2>7. Shows(h, m)
    <3>1. \A l : l \in DOMAIN m <=> \E j \in DOMAIN h : h[j].key = l
      BY <2>2, <2>4, <2>5, <2>6 DEF Shows
    <3>2. \A j \in DOMAIN h : m[h[j].key] = [value |-> h[j].value, id |-> j]
      BY <2>4, <2>5, <2>6, <3>1 DEF Shows
    <3> QED
      BY <2>4, <3>1, <3>2, Zenon DEF Shows
  <2>8. OneKey(h)
    BY <2>5 DEF OneKey
  <2>9. LiveOK(h, n)
    <3>1. \A j \in DOMAIN h : /\ j \in 1..n /\ h[j] \in Written /\ h[j].id = j
                              /\ h[j].value \in Value[h[j].key]
      BY <1>2, <2>5
    <3> QED
      BY <1>1, <3>1 DEF LiveOK
  <2> QED
    BY <1>4, <2>2, <2>3, <2>7, <2>8, <2>9 DEF EntryOK, h
<1>5. CASE e.op = "add"
  <2>1. e.id = n /\ e.key \notin DOMAIN c /\ m = With(c, e.key, [value |-> e.value, id |-> n])
    BY <1>5 DEF Makes
  <2>2. /\ DOMAIN m = DOMAIN c \cup {e.key} /\ m[e.key] = [value |-> e.value, id |-> n]
        /\ \A l \in DOMAIN c : m[l] = c[l]
        /\ m = [l \in DOMAIN m |-> m[l]]
    BY <2>1 DEF With
  <2>3. e.value \in Value[e.key] /\ e.key \in DOMAIN m
    BY <2>2 DEF MapOK
  <2>4. n \notin DOMAIN f
    BY <1>2
  <2>5. DOMAIN h = DOMAIN f \cup {n} /\ h[n] = e /\ \A j \in DOMAIN f : h[j] = f[j]
    BY <1>1, <1>5, <2>1, <2>4
  <2>6. \A j \in DOMAIN f : f[j].key \in DOMAIN c
    BY DEF Shows
  <2>7. Shows(h, m)
    <3>1. \A l : l \in DOMAIN m <=> \E j \in DOMAIN h : h[j].key = l
      BY <2>2, <2>5 DEF Shows
    <3>2. \A j \in DOMAIN f : m[h[j].key] = [value |-> h[j].value, id |-> j]
      BY <2>2, <2>5, <2>6 DEF Shows
    <3>3. m[h[n].key] = [value |-> h[n].value, id |-> n]
      BY <2>2, <2>5
    <3>4. \A j \in DOMAIN h : m[h[j].key] = [value |-> h[j].value, id |-> j]
      BY <2>5, <3>2, <3>3
    <3> QED
      BY <2>2, <3>1, <3>4, Zenon DEF Shows
  <2>8. OneKey(h)
    BY <2>1, <2>5, <2>6 DEF OneKey
  <2>9. LiveOK(h, n)
    <3>1. \A j \in DOMAIN f : /\ j \in 1..n /\ h[j] \in Written /\ h[j].id = j
                              /\ h[j].value \in Value[h[j].key]
      BY <1>2, <2>5
    <3>2. n \in 1..n /\ h[n] \in Written /\ h[n].id = n /\ h[n].value \in Value[h[n].key]
      BY <1>5, <2>1, <2>3, <2>5 DEF Written
    <3>3. \A j \in DOMAIN h : /\ j \in 1..n /\ h[j] \in Written /\ h[j].id = j
                              /\ h[j].value \in Value[h[j].key]
      BY <2>5, <3>1, <3>2
    <3> QED
      BY <1>1, <3>3 DEF LiveOK
  <2> QED
    BY <1>5, <2>1, <2>3, <2>7, <2>8, <2>9 DEF EntryOK, h
<1>6. CASE e.op = "rewrite"
  <2>1. /\ e.key \in DOMAIN c /\ c[e.key].id = e.id
        /\ m = [c EXCEPT ![e.key].value = e.value]
    BY <1>6 DEF Makes
  <2>2. PICK i \in DOMAIN f : f[i].key = e.key
    BY <2>1 DEF Shows
  <2>3. i = e.id /\ c[e.key] = [value |-> f[i].value, id |-> i]
    BY <2>1, <2>2 DEF Shows
  <2>4. /\ DOMAIN m = DOMAIN c /\ m[e.key] = [value |-> e.value, id |-> i]
        /\ \A l \in DOMAIN c : l # e.key => m[l] = c[l]
        /\ m = [l \in DOMAIN m |-> m[l]]
    BY <2>1, <2>3
  <2>5. DOMAIN h = DOMAIN f /\ h[i] = e /\ \A j \in DOMAIN f : j # i => h[j] = f[j]
    BY <1>1, <1>6, <2>3
  <2>6. e.value \in Value[e.key]
    BY <2>1, <2>4 DEF MapOK
  <2>7. Shows(h, m)
    <3>1. \A l : l \in DOMAIN m <=> \E j \in DOMAIN h : h[j].key = l
      BY <2>2, <2>4, <2>5 DEF Shows
    <3>2. \A j \in DOMAIN h : m[h[j].key] = [value |-> h[j].value, id |-> j]
      BY <2>2, <2>4, <2>5 DEF Shows, OneKey
    <3> QED
      BY <2>4, <3>1, <3>2, Zenon DEF Shows
  <2>8. OneKey(h)
    BY <2>2, <2>5 DEF OneKey
  <2>9. LiveOK(h, n)
    <3>1. \A j \in DOMAIN f : j # i =>
             /\ j \in 1..n /\ h[j] \in Written /\ h[j].id = j
             /\ h[j].value \in Value[h[j].key]
      BY <1>2, <2>5
    <3>2. i \in 1..n /\ h[i] \in Written /\ h[i].id = i /\ h[i].value \in Value[h[i].key]
      BY <1>2, <1>6, <2>3, <2>5, <2>6 DEF Written
    <3>3. \A j \in DOMAIN h : /\ j \in 1..n /\ h[j] \in Written /\ h[j].id = j
                              /\ h[j].value \in Value[h[j].key]
      BY <2>5, <3>1, <3>2
    <3> QED
      BY <1>1, <3>3 DEF LiveOK
  <2> QED
    BY <1>6, <2>2, <2>3, <2>6, <2>7, <2>8, <2>9 DEF EntryOK, h
<1> QED
  BY <1>3, <1>4, <1>5, <1>6

\* The map depends on the live events only.
LEMMA ContentsLive ==
  ASSUME NEW p, NEW r, p.live = r.live
  PROVE  Contents(p) = Contents(r) /\ (OneEach(p) <=> OneEach(r))
BY DEF Contents, OneEach

\* do_event() accepts the entry that makes a map of the map of the events,
\* and its events are then those of the map it makes.
LEMMA EventStep ==
  ASSUME NEW p, EventsTyped(p), OneEach(p), NEW n \in Nat \ {0}, p.last < n,
         NEW e \in Entry, NEW m, Makes(e, n, Contents(p), m), MapOK(m, n)
  PROVE  /\ ~Wrong(p, e) /\ e \in EntryOK
         /\ EventsTyped(DoEvent(p, e)) /\ OneEach(DoEvent(p, e))
         /\ DoEvent(p, e).last < n + 1 /\ DoEvent(p, e).live = Put(p.live, e)
         /\ Contents(DoEvent(p, e)) = m
<1> DEFINE f == p.live
           h == Put(f, e)
           q == DoEvent(p, e)
<1>1. /\ LiveOK(f, p.last) /\ p.last \in Nat /\ OneKey(f)
      /\ p \in [live : {f}, last : Nat]
  BY EventsAre DEF EventsTyped
<1>2. DOMAIN f \subseteq 1..p.last /\ DOMAIN f \subseteq Nat
  BY <1>1 DEF LiveOK
<1>3. LiveOK(f, n - 1)
  <2>1. DOMAIN f \subseteq 1..n - 1
    BY <1>1, <1>2
  <2> QED
    BY <1>1, <2>1 DEF LiveOK
<1>4. Shows(f, Contents(p))
  BY <1>1, <1>2, ContentsShow
<1> HIDE DEF f, h
<1>5. /\ LiveOK(h, n) /\ OneKey(h) /\ Shows(h, m) /\ e \in EntryOK
      /\ e.op = "add" => e.id = n
      /\ e.op # "add" => e.id \in DOMAIN f
  BY <1>1, <1>3, <1>4, MakesLive DEF h
<1>6. e.op \in {"add", "rewrite", "erase"} /\ e.id \in Nat \ {0}
  BY EntryIs
<1>7. ~Wrong(p, e)
  BY <1>1, <1>5 DEF Wrong, f
<1>8. /\ q.live = h /\ q \in [live : {h}, last : Nat]
      /\ q.last = IF e.op # "erase" /\ e.id > p.last THEN e.id ELSE p.last
  <2>1. CASE e.op = "erase"
    <3>1. q = [p EXCEPT !.live = h]
      BY <2>1 DEF DoEvent, h, f, Put
    <3> QED
      BY <1>1, <2>1, <3>1
  <2>2. CASE e.op # "erase"
    BY <1>1, <1>6, <2>2 DEF DoEvent, h, f, Put
  <2> QED
    BY <2>1, <2>2
<1> HIDE DEF q
<1>9. q.last < n + 1 /\ q.last \in Nat
  BY <1>1, <1>2, <1>5, <1>6, <1>8
<1>10. DOMAIN h \subseteq 1..q.last
  <2>1. CASE e.op = "add"
    BY <1>1, <1>5, <1>8, <2>1 DEF LiveOK
  <2>2. CASE e.op # "add"
    <3>1. DOMAIN h \subseteq DOMAIN f
      BY <1>5, <2>2 DEF h, Put, With, Restrict
    <3> QED
      BY <1>1, <1>2, <1>5, <1>6, <1>8, <3>1
  <2> QED
    BY <2>1, <2>2
<1>11. LiveOK(h, q.last)
  BY <1>5, <1>10 DEF LiveOK
<1>12. EventsTyped(q) /\ OneEach(q)
  BY <1>5, <1>8, <1>9, <1>11, EventsAre
<1>13. Contents(q) = m
  <2>1. Shows(q.live, Contents(q))
    <3>1. OneKey(q.live) /\ DOMAIN q.live \subseteq Nat
      BY <1>5, <1>8, <1>9, <1>10
    <3> QED
      BY <3>1, ContentsShow
  <2> QED
    BY <1>5, <1>8, <2>1, ShowsOne
<1> QED
  BY <1>5, <1>7, <1>8, <1>9, <1>12, <1>13 DEF q, h, f

\* The map of typed events is one after their last number.
LEMMA ContentsOK ==
  ASSUME NEW p, EventsTyped(p), OneEach(p)
  PROVE  MapOK(Contents(p), p.last)
<1>1. LiveOK(p.live, p.last) /\ p.last \in Nat /\ OneKey(p.live)
  BY EventsAre
<1>2. DOMAIN p.live \subseteq Nat
  BY <1>1 DEF LiveOK
<1> QED
  BY <1>1, <1>2, ContentsShow, ShownOK

-----------------------------------------------------------------------------
(***************************************************************************)
(* The file and the moments its beginnings make.                           *)
(***************************************************************************)
LEMMA FindsOf ==
  ASSUME NEW l, NEW p, p.live = DoEvents(l).live, OneEach(p)
  PROVE  \A v : v = Values(Contents(p)) => Finds(l, v)
<1>1. Contents(DoEvents(l)) = Contents(p) /\ OneEach(DoEvents(l))
  BY ContentsLive
<1> QED
  BY <1>1 DEF Finds

\* What the predicate says of the whole file.
LEMMA FollowsWhole ==
  ASSUME NEW l, NEW k, NEW ln, NEW g, NEW x, Follows(l, k, ln, g, x)
  PROVE  g[Len(l)] \in 1..x /\ Finds(l, ln[g[Len(l)]])
<1>1. Len(l) \in k..Len(l) /\ SubSeq(l, 1, Len(l)) = l
  BY SubSeqFull, LenProperties DEF Follows
<1> QED
  BY <1>1 DEF Follows

\* An entry more, which makes the moment y.
LEMMA FollowsEntry ==
  ASSUME NEW l, NEW k, NEW ln, NEW g, NEW x \in Nat, Follows(l, k, ln, g, x),
         NEW e \in EntryOK, NEW y \in Nat \ {0}, x <= y, Finds(Append(l, e), ln[y]),
         NEW h, \A n \in k..Len(l) : h[n] = g[n], h[Len(l) + 1] = y
  PROVE  Follows(Append(l, e), k, ln, h, y)
<1>1. l \in Seq(EntryOK) /\ k \in 0..Len(l) /\ Len(l) \in Nat
  BY LenProperties DEF Follows
<1>2. /\ Append(l, e) \in Seq(EntryOK) /\ Len(Append(l, e)) = Len(l) + 1
      /\ \A n \in 0..Len(l) : SubSeq(Append(l, e), 1, n) = SubSeq(l, 1, n)
      /\ SubSeq(Append(l, e), 1, Len(l) + 1) = Append(l, e)
  BY <1>1, AppendProperties, PrefixAppend
<1>3. \A n \in k..Len(l) + 1 : n \in k..Len(l) \/ n = Len(l) + 1
  BY <1>1
<1>4. \A n \in k..Len(l) : g[n] \in 1..x /\ Finds(SubSeq(l, 1, n), ln[g[n]])
  BY DEF Follows
<1>5. \A n \in k..Len(l) : n \in 0..Len(l) /\ h[n] \in 1..y
                           /\ Finds(SubSeq(Append(l, e), 1, n), ln[h[n]])
  <2> TAKE n \in k..Len(l)
  <2>1. n \in 0..Len(l)
    BY <1>1
  <2>2. h[n] = g[n] /\ g[n] \in 1..x /\ Finds(SubSeq(l, 1, n), ln[g[n]])
    BY <1>4
  <2>3. SubSeq(Append(l, e), 1, n) = SubSeq(l, 1, n)
    BY <1>2, <2>1
  <2>4. Finds(SubSeq(Append(l, e), 1, n), ln[h[n]])
    BY <2>2, <2>3, Zenon
  <2>5. h[n] \in 1..y
    BY <2>2
  <2> QED
    BY <2>1, <2>4, <2>5
<1>6. \A n \in k..Len(l) + 1 :
        h[n] \in 1..y /\ Finds(SubSeq(Append(l, e), 1, n), ln[h[n]])
  <2> TAKE n \in k..Len(l) + 1
  <2>1. CASE n \in k..Len(l)
    BY <1>5, <2>1
  <2>2. CASE n = Len(l) + 1
    <3>1. h[n] = y /\ y \in 1..y
      BY <2>2
    <3>2. Finds(SubSeq(Append(l, e), 1, n), ln[h[n]])
      BY <1>2, <2>2, Zenon
    <3> QED
      BY <3>1, <3>2
  <2> QED
    BY <1>3, <2>1, <2>2
<1>7. \A m, n \in k..Len(l) + 1 : m <= n => h[m] <= h[n]
  <2>1. \A m, n \in k..Len(l) : m <= n => h[m] <= h[n]
    BY DEF Follows
  <2>2. \A m \in k..Len(l) : h[m] <= h[Len(l) + 1] /\ ~(Len(l) + 1 <= m)
    BY <1>1, <1>5
  <2> QED
    BY <1>3, <2>1, <2>2
<1>8. k \in 0..Len(l) + 1
  BY <1>1
<1> QED
  BY <1>2, <1>6, <1>7, <1>8 DEF Follows

\* The line grows, the whole file may make a later moment, and more of it is
\* synced.
LEMMA FollowsLater ==
  ASSUME NEW l, NEW k, NEW ln, NEW g, NEW x \in Nat, Follows(l, k, ln, g, x),
         NEW j \in k..Len(l), NEW li, \A i \in 1..x : li[i] = ln[i],
         NEW y \in Nat, x <= y, NEW h, \A n \in j..Len(l) - 1 : h[n] = g[n],
         h[Len(l)] = g[Len(l)] \/ (h[Len(l)] = y /\ y # 0 /\ Finds(l, li[y]))
  PROVE  Follows(l, j, li, h, y)
<1>1. l \in Seq(EntryOK) /\ k \in 0..Len(l) /\ Len(l) \in Nat /\ j \in 0..Len(l)
  BY LenProperties DEF Follows
<1>2. \A n \in j..Len(l) : n \in k..Len(l) /\ (n \in j..Len(l) - 1 \/ n = Len(l))
  BY <1>1
<1>3. \A n \in k..Len(l) : g[n] \in 1..x /\ Finds(SubSeq(l, 1, n), ln[g[n]])
  BY DEF Follows
<1>4. SubSeq(l, 1, Len(l)) = l
  BY <1>1, SubSeqFull
<1>5. \A n \in j..Len(l) : h[n] \in 1..y /\ Finds(SubSeq(l, 1, n), li[h[n]])
  <2> TAKE n \in j..Len(l)
  <2>1. g[n] \in 1..x /\ Finds(SubSeq(l, 1, n), li[g[n]]) /\ g[n] \in 1..y
    BY <1>2, <1>3
  <2>2. h[n] = g[n] \/ (n = Len(l) /\ h[n] = y /\ y # 0 /\ Finds(l, li[y]))
    BY <1>2
  <2>3. CASE h[n] = g[n]
    BY <2>1, <2>3
  <2>4. CASE n = Len(l) /\ h[n] = y /\ y # 0 /\ Finds(l, li[y])
    <3>1. Finds(SubSeq(l, 1, n), li[h[n]])
      BY <1>4, <2>4, Zenon
    <3>2. h[n] \in 1..y
      BY <2>4
    <3> QED
      BY <3>1, <3>2
  <2> QED
    BY <2>2, <2>3, <2>4
<1>6. \A m, n \in j..Len(l) : m <= n => h[m] <= h[n]
  <2> TAKE m, n \in j..Len(l)
  <2>1. m <= n => g[m] <= g[n]
    BY <1>2 DEF Follows
  <2>2. g[m] <= y /\ h[m] \in 1..y
    BY <1>2, <1>3, <1>5
  <2>3. m \in Nat /\ n \in Nat /\ m <= Len(l) /\ n <= Len(l)
    BY <1>1
  <2>4. CASE n # Len(l)
    <3>1. m <= n => n \in j..Len(l) - 1 /\ m \in j..Len(l) - 1
      BY <1>1, <2>3, <2>4
    <3> QED
      BY <2>1, <3>1
  <2>5. CASE n = Len(l) /\ m # Len(l)
    <3>1. h[m] = g[m]
      BY <1>2, <2>5
    <3> QED
      BY <2>1, <2>2, <2>3, <2>5, <3>1
  <2>6. CASE m = n
    BY <2>2, <2>6
  <2> QED
    BY <2>4, <2>5, <2>6
<1> QED
  BY <1>1, <1>5, <1>6 DEF Follows

\* What is before the moment n is over.
LEMMA FollowsCut ==
  ASSUME NEW l, NEW k, NEW ln, NEW g, NEW x \in Nat, Follows(l, k, ln, g, x),
         NEW n \in Nat \ {0}, n <= g[k],
         NEW li, \A i \in n..x : li[i - n + 1] = ln[i],
         NEW h, \A m \in k..Len(l) : h[m] = g[m] - n + 1
  PROVE  Follows(l, k, li, h, x - n + 1)
<1>1. l \in Seq(EntryOK) /\ k \in 0..Len(l) /\ Len(l) \in Nat /\ k \in k..Len(l)
  BY LenProperties DEF Follows
<1>2. \A m \in k..Len(l) : g[m] \in 1..x /\ Finds(SubSeq(l, 1, m), ln[g[m]]) /\ k <= m
  BY <1>1 DEF Follows
<1>3. \A m \in k..Len(l) : g[m] \in n..x
  <2> TAKE m \in k..Len(l)
  <2>1. g[k] <= g[m] /\ g[m] \in 1..x /\ g[k] \in 1..x
    BY <1>1, <1>2 DEF Follows
  <2> QED
    BY <2>1
<1>4. \A m \in k..Len(l) : h[m] \in 1..x - n + 1 /\ Finds(SubSeq(l, 1, m), li[h[m]])
  BY <1>2, <1>3
<1>5. \A m, i \in k..Len(l) : m <= i => h[m] <= h[i]
  <2> TAKE m, i \in k..Len(l)
  <2>1. m <= i => g[m] <= g[i]
    BY DEF Follows
  <2> QED
    BY <1>3, <2>1
<1> QED
  BY <1>1, <1>4, <1>5 DEF Follows

\* What a crash leaves of the file.
LEMMA FollowsPrefix ==
  ASSUME NEW l, NEW k, NEW ln, NEW g, NEW x, Follows(l, k, ln, g, x),
         NEW n \in k..Len(l)
  PROVE  /\ Follows(SubSeq(l, 1, n), k, ln, g, g[n])
         /\ Len(SubSeq(l, 1, n)) = n
<1>1. l \in Seq(EntryOK) /\ k \in 0..Len(l) /\ Len(l) \in Nat /\ n \in 0..Len(l)
  BY LenProperties DEF Follows
<1>2. SubSeq(l, 1, n) \in Seq(EntryOK) /\ Len(SubSeq(l, 1, n)) = n
  BY <1>1, Prefix
<1>3. \A m \in k..n : m \in k..Len(l) /\ m \in 0..n /\ m <= n
  BY <1>1
<1>4. \A m \in k..n : SubSeq(SubSeq(l, 1, n), 1, m) = SubSeq(l, 1, m)
  BY <1>1, <1>3, PrefixTwice
<1>5. \A m \in k..n : g[m] \in 1..g[n] /\ Finds(SubSeq(l, 1, m), ln[g[m]])
  <2> TAKE m \in k..n
  <2>1. g[m] \in 1..x /\ g[n] \in 1..x /\ g[m] <= g[n] /\ Finds(SubSeq(l, 1, m), ln[g[m]])
    BY <1>3 DEF Follows
  <2> QED
    BY <2>1
<1>6. \A m, i \in k..n : m <= i => g[m] <= g[i]
  BY <1>3 DEF Follows
<1>7. k \in 0..n
  BY <1>1
<1> QED
  BY <1>2, <1>4, <1>5, <1>6, <1>7 DEF Follows

-----------------------------------------------------------------------------
(***************************************************************************)
(* The mailbox.                                                            *)
(***************************************************************************)
PartsOf(m) == IF m.kind = "events" THEN m.parts ELSE {}

\* What is in the mail, and before a place of it.
LEMMA MailAt ==
  ASSUME NEW mb
  PROVE  /\ \A w : w \in MailParts(mb) <=>
                     \E j \in DOMAIN mb : mb[j].kind = "events" /\ w \in mb[j].parts
         /\ \A w, i : w \in Earlier(mb, i) <=>
                     \E j \in DOMAIN mb : j < i /\ mb[j].kind = "events" /\ w \in mb[j].parts
BY DEF MailParts, Earlier

\* What a message is.
LEMMA MessageIs ==
  /\ \A P \in SUBSET PartOf : Events(P) \in Message /\ Events(P).kind = "events" /\ Events(P).parts = P
  /\ \A p \in Promise : ForceSync(p) \in Message /\ ForceSync(p).kind = "sync"
                        /\ ForceSync(p).promise = p
  /\ \A m \in Message : /\ m.kind = "events" \/ m.kind = "sync"
                        /\ m.kind = "events" => m.parts \subseteq PartOf
                        /\ m.kind = "sync" => m.promise \in Promise
BY DEF Message, Events, ForceSync

\* The mail after a message more.
LEMMA MailAppend ==
  ASSUME NEW mb \in Seq(Message), NEW m \in Message
  PROVE  /\ Append(mb, m) \in Seq(Message) /\ Len(Append(mb, m)) = Len(mb) + 1
         /\ DOMAIN Append(mb, m) = 1..Len(mb) + 1 /\ DOMAIN mb = 1..Len(mb)
         /\ Len(mb) \in Nat
         /\ \A i \in 1..Len(mb) : Append(mb, m)[i] = mb[i]
         /\ Append(mb, m)[Len(mb) + 1] = m
         /\ MailParts(Append(mb, m)) = MailParts(mb) \cup PartsOf(m)
         /\ \A i \in 1..Len(mb) : Earlier(Append(mb, m), i) = Earlier(mb, i)
         /\ Earlier(Append(mb, m), Len(mb) + 1) = MailParts(mb)
<1> DEFINE n == Len(mb)
           u == Append(mb, m)
<1>1. /\ u \in Seq(Message) /\ Len(u) = n + 1 /\ u[n + 1] = m
      /\ \A i \in 1..n : u[i] = mb[i]
  BY AppendProperties
<1>2. n \in Nat /\ DOMAIN mb = 1..n
  BY LenProperties
<1>3. DOMAIN u = 1..n + 1
  BY <1>1, LenProperties
<1> HIDE DEF u, n
<1>4. \A j \in 1..n + 1 : j \in 1..n \/ j = n + 1
  BY <1>2
<1>5. MailParts(u) = MailParts(mb) \cup PartsOf(m)
  <2>1. ASSUME NEW w, w \in MailParts(u)
        PROVE  w \in MailParts(mb) \cup PartsOf(m)
    <3>1. PICK j \in 1..n + 1 : u[j].kind = "events" /\ w \in u[j].parts
      BY <1>3, <2>1, MailAt
    <3>2. CASE j \in 1..n
      BY <1>1, <1>2, <3>1, <3>2, MailAt
    <3>3. CASE j = n + 1
      BY <1>1, <3>1, <3>3 DEF PartsOf
    <3> QED
      BY <1>4, <3>2, <3>3
  <2>2. ASSUME NEW w, w \in MailParts(mb)
        PROVE  w \in MailParts(u)
    <3>1. PICK j \in 1..n : mb[j].kind = "events" /\ w \in mb[j].parts
      BY <1>2, <2>2, MailAt
    <3>2. j \in 1..n + 1
      BY <1>2
    <3> QED
      BY <1>1, <1>3, <3>1, <3>2, MailAt
  <2>3. ASSUME NEW w, w \in PartsOf(m)
        PROVE  w \in MailParts(u)
    <3>1. n + 1 \in 1..n + 1 /\ m.kind = "events" /\ w \in m.parts
      BY <1>2, <2>3 DEF PartsOf
    <3> QED
      BY <1>1, <1>3, <3>1, MailAt
  <2> QED
    BY <2>1, <2>2, <2>3
<1>6. ASSUME NEW i \in 1..n + 1, NEW w
      PROVE  w \in Earlier(u, i) <=> w \in Earlier(mb, i)
  <2>1. \A j \in 1..n + 1 : j < i => j \in 1..n
    BY <1>2
  <2>2. \A j \in 1..n : j \in 1..n + 1
    BY <1>2
  <2>3. w \in Earlier(u, i) => w \in Earlier(mb, i)
    <3>1. SUFFICES ASSUME w \in Earlier(u, i)
                   PROVE  w \in Earlier(mb, i)
      OBVIOUS
    <3>2. PICK j \in 1..n + 1 : j < i /\ u[j].kind = "events" /\ w \in u[j].parts
      BY <1>3, <3>1, MailAt
    <3> QED
      BY <1>1, <1>2, <2>1, <3>2, MailAt
  <2>4. w \in Earlier(mb, i) => w \in Earlier(u, i)
    <3>1. SUFFICES ASSUME w \in Earlier(mb, i)
                   PROVE  w \in Earlier(u, i)
      OBVIOUS
    <3>2. PICK j \in 1..n : j < i /\ mb[j].kind = "events" /\ w \in mb[j].parts
      BY <1>2, <3>1, MailAt
    <3> QED
      BY <1>1, <1>3, <2>2, <3>2, MailAt
  <2> QED
    BY <2>3, <2>4
<1>7. \A w : w \in Earlier(mb, n + 1) <=> w \in MailParts(mb)
  <2>1. \A j \in 1..n : j < n + 1
    BY <1>2
  <2> QED
    BY <1>2, <2>1, MailAt
<1>8. \A i \in 1..n + 1 : Earlier(u, i) = Earlier(mb, i)
  BY <1>6
<1>9. Earlier(mb, n + 1) = MailParts(mb)
  BY <1>7
<1>10. /\ \A i \in 1..n : i \in 1..n + 1
       /\ n + 1 \in 1..n + 1
  BY <1>2
<1>11. \A i \in 1..n : Earlier(u, i) = Earlier(mb, i)
  BY <1>8, <1>10
<1>12. Earlier(u, n + 1) = MailParts(mb)
  BY <1>8, <1>9, <1>10
<1> QED
  BY <1>1, <1>2, <1>3, <1>5, <1>11, <1>12 DEF u, n

\* The mail after a message was taken.
LEMMA MailTail ==
  ASSUME NEW mb \in Seq(Message), mb # <<>>
  PROVE  /\ Head(mb) \in Message /\ Tail(mb) \in Seq(Message)
         /\ Len(mb) \in Nat \ {0} /\ DOMAIN mb = 1..Len(mb)
         /\ DOMAIN Tail(mb) = 1..Len(mb) - 1 /\ Head(mb) = mb[1]
         /\ \A i \in 1..Len(mb) - 1 : Tail(mb)[i] = mb[i + 1]
         /\ MailParts(mb) = PartsOf(Head(mb)) \cup MailParts(Tail(mb))
         /\ \A i \in 1..Len(mb) - 1 :
              Earlier(mb, i + 1) = PartsOf(Head(mb)) \cup Earlier(Tail(mb), i)
         /\ Earlier(mb, 1) = {}
<1> DEFINE n == Len(mb)
           m == Head(mb)
           t == Tail(mb)
<1>1. /\ m \in Message /\ t \in Seq(Message) /\ Len(t) = n - 1
      /\ \A i \in 1..n - 1 : t[i] = mb[i + 1]
  BY HeadTailProperties
<1>2. n \in Nat \ {0} /\ DOMAIN mb = 1..n /\ DOMAIN t = 1..n - 1
  BY <1>1, LenProperties, EmptySeq
<1>3. m = mb[1]
  OBVIOUS
<1> HIDE DEF n, m, t
<1>4. \A j \in 1..n : j = 1 \/ (j - 1 \in 1..n - 1 /\ mb[j] = t[j - 1])
  BY <1>1, <1>2
<1>5. \A j \in 1..n - 1 : j + 1 \in 1..n
  BY <1>2
<1>6. ASSUME NEW w
      PROVE  w \in MailParts(mb) <=> w \in PartsOf(m) \cup MailParts(t)
  <2>1. ASSUME w \in MailParts(mb)
        PROVE  w \in PartsOf(m) \cup MailParts(t)
    <3>1. PICK j \in 1..n : mb[j].kind = "events" /\ w \in mb[j].parts
      BY <1>2, <2>1, MailAt
    <3>2. CASE j = 1
      BY <1>3, <3>1, <3>2 DEF PartsOf
    <3>3. CASE j - 1 \in 1..n - 1 /\ mb[j] = t[j - 1]
      BY <1>2, <3>1, <3>3, MailAt
    <3> QED
      BY <1>4, <3>2, <3>3
  <2>2. ASSUME w \in PartsOf(m)
        PROVE  w \in MailParts(mb)
    <3>1. 1 \in 1..n /\ mb[1].kind = "events" /\ w \in mb[1].parts
      BY <1>2, <1>3, <2>2 DEF PartsOf
    <3> QED
      BY <1>2, <3>1, MailAt
  <2>3. ASSUME w \in MailParts(t)
        PROVE  w \in MailParts(mb)
    <3>1. PICK j \in 1..n - 1 : t[j].kind = "events" /\ w \in t[j].parts
      BY <1>2, <2>3, MailAt
    <3> QED
      BY <1>1, <1>2, <1>5, <3>1, MailAt
  <2> QED
    BY <2>1, <2>2, <2>3
<1>7. ASSUME NEW i \in 1..n - 1, NEW w
      PROVE  w \in Earlier(mb, i + 1) <=> w \in PartsOf(m) \cup Earlier(t, i)
  <2>1. ASSUME w \in Earlier(mb, i + 1)
        PROVE  w \in PartsOf(m) \cup Earlier(t, i)
    <3>1. PICK j \in 1..n : j < i + 1 /\ mb[j].kind = "events" /\ w \in mb[j].parts
      BY <1>2, <2>1, MailAt
    <3>2. CASE j = 1
      BY <1>3, <3>1, <3>2 DEF PartsOf
    <3>3. CASE j - 1 \in 1..n - 1 /\ mb[j] = t[j - 1]
      <4>1. j - 1 < i
        BY <1>2, <3>1
      <4> QED
        BY <1>2, <3>1, <3>3, <4>1, MailAt
    <3> QED
      BY <1>4, <3>2, <3>3
  <2>2. ASSUME w \in PartsOf(m)
        PROVE  w \in Earlier(mb, i + 1)
    <3>1. 1 \in 1..n /\ 1 < i + 1 /\ mb[1].kind = "events" /\ w \in mb[1].parts
      BY <1>2, <1>3, <2>2 DEF PartsOf
    <3> QED
      BY <1>2, <3>1, MailAt
  <2>3. ASSUME w \in Earlier(t, i)
        PROVE  w \in Earlier(mb, i + 1)
    <3>1. PICK j \in 1..n - 1 : j < i /\ t[j].kind = "events" /\ w \in t[j].parts
      BY <1>2, <2>3, MailAt
    <3>2. j + 1 < i + 1
      BY <1>2, <3>1
    <3> QED
      BY <1>1, <1>2, <1>5, <3>1, <3>2, MailAt
  <2> QED
    BY <2>1, <2>2, <2>3
<1>8. Earlier(mb, 1) = {}
  <2>1. \A j \in 1..n : ~(j < 1)
    BY <1>2
  <2> QED
    BY <1>2, <2>1, MailAt
<1>9. MailParts(mb) = PartsOf(m) \cup MailParts(t)
  BY <1>6
<1>10. \A i \in 1..n - 1 : Earlier(mb, i + 1) = PartsOf(m) \cup Earlier(t, i)
  BY <1>7
<1> QED
  BY <1>1, <1>2, <1>3, <1>8, <1>9, <1>10 DEF n, m, t

-----------------------------------------------------------------------------
(***************************************************************************)
(* The numbers, as parts are taken, sent, received and run.                *)
(***************************************************************************)

\* The parts P take the c numbers from q on.
Taken(P, q, c) ==
  /\ P \subseteq PartOf
  /\ \A w \in P : w.seq \in q..q + c - 1
  /\ \A n \in q..q + c - 1 : \E w \in P : w.seq = n
  /\ \A v, w \in P : v.seq = w.seq => v = w

\* What both ways of taking numbers have in common.
LEMMA TakenWay ==
  ASSUME NEW a, NEW mb, NEW sd, NEW q, Numbered(a, mb, sd, q),
         NEW c \in Nat, NEW P, Taken(P, q, c), NEW W, W = Way(a, mb, sd) \cup P
  PROVE  /\ q + c \in Nat /\ a.begin \in 1..q + c
         /\ \A w \in W : w.seq \in a.begin..q + c - 1
         /\ \A n \in a.begin..q + c - 1 : \E w \in W : w.seq = n
         /\ \A v, w \in W : v.seq = w.seq => v = w
         /\ P \cap Way(a, mb, sd) = {}
<1> DEFINE V == Way(a, mb, sd)
<1>1. /\ q \in Nat /\ a.begin \in 1..q
      /\ \A w \in V : w.seq \in a.begin..q - 1
      /\ \A n \in a.begin..q - 1 : \E w \in V : w.seq = n
      /\ \A v, w \in V : v.seq = w.seq => v = w
  BY DEF Numbered
<1> HIDE DEF V
<1>2. \A w \in P : w.seq \in q..q + c - 1
  BY DEF Taken
<1>3. q + c \in Nat /\ a.begin \in 1..q + c
  BY <1>1
<1>4. \A w \in W : w.seq \in a.begin..q + c - 1
  BY <1>1, <1>2 DEF V
<1>5. ASSUME NEW n \in a.begin..q + c - 1
      PROVE  \E w \in W : w.seq = n
  <2>1. n \in a.begin..q - 1 \/ n \in q..q + c - 1
    BY <1>1
  <2> QED
    BY <1>1, <2>1 DEF Taken, V
<1>6. \A v \in P : \A w \in V : v.seq # w.seq
  BY <1>1, <1>2
<1>7. P \cap V = {}
  BY <1>6
<1>8. \A v, w \in W : v.seq = w.seq => v = w
  BY <1>1, <1>6 DEF Taken, V
<1> QED
  BY <1>3, <1>4, <1>5, <1>7, <1>8 DEF V

\* A thread takes numbers and has still to send them.
LEMMA NumberedTake ==
  ASSUME NEW a, NEW mb, NEW sd, NEW q, Numbered(a, mb, sd, q),
         NEW c \in Nat, NEW P, Taken(P, q, c)
  PROVE  /\ Way(a, mb, sd \cup P) = Way(a, mb, sd) \cup P
         /\ Numbered(a, mb, sd \cup P, q + c)
<1> DEFINE ts == sd \cup P
           W == Way(a, mb, ts)
<1>1. W = Way(a, mb, sd) \cup P
  BY DEF Way
<1> HIDE DEF W
<1>2. /\ q + c \in Nat /\ a.begin \in 1..q + c
      /\ \A w \in W : w.seq \in a.begin..q + c - 1
      /\ \A n \in a.begin..q + c - 1 : \E w \in W : w.seq = n
      /\ \A v, w \in W : v.seq = w.seq => v = w
      /\ P \cap Way(a, mb, sd) = {}
  BY <1>1, TakenWay
<1>3. ts \cap (a.pending \cup MailParts(mb)) = {}
  BY <1>2 DEF Numbered, Way
<1>4. ts \subseteq PartOf
  BY DEF Numbered, Taken
<1>5. /\ a.pending \subseteq PartOf /\ mb \in Seq(Message)
      /\ a.pending \cap MailParts(mb) = {}
      /\ \A i \in DOMAIN mb : mb[i].kind = "events" => mb[i].parts \cap Earlier(mb, i) = {}
  BY DEF Numbered
<1> HIDE DEF ts
<1>6. Numbered(a, mb, ts, q + c)
  BY <1>2, <1>3, <1>4, <1>5 DEF Numbered, W
<1> QED
  BY <1>1, <1>6 DEF ts, W

\* A thread takes numbers and sends them at once.
LEMMA NumberedMail ==
  ASSUME NEW a, NEW mb, NEW sd, NEW q, Numbered(a, mb, sd, q),
         NEW c \in Nat, NEW P, Taken(P, q, c)
  PROVE  /\ Way(a, Append(mb, Events(P)), sd) = Way(a, mb, sd) \cup P
         /\ Numbered(a, Append(mb, Events(P)), sd, q + c)
<1> DEFINE u == Append(mb, Events(P))
<1>1. mb \in Seq(Message) /\ Events(P) \in Message /\ PartsOf(Events(P)) = P
      /\ Events(P).kind = "events" /\ Events(P).parts = P
  <2>1. P \in SUBSET PartOf /\ mb \in Seq(Message)
    BY DEF Taken, Numbered
  <2>2. Events(P) \in Message /\ Events(P).kind = "events" /\ Events(P).parts = P
    BY <2>1, MessageIs
  <2> QED
    BY <2>1, <2>2 DEF PartsOf
<1>2. /\ u \in Seq(Message) /\ DOMAIN u = 1..Len(mb) + 1 /\ DOMAIN mb = 1..Len(mb)
      /\ Len(mb) \in Nat
      /\ \A i \in 1..Len(mb) : u[i] = mb[i]
      /\ u[Len(mb) + 1] = Events(P)
      /\ MailParts(u) = MailParts(mb) \cup P
      /\ \A i \in 1..Len(mb) : Earlier(u, i) = Earlier(mb, i)
      /\ Earlier(u, Len(mb) + 1) = MailParts(mb)
  BY <1>1, MailAppend
<1> HIDE DEF u
<1>3. Way(a, u, sd) = Way(a, mb, sd) \cup P
  BY <1>2 DEF Way
<1>4. /\ q + c \in Nat /\ a.begin \in 1..q + c
      /\ \A w \in Way(a, u, sd) : w.seq \in a.begin..q + c - 1
      /\ \A n \in a.begin..q + c - 1 : \E w \in Way(a, u, sd) : w.seq = n
      /\ \A v, w \in Way(a, u, sd) : v.seq = w.seq => v = w
      /\ P \cap Way(a, mb, sd) = {}
  BY <1>3, TakenWay
<1>5. /\ sd \cap (a.pending \cup MailParts(u)) = {}
      /\ a.pending \cap MailParts(u) = {}
  BY <1>2, <1>4 DEF Numbered, Way
<1>6. ASSUME NEW i \in 1..Len(mb) + 1, u[i].kind = "events"
      PROVE  u[i].parts \cap Earlier(u, i) = {}
  <2>1. CASE i \in 1..Len(mb)
    BY <1>2, <1>6, <2>1 DEF Numbered
  <2>2. CASE i = Len(mb) + 1
    BY <1>1, <1>2, <1>4, <2>2 DEF Way
  <2> QED
    BY <1>2, <2>1, <2>2
<1>7. a.pending \subseteq PartOf /\ sd \subseteq PartOf
  BY DEF Numbered
<1> QED
  BY <1>2, <1>3, <1>4, <1>5, <1>6, <1>7 DEF Numbered, u

\* A thread sends what it has taken.
LEMMA NumberedSend ==
  ASSUME NEW a, NEW mb, NEW sd, NEW q, Numbered(a, mb, sd, q), NEW w \in sd
  PROVE  /\ Way(a, Append(mb, Events({w})), sd \ {w}) = Way(a, mb, sd)
         /\ Numbered(a, Append(mb, Events({w})), sd \ {w}, q)
<1> DEFINE u == Append(mb, Events({w}))
<1>1. /\ mb \in Seq(Message) /\ Events({w}) \in Message /\ PartsOf(Events({w})) = {w}
      /\ Events({w}).kind = "events" /\ Events({w}).parts = {w}
  <2>1. {w} \in SUBSET PartOf /\ mb \in Seq(Message)
    BY DEF Numbered
  <2>2. Events({w}) \in Message /\ Events({w}).kind = "events" /\ Events({w}).parts = {w}
    BY <2>1, MessageIs
  <2> QED
    BY <2>1, <2>2 DEF PartsOf
<1>2. /\ u \in Seq(Message) /\ DOMAIN u = 1..Len(mb) + 1 /\ DOMAIN mb = 1..Len(mb)
      /\ Len(mb) \in Nat
      /\ \A i \in 1..Len(mb) : u[i] = mb[i]
      /\ u[Len(mb) + 1] = Events({w})
      /\ MailParts(u) = MailParts(mb) \cup {w}
      /\ \A i \in 1..Len(mb) : Earlier(u, i) = Earlier(mb, i)
      /\ Earlier(u, Len(mb) + 1) = MailParts(mb)
  BY <1>1, MailAppend
<1> HIDE DEF u
<1>3. Way(a, u, sd \ {w}) = Way(a, mb, sd)
  BY <1>2 DEF Way
<1>4. w \notin MailParts(mb) /\ w \notin a.pending
  BY DEF Numbered
<1>5. /\ (sd \ {w}) \cap (a.pending \cup MailParts(u)) = {}
      /\ a.pending \cap MailParts(u) = {}
  BY <1>2, <1>4 DEF Numbered
<1>6. ASSUME NEW i \in 1..Len(mb) + 1, u[i].kind = "events"
      PROVE  u[i].parts \cap Earlier(u, i) = {}
  <2>1. CASE i \in 1..Len(mb)
    BY <1>2, <1>6, <2>1 DEF Numbered
  <2>2. CASE i = Len(mb) + 1
    BY <1>1, <1>2, <1>4, <2>2
  <2> QED
    BY <1>2, <2>1, <2>2
<1>7. /\ q \in Nat /\ a.begin \in 1..q /\ a.pending \subseteq PartOf /\ sd \ {w} \subseteq PartOf
      /\ \A v \in Way(a, u, sd \ {w}) : v.seq \in a.begin..q - 1
      /\ \A n \in a.begin..q - 1 : \E v \in Way(a, u, sd \ {w}) : v.seq = n
      /\ \A v, x \in Way(a, u, sd \ {w}) : v.seq = x.seq => v = x
  BY <1>3 DEF Numbered
<1> QED
  BY <1>2, <1>3, <1>5, <1>6, <1>7 DEF Numbered, u

\* A sync is asked for.
LEMMA NumberedAsk ==
  ASSUME NEW a, NEW mb, NEW sd, NEW q, Numbered(a, mb, sd, q), NEW p \in Promise
  PROVE  /\ Way(a, Append(mb, ForceSync(p)), sd) = Way(a, mb, sd)
         /\ Numbered(a, Append(mb, ForceSync(p)), sd, q)
<1> DEFINE u == Append(mb, ForceSync(p))
<1>1. /\ mb \in Seq(Message) /\ ForceSync(p) \in Message /\ PartsOf(ForceSync(p)) = {}
      /\ ForceSync(p).kind = "sync"
  BY MessageIs DEF Numbered, PartsOf
<1>2. /\ u \in Seq(Message) /\ DOMAIN u = 1..Len(mb) + 1 /\ DOMAIN mb = 1..Len(mb)
      /\ Len(mb) \in Nat
      /\ \A i \in 1..Len(mb) : u[i] = mb[i]
      /\ u[Len(mb) + 1] = ForceSync(p)
      /\ MailParts(u) = MailParts(mb) \cup PartsOf(ForceSync(p))
      /\ \A i \in 1..Len(mb) : Earlier(u, i) = Earlier(mb, i)
  BY <1>1, MailAppend
<1> HIDE DEF u
<1>3. Way(a, u, sd) = Way(a, mb, sd) /\ MailParts(u) = MailParts(mb)
  BY <1>1, <1>2 DEF Way
<1>4. ASSUME NEW i \in 1..Len(mb) + 1, u[i].kind = "events"
      PROVE  u[i].parts \cap Earlier(u, i) = {}
  <2>1. CASE i \in 1..Len(mb)
    BY <1>2, <1>4, <2>1 DEF Numbered
  <2>2. CASE i = Len(mb) + 1
    BY <1>1, <1>2, <1>4, <2>2
  <2> QED
    BY <1>2, <2>1, <2>2
<1> QED
  BY <1>2, <1>3, <1>4 DEF Numbered, u

\* The actor takes a message.
LEMMA NumberedReceive ==
  ASSUME NEW a, NEW mb, NEW sd, NEW q, Numbered(a, mb, sd, q), mb # <<>>,
         NEW b, b.begin = a.begin, b.pending = a.pending \cup PartsOf(Head(mb))
  PROVE  /\ Way(b, Tail(mb), sd) = Way(a, mb, sd)
         /\ Numbered(b, Tail(mb), sd, q)
         /\ \A w \in PartsOf(Head(mb)) : w.seq >= a.begin
<1> DEFINE t == Tail(mb)
           P == PartsOf(Head(mb))
<1>1. mb \in Seq(Message)
  BY DEF Numbered
<1>2. /\ Head(mb) \in Message /\ t \in Seq(Message)
      /\ Len(mb) \in Nat \ {0} /\ DOMAIN mb = 1..Len(mb)
      /\ DOMAIN t = 1..Len(mb) - 1 /\ Head(mb) = mb[1]
      /\ \A i \in 1..Len(mb) - 1 : t[i] = mb[i + 1]
      /\ MailParts(mb) = P \cup MailParts(t)
      /\ \A i \in 1..Len(mb) - 1 : Earlier(mb, i + 1) = P \cup Earlier(t, i)
  BY <1>1, MailTail
<1>3. P \subseteq PartOf
  BY <1>2, MessageIs DEF PartsOf
<1> HIDE DEF t, P
<1>4. b.pending = a.pending \cup P
  BY DEF P
<1>5. Way(b, t, sd) = Way(a, mb, sd)
  BY <1>2, <1>4 DEF Way
<1>6. ASSUME NEW i \in 1..Len(mb) - 1, t[i].kind = "events"
      PROVE  t[i].parts \cap (P \cup Earlier(t, i)) = {}
  <2>1. i + 1 \in 1..Len(mb) /\ t[i] = mb[i + 1]
    BY <1>2
  <2>2. mb[i + 1].parts \cap Earlier(mb, i + 1) = {}
    BY <1>2, <1>6, <2>1 DEF Numbered
  <2> QED
    BY <1>2, <2>1, <2>2
<1>7. P \cap MailParts(t) = {}
  <2> SUFFICES ASSUME NEW w, w \in P, w \in MailParts(t)
               PROVE  FALSE
    OBVIOUS
  <2>1. PICK i \in 1..Len(mb) - 1 : t[i].kind = "events" /\ w \in t[i].parts
    BY <1>2, MailAt
  <2> QED
    BY <1>6, <2>1
<1>8. /\ b.pending \cap MailParts(t) = {}
      /\ sd \cap (b.pending \cup MailParts(t)) = {}
      /\ b.pending \subseteq PartOf
  BY <1>2, <1>3, <1>4, <1>7 DEF Numbered
<1>9. \A w \in P : w.seq >= a.begin
  <2>1. P \subseteq Way(a, mb, sd)
    BY <1>2 DEF Way
  <2> QED
    BY <2>1 DEF Numbered
<1>10. Numbered(b, t, sd, q)
  <2>1. \A i \in DOMAIN t : t[i].kind = "events" => t[i].parts \cap Earlier(t, i) = {}
    BY <1>2, <1>6
  <2> QED
    BY <1>2, <1>5, <1>8, <2>1 DEF Numbered
<1> QED
  BY <1>5, <1>9, <1>10 DEF t, P

\* The next part is run.
LEMMA NumberedRun ==
  ASSUME NEW a, NEW mb, NEW sd, NEW q, Numbered(a, mb, sd, q),
         NEW w \in a.pending, w.seq = a.begin,
         NEW b, b.begin = a.begin + 1, b.pending = a.pending \ {w}
  PROVE  /\ Way(b, mb, sd) = Way(a, mb, sd) \ {w} /\ w \in Way(a, mb, sd)
         /\ a.begin < q
         /\ Numbered(b, mb, sd, q)
<1>1. w \notin MailParts(mb) /\ w \notin sd
  BY DEF Numbered
<1>2. Way(b, mb, sd) = Way(a, mb, sd) \ {w} /\ w \in Way(a, mb, sd)
  BY <1>1 DEF Way
<1>3. a.begin \in a.begin..q - 1 /\ q \in Nat /\ a.begin \in 1..q
  BY <1>2 DEF Numbered
<1>4. \A v \in Way(b, mb, sd) : v.seq \in a.begin + 1..q - 1
  BY <1>2, <1>3 DEF Numbered
<1>5. ASSUME NEW n \in a.begin + 1..q - 1
      PROVE  \E v \in Way(b, mb, sd) : v.seq = n
  <2>1. n \in a.begin..q - 1 /\ n # w.seq
    BY <1>3
  <2> QED
    BY <1>2, <2>1 DEF Numbered
<1>6. \A u, v \in Way(b, mb, sd) : u.seq = v.seq => u = v
  BY <1>2 DEF Numbered
<1>7. /\ b.begin \in 1..q /\ b.pending \subseteq PartOf
      /\ b.pending \cap MailParts(mb) = {}
      /\ sd \cap (b.pending \cup MailParts(mb)) = {}
  BY <1>3 DEF Numbered
<1>8. /\ sd \subseteq PartOf /\ mb \in Seq(Message)
      /\ \A i \in DOMAIN mb : mb[i].kind = "events" => mb[i].parts \cap Earlier(mb, i) = {}
  BY DEF Numbered
<1>9. Numbered(b, mb, sd, q)
  BY <1>3, <1>4, <1>5, <1>6, <1>7, <1>8 DEF Numbered
<1> QED
  BY <1>2, <1>3, <1>9

\* Nobody waits in front of an actor at rest.
LEMMA NumberedQuiet ==
  ASSUME NEW a, NEW mb, NEW sd, NEW q, Numbered(a, mb, sd, q), mb = <<>>, sd = {},
         Ready(a) = {}
  PROVE  a.begin = q /\ Way(a, mb, sd) = {}
<1>1. MailParts(mb) = {}
  <2>1. DOMAIN mb = {}
    OBVIOUS
  <2> QED
    BY <2>1 DEF MailParts
<1>2. Way(a, mb, sd) = a.pending
  BY <1>1 DEF Way
<1>3. a.begin = q
  <2>1. q \in Nat /\ a.begin \in 1..q
    BY DEF Numbered
  <2>2. ASSUME a.begin < q
        PROVE  FALSE
    <3>1. a.begin \in a.begin..q - 1
      BY <2>1, <2>2
    <3>2. \E w \in a.pending : w.seq = a.begin
      BY <1>2, <3>1 DEF Numbered
    <3> QED
      BY <3>2 DEF Ready
  <2> QED
    BY <2>1, <2>2
<1>4. Way(a, mb, sd) = {}
  BY <1>3 DEF Numbered
<1> QED
  BY <1>3, <1>4

-----------------------------------------------------------------------------
(***************************************************************************)
(* What the map was after each number.                                     *)
(***************************************************************************)

\* The parts P make the maps of the map m, one after the other.
Changing(P, q, m, maps) ==
  /\ DOMAIN maps = 1..Len(maps) /\ Len(maps) \in Nat \ {0}
  /\ Taken(P, q, Len(maps))
  /\ \A w \in P :
       /\ w.entry # Nothing /\ w.promise = Nothing
       /\ Makes(w.entry, w.seq, IF w.seq = q THEN m ELSE maps[w.seq - q], maps[w.seq - q + 1])
  /\ \A i \in 1..Len(maps) : MapOK(maps[i], q + i - 1)

\* line, with those maps behind it.
Longer(ln, maps) == ln \o [i \in DOMAIN maps |-> Values(maps[i])]

\* The values of a map are a moment.
LEMMA ValuesMoment ==
  ASSUME NEW m, NEW n, MapOK(m, n)
  PROVE  Values(m) \in Moments
<1>1. \A k \in DOMAIN m : m[k].value \in UNION {Value[j] : j \in Key} /\ k \in Key
  BY DEF MapOK
<1>2. Values(m) \in [DOMAIN m -> UNION {Value[k] : k \in Key}]
  BY <1>1 DEF Values
<1>3. DOMAIN m \in SUBSET Key
  BY DEF MapOK
<1> QED
  BY <1>2, <1>3 DEF Moments

\* What the line is after changes.
LEMMA LongerAt ==
  ASSUME NEW ln \in Seq(Moments), NEW maps, NEW q, NEW P, NEW m, Changing(P, q, m, maps)
  PROVE  /\ Longer(ln, maps) \in Seq(Moments) /\ Len(ln) \in Nat
         /\ Len(Longer(ln, maps)) = Len(ln) + Len(maps)
         /\ \A i \in 1..Len(ln) : Longer(ln, maps)[i] = ln[i]
         /\ \A i \in 1..Len(maps) : Longer(ln, maps)[Len(ln) + i] = Values(maps[i])
<1> DEFINE vs == [i \in DOMAIN maps |-> Values(maps[i])]
           c == Len(maps)
<1>1. /\ DOMAIN maps = 1..c /\ c \in Nat \ {0}
      /\ \A i \in 1..c : MapOK(maps[i], q + i - 1)
  BY DEF Changing
<1>2. \A i \in 1..c : Values(maps[i]) \in Moments
  BY <1>1, ValuesMoment
<1>3. vs \in [1..c -> Moments]
  BY <1>1, <1>2
<1>4. vs \in Seq(Moments) /\ Len(vs) = c /\ \A i \in 1..c : vs[i] = Values(maps[i])
  <2>1. vs \in Seq(Moments)
    BY <1>1, <1>3, SeqDef
  <2>2. DOMAIN vs = 1..c
    BY <1>3
  <2>3. Len(vs) = c
    BY <1>1, <2>1, <2>2, LenProperties
  <2> QED
    BY <1>1, <2>1, <2>3
<1> HIDE DEF vs, c
<1>5. /\ ln \o vs \in Seq(Moments) /\ Len(ln \o vs) = Len(ln) + Len(vs)
      /\ \A i \in 1..Len(ln) + Len(vs) :
           (ln \o vs)[i] = IF i <= Len(ln) THEN ln[i] ELSE vs[i - Len(ln)]
  BY <1>4, ConcatProperties
<1>6. Len(ln) \in Nat
  BY LenProperties
<1>7. \A i \in 1..Len(ln) : (ln \o vs)[i] = ln[i]
  BY <1>1, <1>4, <1>5, <1>6
<1>8. \A i \in 1..c : (ln \o vs)[Len(ln) + i] = Values(maps[i])
  <2> TAKE i \in 1..c
  <2>1. Len(ln) + i \in 1..Len(ln) + Len(vs) /\ ~(Len(ln) + i <= Len(ln))
        /\ Len(ln) + i - Len(ln) = i
    BY <1>1, <1>4, <1>6
  <2> QED
    BY <1>4, <1>5, <2>1
<1> QED
  BY <1>4, <1>5, <1>6, <1>7, <1>8 DEF Longer, vs, c

\* A map stays one as the numbers grow.
LEMMA MapLater ==
  ASSUME NEW i \in Nat, NEW n \in Nat, i <= n, NEW m, MapOK(m, i)
  PROVE  MapOK(m, n)
<1>1. \A k \in DOMAIN m : m[k] \in [value : UNION {Value[j] : j \in Key}, id : 1..n]
  <2>1. \A k \in DOMAIN m : m[k] \in [value : UNION {Value[j] : j \in Key}, id : 1..i]
    BY DEF MapOK
  <2>2. 1..i \subseteq 1..n
    OBVIOUS
  <2> QED
    BY <2>1, <2>2
<1>2. m = [k \in DOMAIN m |-> m[k]]
  BY DEF MapOK
<1>3. m \in [DOMAIN m -> [value : UNION {Value[j] : j \in Key}, id : 1..n]]
  BY <1>1, <1>2
<1> QED
  BY <1>3 DEF MapOK

\* The numbers up to q are told by ms and at, as before.
Agree(b, q, ms, at, ms2, at2) == \A n \in b - 1..q - 1 : ms2[n] = ms[n] /\ at2[n] = at[n]

\* The numbers from q to r are added, the map becomes m.
GoesOn(V, b, q, r, li, ms, at, m) ==
  \E ms2, at2 :
    Chain(V, b, r, li, ms2, at2) /\ Agree(b, q, ms, at, ms2, at2) /\ ms2[r - 1] = m

\* Changes go on with the chain of the maps.
LEMMA ChainChanges ==
  ASSUME NEW q \in Nat, NEW b \in 1..q, NEW W, \A w \in W : w.seq \in b..q - 1,
         NEW ln \in Seq(Moments), NEW ms, NEW at, Chain(W, b, q, ln, ms, at),
         NEW P, NEW maps, Changing(P, q, ms[q - 1], maps)
  PROVE  GoesOn(W \cup P, b, q, q + Len(maps), Longer(ln, maps), ms, at, maps[Len(maps)])
<1> DEFINE c == Len(maps)
           k == Len(ln)
           li == Longer(ln, maps)
           ms2 == [n \in 0..q + c - 1 |-> IF n < q THEN ms[n] ELSE maps[n - q + 1]]
           at2 == [n \in 0..q + c - 1 |-> IF n < q THEN at[n] ELSE k + n - q + 1]
<1>1. /\ c \in Nat \ {0} /\ k \in Nat /\ Len(li) = k + c
      /\ \A i \in 1..k : li[i] = ln[i]
      /\ \A i \in 1..c : li[k + i] = Values(maps[i])
  BY LongerAt DEF Changing
<1>0. c \in Nat \ {0} /\ k \in Nat
  BY <1>1
<1>2. \A n \in b - 1..q - 1 : n \in 0..q + c - 1 /\ n < q
  BY <1>1
<1>3. \A n \in q..q + c - 1 : n \in 0..q + c - 1 /\ ~(n < q) /\ n - q + 1 \in 1..c
  BY <1>1
<1>4. Agree(b, q, ms, at, ms2, at2)
  BY <1>2 DEF Agree
<1>5. \A n \in q..q + c - 1 : ms2[n] = maps[n - q + 1] /\ at2[n] = k + n - q + 1
  BY <1>3
<1> HIDE DEF c, k, li, ms2, at2
<1>6. \A n \in b - 1..q + c - 1 : n \in b - 1..q - 1 \/ n \in q..q + c - 1
  BY <1>1
<1>7. /\ \A n \in b - 1..q - 1 : at[n] \in 1..k /\ ln[at[n]] = Values(ms[n]) /\ MapOK(ms[n], n)
      /\ \A m, n \in b - 1..q - 1 : m <= n => at[m] <= at[n]
      /\ at[q - 1] = k
  BY DEF Chain, k
<1>8. \A i \in 1..c : MapOK(maps[i], q + i - 1)
  BY DEF Changing, c
<1>9. ASSUME NEW n \in b - 1..q + c - 1
      PROVE  at2[n] \in 1..k + c /\ li[at2[n]] = Values(ms2[n]) /\ MapOK(ms2[n], n)
  <2>1. CASE n \in b - 1..q - 1
    BY <1>1, <1>4, <1>7, <2>1 DEF Agree
  <2>2. CASE n \in q..q + c - 1
    <3>1. n - q + 1 \in 1..c /\ at2[n] = k + (n - q + 1) /\ q + (n - q + 1) - 1 = n
      BY <1>1, <1>3, <1>5, <2>2
    <3>2. MapOK(maps[n - q + 1], n)
      BY <1>8, <3>1
    <3> QED
      BY <1>1, <1>5, <2>2, <3>1, <3>2
  <2> QED
    BY <1>6, <2>1, <2>2
<1>10. \A m, n \in b - 1..q + c - 1 : m <= n => at2[m] <= at2[n]
  <2> TAKE m, n \in b - 1..q + c - 1
  <2>1. CASE m \in b - 1..q - 1 /\ n \in b - 1..q - 1
    BY <1>4, <1>7, <2>1 DEF Agree
  <2>2. CASE m \in b - 1..q - 1 /\ n \in q..q + c - 1
    <3>1. at2[m] = at[m] /\ at[m] \in 1..k /\ at2[n] = k + n - q + 1
      BY <1>4, <1>5, <1>7, <2>2 DEF Agree
    <3> QED
      BY <1>0, <2>2, <3>1
  <2>3. CASE m \in q..q + c - 1 /\ n \in q..q + c - 1
    <3>1. at2[m] = k + m - q + 1 /\ at2[n] = k + n - q + 1
      BY <1>5, <2>3
    <3> QED
      BY <1>0, <2>3, <3>1
  <2>4. CASE m \in q..q + c - 1 /\ n \in b - 1..q - 1
    BY <1>1, <2>4
  <2> QED
    BY <1>6, <2>1, <2>2, <2>3, <2>4
<1>11. ASSUME NEW w \in W
       PROVE  IF w.entry = Nothing
              THEN at2[w.seq] = at2[w.seq - 1] /\ ms2[w.seq] = ms2[w.seq - 1]
              ELSE /\ at2[w.seq] = at2[w.seq - 1] + 1
                   /\ Makes(w.entry, w.seq, ms2[w.seq - 1], ms2[w.seq])
  <2>1. w.seq \in b - 1..q - 1 /\ w.seq - 1 \in b - 1..q - 1
    BY <1>1
  <2>2. /\ ms2[w.seq] = ms[w.seq] /\ at2[w.seq] = at[w.seq]
        /\ ms2[w.seq - 1] = ms[w.seq - 1] /\ at2[w.seq - 1] = at[w.seq - 1]
    BY <1>4, <2>1 DEF Agree
  <2>3. IF w.entry = Nothing
        THEN at[w.seq] = at[w.seq - 1] /\ ms[w.seq] = ms[w.seq - 1]
        ELSE /\ at[w.seq] = at[w.seq - 1] + 1
             /\ Makes(w.entry, w.seq, ms[w.seq - 1], ms[w.seq])
    BY Zenon DEF Chain
  <2> QED
    BY <2>2, <2>3
<1>12. ASSUME NEW w \in P
       PROVE  IF w.entry = Nothing
              THEN at2[w.seq] = at2[w.seq - 1] /\ ms2[w.seq] = ms2[w.seq - 1]
              ELSE /\ at2[w.seq] = at2[w.seq - 1] + 1
                   /\ Makes(w.entry, w.seq, ms2[w.seq - 1], ms2[w.seq])
  <2>1. w.seq \in q..q + c - 1 /\ w.entry # Nothing
    BY DEF Changing, Taken, c
  <2>2. ms2[w.seq] = maps[w.seq - q + 1] /\ at2[w.seq] = k + w.seq - q + 1
    BY <1>5, <2>1
  <2>3. /\ ms2[w.seq - 1] = IF w.seq = q THEN ms[q - 1] ELSE maps[w.seq - q]
        /\ at2[w.seq - 1] = k + w.seq - q
    <3>1. CASE w.seq = q
      <4>1. q - 1 \in b - 1..q - 1
        BY <1>1
      <4> QED
        BY <1>1, <1>4, <1>7, <3>1, <4>1 DEF Agree
    <3>2. CASE w.seq # q
      <4>1. w.seq - 1 \in q..q + c - 1 /\ w.seq - 1 - q + 1 = w.seq - q
            /\ k + (w.seq - 1) - q + 1 = k + w.seq - q
        BY <1>0, <2>1, <3>2
      <4>2. ms2[w.seq - 1] = maps[w.seq - 1 - q + 1] /\ at2[w.seq - 1] = k + (w.seq - 1) - q + 1
        BY <1>5, <4>1
      <4> QED
        BY <3>2, <4>1, <4>2
    <3> QED
      BY <3>1, <3>2
  <2>4. Makes(w.entry, w.seq, IF w.seq = q THEN ms[q - 1] ELSE maps[w.seq - q],
              maps[w.seq - q + 1])
    BY DEF Changing
  <2>5. Makes(w.entry, w.seq, ms2[w.seq - 1], ms2[w.seq])
    BY <2>2, <2>3, <2>4, Zenon
  <2>6. at2[w.seq] = at2[w.seq - 1] + 1
    BY <1>1, <2>1, <2>2, <2>3
  <2> QED
    BY <2>1, <2>5, <2>6
<1>13. at2[q + c - 1] = k + c /\ ms2[q + c - 1] = maps[c]
  <2> DEFINE z == q + c - 1
  <2>1. z \in q..q + c - 1 /\ z - q + 1 = c /\ k + z - q + 1 = k + c
    BY <1>0
  <2> HIDE DEF z
  <2>2. at2[z] = k + z - q + 1 /\ ms2[z] = maps[z - q + 1]
    BY <1>5, <2>1
  <2>3. at2[z] = k + c /\ ms2[z] = maps[c]
    BY <2>1, <2>2
  <2> QED
    BY <2>3 DEF z
<1>15. Chain(W \cup P, b, q + c, li, ms2, at2)
  <2> DEFINE V == W \cup P
             z == q + c
  <2>1. \A w \in V :
          IF w.entry = Nothing
          THEN at2[w.seq] = at2[w.seq - 1] /\ ms2[w.seq] = ms2[w.seq - 1]
          ELSE /\ at2[w.seq] = at2[w.seq - 1] + 1
               /\ Makes(w.entry, w.seq, ms2[w.seq - 1], ms2[w.seq])
    BY <1>11, <1>12
  <2>2. at2[z - 1] = Len(li)
    BY <1>1, <1>13
  <2>3. \A n \in b - 1..z - 1 :
          at2[n] \in 1..Len(li) /\ li[at2[n]] = Values(ms2[n]) /\ MapOK(ms2[n], n)
    BY <1>1, <1>9
  <2>4. \A m, n \in b - 1..z - 1 : m <= n => at2[m] <= at2[n]
    BY <1>0, <1>10
  <2> HIDE DEF V, z
  <2>5. Chain(V, b, z, li, ms2, at2)
    BY <2>1, <2>2, <2>3, <2>4, Zenon DEF Chain
  <2> QED
    BY <2>5 DEF V, z
<1>16. ms2[(q + c) - 1] = maps[c]
  <2>1. q + c - 1 = (q + c) - 1
    BY <1>0
  <2> QED
    BY <1>13, <2>1
<1>17. GoesOn(W \cup P, b, q, q + c, li, ms, at, maps[c])
  <2> DEFINE r == q + c
             V == W \cup P
             m == maps[c]
  <2>1. Chain(V, b, r, li, ms2, at2) /\ ms2[r - 1] = m
    BY <1>15, <1>16
  <2> HIDE DEF r, V, m
  <2>2. GoesOn(V, b, q, r, li, ms, at, m)
    BY <1>4, <2>1, Zenon DEF GoesOn
  <2> QED
    BY <2>2 DEF r, V, m
<1> QED
  BY <1>17 DEF c, li

\* A number without an entry changes nothing.
LEMMA ChainAsks ==
  ASSUME NEW q \in Nat, NEW b \in 1..q, NEW W, \A w \in W : w.seq \in b..q - 1,
         NEW ln, Len(ln) \in Nat, NEW ms, NEW at, Chain(W, b, q, ln, ms, at),
         NEW w, w.seq = q, w.entry = Nothing
  PROVE  GoesOn(W \cup {w}, b, q, q + 1, ln, ms, at, ms[q - 1])
<1> DEFINE ms2 == [n \in 0..q |-> IF n < q THEN ms[n] ELSE ms[q - 1]]
           at2 == [n \in 0..q |-> IF n < q THEN at[n] ELSE at[q - 1]]
<1>1. \A n \in b - 1..q - 1 : n \in 0..q /\ n < q
  OBVIOUS
<1>2. Agree(b, q, ms, at, ms2, at2)
  BY <1>1 DEF Agree
<1>3. ms2[q] = ms[q - 1] /\ at2[q] = at[q - 1]
  OBVIOUS
<1> HIDE DEF ms2, at2
<1>4. /\ \A n \in b - 1..q - 1 : at[n] \in 1..Len(ln) /\ ln[at[n]] = Values(ms[n]) /\ MapOK(ms[n], n)
      /\ \A m, n \in b - 1..q - 1 : m <= n => at[m] <= at[n]
      /\ at[q - 1] = Len(ln)
  BY DEF Chain
<1>5. q - 1 \in b - 1..q - 1 /\ \A n \in b - 1..q : n \in b - 1..q - 1 \/ n = q
  OBVIOUS
<1>6. \A n \in b - 1..q - 1 :
        at2[n] \in 1..Len(ln) /\ ln[at2[n]] = Values(ms2[n]) /\ MapOK(ms2[n], n)
  BY <1>2, <1>4 DEF Agree
<1>7. at2[q] \in 1..Len(ln) /\ ln[at2[q]] = Values(ms2[q]) /\ MapOK(ms2[q], q)
  <2>1. MapOK(ms[q - 1], q)
    <3>1. MapOK(ms[q - 1], q - 1) /\ q - 1 \in Nat /\ q - 1 <= q
      BY <1>4, <1>5
    <3> QED
      BY <3>1, MapLater
  <2> QED
    BY <1>3, <1>4, <1>5, <2>1
<1>8. \A m, n \in b - 1..q : m <= n => at2[m] <= at2[n]
  <2>1. \A m, n \in b - 1..q - 1 : m <= n => at2[m] <= at2[n]
    BY <1>2, <1>4 DEF Agree
  <2>2. \A m \in b - 1..q - 1 : at2[m] <= at2[q] /\ ~(q <= m)
    BY <1>3, <1>4, <1>6
  <2>3. at2[q] <= at2[q]
    BY <1>7
  <2> QED
    BY <1>5, <2>1, <2>2, <2>3
<1>9. \A v \in W : IF v.entry = Nothing
                   THEN at2[v.seq] = at2[v.seq - 1] /\ ms2[v.seq] = ms2[v.seq - 1]
                   ELSE /\ at2[v.seq] = at2[v.seq - 1] + 1
                        /\ Makes(v.entry, v.seq, ms2[v.seq - 1], ms2[v.seq])
  <2> TAKE v \in W
  <2>1. v.seq \in b - 1..q - 1 /\ v.seq - 1 \in b - 1..q - 1
    OBVIOUS
  <2>2. /\ ms2[v.seq] = ms[v.seq] /\ at2[v.seq] = at[v.seq]
        /\ ms2[v.seq - 1] = ms[v.seq - 1] /\ at2[v.seq - 1] = at[v.seq - 1]
    BY <1>2, <2>1 DEF Agree
  <2>3. IF v.entry = Nothing
        THEN at[v.seq] = at[v.seq - 1] /\ ms[v.seq] = ms[v.seq - 1]
        ELSE /\ at[v.seq] = at[v.seq - 1] + 1
             /\ Makes(v.entry, v.seq, ms[v.seq - 1], ms[v.seq])
    BY Zenon DEF Chain
  <2> QED
    BY <2>2, <2>3
<1>10. at2[w.seq] = at2[w.seq - 1] /\ ms2[w.seq] = ms2[w.seq - 1]
  BY <1>2, <1>3, <1>5 DEF Agree
<1>11. at2[q] = Len(ln)
  BY <1>3, <1>4
<1>12. q + 1 - 1 = q
  OBVIOUS
<1>13. Chain(W \cup {w}, b, q + 1, ln, ms2, at2)
  <2>1. \A v \in W \cup {w} :
          IF v.entry = Nothing
          THEN at2[v.seq] = at2[v.seq - 1] /\ ms2[v.seq] = ms2[v.seq - 1]
          ELSE /\ at2[v.seq] = at2[v.seq - 1] + 1
               /\ Makes(v.entry, v.seq, ms2[v.seq - 1], ms2[v.seq])
    BY <1>9, <1>10
  <2>2. \A n \in b - 1..q :
          at2[n] \in 1..Len(ln) /\ ln[at2[n]] = Values(ms2[n]) /\ MapOK(ms2[n], n)
    BY <1>5, <1>6, <1>7
  <2> QED
    BY <1>8, <1>11, <1>12, <2>1, <2>2 DEF Chain
<1>14. ms2[(q + 1) - 1] = ms[q - 1]
  <2>1. (q + 1) - 1 = q
    OBVIOUS
  <2> QED
    BY <1>3, <2>1
<1> DEFINE r == q + 1
           V == W \cup {w}
           m == ms[q - 1]
<1>15. Chain(V, b, r, ln, ms2, at2) /\ ms2[r - 1] = m
  BY <1>13, <1>14
<1> HIDE DEF r, V, m
<1>16. GoesOn(V, b, q, r, ln, ms, at, m)
  BY <1>2, <1>15, Zenon DEF GoesOn
<1> QED
  BY <1>16 DEF r, V, m

\* The turn of a number comes.
LEMMA ChainRuns ==
  ASSUME NEW q \in Nat, NEW b \in 1..q, b < q, NEW W,
         NEW ln, NEW ms, NEW at, Chain(W, b, q, ln, ms, at), NEW w
  PROVE  Chain(W \ {w}, b + 1, q, ln, ms, at)
<1> DEFINE V == W \ {w}
           c == b + 1
<1>1. \A n \in c - 1..q - 1 : n \in b - 1..q - 1
  OBVIOUS
<1>2. \A v \in V : v \in W
  OBVIOUS
<1> HIDE DEF V, c
<1>3. Chain(V, c, q, ln, ms, at)
  <2>1. \A n \in c - 1..q - 1 :
          at[n] \in 1..Len(ln) /\ ln[at[n]] = Values(ms[n]) /\ MapOK(ms[n], n)
    BY <1>1 DEF Chain
  <2>2. \A m, n \in c - 1..q - 1 : m <= n => at[m] <= at[n]
    BY <1>1 DEF Chain
  <2>3. \A v \in V :
          IF v.entry = Nothing THEN at[v.seq] = at[v.seq - 1] /\ ms[v.seq] = ms[v.seq - 1]
          ELSE at[v.seq] = at[v.seq - 1] + 1 /\ Makes(v.entry, v.seq, ms[v.seq - 1], ms[v.seq])
    BY <1>2, Zenon DEF Chain
  <2>4. at[q - 1] = Len(ln)
    BY DEF Chain
  <2> QED
    BY <2>1, <2>2, <2>3, <2>4, Zenon DEF Chain
<1> QED
  BY <1>3 DEF V, c

Shorter(ln, li, n) ==
  Len(li) = Len(ln) - n + 1 /\ \A i \in n..Len(ln) : li[i - n + 1] = ln[i]

Moved(at, at2, b, q, n) == \A m \in b - 1..q - 1 : at2[m] = at[m] - n + 1

\* What is before the moment n is over.
LEMMA ChainCut ==
  ASSUME NEW q \in Nat, NEW b \in 1..q, NEW W, \A w \in W : w.seq \in b..q - 1,
         NEW ln, Len(ln) \in Nat, NEW ms, NEW at, Chain(W, b, q, ln, ms, at),
         NEW n \in Nat \ {0}, n <= at[b - 1], NEW li, Shorter(ln, li, n),
         NEW at2, Moved(at, at2, b, q, n)
  PROVE  Chain(W, b, q, li, ms, at2)
<1> USE DEF Shorter, Moved
<1>1. /\ \A m \in b - 1..q - 1 : at[m] \in 1..Len(ln) /\ ln[at[m]] = Values(ms[m]) /\ MapOK(ms[m], m)
      /\ \A m, i \in b - 1..q - 1 : m <= i => at[m] <= at[i]
      /\ at[q - 1] = Len(ln)
  BY DEF Chain
<1>2. /\ b - 1 \in b - 1..q - 1 /\ q - 1 \in b - 1..q - 1
      /\ \A m \in b - 1..q - 1 : b - 1 <= m
  OBVIOUS
<1>3. \A m \in b - 1..q - 1 : at[m] \in n..Len(ln)
  <2> TAKE m \in b - 1..q - 1
  <2>1. at[b - 1] <= at[m] /\ at[m] \in 1..Len(ln) /\ at[b - 1] \in 1..Len(ln)
    BY <1>1, <1>2
  <2> QED
    BY <2>1
<1>4. \A m \in b - 1..q - 1 :
        at2[m] \in 1..Len(li) /\ li[at2[m]] = Values(ms[m]) /\ MapOK(ms[m], m)
  <2> TAKE m \in b - 1..q - 1
  <2>1. at[m] \in n..Len(ln) /\ at2[m] = at[m] - n + 1
    BY <1>3
  <2>2. at2[m] \in 1..Len(li)
    BY <2>1
  <2>3. li[at2[m]] = ln[at[m]]
    BY <2>1
  <2> QED
    BY <1>1, <2>2, <2>3
<1>5. \A m, i \in b - 1..q - 1 : m <= i => at2[m] <= at2[i]
  <2> TAKE m, i \in b - 1..q - 1
  <2>1. m <= i => at[m] <= at[i]
    BY <1>1
  <2> QED
    BY <1>3, <2>1
<1>6. \A w \in W :
        IF w.entry = Nothing THEN at2[w.seq] = at2[w.seq - 1] /\ ms[w.seq] = ms[w.seq - 1]
        ELSE at2[w.seq] = at2[w.seq - 1] + 1 /\ Makes(w.entry, w.seq, ms[w.seq - 1], ms[w.seq])
  <2> TAKE w \in W
  <2>1. w.seq \in b - 1..q - 1 /\ w.seq - 1 \in b - 1..q - 1
    OBVIOUS
  <2>2. /\ at2[w.seq] = at[w.seq] - n + 1 /\ at2[w.seq - 1] = at[w.seq - 1] - n + 1
        /\ at[w.seq] \in n..Len(ln) /\ at[w.seq - 1] \in n..Len(ln)
    BY <1>3, <2>1
  <2>3. IF w.entry = Nothing THEN at[w.seq] = at[w.seq - 1] /\ ms[w.seq] = ms[w.seq - 1]
        ELSE at[w.seq] = at[w.seq - 1] + 1 /\ Makes(w.entry, w.seq, ms[w.seq - 1], ms[w.seq])
    BY Zenon DEF Chain
  <2>4. CASE w.entry = Nothing
    BY <2>2, <2>3, <2>4
  <2>5. CASE w.entry # Nothing
    <3>1. at[w.seq] = at[w.seq - 1] + 1 /\ Makes(w.entry, w.seq, ms[w.seq - 1], ms[w.seq])
      BY <2>3, <2>5
    <3>2. at2[w.seq] = at2[w.seq - 1] + 1
      BY <2>2, <3>1
    <3> QED
      BY <2>5, <3>1, <3>2
  <2> QED
    BY <2>4, <2>5
<1>7. at2[q - 1] = Len(li)
  BY <1>1, <1>2, <1>3
<1>8. Chain(W, b, q, li, ms, at2)
  BY <1>4, <1>5, <1>6, <1>7, Zenon DEF Chain
<1> QED
  BY <1>3, <1>8

-----------------------------------------------------------------------------
(***************************************************************************)
(* The changes of the map, and the parts that tell them.                   *)
(***************************************************************************)
LEMMA EntryMade ==
  /\ \A i \in Nat \ {0} : Erase(i) \in Entry /\ Erase(i).op = "erase" /\ Erase(i).id = i
  /\ \A i \in Nat \ {0}, k \in Key : \A v \in Value[k] :
       /\ Add(i, k, v) \in Entry /\ Add(i, k, v).op = "add" /\ Add(i, k, v).id = i
       /\ Add(i, k, v).key = k /\ Add(i, k, v).value = v
       /\ Rewrite(i, k, v) \in Entry /\ Rewrite(i, k, v).op = "rewrite"
       /\ Rewrite(i, k, v).id = i /\ Rewrite(i, k, v).key = k /\ Rewrite(i, k, v).value = v
<1>1. \A i \in Nat \ {0} : Erase(i) \in Entry /\ Erase(i).op = "erase" /\ Erase(i).id = i
  BY DEF Erase, Entry
<1>2. ASSUME NEW i \in Nat \ {0}, NEW k \in Key, NEW v \in Value[k]
      PROVE  /\ Add(i, k, v) \in Entry /\ Add(i, k, v).op = "add" /\ Add(i, k, v).id = i
             /\ Add(i, k, v).key = k /\ Add(i, k, v).value = v
             /\ Rewrite(i, k, v) \in Entry /\ Rewrite(i, k, v).op = "rewrite"
             /\ Rewrite(i, k, v).id = i /\ Rewrite(i, k, v).key = k
             /\ Rewrite(i, k, v).value = v
  <2>1. v \in UNION {Value[j] : j \in Key}
    OBVIOUS
  <2> QED
    BY <2>1 DEF Add, Rewrite, Entry
<1> QED
  BY <1>1, <1>2

\* What a part is.
LEMMA PartIs ==
  \A n \in Nat, e \in Entry \cup {Nothing}, p \in Promise \cup {Nothing} :
    /\ Part(n, e, p) \in PartOf /\ Part(n, e, p).seq = n
    /\ Part(n, e, p).entry = e /\ Part(n, e, p).promise = p
BY DEF Part, PartOf

\* One change, by one entry.
LEMMA ChangingOne ==
  ASSUME NEW q \in Nat \ {0}, NEW m, NEW l, NEW e \in Entry, Makes(e, q, m, l), MapOK(l, q)
  PROVE  Changing({Part(q, e, Nothing)}, q, m, <<l>>)
<1> DEFINE w == Part(q, e, Nothing)
           maps == <<l>>
<1>1. w \in PartOf /\ w.seq = q /\ w.entry = e /\ w.promise = Nothing /\ e # Nothing
  BY PartIs, EntryIs
<1>2. DOMAIN maps = 1..1 /\ Len(maps) = 1 /\ maps[1] = l
  OBVIOUS
<1> HIDE DEF w, maps
<1>3. Taken({w}, q, 1)
  BY <1>1 DEF Taken
<1>4. Makes(w.entry, w.seq, IF w.seq = q THEN m ELSE maps[w.seq - q], maps[w.seq - q + 1])
  <2>1. w.seq - q + 1 = 1
    BY <1>1
  <2>2. maps[w.seq - q + 1] = l
    BY <1>2, <2>1
  <2> QED
    BY <1>1, <2>2
<1>5. \A i \in 1..1 : MapOK(maps[i], q + i - 1)
  <2>1. q + 1 - 1 = q
    OBVIOUS
  <2>2. \A i \in 1..1 : i = 1
    OBVIOUS
  <2> QED
    BY <1>2, <2>1, <2>2
<1>6. Changing({w}, q, m, maps)
  BY <1>1, <1>2, <1>3, <1>4, <1>5 DEF Changing
<1> QED
  BY <1>6 DEF w, maps

\* A new key is one change.
LEMMA SetNew ==
  ASSUME NEW q \in Nat \ {0}, NEW m, MapOK(m, q - 1), NEW k \in Key, NEW v \in Value[k],
         k \notin DOMAIN m
  PROVE  Changing({Part(q, Add(q, k, v), Nothing)}, q, m, <<With(m, k, [value |-> v, id |-> q])>>)
<1> DEFINE l == With(m, k, [value |-> v, id |-> q])
           e == Add(q, k, v)
<1>1. /\ e \in Entry /\ e.op = "add" /\ e.id = q /\ e.key = k /\ e.value = v
  BY EntryMade
<1>2. /\ DOMAIN l = DOMAIN m \cup {k} /\ l[k] = [value |-> v, id |-> q]
      /\ \A j \in DOMAIN m : l[j] = m[j]
      /\ l = [j \in DOMAIN l |-> l[j]]
  BY DEF With
<1>3. Makes(e, q, m, l)
  BY <1>1 DEF Makes
<1> HIDE DEF l, e
<1>4. MapOK(m, q)
  <2>1. q - 1 \in Nat /\ q \in Nat /\ q - 1 <= q
    OBVIOUS
  <2> QED
    BY <2>1, MapLater
<1>5. \A j \in DOMAIN m : m[j].id # q
  BY DEF MapOK
<1>6. \A j \in DOMAIN l : /\ l[j] \in [value : UNION {Value[i] : i \in Key}, id : 1..q]
                          /\ l[j].value \in Value[j] /\ j \in Key
  <2>1. \A j \in DOMAIN m : /\ l[j] \in [value : UNION {Value[i] : i \in Key}, id : 1..q]
                            /\ l[j].value \in Value[j] /\ j \in Key
    BY <1>2, <1>4 DEF MapOK
  <2>2. v \in UNION {Value[i] : i \in Key} /\ q \in 1..q
    OBVIOUS
  <2> QED
    BY <1>2, <2>1, <2>2
<1>7. l \in [DOMAIN l -> [value : UNION {Value[i] : i \in Key}, id : 1..q]]
  BY <1>2, <1>6
<1>8. \A i, j \in DOMAIN l : l[i].id = l[j].id => i = j
  BY <1>2, <1>4, <1>5 DEF MapOK
<1>9. MapOK(l, q)
  BY <1>6, <1>7, <1>8 DEF MapOK
<1>10. Changing({Part(q, e, Nothing)}, q, m, <<l>>)
  BY <1>1, <1>3, <1>9, ChangingOne
<1> QED
  BY <1>10 DEF l, e

\* A new value of a key is one change.
LEMMA SetAgain ==
  ASSUME NEW q \in Nat \ {0}, NEW m, MapOK(m, q - 1), NEW k \in DOMAIN m, NEW v \in Value[k]
  PROVE  Changing({Part(q, Rewrite(m[k].id, k, v), Nothing)}, q, m,
                  <<[m EXCEPT ![k].value = v]>>)
<1> DEFINE l == [m EXCEPT ![k].value = v]
           e == Rewrite(m[k].id, k, v)
<1>1. MapOK(m, q)
  <2>1. q - 1 \in Nat /\ q \in Nat /\ q - 1 <= q
    OBVIOUS
  <2> QED
    BY <2>1, MapLater
<1>2. k \in Key /\ m[k] \in [value : UNION {Value[i] : i \in Key}, id : 1..q]
  BY <1>1 DEF MapOK
<1>3. /\ e \in Entry /\ e.op = "rewrite" /\ e.id = m[k].id /\ e.key = k /\ e.value = v
  <2>1. m[k].id \in Nat \ {0}
    BY <1>2
  <2> QED
    BY <1>2, <2>1, EntryMade
<1>4. /\ DOMAIN l = DOMAIN m /\ l[k] = [m[k] EXCEPT !.value = v]
      /\ \A j \in DOMAIN m : j # k => l[j] = m[j]
      /\ l = [j \in DOMAIN l |-> l[j]]
  OBVIOUS
<1>5. Makes(e, q, m, l)
  BY <1>3 DEF Makes
<1> HIDE DEF l, e
<1>6. v \in UNION {Value[i] : i \in Key}
  BY <1>2
<1>7. /\ l[k] \in [value : UNION {Value[i] : i \in Key}, id : 1..q]
      /\ l[k].id = m[k].id /\ l[k].value = v
  BY <1>2, <1>4, <1>6
<1>8. \A j \in DOMAIN l : /\ l[j] \in [value : UNION {Value[i] : i \in Key}, id : 1..q]
                          /\ l[j].value \in Value[j] /\ j \in Key /\ l[j].id = m[j].id
  BY <1>1, <1>4, <1>7 DEF MapOK
<1>9. l \in [DOMAIN l -> [value : UNION {Value[i] : i \in Key}, id : 1..q]]
  BY <1>4, <1>8
<1>10. \A i, j \in DOMAIN l : l[i].id = l[j].id => i = j
  BY <1>1, <1>4, <1>8 DEF MapOK
<1>11. MapOK(l, q)
  BY <1>8, <1>9, <1>10 DEF MapOK
<1>12. Changing({Part(q, e, Nothing)}, q, m, <<l>>)
  BY <1>3, <1>5, <1>11, ChangingOne
<1> QED
  BY <1>12 DEF l, e

\* A map with fewer keys is well-formed.
LEMMA MapLess ==
  ASSUME NEW m, NEW n, MapOK(m, n), NEW T \in SUBSET DOMAIN m
  PROVE  /\ MapOK(Restrict(m, T), n) /\ DOMAIN Restrict(m, T) = T
         /\ \A k \in T : Restrict(m, T)[k] = m[k]
<1> DEFINE l == Restrict(m, T)
<1>1. DOMAIN l = T /\ (\A k \in T : l[k] = m[k]) /\ l = [k \in T |-> l[k]]
  BY DEF Restrict
<1> HIDE DEF l
<1>2. \A k \in T : /\ l[k] \in [value : UNION {Value[i] : i \in Key}, id : 1..n]
                   /\ l[k].value \in Value[k] /\ k \in Key
  BY <1>1 DEF MapOK
<1>3. l \in [DOMAIN l -> [value : UNION {Value[i] : i \in Key}, id : 1..n]]
  BY <1>1, <1>2
<1>4. MapOK(l, n)
  BY <1>1, <1>2, <1>3 DEF MapOK
<1> QED
  BY <1>1, <1>4 DEF l

\* Erasing a key is one change.
LEMMA EraseOne ==
  ASSUME NEW q \in Nat \ {0}, NEW m, MapOK(m, q - 1), NEW k \in DOMAIN m
  PROVE  Changing({Part(q, Erase(m[k].id), Nothing)}, q, m,
                  <<Restrict(m, DOMAIN m \ {k})>>)
<1> DEFINE l == Restrict(m, DOMAIN m \ {k})
           e == Erase(m[k].id)
<1>1. MapOK(m, q)
  <2>1. q - 1 \in Nat /\ q \in Nat /\ q - 1 <= q
    OBVIOUS
  <2> QED
    BY <2>1, MapLater
<1>2. e \in Entry /\ e.op = "erase" /\ e.id = m[k].id
  <2>1. m[k].id \in Nat \ {0}
    BY <1>1 DEF MapOK
  <2> QED
    BY <2>1, EntryMade
<1>3. Makes(e, q, m, l)
  BY <1>2 DEF Makes
<1>4. MapOK(l, q)
  <2>1. DOMAIN m \ {k} \in SUBSET DOMAIN m
    OBVIOUS
  <2> QED
    BY <1>1, <2>1, MapLess
<1> HIDE DEF l, e
<1>5. Changing({Part(q, e, Nothing)}, q, m, <<l>>)
  BY <1>2, <1>3, <1>4, ChangingOne
<1> QED
  BY <1>5 DEF l, e

\* The ids that erase_batch() erases, in order, and what is left after the
\* first n of them.
BatchIds(m, S) == Ascending({m[k].id : k \in S})
Gone(m, S, n) == {k \in S : m[k].id \in {BatchIds(m, S)[i] : i \in 1..n}}
BatchMaps(m, S) ==
  [n \in DOMAIN BatchIds(m, S) |-> Restrict(m, DOMAIN m \ Gone(m, S, n))]
BatchParts(m, S, q) ==
  {Part(q + i - 1, Erase(BatchIds(m, S)[i]), Nothing) : i \in DOMAIN BatchIds(m, S)}

\* A batch makes a change of each of its entries.
LEMMA BatchChanges ==
  ASSUME NEW q \in Nat \ {0}, NEW m, MapOK(m, q - 1), NEW S \in SUBSET DOMAIN m, S # {}
  PROVE  Changing(BatchParts(m, S, q), q, m, BatchMaps(m, S))
<1> DEFINE I == {m[k].id : k \in S}
           ids == BatchIds(m, S)
           c == Cardinality(I)
           maps == BatchMaps(m, S)
           P == BatchParts(m, S, q)
<1>1. /\ \A k \in DOMAIN m : m[k].id \in 1..q - 1
      /\ \A k, l \in DOMAIN m : m[k].id = m[l].id => k = l
  BY DEF MapOK
<1>2. I \in SUBSET (1..q - 1) /\ I # {}
  BY <1>1
<1>3. IsFiniteSet(I) /\ I \in SUBSET Nat
  <2>1. IsFiniteSet(1..q - 1)
    <3>1. 1 \in Int /\ q - 1 \in Int
      OBVIOUS
    <3> QED
      BY <3>1, FS_Interval, Zenon
  <2>2. I \subseteq Nat
    BY <1>2
  <2> HIDE DEF I
  <2> QED
    BY <1>2, <2>1, <2>2, FS_Subset
<1>4. /\ c \in Nat /\ DOMAIN ids = 1..c /\ ids \in Seq(I)
      /\ \A i \in I : \E k \in 1..c : ids[k] = i
  <2> HIDE DEF I
  <2> QED
    BY <1>3, AscendingSeq DEF BatchIds, I
<1>5. c \in Nat \ {0}
  <2>1. PICK i \in I : TRUE
    BY <1>2
  <2>2. PICK k \in 1..c : ids[k] = i
    BY <1>4, <2>1
  <2> QED
    BY <1>4, <2>2
<1>6. \A k \in 1..c : ids[k] \in I
  <2>1. Len(ids) = c
    BY <1>4, LenProperties
  <2> QED
    BY <1>4, <2>1, ElementOfSeq
<1>7. \A k, l \in 1..c : ids[k] = ids[l] => k = l
  <2> HIDE DEF I
  <2> QED
    BY <1>3, AscendingOnce DEF BatchIds, I
<1>8. DOMAIN maps = 1..c /\ \A n \in 1..c : maps[n] = Restrict(m, DOMAIN m \ Gone(m, S, n))
  BY <1>4 DEF BatchMaps
<1>9. maps \in Seq({maps[n] : n \in 1..c}) /\ Len(maps) = c
  <2>1. maps \in [1..c -> {maps[n] : n \in 1..c}]
    BY <1>4 DEF BatchMaps
  <2>2. maps \in Seq({maps[n] : n \in 1..c})
    BY <1>5, <2>1, SeqDef
  <2> QED
    BY <1>5, <1>8, <2>2, LenProperties
<1> HIDE DEF I, ids, c, maps, P
<1>10. \A n : Gone(m, S, n) = {k \in S : \E i \in 1..n : m[k].id = ids[i]}
  BY DEF Gone, ids
<1>11. ASSUME NEW i \in 1..c
       PROVE  /\ ids[i] \in 1..q - 1 /\ Part(q + i - 1, Erase(ids[i]), Nothing) \in PartOf
              /\ Part(q + i - 1, Erase(ids[i]), Nothing).seq = q + i - 1
              /\ Part(q + i - 1, Erase(ids[i]), Nothing).entry = Erase(ids[i])
              /\ Part(q + i - 1, Erase(ids[i]), Nothing).promise = Nothing
              /\ Erase(ids[i]) \in Entry
  <2>1. ids[i] \in 1..q - 1 /\ ids[i] \in Nat \ {0} /\ q + i - 1 \in Nat
    <3>1. ids[i] \in 1..q - 1
      BY <1>2, <1>6
    <3>2. q + i - 1 \in Nat
      BY <1>5
    <3> QED
      BY <3>1, <3>2
  <2>2. Erase(ids[i]) \in Entry
    BY <2>1, EntryMade
  <2> QED
    BY <2>1, <2>2, PartIs
<1>12. P = {Part(q + i - 1, Erase(ids[i]), Nothing) : i \in 1..c}
  BY <1>4 DEF P, BatchParts, ids
<1>13. \A w \in P : \E i \in 1..c :
         /\ w \in PartOf /\ w.seq = q + i - 1 /\ w.entry = Erase(ids[i]) /\ w.promise = Nothing
         /\ Erase(ids[i]) \in Entry /\ w = Part(q + i - 1, Erase(ids[i]), Nothing)
  BY <1>11, <1>12
<1>14. Taken(P, q, c)
  <2>1. P \subseteq PartOf
    BY <1>13
  <2>2. \A w \in P : w.seq \in q..q + c - 1
    BY <1>5, <1>13
  <2>3. \A n \in q..q + c - 1 : \E w \in P : w.seq = n
    <3> TAKE n \in q..q + c - 1
    <3> DEFINE i == n - q + 1
    <3>1. i \in 1..c /\ q + i - 1 = n
      BY <1>5
    <3> HIDE DEF i
    <3>2. Part(q + i - 1, Erase(ids[i]), Nothing) \in P
      BY <1>12, <3>1
    <3> QED
      BY <1>11, <3>1, <3>2
  <2>4. \A v, w \in P : v.seq = w.seq => v = w
    <3> TAKE v, w \in P
    <3>1. PICK i \in 1..c : v.seq = q + i - 1 /\ v = Part(q + i - 1, Erase(ids[i]), Nothing)
      BY <1>13
    <3>2. PICK j \in 1..c : w.seq = q + j - 1 /\ w = Part(q + j - 1, Erase(ids[j]), Nothing)
      BY <1>13
    <3>3. v.seq = w.seq => i = j
      BY <1>5, <3>1, <3>2
    <3> QED
      BY <3>1, <3>2, <3>3
  <2> QED
    BY <2>1, <2>2, <2>3, <2>4 DEF Taken
<1>15. \A n \in 1..c :
         /\ MapOK(maps[n], q - 1) /\ DOMAIN maps[n] = DOMAIN m \ Gone(m, S, n)
         /\ \A k \in DOMAIN m \ Gone(m, S, n) : maps[n][k] = m[k]
  <2> TAKE n \in 1..c
  <2> DEFINE T == DOMAIN m \ Gone(m, S, n)
  <2>1. T \in SUBSET DOMAIN m
    OBVIOUS
  <2> HIDE DEF T
  <2>2. /\ MapOK(Restrict(m, T), q - 1) /\ DOMAIN Restrict(m, T) = T
        /\ \A k \in T : Restrict(m, T)[k] = m[k]
    BY <2>1, MapLess
  <2>3. maps[n] = Restrict(m, T)
    BY <1>8 DEF T
  <2> QED
    BY <2>2, <2>3 DEF T
<1>16. ASSUME NEW i \in 1..c
       PROVE  Makes(Erase(ids[i]), q + i - 1, IF i = 1 THEN m ELSE maps[i - 1], maps[i])
  <2> DEFINE l == IF i = 1 THEN m ELSE maps[i - 1]
  <2>1. PICK k \in S : m[k].id = ids[i]
    BY <1>6 DEF I
  <2>2. \A j \in S : \A h \in 1..c : m[j].id = ids[h] /\ m[k].id = ids[h] => j = k
    BY <1>1
  <2>3. Gone(m, S, i) = Gone(m, S, i - 1) \cup {k} /\ k \notin Gone(m, S, i - 1)
    <3>1. \A h \in 1..i : h \in 1..i - 1 \/ h = i
      OBVIOUS
    <3>2. \A h \in 1..i - 1 : h \in 1..i /\ h \in 1..c /\ h # i
      BY <1>5
    <3>3. i \in 1..i
      OBVIOUS
    <3>4. \A h \in 1..i - 1 : m[k].id # ids[h]
      BY <1>7, <2>1, <3>2
    <3>5. \A j \in S : m[j].id = ids[i] => j = k
      BY <2>1, <2>2
    <3>6. \A j \in S : (\E h \in 1..i : m[j].id = ids[h])
                        <=> (\E h \in 1..i - 1 : m[j].id = ids[h]) \/ j = k
      BY <2>1, <3>1, <3>2, <3>3, <3>5
    <3> QED
      BY <1>10, <3>4, <3>6
  <2>4. /\ DOMAIN l = DOMAIN m \ Gone(m, S, i - 1)
        /\ \A j \in DOMAIN l : l[j] = m[j]
    <3>1. CASE i = 1
      <4>1. \A h \in 1..i - 1 : FALSE
        BY <3>1
      <4>2. Gone(m, S, i - 1) = {}
        BY <1>10, <4>1
      <4> QED
        BY <3>1, <4>2
    <3>2. CASE i # 1
      <4>1. i - 1 \in 1..c
        BY <1>5, <3>2
      <4> QED
        BY <1>15, <3>2, <4>1
    <3> QED
      BY <3>1, <3>2
  <2> HIDE DEF l
  <2>5. k \in DOMAIN l /\ l[k].id = ids[i]
    BY <2>1, <2>3, <2>4
  <2>6. DOMAIN m \ Gone(m, S, i) = DOMAIN l \ {k}
    BY <2>3, <2>4
  <2>7. maps[i] = Restrict(l, DOMAIN l \ {k})
    <3>1. maps[i] = Restrict(m, DOMAIN l \ {k})
      BY <1>8, <2>6
    <3>2. \A j \in DOMAIN l \ {k} : l[j] = m[j]
      BY <2>4
    <3> QED
      BY <3>1, <3>2 DEF Restrict
  <2>8. Erase(ids[i]).op = "erase" /\ Erase(ids[i]).id = ids[i]
    BY DEF Erase
  <2>9. Makes(Erase(ids[i]), q + i - 1, l, maps[i])
    BY <2>5, <2>7, <2>8 DEF Makes
  <2> QED
    BY <2>9 DEF l
<1>17. ASSUME NEW w \in P
       PROVE  /\ w.entry # Nothing /\ w.promise = Nothing
              /\ Makes(w.entry, w.seq, IF w.seq = q THEN m ELSE maps[w.seq - q],
                       maps[w.seq - q + 1])
  <2>1. PICK i \in 1..c : /\ w.seq = q + i - 1 /\ w.entry = Erase(ids[i])
                          /\ w.promise = Nothing /\ Erase(ids[i]) \in Entry
    BY <1>13
  <2>2. w.entry # Nothing
    BY <2>1, EntryIs
  <2>3. w.seq - q + 1 = i /\ w.seq - q = i - 1 /\ (w.seq = q <=> i = 1)
    BY <1>5, <2>1
  <2>4. Makes(w.entry, w.seq, IF i = 1 THEN m ELSE maps[i - 1], maps[i])
    BY <1>16, <2>1
  <2> QED
    BY <2>1, <2>2, <2>3, <2>4
<1>18. \A i \in 1..c : MapOK(maps[i], q + i - 1)
  <2> TAKE i \in 1..c
  <2> DEFINE n == q + i - 1
             r == q - 1
  <2>1. MapOK(maps[i], r) /\ r \in Nat /\ n \in Nat /\ r <= n
    BY <1>5, <1>15
  <2> HIDE DEF n, r
  <2>2. MapOK(maps[i], n)
    BY <2>1, MapLater
  <2> QED
    BY <2>2 DEF n
<1>19. Changing(P, q, m, maps)
  BY <1>5, <1>8, <1>9, <1>14, <1>17, <1>18 DEF Changing
<1> QED
  BY <1>19 DEF P, maps

-----------------------------------------------------------------------------
(***************************************************************************)
(* The promises, as they are asked for and passed on.                      *)
(***************************************************************************)
LEMMA PromiseAt ==
  /\ \A a, r : r \in Waiting(a) <=> \E w \in a.waits : w.promise = r
  /\ \A mb, r : r \in Asking(mb) <=> \E i : IsSync(mb, i) /\ mb[i].promise = r
  /\ \A W, r : r \in Carried(W) <=> r # Nothing /\ \E w \in W : w.promise = r
<1>1. \A a, r : r \in Waiting(a) <=> \E w \in a.waits : w.promise = r
  BY DEF Waiting
<1>2. \A mb, r : r \in Asking(mb) <=> \E i : IsSync(mb, i) /\ mb[i].promise = r
  BY DEF Asking, IsSync
<1>3. \A W, r : r \in Carried(W) <=> r # Nothing /\ \E w \in W : w.promise = r
  BY DEF Carried
<1> QED
  BY <1>1, <1>2, <1>3

\* The same syncs wait in both mailboxes, each behind the same parts.
SameSyncs(mb, mb2) ==
  \A i : /\ IsSync(mb2, i) <=> IsSync(mb, i)
         /\ IsSync(mb, i) => mb2[i].promise = mb[i].promise /\ Earlier(mb2, i) = Earlier(mb, i)

\* A message of events asks for no sync.
LEMMA SyncsSame ==
  ASSUME NEW mb \in Seq(Message), NEW P \in SUBSET PartOf
  PROVE  SameSyncs(mb, Append(mb, Events(P)))
<1> DEFINE u == Append(mb, Events(P))
<1>1. Events(P) \in Message /\ Events(P).kind = "events"
  BY MessageIs
<1>2. /\ DOMAIN u = 1..Len(mb) + 1 /\ DOMAIN mb = 1..Len(mb) /\ Len(mb) \in Nat
      /\ \A i \in 1..Len(mb) : u[i] = mb[i]
      /\ u[Len(mb) + 1] = Events(P)
      /\ \A i \in 1..Len(mb) : Earlier(u, i) = Earlier(mb, i)
  BY <1>1, MailAppend
<1> HIDE DEF u
<1>3. \A i \in 1..Len(mb) + 1 : i \in 1..Len(mb) \/ i = Len(mb) + 1
  BY <1>2
<1>4. \A i \in 1..Len(mb) : i \in 1..Len(mb) + 1
  BY <1>2
<1>5. SameSyncs(mb, u)
  BY <1>1, <1>2, <1>3, <1>4 DEF SameSyncs, IsSync
<1> QED
  BY <1>5 DEF u

\* Parts without a promise are added.
LEMMA OnceMore ==
  ASSUME NEW a, NEW mb, NEW W, NEW ask, PromisesOnce(a, mb, W, ask),
         NEW mb2, SameSyncs(mb, mb2), NEW P, \A w \in P : w.promise = Nothing
  PROVE  PromisesOnce(a, mb2, W \cup P, ask)
<1> DEFINE V == W \cup P
<1>1. Asking(mb2) = Asking(mb)
  <2>1. \A r : r \in Asking(mb2) <=> r \in Asking(mb)
    <3> TAKE r
    <3>1. r \in Asking(mb2) <=> \E i : IsSync(mb2, i) /\ mb2[i].promise = r
      BY PromiseAt
    <3>2. r \in Asking(mb) <=> \E i : IsSync(mb, i) /\ mb[i].promise = r
      BY PromiseAt
    <3> QED
      BY <3>1, <3>2, Zenon DEF SameSyncs
  <2> QED
    BY <2>1
<1>2. Carried(V) = Carried(W)
  <2>1. \A r : r \in Carried(V) <=> r \in Carried(W)
    BY DEF Carried
  <2> QED
    BY <2>1
<1>3. \A v, w \in V : v.promise = w.promise /\ v.promise # Nothing => v = w
  BY DEF PromisesOnce
<1>4. \A i, j \in DOMAIN mb2 :
        IsSync(mb2, i) /\ IsSync(mb2, j) /\ mb2[i].promise = mb2[j].promise => i = j
  BY DEF PromisesOnce, SameSyncs, IsSync
<1> HIDE DEF V
<1>5. PromisesOnce(a, mb2, V, ask)
  BY <1>1, <1>2, <1>3, <1>4 DEF PromisesOnce
<1> QED
  BY <1>5 DEF V

\* What was asked for stays reached when more is on its way.
LEMMA ReachedMore ==
  ASSUME NEW q \in Nat, NEW a, a.begin \in 1..q, a.waits \subseteq [seq : Nat, promise : Promise],
         NEW mb, NEW W, \A w \in W : w.seq \in a.begin..q - 1,
         NEW ask, NEW at, Reached(a, mb, W, q, ask, at),
         NEW mb2, SameSyncs(mb, mb2), NEW P, \A w \in P : w.promise = Nothing,
         NEW r \in Nat, q <= r, NEW at2, \A n \in a.begin - 1..q - 1 : at2[n] = at[n]
  PROVE  Reached(a, mb2, W \cup P, r, ask, at2)
<1> DEFINE V == W \cup P
<1>1. \A n \in 0..q - 1 : Moment(at2, a.begin, n) = Moment(at, a.begin, n)
  BY DEF Moment
<1>2. \A p \in a.promises : ask[p] <= at2[a.begin - 1]
  BY DEF Reached
<1>3. \A w \in a.waits : w.seq < r /\ ask[w.promise] <= Moment(at2, a.begin, w.seq)
  <2> TAKE w \in a.waits
  <2>1. w.seq \in Nat /\ w.seq < q /\ ask[w.promise] <= Moment(at, a.begin, w.seq)
    BY DEF Reached
  <2>2. w.seq \in 0..q - 1 /\ w.seq < r
    BY <2>1
  <2> QED
    BY <1>1, <2>1, <2>2
<1>4. \A w \in V : w.promise # Nothing => ask[w.promise] <= at2[w.seq]
  BY DEF Reached
<1>5. \A i \in DOMAIN mb2 : IsSync(mb2, i) =>
        \E n \in 0..r - 1 :
          /\ ask[mb2[i].promise] <= Moment(at2, a.begin, n)
          /\ n < a.begin \/ \E w \in a.pending \cup Earlier(mb2, i) : w.seq = n
  <2> TAKE i \in DOMAIN mb2
  <2> HAVE IsSync(mb2, i)
  <2>1. /\ IsSync(mb, i) /\ i \in DOMAIN mb
        /\ mb2[i].promise = mb[i].promise /\ Earlier(mb2, i) = Earlier(mb, i)
    BY DEF SameSyncs, IsSync
  <2>2. PICK n \in 0..q - 1 :
          /\ ask[mb[i].promise] <= Moment(at, a.begin, n)
          /\ n < a.begin \/ \E w \in a.pending \cup Earlier(mb, i) : w.seq = n
    BY <2>1 DEF Reached
  <2>3. n \in 0..r - 1
    OBVIOUS
  <2> QED
    BY <1>1, <2>1, <2>2, <2>3
<1> HIDE DEF V
<1>6. Reached(a, mb2, V, r, ask, at2)
  BY <1>2, <1>3, <1>4, <1>5 DEF Reached
<1> QED
  BY <1>6 DEF V

\* A promise is asked for, which no one has asked for.
LEMMA WithAt ==
  ASSUME NEW f, NEW x, NEW y
  PROVE  /\ DOMAIN With(f, x, y) = DOMAIN f \cup {x} /\ With(f, x, y)[x] = y
         /\ \A z \in DOMAIN f \ {x} : With(f, x, y)[z] = f[z]
         /\ With(f, x, y) = [z \in DOMAIN With(f, x, y) |-> With(f, x, y)[z]]
BY DEF With

\* A promise asked for now is new in the mail.
LEMMA OnceForce ==
  ASSUME NEW a, NEW mb \in Seq(Message), NEW W, NEW ask, PromisesOnce(a, mb, W, ask),
         NEW p \in Promise, p \notin DOMAIN ask, NEW x
  PROVE  PromisesOnce(a, Append(mb, ForceSync(p)), W, With(ask, p, x))
<1> DEFINE u == Append(mb, ForceSync(p))
           f == With(ask, p, x)
<1>1. ForceSync(p) \in Message /\ ForceSync(p).kind = "sync" /\ ForceSync(p).promise = p
  BY MessageIs
<1>2. /\ DOMAIN u = 1..Len(mb) + 1 /\ DOMAIN mb = 1..Len(mb) /\ Len(mb) \in Nat
      /\ \A i \in 1..Len(mb) : u[i] = mb[i]
      /\ u[Len(mb) + 1] = ForceSync(p)
  BY <1>1, MailAppend
<1>3. DOMAIN f = DOMAIN ask \cup {p}
  BY WithAt
<1> HIDE DEF u, f
<1>4. \A i \in 1..Len(mb) + 1 : i \in 1..Len(mb) \/ i = Len(mb) + 1
  BY <1>2
<1>5. \A i : IsSync(u, i) <=> IsSync(mb, i) \/ i = Len(mb) + 1
  BY <1>1, <1>2, <1>4 DEF IsSync
<1>6. \A i : IsSync(mb, i) => u[i] = mb[i]
  BY <1>2 DEF IsSync
<1>7. Asking(u) = Asking(mb) \cup {p}
  BY <1>1, <1>2, <1>5, <1>6, PromiseAt
<1>8. \A i : IsSync(mb, i) => mb[i].promise \in DOMAIN ask /\ i \in DOMAIN mb
  BY PromiseAt DEF PromisesOnce, IsSync
<1>9. \A i, j \in DOMAIN u :
        IsSync(u, i) /\ IsSync(u, j) /\ u[i].promise = u[j].promise => i = j
  <2> TAKE i, j \in DOMAIN u
  <2>1. \A k, l \in DOMAIN mb :
          IsSync(mb, k) /\ IsSync(mb, l) /\ mb[k].promise = mb[l].promise => k = l
    BY DEF PromisesOnce
  <2> QED
    BY <1>1, <1>2, <1>5, <1>6, <1>8, <2>1
<1>10. PromisesOnce(a, u, W, f)
  BY <1>3, <1>7, <1>9 DEF PromisesOnce
<1> QED
  BY <1>10 DEF u, f

\* A sync asked for now covers what its numbers reach.
LEMMA ReachedForce ==
  ASSUME NEW q \in Nat, NEW a, a.begin \in 1..q,
         NEW mb \in Seq(Message), NEW W,
         NEW ask, NEW at, Reached(a, mb, W, q, ask, at), PromisesOnce(a, mb, W, ask),
         NEW p \in Promise, p \notin DOMAIN ask, NEW x,
         NEW n \in 0..q - 1, x <= Moment(at, a.begin, n),
         n < a.begin \/ \E w \in a.pending \cup MailParts(mb) : w.seq = n
  PROVE  Reached(a, Append(mb, ForceSync(p)), W, q, With(ask, p, x), at)
<1> DEFINE u == Append(mb, ForceSync(p))
           f == With(ask, p, x)
<1>1. ForceSync(p) \in Message /\ ForceSync(p).kind = "sync" /\ ForceSync(p).promise = p
  BY MessageIs
<1>2. /\ DOMAIN u = 1..Len(mb) + 1 /\ DOMAIN mb = 1..Len(mb) /\ Len(mb) \in Nat
      /\ \A i \in 1..Len(mb) : u[i] = mb[i]
      /\ u[Len(mb) + 1] = ForceSync(p)
      /\ \A i \in 1..Len(mb) : Earlier(u, i) = Earlier(mb, i)
      /\ Earlier(u, Len(mb) + 1) = MailParts(mb)
  BY <1>1, MailAppend
<1>3. f[p] = x /\ \A r \in DOMAIN ask : f[r] = ask[r]
  BY DEF With
<1> HIDE DEF u, f
<1>4. \A r \in a.promises \cup Waiting(a) \cup Asking(mb) \cup Carried(W) : f[r] = ask[r]
  BY <1>3 DEF PromisesOnce
<1>5. \A r \in a.promises : f[r] <= at[a.begin - 1]
  BY <1>4 DEF Reached
<1>6. \A w \in a.waits : w.seq < q /\ f[w.promise] <= Moment(at, a.begin, w.seq)
  <2>1. \A w \in a.waits : w.promise \in Waiting(a)
    BY PromiseAt
  <2> QED
    BY <1>4, <2>1 DEF Reached
<1>7. \A w \in W : w.promise # Nothing => f[w.promise] <= at[w.seq]
  <2>1. \A w \in W : w.promise # Nothing => w.promise \in Carried(W)
    BY PromiseAt
  <2> QED
    BY <1>4, <2>1 DEF Reached
<1>8. \A i \in DOMAIN u : IsSync(u, i) =>
        \E k \in 0..q - 1 :
          /\ f[u[i].promise] <= Moment(at, a.begin, k)
          /\ k < a.begin \/ \E w \in a.pending \cup Earlier(u, i) : w.seq = k
  <2> TAKE i \in DOMAIN u
  <2> HAVE IsSync(u, i)
  <2>1. CASE i \in 1..Len(mb)
    <3>1. IsSync(mb, i) /\ u[i] = mb[i] /\ Earlier(u, i) = Earlier(mb, i)
      BY <1>2, <2>1 DEF IsSync
    <3>2. mb[i].promise \in Asking(mb)
      BY <3>1, PromiseAt
    <3>3. f[mb[i].promise] = ask[mb[i].promise]
      BY <1>4, <3>2
    <3>4. \E k \in 0..q - 1 :
            /\ ask[mb[i].promise] <= Moment(at, a.begin, k)
            /\ k < a.begin \/ \E w \in a.pending \cup Earlier(mb, i) : w.seq = k
      BY <1>2, <2>1, <3>1 DEF Reached
    <3> QED
      BY <3>1, <3>3, <3>4
  <2>2. CASE i = Len(mb) + 1
    <3>1. u[i].promise = p /\ Earlier(u, i) = MailParts(mb)
      BY <1>1, <1>2, <2>2
    <3> QED
      BY <1>3, <3>1
  <2> QED
    BY <1>2, <2>1, <2>2
<1>9. Reached(a, u, W, q, f, at)
  BY <1>5, <1>6, <1>7, <1>8 DEF Reached
<1> QED
  BY <1>9 DEF u, f

\* lazy_sync() takes a number for a promise.
LEMMA OnceLazy ==
  ASSUME NEW a, NEW mb, NEW W, NEW ask, PromisesOnce(a, mb, W, ask),
         NEW w, w.promise \in Promise, w.promise \notin DOMAIN ask, NEW x
  PROVE  PromisesOnce(a, mb, W \cup {w}, With(ask, w.promise, x))
<1> DEFINE p == w.promise
           V == W \cup {w}
           f == With(ask, w.promise, x)
<1>1. DOMAIN f = DOMAIN ask \cup {p}
  BY WithAt
<1>2. p # Nothing
  BY BinlogAssumption
<1>3. Carried(V) = Carried(W) \cup {p}
  <2>1. \A r : r \in Carried(V) <=> r \in Carried(W) \/ r = p
    BY <1>2 DEF Carried
  <2> QED
    BY <2>1
<1>4. \A v \in W : v.promise # p
  <2>1. \A v \in W : v.promise # Nothing => v.promise \in Carried(W)
    BY DEF Carried
  <2> QED
    BY <1>2, <2>1 DEF PromisesOnce
<1>5. \A u, v \in V : u.promise = v.promise /\ u.promise # Nothing => u = v
  BY <1>4 DEF PromisesOnce
<1> HIDE DEF V, f, p
<1>6. p \notin DOMAIN ask
  BY DEF p
<1>7. PromisesOnce(a, mb, V, f)
  BY <1>1, <1>3, <1>5, <1>6 DEF PromisesOnce
<1> QED
  BY <1>7 DEF V, f

\* A promise in its turn covers what is before it.
LEMMA ReachedLazy ==
  ASSUME NEW q \in Nat, NEW a, a.begin \in 1..q, a.waits \subseteq [seq : Nat, promise : Promise],
         NEW mb, NEW W, \A v \in W : v.seq \in a.begin..q - 1,
         NEW ask, NEW at, Reached(a, mb, W, q, ask, at), PromisesOnce(a, mb, W, ask),
         NEW w, w.promise \in Promise, w.promise \notin DOMAIN ask, w.seq = q,
         NEW at2, \A n \in a.begin - 1..q - 1 : at2[n] = at[n],
         NEW x, x <= at2[q]
  PROVE  Reached(a, mb, W \cup {w}, q + 1, With(ask, w.promise, x), at2)
<1> DEFINE V == W \cup {w}
           f == With(ask, w.promise, x)
<1>1. f[w.promise] = x /\ \A r \in DOMAIN ask : f[r] = ask[r]
  BY DEF With
<1> HIDE DEF V, f
<1>2. \A n \in 0..q - 1 : Moment(at2, a.begin, n) = Moment(at, a.begin, n)
  BY DEF Moment
<1>3. \A r \in a.promises \cup Waiting(a) \cup Asking(mb) \cup Carried(W) : f[r] = ask[r]
  BY <1>1 DEF PromisesOnce
<1>4. \A r \in a.promises : f[r] <= at2[a.begin - 1]
  BY <1>3 DEF Reached
<1>5. \A v \in a.waits : v.seq < q + 1 /\ f[v.promise] <= Moment(at2, a.begin, v.seq)
  <2> TAKE v \in a.waits
  <2>1. v.seq \in Nat /\ v.seq < q /\ ask[v.promise] <= Moment(at, a.begin, v.seq)
    BY DEF Reached
  <2>2. v.seq \in 0..q - 1 /\ v.seq < q + 1
    BY <2>1
  <2>3. f[v.promise] = ask[v.promise]
    BY <1>3, PromiseAt
  <2> QED
    BY <1>2, <2>1, <2>2, <2>3
<1>6. \A v \in V : v.promise # Nothing => f[v.promise] <= at2[v.seq]
  <2>1. ASSUME NEW v \in W, v.promise # Nothing
        PROVE  f[v.promise] <= at2[v.seq]
    <3>1. f[v.promise] = ask[v.promise]
      BY <1>3, <2>1, PromiseAt
    <3> QED
      BY <2>1, <3>1 DEF Reached
  <2> QED
    BY <1>1, <2>1 DEF V
<1>7. \A i \in DOMAIN mb : IsSync(mb, i) =>
        \E n \in 0..q + 1 - 1 :
          /\ f[mb[i].promise] <= Moment(at2, a.begin, n)
          /\ n < a.begin \/ \E v \in a.pending \cup Earlier(mb, i) : v.seq = n
  <2> TAKE i \in DOMAIN mb
  <2> HAVE IsSync(mb, i)
  <2>1. PICK n \in 0..q - 1 :
          /\ ask[mb[i].promise] <= Moment(at, a.begin, n)
          /\ n < a.begin \/ \E v \in a.pending \cup Earlier(mb, i) : v.seq = n
    BY DEF Reached
  <2>2. n \in 0..q + 1 - 1
    OBVIOUS
  <2>3. f[mb[i].promise] = ask[mb[i].promise]
    BY <1>3, PromiseAt
  <2> QED
    BY <1>2, <2>1, <2>2, <2>3
<1>8. Reached(a, mb, V, q + 1, f, at2)
  BY <1>4, <1>5, <1>6, <1>7 DEF Reached
<1> QED
  BY <1>8 DEF V, f

\* The promises of the actor, of its mailbox and of the parts on the way:
\* the actor takes the first message.
SyncOf(m) == IF m.kind = "sync" THEN {m.promise} ELSE {}

\* Which syncs are asked for once a message is taken.
LEMMA TailSyncs ==
  ASSUME NEW mb \in Seq(Message), mb # <<>>
  PROVE  /\ Asking(mb) = SyncOf(Head(mb)) \cup Asking(Tail(mb))
         /\ \A i : IsSync(Tail(mb), i) <=> IsSync(mb, i + 1) /\ i \in 1..Len(mb) - 1
         /\ \A i \in 1..Len(mb) - 1 : Tail(mb)[i] = mb[i + 1]
         /\ IsSync(mb, 1) <=> Head(mb).kind = "sync"
<1> DEFINE n == Len(mb)
           m == Head(mb)
           t == Tail(mb)
<1>1. /\ n \in Nat \ {0} /\ DOMAIN mb = 1..n /\ DOMAIN t = 1..n - 1 /\ m = mb[1]
      /\ \A i \in 1..n - 1 : t[i] = mb[i + 1]
  BY MailTail
<1> HIDE DEF n, m, t
<1>2. \A i : IsSync(t, i) <=> IsSync(mb, i + 1) /\ i \in 1..n - 1
  <2>1. \A i \in 1..n - 1 : i + 1 \in 1..n
    BY <1>1
  <2> QED
    BY <1>1, <2>1 DEF IsSync
<1>3. IsSync(mb, 1) <=> m.kind = "sync"
  BY <1>1 DEF IsSync
<1>4. ASSUME NEW r
      PROVE  r \in Asking(mb) <=> r \in SyncOf(m) \/ r \in Asking(t)
  <2>1. ASSUME r \in Asking(mb)
        PROVE  r \in SyncOf(m) \/ r \in Asking(t)
    <3>1. PICK i : IsSync(mb, i) /\ mb[i].promise = r
      BY <2>1, PromiseAt
    <3>2. i \in 1..n
      BY <1>1, <3>1 DEF IsSync
    <3>3. CASE i = 1
      BY <1>1, <1>3, <3>1, <3>3 DEF SyncOf
    <3>4. CASE i # 1
      <4>1. i - 1 \in 1..n - 1 /\ i - 1 + 1 = i
        BY <1>1, <3>2, <3>4
      <4>2. IsSync(t, i - 1) /\ t[i - 1] = mb[i]
        BY <1>1, <1>2, <3>1, <4>1
      <4> QED
        BY <3>1, <4>2, PromiseAt
    <3> QED
      BY <3>3, <3>4
  <2>2. ASSUME r \in SyncOf(m)
        PROVE  r \in Asking(mb)
    <3>1. m.kind = "sync" /\ m.promise = r
      BY <2>2 DEF SyncOf
    <3>2. IsSync(mb, 1) /\ mb[1].promise = r
      BY <1>1, <1>3, <3>1
    <3> QED
      BY <3>2, PromiseAt
  <2>3. ASSUME r \in Asking(t)
        PROVE  r \in Asking(mb)
    <3>1. PICK i : IsSync(t, i) /\ t[i].promise = r
      BY <2>3, PromiseAt
    <3>2. IsSync(mb, i + 1) /\ mb[i + 1].promise = r
      BY <1>1, <1>2, <3>1
    <3> QED
      BY <3>2, PromiseAt
  <2> QED
    BY <2>1, <2>2, <2>3
<1>5. Asking(mb) = SyncOf(m) \cup Asking(t)
  BY <1>4
<1> QED
  BY <1>1, <1>2, <1>3, <1>5 DEF n, m, t

\* Promises stay apart when a message of events is taken.
LEMMA OnceTail ==
  ASSUME NEW a, NEW mb \in Seq(Message), mb # <<>>, NEW W, NEW ask, PromisesOnce(a, mb, W, ask)
  PROVE  /\ PromisesOnce(a, Tail(mb), W, ask)
         /\ SyncOf(Head(mb)) \subseteq DOMAIN ask
         /\ SyncOf(Head(mb)) \cap
              (a.promises \cup Waiting(a) \cup Asking(Tail(mb)) \cup Carried(W)) = {}
<1> DEFINE t == Tail(mb)
           n == Len(mb)
<1>1. /\ Asking(mb) = SyncOf(Head(mb)) \cup Asking(t)
      /\ \A i : IsSync(t, i) <=> IsSync(mb, i + 1) /\ i \in 1..n - 1
      /\ \A i \in 1..n - 1 : t[i] = mb[i + 1]
      /\ IsSync(mb, 1) <=> Head(mb).kind = "sync"
  BY TailSyncs
<1>2. n \in Nat \ {0} /\ DOMAIN mb = 1..n /\ DOMAIN t = 1..n - 1 /\ Head(mb) = mb[1]
  BY MailTail
<1> HIDE DEF t, n
<1>3. \A i, j \in DOMAIN mb : IsSync(mb, i) /\ IsSync(mb, j) /\ mb[i].promise = mb[j].promise => i = j
  BY DEF PromisesOnce
<1>4. \A i, j \in DOMAIN t : IsSync(t, i) /\ IsSync(t, j) /\ t[i].promise = t[j].promise => i = j
  <2> TAKE i, j \in DOMAIN t
  <2>1. i + 1 \in DOMAIN mb /\ j + 1 \in DOMAIN mb /\ t[i] = mb[i + 1] /\ t[j] = mb[j + 1]
    BY <1>1, <1>2
  <2>2. IsSync(t, i) /\ IsSync(t, j) /\ t[i].promise = t[j].promise => i + 1 = j + 1
    BY <1>1, <1>3, <2>1
  <2> QED
    BY <1>2, <2>2
<1>5. PromisesOnce(a, t, W, ask)
  BY <1>1, <1>4 DEF PromisesOnce
<1>6. SyncOf(Head(mb)) \cap Asking(t) = {}
  <2> SUFFICES ASSUME NEW r \in SyncOf(Head(mb)), r \in Asking(t)
               PROVE  FALSE
    OBVIOUS
  <2>1. IsSync(mb, 1) /\ mb[1].promise = r
    BY <1>1, <1>2 DEF SyncOf
  <2>2. PICK i : IsSync(t, i) /\ t[i].promise = r
    BY PromiseAt
  <2>3. IsSync(mb, i + 1) /\ mb[i + 1].promise = r /\ i \in 1..n - 1
    BY <1>1, <2>2
  <2>4. i + 1 = 1
    BY <1>3, <2>1, <2>3 DEF IsSync
  <2> QED
    BY <2>3, <2>4
<1>7. /\ SyncOf(Head(mb)) \subseteq DOMAIN ask
      /\ SyncOf(Head(mb)) \cap (a.promises \cup Waiting(a) \cup Carried(W)) = {}
  BY <1>1 DEF PromisesOnce
<1> QED
  BY <1>5, <1>6, <1>7 DEF t

\* What has come stays reached when the first message is taken.
LEMMA ReachedTail ==
  ASSUME NEW a, NEW mb \in Seq(Message), mb # <<>>, NEW W, NEW q, NEW ask, NEW at,
         Reached(a, mb, W, q, ask, at),
         NEW b, b.begin = a.begin, b.promises = a.promises, b.waits = a.waits,
         b.pending = a.pending \cup PartsOf(Head(mb))
  PROVE  Reached(b, Tail(mb), W, q, ask, at)
<1> DEFINE t == Tail(mb)
           n == Len(mb)
           P == PartsOf(Head(mb))
<1>1. /\ \A i : IsSync(t, i) <=> IsSync(mb, i + 1) /\ i \in 1..n - 1
      /\ \A i \in 1..n - 1 : t[i] = mb[i + 1]
  BY TailSyncs
<1>2. /\ n \in Nat \ {0} /\ DOMAIN mb = 1..n /\ DOMAIN t = 1..n - 1
      /\ \A i \in 1..n - 1 : Earlier(mb, i + 1) = P \cup Earlier(t, i)
  BY MailTail
<1> HIDE DEF t, n, P
<1>3. b.pending = a.pending \cup P
  BY DEF P
<1>4. \A i \in DOMAIN t : IsSync(t, i) =>
        \E k \in 0..q - 1 :
          /\ ask[t[i].promise] <= Moment(at, b.begin, k)
          /\ k < b.begin \/ \E w \in b.pending \cup Earlier(t, i) : w.seq = k
  <2> TAKE i \in DOMAIN t
  <2> HAVE IsSync(t, i)
  <2>1. /\ IsSync(mb, i + 1) /\ t[i] = mb[i + 1] /\ i + 1 \in DOMAIN mb
        /\ Earlier(mb, i + 1) = P \cup Earlier(t, i)
    BY <1>1, <1>2
  <2>2. PICK k \in 0..q - 1 :
          /\ ask[mb[i + 1].promise] <= Moment(at, a.begin, k)
          /\ k < a.begin \/ \E w \in a.pending \cup Earlier(mb, i + 1) : w.seq = k
    BY <2>1 DEF Reached
  <2>3. \A w \in a.pending \cup Earlier(mb, i + 1) : w \in b.pending \cup Earlier(t, i)
    BY <1>3, <2>1
  <2> QED
    BY <2>1, <2>2, <2>3
<1>5. Reached(b, t, W, q, ask, at)
  BY <1>4 DEF Reached
<1> QED
  BY <1>5 DEF t

\* A later number is not before the moment of an earlier one.
LEMMA MomentGrows ==
  ASSUME NEW q \in Nat, NEW b \in 1..q, NEW W, NEW ln, NEW ms, NEW at, Chain(W, b, q, ln, ms, at),
         NEW n \in 0..q - 1, NEW m \in n..q - 1
  PROVE  /\ Moment(at, b, n) \in 1..Len(ln)
         /\ Moment(at, b, n) <= Moment(at, b, m)
<1>1. m \in 0..q - 1
  OBVIOUS
<1>2. \A i \in b - 1..q - 1 : at[i] \in 1..Len(ln)
  BY DEF Chain
<1>3. \A i, j \in b - 1..q - 1 : i <= j => at[i] <= at[j]
  BY Zenon DEF Chain
<1>4. PICK i \in b - 1..q - 1 : i = IF n < b THEN b - 1 ELSE n
  OBVIOUS
<1>5. PICK j \in b - 1..q - 1 : j = IF m < b THEN b - 1 ELSE m
  BY <1>1
<1>6. i <= j
  BY <1>4, <1>5
<1>7. Moment(at, b, n) = at[i] /\ Moment(at, b, m) = at[j]
  BY <1>4, <1>5 DEF Moment
<1> QED
  BY <1>2, <1>3, <1>6, <1>7

\* The greatest number that has come.
LEMMA Unfinished ==
  ASSUME NEW a, NEW mb, NEW sd, NEW q, Numbered(a, mb, sd, q)
  PROVE  /\ MaxUnfinished(a) \in a.begin - 1..q - 1
         /\ \A w \in a.pending : w.seq <= MaxUnfinished(a)
<1>1. q \in Nat /\ a.begin \in 1..q
  BY DEF Numbered
<1>2. \A w \in a.pending : w.seq \in a.begin..q - 1
  BY DEF Numbered, Way
<1> DEFINE S == {a.begin - 1} \cup {w.seq : w \in a.pending}
<1>3. S \in SUBSET (0..q - 1) /\ S # {} /\ q - 1 \in Nat
  BY <1>1, <1>2
<1>4. MaxUnfinished(a) = Max(S)
  BY DEF MaxUnfinished
<1>5. a.begin - 1 \in S /\ \A w \in a.pending : w.seq \in S
  OBVIOUS
<1> HIDE DEF S
<1>6. Max(S) \in S /\ \A i \in S : i <= Max(S)
  BY <1>3, MaxOf
<1>7. Max(S) \in 0..q - 1 /\ a.begin - 1 <= Max(S)
  BY <1>3, <1>5, <1>6
<1> QED
  BY <1>1, <1>4, <1>5, <1>6, <1>7

\* A promise that comes by the mailbox is for no more than what has come.
LEMMA SyncArrives ==
  ASSUME NEW a, NEW mb, NEW sd, NEW q, Numbered(a, mb, sd, q), mb # <<>>, Head(mb).kind = "sync",
         NEW ln, Len(ln) \in Nat, NEW ms, NEW at, Chain(Way(a, mb, sd), a.begin, q, ln, ms, at),
         NEW ask, ask[Head(mb).promise] \in Nat, NEW W, Reached(a, mb, W, q, ask, at)
  PROVE  ask[Head(mb).promise] <= Moment(at, a.begin, MaxUnfinished(a))
<1>1. q \in Nat /\ a.begin \in 1..q /\ mb \in Seq(Message)
  BY DEF Numbered
<1> DEFINE u == MaxUnfinished(a)
<1>2. u \in a.begin - 1..q - 1 /\ \A w \in a.pending : w.seq <= u
  BY Unfinished
<1> HIDE DEF u
<1>3. IsSync(mb, 1) /\ mb[1] = Head(mb) /\ Earlier(mb, 1) = {} /\ 1 \in DOMAIN mb
  BY <1>1, TailSyncs, MailTail DEF IsSync
<1>4. PICK n \in 0..q - 1 : /\ ask[mb[1].promise] <= Moment(at, a.begin, n)
                            /\ n < a.begin \/ \E w \in a.pending \cup Earlier(mb, 1) : w.seq = n
  BY <1>3, Zenon DEF Reached
<1>5. CASE n <= u
  <2>1. u \in n..q - 1
    BY <1>1, <1>2, <1>5
  <2>2. /\ Moment(at, a.begin, n) \in 1..Len(ln)
        /\ Moment(at, a.begin, n) <= Moment(at, a.begin, u)
    BY <1>1, <2>1, MomentGrows
  <2>3. Moment(at, a.begin, u) \in 1..Len(ln)
    <3>1. u \in 0..q - 1 /\ u \in u..q - 1
      BY <1>1, <1>2
    <3> QED
      BY <1>1, <3>1, MomentGrows
  <2> QED
    BY <1>3, <1>4, <2>2, <2>3 DEF u
<1>6. CASE ~(n <= u)
  <2>1. n < a.begin
    BY <1>2, <1>3, <1>4, <1>6
  <2>2. u = a.begin - 1 /\ u < a.begin
    BY <1>1, <1>2, <1>6, <2>1
  <2>3. Moment(at, a.begin, u) = Moment(at, a.begin, n)
    BY <2>1, <2>2 DEF Moment
  <2> QED
    BY <1>3, <1>4, <2>3 DEF u
<1> QED
  BY <1>5, <1>6

\* Promises come to those that wait for the sync, some of them from those
\* that wait for a number.
LEMMA Promised ==
  ASSUME NEW a, NEW mb, NEW W, NEW q, NEW ask, NEW at,
         PromisesOnce(a, mb, W, ask), Reached(a, mb, W, q, ask, at),
         NEW S \in SUBSET DOMAIN ask, \A p \in S : ask[p] <= at[a.begin - 1],
         NEW b, b.begin = a.begin, b.pending = a.pending, b.waits \subseteq a.waits,
         b.promises = a.promises \cup S,
         S \cap (Waiting(b) \cup Asking(mb) \cup Carried(W)) = {}
  PROVE  PromisesOnce(b, mb, W, ask) /\ Reached(b, mb, W, q, ask, at)
<1>1. Waiting(b) \subseteq Waiting(a)
  BY DEF Waiting
<1>2. PromisesOnce(b, mb, W, ask)
  <2>1. /\ b.promises \cup Waiting(b) \cup Asking(mb) \cup Carried(W) \subseteq DOMAIN ask
        /\ b.promises \cap (Waiting(b) \cup Asking(mb) \cup Carried(W)) = {}
        /\ Waiting(b) \cap (Asking(mb) \cup Carried(W)) = {}
        /\ Asking(mb) \cap Carried(W) = {}
    BY <1>1 DEF PromisesOnce
  <2> QED
    BY <2>1, Zenon DEF PromisesOnce
<1>3. Reached(b, mb, W, q, ask, at)
  <2>1. \A p \in b.promises : ask[p] <= at[b.begin - 1]
    BY DEF Reached
  <2>2. \A w \in b.waits : w.seq < q /\ ask[w.promise] <= Moment(at, b.begin, w.seq)
    BY Zenon DEF Reached
  <2>3. \A w \in W : w.promise # Nothing => ask[w.promise] <= at[w.seq]
    BY Zenon DEF Reached
  <2>4. \A i \in DOMAIN mb : IsSync(mb, i) =>
       \E n \in 0..q - 1 :
         /\ ask[mb[i].promise] <= Moment(at, b.begin, n)
         /\ n < b.begin \/ \E w \in b.pending \cup Earlier(mb, i) : w.seq = n
    BY Zenon DEF Reached
  <2> QED
    BY <2>1, <2>2, <2>3, <2>4, Zenon DEF Reached
<1> QED
  BY <1>2, <1>3

\* A part has had its turn.
LEMMA OnceRun ==
  ASSUME NEW a, NEW mb, NEW W, NEW ask, PromisesOnce(a, mb, W, ask), NEW w \in W,
         NEW b, b.promises = a.promises, b.waits = a.waits
  PROVE  /\ PromisesOnce(b, mb, W \ {w}, ask)
         /\ {w.promise} \ {Nothing} \subseteq DOMAIN ask
         /\ ({w.promise} \ {Nothing}) \cap
              (Waiting(b) \cup Asking(mb) \cup Carried(W \ {w})) = {}
<1> DEFINE V == W \ {w}
<1>1. Waiting(b) = Waiting(a)
  BY DEF Waiting
<1>2. Carried(V) \subseteq Carried(W) /\ {w.promise} \ {Nothing} \subseteq Carried(W)
  BY DEF Carried
<1>3. \A v \in V : v \in W /\ v # w
  OBVIOUS
<1>4. \A v, u \in W : v.promise = u.promise /\ v.promise # Nothing => v = u
  BY DEF PromisesOnce
<1>5. w.promise # Nothing => w.promise \notin Carried(V)
  BY <1>3, <1>4 DEF Carried
<1>6. /\ \A v, u \in V : v.promise = u.promise /\ v.promise # Nothing => v = u
      /\ \A v, u \in b.waits : v.promise = u.promise => v = u
      /\ \A i, j \in DOMAIN mb : IsSync(mb, i) /\ IsSync(mb, j) /\ mb[i].promise = mb[j].promise => i = j
  BY <1>3, <1>4 DEF PromisesOnce
<1>7. /\ a.promises \cup Waiting(a) \cup Asking(mb) \cup Carried(W) \subseteq DOMAIN ask
      /\ a.promises \cap (Waiting(a) \cup Asking(mb) \cup Carried(W)) = {}
      /\ Waiting(a) \cap (Asking(mb) \cup Carried(W)) = {}
      /\ Asking(mb) \cap Carried(W) = {}
  BY DEF PromisesOnce
<1> HIDE DEF V
<1>8. PromisesOnce(b, mb, V, ask)
  BY <1>1, <1>2, <1>6, <1>7 DEF PromisesOnce
<1>9. ({w.promise} \ {Nothing}) \cap (Waiting(b) \cup Asking(mb) \cup Carried(V)) = {}
  BY <1>1, <1>2, <1>5, <1>7
<1> QED
  BY <1>2, <1>7, <1>8, <1>9 DEF V

\* The turn of a number has come: what is reached by it, is.
LEMMA ReachedRun ==
  ASSUME NEW a, NEW mb, NEW sd, NEW q, Numbered(a, mb, sd, q),
         NEW W, W = Way(a, mb, sd), NEW w \in W, w.seq = a.begin, a.begin < q,
         a.waits \subseteq [seq : Nat, promise : Promise],
         NEW ln, Len(ln) \in Nat, NEW ms, NEW at, Chain(W, a.begin, q, ln, ms, at),
         NEW ask, \A p \in DOMAIN ask : ask[p] \in Nat, PromisesOnce(a, mb, W, ask),
         Reached(a, mb, W, q, ask, at),
         NEW b, b.begin = a.begin + 1, b.pending = a.pending \ {w},
         b.promises = a.promises, b.waits = a.waits
  PROVE  /\ Reached(b, mb, W \ {w}, q, ask, at)
         /\ w.promise # Nothing => ask[w.promise] <= at[b.begin - 1]
<1>1. q \in Nat /\ a.begin \in 1..q /\ b.begin \in 1..q /\ b.begin - 1 = a.begin
  BY DEF Numbered
<1>2. \A i \in a.begin - 1..q - 1 : at[i] \in 1..Len(ln)
  BY DEF Chain
<1>3. \A i, j \in a.begin - 1..q - 1 : i <= j => at[i] <= at[j]
  BY Zenon DEF Chain
<1>4. a.begin \in a.begin - 1..q - 1 /\ a.begin - 1 \in a.begin - 1..q - 1 /\ a.begin - 1 <= a.begin
  BY <1>1
<1>5. at[a.begin - 1] <= at[a.begin] /\ at[a.begin - 1] \in Int /\ at[a.begin] \in Int
  BY <1>2, <1>3, <1>4
<1>6. \A n \in 0..q - 1 : /\ Moment(at, a.begin, n) \in Int /\ Moment(at, b.begin, n) \in Int
                          /\ Moment(at, a.begin, n) <= Moment(at, b.begin, n)
  <2> TAKE n \in 0..q - 1
  <2>1. CASE n < a.begin
    <3>1. n < b.begin
      BY <1>1, <2>1
    <3>2. Moment(at, a.begin, n) = at[a.begin - 1] /\ Moment(at, b.begin, n) = at[a.begin]
      BY <1>1, <2>1, <3>1 DEF Moment
    <3> QED
      BY <1>5, <3>2
  <2>2. CASE ~(n < a.begin)
    <3>1. n \in a.begin - 1..q - 1
      BY <1>1, <2>2
    <3>2. n < b.begin => n = a.begin
      BY <1>1, <2>2
    <3>3. Moment(at, a.begin, n) = at[n] /\ Moment(at, b.begin, n) = at[n]
      BY <1>1, <2>2, <3>2 DEF Moment
    <3> QED
      BY <1>2, <3>1, <3>3
  <2> QED
    BY <2>1, <2>2
<1>7. \A p \in b.promises : ask[p] <= at[b.begin - 1]
  <2> TAKE p \in b.promises
  <2>1. p \in DOMAIN ask /\ ask[p] <= at[a.begin - 1]
    BY DEF PromisesOnce, Reached
  <2> QED
    BY <1>1, <1>5, <2>1
<1>8. \A v \in b.waits : v.seq < q /\ ask[v.promise] <= Moment(at, b.begin, v.seq)
  <2> TAKE v \in b.waits
  <2>1. v.seq < q /\ ask[v.promise] <= Moment(at, a.begin, v.seq) /\ v.seq \in Nat
    BY DEF Reached
  <2>2. v.promise \in DOMAIN ask
    BY DEF PromisesOnce, Waiting
  <2>3. v.seq \in 0..q - 1
    BY <1>1, <2>1
  <2> QED
    BY <1>6, <2>1, <2>2, <2>3
<1>9. \A v \in W \ {w} : v.promise # Nothing => ask[v.promise] <= at[v.seq]
  BY DEF Reached
<1>10. w.promise # Nothing => ask[w.promise] <= at[b.begin - 1]
  BY <1>1 DEF Reached
<1>11. \A i \in DOMAIN mb : IsSync(mb, i) =>
         \E n \in 0..q - 1 :
           /\ ask[mb[i].promise] <= Moment(at, b.begin, n)
           /\ n < b.begin \/ \E v \in b.pending \cup Earlier(mb, i) : v.seq = n
  <2> TAKE i \in DOMAIN mb
  <2> HAVE IsSync(mb, i)
  <2>1. PICK n \in 0..q - 1 :
          /\ ask[mb[i].promise] <= Moment(at, a.begin, n)
          /\ n < a.begin \/ \E v \in a.pending \cup Earlier(mb, i) : v.seq = n
    BY Zenon DEF Reached
  <2>2. mb[i].promise \in DOMAIN ask
    BY PromiseAt DEF PromisesOnce
  <2>3. ask[mb[i].promise] <= Moment(at, b.begin, n)
    BY <1>6, <2>1, <2>2
  <2>4. n < b.begin \/ \E v \in b.pending \cup Earlier(mb, i) : v.seq = n
    <3>1. CASE n < a.begin
      BY <1>1, <3>1
    <3>2. CASE ~(n < a.begin)
      <4>1. PICK v \in a.pending \cup Earlier(mb, i) : v.seq = n
        BY <2>1, <3>2
      <4>2. v = w => n < b.begin
        BY <1>1, <4>1
      <4>3. v # w => v \in b.pending \cup Earlier(mb, i)
        BY <4>1
      <4> QED
        BY <4>1, <4>2, <4>3
    <3> QED
      BY <3>1, <3>2
  <2> QED
    BY <2>3, <2>4
<1>12. Reached(b, mb, W \ {w}, q, ask, at)
  <2> DEFINE V == W \ {w}
  <2>1. \A v \in V : v.promise # Nothing => ask[v.promise] <= at[v.seq]
    BY <1>9
  <2> HIDE DEF V
  <2>2. Reached(b, mb, V, q, ask, at)
    BY <1>7, <1>8, <1>11, <2>1, Zenon DEF Reached
  <2> QED
    BY <2>2 DEF V
<1> QED
  BY <1>10, <1>12

\* The promises that waited for the sync are kept, and moments are over.
LEMMA OnceKept ==
  ASSUME NEW a, NEW mb, NEW W, NEW ask, PromisesOnce(a, mb, W, ask),
         NEW ask2, DOMAIN ask2 = DOMAIN ask \ a.promises,
         NEW b, b.promises = {}, b.waits = a.waits
  PROVE  PromisesOnce(b, mb, W, ask2)
<1>1. Waiting(b) = Waiting(a)
  BY DEF Waiting
<1> QED
  BY <1>1 DEF PromisesOnce

Older(ask, ask2, S, n) ==
  DOMAIN ask2 = DOMAIN ask \ S /\ \A p \in DOMAIN ask \ S : ask2[p] = After(ask[p], n)

\* What was asked for stays reached when the line is cut.
LEMMA ReachedKept ==
  ASSUME NEW q \in Nat, NEW a, a.begin \in 1..q, a.waits \subseteq [seq : Nat, promise : Promise],
         NEW mb, NEW W, \A w \in W : w.seq \in a.begin..q - 1,
         NEW ask, \A p \in DOMAIN ask : ask[p] \in Nat, PromisesOnce(a, mb, W, ask),
         NEW at, Reached(a, mb, W, q, ask, at),
         NEW n \in Nat \ {0}, \A i \in a.begin - 1..q - 1 : at[i] \in Nat /\ n <= at[i],
         NEW at2, Moved(at, at2, a.begin, q, n), NEW ask2, Older(ask, ask2, a.promises, n),
         NEW b, b.promises = {}, b.waits = a.waits, b.begin = a.begin, b.pending = a.pending
  PROVE  Reached(b, mb, W, q, ask2, at2)
<1> USE DEF Moved, Older
<1>1. \A p \in DOMAIN ask \ a.promises, i \in a.begin - 1..q - 1 :
        ask[p] <= at[i] => ask2[p] <= at2[i]
  <2> TAKE p \in DOMAIN ask \ a.promises, i \in a.begin - 1..q - 1
  <2> HAVE ask[p] <= at[i]
  <2>1. /\ ask2[p] = After(ask[p], n) /\ at2[i] = at[i] - n + 1
        /\ at[i] \in Nat /\ n <= at[i] /\ ask[p] \in Nat
    OBVIOUS
  <2> QED
    BY <2>1 DEF After
<1>2. \A p \in DOMAIN ask \ a.promises, k \in 0..q - 1 :
        ask[p] <= Moment(at, a.begin, k) => ask2[p] <= Moment(at2, b.begin, k)
  <2> TAKE p \in DOMAIN ask \ a.promises, k \in 0..q - 1
  <2> HAVE ask[p] <= Moment(at, a.begin, k)
  <2>1. PICK i \in a.begin - 1..q - 1 : i = IF k < a.begin THEN a.begin - 1 ELSE k
    OBVIOUS
  <2>2. Moment(at, a.begin, k) = at[i] /\ Moment(at2, b.begin, k) = at2[i]
    BY <2>1 DEF Moment
  <2> QED
    BY <1>1, <2>2
<1>3. Waiting(a) \cup Asking(mb) \cup Carried(W) \subseteq DOMAIN ask \ a.promises
  BY DEF PromisesOnce
<1>4. \A w \in b.waits : w.seq < q /\ ask2[w.promise] <= Moment(at2, b.begin, w.seq)
  <2> TAKE w \in b.waits
  <2>1. w.seq < q /\ ask[w.promise] <= Moment(at, a.begin, w.seq) /\ w.seq \in Nat
    BY DEF Reached
  <2>2. w.seq \in 0..q - 1 /\ w.promise \in DOMAIN ask \ a.promises
    BY <1>3, <2>1 DEF Waiting
  <2> QED
    BY <1>2, <2>1, <2>2
<1>5. \A w \in W : w.promise # Nothing => ask2[w.promise] <= at2[w.seq]
  <2> TAKE w \in W
  <2> HAVE w.promise # Nothing
  <2>1. w.promise \in DOMAIN ask \ a.promises /\ w.seq \in a.begin - 1..q - 1
    BY <1>3 DEF Carried
  <2>2. ask[w.promise] <= at[w.seq]
    BY DEF Reached
  <2> QED
    BY <1>1, <2>1, <2>2
<1>6. \A i \in DOMAIN mb : IsSync(mb, i) =>
        \E k \in 0..q - 1 :
          /\ ask2[mb[i].promise] <= Moment(at2, b.begin, k)
          /\ k < b.begin \/ \E w \in b.pending \cup Earlier(mb, i) : w.seq = k
  <2> TAKE i \in DOMAIN mb
  <2> HAVE IsSync(mb, i)
  <2>1. PICK k \in 0..q - 1 :
          /\ ask[mb[i].promise] <= Moment(at, a.begin, k)
          /\ k < a.begin \/ \E w \in a.pending \cup Earlier(mb, i) : w.seq = k
    BY Zenon DEF Reached
  <2>2. mb[i].promise \in DOMAIN ask \ a.promises
    BY <1>3, PromiseAt
  <2> QED
    BY <1>2, <2>1, <2>2
<1> QED
  BY <1>4, <1>5, <1>6 DEF Reached

\* What was asked for stays well-formed when the line is cut.
LEMMA AskedKept ==
  ASSUME NEW ask, NEW ln, NEW st \in Nat, Len(ln) \in Nat, AskedOK(ask, ln, st), NEW S,
         NEW n \in 1..Len(ln), NEW li, Len(li) = Len(ln) - n + 1
  PROVE  AskedOK([p \in DOMAIN ask \ S |-> After(ask[p], n)], li, After(st, n))
<1> DEFINE f == [p \in DOMAIN ask \ S |-> After(ask[p], n)]
<1>1. DOMAIN f = DOMAIN ask \ S /\ f = [p \in DOMAIN f |-> f[p]]
      /\ \A p \in DOMAIN f : f[p] = After(ask[p], n)
  OBVIOUS
<1> HIDE DEF f
<1>2. DOMAIN f \subseteq DOMAIN ask
  BY <1>1
<1>3. \A p \in DOMAIN f : ask[p] \in 1..Len(ln) /\ (ask[p] = 1 \/ ask[p] > st)
  BY <1>2 DEF AskedOK
<1>4. \A p \in DOMAIN f : f[p] \in 1..Len(li) /\ (f[p] = 1 \/ f[p] > After(st, n))
  <2> TAKE p \in DOMAIN f
  <2>1. f[p] = After(ask[p], n) /\ ask[p] \in 1..Len(ln) /\ (ask[p] = 1 \/ ask[p] > st)
    BY <1>1, <1>3
  <2> QED
    BY <2>1 DEF After
<1>5. f \in [DOMAIN f -> 1..Len(li)]
  BY <1>1, <1>4
<1>6. DOMAIN f \subseteq Promise
  BY <1>2 DEF AskedOK
<1>7. AskedOK(f, li, After(st, n))
  BY <1>4, <1>5, <1>6 DEF AskedOK
<1> QED
  BY <1>7 DEF f

(***************************************************************************)
(* The moment that Returned names: everything up to a number that is not   *)
(* held back by a thread.                                                  *)
(***************************************************************************)
Held(sd, h, n) == {w \in sd : w.entry # Nothing /\ w.seq \in h..n}

\* Changes that are held back, one after the other, are a moment each.
LEMMA HeldOne ==
  ASSUME NEW sd \in SUBSET PartOf, \A v, w \in sd : v.seq = w.seq => v = w,
         NEW h \in Nat, NEW n \in Nat, h <= n, NEW w \in sd, w.seq = n,
         IsFiniteSet(Held(sd, h, n - 1))
  PROVE  /\ IsFiniteSet(Held(sd, h, n)) /\ Cardinality(Held(sd, h, n - 1)) \in Nat
         /\ Cardinality(Held(sd, h, n)) =
              Cardinality(Held(sd, h, n - 1)) + IF w.entry = Nothing THEN 0 ELSE 1
<1> DEFINE A == Held(sd, h, n - 1)
           B == Held(sd, h, n)
<1>1. \A v \in sd : v.seq \in Nat
  BY DEF PartOf
<1>2. \A v \in sd : v.seq = n => v = w
  OBVIOUS
<1>3. \A v : v \in B <=> v \in A \/ (v = w /\ w.entry # Nothing)
  BY <1>1, <1>2 DEF Held
<1>4. w \notin A
  BY DEF Held
<1> HIDE DEF A, B
<1>5. IsFiniteSet(A)
  BY DEF A
<1>6. Cardinality(A) \in Nat
  BY <1>5, FS_CardinalityType
<1>7. CASE w.entry = Nothing
  <2>1. B = A
    BY <1>3, <1>7
  <2> QED
    BY <1>5, <1>6, <1>7, <2>1 DEF A, B
<1>8. CASE w.entry # Nothing
  <2>1. B = A \cup {w}
    BY <1>3, <1>8
  <2>2. IsFiniteSet(A \cup {w}) /\ Cardinality(A \cup {w}) = Cardinality(A) + 1
    BY <1>4, <1>5, FS_AddElement
  <2> QED
    BY <1>6, <1>8, <2>1, <2>2 DEF A, B
<1> QED
  BY <1>7, <1>8

HeldSum(sd, h, q, at) ==
  /\ Cardinality(Held(sd, h, q - 1)) \in Nat
  /\ at[q - 1] = at[h - 1] + Cardinality(Held(sd, h, q - 1))

\* When all parts from h on are held, the moments grow by their entries.
LEMMA HeldMoments ==
  ASSUME NEW q \in Nat, NEW b \in 1..q, NEW W, NEW ln, Len(ln) \in Nat, NEW ms, NEW at,
         Chain(W, b, q, ln, ms, at),
         NEW sd \in SUBSET PartOf, sd \subseteq W, \A v, w \in sd : v.seq = w.seq => v = w,
         NEW h \in b..q, \A n \in h..q - 1 : \E w \in sd : w.seq = n
  PROVE  HeldSum(sd, h, q, at)
<1> DEFINE Good(n) == /\ IsFiniteSet(Held(sd, h, n))
                      /\ Cardinality(Held(sd, h, n)) \in Nat
                      /\ at[n] = at[h - 1] + Cardinality(Held(sd, h, n))
           Bad == {n \in h - 1..q - 1 : ~Good(n)}
<1>1. \A n \in b - 1..q - 1 : at[n] \in Nat
  BY DEF Chain
<1>2. Good(h - 1)
  <2>1. Held(sd, h, h - 1) = {}
    BY DEF Held, PartOf
  <2>2. IsFiniteSet({}) /\ Cardinality({}) = 0
    BY FS_EmptySet
  <2>3. at[h - 1] \in Nat
    BY <1>1
  <2>4. at[h - 1] = at[h - 1] + Cardinality({}) /\ Cardinality({}) \in Nat
    BY <2>2, <2>3
  <2> QED
    BY <2>1, <2>2, <2>4
<1>3. Bad = {}
  <2> SUFFICES ASSUME Bad # {} PROVE FALSE
    OBVIOUS
  <2>1. Bad \in SUBSET Nat
    OBVIOUS
  <2>2. Min(Bad) \in Bad /\ \A i \in Bad : Min(Bad) <= i
    BY <2>1, MinOf
  <2> DEFINE n == Min(Bad)
  <2>3. n \in h - 1..q - 1 /\ n # h - 1 /\ ~Good(n)
    BY <1>2, <2>2
  <2> HIDE DEF n
  <2>4. Good(n - 1)
    <3>1. n - 1 \in h - 1..q - 1 /\ ~(n <= n - 1)
      BY <2>3
    <3>2. n - 1 \notin Bad
      BY <2>2, <3>1 DEF n
    <3> QED
      BY <3>1, <3>2
  <2>5. n - 1 \in h - 1..q - 1 /\ n \in h..q - 1 /\ n \in Nat /\ h \in Nat /\ h <= n
    BY <2>3
  <2>6. /\ IsFiniteSet(Held(sd, h, n - 1))
        /\ at[n - 1] = at[h - 1] + Cardinality(Held(sd, h, n - 1))
    BY <2>4, <2>5
  <2>7. PICK w \in sd : w.seq = n
    BY <2>5
  <2>8. /\ IsFiniteSet(Held(sd, h, n)) /\ Cardinality(Held(sd, h, n - 1)) \in Nat
        /\ Cardinality(Held(sd, h, n)) =
             Cardinality(Held(sd, h, n - 1)) + IF w.entry = Nothing THEN 0 ELSE 1
    BY <2>5, <2>6, <2>7, HeldOne
  <2>9. at[n] = at[n - 1] + IF w.entry = Nothing THEN 0 ELSE 1
    <3>1. w \in W
      OBVIOUS
    <3>2. IF w.entry = Nothing THEN at[n] = at[n - 1] ELSE at[n] = at[n - 1] + 1
      BY <2>7, <3>1, Zenon DEF Chain
    <3>3. at[n] \in Nat /\ at[n - 1] \in Nat
      BY <1>1, <2>5
    <3> QED
      BY <3>2, <3>3
  <2>10. at[h - 1] \in Nat
    BY <1>1
  <2>11. /\ Cardinality(Held(sd, h, n)) \in Nat
         /\ at[n] = at[h - 1] + Cardinality(Held(sd, h, n))
    <3> DEFINE c == Cardinality(Held(sd, h, n - 1))
               d == Cardinality(Held(sd, h, n))
    <3>1. c \in Nat /\ d = c + IF w.entry = Nothing THEN 0 ELSE 1
      BY <2>8
    <3>2. at[n - 1] = at[h - 1] + c
      BY <2>6
    <3> HIDE DEF c, d
    <3>3. d \in Nat /\ at[n] = at[h - 1] + d
      BY <2>9, <2>10, <3>1, <3>2
    <3> QED
      BY <3>3 DEF d
  <2> QED
    BY <2>3, <2>8, <2>11
<1>4. q - 1 \in h - 1..q - 1
  OBVIOUS
<1>5. Good(q - 1)
  BY <1>3, <1>4
<1> QED
  BY <1>5 DEF HeldSum

\* The moment a forced sync covers is reached by a number whose part has been handed over.
LEMMA ReturnedAt ==
  ASSUME Numbered(actor, mailbox, sending, seq), Len(line) \in Nat,
         NEW ms, NEW at, Chain(Way(actor, mailbox, sending), actor.begin, seq, line, ms, at)
  PROVE  /\ Returned \in 1..Len(line)
         /\ \E n \in 0..seq - 1 :
              /\ Returned <= Moment(at, actor.begin, n)
              /\ n < actor.begin \/ \E w \in actor.pending \cup MailParts(mailbox) : w.seq = n
<1> DEFINE b == actor.begin
           W == Way(actor, mailbox, sending)
           held == {w.seq : w \in sending}
           H == {n \in b..seq : n..seq - 1 \subseteq held}
<1>1. seq \in Nat /\ b \in 1..seq /\ sending \in SUBSET PartOf
  BY DEF Numbered
<1>2. /\ \A n \in b..seq - 1 : \E w \in W : w.seq = n
      /\ \A v, w \in W : v.seq = w.seq => v = w
      /\ \A w \in W : w.seq \in b..seq - 1
  BY DEF Numbered
<1>3. W = actor.pending \cup MailParts(mailbox) \cup sending
  BY DEF Way
<1> HIDE DEF b, W
<1>4. H \in SUBSET Nat /\ seq \in H
  BY <1>1
<1>5. Min(H) \in H /\ \A i \in H : Min(H) <= i
  <2>1. H # {}
    BY <1>4
  <2> QED
    BY <1>4, <2>1, MinOf
<1> DEFINE h == Min(H)
<1>6. h \in b..seq /\ h..seq - 1 \subseteq held
  BY <1>5
<1>7. \A n \in b..seq : n..seq - 1 \subseteq held => h <= n
  BY <1>5
<1> HIDE DEF H, h
<1>8. \A n \in h..seq - 1 : \E w \in sending : w.seq = n
  BY <1>6
<1>9. HeldSum(sending, h, seq, at)
  <2>1. sending \subseteq W /\ \A v, w \in sending : v.seq = w.seq => v = w
    BY <1>2, <1>3
  <2>2. Chain(W, b, seq, line, ms, at)
    BY DEF W, b
  <2>3. h \in b..seq
    BY <1>6
  <2> QED
    BY <1>1, <1>8, <2>1, <2>2, <2>3, HeldMoments
<1>10. Returned = Len(line) - Cardinality(Held(sending, h, seq - 1))
  <2>1. \A w \in sending : w.seq..seq - 1 \subseteq held <=> w.seq \in h..seq - 1
    <3> TAKE w \in sending
    <3>1. w.seq \in b..seq - 1 /\ w.seq \in b..seq
      BY <1>1, <1>2, <1>3
    <3>2. ASSUME w.seq..seq - 1 \subseteq held PROVE w.seq \in h..seq - 1
      <4>1. h <= w.seq
        BY <1>7, <3>1, <3>2
      <4> QED
        BY <1>1, <1>6, <3>1, <4>1
    <3>3. ASSUME w.seq \in h..seq - 1 PROVE w.seq..seq - 1 \subseteq held
      <4>1. w.seq..seq - 1 \subseteq h..seq - 1
        BY <1>1, <1>6, <3>3
      <4> QED
        BY <1>6, <4>1
    <3> QED
      BY <3>2, <3>3
  <2>2. {w \in sending : w.entry # Nothing /\ w.seq..seq - 1 \subseteq held}
          = Held(sending, h, seq - 1)
    BY <2>1 DEF Held
  <2> QED
    BY <2>2 DEF Returned
<1>11. at[seq - 1] = Len(line) /\ at[h - 1] \in 1..Len(line)
  <2>1. h - 1 \in b - 1..seq - 1
    BY <1>1, <1>6
  <2> QED
    BY <2>1 DEF Chain, b
<1>12. Returned = at[h - 1]
  <2> DEFINE c == Cardinality(Held(sending, h, seq - 1))
  <2>1. c \in Nat /\ at[seq - 1] = at[h - 1] + c /\ Returned = Len(line) - c
    BY <1>9, <1>10 DEF HeldSum
  <2>2. at[h - 1] \in Int /\ Len(line) \in Int /\ Len(line) = at[h - 1] + c
    BY <1>11, <2>1
  <2> HIDE DEF c
  <2> QED
    BY <2>1, <2>2
<1>13. h - 1 \in 0..seq - 1 /\ Moment(at, b, h - 1) = at[h - 1]
  BY <1>1, <1>6 DEF Moment
<1>14. h - 1 < b \/ \E w \in actor.pending \cup MailParts(mailbox) : w.seq = h - 1
  <2> SUFFICES ASSUME ~(h - 1 < b) PROVE \E w \in actor.pending \cup MailParts(mailbox) : w.seq = h - 1
    OBVIOUS
  <2>1. h - 1 \in b..seq - 1 /\ h - 1 \in b..seq
    BY <1>1, <1>6
  <2>2. PICK w \in W : w.seq = h - 1
    BY <1>2, <2>1
  <2>3. w \notin sending
    <3> SUFFICES ASSUME w \in sending PROVE FALSE
      OBVIOUS
    <3>1. h - 1 \in held
      BY <2>2
    <3>2. h - 1..seq - 1 \subseteq held
      <4>1. \A i \in h - 1..seq - 1 : i = h - 1 \/ i \in h..seq - 1
        BY <1>1, <1>6
      <4> QED
        BY <1>6, <3>1, <4>1
    <3>3. h <= h - 1
      BY <1>7, <2>1, <3>2
    <3> QED
      BY <1>1, <1>6, <3>3
  <2> QED
    BY <1>3, <2>2, <2>3
<1>15. Returned \in 1..Len(line) /\ Returned <= Moment(at, b, h - 1)
  BY <1>11, <1>12, <1>13
<1> QED
  BY <1>13, <1>14, <1>15 DEF b

(***************************************************************************)
(* Steps of the actor, and the files.                                      *)
(***************************************************************************)
LEMMA ConcatIs ==
  ASSUME NEW S, NEW s \in Seq(S), NEW t \in Seq(S)
  PROVE  /\ s \o t \in Seq(S) /\ Len(s \o t) = Len(s) + Len(t)
         /\ Len(s) \in Nat /\ Len(t) \in Nat /\ Len(<<>>) = 0
         /\ s \o <<>> = s /\ (s \o t) \o <<>> = s \o t
         /\ <<>> \in Seq(S) /\ (t = <<>> <=> Len(t) = 0)
<1>1. \A u \in Seq(S) : u \o <<>> = u
  <2> TAKE u \in Seq(S)
  <2>1. /\ u \o <<>> \in Seq(S) /\ Len(u \o <<>>) = Len(u) /\ Len(u) \in Nat
        /\ \A i \in 1..Len(u) : (u \o <<>>)[i] = u[i]
    OBVIOUS
  <2> DEFINE v == u \o <<>>
  <2> HIDE DEF v
  <2>2. v \in Seq(S) /\ Len(v) = Len(u) /\ \A i \in 1..Len(u) : v[i] = u[i]
    BY <2>1 DEF v
  <2>3. v = u
    BY <2>2
  <2> QED
    BY <2>3 DEF v
<1>2. s \o t \in Seq(S) /\ Len(s \o t) = Len(s) + Len(t)
  OBVIOUS
<1>3. s \o <<>> = s /\ (s \o t) \o <<>> = s \o t
  BY <1>1, <1>2, Zenon
<1>4. /\ Len(s) \in Nat /\ Len(t) \in Nat /\ Len(<<>>) = 0
      /\ <<>> \in Seq(S) /\ (t = <<>> <=> Len(t) = 0)
  OBVIOUS
<1> QED
  BY <1>2, <1>3, <1>4

\* The fields that count for the files.
SameFiles(a, b) ==
  /\ b.stage = a.stage /\ b.buffer = a.buffer /\ b.events = a.events
  /\ b.need_sync = a.need_sync

\* The files stay right when the actor keeps what is about them.
LEMMA DiskSame ==
  ASSUME NEW a, NEW b, SameFiles(a, b), NEW d, NEW ln, NEW st, NEW g, NEW x,
         DiskOK(a, d, ln, st, g, x)
  PROVE  DiskOK(b, d, ln, st, g, x)
<1>1. MainOK(a, d, ln, st, g, x) => MainOK(b, d, ln, st, g, x)
  BY Zenon DEF MainOK, SameFiles
<1>2. NewOK(a, d) => NewOK(b, d)
  BY Zenon DEF NewOK, SameFiles
<1>3. Rewriting(b) <=> Rewriting(a)
  BY Zenon DEF Rewriting, SameFiles
<1> QED
  BY <1>1, <1>2, <1>3, Zenon DEF DiskOK, SameFiles

\* A file with another log.
LEMMA FileIs ==
  /\ \A l, n : File(l, n).log = l /\ File(l, n).synced = n
  /\ \A a, d : Both(a, d).a = a /\ Both(a, d).d = d
  BY DEF File, Both

\* What was in the buffer is in the file.
Flushed(a, d, r) ==
  /\ r.a = [a EXCEPT !.buffer = <<>>, !.need_sync = r.a.need_sync]
  /\ r.a.need_sync \in BOOLEAN /\ r.a.buffer = <<>> /\ SameFiles([a EXCEPT !.buffer = <<>>, !.need_sync = r.a.need_sync], r.a)
  /\ ~r.a.need_sync => ~a.need_sync /\ a.buffer = <<>>
  /\ DOMAIN r.d = DOMAIN d
  /\ r.d["main"] = File(d["main"].log \o a.buffer, d["main"].synced)

\* What flush() does to the actor and the files.
LEMMA FlushDisk ==
  ASSUME NEW a, Shaped(a), a.stage = "run", NEW d, NEW ln, NEW st, NEW g, NEW x,
         DiskOK(a, d, ln, st, g, x), NEW r, r = Flush(Both(a, d))
  PROVE  DiskOK(r.a, r.d, ln, st, g, x) /\ Flushed(a, d, r)
<1> DEFINE log == d["main"].log
           k == d["main"].synced
           l == log \o a.buffer
<1>1. /\ "main" \in DOMAIN d /\ DOMAIN d \subseteq {"main", "new"}
      /\ \A f \in DOMAIN d : d[f] = File(d[f].log, d[f].synced)
      /\ log \in Seq(EntryOK) /\ a.buffer \in Seq(EntryOK) /\ k \in 0..Len(log)
      /\ MainOK(a, d, ln, st, g, x)
  BY DEF DiskOK, MainOK
<1>2. r.a = [a EXCEPT !.buffer = <<>>, !.need_sync = a.need_sync \/ a.buffer # <<>>]
  BY DEF Flush, Both
<1>3. r.d = [d EXCEPT !["main"].log = log \o a.buffer]
  BY DEF Flush, Both
<1>4. /\ r.a.buffer = <<>> /\ r.a.need_sync = (a.need_sync \/ a.buffer # <<>>)
      /\ r.a.stage = "run" /\ r.a.events = a.events
  BY <1>2 DEF Shaped
<1>5. r.a.need_sync \in BOOLEAN /\ r.a = [a EXCEPT !.buffer = <<>>, !.need_sync = r.a.need_sync]
  BY <1>2, <1>4, Zenon
<1>6. d["main"] = File(log, k)
  BY <1>1
<1>7. DOMAIN r.d = DOMAIN d /\ r.d["main"] = File(l, k) /\ \A f \in DOMAIN d \ {"main"} : r.d[f] = d[f]
  <2>1. [d["main"] EXCEPT !.log = log \o a.buffer] = File(l, k)
    <3> DEFINE u == log \o a.buffer
               v == log
    <3>1. d["main"] = File(v, k)
      BY <1>6
    <3> HIDE DEF u, v, k
    <3>2. [d["main"] EXCEPT !.log = u] = File(u, k)
      BY <3>1 DEF File
    <3> QED
      BY <3>2 DEF u
  <2> QED
    BY <1>1, <1>3, <2>1
<1>8. r.d["main"].log = l /\ r.d["main"].synced = k
  <2>1. File(l, k).log = l /\ File(l, k).synced = k
    BY DEF File
  <2>2. r.d["main"] = File(l, k)
    BY <1>7
  <2> HIDE DEF l, k
  <2> QED
    BY <2>1, <2>2
<1>9. l \in Seq(EntryOK) /\ Len(l) = Len(log) + Len(a.buffer) /\ Len(log) \in Nat /\ Len(a.buffer) \in Nat
      /\ l \o <<>> = l /\ <<>> \in Seq(EntryOK) /\ (a.buffer = <<>> => l = log)
  <2>1. /\ l \in Seq(EntryOK) /\ Len(l) = Len(log) + Len(a.buffer)
        /\ Len(log) \in Nat /\ Len(a.buffer) \in Nat /\ <<>> \in Seq(EntryOK)
        /\ log \o <<>> = log /\ l \o <<>> = l
    BY <1>1, ConcatIs
  <2> QED
    BY <2>1
<1>10. Flushed(a, d, r)
  <2>1. ~r.a.need_sync => ~a.need_sync /\ a.buffer = <<>>
    BY <1>4
  <2> QED
    BY <1>4, <1>5, <1>7, <2>1, Zenon DEF Flushed, SameFiles
<1>11. MainOK(r.a, r.d, ln, st, g, x)
  <2>1. k \in 0..Len(l)
    <3>1. k \in 0..Len(log) /\ Len(log) \in Nat /\ Len(a.buffer) \in Nat /\ Len(l) = Len(log) + Len(a.buffer)
      BY <1>1, <1>9
    <3> HIDE DEF k, l, log
    <3> QED
      BY <3>1
  <2>2. /\ Follows(l, k, ln, g, x) /\ DoEvents(l).live = a.events.live /\ g[Len(l)] = x
        /\ a.need_sync \/ k = Len(log) \/ g[Len(log)] <= st
    BY <1>1 DEF MainOK
  <2>3. r.a.need_sync \/ k = Len(l) \/ g[Len(l)] <= st
    <3>1. CASE a.buffer = <<>>
      BY <1>4, <1>9, <2>2, <3>1
    <3>2. CASE a.buffer # <<>>
      BY <1>4, <3>2
    <3> QED
      BY <3>1, <3>2
  <2>4. r.d["main"].log \o r.a.buffer = l
    BY <1>4, <1>8, <1>9
  <2> HIDE DEF l, k, log
  <2> QED
    BY <1>1, <1>4, <1>7, <1>8, <1>9, <2>1, <2>2, <2>3, <2>4, Zenon DEF MainOK
<1>12. \A f \in DOMAIN r.d : r.d[f] = File(r.d[f].log, r.d[f].synced)
  BY <1>1, <1>7, <1>8
<1>13. ~Rewriting(r.a)
  BY <1>4 DEF Rewriting
<1>14. DiskOK(r.a, r.d, ln, st, g, x)
  BY <1>1, <1>4, <1>7, <1>9, <1>11, <1>12, <1>13 DEF DiskOK
<1> QED
  BY <1>10, <1>14

\* The next entry goes to the events and to the buffer.
LEMMA RunDisk ==
  ASSUME NEW a, a.stage = "run", NEW d, NEW ln, NEW st, NEW g, NEW x \in Nat,
         DiskOK(a, d, ln, st, g, x), EventsTyped(a.events), OneEach(a.events),
         NEW n \in Nat \ {0}, a.events.last < n, NEW e \in Entry, NEW m,
         Makes(e, n, Contents(a.events), m), MapOK(m, n),
         NEW y \in Nat \ {0}, x <= y, ln[y] = Values(m),
         NEW b, b.stage = "run", b.need_sync = a.need_sync, b.events = DoEvent(a.events, e),
         b.buffer = Append(a.buffer, e)
  PROVE  \E h : DiskOK(b, d, ln, st, h, y)
<1> DEFINE log == d["main"].log
           k == d["main"].synced
           l == log \o a.buffer
<1>1. /\ "main" \in DOMAIN d /\ DOMAIN d \subseteq {"main", "new"}
      /\ \A f \in DOMAIN d : d[f] = File(d[f].log, d[f].synced)
      /\ log \in Seq(EntryOK) /\ a.buffer \in Seq(EntryOK) /\ k \in 0..Len(log)
  BY DEF DiskOK, MainOK
<1>2. /\ Follows(l, k, ln, g, x) /\ DoEvents(l).live = a.events.live /\ g[Len(l)] = x
      /\ a.need_sync \/ k = Len(log) \/ g[Len(log)] <= st
  BY DEF DiskOK, MainOK
<1>3. /\ e \in EntryOK
      /\ OneEach(b.events) /\ b.events.live = Put(a.events.live, e)
      /\ Contents(b.events) = m
  BY EventStep
<1>4. l \in Seq(EntryOK) /\ Len(l) = Len(log) + Len(a.buffer) /\ Len(log) \in Nat /\ Len(a.buffer) \in Nat
  BY <1>1, ConcatIs
<1>5. log \o b.buffer = Append(l, e)
  <2>1. log \o Append(a.buffer, e) = Append(log \o a.buffer, e)
    <3> HIDE DEF log
    <3> QED
      BY <1>1, <1>3, ConcatAppend
  <2> QED
    BY <2>1
<1>6. b.buffer \in Seq(EntryOK)
  BY <1>1, <1>3
<1> HIDE DEF log, k, l
<1>7. DoEvents(Append(l, e)).live = b.events.live
  <2>1. l \in Seq(Entry)
    BY <1>4, EntryIs
  <2> QED
    BY <1>2, <1>3, <2>1, LiveAppend
<1>8. Finds(Append(l, e), ln[y])
  BY <1>3, <1>7, FindsOf
<1> DEFINE h == [i \in Nat |-> IF i = Len(l) + 1 THEN y ELSE g[i]]
<1>9. /\ \A i \in k..Len(l) : h[i] = g[i]
      /\ h[Len(l) + 1] = y
  BY <1>1, <1>4
<1>10. k..Len(l) \subseteq Nat /\ Len(log) \in k..Len(l) /\ Len(l) + 1 = Len(Append(l, e))
  BY <1>1, <1>4
<1> HIDE DEF h
<1>11. Follows(Append(l, e), k, ln, h, y)
  BY <1>2, <1>3, <1>8, <1>9, FollowsEntry
<1>12. b.need_sync \/ k = Len(log) \/ h[Len(log)] <= st
  BY <1>2, <1>9, <1>10
<1>13. MainOK(b, d, ln, st, h, y)
  <2>1. h[Len(Append(l, e))] = y
    BY <1>9, <1>10
  <2> QED
    BY <1>1, <1>5, <1>7, <1>11, <1>12, <2>1 DEF MainOK, log, k
<1>14. ~Rewriting(b)
  BY DEF Rewriting
<1>15. DiskOK(b, d, ln, st, h, y)
  BY <1>1, <1>6, <1>13, <1>14 DEF DiskOK
<1> QED
  BY <1>15

\* The file is as it was; the buffer is lost with what comes after it.
LEMMA MainStays ==
  ASSUME NEW a, NEW d, NEW ln, NEW st, NEW g, NEW x \in Nat, MainOK(a, d, ln, st, g, x),
         a.buffer \in Seq(EntryOK),
         NEW b, b.stage # "run", b.buffer = <<>>, NEW c, "main" \in DOMAIN c, c["main"] = d["main"]
  PROVE  MainOK(b, c, ln, st, g, x)
<1> DEFINE log == d["main"].log
           k == d["main"].synced
           l == log \o a.buffer
<1>1. log \in Seq(EntryOK) /\ k \in 0..Len(log) /\ Follows(l, k, ln, g, x)
  BY DEF MainOK
<1>2. /\ l \in Seq(EntryOK) /\ Len(l) = Len(log) + Len(a.buffer)
      /\ Len(log) \in Nat /\ Len(a.buffer) \in Nat /\ log \o <<>> = log
  BY <1>1, ConcatIs
<1>3. SubSeq(l, 1, Len(log)) = log
  <2>1. Len(log) \in 0..Len(log)
    BY <1>2
  <2>2. SubSeq(l, 1, Len(log)) = SubSeq(log, 1, Len(log))
    BY <1>1, <2>1, PrefixConcat
  <2>3. SubSeq(log, 1, Len(log)) = log
    <3>1. /\ SubSeq(log, 1, Len(log)) \in Seq(EntryOK) /\ Len(SubSeq(log, 1, Len(log))) = Len(log)
          /\ \A i \in 1..Len(log) : SubSeq(log, 1, Len(log))[i] = log[i]
      BY <1>1, <2>1, Prefix
    <3> DEFINE u == SubSeq(log, 1, Len(log))
    <3> HIDE DEF u, log
    <3>2. u \in Seq(EntryOK) /\ Len(u) = Len(log) /\ \A i \in 1..Len(log) : u[i] = log[i]
      BY <3>1 DEF u
    <3>3. u = log
      BY <1>1, <3>2
    <3> QED
      BY <3>3 DEF u
  <2> QED
    BY <2>2, <2>3
<1> HIDE DEF log, k, l
<1>4. Len(log) \in k..Len(l)
  BY <1>1, <1>2
<1>5. Follows(log, k, ln, g, g[Len(log)])
  BY <1>1, <1>3, <1>4, FollowsPrefix
<1>6. g[Len(log)] \in 1..x
  BY <1>1, <1>4 DEF Follows
<1>7. Follows(log, k, ln, g, x)
  <2>1. k \in k..Len(log) /\ g[Len(log)] \in Nat /\ g[Len(log)] <= x
    BY <1>1, <1>2, <1>6
  <2> QED
    BY <1>5, <2>1, FollowsLater
<1>8. c["main"].log = log /\ c["main"].synced = k
  BY DEF log, k
<1> QED
  BY <1>1, <1>2, <1>7, <1>8 DEF MainOK

\* The new file gets what lives.
LEMMA ReindexDisk ==
  ASSUME NEW a, a.stage = "run", NEW d, NEW ln, NEW st, NEW g, NEW x \in Nat,
         DiskOK(a, d, ln, st, g, x), EventsTyped(a.events),
         NEW b, b.stage = "rewriting", b.buffer = <<>>, b.events = a.events,
         NEW c, c = With(d, "new", File(Compact(a.events), 0))
  PROVE  DiskOK(b, c, ln, st, g, x)
<1>1. /\ "main" \in DOMAIN d /\ DOMAIN d \subseteq {"main", "new"}
      /\ \A f \in DOMAIN d : d[f] = File(d[f].log, d[f].synced)
      /\ a.buffer \in Seq(EntryOK) /\ MainOK(a, d, ln, st, g, x)
  BY DEF DiskOK, MainOK
<1>2. /\ DOMAIN c = DOMAIN d \cup {"new"} /\ c["new"] = File(Compact(a.events), 0)
      /\ \A f \in DOMAIN d \ {"new"} : c[f] = d[f]
  <2> DEFINE F == File(Compact(a.events), 0)
  <2>1. c = With(d, "new", F)
    OBVIOUS
  <2> HIDE DEF F
  <2>2. /\ DOMAIN With(d, "new", F) = DOMAIN d \cup {"new"} /\ With(d, "new", F)["new"] = F
        /\ \A f \in DOMAIN d \ {"new"} : With(d, "new", F)[f] = d[f]
    BY DEF With
  <2>3. /\ DOMAIN c = DOMAIN d \cup {"new"} /\ c["new"] = F
        /\ \A f \in DOMAIN d \ {"new"} : c[f] = d[f]
    BY <2>1, <2>2
  <2> QED
    BY <2>3 DEF F
<1>3. Compact(a.events) \in Seq(EntryOK) /\ DoEvents(Compact(a.events)).live = a.events.live
  BY CompactLive
<1>4. c["new"].log = Compact(a.events) /\ c["new"].synced = 0
  BY <1>2, FileIs
<1>5. NewOK(b, c)
  BY <1>2, <1>3, <1>4 DEF NewOK
<1>6. MainOK(b, c, ln, st, g, x)
  <2>1. "main" \in DOMAIN c /\ c["main"] = d["main"]
    BY <1>1, <1>2
  <2> QED
    BY <1>1, <2>1, MainStays
<1>7. \A f \in DOMAIN c : c[f] = File(c[f].log, c[f].synced)
  BY <1>1, <1>2, <1>4
<1>8. <<>> \in Seq(EntryOK) /\ DOMAIN c \subseteq {"main", "new"}
  BY <1>1, <1>2
<1> QED
  BY <1>5, <1>6, <1>7, <1>8 DEF DiskOK

\* The new file is synced.
LEMMA SyncNewDisk ==
  ASSUME NEW a, a.stage = "rewriting", NEW d, NEW ln, NEW st, NEW g, NEW x \in Nat,
         DiskOK(a, d, ln, st, g, x),
         NEW b, b.stage = "synced", b.buffer = a.buffer, b.events = a.events,
         NEW c, c = [d EXCEPT !["new"].synced = Len(d["new"].log)]
  PROVE  DiskOK(b, c, ln, st, g, x)
<1> DEFINE l == d["new"].log
           j == d["new"].synced
<1>1. /\ MainOK(a, d, ln, st, g, x) /\ NewOK(a, d) /\ DOMAIN d \subseteq {"main", "new"}
      /\ \A f \in DOMAIN d : d[f] = File(d[f].log, d[f].synced)
  BY DEF DiskOK, Rewriting
<1>2. "new" \in DOMAIN d /\ a.buffer = <<>> /\ l \in Seq(EntryOK) /\ DoEvents(l).live = a.events.live
  BY <1>1 DEF NewOK
<1>3. DOMAIN c = DOMAIN d /\ c["new"] = File(l, Len(l)) /\ \A f \in DOMAIN d \ {"new"} : c[f] = d[f]
  <2> DEFINE i == Len(l)
  <2>1. d["new"] = File(l, j) /\ c = [d EXCEPT !["new"].synced = i]
    BY <1>1, <1>2
  <2> HIDE DEF l, j, i
  <2>2. [d["new"] EXCEPT !.synced = i] = File(l, i)
    BY <2>1 DEF File
  <2>3. DOMAIN c = DOMAIN d /\ c["new"] = File(l, i) /\ \A f \in DOMAIN d \ {"new"} : c[f] = d[f]
    BY <1>2, <2>1, <2>2
  <2> QED
    BY <2>3 DEF i
<1> HIDE DEF l, j
<1>4. c["new"].log = l /\ c["new"].synced = Len(l)
  BY <1>3 DEF File
<1>5. NewOK(b, c)
  BY <1>2, <1>3, <1>4 DEF NewOK
<1>6. MainOK(b, c, ln, st, g, x)
  <2>1. "main" \in DOMAIN c /\ c["main"] = d["main"]
    BY <1>1, <1>3 DEF MainOK
  <2>2. a.buffer \in Seq(EntryOK)
    BY DEF DiskOK
  <2> QED
    BY <1>1, <1>2, <2>1, <2>2, MainStays
<1>7. \A f \in DOMAIN c : c[f] = File(c[f].log, c[f].synced)
  BY <1>1, <1>3, <1>4
<1>8. <<>> \in Seq(EntryOK) /\ DOMAIN c \subseteq {"main", "new"}
  BY <1>1, <1>3
<1> QED
  BY <1>2, <1>5, <1>6, <1>7, <1>8 DEF DiskOK

\* The old file goes.
LEMMA UnlinkDisk ==
  ASSUME NEW a, a.stage = "synced", NEW d, NEW ln, NEW st, NEW g, NEW x,
         DiskOK(a, d, ln, st, g, x),
         NEW b, b.stage = "unlinked", b.buffer = a.buffer, b.events = a.events,
         NEW c, c = Restrict(d, DOMAIN d \ {"main"})
  PROVE  DiskOK(b, c, ln, st, g, x)
<1>1. /\ NewOK(a, d) /\ DOMAIN d \subseteq {"main", "new"}
      /\ \A f \in DOMAIN d : d[f] = File(d[f].log, d[f].synced)
      /\ a.buffer \in Seq(EntryOK)
  BY DEF DiskOK, Rewriting
<1>2. DOMAIN c = DOMAIN d \ {"main"} /\ \A f \in DOMAIN c : c[f] = d[f]
  BY DEF Restrict
<1>3. NewOK(b, c)
  <2>1. "new" \in DOMAIN c /\ c["new"] = d["new"]
    BY <1>1, <1>2 DEF NewOK
  <2> QED
    BY <1>1, <2>1 DEF NewOK
<1> QED
  BY <1>1, <1>2, <1>3 DEF DiskOK

\* The new file takes its place.
LEMMA RenameDisk ==
  ASSUME NEW a, a.stage = "unlinked", NEW d, NEW ln, NEW st, NEW g, NEW x \in Nat \ {0},
         DiskOK(a, d, ln, st, g, x), OneEach(a.events), ln[x] = Values(Contents(a.events)),
         NEW b, b.stage = "run", b.buffer = a.buffer, b.events = a.events,
         NEW c, c = Renamed(d)
  PROVE  \E h : DiskOK(b, c, ln, st, h, x)
<1> DEFINE l == d["new"].log
<1>1. /\ NewOK(a, d) /\ "main" \notin DOMAIN d
      /\ \A f \in DOMAIN d : d[f] = File(d[f].log, d[f].synced)
  BY DEF DiskOK, Rewriting
<1>2. /\ "new" \in DOMAIN d /\ a.buffer = <<>> /\ l \in Seq(EntryOK)
      /\ DoEvents(l).live = a.events.live /\ d["new"].synced = Len(l)
  BY <1>1 DEF NewOK
<1>3. c = With(<<>>, "main", d["new"])
  BY <1>1, <1>2 DEF Renamed
<1>4. DOMAIN c = {"main"} /\ c["main"] = d["new"]
  <2>1. DOMAIN <<>> = {}
    OBVIOUS
  <2> QED
    BY <1>3, <2>1 DEF With
<1>5. Len(l) \in Nat /\ l \o <<>> = l /\ SubSeq(l, 1, Len(l)) = l /\ <<>> \in Seq(EntryOK)
  <2>1. Len(l) \in Nat /\ l \o <<>> = l /\ <<>> \in Seq(EntryOK)
    BY <1>2, ConcatIs
  <2>2. Len(l) \in 0..Len(l)
    BY <2>1
  <2>3. SubSeq(l \o <<>>, 1, Len(l)) = SubSeq(l, 1, Len(l))
    BY <1>2, <2>1, <2>2, PrefixConcat
  <2>4. /\ SubSeq(l, 1, Len(l)) \in Seq(EntryOK) /\ Len(SubSeq(l, 1, Len(l))) = Len(l)
        /\ \A i \in 1..Len(l) : SubSeq(l, 1, Len(l))[i] = l[i]
    BY <1>2, <2>2, Prefix
  <2> DEFINE u == SubSeq(l, 1, Len(l))
  <2> HIDE DEF u, l
  <2>5. u = l
    <3>1. u \in Seq(EntryOK) /\ Len(u) = Len(l) /\ \A i \in 1..Len(l) : u[i] = l[i]
      BY <2>4 DEF u
    <3> QED
      BY <1>2, <3>1
  <2> QED
    BY <2>1, <2>5 DEF u
<1>6. c["main"].log = l /\ c["main"].synced = Len(l)
  BY <1>2, <1>4
<1>7. Finds(l, ln[x])
  BY <1>2, FindsOf
<1> DEFINE h == [i \in Nat |-> x]
<1>8. \A i \in Nat : h[i] = x
  OBVIOUS
<1> HIDE DEF h, l
<1>9. Follows(l, Len(l), ln, h, x)
  <2>1. Len(l) \in 0..Len(l) /\ x \in 1..x
    BY <1>5
  <2>2. \A n \in Len(l)..Len(l) : n = Len(l) /\ n \in Nat
    <3> DEFINE i == Len(l)
    <3>1. i \in Nat
      BY <1>5
    <3> HIDE DEF i
    <3>2. \A n \in i..i : n = i /\ n \in Nat
      BY <3>1
    <3> QED
      BY <3>2 DEF i
  <2>3. \A n \in Len(l)..Len(l) : h[n] \in 1..x /\ Finds(SubSeq(l, 1, n), ln[h[n]])
    BY <1>5, <1>7, <1>8, <2>1, <2>2
  <2>4. \A m, n \in Len(l)..Len(l) : m <= n => h[m] <= h[n]
    BY <1>8, <2>2
  <2> QED
    BY <1>2, <2>1, <2>3, <2>4 DEF Follows
<1>10. MainOK(b, c, ln, st, h, x)
  <2>1. Len(l) \in 0..Len(l) /\ h[Len(l)] = x
    BY <1>5, <1>8
  <2> QED
    BY <1>2, <1>4, <1>5, <1>6, <1>9, <2>1 DEF MainOK
<1>11. \A f \in DOMAIN c : c[f] = File(c[f].log, c[f].synced)
  BY <1>1, <1>2, <1>4
<1>12. ~Rewriting(b)
  BY DEF Rewriting
<1>13. DiskOK(b, c, ln, st, h, x)
  BY <1>2, <1>4, <1>5, <1>10, <1>11, <1>12 DEF DiskOK
<1> QED
  BY <1>13

\* The moments before n are over, of which the file holds none.
LEMMA CutDisk ==
  ASSUME NEW a, a.stage = "run", NEW d, NEW ln, NEW st \in Nat, NEW g, NEW x \in Nat,
         DiskOK(a, d, ln, st, g, x), NEW n \in Nat \ {0}, n <= g[d["main"].synced],
         NEW li, \A i \in n..x : li[i - n + 1] = ln[i]
  PROVE  \E h : DiskOK(a, d, li, After(st, n), h, x - n + 1)
<1> DEFINE log == d["main"].log
           k == d["main"].synced
           l == log \o a.buffer
           h == [i \in Nat |-> g[i] - n + 1]
<1>1. /\ MainOK(a, d, ln, st, g, x) /\ a.buffer \in Seq(EntryOK)
      /\ log \in Seq(EntryOK) /\ k \in 0..Len(log)
  BY DEF DiskOK, MainOK
<1>2. /\ Follows(l, k, ln, g, x) /\ DoEvents(l).live = a.events.live /\ g[Len(l)] = x
      /\ a.need_sync \/ k = Len(log) \/ g[Len(log)] <= st
  BY <1>1 DEF MainOK
<1>3. Len(l) = Len(log) + Len(a.buffer) /\ Len(log) \in Nat /\ Len(a.buffer) \in Nat
  BY <1>1, ConcatIs
<1>4. n <= g[k]
  OBVIOUS
<1>5. "main" \in DOMAIN d
  BY <1>1 DEF MainOK
<1> HIDE DEF log, k, l
<1>6. \A i \in k..Len(l) : h[i] = g[i] - n + 1
  BY <1>1
<1> HIDE DEF h
<1>7. Follows(l, k, li, h, x - n + 1)
  <2>1. Follows(l, k, ln, g, x)
    BY <1>2
  <2>2. x \in Nat /\ n \in Nat \ {0} /\ \A i \in n..x : li[i - n + 1] = ln[i]
    OBVIOUS
  <2> QED
    BY <1>4, <1>6, <2>1, <2>2, FollowsCut, SMTT(30)
<1>8. Len(l) \in k..Len(l) /\ Len(log) \in k..Len(l) /\ k \in k..Len(l) /\ k <= Len(log)
  BY <1>1, <1>3
<1>9. h[Len(l)] = x - n + 1
  BY <1>2, <1>6, <1>8
<1>10. a.need_sync \/ k = Len(log) \/ h[Len(log)] <= After(st, n)
  <2>1. ASSUME g[Len(log)] <= st PROVE h[Len(log)] <= After(st, n)
    <3>1. g[Len(log)] \in 1..x /\ g[k] \in 1..x /\ g[k] <= g[Len(log)]
      BY <1>2, <1>8 DEF Follows
    <3>2. h[Len(log)] = g[Len(log)] - n + 1
      BY <1>6, <1>8
    <3> QED
      BY <1>4, <2>1, <3>1, <3>2 DEF After
  <2> QED
    BY <1>2, <2>1
<1>11. MainOK(a, d, li, After(st, n), h, x - n + 1)
  BY <1>1, <1>2, <1>5, <1>7, <1>9, <1>10 DEF MainOK, log, k, l
<1>12. DiskOK(a, d, li, After(st, n), h, x - n + 1)
  BY <1>11 DEF DiskOK, Rewriting
<1> QED
  BY <1>12

\* The actor apart from what it writes.
SameActor(a, b) ==
  /\ b.begin = a.begin /\ b.pending = a.pending /\ b.busy = a.busy /\ b.events = a.events
  /\ b.waits = a.waits /\ b.promises = a.promises /\ b.stage = a.stage

Fits(a, b) == Shaped(b) /\ (TimerOK(a) => TimerOK(b)) /\ SameActor(a, b)

\* The files stay right when the buffer is written.
LEMMA FlushFits ==
  ASSUME NEW a, Shaped(a), NEW d, NEW r, Flushed(a, d, r)
  PROVE  Fits(a, r.a)
<1> DEFINE s == r.a.need_sync
           b == [a EXCEPT !.buffer = <<>>, !.need_sync = s]
<1>1. s \in BOOLEAN /\ r.a = b
  BY DEF Flushed
<1> HIDE DEF s
<1>2. Shaped(b)
  BY <1>1 DEF Shaped
<1>3. SameActor(a, b) /\ b.lazy = a.lazy /\ b.force = a.force /\ b.flush = a.flush /\ b.timer = a.timer
  BY <1>1 DEF SameActor, Shaped
<1> HIDE DEF b
<1>4. TimerOK(a) => TimerOK(b)
  BY <1>3 DEF TimerOK, SameActor
<1> QED
  BY <1>1, <1>2, <1>3, <1>4 DEF Fits

\* The actor writes what is in the buffer, or sets the timer.
LEMMA TryFlushDisk ==
  ASSUME NEW a, Shaped(a), a.stage = "run", NEW d, NEW ln, NEW st, NEW g, NEW x,
         DiskOK(a, d, ln, st, g, x), NEW r \in TryFlush(Both(a, d))
  PROVE  DiskOK(r.a, r.d, ln, st, g, x) /\ Fits(a, r.a)
<1>1. ASSUME r = Both(a, d) PROVE DiskOK(r.a, r.d, ln, st, g, x) /\ Fits(a, r.a)
  <2>1. r.a = a /\ r.d = d
    BY <1>1, FileIs
  <2> QED
    BY <2>1 DEF Fits, SameActor
<1>2. ASSUME r = Flush(Both(a, d)) PROVE DiskOK(r.a, r.d, ln, st, g, x) /\ Fits(a, r.a)
  BY <1>2, FlushDisk, FlushFits
<1>3. ASSUME r = [Both(a, d) EXCEPT !.a.flush = TRUE, !.a.timer = TRUE]
      PROVE  DiskOK(r.a, r.d, ln, st, g, x) /\ Fits(a, r.a)
  <2> DEFINE b == [a EXCEPT !.flush = TRUE, !.timer = TRUE]
  <2>1. r.a = b /\ r.d = d
    BY <1>3 DEF Both
  <2>2. /\ Shaped(b) /\ SameActor(a, b) /\ b.timer = TRUE /\ SameFiles(a, b)
        /\ b.lazy = a.lazy /\ b.force = a.force
    BY DEF Shaped, SameActor, SameFiles
  <2> HIDE DEF b
  <2>3. Fits(a, b)
    BY <2>2 DEF Fits, TimerOK, SameActor
  <2>4. DiskOK(b, d, ln, st, g, x)
    BY <2>2, DiskSame
  <2> QED
    BY <2>1, <2>3, <2>4
<1>4. \/ r = Both(a, d) \/ r = Flush(Both(a, d))
      \/ r = [Both(a, d) EXCEPT !.a.flush = TRUE, !.a.timer = TRUE]
  <2> DEFINE u == Both(a, d)
             v == [u EXCEPT !.a.flush = TRUE, !.a.timer = TRUE]
  <2>1. r \in TryFlush(u)
    OBVIOUS
  <2>2. TryFlush(u) = IF u.a.buffer = <<>> THEN {u} ELSE {Flush(u), IF u.a.force THEN u ELSE v}
    BY Zenon DEF TryFlush
  <2> HIDE DEF u, v
  <2>3. r = u \/ r = Flush(u) \/ r = v
    BY <2>1, <2>2
  <2> QED
    BY <2>3 DEF u, v
<1> QED
  BY <1>1, <1>2, <1>3, <1>4

\* After a sync the file holds no moment but the last, or none is newer
\* than the start.
Synced(a, d, st, g, x, r) ==
  /\ r.a = [a EXCEPT !.buffer = <<>>, !.need_sync = FALSE]
  /\ "main" \in DOMAIN r.d /\ r.d["main"].synced \in Nat
  /\ g[r.d["main"].synced] = x \/ x <= st

\* What sync() does to the actor and the files.
LEMMA SyncDisk ==
  ASSUME NEW a, Shaped(a), a.stage = "run", NEW d, NEW ln, NEW st, NEW g, NEW x \in Nat,
         DiskOK(a, d, ln, st, g, x), NEW r, r = Sync(Both(a, d))
  PROVE  DiskOK(r.a, r.d, ln, st, g, x) /\ Synced(a, d, st, g, x, r)
<1> DEFINE w == Flush(Both(a, d))
           l == w.d["main"].log
           k == w.d["main"].synced
<1>1. r = IF w.a.need_sync
          THEN Both([w.a EXCEPT !.need_sync = FALSE], [w.d EXCEPT !["main"].synced = Len(w.d["main"].log)])
          ELSE w
  BY Zenon DEF Sync
<1>2. DiskOK(w.a, w.d, ln, st, g, x) /\ Flushed(a, d, w)
  BY FlushDisk
<1> HIDE DEF w
<1>3. /\ w.a = [a EXCEPT !.buffer = <<>>, !.need_sync = w.a.need_sync]
      /\ w.a.need_sync \in BOOLEAN /\ w.a.buffer = <<>> /\ w.a.stage = "run" /\ Shaped(w.a)
      /\ w.a.events = a.events
  <2>1. /\ w.a = [a EXCEPT !.buffer = <<>>, !.need_sync = w.a.need_sync]
        /\ w.a.need_sync \in BOOLEAN /\ w.a.buffer = <<>>
    BY <1>2 DEF Flushed
  <2>2. Fits(a, w.a)
    BY <1>2, FlushFits
  <2> QED
    BY <2>1, <2>2 DEF Fits, SameActor
<1>4. /\ "main" \in DOMAIN w.d /\ DOMAIN w.d \subseteq {"main", "new"}
      /\ \A f \in DOMAIN w.d : w.d[f] = File(w.d[f].log, w.d[f].synced)
      /\ MainOK(w.a, w.d, ln, st, g, x)
  BY <1>2, <1>3 DEF DiskOK, MainOK
<1>5. l \in Seq(EntryOK) /\ k \in 0..Len(l) /\ Len(l) \in Nat /\ l \o <<>> = l /\ <<>> \in Seq(EntryOK)
  <2>1. l \in Seq(EntryOK) /\ k \in 0..Len(l)
    BY <1>4 DEF MainOK
  <2> HIDE DEF l, k
  <2> QED
    BY <2>1, ConcatIs
<1>6. /\ Follows(l, k, ln, g, x) /\ DoEvents(l).live = w.a.events.live
      /\ g[Len(l)] = x
      /\ w.a.need_sync \/ k = Len(l) \/ g[Len(l)] <= st
  <2>1. l \o w.a.buffer = l
    BY <1>3, <1>5
  <2>2. /\ Follows(l \o w.a.buffer, k, ln, g, x) /\ DoEvents(l \o w.a.buffer).live = w.a.events.live
        /\ g[Len(l \o w.a.buffer)] = x
        /\ w.a.need_sync \/ k = Len(l) \/ g[Len(l)] <= st
    BY <1>3, <1>4, Zenon DEF MainOK
  <2> HIDE DEF l, k
  <2> QED
    BY <2>1, <2>2
<1>7. CASE ~w.a.need_sync
  <2>1. r = w
    BY <1>1, <1>7
  <2>2. w.a.need_sync = FALSE
    BY <1>3, <1>7
  <2>3. w.a = [a EXCEPT !.buffer = <<>>, !.need_sync = FALSE]
    BY <1>3, <2>2, Zenon
  <2>4. g[k] = x \/ x <= st
    BY <1>6, <1>7
  <2>5. k \in Nat
    BY <1>5
  <2> QED
    BY <1>2, <1>4, <2>1, <2>3, <2>4, <2>5 DEF Synced
<1>8. CASE w.a.need_sync
  <2> DEFINE b == [w.a EXCEPT !.need_sync = FALSE]
             c == [w.d EXCEPT !["main"].synced = Len(l)]
  <2>1. r = Both(b, c)
    BY <1>1, <1>8
  <2>2. r.a = b /\ r.d = c
    <3> HIDE DEF b, c
    <3> QED
      BY <2>1, FileIs
  <2>3. b = [a EXCEPT !.buffer = <<>>, !.need_sync = FALSE]
    <3> DEFINE s == w.a.need_sync
    <3>1. w.a = [a EXCEPT !.buffer = <<>>, !.need_sync = s]
      BY <1>3
    <3> HIDE DEF s
    <3>2. [[a EXCEPT !.buffer = <<>>, !.need_sync = s] EXCEPT !.need_sync = FALSE]
            = [a EXCEPT !.buffer = <<>>, !.need_sync = FALSE]
      BY DEF Shaped
    <3> QED
      BY <3>1, <3>2
  <2>4. b.stage = "run" /\ b.buffer = <<>> /\ b.events = w.a.events
    BY <1>3 DEF Shaped
  <2>5. DOMAIN c = DOMAIN w.d /\ c["main"] = File(l, Len(l)) /\ \A f \in DOMAIN c \ {"main"} : c[f] = w.d[f]
    <3> DEFINE i == Len(l)
    <3>1. w.d["main"] = File(l, k) /\ c = [w.d EXCEPT !["main"].synced = i]
      BY <1>4
    <3> HIDE DEF l, k, i, c
    <3>2. [w.d["main"] EXCEPT !.synced = i] = File(l, i)
      BY <3>1 DEF File
    <3>3. DOMAIN c = DOMAIN w.d /\ c["main"] = File(l, i) /\ \A f \in DOMAIN c \ {"main"} : c[f] = w.d[f]
      BY <1>4, <3>1, <3>2
    <3> QED
      BY <3>3 DEF i
  <2> HIDE DEF b, c, l, k
  <2>6. c["main"].log = l /\ c["main"].synced = Len(l)
    BY <2>5 DEF File
  <2>7. Follows(l, Len(l), ln, g, x)
    <3>1. Len(l) \in k..Len(l)
      BY <1>5
    <3> QED
      BY <1>6, <3>1, FollowsLater
  <2>8. MainOK(b, c, ln, st, g, x)
    <3>1. Len(l) \in 0..Len(l) /\ "main" \in DOMAIN c
      BY <1>4, <1>5, <2>5
    <3> QED
      BY <1>5, <1>6, <2>4, <2>6, <2>7, <3>1 DEF MainOK
  <2>9. \A f \in DOMAIN c : c[f] = File(c[f].log, c[f].synced)
    BY <1>4, <2>5, <2>6
  <2>10. DiskOK(b, c, ln, st, g, x)
    <3>1. ~Rewriting(b)
      BY <2>4 DEF Rewriting
    <3> QED
      BY <1>4, <1>5, <2>4, <2>5, <2>8, <2>9, <3>1 DEF DiskOK
  <2>11. Synced(a, d, st, g, x, r)
    BY <1>4, <1>5, <1>6, <2>2, <2>3, <2>5, <2>6 DEF Synced
  <2> QED
    BY <2>2, <2>10, <2>11
<1> QED
  BY <1>7, <1>8

(***************************************************************************)
(* The start.                                                              *)
(***************************************************************************)
LEMMA EmptyMail ==
  /\ <<>> \in Seq(Message) /\ DOMAIN <<>> = {} /\ MailParts(<<>>) = {} /\ Asking(<<>>) = {}
  /\ \A i : ~IsSync(<<>>, i)
<1>1. <<>> \in Seq(Message) /\ DOMAIN <<>> = {}
  OBVIOUS
<1> QED
  BY <1>1 DEF MailParts, Asking, IsSync

Fresh(p, a) ==
  /\ a.begin = p.last + 1 /\ a.pending = {} /\ a.busy = FALSE /\ a.events = p
  /\ a.buffer = <<>> /\ a.need_sync = FALSE /\ a.waits = {} /\ a.promises = {}
  /\ a.stage = "run" /\ Shaped(a) /\ TimerOK(a) /\ BusyOK(a)

\* A new actor has nothing to do.
LEMMA NewActorIs ==
  ASSUME NEW p, p.last \in Nat
  PROVE  Fresh(p, NewActor(p))
<1> DEFINE a == NewActor(p)
<1>1. /\ a.begin = p.last + 1 /\ a.pending = {} /\ a.busy = FALSE /\ a.events = p
      /\ a.buffer = <<>> /\ a.need_sync = FALSE /\ a.waits = {} /\ a.promises = {}
      /\ a.stage = "run" /\ a.lazy = FALSE /\ a.force = FALSE /\ a.flush = FALSE
  BY DEF NewActor
<1>2. Shaped(a)
  BY DEF NewActor, Shaped, Stages
<1>3. TimerOK(a) /\ BusyOK(a)
  BY <1>1 DEF TimerOK, BusyOK, Rewriting, Ready
<1> QED
  BY <1>1, <1>2, <1>3 DEF Fresh

Started(p, d, since) ==
  /\ p.last \in Nat /\ MapOK(Contents(p), p.last)
  /\ since[Len(since)] = Values(Contents(p))
  /\ AskedOK(<<>>, since, Len(since))
  /\ \E ms, at, h :
       /\ Runs(NewActor(p), <<>>, {}, p.last + 1, d, since, Len(since), <<>>, ms, at, h)
       /\ ms[p.last] = Contents(p)

\* What is read from the file is a moment, the last of line.
LEMMA Starts ==
  ASSUME NEW since \in Seq(Moments), since # <<>>, NEW d, DOMAIN d \subseteq {"main", "new"},
         \A f \in DOMAIN d : d[f] = File(d[f].log, d[f].synced), "main" \in DOMAIN d,
         NEW g, Follows(d["main"].log, d["main"].synced, since, g, Len(since)),
         g[Len(d["main"].log)] = Len(since), NEW p, p = DoEvents(d["main"].log)
  PROVE  Started(p, d, since)
<1> DEFINE l == d["main"].log
           k == d["main"].synced
           a == NewActor(p)
           z == Len(since)
           q == p.last + 1
           ms == [i \in Nat |-> Contents(p)]
           at == [i \in Nat |-> z]
<1>1. l \in Seq(EntryOK) /\ k \in 0..Len(l) /\ Follows(l, k, since, g, z) /\ g[Len(l)] = z
  BY DEF Follows
<1>2. z \in Nat \ {0}
  OBVIOUS
<1>3. EventsTyped(p) /\ p.last \in Nat
  BY <1>1, LoadTyped DEF EventsTyped
<1>4. Finds(l, since[z])
  BY <1>1, FollowsWhole
<1> HIDE DEF l, k, z
<1>5. OneEach(p) /\ Values(Contents(p)) = since[z]
  BY <1>4 DEF Finds, l
<1>6. MapOK(Contents(p), p.last)
  BY <1>3, <1>5, ContentsOK
<1>7. \A i \in Nat : ms[i] = Contents(p) /\ at[i] = z
  OBVIOUS
<1> HIDE DEF ms, at, a, q
<1>8. /\ a.begin = p.last + 1 /\ a.pending = {} /\ a.busy = FALSE /\ a.events = p
      /\ a.buffer = <<>> /\ a.need_sync = FALSE /\ a.waits = {} /\ a.promises = {}
      /\ a.stage = "run" /\ BusyOK(a)
  <2>1. a = NewActor(p)
    BY DEF a
  <2> QED
    BY <1>3, <2>1, NewActorIs DEF Fresh
<1>9. q \in Nat /\ q - 1 = p.last /\ a.begin = q /\ q \in 1..q
  BY <1>3, <1>8 DEF q
<1>10. Way(a, <<>>, {}) = {}
  BY <1>8, EmptyMail DEF Way
<1>11. Numbered(a, <<>>, {}, q)
  BY <1>8, <1>9, <1>10, EmptyMail DEF Numbered
<1>12. Chain({}, q, q, since, ms, at)
  <2>1. \A n \in q - 1..q - 1 : n = p.last
    <3> DEFINE i == p.last
    <3>1. i \in Nat /\ q - 1 = i
      BY <1>3, <1>9
    <3> HIDE DEF i
    <3>2. \A n \in q - 1..q - 1 : n = i
      BY <3>1
    <3> QED
      BY <3>2 DEF i
  <2>2. ms[p.last] = Contents(p) /\ at[p.last] = z
    BY <1>3, <1>7
  <2>3. \A n \in q - 1..q - 1 :
          at[n] \in 1..Len(since) /\ since[at[n]] = Values(ms[n]) /\ MapOK(ms[n], n)
    BY <1>2, <1>5, <1>6, <2>1, <2>2 DEF z
  <2>4. \A m, n \in q - 1..q - 1 : m <= n => at[m] <= at[n]
    BY <1>2, <2>1, <2>2
  <2>5. at[q - 1] = Len(since)
    BY <1>9, <2>2 DEF z
  <2> QED
    BY <2>3, <2>4, <2>5 DEF Chain
<1>13. DiskOK(a, d, since, z, g, at[a.begin - 1])
  <2>1. l \o <<>> = l /\ <<>> \in Seq(EntryOK) /\ at[a.begin - 1] = z
    <3>1. at[p.last] = z
      BY <1>3, <1>7
    <3> QED
      BY <1>1, <1>9, <3>1, ConcatIs
  <2>2. MainOK(a, d, since, z, g, z)
    <3>1. DoEvents(l).live = a.events.live
      BY <1>8 DEF l
    <3>2. g[Len(l)] <= z
      BY <1>1, <1>2
    <3>3. d["main"].log = l /\ d["main"].synced = k
      BY DEF l, k
    <3> QED
      BY <1>1, <1>8, <2>1, <3>1, <3>2, <3>3 DEF MainOK
  <2>3. ~Rewriting(a)
    BY <1>8 DEF Rewriting
  <2> QED
    BY <1>8, <2>1, <2>2, <2>3 DEF DiskOK
<1>14. PromisesOnce(a, <<>>, {}, <<>>)
  BY <1>8, EmptyMail DEF PromisesOnce, Waiting, Carried
<1>15. Reached(a, <<>>, {}, q, <<>>, at)
  BY <1>8, EmptyMail DEF Reached
<1>16. a.events.last < a.begin /\ ms[a.begin - 1] = Contents(p) /\ ms[p.last] = Contents(p)
  <2>1. ms[p.last] = Contents(p)
    BY <1>3, <1>7
  <2> QED
    BY <1>3, <1>8, <1>9, <2>1
<1>17. Runs(a, <<>>, {}, q, d, since, z, <<>>, ms, at, g)
  BY <1>3, <1>5, <1>8, <1>9, <1>10, <1>11, <1>12, <1>13, <1>14, <1>15, <1>16 DEF Runs
<1>18. AskedOK(<<>>, since, z)
  <2>1. DOMAIN <<>> = {}
    OBVIOUS
  <2>2. <<>> = [i \in {} |-> <<>>[i]]
    OBVIOUS
  <2>3. <<>> \in [DOMAIN <<>> -> 1..Len(since)]
    BY <2>1, <2>2
  <2> QED
    BY <2>1, <2>3 DEF AskedOK
<1>19. /\ Runs(NewActor(p), <<>>, {}, p.last + 1, d, since, Len(since), <<>>, ms, at, g)
       /\ ms[p.last] = Contents(p)
  BY <1>16, <1>17 DEF a, q, z
<1>20. since[Len(since)] = Values(Contents(p)) /\ AskedOK(<<>>, since, Len(since))
  BY <1>5, <1>18 DEF z
<1> QED
  BY <1>3, <1>6, <1>19, <1>20, Zenon DEF Started

\* What a crash leaves is a moment, with all that was synced before it.
At(ln, v) == {i \in DOMAIN ln : ln[i] = v}

Back(ln, v) == SubSeq(ln, 1, Max(At(ln, v)))

Survived(ln, l, j, v) ==
  /\ At(ln, v) # {}
  /\ \E n \in 1..Len(ln) : Back(ln, v) = SubSeq(ln, 1, n)
  /\ Back(ln, v) \in Seq(Moments) /\ Back(ln, v) # <<>>
  /\ \E h : /\ Follows(l, j, Back(ln, v), h, Len(Back(ln, v)))
            /\ h[Len(l)] = Len(Back(ln, v))

\* The line ends at the last moment with the values of what is left.
LEMMA Survives ==
  ASSUME NEW ln \in Seq(Moments), NEW l, NEW k, NEW g, NEW x \in Nat, x <= Len(ln),
         Follows(l, k, ln, g, x), NEW j \in k..Len(l), NEW v, Finds(l, v), v = ln[g[Len(l)]]
  PROVE  Survived(ln, l, j, v)
<1> DEFINE S == At(ln, v)
           n == Max(S)
           u == Back(ln, v)
           h == [i \in Nat |-> IF i = Len(l) THEN n ELSE g[i]]
<1>1. l \in Seq(EntryOK) /\ k \in 0..Len(l) /\ Len(l) \in Nat /\ Len(ln) \in Nat /\ DOMAIN ln = 1..Len(ln)
  BY LenProperties DEF Follows
<1>2. g[Len(l)] \in 1..x
  BY FollowsWhole
<1>3. g[Len(l)] \in S
  BY <1>1, <1>2 DEF At
<1>4. n \in S /\ \A i \in S : i <= n
  <2>1. S \in SUBSET (0..Len(ln)) /\ S # {}
    BY <1>1, <1>3 DEF At
  <2> HIDE DEF S
  <2> QED
    BY <1>1, <2>1, MaxOf
<1>5. n \in 1..Len(ln) /\ ln[n] = v /\ g[Len(l)] <= n
  BY <1>1, <1>3, <1>4 DEF At
<1>6. u = SubSeq(ln, 1, n)
  BY DEF Back
<1> HIDE DEF n, u
<1>7. u \in Seq(Moments) /\ Len(u) = n /\ \A i \in 1..n : u[i] = ln[i]
  <2>1. n \in 0..Len(ln)
    BY <1>5
  <2> QED
    BY <1>6, <2>1, Prefix
<1>8. \A i \in Nat : h[i] = IF i = Len(l) THEN n ELSE g[i]
  OBVIOUS
<1> HIDE DEF h, S
<1>9. Follows(l, j, u, h, n)
  <2> DEFINE z == g[Len(l)]
  <2>1. z \in Nat /\ z <= n /\ n \in Nat /\ n # 0
    BY <1>2, <1>5
  <2>2. Follows(l, k, ln, g, z)
    <3>1. \A i \in k..Len(l) : g[i] \in 1..x /\ g[i] <= z /\ Finds(SubSeq(l, 1, i), ln[g[i]])
      <4>1. Len(l) \in k..Len(l) /\ \A i \in k..Len(l) : i <= Len(l)
        BY <1>1
      <4> QED
        BY <4>1 DEF Follows
    <3>2. \A i \in k..Len(l) : g[i] \in 1..z
      BY <2>1, <3>1
    <3> QED
      BY <1>1, <3>1, <3>2 DEF Follows
  <2> HIDE DEF z
  <2>3. \A i \in 1..z : u[i] = ln[i]
    BY <1>7, <2>1
  <2>4. \A i \in j..Len(l) - 1 : h[i] = g[i]
    BY <1>1, <1>8
  <2>5. h[Len(l)] = n /\ Finds(l, u[n])
    BY <1>1, <1>5, <1>7, <1>8
  <2> QED
    BY <2>1, <2>2, <2>3, <2>4, <2>5, FollowsLater
<1>10. h[Len(l)] = n /\ u # <<>>
  BY <1>1, <1>5, <1>7, <1>8
<1>11. /\ At(ln, v) # {} /\ \E i \in 1..Len(ln) : u = SubSeq(ln, 1, i)
  BY <1>3, <1>5, <1>6 DEF S
<1>12. u \in Seq(Moments) /\ u # <<>> /\ \E f : Follows(l, j, u, f, Len(u)) /\ f[Len(l)] = Len(u)
  BY <1>7, <1>9, <1>10
<1> QED
  BY <1>11, <1>12, Zenon DEF u, Survived

(***************************************************************************)
(* The map changes, and a promise is asked for.                            *)
(***************************************************************************)
LEMMA DiskLonger ==
  ASSUME NEW a, NEW d, NEW ln, NEW st, NEW g, NEW x \in Nat, DiskOK(a, d, ln, st, g, x),
         NEW li, \A i \in 1..x : li[i] = ln[i]
  PROVE  DiskOK(a, d, li, st, g, x)
<1>1. MainOK(a, d, ln, st, g, x) => MainOK(a, d, li, st, g, x)
  <2> HAVE MainOK(a, d, ln, st, g, x)
  <2> DEFINE l == d["main"].log \o a.buffer
             k == d["main"].synced
  <2>1. Follows(l, k, ln, g, x)
    BY DEF MainOK
  <2> HIDE DEF l, k
  <2>2. k \in k..Len(l)
    <3>1. l \in Seq(EntryOK) /\ k \in 0..Len(l)
      BY <2>1 DEF Follows
    <3>2. Len(l) \in Nat
      BY <3>1
    <3> QED
      BY <3>1, <3>2
  <2>3. Follows(l, k, li, g, x)
    BY <2>1, <2>2, FollowsLater
  <2> QED
    BY <2>3, Zenon DEF MainOK, l, k
<1> QED
  BY <1>1, Zenon DEF DiskOK

\* What was asked for stays well-formed when the line grows.
LEMMA AskedLonger ==
  ASSUME NEW ask, NEW ln, NEW st, AskedOK(ask, ln, st), Len(ln) \in Nat,
         NEW li, Len(li) \in Nat, Len(ln) <= Len(li)
  PROVE  AskedOK(ask, li, st)
<1>1. 1..Len(ln) \subseteq 1..Len(li)
  OBVIOUS
<1> QED
  BY <1>1 DEF AskedOK

\* What the numbers say of the parts on their way.
LEMMA WayIs ==
  ASSUME NEW a, NEW mb, NEW sd, NEW q, Numbered(a, mb, sd, q)
  PROVE  /\ q \in Nat \ {0} /\ a.begin \in 1..q /\ a.begin - 1 \in a.begin - 1..q - 1 /\ q - 1 \in a.begin - 1..q - 1
         /\ \A w \in Way(a, mb, sd) : w \in PartOf /\ w.seq \in a.begin..q - 1
         /\ mb \in Seq(Message)
<1>1. q \in Nat /\ a.begin \in 1..q /\ mb \in Seq(Message)
      /\ \A w \in Way(a, mb, sd) : w.seq \in a.begin..q - 1
  BY DEF Numbered
<1>2. q \in Nat \ {0} /\ a.begin - 1 \in a.begin - 1..q - 1 /\ q - 1 \in a.begin - 1..q - 1
  BY <1>1
<1>3. MailParts(mb) \subseteq PartOf
  <2>1. \A j \in DOMAIN mb : mb[j] \in Message
    BY <1>1
  <2> QED
    BY <2>1, MessageIs DEF MailParts
<1>4. \A w \in Way(a, mb, sd) : w \in PartOf
  BY <1>3 DEF Way, Numbered
<1> QED
  BY <1>1, <1>2, <1>4

\* The log goes on, and the map is m.
Running(a, mb, sd, q, d, ln, st, ask, m) ==
  \E ms, at, g : Runs(a, mb, sd, q, d, ln, st, ask, ms, at, g) /\ ms[q - 1] = m

\* The parts of a change are taken, or sent at once.
LEMMA RunsChange ==
  ASSUME NEW a, NEW mb, NEW sd, NEW q, NEW d, NEW ln \in Seq(Moments), NEW st, NEW ask,
         NEW ms, NEW at, NEW g, Runs(a, mb, sd, q, d, ln, st, ask, ms, at, g),
         a.waits \subseteq [seq : Nat, promise : Promise],
         NEW P, NEW maps, Changing(P, q, ms[q - 1], maps), NEW mb2, NEW sd2,
         \/ mb2 = mb /\ sd2 = sd \cup P
         \/ mb2 = Append(mb, Events(P)) /\ sd2 = sd
  PROVE  Running(a, mb2, sd2, q + Len(maps), d, Longer(ln, maps), st, ask, maps[Len(maps)])
<1> DEFINE W == Way(a, mb, sd)
           c == Len(maps)
           r == q + c
           V == W \cup P
           li == Longer(ln, maps)
<1>1. /\ Numbered(a, mb, sd, q) /\ Chain(W, a.begin, q, ln, ms, at)
      /\ EventsTyped(a.events) /\ OneEach(a.events)
      /\ a.events.last < a.begin /\ Contents(a.events) = ms[a.begin - 1]
      /\ DiskOK(a, d, ln, st, g, at[a.begin - 1])
      /\ PromisesOnce(a, mb, W, ask) /\ Reached(a, mb, W, q, ask, at) /\ BusyOK(a)
  BY DEF Runs
<1>2. /\ q \in Nat \ {0} /\ a.begin \in 1..q
      /\ a.begin - 1 \in a.begin - 1..q - 1 /\ q - 1 \in a.begin - 1..q - 1
      /\ \A w \in W : w \in PartOf /\ w.seq \in a.begin..q - 1
      /\ mb \in Seq(Message)
  BY <1>1, WayIs
<1>3. c \in Nat \ {0} /\ Taken(P, q, c) /\ \A w \in P : w.promise = Nothing
  BY DEF Changing
<1>4. P \subseteq PartOf
  BY <1>3 DEF Taken
<1> HIDE DEF W, c, r, V, li
<1>5. Way(a, mb2, sd2) = V /\ Numbered(a, mb2, sd2, q + c) /\ SameSyncs(mb, mb2)
  <2>1. CASE mb2 = mb /\ sd2 = sd \cup P
    <3>1. Way(a, mb, sd \cup P) = W \cup P /\ Numbered(a, mb, sd \cup P, q + c)
      BY <1>1, <1>3, NumberedTake DEF W
    <3>2. SameSyncs(mb, mb)
      BY DEF SameSyncs
    <3> QED
      BY <2>1, <3>1, <3>2 DEF V
  <2>2. CASE mb2 = Append(mb, Events(P)) /\ sd2 = sd
    <3>1. Way(a, Append(mb, Events(P)), sd) = W \cup P /\ Numbered(a, Append(mb, Events(P)), sd, q + c)
      BY <1>1, <1>3, NumberedMail DEF W
    <3>2. SameSyncs(mb, Append(mb, Events(P)))
      BY <1>2, <1>4, SyncsSame
    <3> QED
      BY <2>2, <3>1, <3>2 DEF V
  <2> QED
    BY <2>1, <2>2
<1>6. PICK ms2, at2 :
        /\ Chain(W \cup P, a.begin, q + Len(maps), Longer(ln, maps), ms2, at2)
        /\ Agree(a.begin, q, ms, at, ms2, at2)
        /\ ms2[(q + Len(maps)) - 1] = maps[Len(maps)]
  <2>1. q \in Nat /\ \A w \in W : w.seq \in a.begin..q - 1
    BY <1>2
  <2> QED
    <3> DEFINE b == a.begin
    <3>1. b \in 1..q /\ (\A w \in W : w.seq \in b..q - 1) /\ Chain(W, b, q, ln, ms, at)
      BY <1>1, <1>2
    <3>2. Changing(P, q, ms[q - 1], maps) /\ ln \in Seq(Moments)
      OBVIOUS
    <3> HIDE DEF b
    <3>3. GoesOn(W \cup P, b, q, q + Len(maps), Longer(ln, maps), ms, at, maps[Len(maps)])
      BY <2>1, <3>1, <3>2, ChainChanges
    <3>4. GoesOn(W \cup P, a.begin, q, q + Len(maps), Longer(ln, maps), ms, at, maps[Len(maps)])
      BY <3>3 DEF b
    <3> QED
      BY <3>4 DEF GoesOn
<1>7. ms2[a.begin - 1] = ms[a.begin - 1] /\ at2[a.begin - 1] = at[a.begin - 1]
      /\ \A n \in a.begin - 1..q - 1 : at2[n] = at[n]
  BY <1>2, <1>6 DEF Agree
<1>8. at[a.begin - 1] \in 1..Len(ln)
  BY <1>1, <1>2 DEF Chain
<1>9. \A i \in 1..Len(ln) : li[i] = ln[i]
  BY LongerAt DEF li
<1>10. DiskOK(a, d, li, st, g, at2[a.begin - 1])
  <2>1. at[a.begin - 1] \in Nat /\ \A i \in 1..at[a.begin - 1] : li[i] = ln[i]
    BY <1>8, <1>9
  <2>2. DiskOK(a, d, li, st, g, at[a.begin - 1])
    BY <1>1, <2>1, DiskLonger
  <2> QED
    BY <1>7, <2>2
<1>11. PromisesOnce(a, mb2, W \cup P, ask)
  BY <1>1, <1>3, <1>5, OnceMore
<1>12. Reached(a, mb2, W \cup P, r, ask, at2)
  <2>1. r \in Nat /\ q <= r /\ q \in Nat
    BY <1>2, <1>3 DEF r
  <2>2. \A w \in W : w.seq \in a.begin..q - 1
    BY <1>2
  <2> QED
    BY <1>1, <1>2, <1>3, <1>5, <1>7, <2>1, <2>2, ReachedMore
<1>13. Runs(a, mb2, sd2, r, d, li, st, ask, ms2, at2, g)
  <2>1. /\ Numbered(a, mb2, sd2, r) /\ Way(a, mb2, sd2) = W \cup P
    BY <1>5 DEF r, V
  <2>2. Chain(W \cup P, a.begin, r, li, ms2, at2)
    BY <1>6 DEF r, c, li
  <2>3. Contents(a.events) = ms2[a.begin - 1]
    BY <1>1, <1>7
  <2> QED
    BY <1>1, <1>10, <1>11, <1>12, <2>1, <2>2, <2>3, Zenon DEF Runs
<1>14. ms2[r - 1] = maps[Len(maps)]
  BY <1>6 DEF r, c
<1>15. Running(a, mb2, sd2, r, d, li, st, ask, maps[Len(maps)])
  BY <1>13, <1>14 DEF Running
<1> QED
  BY <1>15 DEF r, c, li

(***************************************************************************)
(* Each action preserves the invariant.                                    *)
(***************************************************************************)
\* What changes the map also makes it one moment longer, or more.
LEMMA RunningStory ==
  IsOpen(actor') /\ Running(actor', mailbox', sending', seq', disk', line', start', asked', map')
    => \E ms, at, g : Story(ms, at, g)'
<1> SUFFICES ASSUME IsOpen(actor'),
                    Running(actor', mailbox', sending', seq', disk', line', start', asked', map')
             PROVE  \E ms, at, g : Story(ms, at, g)'
  OBVIOUS
<1>1. PICK ms, at, g :
        /\ Runs(actor', mailbox', sending', seq', disk', line', start', asked', ms, at, g)
        /\ ms[seq' - 1] = map'
  BY Zenon DEF Running
<1>2. Story(ms, at, g)'
  BY <1>1, Zenon DEF Story
<1> QED
  BY <1>2

\* What changes the map also makes it one moment longer, or more.
LEMMA ChangeStep ==
  ASSUME IInv, NEW P, NEW maps, Changing(P, seq, map, maps), Changes(maps),
         \/ mailbox' = mailbox /\ sending' = sending \cup P
         \/ mailbox' = Append(mailbox, Events(P)) /\ sending' = sending
  PROVE  IInv'
<1>1. Typed /\ IsOpen(actor)
  BY DEF IInv, Changes, Calls, IsOpen
<1>2. PICK ms, at, g :
        /\ Runs(actor, mailbox, sending, seq, disk, line, start, asked, ms, at, g)
        /\ map = ms[seq - 1]
  BY <1>1, Zenon DEF IInv, Story
<1>3. /\ seq \in Nat \ {0} /\ MapOK(map, seq - 1)
      /\ line \in Seq(Moments) /\ line # <<>> /\ line[Len(line)] = Values(map)
      /\ start \in 1..Len(line) /\ AskedOK(asked, line, start)
      /\ Shaped(actor) /\ TimerOK(actor)
      /\ aborted = FALSE
  BY <1>1 DEF Typed
<1>4. /\ map' = maps[Len(maps)] /\ seq' = seq + Len(maps) /\ line' = Longer(line, maps)
      /\ actor' = actor /\ disk' = disk /\ aborted' = aborted /\ asked' = asked /\ start' = start
  BY Zenon DEF Changes, Longer
<1>5. actor.waits \subseteq [seq : Nat, promise : Promise]
  BY <1>3 DEF Shaped
<1>6. Running(actor, mailbox', sending', seq + Len(maps), disk, Longer(line, maps), start, asked, maps[Len(maps)])
  <2>1. Changing(P, seq, ms[seq - 1], maps)
    BY <1>2
  <2> QED
    BY <1>2, <1>3, <1>5, <2>1, RunsChange
<1>7. /\ Longer(line, maps) \in Seq(Moments) /\ Len(line) \in Nat
      /\ Len(Longer(line, maps)) = Len(line) + Len(maps)
      /\ Longer(line, maps)[Len(line) + Len(maps)] = Values(maps[Len(maps)])
      /\ Len(maps) \in Nat \ {0}
  <2>1. Len(maps) \in 1..Len(maps) /\ Len(maps) \in Nat \ {0}
    BY DEF Changing
  <2> QED
    BY <1>3, <2>1, LongerAt
<1>8. \E ms2, at2, g2 : Story(ms2, at2, g2)'
  <2>1. Running(actor', mailbox', sending', seq', disk', line', start', asked', map')
    BY <1>4, <1>6
  <2> QED
    BY <1>1, <1>4, <2>1, RunningStory
<1>9. Typed'
  <2>1. seq' \in Nat \ {0} /\ seq' - 1 = seq + Len(maps) - 1
    BY <1>3, <1>4, <1>7
  <2>2. MapOK(map', seq' - 1)
    <3>1. MapOK(maps[Len(maps)], seq + Len(maps) - 1)
      BY <1>7 DEF Changing
    <3> QED
      BY <1>4, <2>1, <3>1
  <2>3. line' \in Seq(Moments) /\ line' # <<>> /\ line'[Len(line')] = Values(map')
        /\ start' \in 1..Len(line') /\ Len(line) <= Len(line') /\ Len(line') \in Nat
    BY <1>3, <1>4, <1>7
  <2>4. AskedOK(asked', line', start')
    BY <1>3, <1>4, <1>7, <2>3, AskedLonger
  <2> QED
    BY <1>3, <1>4, <2>1, <2>2, <2>3, <2>4 DEF Typed
<1> QED
  BY <1>8, <1>9, Zenon DEF IInv

\* Set keeps the inductive invariant.
LEMMA SetStep ==
  ASSUME IInv, NEW k \in Key, NEW v \in Value[k], Set(k, v)
  PROVE  IInv'
<1>1. seq \in Nat \ {0} /\ MapOK(map, seq - 1)
  BY DEF IInv, Typed
<1>2. CASE k \in DOMAIN map
  <2> DEFINE P == {Part(seq, Rewrite(map[k].id, k, v), Nothing)}
             maps == <<[map EXCEPT ![k].value = v]>>
  <2>1. Changes(maps) /\ sending' = sending \cup P /\ mailbox' = mailbox
    BY <1>2 DEF Set, Takes
  <2>2. Changing(P, seq, map, maps)
    BY <1>1, <1>2, SetAgain
  <2> HIDE DEF P, maps
  <2> QED
    BY <2>1, <2>2, ChangeStep
<1>3. CASE k \notin DOMAIN map
  <2> DEFINE P == {Part(seq, Add(seq, k, v), Nothing)}
             maps == <<With(map, k, [value |-> v, id |-> seq])>>
  <2>1. Changes(maps) /\ sending' = sending \cup P /\ mailbox' = mailbox
    BY <1>3 DEF Set, Takes
  <2>2. Changing(P, seq, map, maps)
    BY <1>1, <1>3, SetNew
  <2> HIDE DEF P, maps
  <2> QED
    BY <2>1, <2>2, ChangeStep
<1> QED
  BY <1>2, <1>3

\* EraseKey keeps the inductive invariant.
LEMMA EraseStep ==
  ASSUME IInv, NEW k \in Key, EraseKey(k)
  PROVE  IInv'
<1>1. seq \in Nat \ {0} /\ MapOK(map, seq - 1) /\ k \in DOMAIN map
  BY DEF IInv, Typed, EraseKey
<1> DEFINE P == {Part(seq, Erase(map[k].id), Nothing)}
           maps == <<Restrict(map, DOMAIN map \ {k})>>
<1>2. Changes(maps) /\ sending' = sending \cup P /\ mailbox' = mailbox
  BY DEF EraseKey, Takes
<1>3. Changing(P, seq, map, maps)
  BY <1>1, EraseOne
<1> HIDE DEF P, maps
<1> QED
  BY <1>2, <1>3, ChangeStep

\* EraseBatch keeps the inductive invariant.
LEMMA EraseBatchStep ==
  ASSUME IInv, NEW S \in SUBSET Key, EraseBatch(S)
  PROVE  IInv'
<1>1. seq \in Nat \ {0} /\ MapOK(map, seq - 1) /\ S \in SUBSET DOMAIN map /\ S # {}
  BY DEF IInv, Typed, EraseBatch
<1> DEFINE P == BatchParts(map, S, seq)
           maps == BatchMaps(map, S)
<1>2. Changes(maps) /\ sending' = sending /\ mailbox' = Append(mailbox, Events(P))
  BY Zenon DEF EraseBatch, BatchParts, BatchMaps, BatchIds, Gone
<1>3. Changing(P, seq, map, maps)
  BY <1>1, BatchChanges
<1> HIDE DEF P, maps
<1> QED
  BY <1>2, <1>3, ChangeStep

\* Send keeps the inductive invariant.
LEMMA SendStep ==
  ASSUME IInv, NEW w \in sending, Send(w), IsOpen(actor)
  PROVE  IInv'
<1> DEFINE W == Way(actor, mailbox, sending)
           b == actor.begin
           mb2 == Append(mailbox, Events({w}))
           sd2 == sending \ {w}
<1>1. Typed
  BY DEF IInv
<1>2. PICK ms, at, g :
        /\ Runs(actor, mailbox, sending, seq, disk, line, start, asked, ms, at, g)
        /\ map = ms[seq - 1]
  BY Zenon DEF IInv, Story
<1>3. /\ Numbered(actor, mailbox, sending, seq) /\ Chain(W, b, seq, line, ms, at)
      /\ EventsTyped(actor.events) /\ OneEach(actor.events)
      /\ actor.events.last < b /\ Contents(actor.events) = ms[b - 1]
      /\ DiskOK(actor, disk, line, start, g, at[b - 1])
      /\ PromisesOnce(actor, mailbox, W, asked) /\ Reached(actor, mailbox, W, seq, asked, at)
      /\ BusyOK(actor)
  BY <1>2 DEF Runs
<1>4. /\ seq \in Nat \ {0} /\ b \in 1..seq
      /\ \A v \in W : v \in PartOf /\ v.seq \in b..seq - 1
      /\ mailbox \in Seq(Message)
  BY <1>3, WayIs
<1>5. mailbox' = mb2 /\ sending' = sd2
      /\ UNCHANGED <<map, seq, actor, disk, aborted, line, asked, start>>
  BY DEF Send
<1>6. Way(actor, mb2, sd2) = W /\ Numbered(actor, mb2, sd2, seq)
  BY <1>3, NumberedSend
<1> HIDE DEF W, b, mb2, sd2
<1>7. SameSyncs(mailbox, mb2)
  <2>1. {w} \in SUBSET PartOf
    BY <1>3 DEF Numbered
  <2> QED
    BY <1>4, <2>1, SyncsSame DEF mb2
<1>8. W \cup {} = W
  OBVIOUS
<1>9. PromisesOnce(actor, mb2, W, asked)
  <2>1. PromisesOnce(actor, mb2, W \cup {}, asked)
    BY <1>3, <1>7, OnceMore
  <2> QED
    BY <1>8, <2>1
<1>10. Reached(actor, mb2, W, seq, asked, at)
  <2>1. actor.waits \subseteq [seq : Nat, promise : Promise]
    BY <1>1 DEF Typed, Shaped
  <2>2. seq \in Nat /\ seq <= seq /\ actor.begin \in 1..seq
        /\ \A v \in W : v.seq \in actor.begin..seq - 1
    BY <1>4 DEF b
  <2>3. Reached(actor, mb2, W \cup {}, seq, asked, at)
    BY <1>3, <1>7, <2>1, <2>2, ReachedMore
  <2> QED
    BY <1>8, <2>3
<1>11. Runs(actor, mb2, sd2, seq, disk, line, start, asked, ms, at, g)
  BY <1>3, <1>6, <1>9, <1>10, Zenon DEF Runs, b
<1>12. Running(actor', mailbox', sending', seq', disk', line', start', asked', map')
  <2>1. Running(actor, mb2, sd2, seq, disk, line, start, asked, map)
    BY <1>2, <1>11 DEF Running
  <2> QED
    BY <1>5, <2>1
<1>13. Typed'
  BY <1>1, <1>5 DEF Typed
<1> QED
  BY <1>5, <1>12, <1>13, RunningStory DEF IInv

\* A moment that was asked for.
LEMMA AskedMore ==
  ASSUME NEW ask, NEW ln, NEW st \in Nat, Len(ln) \in Nat \ {0}, AskedOK(ask, ln, st),
         NEW p \in Promise, NEW n \in 1..Len(ln), NEW x, x = IF n > st THEN n ELSE 1
  PROVE  /\ AskedOK(With(ask, p, x), ln, st) /\ x \in 1..Len(ln) /\ x <= n
<1> DEFINE f == With(ask, p, x)
<1>1. x \in 1..Len(ln) /\ x <= n /\ (x = 1 \/ x > st)
  OBVIOUS
<1>2. DOMAIN f = DOMAIN ask \cup {p} /\ f[p] = x /\ (\A z \in DOMAIN ask \ {p} : f[z] = ask[z])
      /\ f = [z \in DOMAIN f |-> f[z]]
  BY DEF With
<1> HIDE DEF f
<1>3. \A z \in DOMAIN ask : ask[z] \in 1..Len(ln) /\ (ask[z] = 1 \/ ask[z] > st)
  BY DEF AskedOK
<1>4. \A z \in DOMAIN f : f[z] \in 1..Len(ln) /\ (f[z] = 1 \/ f[z] > st)
  BY <1>1, <1>2, <1>3
<1>5. DOMAIN f \subseteq Promise
  BY <1>2 DEF AskedOK
<1>6. f \in [DOMAIN f -> 1..Len(ln)]
  BY <1>2, <1>4
<1>7. AskedOK(f, ln, st)
  BY <1>4, <1>5, <1>6 DEF AskedOK
<1> QED
  BY <1>1, <1>7 DEF f

\* AskForceSync keeps the inductive invariant.
LEMMA AskForceStep ==
  ASSUME IInv, NEW p \in Promise, AskForceSync(p)
  PROVE  IInv'
<1> DEFINE W == Way(actor, mailbox, sending)
           b == actor.begin
           mb2 == Append(mailbox, ForceSync(p))
           x == IF Returned > start THEN Returned ELSE 1
           f == With(asked, p, x)
<1>1. Typed /\ IsOpen(actor) /\ p \notin DOMAIN asked
  BY DEF IInv, AskForceSync, Asks, Calls, IsOpen
<1>2. PICK ms, at, g :
        /\ Runs(actor, mailbox, sending, seq, disk, line, start, asked, ms, at, g)
        /\ map = ms[seq - 1]
  BY <1>1, Zenon DEF IInv, Story
<1>3. /\ Numbered(actor, mailbox, sending, seq) /\ Chain(W, b, seq, line, ms, at)
      /\ EventsTyped(actor.events) /\ OneEach(actor.events)
      /\ actor.events.last < b /\ Contents(actor.events) = ms[b - 1]
      /\ DiskOK(actor, disk, line, start, g, at[b - 1])
      /\ PromisesOnce(actor, mailbox, W, asked) /\ Reached(actor, mailbox, W, seq, asked, at)
      /\ BusyOK(actor)
  BY <1>2 DEF Runs
<1>4. /\ seq \in Nat \ {0} /\ b \in 1..seq
      /\ mailbox \in Seq(Message)
  BY <1>3, WayIs
<1>5. mailbox' = mb2 /\ asked' = f
      /\ UNCHANGED <<map, seq, sending, actor, disk, aborted, line, start>>
  BY DEF AskForceSync, Asks
<1>6. Way(actor, mb2, sending) = W /\ Numbered(actor, mb2, sending, seq)
  BY <1>3, NumberedAsk
<1>7. /\ AskedOK(asked, line, start) /\ start \in Nat /\ Len(line) \in Nat \ {0}
  BY <1>1 DEF Typed
<1>8. Returned \in 1..Len(line) /\
      \E n \in 0..seq - 1 :
        /\ Returned <= Moment(at, b, n)
        /\ n < b \/ \E w \in actor.pending \cup MailParts(mailbox) : w.seq = n
  BY <1>3, <1>7, ReturnedAt
<1> HIDE DEF W, b, mb2, x, f
<1>9. AskedOK(f, line, start) /\ x \in 1..Len(line) /\ x <= Returned
  BY <1>7, <1>8, AskedMore DEF f, x
<1>10. PICK n \in 0..seq - 1 :
        /\ x <= Moment(at, b, n)
        /\ n < b \/ \E w \in actor.pending \cup MailParts(mailbox) : w.seq = n
  <2>1. PICK n \in 0..seq - 1 :
          /\ Returned <= Moment(at, b, n)
          /\ n < b \/ \E w \in actor.pending \cup MailParts(mailbox) : w.seq = n
    BY <1>8
  <2>2. Moment(at, b, n) \in 1..Len(line)
    <3>1. n \in n..seq - 1 /\ seq \in Nat
      BY <1>4
    <3> QED
      BY <1>3, <1>4, <1>7, <3>1, MomentGrows
  <2>3. x <= Moment(at, b, n)
    BY <1>8, <1>9, <2>1, <2>2
  <2> QED
    BY <2>1, <2>3
<1>11. PromisesOnce(actor, mb2, W, f)
  BY <1>1, <1>3, <1>4, OnceForce DEF f, mb2
<1>12. Reached(actor, mb2, W, seq, f, at)
  <2>1. seq \in Nat /\ actor.begin \in 1..seq
    BY <1>4 DEF b
  <2>2. /\ x <= Moment(at, actor.begin, n)
        /\ n < actor.begin \/ \E w \in actor.pending \cup MailParts(mailbox) : w.seq = n
    BY <1>10 DEF b
  <2> QED
    BY <1>1, <1>3, <1>4, <2>1, <2>2, ReachedForce DEF f, mb2
<1>13. Runs(actor, mb2, sending, seq, disk, line, start, f, ms, at, g)
  BY <1>3, <1>6, <1>11, <1>12, Zenon DEF Runs, b
<1>14. Running(actor', mailbox', sending', seq', disk', line', start', asked', map')
  <2>1. Running(actor, mb2, sending, seq, disk, line, start, f, map)
    BY <1>2, <1>13 DEF Running
  <2> QED
    BY <1>5, <2>1
<1>15. Typed'
  BY <1>1, <1>5, <1>9 DEF Typed
<1> QED
  BY <1>1, <1>5, <1>14, <1>15, RunningStory DEF IInv

\* AskLazySync keeps the inductive invariant.
LEMMA AskLazyStep ==
  ASSUME IInv, NEW p \in Promise, AskLazySync(p)
  PROVE  IInv'
<1> DEFINE W == Way(actor, mailbox, sending)
           b == actor.begin
           w == Part(seq, Nothing, p)
           sd2 == sending \cup {w}
           x == IF Len(line) > start THEN Len(line) ELSE 1
           f == With(asked, p, x)
<1>1. Typed /\ IsOpen(actor) /\ p \notin DOMAIN asked
  BY DEF IInv, AskLazySync, Asks, Calls, IsOpen
<1>2. PICK ms, at, g :
        /\ Runs(actor, mailbox, sending, seq, disk, line, start, asked, ms, at, g)
        /\ map = ms[seq - 1]
  BY <1>1, Zenon DEF IInv, Story
<1>3. /\ Numbered(actor, mailbox, sending, seq) /\ Chain(W, b, seq, line, ms, at)
      /\ EventsTyped(actor.events) /\ OneEach(actor.events)
      /\ actor.events.last < b /\ Contents(actor.events) = ms[b - 1]
      /\ DiskOK(actor, disk, line, start, g, at[b - 1])
      /\ PromisesOnce(actor, mailbox, W, asked) /\ Reached(actor, mailbox, W, seq, asked, at)
      /\ BusyOK(actor)
  BY <1>2 DEF Runs
<1>4. /\ seq \in Nat \ {0} /\ b \in 1..seq /\ b - 1 \in b - 1..seq - 1
      /\ \A v \in W : v \in PartOf /\ v.seq \in b..seq - 1
  BY <1>3, WayIs
<1>5. sending' = sd2 /\ asked' = f /\ seq' = seq + 1
      /\ UNCHANGED <<map, mailbox, actor, disk, aborted, line, start>>
  BY DEF AskLazySync, Asks, Takes
<1>6. w \in PartOf /\ w.seq = seq /\ w.entry = Nothing /\ w.promise = p
  BY <1>4, PartIs
<1>7. /\ AskedOK(asked, line, start) /\ start \in Nat /\ Len(line) \in Nat \ {0}
      /\ MapOK(map, seq - 1)
  BY <1>1 DEF Typed
<1> HIDE DEF W, b, w, sd2, x, f
<1>8. Way(actor, mailbox, sd2) = W \cup {w} /\ Numbered(actor, mailbox, sd2, seq + 1)
  <2>1. Taken({w}, seq, 1)
    <3>1. seq..seq + 1 - 1 = {seq}
      BY <1>4
    <3> QED
      BY <1>6, <3>1 DEF Taken
  <2>2. 1 \in Nat
    OBVIOUS
  <2> QED
    BY <1>3, <2>1, <2>2, NumberedTake DEF W, sd2
<1>9. GoesOn(W \cup {w}, b, seq, seq + 1, line, ms, at, ms[seq - 1])
  <2>1. seq \in Nat /\ Len(line) \in Nat /\ \A v \in W : v.seq \in b..seq - 1
    BY <1>4, <1>7
  <2> QED
    BY <1>3, <1>4, <1>6, <2>1, ChainAsks
<1>10. PICK ms2, at2 : /\ Chain(W \cup {w}, b, seq + 1, line, ms2, at2) /\ Agree(b, seq, ms, at, ms2, at2)
                       /\ ms2[(seq + 1) - 1] = ms[seq - 1]
  BY <1>9 DEF GoesOn
<1>11. /\ ms2[b - 1] = ms[b - 1] /\ at2[b - 1] = at[b - 1]
       /\ \A n \in b - 1..seq - 1 : at2[n] = at[n]
  BY <1>4, <1>10 DEF Agree
<1>12. AskedOK(f, line, start) /\ x <= Len(line)
  <2>1. Len(line) \in 1..Len(line)
    BY <1>7
  <2> QED
    BY <1>7, <2>1, AskedMore DEF f, x
<1>13. at2[seq] = Len(line)
  <2>1. (seq + 1) - 1 = seq
    BY <1>4
  <2> QED
    BY <1>10, <2>1 DEF Chain
<1>14. PromisesOnce(actor, mailbox, W \cup {w}, f)
  BY <1>1, <1>3, <1>6, OnceLazy DEF f
<1>15. Reached(actor, mailbox, W \cup {w}, seq + 1, f, at2)
  <2>1. seq \in Nat /\ actor.begin \in 1..seq /\ \A v \in W : v.seq \in actor.begin..seq - 1
    BY <1>4 DEF b
  <2>2. actor.waits \subseteq [seq : Nat, promise : Promise]
    BY <1>1 DEF Typed, Shaped
  <2>3. \A n \in actor.begin - 1..seq - 1 : at2[n] = at[n]
    BY <1>11 DEF b
  <2>4. w.promise \in Promise /\ w.promise \notin DOMAIN asked /\ x <= at2[seq]
    BY <1>1, <1>6, <1>12, <1>13
  <2>5. Reached(actor, mailbox, W \cup {w}, seq + 1, With(asked, w.promise, x), at2)
    BY <1>3, <1>6, <2>1, <2>2, <2>3, <2>4, ReachedLazy
  <2> QED
    BY <1>6, <2>5 DEF f
<1>16. Runs(actor, mailbox, sd2, seq + 1, disk, line, start, f, ms2, at2, g)
  <2>1. DiskOK(actor, disk, line, start, g, at2[b - 1]) /\ Contents(actor.events) = ms2[b - 1]
    BY <1>3, <1>11
  <2> QED
    BY <1>3, <1>8, <1>10, <1>14, <1>15, <2>1, Zenon DEF Runs, b
<1>17. Running(actor', mailbox', sending', seq', disk', line', start', asked', map')
  <2>1. Running(actor, mailbox, sd2, seq + 1, disk, line, start, f, map)
    BY <1>2, <1>10, <1>16 DEF Running
  <2> QED
    BY <1>5, <2>1
<1>18. MapOK(map, (seq + 1) - 1)
  <2>1. seq - 1 \in Nat /\ (seq + 1) - 1 \in Nat /\ seq - 1 <= (seq + 1) - 1
    BY <1>4
  <2> QED
    BY <1>7, <2>1, MapLater
<1>19. Typed'
  <2>1. seq' \in Nat \ {0} /\ MapOK(map', seq' - 1)
    BY <1>4, <1>5, <1>18
  <2> QED
    BY <1>1, <1>5, <1>12, <2>1 DEF Typed
<1> QED
  BY <1>1, <1>5, <1>17, <1>19, RunningStory DEF IInv

\* The actor apart from the promises and the timer.
SameRest(a, b) ==
  /\ b.begin = a.begin /\ b.pending = a.pending /\ b.busy = a.busy
  /\ SameFiles(a, b)

\* Promises come to those that wait for the sync, and the timer is set.
LEMMA ImmediateIs ==
  ASSUME NEW a, Shaped(a), TimerOK(a), NEW S \in SUBSET Promise, NEW b, b = DoImmediateSync(a, S)
  PROVE  /\ Shaped(b) /\ TimerOK(b) /\ SameRest(a, b) /\ b.waits = a.waits
         /\ b.promises = a.promises \cup S
<1>1. CASE S = {}
  <2>1. b = a
    BY <1>1 DEF DoImmediateSync
  <2> QED
    BY <1>1, <2>1 DEF SameRest, SameFiles
<1>2. CASE S # {}
  <2> DEFINE t == (a.timer \/ ~a.force)
  <2>1. t \in BOOLEAN
    OBVIOUS
  <2>2. b = [a EXCEPT !.promises = a.promises \cup S, !.force = TRUE, !.timer = t]
    BY <1>2 DEF DoImmediateSync
  <2>3. t = TRUE
    BY DEF Shaped, TimerOK
  <2> HIDE DEF t
  <2>4. a.promises \cup S \in SUBSET Promise
    BY DEF Shaped
  <2>5. Shaped(b)
    BY <2>1, <2>2, <2>4 DEF Shaped
  <2>6. /\ SameRest(a, b) /\ b.waits = a.waits /\ b.promises = a.promises \cup S /\ b.timer = t
        /\ b.force
    BY <2>2 DEF Shaped, SameRest, SameFiles
  <2>7. TimerOK(b)
    BY <2>3, <2>6 DEF TimerOK
  <2> QED
    BY <2>5, <2>6, <2>7
<1> QED
  BY <1>1, <1>2

\* What do_lazy_sync() does to the actor.
LEMMA LazyIs ==
  ASSUME NEW a, Shaped(a), TimerOK(a), NEW p \in Promise \cup {Nothing}, NEW b, b = DoLazySync(a, p)
  PROVE  /\ Shaped(b) /\ TimerOK(b) /\ SameRest(a, b) /\ b.waits = a.waits
         /\ b.promises = a.promises \cup ({p} \ {Nothing})
<1>1. CASE p = Nothing
  <2>1. b = a
    BY <1>1 DEF DoLazySync
  <2> QED
    BY <1>1, <2>1 DEF SameRest, SameFiles
<1>2. CASE p # Nothing
  <2> DEFINE t == (a.timer \/ (~a.lazy /\ ~a.force))
             s == (a.lazy \/ ~a.force)
  <2>1. t \in BOOLEAN /\ s \in BOOLEAN
    OBVIOUS
  <2>2. b = [a EXCEPT !.promises = a.promises \cup {p}, !.lazy = s, !.timer = t]
    BY <1>2 DEF DoLazySync
  <2>3. t = TRUE /\ (s \/ a.force)
    BY DEF Shaped, TimerOK
  <2> HIDE DEF t, s
  <2>4. a.promises \cup {p} \in SUBSET Promise
    BY <1>2 DEF Shaped
  <2>5. Shaped(b)
    BY <2>1, <2>2, <2>4 DEF Shaped
  <2>6. /\ SameRest(a, b) /\ b.waits = a.waits /\ b.promises = a.promises \cup {p} /\ b.timer = t
        /\ b.lazy = s /\ b.force = a.force
    BY <2>2 DEF Shaped, SameRest, SameFiles
  <2>7. TimerOK(b)
    BY <2>3, <2>6 DEF TimerOK
  <2>8. {p} \ {Nothing} = {p}
    BY <1>2
  <2> QED
    BY <2>5, <2>6, <2>7, <2>8
<1> QED
  BY <1>1, <1>2

\* A promise is to wait for a number.
LEMMA Waited ==
  ASSUME NEW a, NEW mb, NEW W, NEW q, NEW ask, NEW at,
         PromisesOnce(a, mb, W, ask), Reached(a, mb, W, q, ask, at),
         NEW u, u < q, NEW p \in DOMAIN ask, ask[p] <= Moment(at, a.begin, u),
         p \notin a.promises \cup Waiting(a) \cup Asking(mb) \cup Carried(W),
         NEW b, b.begin = a.begin, b.pending = a.pending, b.promises = a.promises,
         b.waits = a.waits \cup {[seq |-> u, promise |-> p]}
  PROVE  PromisesOnce(b, mb, W, ask) /\ Reached(b, mb, W, q, ask, at)
<1> DEFINE v == [seq |-> u, promise |-> p]
<1>1. v.seq = u /\ v.promise = p /\ b.waits = a.waits \cup {v}
  OBVIOUS
<1> HIDE DEF v
<1>2. Waiting(b) = Waiting(a) \cup {p}
  <2>1. \A r : r \in Waiting(b) <=> r \in Waiting(a) \/ r = p
    BY <1>1 DEF Waiting
  <2> QED
    BY <2>1
<1>3. \A w \in a.waits : w.promise \in Waiting(a)
  BY DEF Waiting
<1>4. \A x, w \in b.waits : x.promise = w.promise => x = w
  BY <1>1, <1>3 DEF PromisesOnce
<1>5. /\ b.promises \cup Waiting(b) \cup Asking(mb) \cup Carried(W) \subseteq DOMAIN ask
      /\ b.promises \cap (Waiting(b) \cup Asking(mb) \cup Carried(W)) = {}
      /\ Waiting(b) \cap (Asking(mb) \cup Carried(W)) = {}
      /\ Asking(mb) \cap Carried(W) = {}
  BY <1>2 DEF PromisesOnce
<1>6. PromisesOnce(b, mb, W, ask)
  BY <1>4, <1>5, Zenon DEF PromisesOnce
<1>7. Reached(b, mb, W, q, ask, at)
  <2>1. \A w \in b.waits : w.seq < q /\ ask[w.promise] <= Moment(at, b.begin, w.seq)
    BY <1>1 DEF Reached
  <2>2. \A x \in b.promises : ask[x] <= at[b.begin - 1]
    BY DEF Reached
  <2>3. \A i \in DOMAIN mb : IsSync(mb, i) =>
          \E n \in 0..q - 1 :
            /\ ask[mb[i].promise] <= Moment(at, b.begin, n)
            /\ n < b.begin \/ \E w \in b.pending \cup Earlier(mb, i) : w.seq = n
    BY Zenon DEF Reached
  <2>4. \A w \in W : w.promise # Nothing => ask[w.promise] <= at[w.seq]
    BY Zenon DEF Reached
  <2> QED
    BY <2>1, <2>2, <2>3, <2>4, Zenon DEF Reached
<1> QED
  BY <1>6, <1>7

\* What is left when a step of the actor changes only the actor.
LEMMA ActorTyped ==
  ASSUME Typed, Shaped(actor'), TimerOK(actor'), aborted' = FALSE,
         UNCHANGED <<map, seq, line, asked, start>>
  PROVE  Typed'
  BY DEF Typed

\* What typing says of what was asked for.
LEMMA AskIs ==
  ASSUME Typed
  PROVE  /\ \A p \in DOMAIN asked : asked[p] \in Nat /\ p \in Promise
         /\ Len(line) \in Nat \ {0} /\ actor.waits \subseteq [seq : Nat, promise : Promise]
  BY DEF Typed, AskedOK, Shaped

\* Receive keeps the inductive invariant.
LEMMA ReceiveStep ==
  ASSUME IInv, Receive
  PROVE  IInv'
<1> DEFINE W == Way(actor, mailbox, sending)
           b == actor.begin
           t == Tail(mailbox)
           m == Head(mailbox)
<1>1. Typed /\ IsOpen(actor) /\ actor.stage = "run" /\ ~actor.busy /\ mailbox # <<>>
  BY DEF IInv, Receive, ActorStep, IsOpen
<1>2. PICK ms, at, g :
        /\ Runs(actor, mailbox, sending, seq, disk, line, start, asked, ms, at, g)
        /\ map = ms[seq - 1]
  BY <1>1, Zenon DEF IInv, Story
<1>3. /\ Numbered(actor, mailbox, sending, seq) /\ Chain(W, b, seq, line, ms, at)
      /\ EventsTyped(actor.events) /\ OneEach(actor.events)
      /\ actor.events.last < b /\ Contents(actor.events) = ms[b - 1]
      /\ DiskOK(actor, disk, line, start, g, at[b - 1])
      /\ PromisesOnce(actor, mailbox, W, asked) /\ Reached(actor, mailbox, W, seq, asked, at)
      /\ BusyOK(actor)
  BY <1>2 DEF Runs
<1>4. seq \in Nat \ {0} /\ b \in 1..seq /\ mailbox \in Seq(Message)
  BY <1>3, WayIs
<1>5. /\ \A p \in DOMAIN asked : asked[p] \in Nat /\ p \in Promise
      /\ Len(line) \in Nat /\ Shaped(actor) /\ TimerOK(actor) /\ aborted = FALSE
  BY <1>1, AskIs DEF Typed
<1>6. mailbox' = t /\ UNCHANGED <<map, seq, sending, line, asked, start, disk>>
  BY DEF Receive, Outside
<1>7. m \in Message /\ (m.kind = "events" \/ m.kind = "sync")
  BY <1>1, <1>4, MailTail, MessageIs
<1>8. /\ PromisesOnce(actor, t, W, asked)
      /\ SyncOf(m) \subseteq DOMAIN asked
      /\ SyncOf(m) \cap (actor.promises \cup Waiting(actor) \cup Asking(t) \cup Carried(W)) = {}
  BY <1>1, <1>3, <1>4, OnceTail
<1> HIDE DEF t, W, b, m
<1>9. ASSUME NEW a, a = actor', a.begin = actor.begin, a.pending = actor.pending \cup PartsOf(m),
             SameFiles(actor, a), Shaped(a), TimerOK(a), aborted' = FALSE, BusyOK(a),
             PromisesOnce(a, t, W, asked), Reached(a, t, W, seq, asked, at)
      PROVE  IInv'
  <2>1. Way(a, t, sending) = W /\ Numbered(a, t, sending, seq)
    BY <1>1, <1>3, <1>9, NumberedReceive DEF t, m, W
  <2>2. DiskOK(a, disk, line, start, g, at[b - 1])
    BY <1>3, <1>9, DiskSame
  <2>3. a.events = actor.events /\ a.begin = b /\ a.stage = "run"
    BY <1>1, <1>9 DEF SameFiles, b
  <2>4. Runs(a, t, sending, seq, disk, line, start, asked, ms, at, g)
    BY <1>3, <1>9, <2>1, <2>2, <2>3, Zenon DEF Runs
  <2>5. Running(actor', mailbox', sending', seq', disk', line', start', asked', map')
    <3>1. Running(a, t, sending, seq, disk, line, start, asked, map)
      BY <1>2, <2>4 DEF Running
    <3> QED
      BY <1>6, <1>9, <3>1
  <2>6. Typed'
    BY <1>1, <1>6, <1>9, ActorTyped
  <2>7. IsOpen(actor')
    BY <1>9, <2>3 DEF IsOpen
  <2> QED
    BY <2>5, <2>6, <2>7, RunningStory DEF IInv
<1>10. CASE m.kind = "events"
  <2> DEFINE a == [actor EXCEPT !.pending = @ \cup m.parts, !.busy = TRUE]
  <2>1. actor' = a /\ aborted' = (\E w \in m.parts : w.seq < actor.begin)
    <3>1. m.kind # "sync"
      BY <1>10
    <3> QED
      BY <3>1, Zenon DEF Receive, m
  <2>2. PartsOf(m) = m.parts /\ m.parts \subseteq PartOf /\ SyncOf(m) = {}
    BY <1>7, <1>10, MessageIs DEF PartsOf, SyncOf
  <2>3. aborted' = FALSE
    <3>1. \A w \in PartsOf(m) : w.seq >= actor.begin
      <4> DEFINE c == [begin |-> actor.begin, pending |-> actor.pending \cup PartsOf(m)]
      <4>1. c.begin = actor.begin /\ c.pending = actor.pending \cup PartsOf(m)
        OBVIOUS
      <4> HIDE DEF c
      <4> QED
        BY <1>1, <1>3, <4>1, NumberedReceive DEF m
    <3>2. \A w \in m.parts : ~(w.seq < actor.begin)
      <4>1. \A w \in m.parts : w.seq \in Nat
        BY <2>2 DEF PartOf
      <4>2. actor.begin \in Nat
        BY <1>4 DEF b
      <4> QED
        BY <2>2, <3>1, <4>1, <4>2
    <3> QED
      BY <2>1, <3>2, Zenon
  <2>4. /\ a.begin = actor.begin /\ a.pending = actor.pending \cup PartsOf(m)
        /\ a.promises = actor.promises /\ a.waits = actor.waits /\ a.busy = TRUE
        /\ SameFiles(actor, a)
    BY <1>5, <2>2 DEF Shaped, SameFiles
  <2>5. Shaped(a)
    BY <1>5, <2>2 DEF Shaped
  <2>6. TimerOK(a)
    BY <1>5 DEF Shaped, TimerOK
  <2>7. BusyOK(a)
    BY <1>1, <2>4 DEF BusyOK, Rewriting, SameFiles
  <2> HIDE DEF a
  <2>8. PromisesOnce(a, t, W, asked)
    BY <1>8, <2>4, Zenon DEF PromisesOnce, Waiting
  <2>9. Reached(a, t, W, seq, asked, at)
    BY <1>1, <1>3, <1>4, <2>4, ReachedTail DEF t, m
  <2> QED
    BY <1>9, <2>1, <2>3, <2>4, <2>5, <2>6, <2>7, <2>8, <2>9
<1>11. CASE m.kind = "sync"
  <2> DEFINE u == MaxUnfinished(actor)
             p == m.promise
  <2>1. PartsOf(m) = {} /\ SyncOf(m) = {p} /\ p \in Promise
    BY <1>7, <1>11, MessageIs DEF PartsOf, SyncOf
  <2>2. /\ actor' = IF u = actor.begin - 1 THEN DoImmediateSync(actor, {p})
                    ELSE [actor EXCEPT !.waits = @ \cup {[seq |-> u, promise |-> p]}]
        /\ aborted' = aborted
    BY <1>11, Zenon DEF Receive, m
  <2>3. Reached(actor, t, W, seq, asked, at)
    <3>1. actor.pending = actor.pending \cup PartsOf(m)
      BY <2>1
    <3> QED
      BY <1>1, <1>3, <1>4, <3>1, ReachedTail DEF t, m
  <2>4. u \in b - 1..seq - 1
    BY <1>3, Unfinished DEF b
  <2>5. p \in DOMAIN asked
        /\ p \notin actor.promises \cup Waiting(actor) \cup Asking(t) \cup Carried(W)
    BY <1>8, <2>1
  <2>6. asked[p] <= Moment(at, actor.begin, u)
    <3>1. asked[Head(mailbox).promise] \in Nat
      BY <1>5, <2>5 DEF m
    <3>2. Len(line) \in Nat /\ Head(mailbox).kind = "sync"
      BY <1>5, <1>11 DEF m
    <3> QED
      BY <1>1, <1>3, <3>1, <3>2, SyncArrives DEF W, b, m
  <2> HIDE DEF u, p
  <2>7. Ready(actor) = {}
    BY <1>1, <1>3 DEF BusyOK
  <2>8. CASE u = actor.begin - 1
    <3> DEFINE a == DoImmediateSync(actor, {p})
    <3>1. /\ Shaped(a) /\ TimerOK(a) /\ SameRest(actor, a) /\ a.waits = actor.waits
          /\ a.promises = actor.promises \cup {p}
      <4>1. {p} \in SUBSET Promise
        BY <2>1 DEF p
      <4> QED
        BY <1>5, <4>1, ImmediateIs
    <3>2. actor' = a
      BY <2>2, <2>8
    <3> HIDE DEF a
    <3>3. PromisesOnce(a, t, W, asked) /\ Reached(a, t, W, seq, asked, at)
      <4>1. {p} \in SUBSET DOMAIN asked /\ \A x \in {p} : asked[x] <= at[actor.begin - 1]
        <5>1. actor.begin - 1 < actor.begin
          BY <1>4 DEF b
        <5>2. Moment(at, actor.begin, u) = at[actor.begin - 1]
          BY <2>8, <5>1 DEF Moment
        <5> QED
          BY <2>5, <2>6, <5>2
      <4>2. {p} \cap (Waiting(a) \cup Asking(t) \cup Carried(W)) = {}
        BY <2>5, <3>1 DEF Waiting
      <4>3. a.begin = actor.begin /\ a.pending = actor.pending /\ a.waits \subseteq actor.waits
        BY <3>1 DEF SameRest
      <4> QED
        BY <1>8, <2>3, <3>1, <4>1, <4>2, <4>3, Promised
    <3>4. a.begin = actor.begin /\ a.pending = actor.pending \cup PartsOf(m) /\ SameFiles(actor, a)
          /\ a.pending = actor.pending /\ a.busy = actor.busy
      BY <2>1, <3>1 DEF SameRest
    <3>5. BusyOK(a)
      BY <1>3, <3>4 DEF BusyOK, Rewriting, Ready, SameFiles
    <3>6. aborted' = FALSE
      BY <1>5, <2>2
    <3> QED
      BY <1>9, <3>1, <3>2, <3>3, <3>4, <3>5, <3>6
  <2>9. CASE u # actor.begin - 1
    <3> DEFINE a == [actor EXCEPT !.waits = @ \cup {[seq |-> u, promise |-> p]}]
    <3>1. actor' = a
      BY <2>2, <2>9
    <3>2. u \in Nat /\ u < seq /\ p \in Promise
      BY <1>4, <2>1, <2>4 DEF p
    <3>3. /\ a.begin = actor.begin /\ a.pending = actor.pending /\ a.busy = actor.busy
          /\ a.promises = actor.promises /\ SameFiles(actor, a)
          /\ a.waits = actor.waits \cup {[seq |-> u, promise |-> p]}
      BY <1>5 DEF Shaped, SameFiles
    <3>4. Shaped(a)
      BY <1>5, <3>2 DEF Shaped
    <3>5. TimerOK(a)
      BY <1>5 DEF Shaped, TimerOK
    <3> HIDE DEF a
    <3>6. PromisesOnce(a, t, W, asked) /\ Reached(a, t, W, seq, asked, at)
      BY <1>8, <2>3, <2>5, <2>6, <3>2, <3>3, Waited
    <3>7. a.pending = actor.pending \cup PartsOf(m)
      BY <2>1, <3>3
    <3>8. BusyOK(a)
      BY <1>3, <3>3 DEF BusyOK, Rewriting, Ready, SameFiles
    <3>9. aborted' = FALSE
      BY <1>5, <2>2
    <3> QED
      BY <1>9, <3>1, <3>3, <3>4, <3>5, <3>6, <3>7, <3>8, <3>9
  <2> QED
    BY <2>8, <2>9
<1> QED
  BY <1>7, <1>10, <1>11

\* The invariant apart from the files, and what it says of the actor.
Turn(a, mb, sd, q, ln, ask, ms, at) ==
  /\ Numbered(a, mb, sd, q)
  /\ Chain(Way(a, mb, sd), a.begin, q, ln, ms, at)
  /\ EventsTyped(a.events) /\ OneEach(a.events)
  /\ a.events.last < a.begin /\ Contents(a.events) = ms[a.begin - 1]
  /\ PromisesOnce(a, mb, Way(a, mb, sd), ask)
  /\ Reached(a, mb, Way(a, mb, sd), q, ask, at)

SameTurn(a, b) ==
  /\ b.begin = a.begin /\ b.pending = a.pending /\ b.events = a.events
  /\ b.waits = a.waits /\ b.promises = a.promises

\* The story of an open log is that of its numbers and that of its files.
LEMMA RunsTurn ==
  ASSUME NEW a, NEW mb, NEW sd, NEW q, NEW d, NEW ln, NEW st, NEW ask, NEW ms, NEW at, NEW g
  PROVE  Runs(a, mb, sd, q, d, ln, st, ask, ms, at, g) <=>
           /\ Turn(a, mb, sd, q, ln, ask, ms, at)
           /\ DiskOK(a, d, ln, st, g, at[a.begin - 1])
           /\ BusyOK(a)
  BY Zenon DEF Runs, Turn

\* The story of the numbers depends on a part of the actor only.
LEMMA TurnSame ==
  ASSUME NEW a, NEW b, SameTurn(a, b), NEW mb, NEW sd, NEW q, NEW ln, NEW ask, NEW ms, NEW at,
         Turn(a, mb, sd, q, ln, ask, ms, at)
  PROVE  Turn(b, mb, sd, q, ln, ask, ms, at)
<1> DEFINE W == Way(a, mb, sd)
<1>1. Way(b, mb, sd) = W
  BY DEF Way, SameTurn
<1>2. /\ Numbered(a, mb, sd, q) /\ PromisesOnce(a, mb, W, ask) /\ Reached(a, mb, W, q, ask, at)
  BY DEF Turn
<1>3. Numbered(b, mb, sd, q)
  BY <1>1, <1>2, Zenon DEF Numbered, SameTurn
<1> HIDE DEF W
<1>4. PromisesOnce(b, mb, W, ask)
  BY <1>2, Zenon DEF PromisesOnce, Waiting, SameTurn
<1>5. Reached(b, mb, W, q, ask, at)
  BY <1>2, Zenon DEF Reached, SameTurn
<1> QED
  BY <1>1, <1>3, <1>4, <1>5, Zenon DEF Turn, SameTurn, W

\* What the invariant says while the log is open.
LEMMA Now ==
  ASSUME IInv, IsOpen(actor)
  PROVE  /\ Typed
         /\ \E ms, at, g :
              /\ Turn(actor, mailbox, sending, seq, line, asked, ms, at)
              /\ DiskOK(actor, disk, line, start, g, at[actor.begin - 1])
              /\ BusyOK(actor) /\ map = ms[seq - 1]
              /\ at[actor.begin - 1] \in 1..Len(line)
              /\ line[at[actor.begin - 1]] = Values(Contents(actor.events))
<1>1. PICK ms, at, g :
        /\ Runs(actor, mailbox, sending, seq, disk, line, start, asked, ms, at, g)
        /\ map = ms[seq - 1]
  BY Zenon DEF IInv, Story
<1>2. /\ Turn(actor, mailbox, sending, seq, line, asked, ms, at)
      /\ DiskOK(actor, disk, line, start, g, at[actor.begin - 1])
      /\ BusyOK(actor)
  BY <1>1, RunsTurn
<1>3. /\ at[actor.begin - 1] \in 1..Len(line)
      /\ line[at[actor.begin - 1]] = Values(Contents(actor.events))
  <2>1. actor.begin - 1 \in actor.begin - 1..seq - 1
    BY <1>2, WayIs DEF Turn
  <2> QED
    BY <1>2, <2>1 DEF Turn, Chain
<1> QED
  BY <1>1, <1>2, <1>3 DEF IInv

\* A step of the actor that changes neither the map nor the promises.
LEMMA ActorGoesOn ==
  ASSUME Typed, UNCHANGED <<map, seq, line, asked, start>>, aborted' = FALSE,
         Shaped(actor'), TimerOK(actor'), IsOpen(actor'),
         NEW ms, NEW at, NEW g,
         Turn(actor', mailbox', sending', seq, line, asked, ms, at),
         DiskOK(actor', disk', line, start, g, at[actor'.begin - 1]), BusyOK(actor'),
         map = ms[seq - 1]
  PROVE  IInv'
<1>1. Runs(actor', mailbox', sending', seq, disk', line, start, asked, ms, at, g)
  BY RunsTurn
<1>2. Running(actor', mailbox', sending', seq', disk', line', start', asked', map')
  <2>1. Running(actor', mailbox', sending', seq, disk', line, start, asked, map)
    BY <1>1 DEF Running
  <2> QED
    BY <2>1
<1>3. Typed'
  BY ActorTyped
<1> QED
  BY <1>2, <1>3, RunningStory DEF IInv

\* SyncNew keeps the inductive invariant.
LEMMA SyncNewStep ==
  ASSUME IInv, SyncNew
  PROVE  IInv'
<1> DEFINE b == [actor EXCEPT !.stage = "synced", !.need_sync = FALSE]
           c == [disk EXCEPT !["new"].synced = Len(disk["new"].log)]
<1>1. actor.stage = "rewriting" /\ IsOpen(actor)
  BY DEF SyncNew, IsOpen
<1>2. /\ actor' = b /\ disk' = c
      /\ UNCHANGED <<map, seq, sending, line, asked, start, mailbox, aborted, count>>
  BY FileIs DEF SyncNew, Become, Outside
<1>3. PICK ms, at, g :
              /\ Turn(actor, mailbox, sending, seq, line, asked, ms, at)
              /\ DiskOK(actor, disk, line, start, g, at[actor.begin - 1])
              /\ BusyOK(actor) /\ map = ms[seq - 1]
              /\ at[actor.begin - 1] \in 1..Len(line)
  BY <1>1, Now
<1>4. Typed /\ Shaped(actor) /\ TimerOK(actor) /\ aborted = FALSE
  BY DEF IInv, Typed
<1>5. /\ b.stage = "synced" /\ b.busy = actor.busy /\ SameTurn(actor, b)
      /\ b.buffer = actor.buffer /\ b.events = actor.events
      /\ Shaped(b) /\ b.timer = actor.timer /\ b.lazy = actor.lazy /\ b.force = actor.force /\ b.flush = actor.flush
  BY <1>4 DEF Shaped, SameTurn, Stages
<1> HIDE DEF b, c
<1>6. Turn(b, mailbox, sending, seq, line, asked, ms, at)
  BY <1>3, <1>5, TurnSame
<1>7. DiskOK(b, c, line, start, g, at[b.begin - 1])
  <2>1. at[actor.begin - 1] \in Nat
    BY <1>3
  <2>2. DiskOK(b, c, line, start, g, at[actor.begin - 1])
    BY <1>1, <1>3, <1>5, <2>1, SyncNewDisk DEF c
  <2> QED
    BY <1>5, <2>2 DEF SameTurn
<1>8. TimerOK(b) /\ BusyOK(b) /\ IsOpen(b)
  <2>1. actor.busy
    BY <1>1, <1>3 DEF BusyOK, Rewriting
  <2> QED
    BY <1>4, <1>5, <2>1 DEF TimerOK, BusyOK, IsOpen, SameTurn
<1> QED
  BY <1>2, <1>3, <1>4, <1>5, <1>6, <1>7, <1>8, ActorGoesOn

\* Unlink keeps the inductive invariant.
LEMMA UnlinkStep ==
  ASSUME IInv, Unlink
  PROVE  IInv'
<1> DEFINE b == [actor EXCEPT !.stage = "unlinked"]
           c == Restrict(disk, DOMAIN disk \ {"main"})
<1>1. actor.stage = "synced" /\ IsOpen(actor)
  BY DEF Unlink, IsOpen
<1>2. /\ actor' = b /\ disk' = c
      /\ UNCHANGED <<map, seq, sending, line, asked, start, mailbox, aborted, count>>
  BY FileIs DEF Unlink, Become, Outside
<1>3. PICK ms, at, g :
              /\ Turn(actor, mailbox, sending, seq, line, asked, ms, at)
              /\ DiskOK(actor, disk, line, start, g, at[actor.begin - 1])
              /\ BusyOK(actor) /\ map = ms[seq - 1]
  BY <1>1, Now
<1>4. Typed /\ Shaped(actor) /\ TimerOK(actor) /\ aborted = FALSE
  BY DEF IInv, Typed
<1>5. /\ b.stage = "unlinked" /\ b.busy = actor.busy /\ SameTurn(actor, b)
      /\ b.buffer = actor.buffer /\ b.events = actor.events
      /\ Shaped(b) /\ b.timer = actor.timer /\ b.lazy = actor.lazy /\ b.force = actor.force /\ b.flush = actor.flush
  BY <1>4 DEF Shaped, SameTurn, Stages
<1> HIDE DEF b, c
<1>6. Turn(b, mailbox, sending, seq, line, asked, ms, at)
  BY <1>3, <1>5, TurnSame
<1>7. DiskOK(b, c, line, start, g, at[b.begin - 1])
  <2>1. DiskOK(b, c, line, start, g, at[actor.begin - 1])
    BY <1>1, <1>3, <1>5, UnlinkDisk DEF c
  <2> QED
    BY <1>5, <2>1 DEF SameTurn
<1>8. TimerOK(b) /\ BusyOK(b) /\ IsOpen(b)
  <2>1. actor.busy
    BY <1>1, <1>3 DEF BusyOK, Rewriting
  <2> QED
    BY <1>4, <1>5, <2>1 DEF TimerOK, BusyOK, IsOpen, SameTurn
<1> QED
  BY <1>2, <1>3, <1>4, <1>5, <1>6, <1>7, <1>8, ActorGoesOn

\* RenameNew keeps the inductive invariant.
LEMMA RenameStep ==
  ASSUME IInv, RenameNew
  PROVE  IInv'
<1> DEFINE b == [actor EXCEPT !.stage = "run"]
           c == Renamed(disk)
<1>1. actor.stage = "unlinked" /\ IsOpen(actor)
  BY DEF RenameNew, IsOpen
<1>2. /\ actor' = b /\ disk' = c
      /\ UNCHANGED <<map, seq, sending, line, asked, start, mailbox, aborted, count>>
  BY FileIs DEF RenameNew, Become, Outside
<1>3. PICK ms, at, g :
              /\ Turn(actor, mailbox, sending, seq, line, asked, ms, at)
              /\ DiskOK(actor, disk, line, start, g, at[actor.begin - 1])
              /\ BusyOK(actor) /\ map = ms[seq - 1]
              /\ at[actor.begin - 1] \in 1..Len(line)
              /\ line[at[actor.begin - 1]] = Values(Contents(actor.events))
  BY <1>1, Now
<1>4. Typed /\ Shaped(actor) /\ TimerOK(actor) /\ aborted = FALSE
  BY DEF IInv, Typed
<1>5. /\ b.stage = "run" /\ b.busy = actor.busy /\ SameTurn(actor, b)
      /\ b.buffer = actor.buffer /\ b.events = actor.events
      /\ Shaped(b) /\ b.timer = actor.timer /\ b.lazy = actor.lazy /\ b.force = actor.force /\ b.flush = actor.flush
  BY <1>4 DEF Shaped, SameTurn, Stages
<1> HIDE DEF b, c
<1>6. Turn(b, mailbox, sending, seq, line, asked, ms, at)
  BY <1>3, <1>5, TurnSame
<1>7. PICK h : DiskOK(b, c, line, start, h, at[b.begin - 1])
  <2>1. at[actor.begin - 1] \in Nat \ {0}
    BY <1>3
  <2>2. OneEach(actor.events)
    BY <1>3 DEF Turn
  <2>3. \E h : DiskOK(b, c, line, start, h, at[actor.begin - 1])
    BY <1>1, <1>3, <1>5, <2>1, <2>2, RenameDisk DEF c
  <2> QED
    BY <1>5, <2>3 DEF SameTurn
<1>8. TimerOK(b) /\ BusyOK(b) /\ IsOpen(b)
  <2>1. actor.busy
    BY <1>1, <1>3 DEF BusyOK, Rewriting
  <2> QED
    BY <1>4, <1>5, <2>1 DEF TimerOK, BusyOK, IsOpen, SameTurn
<1> QED
  BY <1>2, <1>3, <1>4, <1>5, <1>6, <1>7, <1>8, ActorGoesOn

\* The promises that waited for a number that came wait for the sync.
LEMMA DueIs ==
  ASSUME NEW a, Shaped(a), TimerOK(a), a.begin \in Nat \ {0},
         NEW mb, NEW sd, NEW q, NEW ln, NEW ask, NEW ms, NEW at,
         Turn(a, mb, sd, q, ln, ask, ms, at), NEW c, c = FlushImmediateSync(a)
  PROVE  /\ Shaped(c) /\ TimerOK(c) /\ SameRest(a, c)
         /\ Turn(c, mb, sd, q, ln, ask, ms, at)
<1> DEFINE D == Due(a)
           S == {w.promise : w \in D}
           e == [a EXCEPT !.waits = @ \ D]
           W == Way(a, mb, sd)
<1>1. c = DoImmediateSync(e, S)
  BY DEF FlushImmediateSync
<1>2. D = {w \in a.waits : w.seq < a.begin}
  BY DEF Due
<1>3. a.waits \subseteq [seq : Nat, promise : Promise]
  BY DEF Shaped
<1>4. S \in SUBSET Promise /\ S \subseteq Waiting(a)
  BY <1>2, <1>3 DEF Waiting
<1>5. /\ Shaped(e) /\ e.waits = a.waits \ D /\ e.promises = a.promises
      /\ SameRest(a, e) /\ e.timer = a.timer /\ e.lazy = a.lazy /\ e.force = a.force /\ e.flush = a.flush
  BY DEF Shaped, SameRest, SameFiles
<1> HIDE DEF D, e, W
<1>6. TimerOK(e)
  BY <1>5 DEF TimerOK
<1>7. /\ Shaped(c) /\ TimerOK(c) /\ SameRest(e, c) /\ c.waits = a.waits \ D
      /\ c.promises = a.promises \cup S
  <2> HIDE DEF S
  <2> QED
    BY <1>1, <1>4, <1>5, <1>6, ImmediateIs
<1>8. SameRest(a, c)
  BY <1>5, <1>7 DEF SameRest, SameFiles
<1>9. PromisesOnce(a, mb, W, ask) /\ Reached(a, mb, W, q, ask, at)
  BY DEF Turn, W
<1>10. PromisesOnce(c, mb, W, ask) /\ Reached(c, mb, W, q, ask, at)
  <2>1. S \in SUBSET DOMAIN ask
    BY <1>4, <1>9 DEF PromisesOnce
  <2>2. \A p \in S : ask[p] <= at[a.begin - 1]
    <3> TAKE p \in S
    <3>1. PICK w \in a.waits : w.promise = p /\ w.seq < a.begin
      BY <1>2
    <3>2. Moment(at, a.begin, w.seq) = at[a.begin - 1]
      BY <3>1 DEF Moment
    <3> QED
      BY <1>9, <3>1, <3>2 DEF Reached
  <2>3. S \cap Waiting(c) = {}
    <3>1. \A v \in a.waits, w \in a.waits : v.promise = w.promise => v = w
      BY <1>9 DEF PromisesOnce
    <3>2. \A v \in D, w \in c.waits : v.promise # w.promise
      BY <1>2, <1>7, <3>1
    <3> QED
      BY <3>2 DEF Waiting
  <2>4. S \cap (Asking(mb) \cup Carried(W)) = {}
    BY <1>4, <1>9 DEF PromisesOnce
  <2>5. S \cap (Waiting(c) \cup Asking(mb) \cup Carried(W)) = {}
    BY <2>3, <2>4
  <2>6. c.begin = a.begin /\ c.pending = a.pending /\ c.waits \subseteq a.waits
    BY <1>7, <1>8 DEF SameRest
  <2> HIDE DEF S
  <2> QED
    BY <1>7, <1>9, <2>1, <2>2, <2>5, <2>6, Promised
<1>11. Turn(c, mb, sd, q, ln, ask, ms, at)
  <2>1. c.begin = a.begin /\ c.pending = a.pending /\ c.events = a.events
    BY <1>8 DEF SameRest, SameFiles
  <2>2. Way(c, mb, sd) = W
    BY <2>1 DEF Way, W
  <2>3. Numbered(c, mb, sd, q)
    <3>1. Way(c, mb, sd) = Way(a, mb, sd)
      BY <2>1 DEF Way
    <3>2. Numbered(a, mb, sd, q)
      BY DEF Turn
    <3> QED
      BY <2>1, <3>1, <3>2, Zenon DEF Numbered
  <2>4. /\ Chain(W, c.begin, q, ln, ms, at)
        /\ EventsTyped(c.events) /\ OneEach(c.events)
        /\ c.events.last < c.begin /\ Contents(c.events) = ms[c.begin - 1]
    BY <2>1 DEF Turn, W
  <2> QED
    BY <1>10, <2>2, <2>3, <2>4, Zenon DEF Turn
<1> QED
  BY <1>7, <1>8, <1>11

\* Finish keeps the inductive invariant.
LEMMA FinishStep ==
  ASSUME IInv, Finish
  PROVE  IInv'
<1> DEFINE e == [actor EXCEPT !.busy = FALSE]
           c == FlushImmediateSync(e)
<1>1. actor.stage = "run" /\ IsOpen(actor) /\ Ready(actor) = {}
  BY DEF Finish, ActorStep, IsOpen
<1>2. UNCHANGED <<map, seq, sending, line, asked, start, mailbox, aborted, count>>
  BY DEF Finish, Outside
<1>3. PICK r \in TryFlush(Both(c, disk)) : Become(r)
  BY DEF Finish
<1>4. PICK ms, at, g :
              /\ Turn(actor, mailbox, sending, seq, line, asked, ms, at)
              /\ DiskOK(actor, disk, line, start, g, at[actor.begin - 1])
              /\ BusyOK(actor) /\ map = ms[seq - 1]
  BY <1>1, Now
<1>5. Typed /\ Shaped(actor) /\ TimerOK(actor) /\ aborted = FALSE
  BY DEF IInv, Typed
<1>6. /\ SameTurn(actor, e) /\ SameFiles(actor, e) /\ e.busy = FALSE
      /\ Shaped(e) /\ e.timer = actor.timer /\ e.lazy = actor.lazy /\ e.force = actor.force /\ e.flush = actor.flush
  BY <1>5 DEF Shaped, SameTurn, SameFiles
<1> HIDE DEF e, c
<1>7. TimerOK(e)
  BY <1>5, <1>6 DEF TimerOK, SameTurn
<1>8. /\ Shaped(c) /\ TimerOK(c) /\ SameRest(e, c)
      /\ Turn(c, mailbox, sending, seq, line, asked, ms, at)
  <2>1. Turn(e, mailbox, sending, seq, line, asked, ms, at)
    BY <1>4, <1>6, TurnSame
  <2>2. e.begin \in Nat \ {0}
    BY <2>1 DEF Turn, Numbered
  <2> QED
    BY <1>6, <1>7, <2>1, <2>2, DueIs DEF c
<1>9. /\ c.stage = "run" /\ c.begin = actor.begin /\ c.pending = actor.pending /\ c.busy = FALSE
      /\ SameFiles(actor, c)
  BY <1>1, <1>6, <1>8 DEF SameRest, SameFiles, SameTurn
<1>10. DiskOK(c, disk, line, start, g, at[actor.begin - 1])
  BY <1>4, <1>9, DiskSame
<1>11. DiskOK(r.a, r.d, line, start, g, at[actor.begin - 1]) /\ Fits(c, r.a)
  BY <1>3, <1>8, <1>9, <1>10, TryFlushDisk
<1>12. /\ Shaped(r.a) /\ TimerOK(r.a) /\ SameTurn(c, r.a) /\ r.a.busy = FALSE /\ r.a.stage = "run"
       /\ r.a.begin = actor.begin /\ r.a.pending = actor.pending
  BY <1>8, <1>9, <1>11 DEF Fits, SameActor, SameTurn
<1>13. Turn(r.a, mailbox, sending, seq, line, asked, ms, at)
  BY <1>8, <1>12, TurnSame
<1>14. BusyOK(r.a) /\ IsOpen(r.a)
  BY <1>1, <1>12 DEF BusyOK, Rewriting, Ready, IsOpen
<1>15. actor' = r.a /\ disk' = r.d
  BY <1>3 DEF Become
<1> QED
  BY <1>2, <1>4, <1>5, <1>11, <1>12, <1>13, <1>14, <1>15, ActorGoesOn

(***************************************************************************)
(* The actor runs the next entry.                                          *)
(***************************************************************************)
Adds(a, w, b) ==
  /\ Shaped(b) /\ TimerOK(b) /\ b.begin = a.begin + 1 /\ b.pending = a.pending \ {w}
  /\ b.busy = a.busy /\ b.stage = a.stage /\ b.need_sync = a.need_sync /\ b.waits = a.waits
  /\ b.promises = a.promises \cup ({w.promise} \ {Nothing})
  /\ w.entry = Nothing => b.events = a.events /\ b.buffer = a.buffer
  /\ w.entry # Nothing =>
       b.events = DoEvent(a.events, w.entry) /\ b.buffer = Append(a.buffer, w.entry)

\* What the actor is after an entry in its turn.
LEMMA AddedIs ==
  ASSUME NEW a, Shaped(a), TimerOK(a), NEW w \in a.pending
  PROVE  Adds(a, w, Added(a, w))
<1> DEFINE c == [a EXCEPT !.pending = @ \ {w}, !.begin = @ + 1]
           d == DoLazySync(c, w.promise)
           v == DoEvent(d.events, w.entry)
           u == Append(d.buffer, w.entry)
           e == [d EXCEPT !.events = v, !.buffer = u]
<1>1. /\ c.begin = a.begin + 1 /\ c.pending = a.pending \ {w} /\ c.busy = a.busy
      /\ c.waits = a.waits /\ c.promises = a.promises /\ SameFiles(a, c)
      /\ Shaped(c) /\ c.timer = a.timer /\ c.lazy = a.lazy /\ c.force = a.force /\ c.flush = a.flush
  <2> DEFINE n == a.begin + 1
             T == a.pending \ {w}
             f == [a EXCEPT !.pending = T, !.begin = n]
  <2>1. c = f
    BY DEF Shaped
  <2>2. n \in Nat /\ T \in SUBSET PartOf
    BY DEF Shaped
  <2> HIDE DEF n, T
  <2>3. /\ f.begin = n /\ f.pending = T /\ f.busy = a.busy
        /\ f.waits = a.waits /\ f.promises = a.promises /\ SameFiles(a, f)
        /\ f.timer = a.timer /\ f.lazy = a.lazy /\ f.force = a.force /\ f.flush = a.flush
    BY DEF Shaped, SameFiles
  <2>4. Shaped(f)
    BY <2>2 DEF Shaped
  <2> QED
    BY <2>1, <2>3, <2>4 DEF n, T
<1>2. w.promise \in Promise \cup {Nothing}
  BY DEF Shaped, PartOf
<1> HIDE DEF c
<1>3. TimerOK(c)
  BY <1>1 DEF TimerOK
<1>4. /\ Shaped(d) /\ TimerOK(d) /\ SameRest(c, d) /\ d.waits = c.waits
      /\ d.promises = c.promises \cup ({w.promise} \ {Nothing})
  BY <1>1, <1>2, <1>3, LazyIs
<1>5. Added(a, w) = IF w.entry = Nothing THEN d
                    ELSE [d EXCEPT !.events = DoEvent(@, w.entry), !.buffer = Append(@, w.entry)]
  BY DEF Added, c
<1> HIDE DEF d
<1>6. Added(a, w) = IF w.entry = Nothing THEN d ELSE e
  BY <1>4, <1>5 DEF Shaped
<1>7. Adds(a, w, d) \/ w.entry # Nothing
  BY <1>1, <1>4 DEF Adds, SameRest, SameFiles
<1>8. v = DoEvent(a.events, w.entry) /\ u = Append(a.buffer, w.entry)
  BY <1>1, <1>4 DEF SameRest, SameFiles
<1> HIDE DEF v, u
<1>9. /\ Shaped(e) /\ e.begin = d.begin /\ e.pending = d.pending /\ e.busy = d.busy /\ e.stage = d.stage
      /\ e.need_sync = d.need_sync /\ e.waits = d.waits /\ e.promises = d.promises
      /\ e.events = v /\ e.buffer = u /\ e.timer = d.timer /\ e.lazy = d.lazy
      /\ e.force = d.force /\ e.flush = d.flush
  BY <1>4 DEF Shaped
<1> HIDE DEF e
<1>10. TimerOK(e)
  BY <1>4, <1>9 DEF TimerOK
<1>11. Adds(a, w, e) \/ w.entry = Nothing
  BY <1>1, <1>4, <1>8, <1>9, <1>10 DEF Adds, SameRest, SameFiles
<1> QED
  BY <1>6, <1>7, <1>11

RunsOn(a, w, ln, ms, at) ==
  /\ a.begin \in Nat \ {0} /\ at[a.begin] \in 1..Len(ln) /\ at[a.begin - 1] <= at[a.begin]
  /\ at[a.begin - 1] \in Nat
  /\ ln[at[a.begin]] = Values(ms[a.begin]) /\ MapOK(ms[a.begin], a.begin)
  /\ w.entry = Nothing => at[a.begin] = at[a.begin - 1]
  /\ w.entry # Nothing =>
       /\ w.entry \in Entry /\ Makes(w.entry, a.begin, Contents(a.events), ms[a.begin])
       /\ ~Wrong(a.events, w.entry)

\* Its check does not fail, and it is the turn of the number after it.
LEMMA TurnRuns ==
  ASSUME NEW a, Shaped(a), NEW mb, NEW sd, NEW q, NEW ln, Len(ln) \in Nat, NEW ask,
         \A p \in DOMAIN ask : ask[p] \in Nat, NEW ms, NEW at,
         Turn(a, mb, sd, q, ln, ask, ms, at), NEW w \in Ready(a), NEW b, Adds(a, w, b)
  PROVE  /\ Turn(b, mb, sd, q, ln, ask, ms, at)
         /\ RunsOn(a, w, ln, ms, at)
<1> DEFINE W == Way(a, mb, sd)
           S == {w.promise} \ {Nothing}
<1>1. w \in a.pending /\ w.seq = a.begin
  BY DEF Ready
<1>2. /\ Numbered(a, mb, sd, q) /\ Chain(W, a.begin, q, ln, ms, at)
      /\ EventsTyped(a.events) /\ OneEach(a.events)
      /\ a.events.last < a.begin /\ Contents(a.events) = ms[a.begin - 1]
      /\ PromisesOnce(a, mb, W, ask) /\ Reached(a, mb, W, q, ask, at)
  BY DEF Turn
<1>3. q \in Nat /\ a.begin \in 1..q /\ w \in W /\ a.begin < q
  <2>1. w \in W /\ W = Way(a, mb, sd)
    BY <1>1 DEF Way
  <2>2. w.seq \in a.begin..q - 1 /\ q \in Nat /\ a.begin \in 1..q
    BY <1>2, <2>1, WayIs
  <2> QED
    BY <1>1, <2>1, <2>2
<1>4. /\ b.begin = a.begin + 1 /\ b.pending = a.pending \ {w} /\ b.waits = a.waits
      /\ b.promises = a.promises \cup S
  BY DEF Adds
<1>5. /\ Way(b, mb, sd) = W \ {w} /\ Numbered(b, mb, sd, q)
  BY <1>1, <1>2, <1>4, NumberedRun
<1>6. Chain(W \ {w}, b.begin, q, ln, ms, at)
  <2>1. Chain(W \ {w}, a.begin + 1, q, ln, ms, at)
    <3> HIDE DEF W
    <3> QED
      BY <1>2, <1>3, ChainRuns
  <2> QED
    BY <1>4, <2>1
<1>7. /\ at[a.begin] \in 1..Len(ln) /\ ln[at[a.begin]] = Values(ms[a.begin])
      /\ MapOK(ms[a.begin], a.begin) /\ at[a.begin - 1] \in Nat /\ at[a.begin - 1] <= at[a.begin]
  <2> DEFINE i == a.begin
  <2>1. i \in i - 1..q - 1 /\ i - 1 \in i - 1..q - 1 /\ i - 1 <= i
    BY <1>3
  <2>2. Chain(W, i, q, ln, ms, at)
    BY <1>2
  <2> HIDE DEF i, W
  <2>3. /\ \A n \in i - 1..q - 1 : at[n] \in 1..Len(ln) /\ ln[at[n]] = Values(ms[n]) /\ MapOK(ms[n], n)
        /\ \A m, n \in i - 1..q - 1 : m <= n => at[m] <= at[n]
    BY <2>2, Zenon DEF Chain
  <2>4. /\ at[i] \in 1..Len(ln) /\ ln[at[i]] = Values(ms[i]) /\ MapOK(ms[i], i)
        /\ at[i - 1] \in 1..Len(ln) /\ at[i - 1] <= at[i]
    BY <2>1, <2>3
  <2> QED
    BY <2>4 DEF i
<1>8. IF w.entry = Nothing THEN at[a.begin] = at[a.begin - 1] /\ ms[a.begin] = ms[a.begin - 1]
      ELSE Makes(w.entry, a.begin, Contents(a.events), ms[a.begin])
  <2>1. IF w.entry = Nothing THEN at[w.seq] = at[w.seq - 1] /\ ms[w.seq] = ms[w.seq - 1]
        ELSE at[w.seq] = at[w.seq - 1] + 1 /\ Makes(w.entry, w.seq, ms[w.seq - 1], ms[w.seq])
    BY <1>2, <1>3 DEF Chain
  <2> QED
    BY <1>1, <1>2, <2>1, Zenon
<1>9. w.entry \in Entry \cup {Nothing}
  BY <1>1 DEF Shaped, PartOf
<1>10. w.entry # Nothing =>
         /\ w.entry \in Entry /\ Makes(w.entry, a.begin, Contents(a.events), ms[a.begin])
         /\ ~Wrong(a.events, w.entry)
         /\ EventsTyped(DoEvent(a.events, w.entry)) /\ OneEach(DoEvent(a.events, w.entry))
         /\ DoEvent(a.events, w.entry).last < a.begin + 1
         /\ Contents(DoEvent(a.events, w.entry)) = ms[a.begin]
  <2> SUFFICES ASSUME w.entry # Nothing
               PROVE  /\ w.entry \in Entry /\ Makes(w.entry, a.begin, Contents(a.events), ms[a.begin])
                      /\ ~Wrong(a.events, w.entry)
                      /\ EventsTyped(DoEvent(a.events, w.entry)) /\ OneEach(DoEvent(a.events, w.entry))
                      /\ DoEvent(a.events, w.entry).last < a.begin + 1
                      /\ Contents(DoEvent(a.events, w.entry)) = ms[a.begin]
    OBVIOUS
  <2>1. w.entry \in Entry /\ Makes(w.entry, a.begin, Contents(a.events), ms[a.begin])
    BY <1>8, <1>9
  <2>2. a.begin \in Nat \ {0}
    BY <1>3
  <2> QED
    BY <1>2, <1>7, <2>1, <2>2, EventStep
<1>11. /\ EventsTyped(b.events) /\ OneEach(b.events) /\ b.events.last < b.begin
       /\ Contents(b.events) = ms[a.begin]
  <2>1. CASE w.entry = Nothing
    <3>1. b.events = a.events
      BY <2>1 DEF Adds
    <3>2. a.events.last \in Nat
      BY <1>2 DEF EventsTyped
    <3> QED
      BY <1>2, <1>3, <1>4, <1>8, <2>1, <3>1, <3>2
  <2>2. CASE w.entry # Nothing
    <3>1. b.events = DoEvent(a.events, w.entry)
      BY <2>2 DEF Adds
    <3> QED
      BY <1>4, <1>10, <2>2, <3>1
  <2> QED
    BY <2>1, <2>2
<1>12. PromisesOnce(b, mb, W \ {w}, ask) /\ Reached(b, mb, W \ {w}, q, ask, at)
  <2> DEFINE c == [b EXCEPT !.promises = a.promises]
  <2>1. /\ c.begin = b.begin /\ c.pending = b.pending /\ c.waits = a.waits
        /\ c.promises = a.promises
    BY <1>4 DEF Adds, Shaped
  <2>2. a.waits \subseteq [seq : Nat, promise : Promise]
    BY DEF Shaped
  <2> HIDE DEF c, W
  <2>3. /\ PromisesOnce(c, mb, W \ {w}, ask)
        /\ S \subseteq DOMAIN ask
        /\ S \cap (Waiting(c) \cup Asking(mb) \cup Carried(W \ {w})) = {}
    BY <1>2, <1>3, <2>1, OnceRun
  <2>4. /\ Reached(c, mb, W \ {w}, q, ask, at)
        /\ w.promise # Nothing => ask[w.promise] <= at[c.begin - 1]
    <3>1. W = Way(a, mb, sd)
      BY DEF W
    <3>2. c.begin = a.begin + 1 /\ c.pending = a.pending \ {w}
      BY <1>4, <2>1
    <3> QED
      BY <1>1, <1>2, <1>3, <2>1, <2>2, <3>1, <3>2, ReachedRun
  <2>5. \A p \in S : ask[p] <= at[c.begin - 1]
    BY <2>4
  <2>6. b.waits \subseteq c.waits /\ Waiting(b) = Waiting(c) /\ b.promises = c.promises \cup S
    BY <1>4, <2>1 DEF Waiting
  <2> HIDE DEF S
  <2> QED
    BY <2>1, <2>3, <2>4, <2>5, <2>6, Promised
<1>13. Turn(b, mb, sd, q, ln, ask, ms, at)
  <2>1. b.begin - 1 = a.begin
    BY <1>3, <1>4
  <2> QED
    BY <1>5, <1>6, <1>11, <1>12, <2>1, Zenon DEF Turn
<1> QED
  BY <1>3, <1>7, <1>8, <1>10, <1>13 DEF RunsOn

\* The entry is in the buffer now, and counts for the file.
LEMMA AddedDisk ==
  ASSUME NEW a, Shaped(a), a.stage = "run", NEW mb, NEW sd, NEW q, NEW d, NEW ln, Len(ln) \in Nat,
         NEW st, NEW ask, \A p \in DOMAIN ask : ask[p] \in Nat, NEW ms, NEW at, NEW g,
         Turn(a, mb, sd, q, ln, ask, ms, at), DiskOK(a, d, ln, st, g, at[a.begin - 1]),
         NEW w \in Ready(a), NEW b, Adds(a, w, b)
  PROVE  \E h : DiskOK(b, d, ln, st, h, at[b.begin - 1])
<1> DEFINE n == a.begin
           x == at[n - 1]
           y == at[n]
<1>1. /\ n \in Nat \ {0} /\ y \in 1..Len(ln) /\ x <= y /\ x \in Nat
      /\ ln[y] = Values(ms[n]) /\ MapOK(ms[n], n)
      /\ w.entry = Nothing => y = x
      /\ w.entry # Nothing =>
           w.entry \in Entry /\ Makes(w.entry, n, Contents(a.events), ms[n])
  <2>1. /\ a.begin \in Nat \ {0} /\ at[a.begin] \in 1..Len(ln)
        /\ at[a.begin - 1] <= at[a.begin] /\ at[a.begin - 1] \in Nat
        /\ ln[at[a.begin]] = Values(ms[a.begin]) /\ MapOK(ms[a.begin], a.begin)
        /\ w.entry = Nothing => at[a.begin] = at[a.begin - 1]
        /\ w.entry # Nothing =>
             /\ w.entry \in Entry /\ Makes(w.entry, a.begin, Contents(a.events), ms[a.begin])
             /\ ~Wrong(a.events, w.entry)
    <3>1. RunsOn(a, w, ln, ms, at)
      BY TurnRuns
    <3> QED
      BY <3>1 DEF RunsOn
  <2> QED
    BY <2>1
<1>2. at[b.begin - 1] = y
  <2>1. b.begin = n + 1
    BY DEF Adds
  <2> QED
    BY <1>1, <2>1
<1>3. EventsTyped(a.events) /\ OneEach(a.events) /\ a.events.last < n
  BY DEF Turn
<1>4. DiskOK(a, d, ln, st, g, x) /\ b.stage = "run" /\ b.need_sync = a.need_sync
  BY DEF Adds
<1>5. CASE w.entry = Nothing
  <2>1. SameFiles(a, b) /\ y = x
    BY <1>1, <1>5 DEF Adds, SameFiles
  <2> HIDE DEF x, y, n
  <2> QED
    BY <1>2, <1>4, <2>1, DiskSame
<1>6. CASE w.entry # Nothing
  <2> DEFINE e == w.entry
             m == ms[n]
  <2>1. b.events = DoEvent(a.events, e) /\ b.buffer = Append(a.buffer, e)
    BY <1>6 DEF Adds
  <2>2. e \in Entry /\ Makes(e, n, Contents(a.events), m) /\ MapOK(m, n) /\ ln[y] = Values(m)
        /\ y \in Nat \ {0}
    BY <1>1, <1>6
  <2> HIDE DEF e, m, x, y, n
  <2>3. \E h : DiskOK(b, d, ln, st, h, y)
    BY <1>1, <1>3, <1>4, <2>1, <2>2, RunDisk
  <2> QED
    BY <1>2, <2>3
<1> QED
  BY <1>5, <1>6

\* Whether it is written at once or not.
LEMMA WrittenOrNot ==
  ASSUME NEW b, Shaped(b), TimerOK(b), b.stage = "run", NEW d, NEW ln, NEW st, NEW h, NEW x,
         DiskOK(b, d, ln, st, h, x), NEW r \in {Both(b, d), Flush(Both(b, d))}
  PROVE  /\ DiskOK(r.a, r.d, ln, st, h, x)
         /\ Shaped(r.a) /\ TimerOK(r.a) /\ SameActor(b, r.a)
<1>1. CASE r = Both(b, d)
  <2>1. r.a = b /\ r.d = d
    BY <1>1, FileIs
  <2> QED
    BY <2>1 DEF SameActor
<1>2. CASE r = Flush(Both(b, d))
  <2>1. DiskOK(r.a, r.d, ln, st, h, x) /\ Flushed(b, d, r)
    BY <1>2, FlushDisk
  <2>2. Fits(b, r.a)
    BY <2>1, FlushFits
  <2> QED
    BY <2>1, <2>2 DEF Fits
<1> QED
  BY <1>1, <1>2

\* Run keeps the inductive invariant.
LEMMA RunStep ==
  ASSUME IInv, Run
  PROVE  IInv'
<1>1. actor.stage = "run" /\ IsOpen(actor) /\ actor.busy
  BY DEF Run, ActorStep, IsOpen
<1>2. /\ UNCHANGED <<map, seq, sending, line, asked, start, mailbox>>
  BY DEF Run, Outside
<1>3. PICK w \in Ready(actor) :
       IF w.entry # Nothing /\ Wrong(actor.events, w.entry)
       THEN aborted' = TRUE /\ UNCHANGED <<actor, disk, count>>
       ELSE \E r \in {Both(Added(actor, w), disk), Flush(Both(Added(actor, w), disk))} :
              /\ \/ Become(r) /\ UNCHANGED count
                 \/ /\ w.entry # Nothing /\ MayReindex(r)
                    /\ Become(Reindex(r))
                    /\ count' = [count EXCEPT !.reindexes = @ + 1]
              /\ UNCHANGED aborted
  BY DEF Run
<1>4. PICK ms, at, g :
              /\ Turn(actor, mailbox, sending, seq, line, asked, ms, at)
              /\ DiskOK(actor, disk, line, start, g, at[actor.begin - 1])
              /\ BusyOK(actor) /\ map = ms[seq - 1]
  BY <1>1, Now
<1>5. Typed /\ Shaped(actor) /\ TimerOK(actor) /\ aborted = FALSE
  BY DEF IInv, Typed
<1>6. /\ \A p \in DOMAIN asked : asked[p] \in Nat
      /\ Len(line) \in Nat
  BY <1>5, AskIs
<1> DEFINE b == Added(actor, w)
<1>7. Adds(actor, w, b)
  BY <1>5, AddedIs DEF Ready
<1>8. PICK r \in {Both(b, disk), Flush(Both(b, disk))} :
        /\ Become(r) \/ Become(Reindex(r))
        /\ aborted' = FALSE
  <2>1. ~(w.entry # Nothing /\ Wrong(actor.events, w.entry))
    BY <1>4, <1>5, <1>6, <1>7, TurnRuns DEF RunsOn
  <2> QED
    BY <1>3, <1>5, <2>1
<1> HIDE DEF b
<1>9. Turn(b, mailbox, sending, seq, line, asked, ms, at)
  BY <1>4, <1>5, <1>6, <1>7, TurnRuns
<1>10. PICK h : DiskOK(b, disk, line, start, h, at[b.begin - 1])
  BY <1>1, <1>4, <1>5, <1>6, <1>7, AddedDisk
<1>11. Shaped(b) /\ TimerOK(b) /\ b.stage = "run" /\ b.busy = TRUE
  BY <1>1, <1>5, <1>7 DEF Adds, Shaped
<1>12. /\ DiskOK(r.a, r.d, line, start, h, at[b.begin - 1])
       /\ Shaped(r.a) /\ TimerOK(r.a) /\ SameActor(b, r.a)
  BY <1>10, <1>11, WrittenOrNot
<1>13. /\ SameTurn(b, r.a) /\ r.a.busy = TRUE /\ r.a.stage = "run" /\ r.a.begin = b.begin
       /\ r.a.busy
  BY <1>11, <1>12 DEF SameActor, SameTurn
<1>14. Turn(r.a, mailbox, sending, seq, line, asked, ms, at)
  BY <1>9, <1>13, TurnSame
<1>15. CASE Become(r)
  <2>1. BusyOK(r.a) /\ IsOpen(r.a)
    BY <1>13 DEF BusyOK, IsOpen
  <2>2. actor' = r.a /\ disk' = r.d
    BY <1>15 DEF Become
  <2> QED
    BY <1>2, <1>4, <1>5, <1>8, <1>12, <1>13, <1>14, <2>1, <2>2, ActorGoesOn
<1>16. CASE Become(Reindex(r))
  <2> DEFINE e == [r.a EXCEPT !.stage = "rewriting", !.buffer = <<>>]
             c == With(r.d, "new", File(Compact(r.a.events), 0))
  <2>1. actor' = e /\ disk' = c
    BY <1>16, FileIs DEF Become, Reindex
  <2>2. /\ e.stage = "rewriting" /\ e.buffer = <<>> /\ SameTurn(r.a, e) /\ e.busy = r.a.busy
        /\ Shaped(e) /\ e.timer = r.a.timer /\ e.lazy = r.a.lazy /\ e.force = r.a.force
        /\ e.flush = r.a.flush
    BY <1>12 DEF Shaped, SameTurn, Stages
  <2> HIDE DEF e, c
  <2>3. BusyOK(e) /\ IsOpen(e) /\ TimerOK(e)
    BY <1>12, <1>13, <2>2 DEF BusyOK, IsOpen, TimerOK, SameTurn
  <2>4. DiskOK(e, c, line, start, h, at[b.begin - 1])
    <3>1. at[b.begin - 1] \in Nat
      <4>1. actor.begin \in Nat \ {0} /\ at[actor.begin] \in 1..Len(line)
        BY <1>4, <1>5, <1>6, <1>7, TurnRuns DEF RunsOn
      <4>2. b.begin = actor.begin + 1
        BY <1>7 DEF Adds
      <4> QED
        BY <4>1, <4>2
    <3>2. EventsTyped(r.a.events) /\ e.events = r.a.events
      BY <1>14, <2>2 DEF Turn, SameTurn
    <3> QED
      BY <1>12, <1>13, <2>2, <3>1, <3>2, ReindexDisk DEF c
  <2>5. Turn(e, mailbox, sending, seq, line, asked, ms, at)
    BY <1>14, <2>2, TurnSame
  <2>6. DiskOK(e, c, line, start, h, at[e.begin - 1])
    BY <1>13, <2>2, <2>4 DEF SameTurn
  <2>7. Shaped(e)
    BY <2>2
  <2> QED
    BY <1>2, <1>4, <1>5, <1>8, <2>1, <2>3, <2>5, <2>6, <2>7, ActorGoesOn
<1> QED
  BY <1>8, <1>15, <1>16

(***************************************************************************)
(* A sync: the line begins at the last moment that was asked for.          *)
(***************************************************************************)
LEMMA TurnKept ==
  ASSUME NEW a, NEW mb, NEW sd, NEW q, NEW ln, Len(ln) \in Nat, NEW ask,
         \A p \in DOMAIN ask : ask[p] \in Nat, NEW ms, NEW at,
         Turn(a, mb, sd, q, ln, ask, ms, at), a.waits \subseteq [seq : Nat, promise : Promise],
         NEW n \in Nat \ {0}, n <= at[a.begin - 1], NEW li, Shorter(ln, li, n),
         NEW at2, Moved(at, at2, a.begin, q, n), NEW ask2, Older(ask, ask2, a.promises, n),
         NEW b, b.begin = a.begin, b.pending = a.pending, b.events = a.events,
         b.promises = {}, b.waits = a.waits
  PROVE  Turn(b, mb, sd, q, li, ask2, ms, at2)
<1> DEFINE W == Way(a, mb, sd)
           c == a.begin
<1>1. /\ Numbered(a, mb, sd, q) /\ Chain(W, c, q, ln, ms, at)
      /\ EventsTyped(a.events) /\ OneEach(a.events)
      /\ a.events.last < c /\ Contents(a.events) = ms[c - 1]
      /\ PromisesOnce(a, mb, W, ask) /\ Reached(a, mb, W, q, ask, at)
  BY DEF Turn
<1>2. q \in Nat /\ c \in 1..q /\ \A w \in W : w.seq \in c..q - 1
  BY <1>1, WayIs
<1>3. Way(b, mb, sd) = W /\ Numbered(b, mb, sd, q)
  <2>1. Way(b, mb, sd) = Way(a, mb, sd)
    BY DEF Way
  <2>2. Numbered(b, mb, sd, q)
    BY <1>1, <2>1, Zenon DEF Numbered
  <2> QED
    BY <2>1, <2>2
<1>4. c = a.begin
  OBVIOUS
<1> HIDE DEF W, c
<1>5. Chain(W, c, q, li, ms, at2)
  <2>1. n <= at[c - 1] /\ Moved(at, at2, c, q, n)
    BY <1>4
  <2> QED
    BY <1>1, <1>2, <2>1, ChainCut
<1>6. PromisesOnce(b, mb, W, ask2)
  BY <1>1, OnceKept DEF Older
<1>7. Reached(b, mb, W, q, ask2, at2)
  <2>1. \A i \in a.begin - 1..q - 1 : at[i] \in Nat /\ n <= at[i]
    <3> TAKE i \in a.begin - 1..q - 1
    <3>1. at[i] \in Nat /\ at[c - 1] \in Nat /\ at[c - 1] <= at[i]
      <4>1. i \in c - 1..q - 1 /\ c - 1 \in c - 1..q - 1 /\ c - 1 <= i
        BY <1>2, <1>4
      <4> QED
        BY <1>1, <4>1 DEF Chain
    <3> QED
      BY <1>4, <3>1
  <2>2. a.begin \in 1..q /\ \A w \in W : w.seq \in a.begin..q - 1
    BY <1>2, <1>4
  <2> QED
    BY <1>1, <1>2, <2>1, <2>2, ReachedKept
<1> QED
  BY <1>1, <1>3, <1>4, <1>5, <1>6, <1>7, Zenon DEF Turn

AskedFor(ask, S) == {1} \cup {ask[p] : p \in S}

KeptBy(n, ln, x, y) == n \in 1..Len(ln) /\ n <= x /\ n <= y

\* It is on disk by then: what was not synced was not asked for.
LEMMA KeptMoment ==
  ASSUME NEW a, NEW mb, NEW sd, NEW q, NEW ln, Len(ln) \in Nat \ {0}, NEW st \in Nat \ {0}, NEW ask,
         AskedOK(ask, ln, st), NEW ms, NEW at, Turn(a, mb, sd, q, ln, ask, ms, at),
         NEW y \in 1..at[a.begin - 1], y = at[a.begin - 1] \/ at[a.begin - 1] <= st,
         NEW n, n = Max(AskedFor(ask, a.promises))
  PROVE  KeptBy(n, ln, at[a.begin - 1], y)
<1> DEFINE x == at[a.begin - 1]
           T == {1} \cup {ask[p] : p \in a.promises}
<1>1. /\ PromisesOnce(a, mb, Way(a, mb, sd), ask) /\ Reached(a, mb, Way(a, mb, sd), q, ask, at)
      /\ Chain(Way(a, mb, sd), a.begin, q, ln, ms, at) /\ Numbered(a, mb, sd, q)
  BY DEF Turn
<1>2. x \in 1..Len(ln)
  <2>1. a.begin - 1 \in a.begin - 1..q - 1
    BY <1>1, WayIs
  <2> QED
    BY <1>1, <2>1 DEF Chain
<1>3. \A p \in a.promises : /\ ask[p] \in 1..Len(ln) /\ ask[p] <= x
                            /\ ask[p] = 1 \/ ask[p] > st
  BY <1>1 DEF PromisesOnce, Reached, AskedOK
<1>4. y \in 1..x /\ (y = x \/ x <= st)
  OBVIOUS
<1> HIDE DEF x
<1>5. T \in SUBSET (0..Len(ln)) /\ T # {} /\ 1 \in T
  BY <1>3
<1>6. n \in T /\ \A i \in T : i <= n
  <2> HIDE DEF T
  <2>1. n = Max(T)
    BY DEF T, AskedFor
  <2>2. Max(T) \in T /\ \A i \in T : i <= Max(T)
    BY <1>5, MaxOf
  <2> QED
    BY <2>1, <2>2
<1>7. n \in 1..Len(ln) /\ n <= x
  BY <1>2, <1>3, <1>6
<1>8. n <= y
  <2>1. CASE n = 1
    BY <1>2, <1>4, <2>1
  <2>2. CASE n # 1
    <3>1. PICK p \in a.promises : n = ask[p]
      BY <1>6, <2>2
    <3>2. x > st
      BY <1>2, <1>3, <2>2, <3>1
    <3>3. y = x
      BY <1>2, <1>4, <3>2
    <3> QED
      BY <1>7, <3>3
  <2> QED
    BY <2>1, <2>2
<1> QED
  BY <1>7, <1>8 DEF x, KeptBy

\* What is synced has a moment.
LEMMA SyncedMoment ==
  ASSUME NEW a, NEW d, NEW ln, NEW st, NEW g, NEW x, DiskOK(a, d, ln, st, g, x),
         a.stage = "run"
  PROVE  g[d["main"].synced] \in 1..x
<1>1. MainOK(a, d, ln, st, g, x)
  BY DEF DiskOK
<1> DEFINE k == d["main"].synced
           l == d["main"].log \o a.buffer
<1>2. Follows(l, k, ln, g, x)
  BY <1>1 DEF MainOK
<1> HIDE DEF k, l
<1>3. k \in k..Len(l) /\ \A n \in k..Len(l) : g[n] \in 1..x
  BY <1>2 DEF Follows
<1> QED
  BY <1>3 DEF k

\* The line that begins at a moment, and the promises for what is after it.
LEMMA TypedKept ==
  ASSUME Typed, NEW n \in 1..Len(line),
         UNCHANGED <<map, seq>>, line' = SubSeq(line, n, Len(line)),
         asked' = [p \in DOMAIN asked \ actor.promises |-> After(asked[p], n)],
         start' = After(start, n), aborted' = FALSE, Shaped(actor'), TimerOK(actor')
  PROVE  /\ Typed'
         /\ Shorter(line, line', n) /\ Older(asked, asked', actor.promises, n)
<1>1. /\ line \in Seq(Moments) /\ line # <<>> /\ line[Len(line)] = Values(map)
      /\ start \in 1..Len(line) /\ AskedOK(asked, line, start)
      /\ Len(line) \in Nat
  BY DEF Typed
<1>2. /\ line' \in Seq(Moments) /\ Len(line') = Len(line) - n + 1
      /\ \A i \in n..Len(line) : line'[i - n + 1] = line[i]
  BY <1>1, Suffix
<1>3. Shorter(line, line', n)
  BY <1>2 DEF Shorter
<1>4. Older(asked, asked', actor.promises, n)
  BY DEF Older
<1>5. AskedOK(asked', line', start')
  <2> DEFINE S == actor.promises
             li == line'
  <2>1. Len(li) = Len(line) - n + 1 /\ start \in Nat
    BY <1>1, <1>2
  <2>2. asked' = [p \in DOMAIN asked \ S |-> After(asked[p], n)]
    OBVIOUS
  <2> HIDE DEF S, li
  <2>3. AskedOK([p \in DOMAIN asked \ S |-> After(asked[p], n)], li, After(start, n))
    BY <1>1, <2>1, AskedKept
  <2> QED
    BY <2>2, <2>3 DEF li
<1>6. line' # <<>> /\ line'[Len(line')] = Values(map')
  <2>1. Len(line') # 0
    BY <1>1, <1>2
  <2>2. line' # <<>>
    BY <2>1
  <2>3. line'[Len(line) - n + 1] = line[Len(line)]
    <3>1. Len(line) \in n..Len(line)
      BY <1>1
    <3> QED
      BY <1>2, <3>1
  <2> QED
    BY <1>1, <1>2, <2>2, <2>3
<1>7. start' \in 1..Len(line')
  BY <1>1, <1>2 DEF After
<1> QED
  BY <1>2, <1>3, <1>4, <1>5, <1>6, <1>7 DEF Typed

\* Timeout keeps the inductive invariant.
LEMMA TimeoutStep ==
  ASSUME IInv, Timeout
  PROVE  IInv'
<1> DEFINE a == [actor EXCEPT !.lazy = FALSE, !.force = FALSE, !.flush = FALSE,
                              !.timer = FALSE]
<1>1. actor.stage = "run" /\ IsOpen(actor) /\ ~actor.busy
  BY DEF Timeout, ActorStep, IsOpen
<1>2. UNCHANGED <<map, seq, sending, mailbox, aborted>>
  BY DEF Timeout
<1>3. PICK ms, at, g :
              /\ Turn(actor, mailbox, sending, seq, line, asked, ms, at)
              /\ DiskOK(actor, disk, line, start, g, at[actor.begin - 1])
              /\ BusyOK(actor) /\ map = ms[seq - 1]
              /\ at[actor.begin - 1] \in 1..Len(line)
  BY <1>1, Now
<1>4. Typed /\ Shaped(actor) /\ TimerOK(actor) /\ aborted = FALSE
  BY DEF IInv, Typed
<1>5. /\ \A p \in DOMAIN asked : asked[p] \in Nat
      /\ Len(line) \in Nat \ {0} /\ actor.waits \subseteq [seq : Nat, promise : Promise]
  BY <1>4, AskIs
<1>6. /\ Shaped(a) /\ SameFiles(actor, a) /\ SameTurn(actor, a) /\ a.busy = actor.busy
      /\ a.stage = "run" /\ ~a.lazy /\ ~a.force /\ ~a.flush
  BY <1>1, <1>4 DEF Shaped, SameFiles, SameTurn
<1> DEFINE S == actor.promises
           x == at[actor.begin - 1]
<1>7. CASE ~(actor.lazy \/ actor.force)
  <2>1. PICK r \in TryFlush(Both(a, disk)) : Become(r)
    BY <1>7 DEF Timeout
  <2>2. UNCHANGED <<line, asked, start>>
    BY <1>7 DEF Timeout
  <2> HIDE DEF a
  <2>3. TimerOK(a)
    BY <1>4, <1>6, <1>7 DEF TimerOK, SameTurn
  <2>4. DiskOK(a, disk, line, start, g, at[actor.begin - 1])
    BY <1>3, <1>6, DiskSame
  <2>5. DiskOK(r.a, r.d, line, start, g, at[actor.begin - 1]) /\ Fits(a, r.a)
    BY <1>6, <2>1, <2>4, TryFlushDisk
  <2>6. /\ Shaped(r.a) /\ TimerOK(r.a) /\ SameTurn(actor, r.a) /\ r.a.busy = actor.busy
        /\ r.a.stage = "run" /\ r.a.begin = actor.begin /\ r.a.pending = actor.pending
    BY <1>6, <2>3, <2>5 DEF Fits, SameActor, SameTurn
  <2>7. Turn(r.a, mailbox, sending, seq, line, asked, ms, at)
    BY <1>3, <2>6, TurnSame
  <2>8. BusyOK(r.a) /\ IsOpen(r.a)
    BY <1>1, <1>3, <2>6 DEF BusyOK, Rewriting, Ready, IsOpen
  <2>9. actor' = r.a /\ disk' = r.d
    BY <2>1 DEF Become
  <2> QED
    BY <1>2, <1>3, <1>4, <2>2, <2>5, <2>6, <2>7, <2>8, <2>9, ActorGoesOn
<1>8. CASE actor.lazy \/ actor.force
  <2> DEFINE e == [a EXCEPT !.promises = {}]
             r == Sync(Both(e, disk))
             n == Max({1} \cup {asked[p] : p \in S})
  <2>1. Become(r) /\ KeepAll(S)
    BY <1>8 DEF Timeout
  <2>2. actor' = r.a /\ disk' = r.d
    BY <2>1 DEF Become
  <2>3. /\ line' = SubSeq(line, n, Len(line))
        /\ asked' = [p \in DOMAIN asked \ S |-> After(asked[p], n)]
        /\ start' = After(start, n)
    BY <2>1 DEF KeepAll
  <2> HIDE DEF a
  <2>4. /\ Shaped(e) /\ SameFiles(a, e) /\ e.busy = a.busy /\ e.begin = a.begin
        /\ e.pending = a.pending /\ e.events = a.events /\ e.waits = a.waits
        /\ e.promises = {} /\ e.lazy = a.lazy /\ e.force = a.force /\ e.flush = a.flush
    BY <1>6 DEF Shaped, SameFiles
  <2> HIDE DEF e
  <2>5. DiskOK(e, disk, line, start, g, x) /\ e.stage = "run"
    <3>1. SameFiles(actor, e) /\ e.stage = "run"
      BY <1>6, <2>4 DEF SameFiles
    <3> QED
      BY <1>3, <3>1, DiskSame
  <2>6. DiskOK(r.a, r.d, line, start, g, x) /\ Synced(e, disk, start, g, x, r)
    <3>1. x \in Nat
      BY <1>3
    <3> HIDE DEF x
    <3> QED
      BY <2>4, <2>5, <3>1, SyncDisk
  <2>7. /\ r.a = [e EXCEPT !.buffer = <<>>, !.need_sync = FALSE]
        /\ g[r.d["main"].synced] = x \/ x <= start
    BY <2>6 DEF Synced
  <2> HIDE DEF r
  <2>8. /\ Shaped(r.a) /\ r.a.stage = "run" /\ r.a.begin = actor.begin
        /\ r.a.pending = actor.pending /\ r.a.events = actor.events /\ r.a.waits = actor.waits
        /\ r.a.promises = {} /\ ~r.a.lazy /\ ~r.a.force /\ ~r.a.flush /\ r.a.busy = actor.busy
    <3>1. /\ Shaped(r.a) /\ r.a.stage = e.stage /\ r.a.begin = e.begin
          /\ r.a.pending = e.pending /\ r.a.events = e.events /\ r.a.waits = e.waits
          /\ r.a.promises = e.promises /\ r.a.lazy = e.lazy /\ r.a.force = e.force
          /\ r.a.flush = e.flush /\ r.a.busy = e.busy
      BY <2>4, <2>7 DEF Shaped
    <3> QED
      BY <1>6, <2>4, <2>5, <3>1 DEF SameTurn
  <2>9. g[r.d["main"].synced] \in 1..x
    <3> HIDE DEF x
    <3> QED
      BY <2>6, <2>8, SyncedMoment
  <2>10. n \in 1..Len(line) /\ n <= x /\ n <= g[r.d["main"].synced]
    <3>1. start \in Nat \ {0} /\ AskedOK(asked, line, start)
      BY <1>4 DEF Typed
    <3>2. n = Max(AskedFor(asked, actor.promises))
      BY DEF S, AskedFor
    <3> DEFINE y == g[r.d["main"].synced]
    <3>3. y \in 1..at[actor.begin - 1] /\ (y = at[actor.begin - 1] \/ at[actor.begin - 1] <= start)
      BY <2>7, <2>9
    <3> HIDE DEF n, S, y, x
    <3>4. KeptBy(n, line, at[actor.begin - 1], y)
      <4>1. Turn(actor, mailbox, sending, seq, line, asked, ms, at) /\ Len(line) \in Nat \ {0}
        BY <1>3, <1>5
      <4> QED
        BY <3>1, <3>2, <3>3, <4>1, KeptMoment
    <3> QED
      BY <3>4 DEF KeptBy, x, y
  <2> HIDE DEF n
  <2>11. TimerOK(r.a) /\ BusyOK(r.a) /\ IsOpen(r.a)
    BY <1>1, <1>3, <2>8 DEF TimerOK, BusyOK, Ready, Rewriting, IsOpen
  <2>12. Typed' /\ Shorter(line, line', n) /\ Older(asked, asked', S, n)
    BY <1>2, <1>4, <2>2, <2>3, <2>8, <2>10, <2>11, TypedKept
  <2> DEFINE at2 == [m \in Nat |-> at[m] - n + 1]
  <2>13. /\ Moved(at, at2, actor.begin, seq, n) /\ at2[actor.begin - 1] = x - n + 1
    <3>1. Numbered(actor, mailbox, sending, seq)
      BY <1>3 DEF Turn
    <3>2. actor.begin \in 1..seq /\ seq \in Nat
      BY <3>1, WayIs
    <3>3. \A m \in actor.begin - 1..seq - 1 : m \in Nat
      BY <3>2
    <3>4. actor.begin - 1 \in Nat
      BY <3>2
    <3> QED
      BY <3>3, <3>4 DEF Moved
  <2> HIDE DEF at2
  <2>14. Turn(r.a, mailbox, sending, seq, line', asked', ms, at2)
    <3>1. n \in Nat \ {0} /\ Len(line) \in Nat /\ n <= at[actor.begin - 1]
      BY <1>5, <2>10
    <3>2. /\ \A p \in DOMAIN asked : asked[p] \in Nat
          /\ Older(asked, asked', actor.promises, n)
      BY <1>5, <2>12
    <3> QED
      BY <1>3, <1>5, <2>8, <2>12, <2>13, <3>1, <3>2, TurnKept
  <2>15. PICK h : DiskOK(r.a, r.d, line', start', h, x - n + 1)
    <3>1. /\ n \in Nat \ {0} /\ x \in Nat /\ start \in Nat /\ n <= g[r.d["main"].synced]
      BY <1>3, <1>4, <2>10 DEF Typed
    <3>2. \A i \in n..x : line'[i - n + 1] = line[i]
      <4>1. \A i \in n..x : i \in n..Len(line)
        BY <1>3, <1>5, <3>1
      <4> QED
        BY <2>12, <4>1 DEF Shorter
    <3>3. r.a.stage = "run" /\ DiskOK(r.a, r.d, line, start, g, x)
      BY <2>6, <2>8
    <3> HIDE DEF x
    <3>4. \E h : DiskOK(r.a, r.d, line', After(start, n), h, x - n + 1)
      BY <3>1, <3>2, <3>3, CutDisk
    <3> QED
      BY <2>3, <3>4
  <2>16. Runs(r.a, mailbox, sending, seq, r.d, line', start', asked', ms, at2, h)
    BY <2>8, <2>11, <2>13, <2>14, <2>15, RunsTurn
  <2>17. Running(actor', mailbox', sending', seq', disk', line', start', asked', map')
    <3>1. Running(r.a, mailbox, sending, seq, r.d, line', start', asked', map)
      BY <1>3, <2>16 DEF Running
    <3> QED
      BY <1>2, <2>2, <3>1
  <2>18. IsOpen(actor')
    BY <2>2, <2>11
  <2> QED
    BY <2>12, <2>17, <2>18, RunningStory DEF IInv
<1> QED
  BY <1>7, <1>8

(***************************************************************************)
(* Closed, opened, and gone.                                               *)
(***************************************************************************)
\* The log is opened, and the map is the last moment of the line.
LEMMA RestartStep ==
  ASSUME aborted = FALSE, NEW d, NEW since \in Seq(Moments), since # <<>>,
         NEW g, Complete(d, since, g), Restart(d, since)
  PROVE  IInv'
<1> DEFINE p == Load(d["main"].log)
<1>1. p = DoEvents(d["main"].log)
  <2>1. d["main"].log \in Seq(Entry)
    BY EntryIs DEF Complete, Follows
  <2> QED
    BY <2>1, WholeClean DEF Load
<1>2. /\ disk' = d /\ map' = Contents(p) /\ seq' = p.last + 1 /\ actor' = NewActor(p)
      /\ sending' = {} /\ mailbox' = <<>> /\ asked' = <<>>
      /\ line' = since /\ start' = Len(since) /\ aborted' = FALSE
  BY DEF Restart
<1> HIDE DEF p
<1>3. Started(p, d, since)
  BY <1>1, Starts DEF Complete
<1>4. /\ p.last \in Nat /\ MapOK(Contents(p), p.last)
      /\ since[Len(since)] = Values(Contents(p))
      /\ AskedOK(<<>>, since, Len(since))
  BY <1>3 DEF Started
<1>5. PICK ms, at, h :
       /\ Runs(NewActor(p), <<>>, {}, p.last + 1, d, since, Len(since), <<>>, ms, at, h)
       /\ ms[p.last] = Contents(p)
  BY <1>3, Zenon DEF Started
<1>6. Fresh(p, NewActor(p))
  BY <1>4, NewActorIs
<1> DEFINE a == NewActor(p)
           q == p.last + 1
<1>7. q - 1 = p.last /\ q \in Nat \ {0}
  BY <1>4
<1>8. Typed'
  <2>1. Len(since) \in 1..Len(since)
    OBVIOUS
  <2>2. Shaped(a) /\ TimerOK(a)
    BY <1>6 DEF Fresh
  <2> HIDE DEF a, q
  <2>3. MapOK(map', seq' - 1)
    <3>1. seq' - 1 = p.last
      BY <1>2, <1>7 DEF q
    <3> QED
      BY <1>2, <1>4, <3>1
  <2>4. Shaped(actor') /\ TimerOK(actor')
    BY <1>2, <2>2 DEF a
  <2>5. seq' \in Nat \ {0}
    BY <1>2, <1>7 DEF q
  <2> QED
    BY <1>2, <1>4, <2>1, <2>3, <2>4, <2>5 DEF Typed
<1>9. IsOpen(actor')
  <2>1. a.stage = "run"
    BY <1>6 DEF Fresh
  <2> QED
    BY <1>2, <2>1 DEF IsOpen
<1>10. Running(actor', mailbox', sending', seq', disk', line', start', asked', map')
  <2> DEFINE m == Contents(p)
             z == Len(since)
  <2>1. Runs(a, <<>>, {}, q, d, since, z, <<>>, ms, at, h) /\ ms[q - 1] = m
    BY <1>5, <1>7
  <2>2. /\ disk' = d /\ map' = m /\ seq' = q /\ actor' = a
        /\ sending' = {} /\ mailbox' = <<>> /\ asked' = <<>>
        /\ line' = since /\ start' = z
    BY <1>2
  <2> HIDE DEF a, q, m, z
  <2>3. Running(a, <<>>, {}, q, d, since, z, <<>>, m)
    BY <2>1 DEF Running
  <2> QED
    BY <2>2, <2>3
<1> QED
  BY <1>8, <1>9, <1>10, RunningStory DEF IInv

\* No entries make the empty map.
LEMMA NoMap ==
  /\ Contents(NoEvents) = <<>> /\ Finds(<<>>, Values(<<>>)) /\ Values(<<>>) \in Moments
  /\ \A n : MapOK(<<>>, n)
<1>1. DOMAIN NoEvents.live = {} /\ DoEvents(<<>>) = NoEvents /\ OneEach(NoEvents)
  BY NoneLive
<1>2. DOMAIN <<>> = {}
  OBVIOUS
<1>3. Contents(NoEvents) = <<>>
  BY <1>1, <1>2 DEF Contents
<1>4. \A n : MapOK(<<>>, n)
  <2>1. <<>> \in [{} -> [value : UNION {Value[k] : k \in Key}, id : Nat]]
    OBVIOUS
  <2>2. TAKE n
  <2>3. <<>> \in [DOMAIN <<>> -> [value : UNION {Value[k] : k \in Key}, id : 1..n]]
    BY <1>2
  <2> QED
    BY <1>2, <2>3 DEF MapOK
<1>5. Values(<<>>) \in Moments
  BY <1>4, ValuesMoment
<1>6. Finds(<<>>, Values(<<>>))
  BY <1>1, <1>3 DEF Finds
<1> QED
  BY <1>3, <1>4, <1>5, <1>6

\* The file that is opened: a new one only if the old one is gone.
MainFile(d) ==
  IF "main" \in DOMAIN d THEN d["main"] ELSE IF "new" \in DOMAIN d THEN d["new"] ELSE File(<<>>, 0)

Files(d) ==
  DOMAIN d \subseteq {"main", "new"} /\ \A f \in DOMAIN d : d[f] = File(d[f].log, d[f].synced)

\* A new file without the old one takes its place.
LEMMA RenamedIs ==
  ASSUME NEW d, Files(d), NEW c, c = Renamed(d)
  PROVE  /\ Files(c) /\ "main" \in DOMAIN c /\ c["main"] = MainFile(d)
         /\ MainFile(d) = File(MainFile(d).log, MainFile(d).synced)
<1> DEFINE m == MainFile(d)
<1>1. m = File(m.log, m.synced)
  <2>1. File(<<>>, 0) = File(File(<<>>, 0).log, File(<<>>, 0).synced)
    BY FileIs
  <2> QED
    BY <2>1 DEF MainFile, Files
<1>2. CASE "main" \in DOMAIN d
  BY <1>1, <1>2 DEF Renamed, MainFile
<1>3. CASE "main" \notin DOMAIN d
  <2>1. c = With(<<>>, "main", m)
    BY <1>3 DEF Renamed, MainFile
  <2>2. DOMAIN <<>> = {}
    OBVIOUS
  <2> HIDE DEF m
  <2>3. DOMAIN c = {"main"} /\ c["main"] = m
    BY <2>1, <2>2 DEF With
  <2> QED
    BY <1>1, <2>3 DEF Files, m
<1> QED
  BY <1>2, <1>3

\* What is opened of the files.
LEMMA OpenedIs ==
  ASSUME NEW d, Files(d), NEW l, l = Whole(MainFile(d).log), NEW k,
         k = Min({MainFile(d).synced, Len(l)})
  PROVE  Files(Opened(d)) /\ "main" \in DOMAIN Opened(d) /\ Opened(d)["main"] = File(l, k)
<1> DEFINE c == Renamed(d)
           m == MainFile(d)
           e == File(l, k)
           o == [c EXCEPT !["main"] = e]
<1>1. Files(c) /\ "main" \in DOMAIN c /\ c["main"] = m
  BY RenamedIs
<1>2. Opened(d) = o
  <2>1. Opened(d) = [c EXCEPT !["main"] = File(Whole(@.log), Min({@.synced, Len(Whole(@.log))}))]
    BY DEF Opened
  <2>2. Opened(d) = [c EXCEPT !["main"] =
                      File(Whole(c["main"].log), Min({c["main"].synced, Len(Whole(c["main"].log))}))]
    BY <2>1
  <2>3. File(Whole(c["main"].log), Min({c["main"].synced, Len(Whole(c["main"].log))})) = e
    BY <1>1
  <2> QED
    BY <2>2, <2>3
<1> HIDE DEF c, m, e
<1>3. DOMAIN o = DOMAIN c /\ o["main"] = e /\ \A f \in DOMAIN c \ {"main"} : o[f] = c[f]
  BY <1>1
<1>4. e = File(e.log, e.synced)
  BY FileIs DEF e
<1> HIDE DEF o
<1>5. \A f \in DOMAIN o : o[f] = File(o[f].log, o[f].synced)
  <2> TAKE f \in DOMAIN o
  <2>1. CASE f = "main"
    BY <1>3, <1>4, <2>1
  <2>2. CASE f # "main"
    <3>1. o[f] = c[f] /\ f \in DOMAIN c
      BY <1>3, <2>2
    <3>2. c[f] = File(c[f].log, c[f].synced)
      BY <1>1, <3>1 DEF Files
    <3> QED
      BY <3>1, <3>2
  <2> QED
    BY <2>1, <2>2
<1>6. Files(o) /\ "main" \in DOMAIN o /\ o["main"] = e
  BY <1>1, <1>3, <1>5 DEF Files
<1> QED
  BY <1>2, <1>6 DEF e

\* What is opened is complete when the rest of it follows the line.
LEMMA OpenedDisk ==
  ASSUME NEW d, Files(d), NEW l, l = Whole(MainFile(d).log), NEW k,
         k = Min({MainFile(d).synced, Len(l)}),
         NEW ln, NEW g, Follows(l, k, ln, g, Len(ln)), g[Len(l)] = Len(ln)
  PROVE  Complete(Opened(d), ln, g)
<1> DEFINE o == Opened(d)
<1>1. Files(o) /\ "main" \in DOMAIN o /\ o["main"] = File(l, k)
  BY OpenedIs
<1> HIDE DEF o
<1>2. o["main"].log = l /\ o["main"].synced = k
  BY <1>1, FileIs
<1>3. Complete(o, ln, g)
  BY <1>1, <1>2 DEF Complete, Files
<1> QED
  BY <1>3 DEF o

\* A file without entries is the empty map.
LEMMA NoFile ==
  ASSUME NEW ln, Len(ln) \in Nat \ {0}, Finds(<<>>, ln[Len(ln)])
  PROVE  Follows(<<>>, 0, ln, [i \in {0} |-> Len(ln)], Len(ln)) /\ Len(<<>>) = 0
<1> DEFINE g == [i \in {0} |-> Len(ln)]
<1>1. g[0] = Len(ln)
  OBVIOUS
<1> HIDE DEF g
<1>2. <<>> \in Seq(EntryOK) /\ Len(<<>>) = 0 /\ SubSeq(<<>>, 1, 0) = <<>>
  OBVIOUS
<1>3. \A n \in 0..Len(<<>>) : n = 0
  BY <1>2
<1>4. \A n \in 0..Len(<<>>) : g[n] \in 1..Len(ln) /\ Finds(SubSeq(<<>>, 1, n), ln[g[n]])
  <2> TAKE n \in 0..Len(<<>>)
  <2>1. n = 0
    BY <1>3
  <2>2. ln[g[0]] = ln[Len(ln)] /\ g[0] \in 1..Len(ln)
    BY <1>1
  <2>3. Finds(SubSeq(<<>>, 1, 0), ln[g[0]])
    BY <1>2, <2>2, Zenon
  <2> QED
    BY <2>1, <2>2, <2>3
<1>5. \A m, n \in 0..Len(<<>>) : m <= n => g[m] <= g[n]
  BY <1>1, <1>3
<1>6. Follows(<<>>, 0, ln, g, Len(ln))
  BY <1>2, <1>4, <1>5 DEF Follows
<1> QED
  BY <1>2, <1>6 DEF g

\* The inductive invariant holds at first.
LEMMA IInvInit ==
  Init => IInv
<1> SUFFICES ASSUME Init PROVE IInv
  OBVIOUS
<1> DEFINE v == Values(<<>>)
           g == [i \in {0} |-> Len(line)]
           z == Len(line)
<1>1. /\ map = <<>> /\ seq = 1 /\ sending = {} /\ mailbox = <<>> /\ actor = NewActor(NoEvents)
      /\ disk = With(<<>>, "main", File(<<>>, 0)) /\ aborted = FALSE
      /\ line = <<v>> /\ asked = <<>> /\ start = 1
  BY DEF Init
<1>2. Contents(NoEvents) = <<>> /\ Finds(<<>>, v) /\ v \in Moments /\ MapOK(<<>>, 0)
  BY NoMap
<1> HIDE DEF v
<1>3. line \in Seq(Moments) /\ line # <<>> /\ z = 1 /\ line[z] = v
  BY <1>1, <1>2
<1>4. Follows(<<>>, 0, line, g, z) /\ Len(<<>>) = 0
  BY <1>2, <1>3, NoFile
<1>5. DOMAIN disk = {"main"} /\ disk["main"] = File(<<>>, 0)
  <2>1. DOMAIN <<>> = {}
    OBVIOUS
  <2> QED
    BY <1>1, <2>1 DEF With
<1>6. disk["main"].log = <<>> /\ disk["main"].synced = 0
      /\ \A f \in DOMAIN disk : disk[f] = File(disk[f].log, disk[f].synced)
  BY <1>5, FileIs
<1>7. g[0] = z
  OBVIOUS
<1> HIDE DEF g
<1>8. Started(NoEvents, disk, line)
  <2>1. NoEvents = DoEvents(disk["main"].log)
    BY <1>6, NoneLive
  <2>2. Follows(disk["main"].log, disk["main"].synced, line, g, Len(line))
        /\ g[Len(disk["main"].log)] = Len(line)
    BY <1>4, <1>6, <1>7
  <2>3. DOMAIN disk \subseteq {"main", "new"} /\ "main" \in DOMAIN disk
    BY <1>5
  <2> QED
    BY <1>3, <1>6, <2>1, <2>2, <2>3, Starts
<1>9. NoEvents.last = 0 /\ NoEvents.last + 1 = 1
  BY DEF NoEvents
<1>10. PICK ms, at, h :
       /\ Runs(NewActor(NoEvents), <<>>, {}, 1, disk, line, 1, <<>>, ms, at, h)
       /\ ms[0] = <<>>
  BY <1>2, <1>3, <1>8, <1>9, Zenon DEF Started
<1>11. Fresh(NoEvents, NewActor(NoEvents))
  BY <1>9, NewActorIs
<1>12. Typed
  <2>1. Shaped(actor) /\ TimerOK(actor)
    BY <1>1, <1>11 DEF Fresh
  <2>2. AskedOK(<<>>, line, 1)
    BY <1>3, <1>8 DEF Started
  <2>3. MapOK(map, seq - 1)
    BY <1>1, <1>2
  <2>4. line[Len(line)] = Values(map)
    BY <1>1, <1>3 DEF v
  <2> QED
    BY <1>1, <1>3, <2>1, <2>2, <2>3, <2>4 DEF Typed
<1>13. IsOpen(actor)
  BY <1>1, <1>11 DEF Fresh, IsOpen
<1>14. Story(ms, at, h)
  <2>1. Runs(actor, mailbox, sending, seq, disk, line, start, asked, ms, at, h)
    BY <1>1, <1>10
  <2>2. map = ms[seq - 1]
    BY <1>1, <1>10
  <2> QED
    BY <1>13, <2>1, <2>2 DEF Story
<1> QED
  BY <1>12, <1>14 DEF IInv

\* What the actor is when the log is closed.
LEMMA RestingActor ==
  ASSUME NEW s \in {"closed", "destroying"}, NEW b, b = [NewActor(NoEvents) EXCEPT !.stage = s]
  PROVE  /\ b = [NewActor(NoEvents) EXCEPT !.stage = b.stage]
         /\ Shaped(b) /\ TimerOK(b) /\ b.stage = s /\ ~IsOpen(b)
<1>1. Shaped(NewActor(NoEvents)) /\ TimerOK(NewActor(NoEvents))
  <2>1. NoEvents.last \in Nat
    BY DEF NoEvents
  <2> QED
    BY <2>1, NewActorIs DEF Fresh
<1> DEFINE a == NewActor(NoEvents)
<1> HIDE DEF a
<1>2. b = [a EXCEPT !.stage = s]
  BY DEF a
<1>3. Shaped(a) /\ TimerOK(a)
  BY <1>1 DEF a
<1>4. b.stage = s /\ Shaped(b) /\ b.promises = a.promises /\ b.lazy = a.lazy
      /\ b.force = a.force /\ b.flush = a.flush /\ b.timer = a.timer
  BY <1>2, <1>3 DEF Shaped, Stages
<1>5. TimerOK(b) /\ ~IsOpen(b)
  BY <1>3, <1>4 DEF TimerOK, IsOpen
<1>6. b = [NewActor(NoEvents) EXCEPT !.stage = b.stage]
  BY <1>2, <1>4 DEF a
<1> QED
  BY <1>4, <1>5, <1>6

\* A closed log has its story.
LEMMA RestingStory ==
  ASSUME ~IsOpen(actor'), NEW g, Rests(actor', mailbox', sending', disk', line', asked', g)
  PROVE  \E ms, at, h : Story(ms, at, h)'
<1>1. Story(g, g, g)'
  BY Zenon DEF Story
<1> QED
  BY <1>1

\* Nothing is on its way.
LEMMA QuietAt ==
  ASSUME IInv, Quiet
  PROVE  /\ Typed /\ actor.stage = "run" /\ mailbox = <<>> /\ sending = {}
         /\ Len(line) \in Nat \ {0}
         /\ \E g : DiskOK(actor, disk, line, start, g, Len(line))
<1>1. actor.stage = "run" /\ IsOpen(actor) /\ ~actor.busy /\ mailbox = <<>> /\ sending = {}
  BY DEF Quiet, ActorStep, IsOpen
<1>2. PICK ms, at, g :
              /\ Turn(actor, mailbox, sending, seq, line, asked, ms, at)
              /\ DiskOK(actor, disk, line, start, g, at[actor.begin - 1])
              /\ BusyOK(actor)
  BY <1>1, Now
<1>3. Typed
  BY DEF IInv
<1>4. Numbered(actor, mailbox, sending, seq) /\ Ready(actor) = {}
  BY <1>1, <1>2 DEF Turn, BusyOK
<1>5. actor.begin = seq
  BY <1>1, <1>4, NumberedQuiet
<1>6. at[actor.begin - 1] = Len(line)
  BY <1>2, <1>5 DEF Turn, Chain
<1>7. Len(line) \in Nat \ {0}
  BY <1>3, AskIs
<1> QED
  BY <1>1, <1>2, <1>3, <1>6, <1>7

\* When nothing is in the buffer the file is complete.
LEMMA WholeDisk ==
  ASSUME NEW a, a.stage = "run", a.buffer = <<>>, NEW d, NEW ln, NEW st, NEW g,
         DiskOK(a, d, ln, st, g, Len(ln))
  PROVE  Complete(d, ln, g)
<1> DEFINE l == d["main"].log
           k == d["main"].synced
<1>1. /\ "main" \in DOMAIN d /\ DOMAIN d \subseteq {"main", "new"}
      /\ \A f \in DOMAIN d : d[f] = File(d[f].log, d[f].synced)
      /\ l \in Seq(EntryOK) /\ Follows(l \o <<>>, k, ln, g, Len(ln))
      /\ g[Len(l \o <<>>)] = Len(ln)
  BY DEF DiskOK, MainOK
<1> HIDE DEF l, k
<1>2. l \o <<>> = l
  BY <1>1, ConcatIs
<1>3. Follows(l, k, ln, g, Len(ln)) /\ g[Len(l)] = Len(ln)
  BY <1>1, <1>2
<1> QED
  BY <1>1, <1>3 DEF Complete, l, k

\* sync() makes all of the file durable when it is needed.
LEMMA SyncsAll ==
  ASSUME NEW a, Shaped(a), a.stage = "run", NEW d, NEW ln, NEW st, NEW g, NEW x,
         DiskOK(a, d, ln, st, g, x), a.need_sync, NEW s, s = Sync(Both(a, d))
  PROVE  s.d["main"].synced = Len(s.d["main"].log)
<1> DEFINE w == Flush(Both(a, d))
           l == w.d["main"].log
           n == Len(l)
           c == [w.d EXCEPT !["main"].synced = n]
<1>1. s = IF w.a.need_sync
          THEN Both([w.a EXCEPT !.need_sync = FALSE], [w.d EXCEPT !["main"].synced = Len(w.d["main"].log)])
          ELSE w
  BY Zenon DEF Sync
<1>2. Flushed(a, d, w)
  BY FlushDisk
<1>3. "main" \in DOMAIN d
  BY DEF DiskOK, MainOK
<1> HIDE DEF w
<1>4. w.a.need_sync /\ "main" \in DOMAIN w.d /\ w.d["main"] = File(d["main"].log \o a.buffer, d["main"].synced)
  BY <1>2, <1>3 DEF Flushed
<1>5. s.d = c
  <2>1. s = Both([w.a EXCEPT !.need_sync = FALSE], c)
    BY <1>1, <1>4
  <2> HIDE DEF c
  <2> QED
    BY <2>1, FileIs
<1> DEFINE u == d["main"].log \o a.buffer
           v == d["main"].synced
<1>6. w.d["main"] = File(u, v)
  BY <1>4
<1> HIDE DEF u, v, n
<1>7. [File(u, v) EXCEPT !.synced = n] = File(u, n)
  BY DEF File
<1>8. c["main"] = File(u, n)
  BY <1>4, <1>6, <1>7
<1>9. c["main"].log = u /\ c["main"].synced = n /\ l = u
  BY <1>6, <1>8, FileIs
<1> QED
  BY <1>5, <1>9 DEF n

\* The line with its last moment only.
LEMMA LastMoment ==
  ASSUME NEW ln \in Seq(Moments), ln # <<>>, NEW li, li = ln \/ li = <<ln[Len(ln)]>>
  PROVE  /\ li \in Seq(Moments) /\ li # <<>> /\ Len(li) \in 1..Len(li)
         /\ li[Len(li)] = ln[Len(ln)]
<1>1. Len(ln) \in Nat \ {0} /\ ln[Len(ln)] \in Moments
  OBVIOUS
<1>2. CASE li = ln
  BY <1>1, <1>2
<1>3. CASE li = <<ln[Len(ln)]>>
  <2> DEFINE m == ln[Len(ln)]
  <2>1. li = <<m>> /\ m \in Moments
    BY <1>1, <1>3
  <2> HIDE DEF m
  <2>2. li \in Seq(Moments) /\ li # <<>> /\ Len(li) = 1 /\ li[1] = m
    BY <2>1
  <2> QED
    BY <2>2 DEF m
<1> QED
  BY <1>2, <1>3

\* Close keeps the inductive invariant.
LEMMA CloseStep ==
  ASSUME IInv, Close
  PROVE  IInv'
<1> DEFINE e == [actor EXCEPT !.promises = {}]
           r == Flush(Both(e, disk))
           s == Sync(r)
           z == Len(line)
<1>1. /\ Typed /\ actor.stage = "run" /\ mailbox = <<>> /\ sending = {} /\ z \in Nat \ {0}
      /\ \E g : DiskOK(actor, disk, line, start, g, z)
  BY QuietAt DEF Close
<1>2. /\ actor' = [NewActor(NoEvents) EXCEPT !.stage = "closed"] /\ disk' = s.d
      /\ line' = IF r.a.need_sync THEN <<line[Len(line)]>> ELSE line
      /\ asked' = <<>> /\ start' = Len(line')
      /\ UNCHANGED <<map, seq, sending, mailbox, aborted>>
  BY FileIs DEF Close, Become
<1>3. PICK g : DiskOK(actor, disk, line, start, g, z)
  BY <1>1
<1>4. /\ Shaped(actor) /\ aborted = FALSE /\ line \in Seq(Moments) /\ line # <<>>
      /\ line[z] = Values(map) /\ seq \in Nat \ {0} /\ MapOK(map, seq - 1)
      /\ start \in Nat
  BY <1>1 DEF Typed
<1>5. Shaped(e) /\ SameFiles(actor, e) /\ e.stage = "run"
  BY <1>1, <1>4 DEF Shaped, SameFiles
<1> HIDE DEF e, z
<1>6. DiskOK(e, disk, line, start, g, z)
  BY <1>3, <1>5, DiskSame
<1>7. DiskOK(r.a, r.d, line, start, g, z) /\ Flushed(e, disk, r)
  BY <1>5, <1>6, FlushDisk
<1>8. r = Both(r.a, r.d)
  BY DEF Flush, Both
<1> HIDE DEF r
<1>9. Shaped(r.a) /\ r.a.stage = "run" /\ r.a.need_sync \in BOOLEAN
  <2>1. Fits(e, r.a)
    BY <1>5, <1>7, FlushFits
  <2> QED
    BY <1>5, <1>7, <2>1 DEF Fits, SameActor, Flushed
<1>10. s = Sync(Both(r.a, r.d))
  BY <1>8
<1> HIDE DEF s
<1>11. DiskOK(s.a, s.d, line, start, g, z) /\ Synced(r.a, r.d, start, g, z, s)
  BY <1>1, <1>7, <1>9, <1>10, SyncDisk
<1>12. s.a.stage = "run" /\ s.a.buffer = <<>>
  BY <1>9, <1>11 DEF Synced, Shaped
<1>13. \E h : Complete(s.d, line', h)
  <2>1. CASE ~r.a.need_sync
    <3>1. line' = line
      BY <1>2, <2>1
    <3>2. Complete(s.d, line, g)
      BY <1>11, <1>12, WholeDisk DEF z
    <3> QED
      BY <3>1, <3>2
  <2>2. CASE r.a.need_sync
    <3> DEFINE li == line'
    <3>1. li = <<line[z]>>
      BY <1>2, <2>2 DEF z
    <3>2. Len(li) = 1 /\ li[1] = line[z]
      BY <3>1
    <3>3. \A i \in z..z : li[i - z + 1] = line[i]
      BY <1>1, <3>2
    <3>4. s.d["main"].synced = Len(s.d["main"].log)
      BY <1>7, <1>9, <1>10, <2>2, SyncsAll
    <3>5. g[s.d["main"].synced] = z
      <4>1. Complete(s.d, line, g)
        BY <1>11, <1>12, WholeDisk DEF z
      <4> QED
        BY <3>4, <4>1 DEF Complete, z
    <3>6. z <= g[s.d["main"].synced]
      BY <1>1, <3>5
    <3> HIDE DEF li
    <3>7. PICK h : DiskOK(s.a, s.d, li, After(start, z), h, z - z + 1)
      BY <1>1, <1>4, <1>11, <1>12, <3>3, <3>6, CutDisk
    <3>8. z - z + 1 = Len(li)
      BY <1>1, <3>2
    <3>9. DiskOK(s.a, s.d, li, After(start, z), h, Len(li))
      BY <3>7, <3>8
    <3>10. Complete(s.d, li, h)
      BY <1>12, <3>9, WholeDisk
    <3> QED
      BY <3>10 DEF li
  <2> QED
    BY <2>1, <2>2
<1>14. /\ actor' = [NewActor(NoEvents) EXCEPT !.stage = actor'.stage]
       /\ Shaped(actor') /\ TimerOK(actor') /\ ~IsOpen(actor')
  BY <1>2, RestingActor
<1>15. PICK h : Complete(disk', line', h)
  BY <1>2, <1>13
<1>16. Rests(actor', mailbox', sending', disk', line', asked', h)
  <2>1. DOMAIN <<>> = {}
    OBVIOUS
  <2> QED
    BY <1>1, <1>2, <1>14, <1>15, <2>1 DEF Rests
<1>17. Typed'
  <2>1. /\ line' \in Seq(Moments) /\ line' # <<>> /\ Len(line') \in 1..Len(line')
        /\ line'[Len(line')] = line[z]
    <3>1. line' = line \/ line' = <<line[Len(line)]>>
      BY <1>2
    <3> QED
      BY <1>4, <3>1, LastMoment DEF z
  <2>2. AskedOK(asked', line', start')
    BY <1>2 DEF AskedOK
  <2> QED
    BY <1>2, <1>4, <1>14, <2>1, <2>2 DEF Typed
<1> QED
  BY <1>14, <1>16, <1>17, RestingStory DEF IInv

\* DestroyNew keeps the inductive invariant.
LEMMA DestroyNewStep ==
  ASSUME IInv, DestroyNew
  PROVE  IInv'
<1> DEFINE r == Flush(Both(actor, disk))
           c == Restrict(r.d, {"main"})
           z == Len(line)
<1>1. /\ Typed /\ actor.stage = "run" /\ mailbox = <<>> /\ sending = {}
      /\ \E g : DiskOK(actor, disk, line, start, g, z)
  BY QuietAt DEF DestroyNew
<1>2. /\ actor' = [NewActor(NoEvents) EXCEPT !.stage = "destroying"] /\ disk' = c
      /\ asked' = <<>> /\ UNCHANGED <<map, seq, sending, mailbox, aborted, line, start>>
  BY FileIs DEF DestroyNew, Become
<1>3. PICK g : DiskOK(actor, disk, line, start, g, z)
  BY <1>1
<1>4. Shaped(actor)
  BY <1>1 DEF Typed
<1> HIDE DEF z
<1>5. DiskOK(r.a, r.d, line, start, g, z) /\ Flushed(actor, disk, r)
  BY <1>1, <1>3, <1>4, FlushDisk
<1> HIDE DEF r
<1>6. r.a.buffer = <<>> /\ r.a.stage = "run"
  <2>1. Fits(actor, r.a)
    BY <1>4, <1>5, FlushFits
  <2> QED
    BY <1>1, <1>5, <2>1 DEF Fits, SameActor, Flushed
<1>7. Complete(r.d, line, g)
  BY <1>5, <1>6, WholeDisk DEF z
<1>8. DOMAIN c = {"main"} /\ c["main"] = r.d["main"]
  BY <1>7 DEF Restrict, Complete
<1> HIDE DEF c
<1>9. Complete(c, line, g)
  BY <1>7, <1>8 DEF Complete
<1>10. /\ actor' = [NewActor(NoEvents) EXCEPT !.stage = actor'.stage]
       /\ Shaped(actor') /\ TimerOK(actor') /\ ~IsOpen(actor')
  BY <1>2, RestingActor
<1>11. Rests(actor', mailbox', sending', disk', line', asked', g)
  <2>1. DOMAIN <<>> = {}
    OBVIOUS
  <2> QED
    BY <1>1, <1>2, <1>9, <1>10, <2>1 DEF Rests
<1>12. Typed'
  <2>1. AskedOK(asked', line', start')
    BY <1>2 DEF AskedOK
  <2> QED
    BY <1>1, <1>2, <1>10, <2>1 DEF Typed
<1> QED
  BY <1>10, <1>11, <1>12, RestingStory DEF IInv

\* DestroyMain keeps the inductive invariant.
LEMMA DestroyMainStep ==
  ASSUME IInv, DestroyMain
  PROVE  IInv'
<1> DEFINE v == Values(<<>>)
<1>1. /\ actor.stage = "destroying"
      /\ actor' = [actor EXCEPT !.stage = "closed"]
      /\ disk' = <<>> /\ map' = <<>> /\ line' = <<v>> /\ asked' = <<>> /\ start' = 1
      /\ UNCHANGED <<seq, sending, mailbox, aborted>>
  BY DEF DestroyMain
<1>2. Typed /\ ~IsOpen(actor)
  BY <1>1 DEF IInv, IsOpen
<1>3. PICK g : Rests(actor, mailbox, sending, disk, line, asked, g)
  BY <1>2, Zenon DEF IInv, Story
<1>4. /\ actor = [NewActor(NoEvents) EXCEPT !.stage = actor.stage]
      /\ mailbox = <<>> /\ sending = {}
  BY <1>3 DEF Rests
<1> DEFINE a == NewActor(NoEvents)
<1>5. actor' = [NewActor(NoEvents) EXCEPT !.stage = "closed"]
  <2> DEFINE t == actor.stage
  <2>1. actor = [a EXCEPT !.stage = t]
    BY <1>4
  <2> HIDE DEF a, t
  <2>2. actor' = [a EXCEPT !.stage = "closed"]
    BY <1>1, <2>1
  <2> QED
    BY <2>2 DEF a
<1> HIDE DEF a
<1>6. /\ actor' = [NewActor(NoEvents) EXCEPT !.stage = actor'.stage]
      /\ Shaped(actor') /\ TimerOK(actor') /\ ~IsOpen(actor') /\ actor'.stage = "closed"
  BY <1>5, RestingActor
<1>7. /\ Finds(<<>>, v) /\ v \in Moments /\ \A n : MapOK(<<>>, n)
  BY NoMap
<1>8. DOMAIN <<>> = {}
  OBVIOUS
<1> HIDE DEF v
<1>9. line' \in Seq(Moments) /\ line' # <<>> /\ Len(line') = 1 /\ line'[Len(line')] = v
  BY <1>1, <1>7
<1>10. Rests(actor', mailbox', sending', disk', line', asked', g)
  BY <1>1, <1>4, <1>6, <1>7, <1>8, <1>9 DEF Rests
<1>11. Typed'
  <2>1. AskedOK(asked', line', start')
    BY <1>1, <1>8 DEF AskedOK
  <2>2. v = Values(map')
    BY <1>1 DEF v
  <2>3. MapOK(map', seq' - 1)
    BY <1>1, <1>7
  <2> QED
    BY <1>1, <1>2, <1>6, <1>9, <2>1, <2>2, <2>3 DEF Typed
<1> QED
  BY <1>6, <1>10, <1>11, RestingStory DEF IInv

\* A closed log is opened.
LEMMA OpenStep ==
  ASSUME IInv, Open
  PROVE  IInv'
<1>1. /\ actor.stage = "closed" /\ Restart(Opened(disk), line)
      /\ Typed /\ aborted = FALSE /\ line \in Seq(Moments) /\ line # <<>> /\ Len(line) \in Nat \ {0}
  BY AskIs DEF Open, IInv, Typed
<1>2. PICK g : Rests(actor, mailbox, sending, disk, line, asked, g)
  <2>1. ~IsOpen(actor)
    BY <1>1 DEF IsOpen
  <2> QED
    BY <2>1, Zenon DEF IInv, Story
<1>3. \E h : Complete(Opened(disk), line, h)
  <2>1. CASE DOMAIN disk = {} /\ Finds(<<>>, line[Len(line)])
    <3> DEFINE h == [i \in {0} |-> Len(line)]
    <3>1. Files(disk) /\ MainFile(disk) = File(<<>>, 0)
      BY <2>1 DEF Files, MainFile
    <3>2. Whole(<<>>) = <<>> /\ Len(<<>>) = 0
      <4>1. <<>> \in Seq(Entry)
        OBVIOUS
      <4> QED
        BY <4>1, WholeClean
    <3>3. Min({0, 0}) = 0
      BY MinOf
    <3>4. Follows(<<>>, 0, line, h, Len(line)) /\ h[0] = Len(line)
      BY <1>1, <2>1, NoFile
    <3> HIDE DEF h
    <3>5. /\ <<>> = Whole(MainFile(disk).log)
          /\ 0 = Min({MainFile(disk).synced, Len(<<>>)})
      <4>1. MainFile(disk).log = <<>> /\ MainFile(disk).synced = 0
        BY <3>1, FileIs
      <4>2. Min({MainFile(disk).synced, Len(<<>>)}) = Min({0, 0})
        BY <3>2, <4>1
      <4> QED
        BY <3>2, <3>3, <4>1, <4>2
    <3>6. h[Len(<<>>)] = Len(line)
      BY <3>2, <3>4
    <3>7. Complete(Opened(disk), line, h)
      BY <3>1, <3>4, <3>5, <3>6, OpenedDisk
    <3> QED
      BY <3>7
  <2>2. CASE Complete(disk, line, g)
    <3> DEFINE l == disk["main"].log
               k == disk["main"].synced
    <3>1. Files(disk) /\ MainFile(disk) = disk["main"]
      BY <2>2 DEF Files, MainFile, Complete
    <3>2. Follows(l, k, line, g, Len(line)) /\ g[Len(l)] = Len(line)
      BY <2>2 DEF Complete
    <3>3. MainFile(disk).log = l /\ MainFile(disk).synced = k
      BY <3>1
    <3> HIDE DEF l, k
    <3>4. l \in Seq(Entry) /\ k \in 0..Len(l) /\ Len(l) \in Nat
      BY <3>2, EntryIs DEF Follows
    <3>5. Whole(l) = l
      BY <3>4, WholeClean
    <3>6. k = Min({k, Len(l)})
      <4>1. {k, Len(l)} \in SUBSET Nat
        BY <3>4
      <4>2. Min({k, Len(l)}) \in {k, Len(l)} /\ \A i \in {k, Len(l)} : Min({k, Len(l)}) <= i
        BY <4>1, MinOf
      <4> QED
        BY <3>4, <4>2
    <3>7. l = Whole(MainFile(disk).log) /\ k = Min({MainFile(disk).synced, Len(l)})
      BY <3>3, <3>5, <3>6
    <3> QED
      BY <3>1, <3>2, <3>7, OpenedDisk
  <2> QED
    BY <1>1, <1>2, <2>1, <2>2 DEF Rests
<1> QED
  BY <1>1, <1>3, RestartStep

\* The line after a crash that left these files.
LineOf(left) ==
  LET values == Values(Contents(Load(Opened(left)["main"].log)))
      at == {i \in DOMAIN line : line[i] = values}
  IN IF at = {} THEN <<values>> ELSE SubSeq(line, 1, Max(at))

LineBack == \E n \in 1..Len(line) : line' = SubSeq(line, 1, n)

\* What is left of a log begins it, and is synced up to a moment not before
\* what was synced.
LEMMA CrashAt ==
  ASSUME Typed, NEW l, NEW k, NEW g, NEW x \in Nat, x <= Len(line), Follows(l, k, line, g, x),
         NEW left, Files(left), NEW n \in k..Len(l), Whole(MainFile(left).log) = SubSeq(l, 1, n),
         Min({MainFile(left).synced, n}) \in k..n, Restart(Opened(left), LineOf(left))
  PROVE  IInv' /\ LineBack
<1> DEFINE u == SubSeq(l, 1, n)
           v == line[g[n]]
           j == Min({MainFile(left).synced, n})
           o == Opened(left)
           y == g[n]
<1>1. Follows(u, k, line, g, y) /\ Len(u) = n
  BY FollowsPrefix
<1>2. /\ line \in Seq(Moments) /\ Len(line) \in Nat /\ aborted = FALSE
  BY DEF Typed
<1>3. u = Whole(MainFile(left).log) /\ j = Min({MainFile(left).synced, Len(u)})
  BY <1>1
<1>4. y \in 1..x /\ v = line[y] /\ j \in k..n
  BY DEF Follows
<1> HIDE DEF u, v, j, y
<1>5. Finds(u, v) /\ v = line[g[Len(u)]]
  <2>1. g[Len(u)] = y
    BY <1>1 DEF y
  <2>2. Finds(u, line[g[Len(u)]])
    BY <1>1, FollowsWhole
  <2> QED
    BY <1>4, <2>1, <2>2
<1>6. Survived(line, u, j, v)
  <2>1. y \in Nat /\ y <= Len(line) /\ j \in k..Len(u)
    BY <1>1, <1>2, <1>4
  <2> QED
    BY <1>1, <1>2, <1>5, <2>1, Survives
<1>7. o["main"].log = u
  <2>1. o["main"] = File(u, j)
    BY <1>3, OpenedIs
  <2> QED
    BY <2>1, FileIs
<1>8. Values(Contents(Load(u))) = v
  <2>1. u \in Seq(Entry)
    BY <1>1, EntryIs DEF Follows
  <2>2. Load(u) = DoEvents(u)
    BY <2>1, WholeClean DEF Load
  <2> QED
    BY <1>5, <2>2 DEF Finds
<1>9. LineOf(left) = Back(line, v)
  <2>1. At(line, v) # {}
    BY <1>6 DEF Survived
  <2>2. LineOf(left) = IF At(line, v) = {} THEN <<v>> ELSE SubSeq(line, 1, Max(At(line, v)))
    BY <1>7, <1>8 DEF LineOf, At, o
  <2> QED
    BY <2>1, <2>2 DEF Back
<1> DEFINE b == Back(line, v)
<1> HIDE DEF o
<1>10. /\ b \in Seq(Moments) /\ b # <<>> /\ \E i \in 1..Len(line) : b = SubSeq(line, 1, i)
  BY <1>6 DEF Survived
<1>11. PICK h : Follows(u, j, b, h, Len(b)) /\ h[Len(u)] = Len(b)
  BY <1>6 DEF Survived
<1>12. Restart(o, b)
  BY <1>9 DEF o
<1> HIDE DEF b
<1>13. Complete(o, b, h)
  BY <1>3, <1>11, OpenedDisk DEF o
<1>14. IInv'
  BY <1>2, <1>10, <1>12, <1>13, RestartStep
<1>15. line' = b
  BY <1>12 DEF Restart
<1> QED
  BY <1>10, <1>14, <1>15 DEF LineBack

\* What a crash leaves of a log begins it, and may end in a piece of an entry.
Left(l, least) ==
  LET cut == {SubSeq(l, 1, n) : n \in least..Len(l) - 1}
  IN cut \cup {Append(c, Torn) : c \in cut} \cup {l}

BeginsIt(l, least, r) ==
  \E n \in least..Len(l) : Whole(r) = SubSeq(l, 1, n) /\ Len(r) \in Nat /\ n <= Len(r)

\* What is left begins the log, and is all of it if it must be.
LEMMA LeftIs ==
  ASSUME NEW l \in Seq(EntryOK), NEW least \in 0..Len(l), NEW r \in Left(l, least)
  PROVE  /\ BeginsIt(l, least, r)
         /\ least = Len(l) => r = l
<1>1. Len(l) \in Nat /\ l \in Seq(Entry)
  BY EntryIs
<1>2. ASSUME r = l
      PROVE  BeginsIt(l, least, r)
  <2>1. Len(l) \in 0..Len(l) /\ Len(l) \in least..Len(l)
    BY <1>1
  <2>2. SubSeq(l, 1, Len(l)) = l
    BY <1>1
  <2>3. Whole(l) = l
    BY <1>1, WholeClean
  <2>4. Whole(r) = SubSeq(l, 1, Len(l)) /\ Len(r) \in Nat /\ Len(l) <= Len(r)
    BY <1>1, <1>2, <2>2, <2>3
  <2> QED
    BY <2>1, <2>4 DEF BeginsIt
<1>3. ASSUME NEW n \in least..Len(l) - 1, r = SubSeq(l, 1, n) \/ r = Append(SubSeq(l, 1, n), Torn)
      PROVE  BeginsIt(l, least, r)
  <2> DEFINE c == SubSeq(l, 1, n)
  <2>1. c \in Seq(Entry) /\ Len(c) = n /\ n \in Nat
    <3>1. n \in 0..Len(l) /\ n \in Nat
      BY <1>1
    <3> QED
      BY <1>1, <3>1, Prefix
  <2> HIDE DEF c
  <2>2. Whole(c) = c /\ Whole(Append(c, Torn)) = c
    BY <2>1, WholeClean, WholeTorn
  <2>3. Len(Append(c, Torn)) = n + 1
    BY <2>1
  <2>4. r = c \/ r = Append(c, Torn)
    BY <1>3 DEF c
  <2>5. Whole(r) = c /\ Len(r) \in {n, n + 1}
    BY <2>1, <2>2, <2>3, <2>4
  <2>7. Len(r) \in Nat /\ n <= Len(r)
    BY <2>1, <2>5
  <2>6. n \in least..Len(l)
    BY <1>1
  <2> QED
    BY <2>5, <2>6, <2>7 DEF c, BeginsIt
<1>4. r = l \/ \E n \in least..Len(l) - 1 : r = SubSeq(l, 1, n) \/ r = Append(SubSeq(l, 1, n), Torn)
  BY DEF Left
<1>5. BeginsIt(l, least, r)
  BY <1>2, <1>3, <1>4
<1>6. least = Len(l) => r = l
  BY <1>1, <1>4
<1> QED
  BY <1>5, <1>6

\* A crash leaves at least the whole of a file, or what is synced of it.
Least(d, f, durable) == IF durable THEN d[f].synced ELSE Len(d[f].log)

\* A crash that leaves the file keeps the inductive invariant.
LEMMA CrashMain ==
  ASSUME Typed, NEW durable \in BOOLEAN, "main" \in DOMAIN disk, actor.buffer \in Seq(EntryOK),
         disk["main"].log \in Seq(EntryOK), disk["main"].synced \in 0..Len(disk["main"].log),
         NEW g, NEW x \in Nat, x <= Len(line),
         Follows(disk["main"].log \o actor.buffer, disk["main"].synced, line, g, x),
         NEW main \in Left(disk["main"].log \o actor.buffer, Least(disk, "main", durable)),
         NEW left, Files(left), "main" \in DOMAIN left,
         left["main"] = File(main, IF durable THEN Len(main) ELSE disk["main"].synced),
         Restart(Opened(left), LineOf(left))
  PROVE  IInv' /\ LineBack
<1> DEFINE log == disk["main"].log
           l == log \o actor.buffer
           k == disk["main"].synced
           least == Least(disk, "main", durable)
           s == IF durable THEN Len(main) ELSE k
<1>1. /\ l \in Seq(EntryOK) /\ Len(l) \in Nat /\ Len(log) \in Nat /\ Len(log) <= Len(l)
      /\ k \in 0..Len(log)
  <2>1. log \in Seq(EntryOK) /\ actor.buffer \in Seq(EntryOK) /\ k \in 0..Len(log)
    OBVIOUS
  <2> HIDE DEF log, k
  <2>2. l \in Seq(EntryOK) /\ Len(l) = Len(log) + Len(actor.buffer) /\ Len(log) \in Nat
        /\ Len(actor.buffer) \in Nat
    BY <2>1, ConcatIs
  <2> HIDE DEF l
  <2> QED
    BY <2>1, <2>2
<1>2. least \in k..Len(l) /\ least \in 0..Len(l)
  <2>1. least = k \/ least = Len(log)
    BY Zenon DEF Least
  <2> HIDE DEF least, l, k, log
  <2> QED
    BY <1>1, <2>1
<1>3. Follows(l, k, line, g, x) /\ main \in Left(l, least) /\ left["main"] = File(main, s)
  OBVIOUS
<1>4. s = IF durable THEN Len(main) ELSE k
  OBVIOUS
<1> HIDE DEF l, k, least, s
<1>5. PICK n \in least..Len(l) : Whole(main) = SubSeq(l, 1, n) /\ Len(main) \in Nat /\ n <= Len(main)
  BY <1>1, <1>2, <1>3, LeftIs DEF BeginsIt
<1>6. MainFile(left) = left["main"]
  BY DEF MainFile
<1>7. MainFile(left).log = main /\ MainFile(left).synced = s
  BY <1>3, <1>6, FileIs
<1>8. n \in k..Len(l) /\ k \in Nat /\ s \in Nat /\ n \in Nat
  BY <1>1, <1>2, <1>4, <1>5
<1>9. Min({s, n}) \in k..n
  <2>1. {s, n} \in SUBSET Nat
    BY <1>8
  <2>2. Min({s, n}) \in {s, n} /\ \A i \in {s, n} : Min({s, n}) <= i
    BY <2>1, MinOf
  <2> QED
    BY <1>4, <1>5, <1>8, <2>2
<1>10. Whole(MainFile(left).log) = SubSeq(l, 1, n) /\ Min({MainFile(left).synced, n}) \in k..n
  BY <1>5, <1>7, <1>9
<1> QED
  BY <1>3, <1>8, <1>10, CrashAt

\* A crash between unlink and rename keeps the inductive invariant.
LEMMA CrashNew ==
  ASSUME Typed, actor.stage = "unlinked", "main" \notin DOMAIN disk, NewOK(actor, disk),
         OneEach(actor.events), NEW x \in 1..Len(line),
         line[x] = Values(Contents(actor.events)),
         NEW left, Files(left), "main" \notin DOMAIN left, "new" \in DOMAIN left,
         left["new"] = File(disk["new"].log, Len(disk["new"].log)),
         Restart(Opened(left), LineOf(left))
  PROVE  IInv' /\ LineBack
<1> DEFINE l == disk["new"].log
           k == Len(l)
           g == [i \in {k} |-> x]
<1>1. l \in Seq(EntryOK) /\ DoEvents(l).live = actor.events.live /\ Len(line) \in Nat
  BY DEF NewOK, Typed
<1>2. MainFile(left) = left["new"]
  BY DEF MainFile
<1>3. MainFile(left).log = l /\ MainFile(left).synced = k
  BY <1>2, FileIs
<1> HIDE DEF l
<1>4. k \in Nat /\ k \in 0..Len(l) /\ SubSeq(l, 1, k) = l /\ Whole(l) = l /\ k \in k..Len(l)
  <2>1. l \in Seq(Entry)
    BY <1>1, EntryIs
  <2> QED
    BY <1>1, <2>1, WholeClean
<1>10. k = Len(l)
  OBVIOUS
<1> HIDE DEF k
<1>5. Finds(l, line[x])
  BY <1>1, FindsOf
<1>6. g[k] = x
  OBVIOUS
<1> HIDE DEF g
<1>7. Follows(l, k, line, g, x)
  <2>1. \A n \in k..Len(l) : n = k
    <3>1. k \in Nat /\ k..Len(l) = k..k
      BY <1>4, <1>10
    <3> QED
      BY <3>1
  <2>2. \A n \in k..Len(l) : g[n] \in 1..x /\ Finds(SubSeq(l, 1, n), line[g[n]])
    <3> TAKE n \in k..Len(l)
    <3>1. n = k
      BY <2>1
    <3>2. Finds(SubSeq(l, 1, k), line[g[k]])
      BY <1>4, <1>5, <1>6, Zenon
    <3>3. g[k] \in 1..x
      BY <1>6
    <3> QED
      BY <3>1, <3>2, <3>3
  <2>3. \A m, n \in k..Len(l) : m <= n => g[m] <= g[n]
    BY <1>6, <2>1
  <2> QED
    BY <1>1, <1>4, <2>2, <2>3 DEF Follows
<1>8. Min({MainFile(left).synced, k}) \in k..k
  <2>1. {k} \in SUBSET Nat /\ {k, k} = {k}
    BY <1>4
  <2>2. Min({k}) \in {k}
    BY <2>1, MinOf
  <2>3. MainFile(left).synced = k
    BY <1>3
  <2>4. Min({MainFile(left).synced, k}) = Min({k})
    BY <2>1, <2>3
  <2>5. k \in k..k
    BY <2>1
  <2> QED
    BY <2>2, <2>4, <2>5
<1>9. Whole(MainFile(left).log) = SubSeq(l, 1, k) /\ x \in Nat /\ x <= Len(line)
  BY <1>1, <1>3, <1>4
<1> QED
  BY <1>4, <1>7, <1>8, <1>9, CrashAt

\* A crash leaves these files, each with what remains of its log.
LeftOf(d, main, new, durable) ==
  [f \in DOMAIN d |->
    LET log == IF f = "main" THEN main ELSE new
    IN File(log, IF durable THEN Len(log) ELSE d[f].synced)]

\* What a crash leaves are files.
LEMMA LeftFiles ==
  ASSUME NEW d, Files(d), NEW main, NEW new, NEW durable \in BOOLEAN,
         NEW left, left = LeftOf(d, main, new, durable)
  PROVE  /\ Files(left) /\ DOMAIN left = DOMAIN d
         /\ "main" \in DOMAIN d =>
              left["main"] = File(main, IF durable THEN Len(main) ELSE d["main"].synced)
         /\ "new" \in DOMAIN d =>
              left["new"] = File(new, IF durable THEN Len(new) ELSE d["new"].synced)
<1>1. DOMAIN left = DOMAIN d
  BY DEF LeftOf
<1>2. \A f \in DOMAIN left : \E l, k : left[f] = File(l, k)
  BY DEF LeftOf
<1>3. \A f \in DOMAIN left : left[f] = File(left[f].log, left[f].synced)
  <2> TAKE f \in DOMAIN left
  <2>1. PICK l, k : left[f] = File(l, k)
    BY <1>2
  <2>2. left[f].log = l /\ left[f].synced = k
    BY <2>1, FileIs
  <2> QED
    BY <2>1, <2>2
<1>4. Files(left)
  BY <1>1, <1>3 DEF Files
<1>5. "main" \in DOMAIN d =>
        left["main"] = File(main, IF durable THEN Len(main) ELSE d["main"].synced)
  BY DEF LeftOf
<1>6. "new" \in DOMAIN d =>
        left["new"] = File(new, IF durable THEN Len(new) ELSE d["new"].synced)
  BY DEF LeftOf
<1> QED
  BY <1>1, <1>4, <1>5, <1>6

\* A crash opens what remains of the two files.
LEMMA CrashParts ==
  ASSUME NEW least, NEW durable \in BOOLEAN, Crash(least, durable)
  PROVE  \E main \in Remains("main", least["main"]), new \in Remains("new", least["new"]) :
           Restart(Opened(LeftOf(disk, main, new, durable)),
                   LineOf(LeftOf(disk, main, new, durable)))
  BY Zenon DEF Crash, LeftOf, LineOf

\* What remains of a file is what is left of its log.
LEMMA RemainsIs ==
  ASSUME NEW least
  PROVE  /\ "main" \in DOMAIN disk =>
              Remains("main", least) = Left(disk["main"].log \o actor.buffer, least)
         /\ "new" \in DOMAIN disk =>
              Remains("new", least) = Left(disk["new"].log \o <<>>, least)
  BY DEF Remains, Left

\* What a crash leaves, be it with the file, with the new file alone, or with none.
LEMMA CrashStep ==
  ASSUME IInv, NEW least, NEW durable \in BOOLEAN, Crash(least, durable),
         "main" \in DOMAIN disk => least["main"] = Least(disk, "main", durable),
         "new" \in DOMAIN disk /\ actor.stage = "unlinked" =>
           least["new"] = Least(disk, "new", durable)
  PROVE  IInv' /\ LineBack
<1>1. PICK main \in Remains("main", least["main"]), new \in Remains("new", least["new"]) :
        Restart(Opened(LeftOf(disk, main, new, durable)), LineOf(LeftOf(disk, main, new, durable)))
  BY CrashParts
<1> DEFINE left == LeftOf(disk, main, new, durable)
<1>2. Restart(Opened(left), LineOf(left))
  BY <1>1
<1>3. Typed /\ Len(line) \in Nat \ {0}
  BY AskIs DEF IInv
<1>4. Files(disk) =>
        /\ Files(left) /\ DOMAIN left = DOMAIN disk
        /\ "main" \in DOMAIN disk =>
             left["main"] = File(main, IF durable THEN Len(main) ELSE disk["main"].synced)
        /\ "new" \in DOMAIN disk =>
             left["new"] = File(new, IF durable THEN Len(new) ELSE disk["new"].synced)
  BY LeftFiles
<1> HIDE DEF left
<1>5. ASSUME Files(disk), "main" \in DOMAIN disk, actor.buffer \in Seq(EntryOK),
             disk["main"].log \in Seq(EntryOK), disk["main"].synced \in 0..Len(disk["main"].log),
             NEW g, NEW x \in Nat, x <= Len(line),
             Follows(disk["main"].log \o actor.buffer, disk["main"].synced, line, g, x)
      PROVE  IInv' /\ LineBack
  <2>1. main \in Left(disk["main"].log \o actor.buffer, Least(disk, "main", durable))
    BY <1>1, <1>5, RemainsIs
  <2>2. /\ Files(left) /\ "main" \in DOMAIN left
        /\ left["main"] = File(main, IF durable THEN Len(main) ELSE disk["main"].synced)
    BY <1>4, <1>5
  <2> QED
    BY <1>2, <1>3, <1>5, <2>1, <2>2, CrashMain
<1>6. CASE IsOpen(actor)
  <2>1. PICK ms, at, g :
          /\ Turn(actor, mailbox, sending, seq, line, asked, ms, at)
          /\ DiskOK(actor, disk, line, start, g, at[actor.begin - 1])
          /\ at[actor.begin - 1] \in 1..Len(line)
          /\ line[at[actor.begin - 1]] = Values(Contents(actor.events))
    BY <1>6, Now
  <2> DEFINE x == at[actor.begin - 1]
  <2>2. /\ x \in 1..Len(line) /\ x \in Nat /\ x <= Len(line)
        /\ line[x] = Values(Contents(actor.events))
        /\ DiskOK(actor, disk, line, start, g, x) /\ OneEach(actor.events)
    BY <1>3, <2>1 DEF Turn
  <2> HIDE DEF x
  <2>3. Files(disk) /\ actor.buffer \in Seq(EntryOK)
    BY <2>2 DEF DiskOK, Files
  <2>4. CASE actor.stage # "unlinked"
    <3>1. MainOK(actor, disk, line, start, g, x)
      BY <2>2, <2>4 DEF DiskOK
    <3>2. /\ "main" \in DOMAIN disk
          /\ disk["main"].log \in Seq(EntryOK) /\ disk["main"].synced \in 0..Len(disk["main"].log)
          /\ Follows(disk["main"].log \o actor.buffer, disk["main"].synced, line, g, x)
      BY <3>1 DEF MainOK
    <3> QED
      BY <1>5, <2>2, <2>3, <3>2
  <2>5. CASE actor.stage = "unlinked"
    <3>1. "main" \notin DOMAIN disk /\ NewOK(actor, disk)
      BY <2>2, <2>5 DEF DiskOK, Rewriting
    <3> DEFINE l == disk["new"].log
    <3>2. /\ "new" \in DOMAIN disk /\ l \in Seq(EntryOK) /\ disk["new"].synced = Len(l)
      BY <2>5, <3>1 DEF NewOK
    <3> HIDE DEF l
    <3>3. Len(l) \in 0..Len(l) /\ l \o <<>> = l
      BY <3>2
    <3>4. new \in Left(l \o <<>>, least["new"])
      BY <1>1, <3>2, RemainsIs DEF l
    <3>5. least["new"] = Len(l)
      <4>1. least["new"] = Least(disk, "new", durable)
        BY <2>5, <3>2
      <4> QED
        BY <3>2, <4>1 DEF Least, l
    <3>6. new = l
      BY <3>2, <3>3, <3>4, <3>5, LeftIs
    <3>7. /\ Files(left) /\ "main" \notin DOMAIN left /\ "new" \in DOMAIN left
          /\ left["new"] = File(l, Len(l))
      BY <1>4, <2>3, <3>1, <3>2, <3>6
    <3> QED
      BY <1>2, <1>3, <2>2, <2>5, <3>1, <3>7, CrashNew DEF l
  <2> QED
    BY <2>4, <2>5
<1>7. CASE ~IsOpen(actor)
  <2>1. PICK g : Rests(actor, mailbox, sending, disk, line, asked, g)
    BY <1>7, Zenon DEF IInv, Story
  <2>2. actor.buffer = <<>>
    <3>1. actor = [NewActor(NoEvents) EXCEPT !.stage = actor.stage]
      BY <2>1 DEF Rests
    <3> QED
      BY <3>1 DEF NewActor
  <2>3. CASE Complete(disk, line, g)
    <3> DEFINE l == disk["main"].log
               k == disk["main"].synced
    <3>1. Files(disk) /\ "main" \in DOMAIN disk /\ Follows(l, k, line, g, Len(line))
      BY <2>3 DEF Complete, Files
    <3> HIDE DEF l, k
    <3>2. l \in Seq(EntryOK) /\ k \in 0..Len(l)
      BY <3>1 DEF Follows
    <3>3. l \o actor.buffer = l /\ actor.buffer \in Seq(EntryOK)
      BY <2>2, <3>2
    <3>4. Len(line) \in Nat /\ Len(line) <= Len(line)
      BY <1>3
    <3>5. Follows(l \o actor.buffer, k, line, g, Len(line))
      BY <3>1, <3>3
    <3> QED
      BY <1>5, <3>1, <3>2, <3>3, <3>4, <3>5 DEF l, k
  <2>4. CASE DOMAIN disk = {} /\ Finds(<<>>, line[Len(line)])
    <3> DEFINE h == [i \in {0} |-> Len(line)]
    <3>1. Files(left) /\ DOMAIN left = {}
      BY <1>4, <2>4 DEF Files
    <3>2. MainFile(left).log = <<>> /\ MainFile(left).synced = 0
      BY <3>1, FileIs DEF MainFile
    <3>3. Whole(<<>>) = <<>> /\ SubSeq(<<>>, 1, 0) = <<>> /\ Len(<<>>) = 0
      <4>1. <<>> \in Seq(Entry) /\ Len(<<>>) = 0
        OBVIOUS
      <4>2. Whole(<<>>) = <<>>
        BY <4>1, WholeClean
      <4>3. SubSeq(<<>>, 1, 0) = <<>>
        OBVIOUS
      <4> QED
        BY <4>1, <4>2, <4>3
    <3>4. Follows(<<>>, 0, line, h, Len(line))
      BY <1>3, <2>4, NoFile
    <3> HIDE DEF h
    <3>5. Min({MainFile(left).synced, 0}) \in 0..0
      <4>1. Min({0, 0}) = 0
        BY MinOf
      <4> QED
        BY <3>2, <4>1
    <3>6. Whole(MainFile(left).log) = SubSeq(<<>>, 1, 0)
      BY <3>2, <3>3
    <3>7. 0 \in 0..Len(<<>>) /\ Len(line) \in Nat /\ Len(line) <= Len(line)
      BY <1>3, <3>3
    <3> QED
      BY <1>2, <1>3, <3>1, <3>4, <3>5, <3>6, <3>7, CrashAt
  <2> QED
    BY <2>1, <2>3, <2>4 DEF Rests
<1> QED
  BY <1>6, <1>7

\* Kill keeps the inductive invariant, and takes the line back.
LEMMA KillStep ==
  ASSUME IInv, Kill
  PROVE  IInv' /\ LineBack
<1> DEFINE least == [f \in {"main", "new"} |->
                      IF f \notin DOMAIN disk \/ (f = "new" /\ actor.stage = "rewriting") THEN 0
                      ELSE Len(disk[f].log)]
<1>1. Crash(least, FALSE)
  BY DEF Kill
<1>2. "main" \in DOMAIN disk => least["main"] = Least(disk, "main", FALSE)
  BY DEF Least
<1>3. "new" \in DOMAIN disk /\ actor.stage = "unlinked" =>
        least["new"] = Least(disk, "new", FALSE)
  BY DEF Least
<1> HIDE DEF least
<1> QED
  BY <1>1, <1>2, <1>3, CrashStep

\* PowerLoss keeps the inductive invariant, and takes the line back.
LEMMA PowerLossStep ==
  ASSUME IInv, PowerLoss
  PROVE  IInv' /\ LineBack
<1> DEFINE least == [f \in {"main", "new"} |->
                      IF f \in DOMAIN disk THEN disk[f].synced ELSE 0]
<1>1. Crash(least, TRUE)
  BY DEF PowerLoss
<1>2. "main" \in DOMAIN disk => least["main"] = Least(disk, "main", TRUE)
  BY DEF Least
<1>3. "new" \in DOMAIN disk /\ actor.stage = "unlinked" =>
        least["new"] = Least(disk, "new", TRUE)
  BY DEF Least
<1> HIDE DEF least
<1> QED
  BY <1>1, <1>2, <1>3, CrashStep

\* A step that changes nothing keeps the inductive invariant.
LEMMA StutterStep ==
  ASSUME IInv, UNCHANGED vars
  PROVE  IInv'
<1>1. /\ map' = map /\ seq' = seq /\ sending' = sending /\ mailbox' = mailbox
      /\ actor' = actor /\ disk' = disk /\ aborted' = aborted /\ line' = line
      /\ asked' = asked /\ start' = start
  BY DEF vars
<1>2. Typed'
  BY <1>1 DEF IInv, Typed
<1>3. (\E ms, at, g : Story(ms, at, g))'
  <2>1. PICK ms, at, g : Story(ms, at, g)
    BY DEF IInv
  <2>2. Story(ms, at, g)'
    BY <1>1, <2>1, Zenon DEF Story
  <2> QED
    BY <2>2
<1> QED
  BY <1>2, <1>3 DEF IInv

\* Only while the log is open has a thread something to hand over.
LEMMA OpenSends ==
  ASSUME IInv, sending # {}
  PROVE  IsOpen(actor)
<1>1. PICK ms, at, g : Story(ms, at, g)
  BY DEF IInv
<1> QED
  BY <1>1, Zenon DEF Story, Rests

\* Every step keeps the inductive invariant.
LEMMA IInvNext ==
  IInv /\ [Next]_vars => IInv'
<1> SUFFICES ASSUME IInv, [Next]_vars
             PROVE  IInv'
  OBVIOUS
<1>1. ASSUME NEW k \in Key, EraseKey(k)
      PROVE  IInv'
  BY <1>1, EraseStep
<1>2. ASSUME NEW k \in Key, NEW v \in Value[k], Set(k, v)
      PROVE  IInv'
  BY <1>2, SetStep
<1>3. ASSUME NEW S \in SUBSET Key, EraseBatch(S)
      PROVE  IInv'
  BY <1>3, EraseBatchStep
<1>4. ASSUME NEW p \in Promise, AskLazySync(p)
      PROVE  IInv'
  BY <1>4, AskLazyStep
<1>5. ASSUME NEW p \in Promise, AskForceSync(p)
      PROVE  IInv'
  BY <1>5, AskForceStep
<1>6. ASSUME NEW part \in sending, Send(part)
      PROVE  IInv'
  <2>1. IsOpen(actor)
    BY OpenSends
  <2> QED
    BY <1>6, <2>1, SendStep
<1>7. CASE Receive
  BY <1>7, ReceiveStep
<1>8. CASE Run
  BY <1>8, RunStep
<1>9. CASE Finish
  BY <1>9, FinishStep
<1>10. CASE Timeout
  BY <1>10, TimeoutStep
<1>11. CASE SyncNew
  BY <1>11, SyncNewStep
<1>12. CASE Unlink
  BY <1>12, UnlinkStep
<1>13. CASE RenameNew
  BY <1>13, RenameStep
<1>14. CASE Close
  BY <1>14, CloseStep
<1>15. CASE DestroyNew
  BY <1>15, DestroyNewStep
<1>16. CASE DestroyMain
  BY <1>16, DestroyMainStep
<1>17. CASE Open
  BY <1>17, OpenStep
<1>18. CASE Kill
  BY <1>18, KillStep
<1>19. CASE PowerLoss
  BY <1>19, PowerLossStep
<1>20. CASE UNCHANGED vars
  BY <1>20, StutterStep
<1> QED
  BY <1>1, <1>2, <1>3, <1>4, <1>5, <1>6, <1>7, <1>8, <1>9, <1>10, <1>11, <1>12, <1>13, <1>14,
     <1>15, <1>16, <1>17, <1>18, <1>19, <1>20, Zenon
     DEF Next, ThreadNext, ActorNext

\* The inductive invariant always holds.
LEMMA IInvHolds ==
  Spec => []IInv
  BY IInvInit, IInvNext, PTL DEF Spec

\* No check of the actor fails: what comes to it can be put in order, and no
\* entry comes for an event that is gone (OrderedEventsProcessor::add,
\* Binlog::do_event).
THEOREM NeverFails ==
  Spec => []NeverAborts
<1>1. IInv => NeverAborts
  BY DEF IInv, Typed, NeverAborts
<1> QED
  BY <1>1, IInvHolds, PTL

\* As many are on their way as there are numbers not yet in order.
LEMMA WayCounts ==
  ASSUME NEW q \in Nat, NEW b \in 1..q, NEW W,
         \A w \in W : w.seq \in b..q - 1,
         \A n \in b..q - 1 : \E w \in W : w.seq = n,
         \A v, w \in W : v.seq = w.seq => v = w
  PROVE  IsFiniteSet(W) /\ Cardinality(W) = q - b
<1> DEFINE f == [w \in W |-> w.seq]
           T == b..q - 1
<1>1. IsFiniteSet(T) /\ Cardinality(T) = q - b
  <2>1. b \in Int /\ q - 1 \in Int
    OBVIOUS
  <2>2. IsFiniteSet(T) /\ Cardinality(T) = IF b > q - 1 THEN 0 ELSE (q - 1) - b + 1
    BY <2>1, FS_Interval, Zenon
  <2>3. (IF b > q - 1 THEN 0 ELSE (q - 1) - b + 1) = q - b
    OBVIOUS
  <2> QED
    BY <2>2, <2>3
<1>2. f \in [W -> T]
  OBVIOUS
<1>3. f \in Injection(W, T)
  <2>1. \A v, w \in W : f[v] = f[w] => v = w
    OBVIOUS
  <2> HIDE DEF f, T
  <2> QED
    BY <1>2, <2>1 DEF Injection, IsInjective
<1>4. f \in Surjection(W, T)
  <2>1. \A n \in T : \E w \in W : f[w] = n
    OBVIOUS
  <2> HIDE DEF f, T
  <2> QED
    BY <1>2, <2>1 DEF Surjection
<1> HIDE DEF f, T
<1> QED
  BY <1>1, <1>3, <1>4, FS_Injection

\* Sets with nothing in common add up.
LEMMA ApartCount ==
  ASSUME NEW A, NEW B, IsFiniteSet(A), IsFiniteSet(B), A \cap B = {}
  PROVE  /\ IsFiniteSet(A \cup B) /\ Cardinality(A) \in Nat /\ Cardinality(B) \in Nat
         /\ Cardinality(A \cup B) = Cardinality(A) + Cardinality(B)
<1>1. Cardinality({}) = 0
  BY FS_EmptySet
<1>2. Cardinality(A) \in Nat /\ Cardinality(B) \in Nat
  BY FS_CardinalityType
<1>3. /\ IsFiniteSet(A \cup B)
      /\ Cardinality(A \cup B) = Cardinality(A) + Cardinality(B) - Cardinality(A \cap B)
  BY FS_Union
<1> DEFINE a == Cardinality(A)
           b == Cardinality(B)
           c == Cardinality(A \cup B)
<1>4. a \in Nat /\ b \in Nat /\ c = a + b - 0
  BY <1>1, <1>2, <1>3
<1> HIDE DEF a, b, c
<1>5. c = a + b
  BY <1>4
<1> QED
  BY <1>2, <1>3, <1>5 DEF a, b, c

\* Every number that was taken is on its way exactly once until its turn
\* comes, who waits for the timer has set it, and a key lives in one event
\* (BinlogKeyValue::set, ConcurrentBinlog::add_raw_event_impl,
\* OrderedEventsProcessor, BinlogActor::wakeup_at).
THEOREM TypeCorrect ==
  Spec => []TypeOK
<1>1. IInv => TypeOK
  <2> SUFFICES ASSUME IInv
               PROVE  TypeOK
    OBVIOUS
  <2>1. Typed /\ MapOK(map, seq - 1)
    BY DEF IInv, Typed
  <2>2. map \in UNION {[K -> [value : UNION {Value[k] : k \in K}, id : 1..seq - 1]] : K \in SUBSET Key}
    <3> DEFINE K == DOMAIN map
               V == UNION {Value[k] : k \in K}
    <3>1. /\ K \in SUBSET Key
          /\ map \in [K -> [value : UNION {Value[k] : k \in Key}, id : 1..seq - 1]]
          /\ \A k \in K : map[k].value \in Value[k]
      BY <2>1 DEF MapOK
    <3>2. \A k \in K : map[k].value \in V
      BY <3>1
    <3> HIDE DEF V
    <3>3. map \in [K -> [value : V, id : 1..seq - 1]]
      <4>1. \A k \in K : map[k] \in [value : V, id : 1..seq - 1]
        BY <3>1, <3>2
      <4>2. map = [k \in K |-> map[k]]
        BY <3>1
      <4> HIDE DEF K
      <4> QED
        BY <4>1, <4>2
    <3> QED
      BY <3>1, <3>3 DEF V
  <2>3. ASSUME actor.stage = "run"
        PROVE  /\ actor.begin..seq - 1 = {w.seq : w \in actor.pending \cup InMail \cup sending}
               /\ Cardinality(actor.pending) + Cardinality(InMail) + Cardinality(sending)
                    = seq - actor.begin
    <3>1. IsOpen(actor)
      BY <2>3 DEF IsOpen
    <3>2. Numbered(actor, mailbox, sending, seq)
      BY <3>1, Now DEF Turn
    <3> DEFINE W == Way(actor, mailbox, sending)
               b == actor.begin
    <3>3. /\ seq \in Nat /\ b \in 1..seq
          /\ \A w \in W : w.seq \in b..seq - 1
          /\ \A n \in b..seq - 1 : \E w \in W : w.seq = n
          /\ \A v, w \in W : v.seq = w.seq => v = w
          /\ actor.pending \cap MailParts(mailbox) = {}
          /\ sending \cap (actor.pending \cup MailParts(mailbox)) = {}
      BY <3>2 DEF Numbered
    <3>4. InMail = MailParts(mailbox)
      BY DEF InMail, MailParts
    <3>5. W = (actor.pending \cup InMail) \cup sending
      BY <3>4 DEF Way
    <3> HIDE DEF W, b
    <3>6. IsFiniteSet(W) /\ Cardinality(W) = seq - b
      BY <3>3, WayCounts
    <3>7. IsFiniteSet(actor.pending) /\ IsFiniteSet(InMail) /\ IsFiniteSet(sending)
      BY <3>5, <3>6, FS_Subset
    <3>8. Cardinality(actor.pending \cup InMail) = Cardinality(actor.pending) + Cardinality(InMail)
          /\ IsFiniteSet(actor.pending \cup InMail)
      BY <3>3, <3>4, <3>7, ApartCount
    <3>9. Cardinality(W) = Cardinality(actor.pending \cup InMail) + Cardinality(sending)
      <4>1. (actor.pending \cup InMail) \cap sending = {}
        BY <3>3, <3>4
      <4> QED
        BY <3>5, <3>7, <3>8, <4>1, ApartCount
    <3>10. b..seq - 1 = {w.seq : w \in W}
      <4>1. \A n : n \in b..seq - 1 <=> n \in {w.seq : w \in W}
        BY <3>3
      <4> QED
        BY <4>1
    <3> QED
      BY <3>5, <3>6, <3>8, <3>9, <3>10 DEF b
  <2>4. (actor.promises # {} \/ actor.lazy \/ actor.force \/ actor.flush) => actor.timer
    BY <2>1 DEF Typed, TimerOK
  <2>5. OneEach(actor.events)
    <3>1. CASE IsOpen(actor)
      BY <3>1, Now DEF Turn
    <3>2. CASE ~IsOpen(actor)
      <4>1. PICK g : Rests(actor, mailbox, sending, disk, line, asked, g)
        BY <3>2, Zenon DEF IInv, Story
      <4>2. actor = [NewActor(NoEvents) EXCEPT !.stage = actor.stage]
        BY <4>1 DEF Rests
      <4>3. actor.events = NoEvents
        BY <4>2 DEF NewActor
      <4> QED
        BY <4>3, NoneLive
    <3> QED
      BY <3>1, <3>2
  <2> QED
    BY <2>2, <2>3, <2>4, <2>5 DEF TypeOK, OneEach
<1> QED
  BY <1>1, IInvHolds, PTL

-----------------------------------------------------------------------------
(***************************************************************************)
(* What is on its way, in the order of the numbers, on top of the file and *)
(* the buffer.                                                             *)
(***************************************************************************)
Rank(S, i) == Cardinality({j \in S : j < i})

\* The place of a number is its rank, which no other number has.
LEMMA RankIs ==
  ASSUME NEW S \in SUBSET Nat, IsFiniteSet(S)
  PROVE  /\ \A k \in 1..Cardinality(S) : Ascending(S)[k] \in S /\ Rank(S, Ascending(S)[k]) = k - 1
         /\ \A i, j \in S : Rank(S, i) = Rank(S, j) => i = j
<1>1. /\ Ascending(S) = Numbers!Ascending(S) /\ Numbers!Cardinality(S) = Cardinality(S)
      /\ Numbers!IsFiniteSet(S)
  BY SameAscending, SameFinite
<1>2. \A i : Numbers!Before(S, i) = Rank(S, i)
  BY SameFinite, Zenon DEF Rank, Numbers!Before
<1>3. \A k \in 1..Cardinality(S) : Ascending(S)[k] \in S /\ Rank(S, Ascending(S)[k]) = k - 1
  <2>1. /\ Numbers!Ascending(S) \in [1..Numbers!Cardinality(S) -> S]
        /\ \A k \in 1..Numbers!Cardinality(S) : Numbers!Before(S, Numbers!Ascending(S)[k]) = k - 1
    BY <1>1, Numbers!AscendingLists
  <2>2. \A k \in 1..Cardinality(S) : Ascending(S)[k] \in S
    BY <1>1, <2>1
  <2>3. \A k \in 1..Cardinality(S) : Rank(S, Ascending(S)[k]) = k - 1
    BY <1>1, <1>2, <2>1
  <2> QED
    BY <2>2, <2>3
<1>4. ASSUME NEW i \in S, NEW j \in S, i < j
      PROVE  Rank(S, i) # Rank(S, j)
  <2>1. Numbers!Before(S, i) < Numbers!Before(S, j)
    BY <1>1, <1>4, Numbers!RankGrows
  <2>2. Numbers!Before(S, i) \in 0..Numbers!Cardinality(S) - 1
        /\ Numbers!Before(S, j) \in 0..Numbers!Cardinality(S) - 1
    BY <1>1, Numbers!RankType
  <2>3. Rank(S, i) \in Int /\ Rank(S, j) \in Int /\ Rank(S, i) < Rank(S, j)
    BY <1>2, <2>1, <2>2
  <2> QED
    BY <2>3
<1>5. ASSUME NEW i \in S, NEW j \in S, Rank(S, i) = Rank(S, j)
      PROVE  i = j
  <2>1. i \in Nat /\ j \in Nat
    OBVIOUS
  <2>2. ~(i < j) /\ ~(j < i)
    BY <1>4, <1>5
  <2> QED
    BY <2>1, <2>2
<1> QED
  BY <1>3, <1>5

\* A number greater than all goes to the end.
LEMMA AscendingTop ==
  ASSUME NEW S \in SUBSET Nat, IsFiniteSet(S), NEW n \in Nat, \A i \in S : i < n
  PROVE  /\ Ascending(S \cup {n}) = Append(Ascending(S), n)
         /\ IsFiniteSet(S \cup {n})
<1> DEFINE T == S \cup {n}
           c == Cardinality(S)
           s == Ascending(S)
           t == Ascending(T)
<1>1. c \in Nat /\ s \in Seq(S) /\ Len(s) = c
  BY AscendingSeq
<1>2. n \notin S /\ T \in SUBSET Nat
  OBVIOUS
<1>3. IsFiniteSet(T) /\ Cardinality(T) = c + 1
  BY <1>2, FS_AddElement
<1>4. t \in Seq(T) /\ Len(t) = c + 1
  BY <1>2, <1>3, AscendingSeq
<1>5. \A i \in S : Rank(T, i) = Rank(S, i)
  <2> TAKE i \in S
  <2>1. i \in Nat /\ i < n
    OBVIOUS
  <2>2. {j \in T : j < i} = {j \in S : j < i}
    BY <2>1
  <2> QED
    BY <2>2, Zenon DEF Rank
<1>6. Rank(T, n) = c
  <2>1. {j \in T : j < n} = S
    <3>1. \A j : j \in {i \in T : i < n} <=> j \in S
      <4> TAKE j
      <4>1. j \in S => j \in T /\ j < n
        OBVIOUS
      <4>2. j \in T => j \in S \/ j = n
        OBVIOUS
      <4>3. ~(n < n)
        OBVIOUS
      <4> HIDE DEF T
      <4> QED
        BY <4>1, <4>2, <4>3
    <3> HIDE DEF T
    <3> QED
      BY <3>1
  <2> QED
    BY <2>1, Zenon DEF Rank
<1>7. /\ \A k \in 1..c : s[k] \in S /\ Rank(S, s[k]) = k - 1
      /\ \A k \in 1..c + 1 : t[k] \in T /\ Rank(T, t[k]) = k - 1
      /\ \A i, j \in T : Rank(T, i) = Rank(T, j) => i = j
  BY <1>2, <1>3, RankIs
<1>8. n \in T /\ S \subseteq T
  OBVIOUS
<1> HIDE DEF T, c, s, t
<1>9. \A k \in 1..c : t[k] = s[k]
  <2> TAKE k \in 1..c
  <2>1. k \in 1..c + 1
    BY <1>1
  <2>2. t[k] \in T /\ Rank(T, t[k]) = k - 1 /\ s[k] \in T /\ Rank(T, s[k]) = k - 1
    BY <1>5, <1>7, <1>8, <2>1
  <2> QED
    BY <1>7, <2>2
<1>10. t[c + 1] = n
  <2>1. c + 1 \in 1..c + 1 /\ (c + 1) - 1 = c
    BY <1>1
  <2>2. t[c + 1] \in T /\ Rank(T, t[c + 1]) = Rank(T, n)
    BY <1>6, <1>7, <2>1
  <2> QED
    BY <1>7, <1>8, <2>2
<1>11. Append(s, n) \in Seq(T) /\ Len(Append(s, n)) = c + 1
       /\ \A k \in 1..c + 1 : Append(s, n)[k] = IF k = c + 1 THEN n ELSE s[k]
  <2>1. s \in Seq(T)
    <3>1. s \in [1..Len(s) -> S]
      BY <1>1
    <3>2. s \in [1..c -> T]
      BY <1>1, <1>8, <3>1
    <3> QED
      BY <1>1, <3>2
  <2> QED
    BY <1>1, <1>8, <2>1
<1>12. \A k \in 1..c + 1 : t[k] = Append(s, n)[k]
  BY <1>1, <1>9, <1>10, <1>11
<1>13. t = Append(s, n)
  BY <1>1, <1>4, <1>11, <1>12
<1> QED
  BY <1>3, <1>13 DEF T, s, t

\* The parts with an entry up to a number, and their entries in order.
PartsTo(W, n) == {w \in W : w.entry # Nothing /\ w.seq <= n}
NumbersTo(W, n) == {w.seq : w \in PartsTo(W, n)}
EntriesOf(P, S) ==
  LET numbers == Ascending(S)
  IN [i \in DOMAIN numbers |-> (CHOOSE w \in P : w.seq = numbers[i]).entry]
EntriesTo(W, n) == EntriesOf(PartsTo(W, n), NumbersTo(W, n))

OnceEach(W) == W \subseteq PartOf /\ \A v, w \in W : v.seq = w.seq => v = w

\* Up to a number there are finitely many.
LEMMA NumbersFinite ==
  ASSUME NEW W, OnceEach(W), NEW n \in Nat
  PROVE  /\ NumbersTo(W, n) \in SUBSET Nat /\ IsFiniteSet(NumbersTo(W, n))
         /\ \A i \in NumbersTo(W, n) : i <= n /\ \E w \in PartsTo(W, n) : w.seq = i
<1>1. \A w \in PartsTo(W, n) : w.seq \in Nat /\ w.seq <= n
  BY DEF PartsTo, OnceEach, PartOf
<1>2. \A i \in NumbersTo(W, n) : i \in 0..n /\ \E w \in PartsTo(W, n) : w.seq = i
  BY <1>1 DEF NumbersTo
<1>3. IsFiniteSet(0..n)
  BY FS_Interval
<1>4. NumbersTo(W, n) \in SUBSET (0..n)
  BY <1>2
<1>5. IsFiniteSet(NumbersTo(W, n))
  BY <1>3, <1>4, FS_Subset
<1> QED
  BY <1>2, <1>5

\* The entries up to a number are those of the parts, in order.
LEMMA EntriesAre ==
  ASSUME NEW W, OnceEach(W), NEW n \in Nat
  PROVE  /\ EntriesTo(W, n) \in Seq(Entry)
         /\ Len(EntriesTo(W, n)) = Len(Ascending(NumbersTo(W, n)))
         /\ \A i \in 1..Len(EntriesTo(W, n)) : \A w \in PartsTo(W, n) :
              w.seq = Ascending(NumbersTo(W, n))[i] => EntriesTo(W, n)[i] = w.entry
<1> DEFINE S == NumbersTo(W, n)
           P == PartsTo(W, n)
           s == Ascending(S)
           e == EntriesTo(W, n)
<1>1. /\ S \in SUBSET Nat /\ IsFiniteSet(S)
      /\ \A i \in S : \E w \in P : w.seq = i
  BY NumbersFinite
<1>2. /\ Len(s) \in Nat /\ DOMAIN s = 1..Len(s) /\ \A i \in 1..Len(s) : s[i] \in S
  <2>1. s \in Seq(S)
    BY <1>1, AscendingSeq
  <2> HIDE DEF s, S
  <2> QED
    BY <2>1
<1>3. \A v, w \in P : v.seq = w.seq => v = w
  BY DEF PartsTo, OnceEach
<1>4. \A w \in P : w.entry \in Entry
  BY DEF PartsTo, OnceEach, PartOf
<1>5. e = [i \in DOMAIN s |-> (CHOOSE w \in P : w.seq = s[i]).entry]
  BY DEF EntriesTo, EntriesOf
<1> HIDE DEF S, P, s, e
<1>6. \A i \in 1..Len(s) : \A w \in P : w.seq = s[i] => e[i] = w.entry
  <2> TAKE i \in 1..Len(s)
  <2> TAKE w \in P
  <2> HAVE w.seq = s[i]
  <2> DEFINE v == CHOOSE v \in P : v.seq = s[i]
  <2>1. v \in P /\ v.seq = s[i]
    OBVIOUS
  <2>2. v = w
    BY <1>3, <2>1
  <2>3. e[i] = v.entry
    BY <1>2, <1>5
  <2> QED
    BY <2>2, <2>3
<1>7. \A i \in 1..Len(s) : e[i] \in Entry
  <2> TAKE i \in 1..Len(s)
  <2>1. PICK w \in P : w.seq = s[i]
    BY <1>1, <1>2
  <2> QED
    BY <1>4, <1>6, <2>1
<1>8. e \in Seq(Entry) /\ Len(e) = Len(s)
  <2>1. e \in [1..Len(s) -> Entry]
    BY <1>2, <1>5, <1>7
  <2> QED
    BY <1>2, <2>1
<1> QED
  BY <1>6, <1>8 DEF S, P, s, e

\* The next number adds its entry, if it has one.
LEMMA EntriesNext ==
  ASSUME NEW W, OnceEach(W), NEW n \in Nat \ {0}, NEW w \in W, w.seq = n
  PROVE  /\ w.entry = Nothing => EntriesTo(W, n) = EntriesTo(W, n - 1)
         /\ w.entry # Nothing => EntriesTo(W, n) = Append(EntriesTo(W, n - 1), w.entry)
<1>1. \A v \in W : v.seq \in Nat /\ (v.seq <= n <=> v.seq <= n - 1 \/ v = w)
  <2> TAKE v \in W
  <2>1. v.seq \in Nat /\ w \in W
    BY DEF OnceEach, PartOf
  <2>2. v.seq = n => v = w
    BY DEF OnceEach
  <2> QED
    BY <2>1, <2>2
<1>2. n - 1 \in Nat /\ ~(n <= n - 1)
  OBVIOUS
<1>3. ASSUME w.entry = Nothing
      PROVE  EntriesTo(W, n) = EntriesTo(W, n - 1)
  <2>1. PartsTo(W, n) = PartsTo(W, n - 1)
    <3>1. \A v : v \in PartsTo(W, n) <=> v \in PartsTo(W, n - 1)
      BY <1>1, <1>3 DEF PartsTo
    <3> QED
      BY <3>1
  <2>2. NumbersTo(W, n) = NumbersTo(W, n - 1)
    BY <2>1, Zenon DEF NumbersTo
  <2> QED
    BY <2>1, <2>2, Zenon DEF EntriesTo
<1>4. ASSUME w.entry # Nothing
      PROVE  EntriesTo(W, n) = Append(EntriesTo(W, n - 1), w.entry)
  <2> DEFINE P == PartsTo(W, n - 1)
             S == NumbersTo(W, n - 1)
             s == Ascending(S)
             t == Ascending(NumbersTo(W, n))
             e == EntriesTo(W, n - 1)
             f == EntriesTo(W, n)
  <2>1. \A v : v \in PartsTo(W, n) <=> v \in P \/ v = w
    BY <1>1, <1>2, <1>4 DEF PartsTo
  <2>2. NumbersTo(W, n) = S \cup {n}
    <3>1. \A i : i \in NumbersTo(W, n) <=> \E v \in PartsTo(W, n) : v.seq = i
      BY DEF NumbersTo
    <3>2. \A i : i \in S <=> \E v \in P : v.seq = i
      BY DEF NumbersTo
    <3>3. \A i : i \in NumbersTo(W, n) <=> i \in S \cup {n}
      BY <2>1, <3>1, <3>2
    <3> QED
      BY <3>3
  <2>3. S \in SUBSET Nat /\ IsFiniteSet(S) /\ \A i \in S : i <= n - 1 /\ \E v \in P : v.seq = i
    BY <1>2, NumbersFinite
  <2>4. t = Append(s, n)
    <3>1. \A i \in S : i < n
      BY <2>3
    <3> QED
      BY <2>2, <2>3, <3>1, AscendingTop
  <2>5. s \in Seq(S) /\ Len(s) \in Nat
    BY <2>3, AscendingSeq
  <2>6. /\ e \in Seq(Entry) /\ Len(e) = Len(s)
        /\ \A i \in 1..Len(e) : \A v \in P : v.seq = s[i] => e[i] = v.entry
    BY <1>2, EntriesAre
  <2>7. /\ f \in Seq(Entry) /\ Len(f) = Len(t)
        /\ \A i \in 1..Len(f) : \A v \in PartsTo(W, n) : v.seq = t[i] => f[i] = v.entry
    BY EntriesAre
  <2> HIDE DEF P, S, s, t, e, f
  <2>8. Len(t) = Len(s) + 1 /\ t[Len(s) + 1] = n /\ \A i \in 1..Len(s) : t[i] = s[i] /\ s[i] \in S
    BY <2>4, <2>5
  <2>9. \A i \in 1..Len(s) : f[i] = e[i]
    <3> TAKE i \in 1..Len(s)
    <3>1. PICK v \in P : v.seq = s[i]
      BY <2>3, <2>8
    <3>2. e[i] = v.entry
      BY <2>6, <3>1
    <3>3. i \in 1..Len(f) /\ v \in PartsTo(W, n) /\ v.seq = t[i]
      BY <2>1, <2>5, <2>7, <2>8, <3>1
    <3> QED
      BY <2>7, <3>2, <3>3
  <2>10. f[Len(s) + 1] = w.entry
    <3>1. Len(s) + 1 \in 1..Len(f) /\ w \in PartsTo(W, n) /\ w.seq = t[Len(s) + 1]
      BY <2>1, <2>5, <2>7, <2>8
    <3> QED
      BY <2>7, <3>1
  <2>11. /\ w.entry \in Entry
    BY <1>4 DEF OnceEach, PartOf
  <2>12. f = Append(e, w.entry)
    <3>1. Append(e, w.entry) \in Seq(Entry) /\ Len(Append(e, w.entry)) = Len(s) + 1
      BY <2>5, <2>6, <2>11
    <3>2. \A i \in 1..Len(s) + 1 : Append(e, w.entry)[i] = f[i]
      BY <2>5, <2>6, <2>9, <2>10
    <3> QED
      BY <2>5, <2>7, <2>8, <3>1, <3>2
  <2> QED
    BY <2>12 DEF e, f
<1> QED
  BY <1>3, <1>4

\* The events f are those of the map m at the number n.
Stands(f, n, m) == LiveOK(f, n) /\ OneKey(f) /\ Shows(f, m)

\* The entries up to a number, after those of a log, make the map of it.
Made(l, W, n, m) ==
  /\ EntriesTo(W, n) \in Seq(EntryOK)
  /\ Stands(DoEvents(l \o EntriesTo(W, n)).live, n, m)

\* The entry of the next number makes the next map.
LEMMA MadeNext ==
  ASSUME NEW W, OnceEach(W), NEW n \in Nat \ {0}, NEW w \in W, w.seq = n,
         NEW l \in Seq(EntryOK), NEW c, Made(l, W, n - 1, c), NEW m,
         w.entry = Nothing => m = c,
         w.entry # Nothing => w.entry \in Entry /\ Makes(w.entry, n, c, m) /\ MapOK(m, n)
  PROVE  Made(l, W, n, m)
<1> DEFINE e == EntriesTo(W, n - 1)
           f == DoEvents(l \o e).live
<1>1. e \in Seq(EntryOK) /\ LiveOK(f, n - 1) /\ OneKey(f) /\ Shows(f, c)
  BY DEF Made, Stands
<1>2. CASE w.entry = Nothing
  <2>1. EntriesTo(W, n) = e
    BY <1>2, EntriesNext
  <2> HIDE DEF e, f
  <2>2. LiveOK(f, n)
    <3>1. 1..n - 1 \subseteq 1..n
      OBVIOUS
    <3> QED
      BY <1>1, <3>1 DEF LiveOK
  <2>3. Stands(f, n, m)
    BY <1>1, <1>2, <2>2 DEF Stands
  <2> QED
    BY <1>1, <2>1, <2>3 DEF Made, f
<1>3. CASE w.entry # Nothing
  <2>1. EntriesTo(W, n) = Append(e, w.entry)
    BY <1>3, EntriesNext
  <2> HIDE DEF e
  <2>2. l \o Append(e, w.entry) = Append(l \o e, w.entry) /\ l \o e \in Seq(Entry)
    <3>1. l \in Seq(Entry) /\ e \in Seq(Entry) /\ w.entry \in Entry
      BY <1>1, <1>3, EntryIs
    <3>2. l \o e \in Seq(Entry)
      BY <3>1, ConcatIs
    <3> QED
      BY <3>1, <3>2, ConcatAppend
  <2>3. DoEvents(l \o Append(e, w.entry)).live = Put(f, w.entry)
    BY <1>3, <2>2, LiveAppend
  <2> HIDE DEF f
  <2>4. /\ LiveOK(Put(f, w.entry), n) /\ OneKey(Put(f, w.entry)) /\ Shows(Put(f, w.entry), m)
        /\ w.entry \in EntryOK
    BY <1>1, <1>3, MakesLive
  <2>5. Append(e, w.entry) \in Seq(EntryOK)
    BY <1>1, <2>4
  <2>6. Stands(Put(f, w.entry), n, m)
    BY <2>4 DEF Stands
  <2> QED
    BY <2>1, <2>3, <2>5, <2>6 DEF Made
<1> QED
  BY <1>2, <1>3

\* All entries make the last map.
LEMMA MadeAll ==
  ASSUME NEW W, OnceEach(W), NEW q \in Nat, NEW b \in 1..q, NEW ln, NEW ms, NEW at,
         Chain(W, b, q, ln, ms, at), \A n \in b..q - 1 : \E w \in W : w.seq = n,
         NEW l \in Seq(EntryOK), Made(l, W, b - 1, ms[b - 1])
  PROVE  Made(l, W, q - 1, ms[q - 1])
<1> DEFINE Good(n) == Made(l, W, n, ms[n])
           Bad == {n \in b - 1..q - 1 : ~Good(n)}
<1>1. Bad = {}
  <2> SUFFICES ASSUME Bad # {} PROVE FALSE
    OBVIOUS
  <2>1. Bad \in SUBSET Nat
    OBVIOUS
  <2>2. Min(Bad) \in Bad /\ \A i \in Bad : Min(Bad) <= i
    BY <2>1, MinOf
  <2> DEFINE n == Min(Bad)
  <2>3. n \in b - 1..q - 1 /\ n # b - 1 /\ ~Good(n)
    BY <2>2
  <2> HIDE DEF n
  <2>4. Good(n - 1)
    <3>1. n - 1 \in b - 1..q - 1 /\ ~(n <= n - 1)
      BY <2>3
    <3>2. n - 1 \notin Bad
      BY <2>2, <3>1 DEF n
    <3> QED
      BY <3>1, <3>2
  <2>5. n \in b..q - 1 /\ n \in Nat \ {0} /\ n \in b - 1..q - 1
    BY <2>3
  <2>6. PICK w \in W : w.seq = n
    BY <2>5
  <2>7. /\ w.entry = Nothing => ms[n] = ms[n - 1]
        /\ w.entry # Nothing => Makes(w.entry, n, ms[n - 1], ms[n])
    BY <2>6, Zenon DEF Chain
  <2>8. MapOK(ms[n], n)
    BY <2>5 DEF Chain
  <2>9. w.entry # Nothing => w.entry \in Entry
    BY DEF OnceEach, PartOf
  <2>10. Made(l, W, n, ms[n])
    BY <2>4, <2>5, <2>6, <2>7, <2>8, <2>9, MadeNext
  <2> QED
    BY <2>3, <2>10
<1>2. q - 1 \in b - 1..q - 1
  OBVIOUS
<1> QED
  BY <1>1, <1>2

\* What is on its way is what comes up to the last number.
LEMMA OnItsWayIs ==
  ASSUME Numbered(actor, mailbox, sending, seq)
  PROVE  OnItsWay = EntriesTo(Way(actor, mailbox, sending), seq - 1)
<1> DEFINE W == Way(actor, mailbox, sending)
           P == {w \in actor.pending \cup InMail \cup sending : w.entry # Nothing}
<1>1. \A w \in W : w.seq <= seq - 1
  BY DEF Numbered
<1>2. W = actor.pending \cup InMail \cup sending
  BY DEF Way, InMail, MailParts
<1> HIDE DEF W
<1>3. P = PartsTo(W, seq - 1)
  <2>1. \A w : w \in P <=> w \in PartsTo(W, seq - 1)
    BY <1>1, <1>2 DEF PartsTo
  <2> QED
    BY <2>1
<1>4. OnItsWay = EntriesOf(P, {w.seq : w \in P})
  BY DEF OnItsWay, EntriesOf
<1> HIDE DEF P
<1>5. {w.seq : w \in P} = NumbersTo(W, seq - 1)
  BY <1>3, Zenon DEF NumbersTo
<1> QED
  BY <1>3, <1>4, <1>5, Zenon DEF EntriesTo, W

\* Before the first number on its way there is no entry.
LEMMA NoneMade ==
  ASSUME NEW W, OnceEach(W), NEW b \in Nat \ {0}, \A w \in W : w.seq \in Nat /\ b <= w.seq,
         NEW l \in Seq(EntryOK), NEW p, EventsTyped(p), OneEach(p), p.last < b,
         DoEvents(l).live = p.live
  PROVE  Made(l, W, b - 1, Contents(p))
<1>1. EntriesTo(W, b - 1) = <<>>
  <2>1. PartsTo(W, b - 1) = {}
    BY DEF PartsTo
  <2>2. NumbersTo(W, b - 1) = {}
    BY <2>1 DEF NumbersTo
  <2>3. Len(Ascending({})) = 0
    <3>1. IsFiniteSet({}) /\ Cardinality({}) = 0
      BY FS_EmptySet
    <3>2. {} \in SUBSET Nat
      OBVIOUS
    <3> QED
      BY <3>1, <3>2, AscendingSeq
  <2>4. EntriesTo(W, b - 1) \in Seq(Entry) /\ Len(EntriesTo(W, b - 1)) = 0
    <3>1. b - 1 \in Nat
      OBVIOUS
    <3>2. Len(Ascending(NumbersTo(W, b - 1))) = 0
      BY <2>2, <2>3, Zenon
    <3>3. /\ EntriesTo(W, b - 1) \in Seq(Entry)
          /\ Len(EntriesTo(W, b - 1)) = Len(Ascending(NumbersTo(W, b - 1)))
      BY <3>1, EntriesAre
    <3> QED
      BY <3>2, <3>3
  <2> QED
    BY <2>4
<1>2. l \o <<>> = l
  OBVIOUS
<1>3. LiveOK(p.live, p.last) /\ p.last \in Nat /\ OneKey(p.live)
  BY EventsAre
<1>4. LiveOK(p.live, b - 1)
  <2>1. 1..p.last \subseteq 1..b - 1
    BY <1>3
  <2> QED
    BY <1>3, <2>1 DEF LiveOK
<1>5. Shows(p.live, Contents(p))
  <2>1. DOMAIN p.live \subseteq Nat
    BY <1>3 DEF LiveOK
  <2> QED
    BY <1>3, <2>1, ContentsShow
<1>6. Stands(p.live, b - 1, Contents(p))
  BY <1>3, <1>4, <1>5 DEF Stands
<1>7. <<>> \in Seq(EntryOK)
  OBVIOUS
<1> QED
  BY <1>1, <1>2, <1>6, <1>7 DEF Made

\* What is in the file, in the buffer and on its way makes the map, in the
\* order of the numbers, also while the file is written anew
\* (Binlog::do_reindex, BinlogKeyValue::init).
THEOREM DiskAlwaysHolds ==
  Spec => []DiskHoldsTheMap
<1>1. IInv => DiskHoldsTheMap
  <2> SUFFICES ASSUME IInv, IsOpen(actor)
               PROVE  LET f == IF actor.stage = "run" THEN "main" ELSE "new"
                      IN  Contents(Load(disk[f].log \o actor.buffer \o OnItsWay)) = map
    BY DEF DiskHoldsTheMap, IsOpen
  <2> DEFINE f == IF actor.stage = "run" THEN "main" ELSE "new"
             l == disk[f].log \o actor.buffer
             W == Way(actor, mailbox, sending)
             b == actor.begin
  <2>1. PICK ms, at, g :
          /\ Turn(actor, mailbox, sending, seq, line, asked, ms, at)
          /\ DiskOK(actor, disk, line, start, g, at[actor.begin - 1])
          /\ map = ms[seq - 1]
    BY Now
  <2>2. /\ Numbered(actor, mailbox, sending, seq) /\ Chain(W, b, seq, line, ms, at)
        /\ EventsTyped(actor.events) /\ OneEach(actor.events)
        /\ actor.events.last < b /\ Contents(actor.events) = ms[b - 1]
    BY <2>1 DEF Turn
  <2>3. /\ seq \in Nat /\ b \in 1..seq /\ OnceEach(W)
        /\ \A n \in b..seq - 1 : \E w \in W : w.seq = n
    BY <2>2, WayIs DEF Numbered, OnceEach
  <2>4. \A w \in W : w.seq \in Nat /\ b <= w.seq
    BY <2>2, <2>3 DEF Numbered
  <2>5. l \in Seq(EntryOK) /\ DoEvents(l).live = actor.events.live
    <3>1. actor.stage \in Stages
      BY DEF IInv, Typed, Shaped
    <3>2. CASE actor.stage = "run"
      <4>1. MainOK(actor, disk, line, start, g, at[actor.begin - 1])
        BY <2>1, <3>2 DEF DiskOK
      <4> QED
        BY <3>2, <4>1 DEF MainOK, Follows
    <3>3. CASE actor.stage # "run"
      <4>1. Rewriting(actor)
        BY <3>1, <3>3 DEF Rewriting, Stages, IsOpen
      <4>2. NewOK(actor, disk)
        BY <2>1, <4>1 DEF DiskOK
      <4>3. l = disk["new"].log \o <<>> /\ disk["new"].log \in Seq(EntryOK)
        BY <3>3, <4>2 DEF NewOK
      <4>4. l = disk["new"].log
        BY <4>3
      <4> QED
        BY <4>2, <4>4 DEF NewOK
    <3> QED
      BY <3>2, <3>3
  <2>6. OnItsWay = EntriesTo(W, seq - 1)
    BY <2>2, OnItsWayIs
  <2> HIDE DEF l, W
  <2>7. b \in Nat \ {0}
    BY <2>3
  <2>8. Made(l, W, b - 1, ms[b - 1])
    BY <2>2, <2>3, <2>4, <2>5, <2>7, NoneMade
  <2>9. Made(l, W, seq - 1, ms[seq - 1])
    BY <2>2, <2>3, <2>5, <2>8, MadeAll
  <2> DEFINE e == EntriesTo(W, seq - 1)
             s == l \o e
             p == DoEvents(s)
  <2>10. e \in Seq(EntryOK) /\ LiveOK(p.live, seq - 1) /\ OneKey(p.live) /\ Shows(p.live, map)
    BY <2>1, <2>9 DEF Made, Stands
  <2> HIDE DEF e
  <2>11. Load(s) = p
    <3>1. l \in Seq(Entry) /\ e \in Seq(Entry)
      BY <2>5, <2>10, EntryIs
    <3>2. s \in Seq(Entry)
      BY <3>1, ConcatIs
    <3> HIDE DEF s
    <3> QED
      BY <3>2, WholeClean DEF Load
  <2> HIDE DEF s, p
  <2>12. Shows(p.live, Contents(p))
    <3>1. DOMAIN p.live \subseteq Nat
      BY <2>10 DEF LiveOK
    <3> QED
      BY <2>10, <3>1, ContentsShow
  <2>13. Contents(p) = map
    BY <2>10, <2>12, ShowsOne
  <2>14. Contents(Load(l \o OnItsWay)) = map
    BY <2>6, <2>11, <2>13 DEF s, e
  <2> QED
    BY <2>14 DEF l
<1> QED
  BY <1>1, IInvHolds, PTL

-----------------------------------------------------------------------------
(***************************************************************************)
(* The steps of the log are steps of DurableMap.                           *)
(***************************************************************************)
LEMMA DurableInit ==
  Init => Durable!Init
<1> SUFFICES ASSUME Init
             PROVE  Durable!Init
  OBVIOUS
<1>1. DOMAIN <<>> = {}
  OBVIOUS
<1>2. map = <<>> /\ line = <<Values(map)>> /\ asked = <<>>
  BY DEF Init
<1>3. Values(<<>>) = <<>>
  BY <1>1 DEF Values
<1> QED
  BY <1>2, <1>3 DEF Durable!Init

\* A step that leaves the map, the line and the promises is none of DurableMap.
LEMMA DurableSame ==
  ASSUME UNCHANGED <<map, line, asked>>
  PROVE  UNCHANGED Durable!vars
<1>1. map' = map /\ line' = line /\ asked' = asked
  OBVIOUS
<1>2. Values(map') = Values(map)
  BY <1>1, Zenon
<1> QED
  BY <1>1, <1>2 DEF Durable!vars

\* What is there after a change is between.
LEMMA SameBetween ==
  ASSUME NEW m, NEW n
  PROVE  Durable!IsBetween(n, m, n)
  BY DEF Durable!IsBetween

\* A change of the map that goes between is a Change.
LEMMA ChangeKeeps ==
  ASSUME IInv, NEW P, NEW maps, Changing(P, seq, map, maps), Changes(maps),
         \A i \in 1..Len(maps) :
           Durable!IsBetween(Values(maps[i]), Values(map), Values(maps[Len(maps)]))
  PROVE  Durable!Change
<1> DEFINE c == Len(maps)
           n == Len(line)
<1>1. line \in Seq(Moments)
  BY DEF IInv, Typed
<1>2. line' = Longer(line, maps) /\ map' = maps[c] /\ asked' = asked
  BY DEF Changes, Longer
<1>3. /\ line' \in Seq(Moments) /\ n \in Nat /\ Len(line') = n + c
      /\ \A i \in 1..n : line'[i] = line[i]
      /\ \A i \in 1..c : line'[n + i] = Values(maps[i])
  BY <1>1, <1>2, LongerAt
<1>4. c \in Nat \ {0}
  BY DEF Changing
<1>5. \A i \in 1..c : Durable!IsBetween(Values(maps[i]), Values(map), Values(maps[c]))
  OBVIOUS
<1> HIDE DEF c
<1>6. SubSeq(line', 1, n) = line
  <2>1. n \in 0..Len(line')
    BY <1>3, <1>4
  <2>2. /\ SubSeq(line', 1, n) \in Seq(Moments) /\ Len(SubSeq(line', 1, n)) = n
        /\ \A i \in 1..n : SubSeq(line', 1, n)[i] = line'[i]
    BY <1>3, <2>1, Prefix
  <2> QED
    BY <1>1, <1>3, <2>2
<1>7. Len(line') > n
  BY <1>3, <1>4
<1>8. line'[Len(line')] = Values(map')
  <2>1. c \in 1..c
    BY <1>4
  <2>2. line'[n + c] = Values(maps[c])
    BY <1>3, <2>1
  <2> QED
    BY <1>2, <1>3, <2>2
<1>9. \A i \in n + 1..Len(line') : Durable!IsBetween(line'[i], Values(map), Values(map'))
  <2> TAKE i \in n + 1..Len(line')
  <2> DEFINE j == i - n
  <2>1. j \in 1..c /\ i = n + j
    BY <1>3, <1>4
  <2> HIDE DEF j
  <2>2. line'[i] = Values(maps[j])
    BY <1>3, <2>1
  <2>3. Durable!IsBetween(Values(maps[j]), Values(map), Values(maps[c]))
    BY <1>5, <2>1
  <2> QED
    BY <1>2, <2>2, <2>3
<1> QED
  BY <1>2, <1>6, <1>7, <1>8, <1>9 DEF Durable!Change

\* Set is a Change.
LEMMA SetKeeps ==
  ASSUME IInv, NEW k \in Key, NEW v \in Value[k], Set(k, v)
  PROVE  Durable!Change
<1>1. seq \in Nat \ {0} /\ MapOK(map, seq - 1)
  BY DEF IInv, Typed
<1>2. ASSUME NEW P, NEW m, Changes(<<m>>), Changing(P, seq, map, <<m>>)
      PROVE  Durable!Change
  <2> DEFINE maps == <<m>>
  <2>1. Len(maps) = 1 /\ maps[1] = m
    OBVIOUS
  <2>2. Changes(maps) /\ Changing(P, seq, map, maps)
    BY <1>2
  <2>3. \A i \in 1..Len(maps) :
          Durable!IsBetween(Values(maps[i]), Values(map), Values(maps[Len(maps)]))
    <3> TAKE i \in 1..Len(maps)
    <3>1. i = Len(maps)
      BY <2>1
    <3> QED
      BY <3>1, SameBetween
  <2> HIDE DEF maps
  <2> QED
    BY <2>2, <2>3, ChangeKeeps
<1>3. CASE k \in DOMAIN map
  <2> DEFINE P == {Part(seq, Rewrite(map[k].id, k, v), Nothing)}
             m == [map EXCEPT ![k].value = v]
  <2>1. Changes(<<m>>)
    BY <1>3 DEF Set
  <2>2. Changing(P, seq, map, <<m>>)
    BY <1>1, <1>3, SetAgain
  <2> HIDE DEF P, m
  <2> QED
    BY <1>2, <2>1, <2>2
<1>4. CASE k \notin DOMAIN map
  <2> DEFINE P == {Part(seq, Add(seq, k, v), Nothing)}
             m == With(map, k, [value |-> v, id |-> seq])
  <2>1. Changes(<<m>>)
    BY <1>4 DEF Set
  <2>2. Changing(P, seq, map, <<m>>)
    BY <1>1, <1>4, SetNew
  <2> HIDE DEF P, m
  <2> QED
    BY <1>2, <2>1, <2>2
<1> QED
  BY <1>3, <1>4

\* EraseKey is a Change.
LEMMA EraseKeeps ==
  ASSUME IInv, NEW k \in Key, EraseKey(k)
  PROVE  Durable!Change
<1>1. seq \in Nat \ {0} /\ MapOK(map, seq - 1) /\ k \in DOMAIN map
  BY DEF IInv, Typed, EraseKey
<1> DEFINE P == {Part(seq, Erase(map[k].id), Nothing)}
           m == Restrict(map, DOMAIN map \ {k})
           maps == <<m>>
<1>2. Changes(maps)
  BY DEF EraseKey
<1>3. Changing(P, seq, map, maps)
  BY <1>1, EraseOne
<1>4. Len(maps) = 1
  OBVIOUS
<1>5. \A i \in 1..Len(maps) :
        Durable!IsBetween(Values(maps[i]), Values(map), Values(maps[Len(maps)]))
  <2> TAKE i \in 1..Len(maps)
  <2>1. i = Len(maps)
    BY <1>4
  <2> QED
    BY <2>1, SameBetween
<1> HIDE DEF P, maps
<1> QED
  BY <1>2, <1>3, <1>5, ChangeKeeps

\* The keys of a batch go one by one.
LEMMA BatchKeeps ==
  ASSUME IInv, NEW S \in SUBSET Key, EraseBatch(S)
  PROVE  Durable!Change
<1>1. seq \in Nat \ {0} /\ MapOK(map, seq - 1) /\ S \in SUBSET DOMAIN map /\ S # {}
  BY DEF IInv, Typed, EraseBatch
<1> DEFINE P == BatchParts(map, S, seq)
           maps == BatchMaps(map, S)
           c == Len(maps)
<1>2. Changes(maps)
  BY Zenon DEF EraseBatch, BatchMaps, BatchIds, Gone
<1>3. Changing(P, seq, map, maps)
  BY <1>1, BatchChanges
<1>4. DOMAIN maps = 1..c /\ c \in Nat \ {0}
  BY <1>3 DEF Changing
<1>5. \A i \in 1..c : maps[i] = Restrict(map, DOMAIN map \ Gone(map, S, i))
  BY <1>4 DEF BatchMaps
<1> HIDE DEF P, maps, c
<1>6. \A i \in 1..c : Durable!IsBetween(Values(maps[i]), Values(map), Values(maps[c]))
  <2> TAKE i \in 1..c
  <2> DEFINE f == Values(maps[i])
             n == Values(maps[c])
             m == Values(map)
  <2>1. c \in 1..c /\ i \in 1..c /\ 1..i \subseteq 1..c
    BY <1>4
  <2>2. Gone(map, S, i) \subseteq Gone(map, S, c)
    BY <2>1 DEF Gone
  <2>3. DOMAIN m = DOMAIN map /\ \A k \in DOMAIN map : m[k] = map[k].value
    BY DEF Values
  <2>4. /\ DOMAIN f = DOMAIN map \ Gone(map, S, i)
        /\ \A k \in DOMAIN f : f[k] = map[k].value
    BY <1>5, <2>1 DEF Values, Restrict
  <2>5. DOMAIN n = DOMAIN map \ Gone(map, S, c)
    BY <1>5, <2>1 DEF Values, Restrict
  <2> HIDE DEF f, n, m
  <2>6. Durable!IsBetween(f, m, n)
    BY <2>2, <2>3, <2>4, <2>5 DEF Durable!IsBetween
  <2> QED
    BY <2>6 DEF f, n, m
<1> QED
  BY <1>2, <1>3, <1>6, ChangeKeeps DEF c

\* AskForceSync and AskLazySync are an Ask.
LEMMA AskKeeps ==
  ASSUME IInv, IInv', NEW p \in Promise, AskForceSync(p) \/ AskLazySync(p)
  PROVE  Durable!Ask
<1>1. \E moment : Asks(p, moment)
  BY DEF AskForceSync, AskLazySync
<1>2. PICK x : p \notin DOMAIN asked /\ asked' = With(asked, p, x) /\ map' = map /\ line' = line
  BY <1>1 DEF Asks
<1>3. asked' = [q \in DOMAIN asked \cup {p} |-> IF q = p THEN asked'[p] ELSE asked[q]]
  BY <1>2 DEF With
<1>4. p \in DOMAIN asked' \ DOMAIN asked
  BY <1>2 DEF With
<1>5. asked'[p] \in 1..Len(line)
  <2>1. AskedOK(asked', line', start')
    BY DEF IInv, Typed
  <2> QED
    BY <1>2, <1>4, <2>1 DEF AskedOK
<1>6. Values(map') = Values(map)
  BY <1>2, Zenon
<1> QED
  BY <1>2, <1>3, <1>4, <1>5, <1>6, Zenon DEF Durable!Ask

\* The line from its first moment, and from its last.
LEMMA WholeLine ==
  ASSUME NEW ln \in Seq(Moments), ln # <<>>
  PROVE  /\ SubSeq(ln, 1, Len(ln)) = ln /\ SubSeq(ln, Len(ln), Len(ln)) = <<ln[Len(ln)]>>
         /\ 1 \in 1..Len(ln) /\ Len(ln) \in 1..Len(ln)
<1>1. Len(ln) \in Nat \ {0}
  BY DEF Moments
<1>2. SubSeq(ln, 1, Len(ln)) = ln
  OBVIOUS
<1>3. Len(SubSeq(ln, Len(ln), Len(ln))) = 1 /\ SubSeq(ln, Len(ln), Len(ln))[1] = ln[Len(ln)]
      /\ SubSeq(ln, Len(ln), Len(ln)) \in Seq(Moments)
  <2>1. Len(ln) \in 1..Len(ln)
    BY <1>1
  <2>2. /\ SubSeq(ln, Len(ln), Len(ln)) \in Seq(Moments)
        /\ Len(SubSeq(ln, Len(ln), Len(ln))) = Len(ln) - Len(ln) + 1
        /\ \A i \in Len(ln)..Len(ln) : SubSeq(ln, Len(ln), Len(ln))[i - Len(ln) + 1] = ln[i]
    BY <2>1, Suffix
  <2> DEFINE n == Len(ln)
  <2>3. n \in n..n /\ n - n + 1 = 1
    BY <1>1
  <2> QED
    BY <2>2, <2>3
<1>4. SubSeq(ln, Len(ln), Len(ln)) = <<ln[Len(ln)]>>
  <2> DEFINE s == SubSeq(ln, Len(ln), Len(ln))
             v == ln[Len(ln)]
  <2>1. s \in Seq(Moments) /\ Len(s) = 1 /\ s[1] = v
    BY <1>3
  <2> HIDE DEF s, v
  <2>2. s = <<v>>
    BY <2>1
  <2> QED
    BY <2>2 DEF s, v
<1>5. 1 \in 1..Len(ln) /\ Len(ln) \in 1..Len(ln)
  BY <1>1
<1> QED
  BY <1>2, <1>4, <1>5

\* The moment up to which a sync keeps is that of the latest promise.
LEMMA LatestAsked ==
  ASSUME NEW ask, NEW ln, NEW st, AskedOK(ask, ln, st), Len(ln) \in Nat,
         NEW S \in SUBSET DOMAIN ask, S # {}, NEW n, n = Max(AskedFor(ask, S))
  PROVE  \E p \in S : n = ask[p] /\ \A r \in S : ask[r] <= ask[p]
<1> DEFINE A == AskedFor(ask, S)
<1>1. \A p \in S : ask[p] \in 1..Len(ln)
  BY DEF AskedOK
<1>2. A \in SUBSET (0..Len(ln)) /\ A # {}
  <2>1. \A i \in A : i = 1 \/ \E p \in S : i = ask[p]
    BY DEF AskedFor
  <2>2. PICK p \in S : TRUE
    OBVIOUS
  <2>3. 1 \in 0..Len(ln)
    BY <1>1, <2>2
  <2>4. \A i \in A : i \in 0..Len(ln)
    BY <1>1, <2>1, <2>3
  <2>5. 1 \in A
    BY DEF AskedFor
  <2> QED
    BY <2>4, <2>5
<1>3. n \in A /\ \A i \in A : i <= n
  BY <1>2, MaxOf
<1>4. \A p \in S : ask[p] \in A
  BY DEF AskedFor
<1>5. n = 1 \/ \E p \in S : n = ask[p]
  BY <1>3 DEF AskedFor
<1> HIDE DEF A
<1>6. CASE \E p \in S : n = ask[p]
  BY <1>3, <1>4, <1>6
<1>7. CASE n = 1
  <2>1. PICK p \in S : TRUE
    OBVIOUS
  <2>2. ask[p] <= 1 /\ ask[p] \in 1..Len(ln)
    BY <1>1, <1>3, <1>4, <1>7, <2>1
  <2>3. n = ask[p]
    BY <1>7, <2>2
  <2> QED
    BY <1>3, <1>4, <2>3
<1> QED
  BY <1>5, <1>6, <1>7

\* Timeout is a Keep, or nothing when no promise waits for the sync.
LEMMA TimeoutKeeps ==
  ASSUME IInv, Timeout
  PROVE  Durable!Keep \/ UNCHANGED Durable!vars
<1>1. /\ Typed /\ line \in Seq(Moments) /\ line # <<>> /\ AskedOK(asked, line, start)
      /\ Len(line) \in Nat
  BY AskIs DEF IInv, Typed
<1>2. map' = map /\ Values(map') = Values(map)
  BY Zenon DEF Timeout
<1>3. CASE ~(actor.lazy \/ actor.force)
  <2>1. line' = line /\ asked' = asked
    BY <1>3 DEF Timeout
  <2> QED
    BY <1>2, <2>1, DurableSame
<1>4. CASE actor.lazy \/ actor.force
  <2> DEFINE S == actor.promises
             n == Max(AskedFor(asked, S))
  <2>1. KeepAll(S)
    BY <1>4 DEF Timeout
  <2>2. /\ line' = SubSeq(line, n, Len(line))
        /\ asked' = [p \in DOMAIN asked \ S |-> After(asked[p], n)]
    BY <2>1 DEF KeepAll, AskedFor
  <2>3. S \subseteq DOMAIN asked
    <3>1. IsOpen(actor)
      BY DEF Timeout, ActorStep, IsOpen
    <3> QED
      BY <3>1, Now DEF Turn, PromisesOnce
  <2>4. DOMAIN asked' = DOMAIN asked \ S
    BY <2>2
  <2>5. ASSUME S = {}
        PROVE  UNCHANGED Durable!vars
    <3>1. n = 1
      <4>1. AskedFor(asked, S) = {1}
        BY <2>5 DEF AskedFor
      <4>2. Max({1}) \in {1}
        <5>1. {1} \in SUBSET (0..1) /\ {1} # {}
          OBVIOUS
        <5> QED
          BY <5>1, MaxOf
      <4> QED
        BY <4>1, <4>2
    <3> HIDE DEF n
    <3>2. line' = line
      BY <1>1, <2>2, <3>1, WholeLine
    <3>3. asked' = asked
      <4>1. \A p \in DOMAIN asked : asked[p] \in 1..Len(line)
        BY <1>1 DEF AskedOK
      <4>2. \A p \in DOMAIN asked : After(asked[p], 1) = asked[p]
        BY <4>1 DEF After
      <4>3. asked = [p \in DOMAIN asked |-> asked[p]]
        BY <1>1 DEF AskedOK
      <4>4. DOMAIN asked' = DOMAIN asked /\ \A p \in DOMAIN asked : asked'[p] = asked[p]
        BY <2>2, <2>5, <3>1, <4>2
      <4>5. asked' = [p \in DOMAIN asked' |-> asked'[p]]
        BY <2>2
      <4> QED
        BY <4>3, <4>4, <4>5
    <3> QED
      BY <1>2, <3>2, <3>3, DurableSame
  <2>6. ASSUME S # {}
        PROVE  Durable!Keep
    <3>1. PICK p \in S : n = asked[p] /\ \A r \in S : asked[r] <= asked[p]
      BY <1>1, <2>3, <2>6, LatestAsked
    <3> HIDE DEF n
    <3>2. DOMAIN asked \ DOMAIN asked' = S /\ DOMAIN asked' \subseteq DOMAIN asked
      BY <2>3, <2>4
    <3>3. line' = Durable!From(asked[p])
      BY <2>2, <3>1 DEF Durable!From
    <3>4. asked' = Durable!Since(asked[p], S)
      BY <2>2, <3>1 DEF Durable!Since, After
    <3> HIDE DEF S
    <3> QED
      BY <1>2, <3>1, <3>2, <3>3, <3>4, Zenon DEF Durable!Keep
  <2> QED
    BY <2>5, <2>6
<1> QED
  BY <1>3, <1>4

\* What keeps the map and the line, or its last moment, is a Close.
LEMMA CloseKeeps ==
  ASSUME IInv, NEW n \in {1, Len(line)}, line' = SubSeq(line, n, Len(line)), asked' = <<>>,
         Values(map') = Values(map)
  PROVE  Durable!Close
<1>1. n \in 1..Len(line)
  BY WholeLine DEF IInv, Typed
<1>2. line' = Durable!From(n)
  BY DEF Durable!From
<1> QED
  BY <1>1, <1>2, Zenon DEF Durable!Close

\* Close and DestroyNew are a Close.
LEMMA StopKeeps ==
  ASSUME IInv, Close \/ DestroyNew
  PROVE  Durable!Close
<1>1. line \in Seq(Moments) /\ line # <<>>
  BY DEF IInv, Typed
<1>2. asked' = <<>> /\ map' = map /\ (line' = line \/ line' = <<line[Len(line)]>>)
  BY DEF Close, DestroyNew
<1>3. line' = SubSeq(line, 1, Len(line)) \/ line' = SubSeq(line, Len(line), Len(line))
  BY <1>1, <1>2, WholeLine
<1>4. Values(map') = Values(map)
  BY <1>2, Zenon
<1> QED
  BY <1>2, <1>3, <1>4, CloseKeeps

\* Open is a Close: the file holds what the map was.
LEMMA OpenKeeps ==
  ASSUME IInv, IInv', Open
  PROVE  Durable!Close
<1>1. line \in Seq(Moments) /\ line # <<>> /\ line[Len(line)] = Values(map)
      /\ line'[Len(line')] = Values(map')
  BY DEF IInv, Typed
<1>2. line' = line /\ asked' = <<>>
  BY DEF Open, Restart
<1>3. Values(map') = Values(map)
  BY <1>1, <1>2
<1>4. line' = SubSeq(line, 1, Len(line))
  BY <1>1, <1>2, WholeLine
<1> QED
  BY <1>2, <1>3, <1>4, CloseKeeps

\* DestroyMain is a Destroy.
LEMMA DestroyKeeps ==
  ASSUME DestroyMain
  PROVE  Durable!Destroy
<1>1. map' = <<>> /\ line' = <<Values(map')>> /\ asked' = <<>>
  BY DEF DestroyMain
<1>2. DOMAIN <<>> = {}
  OBVIOUS
<1>3. Values(<<>>) = <<>>
  BY <1>2 DEF Values
<1> QED
  BY <1>1, <1>3 DEF Durable!Destroy

\* What takes the line back is a Crash.
LEMMA CrashKeeps ==
  ASSUME IInv', LineBack, NEW least, NEW durable, Crash(least, durable)
  PROVE  Durable!Crash
<1>1. line'[Len(line')] = Values(map')
  BY DEF IInv, Typed
<1>2. asked' = <<>>
  BY Zenon DEF Crash, Restart
<1> QED
  BY <1>1, <1>2, Zenon DEF Durable!Crash, LineBack

\* The other steps of the actor are none of DurableMap.
LEMMA ActorKeeps ==
  ASSUME Receive \/ Run \/ Finish \/ SyncNew \/ Unlink \/ RenameNew
         \/ (\E part \in sending : Send(part)) \/ UNCHANGED vars
  PROVE  UNCHANGED Durable!vars
<1>1. UNCHANGED <<map, line, asked>>
  BY Zenon DEF Receive, Run, Finish, SyncNew, Unlink, RenameNew, Send, Outside, vars
<1> QED
  BY <1>1, DurableSame

\* Every step of the log is a step of DurableMap or none.
LEMMA StepKeeps ==
  IInv /\ IInv' /\ [Next]_vars => [Durable!Next]_Durable!vars
<1> SUFFICES ASSUME IInv, IInv', [Next]_vars
             PROVE  [Durable!Next]_Durable!vars
  OBVIOUS
<1>1. ASSUME NEW k \in Key, EraseKey(k) \/ \E v \in Value[k] : Set(k, v)
      PROVE  Durable!Change
  BY <1>1, EraseKeeps, SetKeeps
<1>2. ASSUME NEW S \in SUBSET Key, EraseBatch(S)
      PROVE  Durable!Change
  BY <1>2, BatchKeeps
<1>3. ASSUME NEW p \in Promise, AskLazySync(p) \/ AskForceSync(p)
      PROVE  Durable!Ask
  BY <1>3, AskKeeps
<1>4. CASE \E part \in sending : Send(part)
  BY <1>4, ActorKeeps, Zenon
<1>5. CASE Receive \/ Run \/ Finish \/ SyncNew \/ Unlink \/ RenameNew \/ UNCHANGED vars
  BY <1>5, ActorKeeps, Zenon
<1>6. CASE Timeout
  BY <1>6, TimeoutKeeps, Zenon DEF Durable!Next
<1>7. CASE Close \/ DestroyNew
  BY <1>7, StopKeeps, Zenon DEF Durable!Next
<1>8. CASE Open
  BY <1>8, OpenKeeps, Zenon DEF Durable!Next
<1>9. CASE DestroyMain
  BY <1>9, DestroyKeeps, Zenon DEF Durable!Next
<1>10. CASE Kill
  <2>1. LineBack
    BY <1>10, KillStep
  <2>2. Durable!Crash
    BY <1>10, <2>1, CrashKeeps, Zenon DEF Kill
  <2> QED
    BY <2>2, Zenon DEF Durable!Next
<1>11. CASE PowerLoss
  <2>1. LineBack
    BY <1>11, PowerLossStep
  <2>2. Durable!Crash
    BY <1>11, <2>1, CrashKeeps, Zenon DEF PowerLoss
  <2> QED
    BY <2>2, Zenon DEF Durable!Next
<1>12. CASE ThreadNext
  <2>1. Durable!Change \/ Durable!Ask \/ UNCHANGED Durable!vars
    BY <1>1, <1>2, <1>3, <1>4, <1>12, ActorKeeps, Zenon DEF ThreadNext
  <2> QED
    BY <2>1, Zenon DEF Durable!Next
<1> QED
  BY <1>5, <1>6, <1>7, <1>8, <1>9, <1>10, <1>11, <1>12, Zenon DEF Next, ActorNext

\* A crash takes the map back to what it was at one moment, and to none
\* before what a kept promise covers, whatever the files have kept of what
\* was written (ConcurrentBinlog::force_sync, Binlog::do_reindex,
\* Binlog::load_binlog).
THEOREM Keeps ==
  Spec => KeepsPromises
<1>1. Spec => []IInv
  BY IInvHolds
<1> QED
  BY <1>1, DurableInit, StepKeeps, PTL DEF Spec, KeepsPromises, Durable!Spec

=============================================================================

---------------------------- MODULE TQueueProofs ----------------------------
(***************************************************************************)
(* Lemmas about the queue of updates and its log.                          *)
(***************************************************************************)
EXTENDS TQueue, FiniteSetTheorems, SequenceTheorems, WellFoundedInduction, TLAPS

-----------------------------------------------------------------------------
(***************************************************************************)
(* The least and the greatest of a set of ids.                             *)
(***************************************************************************)
LEMMA MinOf ==
  ASSUME NEW S \in SUBSET Nat, S # {}
  PROVE  Min(S) \in S /\ \A i \in S : Min(S) <= i
<1>1. PICK x \in S : \A y \in S : ~(<<y, x>> \in OpToRel(<, Nat))
  BY WFMin, NatLessThanWellFounded
<1>2. OpToRel(<, Nat) = {ss \in Nat \X Nat : ss[1] < ss[2]}
  BY Zenon DEF OpToRel
<1>3. ASSUME NEW y \in S
      PROVE  x <= y
  <2>1. <<y, x>> \notin {ss \in Nat \X Nat : ss[1] < ss[2]}
    BY <1>1, <1>2, Zenon
  <2>2. <<y, x>> \in Nat \X Nat /\ <<y, x>>[1] = y /\ <<y, x>>[2] = x
    OBVIOUS
  <2> QED
    BY <2>1, <2>2
<1> QED
  BY <1>3 DEF Min

\* The greatest of some numbers is one of them.
LEMMA MaxOf ==
  ASSUME NEW n \in Nat, NEW S \in SUBSET (0..n), S # {}
  PROVE  Max(S) \in S /\ \A i \in S : i <= Max(S)
<1> DEFINE T == {n - i : i \in S}
<1>1. T \in SUBSET Nat /\ T # {}
  <2>1. \A i \in S : i \in 0..n
    OBVIOUS
  <2>2. \A i \in 0..n : n - i \in Nat
    OBVIOUS
  <2> QED
    BY <2>1, <2>2
<1>2. Min(T) \in T /\ \A i \in T : Min(T) <= i
  BY <1>1, MinOf
<1>3. PICK x \in S : Min(T) = n - x
  BY <1>2
<1>4. \A y \in S : x >= y
  BY <1>2, <1>3
<1> QED
  BY <1>4 DEF Max

(***************************************************************************)
(* Ascending lists a set of ids: the rank of an id is a bijection.         *)
(***************************************************************************)
Before(S, i) == Cardinality({j \in S : j < i})

\* The rank of an id is less than the number of ids.
LEMMA RankType ==
  ASSUME NEW S \in SUBSET Nat, IsFiniteSet(S), NEW i \in S
  PROVE  Before(S, i) \in 0..Cardinality(S) - 1
<1> DEFINE T == {j \in S : j < i}
<1>1. T \in SUBSET S /\ i \notin T
  OBVIOUS
<1>2. /\ Cardinality(T) \in Nat /\ Cardinality(S) \in Nat
      /\ Cardinality(T) <= Cardinality(S) /\ Cardinality(T) # Cardinality(S)
  BY <1>1, FS_Subset, FS_CardinalityType
<1> QED
  BY <1>2 DEF Before

\* Of two ids the greater has the greater rank.
LEMMA RankGrows ==
  ASSUME NEW S \in SUBSET Nat, IsFiniteSet(S), NEW i \in S, NEW j \in S, i < j
  PROVE  Before(S, i) < Before(S, j)
<1> DEFINE T == {k \in S : k < i}
           U == {k \in S : k < j}
<1>1. T \in SUBSET U /\ i \in U /\ i \notin T /\ U \in SUBSET S
  <2>1. \A k \in S : k \in Nat
    OBVIOUS
  <2>2. \A k \in S : k < i => k < j
    BY <2>1
  <2>3. T \subseteq U /\ U \subseteq S
    BY <2>2
  <2>4. i \in U /\ i \notin T
    BY <2>1
  <2> QED
    BY <2>3, <2>4
<1>2. IsFiniteSet(U) /\ IsFiniteSet(T)
  BY <1>1, FS_Subset
<1>3. /\ Cardinality(T) \in Nat /\ Cardinality(U) \in Nat
      /\ Cardinality(T) <= Cardinality(U) /\ Cardinality(T) # Cardinality(U)
  BY <1>1, <1>2, FS_Subset, FS_CardinalityType
<1> QED
  BY <1>3 DEF Before

\* Ascending lists every id of a finite set.
LEMMA AscendingLists ==
  ASSUME NEW S \in SUBSET Nat, IsFiniteSet(S)
  PROVE  /\ Cardinality(S) \in Nat
         /\ Ascending(S) \in [1..Cardinality(S) -> S]
         /\ \A i \in S : \E k \in 1..Cardinality(S) : Ascending(S)[k] = i
         /\ \A k \in 1..Cardinality(S) : Before(S, Ascending(S)[k]) = k - 1
<1> DEFINE n == Cardinality(S)
           rank == [i \in S |-> Before(S, i) + 1]
<1>1. n \in Nat
  BY FS_CardinalityType
<1>2. rank \in [S -> 1..n]
  BY <1>1, RankType
<1>3. \A i, j \in S : rank[i] = rank[j] => i = j
  BY <1>2, RankGrows, RankType
<1>4. rank \in Injection(S, 1..n)
  BY <1>2, <1>3 DEF Injection, IsInjective
<1>5. IsFiniteSet(1..n) /\ Cardinality(1..n) = n
  BY <1>1, FS_Interval
<1>6. rank \in Surjection(S, 1..n)
  BY <1>4, <1>5, FS_Injection
<1>7. \A k \in 1..n : \E i \in S : Before(S, i) = k - 1
  <2>1. \A k \in 1..n : \E i \in S : rank[i] = k
    BY <1>6 DEF Surjection
  <2> QED
    BY <1>1, <2>1, RankType
<1>8. \A k \in 1..n : Ascending(S)[k] \in S /\ Before(S, Ascending(S)[k]) = k - 1
  BY <1>7 DEF Ascending, Before
<1>9. \A i \in S : Ascending(S)[rank[i]] = i
  <2>1. ASSUME NEW i \in S
        PROVE  Ascending(S)[rank[i]] = i
    <3>1. rank[i] \in 1..n /\ rank[i] - 1 = Before(S, i)
      BY <1>1, <1>2, RankType
    <3>2. Ascending(S)[rank[i]] \in S /\ Before(S, Ascending(S)[rank[i]]) = Before(S, i)
      BY <1>8, <3>1
    <3> QED
      BY <1>3, <3>2
  <2> QED
    BY <2>1
<1>10. Ascending(S) \in [1..n -> S]
  BY <1>8 DEF Ascending
<1> QED
  BY <1>1, <1>2, <1>8, <1>9, <1>10

\* Ascending ascends.
LEMMA AscendingGrows ==
  ASSUME NEW S \in SUBSET Nat, IsFiniteSet(S),
         NEW k \in 1..Cardinality(S), NEW l \in 1..Cardinality(S), k < l
  PROVE  Ascending(S)[k] < Ascending(S)[l]
<1>1. /\ Ascending(S)[k] \in S /\ Ascending(S)[l] \in S
      /\ Before(S, Ascending(S)[k]) = k - 1 /\ Before(S, Ascending(S)[l]) = l - 1
  BY AscendingLists
<1>2. /\ Ascending(S)[k] \in Nat /\ Ascending(S)[l] \in Nat
      /\ Cardinality(S) \in Nat
  BY <1>1, AscendingLists
<1>3. CASE Ascending(S)[l] < Ascending(S)[k]
  <2>1. l - 1 < k - 1
    BY <1>1, <1>3, RankGrows
  <2> QED
    BY <1>2, <2>1
<1> QED
  BY <1>1, <1>2, <1>3

\* Ascending yields a sequence.
LEMMA AscendingSeq ==
  ASSUME NEW S \in SUBSET Nat, IsFiniteSet(S)
  PROVE  /\ Ascending(S) \in Seq(S) /\ Len(Ascending(S)) = Cardinality(S)
         /\ DOMAIN Ascending(S) = 1..Cardinality(S)
<1>1. Cardinality(S) \in Nat /\ Ascending(S) \in [1..Cardinality(S) -> S]
  BY AscendingLists
<1>2. Ascending(S) \in Seq(S)
  BY <1>1, SeqDef
<1>3. DOMAIN Ascending(S) = 1..Cardinality(S)
  BY <1>1
<1> QED
  BY <1>1, <1>2, <1>3, LenProperties

-----------------------------------------------------------------------------
(***************************************************************************)
(* What entries leave on disk.                                             *)
(***************************************************************************)
IsFcn(f) == f = [i \in DOMAIN f |-> f[i]]

\* Some entry is about the id i.
Named(s, i) == \E k \in 1..Len(s) : s[k].id = i

\* The entries s leave f of what was d.
Leaves(d, s, f) ==
  /\ IsFcn(f)
  /\ \A i : i \in DOMAIN f <=> \/ \E k \in LastPuts(s) : s[k].id = i
                               \/ i \in DOMAIN d /\ ~Named(s, i)
  /\ \A k \in LastPuts(s) : f[s[k].id] = s[k].event
  /\ \A i \in DOMAIN d : ~Named(s, i) => f[i] = d[i]

\* The closed form of Written, one id at a time.
LEMMA WrittenAt ==
  ASSUME NEW X, NEW s \in Seq(X), NEW d
  PROVE  Leaves(d, s, Written(d, s))
<1> DEFINE at(i) == CHOOSE k \in LastPuts(s) : s[k].id = i
<1>1. DOMAIN s = 1..Len(s) /\ Len(s) \in Nat
  BY LenProperties
<1>2. \A k \in LastPuts(s) : k \in 1..Len(s)
  BY <1>1 DEF LastPuts
<1>3. ASSUME NEW k \in LastPuts(s)
      PROVE  at(s[k].id) = k
  <2>1. \A m \in LastPuts(s) : s[m].id = s[k].id => m = k
    BY <1>1 DEF LastPuts
  <2>2. at(s[k].id) \in LastPuts(s) /\ s[at(s[k].id)].id = s[k].id
    OBVIOUS
  <2> QED
    BY <2>1, <2>2
<1>4. Written(d, s) = [i \in {s[k].id : k \in LastPuts(s)} \cup
                              (DOMAIN d \ {s[k].id : k \in DOMAIN s}) |->
                         IF i \in {s[k].id : k \in LastPuts(s)}
                         THEN s[at(i)].event ELSE d[i]]
  BY DEF Written
<1>5. DOMAIN Written(d, s) = {s[k].id : k \in LastPuts(s)} \cup
                             (DOMAIN d \ {s[k].id : k \in DOMAIN s})
  BY <1>4
<1>6. ASSUME NEW k \in LastPuts(s)
      PROVE  Written(d, s)[s[k].id] = s[k].event
  <2>1. s[k].id \in {s[m].id : m \in LastPuts(s)}
    OBVIOUS
  <2>2. Written(d, s)[s[k].id] = s[at(s[k].id)].event
    BY <1>4, <2>1
  <2> QED
    BY <1>3, <2>2
<1>7. \A i : Named(s, i) <=> i \in {s[k].id : k \in DOMAIN s}
  BY <1>1 DEF Named
<1>8. {s[k].id : k \in LastPuts(s)} \subseteq {s[k].id : k \in DOMAIN s}
  BY <1>1, <1>2
<1>9. \A i \in DOMAIN d : ~Named(s, i) => Written(d, s)[i] = d[i]
  BY <1>4, <1>7, <1>8
<1>10. IsFcn(Written(d, s))
  BY <1>4 DEF IsFcn
<1>11. \A i : i \in DOMAIN Written(d, s) <=>
         \/ \E k \in LastPuts(s) : s[k].id = i
         \/ i \in DOMAIN d /\ ~Named(s, i)
  BY <1>5, <1>7
<1> QED
  BY <1>6, <1>9, <1>10, <1>11, Zenon DEF Leaves

\* Writing entries one part after the other.
LEMMA WrittenConcat ==
  ASSUME NEW X, NEW s \in Seq(X), NEW t \in Seq(X), NEW d
  PROVE  Written(d, s \o t) = Written(Written(d, s), t)
<1> DEFINE n == Len(s)
           u == s \o t
           F == Written(d, u)
           G == Written(Written(d, s), t)
<1>1. /\ u \in Seq(X) /\ Len(u) = n + Len(t) /\ n \in Nat /\ Len(t) \in Nat
      /\ \A k \in 1..n : u[k] = s[k]
      /\ \A k \in 1..Len(t) : u[n + k] = t[k]
  BY ConcatProperties, LenProperties
<1>2. \A i : Named(u, i) <=> Named(s, i) \/ Named(t, i)
  <2>1. ASSUME NEW i, Named(u, i)
        PROVE  Named(s, i) \/ Named(t, i)
    <3>1. PICK k \in 1..Len(u) : u[k].id = i
      BY <2>1 DEF Named
    <3>2. CASE k <= n
      BY <1>1, <3>1, <3>2 DEF Named
    <3>3. CASE k > n
      <4>1. k - n \in 1..Len(t) /\ u[n + (k - n)] = u[k]
        BY <1>1, <3>3
      <4> QED
        BY <1>1, <3>1, <4>1 DEF Named
    <3> QED
      BY <1>1, <3>2, <3>3
  <2>2. ASSUME NEW i, Named(s, i)
        PROVE  Named(u, i)
    BY <1>1, <2>2 DEF Named
  <2>3. ASSUME NEW i, Named(t, i)
        PROVE  Named(u, i)
    <3>1. PICK k \in 1..Len(t) : t[k].id = i
      BY <2>3 DEF Named
    <3>2. n + k \in 1..Len(u)
      BY <1>1
    <3> QED
      BY <1>1, <3>1, <3>2 DEF Named
  <2> QED
    BY <2>1, <2>2, <2>3
<1>3. \A k \in LastPuts(t) : k \in 1..Len(t) /\ n + k \in LastPuts(u)
  BY <1>1 DEF LastPuts
<1>4. \A k \in LastPuts(s) : k \in 1..n /\ (~Named(t, s[k].id) => k \in LastPuts(u))
  <2>1. DOMAIN s = 1..n /\ DOMAIN u = 1..Len(u) /\ DOMAIN t = 1..Len(t)
    BY <1>1, LenProperties
  <2> SUFFICES ASSUME NEW k \in LastPuts(s)
               PROVE  k \in 1..n /\ (~Named(t, s[k].id) => k \in LastPuts(u))
    OBVIOUS
  <2>2. k \in 1..n
    BY <2>1 DEF LastPuts
  <2>3. ASSUME NEW m \in 1..Len(u), m > k, ~Named(t, s[k].id)
        PROVE  u[m].id # u[k].id
    <3>1. CASE m <= n
      BY <1>1, <2>1, <2>2, <2>3, <3>1 DEF LastPuts
    <3>2. CASE m > n
      <4>1. m - n \in 1..Len(t) /\ u[n + (m - n)] = u[m]
        BY <1>1, <3>2
      <4> QED
        BY <1>1, <2>2, <2>3, <4>1 DEF Named
    <3>3. m <= n \/ m > n
      BY <1>1
    <3> QED
      BY <3>1, <3>2, <3>3
  <2> QED
    BY <1>1, <2>1, <2>2, <2>3 DEF LastPuts
<1>5. \A k \in LastPuts(u) :
        \/ \E m \in LastPuts(t) : k = n + m
        \/ k \in LastPuts(s) /\ ~Named(t, s[k].id)
  <2>1. DOMAIN s = 1..n /\ DOMAIN u = 1..Len(u) /\ DOMAIN t = 1..Len(t)
    BY <1>1, LenProperties
  <2> SUFFICES ASSUME NEW k \in LastPuts(u)
               PROVE  \/ \E m \in LastPuts(t) : k = n + m
                      \/ k \in LastPuts(s) /\ ~Named(t, s[k].id)
    BY Zenon
  <2>2. /\ k \in 1..Len(u) /\ u[k].op = "put"
        /\ \A m \in 1..Len(u) : m > k => u[m].id # u[k].id
    BY <2>1 DEF LastPuts
  <2>3. CASE k <= n
    <3>1. k \in 1..n
      BY <1>1, <2>2, <2>3
    <3>2. \A m \in 1..n : m > k => s[m].id # s[k].id
      BY <1>1, <2>2, <3>1
    <3>3. \A m \in 1..Len(t) : n + m \in 1..Len(u) /\ n + m > k
      BY <1>1, <3>1
    <3>4. ~Named(t, s[k].id)
      BY <1>1, <2>2, <3>1, <3>3 DEF Named
    <3> QED
      BY <1>1, <2>1, <2>2, <3>1, <3>2, <3>4 DEF LastPuts
  <2>4. CASE k > n
    <3>1. k - n \in 1..Len(t) /\ k = n + (k - n) /\ u[k] = t[k - n]
      BY <1>1, <2>2, <2>4
    <3>2. \A m \in 1..Len(t) : m > k - n => n + m \in 1..Len(u) /\ n + m > k
      BY <1>1, <2>2
    <3>3. \A m \in 1..Len(t) : m > k - n => t[m].id # t[k - n].id
      BY <1>1, <2>2, <3>1, <3>2
    <3>4. k - n \in LastPuts(t)
      BY <2>1, <2>2, <3>1, <3>3 DEF LastPuts
    <3> QED
      BY <3>1, <3>4
  <2> QED
    BY <1>1, <2>2, <2>3, <2>4
<1> HIDE DEF n, u
<1> DEFINE w == Written(d, s)
<1>6. Leaves(d, u, F)
  BY <1>1, WrittenAt
<1>7. Leaves(d, s, w)
  BY WrittenAt
<1>8. Leaves(w, t, G)
  BY WrittenAt
<1> HIDE DEF F, G, w
<1>9. ASSUME NEW i, ~Named(t, i)
      PROVE  (i \in DOMAIN F <=> i \in DOMAIN G) /\ (i \in DOMAIN F => F[i] = G[i])
  <2>1. CASE \E k \in LastPuts(s) : s[k].id = i
    <3>1. PICK k \in LastPuts(s) : s[k].id = i
      BY <2>1
    <3>2. k \in LastPuts(u) /\ u[k] = s[k]
      BY <1>1, <1>4, <1>9, <3>1
    <3>3. i \in DOMAIN F /\ F[i] = s[k].event
      BY <1>6, <3>1, <3>2 DEF Leaves
    <3>4. i \in DOMAIN G /\ G[i] = s[k].event
      BY <1>7, <1>8, <1>9, <3>1 DEF Leaves
    <3> QED
      BY <3>3, <3>4
  <2>2. CASE ~\E k \in LastPuts(s) : s[k].id = i
    <3>1. ASSUME NEW k \in LastPuts(u), u[k].id = i
          PROVE  FALSE
      <4>1. CASE k \in LastPuts(s)
        BY <1>1, <1>4, <2>2, <3>1, <4>1
      <4>2. ASSUME NEW m \in LastPuts(t), k = n + m
            PROVE  FALSE
        BY <1>1, <1>3, <1>9, <3>1, <4>2 DEF Named
      <4> QED
        BY <1>5, <4>1, <4>2
    <3>2. ~\E k \in LastPuts(t) : t[k].id = i
      BY <1>3, <1>9 DEF Named
    <3>3. i \in DOMAIN F <=> i \in DOMAIN d /\ ~Named(s, i)
      BY <1>2, <1>6, <1>9, <3>1 DEF Leaves
    <3>4. i \in DOMAIN G <=> i \in DOMAIN d /\ ~Named(s, i)
      BY <1>7, <1>8, <1>9, <2>2, <3>2 DEF Leaves
    <3>5. i \in DOMAIN F => F[i] = d[i] /\ G[i] = d[i]
      BY <1>2, <1>6, <1>7, <1>8, <1>9, <3>3, <3>4 DEF Leaves
    <3> QED
      BY <3>3, <3>4, <3>5
  <2> QED
    BY <2>1, <2>2
<1>10. ASSUME NEW i, Named(t, i)
       PROVE  (i \in DOMAIN F <=> i \in DOMAIN G) /\ (i \in DOMAIN F => F[i] = G[i])
  <2>1. CASE \E k \in LastPuts(t) : t[k].id = i
    <3>1. PICK k \in LastPuts(t) : t[k].id = i
      BY <2>1
    <3>2. n + k \in LastPuts(u) /\ u[n + k] = t[k]
      BY <1>1, <1>3, <3>1
    <3>3. i \in DOMAIN F /\ F[i] = t[k].event
      BY <1>6, <3>1, <3>2 DEF Leaves
    <3> QED
      BY <1>8, <3>1, <3>3 DEF Leaves
  <2>2. CASE ~\E k \in LastPuts(t) : t[k].id = i
    <3>1. ASSUME NEW k \in LastPuts(u), u[k].id = i
          PROVE  FALSE
      <4>1. CASE k \in LastPuts(s) /\ ~Named(t, s[k].id)
        BY <1>1, <1>4, <1>10, <3>1, <4>1
      <4>2. ASSUME NEW m \in LastPuts(t), k = n + m
            PROVE  FALSE
        BY <1>1, <1>3, <2>2, <3>1, <4>2
      <4> QED
        BY <1>5, <4>1, <4>2
    <3> QED
      BY <1>2, <1>6, <1>8, <1>10, <2>2, <3>1 DEF Leaves
  <2> QED
    BY <2>1, <2>2
<1>11. F = G
  <2>1. IsFcn(F) /\ IsFcn(G)
    BY <1>6, <1>8 DEF Leaves
  <2>2. \A i : (i \in DOMAIN F <=> i \in DOMAIN G) /\ (i \in DOMAIN F => F[i] = G[i])
    BY <1>9, <1>10
  <2>3. DOMAIN F = DOMAIN G
    BY <2>2
  <2> QED
    BY <2>1, <2>2, <2>3 DEF IsFcn
<1> QED
  BY <1>11 DEF F, G, w, u
-----------------------------------------------------------------------------
(***************************************************************************)
(* The entries the operators write.                                        *)
(***************************************************************************)
Entry == [id : Nat, op : {"erase"}] \cup [id : Nat, op : {"put"}, event : Event]

\* No entries change nothing.
LEMMA WrittenNone ==
  ASSUME NEW d, IsFcn(d)
  PROVE  Written(d, <<>>) = d
<1> DEFINE f == Written(d, <<>>)
<1>1. Leaves(d, <<>>, f)
  BY WrittenAt, EmptySeq
<1>2. LastPuts(<<>>) = {} /\ \A i : ~Named(<<>>, i)
  BY DEF LastPuts, Named
<1> HIDE DEF f
<1>3. IsFcn(f) /\ DOMAIN f = DOMAIN d /\ \A i \in DOMAIN d : f[i] = d[i]
  BY <1>1, <1>2 DEF Leaves
<1> QED
  BY <1>3 DEF IsFcn, f

\* One put adds or replaces one event.
LEMMA WrittenPut ==
  ASSUME NEW d, NEW i \in Nat, NEW e \in Event
  PROVE  /\ <<Put(i, e)>> \in Seq(Entry)
         /\ Written(d, <<Put(i, e)>>) = With(d, i, e)
<1> DEFINE s == <<Put(i, e)>>
           f == Written(d, s)
<1>1. Put(i, e) \in Entry /\ Put(i, e).id = i /\ Put(i, e).op = "put" /\ Put(i, e).event = e
  BY DEF Put, Entry
<1>2. s \in Seq(Entry) /\ Len(s) = 1 /\ s[1] = Put(i, e) /\ DOMAIN s = {1}
  BY <1>1
<1> HIDE DEF s
<1>3. Leaves(d, s, f)
  BY <1>2, WrittenAt
<1>4. LastPuts(s) = {1}
  BY <1>1, <1>2 DEF LastPuts
<1>5. \A j : Named(s, j) <=> j = i
  BY <1>1, <1>2 DEF Named
<1> HIDE DEF f
<1>6. \A j : (\E k \in LastPuts(s) : s[k].id = j) <=> j = i
  BY <1>1, <1>2, <1>4
<1>7. \A j : j \in DOMAIN f <=> j = i \/ j \in DOMAIN d
  BY <1>3, <1>5, <1>6 DEF Leaves
<1>8. f[i] = e
  <2>1. 1 \in LastPuts(s) /\ s[1].id = i /\ s[1].event = e
    BY <1>1, <1>2, <1>4
  <2> QED
    BY <1>3, <2>1 DEF Leaves
<1>9. \A j \in DOMAIN d : j # i => f[j] = d[j]
  BY <1>3, <1>5 DEF Leaves
<1>10. IsFcn(f)
  BY <1>3 DEF Leaves
<1>11. DOMAIN f = DOMAIN d \cup {i}
  BY <1>7
<1>12. f = With(d, i, e)
  BY <1>8, <1>9, <1>10, <1>11 DEF IsFcn, With
<1> QED
  BY <1>2, <1>12 DEF f, s

\* Entries that only erase.
Erases(s) == \A k \in 1..Len(s) : s[k].op = "erase"

\* The events of d without those of S.
Minus(d, S) == [i \in DOMAIN d \ S |-> d[i]]

\* Erasing entries take away the events they name.
LEMMA WrittenErases ==
  ASSUME NEW s \in Seq(Entry), Erases(s), NEW d, NEW S,
         \A i : Named(s, i) <=> i \in S
  PROVE  Written(d, s) = Minus(d, S)
<1> DEFINE f == Written(d, s)
<1>1. Leaves(d, s, f)
  BY WrittenAt
<1>2. LastPuts(s) = {}
  BY LenProperties DEF LastPuts, Erases
<1> HIDE DEF f
<1>3. IsFcn(f) /\ DOMAIN f = DOMAIN d \ S /\ \A i \in DOMAIN f : f[i] = d[i]
  BY <1>1, <1>2 DEF Leaves
<1>4. f = Minus(d, S)
  BY <1>3 DEF IsFcn, Minus
<1> QED
  BY <1>4 DEF f

\* EraseAll names exactly the ids it is to erase.
LEMMA EraseAllLog ==
  ASSUME NEW S \in SUBSET Nat, IsFiniteSet(S)
  PROVE  /\ EraseAll(S) \in Seq(Entry) /\ Erases(EraseAll(S))
         /\ \A i : Named(EraseAll(S), i) <=> i \in S
<1> DEFINE n == Cardinality(S)
           s == EraseAll(S)
<1>1. /\ n \in Nat /\ Ascending(S) \in [1..n -> S]
      /\ \A i \in S : \E k \in 1..n : Ascending(S)[k] = i
  BY AscendingLists
<1>2. s = [k \in 1..n |-> Erase(Ascending(S)[k])]
  BY DEF EraseAll
<1>3. \A i \in Nat : Erase(i) \in Entry /\ Erase(i).id = i /\ Erase(i).op = "erase"
  BY DEF Erase, Entry
<1>4. ASSUME NEW k \in 1..n
      PROVE  s[k] \in Entry /\ s[k].id = Ascending(S)[k] /\ s[k].op = "erase"
  <2>1. Ascending(S)[k] \in Nat
    BY <1>1
  <2>2. s[k] = Erase(Ascending(S)[k])
    BY <1>2
  <2> QED
    BY <1>3, <2>1, <2>2
<1>5. s \in [1..n -> Entry]
  BY <1>2, <1>4
<1>6. s \in Seq(Entry) /\ Len(s) = n
  BY <1>1, <1>5, SeqDef, LenProperties
<1> HIDE DEF s
<1>7. Erases(s)
  BY <1>4, <1>6 DEF Erases
<1>8. \A i : Named(s, i) <=> i \in S
  <2>1. \A k \in 1..n : Ascending(S)[k] \in S
    BY <1>1
  <2>2. \A i : Named(s, i) <=> \E k \in 1..n : s[k].id = i
    BY <1>6 DEF Named
  <2>3. \A i : Named(s, i) <=> \E k \in 1..n : Ascending(S)[k] = i
    BY <1>4, <2>2
  <2> QED
    BY <1>1, <2>1, <2>3
<1> QED
  BY <1>6, <1>7, <1>8 DEF s

-----------------------------------------------------------------------------
(***************************************************************************)
(* What may be found on disk, D being the events that may: only the newest *)
(* is empty.  Entries are safe when this holds after each of them.         *)
(***************************************************************************)
Good(d, D) ==
  /\ d \in [DOMAIN d -> D]
  /\ DOMAIN d \subseteq 1..MaxId - 2
  /\ \A i, j \in DOMAIN d : d[i].data = Nothing => j <= i

\* However many of the entries s are written, the disk is good.
Safe(d, s, D) == \A n \in 0..Len(s) : Good(Written(d, SubSeq(s, 1, n)), D)

\* A good disk is a function.
LEMMA GoodIsFcn ==
  ASSUME NEW d, NEW D, Good(d, D)
  PROVE  IsFcn(d)
BY DEF Good, IsFcn

\* A good disk stays good when events are erased.
LEMMA GoodWithout ==
  ASSUME NEW d, NEW D, Good(d, D), NEW S
  PROVE  Good(Minus(d, S), D)
BY DEF Good, Minus

\* No entries are safe.
LEMMA SafeNone ==
  ASSUME NEW d, NEW D, Good(d, D)
  PROVE  Safe(d, <<>>, D)
<1>1. \A n \in 0..Len(<<>>) : SubSeq(<<>>, 1, n) = <<>>
  BY SubSeqEmpty, EmptySeq
<1> QED
  BY <1>1, GoodIsFcn, WrittenNone DEF Safe

\* Erasing is safe after any of its entries.
LEMMA SafeEraseAll ==
  ASSUME NEW d, NEW D, Good(d, D), NEW S \in SUBSET Nat, IsFiniteSet(S)
  PROVE  /\ Safe(d, EraseAll(S), D)
         /\ Written(d, EraseAll(S)) = Minus(d, S)
<1> DEFINE s == EraseAll(S)
<1>1. s \in Seq(Entry) /\ Erases(s) /\ Len(s) \in Nat
  BY EraseAllLog, LenProperties
<1>2. ASSUME NEW n \in 0..Len(s)
      PROVE  Good(Written(d, SubSeq(s, 1, n)), D)
  <2> DEFINE t == SubSeq(s, 1, n)
  <2>1. \A k \in 1..n : s[k] \in Entry
    BY <1>1, ElementOfSeq
  <2>2. t \in Seq(Entry) /\ Len(t) = n /\ \A k \in 1..n : t[k] = s[k]
    BY <1>1, <2>1, SubSeqProperties
  <2>3. Erases(t)
    BY <1>1, <2>2 DEF Erases
  <2> DEFINE T == {t[k].id : k \in 1..n}
  <2>4. \A i : Named(t, i) <=> i \in T
    BY <2>2 DEF Named
  <2>5. Written(d, t) = Minus(d, T)
    BY <2>2, <2>3, <2>4, WrittenErases
  <2> QED
    BY <2>5, GoodWithout
<1> QED
  BY <1>2, EraseAllLog, WrittenErases DEF Safe

\* A put is safe when the disk is good after it.
LEMMA SafePut ==
  ASSUME NEW d, NEW D, Good(d, D), NEW i \in Nat, NEW e \in Event,
         Good(With(d, i, e), D)
  PROVE  /\ Safe(d, <<Put(i, e)>>, D)
         /\ Written(d, <<Put(i, e)>>) = With(d, i, e)
<1> DEFINE s == <<Put(i, e)>>
<1>1. s \in Seq(Entry) /\ Written(d, s) = With(d, i, e)
  BY WrittenPut
<1>2. Len(s) = 1
  OBVIOUS
<1> HIDE DEF s
<1>3. SubSeq(s, 1, 0) = <<>> /\ SubSeq(s, 1, 1) = s
  BY <1>1, <1>2, SubSeqEmpty, SubSeqFull
<1>4. Written(d, <<>>) = d
  BY GoodIsFcn, WrittenNone
<1>5. ASSUME NEW n \in 0..Len(s)
      PROVE  Good(Written(d, SubSeq(s, 1, n)), D)
  <2>1. n = 0 \/ n = 1
    BY <1>2
  <2> QED
    BY <1>1, <1>3, <1>4, <2>1
<1>6. Safe(d, s, D)
  BY <1>5 DEF Safe
<1> QED
  BY <1>1, <1>6 DEF s

\* Of two parts of a log the second is safe after the first.
LEMMA SafeConcat ==
  ASSUME NEW d, NEW D, NEW s \in Seq(Entry), NEW t \in Seq(Entry)
  PROVE  Safe(d, s \o t, D) <=> Safe(d, s, D) /\ Safe(Written(d, s), t, D)
<1> DEFINE u == s \o t
<1>1. /\ u \in Seq(Entry) /\ Len(u) = Len(s) + Len(t)
      /\ Len(s) \in Nat /\ Len(t) \in Nat
  BY ConcatProperties, LenProperties
<1>2. ASSUME NEW n \in 0..Len(s)
      PROVE  SubSeq(u, 1, n) = SubSeq(s, 1, n)
  <2>1. CASE n = 0
    BY <2>1, SubSeqEmpty
  <2>2. CASE n # 0
    <3>1. n \in 1..Len(s) /\ 1 \in 1..Len(s)
      BY <1>1, <2>2
    <3> QED
      BY <3>1, SubSeqOfConcat1
  <2> QED
    BY <2>1, <2>2
<1>3. ASSUME NEW n \in 1..Len(t)
      PROVE  /\ SubSeq(u, 1, Len(s) + n) = s \o SubSeq(t, 1, n)
             /\ SubSeq(t, 1, n) \in Seq(Entry)
  <2>1. ASSUME NEW v \in Seq(Entry), Len(v) = Len(s) + Len(t)
        PROVE  SubSeq(v, 1, Len(s)) \o SubSeq(v, Len(s) + 1, Len(s) + n)
                 = SubSeq(v, 1, Len(s) + n)
    <3>1. /\ 1 \in 1..Len(v) + 1 /\ Len(s) \in 1 - 1..Len(v)
          /\ Len(s) + n \in Len(s)..Len(v)
      BY <1>1, <2>1
    <3> QED
      BY <3>1, ConcatAdjacentSubSeq
  <2>2. SubSeq(u, 1, Len(s)) \o SubSeq(u, Len(s) + 1, Len(s) + n)
          = SubSeq(u, 1, Len(s) + n)
    BY <1>1, <2>1
  <2>3. SubSeq(u, 1, Len(s)) = s
    BY <1>1, <1>2, SubSeqFull
  <2>4. SubSeq(u, Len(s) + 1, Len(s) + n) = SubSeq(t, 1, n)
    <3>1. /\ Len(s) + 1 \in Len(s) + 1..Len(s) + Len(t)
          /\ Len(s) + n \in Len(s) + 1..Len(s) + Len(t)
          /\ Len(s) + 1 - Len(s) = 1 /\ Len(s) + n - Len(s) = n
      BY <1>1
    <3> QED
      BY <3>1, SubSeqOfConcat2
  <2>5. \A k \in 1..n : t[k] \in Entry
    BY <1>1, ElementOfSeq
  <2> QED
    BY <2>2, <2>3, <2>4, <2>5, SubSeqProperties
<1>4. ASSUME NEW n \in 1..Len(t)
      PROVE  Written(d, SubSeq(u, 1, Len(s) + n))
               = Written(Written(d, s), SubSeq(t, 1, n))
  <2>1. SubSeq(t, 1, n) \in Seq(Entry)
    BY <1>3
  <2>2. Written(d, s \o SubSeq(t, 1, n)) = Written(Written(d, s), SubSeq(t, 1, n))
    BY <2>1, WrittenConcat
  <2> QED
    BY <1>3, <2>2
<1>5. Written(d, SubSeq(u, 1, Len(s))) = Written(Written(d, s), SubSeq(t, 1, 0))
  <2>1. SubSeq(t, 1, 0) = <<>> /\ SubSeq(u, 1, Len(s)) = s
    BY <1>1, <1>2, SubSeqEmpty, SubSeqFull
  <2>2. IsFcn(Written(d, s))
    BY WrittenAt DEF Leaves
  <2> QED
    BY <2>1, <2>2, WrittenNone
<1>6. ASSUME NEW n \in 0..Len(t)
      PROVE  Written(d, SubSeq(u, 1, Len(s) + n))
               = Written(Written(d, s), SubSeq(t, 1, n))
  BY <1>1, <1>4, <1>5
<1>7. \A n \in 0..Len(u) : n \in 0..Len(s) \/ (n - Len(s) \in 0..Len(t) /\ Len(s) + (n - Len(s)) = n)
  BY <1>1
<1>8. /\ \A n \in 0..Len(s) : n \in 0..Len(u)
      /\ \A n \in 0..Len(t) : Len(s) + n \in 0..Len(u)
  BY <1>1
<1> HIDE DEF u
<1>9. ASSUME Safe(d, u, D)
      PROVE  Safe(d, s, D) /\ Safe(Written(d, s), t, D)
  BY <1>2, <1>6, <1>8, <1>9 DEF Safe
<1>10. ASSUME Safe(d, s, D), Safe(Written(d, s), t, D)
       PROVE  Safe(d, u, D)
  <2> SUFFICES ASSUME NEW n \in 0..Len(u)
               PROVE  Good(Written(d, SubSeq(u, 1, n)), D)
    BY DEF Safe
  <2>1. CASE n \in 0..Len(s)
    BY <1>2, <1>10, <2>1 DEF Safe
  <2>2. CASE n - Len(s) \in 0..Len(t) /\ Len(s) + (n - Len(s)) = n
    BY <1>6, <1>10, <2>2 DEF Safe
  <2> QED
    BY <1>7, <2>1, <2>2
<1> QED
  BY <1>9, <1>10 DEF u
-----------------------------------------------------------------------------
(***************************************************************************)
(* A queue whose events may be those of D: the ids are less than the tail, *)
(* the newest is the one before it, and a collection is due while an       *)
(* update waits.                                                           *)
(***************************************************************************)
Clearable(D) == D \subseteq Event /\ \A e \in D : Cleared(e) \in D

Sound(q, D) ==
  /\ q \in [tail : 0..MaxId - 1, events : {q.events}, gc_at : Nat]
  /\ Good(q.events, D)
  /\ \A i \in Ids(q) : i < q.tail
  /\ q.tail # 0 => q.tail - 1 \in Ids(q)
  /\ Live(q) # {} => q.gc_at # 0

\* From q an operation led to r: its log takes the disk along.
Steps(q, r, D) ==
  /\ Sound(r.queue, D)
  /\ r.log \in Seq(Entry)
  /\ Safe(q.events, r.log, D)
  /\ Written(q.events, r.log) = r.queue.events

\* The ids of a sound queue: finitely many, below the tail, and only the
\* newest event may be empty.
LEMMA SoundIds ==
  ASSUME NEW q, NEW D, Sound(q, D), D \subseteq Event
  PROVE  /\ Ids(q) \subseteq 1..MaxId - 2 /\ Ids(q) \in SUBSET Nat /\ IsFiniteSet(Ids(q))
         /\ Live(q) \subseteq Ids(q)
         /\ \A i \in Ids(q) : q.events[i] \in D /\ q.events[i] \in Event /\ i < q.tail
         /\ Ids(q) # {} => q.tail # 0 /\ Newest(q) = q.tail - 1
         /\ \A i \in Ids(q) \ Live(q) : i = q.tail - 1
<1>1. /\ q.tail \in 0..MaxId - 1 /\ MaxId \in Nat /\ MaxId > 3
      /\ Ids(q) \subseteq 1..MaxId - 2
      /\ \A i \in Ids(q) : i < q.tail
      /\ q.tail # 0 => q.tail - 1 \in Ids(q)
  BY QueueAssumption DEF Sound, Good, Ids
<1>2. IsFiniteSet(Ids(q))
  <2>1. IsFiniteSet(1..MaxId - 2)
    BY <1>1, FS_Interval
  <2>2. Ids(q) \in SUBSET (1..MaxId - 2)
    BY <1>1
  <2> QED
    BY <2>1, <2>2, FS_Subset
<1>3. Ids(q) \in SUBSET Nat
  BY <1>1
<1>4. \A i \in Ids(q) : q.events[i] \in D /\ q.events[i] \in Event /\ i < q.tail
  BY <1>1 DEF Sound, Good, Ids
<1>5. ASSUME Ids(q) # {}
      PROVE  q.tail # 0 /\ Newest(q) = q.tail - 1
  <2>1. q.tail # 0
    BY <1>1, <1>5
  <2>2. Ids(q) \in SUBSET (0..MaxId - 2) /\ MaxId - 2 \in Nat
    BY <1>1
  <2>3. Newest(q) \in Ids(q) /\ \A i \in Ids(q) : i <= Newest(q)
    BY <1>5, <2>2, MaxOf DEF Newest
  <2>4. Newest(q) < q.tail /\ q.tail - 1 <= Newest(q) /\ Newest(q) \in Nat
    BY <1>1, <2>1, <2>3
  <2> QED
    BY <1>1, <2>1, <2>4
<1>6. ASSUME NEW i \in Ids(q) \ Live(q)
      PROVE  i = q.tail - 1
  <2>1. q.events[i].data = Nothing
    BY <1>6 DEF Live
  <2>2. \A j \in Ids(q) : j <= i
    BY <2>1 DEF Sound, Good, Ids
  <2>3. q.tail # 0 /\ q.tail - 1 <= i /\ i < q.tail /\ i \in Nat
    BY <1>1, <1>5, <2>2
  <2> QED
    BY <1>1, <2>3
<1> QED
  BY <1>1, <1>2, <1>3, <1>4, <1>5, <1>6 DEF Live

\* Two operations one after the other write one log after the other.
LEMMA StepsTwice ==
  ASSUME NEW q, NEW D, NEW a, NEW b, Steps(q, a, D), Steps(a.queue, b, D)
  PROVE  Steps(q, [queue |-> b.queue, log |-> a.log \o b.log], D)
<1> DEFINE r == [queue |-> b.queue, log |-> a.log \o b.log]
<1>1. r.queue = b.queue /\ r.log = a.log \o b.log
  OBVIOUS
<1>2. a.log \in Seq(Entry) /\ b.log \in Seq(Entry)
  BY DEF Steps
<1>3. a.log \o b.log \in Seq(Entry)
  BY <1>2, ConcatProperties
<1>4. Written(q.events, a.log \o b.log) = b.queue.events
  BY <1>2, WrittenConcat DEF Steps
<1>5. Safe(q.events, a.log \o b.log, D)
  <2>1. Safe(q.events, a.log, D) /\ Safe(Written(q.events, a.log), b.log, D)
    BY DEF Steps
  <2> QED
    BY <1>2, <2>1, SafeConcat
<1> HIDE DEF r
<1>6. Sound(b.queue, D)
  BY DEF Steps
<1> QED
  BY <1>1, <1>3, <1>4, <1>5, <1>6 DEF Steps, r

\* Entries that erase some events and put at most one.
LEMMA EraseThenPut ==
  ASSUME NEW d, NEW D, Good(d, D), NEW S \in SUBSET Nat, IsFiniteSet(S),
         NEW i \in Nat, NEW e \in Event, Good(With(Minus(d, S), i, e), D)
  PROVE  /\ EraseAll(S) \o <<Put(i, e)>> \in Seq(Entry)
         /\ Safe(d, EraseAll(S) \o <<Put(i, e)>>, D)
         /\ Written(d, EraseAll(S) \o <<Put(i, e)>>) = With(Minus(d, S), i, e)
<1>1. EraseAll(S) \in Seq(Entry) /\ <<Put(i, e)>> \in Seq(Entry)
  BY EraseAllLog, WrittenPut
<1>2. Safe(d, EraseAll(S), D) /\ Written(d, EraseAll(S)) = Minus(d, S)
  BY SafeEraseAll
<1>3. /\ Safe(Minus(d, S), <<Put(i, e)>>, D)
      /\ Written(Minus(d, S), <<Put(i, e)>>) = With(Minus(d, S), i, e)
  BY GoodWithout, SafePut
<1> DEFINE s == EraseAll(S)
           t == <<Put(i, e)>>
<1> HIDE DEF s, t
<1>4. Written(d, s \o t) = Written(Written(d, s), t)
  BY <1>1, WrittenConcat DEF s, t
<1>5. Safe(d, s \o t, D)
  BY <1>1, <1>2, <1>3, SafeConcat DEF s, t
<1>6. s \o t \in Seq(Entry)
  BY <1>1, ConcatProperties DEF s, t
<1> QED
  BY <1>2, <1>3, <1>4, <1>5, <1>6 DEF s, t

(***************************************************************************)
(* pop() takes the updates of a set away, and leaves the other events.     *)
(***************************************************************************)
LEMMA PopSteps ==
  ASSUME NEW q, NEW D, Sound(q, D), Clearable(D), NEW S \in SUBSET Ids(q)
  PROVE  /\ Steps(q, Pop(q, S), D)
         /\ Pop(q, S).queue.tail = q.tail
         /\ Pop(q, S).queue.gc_at = q.gc_at
         /\ Live(Pop(q, S).queue) = Live(q) \ S
         /\ \A i \in Live(q) \ S : Pop(q, S).queue.events[i] = q.events[i]
<1> DEFINE newest == {i \in S : i + 1 = q.tail}
           last == q.tail - 1
           T == S \ newest
           d == q.events
           f == [i \in Ids(q) \ T |-> IF i \in newest THEN Cleared(d[i]) ELSE d[i]]
           p == [q EXCEPT !.events = f]
           g == EraseAll(T) \o IF newest \cap Live(q) = {} THEN <<>>
                               ELSE <<Put(last, Cleared(d[last]))>>
<1>1. Pop(q, S) = [queue |-> p, log |-> g]
  BY DEF Pop
<1>2. /\ Ids(q) \in SUBSET Nat /\ IsFiniteSet(Ids(q)) /\ Live(q) \subseteq Ids(q)
      /\ \A i \in Ids(q) : d[i] \in D /\ d[i] \in Event /\ i < q.tail
      /\ \A i \in Ids(q) \ Live(q) : i = last
      /\ Good(d, D) /\ q.tail \in Nat
  <2>1. D \subseteq Event
    BY DEF Clearable
  <2>2. Good(d, D) /\ q.tail \in Nat
    BY QueueAssumption DEF Sound
  <2> QED
    BY <2>1, <2>2, SoundIds
<1>3. /\ p.tail = q.tail /\ p.gc_at = q.gc_at /\ p.events = f
      /\ p \in [tail : 0..MaxId - 1, events : {p.events}, gc_at : Nat]
  BY DEF Sound
<1>4. \A e \in Event : Cleared(e) \in Event /\ Cleared(e).data = Nothing
                       /\ (e.data = Nothing => Cleared(e) = e)
  BY DEF Event, Cleared
<1>5. \A i \in newest : i = last /\ i \in Ids(q)
  BY <1>2
<1>6. T \in SUBSET Nat /\ IsFiniteSet(T) /\ T \subseteq Ids(q)
  BY <1>2, FS_Subset
<1> HIDE DEF T, newest
<1>7. DOMAIN f = Ids(q) \ T /\ \A i \in DOMAIN f : f[i] \in D
  BY <1>2, <1>5 DEF Clearable
<1>8. \A i \in DOMAIN f : f[i].data = Nothing => i = last
  BY <1>2, <1>5 DEF Live
<1>9. Good(f, D)
  <2>1. DOMAIN f \subseteq 1..MaxId - 2
    BY <1>2, <1>7 DEF Good, Ids
  <2>2. \A i, j \in DOMAIN f : f[i].data = Nothing => j <= i
    BY <1>2, <1>7, <1>8
  <2> QED
    BY <1>7, <2>1, <2>2 DEF Good
<1>10. ASSUME newest \cap Live(q) = {}
       PROVE  g \in Seq(Entry) /\ Safe(d, g, D) /\ Written(d, g) = f
  <2>1. \A i \in newest : d[i].data = Nothing
    BY <1>5, <1>10 DEF Live
  <2>2. f = Minus(d, T)
    BY <1>2, <1>4, <1>5, <2>1 DEF Minus, Ids
  <2>3. EraseAll(T) \in Seq(Entry) /\ g = EraseAll(T) \o <<>>
    BY <1>6, <1>10, EraseAllLog
  <2>4. g = EraseAll(T)
    BY <2>3, ConcatEmptySeq
  <2>5. Safe(d, EraseAll(T), D) /\ Written(d, EraseAll(T)) = Minus(d, T)
    BY <1>2, <1>6, SafeEraseAll
  <2> HIDE DEF g, f
  <2> QED
    BY <2>2, <2>3, <2>4, <2>5
<1>11. ASSUME newest \cap Live(q) # {}
       PROVE  g \in Seq(Entry) /\ Safe(d, g, D) /\ Written(d, g) = f
  <2>1. newest = {last} /\ last \in Live(q) /\ last \in Ids(q) /\ last \in Nat
    BY <1>2, <1>5, <1>11
  <2>2. last \notin T
    BY <2>1 DEF T
  <2> DEFINE e == Cleared(d[last])
  <2>3. f = With(Minus(d, T), last, e)
    BY <2>1, <2>2 DEF With, Minus, Ids
  <2>4. e \in Event
    BY <1>2, <1>4, <2>1
  <2>5. g = EraseAll(T) \o <<Put(last, e)>>
    BY <1>11
  <2> HIDE DEF e
  <2> QED
    BY <1>2, <1>6, <1>9, <2>1, <2>3, <2>4, <2>5, EraseThenPut
<1>12. Live(p) = Live(q) \ S
  <2>1. ASSUME NEW i \in Ids(q) \ T
        PROVE  f[i].data # Nothing <=> i \in Live(q) \ S
    <3>1. CASE i \in newest
      BY <1>2, <1>4, <3>1 DEF newest
    <3>2. CASE i \notin newest
      BY <2>1, <3>2 DEF Live, T
    <3> QED
      BY <3>1, <3>2
  <2>2. Ids(p) = Ids(q) \ T /\ T \subseteq S
    BY <1>3, <1>7 DEF Ids, T
  <2> QED
    BY <1>2, <1>3, <2>1, <2>2 DEF Live
<1>13. \A i \in Live(q) \ S : f[i] = d[i]
  BY <1>2 DEF T, newest
<1>14. Sound(p, D)
  <2>1. \A i \in Ids(p) : i < p.tail
    BY <1>2, <1>3, <1>7 DEF Ids
  <2>2. p.tail # 0 => p.tail - 1 \in Ids(p)
    <3>1. q.tail # 0 => last \in Ids(q)
      BY DEF Sound
    <3>2. last \notin T
      BY <1>2 DEF T, newest
    <3> QED
      BY <1>3, <1>7, <3>1, <3>2 DEF Ids
  <2>3. Live(p) # {} => p.gc_at # 0
    BY <1>3, <1>12 DEF Sound
  <2> QED
    BY <1>3, <1>9, <2>1, <2>2, <2>3 DEF Sound
<1> HIDE DEF f, g, p
<1>15. Steps(q, [queue |-> p, log |-> g], D)
  BY <1>3, <1>10, <1>11, <1>14 DEF Steps
<1> QED
  BY <1>1, <1>3, <1>12, <1>13, <1>15

(***************************************************************************)
(* push() adds one update behind the others, and drops them when the ids   *)
(* begin again.                                                            *)
(***************************************************************************)
LEMMA DoPushSteps ==
  ASSUME NEW q, NEW D, Clearable(D), Good(q.events, D),
         q \in [tail : 0..MaxId - 1, events : {q.events}, gc_at : Nat],
         Live(q) # {} => q.gc_at # 0,
         Ids(q) # {} => Newest(q) = q.tail - 1,
         \A j \in Ids(q) \ Live(q) : j = q.tail - 1,
         NEW i \in 1..MaxId - 2, \A j \in Ids(q) : j < i,
         NEW e \in D, e.data # Nothing
  PROVE  /\ Steps(q, DoPush(q, i, e), D)
         /\ DoPush(q, i, e).queue.tail = i + 1
         /\ Live(DoPush(q, i, e).queue) = Live(q) \cup {i}
         /\ DoPush(q, i, e).queue.events[i] = e
         /\ \A j \in Live(q) : DoPush(q, i, e).queue.events[j] = q.events[j]
<1> DEFINE old == IF Ids(q) = {} THEN {} ELSE {Newest(q)} \ Live(q)
           kept == Ids(q) \ old
           d == q.events
           f == With(Keep(q, kept), i, e)
           p == [tail |-> i + 1, events |-> f,
                 gc_at |-> IF kept = {} /\ e.data # Nothing THEN e.expires ELSE q.gc_at]
           g == Append(EraseAll(old), Put(i, e))
<1>1. DoPush(q, i, e) = [queue |-> p, log |-> g]
  BY DEF DoPush
<1>2. /\ Ids(q) = DOMAIN d /\ Ids(q) \subseteq 1..MaxId - 2 /\ MaxId \in Nat
      /\ \A j \in Ids(q) : d[j] \in D /\ j \in Nat
      /\ Live(q) \subseteq Ids(q)
  BY QueueAssumption DEF Good, Ids, Live
<1>3. e \in Event /\ e.expires \in Nat \ {0} /\ i \in Nat
  BY QueueAssumption DEF Clearable, Event
<1>4. kept = Live(q)
  <2>1. CASE Ids(q) = {}
    BY <1>2, <2>1
  <2>2. CASE Ids(q) # {}
    <3>1. old = {q.tail - 1} \ Live(q)
      BY <2>2
    <3>2. \A j \in Ids(q) \ Live(q) : j \in old
      BY <3>1
    <3> HIDE DEF old
    <3> QED
      BY <1>2, <3>1, <3>2
  <2> QED
    BY <2>1, <2>2
<1>5. old \in SUBSET Nat /\ IsFiniteSet(old)
  <2>1. CASE Ids(q) = {}
    BY <2>1, FS_EmptySet
  <2>2. CASE Ids(q) # {}
    <3>1. old \in SUBSET {q.tail - 1} /\ q.tail - 1 \in Nat
      <4>1. q.tail \in Nat /\ q.tail # 0
        <5>1. PICK j \in Ids(q) : TRUE
          BY <2>2
        <5>2. q.tail \in 0..MaxId - 1
          OBVIOUS
        <5>3. CASE j \in Live(q)
          <6>1. Ids(q) \in SUBSET (0..MaxId - 2) /\ MaxId - 2 \in Nat
            BY <1>2, QueueAssumption
          <6>2. j <= q.tail - 1
            BY <2>2, <6>1, MaxOf DEF Newest
          <6> QED
            BY <1>2, <5>2, <6>2
        <5>4. CASE j \notin Live(q)
          BY <1>2, <5>2, <5>4
        <5> QED
          BY <5>3, <5>4
      <4> QED
        BY <2>2, <4>1
    <3>2. IsFiniteSet({q.tail - 1})
      BY FS_Singleton
    <3> HIDE DEF old
    <3> QED
      BY <3>1, <3>2, FS_Subset
  <2> QED
    BY <2>1, <2>2
<1> HIDE DEF old
<1>6. Keep(q, kept) = Minus(d, old)
  BY DEF Keep, Minus, Ids
<1>7. DOMAIN f = Live(q) \cup {i} /\ f[i] = e /\ \A j \in Live(q) : f[j] = d[j]
  <2>1. i \notin Ids(q)
    BY <1>3
  <2> QED
    BY <1>2, <1>4, <2>1 DEF With, Keep
<1>8. \A j \in DOMAIN f : f[j] \in D /\ f[j].data # Nothing
  BY <1>2, <1>7 DEF Live
<1>9. Good(f, D)
  <2>1. DOMAIN f \subseteq 1..MaxId - 2
    BY <1>2, <1>7
  <2>2. f \in [DOMAIN f -> D]
    <3>1. f = [j \in DOMAIN f |-> f[j]]
      BY DEF With
    <3> HIDE DEF f
    <3> QED
      BY <1>8, <3>1
  <2> HIDE DEF f
  <2> QED
    BY <1>8, <2>1, <2>2 DEF Good
<1>10. /\ p.tail = i + 1 /\ p.events = f
       /\ p.gc_at = IF kept = {} /\ e.data # Nothing THEN e.expires ELSE q.gc_at
  OBVIOUS
<1>11. p.gc_at \in Nat \ {0}
  BY <1>3, <1>4, <1>10
<1>12. p \in [tail : 0..MaxId - 1, events : {p.events}, gc_at : Nat]
  <2>1. i + 1 \in 0..MaxId - 1
    BY <1>2
  <2> HIDE DEF f
  <2> QED
    BY <1>10, <1>11, <2>1
<1>13. /\ g \in Seq(Entry) /\ Safe(d, g, D) /\ Written(d, g) = f
  <2>1. EraseAll(old) \in Seq(Entry) /\ Put(i, e) \in Entry
    BY <1>3, <1>5, EraseAllLog DEF Put, Entry
  <2>2. g = EraseAll(old) \o <<Put(i, e)>>
    BY <2>1, AppendIsConcat
  <2>3. f = With(Minus(d, old), i, e)
    BY <1>6
  <2> HIDE DEF f, g
  <2> QED
    BY <1>3, <1>5, <1>9, <2>2, <2>3, EraseThenPut
<1> HIDE DEF f, g, p, kept
<1>14. Ids(p) = Live(q) \cup {i} /\ Live(p) = Live(q) \cup {i}
  BY <1>7, <1>8, <1>10 DEF Ids, Live
<1>15. Sound(p, D)
  BY <1>2, <1>3, <1>9, <1>10, <1>11, <1>12, <1>14 DEF Sound
<1> QED
  BY <1>1, <1>7, <1>10, <1>13, <1>14, <1>15 DEF Steps

\* push() adds one event, whose id follows the newest or begins anew.
LEMMA PushSteps ==
  ASSUME NEW q, NEW D, Sound(q, D), Clearable(D), NEW first \in FirstIds,
         NEW e \in D, e.data # Nothing
  PROVE  LET r == Push(q, e, first)
             i == r.queue.tail - 1
         IN /\ Steps(q, r, D)
            /\ i = (IF Wraps(q) \/ q.tail = 0 THEN first ELSE q.tail)
            /\ i \in 1..MaxId - 2
            /\ Live(r.queue) = (IF Wraps(q) THEN {} ELSE Live(q)) \cup {i}
            /\ r.queue.events[i] = e
            /\ ~Wraps(q) => \A j \in Live(q) : r.queue.events[j] = q.events[j]
<1>1. first \in 1..MaxId - 2 /\ MaxId \in Nat /\ MaxId > 3
  <2>1. first \in 1..(MaxId \div 2) /\ MaxId \in Nat /\ MaxId > 3
    BY QueueAssumption
  <2>2. MaxId \div 2 <= MaxId - 2
    BY <2>1
  <2> QED
    BY <2>1, <2>2
<1>2. q.tail \in 0..MaxId - 1 /\ Good(q.events, D)
      /\ q \in [tail : 0..MaxId - 1, events : {q.events}, gc_at : Nat]
      /\ (Live(q) # {} => q.gc_at # 0)
  BY DEF Sound
<1>3. /\ Ids(q) \in SUBSET Nat /\ IsFiniteSet(Ids(q)) /\ Ids(q) \subseteq 1..MaxId - 2
      /\ \A i \in Ids(q) : i < q.tail
      /\ Ids(q) # {} => q.tail # 0 /\ Newest(q) = q.tail - 1
      /\ \A i \in Ids(q) \ Live(q) : i = q.tail - 1
  BY SoundIds DEF Clearable
<1>4. CASE ~Wraps(q)
  <2> DEFINE i == IF q.tail = 0 THEN first ELSE q.tail
  <2>1. i \in 1..MaxId - 2
    BY <1>1, <1>2, <1>4 DEF Wraps
  <2>2. \A j \in Ids(q) : j < i
    BY <1>3
  <2>3. Push(q, e, first) = DoPush(q, i, e)
    BY <1>4 DEF Push
  <2> HIDE DEF i
  <2>4. /\ Steps(q, DoPush(q, i, e), D)
        /\ DoPush(q, i, e).queue.tail = i + 1
        /\ Live(DoPush(q, i, e).queue) = Live(q) \cup {i}
        /\ DoPush(q, i, e).queue.events[i] = e
        /\ \A j \in Live(q) : DoPush(q, i, e).queue.events[j] = q.events[j]
    BY <1>2, <1>3, <2>1, <2>2, DoPushSteps
  <2>5. i + 1 - 1 = i
    BY <2>1
  <2>6. i = IF Wraps(q) \/ q.tail = 0 THEN first ELSE q.tail
    BY <1>4 DEF i
  <2> QED
    BY <1>4, <2>1, <2>3, <2>4, <2>5, <2>6
<1>5. CASE Wraps(q)
  <2> DEFINE p == [q EXCEPT !.events = <<>>]
             a == DoPush(p, first, e)
             r == [queue |-> a.queue, log |-> EraseAll(Ids(q)) \o a.log]
  <2>1. /\ p.tail = q.tail /\ p.events = <<>> /\ p.gc_at = q.gc_at
        /\ p \in [tail : 0..MaxId - 1, events : {p.events}, gc_at : Nat]
    BY <1>2
  <2> HIDE DEF p
  <2>2. Ids(p) = {} /\ Live(p) = {}
    BY <2>1 DEF Ids, Live
  <2>3. <<>> = Minus(q.events, Ids(q))
    BY DEF Minus, Ids
  <2>4. Good(<<>>, D)
    BY <1>2, <2>3, GoodWithout
  <2>5. /\ Steps(p, a, D)
        /\ a.queue.tail = first + 1
        /\ Live(a.queue) = {first}
        /\ a.queue.events[first] = e
    BY <1>1, <2>1, <2>2, <2>4, DoPushSteps
  <2>6. Push(q, e, first) = r
    <3>1. a = [queue |-> a.queue, log |-> a.log]
      BY DEF DoPush
    <3>2. Push(q, e, first) = [a EXCEPT !.log = EraseAll(Ids(q)) \o @]
      BY <1>5 DEF Push, p
    <3> HIDE DEF a
    <3> QED
      BY <3>1, <3>2
  <2>7. Steps(q, r, D)
    <3> DEFINE s == EraseAll(Ids(q))
               t == a.log
    <3>1. s \in Seq(Entry) /\ Safe(q.events, s, D) /\ Written(q.events, s) = <<>>
      BY <1>2, <1>3, <2>3, EraseAllLog, SafeEraseAll
    <3>2. t \in Seq(Entry) /\ Safe(<<>>, t, D) /\ Written(<<>>, t) = a.queue.events
          /\ Sound(a.queue, D)
      BY <2>1, <2>5 DEF Steps
    <3> HIDE DEF s, t, a
    <3>3. s \o t \in Seq(Entry)
      BY <3>1, <3>2, ConcatProperties
    <3>4. Safe(q.events, s \o t, D)
      BY <3>1, <3>2, SafeConcat
    <3>5. Written(q.events, s \o t) = a.queue.events
      BY <3>1, <3>2, WrittenConcat
    <3>6. r.queue = a.queue /\ r.log = s \o t
      BY DEF s, t
    <3> HIDE DEF r
    <3> QED
      BY <3>2, <3>3, <3>4, <3>5, <3>6 DEF Steps
  <2>8. r.queue = a.queue
    OBVIOUS
  <2>9. first + 1 - 1 = first
    BY <1>1
  <2> HIDE DEF r, a
  <2> QED
    BY <1>1, <1>5, <2>5, <2>6, <2>7, <2>8, <2>9
<1> QED
  BY <1>4, <1>5

(***************************************************************************)
(* get() with what is before forgotten: what it takes away has expired or  *)
(* is before the first id asked for, and what stays is in the answer or    *)
(* behind it.                                                              *)
(***************************************************************************)
LEMMA GetAny ==
  ASSUME NEW q, NEW D, Sound(q, D), Clearable(D),
         NEW from \in Nat, NEW limit \in Nat, NEW now \in Nat,
         NEW forget \in BOOLEAN
  PROVE  LET r == Get(q, from, forget, limit, now)
         IN /\ Steps(q, r, D)
            /\ r.queue.tail = q.tail
            /\ r.ids \subseteq Live(r.queue) /\ \A i \in r.ids : i >= from
            /\ IsFiniteSet(r.ids) /\ Cardinality(r.ids) <= limit
            /\ Live(r.queue) \subseteq Live(q)
            /\ \A i \in Live(r.queue) : r.queue.events[i] = q.events[i]
            /\ \A i \in Live(q) \ Live(r.queue) :
                 (forget = TRUE /\ i < from) \/ q.events[i].expires < now
            /\ \A i \in Live(r.queue) \ r.ids :
                 forget = TRUE \/ i >= from => \A j \in r.ids : j < i
<1> DEFINE fresh == {i \in Fresh(q, now) : i >= from}
           ids == {i \in fresh : Before(fresh, i) < limit}
           reached == {i \in Ids(q) : \A j \in fresh \ ids : i < j}
           passed == {i \in reached : forget = TRUE \/ i >= from}
           r == Pop(q, passed \ ids)
           g == Get(q, from, forget, limit, now)
<1>1. passed = {i \in reached : forget \/ i >= from}
  OBVIOUS
<1>2. g = [queue |-> r.queue, log |-> r.log, ids |-> ids]
  BY <1>1 DEF Get, Before
<1>3. /\ Ids(q) \in SUBSET Nat /\ IsFiniteSet(Ids(q)) /\ Live(q) \subseteq Ids(q)
      /\ \A i \in Ids(q) : q.events[i] \in Event
  BY SoundIds DEF Clearable
<1>4. fresh \subseteq Live(q) /\ ids \subseteq fresh
  BY DEF Fresh
<1>5. fresh \in SUBSET Nat /\ IsFiniteSet(fresh)
  <2>1. fresh \in SUBSET Ids(q)
    BY <1>3, <1>4
  <2> HIDE DEF fresh
  <2> QED
    BY <1>3, <2>1, FS_Subset
<1>6. ASSUME NEW i \in ids, NEW j \in fresh \ ids
      PROVE  i < j
  <2>1. Before(fresh, i) < limit /\ ~(Before(fresh, j) < limit)
    BY <1>6
  <2> HIDE DEF fresh, ids
  <2>2. i \in fresh /\ j \in fresh /\ i \in Nat /\ j \in Nat /\ i # j
    BY <1>4, <1>5, <1>6
  <2>3. Before(fresh, i) \in Nat /\ Before(fresh, j) \in Nat
    BY <1>5, <2>2, RankType
  <2>4. CASE j < i
    BY <1>5, <2>1, <2>2, <2>3, <2>4, RankGrows
  <2> QED
    BY <2>2, <2>4
<1>7. \A i \in Live(q) : i \notin fresh => i < from \/ q.events[i].expires < now
  <2>1. \A i \in Live(q) : i \in Nat
    BY <1>3
  <2> QED
    BY <2>1 DEF Fresh, Expired
<1>8. /\ Steps(q, r, D) /\ r.queue.tail = q.tail
      /\ Live(r.queue) = Live(q) \ (passed \ ids)
      /\ \A i \in Live(q) \ (passed \ ids) : r.queue.events[i] = q.events[i]
  <2>1. passed \ ids \in SUBSET Ids(q)
    OBVIOUS
  <2> HIDE DEF passed, ids
  <2> QED
    BY <2>1, PopSteps
<1>9. ASSUME NEW i \in passed \ ids
      PROVE  i \notin fresh /\ (forget = TRUE \/ i >= from)
  <2>1. i \in reached /\ i \in Nat /\ (forget = TRUE \/ i >= from)
    BY <1>3, <1>9
  <2>2. i \in fresh => i < i
    BY <1>9, <2>1
  <2> QED
    BY <2>1, <2>2
<1>10. ASSUME NEW i \in Live(r.queue) \ ids, forget = TRUE \/ i >= from, NEW j \in ids
       PROVE  j < i
  <2>1. i \in Ids(q) /\ i \notin reached
    BY <1>3, <1>8, <1>10
  <2>2. PICK k \in fresh \ ids : ~(i < k)
    BY <2>1
  <2>3. j < k
    BY <1>6, <1>10, <2>2
  <2>4. i \in Nat /\ j \in Nat /\ k \in Nat
    <3> HIDE DEF fresh, ids, reached, passed
    <3> QED
      BY <1>3, <1>4, <1>5, <1>10, <2>1, <2>2
  <2> QED
    BY <2>2, <2>3, <2>4
<1>11. ASSUME NEW i \in Live(q) \ Live(r.queue)
       PROVE  (forget = TRUE /\ i < from) \/ q.events[i].expires < now
  <2>1. i \in passed \ ids
    BY <1>8, <1>11
  <2>2. i \notin fresh /\ (forget = TRUE \/ i >= from)
    BY <1>9, <2>1
  <2>3. i < from \/ q.events[i].expires < now
    BY <1>7, <1>11, <2>2
  <2>4. i \in Nat
    BY <1>3
  <2> QED
    BY <2>2, <2>3, <2>4
<1>12. ids \subseteq Live(r.queue) /\ \A i \in ids : i >= from
  BY <1>4, <1>8
<1>13. IsFiniteSet(ids) /\ Cardinality(ids) <= limit
  <2> DEFINE rank == [i \in ids |-> Before(fresh, i) + 1]
  <2>1. \A i \in ids : i \in fresh /\ i \in Nat /\ Before(fresh, i) < limit
    BY <1>5
  <2> HIDE DEF ids, fresh
  <2>2. \A i \in ids : Before(fresh, i) \in Nat
    BY <1>5, <2>1, RankType, FS_CardinalityType
  <2>3. \A i \in ids : Before(fresh, i) + 1 \in 1..limit
    BY <2>1, <2>2
  <2>4. \A i, j \in ids : Before(fresh, i) = Before(fresh, j) => i = j
    <3>1. ASSUME NEW i \in ids, NEW j \in ids, i < j
          PROVE  Before(fresh, i) # Before(fresh, j)
      BY <1>5, <2>1, <2>2, <3>1, RankGrows
    <3> QED
      BY <2>1, <3>1
  <2>5. rank \in Injection(ids, 1..limit)
    BY <2>2, <2>3, <2>4 DEF Injection, IsInjective
  <2>6. IsFiniteSet(1..limit) /\ Cardinality(1..limit) = limit
    BY FS_Interval
  <2> QED
    BY <2>5, <2>6, FS_Injection
<1> HIDE DEF fresh, ids, reached, passed, r, g
<1>14. g.queue = r.queue /\ g.log = r.log /\ g.ids = ids
  BY <1>2
<1>15. Steps(q, g, D)
  BY <1>8, <1>14 DEF Steps
<1>16. /\ g.queue.tail = q.tail
       /\ g.ids \subseteq Live(g.queue) /\ \A i \in g.ids : i >= from
       /\ IsFiniteSet(g.ids) /\ Cardinality(g.ids) <= limit
       /\ Live(g.queue) \subseteq Live(q)
       /\ \A i \in Live(g.queue) : g.queue.events[i] = q.events[i]
  BY <1>8, <1>12, <1>13, <1>14
<1>17. \A i \in Live(q) \ Live(g.queue) :
         (forget = TRUE /\ i < from) \/ q.events[i].expires < now
  BY <1>11, <1>14
<1>18. \A i \in Live(g.queue) \ g.ids :
         forget = TRUE \/ i >= from => \A j \in g.ids : j < i
  BY <1>10, <1>14
<1> QED
  BY <1>15, <1>16, <1>17, <1>18 DEF g

\* getUpdates forgets what comes before.
LEMMA GetSteps ==
  ASSUME NEW q, NEW D, Sound(q, D), Clearable(D),
         NEW from \in Nat, NEW limit \in Nat, NEW now \in Nat
  PROVE  LET r == Get(q, from, TRUE, limit, now)
         IN /\ Steps(q, r, D)
            /\ r.queue.tail = q.tail
            /\ r.ids \subseteq Live(q)
            /\ Live(r.queue) \subseteq Live(q)
            /\ \A i \in Live(r.queue) : r.queue.events[i] = q.events[i]
            /\ \A i \in Live(q) \ Live(r.queue) : i < from \/ q.events[i].expires < now
            /\ \A i \in Live(r.queue) \ r.ids : \A j \in r.ids : j < i
<1> DEFINE r == Get(q, from, TRUE, limit, now)
<1>1. LET x == Get(q, from, TRUE, limit, now)
      IN /\ Steps(q, x, D)
         /\ x.queue.tail = q.tail
         /\ x.ids \subseteq Live(x.queue) /\ \A i \in x.ids : i >= from
         /\ IsFiniteSet(x.ids) /\ Cardinality(x.ids) <= limit
         /\ Live(x.queue) \subseteq Live(q)
         /\ \A i \in Live(x.queue) : x.queue.events[i] = q.events[i]
         /\ \A i \in Live(q) \ Live(x.queue) :
              (TRUE = TRUE /\ i < from) \/ q.events[i].expires < now
         /\ \A i \in Live(x.queue) \ x.ids :
              TRUE = TRUE \/ i >= from => \A j \in x.ids : j < i
  <2>1. TRUE \in BOOLEAN
    OBVIOUS
  <2> QED
    BY <2>1, GetAny, Zenon
<1>2. /\ Steps(q, r, D)
      /\ r.queue.tail = q.tail
      /\ r.ids \subseteq Live(r.queue)
      /\ Live(r.queue) \subseteq Live(q)
      /\ \A i \in Live(r.queue) : r.queue.events[i] = q.events[i]
      /\ \A i \in Live(q) \ Live(r.queue) : i < from \/ q.events[i].expires < now
      /\ \A i \in Live(r.queue) \ r.ids : \A j \in r.ids : j < i
  BY <1>1, Zenon
<1> HIDE DEF r
<1>3. r.ids \subseteq Live(q)
  BY <1>2
<1> QED
  BY <1>2, <1>3, Zenon DEF r

\* A webhook keeps what comes before.
LEMMA GetKept ==
  ASSUME NEW q, NEW D, Sound(q, D), Clearable(D),
         NEW from \in Nat, NEW limit \in Nat, NEW now \in Nat
  PROVE  LET r == Get(q, from, FALSE, limit, now)
         IN /\ Steps(q, r, D)
            /\ r.queue.tail = q.tail
            /\ r.ids \subseteq Live(r.queue) /\ \A i \in r.ids : i >= from
            /\ IsFiniteSet(r.ids) /\ Cardinality(r.ids) <= limit
            /\ Live(r.queue) \subseteq Live(q)
            /\ \A i \in Live(r.queue) : r.queue.events[i] = q.events[i]
            /\ \A i \in Live(q) \ Live(r.queue) : q.events[i].expires < now
            /\ \A i \in Live(r.queue) \ r.ids : i >= from => \A j \in r.ids : j < i
<1>1. LET x == Get(q, from, FALSE, limit, now)
      IN /\ Steps(q, x, D)
         /\ x.queue.tail = q.tail
         /\ x.ids \subseteq Live(x.queue) /\ \A i \in x.ids : i >= from
         /\ IsFiniteSet(x.ids) /\ Cardinality(x.ids) <= limit
         /\ Live(x.queue) \subseteq Live(q)
         /\ \A i \in Live(x.queue) : x.queue.events[i] = q.events[i]
         /\ \A i \in Live(q) \ Live(x.queue) :
              (FALSE = TRUE /\ i < from) \/ q.events[i].expires < now
         /\ \A i \in Live(x.queue) \ x.ids :
              FALSE = TRUE \/ i >= from => \A j \in x.ids : j < i
  <2>1. FALSE \in BOOLEAN
    OBVIOUS
  <2> QED
    BY <2>1, GetAny, Zenon
<1> QED
  BY <1>1, Zenon

(***************************************************************************)
(* run_gc() takes only expired updates away, and is due again while one    *)
(* waits.                                                                  *)
(***************************************************************************)
LEMMA RunGcSteps ==
  ASSUME NEW q, NEW D, Sound(q, D), Clearable(D),
         NEW stop \in Ids(q) \cup {q.tail}, NEW now \in Nat
  PROVE  LET r == RunGc(q, stop, now)
         IN /\ Steps(q, r, D)
            /\ r.queue.tail = q.tail
            /\ Live(r.queue) \subseteq Live(q)
            /\ \A i \in Live(r.queue) : r.queue.events[i] = q.events[i]
            /\ \A i \in Live(q) \ Live(r.queue) : q.events[i].expires < now
<1> DEFINE fresh == {i \in Fresh(q, now) : i < stop}
           others == {i \in fresh : \E j \in fresh : j < i}
           end == IF others # {} THEN Min(others) ELSE stop
           due == IF fresh # {} THEN q.events[Min(fresh)].expires
                  ELSE IF stop \in Ids(q) THEN q.events[stop].expires
                  ELSE 0
           S == {i \in Ids(q) : i < end} \ fresh
           r == Pop(q, S)
           p == [r.queue EXCEPT !.gc_at = due]
           g == RunGc(q, stop, now)
<1>1. r = [queue |-> r.queue, log |-> r.log]
  BY DEF Pop
<1>2. g = [queue |-> p, log |-> r.log]
  <2>1. g = [r EXCEPT !.queue.gc_at = due]
    BY DEF RunGc
  <2> HIDE DEF r, due
  <2> QED
    BY <1>1, <2>1
<1>3. /\ Ids(q) \in SUBSET Nat /\ Live(q) \subseteq Ids(q)
      /\ \A i \in Ids(q) : q.events[i] \in Event /\ i < q.tail
      /\ q.tail \in Nat
  <2>1. q.tail \in Nat
    BY QueueAssumption DEF Sound
  <2> QED
    BY <2>1, SoundIds DEF Clearable
<1>4. \A i \in Ids(q) : q.events[i].expires \in Nat \ {0}
  BY <1>3 DEF Event
<1>5. fresh \subseteq Live(q) /\ others \subseteq fresh /\ fresh \in SUBSET Nat
  BY <1>3 DEF Fresh
<1>6. end \in Nat /\ end <= stop /\ stop \in Nat
  <2>1. stop \in Nat
    BY <1>3
  <2>2. CASE others # {}
    <3>1. others \in SUBSET Nat
      BY <1>5
    <3>2. Min(others) \in others
      BY <2>2, <3>1, MinOf
    <3>3. Min(others) \in Nat /\ Min(others) < stop
      BY <3>1, <3>2
    <3> QED
      BY <2>1, <2>2, <3>3
  <2> QED
    BY <2>1, <2>2
<1>7. due \in Nat
  <2>1. CASE fresh # {}
    <3>1. Min(fresh) \in Ids(q)
      BY <1>3, <1>5, <2>1, MinOf
    <3> QED
      BY <1>4, <2>1, <3>1
  <2>2. CASE fresh = {}
    BY <1>4, <2>2
  <2> QED
    BY <2>1, <2>2
<1>8. /\ Steps(q, r, D) /\ r.queue.tail = q.tail
      /\ Live(r.queue) = Live(q) \ S
      /\ \A i \in Live(q) \ S : r.queue.events[i] = q.events[i]
  <2>1. S \in SUBSET Ids(q)
    OBVIOUS
  <2> HIDE DEF S
  <2> QED
    BY <2>1, PopSteps
<1>9. ASSUME NEW i \in S, i \in Live(q)
      PROVE  q.events[i].expires < now
  <2>1. i \in Nat /\ i < end /\ i \notin fresh
    BY <1>3, <1>9
  <2> HIDE DEF end
  <2>2. i < stop
    BY <1>6, <2>1
  <2> QED
    BY <1>9, <2>1, <2>2 DEF Fresh, Expired
<1>10. Live(r.queue) # {} => due # 0
  <2>1. CASE fresh # {}
    <3>1. Min(fresh) \in Ids(q)
      BY <1>3, <1>5, <2>1, MinOf
    <3> QED
      BY <1>4, <2>1, <3>1
  <2>2. CASE fresh = {} /\ stop \in Ids(q)
    BY <1>4, <2>2
  <2>3. CASE fresh = {} /\ stop \notin Ids(q)
    <3>1. stop = q.tail /\ end = stop
      BY <2>3
    <3>2. S = Ids(q)
      BY <1>3, <2>3, <3>1
    <3> QED
      BY <1>3, <1>8, <3>2
  <2> QED
    BY <2>1, <2>2, <2>3
<1> HIDE DEF due, r
<1>11. /\ r.queue \in [tail : 0..MaxId - 1, events : {r.queue.events}, gc_at : Nat]
       /\ Sound(r.queue, D)
  BY <1>8 DEF Steps, Sound
<1>12. /\ p.tail = q.tail /\ p.events = r.queue.events /\ p.gc_at = due
       /\ p \in [tail : 0..MaxId - 1, events : {p.events}, gc_at : Nat]
  BY <1>7, <1>8, <1>11
<1> HIDE DEF p, g, S
<1>13. Ids(p) = Ids(r.queue) /\ Live(p) = Live(r.queue)
  BY <1>12 DEF Ids, Live
<1>14. Sound(p, D)
  BY <1>8, <1>10, <1>11, <1>12, <1>13 DEF Sound
<1>15. Steps(q, g, D)
  <2>1. g.queue = p /\ g.log = r.log
    BY <1>2
  <2> QED
    BY <1>8, <1>12, <1>14, <2>1 DEF Steps
<1>16. g.queue = p
  BY <1>2
<1>17. \A i \in Live(q) \ Live(p) : q.events[i].expires < now
  BY <1>8, <1>9, <1>13
<1> QED
  BY <1>8, <1>12, <1>13, <1>15, <1>16, <1>17 DEF g

(***************************************************************************)
(* clear() takes events away from the oldest on.                           *)
(***************************************************************************)
LEMMA SizeType ==
  ASSUME NEW q, NEW D, Sound(q, D), Clearable(D)
  PROVE  /\ GetSize(q) \in Nat
         /\ Ids(q) = {} => GetSize(q) = 0
         /\ GetSize(q) > 0 => q.tail # 0 /\ q.tail - 1 \in Ids(q)
<1>1. IsFiniteSet(Ids(q)) /\ (Ids(q) # {} => q.tail # 0)
  BY SoundIds DEF Clearable
<1>2. Cardinality(Ids(q)) \in Nat
  BY <1>1, FS_CardinalityType
<1>3. Ids(q) # {} => Cardinality(Ids(q)) # 0
  BY <1>1, FS_EmptySet
<1>4. q.tail # 0 => q.tail - 1 \in Ids(q)
  BY DEF Sound
<1> QED
  BY <1>1, <1>2, <1>3, <1>4 DEF GetSize

\* clear() keeps the tail and changes no event it keeps.
LEMMA ClearSteps ==
  ASSUME NEW q, NEW D, Sound(q, D), Clearable(D), NEW keep \in Nat
  PROVE  LET r == Clear(q, keep)
         IN /\ Steps(q, r, D)
            /\ r.queue.tail = q.tail
            /\ Ids(r.queue) \subseteq Ids(q)
            /\ Live(r.queue) \subseteq Live(q)
            /\ \A i \in Live(r.queue) : r.queue.events[i] = q.events[i]
            /\ keep # 0 => \A i \in Ids(r.queue) : r.queue.events[i] = q.events[i]
<1> DEFINE n == IF keep = 0 THEN 1 ELSE keep
           stay == LastIds(q, n)
           old == Newest(q)
           d == q.events
           empty == Cleared(d[old])
           hollow == keep = 0 /\ old \in Live(q)
           f == [i \in stay |-> IF keep = 0 THEN Cleared(d[i]) ELSE d[i]]
           p == [q EXCEPT !.events = f]
           gone == Ids(q) \ stay
           g == (IF hollow THEN <<Put(old, empty)>> ELSE <<>>) \o EraseAll(gone)
           r == Clear(q, keep)
<1>1. Good(d, D) /\ q \in [tail : 0..MaxId - 1, events : {d}, gc_at : Nat]
  BY DEF Sound
<1>2. CASE GetSize(q) <= keep
  <2>1. r = [queue |-> q, log |-> <<>>]
    BY <1>2 DEF Clear
  <2>2. Safe(d, <<>>, D)
    BY <1>1, SafeNone
  <2>3. Written(d, <<>>) = d
    BY <1>1, GoodIsFcn, WrittenNone
  <2>4. <<>> \in Seq(Entry)
    BY EmptySeq
  <2>5. r.queue = q /\ r.log = <<>>
    BY <2>1
  <2>6. Steps(q, r, D)
    BY <2>2, <2>3, <2>4, <2>5 DEF Steps
  <2> HIDE DEF r
  <2>7. Steps(q, r, D) /\ r.queue = q
    BY <2>5, <2>6
  <2> QED
    BY <2>7 DEF r
<1>3. CASE ~(GetSize(q) <= keep)
  <2>1. r = [queue |-> p, log |-> g]
    BY <1>3 DEF Clear
  <2>2. q.tail # 0 /\ q.tail - 1 \in Ids(q)
    <3>1. GetSize(q) \in Nat /\ keep \in Nat
      BY SizeType
    <3>2. GetSize(q) > 0
      BY <1>3, <3>1
    <3> QED
      BY <3>2, SizeType
  <2>3. /\ Ids(q) \in SUBSET Nat /\ IsFiniteSet(Ids(q)) /\ Live(q) \subseteq Ids(q)
        /\ Ids(q) \subseteq 1..MaxId - 2
        /\ \A i \in Ids(q) : d[i] \in D /\ d[i] \in Event /\ i < q.tail
        /\ \A i \in Ids(q) \ Live(q) : i = q.tail - 1
        /\ old = q.tail - 1 /\ old \in Ids(q) /\ old \in Nat
    BY <2>2, SoundIds DEF Clearable
  <2>4. \A e \in Event : Cleared(e) \in Event /\ Cleared(e).data = Nothing
                         /\ (e.data = Nothing => Cleared(e) = e)
    BY DEF Event, Cleared
  <2>5. stay \subseteq Ids(q)
    BY DEF LastIds
  <2>6. old \in stay
    <3>1. {j \in Ids(q) : j > old} = {}
      <4>1. \A j \in Ids(q) : j \in Nat /\ j < q.tail
        BY <2>3
      <4>2. q.tail \in Nat
        BY <1>1, QueueAssumption
      <4> QED
        BY <2>3, <4>1, <4>2
    <3>2. Cardinality({j \in Ids(q) : j > old}) = 0
      BY <3>1, FS_EmptySet
    <3>3. 0 < n
      OBVIOUS
    <3> QED
      BY <2>3, <3>2, <3>3 DEF LastIds
  <2>7. keep = 0 => stay = {old}
    <3>1. ASSUME keep = 0, NEW i \in stay
          PROVE  i = old
      <4>1. i \in Ids(q) /\ Cardinality({j \in Ids(q) : j > i}) < 1
        BY <3>1 DEF LastIds
      <4>2. {j \in Ids(q) : j > i} \in SUBSET Ids(q)
        OBVIOUS
      <4>3. IsFiniteSet({j \in Ids(q) : j > i})
        BY <2>3, <4>2, FS_Subset
      <4>4. Cardinality({j \in Ids(q) : j > i}) \in Nat
        BY <4>3, FS_CardinalityType
      <4>5. {j \in Ids(q) : j > i} = {}
        BY <4>1, <4>3, <4>4, FS_EmptySet
      <4>6. ~(old > i) /\ i \in Nat /\ i < q.tail /\ q.tail \in Nat
        BY <1>1, <2>3, <4>1, <4>5, QueueAssumption
      <4> QED
        BY <2>3, <4>6
    <3> QED
      BY <2>6, <3>1
  <2> HIDE DEF stay, n
  <2>8. gone \in SUBSET Nat /\ IsFiniteSet(gone) /\ old \notin gone
    <3>1. gone \in SUBSET Ids(q)
      OBVIOUS
    <3>2. old \notin gone
      BY <2>6
    <3> HIDE DEF gone
    <3> QED
      BY <2>3, <3>1, <3>2, FS_Subset
  <2>9. Good(f, D)
    <3>1. \A i \in stay : f[i] \in D /\ (f[i].data = Nothing => i = old)
      BY <2>3, <2>5, <2>7 DEF Clearable, Live
    <3>2. f \in [stay -> D] /\ DOMAIN f = stay
      BY <3>1
    <3> HIDE DEF f
    <3>3. \A i, j \in DOMAIN f : f[i].data = Nothing => j <= i
      <4>1. \A j \in stay : j \in Nat /\ j < q.tail /\ q.tail \in Nat
        BY <1>1, <2>3, <2>5, QueueAssumption
      <4> QED
        BY <2>3, <3>1, <3>2, <4>1
    <3> QED
      BY <2>3, <2>5, <3>2, <3>3 DEF Good
  <2>10. EraseAll(gone) \in Seq(Entry)
    BY <2>8, EraseAllLog
  <2>11. ASSUME ~hollow
         PROVE  g \in Seq(Entry) /\ Safe(d, g, D) /\ Written(d, g) = f
    <3>1. g = EraseAll(gone)
      BY <2>10, <2>11, ConcatEmptySeq
    <3>2. Safe(d, EraseAll(gone), D) /\ Written(d, EraseAll(gone)) = Minus(d, gone)
      BY <1>1, <2>8, SafeEraseAll
    <3>3. f = Minus(d, gone)
      <4>1. \A i \in stay : f[i] = d[i]
        <5>1. CASE keep = 0
          BY <2>3, <2>4, <2>7, <2>11, <5>1 DEF Live
        <5>2. CASE keep # 0
          BY <5>2
        <5> QED
          BY <5>1, <5>2
      <4>2. DOMAIN d \ gone = stay
        BY <2>5 DEF Ids
      <4>3. f = [i \in stay |-> f[i]]
        OBVIOUS
      <4> HIDE DEF f, gone
      <4> QED
        BY <4>1, <4>2, <4>3 DEF Minus
    <3> HIDE DEF g, f, gone
    <3> QED
      BY <2>10, <3>1, <3>2, <3>3
  <2>12. ASSUME hollow
         PROVE  g \in Seq(Entry) /\ Safe(d, g, D) /\ Written(d, g) = f
    <3> DEFINE s == <<Put(old, empty)>>
               t == EraseAll(gone)
    <3>1. keep = 0 /\ old \in Live(q) /\ stay = {old}
      BY <2>7, <2>12
    <3>2. empty \in Event /\ empty \in D
      BY <2>3, <2>4 DEF Clearable
    <3>3. g = s \o t
      BY <2>12
    <3>4. Good(With(d, old, empty), D)
      <4> DEFINE w == With(d, old, empty)
      <4>1. DOMAIN w = Ids(q) /\ w[old] = empty /\ \A i \in Ids(q) : i # old => w[i] = d[i]
        BY <2>3 DEF With, Ids
      <4>2. \A i \in Ids(q) : w[i] \in D /\ (w[i].data = Nothing => i = old)
        BY <2>3, <3>2, <4>1 DEF Live
      <4>3. w \in [Ids(q) -> D]
        BY <4>1, <4>2 DEF With
      <4> HIDE DEF w
      <4>4. \A i, j \in DOMAIN w : w[i].data = Nothing => j <= i
        <5>1. \A j \in Ids(q) : j \in Nat /\ j < q.tail /\ q.tail \in Nat
          BY <1>1, <2>3, QueueAssumption
        <5> QED
          BY <2>3, <4>1, <4>2, <5>1
      <4>5. Good(w, D)
        BY <2>3, <4>1, <4>3, <4>4 DEF Good
      <4> QED
        BY <4>5 DEF w
    <3> HIDE DEF empty
    <3>5. Safe(d, s, D) /\ Written(d, s) = With(d, old, empty) /\ s \in Seq(Entry)
      BY <1>1, <2>3, <3>2, <3>4, SafePut, WrittenPut
    <3>6. /\ Safe(With(d, old, empty), t, D)
          /\ Written(With(d, old, empty), t) = Minus(With(d, old, empty), gone)
      BY <2>8, <3>4, SafeEraseAll
    <3>7. Minus(With(d, old, empty), gone) = f
      <4>1. (DOMAIN d \cup {old}) \ gone = {old}
        BY <2>3, <3>1 DEF Ids
      <4>2. Minus(With(d, old, empty), gone) = [i \in {old} |-> empty]
        BY <4>1 DEF Minus, With
      <4>3. f = [i \in {old} |-> empty]
        BY <3>1 DEF empty
      <4> QED
        BY <4>2, <4>3
    <3> HIDE DEF s, t, f, g
    <3> QED
      BY <2>10, <3>3, <3>5, <3>6, <3>7, SafeConcat, WrittenConcat, ConcatProperties DEF t
  <2>13. /\ p.tail = q.tail /\ p.gc_at = q.gc_at /\ p.events = f
         /\ p \in [tail : 0..MaxId - 1, events : {p.events}, gc_at : Nat]
         /\ DOMAIN f = stay
    BY <1>1
  <2>14. \A i \in stay : f[i] = d[i] \/ f[i].data = Nothing
    BY <2>3, <2>4, <2>5
  <2>15. keep # 0 => \A i \in stay : f[i] = d[i]
    OBVIOUS
  <2> HIDE DEF p, f, g, gone, hollow
  <2>16. Ids(p) = stay /\ Live(p) \subseteq Live(q)
    BY <2>5, <2>13, <2>14 DEF Ids, Live
  <2>17. Sound(p, D)
    <3>1. \A i \in Ids(p) : i < p.tail
      BY <2>3, <2>5, <2>13, <2>16
    <3>2. p.tail - 1 \in Ids(p)
      BY <2>3, <2>6, <2>13, <2>16
    <3>3. Live(p) # {} => p.gc_at # 0
      BY <2>13, <2>16 DEF Sound
    <3> QED
      BY <2>9, <2>13, <3>1, <3>2, <3>3 DEF Sound
  <2>18. r.queue = p /\ r.log = g
    BY <2>1
  <2> HIDE DEF r
  <2>19. Steps(q, r, D)
    BY <2>11, <2>12, <2>13, <2>17, <2>18 DEF Steps
  <2>20. \A i \in Live(p) : p.events[i] = d[i]
    BY <2>13, <2>14, <2>16 DEF Live
  <2> QED
    BY <2>5, <2>13, <2>15, <2>16, <2>18, <2>19, <2>20 DEF r
<1> QED
  BY <1>2, <1>3

(***************************************************************************)
(* A start finds the queue that the disk holds.                            *)
(***************************************************************************)
LEMMA ReplaySound ==
  ASSUME NEW d, NEW D, Good(d, D), D \subseteq Event
  PROVE  /\ Sound(Replay(d), D)
         /\ Replay(d).events = d
<1> DEFINE live == {i \in DOMAIN d : d[i].data # Nothing}
           tail == IF DOMAIN d = {} THEN 0 ELSE Max(DOMAIN d) + 1
           f == [i \in live \cup (DOMAIN d \cap {tail - 1}) |-> d[i]]
           gc_at == IF live = {} THEN 0 ELSE d[Min(live)].expires
           q == Replay(d)
<1>1. q = [tail |-> tail, events |-> f, gc_at |-> gc_at]
  BY DEF Replay
<1>2. /\ DOMAIN d \subseteq 1..MaxId - 2 /\ MaxId \in Nat /\ MaxId > 3
      /\ \A i \in DOMAIN d : d[i] \in D /\ d[i].expires \in Nat \ {0} /\ i \in Nat
      /\ \A i, j \in DOMAIN d : d[i].data = Nothing => j <= i
      /\ IsFcn(d)
  BY QueueAssumption, GoodIsFcn DEF Good, Event
<1>3. /\ tail \in 0..MaxId - 1
      /\ \A i \in DOMAIN d : i < tail
      /\ tail # 0 => tail - 1 \in DOMAIN d
      /\ \A i \in DOMAIN d : (\A j \in DOMAIN d : j <= i) => i = tail - 1
  <2>1. CASE DOMAIN d = {}
    BY <1>2, <2>1
  <2>2. CASE DOMAIN d # {}
    <3>1. DOMAIN d \in SUBSET (0..MaxId - 2) /\ MaxId - 2 \in Nat
      BY <1>2
    <3>2. Max(DOMAIN d) \in DOMAIN d /\ \A i \in DOMAIN d : i <= Max(DOMAIN d)
      BY <2>2, <3>1, MaxOf
    <3>3. Max(DOMAIN d) \in 1..MaxId - 2 /\ tail = Max(DOMAIN d) + 1
      BY <1>2, <2>2, <3>2
    <3> HIDE DEF tail
    <3> QED
      BY <1>2, <3>2, <3>3
  <2> QED
    BY <2>1, <2>2
<1> HIDE DEF tail
<1>4. live \cup (DOMAIN d \cap {tail - 1}) = DOMAIN d
  <2>1. \A i \in DOMAIN d : i \notin live => i = tail - 1
    BY <1>2, <1>3
  <2> QED
    BY <2>1
<1>5. f = d
  BY <1>2, <1>4 DEF IsFcn
<1>6. gc_at \in Nat /\ (live # {} => gc_at # 0)
  <2>1. CASE live = {}
    BY <2>1
  <2>2. CASE live # {}
    <3>1. live \in SUBSET Nat /\ live \subseteq DOMAIN d
      BY <1>2
    <3> HIDE DEF live
    <3>2. Min(live) \in DOMAIN d
      BY <2>2, <3>1, MinOf
    <3> QED
      BY <1>2, <2>2, <3>2
  <2> QED
    BY <2>1, <2>2
<1> HIDE DEF f, gc_at
<1>7. q.tail = tail /\ q.events = d /\ q.gc_at = gc_at
  BY <1>1, <1>5
<1>8. q \in [tail : 0..MaxId - 1, events : {q.events}, gc_at : Nat]
  BY <1>1, <1>3, <1>5, <1>6, <1>7
<1> HIDE DEF q
<1>9. Ids(q) = DOMAIN d /\ Live(q) = live
  BY <1>7 DEF Ids, Live
<1>10. Sound(q, D)
  BY <1>3, <1>6, <1>7, <1>8, <1>9 DEF Sound
<1> QED
  BY <1>7, <1>10 DEF q

\* Sound queues with the same events give the same next id.
LEMMA SameTail ==
  ASSUME NEW p, NEW q, NEW D, Sound(p, D), Sound(q, D), p.events = q.events
  PROVE  p.tail = q.tail
<1>1. p.tail \in Nat /\ q.tail \in Nat /\ Ids(p) = Ids(q)
  BY QueueAssumption DEF Sound, Ids
<1>2. /\ \A i \in Ids(p) : i < p.tail /\ i < q.tail /\ i \in Nat
      /\ p.tail # 0 => p.tail - 1 \in Ids(p)
      /\ q.tail # 0 => q.tail - 1 \in Ids(p)
  BY <1>1, QueueAssumption DEF Sound, Good, Ids
<1> QED
  BY <1>1, <1>2

\* What holds of some events holds of more.
LEMMA More ==
  ASSUME NEW D, NEW E, D \subseteq E
  PROVE  /\ \A d : Good(d, D) => Good(d, E)
         /\ \A d, s : Safe(d, s, D) => Safe(d, s, E)
         /\ \A q : Sound(q, D) => Sound(q, E)
<1>1. ASSUME NEW d, Good(d, D)
      PROVE  Good(d, E)
  BY <1>1 DEF Good
<1>2. ASSUME NEW d, NEW s, Safe(d, s, D)
      PROVE  Safe(d, s, E)
  BY <1>1, <1>2 DEF Safe
<1>3. ASSUME NEW q, Sound(q, D)
      PROVE  Sound(q, E)
  BY <1>1, <1>3 DEF Sound
<1> QED
  BY <1>1, <1>2, <1>3
=============================================================================

----------------------------- MODULE DurableMap -----------------------------
(***************************************************************************)
(* What the log promises of a map that is kept in it: a crash takes the    *)
(* map back to what it was at one moment, and never to one before what a   *)
(* promise that was kept covers.                                           *)
(***************************************************************************)
EXTENDS Integers, Sequences

VARIABLES
  map,    \* the map
  line,   \* what it has been since the last moment that is sure to survive
  asked   \* the promises asked for, each with the moment it is to cover
vars == <<map, line, asked>>

Init ==
  /\ map = <<>>
  /\ line = <<map>>
  /\ asked = <<>>

\* Some keys change, one by one.
IsBetween(f, m, n) ==
  \A k \in DOMAIN f \cup DOMAIN m \cup DOMAIN n :
    \/ k \in DOMAIN f \cap DOMAIN m /\ f[k] = m[k]
    \/ k \in DOMAIN f \cap DOMAIN n /\ f[k] = n[k]
    \/ k \notin DOMAIN f /\ k \notin DOMAIN m \cap DOMAIN n

Change ==
  /\ Len(line') > Len(line) /\ SubSeq(line', 1, Len(line)) = line
  /\ line'[Len(line')] = map'
  /\ \A i \in Len(line) + 1..Len(line') : IsBetween(line'[i], map, map')
  /\ UNCHANGED asked

Ask ==
  /\ \E p \in DOMAIN asked' \ DOMAIN asked :
       /\ asked' = [q \in DOMAIN asked \cup {p} |-> IF q = p THEN asked'[p] ELSE asked[q]]
       /\ asked'[p] \in 1..Len(line)
  /\ UNCHANGED <<map, line>>

\* What is before the moment n is over; the other promises move with it.
From(n) == SubSeq(line, n, Len(line))
Since(n, S) ==
  [p \in DOMAIN asked \ S |-> IF asked[p] < n THEN 1 ELSE asked[p] - n + 1]

Keep ==
  /\ DOMAIN asked' \subseteq DOMAIN asked
  /\ LET S == DOMAIN asked \ DOMAIN asked'
     IN \E p \in S :
          /\ \A q \in S : asked[q] <= asked[p]
          /\ line' = From(asked[p])
          /\ asked' = Since(asked[p], S)
  /\ UNCHANGED map

Crash ==
  /\ \E n \in 1..Len(line) : line' = SubSeq(line, 1, n)
  /\ map' = line'[Len(line')]
  /\ asked' = <<>>

\* The map is closed, and perhaps destroyed.
Close ==
  /\ \E n \in 1..Len(line) : line' = From(n)
  /\ asked' = <<>>
  /\ UNCHANGED map

Destroy ==
  /\ map' = <<>>
  /\ line' = <<map'>>
  /\ asked' = <<>>

Next == Change \/ Ask \/ Keep \/ Crash \/ Close \/ Destroy

Spec == Init /\ [][Next]_vars
=============================================================================

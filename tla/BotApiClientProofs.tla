------------------------- MODULE BotApiClientProofs -------------------------
(***************************************************************************)
(* The safety of BotApiClient for any addresses and any number of          *)
(* requests, kills and closed clients: the invariants of one client, kept  *)
(* by each call, and with them the properties of the module.               *)
(***************************************************************************)
EXTENDS BotApiClient, TLAPS

(***************************************************************************)
(* Of the requests: one that waits for an actor has a webhook in place;    *)
(* one that waits for its certificate has none.  The copy of a certificate *)
(* outlives its request only in a client that logged out.                  *)
(***************************************************************************)
RequestsOK(c) ==
  /\ c.set # NoQuery => c.url # None /\ c.active = NoQuery
  /\ c.active # NoQuery => c.url = None /\ c.active.url # None
  /\ c.poll => c.url = None /\ c.set = NoQuery /\ c.active = NoQuery
  /\ c.copying => c.active # NoQuery \/ c.phase = "closed"

(***************************************************************************)
(* Of the actors: there is none without an address, and never two; one     *)
(* that runs is the one owned and of the last generation, and answers the  *)
(* request that made it; one of a generation before is waited for to close.*)
(***************************************************************************)
HooksOK(c) ==
  /\ c.url = None => c.hooks = {} /\ c.id = 0
  /\ \A g, h \in c.hooks : g = h
  /\ \A h \in c.hooks :
       /\ h.gen <= c.gen
       /\ h.verified => h.checked
       /\ h.stage = "running" => h.gen = c.gen /\ h.gen = c.id
       /\ h.stage = "running" /\ h.checked /\ ~h.verified => c.set = NoQuery
       /\ c.set # NoQuery =>
            IF c.type = "Cancel" THEN h.gen # c.gen
            ELSE h.gen = c.gen => h.of = c.set.n /\ c.url = c.set.url

(***************************************************************************)
(* Of the phases: a client that still serves requests has no certificate   *)
(* without a webhook, and one that logged out has let everything go.       *)
(***************************************************************************)
PhaseOK(c) ==
  /\ c.phase = "open" /\ c.url = None => ~c.cert
  /\ c.phase = "closed" => c.id = 0 /\ c.set = NoQuery /\ c.active = NoQuery
  /\ c.phase = "stopped" => c = NewClient("stopped")

ClientOK(c) == c \in Client /\ RequestsOK(c) /\ HooksOK(c) /\ PhaseOK(c)

IsSaved(c, db) ==
  \A h \in c.hooks :
    h.stage = "running" /\ c.set = NoQuery => db = Saved(c)

(***************************************************************************)
(* The inductive invariant.                                                *)
(***************************************************************************)
IInv ==
  /\ TypeOK /\ ChecksHold
  /\ ClientOK(client)
  /\ IsSaved(client, webhook_db)
  /\ restore => client = NewClient("open") /\ webhook_db # NoEntry

(***************************************************************************)
(* What a call that changes the webhook leaves: no CHECK failed, and a     *)
(* webhook only with the request that waits for it.                        *)
(***************************************************************************)
Good(o) ==
  /\ o.check = "none" /\ ClientOK(o.client)
  /\ o.client.set = NoQuery => o.client.url = None

(***************************************************************************)
(* What ToldIsSet says of one step.                                        *)
(***************************************************************************)
ToldStep ==
  client.set # NoQuery /\ client'.set = NoQuery /\ client'.url # None
    /\ client'.phase = client.phase =>
  /\ client'.url = client.set.url
  /\ webhook_db' = Saved(client')
  /\ \E h \in client'.hooks : h.of = client.set.n /\ h.checked

-----------------------------------------------------------------------------
USE ClientAssumption

LEMMA NewClientOK ==
  ASSUME NEW phase \in {"open", "stopped"}
  PROVE  ClientOK(NewClient(phase))
BY DEF NewClient, ClientOK, Client, RequestsOK, HooksOK, PhaseOK

LEMMA LeavesOK ==
  ASSUME NEW c, NEW told, ClientOK(c),
         c.set = NoQuery => c.url = None
  PROVE  Good(Leaves(c, told))
BY DEF Good, Leaves

(***************************************************************************)
(* A client about to make a webhook: nothing is there and nobody waits.    *)
(***************************************************************************)
Empty(c) ==
  /\ c \in Client
  /\ c.url = None /\ c.hooks = {} /\ c.id = 0 /\ c.set = NoQuery
  /\ c.phase # "stopped"

(***************************************************************************)
(* finish_set_webhook makes the only actor, of the last generation.        *)
(***************************************************************************)
LEMMA FinishOK ==
  ASSUME NEW c, NEW q \in Query,
         Empty(c), c.active = NoQuery, ~c.poll, q.url # None,
         c.copying => c.phase = "closed"
  PROVE  Good(FinishSetWebhook(c, q))
<1> DEFINE hook == NewHook(c.gen, q)
           d == [c EXCEPT !.url = q.url, !.id = c.gen, !.type = "Verify",
                          !.set = q, !.hooks = @ \cup {hook}]
<1>1. CASE c.phase # "open"
  <2>1. FinishSetWebhook(c, q) = Leaves(c, "closing")
    BY <1>1 DEF FinishSetWebhook, Empty
  <2> QED
    BY <2>1, <1>1 DEF Good, Leaves, Empty, ClientOK, RequestsOK, HooksOK,
                      PhaseOK
<1>2. CASE c.phase = "open"
  <2>1. FinishSetWebhook(c, q) = Leaves(d, "nothing")
    BY <1>2 DEF FinishSetWebhook, Empty
  <2>2. hook \in Hook /\ hook.stage = "running" /\ ~hook.checked
          /\ ~hook.verified /\ hook.gen = c.gen /\ hook.of = q.n
    BY DEF NewHook, Hook, Query, Empty, Client
  <2>3. /\ d.url = q.url /\ d.cert = c.cert /\ d.gen = c.gen /\ d.id = c.gen
        /\ d.set = q /\ d.type = "Verify" /\ d.active = NoQuery
        /\ ~d.poll /\ d.hooks = {hook} /\ d.copying = c.copying
        /\ d.phase = "open"
    BY <1>2 DEF Empty, Client
  <2>4. d \in Client
    BY <2>2 DEF Empty, Client, Query
  <2>5. q # NoQuery /\ c.gen \in Nat
    BY DEF Empty, Client
  <2>6. RequestsOK(d)
    BY <2>3, <2>5, <1>2 DEF RequestsOK
  <2>7. HooksOK(d)
    BY <2>2, <2>3, <2>5 DEF HooksOK
  <2>8. PhaseOK(d)
    BY <2>3 DEF PhaseOK
  <2>9. ClientOK(d) /\ (d.set = NoQuery => d.url = None)
    BY <2>3, <2>4, <2>5, <2>6, <2>7, <2>8 DEF ClientOK
  <2> HIDE DEF d
  <2> QED
    BY <2>1, <2>9, LeavesOK
<1> QED BY <1>1, <1>2

(***************************************************************************)
(* do_set_webhook, on such a client, fails no CHECK.                       *)
(***************************************************************************)
LEMMA DoSetOK ==
  ASSUME NEW c, NEW q \in Query,
         Empty(c), c.active = NoQuery, c.poll => q.url = None,
         c.copying => c.phase = "closed",
         c.phase = "open" => ~c.cert
  PROVE  \A o \in DoSetWebhook(c, q) : Good(o)
<1>1. Good(Leaves(c, "closing")) /\ Good(Leaves(c, "deleted"))
        /\ Good(Leaves(c, "refused"))
  BY DEF Good, Leaves, Empty, ClientOK, RequestsOK, HooksOK, PhaseOK
<1>2. CASE c.phase # "open" \/ q.url = None
  BY <1>1, <1>2 DEF DoSetWebhook, Empty
<1>3. CASE c.phase = "open" /\ q.url # None
  <2>1. ASSUME q.cert /\ ~q.internal
        PROVE  Good(CopyCertificate(c, q))
    <3> DEFINE d == [c EXCEPT !.active = q, !.copying = TRUE]
    <3>1. CopyCertificate(c, q) = Leaves(d, "nothing")
      BY DEF CopyCertificate, Empty
    <3>2. d \in Client /\ q # NoQuery
      BY DEF Empty, Client
    <3>3. /\ d.url = None /\ d.cert = c.cert /\ d.id = 0 /\ d.set = NoQuery
          /\ d.active = q /\ d.poll = c.poll /\ d.hooks = {}
          /\ d.phase = "open"
      BY <1>3 DEF Empty, Client
    <3>4. d.poll = FALSE
      BY <1>3, <3>3 DEF Empty, Client
    <3>5. RequestsOK(d) /\ HooksOK(d) /\ PhaseOK(d)
      BY <1>3, <3>2, <3>3, <3>4 DEF RequestsOK, HooksOK, PhaseOK
    <3>6. ClientOK(d)
      BY <3>2, <3>5 DEF ClientOK
    <3> HIDE DEF d
    <3> QED
      BY <3>1, <3>3, <3>5, <3>6, LeavesOK
  <2>2. Good(WithoutCertificate(c, q))
    <3> DEFINE d == [c EXCEPT !.cert = q.internal /\ q.cert]
    <3>1. d \in Client
      BY DEF Empty, Client, Query
    <3>2. /\ d.url = None /\ d.id = 0 /\ d.set = NoQuery /\ d.active = NoQuery
          /\ d.poll = c.poll /\ d.hooks = {} /\ d.copying = c.copying
          /\ d.phase = c.phase
      BY DEF Empty, Client
    <3>3. Empty(d)
      BY <3>1, <3>2 DEF Empty
    <3>4. ~d.poll
      BY <1>3, <3>2 DEF Empty, Client
    <3>5. Good(FinishSetWebhook(d, q))
      BY <1>3, <3>2, <3>3, <3>4, FinishOK
    <3> QED
      BY <3>5 DEF WithoutCertificate
  <2> QED
    BY <1>1, <1>3, <2>1, <2>2 DEF DoSetWebhook, Empty
<1> QED BY <1>2, <1>3

(***************************************************************************)
(* The actor owned is asked to close: none is left that runs.              *)
(***************************************************************************)
LEMMA OwnedOK ==
  ASSUME NEW c, ClientOK(c), NEW stage \in {"asked", "gone"}
  PROVE  /\ Owned(c.hooks, c.id, stage) \in SUBSET Hook
         /\ \A g \in Owned(c.hooks, c.id, stage) :
              /\ g.stage # "running"
              /\ \E h \in c.hooks :
                   /\ g.gen = h.gen /\ g.of = h.of
                   /\ g.checked = h.checked /\ g.verified = h.verified
         /\ \A f, g \in Owned(c.hooks, c.id, stage) : f = g
<1> DEFINE turn(h) == IF h.gen = c.id /\ h.stage = "running"
                      THEN [h EXCEPT !.stage = stage] ELSE h
<1>1. Owned(c.hooks, c.id, stage) = {turn(h) : h \in c.hooks}
  BY DEF Owned
<1>2. c.hooks \subseteq Hook
  BY DEF ClientOK, Client
<1>3. ASSUME NEW h \in c.hooks
      PROVE  /\ turn(h) \in Hook /\ turn(h).stage # "running"
             /\ turn(h).gen = h.gen /\ turn(h).of = h.of
             /\ turn(h).checked = h.checked /\ turn(h).verified = h.verified
  <2>1. h \in Hook /\ (h.stage = "running" => h.gen = c.id)
    BY <1>2 DEF ClientOK, HooksOK
  <2> QED
    BY <2>1 DEF Hook
<1>4. \A g, h \in c.hooks : g = h
  BY DEF ClientOK, HooksOK
<1> HIDE DEF turn
<1> QED
  BY <1>1, <1>3, <1>4

(***************************************************************************)
(* An old webhook is closed first: its actor is of a generation before.    *)
(***************************************************************************)
LEMMA ChangeOK ==
  ASSUME NEW c, ClientOK(c), c.phase = "open", c.active = NoQuery,
         NEW q \in Query
  PROVE  \A o \in Change(c, q) :
           Good(o) /\ (c.url # None => o.client.set = q)
<1> DEFINE poll == c.poll /\ q.url = None
           gen == c.gen + 1
           d == [c EXCEPT !.gen = gen, !.set = NoQuery, !.poll = poll]
<1>1. c \in Client /\ RequestsOK(c) /\ HooksOK(c) /\ PhaseOK(c)
  BY DEF ClientOK
<1>2. d \in Client
  <2>1. poll \in BOOLEAN /\ gen \in Nat
    BY <1>1 DEF Client
  <2> HIDE DEF poll, gen
  <2> QED
    BY <1>1, <2>1 DEF Client
<1>3. /\ d.url = c.url /\ d.cert = c.cert /\ d.gen = c.gen + 1
      /\ d.id = c.id /\ d.set = NoQuery /\ d.active = NoQuery
      /\ d.poll = (c.poll /\ q.url = None) /\ d.hooks = c.hooks
      /\ d.copying = c.copying /\ d.phase = "open"
  BY <1>1 DEF Client
<1>4. ~c.copying
  BY <1>1 DEF RequestsOK
<1>5. CASE c.url = None
  <2>1. Empty(d)
    BY <1>1, <1>2, <1>3, <1>5 DEF Empty, HooksOK
  <2>2. ~d.cert
    BY <1>1, <1>3, <1>5 DEF PhaseOK
  <2>3. \A o \in DoSetWebhook(d, q) : Good(o)
    BY <1>3, <1>4, <2>1, <2>2, DoSetOK
  <2> QED
    BY <1>5, <2>3 DEF Change
<1>6. CASE c.url # None
  <2> HIDE DEF d
  <2> DEFINE e == [d EXCEPT !.hooks = Owned(@, d.id, "asked"), !.id = 0,
                            !.type = "Cancel", !.set = q]
  <2>1. Change(c, q) = {Leaves(e, "nothing")}
    BY <1>3, <1>6 DEF Change, CloseFirst, d
  <2>2. Owned(d.hooks, d.id, "asked") \in SUBSET Hook
    BY <1>3, OwnedOK
  <2>3. e \in Client
    BY <1>2, <2>2 DEF Client
  <2>4. /\ e.url = c.url /\ e.gen = c.gen + 1 /\ e.id = 0 /\ e.set = q
        /\ e.type = "Cancel" /\ e.active = NoQuery
        /\ e.poll = (c.poll /\ q.url = None)
        /\ e.hooks = Owned(c.hooks, c.id, "asked")
        /\ e.copying = c.copying /\ e.phase = "open"
    BY <1>2, <1>3 DEF Client
  <2>5. ~c.poll
    BY <1>1, <1>6 DEF RequestsOK
  <2>6. RequestsOK(e)
    BY <1>4, <1>6, <2>4, <2>5 DEF RequestsOK
  <2>7. c.hooks \subseteq Hook /\ c.gen \in Nat /\ \A h \in c.hooks : h.gen \in Nat
    BY <1>1 DEF Client, Hook
  <2>8. ASSUME NEW g \in e.hooks
        PROVE  /\ g.gen <= c.gen + 1 /\ g.gen # c.gen + 1
               /\ g.verified => g.checked
               /\ g.stage # "running"
    <3>1. PICK h \in c.hooks : g.gen = h.gen /\ g.checked = h.checked
                                 /\ g.verified = h.verified
      BY <2>4, OwnedOK
    <3>2. h.gen <= c.gen /\ (h.verified => h.checked)
      BY <1>1 DEF HooksOK
    <3>3. g.stage # "running"
      BY <2>4, OwnedOK
    <3> QED
      BY <2>7, <3>1, <3>2, <3>3
  <2>9. \A f, g \in e.hooks : f = g
    BY <2>4, OwnedOK
  <2>10. HooksOK(e) /\ PhaseOK(e)
    BY <1>6, <2>4, <2>8, <2>9 DEF HooksOK, PhaseOK
  <2> QED
    <3>1. ClientOK(e) /\ e.set = q /\ q # NoQuery
      BY <2>3, <2>4, <2>6, <2>10 DEF ClientOK
    <3> HIDE DEF e
    <3>2. Good(Leaves(e, "nothing")) /\ Leaves(e, "nothing").client = e
      BY <3>1, LeavesOK DEF Leaves
    <3> QED
      BY <2>1, <3>1, <3>2
<1> QED BY <1>5, <1>6

(***************************************************************************)
(* A request that waited and gives way leaves the new one to wait.         *)
(***************************************************************************)
LEMMA ProcessOK ==
  ASSUME NEW c, ClientOK(c), c.phase = "open", NEW q \in Query,
         NEW o \in ProcessSetWebhookQuery(c, q)
  PROVE  /\ o.check = "none"
         /\ ClientOK(o.client)
         /\ Good(o) \/ o.client = c
         /\ c.set # NoQuery => o.client.set # NoQuery
<1>1. c.set # NoQuery => c.active = NoQuery /\ c.url # None
  BY DEF ClientOK, RequestsOK
<1>2. CASE o \in Change(c, q) /\ c.active = NoQuery
  <2>1. Good(o) /\ (c.url # None => o.client.set = q)
    BY <1>2, ChangeOK
  <2> QED
    BY <1>1, <2>1 DEF Good
<1>3. CASE \E told \in {"refused", "deleted", "set"} :
             o = Leaves(c, told) /\ c.set = NoQuery
  BY <1>3 DEF Leaves
<1> QED
  BY <1>1, <1>2, <1>3 DEF ProcessSetWebhookQuery

(***************************************************************************)
(* Once the actor is closed nothing is there, and the request that waited  *)
(* for this makes a webhook or fails.                                      *)
(***************************************************************************)
LEMMA OnWebhookClosedOK ==
  ASSUME NEW c, ClientOK(c), NEW h \in c.hooks,
         NEW o \in OnWebhookClosed(c, h)
  PROVE  Good(o)
<1> DEFINE d == [c EXCEPT !.id = 0, !.url = None, !.cert = FALSE,
                          !.hooks = @ \ {h}, !.set = NoQuery]
<1>1. c \in Client /\ RequestsOK(c) /\ HooksOK(c) /\ PhaseOK(c)
  BY DEF ClientOK
<1>2. c.hooks \ {h} = {} /\ c.url # None /\ c.phase # "stopped"
  BY <1>1 DEF HooksOK, PhaseOK, NewClient
<1>3. d \in Client
  BY <1>1 DEF Client
<1>4. /\ d.url = None /\ ~d.cert /\ d.gen = c.gen /\ d.id = 0
      /\ d.set = NoQuery /\ d.active = c.active /\ d.poll = c.poll
      /\ d.hooks = {} /\ d.copying = c.copying /\ d.phase = c.phase
  BY <1>1, <1>2 DEF Client
<1>5. d.active = NoQuery /\ ~d.poll /\ (d.copying => d.phase = "closed")
  BY <1>1, <1>2, <1>4 DEF RequestsOK
<1>6. CASE o = Leaves(d, "nothing")
  <2>1. RequestsOK(d) /\ HooksOK(d) /\ PhaseOK(d)
    BY <1>2, <1>4, <1>5 DEF RequestsOK, HooksOK, PhaseOK
  <2> QED
    BY <1>3, <1>4, <1>6, <2>1 DEF Good, Leaves, ClientOK
<1>7. CASE c.set # NoQuery /\ o \in DoSetWebhook(d, c.set)
  <2>1. Empty(d) /\ c.set \in Query
    BY <1>1, <1>2, <1>3, <1>4, <1>7 DEF Empty, Client
  <2> QED
    BY <1>4, <1>5, <1>7, <2>1, DoSetOK
<1> QED
  BY <1>6, <1>7 DEF OnWebhookClosed

(***************************************************************************)
(* A client that logs out lets its requests and its actor go.              *)
(***************************************************************************)
LEMMA OnClosedOK ==
  ASSUME NEW c, ClientOK(c), c.phase = "logging_out"
  PROVE  ClientOK(OnClosed(c))
           /\ \A h \in OnClosed(c).hooks : h.stage # "running"
<1>1. c \in Client /\ RequestsOK(c) /\ HooksOK(c) /\ PhaseOK(c)
  BY DEF ClientOK
<1> DEFINE id == IF c.url # None THEN 0 ELSE c.id
           hooks == IF c.url # None THEN Owned(c.hooks, c.id, "gone")
                    ELSE c.hooks
           d == [c EXCEPT !.set = NoQuery, !.active = NoQuery,
                          !.poll = FALSE, !.id = id, !.hooks = hooks,
                          !.phase = "closed"]
<1>2. OnClosed(c) = d
  BY DEF OnClosed
<1>3. id = 0 /\ hooks \in SUBSET Hook
  BY <1>1, OwnedOK DEF HooksOK, Client
<1>4. /\ \A f, g \in hooks : f = g
      /\ c.url = None => hooks = {}
  BY <1>1, OwnedOK DEF HooksOK
<1>5. ASSUME NEW g \in hooks
      PROVE  g.gen <= c.gen /\ (g.verified => g.checked)
               /\ g.stage # "running"
  <2>1. c.url # None
    BY <1>4
  <2>2. PICK h \in c.hooks : g.gen = h.gen /\ g.checked = h.checked
                               /\ g.verified = h.verified
    BY <2>1, OwnedOK
  <2>3. g.stage # "running"
    BY <2>1, OwnedOK
  <2>4. h.gen <= c.gen /\ (h.verified => h.checked)
    BY <1>1 DEF HooksOK
  <2> QED
    BY <2>2, <2>3, <2>4
<1> HIDE DEF id, hooks
<1>6. d \in Client
  BY <1>1, <1>3 DEF Client
<1>7. /\ d.url = c.url /\ d.gen = c.gen /\ d.id = 0
      /\ d.set = NoQuery /\ d.active = NoQuery /\ ~d.poll
      /\ d.hooks = hooks /\ d.phase = "closed"
  BY <1>1, <1>3 DEF Client
<1>8. RequestsOK(d) /\ HooksOK(d) /\ PhaseOK(d)
  BY <1>4, <1>5, <1>7 DEF RequestsOK, HooksOK, PhaseOK
<1> QED
  BY <1>2, <1>5, <1>6, <1>7, <1>8 DEF ClientOK

-----------------------------------------------------------------------------
(***************************************************************************)
(* A server that starts again, after a kill or a CHECK that failed.        *)
(***************************************************************************)
LEMMA RestartOK ==
  ASSUME IInv, Restart, deleted' \in BOOLEAN, sets' \in 0..MaxSets,
         kills' \in 0..MaxKills,
         aborted' \in {"none", "on_webhook_certificate_copied"}
  PROVE  IInv'
<1>1. ClientOK(NewClient("open")) /\ NewClient("open").hooks = {}
  BY NewClientOK DEF NewClient
<1>2. ClientOK(client') /\ IsSaved(client', webhook_db')
  BY <1>1 DEF Restart, IsSaved
<1>3. client' \in Client
  BY <1>2 DEF ClientOK
<1>4. restore' => client' = NewClient("open") /\ webhook_db' # NoEntry
  BY DEF Restart
<1>5. TypeOK' /\ ChecksHold'
  BY <1>3 DEF Restart, IInv, TypeOK, ChecksHold
<1> QED
  BY <1>2, <1>4, <1>5 DEF IInv

(***************************************************************************)
(* A call that leaves o, whose client is good and saved in db.             *)
(***************************************************************************)
LEMMA BecomeOK ==
  ASSUME IInv, NEW o, NEW db \in Entry \cup {NoEntry}, NEW resumes \in BOOLEAN,
         Become(o, db, resumes),
         o.check \in {"none", "on_webhook_certificate_copied"},
         o.check = "none" =>
           /\ ClientOK(o.client) /\ IsSaved(o.client, db)
           /\ resumes => o.client = NewClient("open") /\ db # NoEntry,
         deleted' \in BOOLEAN, sets' \in 0..MaxSets, kills' \in 0..MaxKills
  PROVE  IInv'
<1>1. CASE o.check = "none"
  <2>1. /\ client' = o.client /\ webhook_db' = db /\ restore' = resumes
        /\ UNCHANGED <<written, aborted, closes>>
    BY <1>1 DEF Become
  <2>2. client' \in Client
    BY <1>1, <2>1 DEF ClientOK
  <2>3. TypeOK' /\ ChecksHold'
    BY <2>1, <2>2 DEF IInv, TypeOK, ChecksHold
  <2> QED
    BY <1>1, <2>1, <2>3 DEF IInv
<1>2. CASE o.check # "none"
  <2>1. Restart /\ aborted' = IF aborted = "none" THEN o.check ELSE aborted
    BY <1>2 DEF Become
  <2>2. aborted' \in {"none", "on_webhook_certificate_copied"}
    BY <2>1 DEF IInv, ChecksHold
  <2> QED
    BY <2>1, <2>2, RestartOK
<1> QED BY <1>1, <1>2

LEMMA SavedOK ==
  ASSUME NEW c, ClientOK(c)
  PROVE  Saved(c) \in Entry /\ Saved(c) # NoEntry
BY DEF ClientOK, Client, Saved, Entry

LEMMA SetWebhookKeeps ==
  ASSUME IInv, SetWebhook
  PROVE  IInv' /\ (client.set # NoQuery => client'.set # NoQuery)
<1> DEFINE c == IF client.phase = "open" THEN client ELSE NewClient("open")
<1>1. PICK url \in Url \cup {None}, cert \in BOOLEAN, drop \in BOOLEAN :
        \E q \in {[n |-> sets + 1, url |-> url, cert |-> cert /\ url # None,
                   drop |-> drop, internal |-> FALSE]} :
        \E o \in ProcessSetWebhookQuery(c, q) :
          /\ \E db \in {webhook_db}
               \cup (IF o.told \in {"set", "deleted"} /\ Unchanged(c, q)
                     THEN {Saved(c)} ELSE {}) :
               Become(o, db, FALSE)
          /\ deleted' = (o.told = "deleted" \/ (deleted /\ url = None))
  BY Zenon DEF SetWebhook
<1> HIDE DEF c
<1>2. PICK q \in {[n |-> sets + 1, url |-> url, cert |-> cert /\ url # None,
                   drop |-> drop, internal |-> FALSE]} :
        \E o \in ProcessSetWebhookQuery(c, q) :
          /\ \E db \in {webhook_db, Saved(c)} : Become(o, db, FALSE)
          /\ deleted' = (o.told = "deleted" \/ (deleted /\ url = None))
  BY <1>1
<1>3. PICK o \in ProcessSetWebhookQuery(c, q) :
        /\ \E db \in {webhook_db, Saved(c)} : Become(o, db, FALSE)
        /\ deleted' = (o.told = "deleted" \/ (deleted /\ url = None))
  BY <1>2
<1>4. PICK db \in {webhook_db, Saved(c)} : Become(o, db, FALSE)
  BY <1>3
<1>5. q \in Query
  <2> DEFINE n == sets + 1
             withCert == cert /\ url # None
  <2>1. n \in Nat /\ withCert \in BOOLEAN
    BY DEF IInv, TypeOK
  <2>2. q = [n |-> n, url |-> url, cert |-> withCert, drop |-> drop,
             internal |-> FALSE]
    BY <1>2
  <2> HIDE DEF n, withCert
  <2> QED
    BY <2>1, <2>2 DEF Query
<1>6. ClientOK(c) /\ c.phase = "open" /\ IsSaved(c, webhook_db)
  <2>1. CASE client.phase = "open"
    BY <2>1 DEF IInv, c
  <2>2. CASE client.phase # "open"
    BY <2>2, NewClientOK DEF c, IsSaved, NewClient
  <2> QED BY <2>1, <2>2
<1>7. db \in Entry \cup {NoEntry} /\ IsSaved(c, db)
  BY <1>4, <1>6, SavedOK DEF IsSaved, IInv, TypeOK
<1>8. o.check = "none" /\ ClientOK(o.client)
        /\ (Good(o) \/ o.client = c)
  BY <1>5, <1>6, ProcessOK
<1>9. IsSaved(o.client, db)
  BY <1>7, <1>8 DEF Good, ClientOK, HooksOK, IsSaved
<1>10. deleted' \in BOOLEAN
  BY <1>3
<1>11. sets' \in 0..MaxSets /\ kills' \in 0..MaxKills
  BY DEF SetWebhook, IInv, TypeOK
<1>12. client.set # NoQuery => client'.set # NoQuery
  <2>1. client.set # NoQuery => c = client
    BY DEF SetWebhook, IInv, ClientOK, PhaseOK, NewClient, c
  <2>2. c.set # NoQuery => o.client.set # NoQuery
    BY <1>5, <1>6, ProcessOK
  <2>3. client' = o.client
    BY <1>4, <1>8 DEF Become
  <2> QED
    BY <2>1, <2>2, <2>3
<1> QED
  BY <1>4, <1>7, <1>8, <1>9, <1>10, <1>11, <1>12, BecomeOK

LEMMA RestoreKeeps ==
  ASSUME IInv, Restore
  PROVE  IInv'
<1> DEFINE q == [n |-> 0, url |-> webhook_db.url, cert |-> webhook_db.cert,
                 drop |-> FALSE, internal |-> TRUE]
<1>1. PICK o \in ProcessSetWebhookQuery(client, q) :
        Become(o, webhook_db, FALSE)
  BY DEF Restore
<1>2. webhook_db \in Entry
  BY DEF Restore, IInv, TypeOK
<1>3. q \in Query
  BY <1>2 DEF Query, Entry
<1>4. ClientOK(client) /\ client.phase = "open" /\ IsSaved(client, webhook_db)
  BY DEF IInv, Restore
<1>5. o.check = "none" /\ ClientOK(o.client)
        /\ (Good(o) \/ o.client = client)
  BY <1>3, <1>4, ProcessOK
<1>6. IsSaved(o.client, webhook_db)
  BY <1>4, <1>5 DEF Good, ClientOK, HooksOK, IsSaved
<1>7. deleted' \in BOOLEAN /\ sets' \in 0..MaxSets /\ kills' \in 0..MaxKills
  BY DEF Restore, IInv, TypeOK
<1> QED
  BY <1>1, <1>2, <1>5, <1>6, <1>7, BecomeOK

(***************************************************************************)
(* The actor takes a step, or a message of it is heard, and the request    *)
(* that waited for it may be answered.                                     *)
(***************************************************************************)
HookStep(c, h, g, set) ==
  [c EXCEPT !.hooks = (@ \ {h}) \cup {g}, !.set = set]

(***************************************************************************)
(* It stays the only actor, of the same generation and request.            *)
(***************************************************************************)
LEMMA HookStepOK ==
  ASSUME NEW c, ClientOK(c), NEW h \in c.hooks, NEW g \in Hook,
         g.gen = h.gen, g.of = h.of, g.verified => g.checked,
         NEW set \in {c.set, NoQuery},
         g.stage = "running" =>
           h.stage = "running" /\ (g.checked /\ ~g.verified => set = NoQuery)
  PROVE  LET d == HookStep(c, h, g, set)
         IN  /\ ClientOK(d) /\ d.hooks = {g} /\ d.set = set
             /\ d.url = c.url /\ d.cert = c.cert
<1> DEFINE d == HookStep(c, h, g, set)
<1>1. c \in Client /\ RequestsOK(c) /\ HooksOK(c) /\ PhaseOK(c)
  BY DEF ClientOK
<1> DEFINE hooks == (c.hooks \ {h}) \cup {g}
<1>2. hooks = {g} /\ c.url # None /\ c.phase # "stopped"
  BY <1>1 DEF HooksOK, PhaseOK, NewClient
<1> HIDE DEF hooks
<1>3. d = [c EXCEPT !.hooks = hooks, !.set = set]
  BY DEF hooks, HookStep
<1> HIDE DEF d
<1>4. hooks \in SUBSET Hook /\ set \in Query \cup {NoQuery}
  BY <1>1, <1>2 DEF Client
<1>5. d \in Client
  BY <1>1, <1>3, <1>4 DEF Client
<1>6. /\ d.url = c.url /\ d.cert = c.cert /\ d.gen = c.gen /\ d.id = c.id
      /\ d.set = set /\ d.type = c.type /\ d.active = c.active
      /\ d.poll = c.poll /\ d.hooks = {g} /\ d.copying = c.copying
      /\ d.phase = c.phase
  BY <1>1, <1>2, <1>3 DEF Client
<1>7. RequestsOK(d)
  BY <1>1, <1>2, <1>6 DEF RequestsOK
<1>8. HooksOK(d)
  BY <1>1, <1>2, <1>6 DEF HooksOK
<1>9. PhaseOK(d)
  BY <1>1, <1>2, <1>6 DEF PhaseOK
<1> QED
  BY <1>5, <1>6, <1>7, <1>8, <1>9 DEF ClientOK, d

LEMMA BecomesKeeps ==
  ASSUME IInv, NEW h \in client.hooks, NEW g \in Hook,
         g.gen = h.gen, g.of = h.of, g.verified => g.checked,
         g.stage = "running" => h.stage = "running" /\ g.verified,
         Becomes(h, g)
  PROVE  IInv'
<1>1. ClientOK(client) /\ client.hooks # {}
  BY DEF IInv
<1>2. client' = HookStep(client, h, g, client.set)
  BY <1>1 DEF Becomes, ClientOK, Client, HookStep
<1>3. /\ ClientOK(client') /\ client'.hooks = {g}
      /\ client'.set = client.set /\ client'.url = client.url
      /\ client'.cert = client.cert
  BY <1>1, <1>2, HookStepOK
<1>4. ~restore
  BY <1>1 DEF IInv, NewClient
<1>5. client' \in Client
  BY <1>3 DEF ClientOK
<1>6. TypeOK' /\ ChecksHold'
  BY <1>5 DEF Becomes, IInv, TypeOK, ChecksHold
<1>7. IsSaved(client', webhook_db')
  BY <1>3 DEF Becomes, IInv, IsSaved, Saved
<1> QED
  BY <1>3, <1>4, <1>6, <1>7 DEF IInv, Becomes

LEMMA HookIsTyped ==
  ASSUME IInv, NEW h \in client.hooks
  PROVE  h \in Hook /\ (h.verified => h.checked)
BY DEF IInv, ClientOK, Client, HooksOK

LEMMA HookVerifiesKeeps ==
  ASSUME IInv, NEW h \in client.hooks, HookVerifies(h)
  PROVE  IInv'
<1> DEFINE g == [h EXCEPT !.checked = TRUE, !.verified = TRUE]
<1>1. g \in Hook /\ g.gen = h.gen /\ g.of = h.of /\ g.checked /\ g.verified
        /\ g.stage = h.stage
  BY HookIsTyped DEF Hook
<1>2. Becomes(h, g)
  BY DEF HookVerifies
<1> HIDE DEF g
<1> QED
  BY <1>1, <1>2, BecomesKeeps

LEMMA HookMovesKeeps ==
  ASSUME IInv, NEW h \in client.hooks, NEW stage \in {"closed", "unlinking"},
         Becomes(h, [h EXCEPT !.stage = stage])
  PROVE  IInv'
<1> DEFINE g == [h EXCEPT !.stage = stage]
<1>1. g \in Hook /\ g.gen = h.gen /\ g.of = h.of /\ (g.verified => g.checked)
        /\ g.stage # "running"
  BY HookIsTyped DEF Hook
<1> HIDE DEF g
<1> QED
  BY <1>1, BecomesKeeps DEF g

(***************************************************************************)
(* Only the last generation is heard, what it says is saved, and a request *)
(* that waited is one that made this actor.                                *)
(***************************************************************************)
LEMMA WebhookVerifiedKeeps ==
  ASSUME IInv, NEW h \in client.hooks, WebhookVerified(h)
  PROVE  IInv' /\ ToldStep
<1> DEFINE g == [h EXCEPT !.verified = FALSE]
           heard == [client EXCEPT !.hooks = (@ \ {h}) \cup {g}]
<1>1. g \in Hook /\ g.gen = h.gen /\ g.of = h.of /\ ~g.verified
        /\ g.stage = h.stage
  BY HookIsTyped DEF Hook
<1>2. ClientOK(client) /\ client \in Client /\ ~restore
  BY DEF IInv, ClientOK, NewClient
<1>3. PICK set \in {client.set, NoQuery} :
        /\ client' = HookStep(client, h, g, set)
        /\ webhook_db' \in {webhook_db, Saved(client)}
        /\ \/ h.gen # client.gen /\ set = client.set
           \/ /\ h.gen = client.gen /\ set = NoQuery
              /\ client.set = NoQuery \/ webhook_db' = Saved(client)
  <2>1. CASE h.gen # client.gen
    <3>1. client' = heard /\ UNCHANGED webhook_db
      BY <2>1 DEF WebhookVerified
    <3>2. heard = HookStep(client, h, g, client.set)
      BY <1>2 DEF Client, HookStep
    <3> QED
      BY <2>1, <3>1, <3>2
  <2>2. CASE h.gen = client.gen
    <3>1. /\ client' = [heard EXCEPT !.set = NoQuery]
          /\ \/ webhook_db' = Saved(client)
             \/ client.set = NoQuery /\ UNCHANGED webhook_db
      BY <2>2 DEF WebhookVerified
    <3>2. [heard EXCEPT !.set = NoQuery] = HookStep(client, h, g, NoQuery)
      BY DEF HookStep
    <3> QED
      BY <2>2, <3>1, <3>2
  <2> QED BY <2>1, <2>2
<1> HIDE DEF g, heard
<1>4. g.stage = "running" => h.gen = client.gen
  BY <1>1, <1>2 DEF ClientOK, HooksOK
<1>5. /\ ClientOK(client') /\ client'.hooks = {g} /\ client'.set = set
      /\ client'.url = client.url /\ client'.cert = client.cert
  <2>1. /\ g \in Hook /\ g.gen = h.gen /\ g.of = h.of
        /\ g.verified => g.checked
        /\ g.stage = "running" =>
             h.stage = "running" /\ (g.checked /\ ~g.verified => set = NoQuery)
    BY <1>1, <1>3, <1>4
  <2>2. LET d == HookStep(client, h, g, set)
        IN  /\ ClientOK(d) /\ d.hooks = {g} /\ d.set = set
            /\ d.url = client.url /\ d.cert = client.cert
    BY <1>2, <2>1, HookStepOK
  <2>3. client' = HookStep(client, h, g, set)
    BY <1>3
  <2> QED
    BY <2>2, <2>3
<1>6. IsSaved(client', webhook_db')
  <2>1. Saved(client') = Saved(client)
    BY <1>5 DEF Saved
  <2>2. g.stage = "running" /\ client.set = NoQuery =>
          webhook_db = Saved(client)
    BY <1>1 DEF IInv, IsSaved
  <2> QED
    BY <1>3, <1>5, <1>4, <2>1, <2>2 DEF IsSaved
<1>7. client' \in Client /\ webhook_db' \in Entry \cup {NoEntry}
  BY <1>2, <1>3, <1>5, SavedOK DEF ClientOK, IInv, TypeOK
<1>8. TypeOK' /\ ChecksHold'
  BY <1>7 DEF WebhookVerified, IInv, TypeOK, ChecksHold
<1>9. ToldStep
  <2> SUFFICES ASSUME client.set # NoQuery, client'.set = NoQuery
               PROVE  /\ client'.url = client.set.url
                      /\ webhook_db' = Saved(client')
                      /\ g.of = client.set.n /\ g.checked
    BY <1>5 DEF ToldStep
  <2>1. h.gen = client.gen /\ webhook_db' = Saved(client)
    BY <1>3, <1>5
  <2>2. h.of = client.set.n /\ client.url = client.set.url /\ h.checked
    <3>1. h.verified
      BY DEF WebhookVerified
    <3>2. HooksOK(client)
      BY <1>2 DEF ClientOK
    <3> QED
      BY <2>1, <3>1, <3>2 DEF HooksOK
  <2>3. g.checked = h.checked
    BY HookIsTyped DEF Hook, g
  <2> QED
    BY <1>1, <1>5, <2>1, <2>2, <2>3 DEF Saved
<1> QED
  BY <1>2, <1>5, <1>6, <1>8, <1>9 DEF IInv, WebhookVerified

(***************************************************************************)
(* The database forgets the webhook with the client.                       *)
(***************************************************************************)
LEMMA ForgetKeeps ==
  ASSUME IInv, NEW h \in client.hooks, Forget(h)
  PROVE  IInv' /\ (client'.set = NoQuery => client'.url = None)
<1>1. PICK o \in OnWebhookClosed(client, h) :
        /\ Become(o, NoEntry, restore)
        /\ deleted' = (deleted \/ o.told = "deleted")
  BY DEF Forget
<1>2. ClientOK(client) /\ ~restore
  BY DEF IInv, NewClient
<1>3. Good(o)
  BY <1>2, OnWebhookClosedOK
<1>4. IsSaved(o.client, NoEntry)
  BY <1>3 DEF Good, ClientOK, HooksOK, IsSaved
<1>5. deleted' \in BOOLEAN /\ sets' \in 0..MaxSets /\ kills' \in 0..MaxKills
  BY <1>1 DEF Forget, IInv, TypeOK
<1>6. restore \in BOOLEAN
  BY DEF IInv, TypeOK
<1>7. client' = o.client
  BY <1>1, <1>3 DEF Become, Good
<1> QED
  BY <1>1, <1>2, <1>3, <1>4, <1>5, <1>6, <1>7, BecomeOK DEF Good

LEMMA WebhookClosedKeeps ==
  ASSUME IInv, NEW h \in client.hooks, WebhookClosed(h)
  PROVE  IInv'
BY HookMovesKeeps, ForgetKeeps DEF WebhookClosed

(***************************************************************************)
(* Any other step of an actor leaves the request as it is.                 *)
(***************************************************************************)
LEMMA BecomesTells ==
  ASSUME IInv, NEW h, NEW g, Becomes(h, g)
  PROVE  ToldStep
<1>1. client'.set = client.set
  BY DEF Becomes, IInv, TypeOK, Client
<1> QED BY <1>1 DEF ToldStep

(***************************************************************************)
(* A copy that ends when its request is gone fails a CHECK; any other      *)
(* finds the client as it was, or closing.                                 *)
(***************************************************************************)
LEMMA CertificateCopiedKeeps ==
  ASSUME IInv, CertificateCopied
  PROVE  IInv'
<1> DEFINE c == [client EXCEPT !.copying = FALSE, !.active = NoQuery]
           d == [c EXCEPT !.cert = TRUE]
           fails == Fails(c, "on_webhook_certificate_copied")
<1>1. PICK o \in IF client.active = NoQuery THEN {fails}
                 ELSE {Leaves(c, "refused"),
                       FinishSetWebhook(d, client.active)} :
        Become(o, webhook_db, restore)
  BY DEF CertificateCopied
<1>2. /\ client \in Client /\ RequestsOK(client) /\ HooksOK(client)
      /\ PhaseOK(client) /\ client.copying
  BY DEF IInv, ClientOK, CertificateCopied
<1>3. ~restore
  BY <1>2 DEF IInv, NewClient
<1>4. CASE client.active = NoQuery
  <2>1. o.check = "on_webhook_certificate_copied"
    BY <1>1, <1>4 DEF Fails
  <2> QED
    BY <1>1, <2>1, BecomeOK DEF CertificateCopied, IInv, TypeOK
<1>5. CASE client.active # NoQuery
  <2>1. /\ client.active \in Query /\ client.active.url # None
        /\ client.url = None /\ client.set = NoQuery /\ ~client.poll
        /\ client.hooks = {} /\ client.id = 0
        /\ client.phase \notin {"stopped", "closed"}
    BY <1>2, <1>5 DEF Client, RequestsOK, HooksOK, PhaseOK, NewClient
  <2>2. c \in Client /\ d \in Client
    BY <1>2 DEF Client
  <2>3. /\ c.url = None /\ c.cert = client.cert /\ c.id = 0
        /\ c.set = NoQuery /\ c.active = NoQuery /\ ~c.poll
        /\ c.hooks = {} /\ ~c.copying /\ c.phase = client.phase
    BY <1>2, <2>1 DEF Client
  <2>4. /\ d.url = None /\ d.id = 0 /\ d.set = NoQuery /\ d.active = NoQuery
        /\ ~d.poll /\ d.hooks = {} /\ ~d.copying /\ d.phase = client.phase
    BY <1>2, <2>1 DEF Client
  <2>5. RequestsOK(c) /\ HooksOK(c) /\ PhaseOK(c)
    BY <1>2, <2>1, <2>3 DEF RequestsOK, HooksOK, PhaseOK
  <2>6. Empty(d)
    BY <2>1, <2>2, <2>4 DEF Empty
  <2>7. ClientOK(c)
    BY <2>2, <2>5 DEF ClientOK
  <2> HIDE DEF c, d
  <2>8. Good(Leaves(c, "refused"))
    BY <2>3, <2>7, LeavesOK
  <2>9. Good(FinishSetWebhook(d, client.active))
    BY <2>1, <2>4, <2>6, FinishOK
  <2>10. Good(o)
    BY <1>1, <1>5, <2>8, <2>9
  <2>11. IsSaved(o.client, webhook_db)
    BY <2>10 DEF Good, ClientOK, HooksOK, IsSaved
  <2> QED
    BY <1>1, <1>3, <2>10, <2>11, BecomeOK
    DEF Good, CertificateCopied, IInv, TypeOK
<1> QED BY <1>4, <1>5

LEMMA ClosedKeeps ==
  ASSUME IInv, Closed
  PROVE  IInv'
<1>1. ClientOK(client) /\ (restore => client.phase = "open")
  BY DEF IInv, NewClient
<1>2. /\ ClientOK(client') /\ \A h \in client'.hooks : h.stage # "running"
      /\ webhook_db' \in Entry \cup {NoEntry} /\ ~restore
  <2>1. CASE client.phase = "closing"
    <3>1. client' = NewClient("stopped") /\ webhook_db' = webhook_db
      BY <2>1 DEF Closed
    <3>2. NewClient("stopped").hooks = {}
      BY DEF NewClient
    <3> QED
      BY <1>1, <2>1, <3>1, <3>2, NewClientOK DEF IInv, TypeOK
  <2>2. CASE client.phase = "logging_out"
    <3>1. client' = OnClosed(client) /\ webhook_db' = NoEntry
      BY <2>2 DEF Closed
    <3> QED
      BY <1>1, <2>2, <3>1, OnClosedOK
  <2> QED
    BY <2>1, <2>2 DEF Closed
<1>3. client' \in Client /\ IsSaved(client', webhook_db')
  BY <1>2 DEF ClientOK, IsSaved
<1>4. TypeOK' /\ ChecksHold'
  BY <1>2, <1>3 DEF Closed, IInv, TypeOK, ChecksHold
<1> QED
  BY <1>2, <1>3, <1>4 DEF IInv, Closed

LEMMA StopKeeps ==
  ASSUME IInv, Stop
  PROVE  IInv'
<1> DEFINE o == Leaves(NewClient("stopped"), "nothing")
<1>1. client.id = 0 /\ ~restore
  BY DEF Stop, IInv, ClientOK, PhaseOK, NewClient
<1>2. Become(o, webhook_db, restore)
  BY <1>1 DEF Stop
<1>3. /\ o.check = "none" /\ o.client = NewClient("stopped")
      /\ NewClient("stopped").hooks = {}
  BY DEF Leaves, NewClient
<1>4. ClientOK(o.client) /\ IsSaved(o.client, webhook_db)
  BY <1>3, NewClientOK DEF IsSaved
<1> HIDE DEF o
<1> QED
  BY <1>1, <1>2, <1>3, <1>4, BecomeOK DEF Stop, IInv, TypeOK

(***************************************************************************)
(* A getUpdates starts to wait only when nothing is there.                 *)
(***************************************************************************)
LEMMA PollKeeps ==
  ASSUME IInv, GetUpdates \/ LongPollEnds
  PROVE  IInv'
<1>1. /\ client \in Client /\ RequestsOK(client) /\ HooksOK(client)
      /\ PhaseOK(client) /\ ~restore
  BY DEF IInv, ClientOK, NewClient, GetUpdates, LongPollEnds
<1>2. PICK poll \in BOOLEAN :
        /\ client' = [client EXCEPT !.poll = poll]
        /\ client.phase # "stopped"
        /\ poll => client.url = None /\ client.set = NoQuery
                     /\ client.active = NoQuery
        /\ UNCHANGED <<restore, webhook_db, written, deleted, aborted, sets,
                       kills, closes>>
  <2>1. CASE GetUpdates
    <3>1. /\ client' = [client EXCEPT !.poll = TRUE]
          /\ client.phase # "stopped"
          /\ client.url = None /\ client.set = NoQuery
          /\ client.active = NoQuery
          /\ UNCHANGED <<restore, webhook_db, written, deleted, aborted, sets,
                         kills, closes>>
      BY <2>1 DEF GetUpdates
    <3> QED BY <3>1
  <2>2. CASE LongPollEnds
    <3>1. /\ client' = [client EXCEPT !.poll = FALSE]
          /\ client.poll
          /\ UNCHANGED <<restore, webhook_db, written, deleted, aborted, sets,
                         kills, closes>>
      BY <2>2 DEF LongPollEnds
    <3>2. ~NewClient("stopped").poll
      BY DEF NewClient
    <3>3. client.phase # "stopped"
      BY <1>1, <3>1, <3>2 DEF PhaseOK
    <3> QED BY <3>1, <3>3
  <2> QED BY <2>1, <2>2
<1>3. client' \in Client
  BY <1>1, <1>2 DEF Client
<1>4. /\ client'.url = client.url /\ client'.cert = client.cert
      /\ client'.gen = client.gen /\ client'.id = client.id
      /\ client'.set = client.set /\ client'.type = client.type
      /\ client'.active = client.active /\ client'.poll = poll
      /\ client'.hooks = client.hooks /\ client'.copying = client.copying
      /\ client'.phase = client.phase
  BY <1>1, <1>2 DEF Client
<1>5. RequestsOK(client')
  BY <1>1, <1>2, <1>4 DEF RequestsOK
<1>6. HooksOK(client') /\ PhaseOK(client')
  BY <1>1, <1>2, <1>4 DEF HooksOK, PhaseOK
<1>7. IsSaved(client', webhook_db')
  BY <1>2, <1>4 DEF IInv, IsSaved, Saved
<1>8. TypeOK' /\ ChecksHold'
  BY <1>2, <1>3 DEF IInv, TypeOK, ChecksHold
<1> QED
  BY <1>1, <1>2, <1>3, <1>5, <1>6, <1>7, <1>8 DEF IInv, ClientOK

LEMMA LeaveKeeps ==
  ASSUME IInv, NEW phase \in {"closing", "logging_out"}, Leave(phase)
  PROVE  IInv'
<1>1. /\ client \in Client /\ RequestsOK(client) /\ HooksOK(client)
      /\ PhaseOK(client) /\ client.phase = "open"
      /\ client' = [client EXCEPT !.phase = phase]
  BY DEF IInv, ClientOK, Leave
<1>2. client' \in Client
  BY <1>1 DEF Client
<1>3. /\ client'.url = client.url /\ client'.cert = client.cert
      /\ client'.gen = client.gen /\ client'.id = client.id
      /\ client'.set = client.set /\ client'.type = client.type
      /\ client'.active = client.active /\ client'.poll = client.poll
      /\ client'.hooks = client.hooks /\ client'.copying = client.copying
      /\ client'.phase = phase
  BY <1>1 DEF Client
<1>4. RequestsOK(client') /\ HooksOK(client') /\ PhaseOK(client')
  BY <1>1, <1>3 DEF RequestsOK, HooksOK, PhaseOK
<1>5. IsSaved(client', webhook_db')
  BY <1>3 DEF Leave, IInv, IsSaved, Saved
<1>6. closes' \in 0..MaxCloses
  BY DEF Leave, IInv, TypeOK
<1>7. TypeOK' /\ ChecksHold'
  BY <1>2, <1>6 DEF Leave, IInv, TypeOK, ChecksHold
<1> QED
  BY <1>2, <1>4, <1>5, <1>7 DEF IInv, ClientOK, Leave

LEMMA ReopenKeeps ==
  ASSUME IInv, Reopen
  PROVE  IInv'
<1>1. /\ ClientOK(NewClient("open")) /\ NewClient("open").hooks = {}
      /\ client' = NewClient("open")
  BY NewClientOK DEF Reopen, NewClient
<1>2. client' \in Client /\ IsSaved(client', webhook_db')
  BY <1>1 DEF ClientOK, IsSaved
<1>3. TypeOK' /\ ChecksHold'
  BY <1>2 DEF Reopen, IInv, TypeOK, ChecksHold
<1> QED
  BY <1>1, <1>2, <1>3 DEF IInv, Reopen

LEMMA FlushKeeps ==
  ASSUME IInv, Flush
  PROVE  IInv'
BY DEF Flush, IInv, TypeOK, ChecksHold, ClientOK, IsSaved, Saved

LEMMA KillKeeps ==
  ASSUME IInv, Kill
  PROVE  IInv'
<1>1. kills' \in 0..MaxKills /\ deleted' \in BOOLEAN /\ sets' \in 0..MaxSets
        /\ aborted' \in {"none", "on_webhook_certificate_copied"}
  BY DEF Kill, IInv, TypeOK, ChecksHold
<1> QED
  BY <1>1, RestartOK DEF Kill

LEMMA StutterKeeps ==
  ASSUME IInv, UNCHANGED vars
  PROVE  IInv'
BY DEF vars, IInv, TypeOK, ChecksHold, ClientOK, RequestsOK, HooksOK, PhaseOK,
       IsSaved, Saved

-----------------------------------------------------------------------------
(***************************************************************************)
(* The invariant holds at the start and is kept by every step.             *)
(***************************************************************************)
THEOREM Invariance == Spec => []IInv
<1>1. Init => IInv
  <2> SUFFICES ASSUME Init PROVE IInv
    OBVIOUS
  <2>1. /\ ClientOK(NewClient("open")) /\ NewClient("open").hooks = {}
        /\ client = NewClient("open")
    BY NewClientOK DEF Init, NewClient
  <2>2. client \in Client /\ IsSaved(client, webhook_db)
    BY <2>1 DEF ClientOK, IsSaved
  <2>3. sets \in 0..MaxSets /\ kills \in 0..MaxKills /\ closes \in 0..MaxCloses
    BY DEF Init
  <2>4. TypeOK /\ ChecksHold /\ ~restore
    BY <2>2, <2>3 DEF Init, TypeOK, ChecksHold
  <2> QED
    BY <2>1, <2>2, <2>4 DEF IInv
<1>2. IInv /\ [Next]_vars => IInv'
  <2> SUFFICES ASSUME IInv, [Next]_vars PROVE IInv'
    OBVIOUS
  <2>1. CASE SetWebhook BY <2>1, SetWebhookKeeps
  <2>2. CASE Reopen BY <2>2, ReopenKeeps
  <2>3. CASE Restore BY <2>3, RestoreKeeps
  <2>4. CASE GetUpdates \/ LongPollEnds BY <2>4, PollKeeps
  <2>5. ASSUME NEW h \in client.hooks,
               \/ HookVerifies(h) \/ HookCloses(h)
               \/ WebhookVerified(h) \/ WebhookClosed(h) \/ Unlinked(h)
        PROVE  IInv'
    <3>1. CASE HookVerifies(h) BY <3>1, HookVerifiesKeeps
    <3>2. CASE HookCloses(h) BY <3>2, HookMovesKeeps DEF HookCloses
    <3>3. CASE WebhookVerified(h) BY <3>3, WebhookVerifiedKeeps
    <3>4. CASE WebhookClosed(h) BY <3>4, WebhookClosedKeeps
    <3>5. CASE Unlinked(h) BY <3>5, ForgetKeeps DEF Unlinked
    <3> QED BY <2>5, <3>1, <3>2, <3>3, <3>4, <3>5
  <2>6. CASE CertificateCopied BY <2>6, CertificateCopiedKeeps
  <2>7. CASE Leave("closing") \/ Leave("logging_out") BY <2>7, LeaveKeeps
  <2>8. CASE Closed BY <2>8, ClosedKeeps
  <2>9. CASE Stop BY <2>9, StopKeeps
  <2>10. CASE Flush BY <2>10, FlushKeeps
  <2>11. CASE Kill BY <2>11, KillKeeps
  <2>12. CASE UNCHANGED vars BY <2>12, StutterKeeps
  <2> QED
    BY <2>1, <2>2, <2>3, <2>4, <2>5, <2>6, <2>7, <2>8, <2>9, <2>10, <2>11,
       <2>12 DEF Next
<1> QED
  BY <1>1, <1>2, PTL DEF Spec

(***************************************************************************)
(* Every variable holds what the code can put in it.                       *)
(***************************************************************************)
THEOREM TypeCorrect == Spec => []TypeOK
<1>1. IInv => TypeOK
  BY DEF IInv
<1> QED BY <1>1, Invariance, PTL

(***************************************************************************)
(* No CHECK of the calls that make and close a webhook can fail.           *)
(***************************************************************************)
THEOREM ChecksAlwaysHold == Spec => []ChecksHold
<1>1. IInv => ChecksHold
  BY DEF IInv
<1> QED BY <1>1, Invariance, PTL

(***************************************************************************)
(* No getUpdates waits beside a webhook, and there are never two actors.   *)
(***************************************************************************)
THEOREM AtMostOneReader == Spec => []OneReader
<1>1. IInv => OneReader
  BY DEF IInv, ClientOK, RequestsOK, HooksOK, OneReader
<1> QED BY <1>1, Invariance, PTL

(***************************************************************************)
(* A webhook in use is in the database as it is.                           *)
(***************************************************************************)
THEOREM RunningAlwaysSaved == Spec => []RunningIsSaved
<1>1. IInv => RunningIsSaved
  BY DEF IInv, ClientOK, HooksOK, IsSaved, RunningIsSaved
<1> QED BY <1>1, Invariance, PTL

(***************************************************************************)
(* A request is told that its webhook was set only by the actor made for   *)
(* it: no other step both ends a request and leaves a webhook.             *)
(***************************************************************************)
THEOREM ToldAlwaysIsSet == Spec => ToldIsSet
<1>1. IInv /\ [Next]_vars => [ToldStep]_vars
  <2> SUFFICES ASSUME IInv, [Next]_vars PROVE ToldStep \/ UNCHANGED vars
    OBVIOUS
  <2>1. client \in Client /\ RequestsOK(client) /\ PhaseOK(client)
    BY DEF IInv, ClientOK
  <2>2. \A phase : /\ NewClient(phase).url = None
                   /\ NewClient(phase).set = NoQuery
    BY DEF NewClient
  <2>3. CASE SetWebhook BY <2>3, SetWebhookKeeps DEF ToldStep
  <2>4. CASE Reopen BY <2>2, <2>4 DEF Reopen, ToldStep
  <2>5. CASE Restore BY <2>2, <2>5 DEF Restore, IInv, ToldStep
  <2>6. CASE GetUpdates \/ LongPollEnds \/ Leave("closing")
               \/ Leave("logging_out") \/ Flush
    <3>1. client'.set = client.set
      BY <2>1, <2>6 DEF GetUpdates, LongPollEnds, Leave, Flush, Client
    <3> QED BY <3>1 DEF ToldStep
  <2>7. ASSUME NEW h \in client.hooks,
               \/ HookVerifies(h) \/ HookCloses(h)
               \/ WebhookVerified(h) \/ WebhookClosed(h) \/ Unlinked(h)
        PROVE  ToldStep
    <3>1. CASE HookVerifies(h) BY <3>1, BecomesTells DEF HookVerifies
    <3>2. CASE HookCloses(h) BY <3>2, BecomesTells DEF HookCloses
    <3>3. CASE WebhookVerified(h) BY <2>7, <3>3, WebhookVerifiedKeeps
    <3>4. CASE Forget(h) BY <2>7, <3>4, ForgetKeeps DEF ToldStep
    <3>5. CASE WebhookClosed(h) BY <3>4, <3>5, BecomesTells DEF WebhookClosed
    <3>6. CASE Unlinked(h) BY <3>4, <3>6 DEF Unlinked
    <3> QED BY <2>7, <3>1, <3>2, <3>3, <3>5, <3>6
  <2>8. CASE CertificateCopied
    BY <2>1, <2>8 DEF CertificateCopied, RequestsOK, PhaseOK, ToldStep
  <2>9. CASE Closed
    <3>1. client'.phase # client.phase
      <4>1. NewClient("stopped").phase = "stopped"
        BY DEF NewClient
      <4>2. OnClosed(client).phase = "closed"
        BY <2>1 DEF OnClosed, Client
      <4> QED
        BY <2>9, <4>1, <4>2 DEF Closed
    <3> QED BY <3>1 DEF ToldStep
  <2>10. CASE Stop
    BY <2>1, <2>10 DEF Stop, PhaseOK, ToldStep
  <2>11. CASE Kill BY <2>2, <2>11 DEF Kill, Restart, ToldStep
  <2> QED
    BY <2>3, <2>4, <2>5, <2>6, <2>7, <2>8, <2>9, <2>10, <2>11 DEF Next
<1> QED
  BY <1>1, Invariance, PTL DEF Spec, ToldIsSet, ToldStep
=============================================================================

---------------------------- MODULE BotApiClient ----------------------------
(***************************************************************************)
(* How the Telegram API server gives the updates of one bot to one reader: *)
(* the methods setWebhook, deleteWebhook and getUpdates of the bot's       *)
(* Client, the webhook's actor it makes and closes, and the database from  *)
(* which a webhook is set again when the server or the client starts.      *)
(*                                                                         *)
(* A webhook's actor speaks to the client through a mailbox, and files are *)
(* copied and deleted by another thread: between a request and its outcome *)
(* other requests come.  A CHECK that fails kills the server.              *)
(***************************************************************************)
EXTENDS Naturals

CONSTANTS
  Url,        \* the addresses of webhooks
  None,       \* no address
  NoQuery,    \* no request
  NoEntry,    \* nothing in the database
  MaxSets,    \* bound: setWebhook and deleteWebhook requests
  MaxKills,   \* bound: kills of the server
  MaxCloses   \* bound: clients closed or logged out

(***************************************************************************)
(* A request to set a webhook, or to delete it (with no address).  cert: a *)
(* certificate comes with it, or the database mentions one; drop: it has   *)
(* drop_pending_updates; internal: it is made from the database.           *)
(***************************************************************************)
Query == [n : Nat, url : Url \cup {None}, cert : BOOLEAN, drop : BOOLEAN,
          internal : BOOLEAN]
Entry == [url : Url \cup {None}, cert : BOOLEAN]

ASSUME ClientAssumption ==
  /\ None \notin Url /\ NoQuery \notin Query /\ NoEntry \notin Entry
  /\ MaxSets \in Nat /\ MaxKills \in Nat /\ MaxCloses \in Nat

(***************************************************************************)
(* A webhook's actor: gen is the generation it was linked with, of the     *)
(* request that made it; checked says that its address was reached, and    *)
(* verified that webhook_verified is in the client's mailbox.  It runs, is *)
(* asked to close, has put webhook_closed in the mailbox, and last its     *)
(* certificate is being deleted.  One that is "gone" was hung up, and only *)
(* its messages are left.                                                  *)
(***************************************************************************)
Hook == [gen : Nat, of : Nat, checked : BOOLEAN, verified : BOOLEAN,
         stage : {"running", "asked", "closed", "unlinking", "gone"}]
NewHook(gen, q) == [gen |-> gen, of |-> q.n, checked |-> FALSE,
                    verified |-> FALSE, stage |-> "running"]

(***************************************************************************)
(* The client: webhook_url_, has_webhook_certificate_, webhook_generation_,*)
(* webhook_id_ (the generation of the actor it owns, 0 for none),          *)
(* webhook_set_query_ with webhook_query_type_, active_webhook_set_query_, *)
(* long_poll_query_; then what is on its way to it: the actors, and the    *)
(* copy of a certificate.  A client that is "closed" has lost its session  *)
(* and not stopped yet.                                                    *)
(***************************************************************************)
Client == [url : Url \cup {None}, cert : BOOLEAN, gen : Nat, id : Nat,
           set : Query \cup {NoQuery}, type : {"Verify", "Cancel"},
           active : Query \cup {NoQuery}, poll : BOOLEAN,
           hooks : SUBSET Hook, copying : BOOLEAN,
           phase : {"open", "closing", "logging_out", "closed", "stopped"}]
NewClient(phase) ==
  [url |-> None, cert |-> FALSE, gen |-> 1, id |-> 0, set |-> NoQuery,
   type |-> "Cancel", active |-> NoQuery, poll |-> FALSE, hooks |-> {},
   copying |-> FALSE, phase |-> phase]

VARIABLES
  client,
  restore,     \* whether the request from the database comes first
  webhook_db,  \* the database in memory
  written,     \* the database on disk
  deleted,     \* history: the bot was told that it has no webhook
  aborted,     \* history: the first CHECK that failed
  sets, kills, closes  \* how many requests, kills and closed clients
vars == <<client, restore, webhook_db, written, deleted, aborted,
          sets, kills, closes>>

-----------------------------------------------------------------------------
(***************************************************************************)
(* What a call leaves: the client, or the CHECK that failed; told is what  *)
(* the bot is told at once.                                                *)
(***************************************************************************)
Leaves(c, told) == [client |-> c, told |-> told, check |-> "none"]
Fails(c, check) == [client |-> c, told |-> "nothing", check |-> check]

(***************************************************************************)
(* finish_set_webhook: the actor is made, and the request waits for it.    *)
(***************************************************************************)
FinishSetWebhook(c, q) ==
  IF c.active # NoQuery \/ c.set # NoQuery \/ c.url # None
  THEN Fails(c, "finish_set_webhook")
  ELSE IF c.phase # "open" THEN Leaves(c, "closing")
  ELSE Leaves([c EXCEPT !.url = q.url, !.id = c.gen, !.type = "Verify",
                        !.set = q, !.hooks = @ \cup {NewHook(c.gen, q)}],
              "nothing")

(***************************************************************************)
(* do_set_webhook: a bad address, secret or certificate is refused, unless *)
(* it comes from the database; a good certificate is copied first.         *)
(***************************************************************************)
WithoutCertificate(c, q) ==
  FinishSetWebhook([c EXCEPT !.cert = q.internal /\ q.cert], q)
CopyCertificate(c, q) ==
  IF c.set # NoQuery THEN Fails(c, "do_set_webhook")
  ELSE Leaves([c EXCEPT !.active = q, !.copying = TRUE], "nothing")

DoSetWebhook(c, q) ==
  IF c.url # None THEN {Fails(c, "do_set_webhook")}
  ELSE IF c.phase # "open" THEN {Leaves(c, "closing")}
  ELSE IF q.drop /\ c.id # 0 THEN {Fails(c, "clear_tqueue")}
  ELSE IF q.url = None THEN {Leaves(c, "deleted")}
  ELSE IF c.active # NoQuery THEN {Leaves(c, "refused")}
  ELSE {Leaves(c, "refused") : bad \in {~q.internal} \ {FALSE}}
       \cup {IF c.cert THEN Fails(c, "do_set_webhook")
             ELSE IF q.cert /\ ~q.internal THEN CopyCertificate(c, q)
             ELSE WithoutCertificate(c, q)}

(***************************************************************************)
(* process_set_webhook_query: a request that waits for an actor gives way  *)
(* to the new one, one that waits for its certificate does not; nothing is *)
(* done when nothing would change (the number of connections and the like  *)
(* may differ as well); an old webhook is closed first, and its actor will *)
(* tell when.                                                              *)
(***************************************************************************)
Owned(hooks, id, stage) ==
  {IF h.gen = id /\ h.stage = "running" THEN [h EXCEPT !.stage = stage]
   ELSE h : h \in hooks}

CloseFirst(c, q) ==
  IF c.active # NoQuery THEN {Fails(c, "process_set_webhook_query")}
  ELSE {Leaves([c EXCEPT !.hooks = Owned(@, c.id, "asked"), !.id = 0,
                         !.type = "Cancel", !.set = q], "nothing")}

\* Mistake: the old webhook is looked for in webhook_id_, which is given away
\* while the actor closes.
Change_ById(c, q) ==
  LET d == [c EXCEPT !.gen = @ + 1, !.set = NoQuery,
                     !.poll = @ /\ q.url = None]
  IN IF c.id # 0 THEN CloseFirst(d, q) ELSE DoSetWebhook(d, q)

Change(c, q) ==
  LET d == [c EXCEPT !.gen = @ + 1, !.set = NoQuery,
                     !.poll = @ /\ q.url = None]
  IN IF c.url # None THEN CloseFirst(d, q) ELSE DoSetWebhook(d, q)

Unchanged(c, q) == c.url = q.url /\ ~c.cert /\ ~q.cert /\ ~q.drop

ProcessSetWebhookQuery(c, q) ==
  IF c.set # NoQuery THEN Change(c, q)
  ELSE IF c.active # NoQuery THEN {Leaves(c, "refused")}
  ELSE IF ~Unchanged(c, q) THEN Change(c, q)
  ELSE {Leaves(c, IF q.url = None THEN "deleted" ELSE "set")}
       \cup (IF q.url = None THEN {} ELSE Change(c, q))

(***************************************************************************)
(* on_webhook_closed: everything is forgotten, and the request that waits  *)
(* fails if it waited for this webhook, or else is set now.                *)
(***************************************************************************)
OnWebhookClosed(c, h) ==
  LET d == [c EXCEPT !.id = 0, !.url = None, !.cert = FALSE,
                     !.hooks = @ \ {h}, !.set = NoQuery]
  IN IF c.set # NoQuery /\ c.type = "Cancel" THEN DoSetWebhook(d, c.set)
     ELSE {Leaves(d, "nothing")}

(***************************************************************************)
(* on_closed: requests fail, the actor owned is left to die, and a client  *)
(* that logged out stays for a while.                                      *)
(***************************************************************************)
OnClosed(c) ==
  [c EXCEPT !.set = NoQuery, !.active = NoQuery, !.poll = FALSE,
            !.id = IF c.url # None THEN 0 ELSE @,
            !.hooks = IF c.url # None THEN Owned(@, c.id, "gone") ELSE @,
            !.phase = "closed"]

\* Mistake: the mark of a certificate is left out.
Saved_AddressOnly(c) == [url |-> c.url]

Saved(c) == [url |-> c.url, cert |-> c.cert]

-----------------------------------------------------------------------------
Init ==
  /\ client = NewClient("open")
  /\ restore = FALSE
  /\ webhook_db = NoEntry /\ written = NoEntry
  /\ deleted = FALSE /\ aborted = "none"
  /\ sets = 0 /\ kills = 0 /\ closes = 0

(***************************************************************************)
(* The server starts again with what is on disk: a webhook of the database *)
(* is set again before any request is served.                              *)
(***************************************************************************)
Restart ==
  /\ client' = NewClient("open")
  /\ webhook_db' = written
  /\ restore' = (written # NoEntry)
  /\ UNCHANGED <<written, closes>>

(***************************************************************************)
(* The call leaves o, with db as the database; resumes is whether a        *)
(* request from the database is still to come.                             *)
(***************************************************************************)
Become(o, db, resumes) ==
  \/ /\ o.check = "none"
     /\ client' = o.client
     /\ webhook_db' = db
     /\ restore' = resumes
     /\ UNCHANGED <<written, aborted, closes>>
  \/ /\ o.check # "none"
     /\ aborted' = IF aborted = "none" THEN o.check ELSE aborted
     /\ Restart

(***************************************************************************)
(* A request is served by a client that is not closing, or by a new one:   *)
(* one made for it does not set the webhook of the database again.  If it  *)
(* changes nothing the allowed updates may be saved.  (A setWebhook within *)
(* a second of another is refused, and changes nothing.)                   *)
(***************************************************************************)
SetWebhook ==
  /\ sets < MaxSets
  /\ client.phase \in {"open", "stopped"} /\ ~restore
  /\ LET c == IF client.phase = "open" THEN client ELSE NewClient("open")
     IN \E url \in Url \cup {None}, cert \in BOOLEAN, drop \in BOOLEAN :
        \E q \in {[n |-> sets + 1, url |-> url, cert |-> cert /\ url # None,
                   drop |-> drop, internal |-> FALSE]} :
        \E o \in ProcessSetWebhookQuery(c, q) :
          /\ \E db \in {webhook_db}
               \cup (IF o.told \in {"set", "deleted"} /\ Unchanged(c, q)
                     THEN {Saved(c)} ELSE {}) :
               Become(o, db, FALSE)
          /\ deleted' = (o.told = "deleted" \/ (deleted /\ url = None))
  /\ sets' = sets + 1
  /\ UNCHANGED kills

(***************************************************************************)
(* Another method makes a new client, or the server has started: the       *)
(* webhook of the database is set again.                                   *)
(***************************************************************************)
Reopen ==
  /\ client.phase = "stopped"
  /\ client' = NewClient("open")
  /\ restore' = (webhook_db # NoEntry)
  /\ UNCHANGED <<webhook_db, written, deleted, aborted, sets, kills, closes>>

Restore ==
  /\ restore /\ client.phase = "open"
  /\ \E o \in ProcessSetWebhookQuery(client,
                [n |-> 0, url |-> webhook_db.url, cert |-> webhook_db.cert,
                 drop |-> FALSE, internal |-> TRUE]) :
       Become(o, webhook_db, FALSE)
  /\ UNCHANGED <<deleted, sets, kills>>

\* Mistake: a request that waits for its certificate is not looked at.
GetUpdates_DuringCopy ==
  /\ client.phase = "open" /\ ~restore
  /\ client.url = None /\ client.set = NoQuery
  /\ client' = [client EXCEPT !.poll = TRUE]
  /\ UNCHANGED <<restore, webhook_db, written, deleted, aborted, sets, kills,
                 closes>>

(***************************************************************************)
(* getUpdates waits for updates; the one that waited before is refused.  A *)
(* webhook or a request for one refuse it.                                 *)
(***************************************************************************)
GetUpdates ==
  /\ client.phase = "open" /\ ~restore
  /\ client.url = None /\ client.set = NoQuery /\ client.active = NoQuery
  /\ client' = [client EXCEPT !.poll = TRUE]
  /\ UNCHANGED <<restore, webhook_db, written, deleted, aborted, sets, kills,
                 closes>>

LongPollEnds ==
  /\ client.poll
  /\ client' = [client EXCEPT !.poll = FALSE]
  /\ UNCHANGED <<restore, webhook_db, written, deleted, aborted, sets, kills,
                 closes>>

(***************************************************************************)
(* The actor reaches the address, or later a new address of the same name. *)
(***************************************************************************)
Becomes(h, g) ==
  /\ client' = [client EXCEPT !.hooks = (@ \ {h}) \cup {g}]
  /\ UNCHANGED <<restore, webhook_db, written, deleted, aborted, sets, kills,
                 closes>>

HookVerifies(h) ==
  /\ h.stage \in {"running", "asked"}
  /\ Becomes(h, [h EXCEPT !.checked = TRUE, !.verified = TRUE])

(***************************************************************************)
(* It closes: its address is bad, it is asked to, or was told 410 for long.*)
(***************************************************************************)
HookCloses(h) ==
  /\ h.stage \in {"running", "asked"}
  /\ Becomes(h, [h EXCEPT !.stage = "closed"])

\* Mistake: the generation is not compared.
WebhookVerified_AnyGeneration(h) ==
  /\ h.verified
  /\ client' = [client EXCEPT
                  !.hooks = (@ \ {h}) \cup {[h EXCEPT !.verified = FALSE]},
                  !.set = NoQuery]
  /\ \/ webhook_db' = Saved(client)
     \/ client.set = NoQuery /\ UNCHANGED webhook_db
  /\ UNCHANGED <<restore, written, deleted, aborted, sets, kills, closes>>

\* Mistake: only a new address is saved.
WebhookVerified_NewAddress(h) ==
  /\ h.verified
  /\ client' = [client EXCEPT
                  !.hooks = (@ \ {h}) \cup {[h EXCEPT !.verified = FALSE]},
                  !.set = IF h.gen = client.gen THEN NoQuery ELSE @]
  /\ webhook_db' \in {webhook_db}
       \cup (IF h.gen = client.gen THEN {Saved(client)} ELSE {})
  /\ UNCHANGED <<restore, written, deleted, aborted, sets, kills, closes>>

(***************************************************************************)
(* webhook_verified: only the last generation is heard; the webhook is     *)
(* saved if a request waited for this, or the address is a new one.        *)
(***************************************************************************)
WebhookVerified(h) ==
  /\ h.verified
  /\ LET heard == [client EXCEPT
                     !.hooks = (@ \ {h}) \cup {[h EXCEPT !.verified = FALSE]}]
     IN IF h.gen # client.gen
        THEN client' = heard /\ UNCHANGED webhook_db
        ELSE /\ client' = [heard EXCEPT !.set = NoQuery]
             /\ \/ webhook_db' = Saved(client)
                \/ client.set = NoQuery /\ UNCHANGED webhook_db
  /\ UNCHANGED <<restore, written, deleted, aborted, sets, kills, closes>>

(***************************************************************************)
(* webhook_closed comes after all the actor said before; the certificate   *)
(* is deleted first.                                                       *)
(***************************************************************************)
Forget(h) ==
  /\ \E o \in OnWebhookClosed(client, h) :
       /\ Become(o, NoEntry, restore)
       /\ deleted' = (deleted \/ o.told = "deleted")
  /\ UNCHANGED <<sets, kills>>

\* Mistake: as with webhook_verified, only the last generation is heard.
WebhookClosed_LastGeneration(h) ==
  /\ h.stage = "closed" /\ ~h.verified /\ h.gen = client.gen
  /\ IF client.cert THEN Becomes(h, [h EXCEPT !.stage = "unlinking"])
     ELSE Forget(h)

WebhookClosed(h) ==
  /\ h.stage = "closed" /\ ~h.verified
  /\ IF client.cert THEN Becomes(h, [h EXCEPT !.stage = "unlinking"])
     ELSE Forget(h)

Unlinked(h) == h.stage = "unlinking" /\ Forget(h)

(***************************************************************************)
(* on_webhook_certificate_copied, or not.                                  *)
(***************************************************************************)
CertificateCopied ==
  /\ client.copying
  /\ LET c == [client EXCEPT !.copying = FALSE, !.active = NoQuery]
     IN \E o \in IF client.active = NoQuery
                 THEN {Fails(c, "on_webhook_certificate_copied")}
                 ELSE {Leaves(c, "refused"),
                       FinishSetWebhook([c EXCEPT !.cert = TRUE],
                                        client.active)} :
          Become(o, webhook_db, restore)
  /\ UNCHANGED <<deleted, sets, kills>>

(***************************************************************************)
(* The bot closes its client or logs out, or its token is revoked.  The    *)
(* requests not yet served fail.                                           *)
(***************************************************************************)
Leave(phase) ==
  /\ closes < MaxCloses
  /\ client.phase = "open"
  /\ client' = [client EXCEPT !.phase = phase]
  /\ restore' = FALSE
  /\ closes' = closes + 1
  /\ UNCHANGED <<webhook_db, written, deleted, aborted, sets, kills>>

Closed ==
  /\ \/ /\ client.phase = "closing"
        /\ client' = NewClient("stopped")
        /\ UNCHANGED webhook_db
     \/ /\ client.phase = "logging_out"
        /\ client' = OnClosed(client)
        /\ webhook_db' = NoEntry
  /\ UNCHANGED <<restore, written, deleted, aborted, sets, kills, closes>>

(***************************************************************************)
(* finish_closing: the updates are dropped, and then or later it stops.    *)
(***************************************************************************)
Stop ==
  /\ client.phase = "closed"
  /\ Become(IF client.id # 0 THEN Fails(client, "clear_tqueue")
            ELSE Leaves(NewClient("stopped"), "nothing"), webhook_db, restore)
  /\ UNCHANGED <<deleted, sets, kills>>

(***************************************************************************)
(* The database is written by another thread, a moment later.              *)
(***************************************************************************)
Flush ==
  /\ written # webhook_db
  /\ written' = webhook_db
  /\ UNCHANGED <<client, restore, webhook_db, deleted, aborted, sets, kills,
                 closes>>

Kill ==
  /\ kills < MaxKills
  /\ kills' = kills + 1
  /\ Restart
  /\ UNCHANGED <<deleted, aborted, sets>>

Next ==
  \/ SetWebhook \/ Reopen \/ Restore \/ GetUpdates \/ LongPollEnds
  \/ \E h \in client.hooks :
       \/ HookVerifies(h) \/ HookCloses(h)
       \/ WebhookVerified(h) \/ WebhookClosed(h) \/ Unlinked(h)
  \/ CertificateCopied
  \/ Leave("closing") \/ Leave("logging_out") \/ Closed \/ Stop
  \/ Flush \/ Kill

(***************************************************************************)
(* Messages and the other thread's files are served; an actor not checked  *)
(* yet resolves its address and opens a socket, or fails to, and one asked *)
(* to close does.                                                          *)
(***************************************************************************)
Fairness ==
  /\ WF_vars(\E h \in client.hooks : ~h.checked /\ HookVerifies(h))
  /\ WF_vars(\E h \in client.hooks : h.stage = "asked" /\ HookCloses(h))
  /\ WF_vars(\E h \in client.hooks :
               WebhookVerified(h) \/ WebhookClosed(h) \/ Unlinked(h))
  /\ WF_vars(CertificateCopied)
  /\ WF_vars(Closed)

Spec == Init /\ [][Next]_vars /\ Fairness

-----------------------------------------------------------------------------
(***************************************************************************)
(* Every variable holds what the code can put in it.                       *)
(***************************************************************************)
TypeOK ==
  /\ client \in Client
  /\ restore \in BOOLEAN
  /\ webhook_db \in Entry \cup {NoEntry} /\ written \in Entry \cup {NoEntry}
  /\ deleted \in BOOLEAN
  /\ aborted \in {"none", "do_set_webhook", "finish_set_webhook",
                  "clear_tqueue", "process_set_webhook_query",
                  "on_webhook_certificate_copied"}
  /\ sets \in 0..MaxSets /\ kills \in 0..MaxKills /\ closes \in 0..MaxCloses

(***************************************************************************)
(* The CHECKs of do_set_webhook, finish_set_webhook, clear_tqueue and      *)
(* process_set_webhook_query hold whatever comes between a request and its *)
(* outcome: no webhook is made while another is there or is being made.    *)
(***************************************************************************)
ChecksHold == aborted \in {"none", "on_webhook_certificate_copied"}

(***************************************************************************)
(* Client.cpp:13067 says CHECK(active_webhook_set_query_): when the copy   *)
(* of a certificate ends, the request is still there.                      *)
(***************************************************************************)
CopyIsAwaited == aborted # "on_webhook_certificate_copied"

(***************************************************************************)
(* Only one reads the updates: no getUpdates waits while there is an actor *)
(* or a request that may make one, and there is never more than one actor. *)
(***************************************************************************)
OneReader ==
  /\ client.poll => /\ client.hooks = {} /\ client.set = NoQuery
                    /\ client.active = NoQuery
  /\ \A g, h \in client.hooks : g = h

(***************************************************************************)
(* A webhook in use, whose address was reached and whose bot was told so,  *)
(* is in the database as it is: a server that starts again sets it again.  *)
(***************************************************************************)
RunningIsSaved ==
  \A h \in client.hooks :
    h.stage = "running" /\ h.checked /\ ~h.verified =>
      webhook_db = Saved(client)

(***************************************************************************)
(* A request is told that its webhook was set only when the actor made for *)
(* it, and no other, has reached its address, and it is saved then.        *)
(***************************************************************************)
ToldIsSet ==
  [][client.set # NoQuery /\ client'.set = NoQuery /\ client'.url # None
       /\ client'.phase = client.phase =>
     /\ client'.url = client.set.url
     /\ webhook_db' = Saved(client')
     /\ \E h \in client'.hooks : h.of = client.set.n /\ h.checked]_vars

(***************************************************************************)
(* Every request to set or delete a webhook is answered, or the server is  *)
(* killed first.                                                           *)
(***************************************************************************)
SetsAreAnswered ==
  <>[](client.set = NoQuery /\ client.active = NoQuery)

(***************************************************************************)
(* Client.cpp:12790 says "Webhook is already deleted": a bot that was told *)
(* so has no webhook until it asks for one.                                *)
(***************************************************************************)
DeletedStaysDeleted == deleted => client.hooks = {}
=============================================================================

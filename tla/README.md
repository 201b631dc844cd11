# Formal models of forschools

forschools is the administration of a language school.  Two programs carry its
logic.  A Django site and a Telegram bot (`src/src/`), with Celery tasks for
reminders and one relational database, hold homework, lessons and plans.  A
Telegram API server (`src/telegram_local_server/telegram-bot-api/`, C++) that
forschools runs beside them receives the updates of its bots, keeps them in a
queue, and hands them to the bot, by `getUpdates` or by a webhook.

Site and bot change the same tables and share no service layer: the same
operation is written twice, once per front end.  The models follow both.

## 1. Inventory

| component | state it keeps | operations | what makes it correct |
|---|---|---|---|
| Homework journal (`homework/`, `tgbot/funcs/homeworks/`) | `Homework`, `HomeworkLog`, `HomeworkGroups` | create, assign, open, send, check, cancel, delete a log | the status of a homework is its newest log: there always is one, and what people were told of agrees with it |
| Approval by the methodist (`HomeworkItemAgreementAPIView`, `HomeworkLogAPIView.post`, `f_homework_agr_send`) | `HomeworkLog.agreement` | submit, agree, decline | with a methodist, a decision of a teacher or curator takes effect for the listener (status, colour and actions on the site, all of it in the bot) only after an agreement; agreements follow the order of the decisions |
| Lessons (`lesson/`, `tgbot/funcs/lesson/review.py`) | `Lesson.status`, `Lesson.homeworks`, additional listeners | create, hold, take back, copy, restore, delete | homework is set when its lesson is held, and only then; homework that was given out is not lost |
| Learning plans (`learning_plan/`) | methodist, listeners, curators, phases | create, edit, close | closing removes what was not held and nothing else |
| Update queue (`TQueue.cpp`, its use in `Client.cpp`, `ClientManager.cpp`) | the events of each queue, the next id, the log of the queue | push, get, forget, clear, collect, start from the log | an update stays until the bot has had it, unless it expired or was dropped; ids are fresh; nothing stays for ever |
| Log on disk and the map kept in it (`Binlog.cpp`, `ConcurrentBinlog.cpp`, `BinlogKeyValue.h`) | the file, a buffer, entries out of order, promises | set, erase, sync, rewrite the file, close, destroy, start after a crash | a restart finds the map of one moment, none before a promise that was kept |
| Webhook delivery (`WebhookActor.cpp`) | loaded updates by chat, connections, a retry of each chat | load, send, answer, retry, close | updates of a chat in their order, one at a time; none is slept over |
| Webhook or `getUpdates`: the client of a bot (`Client.cpp`, `ClientManager.cpp`) | the webhook in use, the request in hand, its certificate, the database of webhooks | setWebhook, deleteWebhook, getUpdates, close, log out | one reader of the updates; a request is told of its own webhook; what runs is saved |
| Schedules (`learning_plan/utils.py`) | dates of lessons | set a program, add lessons, reschedule | dates follow the timetable, in order, as many as asked for |
| Reminders (`homework/tasks.py`, `lesson/tasks.py`) | nothing of their own | Celery tasks by the clock | everyone concerned is reminded once |
| Dialogues of the bot (`tgbot/handlers`, `tgbot/finite_states`) | a finite state and data per chat | collect text and files, then act | the action belongs to the homework the dialogue was opened for |
| Chat (`chat/`) | messages, read marks | send, read, count unread | counts agree with the marks |
| Mailing, support, users and login, programs and materials, user logs | their tables | forms and lists | see `PROJECT.json` |
| Methods of the Bot API, TDLib | sessions, TDLib's databases | translate requests, the protocol of Telegram | not modelled, section 7 |

**How they interact.**

* In the school, a handler runs in a process of the site or in the bot, and
  handlers communicate through database rows only.  Holding, copying, restoring,
  deleting a lesson and closing a plan change homework; the plan's methodist
  decides whether a decision has to be agreed; every change of homework may send
  messages over Telegram, at once and in the same handler.  A failure in the
  middle of a handler keeps what was saved before: there are no transactions.
* In the server, `Client` pushes an update into the queue (`TQueue`) and calls
  the `WebhookActor` of the bot, if it has one, or wakes a `getUpdates` that
  waits.  Both take from the same queue, so there may be only one of them.  The
  queue writes its changes through a `ConcurrentBinlog`, an actor that gathers
  entries and writes them a little later; the database of webhooks
  (`webhook_db`) is a `BinlogKeyValue` over another such log.  A server that
  was killed reads both logs and sets the webhooks again.
* The bot's handlers of the school are what the server's updates end in.  The
  journal lets them arrive at any later time and in any order, and says nothing
  of how often: an update may come twice (section 4, `updates`).

**What is hard.**

* One status, many writers.  Nine kinds of handler append, decide or delete
  logs, and nothing but the order of the logs says what state a homework is in.
* Two statuses.  That of the staff is the newest log, that of the listener the
  newest agreed one.
* Four ways to agree, and homework shared by a group or by a copied lesson.
* Loops that send messages and can fail half way; actions that arrive late.
* The server writes later than it answers: a kill undoes operations that the bot
  has seen, and the ids of updates, which the bot confirms with, must not be
  given again.
* Four actors, two threads for files and the network stand between a setWebhook
  and its answer; anything may come in between.
* A flag that stops the loading of updates, or a timer that is not set, is an
  update that sleeps for ever.

`PROJECT.json`, "hazards", lists them line by line.  Smaller ones that no
property covers are not listed there: the copy of a lesson without its
additional listeners (`lesson/views_api.py:655`), the comparison of
`lesson.status` with 3 in the bot (`homeworks.py:174`), the homework id a
dialogue keeps (`homeworks.py:918`), the empty newest event that `clear()`
counts (`TQueue.cpp:235`), and a header that cannot be written
(`WebhookActor.cpp:566`).

## 2. The modules

```
 the school                                  the Telegram API server

 ApprovalGate     abstract                   UpdateDelivery      abstract
      ^ implements (TLC and TLAPS)             ^ implements    ^ implements
      |                                        | (TLC, TLAPS)  | (TLC, TLAPS)
 HomeworkJournal                             UpdateStore     WebhookDelivery
      ^ implements (TLC and TLAPS)                 \           /
 LessonLifecycle                                     TQueue (the queue as data)

                                             DurableMap          abstract
                                                   ^ implements (TLC and TLAPS)
                                             Binlog

                                             BotApiClient
```

`MCHomeworkJournal`, `MCLessonLifecycle`, `MCWebhookDelivery` and `MCBinlog` give
TLC its instances; `UpdateStore` and `BotApiClient` need none.
`HomeworkJournalProofs`, `LessonLifecycleProofs`, `TQueueProofs` (lemmas only),
`UpdateStoreProofs`, `WebhookDeliveryProofs`, `WebhookOrderProofs` (which
extends it), `BotApiClientProofs` and `BinlogProofs` hold the theorems.

How the server's modules fit together.  `UpdateStore` supposes that a kill loses
the last entries of the log and no others.  That is what `Binlog` shows of the
log.  `BotApiClient` supposes the same of `webhook_db`, one entry at a time.
`WebhookDelivery` supposes one actor at a time, which is `BotApiClient`'s
`OneReader`; and it and `UpdateStore` promise the same, `UpdateDelivery`, so a
bot may change from one way to the other.  An operator named `X_Something` next to `X`,
under a comment that says *Mistake*, is a wrong variant of `X`; nothing uses it.

### HomeworkJournal

| variable | code |
|---|---|
| `rows` | rows of `Homework` |
| `attached` | those with `get_lesson()` not None |
| `logs` | rows of `HomeworkLog`: homework, `dt`, status, user, agreement |
| `groups` | rows of `HomeworkGroups` |
| `metodist` | `plan.metodist` is set |
| `clock` | the time of the newest log so far |
| `outbox` | what the last handler told listeners |

There is one plan, so one methodist.  Users are what the handlers tell apart:
`listener`, `teacher` (with curators), `reviewer` (methodists and
administrators).  `agreement` has its four meanings: `{}`, waiting, declined
(`accepted` false, with a date), agreed.  The query `agreement__accepted=False`
does not tell waiting from declined; `Undecided` keeps that.

| action | code |
|---|---|
| `AddHomework` | `HomeworkListSerializer.create`, the signal `homework_new_log`, `set_assigned`, the group |
| `AddHomeworkTelegram` | `add_homework_set_homework_ready`, `new_hw_result` by role, `aset_assigned` |
| `SetAssigned` | the loop over the homework of a lesson that is held |
| `Open`, `SendAnswer`, `CheckAnswer`, `SetCancelled` | page of a homework, `HomeworkLogListSerializer.create` and `hw_send`, `HomeworkSetCancelledAPIView` |
| `DeleteLog`, `DeleteFeedback` | `HomeworkLogAPIView.destroy` with `get_delete_log_permission`, the button of the bot |
| `AgreeHomework`, `AgreeLog`, `AgreeTelegram`, `EditFeedback` | the four ways to agree |
| `ReplaceHomework`, `Detach`, `SetMetodist` | what closing a plan, restoring or deleting a lesson and editing the plan do to homework |

Each handler is one step.  That a log is created at a later time than every
earlier one is an assumption: `dt` is `auto_now_add` with microseconds, set by
one clock.  So nothing is claimed of it, though the other properties rest on it.
`SendAnswer` and `CheckAnswer` have no guard on the status, because neither
front end looks at it again when the answer arrives.  `CheckAnswer` may lose its
notice for homework without a lesson (the message names the lesson), and so may
the agreements; `AgreeHomework` then stops after the first log it saved.
`Create` with a curator for a lesson that is not held creates and deletes rows
in one handler: no step.

`AgreeLog` is `POST homeworks/logs/<pk>/`, which no page calls; the constant
`LogEndpoint` says whether it is in use.  `CopyEndpoint` does the same for
`PATCH lessons/<pk>/rescheduling/`, whose call the site's scripts define and do
not make.  Both are served: `group` has
the one in use, `lessons` the other.

### ApprovalGate

`effective`, `waiting` and `supervised`: a decision of a teacher never takes
effect by `Work` while its homework is supervised, and `Approve` puts only what
waited into effect.  `HomeworkJournal!Gate` is the refinement mapping:
`effective` are the logs with no agreement needed or agreed, from which
`get_status(accepted_only=True)` takes the newest; `waiting` the undecided ones.

What this is about: for the listener the site asks `get_status(accepted_only=True)`
for the status, the colour and the actions of a homework
(`homework/serializers.py:146, 201, 227, 262, 294`) and for the status by which
lists are filtered (`homework/views_api.py:133`), and the bot shows the listener
no other log (`tgbot/funcs/homeworks/homework_show.py:63-65, 132-141`).

What it is *not* about: what the listener can read on the site.  The list of logs
of the page has every log (`serializers.py:192-195`, `views_api.py:366-382`), so a
verdict that waits for the methodist is there, with its comment, and
`get_assigned` (`serializers.py:282-288`) gives the date of an assignment that
waits.  Neither is modelled; see section 6.

### LessonLifecycle

`status`, `homeworks` and `absent` of each lesson.  `absent` is the homework
whose listener is not in `lesson.get_listeners()`: the site sets only the
homework of present listeners, the bot all of it.  An action is what the
handler does to the lessons joined with an action of the journal; `attached` is
the union of the homework of the lessons.

| action | code |
|---|---|
| `SetPassed`, `SetPassedTelegram` | `LessonSetPassedAPIView`, `f_lesson_review_set_passed` |
| `SetNotHeld` | `LessonSetNotHeldAPIView` |
| `Reschedule` | `PlansItemRescheduling.patch`, the branch that copies |
| `Restore` | `LessonRestoreAPIView` |
| `ClosePlan` | `PlansItemStatusAPIView.post` |
| `CreateLesson`, `DeleteLesson`, `SetListeners`, `SetMetodist` | their views and serializers |
| `AddHomework`, `AddHomeworkTelegram`, `WorkOnHomework` | the journal, with the status of the lesson |

`Hold` saves the status first.  `Fails` is the exception: for a cancelled
homework `set_assigned()` returns None and the handler means to tell the
methodist, who may not exist.  The homework done before is any set of homework
that is not cancelled, as the order of the rows is not determined.

### TQueue and UpdateStore

`TQueue` is the queue as data: a record of `tail` (the next id), `events` (by id)
and `gc_at` (when a collection is due).  Its operators return the queue after a
call *and* what the call writes to the log, in the order of the code.  The newest
event is not erased but emptied (`Nothing`), so that the log remembers which id is
next; `Push` erases such a placeholder just before it adds an event.  What a log
amounts to (`Written`, `Replay`) is stated in closed form, of the entries of an
id the last one counts, so that it can be reasoned about.

| variable of `UpdateStore` | code |
|---|---|
| `queue` | `TQueueImpl::Queue` in memory |
| `disk`, `unwritten` | the entries of `TQueueBinlog`: written, and on their way |
| `now` | the server's clock |
| `offset` | where the bot asks from next |
| `handed`, `expires`, `dropped`, `given`, `confirmed`, `breaks`, `kills` | history: what the bot had, when updates expire, what was dropped, the ids in use, what the bot confirmed unseen, what broke the order of ids |

| action | code |
|---|---|
| `PushUpdate`, `PushRefused` | `Client::add_update_impl`, `TQueueImpl::push` |
| `GetUpdates`, `GetLast` | `Client::do_get_updates` with an offset, or a negative one (`clear`), and `get` with its `forget_previous` |
| `DropPending` | `drop_pending_updates`: `clear(queue, 0)` |
| `Collect` | `run_gc`, called by `ClientManager::timeout_expired`; it may stop after any event |
| `Flush` | the actor of the log writes some of the entries |
| `Kill` | a kill and `replay`: the entries not written are lost |
| `BotRestart` | the bot forgets its offset |

The limit on the length of all data is one with the limit on events.

### WebhookDelivery

| variable | code |
|---|---|
| `queue`, `now` | as above |
| `open`, `hook` | whether the actor lives, and its fields: `loaded` (`update_map_`), `lists` (`queue_updates_`), `waiting` (`queues_`), `conns`, `offset` (`tqueue_offset_`), `empty` (`tqueue_empty_`), `timer`, `closing` |
| `strays` | requests in flight over connections of an actor that is gone |
| `received`, `expires`, `dropped`, `closes` | history |

| action | code |
|---|---|
| `PushUpdate` | `add_update_impl` and `WebhookActor::update` |
| `Timer` | the alarm of the actor |
| `AnswerOk`, `AnswerError`, `AnswerGone` | `handle()`: 2xx, any other, 410 for long |
| `Hangup`, `IdleHangup` | `hangup_shared`, and `loop()` twice |
| `BotReceives`, `BotReceivesStray` | the network |
| `Close`, `Open`, `DropPending`, `Collect` | the owner closes and sets the webhook; the manager's timer |

Every handler ends in `Loop`: load from the queue, open connections, send, set
the timer.  Resolving the address, TLS and the two steps that open a connection
are one choice, `Luck`: how many of the connections asked for are there.

### BotApiClient

`client` is the state of `Client` that has to do with webhooks: `url`
(`webhook_url_`), `cert` (`has_webhook_certificate_`), `gen` and `id`
(`webhook_generation_`, `webhook_id_`), `set` and `type` (`webhook_set_query_`
and what waits: `Verify` or `Cancel`), `active` (`active_webhook_set_query_`),
`copying` (another thread has the certificate), `poll` (`long_poll_query_`), `hooks`
(webhook actors that have not gone yet, each with what it said and was not heard
to say) and `phase`.  `webhook_db` is the database in memory, `written` what of
it is on disk, `restore` the setWebhook the manager sends at a start.

| action | code |
|---|---|
| `SetWebhook` | `process_set_webhook_query` (and delete), `do_set_webhook`, `finish_set_webhook` |
| `Restore`, `Reopen` | `ClientManager::start_up`, and `send` for a bot without a client |
| `GetUpdates`, `LongPollEnds` | `process_get_updates_query`, the end of a long poll |
| `HookVerifies`, `HookCloses` | the actor calls back |
| `WebhookVerified`, `WebhookClosed`, `Unlinked` | `webhook_verified`, `webhook_closed`, `on_webhook_closed` after the certificate's file is deleted |
| `CertificateCopied` | `on_webhook_certificate_copied` |
| `Leave`, `Closed`, `Stop` | `close`, log out, `on_closed`, `finish_closing` |
| `Flush`, `Kill` | the log of the database; the server is killed and started |

A CHECK that fails is a step to `aborted`, after which the server starts again.
The limits of a webhook beside the address and the certificate (connections, IP
address, secret, allowed updates) are one choice: they may differ.  A setWebhook
within a second of another is refused and changes nothing: no step.  The CHECK of
`clear_tqueue` is evaluated at every `Stop`: whether the flag that asks for it is
set is abstracted.

### Binlog and DurableMap

`DurableMap` says what a log owes its map: `line` is what the map has been since
the last moment sure to survive; a crash takes the map back to one moment of
`line`, and keeping a promise cuts `line` at the moment it covers.

| variable of `Binlog` | code |
|---|---|
| `map` | `BinlogKeyValue::map_` |
| `seq`, `sending` | `last_event_id_`; numbers taken under the lock whose entries are not handed over yet |
| `mailbox` | messages of the `BinlogActor` |
| `actor` | `OrderedEventsProcessor` (`begin`, `pending`), the force syncs that wait for earlier entries (`waits`), the sync promises (`promises`), the flags of the timer, `Binlog`'s buffer and `BinlogEventsProcessor` (`events`), and how far `do_reindex` is (`stage`) |
| `disk` | the file and the new file: entries, and how many are synced |
| `aborted`, `line`, `asked`, `start`, `count` | history |

| action | code |
|---|---|
| `Set`, `EraseKey`, `EraseBatch` | `BinlogKeyValue::set`, `erase`, `erase_batch` |
| `Send` | the thread hands its entry to the actor |
| `AskForceSync`, `AskLazySync` | `force_sync`, `lazy_sync` |
| `Receive`, `Run`, `Finish` | a message; the next entry in order, perhaps with a flush and a rewrite of the file; the end of the message |
| `SyncNew`, `Unlink`, `RenameNew` | the rest of `do_reindex` |
| `Timeout` | `timeout_expired` |
| `Close`, `DestroyNew`, `DestroyMain`, `Open` | `close`, `close_and_destroy`, `init` |
| `Kill`, `PowerLoss` | a crash: what is not written is lost, perhaps within an entry; or what is not synced |

What the actor does with one entry is `DoEvent`.  What a start or `do_reindex`
makes of a whole file, `DoEvents`, is stated in closed form, as in `TQueue`: of
the entries of an id the last one counts, unless it erases.  That this is
`DoEvent` of one entry after the other is proved (`EventsOneByOne`).

Left out: encryption and `change_key`, `force_flush`, `erase_by_prefix` (its
entries take one lock and many messages), `compactify`, and errors of the disk,
which end the process.  Sizes are not told apart: the file may be flushed or rewritten at
any entry.  Unlink and rename are durable at once: the code does not sync the
directory, so a power failure just after the rename is outside the model.  A
batch counts as several changes, since its entries are written one by one.  A
promise asked for when nothing has changed since the start covers nothing new:
`need_sync_` is false then, even if the server before was killed.

## 3. Fairness

The school assumes none and no liveness is claimed there: a request or a button
may never come, and no handler waits for another.

| assumed | because |
|---|---|
| the clock runs; an alarm that is due goes off (`Tick`, `Timer`, `Timeout`) | the scheduler of the actors |
| messages are served (`Receive`, `Run`, `Finish`, `WebhookVerified`, `WebhookClosed`, `Unlinked`) | the same; a handler never blocks |
| a thread that took a number hands its entry over (`Send`) | nothing stands between the two (`BinlogKeyValue.h`) |
| `do_reindex` goes on (`SyncNew`, `Unlink`, `RenameNew`) | it is one function |
| the log is written, and a collection that is due gets through now and then (`Flush`, `Collect(queue.tail)`) | the timers of the log's actor and of `ClientManager` |
| a certificate is copied or the copy fails (`CertificateCopied`) | another actor copies the file and answers in any case |
| an actor not yet checked resolves its address and opens a socket, or fails to; one asked to close does | `WebhookActor.cpp:101-130, 143-245`: connecting does not block, a name resolves or fails |
| a client that closes or logs out is closed (`Closed`) | TDLib reports its end |
| a request in flight arrives, and a connection without an answer is closed | the timeout of the connection, a minute |

The fairness of an answer is that of `AnswerOk`: some answer comes.  What ends
`EveryUpdateSettles` otherwise, a bot that answers errors for ever, ends in
updates that expire, and `Excused` has those.  A crash is never fair.  After
a kill the server comes back (`restart: always` in the compose files), hence
`Kill` includes the start; in `Binlog` the actions are of the server that runs.

## 4. The runs

| run | instance | shows |
|---|---|---|
| `group` | 2 homework, 4 logs | `TypeOK`, `CreationLogKept`, `OnlyDecisionsWait`, `AgreedInOrder`, `AgreedStaysAgreed`, `OpenedFirst`, `VerdictToldIsInEffect`, and the journal implements `ApprovalGate` |
| `lessons` | 2 lessons, 2 homework, with copies, 3 logs and every step that writes a fourth | `TypeOK`, `AssignedByHolding`, `HoldingSetsAllUnderMetodist`, `RemovedWasPlanned`, the lessons implement the journal |
| `updates` | 3 updates, a queue of 2, ids that end at 20 and may begin at 18, 1 kill, 2 unwritten entries | `TypeOK`, `LogHoldsTheQueue`, `FreshIds`, the store implements `UpdateDelivery`, `NothingStays` |
| `webhook` | 3 updates of 2 chats, one that expires within the tick, 2 connections, the webhook closed once | `TypeOK`, `EachChatServedOnce`, `InOrder`, implements `UpdateDelivery`, `EveryUpdateSettles` |
| `botapi` | 2 addresses, 3 requests, 1 kill, 2 clients closed | `TypeOK`, `ChecksHold`, `OneReader`, `RunningIsSaved`, `ToldIsSet`, `SetsAreAnswered` |
| `binlog` | 2 keys (one rewritten, both erased as a batch), 2 threads, 2 promises, 3 calls, 1 rewrite, 2 crashes | `TypeOK`, `NeverAborts`, `DiskHoldsTheMap`, implements `DurableMap`, `EveryPromiseKept`, `WrittenInTheEnd` |
| `notice`, `refusal`, `holding`, `closing`, `copied`, `deleting` | small | the six findings of section 6 |

Bounds.

* `MaxDt` bounds the logs of a behaviour.  Four logs are enough for a group to
  be created, assigned for both and agreed, for one homework to be assigned twice
  with one assignment declined, or for a creation, an answer and two verdicts.
  Two lessons are a lesson and its copy.  Homework and lessons are
  interchangeable, hence the symmetry sets; no liveness is checked there.  In
  `lessons` the constraint `ShortJournal` goes on from every journal of two logs,
  and of three if the listener has not acted; every step from these is checked,
  those that write the fourth log, too.  Four are what `HoldingSetsAllUnderMetodist`
  needs to be put to the test: two homework, one of them cancelled, and the
  assignment of the other.
* `updates`: with two places a third update is refused or meets a placeholder;
  from tail 18 of 20 the ids wrap at the third update; one kill at any moment
  with up to two entries lost tears the erasing of a placeholder from the event
  after it.
* `webhook`: two updates of one chat are an order, the third is the other chat;
  the second update expires within its tick, in the middle of its chat; the ids
  wrap too.  A bounded clock ends retries: an answer whose retry would come after
  the end of the clock is not taken, and the last tick opens connections
  (`Luck`), else a bounded clock would look like a webhook that is never reached.
* `botapi`: three requests are a webhook, one that replaces it and one that comes
  in between; two closes are a client that ends and the one after it.
* `binlog`: three calls with two threads are enough for two entries out of order
  and a promise behind them; two crashes for a torn entry or a stale new file to be
  found by a second start that crashes again.

`CHECK_DEADLOCK FALSE` is set where the bounds end the system: `updates`,
`webhook`, `botapi`, `copied`, `deleting` and `binlog`.  In the school it is never
disabled: a methodist may always be set.

## 5. What is proved

By TLAPS, for all values of the constants.

`HomeworkJournalProofs`, from the assumption `ConstantsAssumption` only:

| theorem | statement |
|---|---|
| `TypeCorrect` | `Spec => []TypeOK` |
| `CreationKept` | `Spec => []CreationLogKept` |
| `OpenedOnce` | `Spec => []OpenedFirst` |
| `DecisionsWait` | `Spec => []OnlyDecisionsWait` |
| `InOrder` | `Spec => []AgreedInOrder` |
| `StaysAgreed` | `Spec => AgreedStaysAgreed` |
| `VerdictIsInEffect` | `Spec => []VerdictToldIsInEffect` |
| `KeepsGate` | `Spec => ImplementsGate` |

The argument.  `IInv` is the conjunction of the invariants with
`JournalIsOrdered`, which says that times are not repeated and never go back, as
assumed of `auto_now_add`; it is inductive only as a whole.  `CreationLogKept`
needs the order (the creation log is the *only* oldest one, so a run of newest
logs that reaches it has nothing else in it) and the guard of the bot's button.
`AgreedInOrder` needs `OnlyDecisionsWait`: the bot agrees by status and would
otherwise skip an older log that waits; it also needs that a group has its
lesson as a whole (last conjunct of `TypeOK`), since a failing notice may agree
one log of a homework that lost its lesson and leave older ones.

The handlers are many and their effects few.  A step changes `logs` in one of
these ways, and each invariant is proved once per way: the journal grows by
newer logs (and perhaps new rows with their creation), logs are removed one
homework at a time or one by one, a set of undecided logs is decided, or nothing
happens to it.  One lemma per handler says which way it is.  The refinement
follows the same split: growing and removing are `Work`, agreeing is `Approve`,
declining stutters.  `VerdictIsInEffect` is about one step: of the handlers that
tell a verdict, each has just put it into effect.  It says that there is such a
verdict among the agreed ones, not that it is the newest.

`LessonLifecycleProofs`, from `LessonAssumption` only (`Lesson` and
`Homework` are finite):

| theorem | statement |
|---|---|
| `TypeCorrect` | `Spec => []TypeOK` |
| `KeepsJournal` | `Spec => ImplementsJournal` |
| `JournalHolds` | `Spec => []JournalInv`: the invariants of the journal, of lessons |
| `GateHolds` | `Spec => Journal!ImplementsGate` |
| `OnlyHoldingAssigns` | `Spec => AssignedByHolding` |
| `HoldingSetsAllSupervised` | `Spec => HoldingSetsAllUnderMetodist` |
| `OnlyPlannedIsRemoved` | `Spec => RemovedWasPlanned` |

The argument.  `IInv` adds to `TypeOK` only that rows are of `Homework`.  That a
step of the lessons is one of the journal (`StepOfJournal`) rests on `attached`
being the union of the homework of lessons: what `Restore`, `ClosePlan` and
`DeleteLesson` do to it is `ReplaceHomework` and `Detach`.  The journal's
theorems are then instances of the ones proved (`Theory`), once both copies of
its next-state relation are seen to be the same (`SameNext`).  The three
properties of a step use from the journal that no log is newer than the clock.

`TQueueProofs` and `UpdateStoreProofs`, from `QueueAssumption` and
`StoreAssumption` only (`Nothing` is no update, `MaxId > 3`, first ids lie in the
lower half, limits are 1 to 100):

| theorem | statement |
|---|---|
| `TypeCorrect` | `Spec => []TypeOK` |
| `LogAlwaysHoldsTheQueue` | `Spec => []LogHoldsTheQueue` |
| `IdsAreFresh` | `Spec => []FreshIds` |
| `KeepsDelivery` | `Spec => DeliversUpdates` |

The argument.  A queue is `Sound` when its events are known, its ids lie below
the tail and the newest just below it, only the newest may be empty, and a
collection is due while an update waits.  A disk is `Good` when only its newest
event is empty; entries are `Safe` on a disk when after any number of them it is
good: that is what a kill at any moment asks for.  `TQueueProofs` proves of every
operator that it leads from a sound queue to a sound one and that its log takes a
disk with the one to a disk with the other, safely (`Steps`; the lemmas
`PushSteps`, `GetSteps`, `RunGcSteps`, `ClearSteps`), and that a start from a good
disk finds its events and their tail (`ReplaySound`).  `UpdateStoreProofs` adds
the bot: ids that were given are below the tail, unless a kill lost entries; an
update that waits before the bot's offset has been handed to it, unless a kill
lost entries or the ids began again (`IdsInv`).  The last is why `confirmed` stays
empty in `FreshIds`, and neither is inductive without the other.  `TypeOK` and
`LogHoldsTheQueue` are consequences, and the refinement asks of every step only
where the updates went that left the queue.

`WebhookDeliveryProofs` and `WebhookOrderProofs`, from `QueueAssumption` and
`WebhookAssumption` only, the last two with the hypothesis `IdsLast`:

| theorem | statement |
|---|---|
| `TypeCorrect` | `Spec => []TypeOK` |
| `ServesEachChatOnce` | `Spec => []EachChatServedOnce` |
| `ArrivesInOrder` | `IdsLast` implies `Spec => InOrder` |
| `Delivers` | `IdsLast` implies `Spec => DeliversUpdates` |

`IdsLast` says that the bot gets fewer updates than half of the ids, less the
slack of 1000: some 10^9 in one life of the server.  The ids may begin again
meanwhile, but not catch up with those of before.  `load_updates()` compares ids
with `tqueue_offset_`, and `TQueue` takes an id half the range ahead to be an old
one, so the code needs such a bound.  The run `webhook` satisfies it (three
updates, 20 ids) and lets ids begin again.

The argument.  `Inv` says of the queue that it is `Sound` (the lemmas of
`TQueueProofs`) and of the actor `HookOK`: every loaded update is in the list
of its chat, every chat with a list is either waiting to be sent at a known time
or on exactly one connection, which carries the first update of its list, and
nothing is loaded that did not arrive.  Each call preserves it (`load_updates`,
`send_updates`, `drop_event`, `on_update_error`, the end of a connection),
`WebhookActor::loop` composes the calls, and the actions follow.  `OrderInv` adds how
ids and arrivals go together: the queue holds what is not settled in the order in
which it came (`QueueOK`); what is loaded came before all that is still to be
loaded, and nothing before `tqueue_offset_` was passed over (`LoadedOK`); the list
of a chat is sorted (`SortedOK`).  An id that is loaded is `Near` the tail or, from
before the ids began again, `Far` from it: without that distinction, `LoadedOK` is
not inductive at a new beginning.  The invariant was checked by TLC before, with
ids that begin again at the first, the second, the third update and never.  The
request of an actor that is gone may still reach the bot: for it `OrderInv` says
that what came before it is settled (`Earlier`).

`BotApiClientProofs`, from `ClientAssumption` only (`None`, `NoQuery` and
`NoEntry` are none of what they stand beside, the bounds are natural numbers):

| theorem | statement |
|---|---|
| `TypeCorrect` | `Spec => []TypeOK` |
| `ChecksAlwaysHold` | `Spec => []ChecksHold` |
| `AtMostOneReader` | `Spec => []OneReader` |
| `RunningAlwaysSaved` | `Spec => []RunningIsSaved` |
| `ToldAlwaysIsSet` | `Spec => ToldIsSet` |

The argument.  `IInv` says what a client is between two calls.  `RequestsOK`: a
request that waits for an actor has a webhook in place, one that waits for its
certificate has none, and a `getUpdates` waits only without either.  `HooksOK`:
never two actors, none without an address; an actor that runs is the one owned
and of the last generation, and made for the request that waits; one of an
earlier generation is only waited for.  `PhaseOK`: a client that logged out has
let everything go.  `IsSaved`: what runs with nobody waiting is in the database.
The lemmas follow the calls: `finish_set_webhook`, `do_set_webhook` and
`process_set_webhook_query`, given a client as described, return such a client
and no failed CHECK (`Good`); the actions then compose them.  One CHECK does
fail: section 6, `copied`; the theorems allow for it and for the start after it.

`BinlogProofs`, from `BinlogAssumption` only (`Nothing` is no promise and no
entry, the numbers of threads, calls, rewritten files and crashes are natural):

| theorem | statement |
|---|---|
| `TypeCorrect` | `Spec => []TypeOK` |
| `NeverFails` | `Spec => []NeverAborts` |
| `DiskAlwaysHolds` | `Spec => []DiskHoldsTheMap` |
| `Keeps` | `Spec => KeepsPromises` |
| `EventsOneByOne` | `DoEvents(<<>>) = NoEvents`, and `DoEvents(Append(s, e)) = DoEvent(DoEvents(s), e)` |

The argument.  `IInv` says that the state has a `Story`, which exists beside it
in three functions: `ms[n]`, the map after the number `n`; `at[n]`, its moment in
`line`; and `g[n]`, the moment that the first `n` entries of the file and the
buffer make.  The story has these parts.

* `Numbered`: every number that was taken and not yet passed is on its way
  exactly once, with a thread, in the mailbox, or with the actor.  `Chain`: in the
  order of the numbers each entry makes the next map of the one before it.  From
  the two follows that `BinlogEventsProcessor` never sees an entry for an event
  that is gone (`NeverAborts`), in whatever order the threads hand theirs over.
* `PromisesOnce` and `Reached`: a promise waits in one place, for a number that
  was taken, whose moment is not before the one the promise is to cover.
* `Follows` and `DiskOK`: each beginning of the file and buffer that includes what
  is synced makes a moment of `line`, later ones later; what is not synced needs
  it (`need_sync`), or nothing has changed since the start.  While the file is
  written anew the new one makes what lives (`NewOK`), and one of the two is whole
  at every step.  A log that was closed or destroyed `Rests`.
* `TimerOK`: who waits for a sync has the timer set, and for one that syncs.

None is inductive without the others.  That a start finds what a crash left
(`Survives`) rests on `LeftIs`: what is left begins the log and includes what is
synced.  That an erased batch is several moments (`DiskHoldsTheMap` in the middle
of it) rests on the ids of a batch being sorted, of which each once.  `IInv`
itself was checked by TLC before it was proved, with the three functions found
for each state.  Where an argument goes from number to number it is by a least
counterexample, which needs no induction theorem.  For the refinement each
action is one of `Change`, `Ask`, `Keep`, `Crash`, `Close` and `Destroy` of
`DurableMap`, or changes nothing there.

Only model-checked: everything that needs fairness (`NothingStays`,
`EveryUpdateSettles`, `SetsAreAnswered`, `EveryPromiseKept`, `WrittenInTheEnd`),
as liveness and `ENABLED` are out of the prover's reach.  What a fold computes for
every log takes induction over data, which is out of reach, too; hence the closed
forms of `TQueue` and `Binlog`.

## 6. Findings

* `notice`: a methodist who adds homework to a held lesson in the bot has the
  listener told "У вас новое домашнее задание!", but `aset_assigned()` is called
  without `check_methodist=False` and the assignment waits for the methodist's
  own agreement; the status on the listener's pages is still that of a homework
  only created (the list of logs on the site's page has the waiting assignment).
* `refusal`: a declined decision is found by the same filter as a waiting one,
  so accepting the teacher's next decision agrees the refused one, too, and the
  listener is told of both.
* `holding`: without a methodist, one cancelled homework makes the handler that
  holds the lesson raise after the status was saved; the rest of the homework is
  never set, and holding the lesson again is refused.
* `closing`: "after the end of the studies all lessons that were not held and the
  homework for them will be removed" (`plans_item_modal_setstatus.html:9`).  A
  copied lesson shares its homework with its copy; if the cancelled one is taken
  back to planned and one of the two is held, closing the plan removes homework
  that was set, with its answers, since it is also in a planned lesson.
  `RemovedWasPlanned` is what the code does keep: nothing is removed that is in
  no planned lesson.
* `copied`: a bot logs out while another thread copies the certificate of its new
  webhook; the request is failed and forgotten, and when the copy ends
  `CHECK(active_webhook_set_query_)` fails.
* `deleting`: a bot whose client was closed asks to delete its webhook; the new
  client was not given the webhook of the database, answers "Webhook is already
  deleted", and the entry stays: the next start sets the webhook again.

Found by reading, with no run: the form of a plan says that with a methodist "the
teacher cannot, without an agreement, send homework or answer the solution of a
listener" (`plans_offcanvas_new.html:34`).  `ApprovalGate` is what holds of it, the
effect.  The text of a verdict that waits is on the listener's page all the same
(section 2, ApprovalGate), so in the plain sense of the words the teacher has
answered.  The model has no list of logs, and one that states it unfiltered could
show nothing else.

Not forbidden by anything in the repository, and so without a property: a lesson
that was taken back and is held again assigns its homework a second time; an
answer is taken in any status (`get_send_hw_permission`, `homework/permissions.py:49`,
is never called).  The models let both happen.

## 7. Not modelled, and the plan

In this order:

1. **RequestRaces** - two requests as processes whose reads and writes are steps
   of their own (`save()` writes back a whole row): holding a lesson twice,
   adding homework while the lesson is held, cancelling against accepting,
   agreeing against deleting, a crash in the middle of `ClosePlan`.  The abstract
   specification is that of the atomic handlers.
2. **Schedule** - `ProgramSetter.get_next_date`, `AddLessons`, `Rescheduling` as
   functions over days, checked against a reference definition over all
   timetables of a week; the loop of `get_next_date` with its termination.
3. **Reminders** - the clock windows of the Celery tasks and the loop over the
   methodists.
4. **BotDialogue**, **ChatUnread** - the finite states of the bot around the
   journal's actions; messages and read marks.

Left out for good: texts, files and materials, the wording of messages, pages
and spreadsheets, login.  Of the Telegram API server: the other methods of
`Client.cpp`, each a translation of JSON to a request of TDLib and back, by a
callback of its own and without state between calls; and TDLib itself with
SQLite, hundreds of thousands of lines of Telegram's protocol, caches and
generated code, of which forschools uses what the Bot API shows.

# Verification of the VK support bot

TLA+ modules, TLC configurations and TLAPS proofs about the program in `src/`:
a bot that turns messages of VK users into support tickets, a dashboard from
which operators answer them, and the queue through which everything the bot
says leaves.  Every definition is translated from the Python sources; module
comments name the functions they stand for, and `PROJECT.json` maps each
definition to its lines.

## 1. Inventory

One process (FastAPI on one asyncio event loop) with a PostgreSQL database.
Between two `await`s a coroutine runs alone; at every `await` the other tasks
run, an exception can surface, and the platform can kill the process
(`railway.json` restarts it, at most ten times).  A redeploy may run two
processes for a while.  Every SQL statement outside a `conn.transaction()`
autocommits.

| component | source | state | operations | used by |
|---|---|---|---|---|
| Outbox | `vk/outbox.py` | table `outbox` | `enqueue`, `process_batch`, `_send_one`, `_handle_error`, `recover_stuck`, `run_worker` | every handler; calls VK client |
| VK client | `vk/client.py` | none | `call`, error mapping | outbox, attachments |
| Rate limiter | `vk/ratelimit.py` | tokens, last update, lock | `acquire` | VK client |
| Callback ingress | `vk/callback.py` | table `processed_events`, `app.state.background` | `vk_callback`, `spawn`, `remember_event` | VK; starts handlers |
| Long poll ingress | `vk/longpoll.py` | none | `run_longpoll` | development mode |
| User handler | `handlers/user.py` | local variables of each task | one handler per payload command, free text | ingress; calls queries, outbox, notifier |
| Tickets and messages | `db/queries.py`, migrations | `users`, `tickets`, `ticket_messages` | one function per query | handlers, API |
| Dashboard API | `web/api.py` | local variables of each request | reply, read, close, take, lists, statistics, uploads, attachment proxy, FAQ | browser; calls queries, outbox |
| Event bus, socket, push | `web/bus.py`, `web/ws.py`, `main.py`, `web/push.py` | bounded queue per subscriber, push subscriptions | publish, subscribe, pump, notify | user handler; browser |
| Authentication | `web/auth.py`, `web/challenges.py`, `web/sessions.py`, `setup_tokens.py` | `setup_tokens`, `webauthn_challenges`, `sessions`, `admin_credentials` | issue, consume, register, login, logout, revoke | browser |
| Housekeeping | `maintenance.py` | none | hourly purges | the four tables above and `processed_events` |
| Pool and migrations | `db/pool.py` | `schema_migrations` | `apply_migrations` | start |
| FAQ | `db/queries.py`, `web/api.py`, `vk/keyboards.py` | `faq` | create, update, delete, reorder, list | handler, dashboard |
| Working hours | `workhours.py` | none | `is_working_now`, `next_working_time` | user handler |
| Attachments | `vk/attachments.py`, `web/api.py` | jsonb list of a message | parse, describe, refresh, proxy | handler, dashboard |
| Dashboard client | `web/src` | open thread, list of dialogs, socket | load, append, reconnect | API, socket |
| Configuration, static files, load tests, scripts | `config.py`, `web/spa.py`, `loadtests`, `scripts` | none | | |

### How they interact

    VK --callback--> Ingress --task--> User handler --SQL--> users, tickets, messages
                                           |   \--event--> bus --> socket / push --> browser
                                           v
    browser --HTTP--> Dashboard API --> enqueue --> outbox <--claim-- worker --limiter--> VK

The components share no memory apart from the database, the bus and the rate
limiter; what makes them hard is that each handler is a chain of statements
and that several of them work on the rows of one user.

### Which behaviours are hard

* statements of two handlers in any order (callback mode starts one task per
  event; the dashboard runs beside them), values read before an `await` and
  used after it;
* VK repeats an event until it gets `ok`, and an answer may be lost;
* a send may be accepted by VK and its answer lost, may be refused and retried,
  may arrive after its caller gave up;
* the process may die between any two statements, and two processes may
  overlap;
* something must eventually happen: messages are sent or given up, events
  are handled.

### What makes each component correct

* Outbox: a message is shown at most once; `sent` means shown; `failed` means
  VK refused it often enough; verdicts are final; no row is stranded; a dialog
  keeps its order unless VK refused a message; every message is settled.
* Rate limiter: calls in any window stay within the bucket and the rate;
  waiting and cancellation leave it usable.
* Ingress: each event handled at most once, and at least once unless something
  failed.
* Tickets: each ticket lives the life `TicketLife` describes (one open ticket
  per user, closed is final, one persona introduced once); who is told that it
  is closed is told the truth; counters and feed agree; nothing is sent that the
  feed does not show; a text reaches the open ticket, once, in order.
* Event bus and client: a message reaches the open dashboard or is pushed to
  every device; it arrives once and is shown once; bubbles do not outlive their
  reply.
* Authentication: a link, a challenge and a signature counter are each used
  once; a session ends when revoked or expired.
* FAQ: the last reorder that was committed decides the order, whatever was
  edited since and whichever reorder failed; the dashboard marks exactly the
  topics the bot has no button for.
* Attachments: what is opened is what the page showed, also after the links
  were renewed; nothing that came with a message is lost.
* Migrations: each file applied once, in order, with its record, whichever
  processes start together and wherever they die; a process that is started
  serves in the end.
* Working hours: nothing is said while somebody is there, else the next opening
  is named.

## 2. Modules

| module | models | extends |
|---|---|---|
| `Delivery` | abstract specification of the queue: post, show, refuse, confirm, give up | |
| `Outbox` | the table, the worker, recovery, VK's `messages.send` | |
| `OutboxProofs` | proofs about `Outbox` | `Outbox`, `Delivery` through `INSTANCE` |
| `MCOutbox` | ids and symmetry for TLC | `Outbox` |
| `RateLimiter`, `RateLimiterProofs` | the token bucket, its lock, an observer's window | |
| `Ingress`, `IngressProofs` | webhook, `processed_events`, background tasks | |
| `Faq` | the topics, the screens that edit them, the bot's keyboard | |
| `Attachments` | what is kept of a message's attachments, the proxy, renewed links | |
| `Migrations` | the start of processes | |
| `WorkHours` | the notice of office hours | |
| `MCService` | the six modules above, one at a time, for TLC | all six |
| `ServiceProofs` | proofs about `Faq`, `Attachments`, `Migrations`, `WorkHours`, and about the six together | `MCService`, `IngressProofs`, `RateLimiterProofs` |
| `TicketLife` | abstract: the life of a ticket | |
| `Tickets`, `MCTickets` | handlers of users and dashboard over the database | `TicketLife` through `INSTANCE` |
| `MCAsked` | `Tickets` with a history of the texts that describe a problem | `MCTickets` |
| `TicketsProofs` | proofs about `Tickets` | `Tickets` |
| `Auth`, `MCAuth` | set-up links, challenges, passkeys, sessions, the browser | |
| `AuthProofs` | proofs about `Auth` | `Auth` |
| `Channel` | abstract: what the dashboard may count on | |
| `Bus` | notifier, event bus, sockets, web push | `Channel` |
| `BusProofs` | proofs about `Bus` | `Bus` |
| `Chat` | the open dialog in the browser | `Channel` |
| `MCLive` | both halves of the way to the operator, for TLC | `Bus`, `Chat` |
| `ChatProofs` | proofs about `Chat`, and about both halves together | `MCLive`, `BusProofs` |

### Outbox and Delivery

`outbox` is the table (status, peer, random id, attempts, and whether
`next_attempt_at` has passed).  `phase[p]` says where the worker of process `p`
is: `idle` before a poll, `call` inside `client.call`, then the answer it is
about to book.  `batch[p]` is the list it iterates, `snap[p]` the `attempts` it
read when it claimed the rows.  `Claim` is the `UPDATE ... RETURNING`;
`MarkSent`, `HandleRefusal`, `FailDenied` and `MarkCannotWrite` are the
statements of `_send_one` and `_handle_error`; `BatchFails` is any exception
but `VKCallError`; `Crash`, `Start` and `Recovered` are the life of a process.
VK's side (`VKAccept`, `VKRefuse`, `VKDeny`, `LateArrival`) is modelled from
how the code uses it: `messages.send` shows a message unless its
(peer, `random_id`) has been seen.

`seen`, `deliveries`, `errors`, `denied` and `wire` are VK's memory and the
network; the program does not read them, the properties do.

`Delivery` says what a caller of `enqueue` is promised, without worker,
batches, processes or random ids: a message is open until it is reported sent
(only if it was shown, and it is shown at most once) or failed (only after
`Tries` refusals or a denial), and a report is never taken back.  The mapping
maps `pending` and `sending` to open.

### RateLimiter

`tokens` are counted in units of `1/TicksPerSecond`, so that the float
arithmetic of `acquire` is exact integer arithmetic; `queue` is the FIFO of the
`asyncio.Lock`, its head the holder; `wake` the end of its sleep; `Mark` starts
the window of an observer at an arbitrary moment.

### Ingress

`request[r]` is the coroutine of an HTTP request, `background[e]` the tasks for
event `e`.  `RememberEvent` is the `INSERT ... ON CONFLICT DO NOTHING
RETURNING`; `Spawn` and the answer are one step because there is no `await`
between them.  VK (`Happens`, `Post`) repeats an event until it is
acknowledged, also while an earlier request for it is in progress.  `Crash`
drops all requests and tasks.

### Faq

`faq` is the committed table; `screen[s]` the dashboard `s`: the list it shows,
and whether its `run` waits for a reorder or for the list.  A reorder is a
transaction: `UpdatePosition` executes one `UPDATE` of it and locks the row
(`Locked`), `CommitReorder` makes the positions visible.  Creating, switching
and deleting are one statement each.  Two reorders that wait for each other
are ended by the database (`RunFails`); the screen then keeps the order it asked
for, unsaved.  `FaqList` is what the bot shows, `BeyondBot` the mark on the
screen, each with the constant of its own file.

### Attachments

An attachment is its number in the message as it was sent, so that a list tells
what is at which index.  `stored` is the column, `page` what an open dashboard
shows of it, `download[r]` a request of the proxy with the list it has read.
Links work for one `era`; when `Fetch` is refused, `GetById`, `SaveAttachments`
and `FetchAgain` are the three awaits that renew them.  VK's side
(`LinksExpire`, `EditMessage`) is modelled from how the code uses it.

### Migrations

`starter[p]` is `apply_migrations` of process `p`, one statement a step; the
script and the record of it are one transaction (`RunScript`,
`RecordMigration`), in which another process waits before its own script.
`schema` counts how often a script is in the committed schema.  `Strays` are the
copies ("001_init 2.sql") that `MIGRATION_NAME` leaves out.

### WorkHours

The clock shows hours; `AskWorking` and `Promise` are the two readings of one
notice, between which an hour, and with it a day, may end.

### TicketLife and Tickets

`TicketLife` is a ticket without handlers, messages and tables: opened for a
user who has none, answered, given to one persona, rated, closed (which takes
the rating away), its persona named to the user.  `Tickets` maps its row and what the outbox was told of it
(`LifeOf`, `Life`) to it.

`task[k]` is a running handler: `at` is the statement it executes next, the
other fields its local variables, read at the step the code reads them.  Each
action is one database statement (or one transaction: `AddMessage`,
`AddReply`) or one `enqueue`; `mark_read`, a transaction whose two statements
take their own snapshots, is two steps, `MarkMessages` and `ZeroUnread`, of
which the second commits.  The unique index is `NoConflict` inside
`CreateTicket`.  A request comes with its first read; a request refused at once
is no step.  A button brings the id in its payload, whichever keyboards were
sent: `_close_ticket` closes the open ticket of the user when the id is its own,
`_save_rating` rates any ticket that is his, in any status, and so do
`TicketClose` and `Rate`.  `Abort` is an exception or the end of the process at any point.
`Mode = "longpoll"` lets one VK event run at a time (`longpoll.py` awaits each
handler), `"callback"` lets them interleave; the dashboard runs beside them in
both.

### Auth

`tab[b]` is a ceremony: a page of the browser between its two requests, then
the verifying request itself; `at` is what happens next, the other fields what
the page and the request remember.  Options hand out a row of `challenge`;
`ReceiveOptions` stores its id in `cookie`, which all tabs share, so that a
tab may answer (`CreateKey`, `SignChallenge`) with the cookie of another
(`sent` differs from `challenge`).  `ConsumeChallenge`, `BurnLink`,
`InsertCredential`, `FindCredential`, `UpdateSignCount` and `OpenSession` are
the statements of `register_verify` and `login_verify`, each with the check that
follows it without an `await`.  `Repeat` is an answer delivered twice,
`GiveUp` a closed tab, a lost request or the end of the process.  `expired`
holds the rows whose time is past and can still matter; the purges of
`run_housekeeping` are steps of their own, because they touch different tables
and one that fails skips the rest.  The checks of the webauthn library
(`ChallengeMatches`, `CounterGrown`) are modelled from how `auth.py` uses them;
`signed` and `opened` are what the authenticators and an observer count.

### Channel, Bus and Chat

`Channel` is the promise between the two halves: `feed` are the rows of
`ticket_messages`, `arrived` the events `onmessage` was called with.  A text of
a user arrives at most once and after it was stored; it may come late, after a
later one, or never.

`Bus` is the server with the socket.  `told[i]` says how far the notification of
message `i` is: `Publish` is `bus.publish` with the decision that follows it
without an `await`, `FetchRows` and `SendPush` are `send_to_all`.  `conn[c]` is
the handler of a socket, `queue[c]` its queue in the bus, `socket` the one the
dashboard listens to: a link breaks (`BreakLink`) and is replaced (`Connect`)
before the server finds out (`Disconnect`), so two queues of one dashboard may
get an event.  A `deaf` handler is one whose pump has died, a `leaked` one has
ended without `unsubscribe`; `swallowed` are events taken for a socket and sent
to nobody.  One dashboard is modelled: with several, each has its own `arrived`.

`Chat` is the browser.  `job[j]` is a running `load` or `send`: before its first
request (`ask`, `post`), before the messages (`get`), with their answer in hand
(`got`).  Requests of one dialog go on while another one is opened, and set its
thread; unmounting `Chat` makes them harmless.  `incoming` and `pending` are the
state of `App` and the render that is still to come.  A reply is shown as a
`Bubble` until a load replaces the thread.  Rows come in increasing order, so the
thread of a dialog is stated as the increasing sequence of a set (`Listed`),
which can be reasoned about without induction.

## 3. Runs

`tlc -config <cfg> <module>`; the sizes are of the complete state spaces.

| run | question | instance |
|---|---|---|
| `outbox_single` | `sent` is true, refinement of `Delivery` | 2 rows, 2 peers, 3 attempts, 3 starts, all faults |
| `outbox_overlap` | at most once with two live processes | 2 rows, 2 processes, all faults |
| `outbox_live` | settled in the end, order, 901 booked | 3 rows of one peer, batches of 2, a crash, fairness |
| `outbox_reorder` | is the order of a dialog kept? no | 2 rows |
| `service` | six parts with no common state, one at a time (`MCService`) | see below |
| `attachments_place` | is all that came with a message kept? no | 2 attachments, 1 request |
| `tickets_callback` | refinement of `TicketLife`, consistency of tickets and of what users are told, every interleaving, handlers dying anywhere | 2 users, 2 tickets, 3 texts, 2 personas, 2 handlers at a time, 5 requests |
| `tickets_longpoll` | order and completeness when VK events are serial | 1 user, 3 handlers at a time, 6 requests |
| `tickets_menu` | is a text that describes the problem stored in callback mode? no (`MCAsked`) | 1 user, 2 handlers |
| `tickets_reopen` | does a text after the farewell open a ticket? no | 1 user |
| `auth` | links, challenges and sessions, with crashes, expiry and repeated answers | 2 links, 3 challenges, 2 keys (one counts, to 2), 1 session at a time, 2 tabs |
| `live` | is a message announced, does it arrive once, is it shown once? | server: 2 dialogs, 2 messages, 2 sockets, queues of 1, 2 devices, 1 leaked queue; browser: 2 messages, 2 calls at a time |

The run `service` (330,000 states, of which each part has its own):

| part | question | instance |
|---|---|---|
| `Ingress` | at most once, and lost only by a failure | 2 events, 2 requests at a time, 2 failures, 2 lost answers |
| `RateLimiter` | the bound of any window, the sleeper | rate 2, capacity 2, 3 ticks a second, 7 ticks, 2 callers |
| `Faq` | order, and marks on the screen | 3 topics and 1 to be made, 2 dashboards, a keyboard of 2, 3 edits, 1 failed request |
| `Attachments` | is what is opened what was shown? | 2 attachments and a place, 2 requests, 3 eras |
| `Migrations` | once, in order, and in the end | 2 files and a stray copy, 2 processes, 2 deaths |
| `WorkHours` | the notice names the opening | all 300 pairs of hours, 31 hours of the clock |

Bounds.  Two rows are the fewest for which a batch, an order or a mixed-up
answer exists, three let a message wait behind another while a third is
enqueued; `MAX_ATTEMPTS` 2 or 3 stands for 5: the code only compares with the
last.  Two requests for one event are the fewest that race, and a third only
repeats what the second does.  Five requests are enough to open a ticket, close
it and open the next one while another handler is half-way; two handlers
interleave in every pairwise order; a third is used where two dashboard
requests run beside a VK event.  With three edits two dashboards can start
reorders that cross and make, hide or delete a topic beside them; four topics
and a keyboard of two leave some beyond it, as ten and eight would.  Three eras
let the links run out again after they were renewed.  Two files are the fewest
that have an order, two processes the fewest that race; 31 hours hold every hour
of the day and a midnight between two readings.  Three challenges let two ceremonies race
after a first registration; one session row is enough, because it is free
again once the session ends and no statement reads two.  In `live` two messages
overflow a queue of one, two sockets are an old and a new one, two devices let
the loop end early, two calls let a load overtake a send or another load;
`half` chooses the server or the browser, which share only `Channel`.  Symmetry is used for users, tasks, personas,
peers and random ids in runs without liveness.  `CHECK_DEADLOCK FALSE`: the
bounds on rows, starts and requests stop the model; the program has nothing
left to do then.

Fairness.  `Outbox!Fairness`: the event loop runs every ready task (asyncio's
ready queue is FIFO) and `run_worker` never leaves its loop while the process
lives; time passes; VK answers or refuses a request it received; the platform
restarts a process that died.  `Ingress!Fairness`: coroutines and tasks run; VK
repeats an event until it is acknowledged (the module comment of
`callback.py`).  `Migrations!MigrationFairness`: statements end, and the platform
starts a process that has died (`railway.json`: on failure, at most ten times,
more than the bounds need).  No fairness is assumed of users, of failures or of refusals.
`Bus!Fairness`: notifications, pumps and socket handlers run; a broken link is
found out by the ping every 25 seconds (`ws.py`); a push service answers, for
which the code sets no time limit.  None is assumed of the network, the
browser or the operator.  `EventuallyAnnounced` names what may keep a message from the
operator: a link that broke under it, a notification that failed, a queue that
was leaked.
`EventuallySettled` is stated without escaping exceptions (`Faults = FALSE`)
because the code strands a claimed batch when one escapes; `EventuallyHandled`
makes the exception for failures part of the property.

### Where the code differs from its documents

* `outbox_reorder`: a refused message is overtaken by later messages of its
  dialog; `outbox.py:82` and the design promise the order.
* `tickets_menu`: a user is asked for his problem (`texts.py:8`) and answers
  with two texts; both handlers find no open ticket, the first creates it and
  resets the state, and the second, which reads the state only then, answers
  with the menu.  Its text is stored nowhere.
* `tickets_reopen`: the farewell promises a new ticket for a text that follows
  (`texts.py:34`), the handler answers with the menu.
* `attachments_place`: renewing the links of a message drops the place that came
  with it (`web/api.py:296`); `vk/attachments.py:3` and the design promise that
  the operator sees it.

Also seen while modelling, without a run of its own: an exception that escapes
`process_batch` strands the claimed rows until the next start; a crash between
the two statements of the 901 branch loses `can_write = FALSE`; two overlapping
requests close a ticket twice; `create_ticket` ends in a `TypeError` when the
ticket is closed between its two statements; `_save_rating` asks whose the
ticket is and not whether it is closed (`user.py:211`), and a rating given before
the closing is erased by it; the limiter lets 36 calls through
in a second (`WithinBudget` with rate and capacity 18) where the design says 20; of two logins at one
time the older signature counter may be stored last (`auth.py:218` says that it
grows monotonically); a registration that is verified with the challenge cookie
of another tab burns its link for nothing.  A client who edits a message shifts the indexes of its
attachments once the links are renewed, and an old page opens another one; a
ticket opened as the office opens may promise an answer tomorrow
(`workhours.py:28`).  On the way to the operator: a queue
stays in the bus when the pump dies of an error or `ready` (`ws.py:32`, before
the `try`) cannot be sent, and no push is sent until it is full; the push loop
ends when a statement inside it raises (`push.py:73`, `push.py:83`).  In the browser: a slow answer for one dialog
overwrites the thread of another; an event that comes before the thread is
loaded, or the first of two in one render, is never shown though the dialog is marked
read; a reply that is stored and whose reload fails is returned to the composer
as unsent; a reorder of the FAQ that fails leaves the order it asked for on the
screen; messages after the first 200 of a dialog are never loaded
(`queries.py:190`).

## 4. Proofs

Checked by tlapm for every value of the constants that satisfies the named
assumptions of the modules.

| module | theorems |
|---|---|
| `OutboxProofs` | types; `Inv`; at most once; sent means delivered; failed is justified; without overlap: one worker, verdicts final, `Delivery` implemented; without faults: a peer that refused is marked; without both: overtaken only if refused |
| `RateLimiterProofs` | types; `WithinBudget`; the sleeper will find a token |
| `IngressProofs` | types; `Inv`; handled at most once |
| `ServiceProofs` | `LastReorderWins`, `BadgesMatchBot`; `ServedIsAsked`; `MigratedOnce`; `NoticeNamesOpening`; every part behaves in `MCService` as it does alone, with its types |
| `TicketsProofs` | types; `Inv`; one open ticket per user; one operator per ticket; stored once; told closed is closed; closed is final; `TicketLife` implemented; unread is never overcounted; replies are in the feed; in Long Poll mode: the menu only without a ticket, the feed in order; and without faults: nothing lost, who is asked for a problem has no ticket |
| `AuthProofs` | types and `Inv`; one key per link; one session per challenge; a session has a key; a link is burnt only by an answer |
| `BusProofs` | types; an accepted event is somewhere; `Channel` implemented |
| `ChatProofs` | nothing shown twice; no ghost bubble; types of both halves; both halves keep their promises in `MCLive` |

Every invariant and every action property that a passing run checks is the
statement of a theorem.

Outbox.  `AtMostOnce` is not inductive: that a message is shown once follows
from VK ignoring a `random_id` it has seen, so the invariant must say that
different rows have different keys, that VK has seen only keys of rows, and
that `deliveries` counts exactly the seen ones (`KeysMatchDeliveries`); that
workers and the wire refer to stored rows (`RefersToRows`); and what the worker
knows in each phase (`WorkerMemory`), from which `sent` and `failed` are
justified.  All of it survives overlapping processes.  Finality and refinement
do not: they need `SingleWorker`, proved from `~Overlap`, because a row that
two workers hold can be booked twice.  `DeniedPeersMarked` is about the
process that is started first, until it ends (`FirstRun`), and needs `~Faults`:
an exception between the two statements of the 901 branch loses the mark.
`OvertakenOnlyIfRefused` needs `~Overlap` and `~Faults`, because the rows of a
batch that an exception leaves behind are claimed no more, and later ones pass
them; a process may still die anywhere and be started again.  These are the
constants of `outbox_live`.  The invariant is `NothingJumpsAhead`: what was
shown or is on the wire comes after every earlier row, except those VK has
answered an error for (`Cleared`), and the same is true of a row in a batch, up
to the rows of that batch.  It rests on the claim taking the oldest rows
that are due (`ClaimedFirst`), and on every claimed row being held by the worker until the
process dies (`ClaimedRowsAreHeld`).

Rate limiter.  The tokens left in the bucket plus those granted in the window
never exceed a full bucket plus the refill since the window began; `WithinBudget`
is the case of an empty bucket.  Whoever sleeps
finds a token at the end of his sleep (`SleepIsLongEnough`), because the division
that gives its length rounds up (`RoundsUp`) and only the holder of the lock
takes tokens.

Ingress.  A row of `processed_events` precedes everything done for its event
(`UnknownIsUnstarted`), one request takes itself for the first and only before
a task exists (`OneFirst`), and rows are cleaned up only when no request is
left (`ExpiredIsQuiet`).

Faq.  A list holds a topic once and only topics that were made (`ListsAreOfTopics`);
a committed reorder gives its topics the positions of that list, and the other
statements move none that is there, so its topics stay in its order
(`LastReorderWins`) while others are made, hidden or deleted.  A list that is up
to date is the table in its order, and the number of active topics up to a row is
the place of its topic in the bot's keyboard: `BadgesMatchBot`.

Attachments.  As long as the message is not edited, every copy of its list (the
column, the page, what a request has read), old or renewed, names the attachments
in the order they were sent, so the same index means the same one (`ListsAgree`).

Migrations.  A process knows of no file that is not recorded, and one that has
run a script without committing has the file to itself, and its record is not
there yet (`MigratingInv`, which contains `MigratedOnce`).

Working hours.  The second reading of the clock is of the hour of the first or
of the next one (`NoticeIsOfThisHour`); the rest is arithmetic modulo 24.

Tickets.  Handlers act on what they read statements ago, so the invariant says
which of it is still true: the ticket of a handler exists
(`TasksReferToTickets`); a message has one handler until it is stored
(`MessagesAreHandledOnce`), hence `StoredOnce`; who is about to introduce
himself has the ticket alone, and who is about to write a farewell names the
operator of the ticket or nobody (`OneIntroduction`), hence
`OneOperatorPerTicket`; what is said of the closing follows it
(`ClosedBeforeTold`), hence `ToldClosedIsClosed`.  Nothing is claimed of when a
ticket is rated: the code lets it be at any time.  The argument goes by effect:
every step leaves a ticket in its life (`Lifecycle`, from which
`ClosedIsFinal`), opens one only where the index has none (`Opening`, from which
`OneOpenTicketPerUser`), and either says nothing or ends its handler.  It uses
no assumption on `Mode` or `Faults`: it holds with overlapping handlers and
wherever they end.  `TicketLife` is implemented because of the same invariant:
who introduces himself or is named has the ticket, a rating finds a ticket that
exists, and the index is the guard of `OpenFor`; one more fact is needed, that a ticket is
made for a known user (`SendersKnown`).

What counts is proved beside it (`Books`): the replies that were sent, with
those that a handler has still to send, are no more than those in the feed
(`AnswersAreStored`); what is marked read is stored, in the feed whose counter the
same transaction resets (`ReadIsStored`); and so the counter of a ticket never
exceeds its unread messages, although new ones come between the two statements.

In Long Poll mode one handler of VK's events runs at a time
(`OneEventAtATime`), so that no ticket is open for the one that decided on it,
and it has the latest message (`InTurn`).  `MenuOnlyWithoutTicket` and `FeedInOrder` assume
`Mode = "longpoll"` and nothing else; in callback mode the menu of a text that was
decided on before may go out after the ticket is open, and `tickets_menu` shows
what is worse there, a text read before and decided on after.  `NothingLost` and `AwaitingMeansNoTicket` also assume
`~Faults`: a handler that ends half-way loses its message, and one that ends
between opening a ticket and `SetIdle` leaves the user awaited.  These are the
constants of `tickets_longpoll`.

Auth.  A consumed challenge is held by one ceremony and has opened nothing yet
(`ChallengesAreHeldOnce`), a burnt link by one ceremony or by the key it has
registered (`LinksAreHeldOnce`); the three properties that are proved follow.
An answer that is delivered twice is the hard case: two requests bring one key
and one challenge, and `KeysAreHeld` says that once one of them has stored the
key the challenge of the other is used.  Most steps are `Quiet`: they keep what
is used and take nothing; six are not, and have a lemma each.  `LinkNeedsAnswer` counts: the burnt links and
the ceremonies about to burn one are together no more than the answers
authenticators gave for a link (`AnswersSuffice`), whose sets are finite.

Bus.  A message is told of from the moment its row is there, and only a text of
a user is (`ToldMatchesFeed`); it enters each queue once (`QueuedOnce`), before it
can arrive, and is in no queue of the current socket once it has arrived
(`ArrivedLeftItsQueue`), because a new socket starts with an empty queue.  So
two queues with the same event never make it arrive twice: `ImplementsChannel`.
`AcceptedIsSomewhere` is inductive beside the types and these.

Chat.  The rows of a thread, of an answer and of an event are stored ones, a
reply is never one that is announced, and no answer has a row twice (`StoredFirst`):
a row gets into a thread by a load, which replaces it, or by an event, which is
dropped when the row is there, so `NothingShownTwice`.  A bubble belongs to a send
whose `Chat` is still on the screen (`BubblesAreMounted`), so that it takes the
bubble away however it ends: `NoGhostBubble`.

`PartsBehave` and `HalvesBehave` connect these theorems to the runs `service` and
`live`, which check several modules at once: a step of the composition is a step
of one part and a stutter of the others, so each keeps what is proved of it.

The inductive invariants were found with TLC, as invariants of the runs; no run
repeats them, the proofs cover them.

Only model-checked: what is about liveness and fairness (`EventuallySettled`,
`EventuallyHandled`, `EventuallyMigrated`, `EventuallyAnnounced`), which tlapm
cannot do without `ENABLED`; and the four violations, which are
counterexamples and have nothing to prove.

## 5. Not modelled, and the plan

Abstracted on purpose: payloads, texts, attachments, names, times; the length
of retry delays (a row is due now or later); the chance that two random ids of
one peer collide (1 in 2^31: ids are fresh per peer); the order in which
concurrent `INSERT`s of one `SERIAL` commit (ids appear in order); VK's other
error codes (all retried alike).

Not modelled: the lists of dialogs and the statistics (they only read); uploads
(VK keeps the file, the reply names it); the composer, the read mark and the
list of dialogs in the browser; `Settings`, `Stats`, `Login` and `Setup`, which
are forms over the API (the requests of the last two are in `Auth`); content
types and headers of the proxy; static files, reading the environment, load
tests and scripts.

The properties `SettledIsFinal`, `FailedIsJustified`, `SingleWorker` and
`ClosedIsFinal` are proved and have no run of their own: `ImplementsDelivery` and
`ImplementsTicketLife` contain what they say.  Nor has `ToldClosedIsClosed`, a
conjunct of the invariant in `TicketsProofs`.
`ClaimedRowsAreHeld`, the state that `EventuallySettled` follows from, is a
conjunct of `NothingJumpsAhead` and proved with it, without overlap and faults.

To add: `ClaimedRowsAreHeld` without overlap as a theorem of its own, and what
keeps the other liveness properties alive stated as safety and proved (an
acknowledged event has a task, was handled, or failed).

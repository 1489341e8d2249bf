------------------------------- MODULE Tickets -------------------------------
(***************************************************************************)
(* Support tickets: the handlers of VK events (src/app/handlers/user.py)   *)
(* and of the dashboard's requests (src/app/web/api.py) running as         *)
(* concurrent tasks over the tables users, tickets and ticket_messages     *)
(* (src/app/db/queries.py).                                                *)
(*                                                                         *)
(* Every handler is a coroutine: each database statement autocommits and   *)
(* is one step, and between two statements the other tasks run, or the     *)
(* task ends by an exception or with the process.  A request that is       *)
(* refused at once (404, 409) changes nothing and is no step.  A request   *)
(* arrives together with its first read: nothing comes before it but       *)
(* upsert_user, which touches no column modelled here.                     *)
(*                                                                         *)
(* Abstractions: texts, attachments and times are left out; so are answers *)
(* that name no ticket and change no state (menu on demand, FAQ, list of   *)
(* tickets, request to describe the problem, thanks, office hours).  What  *)
(* is put in the outbox about a ticket is the sequence "told".             *)
(***************************************************************************)
EXTENDS Naturals, Sequences, FiniteSets, Functions

CONSTANTS
    Users,        \* VK users
    TicketIds,    \* tickets.id
    Msgs,         \* messages of users, numbered as they arrive
    Operators,    \* the personas of personas.py
    Ratings,      \* 1..5
    Tasks,        \* handlers that can run at one time
    Mode,         \* VK_MODE: "callback" or "longpoll"
    Null,         \* SQL NULL
    MaxRequests,  \* bound: requests in a behaviour
    Faults        \* whether a handler can end before its last statement

ASSUME IdsAssumption == TicketIds \subseteq Nat /\ Msgs \subseteq Nat \ {0}
ASSUME ModeAssumption == Mode \in {"callback", "longpoll"}
ASSUME FaultsAssumption == Faults \in BOOLEAN
ASSUME BoundAssumption == MaxRequests \in Nat
ASSUME NullAssumption ==
    Null \notin Users \cup TicketIds \cup Msgs \cup Operators \cup Ratings

VARIABLES
    userState,  \* column users.state
    canWrite,   \* the users whose users.can_write is TRUE
    tickets,    \* table tickets
    feed,       \* table ticket_messages of each ticket, in the order of id
    read,       \* the incoming messages whose read_at is set
    told,       \* what the outbox was given about each ticket, in order
    fate,       \* what became of each message of a user
    task,       \* the handlers that are running
    requests    \* how many requests have arrived

rows == <<tickets, feed, read>>
vars == <<userState, canWrite, tickets, feed, read, told, fate, task, requests>>

Ticket == [status : {"none", "open", "in_progress", "closed"},
           user : Users \cup {Null}, rating : Ratings \cup {Null},
           operator : Operators \cup {Null}, unread : Nat]

NoTicket == [status |-> "none", user |-> Null, rating |-> Null,
             operator |-> Null, unread |-> 0]

Notice == [what : {"created", "intro", "reply", "closed", "farewell"},
           operator : Operators \cup {Null}]

Fate == {"new", "handled", "stored", "menu", "lost"}

(***************************************************************************)
(* The statement a handler executes next, and its local variables: the     *)
(* sender of a VK event (Null in a dashboard request), the ticket and the  *)
(* message at hand, whom it will write to (Null: nobody), the operator it  *)
(* will name, and the unread messages its transaction has marked.          *)
(***************************************************************************)
Label == {"free", "await", "rate", "add", "get_user", "menu", "create",
          "reread", "add_first", "idle", "tell_created", "close",
          "tell_closed", "reply", "read", "zero", "tell_reply", "assign",
          "tell_intro"}

Task == [at : Label, user : Users \cup {Null}, ticket : TicketIds \cup {Null},
         msg : Msgs \cup {Null}, peer : Users \cup {Null},
         operator : Operators \cup {Null}, marked : SUBSET Msgs]

NoTask == [at |-> "free", user |-> Null, ticket |-> Null, msg |-> Null,
           peer |-> Null, operator |-> Null, marked |-> {}]

\* The labels at which a handler has a message that is not stored yet.
OnMessage == {"add", "get_user", "menu", "create", "reread", "add_first"}

Out == 0   \* a message of the operator in the feed

TypeOK ==
    /\ userState \in [Users -> {"idle", "awaiting_problem"}]
    /\ canWrite \subseteq Users
    /\ tickets \in [TicketIds -> Ticket]
    /\ feed \in [TicketIds -> Seq(Msgs \cup {Out})]
    /\ read \subseteq Msgs
    /\ told \in [TicketIds -> Seq(Notice)]
    /\ fate \in [Msgs -> Fate]
    /\ task \in [Tasks -> Task]
    /\ requests \in 0..MaxRequests

Init ==
    /\ userState = [u \in Users |-> "idle"]
    /\ canWrite = Users
    /\ tickets = [t \in TicketIds |-> NoTicket]
    /\ feed = [t \in TicketIds |-> <<>>]
    /\ read = {}
    /\ told = [t \in TicketIds |-> <<>>]
    /\ fate = [m \in Msgs |-> "new"]
    /\ task = [k \in Tasks |-> NoTask]
    /\ requests = 0

-----------------------------------------------------------------------------
Open(t) == tickets[t].status \in {"open", "in_progress"}

\* get_open_ticket: at most one, by the unique index tickets_one_open_per_user.
OpenOf(u) == {t \in TicketIds : Open(t) /\ tickets[t].user = u}

Unread(t) == {m \in Msgs : m \in Range(feed[t]) /\ m \notin read}

Begin(k, locals) ==
    /\ task[k].at = "free"
    /\ requests < MaxRequests
    /\ requests' = requests + 1
    /\ task' = [task EXCEPT ![k] = locals]

Goto(k, label) ==
    task' = [task EXCEPT ![k].at = label] /\ UNCHANGED requests

Finish(k) == task' = [task EXCEPT ![k] = NoTask] /\ UNCHANGED requests

Tell(t, what, operator) ==
    told' = [told EXCEPT ![t] =
               Append(@, [what |-> what, operator |-> operator])]

\* Seeded bug: Long Poll does not wait for the handler.
MayArriveAlways == TRUE

\* Callback API starts a task for each event; Long Poll awaits each handler.
MayArrive == Mode = "longpoll" => \A k \in Tasks : task[k].user = Null

-----------------------------------------------------------------------------
(* VK events: _start_ticket, _close_ticket, _save_rating.  The last two go *)
(* by the id in the payload and what the tables say of it, not by which    *)
(* keyboards were sent: an open ticket of the user can be closed, any      *)
(* ticket of his be rated, in whatever status it is.                       *)

TicketNew(k, u) ==
    /\ MayArrive
    /\ \/ \E t \in OpenOf(u) :
            Begin(k, [NoTask EXCEPT !.at = "tell_created", !.user = u,
                                    !.ticket = t])
       \/ /\ OpenOf(u) = {}
          /\ Begin(k, [NoTask EXCEPT !.at = "await", !.user = u])
    /\ UNCHANGED <<userState, canWrite, rows, told, fate>>

AwaitProblem(k) ==
    /\ task[k].at = "await"
    /\ userState' = [userState EXCEPT ![task[k].user] = "awaiting_problem"]
    /\ Finish(k)
    /\ UNCHANGED <<canWrite, rows, told, fate>>

TicketClose(k, u, t) ==
    /\ MayArrive
    /\ t \in OpenOf(u)
    /\ Begin(k, [NoTask EXCEPT !.at = "close", !.user = u, !.ticket = t,
                               !.peer = u])
    /\ UNCHANGED <<userState, canWrite, rows, told, fate>>

Rate(k, u, t) ==
    /\ MayArrive
    /\ tickets[t].user = u
    /\ Begin(k, [NoTask EXCEPT !.at = "rate", !.user = u, !.ticket = t])
    /\ UNCHANGED <<userState, canWrite, rows, told, fate>>

SaveRating(k) ==
    /\ task[k].at = "rate"
    /\ \E v \in Ratings :
         tickets' = [tickets EXCEPT ![task[k].ticket].rating = v]
    /\ Finish(k)
    /\ UNCHANGED <<userState, canWrite, feed, read, told, fate>>

-----------------------------------------------------------------------------
(* VK events: _handle_free_text.                                           *)

Text(k, u, m) ==
    /\ MayArrive
    /\ fate[m] = "new"
    /\ \A n \in Msgs : n < m => fate[n] # "new"
    /\ \/ \E t \in OpenOf(u) :
            Begin(k, [NoTask EXCEPT !.at = "add", !.user = u, !.ticket = t,
                                    !.msg = m])
       \/ /\ OpenOf(u) = {}
          /\ Begin(k, [NoTask EXCEPT !.at = "get_user", !.user = u, !.msg = m])
    /\ fate' = [fate EXCEPT ![m] = "handled"]
    /\ UNCHANGED <<userState, canWrite, rows, told>>

GetUser(k) ==
    /\ task[k].at = "get_user"
    /\ \/ userState[task[k].user] = "awaiting_problem" /\ Goto(k, "create")
       \/ userState[task[k].user] = "idle" /\ Goto(k, "menu")
    /\ UNCHANGED <<userState, canWrite, rows, told, fate>>

SendMenu(k) ==
    /\ task[k].at = "menu"
    /\ fate' = [fate EXCEPT ![task[k].msg] = "menu"]
    /\ Finish(k)
    /\ UNCHANGED <<userState, canWrite, rows, told>>

\* Seeded bug: the index covers only the status 'open'.
NoConflictTaken(u) ==
    ~\E t \in TicketIds : tickets[t].status = "open" /\ tickets[t].user = u

\* The index tickets_one_open_per_user has no row of the user.
NoConflict(u) == OpenOf(u) = {}

\* INSERT ... ON CONFLICT DO NOTHING: an open ticket sends it to a second read.
CreateTicket(k) ==
    /\ task[k].at = "create"
    /\ \/ /\ NoConflict(task[k].user)
          /\ \E t \in TicketIds :
               /\ \A s \in TicketIds : tickets[s].status # "none" <=> s < t
               /\ tickets' = [tickets EXCEPT ![t] =
                    [NoTicket EXCEPT !.status = "open", !.user = task[k].user]]
               /\ task' = [task EXCEPT ![k].ticket = t, ![k].at = "add_first"]
               /\ UNCHANGED requests
       \/ /\ ~NoConflict(task[k].user)
          /\ Goto(k, "reread")
          /\ UNCHANGED tickets
    /\ UNCHANGED <<userState, canWrite, feed, read, told, fate>>

\* existing["id"]: when the ticket has been closed, a TypeError ends the task.
ReadExisting(k) ==
    /\ task[k].at = "reread"
    /\ \/ \E t \in OpenOf(task[k].user) :
            /\ task' = [task EXCEPT ![k].ticket = t, ![k].at = "add_first"]
            /\ UNCHANGED <<requests, fate>>
       \/ /\ OpenOf(task[k].user) = {}
          /\ fate' = [fate EXCEPT ![task[k].msg] = "lost"]
          /\ Finish(k)
    /\ UNCHANGED <<userState, canWrite, rows, told>>

\* Seeded bug: an operator's message counts as unread too.
CountUnreadAll(n, direction) == n + 1

\* unread_count after a message.
CountUnread(n, direction) == IF direction = "in" THEN n + 1 ELSE n

\* Seeded bugs: the handler does not return once the message is stored in the
\* open ticket; the user's state is not reset.
AfterAddGoesOn(k) ==
    \/ task[k].at = "add" /\ Goto(k, "get_user")
    \/ task[k].at = "add_first" /\ Goto(k, "idle")

AfterAddAwaiting(k) ==
    \/ task[k].at = "add" /\ Finish(k)
    \/ task[k].at = "add_first" /\ Goto(k, "tell_created")

\* An open ticket needs no more; a new one has the user's state reset.
AfterAdd(k) ==
    \/ task[k].at = "add" /\ Finish(k)
    \/ task[k].at = "add_first" /\ Goto(k, "idle")

\* add_message, direction 'in': one transaction.
AddMessage(k) ==
    /\ task[k].at \in {"add", "add_first"}
    /\ feed' = [feed EXCEPT ![task[k].ticket] = Append(@, task[k].msg)]
    /\ tickets' = [tickets EXCEPT ![task[k].ticket].unread =
                                   CountUnread(@, "in")]
    /\ fate' = [fate EXCEPT ![task[k].msg] = "stored"]
    /\ AfterAdd(k)
    /\ UNCHANGED <<userState, canWrite, read, told>>

SetIdle(k) ==
    /\ task[k].at = "idle"
    /\ userState' = [userState EXCEPT ![task[k].user] = "idle"]
    /\ Goto(k, "tell_created")
    /\ UNCHANGED <<canWrite, rows, told, fate>>

TellCreated(k) ==
    /\ task[k].at = "tell_created"
    /\ Tell(task[k].ticket, "created", Null)
    /\ Finish(k)
    /\ UNCHANGED <<userState, canWrite, rows, fate>>

-----------------------------------------------------------------------------
(* The dashboard: reply, mark_read, close, take.                           *)

\* Whom the handler will write to: read with the ticket, used at the end.
Peer(t) == IF tickets[t].user \in canWrite THEN tickets[t].user ELSE Null

\* Seeded bug: the answer goes out before it is stored.
ReplyUnstored(k, t) ==
    /\ tickets[t].status # "none"
    /\ Peer(t) # Null
    /\ Begin(k, [NoTask EXCEPT !.at = "tell_reply", !.ticket = t,
                               !.peer = Peer(t)])
    /\ UNCHANGED <<userState, canWrite, rows, told, fate>>

Reply(k, t) ==
    /\ tickets[t].status # "none"
    /\ Peer(t) # Null
    /\ Begin(k, [NoTask EXCEPT !.at = "reply", !.ticket = t, !.peer = Peer(t)])
    /\ UNCHANGED <<userState, canWrite, rows, told, fate>>

\* Seeded bugs: an answer reopens a ticket; it gives an unknown status.
StatusReopened(status) == "in_progress"
StatusAnswered(status) == IF status = "open" THEN "answered" ELSE status

\* The effect of an operator's message on the status of its ticket.
StatusAfterReply(status) == IF status = "open" THEN "in_progress" ELSE status

\* add_message, direction 'out': one transaction.
AddReply(k) ==
    /\ task[k].at = "reply"
    /\ feed' = [feed EXCEPT ![task[k].ticket] = Append(@, Out)]
    /\ tickets' = [tickets EXCEPT ![task[k].ticket].status = StatusAfterReply(@),
                                  ![task[k].ticket].unread = CountUnread(@, "out")]
    /\ Goto(k, "read")
    /\ UNCHANGED <<userState, canWrite, read, told, fate>>

MarkRead(k, t) ==
    /\ tickets[t].status # "none"
    /\ Begin(k, [NoTask EXCEPT !.at = "read", !.ticket = t])
    /\ UNCHANGED <<userState, canWrite, rows, told, fate>>

\* mark_read, first statement: the messages it sees, not yet committed.
MarkMessages(k) ==
    /\ task[k].at = "read"
    /\ task' = [task EXCEPT ![k].marked = Unread(task[k].ticket),
                            ![k].at = "zero"]
    /\ UNCHANGED <<userState, canWrite, rows, told, fate, requests>>

\* mark_read, second statement and commit; reply goes on to write to the user.
ZeroUnread(k) ==
    /\ task[k].at = "zero"
    /\ read' = read \cup task[k].marked
    /\ tickets' = [tickets EXCEPT ![task[k].ticket].unread = 0]
    /\ \/ task[k].peer = Null /\ Finish(k)
       \/ task[k].peer # Null /\ Goto(k, "tell_reply")
    /\ UNCHANGED <<userState, canWrite, feed, told, fate>>

TellReply(k) ==
    /\ task[k].at = "tell_reply"
    /\ Tell(task[k].ticket, "reply", Null)
    /\ Finish(k)
    /\ UNCHANGED <<userState, canWrite, rows, fate>>

Close(k, t) ==
    /\ Open(t)
    /\ Begin(k, [NoTask EXCEPT !.at = "close", !.ticket = t, !.peer = Peer(t),
                               !.operator = tickets[t].operator])
    /\ UNCHANGED <<userState, canWrite, rows, told, fate>>

\* close_ticket, for the user's button and for the dashboard.
CloseTicket(k) ==
    /\ task[k].at = "close"
    /\ tickets' = [tickets EXCEPT ![task[k].ticket].status = "closed",
                                  ![task[k].ticket].rating = Null]
    /\ Goto(k, "tell_closed")
    /\ UNCHANGED <<userState, canWrite, feed, read, told, fate>>

TellClosed(k) ==
    /\ task[k].at = "tell_closed"
    /\ \/ task[k].peer = Null /\ UNCHANGED told
       \/ /\ task[k].peer # Null
          /\ Tell(task[k].ticket,
                  IF task[k].user = Null THEN "farewell" ELSE "closed",
                  task[k].operator)
    /\ Finish(k)
    /\ UNCHANGED <<userState, canWrite, rows, fate>>

Take(k, t, o) ==
    /\ Open(t)
    /\ tickets[t].operator = Null
    /\ Begin(k, [NoTask EXCEPT !.at = "assign", !.ticket = t, !.peer = Peer(t),
                               !.operator = o])
    /\ UNCHANGED <<userState, canWrite, rows, told, fate>>

\* Seeded bug: take_ticket trusts the check made before it.
TakeableTwice(t) == tickets[t].status # "closed"

\* The WHERE clause of take_ticket.
Takeable(t) == tickets[t].operator = Null /\ tickets[t].status # "closed"

TakeTicket(k) ==
    /\ task[k].at = "assign"
    /\ LET t == task[k].ticket
       IN  \/ /\ Takeable(t)
              /\ tickets' = [tickets EXCEPT ![t].operator = task[k].operator,
                                 ![t].status = StatusAfterReply(@)]
              /\ Goto(k, "tell_intro")
           \/ /\ ~Takeable(t)
              /\ Finish(k)
              /\ UNCHANGED tickets
    /\ UNCHANGED <<userState, canWrite, feed, read, told, fate>>

TellIntro(k) ==
    /\ task[k].at = "tell_intro"
    /\ \/ task[k].peer = Null /\ UNCHANGED told
       \/ /\ task[k].peer # Null
          /\ Tell(task[k].ticket, "intro", task[k].operator)
    /\ Finish(k)
    /\ UNCHANGED <<userState, canWrite, rows, fate>>

-----------------------------------------------------------------------------
\* An exception or the end of the process between two statements.
Abort(k) ==
    /\ Faults
    /\ task[k].at # "free"
    /\ fate' = [m \in Msgs |-> IF m = task[k].msg /\ task[k].at \in OnMessage
                               THEN "lost" ELSE fate[m]]
    /\ Finish(k)
    /\ UNCHANGED <<userState, canWrite, rows, told>>

\* The outbox worker meets error 901 (module Outbox, MarkCannotWrite).
MarkCannotWrite(u) ==
    /\ canWrite' = canWrite \ {u}
    /\ UNCHANGED <<userState, rows, told, fate, task, requests>>

UserRequest(k) ==
    \E u \in Users :
       \/ TicketNew(k, u)
       \/ \E t \in TicketIds : TicketClose(k, u, t) \/ Rate(k, u, t)
       \/ \E m \in Msgs : Text(k, u, m)

UserStep(k) ==
    \/ AwaitProblem(k) \/ SaveRating(k) \/ GetUser(k) \/ SendMenu(k)
    \/ CreateTicket(k) \/ ReadExisting(k) \/ AddMessage(k) \/ SetIdle(k)
    \/ TellCreated(k)

DashboardRequest(k) ==
    \E t \in TicketIds :
       \/ Reply(k, t) \/ MarkRead(k, t) \/ Close(k, t)
       \/ \E o \in Operators : Take(k, t, o)

DashboardStep(k) ==
    \/ AddReply(k) \/ MarkMessages(k) \/ ZeroUnread(k) \/ TellReply(k)
    \/ CloseTicket(k) \/ TellClosed(k) \/ TakeTicket(k) \/ TellIntro(k)

Next ==
    \/ \E k \in Tasks : \/ UserRequest(k) \/ UserStep(k)
                        \/ DashboardRequest(k) \/ DashboardStep(k)
                        \/ Abort(k)
    \/ \E u \in Users : MarkCannotWrite(u)

Spec == Init /\ [][Next]_vars

-----------------------------------------------------------------------------
(* Properties of every interleaving.                                       *)

Count(t, what) == Cardinality({n \in DOMAIN told[t] : told[t][n].what = what})

\* The outbox was given such a message about the ticket.
HasBeenTold(t, whats) == \E n \in DOMAIN told[t] : told[t][n].what \in whats

\* What a user is told when his ticket is closed, by him or by an operator.
Closings == {"closed", "farewell"}

\* A user has at most one ticket that is not closed: the two events that can
\* both find none (user.py:227) cannot both create one.
OneOpenTicketPerUser ==
    \A u \in Users : \A s, t \in OpenOf(u) : s = t

\* The persona is permanent (migration 003): every operator the user has been
\* shown, in an introduction or in a farewell, is the one the ticket is taken
\* by, and the introduction is made once, however many take it at one time.
OneOperatorPerTicket ==
    \A t \in TicketIds :
       /\ \A i, j \in DOMAIN told[t] :
             told[t][i].what = "intro" /\ told[t][j].what = "intro" => i = j
       /\ \A i \in DOMAIN told[t] :
             told[t][i].operator \in {Null, tickets[t].operator}

\* The badge of the dashboard never counts a message that is already read:
\* unread_count is at most the number of unread messages (queries.py:195).
UnreadNeverOvercounts ==
    \A t \in TicketIds : tickets[t].unread <= Cardinality(Unread(t))

\* The operator's messages in the feed of a ticket.
Replies(t) == {n \in DOMAIN feed[t] : feed[t][n] = Out}

\* The user never gets an answer that the feed of the ticket does not show.
RepliesAreInTheFeed ==
    \A t \in TicketIds : Count(t, "reply") <= Cardinality(Replies(t))

\* A message of a user is in the feed of one ticket, and once.
StoredOnce ==
    \A t, s \in TicketIds : \A i \in DOMAIN feed[t], j \in DOMAIN feed[s] :
       feed[t][i] = feed[s][j] /\ feed[t][i] # Out => t = s /\ i = j

\* Nothing reopens a ticket or changes who took it once it is closed: not a
\* reply, an assignment or a message that found it open before.
ClosedIsFinal ==
    [][\A t \in TicketIds : tickets[t].status = "closed" =>
         /\ tickets'[t].status = "closed"
         /\ tickets'[t].operator = tickets[t].operator]_vars

\* A user who was told that his ticket is closed, and asked to rate it, has it
\* closed for good, whatever handlers that found it open before still do.
ToldClosedIsClosed ==
    \A t \in TicketIds :
       HasBeenTold(t, Closings) => tickets[t].status = "closed"

\* The ticket that TicketLife speaks of: its row without the counter, and what
\* the outbox was given about it.
LifeOf(t) == [status |-> tickets[t].status, user |-> tickets[t].user,
              operator |-> tickets[t].operator, rating |-> tickets[t].rating]

Life == INSTANCE TicketLife WITH
    ticket <- [t \in TicketIds |-> LifeOf(t)],
    introductions <- [t \in TicketIds |-> Count(t, "intro")],
    named <- [t \in TicketIds |->
                {told[t][n].operator : n \in DOMAIN told[t]} \ {Null}]

\* Whatever the handlers of VK events, the dashboard's requests and the ends of
\* tasks do between one another's statements, each ticket lives the life that
\* TicketLife describes: no handler that found it open (user.py:227,
\* api.py:140) reopens it, gives it to somebody else or names anybody else.
ImplementsTicketLife == Life!Spec

-----------------------------------------------------------------------------
(* Why they hold: the inductive invariant proved in TicketsProofs.         *)

\* The labels at which a handler works on a ticket.
OnTicket == {"rate", "add", "add_first", "idle", "tell_created", "close",
             "tell_closed", "reply", "read", "zero", "tell_reply", "assign",
             "tell_intro"}
\* Handlers work on tickets that exist; ids that do not exist yet are blank.
TasksReferToTickets ==
    /\ \A k \in Tasks : task[k].at \in OnTicket =>
          task[k].ticket \in TicketIds /\ tickets[task[k].ticket].status # "none"
    /\ \A t \in TicketIds : tickets[t].status = "none" =>
          tickets[t] = NoTicket /\ told[t] = <<>> /\ feed[t] = <<>>

\* A message is in the hands of one handler until it is in a feed.
MessagesAreHandledOnce ==
    /\ \A k \in Tasks : task[k].at \in OnMessage =>
          task[k].msg \in Msgs /\ fate[task[k].msg] = "handled"
    /\ \A k, l \in Tasks :
          /\ task[k].at \in OnMessage /\ task[l].at \in OnMessage
          /\ task[k].msg = task[l].msg
          => k = l
    /\ \A t \in TicketIds : \A i \in DOMAIN feed[t] :
          feed[t][i] # Out => fate[feed[t][i]] = "stored"

\* Who is about to introduce himself has the ticket, alone, and has not yet;
\* who is about to close it names the one who has it, or nobody.
OneIntroduction ==
    /\ \A k \in Tasks : task[k].at = "tell_intro" =>
          /\ task[k].operator = tickets[task[k].ticket].operator
          /\ ~HasBeenTold(task[k].ticket, {"intro"})
    /\ \A k, l \in Tasks :
          /\ task[k].at = "tell_intro" /\ task[l].at = "tell_intro"
          /\ task[k].ticket = task[l].ticket
          => k = l
    /\ \A k \in Tasks : task[k].at \in {"assign", "tell_intro"} =>
          task[k].operator \in Operators
    /\ \A k \in Tasks : task[k].at \in {"close", "tell_closed"} =>
          task[k].operator \in {Null, tickets[task[k].ticket].operator}
    /\ \A t \in TicketIds : HasBeenTold(t, {"intro"}) => tickets[t].operator # Null

\* What is said of the closing follows it.
ClosedBeforeTold ==
    /\ ToldClosedIsClosed
    /\ \A k \in Tasks : task[k].at = "tell_closed" =>
          tickets[task[k].ticket].status = "closed"

Inv ==
    /\ TasksReferToTickets
    /\ MessagesAreHandledOnce
    /\ OneIntroduction
    /\ ClosedBeforeTold
    /\ OneOpenTicketPerUser
    /\ OneOperatorPerTicket
    /\ StoredOnce

\* Answers that are in the feed and that a handler has still to send.
Answering(t) ==
    {k \in Tasks : /\ task[k].ticket = t
                   /\ \/ task[k].at = "tell_reply"
                      \/ task[k].at \in {"read", "zero"} /\ task[k].peer # Null}

AnswersAreStored ==
    \A t \in TicketIds :
       /\ IsFiniteSet(Answering(t))
       /\ Count(t, "reply") + Cardinality(Answering(t)) <= Cardinality(Replies(t))

\* What is read, or about to be, is in the feed: in the one whose counter the
\* same transaction sets to 0.
ReadIsStored ==
    /\ \A m \in read : fate[m] = "stored"
    /\ \A k \in Tasks : task[k].at = "zero" =>
          task[k].marked \subseteq Range(feed[task[k].ticket])

Books ==
    /\ AnswersAreStored
    /\ ReadIsStored
    /\ \A t \in TicketIds : IsFiniteSet(Unread(t))
    /\ UnreadNeverOvercounts

-----------------------------------------------------------------------------
(* Properties of one event at a time (Mode = "longpoll").                  *)

\* A message is answered with the menu only when no ticket is open (the design,
\* "Сценарий в ВК": while a ticket is open every message of the client falls
\* into it).
MenuOnlyWithoutTicket ==
    [][\A k \in Tasks : SendMenu(k) => OpenOf(task[k].user) = {}]_vars

\* The feed has the messages of the user in the order he wrote them.
FeedInOrder ==
    \A t \in TicketIds : \A i, j \in DOMAIN feed[t] :
       i < j /\ feed[t][i] # Out /\ feed[t][j] # Out => feed[t][i] < feed[t][j]

\* A user is asked for a problem only while he has no open ticket, except in
\* the middle of opening one: otherwise a later message would open a ticket
\* that nobody asked for.  Needs handlers that run to their end.
AwaitingMeansNoTicket ==
    \A u \in Users : userState[u] = "awaiting_problem" /\ OpenOf(u) # {} =>
       \E k \in Tasks : task[k].user = u /\ task[k].at \in {"add_first", "idle"}

\* No message of a user disappears when nothing fails: what create_ticket
\* promises ("returns the id of the open ticket, creating it if needed").
NothingLost == \A m \in Msgs : fate[m] # "lost"

\* Long Poll: one handler of an event at a time, so that what it has read of
\* the open ticket is still so when it uses it, and it has the latest message.
OnEvent == {"await", "get_user", "menu", "create", "reread", "add",
            "add_first", "idle"}

OneEventAtATime ==
    /\ \A k, l \in Tasks : task[k].user # Null /\ task[l].user # Null => k = l
    /\ \A k \in Tasks : task[k].at \in OnEvent => task[k].user # Null
    /\ \A k \in Tasks : task[k].at \in {"await", "get_user", "menu", "create"} =>
          OpenOf(task[k].user) = {}
    /\ \A k \in Tasks : task[k].at # "reread"

InTurn ==
    /\ \A m, n \in Msgs : m < n /\ fate[n] # "new" => fate[m] # "new"
    /\ \A k \in Tasks : task[k].at \in OnMessage =>
          \A n \in Msgs : fate[n] # "new" => n <= task[k].msg

\* A user who writes after the farewell gets what it promised (texts.py:34):
\* the message opens a new ticket, or falls into the one he has opened since.
WritingReopens ==
    [][\A k \in Tasks, u \in Users, m \in Msgs :
          /\ Text(k, u, m)
          /\ \E t \in TicketIds :
                tickets[t].user = u /\ HasBeenTold(t, {"farewell"})
          => OpenOf(u) # {} \/ userState[u] = "awaiting_problem"]_vars
=============================================================================

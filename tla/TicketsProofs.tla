---------------------------- MODULE TicketsProofs ----------------------------
(***************************************************************************)
(* What the database keeps of a ticket and what its user is told stay      *)
(* consistent, for any number of users, tickets, messages, personas and    *)
(* handlers, in both modes, and wherever handlers end.                     *)
(***************************************************************************)
EXTENDS Tickets, TLAPS, FiniteSetTheorems

-----------------------------------------------------------------------------
(* The three things a step does to the running handlers.                   *)

LEMMA NoTaskType == NoTask \in Task /\ NoTask.at = "free"
  BY NullAssumption DEF NoTask, Task, Label

\* A handler starts with the given local variables.
LEMMA Begun ==
    ASSUME TypeOK, NEW k \in Tasks, NEW r \in Task, Begin(k, r)
    PROVE  /\ task' \in [Tasks -> Task]
           /\ requests' \in 0..MaxRequests
           /\ task'[k] = r
           /\ task[k].at = "free"
           /\ \A l \in Tasks : l # k => task'[l] = task[l]
  BY BoundAssumption DEF TypeOK, Begin

\* A handler goes on to its next statement.
LEMMA GoneTo ==
    ASSUME TypeOK, NEW k \in Tasks, NEW label \in Label, Goto(k, label)
    PROVE  /\ task' \in [Tasks -> Task]
           /\ requests' = requests
           /\ task'[k] = [task[k] EXCEPT !.at = label]
           /\ task'[k].at = label
           /\ task'[k].user = task[k].user
           /\ task'[k].ticket = task[k].ticket
           /\ task'[k].msg = task[k].msg
           /\ task'[k].peer = task[k].peer
           /\ task'[k].operator = task[k].operator
           /\ \A l \in Tasks : l # k => task'[l] = task[l]
  <1>1. task[k] \in Task
    BY DEF TypeOK
  <1>2. [task[k] EXCEPT !.at = label] \in Task
    BY <1>1 DEF Task
  <1>3. task' = [task EXCEPT ![k] = [task[k] EXCEPT !.at = label]]
    BY DEF Goto
  <1>4. task' \in [Tasks -> Task] /\ task'[k] = [task[k] EXCEPT !.at = label]
    BY <1>2, <1>3 DEF TypeOK
  <1>5. \A l \in Tasks : l # k => task'[l] = task[l]
    BY <1>3 DEF TypeOK
  <1>6. requests' = requests
    BY DEF Goto
  <1>7. /\ [task[k] EXCEPT !.at = label].at = label
        /\ [task[k] EXCEPT !.at = label].user = task[k].user
        /\ [task[k] EXCEPT !.at = label].ticket = task[k].ticket
        /\ [task[k] EXCEPT !.at = label].msg = task[k].msg
        /\ [task[k] EXCEPT !.at = label].peer = task[k].peer
        /\ [task[k] EXCEPT !.at = label].operator = task[k].operator
    BY <1>1 DEF Task
  <1> QED  BY <1>4, <1>5, <1>6, <1>7

\* A handler ends.
LEMMA Finished ==
    ASSUME TypeOK, NEW k \in Tasks, Finish(k)
    PROVE  /\ task' \in [Tasks -> Task]
           /\ requests' = requests
           /\ task'[k] = NoTask
           /\ task'[k].at = "free"
           /\ \A l \in Tasks : l # k => task'[l] = task[l]
  BY NoTaskType DEF TypeOK, Finish

\* The outbox is given one more message about a ticket.
LEMMA Told ==
    ASSUME TypeOK, NEW t \in TicketIds, NEW what, NEW operator,
           [what |-> what, operator |-> operator] \in Notice,
           Tell(t, what, operator)
    PROVE  /\ told' \in [TicketIds -> Seq(Notice)]
           /\ DOMAIN told'[t] = DOMAIN told[t] \cup {Len(told[t]) + 1}
           /\ Len(told[t]) + 1 \notin DOMAIN told[t]
           /\ \A i \in DOMAIN told[t] : told'[t][i] = told[t][i]
           /\ told'[t][Len(told[t]) + 1] = [what |-> what, operator |-> operator]
           /\ \A s \in TicketIds : s # t => told'[s] = told[s]
  <1>1. told[t] \in Seq(Notice)
    BY DEF TypeOK
  <1>2. told' = [told EXCEPT ![t] = Append(told[t],
                                     [what |-> what, operator |-> operator])]
    BY DEF Tell
  <1>3. Append(told[t], [what |-> what, operator |-> operator]) \in Seq(Notice)
    BY <1>1
  <1> QED  BY <1>1, <1>2, <1>3 DEF TypeOK

\* A handler that goes on with the ticket t.
LEMMA GoneToTicket ==
    ASSUME TypeOK, NEW k \in Tasks, NEW label \in Label, NEW t \in TicketIds,
           task' = [task EXCEPT ![k].ticket = t, ![k].at = label]
    PROVE  /\ task' \in [Tasks -> Task]
           /\ task'[k].at = label
           /\ task'[k].user = task[k].user
           /\ task'[k].ticket = t
           /\ task'[k].msg = task[k].msg
           /\ task'[k].operator = task[k].operator
           /\ \A l \in Tasks : l # k => task'[l] = task[l]
  <1> DEFINE r == [task[k] EXCEPT !.ticket = t, !.at = label]
  <1>1. task[k] \in Task
    BY DEF TypeOK
  <1>2. r \in Task
    BY <1>1 DEF Task
  <1>3. task' = [task EXCEPT ![k] = r]
    BY DEF TypeOK
  <1>4. task' \in [Tasks -> Task] /\ task'[k] = r
    BY <1>2, <1>3 DEF TypeOK
  <1>5. \A l \in Tasks : l # k => task'[l] = task[l]
    BY <1>3 DEF TypeOK
  <1>6. /\ r.at = label
        /\ r.user = task[k].user
        /\ r.ticket = t
        /\ r.msg = task[k].msg
        /\ r.operator = task[k].operator
    BY <1>1 DEF Task
  <1> HIDE DEF r
  <1> QED  BY <1>4, <1>5, <1>6

\* A statement changes the row of one ticket.
LEMMA RowChanged ==
    ASSUME TypeOK, NEW t \in TicketIds, NEW row \in Ticket,
           tickets' = [tickets EXCEPT ![t] = row]
    PROVE  /\ tickets' \in [TicketIds -> Ticket]
           /\ tickets'[t] = row
           /\ \A s \in TicketIds : s # t => tickets'[s] = tickets[s]
  BY DEF TypeOK

\* A handler that works on a ticket has one.
LEMMA AtWork ==
    ASSUME TypeOK, TasksReferToTickets, NEW k \in Tasks, task[k].at \in OnTicket
    PROVE  /\ task[k] \in Task
           /\ task[k].ticket \in TicketIds
           /\ tickets[task[k].ticket] \in Ticket
           /\ tickets[task[k].ticket].status \in {"open", "in_progress", "closed"}
  <1>1. task[k] \in Task /\ task[k].ticket \in TicketIds
    BY DEF TypeOK, TasksReferToTickets
  <1>2. tickets[task[k].ticket] \in Ticket
    BY <1>1 DEF TypeOK
  <1>3. tickets[task[k].ticket].status # "none"
    BY DEF TasksReferToTickets
  <1> QED  BY <1>1, <1>2, <1>3 DEF Ticket

-----------------------------------------------------------------------------
(* What a step does to types and to the life of a ticket.                  *)

\* A ticket that exists goes on existing, keeps its user and, from the moment
\* it has one, its operator; closed, it stays closed, taken or not.
Lifecycle ==
    \A t \in TicketIds :
       /\ tickets[t].status # "none" =>
            tickets'[t].status # "none" /\ tickets'[t].user = tickets[t].user
       /\ tickets[t].status = "closed" =>
            /\ tickets'[t].status = "closed"
            /\ tickets'[t].operator = tickets[t].operator
       /\ tickets[t].operator # Null => tickets'[t].operator = tickets[t].operator

\* The one way a ticket comes to be open.
Opening ==
    \A t \in TicketIds :
       /\ tickets'[t].status \in {"open", "in_progress"}
       => \/ Open(t) /\ tickets'[t].user = tickets[t].user
          \/ /\ NoConflict(tickets'[t].user)
             /\ \A s \in TicketIds : s # t => tickets'[s] = tickets[s]

\* Nothing happens to the table.
LEMMA SameTickets ==
    ASSUME UNCHANGED tickets
    PROVE  Lifecycle /\ Opening
  BY DEF Lifecycle, Opening, Open

\* One row changes as a handler may change it.
LEMMA RowLives ==
    ASSUME TypeOK, NEW t \in TicketIds, NEW row \in Ticket,
           tickets' = [tickets EXCEPT ![t] = row],
           tickets[t].status # "none",
           row.status # "none", row.user = tickets[t].user,
           tickets[t].status = "closed" =>
             row.status = "closed" /\ row.operator = tickets[t].operator,
           tickets[t].operator # Null => row.operator = tickets[t].operator
    PROVE  Lifecycle /\ Opening
  <1>1. /\ tickets'[t] = row
        /\ \A s \in TicketIds : s # t => tickets'[s] = tickets[s]
    BY RowChanged
  <1>2. tickets[t].status \in {"none", "open", "in_progress", "closed"}
    BY DEF TypeOK, Ticket
  <1>3. Lifecycle
    BY <1>1 DEF Lifecycle
  <1>4. Opening
    BY <1>1, <1>2 DEF Opening, Open
  <1> QED  BY <1>3, <1>4

\* A request that starts a handler.
LEMMA RequestEffect ==
    ASSUME TypeOK, NEW k \in Tasks, NEW r \in Task, Begin(k, r),
           fate' \in [Msgs -> Fate], UNCHANGED <<userState, canWrite, rows, told>>
    PROVE  TypeOK' /\ Lifecycle /\ Opening
  <1>1. task' \in [Tasks -> Task] /\ requests' \in 0..MaxRequests
    BY Begun
  <1>2. TypeOK'
    BY <1>1 DEF TypeOK, rows
  <1>3. UNCHANGED tickets
    BY DEF rows
  <1> QED  BY <1>2, <1>3, SameTickets

LEMMA UserRequestEffect ==
    ASSUME TypeOK, NEW k \in Tasks, UserRequest(k)
    PROVE  TypeOK' /\ Lifecycle /\ Opening
  <1>1. PICK u \in Users :
           \/ TicketNew(k, u)
           \/ \E t \in TicketIds : TicketClose(k, u, t) \/ Rate(k, u, t)
           \/ \E m \in Msgs : Text(k, u, m)
    BY DEF UserRequest
  <1>2. fate \in [Msgs -> Fate]
    BY DEF TypeOK
  <1>3. ASSUME NEW t \in OpenOf(u)
        PROVE  [NoTask EXCEPT !.at = "tell_created", !.user = u, !.ticket = t] \in Task
    BY DEF NoTask, Task, Label, OpenOf
  <1>4. [NoTask EXCEPT !.at = "await", !.user = u] \in Task
    BY DEF NoTask, Task, Label
  <1>5. CASE TicketNew(k, u)
    <2>1. fate' \in [Msgs -> Fate] /\ UNCHANGED <<userState, canWrite, rows, told>>
      BY <1>2, <1>5 DEF TicketNew
    <2> QED  BY <1>3, <1>4, <1>5, <2>1, RequestEffect DEF TicketNew
  <1>6. ASSUME NEW t \in TicketIds, TicketClose(k, u, t)
        PROVE  TypeOK' /\ Lifecycle /\ Opening
    <2>1. [NoTask EXCEPT !.at = "close", !.user = u, !.ticket = t, !.peer = u] \in Task
      BY DEF NoTask, Task, Label
    <2>2. fate' \in [Msgs -> Fate] /\ UNCHANGED <<userState, canWrite, rows, told>>
      BY <1>2, <1>6 DEF TicketClose
    <2> QED  BY <1>6, <2>1, <2>2, RequestEffect DEF TicketClose
  <1>7. ASSUME NEW t \in TicketIds, Rate(k, u, t)
        PROVE  TypeOK' /\ Lifecycle /\ Opening
    <2>1. [NoTask EXCEPT !.at = "rate", !.user = u, !.ticket = t] \in Task
      BY DEF NoTask, Task, Label
    <2>2. fate' \in [Msgs -> Fate] /\ UNCHANGED <<userState, canWrite, rows, told>>
      BY <1>2, <1>7 DEF Rate
    <2> QED  BY <1>7, <2>1, <2>2, RequestEffect DEF Rate
  <1>8. ASSUME NEW m \in Msgs, Text(k, u, m)
        PROVE  TypeOK' /\ Lifecycle /\ Opening
    <2>1. ASSUME NEW t \in OpenOf(u)
          PROVE  [NoTask EXCEPT !.at = "add", !.user = u, !.ticket = t, !.msg = m] \in Task
      BY DEF NoTask, Task, Label, OpenOf
    <2>2. [NoTask EXCEPT !.at = "get_user", !.user = u, !.msg = m] \in Task
      BY DEF NoTask, Task, Label
    <2>3. fate' \in [Msgs -> Fate]
      BY <1>2, <1>8 DEF Text, Fate
    <2>4. UNCHANGED <<userState, canWrite, rows, told>>
      BY <1>8 DEF Text
    <2> QED  BY <1>8, <2>1, <2>2, <2>3, <2>4, RequestEffect DEF Text
  <1> QED  BY <1>1, <1>5, <1>6, <1>7, <1>8

LEMMA DashboardRequestEffect ==
    ASSUME TypeOK, NEW k \in Tasks, DashboardRequest(k)
    PROVE  TypeOK' /\ Lifecycle /\ Opening
  <1>1. PICK t \in TicketIds :
           \/ Reply(k, t) \/ MarkRead(k, t) \/ Close(k, t)
           \/ \E o \in Operators : Take(k, t, o)
    BY DEF DashboardRequest
  <1>2. fate' \in [Msgs -> Fate] /\ UNCHANGED <<userState, canWrite, rows, told>>
    BY <1>1 DEF TypeOK, Reply, MarkRead, Close, Take
  <1>3. Peer(t) \in Users \cup {Null} /\ tickets[t].operator \in Operators \cup {Null}
    BY DEF Peer, TypeOK, Ticket
  <1>4. CASE Reply(k, t)
    <2>1. [NoTask EXCEPT !.at = "reply", !.ticket = t, !.peer = Peer(t)] \in Task
      BY <1>3 DEF NoTask, Task, Label
    <2> QED  BY <1>2, <1>4, <2>1, RequestEffect DEF Reply
  <1>5. CASE MarkRead(k, t)
    <2>1. [NoTask EXCEPT !.at = "read", !.ticket = t] \in Task
      BY DEF NoTask, Task, Label
    <2> QED  BY <1>2, <1>5, <2>1, RequestEffect DEF MarkRead
  <1>6. CASE Close(k, t)
    <2>1. [NoTask EXCEPT !.at = "close", !.ticket = t, !.peer = Peer(t),
                         !.operator = tickets[t].operator] \in Task
      BY <1>3 DEF NoTask, Task, Label
    <2> QED  BY <1>2, <1>6, <2>1, RequestEffect DEF Close
  <1>7. ASSUME NEW o \in Operators, Take(k, t, o)
        PROVE  TypeOK' /\ Lifecycle /\ Opening
    <2>1. [NoTask EXCEPT !.at = "assign", !.ticket = t, !.peer = Peer(t),
                         !.operator = o] \in Task
      BY <1>3 DEF NoTask, Task, Label
    <2> QED  BY <1>2, <1>7, <2>1, RequestEffect DEF Take
  <1> QED  BY <1>1, <1>4, <1>5, <1>6, <1>7

LEMMA UserStepEffect ==
    ASSUME TypeOK, Inv, NEW k \in Tasks, UserStep(k)
    PROVE  TypeOK' /\ Lifecycle /\ Opening
  <1> USE DEF rows
  <1>0. task[k] \in Task
    BY DEF TypeOK
  <1>1. CASE AwaitProblem(k)
    <2>1. Finish(k) /\ UNCHANGED tickets
      BY <1>1 DEF AwaitProblem
    <2>2. userState' \in [Users -> {"idle", "awaiting_problem"}]
      BY <1>1 DEF AwaitProblem, TypeOK
    <2>3. TypeOK'
      BY <1>1, <2>1, <2>2, Finished DEF AwaitProblem, TypeOK
    <2> QED  BY <2>1, <2>3, SameTickets
  <1>2. CASE SaveRating(k)
    <2> DEFINE t == task[k].ticket
    <2>1. Finish(k)
      BY <1>2 DEF SaveRating
    <2>2. PICK v \in Ratings : tickets' = [tickets EXCEPT ![t].rating = v]
      BY <1>2 DEF SaveRating
    <2> DEFINE row == [tickets[t] EXCEPT !.rating = v]
    <2>3. task[k].at \in OnTicket
      BY <1>2 DEF SaveRating, OnTicket
    <2>4. t \in TicketIds /\ tickets[t] \in Ticket /\ tickets[t].status # "none"
      BY <2>3, AtWork DEF Inv
    <2>5. row \in Ticket
      BY <2>4 DEF Ticket
    <2>6. /\ row.status = tickets[t].status
          /\ row.user = tickets[t].user
          /\ row.operator = tickets[t].operator
      BY <2>4 DEF Ticket
    <2>7. tickets' = [tickets EXCEPT ![t] = row]
      BY <2>2
    <2> HIDE DEF t, row
    <2>8. Lifecycle /\ Opening
      BY <2>4, <2>5, <2>6, <2>7, RowLives
    <2>9. TypeOK'
      BY <1>2, <2>1, <2>4, <2>5, <2>7, Finished, RowChanged DEF SaveRating, TypeOK
    <2> QED  BY <2>8, <2>9
  <1>3. CASE GetUser(k)
    <2>1. "create" \in Label /\ "menu" \in Label /\ UNCHANGED tickets
      BY <1>3 DEF Label, GetUser
    <2>2. task' \in [Tasks -> Task] /\ requests' = requests
      BY <1>3, <2>1, GoneTo DEF GetUser
    <2>3. TypeOK'
      BY <1>3, <2>2 DEF GetUser, TypeOK
    <2> QED  BY <2>1, <2>3, SameTickets
  <1>4. CASE SendMenu(k)
    <2>1. Finish(k) /\ UNCHANGED tickets
      BY <1>4 DEF SendMenu
    <2>2. fate' \in [Msgs -> Fate]
      BY <1>4 DEF SendMenu, TypeOK, Fate
    <2>3. TypeOK'
      BY <1>4, <2>1, <2>2, Finished DEF SendMenu, TypeOK
    <2> QED  BY <2>1, <2>3, SameTickets
  <1>5. CASE CreateTicket(k)
    <2>1. CASE NoConflict(task[k].user)
      <3> DEFINE row == [NoTicket EXCEPT !.status = "open", !.user = task[k].user]
      <3>1. PICK t \in TicketIds :
              /\ \A s \in TicketIds : tickets[s].status # "none" <=> s < t
              /\ tickets' = [tickets EXCEPT ![t] = row]
              /\ task' = [task EXCEPT ![k].ticket = t, ![k].at = "add_first"]
              /\ UNCHANGED requests
        BY <1>5, <2>1 DEF CreateTicket
      <3>2. row \in Ticket /\ row.user = task[k].user
        BY <1>0 DEF NoTicket, Ticket, Task
      <3>3. tickets[t].status = "none"
        BY <3>1, IdsAssumption
      <3>4. tickets[t] = NoTicket
        BY <3>3 DEF Inv, TasksReferToTickets
      <3> HIDE DEF row
      <3>5. /\ tickets' \in [TicketIds -> Ticket]
            /\ tickets'[t] = row
            /\ \A s \in TicketIds : s # t => tickets'[s] = tickets[s]
        BY <3>1, <3>2, RowChanged
      <3>6. Lifecycle
        BY <3>3, <3>4, <3>5 DEF Lifecycle, NoTicket
      <3>7. Opening
        BY <2>1, <3>2, <3>5 DEF Opening, Open
      <3>8. "add_first" \in Label
        BY DEF Label
      <3>9. TypeOK'
        BY <1>5, <3>1, <3>5, <3>8, GoneToTicket DEF CreateTicket, TypeOK
      <3> QED  BY <3>6, <3>7, <3>9
    <2>2. CASE ~NoConflict(task[k].user)
      <3>1. "reread" \in Label
        BY DEF Label
      <3>2. task' \in [Tasks -> Task] /\ UNCHANGED <<requests, tickets>>
        BY <1>5, <2>2, <3>1, GoneTo DEF CreateTicket
      <3>3. TypeOK'
        BY <1>5, <3>2 DEF CreateTicket, TypeOK
      <3> QED  BY <3>2, <3>3, SameTickets
    <2> QED  BY <2>1, <2>2
  <1>6. CASE ReadExisting(k)
    <2>1. CASE \E t \in OpenOf(task[k].user) :
                 /\ task' = [task EXCEPT ![k].ticket = t, ![k].at = "add_first"]
                 /\ UNCHANGED <<requests, fate>>
      <3>1. "add_first" \in Label /\ OpenOf(task[k].user) \subseteq TicketIds
        BY DEF Label, OpenOf
      <3>2. task' \in [Tasks -> Task] /\ UNCHANGED <<requests, fate>>
        BY <2>1, <3>1, GoneToTicket
      <3> QED  BY <1>6, <3>2, SameTickets DEF ReadExisting, TypeOK
    <2>2. CASE fate' = [fate EXCEPT ![task[k].msg] = "lost"] /\ Finish(k)
      <3>1. fate' \in [Msgs -> Fate]
        BY <2>2 DEF TypeOK, Fate
      <3> QED  BY <1>6, <2>2, <3>1, Finished, SameTickets DEF ReadExisting, TypeOK
    <2> QED  BY <1>6, <2>1, <2>2 DEF ReadExisting
  <1>7. CASE AddMessage(k)
    <2> DEFINE t == task[k].ticket
    <2>1. task[k].at \in OnTicket /\ task[k].at \in OnMessage
      BY <1>7 DEF AddMessage, OnTicket, OnMessage
    <2>2. t \in TicketIds /\ tickets[t] \in Ticket /\ tickets[t].status # "none"
      BY <2>1, AtWork DEF Inv
    <2>3. task[k].msg \in Msgs
      BY <2>1 DEF Inv, MessagesAreHandledOnce
    <2> DEFINE row == [tickets[t] EXCEPT !.unread = tickets[t].unread + 1]
    <2>4. row \in Ticket
      BY <2>2 DEF Ticket
    <2>5. /\ row.status = tickets[t].status
          /\ row.user = tickets[t].user
          /\ row.operator = tickets[t].operator
      BY <2>2 DEF Ticket
    <2>6. tickets' = [tickets EXCEPT ![t] = row]
      BY <1>7 DEF AddMessage, CountUnread
    <2>7. fate' \in [Msgs -> Fate]
      BY <1>7 DEF AddMessage, TypeOK, Fate
    <2>8. feed' \in [TicketIds -> Seq(Msgs \cup {Out})]
      <3>1. feed[t] \in Seq(Msgs \cup {Out})
        BY <2>2 DEF TypeOK
      <3>2. Append(feed[t], task[k].msg) \in Seq(Msgs \cup {Out})
        BY <2>3, <3>1
      <3>3. feed' = [feed EXCEPT ![t] = Append(feed[t], task[k].msg)]
        BY <1>7 DEF AddMessage
      <3> QED  BY <3>2, <3>3 DEF TypeOK
    <2>9. task' \in [Tasks -> Task] /\ requests' = requests
      <3>1. "idle" \in Label
        BY DEF Label
      <3> QED  BY <1>7, <3>1, GoneTo, Finished DEF AddMessage, AfterAdd
    <2> HIDE DEF t, row
    <2>10. Lifecycle /\ Opening
      BY <2>2, <2>4, <2>5, <2>6, RowLives
    <2>11. TypeOK'
      BY <1>7, <2>2, <2>4, <2>6, <2>7, <2>8, <2>9, RowChanged DEF AddMessage, TypeOK
    <2> QED  BY <2>10, <2>11
  <1>8. CASE SetIdle(k)
    <2>1. "tell_created" \in Label /\ UNCHANGED tickets
      BY <1>8 DEF Label, SetIdle
    <2>2. task' \in [Tasks -> Task] /\ requests' = requests
      BY <1>8, <2>1, GoneTo DEF SetIdle
    <2>3. userState' \in [Users -> {"idle", "awaiting_problem"}]
      BY <1>8 DEF SetIdle, TypeOK
    <2>4. TypeOK'
      BY <1>8, <2>2, <2>3 DEF SetIdle, TypeOK
    <2> QED  BY <2>1, <2>4, SameTickets
  <1>9. CASE TellCreated(k)
    <2>1. task[k].at \in OnTicket
      BY <1>9 DEF TellCreated, OnTicket
    <2>2. task[k].ticket \in TicketIds
      BY <2>1, AtWork DEF Inv
    <2>3. [what |-> "created", operator |-> Null] \in Notice
      BY DEF Notice
    <2>4. told' \in [TicketIds -> Seq(Notice)]
      BY <1>9, <2>2, <2>3, Told DEF TellCreated
    <2>5. TypeOK'
      BY <1>9, <2>4, Finished DEF TellCreated, TypeOK
    <2> QED  BY <1>9, <2>5, SameTickets DEF TellCreated
  <1> QED  BY <1>1, <1>2, <1>3, <1>4, <1>5, <1>6, <1>7, <1>8, <1>9 DEF UserStep

LEMMA DashboardStepEffect ==
    ASSUME TypeOK, Inv, NEW k \in Tasks, DashboardStep(k)
    PROVE  TypeOK' /\ Lifecycle /\ Opening
  <1> USE DEF rows
  <1> DEFINE t == task[k].ticket
  <1>0. /\ task[k].at \in OnTicket
        /\ task[k] \in Task
        /\ t \in TicketIds
        /\ tickets[t] \in Ticket
        /\ tickets[t].status \in {"open", "in_progress", "closed"}
    <2>1. task[k].at \in OnTicket
      BY DEF DashboardStep, AddReply, MarkMessages, ZeroUnread, TellReply,
             CloseTicket, TellClosed, TakeTicket, TellIntro, OnTicket
    <2> QED  BY <2>1, AtWork DEF Inv
  <1>1. CASE AddReply(k)
    <2> DEFINE row == [tickets[t] EXCEPT !.status = StatusAfterReply(tickets[t].status),
                                         !.unread = tickets[t].unread]
    <2>1. row \in Ticket
      BY <1>0 DEF Ticket, StatusAfterReply
    <2>2. /\ row.status = StatusAfterReply(tickets[t].status)
          /\ row.user = tickets[t].user
          /\ row.operator = tickets[t].operator
      BY <1>0 DEF Ticket
    <2>3. tickets' = [tickets EXCEPT ![t] = row]
      BY <1>0, <1>1 DEF AddReply, CountUnread, TypeOK
    <2>4. feed' \in [TicketIds -> Seq(Msgs \cup {Out})]
      <3>1. feed[t] \in Seq(Msgs \cup {Out})
        BY <1>0 DEF TypeOK
      <3>2. Append(feed[t], Out) \in Seq(Msgs \cup {Out})
        BY <3>1
      <3>3. feed' = [feed EXCEPT ![t] = Append(feed[t], Out)]
        BY <1>1 DEF AddReply
      <3> QED  BY <3>2, <3>3 DEF TypeOK
    <2>5. "read" \in Label
      BY DEF Label
    <2>6. task' \in [Tasks -> Task] /\ requests' = requests
      BY <1>1, <2>5, GoneTo DEF AddReply
    <2> HIDE DEF t, row
    <2>7. row.status # "none" /\ (tickets[t].status = "closed" => row.status = "closed")
      BY <1>0, <2>2 DEF StatusAfterReply
    <2>8. Lifecycle /\ Opening
      BY <1>0, <2>1, <2>2, <2>3, <2>7, RowLives
    <2>9. TypeOK'
      BY <1>0, <1>1, <2>1, <2>3, <2>4, <2>6, RowChanged DEF AddReply, TypeOK
    <2> QED  BY <2>8, <2>9
  <1>2. CASE MarkMessages(k)
    <2> DEFINE r == [task[k] EXCEPT !.marked = Unread(t), !.at = "zero"]
    <2>1. feed[t] \in Seq(Msgs \cup {Out}) /\ Unread(t) \subseteq Msgs
      BY <1>0 DEF TypeOK, Unread
    <2>2. r \in Task
      BY <1>0, <2>1 DEF Task, Label
    <2>3. task' = [task EXCEPT ![k] = r]
      BY <1>2 DEF MarkMessages, TypeOK
    <2> HIDE DEF r
    <2>4. TypeOK'
      BY <1>2, <2>2, <2>3 DEF MarkMessages, TypeOK
    <2> QED  BY <1>2, <2>4, SameTickets DEF MarkMessages
  <1>3. CASE ZeroUnread(k)
    <2> DEFINE row == [tickets[t] EXCEPT !.unread = 0]
    <2>1. row \in Ticket
      BY <1>0 DEF Ticket
    <2>2. /\ row.status = tickets[t].status
          /\ row.user = tickets[t].user
          /\ row.operator = tickets[t].operator
      BY <1>0 DEF Ticket
    <2>3. tickets' = [tickets EXCEPT ![t] = row]
      BY <1>3 DEF ZeroUnread
    <2>4. read' \subseteq Msgs
      BY <1>0, <1>3 DEF ZeroUnread, TypeOK, Task
    <2>5. "tell_reply" \in Label
      BY DEF Label
    <2>6. task' \in [Tasks -> Task] /\ requests' = requests
      BY <1>3, <2>5, GoneTo, Finished DEF ZeroUnread
    <2> HIDE DEF t, row
    <2>7. Lifecycle /\ Opening
      BY <1>0, <2>1, <2>2, <2>3, RowLives
    <2>8. TypeOK'
      BY <1>0, <1>3, <2>1, <2>3, <2>4, <2>6, RowChanged DEF ZeroUnread, TypeOK
    <2> QED  BY <2>7, <2>8
  <1>4. CASE TellReply(k)
    <2>1. [what |-> "reply", operator |-> Null] \in Notice
      BY DEF Notice
    <2>2. told' \in [TicketIds -> Seq(Notice)]
      BY <1>0, <1>4, <2>1, Told DEF TellReply
    <2>3. TypeOK'
      BY <1>4, <2>2, Finished DEF TellReply, TypeOK
    <2> QED  BY <1>4, <2>3, SameTickets DEF TellReply
  <1>5. CASE CloseTicket(k)
    <2> DEFINE row == [tickets[t] EXCEPT !.status = "closed", !.rating = Null]
    <2>1. row \in Ticket
      BY <1>0 DEF Ticket
    <2>2. /\ row.status = "closed"
          /\ row.user = tickets[t].user
          /\ row.operator = tickets[t].operator
      BY <1>0 DEF Ticket
    <2>3. tickets' = [tickets EXCEPT ![t] = row]
      BY <1>0, <1>5 DEF CloseTicket, TypeOK
    <2>4. "tell_closed" \in Label
      BY DEF Label
    <2>5. task' \in [Tasks -> Task] /\ requests' = requests
      BY <1>5, <2>4, GoneTo DEF CloseTicket
    <2> HIDE DEF t, row
    <2>6. Lifecycle /\ Opening
      BY <1>0, <2>1, <2>2, <2>3, RowLives
    <2>7. TypeOK'
      BY <1>0, <1>5, <2>1, <2>3, <2>5, RowChanged DEF CloseTicket, TypeOK
    <2> QED  BY <2>6, <2>7
  <1>6. CASE TellClosed(k)
    <2>1. CASE UNCHANGED told
      BY <1>6, <2>1, Finished, SameTickets DEF TellClosed, TypeOK
    <2>2. CASE Tell(t, IF task[k].user = Null THEN "farewell" ELSE "closed",
                    task[k].operator)
      <3>1. [what |-> IF task[k].user = Null THEN "farewell" ELSE "closed",
             operator |-> task[k].operator] \in Notice
        BY <1>0 DEF Notice, Task
      <3>2. told' \in [TicketIds -> Seq(Notice)]
        BY <1>0, <2>2, <3>1, Told
      <3>3. TypeOK'
        BY <1>6, <3>2, Finished DEF TellClosed, TypeOK
      <3> QED  BY <1>6, <3>3, SameTickets DEF TellClosed
    <2> QED  BY <1>6, <2>1, <2>2 DEF TellClosed
  <1>7. CASE TakeTicket(k)
    <2>1. CASE Takeable(t)
      <3> DEFINE row == [tickets[t] EXCEPT
                           !.operator = task[k].operator,
                           !.status = StatusAfterReply(tickets[t].status)]
      <3>1. row \in Ticket
        BY <1>0 DEF Ticket, Task, StatusAfterReply
      <3>2. /\ row.status = StatusAfterReply(tickets[t].status)
            /\ row.user = tickets[t].user
        BY <1>0 DEF Ticket
      <3>3. tickets' = [tickets EXCEPT ![t] = row]
        BY <1>0, <1>7, <2>1 DEF TakeTicket, TypeOK
      <3>4. "tell_intro" \in Label
        BY DEF Label
      <3>5. task' \in [Tasks -> Task] /\ requests' = requests
        BY <1>7, <2>1, <3>4, GoneTo DEF TakeTicket
      <3>6. tickets[t].operator = Null /\ tickets[t].status # "closed"
        BY <2>1 DEF Takeable
      <3> HIDE DEF t, row
      <3>7. row.status # "none"
        BY <1>0, <3>2 DEF StatusAfterReply
      <3>8. Lifecycle /\ Opening
        BY <1>0, <3>1, <3>2, <3>3, <3>6, <3>7, RowLives
      <3>9. TypeOK'
        BY <1>0, <1>7, <3>1, <3>3, <3>5, RowChanged DEF TakeTicket, TypeOK
      <3> QED  BY <3>8, <3>9
    <2>2. CASE ~Takeable(t)
      <3>1. Finish(k) /\ UNCHANGED tickets
        BY <1>7, <2>2 DEF TakeTicket
      <3>2. TypeOK'
        BY <1>7, <3>1, Finished DEF TakeTicket, TypeOK
      <3> QED  BY <3>1, <3>2, SameTickets
    <2> QED  BY <2>1, <2>2
  <1>8. CASE TellIntro(k)
    <2>1. CASE UNCHANGED told
      BY <1>8, <2>1, Finished, SameTickets DEF TellIntro, TypeOK
    <2>2. CASE Tell(t, "intro", task[k].operator)
      <3>1. [what |-> "intro", operator |-> task[k].operator] \in Notice
        BY <1>0 DEF Notice, Task
      <3>2. told' \in [TicketIds -> Seq(Notice)]
        BY <1>0, <2>2, <3>1, Told
      <3>3. TypeOK'
        BY <1>8, <3>2, Finished DEF TellIntro, TypeOK
      <3> QED  BY <1>8, <3>3, SameTickets DEF TellIntro
    <2> QED  BY <1>8, <2>1, <2>2 DEF TellIntro
  <1> QED  BY <1>1, <1>2, <1>3, <1>4, <1>5, <1>6, <1>7, <1>8 DEF DashboardStep

\* Every step keeps the types and does to a ticket only what its life allows.
LEMMA Effect ==
    ASSUME TypeOK, Inv, [Next]_vars
    PROVE  TypeOK' /\ Lifecycle /\ Opening
  <1>1. ASSUME NEW k \in Tasks, Abort(k)
        PROVE  TypeOK' /\ Lifecycle /\ Opening
    <2>1. fate' \in [Msgs -> Fate]
      BY <1>1 DEF Abort, TypeOK, Fate
    <2>2. TypeOK' /\ UNCHANGED tickets
      BY <1>1, <2>1, Finished DEF Abort, TypeOK, rows
    <2> QED  BY <2>2, SameTickets
  <1>2. ASSUME NEW u \in Users, MarkCannotWrite(u)
        PROVE  TypeOK' /\ Lifecycle /\ Opening
    BY <1>2, SameTickets DEF MarkCannotWrite, TypeOK, rows
  <1>3. CASE UNCHANGED vars
    BY <1>3, SameTickets DEF vars, TypeOK
  <1> QED  BY <1>1, <1>2, <1>3, UserRequestEffect, UserStepEffect,
              DashboardRequestEffect, DashboardStepEffect DEF Next

\* The index tickets_one_open_per_user does its work.
LEMMA OneOpenStep ==
    ASSUME TypeOK, Inv, [Next]_vars
    PROVE  OneOpenTicketPerUser'
  <1>1. Lifecycle /\ Opening
    BY Effect
  <1>2. SUFFICES ASSUME NEW u \in Users, NEW s \in TicketIds, NEW t \in TicketIds,
                        tickets'[s].status \in {"open", "in_progress"},
                        tickets'[t].status \in {"open", "in_progress"},
                        tickets'[s].user = u, tickets'[t].user = u,
                        s # t
                 PROVE  FALSE
    BY DEF OneOpenTicketPerUser, OpenOf, Open
  <1>3. CASE Open(s) /\ tickets[s].user = u /\ Open(t) /\ tickets[t].user = u
    BY <1>2, <1>3 DEF Inv, OneOpenTicketPerUser, OpenOf
  <1>4. ASSUME NEW x \in TicketIds, NEW y \in TicketIds, x # y,
               NoConflict(u), tickets'[y] = tickets[y],
               tickets'[y].status \in {"open", "in_progress"}, tickets'[y].user = u
        PROVE  FALSE
    BY <1>4 DEF NoConflict, OpenOf, Open
  <1> QED  BY <1>1, <1>2, <1>3, <1>4 DEF Opening

-----------------------------------------------------------------------------
(* Messages of users: one handler has each of them until it is stored.     *)

\* The handler k goes on, and nobody else does; what it has of messages is its
\* own, and no message leaves a feed.
LEMMA MessagesKept ==
    ASSUME TypeOK, Inv, NEW k \in Tasks,
           \A l \in Tasks : l # k => task'[l] = task[l],
           UNCHANGED feed,
           \A m \in Msgs : fate[m] = "stored" => fate'[m] = "stored",
           \A l \in Tasks : l # k /\ task[l].at \in OnMessage =>
                              fate'[task[l].msg] = "handled",
           task'[k].at \in OnMessage =>
             /\ task'[k].msg \in Msgs
             /\ fate'[task'[k].msg] = "handled"
             /\ \A l \in Tasks : l # k /\ task[l].at \in OnMessage =>
                                   task[l].msg # task'[k].msg
    PROVE  MessagesAreHandledOnce' /\ StoredOnce'
  <1>1. StoredOnce'
    BY DEF Inv, StoredOnce
  <1>2. \A l \in Tasks : task'[l].at \in OnMessage =>
          task'[l].msg \in Msgs /\ fate'[task'[l].msg] = "handled"
    BY DEF Inv, MessagesAreHandledOnce
  <1>3. \A l, j \in Tasks :
          /\ task'[l].at \in OnMessage /\ task'[j].at \in OnMessage
          /\ task'[l].msg = task'[j].msg
          => l = j
    BY DEF Inv, MessagesAreHandledOnce
  <1>4. \A t \in TicketIds : \A i \in DOMAIN feed'[t] :
          feed'[t][i] # Out => fate'[feed'[t][i]] = "stored"
    <2> SUFFICES ASSUME NEW t \in TicketIds, NEW i \in DOMAIN feed[t], feed[t][i] # Out
                 PROVE  fate'[feed[t][i]] = "stored"
      OBVIOUS
    <2>1. feed[t] \in Seq(Msgs \cup {Out})
      BY DEF TypeOK
    <2>2. feed[t][i] \in Msgs
      BY <2>1
    <2>3. fate[feed[t][i]] = "stored"
      BY DEF Inv, MessagesAreHandledOnce
    <2> QED  BY <2>2, <2>3
  <1> QED  BY <1>1, <1>2, <1>3, <1>4 DEF MessagesAreHandledOnce

\* A handler that has no message in hand after the step.
LEMMA NoMessage ==
    ASSUME TypeOK, Inv, NEW k \in Tasks,
           \A l \in Tasks : l # k => task'[l] = task[l],
           task'[k].at \notin OnMessage, UNCHANGED <<feed, fate>>
    PROVE  MessagesAreHandledOnce' /\ StoredOnce'
  <1>1. \A l \in Tasks : l # k /\ task[l].at \in OnMessage =>
                           fate'[task[l].msg] = "handled"
    BY DEF Inv, MessagesAreHandledOnce
  <1> QED  BY <1>1, MessagesKept

\* A handler that goes on with the message it has.
LEMMA SameMessage ==
    ASSUME TypeOK, Inv, NEW k \in Tasks,
           \A l \in Tasks : l # k => task'[l] = task[l],
           task[k].at \in OnMessage, task'[k].msg = task[k].msg,
           UNCHANGED <<feed, fate>>
    PROVE  MessagesAreHandledOnce' /\ StoredOnce'
  <1>1. \A l \in Tasks : task[l].at \in OnMessage =>
                           /\ task[l].msg \in Msgs
                           /\ fate'[task[l].msg] = "handled"
    BY DEF Inv, MessagesAreHandledOnce
  <1>2. \A l \in Tasks : l # k /\ task[l].at \in OnMessage =>
                           task[l].msg # task[k].msg
    BY DEF Inv, MessagesAreHandledOnce
  <1> QED  BY <1>1, <1>2, MessagesKept

\* A handler that ends by giving its message a fate other than the feed.
LEMMA MessageDropped ==
    ASSUME TypeOK, Inv, NEW k \in Tasks,
           \A l \in Tasks : l # k => task'[l] = task[l],
           task'[k].at \notin OnMessage, UNCHANGED feed,
           task[k].at \in OnMessage,
           \A m \in Msgs : m # task[k].msg => fate'[m] = fate[m]
    PROVE  MessagesAreHandledOnce' /\ StoredOnce'
  <1>1. fate[task[k].msg] = "handled"
    BY DEF Inv, MessagesAreHandledOnce
  <1>2. \A m \in Msgs : fate[m] = "stored" => fate'[m] = "stored"
    BY <1>1
  <1>3. \A l \in Tasks : l # k /\ task[l].at \in OnMessage =>
                           fate'[task[l].msg] = "handled"
    BY DEF Inv, MessagesAreHandledOnce
  <1> QED  BY <1>2, <1>3, MessagesKept

\* A message is appended to a feed.
LEMMA FeedGrown ==
    ASSUME TypeOK, NEW t \in TicketIds, NEW x \in Msgs \cup {Out},
           feed' = [feed EXCEPT ![t] = Append(feed[t], x)]
    PROVE  /\ DOMAIN feed'[t] = DOMAIN feed[t] \cup {Len(feed[t]) + 1}
           /\ Len(feed[t]) + 1 \notin DOMAIN feed[t]
           /\ \A i \in DOMAIN feed[t] : feed'[t][i] = feed[t][i]
           /\ feed'[t][Len(feed[t]) + 1] = x
           /\ \A s \in TicketIds : s # t => feed'[s] = feed[s]
  <1>1. feed[t] \in Seq(Msgs \cup {Out}) /\ feed'[t] = Append(feed[t], x)
    BY DEF TypeOK
  <1>2. \A s \in TicketIds : s # t => feed'[s] = feed[s]
    BY DEF TypeOK
  <1> QED  BY <1>1, <1>2

\* The message of a handler is stored.
LEMMA MessageStored ==
    ASSUME TypeOK, Inv, NEW k \in Tasks, AddMessage(k)
    PROVE  MessagesAreHandledOnce' /\ StoredOnce'
  <1> DEFINE t == task[k].ticket
             m == task[k].msg
             n == Len(feed[t]) + 1
  <1>0. task[k].at \in OnTicket /\ task[k].at \in OnMessage
    BY DEF AddMessage, OnTicket, OnMessage
  <1>1. t \in TicketIds
    BY <1>0, AtWork DEF Inv
  <1>2. m \in Msgs /\ fate[m] = "handled"
    BY <1>0 DEF Inv, MessagesAreHandledOnce
  <1>3. \A l \in Tasks : l # k => task'[l] = task[l]
    <2>1. "idle" \in Label
      BY DEF Label
    <2> QED  BY <2>1, GoneTo, Finished DEF AddMessage, AfterAdd
  <1>4. task'[k].at \notin OnMessage
    <2>1. "idle" \in Label
      BY DEF Label
    <2>2. task'[k].at \in {"free", "idle"}
      BY <2>1, GoneTo, Finished DEF AddMessage, AfterAdd
    <2> QED  BY <2>2 DEF OnMessage
  <1>5. /\ fate'[m] = "stored"
        /\ \A x \in Msgs : x # m => fate'[x] = fate[x]
    BY <1>2 DEF AddMessage, TypeOK
  <1>6. feed' = [feed EXCEPT ![t] = Append(feed[t], m)]
    BY DEF AddMessage
  <1>7. \A s \in TicketIds : \A i \in DOMAIN feed[s] :
          feed[s][i] \in Msgs \cup {Out}
    BY DEF TypeOK
  <1>8. \A s \in TicketIds : \A i \in DOMAIN feed[s] :
          feed[s][i] # Out => fate[feed[s][i]] = "stored" /\ feed[s][i] # m
    BY <1>2 DEF Inv, MessagesAreHandledOnce
  <1> HIDE DEF t, m
  <1>9. /\ DOMAIN feed'[t] = DOMAIN feed[t] \cup {n}
        /\ n \notin DOMAIN feed[t]
        /\ \A i \in DOMAIN feed[t] : feed'[t][i] = feed[t][i]
        /\ feed'[t][n] = m
        /\ \A s \in TicketIds : s # t => feed'[s] = feed[s]
    BY <1>1, <1>2, <1>6, FeedGrown
  <1> HIDE DEF n
  <1>10. \A s \in TicketIds : \A i \in DOMAIN feed'[s] :
           \/ s = t /\ i = n /\ feed'[s][i] = m
           \/ i \in DOMAIN feed[s] /\ feed'[s][i] = feed[s][i]
    BY <1>9
  <1>11. \A s \in TicketIds : \A i \in DOMAIN feed'[s] :
           feed'[s][i] # Out => fate'[feed'[s][i]] = "stored"
    BY <1>5, <1>7, <1>8, <1>10
  <1>12. \A l \in Tasks : task'[l].at \in OnMessage =>
           task'[l].msg \in Msgs /\ fate'[task'[l].msg] = "handled"
    <2> SUFFICES ASSUME NEW l \in Tasks, task'[l].at \in OnMessage
                 PROVE  task'[l].msg \in Msgs /\ fate'[task'[l].msg] = "handled"
      OBVIOUS
    <2>1. l # k /\ task'[l] = task[l]
      BY <1>3, <1>4
    <2>2. task[l].msg \in Msgs /\ fate[task[l].msg] = "handled"
      BY <2>1 DEF Inv, MessagesAreHandledOnce
    <2>3. task[l].msg # m
      BY <1>0, <2>1 DEF Inv, MessagesAreHandledOnce, m
    <2> QED  BY <1>5, <2>1, <2>2, <2>3
  <1>13. \A l, j \in Tasks :
           /\ task'[l].at \in OnMessage /\ task'[j].at \in OnMessage
           /\ task'[l].msg = task'[j].msg
           => l = j
    BY <1>3, <1>4 DEF Inv, MessagesAreHandledOnce
  <1>14. StoredOnce'
    <2> SUFFICES ASSUME NEW s1 \in TicketIds, NEW s2 \in TicketIds,
                        NEW i \in DOMAIN feed'[s1], NEW j \in DOMAIN feed'[s2],
                        feed'[s1][i] = feed'[s2][j], feed'[s1][i] # Out
                 PROVE  s1 = s2 /\ i = j
      BY DEF StoredOnce
    <2>1. \A x, y \in TicketIds : \A p \in DOMAIN feed[x], q \in DOMAIN feed[y] :
            feed[x][p] = feed[y][q] /\ feed[x][p] # Out => x = y /\ p = q
      BY DEF Inv, StoredOnce
    <2> QED  BY <1>8, <1>10, <2>1
  <1> QED  BY <1>11, <1>12, <1>13, <1>14 DEF MessagesAreHandledOnce

\* An answer is stored.
LEMMA ReplyStored ==
    ASSUME TypeOK, Inv, NEW k \in Tasks, AddReply(k)
    PROVE  MessagesAreHandledOnce' /\ StoredOnce'
  <1> DEFINE t == task[k].ticket
             n == Len(feed[t]) + 1
  <1>0. task[k].at \in OnTicket
    BY DEF AddReply, OnTicket
  <1>1. t \in TicketIds
    BY <1>0, AtWork DEF Inv
  <1>2. \A l \in Tasks : l # k => task'[l] = task[l]
    <2>1. "read" \in Label
      BY DEF Label
    <2> QED  BY <2>1, GoneTo DEF AddReply
  <1>3. task'[k].at \notin OnMessage
    <2>1. "read" \in Label
      BY DEF Label
    <2>2. task'[k].at = "read"
      BY <2>1, GoneTo DEF AddReply
    <2> QED  BY <2>2 DEF OnMessage
  <1>4. feed' = [feed EXCEPT ![t] = Append(feed[t], Out)] /\ UNCHANGED fate
    BY DEF AddReply
  <1> HIDE DEF t
  <1>5. /\ DOMAIN feed'[t] = DOMAIN feed[t] \cup {n}
        /\ \A i \in DOMAIN feed[t] : feed'[t][i] = feed[t][i]
        /\ feed'[t][n] = Out
        /\ \A s \in TicketIds : s # t => feed'[s] = feed[s]
    BY <1>1, <1>4, FeedGrown
  <1> HIDE DEF n
  <1>6. \A s \in TicketIds : \A i \in DOMAIN feed'[s] : feed'[s][i] # Out =>
           i \in DOMAIN feed[s] /\ feed'[s][i] = feed[s][i]
    BY <1>5
  <1>7. MessagesAreHandledOnce'
    BY <1>2, <1>3, <1>4, <1>6 DEF Inv, MessagesAreHandledOnce
  <1>8. StoredOnce'
    <2> SUFFICES ASSUME NEW s1 \in TicketIds, NEW s2 \in TicketIds,
                        NEW i \in DOMAIN feed'[s1], NEW j \in DOMAIN feed'[s2],
                        feed'[s1][i] = feed'[s2][j], feed'[s1][i] # Out
                 PROVE  s1 = s2 /\ i = j
      BY DEF StoredOnce
    <2>1. \A x, y \in TicketIds : \A p \in DOMAIN feed[x], q \in DOMAIN feed[y] :
            feed[x][p] = feed[y][q] /\ feed[x][p] # Out => x = y /\ p = q
      BY DEF Inv, StoredOnce
    <2> QED  BY <1>6, <2>1
  <1> QED  BY <1>7, <1>8

LEMMA MessagesUserRequest ==
    ASSUME TypeOK, Inv, NEW k \in Tasks, UserRequest(k)
    PROVE  MessagesAreHandledOnce' /\ StoredOnce'
  <1> USE DEF rows
  <1>1. PICK u \in Users :
           \/ TicketNew(k, u)
           \/ \E t \in TicketIds : TicketClose(k, u, t) \/ Rate(k, u, t)
           \/ \E m \in Msgs : Text(k, u, m)
    BY DEF UserRequest
  <1>2. ASSUME NEW r \in Task, Begin(k, r), r.at \notin OnMessage,
               UNCHANGED <<feed, fate>>
        PROVE  MessagesAreHandledOnce' /\ StoredOnce'
    BY <1>2, Begun, NoMessage
  <1>3. CASE TicketNew(k, u)
    <2>1. ASSUME NEW t \in OpenOf(u)
          PROVE  /\ [NoTask EXCEPT !.at = "tell_created", !.user = u, !.ticket = t] \in Task
                 /\ [NoTask EXCEPT !.at = "tell_created", !.user = u, !.ticket = t].at
                      \notin OnMessage
      BY DEF NoTask, Task, Label, OpenOf, OnMessage
    <2>2. /\ [NoTask EXCEPT !.at = "await", !.user = u] \in Task
          /\ [NoTask EXCEPT !.at = "await", !.user = u].at \notin OnMessage
      BY DEF NoTask, Task, Label, OnMessage
    <2> QED  BY <1>2, <1>3, <2>1, <2>2 DEF TicketNew
  <1>4. ASSUME NEW t \in TicketIds, TicketClose(k, u, t)
        PROVE  MessagesAreHandledOnce' /\ StoredOnce'
    <2> DEFINE r == [NoTask EXCEPT !.at = "close", !.user = u, !.ticket = t, !.peer = u]
    <2>1. r \in Task /\ r.at \notin OnMessage
      BY DEF NoTask, Task, Label, OnMessage
    <2> QED  BY <1>2, <1>4, <2>1 DEF TicketClose
  <1>5. ASSUME NEW t \in TicketIds, Rate(k, u, t)
        PROVE  MessagesAreHandledOnce' /\ StoredOnce'
    <2> DEFINE r == [NoTask EXCEPT !.at = "rate", !.user = u, !.ticket = t]
    <2>1. r \in Task /\ r.at \notin OnMessage
      BY DEF NoTask, Task, Label, OnMessage
    <2> QED  BY <1>2, <1>5, <2>1 DEF Rate
  <1>6. ASSUME NEW m \in Msgs, Text(k, u, m)
        PROVE  MessagesAreHandledOnce' /\ StoredOnce'
    <2>1. ASSUME NEW t \in OpenOf(u)
          PROVE  /\ [NoTask EXCEPT !.at = "add", !.user = u, !.ticket = t, !.msg = m]
                      \in Task
                 /\ [NoTask EXCEPT !.at = "add", !.user = u, !.ticket = t, !.msg = m].msg
                      = m
      BY DEF NoTask, Task, Label, OpenOf
    <2>2. /\ [NoTask EXCEPT !.at = "get_user", !.user = u, !.msg = m] \in Task
          /\ [NoTask EXCEPT !.at = "get_user", !.user = u, !.msg = m].msg = m
      BY DEF NoTask, Task, Label
    <2>3. PICK r \in Task : Begin(k, r) /\ r.msg = m
      BY <1>6, <2>1, <2>2 DEF Text
    <2>4. task'[k] = r /\ \A l \in Tasks : l # k => task'[l] = task[l]
      BY <2>3, Begun
    <2>5. /\ fate[m] = "new" /\ fate'[m] = "handled" /\ UNCHANGED feed
          /\ \A x \in Msgs : x # m => fate'[x] = fate[x]
      BY <1>6 DEF Text, TypeOK
    <2>6. \A l \in Tasks : task[l].at \in OnMessage =>
            task[l].msg \in Msgs /\ fate[task[l].msg] = "handled"
      BY DEF Inv, MessagesAreHandledOnce
    <2>7. \A l \in Tasks : task[l].at \in OnMessage =>
            task[l].msg # m /\ fate'[task[l].msg] = "handled"
      BY <2>5, <2>6
    <2> QED  BY <2>3, <2>4, <2>5, <2>7, MessagesKept
  <1> QED  BY <1>1, <1>3, <1>4, <1>5, <1>6

LEMMA MessagesDashboardRequest ==
    ASSUME TypeOK, Inv, NEW k \in Tasks, DashboardRequest(k)
    PROVE  MessagesAreHandledOnce' /\ StoredOnce'
  <1>1. PICK t \in TicketIds :
           \/ Reply(k, t) \/ MarkRead(k, t) \/ Close(k, t)
           \/ \E o \in Operators : Take(k, t, o)
    BY DEF DashboardRequest
  <1>2. UNCHANGED <<feed, fate>>
    BY <1>1 DEF Reply, MarkRead, Close, Take, rows
  <1>3. ASSUME NEW r, Begin(k, r), r.at \notin OnMessage
        PROVE  MessagesAreHandledOnce' /\ StoredOnce'
    <2>1. task' = [task EXCEPT ![k] = r]
      BY <1>3 DEF Begin
    <2>2. task'[k] = r /\ \A l \in Tasks : l # k => task'[l] = task[l]
      BY <2>1 DEF TypeOK
    <2> QED  BY <1>2, <1>3, <2>2, NoMessage
  <1>4. CASE Reply(k, t)
    <2>1. [NoTask EXCEPT !.at = "reply", !.ticket = t, !.peer = Peer(t)].at
             \notin OnMessage
      BY DEF NoTask, OnMessage
    <2> QED  BY <1>3, <1>4, <2>1 DEF Reply
  <1>5. CASE MarkRead(k, t)
    <2>1. [NoTask EXCEPT !.at = "read", !.ticket = t].at \notin OnMessage
      BY DEF NoTask, OnMessage
    <2> QED  BY <1>3, <1>5, <2>1 DEF MarkRead
  <1>6. CASE Close(k, t)
    <2>1. [NoTask EXCEPT !.at = "close", !.ticket = t, !.peer = Peer(t),
                         !.operator = tickets[t].operator].at \notin OnMessage
      BY DEF NoTask, OnMessage
    <2> QED  BY <1>3, <1>6, <2>1 DEF Close
  <1>7. ASSUME NEW o \in Operators, Take(k, t, o)
        PROVE  MessagesAreHandledOnce' /\ StoredOnce'
    <2>1. [NoTask EXCEPT !.at = "assign", !.ticket = t, !.peer = Peer(t),
                         !.operator = o].at \notin OnMessage
      BY DEF NoTask, OnMessage
    <2> QED  BY <1>3, <1>7, <2>1 DEF Take
  <1> QED  BY <1>1, <1>4, <1>5, <1>6, <1>7

LEMMA MessagesUserStep ==
    ASSUME TypeOK, Inv, NEW k \in Tasks, UserStep(k)
    PROVE  MessagesAreHandledOnce' /\ StoredOnce'
  <1> USE DEF rows
  <1>1. CASE AwaitProblem(k)
    BY <1>1, Finished, NoMessage DEF AwaitProblem, OnMessage
  <1>2. CASE SaveRating(k)
    BY <1>2, Finished, NoMessage DEF SaveRating, OnMessage
  <1>3. CASE GetUser(k)
    <2>1. "create" \in Label /\ "menu" \in Label
      BY DEF Label
    <2>2. /\ task'[k].msg = task[k].msg
          /\ \A l \in Tasks : l # k => task'[l] = task[l]
      BY <1>3, <2>1, GoneTo DEF GetUser
    <2>3. task[k].at \in OnMessage /\ UNCHANGED <<feed, fate>>
      BY <1>3 DEF GetUser, OnMessage
    <2> QED  BY <2>2, <2>3, SameMessage
  <1>4. CASE SendMenu(k)
    <2>1. task[k].at \in OnMessage /\ "free" \notin OnMessage
      BY <1>4 DEF SendMenu, OnMessage
    <2>2. \A x \in Msgs : x # task[k].msg => fate'[x] = fate[x]
      BY <1>4 DEF SendMenu, TypeOK
    <2> QED  BY <1>4, <2>1, <2>2, Finished, MessageDropped DEF SendMenu
  <1>5. CASE CreateTicket(k)
    <2>1. /\ task'[k].msg = task[k].msg
          /\ \A l \in Tasks : l # k => task'[l] = task[l]
      <3>1. "reread" \in Label /\ "add_first" \in Label
        BY DEF Label
      <3> QED  BY <1>5, <3>1, GoneTo, GoneToTicket DEF CreateTicket
    <2>2. task[k].at \in OnMessage /\ UNCHANGED <<feed, fate>>
      BY <1>5 DEF CreateTicket, OnMessage
    <2> QED  BY <2>1, <2>2, SameMessage
  <1>6. CASE ReadExisting(k)
    <2>1. task[k].at \in OnMessage /\ "free" \notin OnMessage /\ UNCHANGED feed
      BY <1>6 DEF ReadExisting, OnMessage
    <2>2. CASE \E t \in OpenOf(task[k].user) :
                 /\ task' = [task EXCEPT ![k].ticket = t, ![k].at = "add_first"]
                 /\ UNCHANGED <<requests, fate>>
      <3>1. "add_first" \in Label /\ OpenOf(task[k].user) \subseteq TicketIds
        BY DEF Label, OpenOf
      <3>2. /\ task'[k].msg = task[k].msg
            /\ \A l \in Tasks : l # k => task'[l] = task[l]
        BY <2>2, <3>1, GoneToTicket
      <3> QED  BY <2>1, <2>2, <3>2, SameMessage
    <2>3. CASE fate' = [fate EXCEPT ![task[k].msg] = "lost"] /\ Finish(k)
      <3>1. \A x \in Msgs : x # task[k].msg => fate'[x] = fate[x]
        BY <2>3 DEF TypeOK
      <3> QED  BY <2>1, <2>3, <3>1, Finished, MessageDropped
    <2> QED  BY <1>6, <2>2, <2>3 DEF ReadExisting
  <1>7. CASE AddMessage(k)
    BY <1>7, MessageStored
  <1>8. CASE SetIdle(k)
    <2>1. "tell_created" \in Label /\ "tell_created" \notin OnMessage
      BY DEF Label, OnMessage
    <2> QED  BY <1>8, <2>1, GoneTo, NoMessage DEF SetIdle
  <1>9. CASE TellCreated(k)
    BY <1>9, Finished, NoMessage DEF TellCreated, OnMessage
  <1> QED  BY <1>1, <1>2, <1>3, <1>4, <1>5, <1>6, <1>7, <1>8, <1>9 DEF UserStep

LEMMA MessagesDashboardStep ==
    ASSUME TypeOK, Inv, NEW k \in Tasks, DashboardStep(k)
    PROVE  MessagesAreHandledOnce' /\ StoredOnce'
  <1> USE DEF rows
  <1>0. /\ "free" \notin OnMessage /\ "tell_reply" \notin OnMessage
        /\ "tell_closed" \notin OnMessage /\ "tell_intro" \notin OnMessage
        /\ "tell_reply" \in Label /\ "tell_closed" \in Label /\ "tell_intro" \in Label
    BY DEF OnMessage, Label
  <1>1. CASE AddReply(k)
    BY <1>1, ReplyStored
  <1>2. CASE MarkMessages(k)
    <2>1. task[k] \in Task /\ task'[k].at = "zero"
      BY <1>2 DEF MarkMessages, TypeOK, Task
    <2>2. \A l \in Tasks : l # k => task'[l] = task[l]
      BY <1>2 DEF MarkMessages, TypeOK
    <2>3. task'[k].at \notin OnMessage
      BY <2>1 DEF OnMessage
    <2> QED  BY <1>2, <2>2, <2>3, NoMessage DEF MarkMessages
  <1>3. CASE ZeroUnread(k)
    <2>1. \A l \in Tasks : l # k => task'[l] = task[l]
      BY <1>0, <1>3, GoneTo, Finished DEF ZeroUnread
    <2>2. task'[k].at \in {"free", "tell_reply"}
      BY <1>0, <1>3, GoneTo, Finished DEF ZeroUnread
    <2>3. UNCHANGED <<feed, fate>>
      BY <1>3 DEF ZeroUnread
    <2> QED  BY <1>0, <2>1, <2>2, <2>3, NoMessage
  <1>4. CASE TellReply(k)
    BY <1>0, <1>4, Finished, NoMessage DEF TellReply
  <1>5. CASE CloseTicket(k)
    BY <1>0, <1>5, GoneTo, NoMessage DEF CloseTicket
  <1>6. CASE TellClosed(k)
    BY <1>0, <1>6, Finished, NoMessage DEF TellClosed
  <1>7. CASE TakeTicket(k)
    <2>1. CASE Takeable(task[k].ticket)
      BY <1>0, <1>7, <2>1, GoneTo, NoMessage DEF TakeTicket
    <2>2. CASE ~Takeable(task[k].ticket)
      BY <1>0, <1>7, <2>2, Finished, NoMessage DEF TakeTicket
    <2> QED  BY <2>1, <2>2
  <1>8. CASE TellIntro(k)
    BY <1>0, <1>8, Finished, NoMessage DEF TellIntro
  <1> QED  BY <1>1, <1>2, <1>3, <1>4, <1>5, <1>6, <1>7, <1>8 DEF DashboardStep

LEMMA MessagesStep ==
    ASSUME TypeOK, Inv, [Next]_vars
    PROVE  MessagesAreHandledOnce' /\ StoredOnce'
  <1>1. ASSUME NEW k \in Tasks, Abort(k)
        PROVE  MessagesAreHandledOnce' /\ StoredOnce'
    <2>1. /\ \A l \in Tasks : l # k => task'[l] = task[l]
          /\ task'[k].at \notin OnMessage
      BY <1>1, Finished DEF Abort, OnMessage
    <2>2. UNCHANGED feed /\ \A m \in Msgs : m # task[k].msg => fate'[m] = fate[m]
      BY <1>1 DEF Abort, rows
    <2>3. CASE task[k].at \in OnMessage
      BY <2>1, <2>2, <2>3, MessageDropped
    <2>4. CASE task[k].at \notin OnMessage
      <3>1. fate' = fate
        BY <1>1, <2>4 DEF Abort, TypeOK
      <3> QED  BY <2>1, <2>2, <3>1, NoMessage
    <2> QED  BY <2>3, <2>4
  <1>2. ASSUME NEW u \in Users, MarkCannotWrite(u)
        PROVE  MessagesAreHandledOnce' /\ StoredOnce'
    BY <1>2 DEF MarkCannotWrite, rows, Inv, MessagesAreHandledOnce, StoredOnce
  <1>3. CASE UNCHANGED vars
    BY <1>3 DEF vars, rows, Inv, MessagesAreHandledOnce, StoredOnce
  <1> QED  BY <1>1, <1>2, <1>3, MessagesUserRequest, MessagesUserStep,
              MessagesDashboardRequest, MessagesDashboardStep DEF Next

-----------------------------------------------------------------------------
(* Tickets, the handlers at work on them, and what their users are told.   *)

\* What a handler relies on.
Relies(k) ==
    LET r == task[k]
    IN  /\ r.at \in OnTicket =>
             r.ticket \in TicketIds /\ tickets[r.ticket].status # "none"
        /\ r.at = "tell_intro" => r.operator = tickets[r.ticket].operator
        /\ r.at \in {"assign", "tell_intro"} => r.operator \in Operators
        /\ r.at \in {"close", "tell_closed"} =>
             r.operator \in {Null, tickets[r.ticket].operator}
        /\ r.at = "tell_closed" => tickets[r.ticket].status = "closed"

\* No other handler is about to introduce an operator for the ticket.
Alone(k, t) ==
    /\ ~HasBeenTold(t, {"intro"})
    /\ \A l \in Tasks : l # k /\ task[l].at = "tell_intro" => task[l].ticket # t

\* What a ticket and the messages about it say of each other.
Agrees(t) ==
    /\ tickets[t].status = "none" =>
         tickets[t] = NoTicket /\ told[t] = <<>> /\ feed[t] = <<>>
    /\ HasBeenTold(t, {"intro"}) => tickets[t].operator # Null
    /\ HasBeenTold(t, Closings) => tickets[t].status = "closed"
    /\ \A i, j \in DOMAIN told[t] :
          told[t][i].what = "intro" /\ told[t][j].what = "intro" => i = j
    /\ \A i \in DOMAIN told[t] : told[t][i].operator \in {Null, tickets[t].operator}

Story ==
    /\ TasksReferToTickets /\ OneIntroduction /\ ClosedBeforeTold
    /\ OneOperatorPerTicket

LEMMA StoryParts ==
    ASSUME TypeOK, Inv
    PROVE  /\ \A k \in Tasks : Relies(k)
           /\ \A k \in Tasks : task[k].at = "tell_intro" => Alone(k, task[k].ticket)
           /\ \A t \in TicketIds : Agrees(t)
  <1>1. \A k \in Tasks : Relies(k)
    BY DEF Inv, Relies, TasksReferToTickets, OneIntroduction, ClosedBeforeTold
  <1>2. \A k \in Tasks : task[k].at = "tell_intro" => Alone(k, task[k].ticket)
    BY DEF Inv, Alone, OneIntroduction
  <1>3. \A t \in TicketIds : Agrees(t)
    BY DEF Inv, Agrees, TasksReferToTickets, OneIntroduction, ClosedBeforeTold,
           ToldClosedIsClosed, OneOperatorPerTicket
  <1> QED  BY <1>1, <1>2, <1>3

LEMMA StoryWhole ==
    ASSUME \A k \in Tasks : Relies(k)',
           \A k \in Tasks : task'[k].at = "tell_intro" => Alone(k, task[k].ticket)',
           \A t \in TicketIds : Agrees(t)'
    PROVE  Story'
  <1>1. TasksReferToTickets'
    BY DEF Relies, Agrees, TasksReferToTickets
  <1>2. OneIntroduction'
    BY DEF Relies, Alone, Agrees, OneIntroduction
  <1>3. ClosedBeforeTold'
    BY DEF Relies, Agrees, ClosedBeforeTold, ToldClosedIsClosed
  <1>4. OneOperatorPerTicket'
    BY DEF Agrees, OneOperatorPerTicket
  <1> QED  BY <1>1, <1>2, <1>3, <1>4 DEF Story

\* A handler that another one does not disturb goes on relying on the same.
LEMMA OthersRely ==
    ASSUME TypeOK, Inv, Lifecycle, NEW l \in Tasks, task'[l] = task[l]
    PROVE  Relies(l)'
  <1>1. Relies(l)
    BY StoryParts
  <1>2. task[l].at \in {"assign", "tell_intro", "close", "tell_closed"} =>
          task[l].at \in OnTicket
    BY DEF OnTicket
  <1>3. \A o \in Operators : o # Null
    BY NullAssumption
  <1> QED  BY <1>1, <1>2, <1>3 DEF Relies, Lifecycle

\* A ticket about which nothing new is said.
LEMMA TicketAgrees ==
    ASSUME TypeOK, Inv, Lifecycle, NEW t \in TicketIds, told'[t] = told[t],
           tickets'[t].status = "none" =>
             tickets'[t] = NoTicket /\ feed'[t] = <<>>
    PROVE  Agrees(t)'
  <1>1. Agrees(t)
    BY StoryParts
  <1>2. tickets'[t].status = "none" => told'[t] = <<>>
    BY <1>1 DEF Lifecycle, Agrees
  <1>3. HasBeenTold(t, {"intro"})' => tickets'[t].operator # Null
    BY <1>1 DEF Lifecycle, Agrees, HasBeenTold
  <1>4. HasBeenTold(t, Closings)' => tickets'[t].status = "closed"
    BY <1>1 DEF Lifecycle, Agrees, HasBeenTold
  <1>5. \A i \in DOMAIN told'[t] : told'[t][i].operator \in {Null, tickets'[t].operator}
    BY <1>1 DEF Lifecycle, Agrees
  <1> QED  BY <1>1, <1>2, <1>3, <1>4, <1>5 DEF Agrees

\* A step of one handler that says nothing.
LEMMA StoryKept ==
    ASSUME TypeOK, Inv, Lifecycle, NEW k \in Tasks,
           \A l \in Tasks : l # k => task'[l] = task[l],
           UNCHANGED told,
           \A t \in TicketIds : Agrees(t)',
           Relies(k)',
           task'[k].at = "tell_intro" => Alone(k, task'[k].ticket)
    PROVE  Story'
  <1>1. \A l \in Tasks : Relies(l)'
    BY OthersRely
  <1>2. ASSUME NEW l \in Tasks, task'[l].at = "tell_intro"
        PROVE  Alone(l, task[l].ticket)'
    <2>1. CASE l = k
      BY <1>2, <2>1 DEF Alone, HasBeenTold
    <2>2. CASE l # k
      <3>1. Alone(l, task[l].ticket)
        BY <1>2, <2>2, StoryParts
      <3>2. task'[k].at = "tell_intro" => task'[k].ticket # task[l].ticket
        BY <1>2, <2>2 DEF Alone
      <3> QED  BY <2>2, <3>1, <3>2 DEF Alone, HasBeenTold
    <2> QED  BY <2>1, <2>2
  <1> QED  BY <1>1, <1>2, StoryWhole

\* A step of one handler that neither says anything nor touches a ticket.
LEMMA StorySame ==
    ASSUME TypeOK, Inv, NEW k \in Tasks,
           \A l \in Tasks : l # k => task'[l] = task[l],
           UNCHANGED <<tickets, feed, told>>,
           Relies(k)', task'[k].at # "tell_intro"
    PROVE  Story'
  <1>1. Lifecycle
    BY SameTickets
  <1>2. \A t \in TicketIds : Agrees(t)
    BY StoryParts
  <1>3. \A t \in TicketIds : Agrees(t)'
    BY <1>2 DEF Agrees, HasBeenTold
  <1> QED  BY <1>1, <1>3, StoryKept

\* A handler that writes one row of an existing ticket and says nothing.
LEMMA StoryRow ==
    ASSUME TypeOK, Inv, Lifecycle, NEW k \in Tasks, NEW t \in TicketIds,
           \A l \in Tasks : l # k => task'[l] = task[l],
           UNCHANGED told,
           \A s \in TicketIds : s # t =>
              tickets'[s] = tickets[s] /\ feed'[s] = feed[s],
           tickets'[t].status # "none",
           Relies(k)',
           task'[k].at = "tell_intro" => Alone(k, task'[k].ticket)
    PROVE  Story'
  <1>1. \A s \in TicketIds : Agrees(s)
    BY StoryParts
  <1>2. \A s \in TicketIds : s # t => Agrees(s)'
    BY <1>1 DEF Agrees, HasBeenTold
  <1>3. Agrees(t)'
    BY TicketAgrees
  <1> QED  BY <1>2, <1>3, StoryKept

\* A handler that ends by saying something about its ticket.
LEMMA StoryTold ==
    ASSUME TypeOK, Inv, NEW k \in Tasks, NEW t \in TicketIds, NEW what, NEW operator,
           [what |-> what, operator |-> operator] \in Notice,
           Tell(t, what, operator), Finish(k), UNCHANGED <<tickets, feed>>,
           tickets[t].status # "none",
           operator \in {Null, tickets[t].operator},
           what \in Closings => tickets[t].status = "closed",
           what = "intro" => tickets[t].operator # Null /\ Alone(k, t)
    PROVE  Story'
  <1> DEFINE n == Len(told[t]) + 1
             notice == [what |-> what, operator |-> operator]
  <1>1. /\ DOMAIN told'[t] = DOMAIN told[t] \cup {n}
        /\ \A i \in DOMAIN told[t] : told'[t][i] = told[t][i]
        /\ told'[t][n] = notice
        /\ n \notin DOMAIN told[t]
        /\ \A s \in TicketIds : s # t => told'[s] = told[s]
    BY Told
  <1>2. notice.what = what /\ notice.operator = operator
    OBVIOUS
  <1> HIDE DEF n, notice
  <1>3. /\ \A l \in Tasks : l # k => task'[l] = task[l]
        /\ task'[k].at = "free"
    BY Finished
  <1>4. Lifecycle
    BY SameTickets
  <1>5. \A s \in TicketIds : Agrees(s)
    BY StoryParts
  <1>6. \A s \in TicketIds : s # t => Agrees(s)'
    BY <1>1, <1>5 DEF Agrees, HasBeenTold
  <1>7. Agrees(t)'
    <2>1. HasBeenTold(t, {"intro"})' => tickets'[t].operator # Null
      BY <1>1, <1>2, <1>5 DEF Agrees, HasBeenTold
    <2>2. HasBeenTold(t, Closings)' => tickets'[t].status = "closed"
      BY <1>1, <1>2, <1>5 DEF Agrees, HasBeenTold
    <2>3. \A i, j \in DOMAIN told'[t] :
            told'[t][i].what = "intro" /\ told'[t][j].what = "intro" => i = j
      BY <1>1, <1>2, <1>5 DEF Agrees, HasBeenTold, Alone
    <2>4. \A i \in DOMAIN told'[t] :
            told'[t][i].operator \in {Null, tickets'[t].operator}
      BY <1>1, <1>2, <1>5 DEF Agrees
    <2> QED  BY <1>5, <2>1, <2>2, <2>3, <2>4 DEF Agrees
  <1>8. Relies(k)'
    BY <1>3 DEF Relies, OnTicket
  <1>9. \A l \in Tasks : Relies(l)'
    BY <1>3, <1>4, <1>8, OthersRely
  <1>10. ASSUME NEW l \in Tasks, task'[l].at = "tell_intro"
         PROVE  Alone(l, task[l].ticket)'
    <2>1. l # k /\ task'[l] = task[l]
      BY <1>3, <1>10
    <2>2. Alone(l, task[l].ticket) /\ task[l].ticket \in TicketIds
      BY <1>10, <2>1, StoryParts DEF Relies, OnTicket
    <2>3. what = "intro" => task[l].ticket # t
      BY <1>10, <2>1 DEF Alone
    <2>4. ~HasBeenTold(task[l].ticket, {"intro"})'
      BY <1>1, <1>2, <2>1, <2>2, <2>3 DEF Alone, HasBeenTold
    <2>5. \A j \in Tasks : j # l /\ task'[j].at = "tell_intro" =>
                             task'[j].ticket # task[l].ticket
      BY <1>3, <2>2 DEF Alone
    <2> QED  BY <2>1, <2>4, <2>5 DEF Alone
  <1> QED  BY <1>6, <1>7, <1>9, <1>10, StoryWhole

\* A request that starts a handler.
LEMMA StoryRequest ==
    ASSUME TypeOK, Inv, NEW k \in Tasks, NEW r \in Task, Begin(k, r),
           UNCHANGED <<tickets, feed, told>>,
           r.at \notin {"tell_intro", "tell_closed"},
           r.at \in OnTicket =>
             r.ticket \in TicketIds /\ tickets[r.ticket].status # "none",
           r.at = "assign" => r.operator \in Operators,
           r.at = "close" => r.operator \in {Null, tickets[r.ticket].operator}
    PROVE  Story'
  <1>1. task'[k] = r /\ \A l \in Tasks : l # k => task'[l] = task[l]
    BY Begun
  <1>2. Relies(k)'
    BY <1>1 DEF Relies
  <1> QED  BY <1>1, <1>2, StorySame

LEMMA StoryUserRequest ==
    ASSUME TypeOK, Inv, NEW k \in Tasks, UserRequest(k)
    PROVE  Story'
  <1> USE DEF rows
  <1>1. PICK u \in Users :
           \/ TicketNew(k, u)
           \/ \E t \in TicketIds : TicketClose(k, u, t) \/ Rate(k, u, t)
           \/ \E m \in Msgs : Text(k, u, m)
    BY DEF UserRequest
  <1>2. \A t \in OpenOf(u) : t \in TicketIds /\ tickets[t].status # "none"
    BY DEF OpenOf, Open
  <1>3. CASE TicketNew(k, u)
    <2>1. ASSUME NEW t \in OpenOf(u),
                 Begin(k, [NoTask EXCEPT !.at = "tell_created", !.user = u,
                                         !.ticket = t])
          PROVE  Story'
      <3> DEFINE r == [NoTask EXCEPT !.at = "tell_created", !.user = u, !.ticket = t]
      <3>1. r \in Task /\ r.at = "tell_created" /\ r.ticket = t
        BY DEF NoTask, Task, Label, OpenOf
      <3> HIDE DEF r
      <3>2. Begin(k, r)
        BY <2>1 DEF r
      <3> QED  BY <1>2, <1>3, <3>1, <3>2, StoryRequest DEF TicketNew
    <2>2. CASE Begin(k, [NoTask EXCEPT !.at = "await", !.user = u])
      <3> DEFINE r == [NoTask EXCEPT !.at = "await", !.user = u]
      <3>1. r \in Task /\ r.at = "await"
        BY DEF NoTask, Task, Label
      <3> HIDE DEF r
      <3>2. Begin(k, r)
        BY <2>2 DEF r
      <3>3. "await" \notin OnTicket
        BY DEF OnTicket
      <3> QED  BY <1>3, <3>1, <3>2, <3>3, StoryRequest DEF TicketNew
    <2> QED  BY <1>3, <2>1, <2>2 DEF TicketNew
  <1>4. ASSUME NEW t \in TicketIds, TicketClose(k, u, t)
        PROVE  Story'
    <2> DEFINE r == [NoTask EXCEPT !.at = "close", !.user = u, !.ticket = t, !.peer = u]
    <2>1. r \in Task /\ r.at = "close" /\ r.ticket = t /\ r.operator = Null
      BY DEF NoTask, Task, Label
    <2> HIDE DEF r
    <2>2. Begin(k, r) /\ t \in OpenOf(u)
      BY <1>4 DEF TicketClose, r
    <2> QED  BY <1>2, <1>4, <2>1, <2>2, StoryRequest DEF TicketClose
  <1>5. ASSUME NEW t \in TicketIds, Rate(k, u, t)
        PROVE  Story'
    <2> DEFINE r == [NoTask EXCEPT !.at = "rate", !.user = u, !.ticket = t]
    <2>1. r \in Task /\ r.at = "rate" /\ r.ticket = t
      BY DEF NoTask, Task, Label
    <2> HIDE DEF r
    <2>2. Begin(k, r) /\ tickets[t].user = u
      BY <1>5 DEF Rate, r
    <2>3. tickets[t].status # "none"
      BY <2>2, NullAssumption, StoryParts DEF Agrees, NoTicket
    <2> QED  BY <1>5, <2>1, <2>2, <2>3, StoryRequest DEF Rate
  <1>6. ASSUME NEW m \in Msgs, Text(k, u, m)
        PROVE  Story'
    <2>1. ASSUME NEW t \in OpenOf(u),
                 Begin(k, [NoTask EXCEPT !.at = "add", !.user = u, !.ticket = t,
                                         !.msg = m])
          PROVE  Story'
      <3> DEFINE r == [NoTask EXCEPT !.at = "add", !.user = u, !.ticket = t, !.msg = m]
      <3>1. r \in Task /\ r.at = "add" /\ r.ticket = t
        BY DEF NoTask, Task, Label, OpenOf
      <3> HIDE DEF r
      <3>2. Begin(k, r)
        BY <2>1 DEF r
      <3> QED  BY <1>2, <1>6, <3>1, <3>2, StoryRequest DEF Text
    <2>2. CASE Begin(k, [NoTask EXCEPT !.at = "get_user", !.user = u, !.msg = m])
      <3> DEFINE r == [NoTask EXCEPT !.at = "get_user", !.user = u, !.msg = m]
      <3>1. r \in Task /\ r.at = "get_user"
        BY DEF NoTask, Task, Label
      <3> HIDE DEF r
      <3>2. Begin(k, r)
        BY <2>2 DEF r
      <3>3. "get_user" \notin OnTicket
        BY DEF OnTicket
      <3> QED  BY <1>6, <3>1, <3>2, <3>3, StoryRequest DEF Text
    <2> QED  BY <1>6, <2>1, <2>2 DEF Text
  <1> QED  BY <1>1, <1>3, <1>4, <1>5, <1>6

LEMMA StoryDashboardRequest ==
    ASSUME TypeOK, Inv, NEW k \in Tasks, DashboardRequest(k)
    PROVE  Story'
  <1>1. PICK t \in TicketIds :
           \/ Reply(k, t) \/ MarkRead(k, t) \/ Close(k, t)
           \/ \E o \in Operators : Take(k, t, o)
    BY DEF DashboardRequest
  <1>2. UNCHANGED <<tickets, feed, told>> /\ tickets[t].status # "none"
    BY <1>1 DEF Reply, MarkRead, Close, Take, Open, rows
  <1>3. Peer(t) \in Users \cup {Null} /\ tickets[t].operator \in Operators \cup {Null}
    BY DEF Peer, TypeOK, Ticket
  <1>4. CASE Reply(k, t)
    <2> DEFINE r == [NoTask EXCEPT !.at = "reply", !.ticket = t, !.peer = Peer(t)]
    <2>1. r \in Task /\ r.at = "reply" /\ r.ticket = t
      BY <1>3 DEF NoTask, Task, Label
    <2> HIDE DEF r
    <2>2. Begin(k, r)
      BY <1>4 DEF Reply, r
    <2> QED  BY <1>2, <2>1, <2>2, StoryRequest
  <1>5. CASE MarkRead(k, t)
    <2> DEFINE r == [NoTask EXCEPT !.at = "read", !.ticket = t]
    <2>1. r \in Task /\ r.at = "read" /\ r.ticket = t
      BY DEF NoTask, Task, Label
    <2> HIDE DEF r
    <2>2. Begin(k, r)
      BY <1>5 DEF MarkRead, r
    <2> QED  BY <1>2, <2>1, <2>2, StoryRequest
  <1>6. CASE Close(k, t)
    <2> DEFINE r == [NoTask EXCEPT !.at = "close", !.ticket = t, !.peer = Peer(t),
                                   !.operator = tickets[t].operator]
    <2>1. /\ r \in Task /\ r.at = "close" /\ r.ticket = t
          /\ r.operator = tickets[t].operator
      BY <1>3 DEF NoTask, Task, Label
    <2> HIDE DEF r
    <2>2. Begin(k, r)
      BY <1>6 DEF Close, r
    <2> QED  BY <1>2, <2>1, <2>2, StoryRequest
  <1>7. ASSUME NEW o \in Operators, Take(k, t, o)
        PROVE  Story'
    <2> DEFINE r == [NoTask EXCEPT !.at = "assign", !.ticket = t, !.peer = Peer(t),
                                   !.operator = o]
    <2>1. r \in Task /\ r.at = "assign" /\ r.ticket = t /\ r.operator = o
      BY <1>3 DEF NoTask, Task, Label
    <2> HIDE DEF r
    <2>2. Begin(k, r)
      BY <1>7 DEF Take, r
    <2> QED  BY <1>2, <2>1, <2>2, StoryRequest
  <1> QED  BY <1>1, <1>4, <1>5, <1>6, <1>7

\* A handler that ends relies on nothing.
LEMMA EndedRelies ==
    ASSUME NEW k \in Tasks, task'[k].at = "free"
    PROVE  Relies(k)' /\ task'[k].at # "tell_intro"
  BY DEF Relies, OnTicket

LEMMA StoryUserStep ==
    ASSUME TypeOK, Inv, NEW k \in Tasks, UserStep(k)
    PROVE  Story'
  <1> USE DEF rows
  <1>0. Relies(k) /\ Lifecycle
    BY StoryParts, UserStepEffect
  <1>1. CASE AwaitProblem(k)
    BY <1>1, Finished, EndedRelies, StorySame DEF AwaitProblem
  <1>2. CASE SaveRating(k)
    <2> DEFINE t == task[k].ticket
    <2>1. task[k].at = "rate" /\ Finish(k) /\ UNCHANGED <<feed, told>>
      BY <1>2 DEF SaveRating
    <2>2. t \in TicketIds /\ tickets[t].status # "none"
      BY <1>0, <2>1 DEF Relies, OnTicket
    <2>3. \A s \in TicketIds : s # t => tickets'[s] = tickets[s]
      BY <1>2 DEF SaveRating, TypeOK
    <2>4. tickets'[t].status # "none"
      BY <1>0, <2>2 DEF Lifecycle
    <2> HIDE DEF t
    <2>5. Relies(k)' /\ task'[k].at # "tell_intro"
      BY <2>1, Finished, EndedRelies
    <2> QED  BY <1>0, <2>1, <2>2, <2>3, <2>4, <2>5, Finished, StoryRow
  <1>3. CASE GetUser(k)
    <2>1. "create" \in Label /\ "menu" \in Label
      BY DEF Label
    <2>2. task'[k].at \in {"create", "menu"} /\ \A l \in Tasks : l # k => task'[l] = task[l]
      BY <1>3, <2>1, GoneTo DEF GetUser
    <2>3. Relies(k)' /\ task'[k].at # "tell_intro"
      BY <2>2 DEF Relies, OnTicket
    <2> QED  BY <1>3, <2>2, <2>3, StorySame DEF GetUser
  <1>4. CASE SendMenu(k)
    BY <1>4, Finished, EndedRelies, StorySame DEF SendMenu
  <1>5. CASE CreateTicket(k)
    <2>1. CASE NoConflict(task[k].user)
      <3> DEFINE row == [NoTicket EXCEPT !.status = "open", !.user = task[k].user]
      <3>1. PICK t \in TicketIds :
              /\ \A s \in TicketIds : tickets[s].status # "none" <=> s < t
              /\ tickets' = [tickets EXCEPT ![t] = row]
              /\ task' = [task EXCEPT ![k].ticket = t, ![k].at = "add_first"]
        BY <1>5, <2>1 DEF CreateTicket
      <3>2. row.status = "open"
        BY DEF NoTicket
      <3> HIDE DEF row
      <3>3. tickets'[t] = row /\ \A s \in TicketIds : s # t => tickets'[s] = tickets[s]
        BY <3>1 DEF TypeOK
      <3>5. /\ task'[k].at = "add_first" /\ task'[k].ticket = t
            /\ \A l \in Tasks : l # k => task'[l] = task[l]
        <4>1. task[k] \in Task
          BY DEF TypeOK
        <4>2. task'[k] = [task[k] EXCEPT !.ticket = t, !.at = "add_first"]
          BY <3>1 DEF TypeOK
        <4>3. \A l \in Tasks : l # k => task'[l] = task[l]
          BY <3>1 DEF TypeOK
        <4> QED  BY <4>1, <4>2, <4>3 DEF Task
      <3>6. Relies(k)' /\ task'[k].at # "tell_intro"
        BY <3>2, <3>3, <3>5 DEF Relies
      <3>7. UNCHANGED <<feed, told>>
        BY <1>5 DEF CreateTicket
      <3> QED  BY <1>0, <3>2, <3>3, <3>5, <3>6, <3>7, StoryRow
    <2>2. CASE ~NoConflict(task[k].user)
      <3>1. "reread" \in Label
        BY DEF Label
      <3>2. task'[k].at = "reread" /\ \A l \in Tasks : l # k => task'[l] = task[l]
        BY <1>5, <2>2, <3>1, GoneTo DEF CreateTicket
      <3>3. Relies(k)' /\ task'[k].at # "tell_intro"
        BY <3>2 DEF Relies, OnTicket
      <3>4. UNCHANGED <<tickets, feed, told>>
        BY <1>5, <2>2 DEF CreateTicket
      <3> QED  BY <3>2, <3>3, <3>4, StorySame
    <2> QED  BY <2>1, <2>2
  <1>6. CASE ReadExisting(k)
    <2>1. UNCHANGED <<tickets, feed, told>>
      BY <1>6 DEF ReadExisting
    <2>2. ASSUME NEW t \in OpenOf(task[k].user),
                 task' = [task EXCEPT ![k].ticket = t, ![k].at = "add_first"]
          PROVE  Story'
      <3>1. t \in TicketIds /\ tickets[t].status # "none"
        BY DEF OpenOf, Open
      <3>3. /\ task'[k].at = "add_first" /\ task'[k].ticket = t
            /\ \A l \in Tasks : l # k => task'[l] = task[l]
        <4>1. task[k] \in Task
          BY DEF TypeOK
        <4>2. task'[k] = [task[k] EXCEPT !.ticket = t, !.at = "add_first"]
          BY <2>2 DEF TypeOK
        <4>3. \A l \in Tasks : l # k => task'[l] = task[l]
          BY <2>2 DEF TypeOK
        <4> QED  BY <4>1, <4>2, <4>3 DEF Task
      <3>4. Relies(k)' /\ task'[k].at # "tell_intro"
        BY <2>1, <3>1, <3>3 DEF Relies
      <3> QED  BY <2>1, <3>3, <3>4, StorySame
    <2>3. CASE Finish(k)
      BY <2>1, <2>3, Finished, EndedRelies, StorySame
    <2> QED  BY <1>6, <2>2, <2>3 DEF ReadExisting
  <1>7. CASE AddMessage(k)
    <2> DEFINE t == task[k].ticket
    <2>1. task[k].at \in OnTicket /\ UNCHANGED told
      BY <1>7 DEF AddMessage, OnTicket
    <2>2. t \in TicketIds /\ tickets[t] \in Ticket /\ tickets[t].status # "none"
      BY <2>1, AtWork DEF Inv
    <2>3. \A s \in TicketIds : s # t => tickets'[s] = tickets[s] /\ feed'[s] = feed[s]
      BY <1>7 DEF AddMessage, TypeOK
    <2>4. tickets'[t] = [tickets[t] EXCEPT !.unread = tickets[t].unread + 1]
      BY <1>7, <2>2 DEF AddMessage, CountUnread, TypeOK
    <2>5. tickets'[t].status = tickets[t].status
      BY <2>2, <2>4 DEF Ticket
    <2>8. "idle" \in Label
      BY DEF Label
    <2>9. /\ \/ task'[k].at = "free"
             \/ task'[k].at = "idle" /\ task'[k].ticket = t
          /\ \A l \in Tasks : l # k => task'[l] = task[l]
      <3>1. CASE Finish(k)
        BY <3>1, Finished
      <3>2. CASE Goto(k, "idle")
        BY <2>8, <3>2, GoneTo
      <3> QED  BY <1>7, <3>1, <3>2 DEF AddMessage, AfterAdd
    <2> HIDE DEF t
    <2>10. Relies(k)' /\ task'[k].at # "tell_intro"
      BY <2>2, <2>5, <2>9 DEF Relies, OnTicket
    <2> QED  BY <1>0, <2>1, <2>2, <2>3, <2>5, <2>9, <2>10, StoryRow
  <1>8. CASE SetIdle(k)
    <2>1. "tell_created" \in Label
      BY DEF Label
    <2>2. /\ task'[k].at = "tell_created" /\ task'[k].ticket = task[k].ticket
          /\ \A l \in Tasks : l # k => task'[l] = task[l]
      BY <1>8, <2>1, GoneTo DEF SetIdle
    <2>3. UNCHANGED <<tickets, feed, told>> /\ task[k].at \in OnTicket
      BY <1>8 DEF SetIdle, OnTicket
    <2>4. Relies(k)' /\ task'[k].at # "tell_intro"
      BY <1>0, <2>2, <2>3 DEF Relies
    <2> QED  BY <2>2, <2>3, <2>4, StorySame
  <1>9. CASE TellCreated(k)
    <2>1. task[k].at \in OnTicket
      BY <1>9 DEF TellCreated, OnTicket
    <2>2. task[k].ticket \in TicketIds /\ tickets[task[k].ticket].status # "none"
      BY <1>0, <2>1 DEF Relies
    <2>3. [what |-> "created", operator |-> Null] \in Notice /\ "created" \notin Closings
      BY DEF Notice, Closings
    <2>4. /\ Tell(task[k].ticket, "created", Null)
          /\ Finish(k)
          /\ UNCHANGED <<tickets, feed>>
      BY <1>9 DEF TellCreated
    <2> QED  BY <2>2, <2>3, <2>4, StoryTold
  <1> QED  BY <1>1, <1>2, <1>3, <1>4, <1>5, <1>6, <1>7, <1>8, <1>9 DEF UserStep

LEMMA StoryDashboardStep ==
    ASSUME TypeOK, Inv, NEW k \in Tasks, DashboardStep(k)
    PROVE  Story'
  <1> USE DEF rows
  <1> DEFINE t == task[k].ticket
  <1>0. /\ Relies(k) /\ Lifecycle
        /\ task[k] \in Task
        /\ t \in TicketIds
        /\ tickets[t] \in Ticket
        /\ tickets[t].status \in {"open", "in_progress", "closed"}
    <2>1. task[k].at \in OnTicket
      BY DEF DashboardStep, AddReply, MarkMessages, ZeroUnread, TellReply,
             CloseTicket, TellClosed, TakeTicket, TellIntro, OnTicket
    <2> QED  BY <2>1, AtWork, StoryParts, DashboardStepEffect DEF Inv
  <1>10. Agrees(t)
    BY <1>0, StoryParts
  <1>1. CASE AddReply(k)
    <2>1. \A s \in TicketIds : s # t => tickets'[s] = tickets[s] /\ feed'[s] = feed[s]
      BY <1>1 DEF AddReply, TypeOK
    <2>5. "read" \in Label
      BY DEF Label
    <2>6. /\ task'[k].at = "read" /\ task'[k].ticket = t
          /\ \A l \in Tasks : l # k => task'[l] = task[l]
      BY <1>1, <2>5, GoneTo DEF AddReply
    <2>7. UNCHANGED told /\ tickets'[t].status # "none"
      BY <1>0, <1>1 DEF AddReply, Lifecycle
    <2> HIDE DEF t
    <2>8. Relies(k)' /\ task'[k].at # "tell_intro"
      BY <1>0, <2>6, <2>7 DEF Relies, OnTicket
    <2> QED  BY <1>0, <2>1, <2>6, <2>7, <2>8, StoryRow
  <1>2. CASE MarkMessages(k)
    <2>1. task'[k] = [task[k] EXCEPT !.marked = Unread(t), !.at = "zero"]
      BY <1>2 DEF MarkMessages, TypeOK
    <2>2. task'[k].at = "zero" /\ task'[k].ticket = t
      BY <1>0, <2>1 DEF Task
    <2>3. \A l \in Tasks : l # k => task'[l] = task[l]
      BY <1>2 DEF MarkMessages, TypeOK
    <2>4. UNCHANGED <<tickets, feed, told>>
      BY <1>2 DEF MarkMessages
    <2> HIDE DEF t
    <2>5. Relies(k)' /\ task'[k].at # "tell_intro"
      BY <1>0, <2>2, <2>4 DEF Relies, OnTicket
    <2> QED  BY <2>3, <2>4, <2>5, StorySame
  <1>3. CASE ZeroUnread(k)
    <2>1. \A s \in TicketIds : s # t => tickets'[s] = tickets[s] /\ feed'[s] = feed[s]
      BY <1>3 DEF ZeroUnread, TypeOK
    <2>5. "tell_reply" \in Label
      BY DEF Label
    <2>6. /\ \/ task'[k].at = "free"
             \/ task'[k].at = "tell_reply" /\ task'[k].ticket = t
          /\ \A l \in Tasks : l # k => task'[l] = task[l]
      <3>1. CASE Finish(k)
        BY <3>1, Finished
      <3>2. CASE Goto(k, "tell_reply")
        BY <2>5, <3>2, GoneTo
      <3> QED  BY <1>3, <3>1, <3>2 DEF ZeroUnread
    <2>7. UNCHANGED told /\ tickets'[t].status # "none"
      BY <1>0, <1>3 DEF ZeroUnread, Lifecycle
    <2> HIDE DEF t
    <2>8. Relies(k)' /\ task'[k].at # "tell_intro"
      BY <1>0, <2>6, <2>7 DEF Relies, OnTicket
    <2> QED  BY <1>0, <2>1, <2>6, <2>7, <2>8, StoryRow
  <1>4. CASE TellReply(k)
    <2>1. [what |-> "reply", operator |-> Null] \in Notice /\ "reply" \notin Closings
      BY DEF Notice, Closings
    <2>2. Tell(t, "reply", Null) /\ Finish(k) /\ UNCHANGED <<tickets, feed>>
      BY <1>4 DEF TellReply
    <2> HIDE DEF t
    <2> QED  BY <1>0, <2>1, <2>2, StoryTold
  <1>5. CASE CloseTicket(k)
    <2>1. \A s \in TicketIds : s # t => tickets'[s] = tickets[s] /\ feed'[s] = feed[s]
      BY <1>5 DEF CloseTicket, TypeOK
    <2>2. tickets'[t] = [tickets[t] EXCEPT !.status = "closed", !.rating = Null]
      BY <1>0, <1>5 DEF CloseTicket, TypeOK
    <2>3. tickets'[t].status = "closed" /\ tickets'[t].operator = tickets[t].operator
      BY <1>0, <2>2 DEF Ticket
    <2>4. "tell_closed" \in Label /\ task[k].at = "close"
      BY <1>5 DEF Label, CloseTicket
    <2>5. /\ task'[k].at = "tell_closed" /\ task'[k].ticket = t
          /\ task'[k].operator = task[k].operator
          /\ \A l \in Tasks : l # k => task'[l] = task[l]
      BY <1>5, <2>4, GoneTo DEF CloseTicket
    <2>6. UNCHANGED told
      BY <1>5 DEF CloseTicket
    <2>7. task[k].operator \in {Null, tickets[t].operator}
      BY <1>0, <2>4 DEF Relies
    <2> HIDE DEF t
    <2>8. Relies(k)' /\ task'[k].at # "tell_intro"
      BY <1>0, <2>3, <2>5, <2>7 DEF Relies
    <2> QED  BY <1>0, <2>1, <2>3, <2>5, <2>6, <2>8, StoryRow
  <1>6. CASE TellClosed(k)
    <2>1. task[k].at = "tell_closed" /\ Finish(k) /\ UNCHANGED <<tickets, feed>>
      BY <1>6 DEF TellClosed
    <2>2. CASE UNCHANGED told
      BY <2>1, <2>2, Finished, EndedRelies, StorySame
    <2>3. CASE Tell(t, IF task[k].user = Null THEN "farewell" ELSE "closed",
                    task[k].operator)
      <3> DEFINE what == IF task[k].user = Null THEN "farewell" ELSE "closed"
      <3>1. /\ what # "intro"
            /\ [what |-> what, operator |-> task[k].operator] \in Notice
        BY <1>0 DEF Notice, Task
      <3>2. /\ task[k].operator \in {Null, tickets[t].operator}
            /\ tickets[t].status = "closed"
        BY <1>0, <2>1 DEF Relies
      <3> HIDE DEF t, what
      <3>3. Tell(t, what, task[k].operator)
        BY <2>3 DEF t, what
      <3> QED  BY <1>0, <2>1, <3>1, <3>2, <3>3, StoryTold
    <2> QED  BY <1>6, <2>2, <2>3 DEF TellClosed
  <1>7. CASE TakeTicket(k)
    <2>1. CASE Takeable(t)
      <3>1. \A s \in TicketIds : s # t => tickets'[s] = tickets[s] /\ feed'[s] = feed[s]
        BY <1>7, <2>1 DEF TakeTicket, TypeOK
      <3>2. tickets'[t] = [tickets[t] EXCEPT !.operator = task[k].operator,
                                 !.status = StatusAfterReply(tickets[t].status)]
        BY <1>0, <1>7, <2>1 DEF TakeTicket, TypeOK
      <3>3. tickets'[t].operator = task[k].operator
        BY <1>0, <3>2 DEF Ticket
      <3>4. tickets[t].operator = Null
        BY <2>1 DEF Takeable
      <3>5. "tell_intro" \in Label /\ task[k].at = "assign"
        BY <1>7 DEF Label, TakeTicket
      <3>6. /\ task'[k].at = "tell_intro" /\ task'[k].ticket = t
            /\ task'[k].operator = task[k].operator
            /\ \A l \in Tasks : l # k => task'[l] = task[l]
        BY <1>7, <2>1, <3>5, GoneTo DEF TakeTicket
      <3>7. UNCHANGED told /\ tickets'[t].status # "none"
        BY <1>0, <1>7 DEF TakeTicket, Lifecycle
      <3>8. task[k].operator \in Operators
        BY <1>0, <3>5 DEF Relies
      <3>9. Alone(k, t)
        <4>1. ~HasBeenTold(t, {"intro"})
          BY <1>10, <3>4 DEF Agrees
        <4>2. \A l \in Tasks : task[l].at = "tell_intro" =>
                /\ task[l].operator \in Operators
                /\ task[l].operator = tickets[task[l].ticket].operator
          BY StoryParts DEF Relies
        <4>3. \A l \in Tasks : task[l].at = "tell_intro" => task[l].ticket # t
          BY <3>4, <4>2, NullAssumption
        <4> QED  BY <4>1, <4>3 DEF Alone
      <3> HIDE DEF t
      <3>10. Relies(k)'
        BY <1>0, <3>3, <3>6, <3>7, <3>8 DEF Relies
      <3> QED  BY <1>0, <3>1, <3>3, <3>6, <3>7, <3>9, <3>10, StoryRow
    <2>2. CASE ~Takeable(t)
      BY <1>7, <2>2, Finished, EndedRelies, StorySame DEF TakeTicket
    <2> QED  BY <2>1, <2>2
  <1>8. CASE TellIntro(k)
    <2>1. task[k].at = "tell_intro" /\ Finish(k) /\ UNCHANGED <<tickets, feed>>
      BY <1>8 DEF TellIntro
    <2>2. CASE UNCHANGED told
      BY <2>1, <2>2, Finished, EndedRelies, StorySame
    <2>3. CASE Tell(t, "intro", task[k].operator)
      <3>1. /\ [what |-> "intro", operator |-> task[k].operator] \in Notice
            /\ "intro" \notin Closings
        BY <1>0 DEF Notice, Task, Closings
      <3>2. task[k].operator = tickets[t].operator /\ task[k].operator # Null
        BY <1>0, <2>1, NullAssumption DEF Relies
      <3>3. Alone(k, t)
        BY <2>1, StoryParts
      <3> HIDE DEF t
      <3> QED  BY <1>0, <2>1, <2>3, <3>1, <3>2, <3>3, StoryTold
    <2> QED  BY <1>8, <2>2, <2>3 DEF TellIntro
  <1> QED  BY <1>1, <1>2, <1>3, <1>4, <1>5, <1>6, <1>7, <1>8 DEF DashboardStep

LEMMA StoryStep ==
    ASSUME TypeOK, Inv, [Next]_vars
    PROVE  Story'
  <1>1. ASSUME NEW k \in Tasks, Abort(k) PROVE Story'
    BY <1>1, Finished, EndedRelies, StorySame DEF Abort, rows
  <1>2. CASE UNCHANGED <<task, tickets, feed, told>>
    <2>1. \A k \in Tasks : Relies(k)'
      BY <1>2, StoryParts DEF Relies
    <2>2. \A k \in Tasks : task'[k].at = "tell_intro" => Alone(k, task[k].ticket)'
      BY <1>2, StoryParts DEF Alone, HasBeenTold
    <2>3. \A t \in TicketIds : Agrees(t)
      BY StoryParts
    <2>4. \A t \in TicketIds : Agrees(t)'
      BY <1>2, <2>3 DEF Agrees, HasBeenTold
    <2> QED  BY <2>1, <2>2, <2>4, StoryWhole
  <1>3. ASSUME NEW u \in Users, MarkCannotWrite(u) PROVE Story'
    BY <1>2, <1>3 DEF MarkCannotWrite, rows
  <1>4. CASE UNCHANGED vars
    BY <1>2, <1>4 DEF vars, rows
  <1> QED  BY <1>1, <1>3, <1>4, StoryUserRequest, StoryUserStep,
              StoryDashboardRequest, StoryDashboardStep DEF Next

-----------------------------------------------------------------------------
(* The theorems.                                                           *)

LEMMA Initially == Init => TypeOK /\ Inv
  <1> SUFFICES ASSUME Init PROVE TypeOK /\ Inv
    OBVIOUS
  <1>1. NoTicket \in Ticket /\ NoTicket.status = "none"
    BY DEF NoTicket, Ticket
  <1>2. TypeOK
    BY <1>1, NoTaskType, BoundAssumption DEF Init, TypeOK, Fate
  <1>3. \A k \in Tasks : task[k].at = "free"
    BY NoTaskType DEF Init
  <1>4. \A t \in TicketIds :
          tickets[t] = NoTicket /\ told[t] = <<>> /\ feed[t] = <<>>
    BY DEF Init
  <1>5. TasksReferToTickets /\ MessagesAreHandledOnce
    BY <1>3, <1>4 DEF TasksReferToTickets, MessagesAreHandledOnce, OnTicket, OnMessage
  <1>6. OneIntroduction /\ ClosedBeforeTold
    BY <1>3, <1>4 DEF OneIntroduction, ClosedBeforeTold, ToldClosedIsClosed, HasBeenTold
  <1>7. OneOpenTicketPerUser /\ OneOperatorPerTicket /\ StoredOnce
    BY <1>1, <1>4 DEF OneOpenTicketPerUser, OneOperatorPerTicket, StoredOnce,
                      OpenOf, Open
  <1> QED  BY <1>2, <1>5, <1>6, <1>7 DEF Inv

LEMMA Inductive == TypeOK /\ Inv /\ [Next]_vars => TypeOK' /\ Inv'
  <1> SUFFICES ASSUME TypeOK, Inv, [Next]_vars PROVE TypeOK' /\ Inv'
    OBVIOUS
  <1>1. TypeOK' /\ OneOpenTicketPerUser'
    BY Effect, OneOpenStep
  <1>2. MessagesAreHandledOnce' /\ StoredOnce'
    BY MessagesStep
  <1>3. Story'
    BY StoryStep
  <1> QED  BY <1>1, <1>2, <1>3 DEF Inv, Story

\* The inductive invariant holds: handlers rely on what is so, whatever the
\* others do between their statements.
THEOREM InvCorrect == Spec => [](TypeOK /\ Inv)
  <1>1. Init => TypeOK /\ Inv
    BY Initially
  <1>2. TypeOK /\ Inv /\ [Next]_vars => (TypeOK /\ Inv)'
    BY Inductive
  <1> QED  BY <1>1, <1>2, PTL DEF Spec

\* The types are right.
THEOREM TypeCorrect == Spec => []TypeOK
  BY InvCorrect, PTL

\* create_ticket never leaves a user with two tickets that are not closed.
THEOREM OneOpenTicketCorrect == Spec => []OneOpenTicketPerUser
  <1>1. Inv => OneOpenTicketPerUser
    BY DEF Inv
  <1> QED  BY <1>1, InvCorrect, PTL

\* take_ticket gives a ticket to one persona, and the user meets only that one.
THEOREM OneOperatorCorrect == Spec => []OneOperatorPerTicket
  <1>1. Inv => OneOperatorPerTicket
    BY DEF Inv
  <1> QED  BY <1>1, InvCorrect, PTL

\* add_message stores no message of a user twice.
THEOREM StoredOnceCorrect == Spec => []StoredOnce
  <1>1. Inv => StoredOnce
    BY DEF Inv
  <1> QED  BY <1>1, InvCorrect, PTL

\* Who was told that his ticket is closed has it closed for good: neither a
\* reply nor a take that found it open before undoes what the notice says.
THEOREM ToldClosedIsClosedCorrect == Spec => []ToldClosedIsClosed
  <1>1. Inv => ToldClosedIsClosed
    BY DEF Inv, ClosedBeforeTold
  <1> QED  BY <1>1, InvCorrect, PTL

\* No handler that found a ticket open reopens or reassigns it once closed.
THEOREM ClosedIsFinalCorrect == Spec => ClosedIsFinal
  <1>1. TypeOK /\ Inv /\ [Next]_vars =>
          [\A t \in TicketIds : tickets[t].status = "closed" =>
              /\ tickets'[t].status = "closed"
              /\ tickets'[t].operator = tickets[t].operator]_vars
    BY Effect DEF Lifecycle
  <1> QED  BY <1>1, InvCorrect, PTL DEF Spec, ClosedIsFinal

-----------------------------------------------------------------------------
(* Tickets implements TicketLife.                                          *)

\* A ticket is made for a user.
SendersKnown ==
    \A k \in Tasks : task[k].at \in {"get_user", "create"} => task[k].user \in Users

\* A request begins with a sender.
LEMMA SenderBegins ==
    ASSUME TypeOK, SendersKnown, NEW k \in Tasks, NEW r \in Task, Begin(k, r),
           r.at \in {"get_user", "create"} => r.user \in Users
    PROVE  SendersKnown'
  BY Begun DEF SendersKnown

LEMMA SendersStep ==
    ASSUME TypeOK, Inv, SendersKnown, [Next]_vars
    PROVE  SendersKnown'
  <1>1. ASSUME NEW k \in Tasks, UserRequest(k) PROVE SendersKnown'
    <2>1. PICK u \in Users :
             \/ TicketNew(k, u)
             \/ \E t \in TicketIds : TicketClose(k, u, t) \/ Rate(k, u, t)
             \/ \E m \in Msgs : Text(k, u, m)
      BY <1>1 DEF UserRequest
    <2>2. ASSUME NEW t \in OpenOf(u), Begin(k, [NoTask EXCEPT !.at = "tell_created", !.user = u, !.ticket = t])
          PROVE  SendersKnown'
      <3> DEFINE r == [NoTask EXCEPT !.at = "tell_created", !.user = u, !.ticket = t]
      <3>1. r \in Task /\ r.at = "tell_created"
        BY DEF NoTask, Task, Label, OpenOf
      <3> HIDE DEF r
      <3>2. Begin(k, r)
        BY <2>2 DEF r
      <3> QED  BY <3>1, <3>2, SenderBegins
    <2>3. CASE Begin(k, [NoTask EXCEPT !.at = "await", !.user = u])
      <3> DEFINE r == [NoTask EXCEPT !.at = "await", !.user = u]
      <3>1. r \in Task /\ r.at = "await"
        BY DEF NoTask, Task, Label
      <3> HIDE DEF r
      <3>2. Begin(k, r)
        BY <2>3 DEF r
      <3> QED  BY <3>1, <3>2, SenderBegins
    <2>4. ASSUME NEW t \in TicketIds, TicketClose(k, u, t)
          PROVE  SendersKnown'
      <3> DEFINE r == [NoTask EXCEPT !.at = "close", !.user = u, !.ticket = t, !.peer = u]
      <3>1. r \in Task /\ r.at = "close"
        BY DEF NoTask, Task, Label
      <3> HIDE DEF r
      <3>2. Begin(k, r)
        BY <2>4 DEF TicketClose, r
      <3> QED  BY <3>1, <3>2, SenderBegins
    <2>5. ASSUME NEW t \in TicketIds, Rate(k, u, t)
          PROVE  SendersKnown'
      <3> DEFINE r == [NoTask EXCEPT !.at = "rate", !.user = u, !.ticket = t]
      <3>1. r \in Task /\ r.at = "rate"
        BY DEF NoTask, Task, Label
      <3> HIDE DEF r
      <3>2. Begin(k, r)
        BY <2>5 DEF Rate, r
      <3> QED  BY <3>1, <3>2, SenderBegins
    <2>6. ASSUME NEW m \in Msgs, NEW t \in OpenOf(u),
                 Begin(k, [NoTask EXCEPT !.at = "add", !.user = u, !.ticket = t, !.msg = m])
          PROVE  SendersKnown'
      <3> DEFINE r == [NoTask EXCEPT !.at = "add", !.user = u, !.ticket = t, !.msg = m]
      <3>1. r \in Task /\ r.at = "add"
        BY DEF NoTask, Task, Label, OpenOf
      <3> HIDE DEF r
      <3>2. Begin(k, r)
        BY <2>6 DEF r
      <3> QED  BY <3>1, <3>2, SenderBegins
    <2>7. ASSUME NEW m \in Msgs, Begin(k, [NoTask EXCEPT !.at = "get_user", !.user = u, !.msg = m])
          PROVE  SendersKnown'
      <3> DEFINE r == [NoTask EXCEPT !.at = "get_user", !.user = u, !.msg = m]
      <3>1. r \in Task /\ r.at = "get_user" /\ r.user = u
        BY DEF NoTask, Task, Label
      <3> HIDE DEF r
      <3>2. Begin(k, r)
        BY <2>7 DEF r
      <3> QED  BY <3>1, <3>2, SenderBegins
    <2> QED  BY <2>1, <2>2, <2>3, <2>4, <2>5, <2>6, <2>7 DEF TicketNew, Text
  <1>2. ASSUME NEW k \in Tasks,
               \/ Finish(k)
               \/ \E label \in Label \ {"get_user", "create"} : Goto(k, label)
               \/ \E label \in Label \ {"get_user", "create"}, t \in TicketIds :
                     task' = [task EXCEPT ![k].ticket = t, ![k].at = label]
               \/ \E label \in Label : task[k].at = "get_user" /\ Goto(k, label)
        PROVE  SendersKnown'
    <2>1. CASE Finish(k)
      BY <2>1, Finished DEF SendersKnown
    <2>2. ASSUME NEW label \in Label, Goto(k, label),
                 label \notin {"get_user", "create"} \/ task[k].at = "get_user"
          PROVE  SendersKnown'
      <3>1. /\ task'[k].at = label /\ task'[k].user = task[k].user
            /\ \A l \in Tasks : l # k => task'[l] = task[l]
        BY <2>2, GoneTo
      <3>2. label \in {"get_user", "create"} => task'[k].user \in Users
        BY <2>2, <3>1 DEF SendersKnown
      <3> QED  BY <3>1, <3>2 DEF SendersKnown
    <2>3. ASSUME NEW label \in Label \ {"get_user", "create"}, NEW t \in TicketIds,
                 task' = [task EXCEPT ![k].ticket = t, ![k].at = label]
          PROVE  SendersKnown'
      <3>1. /\ task'[k].at = label
            /\ \A l \in Tasks : l # k => task'[l] = task[l]
        BY <2>3, GoneToTicket
      <3> QED  BY <2>3, <3>1 DEF SendersKnown
    <2> QED  BY <1>2, <2>1, <2>2, <2>3
  <1>3. ASSUME NEW k \in Tasks, UserStep(k) PROVE SendersKnown'
    <2>1. {"create", "menu", "add_first", "reread", "get_user", "idle", "tell_created"}
            \subseteq Label
      BY DEF Label
    <2>2. AwaitProblem(k) \/ SaveRating(k) \/ SendMenu(k) \/ TellCreated(k) => Finish(k)
      BY DEF AwaitProblem, SaveRating, SendMenu, TellCreated
    <2>3. GetUser(k) =>
            \E label \in Label : task[k].at = "get_user" /\ Goto(k, label)
      BY <2>1 DEF GetUser
    <2>4. CreateTicket(k) =>
            \/ \E t \in TicketIds : task' = [task EXCEPT ![k].ticket = t, ![k].at = "add_first"]
            \/ Goto(k, "reread")
      BY DEF CreateTicket
    <2>5. ReadExisting(k) =>
            \/ \E t \in TicketIds : task' = [task EXCEPT ![k].ticket = t, ![k].at = "add_first"]
            \/ Finish(k)
      BY DEF ReadExisting, OpenOf
    <2>6. AddMessage(k) => Finish(k) \/ Goto(k, "idle")
      BY DEF AddMessage, AfterAdd
    <2>7. SetIdle(k) => Goto(k, "tell_created")
      BY DEF SetIdle
    <2> QED  BY <1>2, <1>3, <2>1, <2>2, <2>3, <2>4, <2>5, <2>6, <2>7 DEF UserStep
  <1>4. ASSUME NEW k \in Tasks, DashboardRequest(k) PROVE SendersKnown'
    <2>1. PICK t \in TicketIds :
             \/ Reply(k, t) \/ MarkRead(k, t) \/ Close(k, t)
             \/ \E o \in Operators : Take(k, t, o)
      BY <1>4 DEF DashboardRequest
    <2>2. Peer(t) \in Users \cup {Null} /\ tickets[t].operator \in Operators \cup {Null}
      BY DEF Peer, TypeOK, Ticket
    <2>3. CASE Reply(k, t)
      <3> DEFINE r == [NoTask EXCEPT !.at = "reply", !.ticket = t, !.peer = Peer(t)]
      <3>1. r \in Task /\ r.at = "reply"
        BY <2>2 DEF NoTask, Task, Label
      <3> HIDE DEF r
      <3>2. Begin(k, r)
        BY <2>3 DEF Reply, r
      <3> QED  BY <3>1, <3>2, SenderBegins
    <2>4. CASE MarkRead(k, t)
      <3> DEFINE r == [NoTask EXCEPT !.at = "read", !.ticket = t]
      <3>1. r \in Task /\ r.at = "read"
        BY <2>2 DEF NoTask, Task, Label
      <3> HIDE DEF r
      <3>2. Begin(k, r)
        BY <2>4 DEF MarkRead, r
      <3> QED  BY <3>1, <3>2, SenderBegins
    <2>5. CASE Close(k, t)
      <3> DEFINE r == [NoTask EXCEPT !.at = "close", !.ticket = t, !.peer = Peer(t),
                                   !.operator = tickets[t].operator]
      <3>1. r \in Task /\ r.at = "close"
        BY <2>2 DEF NoTask, Task, Label
      <3> HIDE DEF r
      <3>2. Begin(k, r)
        BY <2>5 DEF Close, r
      <3> QED  BY <3>1, <3>2, SenderBegins
    <2>6. ASSUME NEW o \in Operators, Take(k, t, o)
          PROVE  SendersKnown'
      <3> DEFINE r == [NoTask EXCEPT !.at = "assign", !.ticket = t, !.peer = Peer(t),
                                   !.operator = o]
      <3>1. r \in Task /\ r.at = "assign"
        BY <2>2 DEF NoTask, Task, Label
      <3> HIDE DEF r
      <3>2. Begin(k, r)
        BY <2>6 DEF Take, r
      <3> QED  BY <3>1, <3>2, SenderBegins
    <2> QED  BY <2>1, <2>3, <2>4, <2>5, <2>6
  <1>5. ASSUME NEW k \in Tasks, DashboardStep(k) PROVE SendersKnown'
    <2>1. {"read", "tell_reply", "tell_closed", "tell_intro"} \subseteq Label
      BY DEF Label
    <2>2. CASE MarkMessages(k)
      <3>1. task'[k].at = "zero" /\ \A l \in Tasks : l # k => task'[l] = task[l]
        BY <2>2 DEF MarkMessages, TypeOK, Task
      <3> QED  BY <3>1 DEF SendersKnown
    <2>3. TellReply(k) \/ TellClosed(k) \/ TellIntro(k) => Finish(k)
      BY DEF TellReply, TellClosed, TellIntro
    <2>4. /\ AddReply(k) => Goto(k, "read")
          /\ ZeroUnread(k) => Finish(k) \/ Goto(k, "tell_reply")
          /\ CloseTicket(k) => Goto(k, "tell_closed")
          /\ TakeTicket(k) => Finish(k) \/ Goto(k, "tell_intro")
      BY DEF AddReply, ZeroUnread, CloseTicket, TakeTicket
    <2> QED  BY <1>2, <1>5, <2>1, <2>2, <2>3, <2>4 DEF DashboardStep
  <1>6. ASSUME NEW k \in Tasks, Abort(k) PROVE SendersKnown'
    BY <1>2, <1>6 DEF Abort
  <1>7. CASE UNCHANGED task
    BY <1>7 DEF SendersKnown
  <1> QED  BY <1>1, <1>3, <1>4, <1>5, <1>6, <1>7 DEF Next, MarkCannotWrite, vars

\* A step that TicketLife does not see.
LEMMA LifeSame ==
    ASSUME \A t \in TicketIds : LifeOf(t)' = LifeOf(t), UNCHANGED told
    PROVE  [Life!Next]_Life!vars
  BY DEF Life!vars, Count

\* The row of one ticket changes.
LEMMA LifeRow ==
    ASSUME NEW t \in TicketIds, NEW row, UNCHANGED told, LifeOf(t)' = row,
           \A s \in TicketIds : s # t => tickets'[s] = tickets[s]
    PROVE  /\ [s \in TicketIds |-> LifeOf(s)]'
                = [[s \in TicketIds |-> LifeOf(s)] EXCEPT ![t] = row]
           /\ UNCHANGED [s \in TicketIds |-> Count(s, "intro")]
           /\ UNCHANGED [s \in TicketIds |->
                 {told[s][n].operator : n \in DOMAIN told[s]} \ {Null}]
  BY DEF LifeOf, Count

\* Something is said about a ticket: its persona is named, or nobody is.
LEMMA LifeTold ==
    ASSUME TypeOK, Inv, NEW t \in TicketIds, NEW what, NEW operator,
           [what |-> what, operator |-> operator] \in Notice,
           Tell(t, what, operator), UNCHANGED tickets,
           operator \in {Null, tickets[t].operator},
           what = "intro" => operator # Null /\ ~HasBeenTold(t, {"intro"})
    PROVE  [Life!Next]_Life!vars
  <1> DEFINE n == Len(told[t]) + 1
             intros(s) == {i \in DOMAIN told[s] : told[s][i].what = "intro"}
             names(s) == {told[s][i].operator : i \in DOMAIN told[s]} \ {Null}
  <1>1. /\ DOMAIN told'[t] = DOMAIN told[t] \cup {n}
        /\ \A i \in DOMAIN told[t] : told'[t][i] = told[t][i]
        /\ told'[t][n].what = what /\ told'[t][n].operator = operator
        /\ n \notin DOMAIN told[t]
        /\ \A s \in TicketIds : s # t => told'[s] = told[s]
    BY Told
  <1> HIDE DEF n
  <1>2. \A i \in DOMAIN told[t] : told[t][i].operator \in {Null, tickets[t].operator}
    BY DEF Inv, OneOperatorPerTicket
  <1>3. UNCHANGED [s \in TicketIds |-> LifeOf(s)]
    BY DEF LifeOf
  <1>4. \A s \in TicketIds : s # t => UNCHANGED <<intros(s), names(s)>>
    BY <1>1
  <1>5. CASE operator = Null
    <2>1. UNCHANGED <<intros(t), names(t)>>
      BY <1>1, <1>5
    <2> HIDE DEF intros, names
    <2>2. \A s \in TicketIds : UNCHANGED <<intros(s), names(s)>>
      BY <1>4, <2>1
    <2> QED  BY <1>3, <2>2 DEF Life!vars, Count, intros, names
  <1>6. CASE operator # Null
    <2>1. operator = tickets[t].operator /\ names(t)' = {operator}
      BY <1>1, <1>2, <1>6
    <2>2. \/ UNCHANGED intros(t)
          \/ /\ Cardinality(intros(t)) = 0
             /\ Cardinality(intros(t)') = 1
      <3>1. CASE what = "intro"
        <4>1. intros(t) = {} /\ intros(t)' = {n}
          BY <1>1, <3>1 DEF HasBeenTold
        <4> QED  BY <4>1, FS_EmptySet, FS_Singleton
      <3>2. CASE what # "intro"
        BY <1>1, <3>2
      <3> QED  BY <3>1, <3>2
    <2> HIDE DEF intros, names
    <2>3. [s \in TicketIds |-> names(s)]' = [[s \in TicketIds |-> names(s)] EXCEPT ![t] = {operator}]
      BY <1>4, <2>1
    <2>4. \/ UNCHANGED [s \in TicketIds |-> Cardinality(intros(s))]
          \/ /\ Cardinality(intros(t)) = 0
             /\ [s \in TicketIds |-> Cardinality(intros(s))]'
                  = [[s \in TicketIds |-> Cardinality(intros(s))] EXCEPT ![t] = 1]
      BY <1>4, <2>2
    <2>5. LifeOf(t).operator = operator
      BY <2>1 DEF LifeOf
    <2>6. Life!Name(t)
      BY <1>3, <1>6, <2>3, <2>4, <2>5 DEF Life!Name, Count, intros, names
    <2> QED  BY <2>6 DEF Life!Next
  <1> QED  BY <1>5, <1>6

\* The handlers of a user's events, on the ticket they have found or made.
LEMMA LifeUserStep ==
    ASSUME TypeOK, Inv, SendersKnown, NEW k \in Tasks, UserStep(k)
    PROVE  [Life!Next]_Life!vars
  <1> USE DEF rows
  <1> PICK t : t = task[k].ticket
    OBVIOUS
  <1>0. Relies(k) /\ task[k] \in Task
    BY StoryParts DEF TypeOK
  <1>1. CASE UNCHANGED <<tickets, told>>
    BY <1>1, LifeSame DEF LifeOf
  <1>2. CASE SaveRating(k)
    <2>1. PICK v \in Ratings : tickets' = [tickets EXCEPT ![t].rating = v]
      BY <1>2 DEF SaveRating
    <2>2. t \in TicketIds /\ tickets[t] \in Ticket /\ tickets[t].status # "none"
      BY <1>0, <1>2 DEF SaveRating, Relies, OnTicket, TypeOK
    <2>3. /\ tickets'[t] = [tickets[t] EXCEPT !.rating = v]
          /\ \A s \in TicketIds : s # t => tickets'[s] = tickets[s]
      BY <2>1, <2>2 DEF TypeOK
    <2>4. LifeOf(t)' = [LifeOf(t) EXCEPT !.rating = v] /\ UNCHANGED told
      BY <1>2, <2>2, <2>3 DEF SaveRating, LifeOf, Ticket
    <2>5. LifeOf(t).status # "none"
      BY <2>2 DEF LifeOf
    <2>6. Life!Rate(t, v)
      BY <2>2, <2>3, <2>4, <2>5, LifeRow DEF Life!Rate
    <2> QED  BY <2>2, <2>6 DEF Life!Next
  <1>3. CASE CreateTicket(k)
    <2>1. CASE ~NoConflict(task[k].user)
      BY <1>1, <1>3, <2>1 DEF CreateTicket
    <2>2. ASSUME NEW s \in TicketIds, NoConflict(task[k].user),
                 \A r \in TicketIds : tickets[r].status # "none" <=> r < s,
                 tickets' = [tickets EXCEPT ![s] =
                    [NoTicket EXCEPT !.status = "open", !.user = task[k].user]],
                 UNCHANGED told
          PROVE  Life!Next
      <3> PICK u : u = task[k].user
        OBVIOUS
      <3>1. u \in Users
        BY <1>3 DEF CreateTicket, SendersKnown
      <3>2. LifeOf(s).status = "none"
        BY <2>2, IdsAssumption DEF LifeOf
      <3>3. \A r \in TicketIds :
              ~(LifeOf(r).status \in {"open", "in_progress"} /\ LifeOf(r).user = u)
        BY <2>2 DEF NoConflict, OpenOf, Open, LifeOf
      <3>4. LifeOf(s)' = [status |-> "open", user |-> u, operator |-> Null, rating |-> Null]
        BY <2>2 DEF LifeOf, NoTicket, TypeOK
      <3>5. \A r \in TicketIds : r # s => tickets'[r] = tickets[r]
        BY <2>2 DEF TypeOK
      <3> DEFINE row == [status |-> "open", user |-> u, operator |-> Null, rating |-> Null]
                 f == [r \in TicketIds |-> LifeOf(r)]
      <3> HIDE DEF row
      <3>6. /\ f' = [f EXCEPT ![s] = row]
            /\ UNCHANGED [r \in TicketIds |-> Count(r, "intro")]
            /\ UNCHANGED [r \in TicketIds |->
                  {told[r][n].operator : n \in DOMAIN told[r]} \ {Null}]
        BY <2>2, <3>4, <3>5, LifeRow DEF row
      <3>7. /\ f[s].status = "none"
            /\ \A r \in TicketIds :
                 ~(f[r].status \in {"open", "in_progress"} /\ f[r].user = u)
        BY <3>2, <3>3
      <3>8. f' = [f EXCEPT ![s] = [status |-> "open", user |-> u, operator |-> Null,
                                   rating |-> Null]]
        BY <3>6 DEF row
      <3> HIDE DEF f
      <3>9. Life!OpenFor(s, u)
        BY <3>6, <3>7, <3>8 DEF Life!OpenFor, Life!IsOpen, f
      <3> QED  BY <3>1, <3>9 DEF Life!Next
    <2> QED  BY <1>3, <2>1, <2>2 DEF CreateTicket
  <1>4. CASE AddMessage(k)
    <2>1. t \in TicketIds /\ tickets[t] \in Ticket
      BY <1>0, <1>4 DEF AddMessage, Relies, OnTicket, TypeOK
    <2>2. /\ tickets'[t] = [tickets[t] EXCEPT !.unread = CountUnread(tickets[t].unread, "in")]
          /\ \A s \in TicketIds : s # t => tickets'[s] = tickets[s]
      BY <1>4, <2>1 DEF AddMessage, TypeOK
    <2>3. \A s \in TicketIds : LifeOf(s)' = LifeOf(s)
      BY <2>1, <2>2 DEF LifeOf, Ticket
    <2> QED  BY <1>4, <2>3, LifeSame DEF AddMessage
  <1>5. CASE TellCreated(k)
    <2>1. t \in TicketIds /\ [what |-> "created", operator |-> Null] \in Notice
      BY <1>0, <1>5 DEF TellCreated, Relies, OnTicket, Notice
    <2>2. Tell(t, "created", Null) /\ UNCHANGED tickets
      BY <1>5 DEF TellCreated
    <2> QED  BY <2>1, <2>2, LifeTold
  <1> QED  BY <1>1, <1>2, <1>3, <1>4, <1>5
           DEF UserStep, AwaitProblem, GetUser, SendMenu, ReadExisting, SetIdle

\* The handlers of the dashboard, and of the user who closes his ticket.
LEMMA LifeDashboardStep ==
    ASSUME TypeOK, Inv, NEW k \in Tasks, DashboardStep(k)
    PROVE  [Life!Next]_Life!vars
  <1> USE DEF rows
  <1> PICK t : t = task[k].ticket
    OBVIOUS
  <1>0. /\ Relies(k)
        /\ task[k] \in Task
        /\ t \in TicketIds
        /\ tickets[t] \in Ticket
        /\ tickets[t].status \in {"open", "in_progress", "closed"}
    <2>1. task[k].at \in OnTicket
      BY DEF DashboardStep, AddReply, MarkMessages, ZeroUnread, TellReply,
             CloseTicket, TellClosed, TakeTicket, TellIntro, OnTicket
    <2> QED  BY <2>1, AtWork, StoryParts DEF Inv
  <1>1. CASE UNCHANGED <<tickets, told>>
    BY <1>1, LifeSame DEF LifeOf
  <1>2. CASE AddReply(k)
    <2>1. /\ tickets'[t] = [tickets[t] EXCEPT !.status = StatusAfterReply(tickets[t].status),
                               !.unread = CountUnread(tickets[t].unread, "out")]
          /\ \A s \in TicketIds : s # t => tickets'[s] = tickets[s]
          /\ UNCHANGED told
      BY <1>0, <1>2 DEF AddReply, TypeOK
    <2>2. LifeOf(t)' = [LifeOf(t) EXCEPT !.status = StatusAfterReply(tickets[t].status)]
      BY <1>0, <2>1 DEF LifeOf, Ticket
    <2>3. CASE tickets[t].status = "open"
      <3>1. /\ LifeOf(t).status = "open"
            /\ LifeOf(t)' = [LifeOf(t) EXCEPT !.status = "in_progress"]
        BY <2>2, <2>3 DEF LifeOf, StatusAfterReply
      <3>2. Life!Answer(t)
        BY <1>0, <2>1, <3>1, LifeRow DEF Life!Answer
      <3> QED  BY <1>0, <3>2 DEF Life!Next
    <2>4. CASE tickets[t].status # "open"
      <3>1. LifeOf(t)' = LifeOf(t)
        BY <2>2, <2>4 DEF LifeOf, StatusAfterReply
      <3>2. \A s \in TicketIds : LifeOf(s)' = LifeOf(s)
        BY <2>1, <3>1 DEF LifeOf
      <3> QED  BY <2>1, <3>2, LifeSame
    <2> QED  BY <2>3, <2>4
  <1>3. CASE ZeroUnread(k)
    <2>1. /\ tickets'[t] = [tickets[t] EXCEPT !.unread = 0]
          /\ \A s \in TicketIds : s # t => tickets'[s] = tickets[s]
      BY <1>0, <1>3 DEF ZeroUnread, TypeOK
    <2>2. \A s \in TicketIds : LifeOf(s)' = LifeOf(s)
      BY <1>0, <2>1 DEF LifeOf, Ticket
    <2> QED  BY <1>3, <2>2, LifeSame DEF ZeroUnread
  <1>4. CASE TellReply(k)
    <2>1. [what |-> "reply", operator |-> Null] \in Notice
      BY DEF Notice
    <2>2. Tell(t, "reply", Null) /\ UNCHANGED tickets
      BY <1>4 DEF TellReply
    <2> QED  BY <1>0, <2>1, <2>2, LifeTold
  <1>5. CASE CloseTicket(k)
    <2>1. /\ tickets'[t] = [tickets[t] EXCEPT !.status = "closed", !.rating = Null]
          /\ \A s \in TicketIds : s # t => tickets'[s] = tickets[s]
          /\ UNCHANGED told
      BY <1>0, <1>5 DEF CloseTicket, TypeOK
    <2> DEFINE row == [status |-> "closed", user |-> tickets[t].user,
                       operator |-> tickets[t].operator, rating |-> Null]
               f == [s \in TicketIds |-> LifeOf(s)]
    <2>2. LifeOf(t)' = row
      <3>1. /\ tickets'[t].status = "closed" /\ tickets'[t].rating = Null
            /\ tickets'[t].user = tickets[t].user
            /\ tickets'[t].operator = tickets[t].operator
        BY <1>0, <2>1 DEF Ticket
      <3> QED  BY <3>1 DEF LifeOf
    <2>3. LifeOf(t).status # "none"
      BY <1>0 DEF LifeOf
    <2>4. /\ f = [s \in TicketIds |-> f[s]]
          /\ f[t] = [status |-> tickets[t].status, user |-> tickets[t].user,
                     operator |-> tickets[t].operator, rating |-> tickets[t].rating]
      BY <1>0 DEF LifeOf
    <2> HIDE DEF row
    <2>5. /\ f' = [f EXCEPT ![t] = row]
          /\ UNCHANGED [s \in TicketIds |-> Count(s, "intro")]
          /\ UNCHANGED [s \in TicketIds |->
                {told[s][n].operator : n \in DOMAIN told[s]} \ {Null}]
      BY <1>0, <2>1, <2>2, LifeRow
    <2> HIDE DEF f
    <2>6. f' = [f EXCEPT ![t].status = "closed", ![t].rating = Null]
      <3> DEFINE r == [status |-> "closed", user |-> tickets[t].user,
                       operator |-> tickets[t].operator, rating |-> tickets[t].rating]
      <3>1. [f EXCEPT ![t].status = "closed", ![t].rating = Null]
              = [f EXCEPT ![t] = [[f[t] EXCEPT !.status = "closed"] EXCEPT !.rating = Null]]
        BY <1>0, <2>4
      <3>2. [f[t] EXCEPT !.status = "closed"] = r
        BY <2>4
      <3>3. [r EXCEPT !.rating = Null] = row
        BY DEF row
      <3> HIDE DEF r
      <3> QED  BY <2>5, <3>1, <3>2, <3>3, Zenon
    <2>7. f[t].status # "none"
      BY <1>0, <2>4
    <2>8. Life!Close(t)
      BY <2>5, <2>6, <2>7 DEF Life!Close, f
    <2> QED  BY <1>0, <2>8 DEF Life!Next
  <1>6. CASE TellClosed(k)
    <2>1. task[k].at = "tell_closed" /\ UNCHANGED tickets
      BY <1>6 DEF TellClosed
    <2>2. CASE UNCHANGED told
      BY <1>1, <2>1, <2>2
    <2>3. CASE Tell(t, IF task[k].user = Null THEN "farewell" ELSE "closed",
                    task[k].operator)
      <3> DEFINE what == IF task[k].user = Null THEN "farewell" ELSE "closed"
      <3>1. /\ what # "intro"
            /\ [what |-> what, operator |-> task[k].operator] \in Notice
            /\ task[k].operator \in {Null, tickets[t].operator}
        BY <1>0, <2>1 DEF Notice, Task, Relies
      <3> HIDE DEF what
      <3>2. Tell(t, what, task[k].operator)
        BY <2>3 DEF what
      <3> QED  BY <1>0, <2>1, <3>1, <3>2, LifeTold
    <2> QED  BY <1>6, <2>2, <2>3 DEF TellClosed
  <1>7. CASE TakeTicket(k)
    <2>1. CASE ~Takeable(t)
      BY <1>1, <1>7, <2>1 DEF TakeTicket
    <2>2. CASE Takeable(t)
      <3> PICK o : o = task[k].operator
        OBVIOUS
      <3>1. /\ tickets'[t] = [tickets[t] EXCEPT !.operator = o,
                                 !.status = StatusAfterReply(tickets[t].status)]
            /\ \A s \in TicketIds : s # t => tickets'[s] = tickets[s]
            /\ UNCHANGED told
        BY <1>0, <1>7, <2>2 DEF TakeTicket, TypeOK
      <3>2. tickets[t].operator = Null /\ tickets[t].status \in {"open", "in_progress"}
        BY <1>0, <2>2 DEF Takeable
      <3> DEFINE row == [status |-> "in_progress", user |-> tickets[t].user,
                         operator |-> o, rating |-> tickets[t].rating]
                 f == [s \in TicketIds |-> LifeOf(s)]
      <3>3. LifeOf(t)' = row
        <4>1. /\ tickets'[t].status = "in_progress" /\ tickets'[t].operator = o
              /\ tickets'[t].user = tickets[t].user
              /\ tickets'[t].rating = tickets[t].rating
          BY <1>0, <3>1, <3>2 DEF Ticket, StatusAfterReply
        <4> QED  BY <4>1 DEF LifeOf
      <3>4. /\ f = [s \in TicketIds |-> f[s]]
            /\ f[t] = [status |-> tickets[t].status, user |-> tickets[t].user,
                       operator |-> tickets[t].operator, rating |-> tickets[t].rating]
        BY <1>0 DEF LifeOf
      <3>5. o \in Operators
        BY <1>0, <1>7 DEF Relies, TakeTicket
      <3> HIDE DEF row
      <3>6. /\ f' = [f EXCEPT ![t] = row]
            /\ UNCHANGED [s \in TicketIds |-> Count(s, "intro")]
            /\ UNCHANGED [s \in TicketIds |->
                  {told[s][n].operator : n \in DOMAIN told[s]} \ {Null}]
        BY <1>0, <3>1, <3>3, LifeRow
      <3> HIDE DEF f
      <3>7. f' = [f EXCEPT ![t].operator = o, ![t].status = "in_progress"]
        <4> DEFINE r == [status |-> tickets[t].status, user |-> tickets[t].user,
                         operator |-> o, rating |-> tickets[t].rating]
        <4>1. [f EXCEPT ![t].operator = o, ![t].status = "in_progress"]
                = [f EXCEPT ![t] = [[f[t] EXCEPT !.operator = o]
                                      EXCEPT !.status = "in_progress"]]
          BY <1>0, <3>4
        <4>2. [f[t] EXCEPT !.operator = o] = r
          BY <3>4
        <4>3. [r EXCEPT !.status = "in_progress"] = row
          BY DEF row
        <4> HIDE DEF r
        <4> QED  BY <3>6, <4>1, <4>2, <4>3, Zenon
      <3>8. f[t].operator = Null /\ f[t].status \in {"open", "in_progress"}
        BY <3>2, <3>4
      <3>9. Life!AssignTo(t, o)
        BY <3>6, <3>7, <3>8 DEF Life!AssignTo, Life!IsOpen, f
      <3> QED  BY <1>0, <3>5, <3>9 DEF Life!Next
    <2> QED  BY <2>1, <2>2
  <1>8. CASE TellIntro(k)
    <2>1. task[k].at = "tell_intro" /\ UNCHANGED tickets
      BY <1>8 DEF TellIntro
    <2>2. CASE UNCHANGED told
      BY <1>1, <2>1, <2>2
    <2>3. CASE Tell(t, "intro", task[k].operator)
      <3>1. [what |-> "intro", operator |-> task[k].operator] \in Notice
        BY <1>0 DEF Notice, Task
      <3>2. task[k].operator = tickets[t].operator /\ task[k].operator # Null
        BY <1>0, <2>1, NullAssumption DEF Relies
      <3>3. ~HasBeenTold(t, {"intro"})
        BY <2>1, StoryParts DEF Alone
      <3> QED  BY <1>0, <2>1, <2>3, <3>1, <3>2, <3>3, LifeTold
    <2> QED  BY <1>8, <2>2, <2>3 DEF TellIntro
  <1> QED  BY <1>1, <1>2, <1>3, <1>4, <1>5, <1>6, <1>7, <1>8
           DEF DashboardStep, MarkMessages

\* Tickets implements TicketLife: whatever handlers found before, each of their
\* statements is a step of the life of one ticket, or none.
THEOREM ImplementsTicketLifeCorrect == Spec => ImplementsTicketLife
  <1>1. Init => Life!Init
    <2> SUFFICES ASSUME Init PROVE Life!Init
      OBVIOUS
    <2>1. \A t \in TicketIds : LifeOf(t) = Life!Blank
      BY DEF Init, LifeOf, NoTicket, Life!Blank
    <2>2. \A t \in TicketIds : told[t] = <<>>
      BY DEF Init
    <2>3. \A t \in TicketIds : Count(t, "intro") = 0
      <3>1. \A t \in TicketIds : {n \in DOMAIN told[t] : told[t][n].what = "intro"} = {}
        BY <2>2
      <3> QED  BY <3>1, FS_EmptySet DEF Count
    <2>4. \A t \in TicketIds :
            {told[t][n].operator : n \in DOMAIN told[t]} \ {Null} = {}
      BY <2>2
    <2> QED  BY <2>1, <2>3, <2>4 DEF Life!Init
  <1>2. ASSUME TypeOK, Inv, SendersKnown, [Next]_vars PROVE [Life!Next]_Life!vars
    <2>1. CASE UNCHANGED <<tickets, told>>
      BY <2>1, LifeSame DEF LifeOf
    <2>2. ASSUME NEW k \in Tasks, UserRequest(k) \/ DashboardRequest(k) \/ Abort(k)
          PROVE  UNCHANGED <<tickets, told>>
      BY <2>2 DEF UserRequest, DashboardRequest, TicketNew, TicketClose, Rate, Text,
                  Reply, MarkRead, Close, Take, Abort, rows
    <2>3. ASSUME NEW u \in Users, MarkCannotWrite(u)
          PROVE  UNCHANGED <<tickets, told>>
      BY <2>3 DEF MarkCannotWrite, rows
    <2>4. UNCHANGED vars => UNCHANGED <<tickets, told>>
      BY DEF vars, rows
    <2> QED  BY <1>2, <2>1, <2>2, <2>3, <2>4, LifeUserStep, LifeDashboardStep DEF Next
  <1>3. Init => SendersKnown
    BY NoTaskType DEF Init, SendersKnown
  <1>4. TypeOK /\ Inv /\ SendersKnown /\ [Next]_vars => SendersKnown'
    BY SendersStep
  <1>5. Spec => []SendersKnown
    BY <1>3, <1>4, InvCorrect, PTL DEF Spec
  <1> QED  BY <1>1, <1>2, <1>5, InvCorrect, PTL DEF Spec, ImplementsTicketLife, Life!Spec

-----------------------------------------------------------------------------
(* How a request begins a handler.                                         *)

\* An event of VK.
LEMMA EventBegins ==
    ASSUME TypeOK, NEW k \in Tasks, UserRequest(k)
    PROVE  /\ MayArrive
           /\ UNCHANGED <<userState, canWrite, tickets, feed, read, told>>
           /\ \E r \in Task :
                /\ Begin(k, r)
                /\ r.user \in Users
                /\ r.at \in {"tell_created", "await", "close", "rate", "add", "get_user"}
                /\ r.at \in {"await", "get_user"} => OpenOf(r.user) = {}
                /\ \/ r.at \notin OnMessage /\ UNCHANGED fate
                   \/ /\ r.msg \in Msgs
                      /\ fate[r.msg] = "new"
                      /\ \A n \in Msgs : n < r.msg => fate[n] # "new"
                      /\ fate' = [fate EXCEPT ![r.msg] = "handled"]
  <1> USE DEF rows
  <1>1. PICK u \in Users :
           \/ TicketNew(k, u)
           \/ \E t \in TicketIds : TicketClose(k, u, t) \/ Rate(k, u, t)
           \/ \E m \in Msgs : Text(k, u, m)
    BY DEF UserRequest
  <1>2. CASE TicketNew(k, u)
    <2>1. CASE \E t \in OpenOf(u) : Begin(k, [NoTask EXCEPT !.at = "tell_created", !.user = u, !.ticket = t])
      <3>1. PICK t \in OpenOf(u) : Begin(k, [NoTask EXCEPT !.at = "tell_created", !.user = u, !.ticket = t])
        BY <2>1
      <3> DEFINE r == [NoTask EXCEPT !.at = "tell_created", !.user = u, !.ticket = t]
      <3>2. r \in Task /\ r.at = "tell_created" /\ r.user = u /\ r.at \notin OnMessage
        BY DEF NoTask, Task, Label, OpenOf, OnMessage
      <3>3. Begin(k, r)
        BY <3>1
      <3> HIDE DEF r
      <3> QED  BY <1>2, <3>2, <3>3 DEF TicketNew
    <2>2. CASE OpenOf(u) = {} /\ Begin(k, [NoTask EXCEPT !.at = "await", !.user = u])
      <3> DEFINE r == [NoTask EXCEPT !.at = "await", !.user = u]
      <3>1. r \in Task /\ r.at = "await" /\ r.user = u /\ r.at \notin OnMessage
        BY DEF NoTask, Task, Label, OnMessage
      <3>2. Begin(k, r) /\ OpenOf(r.user) = {}
        BY <2>2, <3>1
      <3> HIDE DEF r
      <3> QED  BY <1>2, <3>1, <3>2 DEF TicketNew
    <2> QED  BY <1>2, <2>1, <2>2 DEF TicketNew
  <1>3. ASSUME NEW t \in TicketIds, TicketClose(k, u, t)
        PROVE  \E r \in Task : /\ Begin(k, r) /\ r.user \in Users
                               /\ r.at = "close" /\ r.at \notin OnMessage
    <2> DEFINE r == [NoTask EXCEPT !.at = "close", !.user = u, !.ticket = t, !.peer = u]
    <2>1. r \in Task /\ r.at = "close" /\ r.user = u /\ r.at \notin OnMessage
      BY DEF NoTask, Task, Label, OnMessage
    <2>2. Begin(k, r)
      BY <1>3 DEF TicketClose
    <2> HIDE DEF r
    <2> QED  BY <2>1, <2>2
  <1>4. ASSUME NEW t \in TicketIds, Rate(k, u, t)
        PROVE  \E r \in Task : /\ Begin(k, r) /\ r.user \in Users
                               /\ r.at = "rate" /\ r.at \notin OnMessage
    <2> DEFINE r == [NoTask EXCEPT !.at = "rate", !.user = u, !.ticket = t]
    <2>1. r \in Task /\ r.at = "rate" /\ r.user = u /\ r.at \notin OnMessage
      BY DEF NoTask, Task, Label, OnMessage
    <2>2. Begin(k, r)
      BY <1>4 DEF Rate
    <2> HIDE DEF r
    <2> QED  BY <2>1, <2>2
  <1>5. ASSUME NEW m \in Msgs, Text(k, u, m)
        PROVE  \E r \in Task :
                 /\ Begin(k, r) /\ r.user \in Users /\ r.msg = m
                 /\ r.at \in {"add", "get_user"}
                 /\ r.at = "get_user" => OpenOf(r.user) = {}
    <2>1. CASE \E t \in OpenOf(u) : Begin(k, [NoTask EXCEPT !.at = "add", !.user = u, !.ticket = t, !.msg = m])
      <3>1. PICK t \in OpenOf(u) : Begin(k, [NoTask EXCEPT !.at = "add", !.user = u, !.ticket = t, !.msg = m])
        BY <2>1
      <3> DEFINE r == [NoTask EXCEPT !.at = "add", !.user = u, !.ticket = t, !.msg = m]
      <3>2. r \in Task /\ r.at = "add" /\ r.user = u /\ r.msg = m
        BY DEF NoTask, Task, Label, OpenOf
      <3>3. Begin(k, r)
        BY <3>1
      <3> HIDE DEF r
      <3> QED  BY <3>2, <3>3
    <2>2. CASE OpenOf(u) = {} /\ Begin(k, [NoTask EXCEPT !.at = "get_user", !.user = u, !.msg = m])
      <3> DEFINE r == [NoTask EXCEPT !.at = "get_user", !.user = u, !.msg = m]
      <3>1. r \in Task /\ r.at = "get_user" /\ r.user = u /\ r.msg = m
        BY DEF NoTask, Task, Label
      <3>2. Begin(k, r) /\ OpenOf(r.user) = {}
        BY <2>2, <3>1
      <3> HIDE DEF r
      <3> QED  BY <3>1, <3>2
    <2> QED  BY <1>5, <2>1, <2>2 DEF Text
  <1>6. CASE \E m \in Msgs : Text(k, u, m)
    <2>1. PICK m \in Msgs : Text(k, u, m)
      BY <1>6
    <2>2. /\ MayArrive
          /\ UNCHANGED <<userState, canWrite, tickets, feed, read, told>>
          /\ fate[m] = "new"
          /\ \A n \in Msgs : n < m => fate[n] # "new"
          /\ fate' = [fate EXCEPT ![m] = "handled"]
      BY <2>1 DEF Text
    <2>3. PICK r \in Task :
             /\ Begin(k, r) /\ r.user \in Users /\ r.msg = m
             /\ r.at \in {"add", "get_user"}
             /\ r.at = "get_user" => OpenOf(r.user) = {}
      BY <1>5, <2>1
    <2> QED  BY <2>2, <2>3
  <1>7. CASE \E t \in TicketIds : TicketClose(k, u, t)
    BY <1>3, <1>7 DEF TicketClose
  <1>8. CASE \E t \in TicketIds : Rate(k, u, t)
    BY <1>4, <1>8 DEF Rate
  <1> QED  BY <1>1, <1>2, <1>6, <1>7, <1>8

\* A request of the dashboard.
LEMMA DashboardBegins ==
    ASSUME TypeOK, NEW k \in Tasks, DashboardRequest(k)
    PROVE  /\ UNCHANGED <<userState, canWrite, tickets, feed, read, told, fate>>
           /\ \E r \in Task : /\ Begin(k, r)
                              /\ r.user = Null
                              /\ r.at \in {"reply", "read", "close", "assign"}
                              /\ r.at = "read" => r.peer = Null
  <1> USE DEF rows
  <1>1. PICK t \in TicketIds :
           \/ Reply(k, t) \/ MarkRead(k, t) \/ Close(k, t)
           \/ \E o \in Operators : Take(k, t, o)
    BY DEF DashboardRequest
  <1>2. Peer(t) \in Users \cup {Null} /\ tickets[t].operator \in Operators \cup {Null}
    BY DEF Peer, TypeOK, Ticket
  <1>3. CASE Reply(k, t)
    <2> DEFINE r == [NoTask EXCEPT !.at = "reply", !.ticket = t, !.peer = Peer(t)]
    <2>1. r \in Task /\ r.at = "reply" /\ r.user = Null
      BY <1>2 DEF NoTask, Task, Label
    <2>2. Begin(k, r)
      BY <1>3 DEF Reply
    <2> HIDE DEF r
    <2> QED  BY <1>3, <2>1, <2>2 DEF Reply
  <1>4. CASE MarkRead(k, t)
    <2> DEFINE r == [NoTask EXCEPT !.at = "read", !.ticket = t]
    <2>1. r \in Task /\ r.at = "read" /\ r.user = Null /\ r.peer = Null
      BY <1>2 DEF NoTask, Task, Label
    <2>2. Begin(k, r)
      BY <1>4 DEF MarkRead
    <2> HIDE DEF r
    <2> QED  BY <1>4, <2>1, <2>2 DEF MarkRead
  <1>5. CASE Close(k, t)
    <2> DEFINE r == [NoTask EXCEPT !.at = "close", !.ticket = t, !.peer = Peer(t),
                                 !.operator = tickets[t].operator]
    <2>1. r \in Task /\ r.at = "close" /\ r.user = Null
      BY <1>2 DEF NoTask, Task, Label
    <2>2. Begin(k, r)
      BY <1>5 DEF Close
    <2> HIDE DEF r
    <2> QED  BY <1>5, <2>1, <2>2 DEF Close
  <1>6. CASE \E o \in Operators : Take(k, t, o)
    <2>1. PICK o \in Operators : Take(k, t, o)
      BY <1>6
    <2> DEFINE r == [NoTask EXCEPT !.at = "assign", !.ticket = t, !.peer = Peer(t),
                                 !.operator = o]
    <2>2. r \in Task /\ r.at = "assign" /\ r.user = Null
      BY <1>2 DEF NoTask, Task, Label
    <2>3. Begin(k, r)
      BY <2>1 DEF Take
    <2> HIDE DEF r
    <2> QED  BY <2>1, <2>2, <2>3 DEF Take
  <1> QED  BY <1>1, <1>3, <1>4, <1>5, <1>6

-----------------------------------------------------------------------------
(* The counter of the dashboard and the answers of the operator.           *)

\* The feed and what was told about a ticket are finite.
LEMMA BooksFinite ==
    ASSUME TypeOK, NEW t \in TicketIds
    PROVE  /\ IsFiniteSet(Replies(t))
           /\ Cardinality(Replies(t)) \in Nat
           /\ \A what : /\ IsFiniteSet({n \in DOMAIN told[t] : told[t][n].what = what})
                        /\ Count(t, what) \in Nat
  <1>1. feed[t] \in Seq(Msgs \cup {Out}) /\ told[t] \in Seq(Notice)
    BY DEF TypeOK
  <1>2. /\ Len(feed[t]) \in Nat /\ DOMAIN feed[t] = 1..Len(feed[t])
        /\ Len(told[t]) \in Nat /\ DOMAIN told[t] = 1..Len(told[t])
    BY <1>1
  <1>3. IsFiniteSet(DOMAIN feed[t]) /\ IsFiniteSet(DOMAIN told[t])
    <2>1. \A n \in Nat : IsFiniteSet(1..n)
      BY FS_Interval
    <2> QED  BY <1>2, <2>1
  <1>4. Replies(t) \in SUBSET DOMAIN feed[t]
    BY DEF Replies
  <1>5. IsFiniteSet(Replies(t)) /\ Cardinality(Replies(t)) \in Nat
    BY <1>3, <1>4, FS_Subset, FS_CardinalityType
  <1>6. ASSUME NEW what
        PROVE  /\ IsFiniteSet({n \in DOMAIN told[t] : told[t][n].what = what})
               /\ Count(t, what) \in Nat
    <2> DEFINE S == {n \in DOMAIN told[t] : told[t][n].what = what}
    <2>1. S \in SUBSET DOMAIN told[t]
      OBVIOUS
    <2>2. Count(t, what) = Cardinality(S)
      BY DEF Count
    <2> HIDE DEF S
    <2>3. IsFiniteSet(S) /\ Cardinality(S) \in Nat
      BY <1>3, <2>1, FS_Subset, FS_CardinalityType
    <2> QED  BY <2>2, <2>3 DEF S
  <1> QED  BY <1>5, <1>6

\* A step that stores and reads nothing, answers nobody and leaves the counters.
LEMMA BooksQuiet ==
    ASSUME TypeOK, Books, NEW k \in Tasks,
           \A l \in Tasks : l # k => task'[l] = task[l],
           UNCHANGED <<feed, read>>,
           \A t \in TicketIds : tickets'[t].unread = tickets[t].unread,
           \A m \in Msgs : fate[m] = "stored" => fate'[m] = "stored",
           \A t \in TicketIds : Count(t, "reply")' = Count(t, "reply"),
           task'[k].at # "zero",
           \A t \in TicketIds : k \in Answering(t)' => k \in Answering(t)
    PROVE  Books'
  <1>1. ASSUME NEW t \in TicketIds
        PROVE  /\ IsFiniteSet(Answering(t))'
               /\ (Count(t, "reply") + Cardinality(Answering(t))
                     <= Cardinality(Replies(t)))'
    <2>1. Answering(t)' \in SUBSET Answering(t)
      BY DEF Answering
    <2>2. IsFiniteSet(Answering(t))
      BY DEF Books, AnswersAreStored
    <2>3. /\ IsFiniteSet(Answering(t)')
          /\ Cardinality(Answering(t)') <= Cardinality(Answering(t))
          /\ Cardinality(Answering(t)') \in Nat
          /\ Cardinality(Answering(t)) \in Nat
      BY <2>1, <2>2, FS_Subset, FS_CardinalityType
    <2>4. Replies(t)' = Replies(t)
      BY DEF Replies
    <2>5. Count(t, "reply")' = Count(t, "reply")
          /\ Count(t, "reply") \in Nat /\ Cardinality(Replies(t)) \in Nat
      BY BooksFinite
    <2>6. Count(t, "reply") + Cardinality(Answering(t)) <= Cardinality(Replies(t))
      BY DEF Books, AnswersAreStored
    <2> QED  BY <2>3, <2>4, <2>5, <2>6
  <1>2. AnswersAreStored'
    BY <1>1 DEF AnswersAreStored
  <1>3. ReadIsStored'
    BY DEF Books, ReadIsStored, TypeOK
  <1>4. \A t \in TicketIds : Unread(t)' = Unread(t)
    BY DEF Unread
  <1> QED  BY <1>2, <1>3, <1>4 DEF Books, UnreadNeverOvercounts

\* Something else than an answer is told.
LEMMA OtherTold ==
    ASSUME TypeOK, NEW t \in TicketIds, NEW what, NEW operator,
           [what |-> what, operator |-> operator] \in Notice, what # "reply",
           Tell(t, what, operator)
    PROVE  \A s \in TicketIds : Count(s, "reply")' = Count(s, "reply")
  <1>1. ASSUME NEW s \in TicketIds
        PROVE  {n \in DOMAIN told'[s] : told'[s][n].what = "reply"}
                 = {n \in DOMAIN told[s] : told[s][n].what = "reply"}
    <2>1. CASE s = t
      BY <2>1, Told
    <2>2. CASE s # t
      BY <2>2, Told
    <2> QED  BY <2>1, <2>2
  <1> QED  BY <1>1 DEF Count

LEMMA SameTold ==
    ASSUME UNCHANGED told
    PROVE  \A t \in TicketIds : Count(t, "reply")' = Count(t, "reply")
  BY DEF Count

\* A handler begins.
LEMMA BooksRequest ==
    ASSUME TypeOK, Books, NEW k \in Tasks, NEW r \in Task, Begin(k, r),
           UNCHANGED <<tickets, feed, read, told>>,
           \A m \in Msgs : fate[m] = "stored" => fate'[m] = "stored",
           r.at \notin {"zero", "tell_reply"}, r.at = "read" => r.peer = Null
    PROVE  Books'
  <1>1. task'[k] = r /\ \A l \in Tasks : l # k => task'[l] = task[l]
    BY Begun
  <1>2. \A t \in TicketIds : k \notin Answering(t)'
    BY <1>1 DEF Answering
  <1> QED  BY <1>1, <1>2, SameTold, BooksQuiet

\* A handler goes on where it does not answer, or ends.
LEMMA BooksGoOn ==
    ASSUME TypeOK, Books, NEW k \in Tasks,
           \A l \in Tasks : l # k => task'[l] = task[l],
           task'[k].at \notin {"zero", "tell_reply", "read"},
           UNCHANGED <<feed, read, told>>,
           \A t \in TicketIds : tickets'[t].unread = tickets[t].unread,
           \A m \in Msgs : fate[m] = "stored" => fate'[m] = "stored"
    PROVE  Books'
  <1>1. \A t \in TicketIds : k \notin Answering(t)'
    BY DEF Answering
  <1> QED  BY <1>1, SameTold, BooksQuiet

\* The message of a user is one more unread message of its ticket.
LEMMA BooksMessage ==
    ASSUME TypeOK, Inv, Books, NEW k \in Tasks, AddMessage(k)
    PROVE  Books'
  <1> DEFINE t == task[k].ticket
             m == task[k].msg
  <1>0. task[k].at \in OnTicket /\ task[k].at \in OnMessage
    BY DEF AddMessage, OnTicket, OnMessage
  <1>1. t \in TicketIds /\ tickets[t] \in Ticket
    BY <1>0, AtWork DEF Inv
  <1>2. m \in Msgs /\ fate[m] = "handled" /\ m # Out
    BY <1>0, IdsAssumption DEF Inv, MessagesAreHandledOnce, Out
  <1>3. /\ \A l \in Tasks : l # k => task'[l] = task[l]
        /\ task'[k].at \in {"free", "idle"}
    <2>1. "idle" \in Label
      BY DEF Label
    <2> QED  BY <2>1, GoneTo, Finished DEF AddMessage, AfterAdd
  <1>4. /\ feed' = [feed EXCEPT ![t] = Append(feed[t], m)]
        /\ tickets' = [tickets EXCEPT ![t].unread = tickets[t].unread + 1]
        /\ fate' = [fate EXCEPT ![m] = "stored"]
        /\ UNCHANGED <<read, told>>
    BY DEF AddMessage, CountUnread
  <1> DEFINE n == Len(feed[t]) + 1
  <1> HIDE DEF t, m, n
  <1>5. /\ DOMAIN feed'[t] = DOMAIN feed[t] \cup {n}
        /\ n \notin DOMAIN feed[t]
        /\ \A i \in DOMAIN feed[t] : feed'[t][i] = feed[t][i]
        /\ feed'[t][n] = m
        /\ \A s \in TicketIds : s # t => feed'[s] = feed[s]
    BY <1>1, <1>2, <1>4, FeedGrown DEF n
  <1>6. /\ Range(feed'[t]) = Range(feed[t]) \cup {m}
        /\ \A s \in TicketIds : Range(feed[s]) \subseteq Range(feed'[s])
    BY <1>5 DEF Range
  <1>7. \A x \in Msgs : fate[x] = "stored" => fate'[x] = "stored"
    BY <1>4 DEF TypeOK
  <1>8. ReadIsStored'
    <2>1. \A x \in read' : fate'[x] = "stored"
      BY <1>4, <1>7 DEF Books, ReadIsStored, TypeOK
    <2>2. ASSUME NEW l \in Tasks, task'[l].at = "zero"
          PROVE  task'[l].marked \subseteq Range(feed'[task'[l].ticket])
      <3>1. l # k /\ task'[l] = task[l] /\ task[l].at \in OnTicket
        BY <1>3, <2>2 DEF OnTicket
      <3>2. task[l].ticket \in TicketIds
        BY <3>1, AtWork DEF Inv
      <3> QED  BY <1>6, <2>2, <3>1, <3>2 DEF Books, ReadIsStored
    <2> QED  BY <2>1, <2>2 DEF ReadIsStored
  <1>9. \A s \in TicketIds : Replies(s)' = Replies(s)
    BY <1>2, <1>5 DEF Replies
  <1>10. \A s \in TicketIds : Answering(s)' = Answering(s)
    <2>1. \A s \in TicketIds : k \notin Answering(s)' /\ k \notin Answering(s)
      BY <1>0, <1>3 DEF Answering, OnMessage
    <2> QED  BY <1>3, <2>1 DEF Answering
  <1>11. AnswersAreStored'
    BY <1>4, <1>9, <1>10, SameTold DEF Books, AnswersAreStored
  <1>12. m \notin Range(feed[t]) /\ m \notin read
    <2>1. \A i \in DOMAIN feed[t] : feed[t][i] # m
      BY <1>1, <1>2 DEF Inv, MessagesAreHandledOnce
    <2>2. m \notin read
      BY <1>2 DEF Books, ReadIsStored
    <2> QED  BY <2>1, <2>2 DEF Range
  <1>13. ASSUME NEW s \in TicketIds
         PROVE  IsFiniteSet(Unread(s))' /\ (tickets[s].unread <= Cardinality(Unread(s)))'
    <2>1. IsFiniteSet(Unread(s)) /\ Cardinality(Unread(s)) \in Nat
          /\ tickets[s].unread <= Cardinality(Unread(s))
      BY FS_CardinalityType DEF Books, UnreadNeverOvercounts
    <2>2. CASE s = t
      <3>1. Unread(s)' = Unread(s) \cup {m} /\ m \notin Unread(s)
        BY <1>2, <1>4, <1>6, <1>12, <2>2 DEF Unread
      <3>2. IsFiniteSet(Unread(s)') /\ Cardinality(Unread(s)') = Cardinality(Unread(s)) + 1
        BY <2>1, <3>1, FS_AddElement
      <3>3. tickets'[s].unread = tickets[s].unread + 1 /\ tickets[s].unread \in Nat
        BY <1>1, <1>4, <2>2 DEF TypeOK, Ticket
      <3> QED  BY <2>1, <3>2, <3>3
    <2>3. CASE s # t
      <3>1. Unread(s)' = Unread(s)
        BY <1>4, <1>5, <2>3 DEF Unread
      <3>2. tickets'[s].unread = tickets[s].unread
        BY <1>4, <2>3 DEF TypeOK
      <3> QED  BY <2>1, <3>1, <3>2
    <2> QED  BY <2>2, <2>3
  <1> QED  BY <1>8, <1>11, <1>13 DEF Books, UnreadNeverOvercounts

\* The answer is in the feed before it is sent.
LEMMA BooksReply ==
    ASSUME TypeOK, Inv, Books, NEW k \in Tasks, AddReply(k)
    PROVE  Books'
  <1> DEFINE t == task[k].ticket
             n == Len(feed[t]) + 1
  <1>0. task[k].at \in OnTicket
    BY DEF AddReply, OnTicket
  <1>1. t \in TicketIds /\ tickets[t] \in Ticket
    BY <1>0, AtWork DEF Inv
  <1>2. /\ \A l \in Tasks : l # k => task'[l] = task[l]
        /\ task'[k].at = "read"
        /\ task'[k].ticket = t
        /\ task[k].at = "reply"
    <2>1. "read" \in Label
      BY DEF Label
    <2> QED  BY <2>1, GoneTo DEF AddReply
  <1>3. /\ feed' = [feed EXCEPT ![t] = Append(feed[t], Out)]
        /\ \A s \in TicketIds : tickets'[s].unread = tickets[s].unread
        /\ UNCHANGED <<read, told, fate>>
    BY <1>1 DEF AddReply, CountUnread, TypeOK, Ticket
  <1> HIDE DEF t, n
  <1>4. /\ DOMAIN feed'[t] = DOMAIN feed[t] \cup {n}
        /\ n \notin DOMAIN feed[t]
        /\ \A i \in DOMAIN feed[t] : feed'[t][i] = feed[t][i]
        /\ feed'[t][n] = Out
        /\ \A s \in TicketIds : s # t => feed'[s] = feed[s]
    BY <1>1, <1>3, FeedGrown DEF n
  <1>5. Out \notin Msgs
    BY IdsAssumption DEF Out
  <1>6. \A s \in TicketIds : /\ Range(feed[s]) \subseteq Range(feed'[s])
                             /\ Unread(s)' = Unread(s)
    BY <1>3, <1>4, <1>5 DEF Range, Unread
  <1>7. ReadIsStored'
    <2>1. ASSUME NEW l \in Tasks, task'[l].at = "zero"
          PROVE  task'[l].marked \subseteq Range(feed'[task'[l].ticket])
      <3>1. l # k /\ task'[l] = task[l] /\ task[l].at \in OnTicket
        BY <1>2, <2>1 DEF OnTicket
      <3>2. task[l].ticket \in TicketIds
        BY <3>1, AtWork DEF Inv
      <3> QED  BY <1>6, <2>1, <3>1, <3>2 DEF Books, ReadIsStored
    <2>2. \A x \in read' : fate'[x] = "stored"
      BY <1>3 DEF Books, ReadIsStored
    <2> QED  BY <2>1, <2>2 DEF ReadIsStored
  <1>8. ASSUME NEW s \in TicketIds
        PROVE  /\ IsFiniteSet(Answering(s))'
               /\ (Count(s, "reply") + Cardinality(Answering(s))
                     <= Cardinality(Replies(s)))'
    <2>1. /\ IsFiniteSet(Answering(s)) /\ Cardinality(Answering(s)) \in Nat
          /\ Count(s, "reply") + Cardinality(Answering(s)) <= Cardinality(Replies(s))
      BY FS_CardinalityType DEF Books, AnswersAreStored
    <2>2. /\ IsFiniteSet(Replies(s)) /\ Cardinality(Replies(s)) \in Nat
          /\ Count(s, "reply") \in Nat /\ Count(s, "reply")' = Count(s, "reply")
      BY <1>3, BooksFinite, SameTold
    <2>3. CASE s = t
      <3>1. Replies(s)' = Replies(s) \cup {n} /\ n \notin Replies(s)
        BY <1>4, <2>3 DEF Replies
      <3>2. Cardinality(Replies(s)') = Cardinality(Replies(s)) + 1
        BY <2>2, <3>1, FS_AddElement
      <3>3. /\ IsFiniteSet(Answering(s) \cup {k})
            /\ Cardinality(Answering(s) \cup {k}) <= Cardinality(Answering(s)) + 1
            /\ Cardinality(Answering(s) \cup {k}) \in Nat
        <4>1. k \notin Answering(s)
          BY <1>2 DEF Answering
        <4> QED  BY <2>1, <4>1, FS_AddElement
      <3>4. Answering(s)' \in SUBSET (Answering(s) \cup {k})
        BY <1>2 DEF Answering
      <3>5. IsFiniteSet(Answering(s)') /\ Cardinality(Answering(s)') \in Nat
            /\ Cardinality(Answering(s)') <= Cardinality(Answering(s) \cup {k})
        BY <3>3, <3>4, FS_Subset, FS_CardinalityType
      <3> QED  BY <2>1, <2>2, <3>2, <3>3, <3>5
    <2>4. CASE s # t
      <3>1. Replies(s)' = Replies(s)
        BY <1>4, <2>4 DEF Replies
      <3>2. k \notin Answering(s)' /\ k \notin Answering(s)
        BY <1>2, <2>4 DEF Answering
      <3>3. Answering(s)' = Answering(s)
        BY <1>2, <3>2 DEF Answering
      <3> QED  BY <2>1, <2>2, <3>1, <3>3
    <2> QED  BY <2>3, <2>4
  <1>9. AnswersAreStored'
    BY <1>8 DEF AnswersAreStored
  <1> QED  BY <1>3, <1>6, <1>7, <1>9 DEF Books, UnreadNeverOvercounts

\* What is marked is in the feed that the handler read it from.
LEMMA BooksMark ==
    ASSUME TypeOK, Inv, Books, NEW k \in Tasks, MarkMessages(k)
    PROVE  Books'
  <1>1. task[k] \in Task
    BY DEF TypeOK
  <1>2. /\ \A l \in Tasks : l # k => task'[l] = task[l]
        /\ task[k].at = "read" /\ task'[k].at = "zero"
        /\ task'[k].ticket = task[k].ticket
        /\ task'[k].peer = task[k].peer
        /\ task'[k].marked = Unread(task[k].ticket)
    BY <1>1 DEF MarkMessages, TypeOK, Task
  <1>3. UNCHANGED <<tickets, feed, read, told, fate>>
    BY DEF MarkMessages, rows
  <1>4. \A t \in TicketIds : Answering(t)' = Answering(t) /\ Replies(t)' = Replies(t)
    BY <1>2, <1>3 DEF Answering, Replies
  <1>5. AnswersAreStored'
    BY <1>3, <1>4, SameTold DEF Books, AnswersAreStored
  <1>6. ReadIsStored'
    BY <1>2, <1>3 DEF Books, ReadIsStored, Unread
  <1>7. \A t \in TicketIds : Unread(t)' = Unread(t)
    BY <1>3 DEF Unread
  <1> QED  BY <1>3, <1>5, <1>6, <1>7 DEF Books, UnreadNeverOvercounts

\* Reading the messages of one ticket leaves those of the others unread.
LEMMA BooksZero ==
    ASSUME TypeOK, Inv, Books, NEW k \in Tasks, ZeroUnread(k)
    PROVE  Books'
  <1> DEFINE t == task[k].ticket
  <1>0. task[k].at = "zero" /\ task[k].at \in OnTicket /\ task[k] \in Task
    BY DEF ZeroUnread, OnTicket, TypeOK
  <1>1. t \in TicketIds /\ tickets[t] \in Ticket
    BY <1>0, AtWork DEF Inv
  <1>2. /\ \A l \in Tasks : l # k => task'[l] = task[l]
        /\ task'[k].at \in {"free", "tell_reply"}
        /\ task'[k].at = "tell_reply" => task'[k].ticket = t /\ task[k].peer # Null
    <2>1. "tell_reply" \in Label
      BY DEF Label
    <2>2. CASE task[k].peer = Null /\ Finish(k)
      BY <2>2, Finished
    <2>3. CASE task[k].peer # Null /\ Goto(k, "tell_reply")
      BY <2>1, <2>3, GoneTo
    <2> QED  BY <2>2, <2>3 DEF ZeroUnread
  <1>3. /\ read' = read \cup task[k].marked
        /\ tickets' = [tickets EXCEPT ![t].unread = 0]
        /\ UNCHANGED <<feed, told, fate>>
    BY DEF ZeroUnread
  <1> HIDE DEF t
  <1>4. task[k].marked \subseteq Range(feed[t]) /\ task[k].marked \subseteq Msgs
    BY <1>0 DEF Books, ReadIsStored, t, Task
  <1>5. \A m \in Msgs : m # Out
    BY IdsAssumption DEF Out
  <1>6. \A m \in task[k].marked : fate[m] = "stored"
    BY <1>1, <1>4, <1>5 DEF Range, Inv, MessagesAreHandledOnce
  <1>7. \A s \in TicketIds : Answering(s)' \in SUBSET Answering(s)
    BY <1>0, <1>2 DEF Answering, t
  <1>8. ASSUME NEW s \in TicketIds
        PROVE  /\ IsFiniteSet(Answering(s))'
               /\ (Count(s, "reply") + Cardinality(Answering(s))
                     <= Cardinality(Replies(s)))'
    <2>1. /\ IsFiniteSet(Answering(s)) /\ Cardinality(Answering(s)) \in Nat
          /\ Count(s, "reply") + Cardinality(Answering(s)) <= Cardinality(Replies(s))
      BY FS_CardinalityType DEF Books, AnswersAreStored
    <2>2. /\ Cardinality(Replies(s)) \in Nat /\ Replies(s)' = Replies(s)
          /\ Count(s, "reply") \in Nat /\ Count(s, "reply")' = Count(s, "reply")
      BY <1>3, BooksFinite, SameTold DEF Replies
    <2>3. IsFiniteSet(Answering(s)') /\ Cardinality(Answering(s)') \in Nat
          /\ Cardinality(Answering(s)') <= Cardinality(Answering(s))
      BY <1>7, <2>1, FS_Subset, FS_CardinalityType
    <2> QED  BY <2>1, <2>2, <2>3
  <1>9. AnswersAreStored'
    BY <1>8 DEF AnswersAreStored
  <1>10. ReadIsStored'
    <2>1. \A m \in read' : fate'[m] = "stored"
      BY <1>3, <1>6 DEF Books, ReadIsStored
    <2>2. ASSUME NEW l \in Tasks, task'[l].at = "zero"
          PROVE  task'[l].marked \subseteq Range(feed'[task'[l].ticket])
      BY <1>2, <1>3, <2>2 DEF Books, ReadIsStored
    <2> QED  BY <2>1, <2>2 DEF ReadIsStored
  <1>11. ASSUME NEW s \in TicketIds
         PROVE  IsFiniteSet(Unread(s))' /\ (tickets[s].unread <= Cardinality(Unread(s)))'
    <2>1. IsFiniteSet(Unread(s)) /\ tickets[s].unread <= Cardinality(Unread(s))
      BY DEF Books, UnreadNeverOvercounts
    <2>2. CASE s = t
      <3>1. Unread(s)' \in SUBSET Unread(s) /\ tickets'[s].unread = 0
        BY <1>1, <1>3, <2>2 DEF Unread, TypeOK, Ticket
      <3>2. IsFiniteSet(Unread(s)') /\ Cardinality(Unread(s)') \in Nat
        BY <2>1, <3>1, FS_Subset, FS_CardinalityType
      <3> QED  BY <3>1, <3>2
    <2>3. CASE s # t
      <3>1. ASSUME NEW m \in task[k].marked PROVE m \notin Range(feed[s])
        <4>1. PICK i \in DOMAIN feed[t] : feed[t][i] = m
          BY <1>4, <3>1 DEF Range
        <4>2. \A j \in DOMAIN feed[s] : feed[s][j] # m
          BY <1>1, <1>4, <1>5, <2>3, <4>1 DEF Inv, StoredOnce
        <4> QED  BY <4>2 DEF Range
      <3>2. Unread(s)' = Unread(s)
        BY <1>3, <3>1 DEF Unread
      <3>3. tickets'[s].unread = tickets[s].unread
        BY <1>3, <2>3 DEF TypeOK
      <3> QED  BY <2>1, <3>2, <3>3
    <2> QED  BY <2>2, <2>3
  <1> QED  BY <1>9, <1>10, <1>11 DEF Books, UnreadNeverOvercounts

\* The answer that is sent is one that was in the feed and not sent yet.
LEMMA BooksTellReply ==
    ASSUME TypeOK, Inv, Books, NEW k \in Tasks, TellReply(k)
    PROVE  Books'
  <1> DEFINE t == task[k].ticket
             n == Len(told[t]) + 1
             sent(s) == {i \in DOMAIN told[s] : told[s][i].what = "reply"}
  <1>0. task[k].at = "tell_reply" /\ task[k].at \in OnTicket
    BY DEF TellReply, OnTicket
  <1>1. t \in TicketIds
    BY <1>0, AtWork DEF Inv
  <1>2. task'[k].at = "free" /\ \A l \in Tasks : l # k => task'[l] = task[l]
    BY Finished DEF TellReply
  <1>3. UNCHANGED <<tickets, feed, read, fate>> /\ Tell(t, "reply", Null)
    BY DEF TellReply, rows
  <1>4. [what |-> "reply", operator |-> Null] \in Notice
    BY DEF Notice
  <1> HIDE DEF t
  <1>5. /\ DOMAIN told'[t] = DOMAIN told[t] \cup {n}
        /\ n \notin DOMAIN told[t]
        /\ \A i \in DOMAIN told[t] : told'[t][i] = told[t][i]
        /\ told'[t][n].what = "reply"
        /\ \A s \in TicketIds : s # t => told'[s] = told[s]
    BY <1>1, <1>3, <1>4, Told
  <1> HIDE DEF n
  <1>6. ASSUME NEW s \in TicketIds
        PROVE  /\ IsFiniteSet(Answering(s))'
               /\ (Count(s, "reply") + Cardinality(Answering(s))
                     <= Cardinality(Replies(s)))'
    <2>1. /\ IsFiniteSet(Answering(s)) /\ Cardinality(Answering(s)) \in Nat
          /\ Count(s, "reply") + Cardinality(Answering(s)) <= Cardinality(Replies(s))
      BY FS_CardinalityType DEF Books, AnswersAreStored
    <2>2. /\ Cardinality(Replies(s)) \in Nat /\ Replies(s)' = Replies(s)
          /\ IsFiniteSet(sent(s)) /\ Count(s, "reply") \in Nat
      BY <1>3, BooksFinite DEF Replies
    <2>3. Count(s, "reply") = Cardinality(sent(s)) /\ Count(s, "reply")' = Cardinality(sent(s)')
      BY DEF Count
    <2>4. CASE s = t
      <3>1. sent(s)' = sent(s) \cup {n} /\ n \notin sent(s)
        BY <1>5, <2>4
      <3>2. k \in Answering(s) /\ Answering(s)' = Answering(s) \ {k}
        BY <1>0, <1>2, <2>4 DEF Answering, t
      <3> HIDE DEF sent
      <3>3. Count(s, "reply")' = Count(s, "reply") + 1
        BY <2>2, <2>3, <3>1, FS_AddElement
      <3>4. IsFiniteSet(Answering(s)') /\ Cardinality(Answering(s)') = Cardinality(Answering(s)) - 1
        BY <2>1, <3>2, FS_RemoveElement
      <3> QED  BY <2>1, <2>2, <3>3, <3>4
    <2>5. CASE s # t
      <3>1. sent(s)' = sent(s)
        BY <1>5, <2>5
      <3>2. Answering(s)' = Answering(s)
        BY <1>0, <1>2, <2>5 DEF Answering, t
      <3> HIDE DEF sent
      <3> QED  BY <2>1, <2>2, <2>3, <3>1, <3>2
    <2> QED  BY <2>4, <2>5
  <1>7. AnswersAreStored'
    BY <1>6 DEF AnswersAreStored
  <1>8. ReadIsStored'
    BY <1>2, <1>3 DEF Books, ReadIsStored
  <1>9. \A s \in TicketIds : Unread(s)' = Unread(s)
    BY <1>3 DEF Unread
  <1> QED  BY <1>3, <1>7, <1>8, <1>9 DEF Books, UnreadNeverOvercounts

LEMMA BooksUserStep ==
    ASSUME TypeOK, Inv, Books, NEW k \in Tasks, UserStep(k)
    PROVE  Books'
  <1> USE DEF rows
  <1>0. {"menu", "create", "reread", "tell_created"} \subseteq Label
    BY DEF Label
  <1>1. task[k].at \in OnMessage => task[k].msg \in Msgs /\ fate[task[k].msg] = "handled"
    BY DEF Inv, MessagesAreHandledOnce
  <1>2. CASE AwaitProblem(k)
    BY <1>2, Finished, BooksGoOn DEF AwaitProblem
  <1>3. CASE SaveRating(k)
    <2>1. task[k].at \in OnTicket
      BY <1>3 DEF SaveRating, OnTicket
    <2>2. \A t \in TicketIds : tickets'[t].unread = tickets[t].unread
      BY <1>3, <2>1, AtWork DEF SaveRating, Inv, TypeOK, Ticket
    <2> QED  BY <1>3, <2>2, Finished, BooksGoOn DEF SaveRating
  <1>4. CASE GetUser(k)
    BY <1>0, <1>4, GoneTo, BooksGoOn DEF GetUser
  <1>5. CASE SendMenu(k)
    <2>1. \A m \in Msgs : fate[m] = "stored" => fate'[m] = "stored"
      BY <1>1, <1>5 DEF SendMenu, OnMessage, TypeOK
    <2> QED  BY <1>5, <2>1, Finished, BooksGoOn DEF SendMenu
  <1>6. CASE CreateTicket(k)
    <2>1. /\ \A l \in Tasks : l # k => task'[l] = task[l]
          /\ task'[k].at \in {"reread", "add_first"}
      <3>1. "add_first" \in Label
        BY DEF Label
      <3>2. CASE \E t \in TicketIds :
                   task' = [task EXCEPT ![k].ticket = t, ![k].at = "add_first"]
        <4>1. PICK t \in TicketIds :
                task' = [task EXCEPT ![k].ticket = t, ![k].at = "add_first"]
          BY <3>2
        <4> QED  BY <3>1, <4>1, GoneToTicket
      <3>3. CASE Goto(k, "reread")
        BY <1>0, <3>3, GoneTo
      <3> QED  BY <1>6, <3>2, <3>3 DEF CreateTicket
    <2>2. ASSUME NEW t \in TicketIds PROVE tickets'[t].unread = tickets[t].unread
      <3>1. CASE UNCHANGED tickets
        BY <3>1
      <3>2. CASE ~UNCHANGED tickets
        <4>1. PICK s \in TicketIds :
                /\ \A r \in TicketIds : tickets[r].status # "none" <=> r < s
                /\ tickets' = [tickets EXCEPT ![s] =
                     [NoTicket EXCEPT !.status = "open", !.user = task[k].user]]
          BY <1>6, <3>2 DEF CreateTicket
        <4>2. tickets[s] = NoTicket
          BY <4>1, IdsAssumption DEF Inv, TasksReferToTickets
        <4> QED  BY <4>1, <4>2 DEF NoTicket, TypeOK
      <3> QED  BY <3>1, <3>2
    <2> QED  BY <1>6, <2>1, <2>2, BooksGoOn DEF CreateTicket
  <1>7. CASE ReadExisting(k)
    <2>1. /\ \A l \in Tasks : l # k => task'[l] = task[l]
          /\ task'[k].at \in {"free", "add_first"}
      <3>1. "add_first" \in Label /\ OpenOf(task[k].user) \subseteq TicketIds
        BY DEF Label, OpenOf
      <3>2. CASE \E t \in TicketIds :
                   task' = [task EXCEPT ![k].ticket = t, ![k].at = "add_first"]
        <4>1. PICK t \in TicketIds :
                task' = [task EXCEPT ![k].ticket = t, ![k].at = "add_first"]
          BY <3>2
        <4> QED  BY <3>1, <4>1, GoneToTicket
      <3>3. CASE Finish(k)
        BY <3>3, Finished
      <3> QED  BY <1>7, <3>1, <3>2, <3>3 DEF ReadExisting
    <2>2. \A m \in Msgs : fate[m] = "stored" => fate'[m] = "stored"
      BY <1>1, <1>7 DEF ReadExisting, OnMessage, TypeOK
    <2> QED  BY <1>7, <2>1, <2>2, BooksGoOn DEF ReadExisting
  <1>8. CASE SetIdle(k)
    BY <1>0, <1>8, GoneTo, BooksGoOn DEF SetIdle
  <1>9. CASE TellCreated(k)
    <2>1. task[k].ticket \in TicketIds
      BY <1>9, AtWork DEF TellCreated, OnTicket, Inv
    <2>2. [what |-> "created", operator |-> Null] \in Notice
      BY DEF Notice
    <2>3. \A t \in TicketIds : Count(t, "reply")' = Count(t, "reply")
      BY <1>9, <2>1, <2>2, OtherTold DEF TellCreated
    <2>4. \A t \in TicketIds : k \notin Answering(t)'
      BY <1>9, Finished DEF TellCreated, Answering
    <2> QED  BY <1>9, <2>3, <2>4, Finished, BooksQuiet DEF TellCreated
  <1> QED  BY <1>2, <1>3, <1>4, <1>5, <1>6, <1>7, <1>8, <1>9, BooksMessage DEF UserStep

LEMMA BooksDashboardStep ==
    ASSUME TypeOK, Inv, Books, NEW k \in Tasks, DashboardStep(k)
    PROVE  Books'
  <1> USE DEF rows
  <1>0. {"tell_closed", "tell_intro"} \subseteq Label
    BY DEF Label
  <1>1. ASSUME task[k].at \in OnTicket, NEW what \in {"closed", "farewell", "intro"},
               NEW operator, operator \in Operators \cup {Null},
               Tell(task[k].ticket, what, operator), Finish(k),
               UNCHANGED <<tickets, feed, read, fate>>
        PROVE  Books'
    <2>1. task[k].ticket \in TicketIds
      BY <1>1, AtWork DEF Inv
    <2>2. [what |-> what, operator |-> operator] \in Notice
      BY <1>1 DEF Notice
    <2>3. \A t \in TicketIds : Count(t, "reply")' = Count(t, "reply")
      BY <1>1, <2>1, <2>2, OtherTold
    <2>4. \A t \in TicketIds : k \notin Answering(t)'
      BY <1>1, Finished DEF Answering
    <2> QED  BY <1>1, <2>3, <2>4, Finished, BooksQuiet
  <1>2. task[k] \in Task /\ task[k].operator \in Operators \cup {Null}
    BY DEF TypeOK, Task
  <1>3. CASE CloseTicket(k)
    <2>1. \A t \in TicketIds : tickets'[t].unread = tickets[t].unread
      BY <1>3, AtWork DEF CloseTicket, OnTicket, Inv, TypeOK, Ticket
    <2> QED  BY <1>0, <1>3, <2>1, GoneTo, BooksGoOn DEF CloseTicket
  <1>4. CASE TellClosed(k)
    <2>1. task[k].at \in OnTicket
      BY <1>4 DEF TellClosed, OnTicket
    <2>2. CASE UNCHANGED told
      BY <1>4, <2>2, Finished, BooksGoOn DEF TellClosed
    <2>3. CASE ~UNCHANGED told
      BY <1>1, <1>2, <1>4, <2>1, <2>3 DEF TellClosed
    <2> QED  BY <2>2, <2>3
  <1>5. CASE TakeTicket(k)
    <2>1. \A t \in TicketIds : tickets'[t].unread = tickets[t].unread
      <3>1. task[k].ticket \in TicketIds /\ tickets[task[k].ticket] \in Ticket
        BY <1>5, AtWork DEF TakeTicket, OnTicket, Inv
      <3>2. CASE UNCHANGED tickets
        BY <3>2
      <3>3. CASE tickets' = [tickets EXCEPT
                   ![task[k].ticket].operator = task[k].operator,
                   ![task[k].ticket].status = StatusAfterReply(@)]
        BY <3>1, <3>3 DEF TypeOK, Ticket
      <3> QED  BY <1>5, <3>2, <3>3 DEF TakeTicket
    <2>2. /\ \A l \in Tasks : l # k => task'[l] = task[l]
          /\ task'[k].at \in {"free", "tell_intro"}
      BY <1>0, <1>5, GoneTo, Finished DEF TakeTicket
    <2> QED  BY <1>5, <2>1, <2>2, BooksGoOn DEF TakeTicket
  <1>6. CASE TellIntro(k)
    <2>1. task[k].at \in OnTicket
      BY <1>6 DEF TellIntro, OnTicket
    <2>2. CASE UNCHANGED told
      BY <1>6, <2>2, Finished, BooksGoOn DEF TellIntro
    <2>3. CASE ~UNCHANGED told
      BY <1>1, <1>2, <1>6, <2>1, <2>3 DEF TellIntro
    <2> QED  BY <2>2, <2>3
  <1> QED  BY <1>3, <1>4, <1>5, <1>6, BooksReply, BooksMark, BooksZero,
              BooksTellReply DEF DashboardStep

LEMMA BooksStep ==
    ASSUME TypeOK, Inv, Books, [Next]_vars
    PROVE  Books'
  <1>1. ASSUME NEW k \in Tasks, UserRequest(k) PROVE Books'
    <2>1. \A m \in Msgs : fate[m] = "stored" => fate'[m] = "stored"
      BY <1>1, EventBegins DEF TypeOK
    <2> QED  BY <1>1, <2>1, EventBegins, BooksRequest
  <1>2. ASSUME NEW k \in Tasks, DashboardRequest(k) PROVE Books'
    BY <1>2, DashboardBegins, BooksRequest
  <1>3. ASSUME NEW k \in Tasks, Abort(k) PROVE Books'
    <2>1. \A m \in Msgs : fate[m] = "stored" => fate'[m] = "stored"
      BY <1>3 DEF Abort, Inv, MessagesAreHandledOnce
    <2> QED  BY <1>3, <2>1, Finished, BooksGoOn DEF Abort, rows
  <1>4. CASE UNCHANGED <<tickets, feed, read, told, fate, task>>
    BY <1>4 DEF Books, AnswersAreStored, ReadIsStored, UnreadNeverOvercounts,
                Answering, Replies, Unread, Count
  <1> QED  BY <1>1, <1>2, <1>3, <1>4, BooksUserStep, BooksDashboardStep
              DEF Next, MarkCannotWrite, vars, rows

LEMMA BooksInit == Init => Books
  <1> SUFFICES ASSUME Init PROVE Books
    OBVIOUS
  <1>1. \A k \in Tasks : task[k].at = "free"
    BY NoTaskType DEF Init
  <1>2. \A t \in TicketIds : /\ Answering(t) = {}
                             /\ Replies(t) = {}
                             /\ Unread(t) = {}
                             /\ {n \in DOMAIN told[t] : told[t][n].what = "reply"} = {}
                             /\ tickets[t].unread = 0
    BY <1>1 DEF Init, Answering, Replies, Unread, Range, NoTicket
  <1>3. AnswersAreStored
    BY <1>2, FS_EmptySet DEF AnswersAreStored, Count
  <1>4. ReadIsStored
    BY <1>1 DEF Init, ReadIsStored
  <1> QED  BY <1>2, <1>3, <1>4, FS_EmptySet DEF Books, UnreadNeverOvercounts

\* The counter of unread messages, the read marks and the answers agree with the
\* feed, whatever handlers of user and operators interleave (queries.py, api.py).
THEOREM BooksCorrect == Spec => []Books
  <1>1. TypeOK /\ Inv /\ Books /\ [Next]_vars => Books'
    BY BooksStep
  <1> QED  BY <1>1, BooksInit, InvCorrect, PTL DEF Spec

\* The badge of the dashboard never counts a message that is read already.
THEOREM UnreadNeverOvercountsCorrect == Spec => []UnreadNeverOvercounts
  <1>1. Books => UnreadNeverOvercounts
    BY DEF Books
  <1> QED  BY <1>1, BooksCorrect, PTL

\* No answer is sent that the feed does not show.
THEOREM RepliesAreInTheFeedCorrect == Spec => []RepliesAreInTheFeed
  <1>1. TypeOK /\ Books => RepliesAreInTheFeed
    <2> SUFFICES ASSUME TypeOK, Books, NEW t \in TicketIds
                 PROVE  Count(t, "reply") <= Cardinality(Replies(t))
      BY DEF RepliesAreInTheFeed
    <2>1. /\ Cardinality(Answering(t)) \in Nat
          /\ Count(t, "reply") + Cardinality(Answering(t)) <= Cardinality(Replies(t))
      BY FS_CardinalityType DEF Books, AnswersAreStored
    <2>2. Count(t, "reply") \in Nat /\ Cardinality(Replies(t)) \in Nat
      BY BooksFinite
    <2> QED  BY <2>1, <2>2
  <1> QED  BY <1>1, BooksCorrect, InvCorrect, PTL

-----------------------------------------------------------------------------
(* Long Poll: one event at a time.                                         *)

\* The labels of a handler that has read whether the user has an open ticket.
Looking == {"await", "get_user", "menu", "create"}

\* What the step of a running handler does to its place, sender and message.
Moves(k) ==
    /\ \A l \in Tasks : l # k => task'[l] = task[l]
    /\ task'[k].user \in {task[k].user, Null}
    /\ task'[k].at \in OnEvent =>
         task[k].at \in OnEvent /\ task'[k].user = task[k].user
    /\ task'[k].at \in Looking => task[k].at \in Looking
    /\ task'[k].at = "reread" => task[k].at = "create" /\ ~NoConflict(task[k].user)
    /\ task'[k].at \in OnMessage =>
         task[k].at \in OnMessage /\ task'[k].msg = task[k].msg
    /\ \A m \in Msgs : fate'[m] = "new" <=> fate[m] = "new"

LEMMA MovesEnd ==
    ASSUME TypeOK, NEW k \in Tasks, Finish(k),
           \A m \in Msgs : fate'[m] = "new" <=> fate[m] = "new"
    PROVE  Moves(k)
  <1>1. task'[k].at = "free" /\ task'[k].user = Null
        /\ \A l \in Tasks : l # k => task'[l] = task[l]
    BY Finished DEF NoTask
  <1> QED  BY <1>1 DEF Moves, OnEvent, Looking, OnMessage

LEMMA MovesOn ==
    ASSUME TypeOK, NEW k \in Tasks, NEW label \in Label, Goto(k, label),
           label \in OnEvent => task[k].at \in OnEvent,
           label \in Looking => task[k].at \in Looking,
           label \in OnMessage => task[k].at \in OnMessage,
           label = "reread" => task[k].at = "create" /\ ~NoConflict(task[k].user),
           \A m \in Msgs : fate'[m] = "new" <=> fate[m] = "new"
    PROVE  Moves(k)
  <1>1. /\ task'[k].at = label
        /\ task'[k].user = task[k].user
        /\ task'[k].msg = task[k].msg
        /\ \A l \in Tasks : l # k => task'[l] = task[l]
    BY GoneTo
  <1> QED  BY <1>1 DEF Moves

LEMMA MovesToTicket ==
    ASSUME TypeOK, NEW k \in Tasks, NEW t \in TicketIds,
           task' = [task EXCEPT ![k].ticket = t, ![k].at = "add_first"],
           task[k].at \in {"create", "reread"}, UNCHANGED fate
    PROVE  Moves(k)
  <1>1. "add_first" \in Label
    BY DEF Label
  <1>2. /\ task'[k].at = "add_first"
        /\ task'[k].user = task[k].user
        /\ task'[k].msg = task[k].msg
        /\ \A l \in Tasks : l # k => task'[l] = task[l]
    BY <1>1, GoneToTicket
  <1> QED  BY <1>2 DEF Moves, OnEvent, Looking, OnMessage

LEMMA UserMoves ==
    ASSUME TypeOK, Inv, NEW k \in Tasks, UserStep(k)
    PROVE  Moves(k)
  <1>0. {"menu", "create", "reread", "idle", "tell_created"} \subseteq Label
    BY DEF Label
  <1>1. task[k].at \in OnMessage => task[k].msg \in Msgs /\ fate[task[k].msg] = "handled"
    BY DEF Inv, MessagesAreHandledOnce
  <1>2. CASE AwaitProblem(k) \/ SaveRating(k) \/ TellCreated(k)
    BY <1>2, MovesEnd DEF AwaitProblem, SaveRating, TellCreated
  <1>3. CASE GetUser(k)
    BY <1>0, <1>3, MovesOn DEF GetUser, OnEvent, Looking, OnMessage
  <1>4. CASE SendMenu(k)
    <2>1. \A m \in Msgs : fate'[m] = "new" <=> fate[m] = "new"
      BY <1>1, <1>4 DEF SendMenu, OnMessage, TypeOK
    <2> QED  BY <1>4, <2>1, MovesEnd DEF SendMenu
  <1>5. CASE CreateTicket(k)
    <2>1. task[k].at = "create" /\ UNCHANGED fate
      BY <1>5 DEF CreateTicket
    <2>2. CASE \E t \in TicketIds :
                 task' = [task EXCEPT ![k].ticket = t, ![k].at = "add_first"]
      <3>1. PICK t \in TicketIds :
              task' = [task EXCEPT ![k].ticket = t, ![k].at = "add_first"]
        BY <2>2
      <3> QED  BY <2>1, <3>1, MovesToTicket
    <2>3. CASE ~NoConflict(task[k].user) /\ Goto(k, "reread")
      BY <1>0, <2>1, <2>3, MovesOn DEF OnEvent, Looking, OnMessage
    <2> QED  BY <1>5, <2>2, <2>3 DEF CreateTicket
  <1>6. CASE ReadExisting(k)
    <2>1. task[k].at = "reread"
      BY <1>6 DEF ReadExisting
    <2>2. ASSUME NEW t \in OpenOf(task[k].user), UNCHANGED fate,
                 task' = [task EXCEPT ![k].ticket = t, ![k].at = "add_first"]
          PROVE  Moves(k)
      BY <2>1, <2>2, MovesToTicket DEF OpenOf
    <2>3. CASE Finish(k) /\ fate' = [fate EXCEPT ![task[k].msg] = "lost"]
      <3>1. \A m \in Msgs : fate'[m] = "new" <=> fate[m] = "new"
        BY <1>1, <2>1, <2>3 DEF OnMessage, TypeOK
      <3> QED  BY <2>3, <3>1, MovesEnd
    <2> QED  BY <1>6, <2>2, <2>3 DEF ReadExisting
  <1>7. CASE AddMessage(k)
    <2>1. \A m \in Msgs : fate'[m] = "new" <=> fate[m] = "new"
      BY <1>1, <1>7 DEF AddMessage, OnMessage, TypeOK
    <2>2. CASE task[k].at = "add" /\ Finish(k)
      BY <2>1, <2>2, MovesEnd
    <2>3. CASE task[k].at = "add_first" /\ Goto(k, "idle")
      BY <1>0, <2>1, <2>3, MovesOn DEF OnEvent, Looking, OnMessage
    <2> QED  BY <1>7, <2>2, <2>3 DEF AddMessage, AfterAdd
  <1>8. CASE SetIdle(k)
    BY <1>0, <1>8, MovesOn DEF SetIdle, OnEvent, Looking, OnMessage
  <1> QED  BY <1>2, <1>3, <1>4, <1>5, <1>6, <1>7, <1>8 DEF UserStep

LEMMA DashboardMoves ==
    ASSUME TypeOK, NEW k \in Tasks, DashboardStep(k)
    PROVE  Moves(k)
  <1>0. /\ {"read", "tell_closed", "tell_intro", "tell_reply"} \subseteq Label
        /\ {"read", "tell_closed", "tell_intro", "tell_reply"}
             \cap (OnEvent \cup Looking \cup OnMessage) = {}
    BY DEF Label, OnEvent, Looking, OnMessage
  <1>1. UNCHANGED fate
    BY DEF DashboardStep, AddReply, MarkMessages, ZeroUnread, TellReply, CloseTicket,
           TellClosed, TakeTicket, TellIntro
  <1>2. CASE MarkMessages(k)
    <2>1. task[k] \in Task
      BY DEF TypeOK
    <2>2. /\ \A l \in Tasks : l # k => task'[l] = task[l]
          /\ task'[k].at = "zero"
          /\ task'[k].user = task[k].user
      BY <1>2, <2>1 DEF MarkMessages, TypeOK, Task
    <2> QED  BY <1>1, <2>2 DEF Moves, OnEvent, Looking, OnMessage
  <1>3. CASE Finish(k)
    BY <1>1, <1>3, MovesEnd
  <1>4. ASSUME NEW label \in {"read", "tell_closed", "tell_intro", "tell_reply"},
               Goto(k, label)
        PROVE  Moves(k)
    BY <1>0, <1>1, <1>4, MovesOn
  <1> QED  BY <1>2, <1>3, <1>4 DEF DashboardStep, AddReply, ZeroUnread, TellReply,
              CloseTicket, TellClosed, TakeTicket, TellIntro

\* Only create_ticket makes a ticket: what else a handler does opens none.
LEMMA OpenShrinks ==
    ASSUME TypeOK, Inv, NEW k \in Tasks,
           UserStep(k) \/ DashboardStep(k) \/ Abort(k), ~CreateTicket(k)
    PROVE  \A u : OpenOf(u)' \subseteq OpenOf(u)
  <1>1. Lifecycle
    BY UserStepEffect, DashboardStepEffect, SameTickets DEF Abort, rows
  <1>2. \/ UNCHANGED tickets
        \/ /\ task[k].at \in OnTicket
           /\ \A s \in TicketIds : s # task[k].ticket => tickets'[s] = tickets[s]
    <2> USE DEF rows, OnTicket, TypeOK
    <2>1. CASE SaveRating(k)
      BY <2>1 DEF SaveRating
    <2>2. CASE AddMessage(k)
      BY <2>2 DEF AddMessage
    <2>3. CASE AddReply(k)
      BY <2>3 DEF AddReply
    <2>4. CASE ZeroUnread(k)
      BY <2>4 DEF ZeroUnread
    <2>5. CASE CloseTicket(k)
      BY <2>5 DEF CloseTicket
    <2>6. CASE TakeTicket(k)
      BY <2>6 DEF TakeTicket
    <2> QED  BY <2>1, <2>2, <2>3, <2>4, <2>5, <2>6
                DEF UserStep, DashboardStep, AwaitProblem, GetUser, SendMenu,
                    ReadExisting, SetIdle, TellCreated, MarkMessages, TellReply,
                    TellClosed, TellIntro, Abort
  <1>3. \A t \in TicketIds : tickets[t].status = "none" => tickets'[t] = tickets[t]
    BY <1>2, AtWork DEF Inv
  <1>4. \A t \in TicketIds : tickets[t].status \in {"none", "open", "in_progress", "closed"}
    BY DEF TypeOK, Ticket
  <1> QED  BY <1>1, <1>3, <1>4 DEF Lifecycle, OpenOf, Open

LEMMA AbortMoves ==
    ASSUME TypeOK, Inv, NEW k \in Tasks, Abort(k)
    PROVE  Moves(k)
  <1>1. \A m \in Msgs : fate'[m] = "new" <=> fate[m] = "new"
    BY DEF Abort, Inv, MessagesAreHandledOnce
  <1> QED  BY <1>1, MovesEnd DEF Abort

LEMMA OneEventInit == Init => OneEventAtATime
  BY NoTaskType DEF Init, OneEventAtATime, NoTask, OnEvent

\* An event begins only when no event is being handled; what its handler reads
\* of the open ticket stays so until it opens one.
LEMMA OneEventStep ==
    ASSUME Mode = "longpoll", TypeOK, Inv, OneEventAtATime, [Next]_vars
    PROVE  OneEventAtATime'
  <1> USE DEF OnEvent, Looking
  <1>1. ASSUME NEW k \in Tasks, UserRequest(k) PROVE OneEventAtATime'
    <2>1. /\ \A l \in Tasks : task[l].user = Null
          /\ UNCHANGED tickets
      BY <1>1, EventBegins DEF MayArrive
    <2>2. PICK r \in Task :
             /\ Begin(k, r)
             /\ r.user \in Users
             /\ r.at \in {"tell_created", "await", "close", "rate", "add", "get_user"}
             /\ r.at \in {"await", "get_user"} => OpenOf(r.user) = {}
      BY <1>1, EventBegins
    <2>3. task'[k] = r /\ \A l \in Tasks : l # k => task'[l] = task[l]
      BY <2>2, Begun
    <2>4. r.user # Null
      BY <2>2, NullAssumption
    <2>5. \A u : OpenOf(u)' = OpenOf(u)
      BY <2>1 DEF OpenOf, Open
    <2> QED  BY <2>1, <2>2, <2>3, <2>4, <2>5 DEF OneEventAtATime
  <1>2. ASSUME NEW k \in Tasks, DashboardRequest(k) PROVE OneEventAtATime'
    <2>1. PICK r \in Task : /\ Begin(k, r)
                            /\ r.user = Null
                            /\ r.at \in {"reply", "read", "close", "assign"}
      BY <1>2, DashboardBegins
    <2>2. task'[k] = r /\ \A l \in Tasks : l # k => task'[l] = task[l]
      BY <2>1, Begun
    <2>3. \A u : OpenOf(u)' = OpenOf(u)
      BY <1>2, DashboardBegins DEF OpenOf, Open
    <2> QED  BY <2>1, <2>2, <2>3 DEF OneEventAtATime
  <1>3. ASSUME NEW k \in Tasks, Moves(k),
               \A l \in Tasks : \A u :
                  task'[l].at \in Looking /\ task'[l].user = u => OpenOf(u)' = {}
        PROVE  OneEventAtATime'
    <2>1. \A l, i \in Tasks : task'[l].user # Null /\ task'[i].user # Null => l = i
      BY <1>3 DEF Moves, OneEventAtATime
    <2>2. \A l \in Tasks : task'[l].at \in OnEvent => task'[l].user # Null
      BY <1>3 DEF Moves, OneEventAtATime
    <2>3. task'[k].at # "reread"
      BY <1>3 DEF Moves, OneEventAtATime, NoConflict
    <2>4. \A l \in Tasks : task'[l].at # "reread"
      BY <1>3, <2>3 DEF Moves, OneEventAtATime
    <2> QED  BY <1>3, <2>1, <2>2, <2>4 DEF OneEventAtATime
  <1>4. ASSUME NEW k \in Tasks, UserStep(k) \/ DashboardStep(k) \/ Abort(k),
               ~CreateTicket(k)
        PROVE  OneEventAtATime'
    <2>1. Moves(k)
      BY <1>4, UserMoves, DashboardMoves, AbortMoves
    <2>2. \A u : OpenOf(u)' \subseteq OpenOf(u)
      BY <1>4, OpenShrinks
    <2>3. ASSUME NEW l \in Tasks, NEW u, task'[l].at \in Looking, task'[l].user = u
          PROVE  OpenOf(u)' = {}
      <3>1. task[l].at \in Looking /\ task[l].user = u
        BY <2>1, <2>3 DEF Moves
      <3>2. OpenOf(u) = {}
        BY <3>1 DEF OneEventAtATime
      <3>3. OpenOf(u)' \subseteq OpenOf(u)
        BY <2>2
      <3> QED  BY <3>2, <3>3
    <2> QED  BY <1>3, <2>1, <2>3
  <1>5. ASSUME NEW k \in Tasks, CreateTicket(k) PROVE OneEventAtATime'
    <2>1. Moves(k)
      BY <1>5, UserMoves DEF UserStep
    <2>2. task[k].at = "create" /\ task[k].user # Null
      BY <1>5 DEF CreateTicket, OneEventAtATime
    <2>3. task'[k].at \in {"reread", "add_first"}
      <3>1. {"reread", "add_first"} \subseteq Label
        BY DEF Label
      <3>2. CASE \E t \in TicketIds :
                   task' = [task EXCEPT ![k].ticket = t, ![k].at = "add_first"]
        <4>1. PICK t \in TicketIds :
                task' = [task EXCEPT ![k].ticket = t, ![k].at = "add_first"]
          BY <3>2
        <4> QED  BY <3>1, <4>1, GoneToTicket
      <3>3. CASE Goto(k, "reread")
        BY <3>1, <3>3, GoneTo
      <3> QED  BY <1>5, <3>2, <3>3 DEF CreateTicket
    <2>4. ASSUME NEW l \in Tasks, task'[l].at \in Looking PROVE FALSE
      <3>1. l # k
        BY <2>3, <2>4
      <3>2. task[l].at \in OnEvent
        BY <2>1, <2>4, <3>1 DEF Moves
      <3> QED  BY <2>2, <3>1, <3>2 DEF OneEventAtATime
    <2> QED  BY <1>3, <2>1, <2>4
  <1>6. CASE UNCHANGED <<tickets, task>>
    BY <1>6 DEF OneEventAtATime, OpenOf, Open
  <1> QED  BY <1>1, <1>2, <1>4, <1>5, <1>6 DEF Next, MarkCannotWrite, vars, rows

LEMMA OneEventCorrect ==
    ASSUME Mode = "longpoll" PROVE Spec => []OneEventAtATime
  <1>1. TypeOK /\ Inv /\ OneEventAtATime /\ [Next]_vars => OneEventAtATime'
    BY OneEventStep
  <1> QED  BY <1>1, OneEventInit, InvCorrect, PTL DEF Spec

\* In Long Poll mode a message is answered with the menu only when no ticket is
\* open: the handler's read of the open ticket is not stale when it answers.
THEOREM MenuOnlyWithoutTicketCorrect ==
    ASSUME Mode = "longpoll" PROVE Spec => MenuOnlyWithoutTicket
  <1>1. OneEventAtATime =>
          [\A k \in Tasks : SendMenu(k) => OpenOf(task[k].user) = {}]_vars
    BY DEF OneEventAtATime, SendMenu
  <1> QED  BY <1>1, OneEventCorrect, PTL DEF MenuOnlyWithoutTicket

-----------------------------------------------------------------------------
(* Long Poll: messages are stored in the order they were written.          *)

LEMMA InTurnInit == Init => InTurn /\ FeedInOrder
  BY NoTaskType DEF Init, InTurn, FeedInOrder, OnMessage

LEMMA InTurnStep ==
    ASSUME Mode = "longpoll", TypeOK, Inv, OneEventAtATime, InTurn, [Next]_vars
    PROVE  InTurn'
  <1>0. \A m \in Msgs : m \in Nat
    BY IdsAssumption
  <1>1. ASSUME NEW k \in Tasks, UserRequest(k) PROVE InTurn'
    <2>1. PICK r \in Task :
             /\ Begin(k, r)
             /\ \/ r.at \notin OnMessage /\ UNCHANGED fate
                \/ /\ r.msg \in Msgs
                   /\ fate[r.msg] = "new"
                   /\ \A n \in Msgs : n < r.msg => fate[n] # "new"
                   /\ fate' = [fate EXCEPT ![r.msg] = "handled"]
      BY <1>1, EventBegins
    <2>2. task'[k] = r /\ \A l \in Tasks : l # k => task'[l] = task[l]
      BY <2>1, Begun
    <2>3. ASSUME NEW l \in Tasks, l # k PROVE task'[l].at \notin OnMessage
      <3>1. task[l].user = Null
        BY <1>1, EventBegins DEF MayArrive
      <3> QED  BY <2>2, <2>3, <3>1 DEF OneEventAtATime, OnMessage, OnEvent
    <2>4. CASE r.at \notin OnMessage /\ UNCHANGED fate
      BY <2>2, <2>3, <2>4 DEF InTurn
    <2>5. CASE /\ r.msg \in Msgs
               /\ fate[r.msg] = "new"
               /\ \A n \in Msgs : n < r.msg => fate[n] # "new"
               /\ fate' = [fate EXCEPT ![r.msg] = "handled"]
      <3>1. \A n \in Msgs : fate'[n] # "new" <=> n = r.msg \/ fate[n] # "new"
        BY <2>5 DEF TypeOK
      <3>2. \A n \in Msgs : fate[n] # "new" => n < r.msg
        BY <1>0, <2>5 DEF InTurn
      <3> QED  BY <1>0, <2>2, <2>3, <2>5, <3>1, <3>2 DEF InTurn
    <2> QED  BY <2>1, <2>4, <2>5
  <1>2. ASSUME NEW k \in Tasks, DashboardRequest(k) PROVE InTurn'
    <2>1. PICK r \in Task : /\ Begin(k, r)
                            /\ r.at \in {"reply", "read", "close", "assign"}
      BY <1>2, DashboardBegins
    <2>2. task'[k] = r /\ \A l \in Tasks : l # k => task'[l] = task[l]
      BY <2>1, Begun
    <2>3. UNCHANGED fate
      BY <1>2, DashboardBegins
    <2> QED  BY <2>1, <2>2, <2>3 DEF InTurn, OnMessage
  <1>3. ASSUME NEW k \in Tasks, UserStep(k) \/ DashboardStep(k) \/ Abort(k)
        PROVE  InTurn'
    <2>1. Moves(k)
      BY <1>3, UserMoves, DashboardMoves, AbortMoves
    <2> QED  BY <2>1 DEF Moves, InTurn
  <1>4. CASE UNCHANGED <<fate, task>>
    BY <1>4 DEF InTurn
  <1> QED  BY <1>1, <1>2, <1>3, <1>4 DEF Next, MarkCannotWrite, vars

LEMMA FeedOrderStep ==
    ASSUME TypeOK, Inv, InTurn, FeedInOrder, [Next]_vars
    PROVE  FeedInOrder'
  <1>0. \A m \in Msgs : m \in Nat /\ m # Out
    BY IdsAssumption DEF Out
  <1>1. ASSUME NEW k \in Tasks, AddMessage(k) PROVE FeedInOrder'
    <2> DEFINE t == task[k].ticket
               m == task[k].msg
               n == Len(feed[t]) + 1
    <2>1. task[k].at \in OnTicket /\ task[k].at \in OnMessage
      BY <1>1 DEF AddMessage, OnTicket, OnMessage
    <2>2. t \in TicketIds
      BY <2>1, AtWork DEF Inv
    <2>3. m \in Msgs /\ fate[m] = "handled"
      BY <2>1 DEF Inv, MessagesAreHandledOnce
    <2>4. \A x \in Msgs : fate[x] # "new" => x <= m
      BY <2>1 DEF InTurn
    <2>5. feed' = [feed EXCEPT ![t] = Append(feed[t], m)]
      BY <1>1 DEF AddMessage
    <2>6. feed[t] \in Seq(Msgs \cup {Out}) /\ Len(feed[t]) \in Nat
          /\ DOMAIN feed[t] = 1..Len(feed[t])
      BY <2>2 DEF TypeOK
    <2> HIDE DEF t, m
    <2>7. /\ DOMAIN feed'[t] = DOMAIN feed[t] \cup {n}
          /\ \A i \in DOMAIN feed[t] : feed'[t][i] = feed[t][i]
          /\ feed'[t][n] = m
          /\ \A s \in TicketIds : s # t => feed'[s] = feed[s]
      BY <2>2, <2>3, <2>5, FeedGrown
    <2>8. ASSUME NEW i \in DOMAIN feed[t], feed[t][i] # Out
          PROVE  feed[t][i] < m
      <3>1. feed[t][i] \in Msgs /\ fate[feed[t][i]] = "stored"
        BY <2>2, <2>6, <2>8 DEF Inv, MessagesAreHandledOnce
      <3> QED  BY <1>0, <2>3, <2>4, <3>1
    <2>9. ASSUME NEW i \in DOMAIN feed'[t], NEW j \in DOMAIN feed'[t], i < j,
                 feed'[t][i] # Out, feed'[t][j] # Out
          PROVE  feed'[t][i] < feed'[t][j]
      <3>1. i \in DOMAIN feed[t]
        BY <2>6, <2>7, <2>9
      <3>2. CASE j = n
        BY <2>7, <2>8, <2>9, <3>1, <3>2
      <3>3. CASE j \in DOMAIN feed[t]
        BY <2>2, <2>7, <2>9, <3>1, <3>3 DEF FeedInOrder
      <3> QED  BY <2>7, <2>9, <3>2, <3>3
    <2> QED  BY <2>7, <2>9 DEF FeedInOrder
  <1>2. ASSUME NEW k \in Tasks, AddReply(k) PROVE FeedInOrder'
    <2> DEFINE t == task[k].ticket
               n == Len(feed[t]) + 1
    <2>1. t \in TicketIds
      BY <1>2, AtWork DEF AddReply, OnTicket, Inv
    <2>2. feed' = [feed EXCEPT ![t] = Append(feed[t], Out)]
      BY <1>2 DEF AddReply
    <2> HIDE DEF t
    <2>3. /\ DOMAIN feed'[t] = DOMAIN feed[t] \cup {n}
          /\ \A i \in DOMAIN feed[t] : feed'[t][i] = feed[t][i]
          /\ feed'[t][n] = Out
          /\ \A s \in TicketIds : s # t => feed'[s] = feed[s]
      BY <2>1, <2>2, FeedGrown
    <2> HIDE DEF n
    <2> QED  BY <2>1, <2>3 DEF FeedInOrder
  <1>3. CASE UNCHANGED feed
    BY <1>3 DEF FeedInOrder
  <1> QED  BY <1>1, <1>2, <1>3, EventBegins, DashboardBegins
              DEF Next, UserStep, DashboardStep, AwaitProblem, SaveRating, GetUser,
                  SendMenu, CreateTicket, ReadExisting, SetIdle, TellCreated,
                  MarkMessages, ZeroUnread, TellReply, CloseTicket, TellClosed,
                  TakeTicket, TellIntro, Abort, MarkCannotWrite, vars, rows

\* In Long Poll mode the feed has the user's messages in the order he wrote
\* them, wherever a handler ends.
THEOREM FeedInOrderCorrect ==
    ASSUME Mode = "longpoll" PROVE Spec => []FeedInOrder
  <1>1. TypeOK /\ Inv /\ OneEventAtATime /\ InTurn /\ FeedInOrder /\ [Next]_vars
          => InTurn' /\ FeedInOrder'
    BY InTurnStep, FeedOrderStep
  <1> QED  BY <1>1, InTurnInit, OneEventCorrect, InvCorrect, PTL DEF Spec

-----------------------------------------------------------------------------
(* Long Poll, and handlers that run to their end.                          *)

\* No handler ends by the TypeError of user.py, and none by a failure.
LEMMA NothingLostStep ==
    ASSUME ~Faults, TypeOK, Inv, OneEventAtATime, NothingLost, [Next]_vars
    PROVE  NothingLost'
  <1>1. CASE UNCHANGED fate
    BY <1>1 DEF NothingLost
  <1>2. ASSUME NEW k \in Tasks, UserRequest(k) PROVE NothingLost'
    BY <1>2, EventBegins DEF NothingLost, TypeOK
  <1>3. ASSUME NEW k \in Tasks, SendMenu(k) \/ AddMessage(k) PROVE NothingLost'
    BY <1>3 DEF SendMenu, AddMessage, NothingLost, TypeOK
  <1>4. ASSUME NEW k \in Tasks, ReadExisting(k) \/ Abort(k) PROVE FALSE
    BY <1>4 DEF ReadExisting, Abort, OneEventAtATime
  <1> QED  BY <1>1, <1>2, <1>3, <1>4, DashboardBegins
              DEF Next, UserStep, DashboardStep, AwaitProblem, SaveRating, GetUser,
                  CreateTicket, SetIdle, TellCreated, AddReply,
                  MarkMessages, ZeroUnread, TellReply, CloseTicket, TellClosed,
                  TakeTicket, TellIntro, MarkCannotWrite, vars

\* In Long Poll mode, when nothing fails, no message of a user disappears.
THEOREM NothingLostCorrect ==
    ASSUME Mode = "longpoll", ~Faults PROVE Spec => []NothingLost
  <1>1. Init => NothingLost
    BY DEF Init, NothingLost
  <1>2. TypeOK /\ Inv /\ OneEventAtATime /\ NothingLost /\ [Next]_vars => NothingLost'
    BY NothingLostStep
  <1> QED  BY <1>1, <1>2, OneEventCorrect, InvCorrect, PTL DEF Spec

\* A step that asks nobody for a problem and opens no ticket, of a handler that
\* is not in the middle of opening one or goes on with it.
LEMMA AwaitingKept ==
    ASSUME AwaitingMeansNoTicket, NEW k \in Tasks,
           \A l \in Tasks : l # k => task'[l] = task[l],
           task[k].at \in {"add_first", "idle"} =>
             task'[k].at \in {"add_first", "idle"} /\ task'[k].user = task[k].user,
           UNCHANGED userState, \A u : OpenOf(u)' \subseteq OpenOf(u)
    PROVE  AwaitingMeansNoTicket'
  <1> SUFFICES ASSUME NEW u \in Users, userState[u] = "awaiting_problem", OpenOf(u)' # {}
               PROVE  \E l \in Tasks : /\ task'[l].user = u
                                       /\ task'[l].at \in {"add_first", "idle"}
    BY DEF AwaitingMeansNoTicket
  <1>1. OpenOf(u) # {}
    <2>1. OpenOf(u)' \subseteq OpenOf(u)
      OBVIOUS
    <2> QED  BY <2>1
  <1>2. PICK l \in Tasks : task[l].user = u /\ task[l].at \in {"add_first", "idle"}
    BY <1>1 DEF AwaitingMeansNoTicket
  <1> QED  BY <1>2

LEMMA AwaitingStep ==
    ASSUME ~Faults, TypeOK, Inv, OneEventAtATime, AwaitingMeansNoTicket, [Next]_vars
    PROVE  AwaitingMeansNoTicket'
  <1>1. ASSUME NEW k \in Tasks, UserRequest(k) \/ DashboardRequest(k)
        PROVE  AwaitingMeansNoTicket'
    <2>1. UNCHANGED <<userState, tickets>> /\ \E r \in Task : Begin(k, r)
      BY <1>1, EventBegins, DashboardBegins
    <2>2. task[k].at = "free" /\ \A l \in Tasks : l # k => task'[l] = task[l]
      BY <2>1, Begun
    <2>3. \A u : OpenOf(u)' \subseteq OpenOf(u)
      BY <2>1 DEF OpenOf, Open
    <2> QED  BY <2>1, <2>2, <2>3, AwaitingKept
  <1>2. ASSUME NEW k \in Tasks, UserStep(k) \/ DashboardStep(k)
        PROVE  Moves(k) /\ (~CreateTicket(k) => \A u : OpenOf(u)' \subseteq OpenOf(u))
    BY <1>2, UserMoves, DashboardMoves, OpenShrinks
  <1>3. ASSUME NEW k \in Tasks, AwaitProblem(k) PROVE AwaitingMeansNoTicket'
    <2>1. /\ OpenOf(task[k].user) = {}
          /\ task[k].at = "await"
      BY <1>3 DEF AwaitProblem, OneEventAtATime
    <2>2. \A u : OpenOf(u)' \subseteq OpenOf(u)
      BY <1>3 DEF AwaitProblem, OpenOf, Open, rows
    <2>3. \A u \in Users : u # task[k].user => userState'[u] = userState[u]
      BY <1>3 DEF AwaitProblem, TypeOK
    <2>4. \A l \in Tasks : l # k => task'[l] = task[l]
      BY <1>3, Finished DEF AwaitProblem
    <2> SUFFICES ASSUME NEW u \in Users, userState'[u] = "awaiting_problem",
                        OpenOf(u)' # {}
                 PROVE  \E l \in Tasks : /\ task'[l].user = u
                                         /\ task'[l].at \in {"add_first", "idle"}
      BY DEF AwaitingMeansNoTicket
    <2>5. OpenOf(u) # {} /\ u # task[k].user
      <3>1. OpenOf(u)' \subseteq OpenOf(u)
        BY <2>2
      <3> QED  BY <2>1, <3>1
    <2>6. PICK l \in Tasks : task[l].user = u /\ task[l].at \in {"add_first", "idle"}
      BY <2>3, <2>5 DEF AwaitingMeansNoTicket
    <2> QED  BY <2>1, <2>4, <2>6
  <1>4. ASSUME NEW k \in Tasks, CreateTicket(k) PROVE AwaitingMeansNoTicket'
    <2>1. task[k].at = "create" /\ NoConflict(task[k].user) /\ task[k].user # Null
      BY <1>4 DEF CreateTicket, OneEventAtATime, OnEvent, NoConflict
    <2>2. PICK t \in TicketIds :
            /\ tickets' = [tickets EXCEPT ![t] =
                 [NoTicket EXCEPT !.status = "open", !.user = task[k].user]]
            /\ task' = [task EXCEPT ![k].ticket = t, ![k].at = "add_first"]
      BY <1>4, <2>1 DEF CreateTicket
    <2>3. /\ task'[k].at = "add_first"
          /\ task'[k].user = task[k].user
          /\ \A l \in Tasks : l # k => task'[l] = task[l]
      <3>1. "add_first" \in Label
        BY DEF Label
      <3> QED  BY <2>2, <3>1, GoneToTicket
    <2>4. ASSUME NEW u, u # task[k].user PROVE OpenOf(u)' \subseteq OpenOf(u)
      BY <2>2, <2>4 DEF OpenOf, Open, TypeOK, NoTicket
    <2>5. UNCHANGED userState
      BY <1>4 DEF CreateTicket
    <2> SUFFICES ASSUME NEW u \in Users, userState[u] = "awaiting_problem",
                        OpenOf(u)' # {}
                 PROVE  \E l \in Tasks : /\ task'[l].user = u
                                         /\ task'[l].at \in {"add_first", "idle"}
      BY <2>5 DEF AwaitingMeansNoTicket
    <2>6. CASE u = task[k].user
      BY <2>3, <2>6
    <2>7. CASE u # task[k].user
      <3>1. OpenOf(u)' \subseteq OpenOf(u)
        BY <2>4, <2>7
      <3>2. PICK l \in Tasks : task[l].user = u /\ task[l].at \in {"add_first", "idle"}
        BY <3>1 DEF AwaitingMeansNoTicket
      <3> QED  BY <2>3, <2>7, <3>2
    <2> QED  BY <2>6, <2>7
  <1>5. ASSUME NEW k \in Tasks, SetIdle(k) PROVE AwaitingMeansNoTicket'
    <2>1. \A u : OpenOf(u)' \subseteq OpenOf(u)
      BY <1>5 DEF SetIdle, OpenOf, Open, rows
    <2>2. /\ userState' = [userState EXCEPT ![task[k].user] = "idle"]
          /\ \A l \in Tasks : l # k => task'[l] = task[l]
      BY <1>2, <1>5 DEF SetIdle, UserStep, Moves
    <2> SUFFICES ASSUME NEW u \in Users, userState'[u] = "awaiting_problem",
                        OpenOf(u)' # {}
                 PROVE  \E l \in Tasks : /\ task'[l].user = u
                                         /\ task'[l].at \in {"add_first", "idle"}
      BY DEF AwaitingMeansNoTicket
    <2>3. u # task[k].user /\ userState[u] = "awaiting_problem"
      BY <2>2 DEF TypeOK
    <2>4. OpenOf(u)' \subseteq OpenOf(u)
      BY <2>1
    <2>5. PICK l \in Tasks : task[l].user = u /\ task[l].at \in {"add_first", "idle"}
      BY <2>3, <2>4 DEF AwaitingMeansNoTicket
    <2> QED  BY <2>2, <2>3, <2>5
  <1>6. ASSUME NEW k \in Tasks, AddMessage(k) PROVE AwaitingMeansNoTicket'
    <2>1. Moves(k) /\ UNCHANGED userState /\ \A u : OpenOf(u)' \subseteq OpenOf(u)
      <3>1. ~CreateTicket(k)
        BY <1>6 DEF AddMessage, CreateTicket
      <3> QED  BY <1>2, <1>6, <3>1 DEF AddMessage, UserStep
    <2>2. task[k].at = "add_first" => task'[k].at = "idle" /\ task'[k].user = task[k].user
      <3>1. "idle" \in Label
        BY DEF Label
      <3> QED  BY <1>6, <3>1, GoneTo DEF AddMessage, AfterAdd
    <2>3. task[k].at # "idle"
      BY <1>6 DEF AddMessage
    <2> QED  BY <2>1, <2>2, <2>3, AwaitingKept DEF Moves
  <1>7. ASSUME NEW k \in Tasks, UserStep(k) \/ DashboardStep(k),
               UNCHANGED userState, ~CreateTicket(k),
               task[k].at \notin {"add_first", "idle"}
        PROVE  AwaitingMeansNoTicket'
    BY <1>2, <1>7, AwaitingKept DEF Moves
  <1>8. ASSUME NEW k \in Tasks, UserStep(k) PROVE AwaitingMeansNoTicket'
    <2>1. CASE AwaitProblem(k) \/ CreateTicket(k) \/ SetIdle(k) \/ AddMessage(k)
      BY <1>3, <1>4, <1>5, <1>6, <2>1
    <2>2. CASE SaveRating(k) \/ GetUser(k) \/ SendMenu(k) \/ ReadExisting(k) \/ TellCreated(k)
      <3>1. /\ UNCHANGED userState
            /\ task[k].at \in {"rate", "get_user", "menu", "reread", "tell_created"}
        BY <2>2 DEF SaveRating, GetUser, SendMenu, ReadExisting, TellCreated
      <3>2. ~CreateTicket(k)
        BY <3>1 DEF CreateTicket
      <3> QED  BY <1>7, <1>8, <3>1, <3>2
    <2> QED  BY <1>8, <2>1, <2>2 DEF UserStep
  <1>9. ASSUME NEW k \in Tasks, DashboardStep(k) PROVE AwaitingMeansNoTicket'
    <2>1. /\ UNCHANGED userState
          /\ task[k].at \notin {"add_first", "idle", "create"}
      BY <1>9 DEF DashboardStep, AddReply, MarkMessages, ZeroUnread, TellReply,
                  CloseTicket, TellClosed, TakeTicket, TellIntro
    <2>2. ~CreateTicket(k)
      BY <2>1 DEF CreateTicket
    <2> QED  BY <1>7, <1>9, <2>1, <2>2
  <1>10. CASE UNCHANGED <<userState, tickets, task>>
    BY <1>10 DEF AwaitingMeansNoTicket, OpenOf, Open
  <1> QED  BY <1>1, <1>8, <1>9, <1>10 DEF Next, Abort, MarkCannotWrite, vars, rows

\* In Long Poll mode, when nothing fails, who is asked for a problem has no open
\* ticket, except in the middle of opening one.
THEOREM AwaitingMeansNoTicketCorrect ==
    ASSUME Mode = "longpoll", ~Faults PROVE Spec => []AwaitingMeansNoTicket
  <1>1. Init => AwaitingMeansNoTicket
    BY DEF Init, AwaitingMeansNoTicket
  <1>2. /\ TypeOK /\ Inv /\ OneEventAtATime /\ AwaitingMeansNoTicket /\ [Next]_vars
        => AwaitingMeansNoTicket'
    BY AwaitingStep
  <1> QED  BY <1>1, <1>2, OneEventCorrect, InvCorrect, PTL DEF Spec
=============================================================================

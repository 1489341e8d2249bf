--------------------------------- MODULE Chat ---------------------------------
(***************************************************************************)
(* The dashboard: the open dialog and its thread (src/web/src/App.tsx,     *)
(* screens/Dialogs.tsx, components/Chat.tsx) over the events that module   *)
(* Channel promises and the requests for messages and replies              *)
(* (src/app/web/api.py).                                                   *)
(*                                                                         *)
(* A step is a callback of the browser or a request handled by the server. *)
(* The composer, the list of dialogs and the read mark, which Chat also    *)
(* posts, are left out (module Tickets has the mark); what is shown of a   *)
(* message is its id, or that of the temporary bubble of a reply.          *)
(***************************************************************************)
EXTENDS Channel, Integers, SequencesExt, FiniteSets

CONSTANTS
    Jobs,     \* bound: load and send calls at one time, 1..n
    MaxFeed   \* LIMIT of list_messages

ASSUME JobsAssumption == Jobs \subseteq Nat \ {0}

VARIABLES
    active,    \* activeId of App
    thread,    \* what Chat shows; Null: not loaded
    incoming,  \* the last message of the socket; 0: none
    pending,   \* it has not been rendered
    job        \* calls of load and send in progress

chatVars == <<active, thread, incoming, pending, job>>
allVars == <<channelVars, chatVars>>

\* at: what the call waits for next; send: it is a send, else a load; mounted:
\* its Chat is still on the screen; reply: the row of the reply it has made.
\* data: the answer of the server.
Idle == [at |-> "idle", dialog |-> Null, send |-> FALSE, mounted |-> FALSE,
         reply |-> 0, data |-> <<>>]

Load(d) == [Idle EXCEPT !.at = "get", !.dialog = d, !.mounted = TRUE]

Sending(d) == [Load(d) EXCEPT !.at = "post", !.send = TRUE]

\* The id of an optimistic message is negative.
Bubble(j) == -j

ChatInit ==
    /\ ChannelInit
    /\ active = Null
    /\ thread = Null
    /\ incoming = 0
    /\ pending = FALSE
    /\ job = [j \in Jobs |-> Idle]

-----------------------------------------------------------------------------
(* Events of the socket.                                                   *)

\* onmessage: setIncoming.  A second event before the render replaces it.
Receive(i) ==
    /\ Arrive(i)
    /\ incoming' = i
    /\ pending' = TRUE
    /\ UNCHANGED <<active, thread, job>>

\* The updater of the effect on incoming.  Seeded bug: it does not look for the id.
WithIncomingAgain == Append(thread, incoming)
WithIncoming ==
    IF Contains(thread, incoming) THEN thread ELSE Append(thread, incoming)

\* App renders, Chat gets the message if it belongs to the open dialog, and
\* appends it if the thread is there.
Render ==
    /\ pending
    /\ pending' = FALSE
    /\ thread' = IF thread # Null /\ feed[incoming].dialog = active THEN WithIncoming ELSE thread
    /\ UNCHANGED <<channelVars, active, incoming, job>>

-----------------------------------------------------------------------------
(* The operator.                                                           *)

Free(j) == job[j].at = "idle"

\* A dialog is picked, or load changes because the list switches between open
\* and closed: the thread is dropped and loaded again.  The effect on incoming
\* finds no thread.
Open(d, j) ==
    /\ Free(j)
    /\ active' = d
    /\ thread' = Null
    /\ pending' = FALSE
    /\ job' = [job EXCEPT ![j] = Load(d)]
    /\ UNCHANGED <<channelVars, incoming>>

\* Escape, the back button, or the dialog has left the list: Chat unmounts.
Leave ==
    /\ active # Null
    /\ active' = Null
    /\ thread' = Null
    /\ pending' = FALSE
    /\ job' = [j \in Jobs |-> [job[j] EXCEPT !.mounted = FALSE]]
    /\ UNCHANGED <<channelVars, incoming>>

\* The dialog is taken or closed: load follows, with the thread on the screen.
TakeOrClose(j) ==
    /\ thread # Null /\ Free(j)
    /\ job' = [job EXCEPT ![j] = [Load(active) EXCEPT !.at = "ask"]]
    /\ UNCHANGED <<channelVars, active, thread, incoming, pending>>

\* Enter, also while an earlier reply is on its way.
Send(j) ==
    /\ thread # Null /\ Free(j)
    /\ thread' = Append(thread, Bubble(j))
    /\ job' = [job EXCEPT ![j] = Sending(active)]
    /\ UNCHANGED <<channelVars, active, incoming, pending>>

-----------------------------------------------------------------------------
(* The requests of load and send.                                          *)

\* The requests before load: what take and close do is in module Tickets; a
\* reply is stored before it is answered.
Taken(j) ==
    /\ job[j].at = "ask"
    /\ job' = [job EXCEPT ![j].at = "get"]
    /\ UNCHANGED <<channelVars, active, thread, incoming, pending>>

PostReply(j) ==
    /\ job[j].at = "post"
    /\ Store(job[j].dialog, "operator")
    /\ job' = [job EXCEPT ![j].at = "get", ![j].reply = Len(feed) + 1]
    /\ UNCHANGED <<active, thread, incoming, pending>>

\* The numbers of a set as a sequence, in their order: there is one.
InOrder(S) == {f \in [1..Cardinality(S) -> S] :
                  \A a, b \in DOMAIN f : a < b => f[a] < f[b]}

\* list_messages: the rows of the dialog, the oldest first.
RowsOf(d) == {i \in 1..Len(feed) : feed[i].dialog = d}
Limited(rows) == {i \in rows : Cardinality({k \in rows : k < i}) < MaxFeed}
Listed(d) == InOrder(Limited(RowsOf(d)))

GetMessages(j) ==
    /\ job[j].at = "get"
    /\ \E data \in Listed(job[j].dialog) :
          job' = [job EXCEPT ![j].at = "got", ![j].data = data]
    /\ UNCHANGED <<channelVars, active, thread, incoming, pending>>

\* setThread(data), whatever dialog is open by now.  The requests that follow
\* change nothing of the thread: if one fails, there is no bubble to take away.
SetThread(j) ==
    /\ job[j].at = "got"
    /\ thread' = IF job[j].mounted THEN job[j].data ELSE thread
    /\ job' = [job EXCEPT ![j] = Idle]
    /\ UNCHANGED <<channelVars, active, incoming, pending>>

\* The catch of send takes the bubble away.  Seeded bug: it does not.
RolledBackNot(j) == {thread}
RolledBack(j) ==
    IF job[j].send /\ job[j].mounted /\ thread # Null
    THEN {[n \in DOMAIN kept |-> thread[kept[n]]] :
             kept \in InOrder({i \in DOMAIN thread : thread[i] # Bubble(j)})}
    ELSE {thread}

\* A request is refused, or it or its answer is lost: the reply may have been
\* stored.
RequestFails(j) ==
    /\ ~Free(j)
    /\ thread' \in RolledBack(j)
    /\ job' = [job EXCEPT ![j] = Idle]
    /\ \/ UNCHANGED channelVars
       \/ job[j].at = "post" /\ Store(job[j].dialog, "operator")
    /\ UNCHANGED <<active, incoming, pending>>

-----------------------------------------------------------------------------
Incoming(d) == Store(d, "user") /\ UNCHANGED chatVars

ChatNext ==
    \/ \E d \in Dialogs : Incoming(d)
    \/ \E i \in Ids : Receive(i)
    \/ Render \/ Leave
    \/ \E j \in Jobs :
           \/ \E d \in Dialogs : Open(d, j)
           \/ TakeOrClose(j) \/ Taken(j) \/ Send(j)
           \/ PostReply(j) \/ GetMessages(j) \/ SetThread(j) \/ RequestFails(j)

ChatSpec == ChatInit /\ [][ChatNext]_allVars

-----------------------------------------------------------------------------
(* Properties.                                                             *)

ChatTypeOK ==
    /\ ChannelTypeOK
    /\ active \in Dialogs \cup {Null}
    /\ thread = Null \/ Range(thread) \subseteq Ids \cup {Bubble(j) : j \in Jobs}
    /\ incoming \in Ids \cup {0} /\ pending \in BOOLEAN
    /\ \A j \in Jobs : job[j].reply \in 0..Len(feed) /\ Range(job[j].data) \subseteq Ids

\* No message stands twice in the thread, although it may come with the answer
\* of a load and over the socket, in either order; nor does a reply stand there
\* as a bubble and as a message.
NothingShownTwice ==
    thread # Null =>
        /\ IsInjective(thread)
        /\ \A j \in Jobs : ~(Contains(thread, Bubble(j)) /\ Contains(thread, job[j].reply))

\* A bubble stands for a reply on its way: when its send has ended, well or
\* not, and however loads of this and other dialogs came in between, it is
\* gone.
NoGhostBubble ==
    thread # Null =>
        \A j \in Jobs : Contains(thread, Bubble(j)) => job[j].send /\ job[j].at # "idle"

-----------------------------------------------------------------------------
(* Why they hold: the inductive invariant proved in ChatProofs.            *)

Job == [at : {"idle", "ask", "post", "get", "got"}, dialog : Dialogs \cup {Null},
        send : BOOLEAN, mounted : BOOLEAN, reply : Nat, data : Seq(Nat)]

\* Chat is on the screen, and calls are made, for a dialog.
DialogsAreOpen ==
    /\ thread # Null => active \in Dialogs
    /\ \A j \in Jobs : job[j].mounted => active \in Dialogs
    /\ \A j \in Jobs : job[j].at # "idle" => job[j].dialog \in Dialogs

\* What is shown, answered or announced was stored; a reply that was made is
\* not announced, and no answer has a row twice.
StoredFirst ==
    /\ thread # Null =>
         thread \in Seq((1..Len(feed)) \cup {Bubble(j) : j \in Jobs})
    /\ \A j \in Jobs : job[j].data \in Seq(1..Len(feed)) /\ IsInjective(job[j].data)
    /\ \A j \in Jobs : job[j].reply # 0 =>
         job[j].reply \in 1..Len(feed) /\ feed[job[j].reply].from = "operator"
    /\ pending => incoming # 0
    /\ incoming # 0 => incoming \in 1..Len(feed) /\ feed[incoming].from = "user"

\* The call that is to take a bubble away can do so: its Chat is mounted.
BubblesAreMounted ==
    thread # Null =>
        \A j \in Jobs : Contains(thread, Bubble(j)) => job[j].mounted

ThreadInv ==
    /\ active \in Dialogs \cup {Null}
    /\ pending \in BOOLEAN
    /\ job \in [Jobs -> Job]
    /\ DialogsAreOpen
    /\ StoredFirst
    /\ BubblesAreMounted
    /\ NoGhostBubble
    /\ NothingShownTwice
=============================================================================

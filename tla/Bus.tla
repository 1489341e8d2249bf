--------------------------------- MODULE Bus ---------------------------------
(***************************************************************************)
(* The way of a stored message to the operator: the notifier               *)
(* (src/app/handlers/user.py, main.py), the event bus (web/bus.py), the    *)
(* socket of the dashboard (web/ws.py, web/src/useSocket.ts) and web push  *)
(* (web/push.py).  An event goes to every open dashboard; if none takes    *)
(* it, every subscribed device gets a push.                                *)
(*                                                                         *)
(* A step runs from one await to the next.  What is abstracted: an event   *)
(* is the id of its message; pings only matter as what finds out that a    *)
(* link is down; a push is one step with the DELETE of a subscription that *)
(* the browser has revoked; VAPID keys are configured (dashboard_ready).   *)
(***************************************************************************)
EXTENDS Channel, FiniteSets

CONSTANTS
    Conns,        \* sockets the server can hold at one time
    Devices,      \* endpoints of push subscriptions
    MAX_QUEUE,    \* bus.py: events one subscriber may lag behind
    MaxLeaks      \* bound: subscribers that stay in the bus for good

ASSUME QueueAssumption == MAX_QUEUE \in Nat \ {0}
ASSUME NullIsNoConn == Null \notin Conns

VARIABLES
    told,           \* how far the notification of each message is
    untried,        \* devices send_to_all has fetched for it and not tried yet
    subscriptions,  \* table push_subscriptions
    conn,           \* the server's side of each socket
    queue,          \* its queue in the bus
    socket,         \* the socket the dashboard holds
    swallowed       \* events that were taken for a socket and sent to nobody

busVars == <<told, untried, subscriptions, conn, queue, socket, swallowed>>
vars == <<channelVars, busVars>>

\* "quiet": a reply, of which nobody is told; "queued": publish counted at
\* least one delivery; "lost": the notification ended with an exception or
\* with the process.
Told == {"none", "quiet", "stored", "queued", "fetch", "push", "done", "lost"}

\* "greet": subscribed, "ready" not sent yet; "serve": handler and pump run;
\* "deaf": the pump has died; "leaked": the handler has ended and the queue
\* is still in the bus.
ConnState == {"free", "greet", "serve", "deaf", "leaked"}

Init ==
    /\ ChannelInit
    /\ told = [i \in Ids |-> "none"]
    /\ untried = [i \in Ids |-> {}]
    /\ subscriptions = {}
    /\ conn = [c \in Conns |-> "free"]
    /\ queue = [c \in Conns |-> <<>>]
    /\ socket = Null
    /\ swallowed = {}

-----------------------------------------------------------------------------
(* A message is stored and announced.                                      *)

\* add_message has committed a text of a user: _notify_message is to announce it.
StoreText(d) ==
    /\ Store(d, "user")
    /\ told' = [told EXCEPT ![Len(feed) + 1] = "stored"]
    /\ UNCHANGED <<untried, subscriptions, conn, queue, socket, swallowed>>

\* The reply of an operator is announced to nobody.
StoreReply(d) ==
    /\ Store(d, "operator")
    /\ told' = [told EXCEPT ![Len(feed) + 1] = "quiet"]
    /\ UNCHANGED <<untried, subscriptions, conn, queue, socket, swallowed>>

Subscribers == {c \in Conns : conn[c] # "free"}

HasRoom(c) == Len(queue[c]) < MAX_QUEUE

\* The subscribers put_nowait succeeds for.
Takers == {c \in Subscribers : HasRoom(c)}

\* What publish returns is not 0.  Seeded bug: QueueFull is counted too.
DeliveredToAll == Subscribers # {}
Delivered == Takers # {}

\* notify: there is no await between the first put and the look at the count.
Publish(i) ==
    /\ told[i] = "stored"
    /\ queue' = [c \in Conns |-> IF c \in Takers THEN Append(queue[c], i) ELSE queue[c]]
    /\ told' = [told EXCEPT ![i] = IF Delivered THEN "queued" ELSE "fetch"]
    /\ UNCHANGED <<channelVars, untried, subscriptions, conn, socket, swallowed>>

FetchRows(i) ==
    /\ told[i] = "fetch"
    /\ untried' = [untried EXCEPT ![i] = subscriptions]
    /\ told' = [told EXCEPT ![i] = IF subscriptions = {} THEN "done" ELSE "push"]
    /\ UNCHANGED <<channelVars, subscriptions, conn, queue, socket, swallowed>>

\* The loop goes on to the next row whatever became of this one.  Seeded bug: it
\* ends with the first.
AfterPushStops(i, d) == "done"
AfterPush(i, d) == IF untried[i] = {d} THEN "done" ELSE "push"

\* _deliver succeeds, or fails, or is answered that the subscription is dead.
SendPush(i, d) ==
    /\ told[i] = "push" /\ d \in untried[i]
    /\ untried' = [untried EXCEPT ![i] = @ \ {d}]
    /\ told' = [told EXCEPT ![i] = AfterPush(i, d)]
    /\ subscriptions' \in {subscriptions, subscriptions \ {d}}
    /\ UNCHANGED <<channelVars, conn, queue, socket, swallowed>>

\* A statement raises: nobody is told, or the devices that were not tried are
\* not.  _safe_notify swallows what notify raises.
NotifyFails(i) ==
    /\ told[i] \in {"stored", "fetch", "push"}
    /\ told' = [told EXCEPT ![i] = "lost"]
    /\ untried' = [untried EXCEPT ![i] = {}]
    /\ UNCHANGED <<channelVars, subscriptions, conn, queue, socket, swallowed>>

-----------------------------------------------------------------------------
(* Push subscriptions.                                                     *)

SaveSubscription(d) ==
    /\ subscriptions' = subscriptions \cup {d}
    /\ UNCHANGED <<channelVars, told, untried, conn, queue, socket, swallowed>>

DropSubscription(d) ==
    /\ subscriptions' = subscriptions \ {d}
    /\ UNCHANGED <<channelVars, told, untried, conn, queue, socket, swallowed>>

-----------------------------------------------------------------------------
(* The socket.                                                             *)

\* A queue stays in the bus for good only within the bound.
MayLeak == Cardinality({c \in Conns : conn[c] \in {"deaf", "leaked"}}) < MaxLeaks

\* The timer of useSocket fires, the session is verified, the bus gets a queue.
Connect(c) ==
    /\ socket = Null /\ conn[c] = "free"
    /\ socket' = c
    /\ conn' = [conn EXCEPT ![c] = "greet"]
    /\ queue' = [queue EXCEPT ![c] = <<>>]
    /\ UNCHANGED <<channelVars, told, untried, subscriptions, swallowed>>

\* The network, the phone or the browser ends the link; the server does not
\* know yet.
BreakLink ==
    /\ socket # Null
    /\ socket' = Null
    /\ UNCHANGED <<channelVars, told, untried, subscriptions, conn, queue, swallowed>>

\* send_json({"type": "ready"}) stands before the try: over a link that is
\* down it may raise, and then nobody unsubscribes.
Greet(c) ==
    /\ conn[c] = "greet"
    /\ \/ conn' = [conn EXCEPT ![c] = "serve"]
       \/ socket # c /\ MayLeak /\ conn' = [conn EXCEPT ![c] = "leaked"]
    /\ UNCHANGED <<channelVars, told, untried, subscriptions, queue, socket, swallowed>>

\* The dashboard listens to one socket at a time.  Seeded bug: the handlers of an
\* old socket stay.
CurrentAny(c) == TRUE
Current(c) == socket = c

\* The pump sends the next event.  Over a link that is down the event is lost,
\* and the send either raises, which ends the pump, or does not.
PumpDelivers(c) ==
    /\ conn[c] = "serve" /\ queue[c] # <<>> /\ Current(c)
    /\ queue' = [queue EXCEPT ![c] = Tail(@)]
    /\ arrived' = Append(arrived, Head(queue[c]))
    /\ UNCHANGED <<feed, told, untried, subscriptions, conn, socket, swallowed>>

PumpLoses(c) ==
    /\ conn[c] = "serve" /\ queue[c] # <<>> /\ ~Current(c)
    /\ queue' = [queue EXCEPT ![c] = Tail(@)]
    /\ swallowed' = swallowed \cup {Head(queue[c])}
    /\ \/ UNCHANGED conn
       \/ MayLeak /\ conn' = [conn EXCEPT ![c] = "deaf"]
    /\ UNCHANGED <<channelVars, told, untried, subscriptions, socket>>

\* receive_json, or the ping after 25 seconds, raises.  finally cancels the
\* pump and unsubscribes, unless the pump ended with an error of its own:
\* await pump_task raises it again, and unsubscribe is not reached.
Disconnect(c) ==
    /\ conn[c] \in {"serve", "deaf"} /\ socket # c
    /\ IF conn[c] = "serve"
       THEN /\ conn' = [conn EXCEPT ![c] = "free"]
            /\ queue' = [queue EXCEPT ![c] = <<>>]
            /\ swallowed' = swallowed \cup Range(queue[c])
       ELSE /\ conn' = [conn EXCEPT ![c] = "leaked"]
            /\ UNCHANGED <<queue, swallowed>>
    /\ UNCHANGED <<channelVars, told, untried, subscriptions, socket>>

\* The process ends and another one starts: the bus and the tasks are gone.
Restart ==
    /\ conn' = [c \in Conns |-> "free"]
    /\ queue' = [c \in Conns |-> <<>>]
    /\ swallowed' = swallowed \cup UNION {Range(queue[c]) : c \in Conns}
    /\ told' = [i \in Ids |->
                   IF told[i] \in {"stored", "fetch", "push"} THEN "lost" ELSE told[i]]
    /\ untried' = [i \in Ids |-> {}]
    /\ socket' = Null
    /\ UNCHANGED <<channelVars, subscriptions>>

-----------------------------------------------------------------------------
(* The tasks: a notification of a message, the handler of a socket.        *)

Notify(i) == Publish(i) \/ FetchRows(i) \/ \E d \in Devices : SendPush(i, d)

Pump(c) == PumpDelivers(c) \/ PumpLoses(c)

Handler(c) == Greet(c) \/ Disconnect(c)

Outside ==
    \/ \E i \in Ids : NotifyFails(i)
    \/ \E d \in Devices : SaveSubscription(d) \/ DropSubscription(d)
    \/ \E c \in Conns : Connect(c)
    \/ BreakLink
    \/ Restart

Next ==
    \/ \E d \in Dialogs : StoreText(d) \/ StoreReply(d)
    \/ \E i \in Ids : Notify(i)
    \/ \E c \in Conns : Pump(c) \/ Handler(c)
    \/ Outside

\* asyncio runs every task that is ready; a link that is down is found out by
\* the next ping; a push service answers (webpush sets no time limit).
Fairness ==
    /\ \A i \in Ids : WF_vars(Notify(i))
    /\ \A c \in Conns : WF_vars(Pump(c)) /\ WF_vars(Handler(c))

Spec == Init /\ [][Next]_vars
FairSpec == Spec /\ Fairness

-----------------------------------------------------------------------------
(* Properties.                                                             *)

TypeOK ==
    /\ ChannelTypeOK
    /\ told \in [Ids -> Told]
    /\ untried \in [Ids -> SUBSET Devices]
    /\ \A i \in Ids : told[i] # "push" => untried[i] = {}
    /\ subscriptions \subseteq Devices
    /\ conn \in [Conns -> ConnState]
    /\ queue \in [Conns -> Seq(Ids)]
    /\ socket \in Conns \cup {Null}
    /\ swallowed \subseteq Ids

InQueue(i) == \E c \in Subscribers : i \in Range(queue[c])

\* An event that publish counts as delivered is on its way to a dashboard, or
\* has reached one, or was taken for a socket whose link had broken.  It does
\* not get lost between bus and socket while somebody watches, because its
\* queue was full, or because another dashboard disconnected.
AcceptedIsSomewhere ==
    \A i \in Ids : told[i] = "queued" => i \in Range(arrived) \cup swallowed \/ InQueue(i)

\* The socket, the bus and the reconnections keep the promise of Channel: the
\* dashboard gets a message at most once, although while an old socket is not
\* yet known to be broken the bus puts it in two queues of one dashboard.
ImplementsChannel == ChannelSpec

\* Why it does: a message is told of from the moment its row is there, a text of
\* a user only; it enters each queue once, before it can arrive, and the queue
\* of a new socket is empty.
ToldMatchesFeed ==
    \A i \in Ids : /\ told[i] = "none" <=> i > Len(feed)
                   /\ told[i] \notin {"none", "quiet"} => feed[i].from = "user"

QueuedOnce ==
    \A c \in Conns :
        /\ \A m, n \in 1..Len(queue[c]) : queue[c][m] = queue[c][n] => m = n
        /\ \A i \in Range(queue[c]) : told[i] = "queued"

ArrivedLeftItsQueue ==
    /\ \A i \in Range(arrived) : told[i] = "queued"
    /\ \A c \in Conns : socket = c => Range(queue[c]) \cap Range(arrived) = {}

\* A message for which every subscriber lagged behind or none was there is
\* pushed to every device: the loop does not end at the first that fails.
Pushed(i) == told[i] = "done" /\ untried[i] = {}

\* It waits in the queue of a subscriber that nobody serves any more.
Stranded(i) == \E c \in Conns : conn[c] = "leaked" /\ i \in Range(queue[c])

\* Every stored message reaches the operator: it arrives in the dashboard, or
\* every device was tried.  Otherwise a link broke under it, or its
\* notification failed.
EventuallyAnnounced ==
    \A i \in Ids : told[i] = "stored" ~>
        \/ i \in Range(arrived) \/ Pushed(i)
        \/ told[i] = "lost" \/ i \in swallowed \/ Stranded(i)
=============================================================================

------------------------------ MODULE BusProofs ------------------------------
(***************************************************************************)
(* The bus loses no event it has taken, and the dashboard gets a message   *)
(* at most once, for any number of sockets, devices and messages and any   *)
(* length of the queues.                                                   *)
(***************************************************************************)
EXTENDS Bus, TLAPS

USE QueueAssumption, MaxAssumption

-----------------------------------------------------------------------------
(* Queues as sequences.                                                    *)

LEMMA RangeAppend ==
    ASSUME NEW S, NEW q \in Seq(S), NEW x \in S
    PROVE  Range(Append(q, x)) = Range(q) \cup {x}
  <1>1. /\ Append(q, x) \in Seq(S) /\ Len(Append(q, x)) = Len(q) + 1
        /\ \A n \in 1..Len(q) : Append(q, x)[n] = q[n]
        /\ Append(q, x)[Len(q) + 1] = x
    OBVIOUS
  <1>2. DOMAIN Append(q, x) = 1..(Len(q) + 1) /\ DOMAIN q = 1..Len(q)
    BY <1>1
  <1>3. ASSUME NEW y \in Range(Append(q, x)) PROVE y \in Range(q) \cup {x}
    BY <1>1, <1>2, <1>3 DEF Range
  <1>4. ASSUME NEW y \in Range(q) \cup {x} PROVE y \in Range(Append(q, x))
    <2>1. CASE y = x
      BY <1>1, <1>2, <2>1 DEF Range
    <2>2. CASE y \in Range(q)
      <3>1. PICK n \in 1..Len(q) : y = q[n]
        BY <1>2, <2>2 DEF Range
      <3> QED  BY <1>1, <1>2, <3>1 DEF Range
    <2> QED  BY <1>4, <2>1, <2>2
  <1> QED  BY <1>3, <1>4

\* The elements of a sequence stand at its positions.
LEMMA RangeOfSeq ==
    ASSUME NEW S, NEW q \in Seq(S)
    PROVE  /\ Range(q) \subseteq S
           /\ \A x \in Range(q) : \E n \in 1..Len(q) : x = q[n]
           /\ \A n \in 1..Len(q) : q[n] \in Range(q)
  BY DEF Range

Distinct(q) == \A m, n \in 1..Len(q) : q[m] = q[n] => m = n

LEMMA RangeTail ==
    ASSUME NEW S, NEW q \in Seq(S), q # <<>>
    PROVE  /\ Tail(q) \in Seq(S) /\ Head(q) \in Range(q)
           /\ Range(q) = {Head(q)} \cup Range(Tail(q))
           /\ Distinct(q) => Distinct(Tail(q)) /\ Head(q) \notin Range(Tail(q))
  <1>1. /\ Tail(q) \in Seq(S) /\ Len(Tail(q)) = Len(q) - 1 /\ Len(q) \in Nat \ {0}
        /\ Head(q) = q[1] /\ \A n \in 1..Len(Tail(q)) : Tail(q)[n] = q[n + 1]
    OBVIOUS
  <1>2. \A x \in Range(q) : x = Head(q) \/ x \in Range(Tail(q))
    <2> SUFFICES ASSUME NEW n \in 1..Len(q), n # 1 PROVE q[n] \in Range(Tail(q))
      BY <1>1, RangeOfSeq
    <2>1. n - 1 \in 1..Len(Tail(q)) /\ Tail(q)[n - 1] = q[n]
      BY <1>1
    <2> QED  BY <1>1, <2>1, RangeOfSeq
  <1>3. \A x \in Range(Tail(q)) : \E n \in 2..Len(q) : x = q[n]
    <2> SUFFICES ASSUME NEW x \in Range(Tail(q)) PROVE \E n \in 2..Len(q) : x = q[n]
      OBVIOUS
    <2>1. DOMAIN Tail(q) = 1..Len(Tail(q))
      BY <1>1
    <2>2. PICK n \in 1..Len(Tail(q)) : x = Tail(q)[n]
      BY <2>1 DEF Range
    <2>3. n + 1 \in 2..Len(q) /\ x = q[n + 1]
      BY <1>1, <2>2
    <2> QED  BY <2>3
  <1>4. Head(q) \in Range(q) /\ Range(Tail(q)) \subseteq Range(q)
    BY <1>1, <1>3, RangeOfSeq
  <1>5. ASSUME Distinct(q) PROVE Distinct(Tail(q)) /\ Head(q) \notin Range(Tail(q))
    BY <1>1, <1>3, <1>5 DEF Distinct
  <1> QED  BY <1>1, <1>2, <1>4, <1>5

LEMMA DistinctAppend ==
    ASSUME NEW S, NEW q \in Seq(S), NEW x \in S, Distinct(q), x \notin Range(q)
    PROVE  Distinct(Append(q, x))
  <1>1. /\ Len(Append(q, x)) = Len(q) + 1
        /\ \A n \in 1..Len(q) : Append(q, x)[n] = q[n] /\ q[n] # x
        /\ Append(q, x)[Len(q) + 1] = x
    BY RangeOfSeq
  <1>2. \A n \in 1..Len(Append(q, x)) : n \in 1..Len(q) \/ n = Len(q) + 1
    BY <1>1
  <1> QED  BY <1>1, <1>2 DEF Distinct

LEMMA RangeEmpty == Range(<<>>) = {} /\ Distinct(<<>>)
  BY DEF Range, Distinct

-----------------------------------------------------------------------------
(* Types.                                                                  *)

\* A row is stored.
LEMMA StoreType ==
    ASSUME ChannelTypeOK, NEW d \in Dialogs, NEW sender \in {"user", "operator"},
           Store(d, sender)
    PROVE  /\ ChannelTypeOK' /\ Len(feed') = Len(feed) + 1 /\ Len(feed) + 1 \in Ids
           /\ \A i \in 1..Len(feed) : feed'[i] = feed[i]
           /\ feed'[Len(feed) + 1].from = sender /\ arrived' = arrived
  <1>1. [dialog |-> d, from |-> sender] \in Message
    BY DEF Message
  <1>2. Len(feed) + 1 \in Ids
    BY DEF Store, ChannelTypeOK, Ids
  <1> QED  BY <1>1, <1>2 DEF Store, ChannelTypeOK, Ids

LEMMA QueueType ==
    ASSUME TypeOK, NEW c \in Conns, queue[c] # <<>>
    PROVE  /\ queue[c] \in Seq(Ids) /\ Head(queue[c]) \in Range(queue[c])
           /\ Head(queue[c]) \in Ids /\ Tail(queue[c]) \in Seq(Ids)
           /\ Range(queue[c]) = {Head(queue[c])} \cup Range(Tail(queue[c]))
  <1>1. queue[c] \in Seq(Ids)
    BY DEF TypeOK
  <1> QED  BY <1>1, RangeTail, RangeOfSeq

LEMMA InitTypes == Init => TypeOK /\ ToldMatchesFeed
  BY DEF Init, ChannelInit, TypeOK, ChannelTypeOK, Told, ConnState, ToldMatchesFeed, Ids

\* What is told of a stored message changes to another word about a text.
LEMMA ToldStep ==
    ASSUME TypeOK, ToldMatchesFeed, feed' = feed, told' \in [Ids -> Told],
           \A i \in Ids : \/ told'[i] = told[i]
                          \/ /\ told[i] \notin {"none", "quiet"}
                             /\ told'[i] \notin {"none", "quiet"}
    PROVE  ToldMatchesFeed'
  BY DEF ToldMatchesFeed

\* A message of which somebody is told is stored.
LEMMA ToldStore ==
    ASSUME TypeOK, ToldMatchesFeed, NEW d \in Dialogs,
           NEW sender \in {"user", "operator"}, NEW word \in {"quiet", "stored"},
           word = "stored" => sender = "user", Store(d, sender),
           told' = [told EXCEPT ![Len(feed) + 1] = word], UNCHANGED untried
    PROVE  /\ ChannelTypeOK' /\ ToldMatchesFeed' /\ told' \in [Ids -> Told]
           /\ \A i \in Ids : told'[i] # "push" => untried'[i] = {}
           /\ \A i \in Ids : told[i] # "none" => told'[i] = told[i]
           /\ told[Len(feed) + 1] = "none"
  <1>1. /\ ChannelTypeOK' /\ Len(feed') = Len(feed) + 1 /\ Len(feed) + 1 \in Ids
        /\ \A i \in 1..Len(feed) : feed'[i] = feed[i]
        /\ feed'[Len(feed) + 1].from = sender /\ Len(feed) \in Nat
    BY StoreType DEF TypeOK, ChannelTypeOK
  <1>2. told[Len(feed) + 1] = "none"
    BY <1>1 DEF ToldMatchesFeed
  <1>3. told' \in [Ids -> Told] /\ told'[Len(feed) + 1] = word
        /\ \A i \in Ids : i # Len(feed) + 1 => told'[i] = told[i]
    BY <1>1 DEF TypeOK, Told
  <1>4. ASSUME NEW i \in Ids
        PROVE  /\ told'[i] = "none" <=> i > Len(feed')
               /\ told'[i] \notin {"none", "quiet"} => feed'[i].from = "user"
    <2>1. i \in Nat /\ i >= 1
      BY DEF Ids
    <2>2. CASE i = Len(feed) + 1
      BY <1>1, <1>3, <2>1, <2>2
    <2>3. CASE i # Len(feed) + 1
      <3>1. told'[i] = told[i] /\ (i > Len(feed') <=> i > Len(feed))
        BY <1>1, <1>3, <2>1, <2>3
      <3>2. i <= Len(feed) => feed'[i] = feed[i]
        BY <1>1, <2>1
      <3>3. ~(i > Len(feed)) <=> i <= Len(feed)
        BY <1>1, <2>1
      <3> QED  BY <3>1, <3>2, <3>3 DEF ToldMatchesFeed
    <2> QED  BY <2>2, <2>3
  <1> QED  BY <1>1, <1>2, <1>3, <1>4 DEF TypeOK, ToldMatchesFeed

LEMMA NextTypes ==
    ASSUME TypeOK, ToldMatchesFeed, [Next]_vars
    PROVE  TypeOK' /\ ToldMatchesFeed'
  <1> USE DEF TypeOK
  <1>1. ASSUME NEW d \in Dialogs, StoreText(d) PROVE TypeOK' /\ ToldMatchesFeed'
    BY <1>1, ToldStore DEF StoreText
  <1>2. ASSUME NEW d \in Dialogs, StoreReply(d) PROVE TypeOK' /\ ToldMatchesFeed'
    BY <1>2, ToldStore DEF StoreReply
  <1>3. ASSUME NEW i \in Ids, Publish(i) PROVE TypeOK' /\ ToldMatchesFeed'
    <2>1. told' \in [Ids -> Told] /\ told'[i] \in {"queued", "fetch"}
          /\ \A k \in Ids : k # i => told'[k] = told[k]
      BY <1>3 DEF Publish, Told
    <2>2. queue' \in [Conns -> Seq(Ids)]
      BY <1>3 DEF Publish
    <2>3. ToldMatchesFeed'
      BY <1>3, <2>1, ToldStep DEF Publish, channelVars
    <2> QED  BY <1>3, <2>1, <2>2, <2>3 DEF Publish, channelVars, ChannelTypeOK
  <1>4. ASSUME NEW i \in Ids, FetchRows(i) PROVE TypeOK' /\ ToldMatchesFeed'
    <2>1. told' \in [Ids -> Told] /\ told'[i] \in {"push", "done"}
          /\ \A k \in Ids : k # i => told'[k] = told[k]
      BY <1>4 DEF FetchRows, Told
    <2>2. untried' \in [Ids -> SUBSET Devices]
          /\ \A k \in Ids : told'[k] # "push" => untried'[k] = {}
      BY <1>4 DEF FetchRows, Told
    <2>3. ToldMatchesFeed'
      BY <1>4, <2>1, ToldStep DEF FetchRows, channelVars
    <2> QED  BY <1>4, <2>1, <2>2, <2>3 DEF FetchRows, channelVars, ChannelTypeOK
  <1>5. ASSUME NEW i \in Ids, NEW d \in Devices, SendPush(i, d)
        PROVE  TypeOK' /\ ToldMatchesFeed'
    <2>1. told' \in [Ids -> Told] /\ told'[i] \in {"push", "done"}
          /\ \A k \in Ids : k # i => told'[k] = told[k]
      BY <1>5 DEF SendPush, AfterPush, Told
    <2>2. untried' \in [Ids -> SUBSET Devices]
          /\ \A k \in Ids : told'[k] # "push" => untried'[k] = {}
      BY <1>5 DEF SendPush, AfterPush, Told
    <2>3. ToldMatchesFeed'
      BY <1>5, <2>1, ToldStep DEF SendPush, channelVars
    <2> QED  BY <1>5, <2>1, <2>2, <2>3 DEF SendPush, channelVars, ChannelTypeOK
  <1>6. ASSUME NEW i \in Ids, NotifyFails(i) PROVE TypeOK' /\ ToldMatchesFeed'
    <2>1. told' \in [Ids -> Told] /\ told'[i] = "lost"
          /\ \A k \in Ids : k # i => told'[k] = told[k]
      BY <1>6 DEF NotifyFails, Told
    <2>2. untried' \in [Ids -> SUBSET Devices]
          /\ \A k \in Ids : told'[k] # "push" => untried'[k] = {}
      BY <1>6 DEF NotifyFails, Told
    <2>3. ToldMatchesFeed'
      BY <1>6, <2>1, ToldStep DEF NotifyFails, channelVars
    <2> QED  BY <1>6, <2>1, <2>2, <2>3 DEF NotifyFails, channelVars, ChannelTypeOK
  <1>7. ASSUME NEW d \in Devices, SaveSubscription(d) \/ DropSubscription(d)
        PROVE  TypeOK' /\ ToldMatchesFeed'
    BY <1>7 DEF SaveSubscription, DropSubscription, channelVars, ChannelTypeOK,
       ToldMatchesFeed
  <1>8. ASSUME NEW c \in Conns, Connect(c) PROVE TypeOK' /\ ToldMatchesFeed'
    BY <1>8 DEF Connect, ConnState, channelVars, ChannelTypeOK, ToldMatchesFeed
  <1>9. ASSUME BreakLink PROVE TypeOK' /\ ToldMatchesFeed'
    BY <1>9 DEF BreakLink, channelVars, ChannelTypeOK, ToldMatchesFeed
  <1>10. ASSUME NEW c \in Conns, Greet(c) PROVE TypeOK' /\ ToldMatchesFeed'
    BY <1>10 DEF Greet, ConnState, channelVars, ChannelTypeOK, ToldMatchesFeed
  <1>11. ASSUME NEW c \in Conns, PumpDelivers(c) PROVE TypeOK' /\ ToldMatchesFeed'
    <2>1. Head(queue[c]) \in Ids /\ Tail(queue[c]) \in Seq(Ids)
      BY <1>11, QueueType DEF PumpDelivers
    <2> QED  BY <1>11, <2>1 DEF PumpDelivers, ChannelTypeOK, ToldMatchesFeed
  <1>12. ASSUME NEW c \in Conns, PumpLoses(c) PROVE TypeOK' /\ ToldMatchesFeed'
    <2>1. Head(queue[c]) \in Ids /\ Tail(queue[c]) \in Seq(Ids)
      BY <1>12, QueueType DEF PumpLoses
    <2>2. conn' \in [Conns -> ConnState] /\ queue' \in [Conns -> Seq(Ids)]
      BY <1>12, <2>1 DEF PumpLoses, ConnState
    <2>3. swallowed' \subseteq Ids
      BY <1>12, <2>1 DEF PumpLoses
    <2> QED  BY <1>12, <2>2, <2>3 DEF PumpLoses, channelVars, ChannelTypeOK,
             ToldMatchesFeed
  <1>13. ASSUME NEW c \in Conns, Disconnect(c) PROVE TypeOK' /\ ToldMatchesFeed'
    <2>1. Range(queue[c]) \subseteq Ids
      BY RangeOfSeq
    <2>2. conn' \in [Conns -> ConnState]
      BY <1>13 DEF Disconnect, ConnState
    <2>4. <<>> \in Seq(Ids)
      OBVIOUS
    <2>5. queue' \in [Conns -> Seq(Ids)]
      BY <1>13, <2>4 DEF Disconnect
    <2>3. swallowed' \subseteq Ids
      BY <1>13, <2>1 DEF Disconnect
    <2> QED  BY <1>13, <2>2, <2>3, <2>5 DEF Disconnect, channelVars, ChannelTypeOK,
             ToldMatchesFeed
  <1>14. ASSUME Restart PROVE TypeOK' /\ ToldMatchesFeed'
    <2>1. told' \in [Ids -> Told]
          /\ \A k \in Ids : \/ told'[k] = told[k]
                            \/ told[k] \notin {"none", "quiet"} /\ told'[k] = "lost"
      BY <1>14 DEF Restart, Told
    <2>2. \A c \in Conns : Range(queue[c]) \subseteq Ids
      BY RangeOfSeq
    <2>3. swallowed' \subseteq Ids
      BY <1>14, <2>2 DEF Restart
    <2>4. ToldMatchesFeed'
      BY <1>14, <2>1, ToldStep DEF Restart, channelVars
    <2> QED  BY <1>14, <2>1, <2>3, <2>4 DEF Restart, ConnState, channelVars, ChannelTypeOK
  <1>15. ASSUME UNCHANGED vars PROVE TypeOK' /\ ToldMatchesFeed'
    BY <1>15 DEF vars, busVars, channelVars, ChannelTypeOK, ToldMatchesFeed
  <1> QED  BY <1>1, <1>2, <1>3, <1>4, <1>5, <1>6, <1>7, <1>8, <1>9, <1>10, <1>11,
           <1>12, <1>13, <1>14, <1>15 DEF Next, Notify, Pump, Handler, Outside
-----------------------------------------------------------------------------
(* The way of an event from publish to the dashboard.                      *)

OnItsWay == QueuedOnce /\ ArrivedLeftItsQueue /\ AcceptedIsSomewhere

\* A step that neither moves nor accepts an event.
LEMMA Aside ==
    ASSUME OnItsWay, UNCHANGED <<queue, arrived, socket, conn, swallowed>>,
           \A i \in Ids : told'[i] = "queued" <=> told[i] = "queued",
           Range(arrived) \subseteq Ids, \A c \in Conns : Range(queue[c]) \subseteq Ids
    PROVE  OnItsWay'
  BY DEF OnItsWay, QueuedOnce, ArrivedLeftItsQueue, AcceptedIsSomewhere, InQueue,
     Subscribers

LEMMA Ranges ==
    ASSUME TypeOK
    PROVE  Range(arrived) \subseteq Ids /\ \A c \in Conns : Range(queue[c]) \subseteq Ids
  BY RangeOfSeq DEF TypeOK, ChannelTypeOK

LEMMA PublishOnItsWay ==
    ASSUME TypeOK, OnItsWay, NEW i \in Ids, Publish(i)
    PROVE  OnItsWay'
  <1>1. \A c \in Conns :
            /\ queue[c] \in Seq(Ids) /\ Distinct(queue[c])
            /\ i \notin Range(queue[c]) /\ i \notin Range(arrived)
    BY DEF Publish, TypeOK, OnItsWay, QueuedOnce, ArrivedLeftItsQueue, Distinct
  <1>2. \A c \in Takers : queue'[c] = Append(queue[c], i)
                         /\ Range(queue'[c]) = Range(queue[c]) \cup {i}
    BY <1>1, RangeAppend DEF Publish, Takers, Subscribers
  <1>3. \A c \in Conns \ Takers : queue'[c] = queue[c]
    BY DEF Publish
  <1>4. \A k \in Ids : k # i => told'[k] = told[k]
    BY DEF Publish, TypeOK
  <1>5. Takers # {} => told'[i] = "queued"
    BY DEF Publish, TypeOK, Delivered
  <1>6. Takers = {} => told'[i] # "queued"
    BY DEF Publish, TypeOK, Delivered
  <1>7. ASSUME NEW c \in Conns PROVE Distinct(queue'[c])
    <2>1. CASE c \in Takers
      <3>1. queue[c] \in Seq(Ids) /\ Distinct(queue[c]) /\ i \notin Range(queue[c])
        BY <1>1
      <3>2. Distinct(Append(queue[c], i))
        BY <3>1, DistinctAppend
      <3> QED  BY <1>2, <2>1, <3>2
    <2>2. CASE c \notin Takers
      BY <1>1, <1>3, <2>2
    <2> QED  BY <2>1, <2>2
  <1>8. \A c \in Conns : \A k \in Range(queue'[c]) : told'[k] = "queued"
    BY <1>2, <1>3, <1>4, <1>5, <1>1, Ranges DEF OnItsWay, QueuedOnce
  <1>9. ArrivedLeftItsQueue'
    BY <1>1, <1>2, <1>3, <1>4, Ranges DEF OnItsWay, ArrivedLeftItsQueue, Publish, channelVars
  <1>10. \A c \in Conns : Range(queue[c]) \subseteq Range(queue'[c])
    BY <1>2, <1>3
  <1>11. Subscribers' = Subscribers /\ swallowed' = swallowed /\ arrived' = arrived
    BY DEF Publish, Subscribers, channelVars
  <1>12. ASSUME NEW k \in Ids, told'[k] = "queued"
         PROVE  k \in Range(arrived') \cup swallowed' \/ InQueue(k)'
    <2>1. CASE k = i
      <3>1. PICK c \in Takers : TRUE
        BY <1>6, <1>12, <2>1
      <3> QED  BY <1>2, <1>11, <2>1, <3>1 DEF InQueue, Takers
    <2>2. CASE k # i
      <3>1. k \in Range(arrived) \cup swallowed \/ InQueue(k)
        BY <1>4, <1>12, <2>2 DEF OnItsWay, AcceptedIsSomewhere
      <3>2. InQueue(k) => InQueue(k)'
        BY <1>10, <1>11 DEF InQueue, Subscribers
      <3> QED  BY <1>11, <3>1, <3>2
    <2> QED  BY <2>1, <2>2
  <1> QED  BY <1>7, <1>8, <1>9, <1>12 DEF OnItsWay, QueuedOnce, Distinct, AcceptedIsSomewhere

\* A new socket has an empty queue.
LEMMA ConnectOnItsWay ==
    ASSUME TypeOK, OnItsWay, NEW c \in Conns, Connect(c)
    PROVE  OnItsWay'
  <1>1. queue'[c] = <<>> /\ \A b \in Conns : b # c => queue'[b] = queue[b]
    BY DEF Connect, TypeOK
  <1>2. Range(queue'[c]) = {} /\ Distinct(queue'[c])
    BY <1>1, RangeEmpty
  <1>3. QueuedOnce'
    BY <1>1, <1>2 DEF Connect, OnItsWay, QueuedOnce, Distinct
  <1>4. ArrivedLeftItsQueue'
    BY <1>1, <1>2, NullIsNoConn DEF Connect, OnItsWay, ArrivedLeftItsQueue, channelVars
  <1>5. \A i : InQueue(i) => InQueue(i)'
    <2>1. c \notin Subscribers /\ \A b \in Subscribers : b \in Subscribers' /\ b # c
      BY DEF Connect, Subscribers, TypeOK
    <2> QED  BY <1>1, <2>1 DEF InQueue, Subscribers
  <1>6. AcceptedIsSomewhere'
    BY <1>5 DEF Connect, OnItsWay, AcceptedIsSomewhere, channelVars
  <1> QED  BY <1>3, <1>4, <1>6 DEF OnItsWay

\* The pump takes the head of a queue: it has arrived, or is lost.
LEMMA PumpOnItsWay ==
    ASSUME TypeOK, OnItsWay, NEW c \in Conns, Pump(c)
    PROVE  OnItsWay'
  <1> DEFINE h == Head(queue[c])
  <1>1. queue[c] # <<>> /\ queue' = [queue EXCEPT ![c] = Tail(@)] /\ told' = told
    BY DEF Pump, PumpDelivers, PumpLoses
  <1>2. queue'[c] = Tail(queue[c]) /\ \A b \in Conns : b # c => queue'[b] = queue[b]
    BY <1>1 DEF TypeOK
  <1>3. /\ h \in Ids /\ h \in Range(queue[c])
        /\ Range(queue[c]) = {h} \cup Range(queue'[c])
    BY <1>1, <1>2, QueueType
  <1>4. Distinct(queue[c]) /\ queue[c] \in Seq(Ids)
    BY DEF OnItsWay, QueuedOnce, Distinct, TypeOK
  <1>5. Distinct(queue'[c]) /\ h \notin Range(queue'[c])
    BY <1>1, <1>2, <1>4, RangeTail
  <1>6. QueuedOnce'
    <2>1. \A b \in Conns : Distinct(queue'[b]) /\ Range(queue'[b]) \subseteq Range(queue[b])
      BY <1>2, <1>3, <1>5 DEF OnItsWay, QueuedOnce, Distinct
    <2> QED  BY <1>1, <2>1 DEF OnItsWay, QueuedOnce, Distinct
  <1>7. \A b \in Subscribers : b \in Subscribers'
    BY DEF Pump, PumpDelivers, PumpLoses, Subscribers, TypeOK
  <1>8. \A i : InQueue(i) => i = h \/ InQueue(i)'
    BY <1>2, <1>3, <1>7 DEF InQueue, Subscribers
  <1>9. CASE PumpDelivers(c)
    <2>1. Range(arrived') = Range(arrived) \cup {h} /\ swallowed' = swallowed
      BY <1>3, <1>9, RangeAppend DEF PumpDelivers, TypeOK, ChannelTypeOK
    <2>2. socket = c /\ socket' = c
      BY <1>9 DEF PumpDelivers, Current
    <2>3. ArrivedLeftItsQueue'
      <3>1. \A i \in Range(arrived') : told'[i] = "queued"
        BY <1>1, <1>3, <2>1 DEF OnItsWay, QueuedOnce, ArrivedLeftItsQueue
      <3>2. Range(queue'[c]) \cap Range(arrived') = {}
        BY <1>3, <1>5, <2>1, <2>2 DEF OnItsWay, ArrivedLeftItsQueue
      <3> QED  BY <2>2, <3>1, <3>2 DEF ArrivedLeftItsQueue
    <2>4. AcceptedIsSomewhere'
      BY <1>1, <1>8, <2>1 DEF OnItsWay, AcceptedIsSomewhere
    <2> QED  BY <1>6, <2>3, <2>4 DEF OnItsWay
  <1>10. CASE PumpLoses(c)
    <2>1. arrived' = arrived /\ swallowed' = swallowed \cup {h} /\ socket' = socket
      BY <1>10 DEF PumpLoses, channelVars
    <2>2. ArrivedLeftItsQueue'
      BY <1>1, <1>2, <1>3, <2>1 DEF OnItsWay, ArrivedLeftItsQueue
    <2>3. AcceptedIsSomewhere'
      BY <1>1, <1>8, <2>1 DEF OnItsWay, AcceptedIsSomewhere
    <2> QED  BY <1>6, <2>2, <2>3 DEF OnItsWay
  <1> QED  BY <1>9, <1>10 DEF Pump

\* Links break, handlers begin and end: a queue stays, or its events are lost.
LEMMA SocketOnItsWay ==
    ASSUME TypeOK, OnItsWay,
           BreakLink \/ Restart \/ \E c \in Conns : Handler(c)
    PROVE  OnItsWay'
  <1>1. /\ told' = told \/ Restart
        /\ arrived' = arrived /\ (socket' = socket \/ socket' = Null)
    BY DEF BreakLink, Restart, Handler, Greet, Disconnect, channelVars
  <1>2. \A i \in Ids : told'[i] = "queued" <=> told[i] = "queued"
    BY <1>1 DEF Restart, TypeOK
  <1>3. \A b \in Conns : queue'[b] = queue[b] \/ queue'[b] = <<>>
    BY DEF BreakLink, Restart, Handler, Greet, Disconnect, TypeOK
  <1>4. QueuedOnce'
    <2>1. \A b \in Conns : Distinct(queue'[b]) /\ Range(queue'[b]) \subseteq Range(queue[b])
      BY <1>3, RangeEmpty DEF OnItsWay, QueuedOnce, Distinct
    <2> QED  BY <1>2, <2>1, Ranges DEF OnItsWay, QueuedOnce, Distinct
  <1>5. ArrivedLeftItsQueue'
    BY <1>1, <1>2, <1>3, RangeEmpty, Ranges, NullIsNoConn DEF OnItsWay, ArrivedLeftItsQueue
  <1>6. swallowed \subseteq swallowed'
    BY DEF BreakLink, Restart, Handler, Greet, Disconnect
  <1>7. \A i : InQueue(i) => i \in swallowed' \/ InQueue(i)'
    <2> SUFFICES ASSUME NEW i, NEW b \in Subscribers, i \in Range(queue[b])
                 PROVE  i \in swallowed' \/ InQueue(i)'
      BY DEF InQueue
    <2>1. b \in Conns
      BY DEF Subscribers
    <2>2. CASE BreakLink
      BY <2>2 DEF BreakLink, InQueue, Subscribers
    <2>3. CASE Restart
      BY <2>1, <2>3 DEF Restart
    <2>4. CASE \E c \in Conns : Greet(c)
      <3>1. b \in Subscribers' /\ queue' = queue
        BY <2>1, <2>4 DEF Greet, Subscribers, TypeOK
      <3> QED  BY <3>1 DEF InQueue, Subscribers
    <2>5. ASSUME NEW c \in Conns, Disconnect(c) PROVE i \in swallowed' \/ InQueue(i)'
      <3>1. CASE b = c /\ conn[c] = "serve"
        BY <2>5, <3>1 DEF Disconnect
      <3>2. CASE ~(b = c /\ conn[c] = "serve")
        <4>1. b \in Subscribers' /\ queue'[b] = queue[b]
          BY <2>1, <2>5, <3>2 DEF Disconnect, Subscribers, TypeOK
        <4> QED  BY <4>1 DEF InQueue, Subscribers
      <3> QED  BY <3>1, <3>2
    <2> QED  BY <2>2, <2>3, <2>4, <2>5 DEF Handler
  <1>8. AcceptedIsSomewhere'
    BY <1>1, <1>2, <1>6, <1>7 DEF OnItsWay, AcceptedIsSomewhere
  <1> QED  BY <1>4, <1>5, <1>8 DEF OnItsWay

LEMMA NextOnItsWay ==
    ASSUME TypeOK, ToldMatchesFeed, OnItsWay, [Next]_vars
    PROVE  OnItsWay'
  <1>1. Range(arrived) \subseteq Ids /\ \A c \in Conns : Range(queue[c]) \subseteq Ids
    BY Ranges
  <1>2. ASSUME NEW d \in Dialogs, StoreText(d) \/ StoreReply(d) PROVE OnItsWay'
    <2>1. \A i \in Ids : told'[i] = "queued" <=> told[i] = "queued"
      BY <1>2, ToldStore DEF StoreText, StoreReply, TypeOK
    <2> QED  BY <1>1, <1>2, <2>1, Aside DEF StoreText, StoreReply, Store
  <1>3. ASSUME NEW i \in Ids, FetchRows(i) \/ NotifyFails(i) \/ \E d \in Devices : SendPush(i, d)
        PROVE  OnItsWay'
    <2>1. \A k \in Ids : told'[k] = "queued" <=> told[k] = "queued"
      BY <1>3 DEF FetchRows, NotifyFails, SendPush, AfterPush, TypeOK
    <2> QED  BY <1>1, <1>3, <2>1, Aside DEF FetchRows, NotifyFails, SendPush, channelVars
  <1>4. ASSUME NEW d \in Devices, SaveSubscription(d) \/ DropSubscription(d) PROVE OnItsWay'
    BY <1>1, <1>4, Aside DEF SaveSubscription, DropSubscription, channelVars
  <1>5. CASE UNCHANGED vars
    BY <1>1, <1>5, Aside DEF vars, busVars, channelVars
  <1> QED  BY <1>2, <1>3, <1>4, <1>5, PublishOnItsWay, ConnectOnItsWay, PumpOnItsWay,
           SocketOnItsWay DEF Next, Notify, Outside

-----------------------------------------------------------------------------
IInv == TypeOK /\ ToldMatchesFeed /\ OnItsWay

LEMMA InitInv == Init => IInv
  <1> SUFFICES ASSUME Init PROVE OnItsWay
    BY InitTypes DEF IInv
  <1>1. Range(arrived) = {} /\ \A c \in Conns : Range(queue[c]) = {} /\ Distinct(queue[c])
    BY RangeEmpty DEF Init, ChannelInit
  <1>2. \A i \in Ids : told[i] = "none"
    BY DEF Init
  <1> QED  BY <1>1, <1>2 DEF OnItsWay, QueuedOnce, ArrivedLeftItsQueue,
           AcceptedIsSomewhere, Distinct

\* The inductive invariant is one.
LEMMA IInvCorrect == Spec => []IInv
  <1>1. IInv /\ [Next]_vars => IInv'
    BY NextTypes, NextOnItsWay DEF IInv
  <1> QED  BY <1>1, InitInv, PTL DEF Spec

\* Rows, tasks, queues and sockets keep their types (all the code of Bus).
THEOREM TypeCorrect == Spec => []TypeOK
  <1>1. IInv => TypeOK
    BY DEF IInv
  <1> QED  BY <1>1, IInvCorrect, PTL

\* What publish has counted as delivered is in a queue of the bus, has arrived,
\* or was taken for a broken link (bus.py publish, ws.py pump and finally).
THEOREM AcceptedIsSomewhereCorrect == Spec => []AcceptedIsSomewhere
  <1>1. IInv => AcceptedIsSomewhere
    BY DEF IInv, OnItsWay
  <1> QED  BY <1>1, IInvCorrect, PTL

\* What the server does is a step of the channel, or none.
LEMMA ServerKeepsChannel ==
    ASSUME IInv, [Next]_vars
    PROVE  [ChannelNext]_channelVars
  <1>1. ASSUME NEW d \in Dialogs, StoreText(d) \/ StoreReply(d) PROVE ChannelNext
    BY <1>1 DEF StoreText, StoreReply, ChannelNext
  <1>2. ASSUME NEW c \in Conns, PumpDelivers(c) PROVE ChannelNext
    <2> DEFINE i == Head(queue[c])
    <2>1. i \in Ids /\ i \in Range(queue[c])
      <3>1. TypeOK /\ queue[c] # <<>>
        BY <1>2 DEF IInv, PumpDelivers
      <3> QED  BY <3>1, QueueType
    <2>2. told[i] = "queued" /\ i \notin Range(arrived)
      BY <1>2, <2>1 DEF PumpDelivers, Current, IInv, OnItsWay, QueuedOnce,
         ArrivedLeftItsQueue
    <2>3. i \in 1..Len(feed) /\ feed[i].from = "user"
      BY <2>1, <2>2 DEF IInv, ToldMatchesFeed, TypeOK, ChannelTypeOK, Ids
    <2> QED  BY <1>2, <2>1, <2>2, <2>3 DEF PumpDelivers, ChannelNext, Arrive
  <1>3. ASSUME \/ \E i \in Ids : Notify(i)
               \/ \E c \in Conns : PumpLoses(c) \/ Handler(c)
               \/ Outside \/ UNCHANGED vars
        PROVE  UNCHANGED channelVars
    BY <1>3 DEF Notify, Publish, FetchRows, SendPush, PumpLoses, Handler, Greet,
       Disconnect, Outside, NotifyFails, SaveSubscription, DropSubscription,
       Connect, BreakLink, Restart, vars
  <1> QED  BY <1>1, <1>2, <1>3 DEF Next, Pump

\* The dashboard gets each text of a user at most once, and only once it is
\* stored, over any number of reconnections (bus.py, ws.py, useSocket.ts).
THEOREM ImplementsChannelCorrect == Spec => ImplementsChannel
  <1>1. Init => ChannelInit
    BY DEF Init
  <1> QED  BY <1>1, ServerKeepsChannel, IInvCorrect, PTL DEF Spec, ImplementsChannel, ChannelSpec
=============================================================================

------------------------------ MODULE ChatProofs ------------------------------
(***************************************************************************)
(* The thread of the dashboard shows no message twice and no bubble whose  *)
(* send has ended, for any number of dialogs, messages and calls in        *)
(* progress; and the types of the run that checks both halves of the way   *)
(* to the operator.                                                        *)
(***************************************************************************)
EXTENDS MCLive, BusProofs, FiniteSetTheorems

Bubbles == {Bubble(j) : j \in Jobs}

Rows == 1..Len(feed)

-----------------------------------------------------------------------------
(* Sequences and bubbles.                                                  *)

\* The bubble of a call is no id of a message, and no bubble of another call.
LEMMA BubblesAreNoIds ==
    /\ \A j \in Jobs : /\ Bubble(j) \in Int /\ Bubble(j) < 0 /\ Bubble(j) \in Bubbles
                       /\ \A n \in Nat : Bubble(j) \notin 1..n /\ Bubble(j) # n
    /\ \A j, k \in Jobs : Bubble(j) = Bubble(k) => j = k
  BY JobsAssumption DEF Bubble, Bubbles

\* What a sequence contains is of its kind.
LEMMA ContainedIsIn ==
    ASSUME NEW S, NEW q \in Seq(S), NEW e, Contains(q, e)
    PROVE  e \in S
  BY DEF Contains

\* A sequence of rows stays one when rows are added.
LEMMA SeqOfMore ==
    ASSUME NEW S, NEW T, S \subseteq T, NEW q \in Seq(S)
    PROVE  q \in Seq(T)
  OBVIOUS

\* A function on an interval from one is a sequence.
LEMMA IntervalSeq ==
    ASSUME NEW S, NEW n \in Nat, NEW f \in [1..n -> S]
    PROVE  f \in Seq(S) /\ Len(f) = n
  OBVIOUS

\* A new element at the end stands there once.
LEMMA AppendNew ==
    ASSUME NEW S, NEW q \in Seq(S), NEW x \in S, IsInjective(q), ~Contains(q, x)
    PROVE  /\ Append(q, x) \in Seq(S) /\ IsInjective(Append(q, x))
           /\ \A e : Contains(Append(q, x), e) => Contains(q, e) \/ e = x
  <1>1. /\ Append(q, x) \in Seq(S) /\ Len(Append(q, x)) = Len(q) + 1 /\ Len(q) \in Nat
        /\ \A n \in 1..Len(q) : Append(q, x)[n] = q[n]
        /\ Append(q, x)[Len(q) + 1] = x
        /\ DOMAIN q = 1..Len(q) /\ DOMAIN Append(q, x) = 1..(Len(q) + 1)
    OBVIOUS
  <1>2. IsInjective(Append(q, x))
    <2> SUFFICES ASSUME NEW a \in 1..(Len(q) + 1), NEW b \in 1..(Len(q) + 1),
                        Append(q, x)[a] = Append(q, x)[b]
                 PROVE  a = b
      BY <1>1 DEF IsInjective
    <2>1. CASE a \in 1..Len(q) /\ b \in 1..Len(q)
      BY <1>1, <2>1 DEF IsInjective
    <2>2. CASE a \notin 1..Len(q) \/ b \notin 1..Len(q)
      BY <1>1, <2>2 DEF Contains
    <2> QED  BY <2>1, <2>2
  <1>3. ASSUME NEW e, Contains(Append(q, x), e) PROVE Contains(q, e) \/ e = x
    <2>1. PICK n \in 1..(Len(q) + 1) : Append(q, x)[n] = e
      BY <1>1, <1>3 DEF Contains
    <2>2. CASE n \in 1..Len(q)
      BY <1>1, <2>1, <2>2 DEF Contains
    <2>3. CASE n = Len(q) + 1
      BY <1>1, <2>1, <2>3
    <2> QED  BY <1>1, <2>2, <2>3
  <1> QED  BY <1>1, <1>2, <1>3

\* The numbers of a finite set in their order are a sequence without repetition.
LEMMA InOrderIsSequence ==
    ASSUME NEW n \in Nat, NEW S \in SUBSET (1..n), NEW f \in InOrder(S)
    PROVE  /\ f \in Seq(S) /\ IsInjective(f)
           /\ DOMAIN f = 1..Cardinality(S) /\ Cardinality(S) \in Nat
           /\ f \in [1..Cardinality(S) -> S]
  <1>1. IsFiniteSet(1..n)
    BY FS_Interval
  <1>2. Cardinality(S) \in Nat
    BY <1>1, FS_Subset, FS_CardinalityType
  <1>3. f \in [1..Cardinality(S) -> S]
    BY DEF InOrder
  <1>4. f \in Seq(S)
    BY <1>2, <1>3
  <1>5. \A x \in S : x \in Nat
    OBVIOUS
  <1>6. IsInjective(f)
    <2> SUFFICES ASSUME NEW a \in 1..Cardinality(S), NEW b \in 1..Cardinality(S), a # b
                 PROVE  f[a] # f[b]
      BY <1>3 DEF IsInjective
    <2>1. f[a] \in Nat /\ f[b] \in Nat /\ a \in Nat /\ b \in Nat
      <3>1. f[a] \in S /\ f[b] \in S
        BY <1>3
      <3>2. f[a] \in Nat /\ f[b] \in Nat
        BY <3>1, <1>5
      <3>3. a \in Nat /\ b \in Nat
        BY <1>2
      <3> QED  BY <3>2, <3>3
    <2>2. a < b \/ b < a
      BY <2>1
    <2>3. f[a] < f[b] \/ f[b] < f[a]
      BY <1>3, <2>2 DEF InOrder
    <2> QED  BY <2>1, <2>3
  <1> QED  BY <1>2, <1>3, <1>4, <1>6

\* Leaving elements out of a sequence repeats none.
LEMMA KeepSome ==
    ASSUME NEW S, NEW q \in Seq(S), IsInjective(q), NEW K \in SUBSET (DOMAIN q),
           NEW kept \in InOrder(K), NEW r, r = [n \in DOMAIN kept |-> q[kept[n]]]
    PROVE  /\ r \in Seq(S) /\ IsInjective(r)
           /\ \A e : Contains(r, e) => \E i \in K : q[i] = e
  <1>1. DOMAIN q = 1..Len(q) /\ Len(q) \in Nat
    OBVIOUS
  <1>2. /\ kept \in [1..Cardinality(K) -> K] /\ IsInjective(kept)
        /\ DOMAIN kept = 1..Cardinality(K) /\ Cardinality(K) \in Nat
    BY <1>1, InOrderIsSequence
  <1>3. /\ DOMAIN r = 1..Cardinality(K)
        /\ \A n \in 1..Cardinality(K) : r[n] = q[kept[n]] /\ kept[n] \in K /\ r[n] \in S
    BY <1>1, <1>2
  <1>4. r \in [1..Cardinality(K) -> S]
    BY <1>2, <1>3
  <1>5. r \in Seq(S) /\ Len(r) = Cardinality(K)
    BY <1>2, <1>4, IntervalSeq
  <1>6. IsInjective(r)
    <2> SUFFICES ASSUME NEW a \in 1..Cardinality(K), NEW b \in 1..Cardinality(K),
                        r[a] = r[b]
                 PROVE  a = b
      BY <1>3 DEF IsInjective
    <2>1. q[kept[a]] = q[kept[b]] /\ kept[a] \in DOMAIN q /\ kept[b] \in DOMAIN q
      BY <1>3
    <2>2. kept[a] = kept[b]
      BY <2>1 DEF IsInjective
    <2> QED  BY <1>2, <2>2 DEF IsInjective
  <1>7. ASSUME NEW e, Contains(r, e) PROVE \E i \in K : q[i] = e
    BY <1>3, <1>5, <1>7 DEF Contains
  <1> QED  BY <1>5, <1>6, <1>7

-----------------------------------------------------------------------------
(* What the steps of a call keep.                                          *)

\* Rows are only added.
Grown == /\ Len(feed) <= Len(feed')
         /\ \A i \in 1..Len(feed) : feed'[i] = feed[i]

\* A state of a call: it is for a dialog, and what it has from the server is stored.
WellCalled(v) ==
    /\ v.mounted => active \in Dialogs
    /\ v.at # "idle" => v.dialog \in Dialogs
    /\ v.data \in Seq(1..Len(feed')) /\ IsInjective(v.data)
    /\ v.reply # 0 => v.reply \in 1..Len(feed') /\ feed'[v.reply].from = "operator"

\* The thread has rows only, or nothing more than it had but the bubble of the
\* call, which is then to take it away.
ShownBy(j, v) ==
    thread' # Null =>
        /\ active \in Dialogs
        /\ thread' \in Seq((1..Len(feed')) \cup Bubbles) /\ IsInjective(thread')
        /\ \/ \A e : Contains(thread', e) => e \in 1..Len(feed')
           \/ /\ thread # Null
              /\ \A e : Contains(thread', e) => Contains(thread, e) \/ e = Bubble(j)
        /\ Contains(thread', Bubble(j)) =>
               v.mounted /\ v.send /\ v.at # "idle" /\ ~Contains(thread', v.reply)

\* A call ends up as v, where rows may have been added and the thread is as it
\* was, apart from elements taken away, or the bubble of the call; or it has rows
\* only.
LEMMA CallMoves ==
    ASSUME ChannelTypeOK, ChannelTypeOK', Grown, ThreadInv,
           active' = active, incoming' = incoming, pending' = pending,
           NEW j \in Jobs, NEW v \in Job, job' = [job EXCEPT ![j] = v],
           WellCalled(v), ShownBy(j, v)
    PROVE  ThreadInv'
  <1> USE DEF WellCalled, ShownBy
  <1>1. job' \in [Jobs -> Job] /\ job'[j] = v /\ \A k \in Jobs : k # j => job'[k] = job[k]
    BY DEF ThreadInv
  <1>2. Len(feed) \in Nat /\ Len(feed') \in Nat /\ 1..Len(feed) \subseteq 1..Len(feed')
    BY DEF ChannelTypeOK, Grown
  <1>3. active' \in Dialogs \cup {Null} /\ pending' \in BOOLEAN
    BY DEF ThreadInv
  <1>4. DialogsAreOpen'
    BY <1>1 DEF ThreadInv, DialogsAreOpen
  <1>5. StoredFirst'
    <2>1. thread' # Null => thread' \in Seq((1..Len(feed')) \cup {Bubble(k) : k \in Jobs})
      BY DEF Bubbles
    <2>2. \A k \in Jobs : job'[k].data \in Seq(1..Len(feed')) /\ IsInjective(job'[k].data)
      <3> TAKE k \in Jobs
      <3>1. CASE k = j
        BY <1>1, <3>1
      <3>2. CASE k # j
        <4>1. job[k].data \in Seq(1..Len(feed)) /\ IsInjective(job[k].data)
          BY DEF ThreadInv, StoredFirst
        <4>2. job[k].data \in Seq(1..Len(feed'))
          BY <1>2, <4>1, SeqOfMore
        <4> QED  BY <1>1, <3>2, <4>1, <4>2
      <3> QED  BY <3>1, <3>2
    <2>3. \A k \in Jobs : job'[k].reply # 0 =>
             job'[k].reply \in 1..Len(feed') /\ feed'[job'[k].reply].from = "operator"
      BY <1>1, <1>2 DEF ThreadInv, StoredFirst, Grown
    <2>4. /\ pending' => incoming' # 0
          /\ incoming' # 0 => incoming' \in 1..Len(feed') /\ feed'[incoming'].from = "user"
      BY <1>2 DEF ThreadInv, StoredFirst, Grown
    <2> QED  BY <2>1, <2>2, <2>3, <2>4 DEF StoredFirst
  <1>6. ASSUME thread' # Null, NEW k \in Jobs, k # j, Contains(thread', Bubble(k))
        PROVE  thread # Null /\ Contains(thread, Bubble(k))
    BY <1>2, <1>6, BubblesAreNoIds
  <1>7. BubblesAreMounted' /\ NoGhostBubble'
    BY <1>1, <1>6 DEF ThreadInv, BubblesAreMounted, NoGhostBubble
  <1>8. NothingShownTwice'
    <2> SUFFICES ASSUME thread' # Null
                 PROVE  \A k \in Jobs : ~(/\ Contains(thread', Bubble(k))
                                          /\ Contains(thread', job'[k].reply))
      BY DEF NothingShownTwice
    <2> TAKE k \in Jobs
    <2>1. CASE k = j
      BY <1>1, <2>1
    <2>2. CASE k # j
      <3> SUFFICES ASSUME Contains(thread', Bubble(k)), Contains(thread', job[k].reply)
                   PROVE  FALSE
        BY <1>1, <2>2
      <3>1. thread # Null /\ Contains(thread, Bubble(k))
        BY <1>6, <2>2
      <3>2. Bubble(k) \notin 1..Len(feed')
        BY <1>2, BubblesAreNoIds
      <3>3. Contains(thread, job[k].reply) \/ job[k].reply = Bubble(j)
        BY <3>2
      <3>4. job[k].reply \in Nat
        BY DEF ThreadInv, Job
      <3>5. Contains(thread, job[k].reply)
        BY <3>3, <3>4, BubblesAreNoIds
      <3> QED  BY <3>1, <3>5 DEF ThreadInv, NothingShownTwice
    <2> QED  BY <2>1, <2>2
  <1> QED  BY <1>1, <1>3, <1>4, <1>5, <1>7, <1>8 DEF ThreadInv

\* The thread is dropped, or gets a text of a user that it does not contain.
MoreIsShown ==
    thread' # Null =>
        /\ thread # Null
        /\ thread' \in Seq((1..Len(feed')) \cup Bubbles) /\ IsInjective(thread')
        /\ \A e : Contains(thread', e) =>
              Contains(thread, e) \/ (e \in 1..Len(feed') /\ feed'[e].from = "user")

\* An announced message was stored.
IncomingIsStored ==
    /\ pending \in BOOLEAN /\ (pending => incoming # 0)
    /\ incoming # 0 => incoming \in 1..Len(feed) /\ feed[incoming].from = "user"

\* The thread and the calls stay as they are while a row is added, or the thread
\* is dropped, or gets a message it does not contain.
LEMMA CallsStay ==
    ASSUME ChannelTypeOK, ChannelTypeOK', Grown, ThreadInv, job' = job, active' = active,
           IncomingIsStored', MoreIsShown
    PROVE  ThreadInv'
  <1>1. Len(feed) \in Nat /\ Len(feed') \in Nat /\ 1..Len(feed) \subseteq 1..Len(feed')
    BY DEF ChannelTypeOK, Grown
  <1> USE DEF MoreIsShown, IncomingIsStored
  <1>2. active' \in Dialogs \cup {Null} /\ job' \in [Jobs -> Job]
    BY DEF ThreadInv
  <1>3. DialogsAreOpen'
    BY DEF ThreadInv, DialogsAreOpen
  <1>4. StoredFirst'
    <2>1. thread' # Null => thread' \in Seq((1..Len(feed')) \cup {Bubble(k) : k \in Jobs})
      BY DEF Bubbles
    <2>2. \A k \in Jobs : job'[k].data \in Seq(1..Len(feed')) /\ IsInjective(job'[k].data)
      BY <1>1, SeqOfMore DEF ThreadInv, StoredFirst
    <2>3. \A k \in Jobs : job'[k].reply # 0 =>
             job'[k].reply \in 1..Len(feed') /\ feed'[job'[k].reply].from = "operator"
      BY <1>1 DEF ThreadInv, StoredFirst, Grown
    <2> QED  BY <2>1, <2>2, <2>3 DEF StoredFirst
  <1>5. ASSUME thread' # Null, NEW k \in Jobs, Contains(thread', Bubble(k))
        PROVE  thread # Null /\ Contains(thread, Bubble(k))
    BY <1>1, <1>5, BubblesAreNoIds
  <1>6. BubblesAreMounted' /\ NoGhostBubble'
    BY <1>5 DEF ThreadInv, BubblesAreMounted, NoGhostBubble
  <1>7. NothingShownTwice'
    <2> SUFFICES ASSUME thread' # Null, NEW k \in Jobs, Contains(thread', Bubble(k)),
                        Contains(thread', job[k].reply)
                 PROVE  FALSE
      BY DEF NothingShownTwice
    <2>1. thread # Null /\ Contains(thread, Bubble(k))
      BY <1>5
    <2>2. ~Contains(thread, job[k].reply)
      BY <2>1 DEF ThreadInv, NothingShownTwice
    <2>3. job[k].reply \in 1..Len(feed') /\ feed'[job[k].reply].from = "user"
      BY <2>2
    <2>4. job[k].reply # 0
      BY <2>3, <1>1
    <2>5. feed'[job[k].reply].from = "operator"
      BY <2>4, <1>1 DEF ThreadInv, StoredFirst, Grown
    <2> QED  BY <2>3, <2>5
  <1> QED  BY <1>2, <1>3, <1>4, <1>6, <1>7 DEF ThreadInv

-----------------------------------------------------------------------------
(* The steps.                                                              *)

\* What a stored row leaves.
LEMMA StoreGrows ==
    ASSUME ChannelTypeOK, NEW d \in Dialogs, NEW sender \in {"user", "operator"},
           Store(d, sender)
    PROVE  /\ ChannelTypeOK' /\ Grown /\ Len(feed') = Len(feed) + 1 /\ Len(feed) \in Nat
           /\ feed'[Len(feed) + 1].from = sender
  BY StoreType DEF Grown, ChannelTypeOK

LEMMA QuietChannel ==
    ASSUME ChannelTypeOK, UNCHANGED channelVars
    PROVE  ChannelTypeOK' /\ Grown
  BY DEF ChannelTypeOK, channelVars, Grown, Ids

\* The thread as the invariant has it.
LEMMA ThreadShape ==
    ASSUME ThreadInv, thread # Null
    PROVE  /\ active \in Dialogs
           /\ thread \in Seq((1..Len(feed)) \cup Bubbles) /\ IsInjective(thread)
  BY DEF ThreadInv, StoredFirst, DialogsAreOpen, NothingShownTwice, Bubbles

LEMMA IncomingStep ==
    ASSUME ChannelTypeOK, ThreadInv, NEW d \in Dialogs, Incoming(d)
    PROVE  ChannelTypeOK' /\ ThreadInv'
  <1>1. /\ ChannelTypeOK' /\ Grown /\ UNCHANGED chatVars /\ Len(feed) \in Nat
        /\ Len(feed') = Len(feed) + 1
    BY StoreGrows DEF Incoming
  <1>2. thread # Null => thread \in Seq((1..Len(feed')) \cup Bubbles)
    BY <1>1, ThreadShape, SeqOfMore, (1..Len(feed)) \cup Bubbles \subseteq (1..Len(feed')) \cup Bubbles
  <1>3. IncomingIsStored'
    BY <1>1 DEF ThreadInv, StoredFirst, Grown, chatVars, IncomingIsStored
  <1>4. MoreIsShown
    BY <1>1, <1>2, ThreadShape DEF MoreIsShown, chatVars
  <1>5. job' = job /\ active' = active
    BY <1>1 DEF chatVars
  <1> QED  BY <1>1, <1>3, <1>4, <1>5, CallsStay

LEMMA ReceiveStep ==
    ASSUME ChannelTypeOK, ThreadInv, NEW i \in Ids, Receive(i)
    PROVE  ChannelTypeOK' /\ ThreadInv'
  <1>1. /\ ChannelTypeOK' /\ Grown /\ Len(feed) \in Nat /\ feed' = feed
        /\ i \in 1..Len(feed) /\ feed[i].from = "user"
    BY DEF Receive, Arrive, ChannelTypeOK, Grown
  <1>2. /\ thread' = thread /\ job' = job /\ active' = active
        /\ incoming' = i /\ pending' = TRUE
    BY DEF Receive
  <1>3. IncomingIsStored' /\ i \in Nat \ {0}
    BY <1>1, <1>2 DEF IncomingIsStored
  <1>4. MoreIsShown
    BY <1>1, <1>2, ThreadShape DEF MoreIsShown
  <1> QED  BY <1>1, <1>2, <1>3, <1>4, CallsStay

LEMMA RenderStep ==
    ASSUME ChannelTypeOK, ThreadInv, Render
    PROVE  ChannelTypeOK' /\ ThreadInv'
  <1>1. /\ ChannelTypeOK' /\ Grown /\ feed' = feed
        /\ incoming' = incoming /\ job' = job /\ active' = active /\ pending' = FALSE
    BY QuietChannel DEF Render, channelVars
  <1>2. incoming \in 1..Len(feed) /\ feed[incoming].from = "user"
    BY DEF Render, ThreadInv, StoredFirst
  <1>5. IncomingIsStored'
    BY <1>1, <1>2 DEF IncomingIsStored
  <1>3. CASE thread' = thread
    <2>1. MoreIsShown
      BY <1>1, <1>3, ThreadShape DEF MoreIsShown
    <2> QED  BY <1>1, <1>5, <2>1, CallsStay
  <1>4. CASE thread' # thread
    <2>1. /\ thread # Null /\ ~Contains(thread, incoming)
          /\ thread' = Append(thread, incoming)
      BY <1>4 DEF Render, WithIncoming
    <2>2. /\ thread' \in Seq((1..Len(feed)) \cup Bubbles) /\ IsInjective(thread')
          /\ \A e : Contains(thread', e) => Contains(thread, e) \/ e = incoming
      <3>1. /\ thread \in Seq((1..Len(feed)) \cup Bubbles) /\ IsInjective(thread)
            /\ incoming \in (1..Len(feed)) \cup Bubbles
        BY <1>2, <2>1, ThreadShape
      <3> QED  BY <2>1, <3>1, AppendNew, Zenon
    <2>3. MoreIsShown
      BY <1>1, <1>2, <2>1, <2>2 DEF MoreIsShown
    <2> QED  BY <1>1, <1>5, <2>3, CallsStay
  <1> QED  BY <1>3, <1>4

\* Without a thread nothing is shown.
LEMMA ThreadDropped ==
    ASSUME ChannelTypeOK, ThreadInv, UNCHANGED <<channelVars, incoming>>,
           thread' = Null, pending' = FALSE, job' \in [Jobs -> Job],
           active' \in Dialogs \cup {Null},
           \A k \in Jobs : /\ job'[k].mounted => active' \in Dialogs
                           /\ job'[k].at # "idle" => job'[k].dialog \in Dialogs
                           /\ \/ job'[k].data = <<>> /\ job'[k].reply = 0
                              \/ job'[k].data = job[k].data /\ job'[k].reply = job[k].reply
    PROVE  ChannelTypeOK' /\ ThreadInv'
  <1>1. ChannelTypeOK' /\ feed' = feed /\ incoming' = incoming
    BY QuietChannel DEF channelVars
  <1>2. <<>> \in Seq(1..Len(feed)) /\ IsInjective(<<>>)
    BY DEF IsInjective
  <1>3. StoredFirst'
    BY <1>1, <1>2 DEF ThreadInv, StoredFirst
  <1> QED  BY <1>1, <1>3 DEF ThreadInv, DialogsAreOpen, BubblesAreMounted, NoGhostBubble,
     NothingShownTwice

\* The values a call starts and ends with.
LEMMA Calls ==
    ASSUME NEW d \in Dialogs
    PROVE  /\ Idle \in Job /\ Load(d) \in Job /\ Sending(d) \in Job
           /\ [Load(d) EXCEPT !.at = "ask"] \in Job
  <1>1. <<>> \in Seq(Nat)
    OBVIOUS
  <1>2. Idle \in Job
    BY <1>1 DEF Idle, Job
  <1>3. Load(d) \in Job
    BY <1>2 DEF Load, Job
  <1>4. Sending(d) \in Job /\ [Load(d) EXCEPT !.at = "ask"] \in Job
    BY <1>3 DEF Sending, Job
  <1> QED  BY <1>2, <1>3, <1>4

LEMMA OpenStep ==
    ASSUME ChannelTypeOK, ThreadInv, NEW d \in Dialogs, NEW j \in Jobs, Open(d, j)
    PROVE  ChannelTypeOK' /\ ThreadInv'
  <1>1. /\ job' \in [Jobs -> Job] /\ job'[j] = Load(d)
        /\ \A k \in Jobs : k # j => job'[k] = job[k]
    BY Calls DEF Open, ThreadInv
  <1>2. /\ Load(d).dialog = d /\ Load(d).data = <<>> /\ Load(d).reply = 0
    BY DEF Load, Idle
  <1> QED  BY <1>1, <1>2, ThreadDropped DEF Open, ThreadInv, DialogsAreOpen

LEMMA LeaveStep ==
    ASSUME ChannelTypeOK, ThreadInv, Leave
    PROVE  ChannelTypeOK' /\ ThreadInv'
  <1>1. /\ job' \in [Jobs -> Job]
        /\ \A k \in Jobs : /\ job'[k].mounted = FALSE /\ job'[k].at = job[k].at
                            /\ job'[k].dialog = job[k].dialog
                            /\ job'[k].data = job[k].data /\ job'[k].reply = job[k].reply
    <2>1. /\ \A k \in Jobs : job[k] \in Job
          /\ job' = [k \in Jobs |-> [job[k] EXCEPT !.mounted = FALSE]]
      BY DEF Leave, ThreadInv
    <2>2. ASSUME NEW x \in Job
          PROVE  LET y == [x EXCEPT !.mounted = FALSE] IN
                 /\ y \in Job /\ y.mounted = FALSE /\ y.at = x.at
                 /\ y.dialog = x.dialog /\ y.data = x.data /\ y.reply = x.reply
      BY <2>2 DEF Job
    <2> QED  BY <2>1, <2>2
  <1> QED  BY <1>1, ThreadDropped DEF Leave, ThreadInv, DialogsAreOpen

\* What the invariant says of a call.
LEMMA CallShape ==
    ASSUME ChannelTypeOK, ThreadInv, NEW j \in Jobs
    PROVE  /\ job[j] \in Job
           /\ job[j].mounted => active \in Dialogs
           /\ job[j].at # "idle" => job[j].dialog \in Dialogs
           /\ job[j].data \in Seq(1..Len(feed)) /\ IsInjective(job[j].data)
           /\ job[j].reply # 0 =>
                 job[j].reply \in 1..Len(feed) /\ feed[job[j].reply].from = "operator"
           /\ thread # Null /\ Contains(thread, Bubble(j)) =>
                 /\ job[j].mounted /\ job[j].send /\ job[j].at # "idle"
                 /\ ~Contains(thread, job[j].reply)
  BY DEF ThreadInv, DialogsAreOpen, StoredFirst, BubblesAreMounted, NoGhostBubble,
     NothingShownTwice

\* Calls that wait for nothing, or have just begun.
LEMMA CallsBegin ==
    ASSUME NEW d
    PROVE  /\ Idle.at = "idle" /\ ~Idle.mounted /\ Idle.data = <<>> /\ Idle.reply = 0
           /\ Load(d).dialog = d /\ Load(d).data = <<>> /\ Load(d).reply = 0
           /\ Sending(d).mounted /\ Sending(d).send /\ Sending(d).at = "post"
           /\ Sending(d).dialog = d /\ Sending(d).data = <<>> /\ Sending(d).reply = 0
           /\ IsInjective(<<>>) /\ \A n : <<>> \in Seq(1..n)
  <1>1. IsInjective(<<>>) /\ \A n : <<>> \in Seq(1..n)
    BY DEF IsInjective
  <1> QED  BY <1>1 DEF Idle, Load, Sending

LEMMA TakeOrCloseStep ==
    ASSUME ChannelTypeOK, ThreadInv, NEW j \in Jobs, TakeOrClose(j)
    PROVE  ChannelTypeOK' /\ ThreadInv'
  <1> DEFINE v == [Load(active) EXCEPT !.at = "ask"]
  <1>1. /\ ChannelTypeOK' /\ Grown /\ feed' = feed /\ thread' = thread
        /\ active' = active /\ incoming' = incoming /\ pending' = pending
        /\ job' = [job EXCEPT ![j] = v] /\ thread # Null /\ job[j].at = "idle"
    BY QuietChannel DEF TakeOrClose, Free, channelVars
  <1>2. active \in Dialogs
    BY <1>1, ThreadShape
  <1>3. v \in Job /\ v.dialog = active /\ v.data = <<>> /\ v.reply = 0
    BY <1>2, Calls DEF Load, Idle
  <1>4. WellCalled(v)
    <2> HIDE DEF v
    <2> QED  BY <1>2, <1>3, CallsBegin DEF WellCalled
  <1>5. ShownBy(j, v)
    <2> HIDE DEF v
    <2>1. ~Contains(thread, Bubble(j))
      BY <1>1, CallShape
    <2> QED  BY <1>1, <2>1, ThreadShape DEF ShownBy
  <1> HIDE DEF v
  <1> QED  BY <1>1, <1>3, <1>4, <1>5, CallMoves

LEMMA TakenStep ==
    ASSUME ChannelTypeOK, ThreadInv, NEW j \in Jobs, Taken(j)
    PROVE  ChannelTypeOK' /\ ThreadInv'
  <1> DEFINE v == [job[j] EXCEPT !.at = "get"]
  <1>1. /\ ChannelTypeOK' /\ Grown /\ feed' = feed /\ thread' = thread
        /\ active' = active /\ incoming' = incoming /\ pending' = pending
        /\ job' = [job EXCEPT ![j] = v] /\ job[j].at = "ask"
    BY QuietChannel DEF Taken, channelVars
  <1>2. /\ v \in Job /\ v.at = "get" /\ v.dialog = job[j].dialog /\ v.data = job[j].data
        /\ v.reply = job[j].reply /\ v.mounted = job[j].mounted /\ v.send = job[j].send
    BY CallShape DEF Job
  <1> HIDE DEF v
  <1>3. WellCalled(v)
    BY <1>1, <1>2, CallShape DEF WellCalled
  <1>4. ShownBy(j, v)
    BY <1>1, <1>2, CallShape, ThreadShape DEF ShownBy
  <1> QED  BY <1>1, <1>2, <1>3, <1>4, CallMoves

\* The reply is stored, and is a new row.
LEMMA PostReplyStep ==
    ASSUME ChannelTypeOK, ThreadInv, NEW j \in Jobs, PostReply(j)
    PROVE  ChannelTypeOK' /\ ThreadInv'
  <1> DEFINE v == [job[j] EXCEPT !.at = "get", !.reply = Len(feed) + 1]
  <1>1. /\ thread' = thread /\ job[j].at = "post"
        /\ active' = active /\ incoming' = incoming /\ pending' = pending
        /\ job' = [job EXCEPT ![j] = v] /\ Store(job[j].dialog, "operator")
    BY DEF PostReply
  <1>2. /\ ChannelTypeOK' /\ Grown /\ Len(feed') = Len(feed) + 1 /\ Len(feed) \in Nat
        /\ feed'[Len(feed) + 1].from = "operator"
    <2>1. job[j].dialog \in Dialogs
      BY <1>1, CallShape
    <2> QED  BY <1>1, <2>1, StoreGrows
  <1>3. /\ v \in Job /\ v.at = "get" /\ v.dialog = job[j].dialog /\ v.data = job[j].data
        /\ v.reply = Len(feed) + 1 /\ v.mounted = job[j].mounted /\ v.send = job[j].send
    <2>1. job[j] \in Job /\ Len(feed) + 1 \in Nat
      BY <1>2, CallShape
    <2> HIDE <1>1, <1>2
    <2> QED  BY <2>1 DEF Job
  <1> HIDE DEF v
  <1>4. WellCalled(v)
    <2>1. v.data \in Seq(1..Len(feed'))
      BY <1>2, <1>3, CallShape, SeqOfMore, 1..Len(feed) \subseteq 1..Len(feed')
    <2> QED  BY <1>1, <1>2, <1>3, <2>1, CallShape DEF WellCalled
  <1>5. ShownBy(j, v)
    <2> SUFFICES ASSUME thread # Null PROVE ShownBy(j, v)
      BY <1>1 DEF ShownBy
    <2>1. thread \in Seq((1..Len(feed)) \cup Bubbles)
      BY ThreadShape
    <2>2. thread \in Seq((1..Len(feed')) \cup Bubbles)
      BY <1>2, <2>1, SeqOfMore,
         (1..Len(feed)) \cup Bubbles \subseteq (1..Len(feed')) \cup Bubbles
    <2>3. ~Contains(thread, v.reply)
      <3> SUFFICES ASSUME Contains(thread, Len(feed) + 1) PROVE FALSE
        BY <1>3
      <3>1. Len(feed) + 1 \in (1..Len(feed)) \cup Bubbles
        BY <2>1, ContainedIsIn
      <3> QED  BY <1>2, <3>1, BubblesAreNoIds DEF Bubbles
    <2> QED  BY <1>1, <1>3, <2>2, <2>3, CallShape, ThreadShape DEF ShownBy
  <1> QED  BY <1>1, <1>2, <1>3, <1>4, <1>5, CallMoves

\* A bubble is new: the last one of the call is gone.
LEMMA SendStep ==
    ASSUME ChannelTypeOK, ThreadInv, NEW j \in Jobs, Send(j)
    PROVE  ChannelTypeOK' /\ ThreadInv'
  <1> DEFINE v == Sending(active)
  <1>1. /\ ChannelTypeOK' /\ Grown /\ feed' = feed /\ thread' = Append(thread, Bubble(j))
        /\ active' = active /\ incoming' = incoming /\ pending' = pending
        /\ job' = [job EXCEPT ![j] = v] /\ thread # Null /\ job[j].at = "idle"
    BY QuietChannel DEF Send, Free, channelVars
  <1>2. active \in Dialogs
    BY <1>1, ThreadShape
  <1>3. /\ v \in Job /\ v.dialog = active /\ v.data = <<>> /\ v.reply = 0
        /\ v.mounted /\ v.send /\ v.at = "post"
    BY <1>2, Calls, CallsBegin
  <1> HIDE DEF v
  <1>4. WellCalled(v)
    BY <1>2, <1>3, CallsBegin DEF WellCalled
  <1>5. ShownBy(j, v)
    <2>1. /\ thread \in Seq((1..Len(feed)) \cup Bubbles) /\ IsInjective(thread)
          /\ Bubble(j) \in (1..Len(feed)) \cup Bubbles
      BY <1>1, ThreadShape, BubblesAreNoIds
    <2>2. ~Contains(thread, Bubble(j))
      BY <1>1, CallShape
    <2>3. /\ thread' \in Seq((1..Len(feed)) \cup Bubbles) /\ IsInjective(thread')
          /\ \A e : Contains(thread', e) => Contains(thread, e) \/ e = Bubble(j)
      BY <1>1, <2>1, <2>2, AppendNew, ZenonT(30)
    <2>4. ~Contains(thread', 0)
      <3> SUFFICES ASSUME Contains(thread', 0) PROVE FALSE
        OBVIOUS
      <3>1. 0 \in (1..Len(feed)) \cup Bubbles
        BY <2>3, ContainedIsIn
      <3> QED  BY <3>1, BubblesAreNoIds DEF Bubbles
    <2> QED  BY <1>1, <1>2, <1>3, <2>3, <2>4 DEF ShownBy
  <1> QED  BY <1>1, <1>3, <1>4, <1>5, CallMoves

\* The rows of a dialog are ids, and an answer has none of them twice.
LEMMA ListedRows ==
    ASSUME ChannelTypeOK, NEW d, NEW data \in Listed(d)
    PROVE  data \in Seq(1..Len(feed)) /\ IsInjective(data) /\ data \in Seq(Nat)
  <1>1. Len(feed) \in Nat
    BY DEF ChannelTypeOK
  <1> DEFINE rows == Limited(RowsOf(d))
  <1>2. rows \in SUBSET (1..Len(feed)) /\ data \in InOrder(rows)
    BY DEF Limited, RowsOf, Listed
  <1> HIDE DEF rows
  <1>3. data \in Seq(rows) /\ IsInjective(data)
    BY <1>1, <1>2, InOrderIsSequence
  <1>4. rows \subseteq Nat
    BY <1>1, <1>2
  <1> QED  BY <1>2, <1>3, <1>4, SeqOfMore

LEMMA GetMessagesStep ==
    ASSUME ChannelTypeOK, ThreadInv, NEW j \in Jobs, GetMessages(j)
    PROVE  ChannelTypeOK' /\ ThreadInv'
  <1>1. /\ ChannelTypeOK' /\ Grown /\ feed' = feed /\ thread' = thread
        /\ active' = active /\ incoming' = incoming /\ pending' = pending
        /\ job[j].at = "get"
    BY QuietChannel DEF GetMessages, channelVars
  <1>2. PICK data \in Listed(job[j].dialog) :
           job' = [job EXCEPT ![j].at = "got", ![j].data = data]
    BY DEF GetMessages
  <1> DEFINE v == [job[j] EXCEPT !.at = "got", !.data = data]
  <1>3. job' = [job EXCEPT ![j] = v]
    BY <1>2
  <1>4. data \in Seq(1..Len(feed)) /\ IsInjective(data) /\ data \in Seq(Nat)
    BY ListedRows
  <1>5. /\ v \in Job /\ v.at = "got" /\ v.dialog = job[j].dialog /\ v.data = data
        /\ v.reply = job[j].reply /\ v.mounted = job[j].mounted /\ v.send = job[j].send
    BY <1>4, CallShape DEF Job
  <1> HIDE DEF v
  <1>6. WellCalled(v)
    BY <1>1, <1>4, <1>5, CallShape DEF WellCalled
  <1>7. ShownBy(j, v)
    BY <1>1, <1>5, CallShape, ThreadShape DEF ShownBy
  <1> QED  BY <1>1, <1>3, <1>5, <1>6, <1>7, CallMoves

\* An answer takes all bubbles away; a call that finds no Chat had none.
LEMMA SetThreadStep ==
    ASSUME ChannelTypeOK, ThreadInv, NEW j \in Jobs, SetThread(j)
    PROVE  ChannelTypeOK' /\ ThreadInv'
  <1>1. /\ ChannelTypeOK' /\ Grown /\ feed' = feed
        /\ active' = active /\ incoming' = incoming /\ pending' = pending
        /\ job' = [job EXCEPT ![j] = Idle]
        /\ thread' = IF job[j].mounted THEN job[j].data ELSE thread
    BY QuietChannel DEF SetThread, channelVars
  <1>2. Idle \in Job
    <2>1. <<>> \in Seq(Nat)
      OBVIOUS
    <2> QED  BY <2>1 DEF Idle, Job
  <1>3. WellCalled(Idle)
    BY CallsBegin DEF WellCalled
  <1>4. ShownBy(j, Idle)
    <2>1. CASE job[j].mounted
      <3>1. /\ active \in Dialogs /\ thread' \in Seq(1..Len(feed)) /\ IsInjective(thread')
        BY <1>1, <2>1, CallShape
      <3>2. thread' \in Seq((1..Len(feed')) \cup Bubbles)
        <4>1. 1..Len(feed') \subseteq (1..Len(feed')) \cup Bubbles
          OBVIOUS
        <4>2. thread' \in Seq(1..Len(feed'))
          BY <1>1, <3>1
        <4> QED  BY <4>1, <4>2, SeqOfMore
      <3>3. \A e : Contains(thread', e) => e \in 1..Len(feed')
        BY <1>1, <3>1, ContainedIsIn
      <3>4. ~Contains(thread', Bubble(j))
        BY <1>1, <3>3, BubblesAreNoIds DEF ChannelTypeOK
      <3> QED  BY <3>1, <3>2, <3>3, <3>4 DEF ShownBy
    <2>2. CASE ~job[j].mounted
      <3>1. thread' = thread /\ (thread # Null => ~Contains(thread, Bubble(j)))
        BY <1>1, <2>2, CallShape
      <3> QED  BY <1>1, <3>1, ThreadShape DEF ShownBy
    <2> QED  BY <2>1, <2>2
  <1> QED  BY <1>1, <1>2, <1>3, <1>4, CallMoves

\* A call that fails takes its bubble away, whether or not the reply was stored.
LEMMA RequestFailsStep ==
    ASSUME ChannelTypeOK, ThreadInv, NEW j \in Jobs, RequestFails(j)
    PROVE  ChannelTypeOK' /\ ThreadInv'
  <1>1. /\ active' = active /\ incoming' = incoming /\ pending' = pending
        /\ job' = [job EXCEPT ![j] = Idle] /\ thread' \in RolledBack(j)
        /\ job[j].at # "idle"
    BY DEF RequestFails, Free
  <1>2. ChannelTypeOK' /\ Grown
    <2>1. CASE UNCHANGED channelVars
      BY <2>1, QuietChannel
    <2>2. CASE Store(job[j].dialog, "operator")
      <3>1. job[j].dialog \in Dialogs
        BY <1>1, CallShape
      <3> QED  BY <2>2, <3>1, StoreGrows
    <2> QED  BY <2>1, <2>2 DEF RequestFails
  <1>3. /\ 1..Len(feed) \subseteq 1..Len(feed')
        /\ (1..Len(feed)) \cup Bubbles \subseteq (1..Len(feed')) \cup Bubbles
    BY <1>2 DEF Grown, ChannelTypeOK
  <1>4. Idle \in Job
    <2>1. <<>> \in Seq(Nat)
      OBVIOUS
    <2> QED  BY <2>1 DEF Idle, Job
  <1>5. WellCalled(Idle)
    BY CallsBegin DEF WellCalled
  <1>6. ShownBy(j, Idle)
    <2>1. CASE job[j].send /\ job[j].mounted /\ thread # Null
      <3> DEFINE K == {i \in DOMAIN thread : thread[i] # Bubble(j)}
      <3>1. PICK kept \in InOrder(K) : thread' = [n \in DOMAIN kept |-> thread[kept[n]]]
        BY <1>1, <2>1 DEF RolledBack
      <3>2. K \in SUBSET (DOMAIN thread) /\ \A i \in K : thread[i] # Bubble(j) /\ i \in DOMAIN thread
        OBVIOUS
      <3> HIDE DEF K
      <3>3. /\ active \in Dialogs
            /\ thread \in Seq((1..Len(feed)) \cup Bubbles) /\ IsInjective(thread)
        BY <2>1, ThreadShape
      <3>4. /\ thread' \in Seq((1..Len(feed)) \cup Bubbles) /\ IsInjective(thread')
            /\ \A e : Contains(thread', e) => \E i \in K : thread[i] = e
        BY <3>1, <3>2, <3>3, KeepSome
      <3>5. thread' \in Seq((1..Len(feed')) \cup Bubbles)
        BY <1>3, <3>4, SeqOfMore
      <3>6. ~Contains(thread', Bubble(j))
        BY <3>2, <3>4
      <3>7. \A e : Contains(thread', e) => Contains(thread, e)
        <4> SUFFICES ASSUME NEW e, Contains(thread', e) PROVE Contains(thread, e)
          OBVIOUS
        <4>1. PICK i \in K : thread[i] = e
          BY <3>4
        <4>2. i \in 1..Len(thread)
          BY <3>2, <3>3
        <4> QED  BY <4>1, <4>2 DEF Contains
      <3> QED  BY <2>1, <3>3, <3>4, <3>5, <3>6, <3>7 DEF ShownBy
    <2>2. CASE ~(job[j].send /\ job[j].mounted /\ thread # Null)
      <3>1. thread' = thread /\ (thread # Null => ~Contains(thread, Bubble(j)))
        BY <1>1, <2>2, CallShape DEF RolledBack
      <3>2. thread # Null => thread \in Seq((1..Len(feed')) \cup Bubbles)
        BY <1>3, ThreadShape, SeqOfMore
      <3> QED  BY <3>1, <3>2, ThreadShape DEF ShownBy
    <2> QED  BY <2>1, <2>2
  <1> QED  BY <1>1, <1>2, <1>4, <1>5, <1>6, CallMoves

-----------------------------------------------------------------------------
(* The thread.                                                             *)

LEMMA ThreadInit == ChatInit => ChannelTypeOK /\ ThreadInv
  <1> SUFFICES ASSUME ChatInit PROVE ChannelTypeOK /\ ThreadInv
    OBVIOUS
  <1>1. Idle \in Job
    <2>1. <<>> \in Seq(Nat)
      OBVIOUS
    <2> QED  BY <2>1 DEF Idle, Job
  <1>2. /\ thread = Null /\ active = Null /\ pending = FALSE /\ incoming = 0
        /\ job \in [Jobs -> Job] /\ \A j \in Jobs : job[j] = Idle
    BY <1>1 DEF ChatInit
  <1>3. ChannelTypeOK
    BY MaxAssumption DEF ChatInit, ChannelInit, ChannelTypeOK
  <1>4. DialogsAreOpen /\ StoredFirst
    <2>1. \A j \in Jobs : /\ job[j].at = "idle" /\ ~job[j].mounted /\ job[j].reply = 0
                          /\ job[j].data = <<>>
      BY <1>2, CallsBegin
    <2>2. IsInjective(<<>>) /\ <<>> \in Seq(1..Len(feed))
      BY CallsBegin
    <2>3. DialogsAreOpen
      BY <1>2, <2>1 DEF DialogsAreOpen
    <2> QED  BY <1>2, <2>1, <2>2, <2>3 DEF StoredFirst
  <1>5. BubblesAreMounted /\ NoGhostBubble /\ NothingShownTwice
    BY <1>2 DEF BubblesAreMounted, NoGhostBubble, NothingShownTwice
  <1> QED  BY <1>2, <1>3, <1>4, <1>5 DEF ThreadInv

LEMMA ThreadStep ==
    ASSUME ChannelTypeOK, ThreadInv, [ChatNext]_allVars
    PROVE  ChannelTypeOK' /\ ThreadInv'
  <1>1. CASE UNCHANGED allVars
    BY <1>1 DEF allVars, channelVars, chatVars, ChannelTypeOK, ThreadInv, DialogsAreOpen,
       StoredFirst, BubblesAreMounted, NoGhostBubble, NothingShownTwice
  <1>2. ASSUME NEW d \in Dialogs, Incoming(d) PROVE ChannelTypeOK' /\ ThreadInv'
    BY <1>2, IncomingStep
  <1>3. ASSUME NEW i \in Ids, Receive(i) PROVE ChannelTypeOK' /\ ThreadInv'
    BY <1>3, ReceiveStep
  <1>4. CASE Render \/ Leave
    BY <1>4, RenderStep, LeaveStep
  <1>5. ASSUME NEW j \in Jobs, NEW d \in Dialogs, Open(d, j)
        PROVE  ChannelTypeOK' /\ ThreadInv'
    BY <1>5, OpenStep
  <1>6. ASSUME NEW j \in Jobs, TakeOrClose(j) \/ Taken(j) \/ Send(j)
        PROVE  ChannelTypeOK' /\ ThreadInv'
    BY <1>6, TakeOrCloseStep, TakenStep, SendStep
  <1>7. ASSUME NEW j \in Jobs,
               PostReply(j) \/ GetMessages(j) \/ SetThread(j) \/ RequestFails(j)
        PROVE  ChannelTypeOK' /\ ThreadInv'
    BY <1>7, PostReplyStep, GetMessagesStep, SetThreadStep, RequestFailsStep
  <1> QED  BY <1>1, <1>2, <1>3, <1>4, <1>5, <1>6, <1>7 DEF ChatNext

LEMMA ThreadInvCorrect == ChatSpec => [](ChannelTypeOK /\ ThreadInv)
  BY ThreadInit, ThreadStep, PTL DEF ChatSpec

\* Whatever order the answers of loads and the events of the socket come in, the
\* operator sees a message once, and no reply beside its own bubble (Chat.tsx).
THEOREM NothingShownTwiceCorrect == ChatSpec => []NothingShownTwice
  <1>1. ChannelTypeOK /\ ThreadInv => NothingShownTwice
    BY DEF ThreadInv
  <1> QED  BY <1>1, ThreadInvCorrect, PTL

\* A bubble that is shown belongs to a send that has not ended: catch of send takes
\* it away on failure, the load that follows on success (Chat.tsx).
THEOREM NoGhostBubbleCorrect == ChatSpec => []NoGhostBubble
  <1>1. ChannelTypeOK /\ ThreadInv => NoGhostBubble
    BY DEF ThreadInv
  <1> QED  BY <1>1, ThreadInvCorrect, PTL

-----------------------------------------------------------------------------
(* Both halves.                                                            *)

\* What a sequence with the elements of S ranges over.
LEMMA RangeIn ==
    ASSUME NEW S, NEW q \in Seq(S)
    PROVE  Range(q) \subseteq S
  BY DEF Range

\* The invariant of the thread has the types of the run.
LEMMA ThreadTypes == ChannelTypeOK /\ ThreadInv => ChatTypeOK
  <1> SUFFICES ASSUME ChannelTypeOK, ThreadInv PROVE ChatTypeOK
    OBVIOUS
  <1>1. Len(feed) \in Nat /\ 1..Len(feed) \subseteq Ids
    BY MaxAssumption DEF ChannelTypeOK, Ids
  <1>2. thread # Null => Range(thread) \subseteq Ids \cup {Bubble(j) : j \in Jobs}
    <2>1. thread # Null => Range(thread) \subseteq (1..Len(feed)) \cup Bubbles
      BY ThreadShape, RangeIn
    <2> QED  BY <1>1, <2>1 DEF Bubbles
  <1>3. incoming \in Ids \cup {0} /\ active \in Dialogs \cup {Null} /\ pending \in BOOLEAN
    BY <1>1 DEF ThreadInv, StoredFirst
  <1>4. ASSUME NEW j \in Jobs
        PROVE  job[j].reply \in 0..Len(feed) /\ Range(job[j].data) \subseteq Ids
    <2>1. Range(job[j].data) \subseteq 1..Len(feed)
      BY CallShape, RangeIn
    <2> QED  BY <1>1, <2>1, CallShape
  <1> QED  BY <1>2, <1>3, <1>4 DEF ChatTypeOK

\* The server adds rows, which changes nothing that Chat relies on.
LEMMA ServerStep ==
    ASSUME IInv, ThreadInv, Next, UNCHANGED chatVars
    PROVE  IInv' /\ ThreadInv'
  <1>1. IInv'
    BY NextTypes, NextOnItsWay DEF IInv
  <1>2. ChannelTypeOK /\ ChannelTypeOK'
    BY <1>1 DEF IInv, TypeOK
  <1>3. Grown
    <2>1. (\E d \in Dialogs : StoreText(d) \/ StoreReply(d)) \/ feed' = feed
      BY DEF Next, Notify, Publish, FetchRows, SendPush, Pump, PumpDelivers, PumpLoses,
         Handler, Greet, Disconnect, Outside, NotifyFails, SaveSubscription,
         DropSubscription, Connect, BreakLink, Restart, channelVars
    <2>2. CASE feed' = feed
      BY <1>2, <2>2 DEF Grown, ChannelTypeOK
    <2>3. CASE \E d \in Dialogs : StoreText(d) \/ StoreReply(d)
      BY <1>2, <2>3, StoreGrows DEF StoreText, StoreReply
    <2> QED  BY <2>1, <2>2, <2>3
  <1>4. /\ job' = job /\ active' = active /\ thread' = thread /\ incoming' = incoming
        /\ pending' = pending
    BY DEF chatVars
  <1>5. Len(feed) \in Nat /\ Len(feed') \in Nat /\ 1..Len(feed) \subseteq 1..Len(feed')
    BY <1>2, <1>3 DEF ChannelTypeOK, Grown
  <1>6. IncomingIsStored'
    BY <1>3, <1>4, <1>5 DEF ThreadInv, StoredFirst, Grown, IncomingIsStored
  <1>7. MoreIsShown
    <2>1. thread # Null => thread \in Seq((1..Len(feed')) \cup Bubbles)
      BY <1>5, ThreadShape, SeqOfMore,
         (1..Len(feed)) \cup Bubbles \subseteq (1..Len(feed')) \cup Bubbles
    <2> QED  BY <1>4, <2>1, ThreadShape DEF MoreIsShown
  <1> QED  BY <1>1, <1>2, <1>3, <1>4, <1>6, <1>7, CallsStay

\* What the browser does is a step of the channel, or none.
LEMMA BrowserKeepsChannel ==
    ASSUME ChannelTypeOK, ThreadInv, [ChatNext]_allVars
    PROVE  [ChannelNext]_channelVars
  <1>1. ASSUME NEW d \in Dialogs, NEW sender \in {"user", "operator"}, Store(d, sender)
        PROVE  ChannelNext
    BY <1>1 DEF ChannelNext
  <1>2. ASSUME NEW d \in Dialogs, Incoming(d) PROVE ChannelNext
    BY <1>1, <1>2 DEF Incoming
  <1>3. ASSUME NEW i \in Ids, Receive(i) PROVE ChannelNext
    BY <1>3 DEF Receive, ChannelNext
  <1>4. ASSUME NEW j \in Jobs, job[j].at = "post", Store(job[j].dialog, "operator")
        PROVE  ChannelNext
    <2>1. job[j].dialog \in Dialogs
      BY <1>4, CallShape
    <2> QED  BY <1>1, <1>4, <2>1
  <1>5. ASSUME \/ Render \/ Leave
               \/ \E j \in Jobs :
                      \/ \E d \in Dialogs : Open(d, j)
                      \/ TakeOrClose(j) \/ Taken(j) \/ Send(j)
                      \/ GetMessages(j) \/ SetThread(j)
        PROVE  UNCHANGED channelVars
    BY <1>5 DEF Render, Leave, Open, TakeOrClose, Taken, Send, GetMessages, SetThread
  <1>6. ASSUME NEW j \in Jobs, PostReply(j) \/ RequestFails(j)
        PROVE  [ChannelNext]_channelVars
    BY <1>4, <1>6 DEF PostReply, RequestFails
  <1>7. CASE UNCHANGED allVars
    BY <1>7 DEF allVars
  <1> QED  BY <1>2, <1>3, <1>5, <1>6, <1>7 DEF ChatNext

\* The invariants of the halves, each of which finds the state of the other as it
\* began.
LiveInv ==
    /\ TypeOK /\ ThreadInv
    /\ half \in {"server", "browser"}
    /\ half = "server" => IInv
    /\ half = "browser" => \A i \in Ids : told[i] = "none"

LEMMA LiveStart == LiveInit => LiveInv
  <1> SUFFICES ASSUME LiveInit PROVE LiveInv
    OBVIOUS
  <1>1. ThreadInv /\ IInv /\ half \in {"server", "browser"}
    BY ThreadInit, InitInv DEF LiveInit
  <1>2. \A i \in Ids : told[i] = "none"
    BY DEF LiveInit, Init
  <1> QED  BY <1>1, <1>2 DEF LiveInv, IInv

LEMMA LiveStep ==
    ASSUME LiveInv, [LiveNext]_liveVars
    PROVE  LiveInv' /\ [ChannelNext]_channelVars
  <1>1. CASE half = "server" /\ Next /\ UNCHANGED chatVars /\ UNCHANGED half
    <2>1. IInv' /\ ThreadInv'
      BY <1>1, ServerStep DEF LiveInv
    <2>2. [ChannelNext]_channelVars
      BY <1>1, ServerKeepsChannel DEF LiveInv
    <2> QED  BY <1>1, <2>1, <2>2 DEF LiveInv, IInv
  <1>2. CASE half = "browser" /\ ChatNext /\ UNCHANGED busVars /\ UNCHANGED half
    <2>1. ChannelTypeOK
      BY DEF LiveInv, TypeOK
    <2>2. ChannelTypeOK' /\ ThreadInv' /\ [ChannelNext]_channelVars
      BY <1>2, <2>1, ThreadStep, BrowserKeepsChannel DEF LiveInv
    <2>3. TypeOK'
      BY <1>2, <2>2 DEF LiveInv, TypeOK, busVars
    <2> QED  BY <1>2, <2>2, <2>3 DEF LiveInv, busVars
  <1>3. CASE UNCHANGED liveVars
    <2>1. UNCHANGED <<vars, chatVars, half>>
      BY <1>3 DEF liveVars
    <2>2. UNCHANGED vars /\ UNCHANGED allVars /\ UNCHANGED channelVars
      BY <2>1 DEF vars, allVars
    <2>3. TypeOK' /\ (half = "server" => IInv')
      <3>1. CASE half = "server"
        BY <2>2, <3>1, NextTypes, NextOnItsWay DEF LiveInv, IInv
      <3>2. CASE half # "server"
        BY <2>2, <3>2 DEF LiveInv, TypeOK, ChannelTypeOK, vars, channelVars, busVars
      <3> QED  BY <3>1, <3>2 DEF IInv
    <2>4. ThreadInv'
      BY <2>2, ThreadStep DEF LiveInv, TypeOK
    <2> QED  BY <2>1, <2>2, <2>3, <2>4 DEF LiveInv, vars, busVars
  <1> QED  BY <1>1, <1>2, <1>3 DEF LiveNext

LEMMA LiveInvCorrect == LiveSpec => []LiveInv
  BY LiveStart, LiveStep, PTL DEF LiveSpec

\* Rows, queues, sockets, the thread and its calls keep their types.
THEOREM LiveTypeCorrect == LiveSpec => []LiveTypeOK
  <1>1. LiveInv => LiveTypeOK
    BY ThreadTypes DEF LiveInv, LiveTypeOK, TypeOK
  <1> QED  BY <1>1, LiveInvCorrect, PTL

\* Both halves keep what they promise in the run that checks them together: the
\* server its events and the channel (bus.py, ws.py), the browser its thread (Chat.tsx).
THEOREM HalvesBehave ==
    LiveSpec => /\ [](AcceptedIsSomewhere /\ NothingShownTwice /\ NoGhostBubble)
                /\ ImplementsChannel
  <1>1. LiveInv => AcceptedIsSomewhere /\ NothingShownTwice /\ NoGhostBubble
    BY DEF LiveInv, IInv, OnItsWay, ThreadInv, AcceptedIsSomewhere
  <1>2. LiveInit => ChannelInit
    BY DEF LiveInit, ChatInit
  <1>3. LiveInv /\ [LiveNext]_liveVars => [ChannelNext]_channelVars
    BY LiveStep
  <1> QED  BY <1>1, <1>2, <1>3, LiveInvCorrect, PTL DEF LiveSpec, ImplementsChannel, ChannelSpec
=============================================================================

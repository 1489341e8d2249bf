---------------------------- MODULE IngressProofs ----------------------------
(***************************************************************************)
(* Every event is handled at most once, for any number of events, requests,*)
(* crashes, failures and lost answers.                                     *)
(***************************************************************************)
EXTENDS Ingress, TLAPS

\* A request in progress is for an event VK has posted: what TypeOK needs to
\* be inductive.
RequestsArePosted ==
    \A r \in Requests : request[r].at # "free" => request[r].event \in posted

IInv == TypeOK /\ RequestsArePosted /\ Inv

\* An action of the webhook or of VK that only replaces one request.
LEMMA RequestUpdate ==
    ASSUME TypeOK, NEW r \in Requests, NEW q \in Request
    PROVE  [request EXCEPT ![r] = q] \in [Requests -> Request]
  BY DEF TypeOK

LEMMA NoRequestType == NoRequest \in Request /\ NoRequest.event = Null
  BY DEF NoRequest, Request

-----------------------------------------------------------------------------
\* The initial state satisfies the inductive invariant.
LEMMA InitIInv == Init => IInv
  <1> SUFFICES ASSUME Init PROVE IInv
    OBVIOUS
  <1>1. TypeOK
    BY NoRequestType, BoundsAssumption DEF Init, TypeOK
  <1>2. RequestsArePosted /\ Inv
    BY NullAssumption DEF Init, NoRequest, RequestsArePosted, Inv,
       UnknownIsUnstarted, OneFirst, ExpiredIsQuiet, HandledAtMostOnce, First
  <1> QED  BY <1>1, <1>2 DEF IInv

\* Every step preserves the types and the link from requests to events.
LEMMA NextTypes ==
    ASSUME TypeOK, RequestsArePosted, [Next]_vars
    PROVE  TypeOK' /\ RequestsArePosted'
  <1> USE NullAssumption, BoundsAssumption
  <1>1. ASSUME NEW e \in Events, Happens(e) PROVE TypeOK' /\ RequestsArePosted'
    BY <1>1 DEF Happens, TypeOK, RequestsArePosted
  <1>2. ASSUME NEW r \in Requests, NEW e \in Events, Post(r, e)
        PROVE  TypeOK' /\ RequestsArePosted'
    <2>1. [event |-> e, at |-> "received"] \in Request
      BY DEF Request
    <2> QED  BY <1>2, <2>1 DEF Post, TypeOK, RequestsArePosted
  <1>3. ASSUME NEW r \in Requests, RememberEvent(r)
        PROVE  TypeOK' /\ RequestsArePosted'
    <2>1. request[r] \in Request /\ request[r].event \in posted
      BY <1>3 DEF RememberEvent, TypeOK, RequestsArePosted
    <2>2. request' \in [Requests -> Request]
      BY <1>3, <2>1 DEF RememberEvent, TypeOK, Request
    <2>3. \A s \in Requests : request'[s].event = request[s].event
                                /\ (s # r => request'[s] = request[s])
      BY <1>3, <2>1 DEF RememberEvent, TypeOK, Request
    <2>4. RequestsArePosted'
      BY <1>3, <2>1, <2>3 DEF RememberEvent, RequestsArePosted
    <2> QED  BY <1>3, <2>1, <2>2, <2>4 DEF RememberEvent, TypeOK
  <1>4. ASSUME NEW r \in Requests, Spawn(r) \/ Repeat(r)
        PROVE  TypeOK' /\ RequestsArePosted'
    <2>1. request[r].event \in posted
      BY <1>4 DEF Spawn, Repeat, RequestsArePosted
    <2>2. request' = [request EXCEPT ![r] = NoRequest]
      BY <1>4 DEF Spawn, Repeat, Answer
    <2>3. background' \in [Events -> Nat]
      BY <1>4 DEF Spawn, Spawned, Repeat, TypeOK
    <2>4. acked' \subseteq posted /\ acked \subseteq acked' /\ lost' \in 0..MaxLost
      BY <1>4, <2>1 DEF Spawn, Repeat, Answer, TypeOK
    <2>5. UNCHANGED <<posted, expired, processed, handled, failures>>
      BY <1>4 DEF Spawn, Repeat
    <2>6. request' \in [Requests -> Request]
      BY <2>2, RequestUpdate, NoRequestType
    <2> QED  BY <2>2, <2>3, <2>4, <2>5, <2>6, NoRequestType
             DEF TypeOK, RequestsArePosted, NoRequest
  <1>5. ASSUME NEW r \in Requests, RequestFails(r)
        PROVE  TypeOK' /\ RequestsArePosted'
    <2>1. request[r].event \in posted
      BY <1>5 DEF RequestFails, Fails, RequestsArePosted
    <2>2. request' \in [Requests -> Request]
      BY <1>5, RequestUpdate, NoRequestType DEF RequestFails, Fails
    <2> QED  BY <1>5, <2>1, <2>2 DEF RequestFails, Fails, TypeOK, RequestsArePosted, NoRequest
  <1>6. ASSUME NEW e \in Events, Handle(e) \/ HandlerFails(e)
        PROVE  TypeOK' /\ RequestsArePosted'
    <2>1. background' \in [Events -> Nat] /\ handled' \in [Events -> Nat]
      BY <1>6 DEF Handle, HandlerFails, Fails, TypeOK
    <2> QED  BY <1>6, <2>1 DEF Handle, HandlerFails, Fails, TypeOK, RequestsArePosted
  <1>7. CASE Crash
    BY <1>7, NoRequestType DEF Crash, Fails, TypeOK, RequestsArePosted, NoRequest
  <1>8. ASSUME NEW e \in Events, Expire(e) PROVE TypeOK' /\ RequestsArePosted'
    BY <1>8 DEF Expire, TypeOK, RequestsArePosted
  <1>9. CASE CleanupOldEvents
    BY <1>9 DEF CleanupOldEvents, TypeOK, RequestsArePosted
  <1>10. CASE UNCHANGED vars
    BY <1>10 DEF vars, TypeOK, RequestsArePosted
  <1> QED
    BY <1>1, <1>2, <1>3, <1>4, <1>5, <1>6, <1>7, <1>8, <1>9, <1>10
    DEF Next, WebhookStep

-----------------------------------------------------------------------------
\* Every step preserves the invariant: the row in processed_events is written
\* before anything is started, and it is kept as long as VK can repeat.
LEMMA NextInv ==
    ASSUME IInv, [Next]_vars
    PROVE  Inv'
  <1> USE DEF Inv, UnknownIsUnstarted, OneFirst, ExpiredIsQuiet,
              HandledAtMostOnce, First
  <1>0. TypeOK /\ Inv
    BY DEF IInv
  <1>1. ASSUME NEW e \in Events, Happens(e) PROVE Inv'
    BY <1>0, <1>1 DEF Happens
  <1>2. ASSUME NEW r \in Requests, NEW e \in Events, Post(r, e) PROVE Inv'
    <2>1. request'[r] = [event |-> e, at |-> "received"]
          /\ \A s \in Requests : s # r => request'[s] = request[s]
      BY <1>0, <1>2 DEF Post, TypeOK
    <2>2. e \notin expired
      BY <1>0, <1>2 DEF Post, TypeOK
    <2> QED  BY <1>0, <1>2, <2>1, <2>2 DEF Post
  <1>3. ASSUME NEW r \in Requests, RememberEvent(r) PROVE Inv'
    <2> DEFINE e == request[r].event
    <2>1. e \in Events /\ e \notin expired
      BY <1>0, <1>3 DEF RememberEvent, IInv, RequestsArePosted, TypeOK
    <2>2. /\ request'[r].event = e
          /\ request'[r].at = "first" => e \notin processed
          /\ \A s \in Requests : s # r => request'[s] = request[s]
      BY <1>0, <1>3 DEF RememberEvent, IsFirst, TypeOK, Request
    <2>3. UNCHANGED <<background, handled, expired>>
          /\ processed' = processed \cup {e}
      BY <1>3 DEF RememberEvent
    <2>4. UnknownIsUnstarted'
      BY <1>0, <2>1, <2>2, <2>3
    <2>5. OneFirst'
      <3> SUFFICES ASSUME NEW d \in Events, NEW s \in Requests, First(s, d)'
                   PROVE  /\ background[d] + handled[d] = 0
                          /\ \A q \in Requests : First(q, d)' => q = s
        BY <2>3
      <3>1. CASE d = e /\ e \notin processed
        <4>1. background[d] + handled[d] = 0
              /\ \A q \in Requests : ~First(q, d)
          BY <1>0, <2>1, <3>1
        <4>2. \A q \in Requests : First(q, d)' => q = r
          BY <4>1, <2>2
        <4> QED  BY <4>1, <4>2
      <3>2. CASE d = e /\ e \in processed
        <4>1. ~First(r, d)'
          BY <2>2, <3>2
        <4>2. s # r /\ First(s, d)
          BY <2>2, <4>1
        <4>3. background[d] + handled[d] = 0 /\ \A q \in Requests : First(q, d) => q = s
          BY <1>0, <4>2
        <4> QED  BY <2>2, <4>1, <4>3
      <3>3. CASE d # e
        <4>1. s # r /\ ~First(r, d)'
          BY <2>2, <3>3
        <4> QED  BY <1>0, <2>2, <4>1
      <3> QED  BY <3>1, <3>2, <3>3
    <2>6. ExpiredIsQuiet'
      BY <1>0, <2>1, <2>2, <2>3
    <2>7. HandledAtMostOnce'
      BY <1>0, <2>3
    <2> QED  BY <2>4, <2>5, <2>6, <2>7
  <1>4. ASSUME NEW r \in Requests, Spawn(r) PROVE Inv'
    <2> DEFINE e == request[r].event
    <2>1. e \in Events /\ First(r, e)
      BY <1>0, <1>4 DEF Spawn, IInv, RequestsArePosted, TypeOK, Request
    <2>2. background[e] + handled[e] = 0 /\ e \in processed \cup expired
          /\ \A s \in Requests : First(s, e) => s = r
      BY <1>0, <2>1
    <2>3. request'[r] = NoRequest
          /\ \A s \in Requests : s # r => request'[s] = request[s]
      BY <1>0, <1>4 DEF Spawn, Answer, TypeOK
    <2>4. UNCHANGED <<expired, processed, handled>>
      BY <1>4 DEF Spawn
    <2>5. /\ background'[e] = background[e] + 1
          /\ \A d \in Events : d # e => background'[d] = background[d]
      BY <1>0, <1>4, <2>1 DEF Spawn, Spawned, TypeOK
    <2>6. background[e] \in Nat /\ handled[e] \in Nat
      BY <1>0, <2>1 DEF TypeOK
    <2>7. HandledAtMostOnce'
      <3> SUFFICES ASSUME NEW d \in Events
                   PROVE  background'[d] + handled'[d] <= 1
        OBVIOUS
      <3>1. CASE d = e
        <4>1. background'[d] = 1 /\ handled'[d] = 0
          BY <2>2, <2>4, <2>5, <2>6, <3>1
        <4> QED  BY <4>1
      <3>2. CASE d # e
        <4>1. background'[d] = background[d] /\ handled'[d] = handled[d]
          BY <2>4, <2>5, <3>2
        <4> QED  BY <1>0, <4>1
      <3> QED  BY <3>1, <3>2
    <2>11. \A d \in Events, s \in Requests : First(s, d)' <=> First(s, d) /\ s # r
      <3> SUFFICES ASSUME NEW d \in Events, NEW s \in Requests
                   PROVE  First(s, d)' <=> First(s, d) /\ s # r
        OBVIOUS
      <3>1. NoRequest # [event |-> d, at |-> "first"]
        BY DEF NoRequest
      <3> QED  BY <2>3, <3>1
    <2>12. \A d \in Events, s \in Requests : First(s, d)' => d # e /\ First(s, d)
      BY <2>2, <2>11
    <2>8. OneFirst'
      <3> SUFFICES ASSUME NEW d \in Events, NEW s \in Requests, First(s, d)'
                   PROVE  /\ background'[d] + handled'[d] = 0
                          /\ \A q \in Requests : First(q, d)' => q = s
        OBVIOUS
      <3>1. d # e /\ First(s, d)
        BY <2>12
      <3>2. background[d] + handled[d] = 0
            /\ \A q \in Requests : First(q, d) => q = s
        BY <1>0, <3>1
      <3> QED  BY <2>4, <2>5, <2>12, <3>1, <3>2
    <2>9. UnknownIsUnstarted'
      <3> SUFFICES ASSUME NEW d \in Events, d \notin processed \cup expired
                   PROVE  /\ background'[d] + handled'[d] = 0
                          /\ \A q \in Requests : ~First(q, d)'
        BY <2>4
      <3>1. d # e /\ background[d] + handled[d] = 0
            /\ \A q \in Requests : ~First(q, d)
        BY <1>0, <2>2
      <3> QED  BY <2>4, <2>5, <2>12, <3>1
    <2>10. ExpiredIsQuiet'
      BY <1>0, <2>3, <2>4, NullAssumption DEF NoRequest, TypeOK
    <2> QED  BY <2>7, <2>8, <2>9, <2>10
  <1>5. ASSUME NEW r \in Requests, Repeat(r) PROVE Inv'
    <2>1. request'[r] = NoRequest
          /\ \A s \in Requests : s # r => request'[s] = request[s]
      BY <1>0, <1>5 DEF Repeat, Answer, TypeOK
    <2> QED  BY <1>0, <1>5, <2>1, NullAssumption DEF Repeat, NoRequest, TypeOK
  <1>6. ASSUME NEW r \in Requests, RequestFails(r) PROVE Inv'
    <2>1. request'[r] = NoRequest
          /\ \A s \in Requests : s # r => request'[s] = request[s]
      BY <1>0, <1>6 DEF RequestFails, Fails, TypeOK
    <2>2. processed \subseteq processed' /\ UNCHANGED <<expired, background, handled>>
      BY <1>6 DEF RequestFails, Fails
    <2> QED  BY <1>0, <2>1, <2>2, NullAssumption DEF NoRequest, TypeOK
  <1>7. ASSUME NEW e \in Events, Handle(e) \/ HandlerFails(e) PROVE Inv'
    <2>1. background[e] \in Nat \ {0} /\ handled[e] \in Nat
      BY <1>0, <1>7 DEF Handle, HandlerFails, Fails, TypeOK
    <2>2. /\ background'[e] + handled'[e] <= background[e] + handled[e]
          /\ \A d \in Events : d # e =>
                background'[d] = background[d] /\ handled'[d] = handled[d]
      BY <1>0, <1>7, <2>1 DEF Handle, HandlerFails, Fails, TypeOK
    <2>3. UNCHANGED <<request, processed, expired>>
      BY <1>7 DEF Handle, HandlerFails, Fails
    <2>4. background'[e] \in Nat /\ handled'[e] \in Nat
      BY <1>0, <1>7, <2>1 DEF Handle, HandlerFails, Fails, TypeOK
    <2>5. e \in processed \cup expired /\ \A r \in Requests : ~First(r, e)
      BY <1>0, <2>1
    <2>6. HandledAtMostOnce'
      BY <1>0, <2>1, <2>2, <2>4
    <2> QED  BY <1>0, <2>2, <2>3, <2>5, <2>6
  <1>8. CASE Crash
    <2>1. \A r \in Requests : request'[r] = NoRequest
      BY <1>8 DEF Crash, Fails
    <2>2. \A e \in Events : background'[e] = 0 /\ handled'[e] = handled[e]
                              /\ background[e] \in Nat /\ handled[e] \in Nat
      BY <1>0, <1>8 DEF Crash, Fails, TypeOK
    <2>3. UNCHANGED <<processed, expired>>
      BY <1>8 DEF Crash, Fails
    <2> QED  BY <1>0, <2>1, <2>2, <2>3, NullAssumption DEF NoRequest, TypeOK
  <1>9. ASSUME NEW e \in Events, Expire(e) PROVE Inv'
    BY <1>0, <1>9 DEF Expire
  <1>10. CASE CleanupOldEvents
    <2>1. processed' \cup expired' = processed \cup expired
      BY <1>10 DEF CleanupOldEvents, Old
    <2> QED  BY <1>0, <1>10, <2>1 DEF CleanupOldEvents
  <1>11. CASE UNCHANGED vars
    BY <1>0, <1>11 DEF vars
  <1> QED
    BY <1>1, <1>2, <1>3, <1>4, <1>5, <1>6, <1>7, <1>8, <1>9, <1>10, <1>11
    DEF Next, WebhookStep

\* The inductive invariant holds of every behaviour.
LEMMA Invariant == Spec => []IInv
  <1>1. IInv /\ [Next]_vars => IInv'
    BY NextTypes, NextInv DEF IInv
  <1> QED  BY InitIInv, <1>1, PTL DEF Spec

-----------------------------------------------------------------------------
\* The state of the webhook, of VK and of processed_events is well-formed.
THEOREM TypeCorrect == Spec => []TypeOK
  BY Invariant, PTL DEF IInv

\* However often VK repeats an event, its handler is started at most once.
THEOREM HandledAtMostOnceCorrect == Spec => []HandledAtMostOnce
  BY Invariant, PTL DEF IInv, Inv

\* The row of an event in processed_events precedes all that is done for it, and
\* outlives its repeats (callback.py, queries.py remember_event).
THEOREM InvCorrect == Spec => []Inv
  BY Invariant, PTL DEF IInv
=============================================================================

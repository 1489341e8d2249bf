---------------------------- MODULE OutboxProofs ----------------------------
(***************************************************************************)
(* Proofs about module Outbox, for every set of rows, peers, random ids    *)
(* and processes and every value of the bounds.                            *)
(*                                                                         *)
(* TypeCorrect is proved on its own.  Inv adds what the worker's memory    *)
(* says about the table and about VK: the conjunction is inductive, its    *)
(* parts alone are not.  SingleWorker is the stronger picture when         *)
(* processes do not overlap; finality and the refinement rest on it, and   *)
(* so does the order of a dialog.                                          *)
(***************************************************************************)
EXTENDS Outbox, FiniteSetTheorems, TLAPS

-----------------------------------------------------------------------------
(* Types.                                                                  *)

LEMMA TypeInit == Init => TypeOK
BY DEF Init, TypeOK, Row, NoRow, Status, Phase, NoSnap, Stored

LEMMA RowStatus ==
  ASSUME NEW r \in Row, NEW s \in Status
  PROVE  [r EXCEPT !.status = s] \in Row
BY DEF Row

LEMMA RowDue ==
  ASSUME NEW r \in Row
  PROVE  [r EXCEPT !.next = "now"] \in Row
BY DEF Row

LEMMA RowVerdict ==
  ASSUME NEW r \in Row, NEW s \in Status, NEW a \in Nat
  PROVE  /\ [r EXCEPT !.status = s, !.attempts = a] \in Row
         /\ [r EXCEPT !.status = s, !.attempts = a, !.next = "later"] \in Row
BY DEF Row

LEMMA DeliverType ==
  ASSUME TypeOK, NEW i \in Ids, Deliver(i)
  PROVE  /\ seen' \subseteq (Peers \cup {Null}) \X (RandomIds \cup {Null})
         /\ deliveries' \in [Ids -> Nat]
BY DEF Deliver, Key, Row, TypeOK

LEMMA TypeNext == TypeOK /\ [Next]_vars => TypeOK'
<1> SUFFICES ASSUME TypeOK, [Next]_vars PROVE TypeOK'
  OBVIOUS
<1>1. ASSUME NEW i \in Ids, NEW u \in Peers, NEW r \in RandomIds,
             Enqueue(i, u, r)
      PROVE  TypeOK'
  BY <1>1 DEF Enqueue, Row, Status, TypeOK, workerVars, vkVars
<1>2. ASSUME NEW i \in Ids, Elapse(i) PROVE TypeOK'
  <2>1. outbox' \in [Ids -> Row]
    BY <1>2, RowDue DEF Elapse, TypeOK
  <2> QED
    BY <1>2, <2>1 DEF Elapse, TypeOK, workerVars, vkVars
<1>3. ASSUME NEW i \in Ids, LateArrival(i) PROVE TypeOK'
  <2>1. CASE Deliver(i)
    BY <1>3, <2>1, DeliverType DEF LateArrival, TypeOK, dbVars, workerVars
  <2>2. CASE UNCHANGED <<seen, deliveries>>
    BY <1>3, <2>2 DEF LateArrival, TypeOK, dbVars, workerVars
  <2> QED
    BY <1>3, <2>1, <2>2 DEF LateArrival
<1>4. ASSUME NEW p \in Procs, Claim(p) PROVE TypeOK'
  <2>1. outbox' \in [Ids -> Row]
    BY <1>4, RowStatus DEF Claim, Status, TypeOK
  <2>2. Claimed \subseteq Ids
    BY DEF Claimed, Claimable
  <2>3. snap' \in [Procs -> [Ids -> Nat]]
    BY <1>4 DEF Claim, TypeOK, Row
  <2> QED
    BY <1>4, <2>1, <2>2, <2>3 DEF Claim, TypeOK, Phase, vkVars
<1>5. ASSUME NEW p \in Procs, NEW i \in Ids, MarkSent(p, i) PROVE TypeOK'
  <2>1. outbox' \in [Ids -> Row]
    BY <1>5, RowStatus DEF MarkSent, Status, TypeOK
  <2> QED
    BY <1>5, <2>1 DEF MarkSent, Advance, TypeOK, Phase, vkVars
<1>6. ASSUME NEW p \in Procs, NEW i \in Ids, HandleRefusal(p, i) PROVE TypeOK'
  <2>1. outbox' \in [Ids -> Row]
    <3>1. snap[p][i] + 1 \in Nat
      BY DEF TypeOK
    <3> QED
      BY <1>6, <3>1, RowVerdict DEF HandleRefusal, Status, TypeOK
  <2> QED
    BY <1>6, <2>1 DEF HandleRefusal, Advance, TypeOK, Phase, vkVars
<1>7. ASSUME NEW p \in Procs, NEW i \in Ids, FailDenied(p, i) PROVE TypeOK'
  <2>1. outbox' \in [Ids -> Row]
    <3>1. snap[p][i] + 1 \in Nat
      BY DEF TypeOK
    <3> QED
      BY <1>7, <3>1, RowVerdict DEF FailDenied, Status, TypeOK
  <2> QED
    BY <1>7, <2>1 DEF FailDenied, TypeOK, Phase, vkVars
<1>8. ASSUME NEW p \in Procs, NEW i \in Ids, MarkCannotWrite(p, i)
      PROVE  TypeOK'
  BY <1>8 DEF MarkCannotWrite, Advance, TypeOK, Phase, vkVars
<1>9. ASSUME NEW p \in Procs, NEW i \in Ids, VKAccept(p, i) PROVE TypeOK'
  BY <1>9, DeliverType DEF VKAccept, TypeOK, Phase, dbVars
<1>10. ASSUME NEW p \in Procs, NEW i \in Ids, VKRefuse(p, i) PROVE TypeOK'
  BY <1>10 DEF VKRefuse, TypeOK, Phase, dbVars
<1>11. ASSUME NEW p \in Procs, NEW i \in Ids, VKDeny(p, i) PROVE TypeOK'
  BY <1>11 DEF VKDeny, TypeOK, Phase, dbVars
<1>12. ASSUME NEW p \in Procs, BatchFails(p) PROVE TypeOK'
  BY <1>12 DEF BatchFails, LeaveOnWire, NoSnap, TypeOK, Phase, dbVars
<1>13. ASSUME NEW p \in Procs, Crash(p) PROVE TypeOK'
  BY <1>13 DEF Crash, LeaveOnWire, NoSnap, TypeOK, Phase, dbVars
<1>14. ASSUME NEW p \in Procs, Start(p) PROVE TypeOK'
  <2>1. outbox' \in [Ids -> Row]
    BY <1>14, RowStatus DEF Start, Recovered, Status, TypeOK
  <2> QED
    BY <1>14, <2>1 DEF Start, Recovered, TypeOK, Phase, vkVars
<1>15. CASE UNCHANGED vars
  BY <1>15 DEF vars, TypeOK
<1> QED
  BY <1>1, <1>2, <1>3, <1>4, <1>5, <1>6, <1>7, <1>8, <1>9, <1>10, <1>11,
     <1>12, <1>13, <1>14, <1>15 DEF Next, WorkerStep, VKAnswers

\* Every reachable state is well typed: the rows, the workers' batches and
\* snapshots, and VK's records.
THEOREM TypeCorrect == Spec => []TypeOK
BY TypeInit, TypeNext, PTL DEF Spec
-----------------------------------------------------------------------------
(* The inductive invariant.                                                *)

SameKeys == \A j \in Ids : /\ outbox'[j].peer = outbox[j].peer
                           /\ outbox'[j].rid = outbox[j].rid
                           /\ Stored(j)' <=> Stored(j)

LEMMA HeadUnique ==
  ASSUME NEW p \in Procs, NEW i \in Ids, NEW j \in Ids,
         IsHead(p, i), IsHead(p, j)
  PROVE  i = j
BY IdsAssumption DEF IsHead

LEMMA KeysKept ==
  ASSUME KeysMatchDeliveries, SameKeys, UNCHANGED <<seen, deliveries>>
  PROVE  KeysMatchDeliveries'
BY DEF KeysMatchDeliveries, SameKeys, Key, Stored

LEMMA DeliverKeepsKeys ==
  ASSUME TypeOK, KeysMatchDeliveries, SameKeys,
         NEW i \in Ids, Stored(i), Deliver(i)
  PROVE  /\ KeysMatchDeliveries'
         /\ deliveries'[i] = 1
         /\ \A j \in Ids : deliveries[j] = 1 => deliveries'[j] = 1
<1> DEFINE Shown(j) == Stored(j) /\ Key(j) \in seen
<1>1. \A j \in Ids : Key(j)' = Key(j) /\ (Stored(j)' <=> Stored(j))
  BY DEF SameKeys, Key
<1>2. \A j \in Ids : Stored(j) /\ Key(j) = Key(i) => j = i
  BY DEF KeysMatchDeliveries
<1>3. \A j \in Ids : j # i => deliveries'[j] = deliveries[j]
  BY DEF Deliver, TypeOK
<1>4. deliveries'[i] = 1
  BY DEF Deliver, KeysMatchDeliveries, TypeOK
<1>5. seen' = seen \cup {Key(i)}
  BY DEF Deliver
<1>6. \A k \in seen' : \E j \in Ids : Stored(j)' /\ k = Key(j)'
  BY <1>1, <1>5 DEF KeysMatchDeliveries
<1>7. \A j, k \in Ids : Stored(j)' /\ Stored(k)' /\ Key(j)' = Key(k)' => j = k
  BY <1>1 DEF KeysMatchDeliveries
<1>8. \A j \in Ids : deliveries'[j] =
                        IF Stored(j)' /\ Key(j)' \in seen' THEN 1 ELSE 0
  BY <1>1, <1>2, <1>3, <1>4, <1>5 DEF KeysMatchDeliveries
<1> QED
  BY <1>3, <1>4, <1>6, <1>7, <1>8 DEF KeysMatchDeliveries

LEMMA MemoryKept ==
  ASSUME TypeOK, NEW q \in Procs, MemoryOf(q),
         phase'[q] = phase[q], batch'[q] = batch[q], snap'[q] = snap[q],
         errors' \in [Ids -> Nat], denied \subseteq denied',
         \A i \in Ids : errors[i] <= errors'[i],
         \A i \in Ids : deliveries[i] = 1 => deliveries'[i] = 1
  PROVE  MemoryOf(q)'
<1>1. \A i \in Ids : IsHead(q, i)' <=> IsHead(q, i)
  BY DEF IsHead
<1>2. \A i \in batch'[q] : snap'[q][i] <= errors'[i]
                           /\ snap'[q][i] < MAX_ATTEMPTS
  BY DEF MemoryOf, TypeOK
<1>3. ASSUME NEW i \in Ids, IsHead(q, i)
      PROVE  /\ phase'[q] = "accepted" => deliveries'[i] = 1
             /\ phase'[q] \in {"refused", "denied"} => snap'[q][i] < errors'[i]
             /\ phase'[q] = "denied" => i \in denied'
  BY <1>3 DEF MemoryOf, TypeOK
<1> QED
  BY <1>1, <1>2, <1>3 DEF MemoryOf, Busy

LEMMA MemoryAdvance ==
  ASSUME TypeOK, NEW p \in Procs, NEW i \in Ids, MemoryOf(p), Busy(p),
         IsHead(p, i), Advance(p, i), UNCHANGED errors
  PROVE  /\ MemoryOf(p)'
         /\ batch'[p] = batch[p] \ {i}
         /\ \A q \in Procs \ {p} : /\ phase'[q] = phase[q]
                                   /\ batch'[q] = batch[q]
                                   /\ snap'[q] = snap[q]
<1>1. /\ batch'[p] = batch[p] \ {i}
      /\ phase'[p] = IF batch[p] = {i} THEN "idle" ELSE "call"
      /\ \A j \in batch'[p] : snap'[p][j] = snap[p][j]
  BY DEF Advance, TypeOK
<1>2. \A q \in Procs \ {p} : /\ phase'[q] = phase[q]
                             /\ batch'[q] = batch[q]
                             /\ snap'[q] = snap[q]
  BY DEF Advance, TypeOK
<1>3. ~Busy(p)' => batch'[p] = {}
  BY <1>1 DEF Busy
<1> QED
  BY <1>1, <1>2, <1>3 DEF MemoryOf
LEMMA InvInit == Init => Inv
BY AttemptsAssumption
   DEF Init, Inv, RefersToRows, KeysMatchDeliveries, WorkerMemory, MemoryOf,
       IsHead, SentMeansDelivered, FailedIsJustified, AttemptsAreErrors,
       Stored, Busy, NoRow, NoSnap

LEMMA EnqueueInv ==
  ASSUME TypeOK, Inv, NEW i \in Ids, NEW u \in Peers, NEW r \in RandomIds,
         Enqueue(i, u, r)
  PROVE  Inv'
<1>1. ~Stored(i) /\ Stored(i)' /\ outbox'[i].status = "pending"
      /\ outbox'[i].attempts = 0 /\ Key(i)' = <<u, r>>
  BY IdsAssumption DEF Enqueue, TypeOK, Stored, Key
<1>2. \A j \in Ids : j # i => outbox'[j] = outbox[j] /\ Key(j)' = Key(j)
                              /\ (Stored(j)' <=> Stored(j))
  BY DEF Enqueue, TypeOK, Stored, Key
<1>3. \A j \in Ids : Stored(j) => Key(j) # <<u, r>>
  BY DEF Enqueue, FreshRid, Key
<1>4. UNCHANGED <<phase, batch, snap, errors, deliveries, denied, seen, wire>>
  BY DEF Enqueue, workerVars, vkVars
<1>5. RefersToRows'
  BY <1>1, <1>2, <1>4 DEF RefersToRows, Inv, TypeOK
<1>6. KeysMatchDeliveries'
  <2>1. <<u, r>> \notin seen
    BY <1>3 DEF Inv, KeysMatchDeliveries
  <2>2. deliveries[i] = 0
    BY <1>1 DEF Inv, KeysMatchDeliveries
  <2>3. \A j, k \in Ids : Stored(j)' /\ Stored(k)' /\ Key(j)' = Key(k)' => j = k
    BY <1>1, <1>2, <1>3 DEF Inv, KeysMatchDeliveries
  <2>4. \A k \in seen' : \E j \in Ids : Stored(j)' /\ k = Key(j)'
    BY <1>1, <1>2, <1>4 DEF Inv, KeysMatchDeliveries
  <2>5. \A j \in Ids : deliveries'[j] =
                          IF Stored(j)' /\ Key(j)' \in seen' THEN 1 ELSE 0
    BY <1>1, <1>2, <1>4, <2>1, <2>2 DEF Inv, KeysMatchDeliveries
  <2> QED
    BY <2>3, <2>4, <2>5 DEF KeysMatchDeliveries
<1>7. WorkerMemory'
  BY <1>4 DEF Inv, WorkerMemory, MemoryOf, Busy, IsHead
<1>8. SentMeansDelivered' /\ FailedIsJustified' /\ AttemptsAreErrors'
  <2>1. 0 <= errors[i] /\ 0 < MAX_ATTEMPTS
    BY AttemptsAssumption DEF TypeOK
  <2>2. AttemptsAreErrors'
    BY <1>1, <1>2, <1>4, <2>1 DEF Inv, AttemptsAreErrors
  <2>3. SentMeansDelivered' /\ FailedIsJustified'
    BY <1>1, <1>2, <1>4 DEF Inv, SentMeansDelivered, FailedIsJustified
  <2> QED
    BY <2>2, <2>3
<1> QED
  BY <1>5, <1>6, <1>7, <1>8 DEF Inv

\* The table alone changes, and no row changes what the invariant reads of it
\* but for its status, which stays queued or becomes pending again.
LEMMA RequeueInv ==
  ASSUME TypeOK, Inv, SameKeys,
         UNCHANGED <<seen, deliveries, errors, denied, wire>>,
         \A j \in Ids : outbox'[j].attempts = outbox[j].attempts,
         \A j \in Ids : \/ outbox'[j].status = outbox[j].status
                        \/ /\ outbox[j].status \in {"pending", "sending"}
                           /\ outbox'[j].status \in {"pending", "sending"}
  PROVE  /\ KeysMatchDeliveries' /\ SentMeansDelivered'
         /\ FailedIsJustified' /\ AttemptsAreErrors'
<1>1. KeysMatchDeliveries'
  BY KeysKept DEF Inv
<1>2. SentMeansDelivered' /\ FailedIsJustified' /\ AttemptsAreErrors'
  BY DEF Inv, SentMeansDelivered, FailedIsJustified, AttemptsAreErrors
<1> QED
  BY <1>1, <1>2

LEMMA ElapseInv ==
  ASSUME TypeOK, Inv, NEW i \in Ids, Elapse(i)
  PROVE  Inv'
<1>1. \A j \in Ids : /\ outbox'[j].attempts = outbox[j].attempts
                     /\ outbox'[j].status = outbox[j].status
                     /\ outbox'[j].peer = outbox[j].peer
                     /\ outbox'[j].rid = outbox[j].rid
  <2>1. outbox' = [outbox EXCEPT ![i] = [outbox[i] EXCEPT !.next = "now"]]
    BY DEF Elapse
  <2>2. \A j \in Ids : j # i => outbox'[j] = outbox[j]
    BY <2>1 DEF TypeOK
  <2>3. outbox'[i] = [outbox[i] EXCEPT !.next = "now"]
    BY <2>1 DEF TypeOK
  <2> QED
    BY <2>2, <2>3 DEF TypeOK, Row
<1>2. UNCHANGED <<phase, batch, snap, errors, deliveries, denied, seen, wire>>
  BY DEF Elapse, workerVars, vkVars
<1>3. SameKeys
  BY <1>1 DEF SameKeys, Stored
<1>4. KeysMatchDeliveries' /\ SentMeansDelivered' /\ FailedIsJustified'
      /\ AttemptsAreErrors'
  BY <1>1, <1>2, <1>3, RequeueInv
<1>5. RefersToRows' /\ WorkerMemory'
  BY <1>2, <1>3 DEF Inv, RefersToRows, WorkerMemory, MemoryOf, Busy, IsHead,
                    SameKeys, TypeOK
<1> QED
  BY <1>4, <1>5 DEF Inv

LEMMA StartInv ==
  ASSUME TypeOK, Inv, NEW p \in Procs, Start(p)
  PROVE  Inv'
<1>1. \A j \in Ids : /\ outbox'[j].attempts = outbox[j].attempts
                     /\ outbox'[j].peer = outbox[j].peer
                     /\ outbox'[j].rid = outbox[j].rid
                     /\ \/ outbox'[j].status = outbox[j].status
                        \/ /\ outbox[j].status = "sending"
                           /\ outbox'[j].status = "pending"
  BY DEF Start, Recovered, TypeOK, Row
<1>2. UNCHANGED <<batch, snap, errors, deliveries, denied, seen, wire>>
  BY DEF Start, vkVars
<1>3. SameKeys
  BY <1>1 DEF SameKeys, Stored
<1>4. KeysMatchDeliveries' /\ SentMeansDelivered' /\ FailedIsJustified'
      /\ AttemptsAreErrors'
  BY <1>1, <1>2, <1>3, RequeueInv
<1>5. RefersToRows'
  BY <1>2, <1>3 DEF Inv, RefersToRows, SameKeys, TypeOK
<1>6. WorkerMemory'
  <2> SUFFICES ASSUME NEW q \in Procs PROVE MemoryOf(q)'
    BY DEF WorkerMemory
  <2>1. CASE q = p
    BY <1>2, <2>1 DEF Start, Inv, WorkerMemory, MemoryOf, Busy, Up, IsHead,
                      TypeOK
  <2>2. CASE q # p
    BY <1>2, <2>2 DEF Start, Inv, WorkerMemory, MemoryOf, Busy, IsHead, TypeOK
  <2> QED
    BY <2>1, <2>2
<1> QED
  BY <1>4, <1>5, <1>6 DEF Inv
LEMMA ClaimInv ==
  ASSUME TypeOK, Inv, NEW p \in Procs, Claim(p)
  PROVE  Inv'
<1>1. \A j \in Ids : /\ outbox'[j].attempts = outbox[j].attempts
                     /\ outbox'[j].peer = outbox[j].peer
                     /\ outbox'[j].rid = outbox[j].rid
                     /\ \/ outbox'[j].status = outbox[j].status
                        \/ /\ outbox[j].status = "pending"
                           /\ outbox'[j].status = "sending"
  BY DEF Claim, Claimed, Claimable, TypeOK, Row
<1>2. UNCHANGED <<errors, deliveries, denied, seen, wire>>
  BY DEF Claim, vkVars
<1>3. SameKeys
  BY <1>1 DEF SameKeys, Stored
<1>4. KeysMatchDeliveries' /\ SentMeansDelivered' /\ FailedIsJustified'
      /\ AttemptsAreErrors'
  BY <1>1, <1>2, <1>3, RequeueInv
<1>5. \A j \in Claimed : j \in Ids /\ outbox[j].status = "pending"
  BY DEF Claimed, Claimable
<1>6. batch' = [batch EXCEPT ![p] = Claimed] /\ phase'[p] = "call"
      /\ \A j \in Claimed : snap'[p][j] = outbox[j].attempts
  BY <1>5 DEF Claim, TypeOK
<1>7. RefersToRows'
  BY <1>2, <1>3, <1>5, <1>6 DEF Inv, RefersToRows, SameKeys, Stored, TypeOK
<1>8. WorkerMemory'
  <2> SUFFICES ASSUME NEW q \in Procs PROVE MemoryOf(q)'
    BY DEF WorkerMemory
  <2>1. CASE q = p
    <3>1. \A j \in batch'[p] : snap'[p][j] <= errors'[j]
                               /\ snap'[p][j] < MAX_ATTEMPTS
      BY <1>2, <1>5, <1>6 DEF Inv, AttemptsAreErrors, TypeOK
    <3> QED
      BY <1>6, <2>1, <3>1 DEF MemoryOf, Busy
  <2>2. CASE q # p
    BY <1>2, <2>2 DEF Claim, Inv, WorkerMemory, MemoryOf, Busy, IsHead, TypeOK
  <2> QED
    BY <2>1, <2>2
<1> QED
  BY <1>4, <1>7, <1>8 DEF Inv

\* A worker that has booked an answer and moves on leaves the memory of every
\* worker in order.
LEMMA AdvanceInv ==
  ASSUME TypeOK, Inv, SameKeys, NEW p \in Procs, NEW i \in Ids,
         Busy(p), IsHead(p, i), Advance(p, i),
         UNCHANGED <<errors, deliveries, denied, seen, wire>>
  PROVE  RefersToRows' /\ KeysMatchDeliveries' /\ WorkerMemory'
<1>1. MemoryOf(p)
  BY DEF Inv, WorkerMemory
<1>2. /\ MemoryOf(p)'
      /\ batch'[p] = batch[p] \ {i}
      /\ \A q \in Procs \ {p} : /\ phase'[q] = phase[q]
                                /\ batch'[q] = batch[q]
                                /\ snap'[q] = snap[q]
  BY <1>1, MemoryAdvance
<1>3. \A q \in Procs \ {p} : MemoryOf(q)'
  BY <1>2 DEF Inv, WorkerMemory, MemoryOf, Busy, IsHead
<1>4. WorkerMemory'
  BY <1>2, <1>3 DEF WorkerMemory
<1>5. RefersToRows'
  BY <1>2 DEF Inv, RefersToRows, SameKeys, TypeOK
<1> QED
  BY <1>4, <1>5, KeysKept DEF Inv

LEMMA MarkSentInv ==
  ASSUME TypeOK, Inv, NEW p \in Procs, NEW i \in Ids, MarkSent(p, i)
  PROVE  Inv'
<1>1. /\ \A j \in Ids : j # i => outbox'[j] = outbox[j]
      /\ outbox'[i].status = "sent"
      /\ outbox'[i].peer = outbox[i].peer
      /\ outbox'[i].rid = outbox[i].rid
      /\ outbox'[i].attempts = outbox[i].attempts
  BY DEF MarkSent, TypeOK, Row
<1>2. UNCHANGED <<errors, deliveries, denied, seen, wire>>
  BY DEF MarkSent, vkVars
<1>3. Stored(i) /\ deliveries[i] = 1
  BY DEF MarkSent, Inv, WorkerMemory, MemoryOf, RefersToRows, IsHead
<1>4. SameKeys
  BY <1>1, <1>3 DEF SameKeys, Stored
<1>5. RefersToRows' /\ KeysMatchDeliveries' /\ WorkerMemory'
  BY <1>2, <1>4, AdvanceInv DEF MarkSent, Busy
<1>6. SentMeansDelivered' /\ FailedIsJustified' /\ AttemptsAreErrors'
  BY <1>1, <1>2, <1>3
     DEF Inv, SentMeansDelivered, FailedIsJustified, AttemptsAreErrors
<1> QED
  BY <1>5, <1>6 DEF Inv

LEMMA HandleRefusalInv ==
  ASSUME TypeOK, Inv, NEW p \in Procs, NEW i \in Ids, HandleRefusal(p, i)
  PROVE  Inv'
<1> DEFINE a == snap[p][i] + 1
<1>1. /\ \A j \in Ids : j # i => outbox'[j] = outbox[j]
      /\ outbox'[i].status = IF a >= MAX_ATTEMPTS THEN "failed" ELSE "pending"
      /\ outbox'[i].peer = outbox[i].peer
      /\ outbox'[i].rid = outbox[i].rid
      /\ outbox'[i].attempts = a
  BY DEF HandleRefusal, LastAttempt, TypeOK, Row
<1>2. UNCHANGED <<errors, deliveries, denied, seen, wire>>
  BY DEF HandleRefusal, vkVars
<1>3. Stored(i) /\ a <= errors[i] /\ a \in Nat
  BY DEF HandleRefusal, Inv, WorkerMemory, MemoryOf, RefersToRows, IsHead, TypeOK
<1>4. SameKeys
  BY <1>1, <1>3 DEF SameKeys, Stored
<1>5. RefersToRows' /\ KeysMatchDeliveries' /\ WorkerMemory'
  BY <1>2, <1>4, AdvanceInv DEF HandleRefusal, Busy
<1>6. SentMeansDelivered'
  BY <1>1, <1>2 DEF Inv, SentMeansDelivered
<1>7. FailedIsJustified'
  BY <1>1, <1>2, <1>3, AttemptsAssumption DEF Inv, FailedIsJustified, TypeOK
<1>8. AttemptsAreErrors'
  BY <1>1, <1>2, <1>3, AttemptsAssumption DEF Inv, AttemptsAreErrors, TypeOK
<1> QED
  BY <1>5, <1>6, <1>7, <1>8 DEF Inv
LEMMA FailDeniedInv ==
  ASSUME TypeOK, Inv, NEW p \in Procs, NEW i \in Ids, FailDenied(p, i)
  PROVE  Inv'
<1> DEFINE a == snap[p][i] + 1
<1>1. /\ \A j \in Ids : j # i => outbox'[j] = outbox[j]
      /\ outbox'[i].status = "failed"
      /\ outbox'[i].peer = outbox[i].peer
      /\ outbox'[i].rid = outbox[i].rid
      /\ outbox'[i].attempts = a
  BY DEF FailDenied, TypeOK, Row
<1>2. UNCHANGED <<batch, snap, errors, deliveries, denied, seen, wire>>
  BY DEF FailDenied, vkVars
<1>3. Stored(i) /\ a <= errors[i] /\ a \in Nat /\ i \in denied
  BY DEF FailDenied, Inv, WorkerMemory, MemoryOf, RefersToRows, IsHead, TypeOK
<1>4. SameKeys
  BY <1>1, <1>3 DEF SameKeys, Stored
<1>5. KeysMatchDeliveries'
  BY <1>2, <1>4, KeysKept DEF Inv
<1>6. RefersToRows'
  BY <1>2, <1>4 DEF Inv, RefersToRows, SameKeys, TypeOK
<1>7. WorkerMemory'
  <2> SUFFICES ASSUME NEW q \in Procs PROVE MemoryOf(q)'
    BY DEF WorkerMemory
  <2>1. CASE q = p
    <3>1. phase'[p] = "unwritable"
      BY DEF FailDenied, TypeOK
    <3> QED
      BY <1>2, <2>1, <3>1 DEF Inv, WorkerMemory, MemoryOf, Busy
  <2>2. CASE q # p
    BY <1>2, <2>2 DEF FailDenied, Inv, WorkerMemory, MemoryOf, Busy, IsHead,
                      TypeOK
  <2> QED
    BY <2>1, <2>2
<1>8. SentMeansDelivered' /\ FailedIsJustified' /\ AttemptsAreErrors'
  BY <1>1, <1>2, <1>3
     DEF Inv, SentMeansDelivered, FailedIsJustified, AttemptsAreErrors
<1> QED
  BY <1>5, <1>6, <1>7, <1>8 DEF Inv

LEMMA MarkCannotWriteInv ==
  ASSUME TypeOK, Inv, NEW p \in Procs, NEW i \in Ids, MarkCannotWrite(p, i)
  PROVE  Inv'
<1>1. UNCHANGED <<outbox, errors, deliveries, denied, seen, wire>>
  BY DEF MarkCannotWrite, vkVars
<1>2. SameKeys
  BY <1>1 DEF SameKeys, Stored
<1>3. RefersToRows' /\ KeysMatchDeliveries' /\ WorkerMemory'
  BY <1>1, <1>2, AdvanceInv DEF MarkCannotWrite, Busy
<1>4. SentMeansDelivered' /\ FailedIsJustified' /\ AttemptsAreErrors'
  BY <1>1 DEF Inv, SentMeansDelivered, FailedIsJustified, AttemptsAreErrors
<1> QED
  BY <1>3, <1>4 DEF Inv

LEMMA VKAcceptInv ==
  ASSUME TypeOK, Inv, NEW p \in Procs, NEW i \in Ids, VKAccept(p, i)
  PROVE  Inv'
<1>1. UNCHANGED <<outbox, batch, snap, errors, denied, wire>>
  BY DEF VKAccept, dbVars
<1>2. SameKeys /\ Stored(i)
  BY <1>1 DEF SameKeys, Stored, VKAccept, IsHead, Inv, RefersToRows
<1>3. /\ KeysMatchDeliveries'
      /\ deliveries'[i] = 1
      /\ \A j \in Ids : deliveries[j] = 1 => deliveries'[j] = 1
  BY <1>2, DeliverKeepsKeys DEF VKAccept, Inv
<1>4. WorkerMemory'
  <2> SUFFICES ASSUME NEW q \in Procs PROVE MemoryOf(q)'
    BY DEF WorkerMemory
  <2>1. CASE q = p
    <3>1. phase'[p] = "accepted" /\ phase[p] = "call"
      BY DEF VKAccept, TypeOK
    <3>2. \A j \in Ids : IsHead(p, j)' => j = i
      BY <1>1, HeadUnique DEF VKAccept, IsHead
    <3> QED
      BY <1>1, <1>3, <2>1, <3>1, <3>2
         DEF Inv, WorkerMemory, MemoryOf, Busy, TypeOK
  <2>2. CASE q # p
    <3>1. phase'[q] = phase[q] /\ MemoryOf(q)
      BY <2>2 DEF VKAccept, Inv, WorkerMemory, TypeOK
    <3>2. errors' \in [Ids -> Nat] /\ \A j \in Ids : errors[j] <= errors'[j]
      BY <1>1 DEF TypeOK
    <3> QED
      BY <1>1, <1>3, <3>1, <3>2, MemoryKept
  <2> QED
    BY <2>1, <2>2
<1>5. RefersToRows'
  BY <1>1, <1>2 DEF Inv, RefersToRows, Stored
<1>6. SentMeansDelivered' /\ FailedIsJustified' /\ AttemptsAreErrors'
  BY <1>1, <1>3 DEF Inv, SentMeansDelivered, FailedIsJustified, AttemptsAreErrors
<1> QED
  BY <1>3, <1>4, <1>5, <1>6 DEF Inv

LEMMA VKErrorInv ==
  ASSUME TypeOK, Inv, NEW p \in Procs, NEW i \in Ids,
         VKRefuse(p, i) \/ VKDeny(p, i)
  PROVE  Inv'
<1>1. UNCHANGED <<outbox, batch, snap, deliveries, seen, wire>>
  BY DEF VKRefuse, VKDeny, dbVars
<1>2. /\ errors' = [errors EXCEPT ![i] = @ + 1]
      /\ denied \subseteq denied'
      /\ IsHead(p, i)
      /\ phase[p] = "call"
      /\ \/ phase' = [phase EXCEPT ![p] = "refused"]
         \/ phase' = [phase EXCEPT ![p] = "denied"] /\ i \in denied'
  BY DEF VKRefuse, VKDeny
<1>3. /\ errors' \in [Ids -> Nat]
      /\ \A j \in Ids : errors[j] <= errors'[j]
      /\ errors'[i] = errors[i] + 1
  BY <1>2 DEF TypeOK
<1>4. SameKeys
  BY <1>1 DEF SameKeys, Stored
<1>5. KeysMatchDeliveries'
  BY <1>1, <1>4, KeysKept DEF Inv
<1>6. WorkerMemory'
  <2> SUFFICES ASSUME NEW q \in Procs PROVE MemoryOf(q)'
    BY DEF WorkerMemory
  <2>1. CASE q = p
    <3>1. phase'[p] \in {"refused", "denied"}
          /\ (phase'[p] = "denied" => i \in denied')
      BY <1>2 DEF TypeOK
    <3>2. \A j \in Ids : IsHead(p, j)' => j = i
      BY <1>1, <1>2, HeadUnique DEF IsHead
    <3>3. \A j \in batch'[p] : snap'[p][j] <= errors'[j]
                               /\ snap'[p][j] < MAX_ATTEMPTS
      BY <1>1, <1>3 DEF Inv, WorkerMemory, MemoryOf, TypeOK
    <3>4. snap'[p][i] < errors'[i]
      BY <1>1, <1>2, <1>3 DEF Inv, WorkerMemory, MemoryOf, IsHead, TypeOK
    <3> QED
      BY <2>1, <3>1, <3>2, <3>3, <3>4 DEF MemoryOf, Busy
  <2>2. CASE q # p
    <3>1. phase'[q] = phase[q] /\ MemoryOf(q)
      BY <1>2, <2>2 DEF Inv, WorkerMemory, TypeOK
    <3> QED
      BY <1>1, <1>2, <1>3, <3>1, MemoryKept
  <2> QED
    BY <2>1, <2>2
<1>7. RefersToRows' /\ SentMeansDelivered'
  BY <1>1, <1>4 DEF Inv, RefersToRows, Stored, SentMeansDelivered
<1>8. FailedIsJustified'
  BY <1>1, <1>2, <1>3, AttemptsAssumption DEF Inv, FailedIsJustified, TypeOK
<1>9. AttemptsAreErrors'
  <2> SUFFICES ASSUME NEW j \in Ids
               PROVE  /\ outbox[j].attempts <= errors'[j]
                      /\ outbox[j].status \in {"pending", "sending"} =>
                             outbox[j].attempts < MAX_ATTEMPTS
    BY <1>1 DEF AttemptsAreErrors
  <2>1. outbox[j].attempts \in Nat
    BY DEF TypeOK, Row
  <2> QED
    BY <1>3, <2>1 DEF Inv, AttemptsAreErrors, TypeOK
<1> QED
  BY <1>5, <1>6, <1>7, <1>8, <1>9 DEF Inv

LEMMA LateArrivalInv ==
  ASSUME TypeOK, Inv, NEW i \in Ids, LateArrival(i)
  PROVE  Inv'
<1>1. UNCHANGED <<outbox, phase, batch, snap, errors, denied>>
      /\ wire' \subseteq wire
  BY DEF LateArrival, dbVars, workerVars
<1>2. SameKeys /\ Stored(i)
  BY <1>1 DEF SameKeys, Stored, LateArrival, Inv, RefersToRows
<1>3. KeysMatchDeliveries'
      /\ \A j \in Ids : deliveries[j] = 1 => deliveries'[j] = 1
  <2>1. CASE Deliver(i)
    BY <1>2, <2>1, DeliverKeepsKeys DEF Inv
  <2>2. CASE UNCHANGED <<seen, deliveries>>
    BY <1>2, <2>2, KeysKept DEF Inv
  <2> QED
    BY <2>1, <2>2 DEF LateArrival
<1>4. WorkerMemory'
  <2> SUFFICES ASSUME NEW q \in Procs PROVE MemoryOf(q)'
    BY DEF WorkerMemory
  <2>1. MemoryOf(q)
    BY DEF Inv, WorkerMemory
  <2>2. errors' \in [Ids -> Nat] /\ \A j \in Ids : errors[j] <= errors'[j]
    BY <1>1 DEF TypeOK
  <2> QED
    BY <1>1, <1>3, <2>1, <2>2, MemoryKept
<1>5. RefersToRows'
  BY <1>1, <1>2 DEF Inv, RefersToRows, Stored
<1>6. SentMeansDelivered' /\ FailedIsJustified' /\ AttemptsAreErrors'
  BY <1>1, <1>3 DEF Inv, SentMeansDelivered, FailedIsJustified, AttemptsAreErrors
<1> QED
  BY <1>3, <1>4, <1>5, <1>6 DEF Inv

\* A worker that loses its batch, by an exception or by dying.
LEMMA BatchLostInv ==
  ASSUME TypeOK, Inv, NEW p \in Procs, BatchFails(p) \/ Crash(p)
  PROVE  Inv'
<1>1. UNCHANGED <<outbox, seen, deliveries, errors, denied>>
  BY DEF BatchFails, Crash, dbVars
<1>2. SameKeys
  BY <1>1 DEF SameKeys, Stored
<1>3. KeysMatchDeliveries'
  BY <1>1, <1>2, KeysKept DEF Inv
<1>4. batch'[p] = {}
      /\ \A q \in Procs \ {p} : /\ phase'[q] = phase[q]
                                /\ batch'[q] = batch[q]
                                /\ snap'[q] = snap[q]
  BY DEF BatchFails, Crash, TypeOK
<1>5. wire' \subseteq wire \cup batch[p]
  BY DEF BatchFails, Crash, LeaveOnWire, IsHead
<1>6. RefersToRows'
  BY <1>1, <1>4, <1>5 DEF Inv, RefersToRows, Stored
<1>7. WorkerMemory'
  BY <1>1, <1>4 DEF Inv, WorkerMemory, MemoryOf, Busy, IsHead
<1>8. SentMeansDelivered' /\ FailedIsJustified' /\ AttemptsAreErrors'
  BY <1>1 DEF Inv, SentMeansDelivered, FailedIsJustified, AttemptsAreErrors
<1> QED
  BY <1>3, <1>6, <1>7, <1>8 DEF Inv

LEMMA InvNext == TypeOK /\ Inv /\ [Next]_vars => Inv'
<1> SUFFICES ASSUME TypeOK, Inv, [Next]_vars PROVE Inv'
  OBVIOUS
<1>1. CASE UNCHANGED vars
  BY <1>1 DEF vars, Inv, RefersToRows, KeysMatchDeliveries, WorkerMemory,
     MemoryOf, IsHead, SentMeansDelivered, FailedIsJustified,
     AttemptsAreErrors, Stored, Busy, Key
<1>2. CASE Next
  BY <1>2, EnqueueInv, ElapseInv, LateArrivalInv, ClaimInv, MarkSentInv,
     HandleRefusalInv, FailDeniedInv, MarkCannotWriteInv, VKAcceptInv,
     VKErrorInv, BatchLostInv, StartInv
     DEF Next, WorkerStep, VKAnswers
<1> QED
  BY <1>1, <1>2

\* What workers remember, what the table says and what VK has seen agree, with
\* any number of overlapping processes and every fault (outbox.py).
THEOREM InvCorrect == Spec => []Inv
BY TypeInit, TypeNext, InvInit, InvNext, PTL DEF Spec

\* No peer is shown a message twice, with any number of overlapping processes,
\* crashes, time-outs and late requests.
THEOREM AtMostOnceCorrect == Spec => []AtMostOnce
<1>1. Inv => AtMostOnce
  BY DEF Inv, KeysMatchDeliveries, AtMostOnce
<1> QED
  BY <1>1, InvCorrect, PTL

\* A row is 'sent' only after its message was shown.
THEOREM SentMeansDeliveredCorrect == Spec => []SentMeansDelivered
<1>1. Inv => SentMeansDelivered
  BY DEF Inv
<1> QED
  BY <1>1, InvCorrect, PTL

\* A row is 'failed' only after MAX_ATTEMPTS errors of VK, or after a 901.
THEOREM FailedIsJustifiedCorrect == Spec => []FailedIsJustified
<1>1. Inv => FailedIsJustified
  BY DEF Inv
<1> QED
  BY <1>1, InvCorrect, PTL
-----------------------------------------------------------------------------
(* One process at a time.                                                  *)

LEMMA OthersIdle ==
  ASSUME Inv, SingleWorker, NEW p \in Procs, Up(p),
         NEW q \in Procs, q # p
  PROVE  phase[q] = "down" /\ batch[q] = {}
BY DEF Inv, WorkerMemory, MemoryOf, SingleWorker, Up, Busy

\* A row a worker is about to book an answer on is still the worker's.
LEMMA HeadIsSending ==
  ASSUME SingleWorker, NEW p \in Procs, NEW i \in Ids, IsHead(p, i),
         phase[p] # "unwritable"
  PROVE  outbox[i].status = "sending" /\ outbox[i].attempts = snap[p][i]
BY DEF SingleWorker, IsHead

LEMMA SingleInit == Init => SingleWorker
BY DEF Init, SingleWorker, Up

\* Preserved by a step of p that leaves the other workers alone, if p stays the
\* only one and the rows left in its batch are still its own.
LEMMA SingleKept ==
  ASSUME TypeOK, Inv, SingleWorker, NEW p \in Procs, Up(p),
         \A q \in Procs \ {p} : phase'[q] = phase[q] /\ batch'[q] = batch[q],
         \A i \in batch'[p] :
            \/ outbox'[i].status = "sending" /\ outbox'[i].attempts = snap'[p][i]
            \/ outbox'[i].status = "failed" /\ phase'[p] = "unwritable"
               /\ IsHead(p, i)'
  PROVE  SingleWorker'
<1>1. \A q \in Procs \ {p} : phase'[q] = "down" /\ batch'[q] = {}
  BY OthersIdle
<1> QED
  BY <1>1 DEF SingleWorker, Up

LEMMA SingleClaim ==
  ASSUME TypeOK, Inv, SingleWorker, NEW p \in Procs, Claim(p)
  PROVE  SingleWorker'
<1>1. Up(p)
  BY DEF Claim, Up
<1>2. batch'[p] = Claimed
      /\ \A q \in Procs \ {p} : phase'[q] = phase[q] /\ batch'[q] = batch[q]
  BY DEF Claim, TypeOK
<1>3. \A i \in Claimed : i \in Ids
  BY DEF Claimed, Claimable
<1>4. \A i \in Claimed : /\ outbox'[i].status = "sending"
                         /\ outbox'[i].attempts = snap'[p][i]
  BY <1>3 DEF Claim, TypeOK, Row
<1> QED
  BY <1>1, <1>2, <1>4, SingleKept

\* Booking an answer on the head and going on with the rest of the batch.
LEMMA SingleAdvance ==
  ASSUME TypeOK, Inv, SingleWorker, NEW p \in Procs, NEW i \in Ids,
         IsHead(p, i), Busy(p), Advance(p, i),
         \A j \in Ids : j # i => outbox'[j] = outbox[j]
  PROVE  SingleWorker'
<1>1. Up(p)
  BY DEF Busy, Up
<1>2. batch'[p] = batch[p] \ {i}
      /\ (\A j \in batch'[p] : j \in Ids /\ snap'[p][j] = snap[p][j])
      /\ \A q \in Procs \ {p} : phase'[q] = phase[q] /\ batch'[q] = batch[q]
  BY DEF Advance, TypeOK
<1>3. \A j \in batch'[p] : outbox[j].status = "sending"
                           /\ outbox[j].attempts = snap[p][j]
  BY <1>2, HeadUnique DEF SingleWorker
<1>4. \A j \in batch'[p] : /\ outbox'[j].status = "sending"
                           /\ outbox'[j].attempts = snap'[p][j]
  BY <1>2, <1>3
<1> QED
  BY <1>1, <1>2, <1>4, SingleKept

LEMMA SingleFailDenied ==
  ASSUME TypeOK, Inv, SingleWorker, NEW p \in Procs, NEW i \in Ids,
         FailDenied(p, i)
  PROVE  SingleWorker'
<1>1. Up(p) /\ IsHead(p, i) /\ phase[p] = "denied"
  BY DEF FailDenied, Up
<1>2. UNCHANGED <<batch, snap>>
      /\ phase'[p] = "unwritable"
      /\ \A q \in Procs \ {p} : phase'[q] = phase[q]
  BY DEF FailDenied, TypeOK
<1>3. outbox'[i].status = "failed" /\ \A j \in Ids : j # i => outbox'[j] = outbox[j]
  BY DEF FailDenied, TypeOK, Row
<1>4. IsHead(p, i)'
  BY <1>1, <1>2 DEF IsHead
<1>5. \A j \in batch[p] : j \in Ids /\ outbox[j].status = "sending"
                          /\ outbox[j].attempts = snap[p][j]
  BY <1>1 DEF SingleWorker, TypeOK
<1> QED
  BY <1>1, <1>2, <1>3, <1>4, <1>5, SingleKept

LEMMA SingleAnswer ==
  ASSUME TypeOK, Inv, SingleWorker, NEW p \in Procs, VKAnswers(p)
  PROVE  SingleWorker'
<1>1. UNCHANGED <<outbox, batch, snap>> /\ phase[p] = "call"
      /\ \A q \in Procs \ {p} : phase'[q] = phase[q]
  BY DEF VKAnswers, VKAccept, VKRefuse, VKDeny, dbVars, TypeOK
<1>2. Up(p)
  BY <1>1 DEF Up
<1>3. \A j \in batch[p] : outbox[j].status = "sending"
                          /\ outbox[j].attempts = snap[p][j]
  BY <1>1 DEF SingleWorker
<1> QED
  BY <1>1, <1>2, <1>3, SingleKept

LEMMA SingleLost ==
  ASSUME TypeOK, Inv, SingleWorker, NEW p \in Procs, BatchFails(p) \/ Crash(p)
  PROVE  SingleWorker'
<1>1. Up(p)
  BY DEF BatchFails, Crash, Busy, Up
<1>2. batch'[p] = {}
      /\ \A q \in Procs \ {p} : phase'[q] = phase[q] /\ batch'[q] = batch[q]
  BY DEF BatchFails, Crash, TypeOK
<1> QED
  BY <1>1, <1>2, SingleKept

LEMMA SingleStart ==
  ASSUME TypeOK, Inv, SingleWorker, \A q \in Procs : ~Up(q), NEW p \in Procs, Start(p)
  PROVE  SingleWorker'
<1>1. \A q \in Procs : phase[q] = "down" /\ batch[q] = {}
  BY DEF Up, Inv, WorkerMemory, MemoryOf, Busy
<1>2. batch' = batch /\ \A q \in Procs \ {p} : phase'[q] = phase[q]
  BY DEF Start, TypeOK
<1> QED
  BY <1>1, <1>2 DEF SingleWorker, Up

\* A producer or the clock: no row in a batch changes status or attempts.
LEMMA SingleTable ==
  ASSUME TypeOK, Inv, SingleWorker, UNCHANGED <<phase, batch, snap>>,
         \A j \in Ids : Stored(j) => /\ outbox'[j].status = outbox[j].status
                                     /\ outbox'[j].attempts = outbox[j].attempts
  PROVE  SingleWorker'
<1>1. \A p \in Procs : \A j \in batch[p] : j \in Ids /\ Stored(j)
  BY DEF Inv, RefersToRows, TypeOK
<1> QED
  BY <1>1 DEF SingleWorker, Up, IsHead
LEMMA SingleNext ==
  ASSUME TypeOK, Inv, SingleWorker, [Next]_vars,
         \A p \in Procs : Start(p) => \A q \in Procs : ~Up(q)
  PROVE  SingleWorker'
<1>1. ASSUME NEW i \in Ids, NEW u \in Peers, NEW r \in RandomIds,
             Enqueue(i, u, r)
      PROVE  SingleWorker'
  <2>1. \A j \in Ids : Stored(j) => outbox'[j] = outbox[j]
    BY <1>1, IdsAssumption DEF Enqueue, TypeOK
  <2> QED
    BY <1>1, <2>1, SingleTable DEF Enqueue, workerVars
<1>2. ASSUME NEW i \in Ids, Elapse(i) PROVE SingleWorker'
  <2>1. \A j \in Ids : /\ outbox'[j].status = outbox[j].status
                       /\ outbox'[j].attempts = outbox[j].attempts
    BY <1>2 DEF Elapse, TypeOK, Row
  <2> QED
    BY <1>2, <2>1, SingleTable DEF Elapse, workerVars
<1>3. ASSUME NEW i \in Ids, LateArrival(i) PROVE SingleWorker'
  BY <1>3, SingleTable DEF LateArrival, dbVars, workerVars
<1>4. ASSUME NEW p \in Procs, NEW i \in Ids,
             MarkSent(p, i) \/ HandleRefusal(p, i) \/ MarkCannotWrite(p, i)
      PROVE  SingleWorker'
  <2>1. \A j \in Ids : j # i => outbox'[j] = outbox[j]
    BY <1>4 DEF MarkSent, HandleRefusal, MarkCannotWrite, TypeOK
  <2> QED
    BY <1>4, <2>1, SingleAdvance DEF MarkSent, HandleRefusal, MarkCannotWrite, Busy
<1>5. CASE UNCHANGED vars
  BY <1>5, SingleTable DEF vars
<1> QED
  BY <1>1, <1>2, <1>3, <1>4, <1>5, SingleClaim, SingleFailDenied, SingleAnswer,
     SingleLost, SingleStart DEF Next, WorkerStep

\* Overlap is a constant, so it stays off along a behaviour.
THEOREM SingleWorkerCorrect == ASSUME ~Overlap PROVE Spec => []SingleWorker
<1>1. TypeOK /\ Inv /\ SingleWorker /\ [Next]_vars => SingleWorker'
  BY SingleNext DEF Start
<1> QED
  BY <1>1, TypeCorrect, InvCorrect, SingleInit, PTL DEF Spec

-----------------------------------------------------------------------------
(* The mark of a user who forbids messages.                                 *)

\* While the worker is not booking an answer 901, all are booked.
LEMMA MarkedElsewhere ==
  ASSUME Inv, SingleWorker, NEW p \in Procs, Up(p),
         phase[p] \notin {"denied", "unwritable"}, NEW i \in Ids, Marked(i)
  PROVE  ~canWrite[outbox[i].peer]
BY OthersIdle DEF Marked

\* A row keeps its peer, and is never taken out of the table.
LEMMA RowsStay ==
  ASSUME TypeOK, Inv, [Next]_vars, NEW j \in Ids
  PROVE  /\ Stored(j) => Stored(j)' /\ outbox'[j].peer = outbox[j].peer
         /\ Stored(j)' => Stored(j) \/ outbox'[j].peer \in Peers
<1> USE DEF TypeOK, Row, Stored
<1>1. CASE outbox'[j] = outbox[j]
  BY <1>1
<1>2. ASSUME NEW i \in Ids, NEW u \in Peers, NEW r \in RandomIds, Enqueue(i, u, r)
      PROVE  outbox'[j] = outbox[j] \/ (~Stored(j) /\ outbox'[j].peer \in Peers)
  BY <1>2, IdsAssumption DEF Enqueue
<1>3. ASSUME NEW i \in Ids, Elapse(i)
      PROVE  outbox'[j].status = outbox[j].status /\ outbox'[j].peer = outbox[j].peer
  BY <1>3 DEF Elapse
<1>4. ASSUME NEW p \in Procs, Claim(p)
      PROVE  \/ outbox'[j] = outbox[j]
             \/ Stored(j) /\ Stored(j)' /\ outbox'[j].peer = outbox[j].peer
  BY <1>4 DEF Claim, Claimed, Claimable
<1>5. ASSUME NEW p \in Procs, NEW i \in Ids,
             \/ MarkSent(p, i) \/ HandleRefusal(p, i)
             \/ FailDenied(p, i) \/ MarkCannotWrite(p, i)
      PROVE  \/ outbox'[j] = outbox[j]
             \/ Stored(j) /\ Stored(j)' /\ outbox'[j].peer = outbox[j].peer
  <2>1. Stored(i)
    BY <1>5 DEF MarkSent, HandleRefusal, FailDenied, MarkCannotWrite, IsHead, Inv, RefersToRows
  <2> QED
    BY <1>5, <2>1 DEF MarkSent, HandleRefusal, FailDenied, MarkCannotWrite
<1>6. ASSUME NEW p \in Procs, Start(p)
      PROVE  \/ outbox'[j] = outbox[j]
             \/ Stored(j) /\ Stored(j)' /\ outbox'[j].peer = outbox[j].peer
  BY <1>6 DEF Start, Recovered
<1>7. ASSUME NEW p \in Procs, VKAnswers(p) \/ BatchFails(p) \/ Crash(p)
      PROVE  outbox'[j] = outbox[j]
  BY <1>7 DEF VKAnswers, VKAccept, VKRefuse, VKDeny, BatchFails, Crash, dbVars
<1>8. ASSUME NEW i \in Ids, LateArrival(i) PROVE outbox'[j] = outbox[j]
  BY <1>8 DEF LateArrival, dbVars
<1>9. CASE UNCHANGED vars
  BY <1>9 DEF vars
<1> QED
  BY <1>1, <1>2, <1>3, <1>4, <1>5, <1>6, <1>7, <1>8, <1>9 DEF Next, WorkerStep

\* Only VK shows messages and answers errors.
LEMMA OnlyVK ==
  ASSUME [Next]_vars
  PROVE  /\ \/ UNCHANGED deliveries
            \/ \E p \in Procs, i \in Ids : VKAccept(p, i)
            \/ \E i \in Ids : LateArrival(i)
         /\ \/ UNCHANGED errors
            \/ \E p \in Procs, i \in Ids : VKRefuse(p, i) \/ VKDeny(p, i)
<1>1. ASSUME NEW p \in Procs, Claim(p) \/ BatchFails(p) \/ Crash(p) \/ Start(p)
      PROVE  UNCHANGED <<deliveries, errors>>
  BY <1>1 DEF Claim, BatchFails, Crash, Start, vkVars
<1>2. ASSUME NEW p \in Procs, NEW i \in Ids, MarkSent(p, i) \/ HandleRefusal(p, i)
      PROVE  UNCHANGED <<deliveries, errors>>
  BY <1>2 DEF MarkSent, HandleRefusal, vkVars
<1>3. ASSUME NEW p \in Procs, NEW i \in Ids, FailDenied(p, i) \/ MarkCannotWrite(p, i)
      PROVE  UNCHANGED <<deliveries, errors>>
  BY <1>3 DEF FailDenied, MarkCannotWrite, vkVars
<1>4. ASSUME NEW p \in Procs, NEW i \in Ids, VKRefuse(p, i) \/ VKDeny(p, i)
      PROVE  UNCHANGED deliveries
  BY <1>4 DEF VKRefuse, VKDeny
<1>5. ASSUME NEW p \in Procs, NEW i \in Ids, VKAccept(p, i)
      PROVE  UNCHANGED errors
  BY <1>5 DEF VKAccept
<1>6. ASSUME NEW i \in Ids, LateArrival(i)
      PROVE  UNCHANGED errors
  BY <1>6 DEF LateArrival
<1>7. ASSUME NEW i \in Ids, NEW u \in Peers, NEW r \in RandomIds, Enqueue(i, u, r)
      PROVE  UNCHANGED <<deliveries, errors>>
  BY <1>7 DEF Enqueue, vkVars
<1>8. ASSUME NEW i \in Ids, Elapse(i)
      PROVE  UNCHANGED <<deliveries, errors>>
  BY <1>8 DEF Elapse, vkVars
<1>9. CASE UNCHANGED vars
  BY <1>9 DEF vars, vkVars
<1> QED
  BY <1>1, <1>2, <1>3, <1>4, <1>5, <1>6, <1>7, <1>8, <1>9 DEF Next, WorkerStep, VKAnswers

\* Only the worker marks a user, and never takes the mark back.
LEMMA MarkStays ==
  ASSUME TypeOK, [Next]_vars, NEW u \in Peers, ~canWrite[u]
  PROVE  ~canWrite'[u]
<1>1. CASE UNCHANGED canWrite
  BY <1>1
<1>2. ASSUME NEW p \in Procs, NEW i \in Ids, MarkCannotWrite(p, i) PROVE ~canWrite'[u]
  BY <1>2 DEF MarkCannotWrite, TypeOK
<1>3. ASSUME NEW p \in Procs,
             \/ Claim(p) \/ BatchFails(p) \/ Crash(p) \/ Start(p)
             \/ \E i \in Ids : \/ MarkSent(p, i) \/ HandleRefusal(p, i)
                              \/ FailDenied(p, i)
      PROVE  UNCHANGED canWrite
  BY <1>3 DEF Claim, BatchFails, Crash, Start, MarkSent, HandleRefusal, FailDenied, dbVars
<1>4. ASSUME NEW p \in Procs, NEW i \in Ids,
             VKAccept(p, i) \/ VKRefuse(p, i) \/ VKDeny(p, i)
      PROVE  UNCHANGED canWrite
  BY <1>4 DEF VKAccept, VKRefuse, VKDeny, dbVars
<1>5. ASSUME NEW i \in Ids,
             \/ LateArrival(i) \/ Elapse(i)
             \/ \E v \in Peers, r \in RandomIds : Enqueue(i, v, r)
      PROVE  UNCHANGED canWrite
  BY <1>5 DEF LateArrival, Elapse, Enqueue, dbVars
<1> QED
  BY <1>1, <1>2, <1>3, <1>4, <1>5 DEF Next, WorkerStep, VKAnswers, vars

\* A step after which the first worker still runs: what it was booking is booked,
\* or it is booking it still.
LEMMA DeniedStep ==
  ASSUME TypeOK, Inv, SingleWorker, [Next]_vars, ~Faults,
         \A i \in Ids : Stored(i) => outbox[i].peer \in Peers,
         \A i \in denied : Stored(i) /\ Marked(i),
         \A p \in Procs : ~Start(p) /\ ~Crash(p)
  PROVE  \A i \in denied' : (Stored(i) /\ Marked(i))'
<1> SUFFICES ASSUME NEW i \in denied' PROVE (Stored(i) /\ Marked(i))'
  OBVIOUS
<1> USE DEF TypeOK
<1>1. ASSUME i \in denied PROVE Stored(i)' /\ outbox'[i].peer = outbox[i].peer /\ i \in Ids
  BY <1>1, RowsStay
<1>2. ASSUME i \in denied, ~canWrite[outbox[i].peer] PROVE (Stored(i) /\ Marked(i))'
  BY <1>1, <1>2, MarkStays DEF Marked
<1>3. ASSUME i \in denied, UNCHANGED <<canWrite, phase, batch>>
      PROVE  (Stored(i) /\ Marked(i))'
  BY <1>1, <1>3 DEF Marked, IsHead
<1>4. ASSUME NEW p \in Procs, Up(p), phase[p] \notin {"denied", "unwritable"}, i \in denied
      PROVE  (Stored(i) /\ Marked(i))'
  <2>1. ~canWrite[outbox[i].peer]
    BY <1>4, MarkedElsewhere
  <2> QED
    BY <1>2, <1>4, <2>1
<1>5. ASSUME NEW j \in Ids, NEW u \in Peers, NEW r \in RandomIds, Enqueue(j, u, r)
      PROVE  (Stored(i) /\ Marked(i))'
  BY <1>3, <1>5 DEF Enqueue, workerVars, vkVars
<1>6. ASSUME NEW j \in Ids, Elapse(j) \/ LateArrival(j)
      PROVE  (Stored(i) /\ Marked(i))'
  BY <1>3, <1>6 DEF Elapse, LateArrival, workerVars, vkVars, dbVars
<1>7. ASSUME NEW p \in Procs, Claim(p) PROVE (Stored(i) /\ Marked(i))'
  BY <1>4, <1>7 DEF Claim, Up, vkVars
<1>8. ASSUME NEW p \in Procs, NEW j \in Ids, MarkSent(p, j) \/ HandleRefusal(p, j)
      PROVE  (Stored(i) /\ Marked(i))'
  BY <1>4, <1>8 DEF MarkSent, HandleRefusal, Up, vkVars
<1>9. ASSUME NEW p \in Procs, NEW j \in Ids, FailDenied(p, j)
      PROVE  (Stored(i) /\ Marked(i))'
  <2>1. /\ phase'[p] = "unwritable" /\ \A q \in Procs \ {p} : phase'[q] = phase[q]
        /\ UNCHANGED <<canWrite, batch, denied>>
    BY <1>9 DEF FailDenied, vkVars
  <2>2. i \in denied
    BY <2>1
  <2>3. ASSUME NEW q \in Procs, phase[q] \in {"denied", "unwritable"}, IsHead(q, i)
        PROVE  phase'[q] \in {"denied", "unwritable"} /\ IsHead(q, i)'
    BY <2>1, <2>3 DEF IsHead
  <2> QED
    BY <1>1, <1>2, <2>2, <2>3 DEF Marked
<1>10. ASSUME NEW p \in Procs, NEW j \in Ids, MarkCannotWrite(p, j)
       PROVE  (Stored(i) /\ Marked(i))'
  <2>1. /\ phase[p] = "unwritable" /\ IsHead(p, j) /\ i \in denied
        /\ canWrite' = [canWrite EXCEPT ![outbox[j].peer] = FALSE]
    BY <1>10 DEF MarkCannotWrite, vkVars
  <2>2. ASSUME NEW q \in Procs, phase[q] \in {"denied", "unwritable"}, IsHead(q, i)
        PROVE  i = j
    <3>1. q = p
      BY <2>1, <2>2, OthersIdle DEF Up
    <3> QED
      BY <1>1, <2>1, <2>2, <3>1, HeadUnique
  <2>3. i = j => ~canWrite'[outbox'[i].peer]
    BY <1>1, <2>1
  <2> QED
    BY <1>1, <1>2, <2>1, <2>2, <2>3 DEF Marked
<1>11. ASSUME NEW p \in Procs, NEW j \in Ids, VKAccept(p, j) \/ VKRefuse(p, j)
       PROVE  (Stored(i) /\ Marked(i))'
  BY <1>4, <1>11 DEF VKAccept, VKRefuse, Up
<1>12. ASSUME NEW p \in Procs, NEW j \in Ids, VKDeny(p, j)
       PROVE  (Stored(i) /\ Marked(i))'
  <2>1. CASE i = j
    <3>1. Stored(j)
      BY <1>12 DEF VKDeny, IsHead, Inv, RefersToRows
    <3>2. IsHead(p, j)' /\ phase'[p] = "denied" /\ Stored(j)'
      BY <1>12, <3>1 DEF VKDeny, IsHead, dbVars, Stored
    <3> QED
      BY <2>1, <3>2 DEF Marked
  <2>2. CASE i # j
    BY <1>4, <1>12, <2>2 DEF VKDeny, Up
  <2> QED
    BY <2>1, <2>2
<1>13. CASE UNCHANGED vars
  BY <1>3, <1>13 DEF vars
<1> QED
  BY <1>5, <1>6, <1>7, <1>8, <1>9, <1>10, <1>11, <1>12, <1>13
     DEF Next, WorkerStep, VKAnswers, BatchFails

\* How many processes were started, and when none runs.
LEMMA StartsStep ==
  ASSUME TypeOK, [Next]_vars
  PROVE  /\ starts' = starts \/ \E p \in Procs : Start(p) /\ starts' = starts + 1
         /\ (\A p \in Procs : ~Up(p)) /\ UNCHANGED starts =>
               (\A p \in Procs : ~Up(p)') /\ UNCHANGED denied
<1> USE DEF TypeOK, Up
<1>1. ASSUME NEW p \in Procs, Start(p) PROVE starts' = starts + 1 /\ starts' # starts
  BY <1>1 DEF Start
<1>2. ASSUME NEW p \in Procs, WorkerStep(p) \/ VKAnswers(p) \/ BatchFails(p) \/ Crash(p)
      PROVE  Up(p) /\ UNCHANGED starts
  BY <1>2 DEF WorkerStep, Claim, MarkSent, HandleRefusal, FailDenied, MarkCannotWrite,
     VKAnswers, VKAccept, VKRefuse, VKDeny, BatchFails, Busy, Crash
<1>3. ASSUME \/ \E i \in Ids, u \in Peers, r \in RandomIds : Enqueue(i, u, r)
             \/ \E i \in Ids : Elapse(i) \/ LateArrival(i)
             \/ UNCHANGED vars
      PROVE  UNCHANGED <<starts, phase, denied>>
  BY <1>3 DEF Enqueue, Elapse, LateArrival, workerVars, vkVars, vars
<1> QED
  BY <1>1, <1>2, <1>3 DEF Next

LEMMA FirstRunStep ==
  ASSUME TypeOK, Inv, FirstRun, ~Faults, [Next]_vars
  PROVE  FirstRun'
<1>1. \A i \in Ids : Stored(i)' => outbox'[i].peer \in Peers
  BY RowsStay DEF FirstRun
<1>2. starts \in Nat /\ starts' \in Nat /\ (starts' = starts \/ starts' = starts + 1)
  BY StartsStep DEF TypeOK
<1>3. ASSUME starts' = 0 PROVE denied' = {} /\ \A p \in Procs : ~Up(p)'
  <2>1. starts = 0 /\ starts' = starts
    BY <1>2, <1>3
  <2> QED
    BY <2>1, StartsStep DEF FirstRun
<1>4. ASSUME starts' <= 1, NEW p \in Procs, Start(p)
      PROVE  denied = {} /\ \A q \in Procs : ~Up(q)
  <2>1. starts = 0
    BY <1>2, <1>4 DEF Start
  <2> QED
    BY <2>1 DEF FirstRun
<1>5. starts' <= 1 => SingleWorker /\ SingleWorker'
  BY <1>2, <1>4, SingleNext DEF FirstRun
<1>6. ASSUME starts' = 1, \E p \in Procs : Up(p)'
      PROVE  \A i \in denied' : (Stored(i) /\ Marked(i))'
  <2>1. ASSUME NEW p \in Procs, Start(p) PROVE denied' = {}
    <3>1. denied = {}
      BY <1>2, <1>4, <1>6, <2>1
    <3> QED
      BY <2>1, <3>1 DEF Start, vkVars
  <2>2. CASE \A p \in Procs : ~Start(p)
    <3>1. starts = 1 /\ starts' = starts
      BY <1>2, <1>6, <2>2, StartsStep
    <3>2. \E p \in Procs : Up(p)
      BY <1>6, <3>1, StartsStep
    <3>3. ASSUME NEW p \in Procs, Crash(p) PROVE FALSE
      <4>1. \A q \in Procs \ {p} : phase'[q] = phase[q] /\ phase[q] = "down"
        BY <1>5, <1>6, <3>3, OthersIdle DEF Crash, TypeOK
      <4>2. phase'[p] = "down"
        BY <3>3 DEF Crash, TypeOK
      <4> QED
        BY <1>6, <4>1, <4>2 DEF Up
    <3> QED
      BY <1>5, <1>6, <2>2, <3>1, <3>2, <3>3, DeniedStep DEF FirstRun
  <2> QED
    BY <2>1, <2>2
<1> QED
  BY <1>1, <1>3, <1>5, <1>6 DEF FirstRun

\* A user who forbids messages is marked, in any run of the service in which no
\* exception leaves a batch, until the process is started again.
THEOREM DeniedPeersMarkedCorrect == ASSUME ~Faults PROVE Spec => []DeniedPeersMarked
<1>1. Init => FirstRun
  BY SingleInit DEF Init, FirstRun, Up, Stored, NoRow
<1>2. TypeOK /\ Inv /\ FirstRun /\ [Next]_vars => FirstRun'
  BY FirstRunStep
<1>3. TypeOK /\ FirstRun => DeniedPeersMarked
  <2> SUFFICES ASSUME TypeOK, FirstRun, starts = 1, \E p \in Procs : Up(p),
                      NEW i \in Ids, outbox[i].status = "failed", i \in denied,
                      canWrite[outbox[i].peer]
               PROVE  \E p \in Procs : phase[p] = "unwritable" /\ IsHead(p, i)
    BY DEF DeniedPeersMarked
  <2>1. PICK p \in Procs : phase[p] \in {"denied", "unwritable"} /\ IsHead(p, i)
    BY DEF FirstRun, Marked
  <2>2. phase[p] # "denied"
    BY <2>1, HeadIsSending DEF FirstRun
  <2> QED
    BY <2>1, <2>2
<1> QED
  BY <1>1, <1>2, <1>3, TypeCorrect, InvCorrect, PTL DEF Spec
-----------------------------------------------------------------------------
(* The verdict is final.                                                   *)

LEMMA SettledStep ==
  ASSUME TypeOK, Inv, SingleWorker, [Next]_vars, NEW k \in Ids, Settled(k)
  PROVE  outbox'[k].status = outbox[k].status
<1>1. outbox[k].status \in {"sent", "failed"}
  BY DEF Settled
<1>2. ASSUME NEW i \in Ids, NEW u \in Peers, NEW r \in RandomIds,
             Enqueue(i, u, r)
      PROVE  outbox'[k].status = outbox[k].status
  BY <1>1, <1>2, IdsAssumption DEF Enqueue, Stored, TypeOK
<1>3. ASSUME NEW i \in Ids, Elapse(i)
      PROVE  outbox'[k].status = outbox[k].status
  BY <1>3 DEF Elapse, TypeOK, Row
<1>4. ASSUME NEW p \in Procs, Claim(p) PROVE outbox'[k] = outbox[k]
  BY <1>1, <1>4 DEF Claim, Claimed, Claimable
<1>5. ASSUME NEW p \in Procs, NEW i \in Ids,
             MarkSent(p, i) \/ HandleRefusal(p, i) \/ FailDenied(p, i)
      PROVE  outbox'[k] = outbox[k]
  <2>1. k # i
    BY <1>1, <1>5, HeadIsSending DEF MarkSent, HandleRefusal, FailDenied
  <2> QED
    BY <1>5, <2>1 DEF MarkSent, HandleRefusal, FailDenied, TypeOK
<1>6. ASSUME NEW p \in Procs, Start(p) PROVE outbox'[k] = outbox[k]
  BY <1>1, <1>6 DEF Start, Recovered
<1>7. ASSUME \/ \E i \in Ids : LateArrival(i)
             \/ \E p \in Procs : \/ \E i \in Ids : MarkCannotWrite(p, i)
                                 \/ VKAnswers(p) \/ BatchFails(p) \/ Crash(p)
             \/ UNCHANGED vars
      PROVE  outbox' = outbox
  BY <1>7 DEF LateArrival, MarkCannotWrite, VKAnswers, VKAccept, VKRefuse,
              VKDeny, BatchFails, Crash, dbVars, vars
<1> QED
  BY <1>2, <1>3, <1>4, <1>5, <1>6, <1>7 DEF Next, WorkerStep

\* With one process at a time, no step takes back a verdict.
THEOREM SettledIsFinalCorrect == ASSUME ~Overlap PROVE Spec => SettledIsFinal
<1>1. TypeOK /\ Inv /\ SingleWorker /\ [Next]_vars =>
        [\A i \in Ids : Settled(i) => outbox'[i].status = outbox[i].status]_vars
  BY SettledStep
<1> QED
  BY <1>1, TypeCorrect, InvCorrect, SingleWorkerCorrect, PTL
     DEF Spec, SettledIsFinal

-----------------------------------------------------------------------------
(* The queue implements Delivery.                                          *)

Reports == [i \in Ids |-> Report(i)]

LEMMA ReportChanges ==
  ASSUME NEW i \in Ids, \A j \in Ids : j # i => Report(j)' = Report(j)
  PROVE  Reports' = [Reports EXCEPT ![i] = Report(i)']
BY DEF Reports

LEMMA ReportKept ==
  ASSUME \A j \in Ids : Report(j)' = Report(j)
  PROVE  Reports' = Reports
BY DEF Reports

LEMMA ImplementsInit == Init => D!Init
BY DEF Init, D!Init, Report, NoRow

LEMMA ImplementsEnqueue ==
  ASSUME TypeOK, NEW i \in Ids, NEW u \in Peers, NEW r \in RandomIds,
         Enqueue(i, u, r)
  PROVE  D!Post(i)
<1>1. outbox[i].status = "none" /\ outbox'[i].status = "pending"
      /\ \A j \in Ids : j # i => outbox'[j] = outbox[j]
  BY IdsAssumption DEF Enqueue, Stored, TypeOK
<1>2. Reports' = [Reports EXCEPT ![i] = "open"]
  BY <1>1, ReportChanges DEF Report
<1>3. UNCHANGED <<deliveries, errors, denied>>
  BY DEF Enqueue, vkVars
<1> QED
  BY <1>1, <1>2, <1>3 DEF D!Post, Reports, Report

LEMMA ImplementsDeliver ==
  ASSUME TypeOK, Inv, NEW i \in Ids, Stored(i), Deliver(i),
         UNCHANGED <<outbox, errors, denied>>
  PROVE  D!Show(i) \/ UNCHANGED D!vars
<1>1. Reports' = Reports
  BY DEF Reports, Report
<1>2. CASE Key(i) \in seen
  BY <1>1, <1>2 DEF Deliver, D!vars, Reports
<1>3. CASE Key(i) \notin seen
  <2>1. deliveries[i] = 0
    BY <1>3 DEF Inv, KeysMatchDeliveries
  <2>2. deliveries' = [deliveries EXCEPT ![i] = 1]
    BY <1>3, <2>1 DEF Deliver
  <2>3. Reports[i] # "none"
    BY DEF Reports, Report, Stored
  <2> QED
    BY <1>1, <2>1, <2>2, <2>3 DEF D!Show, Reports
<1> QED
  BY <1>2, <1>3

LEMMA ImplementsAnswer ==
  ASSUME TypeOK, Inv, NEW p \in Procs, VKAnswers(p)
  PROVE  [D!Next]_(D!vars)
<1>1. ASSUME NEW i \in Ids, VKAccept(p, i) PROVE [D!Next]_(D!vars)
  <2>1. Stored(i) /\ Deliver(i) /\ UNCHANGED <<outbox, errors, denied>>
    BY <1>1 DEF VKAccept, IsHead, Inv, RefersToRows, dbVars
  <2> QED
    BY <2>1, ImplementsDeliver DEF D!Next
<1>2. ASSUME NEW i \in Ids, VKRefuse(p, i) \/ VKDeny(p, i)
      PROVE  D!Refuse(i)
  <2>1. Stored(i) /\ UNCHANGED <<outbox, deliveries>>
        /\ errors' = [errors EXCEPT ![i] = @ + 1]
        /\ (denied' = denied \/ denied' = denied \cup {i})
    BY <1>2 DEF VKRefuse, VKDeny, IsHead, Inv, RefersToRows, dbVars
  <2>2. Reports' = Reports /\ Reports[i] # "none"
    BY <2>1 DEF Reports, Report, Stored
  <2> QED
    BY <2>1, <2>2 DEF D!Refuse, Reports
<1> QED
  BY <1>1, <1>2 DEF VKAnswers, D!Next

LEMMA ImplementsBooking ==
  ASSUME TypeOK, Inv, SingleWorker, NEW p \in Procs, NEW i \in Ids,
         MarkSent(p, i) \/ HandleRefusal(p, i) \/ FailDenied(p, i)
  PROVE  [D!Next]_(D!vars)
<1>1. outbox[i].status = "sending" /\ IsHead(p, i)
      /\ \A j \in Ids : j # i => outbox'[j] = outbox[j]
  BY HeadIsSending DEF MarkSent, HandleRefusal, FailDenied, TypeOK
<1>2. UNCHANGED <<deliveries, errors, denied>>
  BY DEF MarkSent, HandleRefusal, FailDenied, vkVars
<1>3. Reports[i] = "open" /\ Reports' = [Reports EXCEPT ![i] = Report(i)']
  BY <1>1, ReportChanges DEF Report, Reports
<1>4. CASE MarkSent(p, i)
  <2>1. outbox'[i].status = "sent" /\ deliveries[i] = 1
    BY <1>1, <1>4 DEF MarkSent, Inv, WorkerMemory, MemoryOf, TypeOK, Row
  <2>2. D!Confirm(i)
    BY <1>2, <1>3, <2>1 DEF D!Confirm, Reports, Report
  <2> QED
    BY <2>2 DEF D!Next
<1>5. CASE HandleRefusal(p, i)
  <2>1. snap[p][i] < errors[i] /\ snap[p][i] \in Nat /\ errors[i] \in Nat
    BY <1>1, <1>5 DEF HandleRefusal, Inv, WorkerMemory, MemoryOf, TypeOK
  <2>2. outbox'[i].status = IF snap[p][i] + 1 >= MAX_ATTEMPTS
                            THEN "failed" ELSE "pending"
    BY <1>5 DEF HandleRefusal, LastAttempt, TypeOK, Row
  <2>3. CASE snap[p][i] + 1 >= MAX_ATTEMPTS
    <3>1. errors[i] >= MAX_ATTEMPTS /\ Report(i)' = "failed"
      BY <2>1, <2>2, <2>3, AttemptsAssumption DEF Report
    <3> QED
      BY <1>2, <1>3, <3>1 DEF D!GiveUp, D!Next, Reports
  <2>4. CASE ~(snap[p][i] + 1 >= MAX_ATTEMPTS)
    <3>1. Reports' = Reports
      BY <1>1, <2>2, <2>4, ReportKept DEF Report
    <3> QED
      BY <1>2, <3>1 DEF D!vars, Reports
  <2> QED
    BY <2>3, <2>4
<1>6. CASE FailDenied(p, i)
  <2>1. outbox'[i].status = "failed" /\ i \in denied
    BY <1>1, <1>6 DEF FailDenied, Inv, WorkerMemory, MemoryOf, TypeOK, Row
  <2>2. D!GiveUp(i)
    BY <1>2, <1>3, <2>1 DEF D!GiveUp, Reports, Report
  <2> QED
    BY <2>2 DEF D!Next
<1> QED
  BY <1>4, <1>5, <1>6

LEMMA ImplementsStutter ==
  ASSUME UNCHANGED <<deliveries, errors, denied>>,
         \A j \in Ids : \/ outbox'[j].status = outbox[j].status
                        \/ /\ outbox[j].status \in {"pending", "sending"}
                           /\ outbox'[j].status \in {"pending", "sending"}
  PROVE  UNCHANGED D!vars
<1>1. Reports' = Reports
  BY ReportKept DEF Report
<1> QED
  BY <1>1 DEF D!vars, Reports

LEMMA ImplementsNext ==
  TypeOK /\ Inv /\ SingleWorker /\ [Next]_vars => [D!Next]_(D!vars)
<1> SUFFICES ASSUME TypeOK, Inv, SingleWorker, [Next]_vars
             PROVE  [D!Next]_(D!vars)
  OBVIOUS
<1>1. ASSUME NEW i \in Ids, NEW u \in Peers, NEW r \in RandomIds,
             Enqueue(i, u, r)
      PROVE  [D!Next]_(D!vars)
  BY <1>1, ImplementsEnqueue DEF D!Next
<1>2. ASSUME NEW i \in Ids, Elapse(i) PROVE UNCHANGED D!vars
  <2>1. \A j \in Ids : outbox'[j].status = outbox[j].status
    BY <1>2 DEF Elapse, TypeOK, Row
  <2> QED
    BY <1>2, <2>1, ImplementsStutter DEF Elapse, vkVars
<1>3. ASSUME NEW i \in Ids, LateArrival(i) PROVE [D!Next]_(D!vars)
  <2>1. Stored(i) /\ UNCHANGED <<outbox, errors, denied>>
    BY <1>3 DEF LateArrival, Inv, RefersToRows, dbVars
  <2>2. CASE Deliver(i)
    BY <2>1, <2>2, ImplementsDeliver DEF D!Next
  <2>3. CASE UNCHANGED <<seen, deliveries>>
    BY <2>1, <2>3, ImplementsStutter
  <2> QED
    BY <1>3, <2>2, <2>3 DEF LateArrival
<1>4. ASSUME NEW p \in Procs, Claim(p) PROVE UNCHANGED D!vars
  <2>1. \A j \in Ids : \/ outbox'[j].status = outbox[j].status
                       \/ /\ outbox[j].status = "pending"
                          /\ outbox'[j].status = "sending"
    BY <1>4 DEF Claim, Claimed, Claimable, TypeOK, Row
  <2> QED
    BY <1>4, <2>1, ImplementsStutter DEF Claim, vkVars
<1>5. ASSUME NEW p \in Procs, Start(p) PROVE UNCHANGED D!vars
  <2>1. \A j \in Ids : \/ outbox'[j].status = outbox[j].status
                       \/ /\ outbox[j].status = "sending"
                          /\ outbox'[j].status = "pending"
    BY <1>5 DEF Start, Recovered, TypeOK, Row
  <2> QED
    BY <1>5, <2>1, ImplementsStutter DEF Start, vkVars
<1>6. ASSUME \/ \E p \in Procs : \/ \E i \in Ids : MarkCannotWrite(p, i)
                                 \/ BatchFails(p) \/ Crash(p)
             \/ UNCHANGED vars
      PROVE  UNCHANGED D!vars
  <2>1. UNCHANGED <<outbox, deliveries, errors, denied>>
    BY <1>6 DEF MarkCannotWrite, BatchFails, Crash, dbVars, vkVars, vars
  <2> QED
    BY <2>1, ImplementsStutter
<1> QED
  BY <1>1, <1>2, <1>3, <1>4, <1>5, <1>6, ImplementsAnswer, ImplementsBooking
     DEF Next, WorkerStep

\* With one process at a time, the queue implements its abstract specification.
THEOREM ImplementsDeliveryCorrect ==
  ASSUME ~Overlap PROVE Spec => ImplementsDelivery
BY ImplementsInit, ImplementsNext, TypeCorrect, InvCorrect,
   SingleWorkerCorrect, PTL DEF Spec, ImplementsDelivery, D!Spec

-----------------------------------------------------------------------------
(* The order of a dialog.                                                  *)

\* A row that was shown, or that VK has answered an error for, stays one.
LEMMA PassedStays ==
  ASSUME TypeOK, Inv, [Next]_vars, NEW i \in Ids
  PROVE  /\ errors[i] > 0 => errors'[i] > 0
         /\ deliveries[i] = 1 => deliveries'[i] = 1
         /\ Passed(i) => Passed(i)'
<1> USE DEF TypeOK
<1>1. ASSUME NEW j \in Ids, Stored(j), Deliver(j), UNCHANGED outbox, deliveries[i] = 1
      PROVE  deliveries'[i] = 1
  <2>1. SameKeys
    BY <1>1 DEF SameKeys, Stored
  <2> QED
    BY <1>1, <2>1, DeliverKeepsKeys DEF Inv
<1>2. ASSUME NEW p \in Procs, NEW j \in Ids, VKAccept(p, j), deliveries[i] = 1
      PROVE  deliveries'[i] = 1
  BY <1>1, <1>2 DEF VKAccept, dbVars, IsHead, Inv, RefersToRows
<1>3. ASSUME NEW j \in Ids, LateArrival(j), deliveries[i] = 1
      PROVE  deliveries'[i] = 1
  BY <1>1, <1>3 DEF LateArrival, dbVars, Inv, RefersToRows
<1>4. ASSUME NEW p \in Procs, NEW j \in Ids, VKRefuse(p, j) \/ VKDeny(p, j)
      PROVE  deliveries' = deliveries /\ errors' = [errors EXCEPT ![j] = @ + 1]
  BY <1>4 DEF VKRefuse, VKDeny
<1>5. \/ UNCHANGED errors
      \/ \E p \in Procs, j \in Ids : VKRefuse(p, j) \/ VKDeny(p, j)
  BY OnlyVK
<1>6. \/ UNCHANGED deliveries
      \/ \E p \in Procs, j \in Ids : VKAccept(p, j)
      \/ \E j \in Ids : LateArrival(j)
  BY OnlyVK
<1>7. errors[i] > 0 => errors'[i] > 0
  BY <1>4, <1>5
<1>8. deliveries[i] = 1 => deliveries'[i] = 1
  BY <1>2, <1>3, <1>6
<1> QED
  BY <1>7, <1>8 DEF Passed

\* A row that is new stands behind all others.
LEMMA NewRowIsLast ==
  ASSUME TypeOK, Inv, [Next]_vars, NEW i \in Ids, NEW j \in Ids,
         Stored(j), Stored(i)', i < j
  PROVE  Stored(i)
<1> SUFFICES ASSUME ~Stored(i) PROVE FALSE
  OBVIOUS
<1> USE DEF TypeOK, Row, Stored
<1>1. ASSUME NEW k \in Ids, NEW u \in Peers, NEW r \in RandomIds, Enqueue(k, u, r)
      PROVE  FALSE
  <2>1. i = k
    BY <1>1 DEF Enqueue
  <2> QED
    BY <1>1, <2>1, IdsAssumption DEF Enqueue
<1>2. ASSUME NEW k \in Ids, Elapse(k) PROVE FALSE
  BY <1>2 DEF Elapse
<1>3. ASSUME NEW p \in Procs, Claim(p) \/ Start(p) PROVE FALSE
  BY <1>3 DEF Claim, Claimed, Claimable, Start, Recovered
<1>4. ASSUME NEW p \in Procs, NEW k \in Ids,
             \/ MarkSent(p, k) \/ HandleRefusal(p, k)
             \/ FailDenied(p, k) \/ MarkCannotWrite(p, k)
      PROVE  FALSE
  <2>1. Stored(k)
    BY <1>4 DEF MarkSent, HandleRefusal, FailDenied, MarkCannotWrite, IsHead, Inv, RefersToRows
  <2> QED
    BY <1>4, <2>1 DEF MarkSent, HandleRefusal, FailDenied, MarkCannotWrite
<1>5. ASSUME \/ \E k \in Ids : LateArrival(k)
             \/ \E p \in Procs : VKAnswers(p) \/ BatchFails(p) \/ Crash(p)
             \/ UNCHANGED vars
      PROVE  FALSE
  BY <1>5 DEF LateArrival, VKAnswers, VKAccept, VKRefuse, VKDeny, BatchFails, Crash,
     dbVars, vars
<1> QED
  BY <1>1, <1>2, <1>3, <1>4, <1>5 DEF Next, WorkerStep

LEMMA ClearedStays ==
  ASSUME TypeOK, Inv, [Next]_vars, NEW j \in Ids, Stored(j), Cleared(j)
  PROVE  Cleared(j)'
<1> SUFFICES ASSUME NEW i \in Ids, i < j, Stored(i)' PROVE Passed(i)'
  BY DEF Cleared
<1>1. Stored(i)
  BY NewRowIsLast
<1> QED
  BY <1>1, PassedStays DEF Cleared

\* The row the loop is at comes after all that were to be tried before it.
LEMMA HeadIsCleared ==
  ASSUME NothingJumpsAhead, NEW p \in Procs, NEW i \in Ids, IsHead(p, i)
  PROVE  Cleared(i)
<1> SUFFICES ASSUME NEW k \in Ids, k < i, Stored(k) PROVE Passed(k)
  BY DEF Cleared
<1>1. k \notin batch[p]
  BY IdsAssumption DEF IsHead
<1> QED
  BY <1>1 DEF NothingJumpsAhead, IsHead

\* The steps as seen by the worker that takes them.
LEMMA JumpErrors ==
  ASSUME TypeOK, Inv, NothingJumpsAhead, [Next]_vars
  PROVE  \A i \in Ids : outbox'[i].next = "later" \/ i \in denied' => errors'[i] > 0
<1> SUFFICES ASSUME NEW i \in Ids, outbox'[i].next = "later" \/ i \in denied'
             PROVE  errors'[i] > 0
  OBVIOUS
<1> USE DEF TypeOK, Row
<1>1. CASE outbox[i].next = "later" \/ i \in denied
  BY <1>1, PassedStays DEF NothingJumpsAhead
<1>2. CASE ~(outbox[i].next = "later" \/ i \in denied)
  <2>1. ASSUME NEW k \in Ids, NEW u \in Peers, NEW r \in RandomIds, Enqueue(k, u, r)
        PROVE  FALSE
    BY <1>2, <2>1 DEF Enqueue, vkVars
  <2>2. ASSUME NEW k \in Ids, Elapse(k) PROVE FALSE
    BY <1>2, <2>2 DEF Elapse, vkVars
  <2>3. ASSUME NEW p \in Procs, Claim(p) PROVE FALSE
    BY <1>2, <2>3 DEF Claim, Claimed, Claimable, vkVars
  <2>4. ASSUME NEW p \in Procs, Start(p) PROVE FALSE
    BY <1>2, <2>4 DEF Start, Recovered, vkVars
  <2>5. ASSUME NEW p \in Procs, NEW k \in Ids, MarkSent(p, k) \/ FailDenied(p, k)
        PROVE  FALSE
    <3>1. denied' = denied
      BY <2>5 DEF MarkSent, FailDenied, vkVars
    <3>2. CASE MarkSent(p, k)
      BY <1>2, <3>1, <3>2 DEF MarkSent
    <3>3. CASE FailDenied(p, k)
      BY <1>2, <3>1, <3>3 DEF FailDenied
    <3> QED
      BY <2>5, <3>2, <3>3
  <2>6. ASSUME NEW p \in Procs, NEW k \in Ids, HandleRefusal(p, k) PROVE errors'[i] > 0
    <3>1. i = k
      BY <1>2, <2>6 DEF HandleRefusal, vkVars
    <3> QED
      BY <2>6, <3>1 DEF HandleRefusal, NothingJumpsAhead, vkVars
  <2>7. ASSUME NEW p \in Procs, NEW k \in Ids, VKDeny(p, k) PROVE errors'[i] > 0
    BY <1>2, <2>7 DEF VKDeny, dbVars
  <2>8. ASSUME \/ \E k \in Ids : LateArrival(k)
               \/ \E p \in Procs : \/ \E k \in Ids : \/ MarkCannotWrite(p, k)
                                                     \/ VKAccept(p, k) \/ VKRefuse(p, k)
                                   \/ BatchFails(p) \/ Crash(p)
               \/ UNCHANGED vars
        PROVE  FALSE
    BY <1>2, <2>8 DEF LateArrival, MarkCannotWrite, VKAccept, VKRefuse, BatchFails, Crash,
       dbVars, vkVars, vars
  <2> QED
    BY <2>1, <2>2, <2>3, <2>4, <2>5, <2>6, <2>7, <2>8 DEF Next, WorkerStep, VKAnswers
<1> QED
  BY <1>1, <1>2

\* A step that does not change what worker q is at.
LEMMA HeadStays ==
  ASSUME TypeOK, Inv, SingleWorker, NothingJumpsAhead, [Next]_vars, NEW q \in Procs,
         phase'[q] = phase[q], batch'[q] = batch[q], NEW i \in Ids, IsHead(q, i)',
         \A j \in Ids : Settled(j) => outbox'[j].status = outbox[j].status
  PROVE  /\ phase'[q] \in {"refused", "denied", "unwritable"} => errors'[i] > 0
         /\ phase'[q] = "unwritable" => outbox'[i].status = "failed"
<1>1. IsHead(q, i)
  BY DEF IsHead
<1> QED
  BY <1>1, PassedStays DEF NothingJumpsAhead, Settled

LEMMA JumpHeads ==
  ASSUME TypeOK, Inv, SingleWorker, NothingJumpsAhead, [Next]_vars
  PROVE  \A p \in Procs, i \in Ids : IsHead(p, i)' =>
            /\ phase'[p] \in {"refused", "denied", "unwritable"} => errors'[i] > 0
            /\ phase'[p] = "unwritable" => outbox'[i].status = "failed"
<1> SUFFICES ASSUME NEW q \in Procs, NEW i \in Ids, IsHead(q, i)',
                    phase'[q] \in {"refused", "denied", "unwritable"}
             PROVE  /\ errors'[i] > 0
                    /\ phase'[q] = "unwritable" => outbox'[i].status = "failed"
  OBVIOUS
<1> USE DEF TypeOK
<1>1. CASE phase'[q] = phase[q] /\ batch'[q] = batch[q]
  BY <1>1, HeadStays, SettledStep
<1>2. CASE ~(phase'[q] = phase[q] /\ batch'[q] = batch[q])
  <2>1. ASSUME NEW p \in Procs, NEW k \in Ids, FailDenied(p, k)
        PROVE  /\ errors'[i] > 0 /\ outbox'[i].status = "failed"
    <3>1. p = q /\ IsHead(q, k) /\ IsHead(q, i) /\ phase[q] = "denied"
      BY <1>2, <2>1 DEF FailDenied, IsHead
    <3>2. i = k
      BY <3>1, HeadUnique
    <3> QED
      BY <2>1, <3>1, <3>2, PassedStays DEF FailDenied, NothingJumpsAhead, Row
  <2>2. ASSUME NEW p \in Procs, NEW k \in Ids, VKRefuse(p, k) \/ VKDeny(p, k)
        PROVE  errors'[i] > 0 /\ phase'[q] # "unwritable"
    <3>1. p = q /\ IsHead(q, k) /\ IsHead(q, i)
      BY <1>2, <2>2 DEF VKRefuse, VKDeny, IsHead
    <3>2. i = k
      BY <3>1, HeadUnique
    <3> QED
      BY <2>2, <3>1, <3>2 DEF VKRefuse, VKDeny
  <2>3. ASSUME NEW p \in Procs,
               \/ Claim(p) \/ BatchFails(p) \/ Crash(p) \/ Start(p)
               \/ \E k \in Ids : \/ MarkSent(p, k) \/ HandleRefusal(p, k)
                                \/ MarkCannotWrite(p, k) \/ VKAccept(p, k)
        PROVE  FALSE
    <3>1. ASSUME Claim(p) \/ BatchFails(p) \/ Crash(p) \/ Start(p) PROVE FALSE
      BY <1>2, <3>1 DEF Claim, BatchFails, Crash, Start
    <3>2. ASSUME NEW k \in Ids, MarkSent(p, k) \/ HandleRefusal(p, k) PROVE FALSE
      BY <1>2, <3>2 DEF MarkSent, HandleRefusal, Advance
    <3>3. ASSUME NEW k \in Ids, MarkCannotWrite(p, k) \/ VKAccept(p, k) PROVE FALSE
      BY <1>2, <3>3 DEF MarkCannotWrite, VKAccept, Advance
    <3> QED
      BY <2>3, <3>1, <3>2, <3>3
  <2>4. ASSUME \/ \E k \in Ids, u \in Peers, r \in RandomIds : Enqueue(k, u, r)
               \/ \E k \in Ids : Elapse(k) \/ LateArrival(k)
               \/ UNCHANGED vars
        PROVE  FALSE
    BY <1>2, <2>4 DEF Enqueue, Elapse, LateArrival, workerVars, vars
  <2> QED
    BY <2>1, <2>2, <2>3, <2>4 DEF Next, WorkerStep, VKAnswers
<1> QED
  BY <1>1, <1>2

LEMMA JumpShown ==
  ASSUME TypeOK, Inv, NothingJumpsAhead, [Next]_vars
  PROVE  \A j \in Ids : deliveries'[j] = 1 \/ j \in wire' => Cleared(j)'
<1> SUFFICES ASSUME NEW j \in Ids, deliveries'[j] = 1 \/ j \in wire' PROVE Cleared(j)'
  OBVIOUS
<1> USE DEF TypeOK
<1>1. ASSUME NEW p \in Procs, IsHead(p, j) PROVE Cleared(j)'
  <2>1. Stored(j)
    BY <1>1 DEF IsHead, Inv, RefersToRows
  <2> QED
    BY <1>1, <2>1, HeadIsCleared, ClearedStays
<1>2. CASE deliveries[j] = 1 \/ j \in wire
  <2>1. Stored(j)
    BY <1>2 DEF Inv, RefersToRows, KeysMatchDeliveries
  <2> QED
    BY <1>2, <2>1, ClearedStays DEF NothingJumpsAhead
<1>3. CASE ~(deliveries[j] = 1 \/ j \in wire)
  <2>1. ASSUME NEW p \in Procs, NEW k \in Ids, VKAccept(p, k) PROVE Cleared(j)'
    <3>1. j = k
      BY <1>3, <2>1 DEF VKAccept, Deliver
    <3> QED
      BY <1>1, <2>1, <3>1 DEF VKAccept
  <2>2. ASSUME NEW k \in Ids, LateArrival(k) PROVE FALSE
    BY <1>3, <2>2 DEF LateArrival, Deliver
  <2>3. ASSUME NEW p \in Procs, BatchFails(p) \/ Crash(p) PROVE Cleared(j)'
    <3>1. PICK k \in batch[p] : IsHead(p, k) /\ wire' = wire \cup {k}
      BY <1>3, <2>3 DEF BatchFails, Crash, LeaveOnWire
    <3>2. j = k
      BY <1>3, <2>3, <3>1 DEF BatchFails, Crash
    <3> QED
      BY <1>1, <3>1, <3>2
  <2>4. ASSUME \/ \E k \in Ids, u \in Peers, r \in RandomIds : Enqueue(k, u, r)
               \/ \E k \in Ids : Elapse(k)
               \/ \E p \in Procs : \/ WorkerStep(p) \/ Start(p)
                                   \/ \E k \in Ids : VKRefuse(p, k) \/ VKDeny(p, k)
               \/ UNCHANGED vars
        PROVE  FALSE
    <3>1. ASSUME NEW p \in Procs, WorkerStep(p) PROVE UNCHANGED <<deliveries, wire>>
      BY <3>1 DEF WorkerStep, Claim, MarkSent, HandleRefusal, FailDenied,
         MarkCannotWrite, vkVars
    <3>2. ASSUME NEW p \in Procs, NEW k \in Ids, VKRefuse(p, k) \/ VKDeny(p, k)
          PROVE  deliveries' = deliveries /\ wire' = wire
      BY <3>2 DEF VKRefuse, VKDeny
    <3>3. ASSUME NEW p \in Procs, Start(p) PROVE UNCHANGED <<deliveries, wire>>
      BY <3>3 DEF Start, vkVars
    <3>4. ASSUME NEW k \in Ids, NEW u \in Peers, NEW r \in RandomIds, Enqueue(k, u, r)
          PROVE  UNCHANGED <<deliveries, wire>>
      BY <3>4 DEF Enqueue, vkVars
    <3>5. ASSUME NEW k \in Ids, Elapse(k) PROVE UNCHANGED <<deliveries, wire>>
      BY <3>5 DEF Elapse, vkVars
    <3>6. UNCHANGED vars => UNCHANGED <<deliveries, wire>>
      BY DEF vars, vkVars
    <3>7. UNCHANGED <<deliveries, wire>>
      BY <2>4, <3>1, <3>2, <3>3, <3>4, <3>5, <3>6
    <3> QED
      BY <1>3, <3>7
  <2> QED
    BY <2>1, <2>2, <2>3, <2>4 DEF Next, VKAnswers
<1> QED
  BY <1>2, <1>3

\* What is claimed has no gap: LIMIT cuts off the end.
LEMMA ClaimedFirst ==
  ASSUME NEW i \in Claimable, NEW j \in Claimed, i < j
  PROVE  i \in Claimed
<1>1. i \in Nat /\ j \in Nat
  BY IdsAssumption DEF Claimable, Claimed
<1> DEFINE before(k) == {n \in Claimable : n < k}
<1>2. IsFiniteSet(0..j) /\ before(j) \in SUBSET (0..j) /\ before(i) \in SUBSET before(j)
  <2>1. IsFiniteSet(0..j)
    BY <1>1, FS_Interval
  <2>2. \A n \in Claimable : n \in Nat
    BY IdsAssumption DEF Claimable
  <2>3. \A n \in before(j) : n \in 0..j
    BY <1>1, <2>2
  <2>4. \A n \in before(i) : n \in before(j)
    BY <1>1, <2>2
  <2> QED
    BY <2>1, <2>3, <2>4
<1> HIDE DEF before
<1>3. IsFiniteSet(before(j))
  BY <1>2, FS_Subset
<1>4. Cardinality(before(i)) <= Cardinality(before(j)) /\ IsFiniteSet(before(i))
  BY <1>2, <1>3, FS_Subset
<1>5. Cardinality(before(i)) \in Nat /\ Cardinality(before(j)) \in Nat
  BY <1>3, <1>4, FS_CardinalityType
<1>6. Cardinality(before(j)) < BatchLimit
  BY DEF Claimed, before
<1>7. Cardinality(before(i)) < BatchLimit
  BY <1>4, <1>5, <1>6, BatchAssumption
<1> QED
  BY <1>7 DEF Claimed, before

\* An idle worker finds every row that was not tried yet to be claimable.
LEMMA UntriedIsClaimable ==
  ASSUME TypeOK, Inv, SingleWorker, NothingJumpsAhead, NEW p \in Procs, phase[p] = "idle",
         NEW i \in Ids, Stored(i), ~Passed(i)
  PROVE  i \in Claimable
<1> USE DEF TypeOK, Row, Status, Passed
<1>1. outbox[i].status # "sent"
  BY DEF Inv, SentMeansDelivered
<1>2. ~(errors[i] > 0) /\ errors[i] \in Nat
  BY DEF Passed
<1>3. outbox[i].status # "failed"
  BY <1>2, AttemptsAssumption DEF Inv, FailedIsJustified, NothingJumpsAhead
<1>4. outbox[i].status # "sending"
  <2>1. Up(p) /\ batch[p] = {}
    BY DEF Up, Inv, WorkerMemory, MemoryOf, Busy
  <2>2. \A q \in Procs : i \notin batch[q]
    BY <2>1, OthersIdle
  <2> QED
    BY <2>1, <2>2 DEF NothingJumpsAhead, ClaimedRowsAreHeld
<1>5. outbox[i].next = "now"
  BY <1>2 DEF NothingJumpsAhead
<1> QED
  BY <1>1, <1>3, <1>4, <1>5 DEF Claimable, Stored

LEMMA JumpBatches ==
  ASSUME TypeOK, Inv, SingleWorker, NothingJumpsAhead, [Next]_vars
  PROVE  \A p \in Procs : \A j \in batch'[p] : \A i \in Ids :
            i < j /\ Stored(i)' => Passed(i)' \/ i \in batch'[p]
<1> SUFFICES ASSUME NEW q \in Procs, NEW j \in batch'[q], NEW i \in Ids, i < j, Stored(i)',
                    ~Passed(i)'
             PROVE  i \in batch'[q]
  OBVIOUS
<1> USE DEF TypeOK
<1>1. ~Passed(i)
  BY PassedStays
<1>2. CASE j \in batch[q]
  <2>1. j \in Ids /\ Stored(j)
    BY <1>2 DEF Inv, RefersToRows
  <2>2. Stored(i) /\ i \in batch[q]
    BY <1>1, <1>2, <2>1, NewRowIsLast DEF NothingJumpsAhead
  <2>3. ASSUME NEW p \in Procs, NEW k \in Ids, Advance(p, k), IsHead(p, k),
               deliveries[k] = 1 \/ errors[k] > 0
        PROVE  i \in batch'[q]
    <3>1. i # k
      BY <1>1, <2>3 DEF Passed
    <3> QED
      BY <2>2, <2>3, <3>1 DEF Advance
  <2>4. ASSUME NEW p \in Procs, NEW k \in Ids, MarkSent(p, k) PROVE i \in batch'[q]
    <3>1. deliveries[k] = 1
      BY <2>4 DEF MarkSent, Inv, WorkerMemory, MemoryOf
    <3> QED
      BY <2>3, <2>4, <3>1 DEF MarkSent
  <2>5. ASSUME NEW p \in Procs, NEW k \in Ids, HandleRefusal(p, k) \/ MarkCannotWrite(p, k)
        PROVE  i \in batch'[q]
    <3>1. errors[k] > 0
      BY <2>5 DEF HandleRefusal, MarkCannotWrite, NothingJumpsAhead
    <3> QED
      BY <2>3, <2>5, <3>1 DEF HandleRefusal, MarkCannotWrite
  <2>6. ASSUME NEW p \in Procs, Claim(p) PROVE i \in batch'[q]
    <3>1. batch[p] = {}
      BY <2>6 DEF Claim, Inv, WorkerMemory, MemoryOf, Busy
    <3> QED
      BY <2>2, <2>6, <3>1 DEF Claim
  <2>7. ASSUME NEW p \in Procs, BatchFails(p) \/ Crash(p) PROVE i \in batch'[q]
    BY <2>2, <2>7 DEF BatchFails, Crash
  <2>8. ASSUME \/ \E k \in Ids, u \in Peers, r \in RandomIds : Enqueue(k, u, r)
               \/ \E k \in Ids : Elapse(k) \/ LateArrival(k)
               \/ \E p \in Procs : \/ Start(p) \/ VKAnswers(p)
                                   \/ \E k \in Ids : FailDenied(p, k)
               \/ UNCHANGED vars
        PROVE  i \in batch'[q]
    BY <2>2, <2>8 DEF Enqueue, Elapse, LateArrival, Start, VKAnswers, VKAccept, VKRefuse,
       VKDeny, FailDenied, workerVars, vars
  <2> QED
    BY <2>4, <2>5, <2>6, <2>7, <2>8 DEF Next, WorkerStep
<1>3. CASE j \notin batch[q]
  <2>1. Claim(q)
    <3>1. ASSUME NEW p \in Procs, \/ BatchFails(p) \/ Crash(p)
                                 \/ \E k \in Ids : Advance(p, k)
          PROVE  FALSE
      BY <1>3, <3>1 DEF BatchFails, Crash, Advance
    <3>2. ASSUME NEW p \in Procs, NEW k \in Ids,
                 MarkSent(p, k) \/ HandleRefusal(p, k) \/ MarkCannotWrite(p, k)
          PROVE  Advance(p, k)
      BY <3>2 DEF MarkSent, HandleRefusal, MarkCannotWrite
    <3>3. ASSUME NEW p \in Procs, \/ Start(p) \/ VKAnswers(p)
                                 \/ \E k \in Ids : FailDenied(p, k)
          PROVE  FALSE
      BY <1>3, <3>3 DEF Start, VKAnswers, VKAccept, VKRefuse, VKDeny, FailDenied
    <3>4. ASSUME \/ \E k \in Ids, u \in Peers, r \in RandomIds : Enqueue(k, u, r)
                 \/ \E k \in Ids : Elapse(k) \/ LateArrival(k)
                 \/ UNCHANGED vars
          PROVE  FALSE
      BY <1>3, <3>4 DEF Enqueue, Elapse, LateArrival, workerVars, vars
    <3>5. ASSUME NEW p \in Procs, Claim(p) PROVE p = q
      BY <1>3, <3>5 DEF Claim
    <3> QED
      BY <3>1, <3>2, <3>3, <3>4, <3>5 DEF Next, WorkerStep
  <2>2. batch'[q] = Claimed /\ phase[q] = "idle"
    BY <2>1 DEF Claim
  <2>3. Stored(i)
    <3>1. j \in Ids /\ Stored(j)
      BY <2>2 DEF Claimed, Claimable, Stored
    <3> QED
      BY <3>1, NewRowIsLast
  <2>4. i \in Claimable
    BY <1>1, <2>2, <2>3, UntriedIsClaimable
  <2> QED
    BY <2>2, <2>4, ClaimedFirst
<1> QED
  BY <1>2, <1>3

\* Without overlap and faults, the rows marked 'sending' are those of the worker.
LEMMA JumpHeld ==
  ASSUME TypeOK, Inv, SingleWorker, NothingJumpsAhead, [Next]_vars, ~Overlap, ~Faults
  PROVE  ClaimedRowsAreHeld'
<1> SUFFICES ASSUME NEW i \in Ids, outbox'[i].status = "sending"
             PROVE  \/ \E p \in Procs : i \in batch'[p]
                    \/ \A p \in Procs : ~Up(p)'
  BY DEF ClaimedRowsAreHeld
<1> USE DEF TypeOK, Row, Status
<1>1. ASSUME outbox[i].status = "sending", batch' = batch, phase' = phase
      PROVE  \/ \E p \in Procs : i \in batch'[p]
             \/ \A p \in Procs : ~Up(p)'
  BY <1>1 DEF NothingJumpsAhead, ClaimedRowsAreHeld, Up
<1>2. ASSUME outbox[i].status = "sending", NEW p \in Procs, Up(p)
      PROVE  i \in batch[p]
  <2>1. PICK q \in Procs : i \in batch[q]
    BY <1>2 DEF NothingJumpsAhead, ClaimedRowsAreHeld
  <2>2. q = p
    BY <1>2, <2>1, OthersIdle
  <2> QED
    BY <2>1, <2>2
<1>3. ASSUME NEW k \in Ids, NEW u \in Peers, NEW r \in RandomIds, Enqueue(k, u, r)
      PROVE  outbox[i].status = "sending" /\ batch' = batch /\ phase' = phase
  BY <1>3 DEF Enqueue, workerVars
<1>4. ASSUME NEW k \in Ids, Elapse(k)
      PROVE  outbox[i].status = "sending" /\ batch' = batch /\ phase' = phase
  BY <1>4 DEF Elapse, workerVars
<1>5. ASSUME NEW p \in Procs, Claim(p) PROVE i \in batch'[p]
  <2>1. Up(p) /\ batch[p] = {}
    BY <1>5 DEF Claim, Up, Inv, WorkerMemory, MemoryOf, Busy
  <2>2. outbox[i].status # "sending"
    BY <1>2, <2>1
  <2> QED
    BY <1>5, <2>2 DEF Claim
<1>6. ASSUME NEW p \in Procs, NEW k \in Ids,
             MarkSent(p, k) \/ HandleRefusal(p, k) \/ MarkCannotWrite(p, k)
      PROVE  i \in batch'[p]
  <2>1. Up(p) /\ IsHead(p, k) /\ Advance(p, k)
    BY <1>6 DEF MarkSent, HandleRefusal, MarkCannotWrite, Up
  <2>2. i # k
    BY <1>6 DEF MarkSent, HandleRefusal, MarkCannotWrite, NothingJumpsAhead
  <2>3. outbox[i].status = "sending"
    BY <1>6, <2>2 DEF MarkSent, HandleRefusal, MarkCannotWrite
  <2> QED
    BY <1>2, <2>1, <2>2, <2>3 DEF Advance
<1>7. ASSUME NEW p \in Procs, NEW k \in Ids, FailDenied(p, k) PROVE i \in batch'[p]
  <2>1. Up(p) /\ batch' = batch /\ outbox[i].status = "sending"
    BY <1>7 DEF FailDenied, Up
  <2> QED
    BY <1>2, <2>1
<1>8. ASSUME NEW p \in Procs, VKAnswers(p) PROVE i \in batch'[p]
  <2>1. Up(p) /\ batch' = batch /\ outbox' = outbox
    BY <1>8 DEF VKAnswers, VKAccept, VKRefuse, VKDeny, Up, dbVars
  <2> QED
    BY <1>2, <2>1
<1>9. ASSUME NEW p \in Procs, Crash(p) PROVE \A q \in Procs : ~Up(q)'
  BY <1>9, OthersIdle DEF Crash, Up
<1>10. ASSUME NEW p \in Procs, Start(p) PROVE FALSE
  BY <1>10 DEF Start, Recovered
<1>11. ASSUME (\E k \in Ids : LateArrival(k)) \/ UNCHANGED vars
       PROVE  outbox[i].status = "sending" /\ batch' = batch /\ phase' = phase
  BY <1>11 DEF LateArrival, dbVars, workerVars, vars
<1> QED
  BY <1>1, <1>3, <1>4, <1>5, <1>6, <1>7, <1>8, <1>9, <1>10, <1>11
     DEF Next, WorkerStep, BatchFails

\* The order in which rows are tried, along every behaviour.
LEMMA JumpsAheadCorrect == ASSUME ~Overlap, ~Faults PROVE Spec => []NothingJumpsAhead
<1>1. Init => NothingJumpsAhead
  BY DEF Init, NothingJumpsAhead, ClaimedRowsAreHeld, IsHead, NoRow, Up
<1>2. TypeOK /\ Inv /\ SingleWorker /\ NothingJumpsAhead /\ [Next]_vars => NothingJumpsAhead'
  <2> SUFFICES ASSUME TypeOK, Inv, SingleWorker, NothingJumpsAhead, [Next]_vars
               PROVE  NothingJumpsAhead'
    OBVIOUS
  <2> QED
    BY JumpErrors, JumpHeads, JumpShown, JumpBatches, JumpHeld DEF NothingJumpsAhead
<1> QED
  BY <1>1, <1>2, TypeCorrect, InvCorrect, SingleWorkerCorrect, PTL DEF Spec

\* Neither batches nor crashes and the recovery after them reorder a dialog: a
\* message is overtaken only if VK has answered an error for it (outbox.py).
THEOREM OvertakenOnlyIfRefusedCorrect ==
  ASSUME ~Overlap, ~Faults PROVE Spec => OvertakenOnlyIfRefused
<1>1. ASSUME TypeOK, Inv, NothingJumpsAhead, Next, NEW i \in Ids, errors[i] = 0
      PROVE  ShownInOrder(i)
  <2> SUFFICES ASSUME deliveries'[i] > deliveries[i], NEW j \in Ids, j > i, deliveries[j] > 0
               PROVE  FALSE
    BY DEF ShownInOrder
  <2>1. PICK k \in Ids : Stored(k) /\ Deliver(k)
    <3>1. \/ UNCHANGED deliveries
          \/ \E p \in Procs, k \in Ids : VKAccept(p, k)
          \/ \E k \in Ids : LateArrival(k)
      BY <1>1, OnlyVK
    <3>2. deliveries' # deliveries
      BY <1>1 DEF TypeOK
    <3> QED
      BY <1>1, <3>1, <3>2 DEF VKAccept, LateArrival, IsHead, Inv, RefersToRows
  <2>2. i = k /\ Key(i) \notin seen
    BY <1>1, <2>1 DEF Deliver, TypeOK
  <2>3. deliveries[i] = 0 /\ deliveries[j] = 1
    BY <1>1, <2>2 DEF Inv, KeysMatchDeliveries
  <2>4. Passed(i)
    BY <1>1, <2>1, <2>2, <2>3, IdsAssumption DEF NothingJumpsAhead, Cleared
  <2> QED
    BY <1>1, <2>3, <2>4 DEF Passed
<1>2. TypeOK /\ Inv /\ NothingJumpsAhead /\ [Next]_vars =>
        [\A i \in Ids : errors[i] = 0 => ShownInOrder(i)]_vars
  BY <1>1
<1> QED
  BY <1>2, TypeCorrect, InvCorrect, JumpsAheadCorrect, PTL DEF Spec, OvertakenOnlyIfRefused
=============================================================================

------------------------------- MODULE Outbox -------------------------------
(***************************************************************************)
(* The send queue of the bot: the table "outbox", the worker task that     *)
(* drains it (src/app/vk/outbox.py), its start-up recovery, and the VK     *)
(* method messages.send as the worker sees it (src/app/vk/client.py).      *)
(*                                                                         *)
(* Every SQL statement autocommits and is one step.  Every await of the    *)
(* worker is a point where the other tasks of the process run, where a     *)
(* database or network error can surface, and where the process can die.   *)
(*                                                                         *)
(* Abstractions: a payload is the row's id; next_attempt_at is reduced to  *)
(* "now" or "later"; VK's error codes are reduced to the one that is final *)
(* (901) and the rest; the 0.5 s idle sleep is an idle worker that is free *)
(* to poll at any time; the wait in the rate limiter is part of the call   *)
(* (module RateLimiter models it).                                         *)
(***************************************************************************)
EXTENDS Naturals, FiniteSets

CONSTANTS
    Ids,          \* outbox.id, a SERIAL: the rows that can ever exist
    Peers,        \* VK users
    RandomIds,    \* the range of secrets.randbelow(2**31 - 1) + 1
    Procs,        \* operating-system processes that can run the bot
    Null,         \* SQL NULL
    MAX_ATTEMPTS, \* outbox.py:19
    BatchLimit,   \* the limit argument of process_batch
    MaxStarts,    \* bound: how often a process is started
                  \* (railway.json: restartPolicyMaxRetries)
    Faults,       \* whether the network and the database can fail
    Overlap       \* whether a process can be started while another one runs

ASSUME IdsAssumption == Ids \subseteq Nat
ASSUME AttemptsAssumption == MAX_ATTEMPTS \in Nat \ {0}
ASSUME BatchAssumption == BatchLimit \in Nat \ {0}
ASSUME StartsAssumption == MaxStarts \in Nat
ASSUME NullAssumption == Null \notin Peers \cup RandomIds
ASSUME SwitchAssumption == Faults \in BOOLEAN /\ Overlap \in BOOLEAN

VARIABLES
    outbox,     \* table outbox: Ids -> Row
    canWrite,   \* column users.can_write of each peer
    phase,      \* where the worker task of each process is
    batch,      \* the claimed rows the worker has still to finish, by id
    snap,       \* column attempts of those rows, as RETURNING * read it
    starts,     \* how many times a process was started
    seen,       \* VK: the (peer, random_id) pairs it has accepted
    deliveries, \* VK: how often the peer was shown the message of each row
    errors,     \* VK: how many errors it answered for each row
    denied,     \* VK: the rows it answered 901 for
    wire        \* requests still travelling whose sender has given up on them

dbVars == <<outbox, canWrite>>
workerVars == <<phase, batch, snap>>
vkVars == <<seen, deliveries, errors, denied, wire>>
vars == <<outbox, canWrite, phase, batch, snap, starts,
          seen, deliveries, errors, denied, wire>>

Status == {"none", "pending", "sending", "sent", "failed"}

Row == [status : Status, peer : Peers \cup {Null},
        rid : RandomIds \cup {Null}, attempts : Nat, next : {"now", "later"}]

NoRow == [status |-> "none", peer |-> Null, rid |-> Null,
          attempts |-> 0, next |-> "now"]

(***************************************************************************)
(* "down": no process.  "idle": about to poll.  "call": inside client.call *)
(* for the head of the batch.  "accepted", "refused", "denied": VK has     *)
(* answered (a message id, a retryable error, 901).  "unwritable": between *)
(* the two statements of the 901 branch.                                   *)
(***************************************************************************)
Phase == {"down", "idle", "call", "accepted", "refused", "denied",
          "unwritable"}

Stored(i) == outbox[i].status # "none"

Up(p) == phase[p] # "down"

NoSnap == [i \in Ids |-> 0]

TypeOK ==
    /\ outbox \in [Ids -> Row]
    /\ canWrite \in [Peers -> BOOLEAN]
    /\ phase \in [Procs -> Phase]
    /\ batch \in [Procs -> SUBSET Ids]
    /\ snap \in [Procs -> [Ids -> Nat]]
    /\ starts \in Nat
    /\ seen \subseteq (Peers \cup {Null}) \X (RandomIds \cup {Null})
    /\ deliveries \in [Ids -> Nat]
    /\ errors \in [Ids -> Nat]
    /\ denied \subseteq Ids
    /\ wire \subseteq Ids

Init ==
    /\ outbox = [i \in Ids |-> NoRow]
    /\ canWrite = [u \in Peers |-> TRUE]
    /\ phase = [p \in Procs |-> "down"]
    /\ batch = [p \in Procs |-> {}]
    /\ snap = [p \in Procs |-> NoSnap]
    /\ starts = 0
    /\ seen = {}
    /\ deliveries = [i \in Ids |-> 0]
    /\ errors = [i \in Ids |-> 0]
    /\ denied = {}
    /\ wire = {}

-----------------------------------------------------------------------------
(* Producers: the handlers and the dashboard API.                          *)

\* A random id is drawn from 2^31 - 1 values; a peer never gets one twice.
FreshRid(u, r) == \A j \in Ids : Stored(j) /\ outbox[j].peer = u
                                    => outbox[j].rid # r

Enqueue(i, u, r) ==
    /\ \E p \in Procs : Up(p)
    /\ \A j \in Ids : Stored(j) => j < i
    /\ FreshRid(u, r)
    /\ outbox' = [outbox EXCEPT ![i] =
         [status |-> "pending", peer |-> u, rid |-> r,
          attempts |-> 0, next |-> "now"]]
    /\ UNCHANGED <<canWrite, workerVars, starts, vkVars>>

\* now() passes next_attempt_at.
Elapse(i) ==
    /\ outbox[i].status = "pending"
    /\ outbox[i].next = "later"
    /\ outbox' = [outbox EXCEPT ![i].next = "now"]
    /\ UNCHANGED <<canWrite, workerVars, starts, vkVars>>

-----------------------------------------------------------------------------
(* The worker: run_worker, process_batch, _send_one, _handle_error.        *)

Claimable == {i \in Ids : outbox[i].status = "pending" /\ outbox[i].next = "now"}

\* ORDER BY id LIMIT $1
Claimed == {i \in Claimable :
               Cardinality({j \in Claimable : j < i}) < BatchLimit}

Claim(p) ==
    /\ phase[p] = "idle"
    /\ Claimed # {}
    /\ outbox' = [i \in Ids |-> IF i \in Claimed
                                THEN [outbox[i] EXCEPT !.status = "sending"]
                                ELSE outbox[i]]
    /\ batch' = [batch EXCEPT ![p] = Claimed]
    /\ snap' = [snap EXCEPT ![p] = [i \in Ids |-> IF i \in Claimed
                                                  THEN outbox[i].attempts
                                                  ELSE 0]]
    /\ phase' = [phase EXCEPT ![p] = "call"]
    /\ UNCHANGED <<canWrite, starts, vkVars>>

\* Seeded bug: the batch is worked off in any order.
IsHeadUnsorted(p, i) == i \in batch[p]

\* sorted(rows, key=lambda r: r["id"]): the row the loop is at.
IsHead(p, i) == i \in batch[p] /\ \A j \in batch[p] : i <= j

\* Seeded bug: the loop comes back to a row it has already booked.
AdvanceNot(p, i) ==
    /\ phase' = [phase EXCEPT ![p] = "call"]
    /\ UNCHANGED <<batch, snap>>

\* The next iteration of the loop, or the next poll.
Advance(p, i) ==
    /\ batch' = [batch EXCEPT ![p] = @ \ {i}]
    /\ phase' = [phase EXCEPT ![p] = IF batch[p] = {i} THEN "idle" ELSE "call"]
    /\ snap' = [snap EXCEPT ![p][i] = 0]

MarkSent(p, i) ==
    /\ phase[p] = "accepted"
    /\ IsHead(p, i)
    /\ outbox' = [outbox EXCEPT ![i].status = "sent"]
    /\ Advance(p, i)
    /\ UNCHANGED <<canWrite, starts, vkVars>>

\* Seeded bug: the limit is off by one.
LastAttemptEarly(attempts) == attempts + 1 >= MAX_ATTEMPTS

LastAttempt(attempts) == attempts >= MAX_ATTEMPTS

HandleRefusal(p, i) ==
    LET attempts == snap[p][i] + 1 IN
    /\ phase[p] = "refused"
    /\ IsHead(p, i)
    /\ outbox' =
         IF LastAttempt(attempts)
         THEN [outbox EXCEPT ![i].status = "failed", ![i].attempts = attempts]
         ELSE [outbox EXCEPT ![i].status = "pending", ![i].attempts = attempts,
                             ![i].next = "later"]
    /\ Advance(p, i)
    /\ UNCHANGED <<canWrite, starts, vkVars>>

\* Seeded bug: the 901 branch forgets the user.
FailDeniedOnly(p, i) ==
    /\ phase[p] = "denied"
    /\ IsHead(p, i)
    /\ outbox' = [outbox EXCEPT ![i].status = "failed",
                                ![i].attempts = snap[p][i] + 1]
    /\ Advance(p, i)
    /\ UNCHANGED <<canWrite, starts, vkVars>>

FailDenied(p, i) ==
    /\ phase[p] = "denied"
    /\ IsHead(p, i)
    /\ outbox' = [outbox EXCEPT ![i].status = "failed",
                                ![i].attempts = snap[p][i] + 1]
    /\ phase' = [phase EXCEPT ![p] = "unwritable"]
    /\ UNCHANGED <<canWrite, batch, snap, starts, vkVars>>

\* q.mark_cannot_write, the second statement of the 901 branch.
MarkCannotWrite(p, i) ==
    /\ phase[p] = "unwritable"
    /\ IsHead(p, i)
    /\ canWrite' = [canWrite EXCEPT ![outbox[i].peer] = FALSE]
    /\ Advance(p, i)
    /\ UNCHANGED <<outbox, starts, vkVars>>

Busy(p) == phase[p] \notin {"down", "idle"}

\* A request in flight when its sender stops waiting may still arrive.
LeaveOnWire(p) ==
    \/ wire' = wire
    \/ /\ phase[p] = "call"
       /\ \E i \in batch[p] : IsHead(p, i) /\ wire' = wire \cup {i}

\* Any exception but VKCallError leaves process_batch: a time-out, a lost
\* answer, a database error.  run_worker logs it and polls again.
BatchFails(p) ==
    /\ Faults
    /\ Busy(p)
    /\ LeaveOnWire(p)
    /\ phase' = [phase EXCEPT ![p] = "idle"]
    /\ batch' = [batch EXCEPT ![p] = {}]
    /\ snap' = [snap EXCEPT ![p] = NoSnap]
    /\ UNCHANGED <<dbVars, starts, seen, deliveries, errors, denied>>

-----------------------------------------------------------------------------
(* The process: killed or shut down at any await, started by the platform. *)

Crash(p) ==
    /\ Up(p)
    /\ starts < MaxStarts
    /\ LeaveOnWire(p)
    /\ phase' = [phase EXCEPT ![p] = "down"]
    /\ batch' = [batch EXCEPT ![p] = {}]
    /\ snap' = [snap EXCEPT ![p] = NoSnap]
    /\ UNCHANGED <<dbVars, starts, seen, deliveries, errors, denied>>

\* Seeded bugs: no recovery; failed rows recovered too; an unknown status.
RecoveredNot(row) == row
RecoveredFailed(row) == IF row.status \in {"sending", "failed"}
                        THEN [row EXCEPT !.status = "pending"]
                        ELSE row
RecoveredUnknown(row) == IF row.status = "sending"
                         THEN [row EXCEPT !.status = "retry"]
                         ELSE row

\* recover_stuck
Recovered(row) == IF row.status = "sending"
                  THEN [row EXCEPT !.status = "pending"]
                  ELSE row

Start(p) ==
    /\ ~Up(p)
    /\ starts < MaxStarts
    /\ Overlap \/ \A q \in Procs : ~Up(q)
    /\ starts' = starts + 1
    /\ outbox' = [i \in Ids |-> Recovered(outbox[i])]
    /\ phase' = [phase EXCEPT ![p] = "idle"]
    /\ UNCHANGED <<canWrite, batch, snap, vkVars>>

-----------------------------------------------------------------------------
(* VK: messages.send.  A repeated random_id is answered and not shown.     *)

\* Seeded bugs: a retry draws a new random_id; a peer has only one.
KeyPerAttempt(i) ==
    <<outbox[i].peer, IF outbox[i].attempts = 0 THEN outbox[i].rid
                      ELSE CHOOSE r \in RandomIds : r # outbox[i].rid>>

Key(i) == <<outbox[i].peer, outbox[i].rid>>

Deliver(i) ==
    /\ seen' = seen \cup {Key(i)}
    /\ deliveries' = IF Key(i) \in seen THEN deliveries
                     ELSE [deliveries EXCEPT ![i] = @ + 1]

VKAccept(p, i) ==
    /\ phase[p] = "call"
    /\ IsHead(p, i)
    /\ Deliver(i)
    /\ phase' = [phase EXCEPT ![p] = "accepted"]
    /\ UNCHANGED <<dbVars, batch, snap, starts, errors, denied, wire>>

VKRefuse(p, i) ==
    /\ phase[p] = "call"
    /\ IsHead(p, i)
    /\ errors' = [errors EXCEPT ![i] = @ + 1]
    /\ phase' = [phase EXCEPT ![p] = "refused"]
    /\ UNCHANGED <<dbVars, batch, snap, starts, seen, deliveries, denied, wire>>

VKDeny(p, i) ==
    /\ phase[p] = "call"
    /\ IsHead(p, i)
    /\ errors' = [errors EXCEPT ![i] = @ + 1]
    /\ denied' = denied \cup {i}
    /\ phase' = [phase EXCEPT ![p] = "denied"]
    /\ UNCHANGED <<dbVars, batch, snap, starts, seen, deliveries, wire>>

VKAnswers(p) ==
    \E i \in Ids : VKAccept(p, i) \/ VKRefuse(p, i) \/ VKDeny(p, i)

\* A request nobody waits for reaches VK, which shows it or turns it down.
LateArrival(i) ==
    /\ i \in wire
    /\ wire' = wire \ {i}
    /\ Deliver(i) \/ UNCHANGED <<seen, deliveries>>
    /\ UNCHANGED <<dbVars, workerVars, starts, errors, denied>>

-----------------------------------------------------------------------------
WorkerStep(p) ==
    \/ Claim(p)
    \/ \E i \in Ids : \/ MarkSent(p, i)
                      \/ HandleRefusal(p, i)
                      \/ FailDenied(p, i)
                      \/ MarkCannotWrite(p, i)

Next ==
    \/ \E i \in Ids, u \in Peers, r \in RandomIds : Enqueue(i, u, r)
    \/ \E i \in Ids : Elapse(i) \/ LateArrival(i)
    \/ \E p \in Procs : \/ WorkerStep(p)
                        \/ VKAnswers(p)
                        \/ BatchFails(p)
                        \/ Crash(p)
                        \/ Start(p)

Spec == Init /\ [][Next]_vars

(***************************************************************************)
(* Fairness.  The event loop runs every ready task and run_worker never    *)
(* leaves its loop, the clock advances, VK answers a request it received,  *)
(* and the platform restarts a process that died.                          *)
(***************************************************************************)
Fairness ==
    /\ \A p \in Procs : /\ WF_vars(WorkerStep(p))
                        /\ WF_vars(VKAnswers(p))
    /\ \A i \in Ids : WF_vars(Elapse(i))
    /\ WF_vars(\E p \in Procs : Start(p))

FairSpec == Spec /\ Fairness
-----------------------------------------------------------------------------
(* What the queue guarantees.                                              *)

Settled(i) == outbox[i].status \in {"sent", "failed"}

\* Whatever is retried, restarted, left on the wire or sent by two processes
\* at once, a peer is shown a message once: random_id is stored with the row
\* and every attempt reuses it.
AtMostOnce == \A i \in Ids : deliveries[i] <= 1

\* A row is 'sent' only if its own message was shown: the worker never books
\* the answer to one row on another, and no error path ends in 'sent'.
SentMeansDelivered ==
    \A i \in Ids : outbox[i].status = "sent" => deliveries[i] = 1

\* A message is given up only after VK itself answered MAX_ATTEMPTS errors for
\* it or answered 901: time-outs, crashes and restarts use up no attempt.
FailedIsJustified ==
    \A i \in Ids : outbox[i].status = "failed" =>
                       errors[i] >= MAX_ATTEMPTS \/ i \in denied

\* The stored counter never runs ahead of the errors VK answered, although it
\* is written back from a snapshot taken when the row was claimed, and a row
\* that is still queued has an attempt left.
AttemptsAreErrors ==
    \A i \in Ids : /\ outbox[i].attempts <= errors[i]
                   /\ outbox[i].status \in {"pending", "sending"} =>
                          outbox[i].attempts < MAX_ATTEMPTS

\* As long as no exception escapes a batch, a row marked 'sending' is in the
\* memory of a live worker, or no process runs and the next start frees it.
ClaimedRowsAreHeld ==
    \A i \in Ids : outbox[i].status = "sending" =>
                       \/ \E p \in Procs : i \in batch[p]
                       \/ \A p \in Procs : ~Up(p)

\* A 901 answer that was booked on the row is, or is about to be, booked on the
\* user (two statements, outbox.py:112-117), as long as no process has died and
\* no exception escapes a batch.  A crash between the two loses the mark.
DeniedPeersMarked ==
    starts = 1 /\ (\E p \in Procs : Up(p)) =>
       \A i \in Ids : outbox[i].status = "failed" /\ i \in denied =>
          \/ ~canWrite[outbox[i].peer]
          \/ \E p \in Procs : phase[p] = "unwritable" /\ IsHead(p, i)

\* The verdict on a message is final while a single process runs: nothing
\* turns a 'sent' or 'failed' row back into a queued one or into the other.
SettledIsFinal ==
    [][\A i \in Ids : Settled(i) => outbox'[i].status = outbox[i].status]_vars

\* Message i overtakes nothing: when it is shown, no later message of the same
\* dialog has been shown.
ShownInOrder(i) ==
    deliveries'[i] > deliveries[i] =>
        ~ \E j \in Ids : /\ j > i
                         /\ outbox[j].peer = outbox[i].peer
                         /\ deliveries[j] > 0

\* A message is overtaken by a later one of the same dialog only if VK
\* answered an error for it: neither claiming in batches nor a crash and the
\* recovery after it reorders a dialog.
OvertakenOnlyIfRefused ==
    [][\A i \in Ids : errors[i] = 0 => ShownInOrder(i)]_vars

\* What the design document promises: the order within one dialog is kept.
DialogInOrder == [][\A i \in Ids : ShownInOrder(i)]_vars

\* Every message that was enqueued is eventually sent or given up, crashes and
\* refusals included, as long as no exception escapes a batch.
EventuallySettled == \A i \in Ids : Stored(i) ~> Settled(i)

\* The queue implements its abstract specification.
Report(i) == IF outbox[i].status \in {"pending", "sending"} THEN "open"
             ELSE outbox[i].status

D == INSTANCE Delivery WITH Tries <- MAX_ATTEMPTS,
                            report <- [i \in Ids |-> Report(i)]

\* Every step of the queue is a step Delivery allows, or invisible to it.
ImplementsDelivery == D!Spec
-----------------------------------------------------------------------------
(* Why the guarantees hold: the inductive invariant proved in OutboxProofs. *)

\* What a worker or the wire refers to is a stored row.
RefersToRows ==
    /\ \A p \in Procs : \A i \in batch[p] : Stored(i)
    /\ \A i \in wire : Stored(i)

\* VK's memory of random ids and the deliveries tell the same story.
KeysMatchDeliveries ==
    /\ \A i, j \in Ids : Stored(i) /\ Stored(j) /\ Key(i) = Key(j) => i = j
    /\ \A k \in seen : \E j \in Ids : Stored(j) /\ k = Key(j)
    /\ \A i \in Ids : deliveries[i] = IF Stored(i) /\ Key(i) \in seen THEN 1 ELSE 0

\* What a worker remembers of its batch and of the answer it is handling.
MemoryOf(p) ==
    /\ ~Busy(p) => batch[p] = {}
    /\ \A i \in batch[p] : snap[p][i] <= errors[i] /\ snap[p][i] < MAX_ATTEMPTS
    /\ \A i \in Ids : IsHead(p, i) =>
           /\ phase[p] = "accepted" => deliveries[i] = 1
           /\ phase[p] \in {"refused", "denied"} => snap[p][i] < errors[i]
           /\ phase[p] = "denied" => i \in denied

WorkerMemory == \A p \in Procs : MemoryOf(p)

Inv ==
    /\ RefersToRows
    /\ KeysMatchDeliveries
    /\ WorkerMemory
    /\ SentMeansDelivered
    /\ FailedIsJustified
    /\ AttemptsAreErrors

\* Without overlap there is one worker, and nobody else touches its rows: they
\* stay 'sending' with the attempts it remembers until it books the answer.
SingleWorker ==
    /\ \A p, q \in Procs : Up(p) /\ Up(q) => p = q
    /\ \A p \in Procs : \A i \in batch[p] :
           \/ outbox[i].status = "sending" /\ outbox[i].attempts = snap[p][i]
           \/ outbox[i].status = "failed" /\ phase[p] = "unwritable" /\ IsHead(p, i)

\* Until a second process is started: a row that VK denied is one that the only
\* worker is still booking, or its user is marked.
Marked(i) ==
    \/ ~canWrite[outbox[i].peer]
    \/ \E p \in Procs : phase[p] \in {"denied", "unwritable"} /\ IsHead(p, i)

FirstRun ==
    /\ \A i \in Ids : Stored(i) => outbox[i].peer \in Peers
    /\ starts = 0 => denied = {} /\ \A p \in Procs : ~Up(p)
    /\ starts <= 1 => SingleWorker
    /\ starts = 1 /\ (\E p \in Procs : Up(p)) =>
          \A i \in denied : Stored(i) /\ Marked(i)

\* Without overlap, and as long as no exception escapes a batch: what was shown
\* of a row, is on the wire for it, or is about to be asked of VK, comes after
\* every earlier row, except those that VK has answered an error for.
Passed(i) == errors[i] > 0 \/ deliveries[i] = 1

Cleared(j) == \A i \in Ids : i < j /\ Stored(i) => Passed(i)

NothingJumpsAhead ==
    /\ \A i \in Ids : outbox[i].next = "later" \/ i \in denied => errors[i] > 0
    /\ \A p \in Procs, i \in Ids :
          IsHead(p, i) =>
             /\ phase[p] \in {"refused", "denied", "unwritable"} => errors[i] > 0
             /\ phase[p] = "unwritable" => outbox[i].status = "failed"
    /\ \A j \in Ids : deliveries[j] = 1 \/ j \in wire => Cleared(j)
    /\ \A p \in Procs : \A j \in batch[p] : \A i \in Ids :
          i < j /\ Stored(i) => Passed(i) \/ i \in batch[p]
    /\ ClaimedRowsAreHeld
=============================================================================

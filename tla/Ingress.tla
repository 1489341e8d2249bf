------------------------------- MODULE Ingress -------------------------------
(***************************************************************************)
(* Events of VK's Callback API: the webhook of src/app/vk/callback.py, the *)
(* table processed_events (src/app/db/queries.py) and the background tasks *)
(* that run the handler.  VK posts an event again until it gets "ok".      *)
(*                                                                         *)
(* Abstractions: a well-formed event of the community, with the secret and *)
(* an event_id (the other requests are refused and change nothing); what   *)
(* the handler does with it is module Tickets; an answer that VK no longer *)
(* waits for counts as lost.                                               *)
(***************************************************************************)
EXTENDS Naturals, FiniteSets

CONSTANTS
    Events,      \* event_id
    Requests,    \* HTTP requests that can be in progress at one time
    Null,        \* no event
    MaxFailures, \* bound: how often a statement or a handler fails, or the
                 \* process dies
    MaxLost      \* bound: how many answers of the webhook VK misses

ASSUME BoundsAssumption == MaxFailures \in Nat /\ MaxLost \in Nat
ASSUME NullAssumption == Null \notin Events

VARIABLES
    posted,      \* VK: the events it delivers until they are acknowledged
    acked,       \* VK: the events it got "ok" for
    expired,     \* the events whose row is older than a day
    processed,   \* table processed_events
    request,     \* the webhook's coroutine for each HTTP request
    background,  \* app.state.background: how many tasks handle each event
    handled,     \* how often the handler ran to its end for each event
    failures,    \* how much has failed
    lost         \* how many answers VK has missed

vars == <<posted, acked, expired, processed, request, background, handled,
          failures, lost>>

\* "received": before remember_event.  "first", "repeat": after it.
Request == [event : Events \cup {Null},
            at : {"free", "received", "first", "repeat"}]

\* Seeded bug: a request that has ended is still at its first statement.
NoRequestStale == [event |-> Null, at |-> "received"]

NoRequest == [event |-> Null, at |-> "free"]

TypeOK ==
    /\ posted \subseteq Events
    /\ acked \subseteq posted
    /\ expired \subseteq acked
    /\ processed \subseteq posted
    /\ request \in [Requests -> Request]
    /\ background \in [Events -> Nat]
    /\ handled \in [Events -> Nat]
    /\ failures \in 0..MaxFailures
    /\ lost \in 0..MaxLost

Init ==
    /\ posted = {}
    /\ acked = {}
    /\ expired = {}
    /\ processed = {}
    /\ request = [r \in Requests |-> NoRequest]
    /\ background = [e \in Events |-> 0]
    /\ handled = [e \in Events |-> 0]
    /\ failures = 0
    /\ lost = 0

-----------------------------------------------------------------------------
(* VK.                                                                     *)

Happens(e) ==
    /\ e \notin posted
    /\ posted' = posted \cup {e}
    /\ UNCHANGED <<acked, expired, processed, request, background, handled,
                   failures, lost>>

\* Also while an earlier request for the event is still in progress: VK has
\* stopped waiting for it.
Post(r, e) ==
    /\ e \in posted \ acked
    /\ request[r].at = "free"
    /\ request' = [request EXCEPT ![r] = [event |-> e, at |-> "received"]]
    /\ UNCHANGED <<posted, acked, expired, processed, background, handled,
                   failures, lost>>

\* The request ends with "ok"; VK may have stopped waiting.
Answer(r) ==
    /\ request' = [request EXCEPT ![r] = NoRequest]
    /\ \/ acked' = acked \cup {request[r].event} /\ UNCHANGED lost
       \/ lost < MaxLost /\ lost' = lost + 1 /\ UNCHANGED acked

-----------------------------------------------------------------------------
(* The webhook: vk_callback, remember_event, spawn.                        *)

\* Seeded bug: repeats are told by the tasks that run, not by the table.
IsFirstByTask(e) == background[e] + handled[e] = 0

\* INSERT ... ON CONFLICT DO NOTHING RETURNING.
IsFirst(e) == e \notin processed

RememberEvent(r) ==
    /\ request[r].at = "received"
    /\ processed' = processed \cup {request[r].event}
    /\ request' = [request EXCEPT ![r].at =
                     IF IsFirst(request[r].event) THEN "first" ELSE "repeat"]
    /\ UNCHANGED <<posted, acked, expired, background, handled, failures, lost>>

\* Seeded bug: the webhook answers and starts nothing.
SpawnedNever(e) == background

Spawned(e) == [background EXCEPT ![e] = @ + 1]

Spawn(r) ==
    /\ request[r].at = "first"
    /\ background' = Spawned(request[r].event)
    /\ Answer(r)
    /\ UNCHANGED <<posted, expired, processed, handled, failures>>

Repeat(r) ==
    /\ request[r].at = "repeat"
    /\ Answer(r)
    /\ UNCHANGED <<posted, expired, processed, background, handled, failures>>

Fails == failures < MaxFailures /\ failures' = failures + 1

\* remember_event raises: HTTP 500, and VK posts the event again.  The row may
\* or may not have been committed.
RequestFails(r) ==
    /\ Fails
    /\ request[r].at = "received"
    /\ processed' \in {processed, processed \cup {request[r].event}}
    /\ request' = [request EXCEPT ![r] = NoRequest]
    /\ UNCHANGED <<posted, acked, expired, background, handled, lost>>

-----------------------------------------------------------------------------
(* The background tasks and the process.                                   *)

Handle(e) ==
    /\ background[e] > 0
    /\ background' = [background EXCEPT ![e] = @ - 1]
    /\ handled' = [handled EXCEPT ![e] = @ + 1]
    /\ UNCHANGED <<posted, acked, expired, processed, request, failures, lost>>

\* guarded() logs the exception and the task ends.
HandlerFails(e) ==
    /\ Fails
    /\ background[e] > 0
    /\ background' = [background EXCEPT ![e] = @ - 1]
    /\ UNCHANGED <<posted, acked, expired, processed, request, handled, lost>>

\* The requests and the tasks of the process are gone; the restart is at once.
Crash ==
    /\ Fails
    /\ request' = [r \in Requests |-> NoRequest]
    /\ background' = [e \in Events |-> 0]
    /\ UNCHANGED <<posted, acked, expired, processed, handled, lost>>

\* A day passes.  VK is taken not to repeat an event for as long as that.
Expire(e) ==
    /\ e \in acked \ expired
    /\ \A r \in Requests : request[r].event # e
    /\ expired' = expired \cup {e}
    /\ UNCHANGED <<posted, acked, processed, request, background, handled,
                   failures, lost>>

\* created_at < now() - interval '1 day'
Old == processed \cap expired

CleanupOldEvents ==
    /\ Old # {}
    /\ processed' = processed \ Old
    /\ UNCHANGED <<posted, acked, expired, request, background, handled,
                   failures, lost>>

WebhookStep(r) == RememberEvent(r) \/ Spawn(r) \/ Repeat(r)

Next ==
    \/ \E r \in Requests : \/ WebhookStep(r) \/ RequestFails(r)
                           \/ \E e \in Events : Post(r, e)
    \/ \E e \in Events : Happens(e) \/ Handle(e) \/ HandlerFails(e) \/ Expire(e)
    \/ Crash
    \/ CleanupOldEvents

Spec == Init /\ [][Next]_vars

\* The event loop runs every coroutine that is ready, and VK repeats an event
\* until it is acknowledged.
Fairness ==
    /\ \A r \in Requests : WF_vars(WebhookStep(r))
    /\ \A e \in Events : /\ WF_vars(Handle(e))
                         /\ WF_vars(\E r \in Requests : Post(r, e))

FairSpec == Spec /\ Fairness

-----------------------------------------------------------------------------
\* However often VK repeats an event, and whatever failures in between, its
\* handler is run at most once, tasks that have not ended included (the design:
\* one event_id ten times is handled exactly once).
HandledAtMostOnce == \A e \in Events : background[e] + handled[e] <= 1

First(r, e) == request[r] = [event |-> e, at |-> "first"]

\* Nothing runs for an event that processed_events does not know yet.
UnknownIsUnstarted ==
    \A e \in Events \ (processed \cup expired) :
       background[e] + handled[e] = 0 /\ \A r \in Requests : ~First(r, e)

\* Of the requests for an event one takes itself for the first, and only
\* before any task was started for it.
OneFirst ==
    \A e \in Events, r \in Requests : First(r, e) =>
       background[e] + handled[e] = 0 /\ \A s \in Requests : First(s, e) => s = r

\* No request is in progress for an event whose row may be cleaned up.
ExpiredIsQuiet == \A r \in Requests : request[r].event \notin expired

\* Why HandledAtMostOnce holds, from one step to the next.
Inv == UnknownIsUnstarted /\ OneFirst /\ ExpiredIsQuiet /\ HandledAtMostOnce

\* Every event is handled and VK stops repeating it, however many answers are
\* lost, unless something fails: an event is lost only by a handler that raises,
\* by a statement whose row was committed although it failed, or by a process
\* that dies between the row and the end of the handler.
EventuallyHandled ==
    \A e \in Events : e \in posted ~> \/ handled[e] = 1 /\ e \in acked
                                     \/ failures > 0
=============================================================================

------------------------------ MODULE Delivery ------------------------------
(***************************************************************************)
(* What the send queue promises its callers, with no worker, table or      *)
(* process: a posted message is shown at most once; it is reported "sent"  *)
(* only after it was shown; it is reported "failed" only after VK turned   *)
(* it down Tries times or forbade it for good; a report is never revised.  *)
(* module Outbox implements this specification.                            *)
(***************************************************************************)
EXTENDS Naturals

CONSTANTS
    Ids,    \* the messages that can be posted
    Tries   \* how many errors justify giving up

VARIABLES
    report,     \* what the queue says of each message
    deliveries, \* how often its peer was shown it
    errors,     \* how often VK turned it down
    denied      \* the messages VK forbade for good

vars == <<report, deliveries, errors, denied>>

Init ==
    /\ report = [i \in Ids |-> "none"]
    /\ deliveries = [i \in Ids |-> 0]
    /\ errors = [i \in Ids |-> 0]
    /\ denied = {}

Post(i) ==
    /\ report[i] = "none"
    /\ report' = [report EXCEPT ![i] = "open"]
    /\ UNCHANGED <<deliveries, errors, denied>>

\* Shown once, even when the report already says "failed".
Show(i) ==
    /\ report[i] # "none"
    /\ deliveries[i] = 0
    /\ deliveries' = [deliveries EXCEPT ![i] = 1]
    /\ UNCHANGED <<report, errors, denied>>

Refuse(i) ==
    /\ report[i] # "none"
    /\ errors' = [errors EXCEPT ![i] = @ + 1]
    /\ \/ denied' = denied
       \/ denied' = denied \cup {i}
    /\ UNCHANGED <<report, deliveries>>

Confirm(i) ==
    /\ report[i] = "open"
    /\ deliveries[i] = 1
    /\ report' = [report EXCEPT ![i] = "sent"]
    /\ UNCHANGED <<deliveries, errors, denied>>

GiveUp(i) ==
    /\ report[i] = "open"
    /\ errors[i] >= Tries \/ i \in denied
    /\ report' = [report EXCEPT ![i] = "failed"]
    /\ UNCHANGED <<deliveries, errors, denied>>

Next == \E i \in Ids : Post(i) \/ Show(i) \/ Refuse(i) \/ Confirm(i) \/ GiveUp(i)

Spec == Init /\ [][Next]_vars
=============================================================================

----------------------------- MODULE TicketLife -----------------------------
(***************************************************************************)
(* What the service promises about a ticket, with no handlers, messages or *)
(* tables: a user has one ticket at a time, it is never opened again, one  *)
(* persona takes it for good, introduces himself once and is the only one  *)
(* the user is told about.  Only a ticket that was opened is rated, and    *)
(* closing it takes the rating away.  Module Tickets implements this.      *)
(***************************************************************************)
EXTENDS Naturals

CONSTANTS Users, TicketIds, Operators, Ratings, Null

VARIABLES
    ticket,        \* what is known of each ticket
    introductions, \* how often somebody has introduced himself
    named          \* the personas its user has been told about

vars == <<ticket, introductions, named>>

Blank == [status |-> "none", user |-> Null, operator |-> Null, rating |-> Null]

Init ==
    /\ ticket = [t \in TicketIds |-> Blank]
    /\ introductions = [t \in TicketIds |-> 0]
    /\ named = [t \in TicketIds |-> {}]

IsOpen(t) == ticket[t].status \in {"open", "in_progress"}

OpenFor(t, u) ==
    /\ ticket[t].status = "none"
    /\ \A s \in TicketIds : ~(IsOpen(s) /\ ticket[s].user = u)
    /\ ticket' = [ticket EXCEPT ![t] = [status |-> "open", user |-> u,
                                        operator |-> Null, rating |-> Null]]
    /\ UNCHANGED <<introductions, named>>

Answer(t) ==
    /\ ticket[t].status = "open"
    /\ ticket' = [ticket EXCEPT ![t].status = "in_progress"]
    /\ UNCHANGED <<introductions, named>>

AssignTo(t, o) ==
    /\ IsOpen(t)
    /\ ticket[t].operator = Null
    /\ ticket' = [ticket EXCEPT ![t].operator = o, ![t].status = "in_progress"]
    /\ UNCHANGED <<introductions, named>>

\* Closing again takes the rating away.
Close(t) ==
    /\ ticket[t].status # "none"
    /\ ticket' = [ticket EXCEPT ![t].status = "closed", ![t].rating = Null]
    /\ UNCHANGED <<introductions, named>>

Rate(t, v) ==
    /\ ticket[t].status # "none"
    /\ ticket' = [ticket EXCEPT ![t].rating = v]
    /\ UNCHANGED <<introductions, named>>

\* The introduction, or only the name under a farewell.
Name(t) ==
    /\ ticket[t].operator # Null
    /\ named' = [named EXCEPT ![t] = {ticket[t].operator}]
    /\ \/ /\ introductions[t] = 0
          /\ introductions' = [introductions EXCEPT ![t] = 1]
       \/ UNCHANGED introductions
    /\ UNCHANGED ticket

Next ==
    \E t \in TicketIds :
       \/ \E u \in Users : OpenFor(t, u)
       \/ Answer(t) \/ Close(t) \/ Name(t)
       \/ \E o \in Operators : AssignTo(t, o)
       \/ \E v \in Ratings : Rate(t, v)

Spec == Init /\ [][Next]_vars
=============================================================================

------------------------------- MODULE MCAsked -------------------------------
(***************************************************************************)
(* Module Tickets with a history variable: the texts that came while their *)
(* user was asked to describe a problem.  No action depends on it.         *)
(***************************************************************************)
EXTENDS MCTickets

VARIABLE asked

AskedInit == Init /\ asked = {}

\* The texts whose handler starts in this step for a user who is asked.
AnswersToAsk ==
    {m \in Msgs : \E k \in Tasks, u \in Users :
                     Text(k, u, m) /\ userState[u] = "awaiting_problem"}

AskedNext == Next /\ asked' = asked \cup AnswersToAsk

AskedSpec == AskedInit /\ [][AskedNext]_<<vars, asked>>

\* What a user writes when he is asked what happened (texts.py:8), in as many
\* messages as he likes, becomes part of a ticket: none of it is answered with
\* the menu, as if he had asked for nothing.
DescriptionIsStored == \A m \in asked : fate[m] # "menu"
=============================================================================

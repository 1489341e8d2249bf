------------------------------- MODULE MCLive -------------------------------
(* The two halves of the way to the operator, checked in one run: the server *)
(* with the socket (Bus), or the browser over the promise of Channel (Chat), *)
(* which Bus is shown to keep.                                               *)
EXTENDS Bus, Chat

VARIABLE half

liveVars == <<vars, chatVars, half>>

LiveInit == Init /\ ChatInit /\ half \in {"server", "browser"}

LiveNext ==
    /\ \/ half = "server" /\ Next /\ UNCHANGED chatVars
       \/ half = "browser" /\ ChatNext /\ UNCHANGED busVars
    /\ UNCHANGED half

LiveSpec == LiveInit /\ [][LiveNext]_liveVars /\ Fairness

\* Types of both halves.
LiveTypeOK == TypeOK /\ ChatTypeOK
=============================================================================

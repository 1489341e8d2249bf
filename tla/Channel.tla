------------------------------- MODULE Channel -------------------------------
(***************************************************************************)
(* What the dashboard may count on: the messages of a dialog are kept in   *)
(* the order of their ids (table ticket_messages), and a message of a user *)
(* comes over the socket at most once, after it was stored.  It may come   *)
(* late, after a later one, or never.  Module Bus is shown to keep this    *)
(* promise, module Chat is written on top of it.                           *)
(***************************************************************************)
EXTENDS Naturals, Sequences, Functions

CONSTANTS
    Dialogs,      \* tickets
    Null,         \* null, of a socket, a dialog or a thread
    MaxMessages   \* bound: rows of ticket_messages

Ids == 1..MaxMessages

ASSUME MaxAssumption == MaxMessages \in Nat

VARIABLES
    feed,    \* table ticket_messages: dialog and sender of each row, by id
    arrived  \* ids of the events that onmessage was called with

channelVars == <<feed, arrived>>

Message == [dialog : Dialogs, from : {"user", "operator"}]

ChannelInit == feed = <<>> /\ arrived = <<>>

\* add_message commits a row.
Store(d, sender) ==
    /\ Len(feed) < MaxMessages
    /\ feed' = Append(feed, [dialog |-> d, from |-> sender])
    /\ UNCHANGED arrived

\* The dashboard gets the event of a message.
Arrive(i) ==
    /\ i \in 1..Len(feed) /\ feed[i].from = "user"
    /\ i \notin Range(arrived)
    /\ arrived' = Append(arrived, i)
    /\ UNCHANGED feed

ChannelNext ==
    \/ \E d \in Dialogs, sender \in {"user", "operator"} : Store(d, sender)
    \/ \E i \in Ids : Arrive(i)

ChannelSpec == ChannelInit /\ [][ChannelNext]_channelVars

ChannelTypeOK ==
    /\ feed \in Seq(Message) /\ Len(feed) <= MaxMessages
    /\ arrived \in Seq(Ids)
=============================================================================

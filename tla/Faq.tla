--------------------------------- MODULE Faq ---------------------------------
(***************************************************************************)
(* The topics of the FAQ: table faq and its queries (src/app/db/           *)
(* queries.py), the routes of src/app/web/api.py, the screen of the        *)
(* dashboard that edits them (src/web/src/screens/Faq.tsx) and the         *)
(* keyboard the bot makes of them (src/app/vk/keyboards.py).               *)
(*                                                                         *)
(* A request is one step, except a reorder: its statements are steps, and  *)
(* so is its commit.  A row that a transaction has written is locked until *)
(* the transaction ends; nobody else sees what was written before.         *)
(* Titles and answers are left out.                                        *)
(***************************************************************************)
EXTENDS Naturals, Sequences, FiniteSets, Functions

CONSTANTS
    FaqIds,         \* faq.id, handed out in their order
    Screens,        \* dashboards that show the FAQ
    MAX_FAQ_ITEMS,  \* keyboards.py
    VISIBLE_IN_BOT, \* Faq.tsx
    Initially,      \* how many topics there are to begin with
    MaxEdits,       \* bound: how often something is changed
    MaxUpsets       \* bound: how many requests fail

ASSUME FaqIdsAssumption ==
    FaqIds \subseteq Nat \ {0} /\ Initially \in Nat /\ 1..Initially \subseteq FaqIds
ASSUME VisibleAssumption == MAX_FAQ_ITEMS \in Nat /\ VISIBLE_IN_BOT = MAX_FAQ_ITEMS
ASSUME UpsetsAssumption == MaxUpsets \in Nat /\ MaxEdits \in Nat

VARIABLES
    faq,       \* table faq, committed; unused and deleted ids are not in it
    used,      \* the ids handed out
    screen,    \* each dashboard
    edits,     \* how often something has been asked for
    upsets,    \* how many requests have failed
    reordered, \* what the last committed reorder asked for
    current    \* the dashboards whose list nothing has changed since its load

faqVars == <<faq, used, screen, edits, upsets, reordered, current>>

(***************************************************************************)
(* list: topics.  at: what run waits for; written: how many statements of  *)
(* a reorder have been executed.                                           *)
(***************************************************************************)
Topic == [id : FaqIds, active : BOOLEAN]

Screen == [list : Seq(Topic), at : {"idle", "reorder", "load"}, written : Nat]

FaqRow == [position : Nat, active : BOOLEAN]

FaqTypeOK ==
    /\ used \subseteq FaqIds
    /\ DOMAIN faq \subseteq used /\ faq \in [DOMAIN faq -> FaqRow]
    /\ screen \in [Screens -> Screen]
    /\ edits \in 0..MaxEdits /\ upsets \in 0..MaxUpsets
    /\ reordered \in Seq(FaqIds)
    /\ current \subseteq Screens

\* The topics made one after the other, and loaded by every dashboard.
FaqInit ==
    /\ used = 1..Initially
    /\ faq = [i \in used |-> [position |-> i - 1, active |-> TRUE]]
    /\ screen = [s \in Screens |->
         [list |-> [i \in used |-> [id |-> i, active |-> TRUE]],
          at |-> "idle", written |-> 0]]
    /\ edits = 0 /\ upsets = 0
    /\ reordered = <<>>
    /\ current = Screens

-----------------------------------------------------------------------------
(* The queries.                                                            *)

\* ORDER BY position, id
Precedes(i, j) ==
    \/ faq[i].position < faq[j].position
    \/ faq[i].position = faq[j].position /\ i < j

\* How many of ids stand before i.
Rank(ids, i) == Cardinality({j \in ids : Precedes(j, i)})

Sorted(ids) ==
    [n \in 1..Cardinality(ids) |-> CHOOSE i \in ids : Rank(ids, i) = n - 1]

\* list_all_faq
Listing ==
    [n \in 1..Cardinality(DOMAIN faq) |->
       LET i == Sorted(DOMAIN faq)[n] IN [id |-> i, active |-> faq[i].active]]

\* list_active_faq, and the buttons the bot makes of it.
FaqList ==
    LET active == Sorted({i \in DOMAIN faq : faq[i].active})
    IN  SubSeq(active, 1, IF Len(active) < MAX_FAQ_ITEMS THEN Len(active)
                                                         ELSE MAX_FAQ_ITEMS)

\* COALESCE(max(position) + 1, 0)
LastPosition ==
    IF DOMAIN faq = {} THEN 0
    ELSE 1 + faq[CHOOSE i \in DOMAIN faq : \A j \in DOMAIN faq :
                    faq[j].position <= faq[i].position].position

Asked(s) == [n \in DOMAIN screen[s].list |-> screen[s].list[n].id]

Locks(s, i) ==
    /\ screen[s].at = "reorder" /\ i \in DOMAIN faq
    /\ \E n \in 1..screen[s].written : Asked(s)[n] = i

Locked(s, i) == \E r \in Screens \ {s} : Locks(r, i)

\* Seeded bug: every UPDATE commits.
AfterUpdateAlone(s, n) ==
    IF Asked(s)[n] \notin DOMAIN faq THEN faq
    ELSE [faq EXCEPT ![Asked(s)[n]].position = n - 1]

\* What the others see after the n-th UPDATE of reorder_faq.
AfterUpdate(s, n) == faq

-----------------------------------------------------------------------------
(* The dashboard: run executes an action and loads the list again.         *)

Goes(s, where) ==
    screen' = [screen EXCEPT ![s].at = where, ![s].written = 0]

Asks(s) ==
    /\ screen[s].at = "idle"
    /\ edits < MaxEdits /\ edits' = edits + 1

Committed(s) ==
    /\ Goes(s, "load")
    /\ current' = {}
    /\ UNCHANGED <<upsets, reordered>>

\* useEffect, when the screen is opened.
Mount(s) ==
    /\ screen[s].at = "idle"
    /\ screen' = [screen EXCEPT ![s] = [list |-> <<>>, at |-> "load", written |-> 0]]
    /\ current' = current \ {s}
    /\ UNCHANGED <<faq, used, edits, upsets, reordered>>

LoadFaq(s) ==
    /\ screen[s].at = "load"
    /\ screen' = [screen EXCEPT ![s] = [list |-> Listing, at |-> "idle", written |-> 0]]
    /\ current' = current \cup {s}
    /\ UNCHANGED <<faq, used, edits, upsets, reordered>>

CreateFaq(s, i) ==
    /\ Asks(s)
    /\ \A j \in FaqIds : j \in used <=> j < i
    /\ used' = used \cup {i}
    /\ faq' = [j \in DOMAIN faq \cup {i} |->
                 IF j = i THEN [position |-> LastPosition, active |-> TRUE] ELSE faq[j]]
    /\ Committed(s)

\* A topic of the list is switched on or off, or deleted: what it is now
\* decides the answer, 404 leaves the list as it is.
ChangeFaq(s, n) ==
    LET i == screen[s].list[n].id
    IN  /\ Asks(s) /\ n \in DOMAIN screen[s].list
        /\ i \in DOMAIN faq /\ ~Locked(s, i)
        /\ \/ faq' = [faq EXCEPT ![i].active = ~screen[s].list[n].active]
           \/ faq' = [j \in DOMAIN faq \ {i} |-> faq[j]]
        /\ Committed(s)
        /\ UNCHANGED used

Swapped(list, m, n) == [list EXCEPT ![m] = list[n], ![n] = list[m]]

\* The new order is shown at once, and asked for.
Move(s, n) ==
    /\ Asks(s) /\ {n, n + 1} \subseteq DOMAIN screen[s].list
    /\ screen' = [screen EXCEPT ![s] =
         [list |-> Swapped(@.list, n, n + 1), at |-> "reorder", written |-> 0]]
    /\ current' = current \ {s}
    /\ UNCHANGED <<faq, used, upsets, reordered>>

Unwritten(s) ==
    screen[s].at = "reorder" /\ screen[s].written < Len(screen[s].list)

UpdatePosition(s) ==
    LET n == screen[s].written + 1
    IN  /\ Unwritten(s) /\ ~Locked(s, Asked(s)[n])
        /\ faq' = AfterUpdate(s, n)
        /\ screen' = [screen EXCEPT ![s].written = n]
        /\ UNCHANGED <<used, edits, upsets, reordered, current>>

CommitReorder(s) ==
    /\ screen[s].at = "reorder" /\ screen[s].written = Len(screen[s].list)
    /\ faq' = [i \in DOMAIN faq |->
         IF \E n \in DOMAIN Asked(s) : Asked(s)[n] = i
         THEN [faq[i] EXCEPT !.position =
                 (CHOOSE n \in DOMAIN Asked(s) : Asked(s)[n] = i) - 1]
         ELSE faq[i]]
    /\ reordered' = Asked(s)
    /\ Goes(s, "load")
    /\ current' = {}
    /\ UNCHANGED <<used, edits, upsets>>

WaitsFor(s, r) ==
    s # r /\ Unwritten(s) /\ Locks(r, Asked(s)[screen[s].written + 1])

\* A request of run fails, a reorder with its transaction; an error is shown
\* over the list, which stays as it is.  Of two reorders that wait for each
\* other the database ends one.
RunFails(s) ==
    /\ screen[s].at # "idle"
    /\ \/ upsets < MaxUpsets /\ upsets' = upsets + 1
       \/ (\E r \in Screens : WaitsFor(s, r) /\ WaitsFor(r, s)) /\ UNCHANGED upsets
    /\ Goes(s, "idle")
    /\ UNCHANGED <<faq, used, edits, reordered, current>>

FaqNext ==
    \E s \in Screens :
       \/ Mount(s) \/ LoadFaq(s) \/ UpdatePosition(s) \/ CommitReorder(s) \/ RunFails(s)
       \/ \E i \in FaqIds : CreateFaq(s, i) \/ ChangeFaq(s, i) \/ Move(s, i)

FaqSpec == FaqInit /\ [][FaqNext]_faqVars

-----------------------------------------------------------------------------
\* The topics stand in the order the last reorder asked for, whatever was made,
\* hidden or deleted since, whichever reorders ran beside it or failed half-way
\* (queries.py:262: half an order is worse than the old one).
LastReorderWins ==
    \A m, n \in DOMAIN reordered :
       m < n /\ {reordered[m], reordered[n]} \subseteq DOMAIN faq
         => Precedes(reordered[m], reordered[n])

\* Seeded bug: the topic that fills the keyboard is marked as well.
BeyondBotEarly(list, n) ==
    Cardinality({m \in 1..n : list[m].active}) >= VISIBLE_IN_BOT

\* beyondBot, of an active topic.
BeyondBot(list, n) ==
    Cardinality({m \in 1..n : list[m].active}) > VISIBLE_IN_BOT

\* "Порядок здесь — порядок в боте" (Faq.tsx:123): in a list that is up to date
\* the active topics without the mark "вне кнопок" are the buttons of the bot,
\* in their order, however the positions came about.
BadgesMatchBot ==
    \A s \in current : LET list == screen[s].list IN
       /\ \A n \in DOMAIN list : list[n].active =>
             (BeyondBot(list, n) <=> list[n].id \notin Range(FaqList))
       /\ \A b \in DOMAIN FaqList : \E n \in DOMAIN list :
             /\ list[n] = [id |-> FaqList[b], active |-> TRUE]
             /\ b = Cardinality({m \in 1..n : list[m].active})

\* Why: nobody has a topic twice in his list, nor one that was never made; and
\* a list that is up to date is the table.
OnceEach(list) == \A m, n \in DOMAIN list : list[m] = list[n] => m = n

ListsAreOfTopics ==
    /\ IsFiniteSet(used)
    /\ \A s \in Screens : OnceEach(Asked(s)) /\ Range(Asked(s)) \subseteq used
    /\ OnceEach(reordered) /\ Range(reordered) \subseteq used
    /\ \A s \in current : screen[s].list = Listing
=============================================================================

----------------------------- MODULE Attachments -----------------------------
(***************************************************************************)
(* The attachments of a message: parse_attachments and parse_geo           *)
(* (src/app/vk/attachments.py) when it arrives (src/app/handlers/user.py), *)
(* the list kept with the message, the page that shows it                  *)
(* (src/web/src/components/Attachments.tsx), and the proxy that fetches an *)
(* attachment by its index and asks VK for new links when the old ones     *)
(* have run out (src/app/web/api.py).                                      *)
(*                                                                         *)
(* An attachment is known by its number in the message as it was sent; the *)
(* place on the map is number 0.  Links are signed and work for one period *)
(* of time, "era".  A request is a coroutine; what it has read is its own. *)
(***************************************************************************)
EXTENDS Naturals, Sequences, SequencesExt

CONSTANTS
    Downloads, \* requests to the proxy at one time
    MaxItems,  \* bound: attachments of a message
    MaxEra     \* bound: periods

ASSUME AttachmentBounds == MaxItems \in Nat /\ MaxEra \in Nat \ {0}

VARIABLES
    original, \* VK: the kinds of the attachments as they were sent
    place,    \* VK: whether a place was sent with them
    kept,     \* VK: the attachments of the message now
    era,      \* VK: the period whose links work
    stored,   \* ticket_messages.attachments
    page,     \* what the open page of the dashboard shows of it
    download  \* the requests to the proxy

vkMessage == <<original, place, kept>>
attachmentVars == <<vkMessage, era, stored, page, download>>

Place == 0
NoUrl == 0

\* url: the link, by the era it is for; NoUrl: an unsupported attachment or a
\* place.
Item == [item : 0..MaxItems, url : 0..MaxEra]

(***************************************************************************)
(* index: from the path; asked: what the page showed there.  items: the    *)
(* list the request works with; got: what it has served, or nothing.       *)
(***************************************************************************)
Download == [at : {"free", "fetch", "refresh", "save", "again", "served"},
             index : Nat, asked : 0..MaxItems, items : Seq(Item)]

Unused == [at |-> "free", index |-> 0, asked |-> 0, items |-> <<>>]

AttachmentTypeOK ==
    /\ original \in Seq({"file", "other"}) /\ Len(original) <= MaxItems
    /\ place \in BOOLEAN
    /\ kept \in Seq(1..MaxItems)
    /\ era \in 1..MaxEra
    /\ stored \in Seq(Item) /\ page \in Seq(Item)
    /\ download \in [Downloads -> Download]

\* parse_attachments: one entry for each attachment VK names, with a link if
\* the kind has one.
Parsed(list) ==
    [n \in DOMAIN list |->
       [item |-> list[n], url |-> IF original[list[n]] = "file" THEN era ELSE NoUrl]]

Geo == IF place THEN << [item |-> Place, url |-> NoUrl] >> ELSE <<>>

\* Seeded bug: the place is put first.
ReceivedPlaceFirst(list) == Geo \o Parsed(list)

\* _handle_free_text
Received(list) == Parsed(list) \o Geo

AttachmentInit ==
    /\ original \in UNION {[1..n -> {"file", "other"}] : n \in 0..MaxItems}
    /\ place \in BOOLEAN
    /\ kept = [n \in DOMAIN original |-> n]
    /\ era = 1
    /\ stored = Received(kept)
    /\ page = <<>>
    /\ download = [r \in Downloads |-> Unused]

-----------------------------------------------------------------------------
(* VK.                                                                     *)

LinksExpire ==
    /\ era < MaxEra
    /\ era' = era + 1
    /\ UNCHANGED <<vkMessage, stored, page, download>>

\* The client edits the message: an attachment is gone.
EditMessage(n) ==
    /\ n \in DOMAIN kept
    /\ kept' = RemoveAt(kept, n)
    /\ UNCHANGED <<original, place, era, stored, page, download>>

Edited == Len(kept) < Len(original)

-----------------------------------------------------------------------------
(* The page.                                                               *)

OpenPage ==
    /\ page # stored
    /\ page' = stored
    /\ UNCHANGED <<vkMessage, era, stored, download>>

-----------------------------------------------------------------------------
(* The proxy: attachment, _fetch_attachment, _refresh_attachments.         *)

Becomes(r, d) == download' = [download EXCEPT ![r] = d]

\* Every step of the proxy but saving leaves all the rest alone.
Reads == UNCHANGED <<vkMessage, era, stored, page>>

\* 404 when the index is out of the list or has no link, else the row is read.
GetAttachment(r, n) ==
    /\ download[r].at = "free"
    /\ n \in DOMAIN page /\ page[n].url # NoUrl
    /\ n \in DOMAIN stored /\ stored[n].url # NoUrl
    /\ Becomes(r, [at |-> "fetch", index |-> n, asked |-> page[n].item,
                   items |-> stored])
    /\ Reads

Ends(r) == Becomes(r, Unused)

Link(r) == download[r].items[download[r].index].url

\* The link works, or the storage answers 401, 403 or 410.
Fetch(r) ==
    /\ download[r].at = "fetch"
    /\ Becomes(r, [download[r] EXCEPT !.at = IF Link(r) = era THEN "served"
                                                              ELSE "refresh"])
    /\ Reads

\* messages.getById
GetById(r) ==
    /\ download[r].at = "refresh" /\ kept # <<>>
    /\ Becomes(r, [download[r] EXCEPT !.at = "save", !.items = Parsed(kept)])
    /\ Reads

\* UPDATE ticket_messages SET attachments
SaveAttachments(r) ==
    /\ download[r].at = "save"
    /\ stored' = download[r].items
    /\ IF download[r].index \in DOMAIN download[r].items /\ Link(r) # NoUrl
       THEN Becomes(r, [download[r] EXCEPT !.at = "again"])
       ELSE Ends(r)
    /\ UNCHANGED <<vkMessage, era, page>>

FetchAgain(r) ==
    /\ download[r].at = "again" /\ Link(r) = era
    /\ Becomes(r, [download[r] EXCEPT !.at = "served"])
    /\ Reads

\* The answer arrives; or the request ends with an error (502, or VK or the
\* database fails it).
EndDownload(r) ==
    /\ download[r].at # "free"
    /\ Ends(r)
    /\ Reads

AttachmentNext ==
    \/ LinksExpire \/ OpenPage
    \/ \E n \in 1..MaxItems : EditMessage(n)
    \/ \E r \in Downloads :
          \/ Fetch(r) \/ GetById(r) \/ SaveAttachments(r) \/ FetchAgain(r)
          \/ EndDownload(r)
          \/ \E n \in 1..MaxItems + 1 : GetAttachment(r, n)

AttachmentSpec == AttachmentInit /\ [][AttachmentNext]_attachmentVars

-----------------------------------------------------------------------------
\* What the operator opens is what the page showed at that place, however old
\* the page is and however often the links were renewed meanwhile by this or by
\* another request: renewing moves no attachment (api.py:296).  A client who
\* edits the message does move them.
ServedIsAsked ==
    \A r \in Downloads : download[r].at = "served" /\ ~Edited =>
       download[r].items[download[r].index].item = download[r].asked

\* Why: every copy of the list, old or new, names the attachments in the order
\* in which they were sent, the place after them.
NthItem(n) == IF n \in DOMAIN original THEN n ELSE Place

InOrder(list) == \A n \in DOMAIN list : list[n].item = NthItem(n)

ListsAgree ==
    /\ Len(kept) <= Len(original)
    /\ \A r \in Downloads : download[r].at \in {"fetch", "again", "served"} =>
          download[r].index \in DOMAIN download[r].items
    /\ ~Edited =>
          /\ kept = [n \in DOMAIN original |-> n]
          /\ InOrder(stored) /\ InOrder(page)
          /\ \A r \in Downloads : InOrder(download[r].items)
                /\ (download[r].at # "free" => download[r].asked = NthItem(download[r].index))

\* The operator sees that an attachment was there (attachments.py:3).
ReceivedIsKept ==
    Edited \/ {stored[n].item : n \in DOMAIN stored}
              = DOMAIN original \cup (IF place THEN {Place} ELSE {})
=============================================================================

---------------------------- MODULE ServiceProofs ----------------------------
(***************************************************************************)
(* The parts of the service that share no state: migrations, attachments,  *)
(* working hours and the FAQ, for every value of their constants.          *)
(***************************************************************************)
EXTENDS MCService, IngressProofs, RateLimiterProofs, FiniteSetTheorems

-----------------------------------------------------------------------------
(* Migrations.                                                             *)

\* The file that a process applies next is the only one.
LEMMA OneNext ==
    ASSUME NEW p \in Starters, NEW f, NEW g, IsNext(p, f), IsNext(p, g)
    PROVE  f = g
  BY DirectoryAssumption DEF IsNext, Migrations

\* A process goes on to another statement.
LEMMA Went ==
    ASSUME MigrationTypeOK, NEW p \in Starters, NEW where, At(p, where),
           where \in {"down", "table", "read", "script", "mark", "ready", "dead"}
    PROVE  /\ starter' \in [Starters -> Starter]
           /\ starter'[p].at = where
           /\ starter'[p].done = starter[p].done
           /\ \A q \in Starters : q # p => starter'[q] = starter[q]
  BY DEF MigrationTypeOK, At, Starter

\* A process that applies nothing changes neither schema nor table.
LEMMA MigratingSame ==
    ASSUME MigrationTypeOK, MigratingInv, NEW p \in Starters,
           UNCHANGED <<schema, recorded>>,
           \A q \in Starters : q # p => starter'[q] = starter[q],
           starter'[p].done \subseteq recorded,
           starter'[p].at # "mark",
           starter'[p].at = "ready" => Migrations \subseteq recorded
    PROVE  MigratingInv'
  <1>1. \A q \in Starters : starter'[q].at = "mark" => q # p
    OBVIOUS
  <1>2. \A q \in Starters : \A f : q # p => IsNext(q, f)' = IsNext(q, f)
    BY DEF IsNext
  <1> QED  BY <1>1, <1>2 DEF MigratingInv, MigratedOnce

LEMMA MigratingStep ==
    ASSUME MigrationTypeOK, MigratingInv, [MigrationNext]_migrationVars
    PROVE  MigrationTypeOK' /\ MigratingInv'
  <1>1. CASE UNCHANGED migrationVars
    BY <1>1 DEF migrationVars, MigrationTypeOK, MigratingInv, MigratedOnce, IsNext
  <1>2. ASSUME NEW p \in Starters, NEW where, At(p, where),
               where \in {"down", "table", "read", "script", "ready", "dead"},
               where = "ready" => Migrations \subseteq starter[p].done,
               UNCHANGED <<schema, recorded>>, deaths' \in 0..MaxDeaths
        PROVE  MigrationTypeOK' /\ MigratingInv'
    <2>1. MigrationTypeOK'
      BY <1>2, Went DEF MigrationTypeOK
    <2>2. MigratingInv'
      BY <1>2, Went, MigratingSame DEF MigratingInv
    <2> QED  BY <2>1, <2>2
  <1>3. ASSUME NEW p \in Starters,
               StartUp(p) \/ CreateTable(p) \/ StartedUp(p) \/ ShutDown(p)
        PROVE  \E where \in {"down", "table", "read", "script", "ready", "dead"} :
                  /\ At(p, where)
                  /\ where = "ready" => Migrations \subseteq starter[p].done
                  /\ UNCHANGED <<schema, recorded, deaths>>
    BY <1>3 DEF StartUp, CreateTable, StartedUp, ShutDown
  <1>4. ASSUME NEW p \in Starters, Die(p)
        PROVE  MigrationTypeOK' /\ MigratingInv'
    BY <1>2, <1>4, DeathsAssumption DEF Die, SchemaAfterDeath, MigrationTypeOK
  <1>5. ASSUME NEW p \in Starters, ReadDone(p)
        PROVE  MigrationTypeOK' /\ MigratingInv'
    <2>1. /\ starter' \in [Starters -> Starter]
          /\ starter'[p].at = "script" /\ starter'[p].done = recorded
          /\ \A q \in Starters : q # p => starter'[q] = starter[q]
          /\ UNCHANGED <<schema, recorded, deaths>>
      BY <1>5 DEF ReadDone, MigrationTypeOK, Starter
    <2> QED  BY <2>1, MigratingSame DEF MigrationTypeOK
  <1>6. ASSUME NEW p \in Starters, NEW f \in Directory, RunScript(p, f)
        PROVE  MigrationTypeOK' /\ MigratingInv'
    <2>1. CASE schema[Script(f)] # 0
      BY <1>2, <1>6, <2>1 DEF RunScript, MigrationTypeOK
    <2>2. CASE schema[Script(f)] = 0
      <3>1. f \in Migrations /\ f \notin recorded
        BY <1>6, <2>2 DEF RunScript, IsNext, Script, Migrations, MigratingInv, MigratedOnce
      <3>2. /\ starter' \in [Starters -> Starter]
            /\ starter'[p].at = "mark" /\ starter'[p].done = starter[p].done
            /\ \A q \in Starters : q # p => starter'[q] = starter[q]
            /\ UNCHANGED <<schema, recorded, deaths>>
        BY <1>6, <2>2, Went DEF RunScript
      <3>3. \A q \in Starters : \A g : IsNext(q, g)' = IsNext(q, g)
        BY <3>2 DEF IsNext
      <3>4. /\ \A g : IsNext(p, g) => g = f
            /\ \A q \in Starters \ {p} : starter[q].at = "mark" => ~IsNext(q, f)
        BY <1>6, OneNext DEF RunScript
      <3>5. MigratedOnce'
        BY <3>2 DEF MigratingInv, MigratedOnce
      <3>6. ASSUME NEW q \in Starters, NEW g \in Migrations,
                   starter'[q].at = "mark", IsNext(q, g)'
            PROVE  /\ g \notin recorded
                   /\ \A r \in Starters \ {q} : starter'[r].at = "mark" => ~IsNext(r, g)'
        <4>1. IsNext(q, g)
          BY <3>3, <3>6
        <4>2. CASE q = p
          BY <3>1, <3>2, <3>3, <3>4, <4>1, <4>2
        <4>3. CASE q # p
          <5>1. starter[q].at = "mark" /\ g # f
            BY <3>2, <3>4, <3>6, <4>1, <4>3
          <5> QED  BY <3>2, <3>3, <3>4, <4>1, <4>3, <5>1 DEF MigratingInv
        <4> QED  BY <4>2, <4>3
      <3> QED  BY <3>2, <3>5, <3>6 DEF MigrationTypeOK, MigratingInv
    <2> QED  BY <2>1, <2>2
  <1>7. ASSUME NEW p \in Starters, NEW f \in Directory, RecordMigration(p, f)
        PROVE  MigrationTypeOK' /\ MigratingInv'
    <2>1. f \in Migrations /\ Script(f) = f /\ IsNext(p, f) /\ starter[p].at = "mark"
      BY <1>7 DEF RecordMigration, IsNext, Script, Migrations
    <2>2. f \notin recorded /\ schema[f] = 0
      BY <2>1 DEF MigratingInv, MigratedOnce
    <2>3. /\ schema' = [schema EXCEPT ![f] = 1]
          /\ recorded' = recorded \cup {f}
          /\ deaths' = deaths
      BY <1>7, <2>1, <2>2 DEF RecordMigration
    <2>4. /\ starter' \in [Starters -> Starter]
          /\ starter'[p].at = "script" /\ starter'[p].done = starter[p].done \cup {f}
          /\ \A q \in Starters : q # p => starter'[q] = starter[q]
      BY <1>7, <2>1 DEF RecordMigration, MigrationTypeOK, Starter, Migrations
    <2>5. MigrationTypeOK'
      BY <2>3, <2>4 DEF MigrationTypeOK
    <2>6. \A g \in Migrations : g < f => g \in recorded
      BY <2>1, DirectoryAssumption DEF IsNext, Migrations, MigratingInv
    <2>7. MigratedOnce'
      BY <2>1, <2>2, <2>3, <2>4, <2>6 DEF MigratingInv, MigratedOnce, MigrationTypeOK, Migrations
    <2>8. ASSUME NEW q \in Starters, NEW g \in Migrations,
                 starter'[q].at = "mark", IsNext(q, g)'
          PROVE  /\ g \notin recorded'
                 /\ \A r \in Starters \ {q} : starter'[r].at = "mark" => ~IsNext(r, g)'
      <3>1. q # p /\ starter[q].at = "mark" /\ IsNext(q, g)
        BY <2>4, <2>8 DEF IsNext
      <3>2. g # f
        BY <2>1, <3>1 DEF MigratingInv
      <3>3. \A r \in Starters : r # p => IsNext(r, g)' = IsNext(r, g)
        BY <2>4 DEF IsNext
      <3> QED  BY <2>3, <2>4, <3>1, <3>2, <3>3 DEF MigratingInv
    <2>9. recorded' \subseteq Migrations /\ \A q \in Starters : starter'[q].done \subseteq recorded'
      BY <2>1, <2>3, <2>4 DEF MigratingInv
    <2> QED  BY <2>5, <2>7, <2>8, <2>9 DEF MigratingInv
  <1> QED
    <2>1. ASSUME NEW p \in Starters, StartUp(p) \/ CreateTable(p) \/ StartedUp(p) \/ ShutDown(p)
          PROVE  MigrationTypeOK' /\ MigratingInv'
      BY <1>2, <1>3, <2>1 DEF MigrationTypeOK
    <2> QED  BY <1>1, <1>4, <1>5, <1>6, <1>7, <2>1 DEF MigrationNext, StarterStep

LEMMA MigratingInit == MigrationInit => MigrationTypeOK /\ MigratingInv
  <1> SUFFICES ASSUME MigrationInit PROVE MigrationTypeOK /\ MigratingInv
    OBVIOUS
  <1>1. [at |-> "down", done |-> {}] \in Starter
    BY DEF Starter
  <1>2. MigrationTypeOK
    BY <1>1, DeathsAssumption DEF MigrationInit, MigrationTypeOK
  <1>3. \A p \in Starters : starter[p].at = "down" /\ starter[p].done = {}
    BY DEF MigrationInit
  <1>4. recorded = {} /\ \A f \in Migrations : schema[f] = 0
    BY DEF MigrationInit, Migrations
  <1>5. MigratingInv
    BY <1>3, <1>4 DEF MigratingInv, MigratedOnce
  <1> QED  BY <1>2, <1>5

LEMMA MigrationsInvariant == MigrationSpec => [](MigrationTypeOK /\ MigratingInv)
  BY MigratingInit, MigratingStep, PTL DEF MigrationSpec

\* However many processes start at one time and wherever they die: each script
\* is in the schema exactly when it is recorded, once and in order, and who
\* serves has them all.
THEOREM MigratedOnceCorrect == MigrationSpec => []MigratedOnce
  <1>1. MigratingInv => MigratedOnce
    BY DEF MigratingInv
  <1> QED  BY <1>1, MigrationsInvariant, PTL

-----------------------------------------------------------------------------
(* Attachments.                                                            *)

SentTypeOK ==
    /\ original \in Seq({"file", "other"}) /\ Len(original) <= MaxItems
    /\ place \in BOOLEAN
    /\ kept \in Seq(1..MaxItems)
    /\ era \in 1..MaxEra

LEMMA ParsedType ==
    ASSUME SentTypeOK
    PROVE  /\ Parsed(kept) \in Seq(Item) /\ Geo \in Seq(Item)
           /\ Len(Parsed(kept)) = Len(kept)
           /\ \A n \in 1..Len(kept) : Parsed(kept)[n].item = kept[n]
  <1>1. \A n \in DOMAIN kept : kept[n] \in 0..MaxItems
    BY AttachmentBounds DEF SentTypeOK
  <1>2. \A k \in 0..MaxItems, e \in 0..MaxEra : [item |-> k, url |-> e] \in Item
    BY DEF Item
  <1>3. era \in 0..MaxEra /\ NoUrl \in 0..MaxEra /\ Place \in 0..MaxItems
    BY AttachmentBounds DEF SentTypeOK, NoUrl, Place
  <1>4. Geo \in Seq(Item)
    BY <1>2, <1>3 DEF Geo
  <1>5. Parsed(kept) \in [1..Len(kept) -> Item] /\ Len(kept) \in Nat
    BY <1>1, <1>2, <1>3 DEF Parsed, SentTypeOK
  <1>6. \A n \in 1..Len(kept) : Parsed(kept)[n].item = kept[n]
    BY DEF Parsed, SentTypeOK
  <1> QED  BY <1>4, <1>5, <1>6

\* What VK sent, and nothing of it gone.
LEMMA SentInOrder ==
    ASSUME SentTypeOK, kept = [n \in DOMAIN original |-> n]
    PROVE  InOrder(Parsed(kept)) /\ Received(kept) \in Seq(Item) /\ InOrder(Received(kept))
  <1>1. /\ Parsed(kept) \in Seq(Item) /\ Geo \in Seq(Item)
        /\ Len(Parsed(kept)) = Len(kept)
        /\ \A n \in 1..Len(kept) : Parsed(kept)[n].item = n
    BY ParsedType DEF SentTypeOK
  <1>2. Len(kept) = Len(original) /\ DOMAIN original = 1..Len(kept)
    BY DEF SentTypeOK
  <1>3. \A n \in DOMAIN Geo : Geo[n].item = Place
    BY DEF Geo
  <1> HIDE DEF Parsed, Geo
  <1>4. InOrder(Parsed(kept))
    BY <1>1, <1>2 DEF InOrder, NthItem
  <1>5. InOrder(Parsed(kept) \o Geo)
    <2> SUFFICES ASSUME NEW n \in DOMAIN (Parsed(kept) \o Geo)
                 PROVE  (Parsed(kept) \o Geo)[n].item = NthItem(n)
      BY DEF InOrder
    <2>1. CASE n \in 1..Len(kept)
      BY <1>1, <1>2, <2>1 DEF NthItem
    <2>2. CASE n \notin 1..Len(kept)
      <3>1. n - Len(kept) \in DOMAIN Geo /\ (Parsed(kept) \o Geo)[n] = Geo[n - Len(kept)]
        BY <1>1, <2>2
      <3> QED  BY <1>2, <1>3, <2>2, <3>1 DEF NthItem
    <2> QED  BY <2>1, <2>2
  <1> QED  BY <1>1, <1>4, <1>5 DEF Received

LEMMA AttachmentsInit == AttachmentInit => AttachmentTypeOK /\ ListsAgree
  <1> SUFFICES ASSUME AttachmentInit PROVE AttachmentTypeOK /\ ListsAgree
    OBVIOUS
  <1>1. PICK n \in 0..MaxItems : original \in [1..n -> {"file", "other"}]
    BY DEF AttachmentInit
  <1>2. original \in Seq({"file", "other"}) /\ Len(original) = n /\ DOMAIN original = 1..n
    BY <1>1, AttachmentBounds
  <1>3. kept \in [1..n -> 1..MaxItems] /\ Len(kept) = n
    BY <1>1, <1>2, AttachmentBounds DEF AttachmentInit
  <1>4. kept \in Seq(1..MaxItems)
    BY <1>1, <1>3, AttachmentBounds
  <1>5. Unused \in Download
    BY AttachmentBounds DEF Unused, Download
  <1>6. SentTypeOK
    BY <1>2, <1>4, AttachmentBounds DEF AttachmentInit, SentTypeOK
  <1>7. kept = [i \in DOMAIN original |-> i]
    BY DEF AttachmentInit
  <1>8. Received(kept) \in Seq(Item) /\ InOrder(Received(kept))
    BY <1>6, <1>7, SentInOrder
  <1>9. stored = Received(kept) /\ page = <<>> /\ \A r \in Downloads : download[r] = Unused
    BY DEF AttachmentInit
  <1>10. AttachmentTypeOK
    BY <1>5, <1>6, <1>8 DEF AttachmentInit, AttachmentTypeOK, SentTypeOK
  <1>11. ListsAgree
    BY <1>2, <1>3, <1>7, <1>8, <1>9 DEF ListsAgree, InOrder, Unused
  <1> QED  BY <1>10, <1>11

\* A step that leaves the lists of the message alone.
LEMMA ProxyStep ==
    ASSUME AttachmentTypeOK, ListsAgree, NEW r \in Downloads, NEW d \in Download,
           Becomes(r, d), UNCHANGED <<vkMessage, era, page>>, stored' \in Seq(Item),
           d.at \in {"fetch", "again", "served"} => d.index \in DOMAIN d.items,
           ~Edited => /\ InOrder(d.items) /\ InOrder(stored')
                      /\ d.at # "free" => d.asked = NthItem(d.index)
    PROVE  AttachmentTypeOK' /\ ListsAgree'
  <1>1. /\ download' \in [Downloads -> Download]
        /\ download'[r] = d
        /\ \A q \in Downloads : q # r => download'[q] = download[q]
    BY DEF AttachmentTypeOK, Becomes
  <1>2. UNCHANGED <<original, place, kept, era, page>>
    BY DEF vkMessage
  <1>3. AttachmentTypeOK'
    BY <1>1, <1>2 DEF AttachmentTypeOK
  <1>4. ASSUME ~Edited'
        PROVE  /\ kept' = [n \in DOMAIN original' |-> n]
               /\ InOrder(stored)' /\ InOrder(page)'
               /\ \A q \in Downloads : InOrder(download[q].items)'
                     /\ (download'[q].at # "free" =>
                           download'[q].asked = NthItem(download[q].index)')
    <2>1. ~Edited
      BY <1>2, <1>4 DEF Edited
    <2>2. InOrder(stored)' /\ InOrder(page)' /\ kept' = [n \in DOMAIN original' |-> n]
      BY <1>2, <2>1 DEF ListsAgree, InOrder, NthItem
    <2>3. ASSUME NEW q \in Downloads
          PROVE  /\ InOrder(download[q].items)'
                 /\ download'[q].at # "free" =>
                       download'[q].asked = NthItem(download[q].index)'
      <3>1. CASE q = r
        BY <1>1, <1>2, <2>1, <3>1 DEF InOrder, NthItem
      <3>2. CASE q # r
        BY <1>1, <1>2, <2>1, <3>2 DEF ListsAgree, InOrder, NthItem
      <3> QED  BY <3>1, <3>2
    <2> QED  BY <2>2, <2>3
  <1>5. \A q \in Downloads : download'[q].at \in {"fetch", "again", "served"} =>
          download'[q].index \in DOMAIN download'[q].items
    BY <1>1 DEF ListsAgree
  <1>6. Len(kept') <= Len(original')
    BY <1>2 DEF ListsAgree
  <1> QED  BY <1>3, <1>4, <1>5, <1>6 DEF ListsAgree

LEMMA AttachmentsStep ==
    ASSUME AttachmentTypeOK, ListsAgree, [AttachmentNext]_attachmentVars
    PROVE  AttachmentTypeOK' /\ ListsAgree'
  <1>1. CASE UNCHANGED attachmentVars
    BY <1>1 DEF attachmentVars, vkMessage, AttachmentTypeOK, ListsAgree, Edited, InOrder, NthItem
  <1>2. CASE LinksExpire
    <2>1. era' \in 1..MaxEra
      BY <1>2, AttachmentBounds DEF LinksExpire, AttachmentTypeOK
    <2> QED  BY <1>2, <2>1
             DEF LinksExpire, vkMessage, AttachmentTypeOK, ListsAgree, Edited, InOrder, NthItem
  <1>3. CASE OpenPage
    BY <1>3 DEF OpenPage, vkMessage, AttachmentTypeOK, ListsAgree, Edited, InOrder, NthItem
  <1>4. ASSUME NEW n \in 1..MaxItems, EditMessage(n)
        PROVE  AttachmentTypeOK' /\ ListsAgree'
    <2>1. kept' \in Seq(1..MaxItems) /\ Len(kept') = Len(kept) - 1
      <3>1. kept \in Seq(1..MaxItems) /\ n \in DOMAIN kept
        BY <1>4 DEF EditMessage, AttachmentTypeOK
      <3> QED  BY <1>4, <3>1, RemoveAtProperties DEF EditMessage
    <2>2. UNCHANGED <<original, place, era, stored, page, download>>
      BY <1>4 DEF EditMessage
    <2>3. Len(kept) \in Nat /\ Len(original) \in Nat
      BY DEF AttachmentTypeOK
    <2>4. Len(kept') < Len(original') /\ Edited'
      BY <2>1, <2>2, <2>3 DEF ListsAgree, Edited
    <2> QED  BY <2>1, <2>2, <2>3, <2>4 DEF AttachmentTypeOK, ListsAgree
  <1>5. ASSUME NEW r \in Downloads,
               \/ Fetch(r) \/ GetById(r) \/ SaveAttachments(r) \/ FetchAgain(r)
               \/ EndDownload(r)
               \/ \E n \in 1..MaxItems + 1 : GetAttachment(r, n)
        PROVE  AttachmentTypeOK' /\ ListsAgree'
    <2>1. /\ download[r] \in Download
          /\ stored \in Seq(Item)
          /\ ~Edited => InOrder(stored) /\ InOrder(page) /\ InOrder(download[r].items)
      BY DEF AttachmentTypeOK, ListsAgree
    <2>2. Unused \in Download /\ Unused.at = "free" /\ InOrder(Unused.items)
      BY AttachmentBounds DEF Unused, Download, InOrder
    <2>3. CASE EndDownload(r)
      BY <2>1, <2>2, <2>3, ProxyStep DEF EndDownload, Ends, Reads
    <2>4. ASSUME NEW n \in 1..MaxItems + 1, GetAttachment(r, n)
          PROVE  AttachmentTypeOK' /\ ListsAgree'
      <3> DEFINE d == [at |-> "fetch", index |-> n, asked |-> page[n].item, items |-> stored]
      <3>1. page[n] \in Item /\ n \in Nat
        BY <2>4 DEF GetAttachment, AttachmentTypeOK
      <3>2. d \in Download /\ d.at = "fetch" /\ d.index \in DOMAIN d.items
            /\ d.items = stored /\ d.asked = page[n].item /\ d.index = n
        BY <2>1, <2>4, <3>1 DEF GetAttachment, Download, Item
      <3> HIDE DEF d
      <3>3. Becomes(r, d) /\ UNCHANGED <<vkMessage, era, stored, page>> /\ n \in DOMAIN page
        BY <2>4 DEF GetAttachment, Reads, d
      <3>4. ~Edited => d.asked = NthItem(d.index)
        BY <2>1, <3>2, <3>3 DEF InOrder
      <3> QED  BY <2>1, <3>2, <3>3, <3>4, ProxyStep
    <2>5. ASSUME NEW where \in {"served", "refresh", "again"},
                 Becomes(r, [download[r] EXCEPT !.at = where]),
                 download[r].at # "free",
                 where # "refresh" => download[r].index \in DOMAIN download[r].items,
                 UNCHANGED <<vkMessage, era, page>>, stored' \in Seq(Item),
                 ~Edited => InOrder(stored')
          PROVE  AttachmentTypeOK' /\ ListsAgree'
      <3> DEFINE d == [download[r] EXCEPT !.at = where]
      <3>1. d \in Download /\ d.at = where /\ d.index = download[r].index
            /\ d.items = download[r].items /\ d.asked = download[r].asked
        BY <2>1, <2>5 DEF Download
      <3> HIDE DEF d
      <3>2. Becomes(r, d)
        BY <2>5 DEF d
      <3>3. ~Edited => d.asked = NthItem(d.index)
        BY <2>5, <3>1 DEF ListsAgree
      <3> QED  BY <2>1, <2>5, <3>1, <3>2, <3>3, ProxyStep
    <2>6. CASE Fetch(r) \/ FetchAgain(r)
      <3>1. download[r].index \in DOMAIN download[r].items /\ download[r].at # "free"
        BY <2>6 DEF Fetch, FetchAgain, ListsAgree
      <3> QED  BY <2>1, <2>5, <2>6, <3>1 DEF Fetch, FetchAgain, Reads
    <2>7. CASE GetById(r)
      <3> DEFINE d == [download[r] EXCEPT !.at = "save", !.items = Parsed(kept)]
      <3>1. SentTypeOK
        BY DEF SentTypeOK, AttachmentTypeOK
      <3>2. d \in Download /\ d.at = "save" /\ d.index = download[r].index
            /\ d.items = Parsed(kept) /\ d.asked = download[r].asked
        BY <2>1, <3>1, ParsedType DEF Download
      <3> HIDE DEF d
      <3>3. Becomes(r, d) /\ download[r].at # "free" /\ UNCHANGED <<vkMessage, era, stored, page>>
        BY <2>7 DEF GetById, Reads, d
      <3>4. ~Edited => InOrder(d.items) /\ d.asked = NthItem(d.index)
        BY <3>1, <3>2, <3>3, SentInOrder DEF ListsAgree
      <3> QED  BY <2>1, <3>2, <3>3, <3>4, ProxyStep
    <2>8. CASE SaveAttachments(r)
      <3>1. /\ stored' = download[r].items /\ download[r].at = "save"
            /\ UNCHANGED <<vkMessage, era, page>>
            /\ stored' \in Seq(Item)
        BY <2>1, <2>8 DEF SaveAttachments, Download
      <3>2. CASE download[r].index \in DOMAIN download[r].items /\ Link(r) # NoUrl
        BY <2>1, <2>5, <2>8, <3>1, <3>2 DEF SaveAttachments
      <3>3. CASE ~(download[r].index \in DOMAIN download[r].items /\ Link(r) # NoUrl)
        BY <2>1, <2>2, <2>8, <3>1, <3>3, ProxyStep DEF SaveAttachments, Ends
      <3> QED  BY <3>2, <3>3
    <2> QED  BY <1>5, <2>3, <2>4, <2>6, <2>7, <2>8
  <1> QED  BY <1>1, <1>2, <1>3, <1>4, <1>5 DEF AttachmentNext

LEMMA AttachmentsInvariant == AttachmentSpec => [](AttachmentTypeOK /\ ListsAgree)
  BY AttachmentsInit, AttachmentsStep, PTL DEF AttachmentSpec

\* Renewing links moves no attachment, for any number of requests and however
\* old the page and the links are.
THEOREM ServedIsAskedCorrect == AttachmentSpec => []ServedIsAsked
  <1>1. AttachmentTypeOK /\ ListsAgree => ServedIsAsked
    BY DEF ListsAgree, ServedIsAsked, InOrder
  <1> QED  BY <1>1, AttachmentsInvariant, PTL

-----------------------------------------------------------------------------
(* Working hours.                                                          *)

\* The clock shows one of 24 hours, and the next one an hour later.
LEMMA ClockFace ==
    \A h \in Nat : /\ h % 24 \in 0..23
                   /\ (h + 1) % 24 = IF h % 24 = 23 THEN 0 ELSE (h % 24) + 1
  OBVIOUS

\* An hour of the same day, or of another.
LEMMA HourOfDay ==
    ASSUME NEW h \in Nat, NEW k \in 0..23, NEW d \in {0, 24}
    PROVE  h - (h % 24) + d + k \in Nat /\ (h - (h % 24) + d + k) % 24 = k
  OBVIOUS

\* Nobody is there between an hour of the night and the next working time.
LEMMA NextOpening ==
    ASSUME workHours \in WorkingHours, NEW h \in Nat, ~IsWorking(h)
    PROVE  /\ NextWorkingTime(h) \in h..(h + 47)
           /\ IsWorking(NextWorkingTime(h))
           /\ \A k \in h..(NextWorkingTime(h) - 1) : ~IsWorking(k)
  <1>1. workHours.start \in 0..23 /\ workHours.end \in 1..24 /\ workHours.start < workHours.end
    BY DEF WorkingHours
  <1>2. h % 24 \in 0..23
    BY ClockFace
  <1>3. NextWorkingTime(h) \in h..(h + 47)
    BY <1>1, <1>2 DEF NextWorkingTime, IsWorking
  <1>4. NextWorkingTime(h) % 24 = workHours.start
    BY <1>1, <1>2, HourOfDay DEF NextWorkingTime
  <1>5. ASSUME NEW k \in h..(NextWorkingTime(h) - 1)
        PROVE  ~IsWorking(k)
    <2> DEFINE day == h - (h % 24)
    <2>1. k \in Nat /\ day \in Nat
      BY <1>2, <1>3, <1>5
    <2>2. CASE k < day + 24
      <3>1. k - day \in 0..23
        BY <1>2, <1>5, <2>1, <2>2
      <3>2. k % 24 = k - day
        BY <3>1, HourOfDay, <2>1
      <3> QED  BY <1>1, <1>2, <1>5, <3>2 DEF NextWorkingTime, IsWorking
    <2>3. CASE k >= day + 24
      <3>0. NextWorkingTime(h) \in {day + 0 + workHours.start, day + 24 + workHours.start}
        <4>1. CASE h % 24 < workHours.start
          BY <1>1, <1>2, <4>1 DEF NextWorkingTime
        <4>2. CASE ~(h % 24 < workHours.start)
          BY <1>1, <1>2, <4>2 DEF NextWorkingTime
        <4> QED  BY <4>1, <4>2
      <3>1. k - day - 24 \in 0..23
        <4> HIDE DEF day
        <4> QED  BY <1>1, <1>5, <2>1, <2>3, <3>0
      <3>2. k % 24 = k - day - 24
        BY <3>1, HourOfDay, <2>1
      <3> QED  BY <1>1, <1>2, <1>5, <2>1, <2>3, <3>2 DEF NextWorkingTime, IsWorking
    <2> QED  BY <2>1, <2>2, <2>3
  <1> QED  BY <1>1, <1>3, <1>4, <1>5 DEF IsWorking

LEMMA HoursStart == HoursInit => HoursTypeOK /\ NoticeIsOfThisHour
  BY HourAssumption DEF HoursInit, HoursTypeOK, NoticeIsOfThisHour, NoNotice, Notice

LEMMA HoursStep ==
    ASSUME HoursTypeOK, NoticeIsOfThisHour, [HoursNext]_hoursVars
    PROVE  HoursTypeOK' /\ NoticeIsOfThisHour'
  <1>1. CASE UNCHANGED hoursVars
    BY <1>1 DEF hoursVars, HoursTypeOK, NoticeIsOfThisHour, IsWorking, NextWorkingTime
  <1>2. CASE HourPasses
    BY <1>2, HourAssumption DEF HourPasses, HoursTypeOK, NoticeIsOfThisHour, IsWorking,
       NoNotice, Notice
  <1>3. CASE AskWorking
    BY <1>3, HourAssumption DEF AskWorking, HoursTypeOK, NoticeIsOfThisHour, IsWorking, Notice
  <1>4. CASE Promise
    <2>1. NextWorkingTime(hour) \in 0..(MaxHour + 48)
      <3>1. hour \in 0..MaxHour /\ hour % 24 \in 0..23 /\ workHours.start \in 0..23
        BY HourAssumption, ClockFace DEF HoursTypeOK, WorkingHours
      <3> QED  BY <3>1, HourAssumption DEF NextWorkingTime
    <2>2. /\ notice' = [notice EXCEPT !.at = "promised", !.opens = NextWorkingTime(hour)]
          /\ notice \in Notice /\ notice.at = "asked"
      BY <1>4 DEF Promise, HoursTypeOK
    <2>3. notice' \in Notice /\ notice'.at = "promised" /\ notice'.since = notice.since
          /\ notice'.opens = NextWorkingTime(hour)
      BY <2>1, <2>2 DEF Notice
    <2> QED  BY <1>4, <2>2, <2>3
             DEF Promise, HoursTypeOK, NoticeIsOfThisHour, IsWorking, NextWorkingTime
  <1> QED  BY <1>1, <1>2, <1>3, <1>4 DEF HoursNext

LEMMA HoursInvariant == HoursSpec => [](HoursTypeOK /\ NoticeIsOfThisHour)
  BY HoursStart, HoursStep, PTL DEF HoursSpec

\* A client who writes out of hours is promised the hour at which somebody is
\* next there, for any working hours and at any hour; the day after when the
\* office opens between the two readings of the clock.
THEOREM NoticeNamesOpeningCorrect == HoursSpec => []NoticeNamesOpening
  <1>1. ASSUME HoursTypeOK, NoticeIsOfThisHour PROVE NoticeNamesOpening
    <2>1. /\ workHours \in WorkingHours /\ hour \in 0..MaxHour /\ notice.since \in 0..MaxHour
          /\ workHours.start \in 0..23 /\ workHours.end \in 1..24
          /\ workHours.start < workHours.end
      BY <1>1 DEF HoursTypeOK, Notice, WorkingHours
    <2>2. \A h \in 0..(MaxHour + 48) : h \in Manned <=> IsWorking(h)
      BY <2>1, HourAssumption, ClockFace DEF Manned, IsWorking
    <2>3. notice.at = "quiet" => notice.since \in Manned
      BY <1>1, <2>1, <2>2, HourAssumption DEF NoticeIsOfThisHour
    <2>4. ASSUME notice.at = "promised"
          PROVE  \E next \in Manned :
                    /\ next >= notice.since
                    /\ \A h \in Manned : h >= notice.since => h >= next
                    /\ \/ notice.opens = next
                       \/ next = notice.since + 1 /\ notice.opens = next + 24
      <3>1. /\ ~IsWorking(notice.since) /\ hour \in {notice.since, notice.since + 1}
            /\ notice.opens = NextWorkingTime(hour)
        BY <1>1, <2>4 DEF NoticeIsOfThisHour
      <3>2. CASE ~IsWorking(hour)
        <4> DEFINE next == NextWorkingTime(hour)
        <4>1. /\ next \in hour..(hour + 47) /\ IsWorking(next)
              /\ \A k \in hour..(next - 1) : ~IsWorking(k)
          BY <2>1, <3>2, HourAssumption, NextOpening
        <4> HIDE DEF next
        <4>2. next \in Manned /\ next >= notice.since
          BY <2>1, <2>2, <3>1, <4>1, HourAssumption
        <4>3. ASSUME NEW h \in Manned, h >= notice.since PROVE h >= next
          BY <2>1, <2>2, <3>1, <4>1, <4>3, HourAssumption DEF Manned
        <4>4. notice.opens = next
          BY <3>1 DEF next
        <4> QED  BY <4>2, <4>3, <4>4
      <3>3. CASE IsWorking(hour)
        <4>1. hour = notice.since + 1
          BY <3>1, <3>3
        <4>2. hour % 24 = workHours.start
          BY <2>1, <3>1, <3>3, <4>1, ClockFace, HourAssumption DEF IsWorking
        <4>3. NextWorkingTime(hour) = hour + 24
          BY <2>1, <4>2, HourAssumption DEF NextWorkingTime
        <4>4. hour \in Manned /\ hour >= notice.since
          BY <2>1, <2>2, <3>3, <4>1, HourAssumption
        <4>5. ASSUME NEW h \in Manned, h >= notice.since PROVE h >= hour
          BY <2>1, <2>2, <3>1, <4>1, <4>5, HourAssumption DEF Manned
        <4> QED  BY <3>1, <4>1, <4>3, <4>4, <4>5
      <3> QED  BY <3>2, <3>3
    <2> QED  BY <2>3, <2>4 DEF NoticeNamesOpening
  <1> QED  BY <1>1, HoursInvariant, PTL

-----------------------------------------------------------------------------
(* The FAQ.                                                                *)

\* ORDER BY position, id is a strict order of the rows, and total.
LEMMA TotalOrder ==
    ASSUME FaqTypeOK
    PROVE  /\ \A i \in DOMAIN faq : ~Precedes(i, i)
           /\ \A i, j \in DOMAIN faq : i # j => Precedes(i, j) \/ Precedes(j, i)
           /\ \A i, j, k \in DOMAIN faq :
                 Precedes(i, j) /\ Precedes(j, k) => Precedes(i, k)
  <1>1. \A i \in DOMAIN faq : i \in Nat /\ faq[i].position \in Nat
    BY FaqIdsAssumption DEF FaqTypeOK, FaqRow
  <1> QED  BY <1>1 DEF Precedes

LEMMA RankType ==
    ASSUME FaqTypeOK, NEW ids \in SUBSET DOMAIN faq, IsFiniteSet(ids), NEW i \in ids
    PROVE  Rank(ids, i) \in 0..(Cardinality(ids) - 1)
  <1> DEFINE before == {j \in ids : Precedes(j, i)}
  <1>1. before \subseteq ids /\ i \notin before
    BY TotalOrder
  <1>2. Cardinality(before) <= Cardinality(ids) /\ Cardinality(before) # Cardinality(ids)
    BY <1>1, FS_Subset
  <1>3. Cardinality(before) \in Nat /\ Cardinality(ids) \in Nat
    BY <1>1, FS_Subset, FS_CardinalityType
  <1> QED  BY <1>2, <1>3 DEF Rank

LEMMA RankGrows ==
    ASSUME FaqTypeOK, NEW ids \in SUBSET DOMAIN faq, IsFiniteSet(ids),
           NEW i \in ids, NEW j \in ids, Precedes(i, j)
    PROVE  Rank(ids, i) < Rank(ids, j)
  <1> DEFINE S == {k \in ids : Precedes(k, i)}
             T == {k \in ids : Precedes(k, j)}
  <1>1. S \subseteq T /\ S # T /\ T \subseteq ids
    BY TotalOrder
  <1>2. IsFiniteSet(T) /\ IsFiniteSet(S)
    BY <1>1, FS_Subset
  <1>3. Cardinality(S) \in Nat /\ Cardinality(T) \in Nat
    BY <1>2, FS_CardinalityType
  <1>4. Cardinality(S) <= Cardinality(T) /\ Cardinality(S) # Cardinality(T)
    <2> HIDE DEF S, T
    <2> QED  BY <1>1, <1>2, FS_Subset
  <1> QED  BY <1>3, <1>4 DEF Rank

\* Sorting gives each topic the place that its rank says, and a topic to every
\* place.
LEMMA SortedProperties ==
    ASSUME FaqTypeOK, NEW ids \in SUBSET DOMAIN faq, IsFiniteSet(ids)
    PROVE  /\ Cardinality(ids) \in Nat
           /\ Sorted(ids) \in [1..Cardinality(ids) -> ids]
           /\ \A n \in 1..Cardinality(ids) : Rank(ids, Sorted(ids)[n]) = n - 1
           /\ \A i \in ids : /\ Rank(ids, i) + 1 \in 1..Cardinality(ids)
                             /\ Sorted(ids)[Rank(ids, i) + 1] = i
  <1> DEFINE N == Cardinality(ids)
             rank == [i \in ids |-> Rank(ids, i)]
  <1>1. N \in Nat
    BY FS_CardinalityType
  <1> HIDE DEF N
  <1>2. \A i \in ids : Rank(ids, i) \in 0..(N - 1)
    BY RankType DEF N
  <1>3. \A i, j \in ids : Rank(ids, i) = Rank(ids, j) => i = j
    <2> SUFFICES ASSUME NEW i \in ids, NEW j \in ids, i # j
                 PROVE  Rank(ids, i) # Rank(ids, j)
      OBVIOUS
    <2>1. Rank(ids, i) \in Nat /\ Rank(ids, j) \in Nat
      BY <1>1, <1>2
    <2>2. Rank(ids, i) < Rank(ids, j) \/ Rank(ids, j) < Rank(ids, i)
      BY TotalOrder, RankGrows
    <2> QED  BY <2>1, <2>2
  <1>4. rank \in Injection(ids, 0..(N - 1))
    BY <1>2, <1>3 DEF Injection, IsInjective
  <1>5. IsFiniteSet(0..(N - 1)) /\ Cardinality(0..(N - 1)) = N
    BY <1>1, FS_Interval
  <1>6. rank \in Surjection(ids, 0..(N - 1))
    BY <1>4, <1>5, FS_Injection DEF N
  <1>7. \A n \in 1..N : \E i \in ids : Rank(ids, i) = n - 1
    <2> SUFFICES ASSUME NEW n \in 1..N PROVE \E i \in ids : rank[i] = n - 1
      OBVIOUS
    <2>1. n - 1 \in 0..(N - 1)
      BY <1>1
    <2> QED  BY <1>6, <2>1 DEF Surjection
  <1>8. \A n \in 1..N : Sorted(ids)[n] \in ids /\ Rank(ids, Sorted(ids)[n]) = n - 1
    BY <1>7 DEF Sorted, N
  <1>9. DOMAIN Sorted(ids) = 1..N /\ Sorted(ids) = [n \in 1..N |-> Sorted(ids)[n]]
    BY DEF Sorted, N
  <1>10. ASSUME NEW i \in ids
         PROVE  Rank(ids, i) + 1 \in 1..N /\ Sorted(ids)[Rank(ids, i) + 1] = i
    <2>1. Rank(ids, i) + 1 \in 1..N /\ (Rank(ids, i) + 1) - 1 = Rank(ids, i)
      BY <1>1, <1>2
    <2> QED  BY <1>3, <1>8, <2>1
  <1> QED  BY <1>1, <1>8, <1>9, <1>10 DEF N

\* The first stands before the second, and so on.
LEMMA SortedInOrder ==
    ASSUME FaqTypeOK, NEW ids \in SUBSET DOMAIN faq, IsFiniteSet(ids),
           NEW m \in 1..Cardinality(ids), NEW n \in 1..Cardinality(ids), m < n
    PROVE  Precedes(Sorted(ids)[m], Sorted(ids)[n])
  <1>1. /\ Sorted(ids)[m] \in ids /\ Sorted(ids)[n] \in ids
        /\ Rank(ids, Sorted(ids)[m]) = m - 1 /\ Rank(ids, Sorted(ids)[n]) = n - 1
    BY SortedProperties
  <1>2. Rank(ids, Sorted(ids)[m]) < Rank(ids, Sorted(ids)[n])
    BY <1>1, SortedProperties
  <1>3. ~(Rank(ids, Sorted(ids)[n]) < Rank(ids, Sorted(ids)[m]))
    BY <1>1, <1>2, SortedProperties
  <1> QED  BY <1>1, <1>2, <1>3, TotalOrder, RankGrows

\* A new topic gets a position after all the others.
LEMMA LastPositionType ==
    ASSUME FaqTypeOK, IsFiniteSet(DOMAIN faq)
    PROVE  LastPosition \in Nat
  <1>1. CASE DOMAIN faq = {}
    BY <1>1 DEF LastPosition
  <1>2. CASE DOMAIN faq # {}
    <2> DEFINE ids == DOMAIN faq
               N == Cardinality(ids)
               last == Sorted(ids)[N]
               Highest(i) == \A j \in DOMAIN faq : faq[j].position <= faq[i].position
    <2>1. N \in Nat /\ N # 0
      BY <1>2, FS_EmptySet, FS_CardinalityType
    <2>2. last \in DOMAIN faq /\ Rank(ids, last) = N - 1
      BY <2>1, SortedProperties
    <2>3. \A j \in ids : Rank(ids, j) \in 0..(N - 1)
      BY RankType
    <2> HIDE DEF last, ids, N
    <2>4. \A j \in ids : ~Precedes(last, j)
      <3>1. \A j \in ids : ~(Rank(ids, last) < Rank(ids, j))
        BY <2>1, <2>2, <2>3
      <3> QED  BY <2>2, <3>1, RankGrows DEF ids
    <2>5. \A i \in DOMAIN faq : faq[i].position \in Nat
      BY DEF FaqTypeOK, FaqRow
    <2>6. Highest(last)
      BY <2>2, <2>4, <2>5, TotalOrder DEF Precedes, ids
    <2>7. PICK k \in DOMAIN faq : k = (CHOOSE i \in DOMAIN faq : Highest(i))
      BY <2>2, <2>6
    <2> QED  BY <1>2, <2>5, <2>7 DEF LastPosition
  <1> QED  BY <1>1, <1>2

\* The list that a dashboard loads.
LEMMA ListingProperties ==
    ASSUME FaqTypeOK, IsFiniteSet(DOMAIN faq)
    PROVE  /\ Listing \in Seq(Topic) /\ DOMAIN Listing = 1..Cardinality(DOMAIN faq)
           /\ \A n \in DOMAIN Listing :
                 /\ Listing[n].id = Sorted(DOMAIN faq)[n]
                 /\ Listing[n].id \in DOMAIN faq
                 /\ Listing[n].active = faq[Listing[n].id].active
           /\ \A m, n \in DOMAIN Listing : Listing[m].id = Listing[n].id => m = n
  <1> DEFINE N == Cardinality(DOMAIN faq)
             sorted == Sorted(DOMAIN faq)
  <1>1. /\ N \in Nat
        /\ \A n \in 1..N : sorted[n] \in DOMAIN faq /\ Rank(DOMAIN faq, sorted[n]) = n - 1
    BY SortedProperties
  <1>2. Listing = [n \in 1..N |-> [id |-> sorted[n], active |-> faq[sorted[n]].active]]
    BY DEF Listing
  <1> HIDE DEF N, sorted
  <1>3. \A i \in DOMAIN faq : i \in FaqIds /\ faq[i].active \in BOOLEAN
    BY DEF FaqTypeOK, FaqRow
  <1>4. DOMAIN Listing = 1..N /\ \A n \in 1..N : Listing[n] \in Topic
    BY <1>1, <1>2, <1>3 DEF Topic
  <1>5. Listing \in Seq(Topic)
    BY <1>1, <1>2, <1>4, IsASeq
  <1>6. \A m, n \in 1..N : sorted[m] = sorted[n] => m = n
    BY <1>1
  <1> QED  BY <1>1, <1>2, <1>4, <1>5, <1>6 DEF sorted, N

LEMMA SameTable ==
    ASSUME UNCHANGED faq
    PROVE  Listing' = Listing /\ \A i, j : Precedes(i, j)' = Precedes(i, j)
  BY DEF Listing, Sorted, Rank, Precedes

\* What happens to one dashboard.
LEMMA ScreenStep ==
    ASSUME FaqTypeOK, ListsAreOfTopics, NEW s \in Screens, NEW x \in Screen,
           screen' = [screen EXCEPT ![s] = x],
           used \subseteq used', IsFiniteSet(used'),
           \A m, n \in DOMAIN x.list : x.list[m].id = x.list[n].id => m = n,
           \A n \in DOMAIN x.list : x.list[n].id \in used,
           OnceEach(reordered'), Range(reordered') \subseteq used',
           \/ current' = {}
           \/ /\ UNCHANGED faq /\ current' \subseteq current \cup {s}
              /\ s \in current' => x.list = Listing
    PROVE  /\ screen' \in [Screens -> Screen] /\ current' \subseteq Screens
           /\ ListsAreOfTopics'
  <1>1. /\ screen' \in [Screens -> Screen] /\ screen'[s] = x
        /\ \A r \in Screens : r # s => screen'[r] = screen[r]
    BY DEF FaqTypeOK
  <1>2. current' \subseteq Screens
    BY DEF FaqTypeOK
  <1>3. ASSUME NEW r \in Screens
        PROVE  (OnceEach(Asked(r)) /\ Range(Asked(r)) \subseteq used)'
    <2>1. CASE r = s
      <3>1. Asked(r)' = [n \in DOMAIN x.list |-> x.list[n].id]
        BY <1>1, <2>1 DEF Asked
      <3>2. DOMAIN Asked(r)' = DOMAIN x.list /\ \A n \in DOMAIN x.list : Asked(r)'[n] = x.list[n].id
        BY <3>1
      <3> QED  BY <3>2 DEF OnceEach, Range
    <2>2. CASE r # s
      <3>1. Asked(r)' = Asked(r)
        BY <1>1, <2>2 DEF Asked
      <3> QED  BY <3>1 DEF ListsAreOfTopics, OnceEach
    <2> QED  BY <2>1, <2>2
  <1>4. ASSUME NEW r \in current'
        PROVE  screen'[r].list = Listing'
    <2>1. Listing' = Listing
      BY <1>4, SameTable
    <2> QED  BY <1>1, <1>4, <2>1 DEF ListsAreOfTopics, FaqTypeOK
  <1>5. (OnceEach(reordered) /\ Range(reordered) \subseteq used)'
    BY DEF OnceEach
  <1> QED  BY <1>1, <1>2, <1>3, <1>4, <1>5 DEF ListsAreOfTopics

\* The list of a dashboard, entry by entry.
LEMMA ListOfTopics ==
    ASSUME FaqTypeOK, ListsAreOfTopics, NEW s \in Screens
    PROVE  /\ screen[s] \in Screen /\ screen[s].list \in Seq(Topic)
           /\ Asked(s) \in Seq(FaqIds) /\ DOMAIN Asked(s) = DOMAIN screen[s].list
           /\ \A n \in DOMAIN screen[s].list :
                 Asked(s)[n] = screen[s].list[n].id /\ screen[s].list[n].id \in used
           /\ \A m, n \in DOMAIN screen[s].list :
                 screen[s].list[m].id = screen[s].list[n].id => m = n
  <1>1. screen[s] \in Screen /\ screen[s].list \in Seq(Topic)
    BY DEF FaqTypeOK, Screen
  <1>2. /\ Asked(s) = [n \in 1..Len(screen[s].list) |-> screen[s].list[n].id]
        /\ Len(screen[s].list) \in Nat
    BY <1>1 DEF Asked
  <1>3. \A n \in 1..Len(screen[s].list) : screen[s].list[n].id \in FaqIds
    <2>1. \A t \in Topic : t.id \in FaqIds
      BY DEF Topic
    <2> QED  BY <1>1, <2>1
  <1>4. Asked(s) \in Seq(FaqIds)
    <2> DEFINE n == Len(screen[s].list)
    <2>1. Asked(s) \in [1..n -> FaqIds] /\ n \in Nat
      BY <1>2, <1>3
    <2> QED  BY <2>1, SeqDef
  <1> QED  BY <1>1, <1>2, <1>4 DEF ListsAreOfTopics, OnceEach, Range

\* The request of a dashboard goes on, and its list stays.
LEMMA GoesOn ==
    ASSUME FaqTypeOK, ListsAreOfTopics, NEW s \in Screens,
           NEW where \in {"idle", "reorder", "load"}, Goes(s, where),
           used \subseteq used', IsFiniteSet(used'),
           OnceEach(reordered'), Range(reordered') \subseteq used',
           current' = {} \/ UNCHANGED <<faq, current>>
    PROVE  /\ screen' \in [Screens -> Screen] /\ current' \subseteq Screens
           /\ ListsAreOfTopics'
  <1> DEFINE x == [screen[s] EXCEPT !.at = where, !.written = 0]
  <1>1. screen[s] \in Screen
    BY DEF FaqTypeOK
  <1>2. x \in Screen /\ x.list = screen[s].list
    BY <1>1 DEF Screen
  <1>3. screen' = [screen EXCEPT ![s] = x]
    BY DEF Goes, FaqTypeOK
  <1> HIDE DEF x
  <1>4. s \in current' => x.list = Listing
    BY <1>2 DEF ListsAreOfTopics
  <1>5. /\ \A m, n \in DOMAIN x.list : x.list[m].id = x.list[n].id => m = n
        /\ \A n \in DOMAIN x.list : x.list[n].id \in used
    BY <1>2, ListOfTopics
  <1> QED  BY <1>2, <1>3, <1>4, <1>5, ScreenStep

LEMMA FaqStart == FaqInit => FaqTypeOK /\ ListsAreOfTopics /\ LastReorderWins
  <1> SUFFICES ASSUME FaqInit PROVE FaqTypeOK /\ ListsAreOfTopics /\ LastReorderWins
    OBVIOUS
  <1> USE FaqIdsAssumption, UpsetsAssumption
  <1> DEFINE N == Initially
             list == [i \in used |-> [id |-> i, active |-> TRUE]]
  <1>1. used = 1..N /\ IsFiniteSet(used) /\ Cardinality(used) = N /\ used \subseteq FaqIds
    BY FS_Interval DEF FaqInit
  <1>2. faq \in [used -> FaqRow] /\ \A i \in used : faq[i].position = i - 1 /\ faq[i].active = TRUE
    BY <1>1 DEF FaqInit, FaqRow
  <1>3. list \in [1..N -> Topic] /\ list \in Seq(Topic) /\ DOMAIN list = 1..N
    <2>1. list \in [1..N -> Topic]
      BY <1>1 DEF Topic
    <2> QED  BY <2>1, SeqDef
  <1>4. \A n \in 1..N : list[n].id = n /\ list[n].active = TRUE
    BY <1>1
  <1>5. \A s \in Screens : /\ screen[s] \in Screen /\ screen[s].list = list
    BY <1>3 DEF FaqInit, Screen
  <1>6. screen \in [Screens -> Screen]
    BY <1>5 DEF FaqInit
  <1>7. FaqTypeOK
    <2>1. DOMAIN faq = used /\ faq \in [DOMAIN faq -> FaqRow]
      BY <1>2
    <2>2. edits \in 0..MaxEdits /\ upsets \in 0..MaxUpsets /\ reordered \in Seq(FaqIds)
          /\ current \subseteq Screens
      BY DEF FaqInit
    <2> QED  BY <1>1, <1>6, <2>1, <2>2 DEF FaqTypeOK
  <1>8. DOMAIN faq = 1..N
    BY <1>1, <1>2
  <1>9. \A n \in 1..N : Rank(1..N, n) = n - 1
    <2> SUFFICES ASSUME NEW n \in 1..N PROVE Rank(1..N, n) = n - 1
      OBVIOUS
    <2>1. \A j \in 1..N : Precedes(j, n) <=> j < n
      BY <1>1, <1>2 DEF Precedes
    <2>2. {j \in 1..N : Precedes(j, n)} = 1..(n - 1)
      BY <2>1
    <2>3. Cardinality(1..(n - 1)) = n - 1
      BY FS_Interval
    <2> QED  BY <2>2, <2>3 DEF Rank
  <1>10. \A n \in 1..N : Sorted(DOMAIN faq)[n] = n
    <2> SUFFICES ASSUME NEW n \in 1..N PROVE Sorted(1..N)[n] = n
      BY <1>8
    <2>1. Sorted(1..N)[Rank(1..N, n) + 1] = n
      BY <1>1, <1>7, <1>8, SortedProperties
    <2> QED  BY <1>9, <2>1
  <1>11. Listing = list
    BY <1>1, <1>2, <1>8, <1>10 DEF Listing
  <1> HIDE DEF list
  <1>12. ASSUME NEW s \in Screens PROVE OnceEach(Asked(s)) /\ Range(Asked(s)) \subseteq used
    <2>1. Asked(s) = [n \in 1..N |-> list[n].id]
      BY <1>3, <1>5 DEF Asked
    <2> QED  BY <1>1, <1>4, <2>1 DEF OnceEach, Range
  <1>13. OnceEach(reordered) /\ Range(reordered) \subseteq used /\ LastReorderWins
    BY DEF FaqInit, OnceEach, Range, LastReorderWins
  <1> QED  BY <1>1, <1>5, <1>7, <1>11, <1>12, <1>13 DEF ListsAreOfTopics, FaqTypeOK

LEMMA FaqStep ==
    ASSUME FaqTypeOK, ListsAreOfTopics, LastReorderWins, [FaqNext]_faqVars
    PROVE  FaqTypeOK' /\ ListsAreOfTopics' /\ LastReorderWins'
  <1> USE UpsetsAssumption
  <1>0. IsFiniteSet(used) /\ IsFiniteSet(DOMAIN faq) /\ used \subseteq FaqIds
        /\ OnceEach(reordered) /\ Range(reordered) \subseteq used
    BY FS_Subset DEF FaqTypeOK, ListsAreOfTopics
  <1>1. CASE UNCHANGED faqVars
    <2>1. FaqTypeOK'
      BY <1>1 DEF faqVars, FaqTypeOK
    <2>2. ListsAreOfTopics'
      BY <1>1, SameTable DEF faqVars, ListsAreOfTopics, OnceEach, Asked
    <2>3. LastReorderWins'
      BY <1>1 DEF faqVars, LastReorderWins, Precedes
    <2> QED  BY <2>1, <2>2, <2>3
  <1>2. ASSUME UNCHANGED <<faq, reordered>> PROVE LastReorderWins'
    BY <1>2 DEF LastReorderWins, Precedes
  <1>3. ASSUME NEW s \in Screens, Mount(s)
        PROVE  FaqTypeOK' /\ ListsAreOfTopics' /\ LastReorderWins'
    <2> DEFINE x == [list |-> <<>>, at |-> "load", written |-> 0]
    <2>1. x \in Screen /\ x.list = <<>> /\ DOMAIN x.list = {}
      BY DEF Screen
    <2>2. screen' = [screen EXCEPT ![s] = x] /\ s \notin current' /\ current' \subseteq current
          /\ UNCHANGED <<faq, used, edits, upsets, reordered>>
      BY <1>3 DEF Mount
    <2> HIDE DEF x
    <2>3. screen' \in [Screens -> Screen] /\ current' \subseteq Screens /\ ListsAreOfTopics'
      BY <1>0, <2>1, <2>2, ScreenStep DEF OnceEach
    <2> QED  BY <1>2, <2>2, <2>3 DEF FaqTypeOK
  <1>4. ASSUME NEW s \in Screens, LoadFaq(s)
        PROVE  FaqTypeOK' /\ ListsAreOfTopics' /\ LastReorderWins'
    <2> DEFINE x == [list |-> Listing, at |-> "idle", written |-> 0]
    <2>1. x \in Screen /\ x.list = Listing
      BY <1>0, ListingProperties DEF Screen
    <2>2. screen' = [screen EXCEPT ![s] = x] /\ current' = current \cup {s}
          /\ UNCHANGED <<faq, used, edits, upsets, reordered>>
      BY <1>4 DEF LoadFaq
    <2> HIDE DEF x
    <2>3. /\ \A m, n \in DOMAIN x.list : x.list[m].id = x.list[n].id => m = n
          /\ \A n \in DOMAIN x.list : x.list[n].id \in used
      BY <1>0, <2>1, ListingProperties DEF FaqTypeOK
    <2>4. screen' \in [Screens -> Screen] /\ current' \subseteq Screens /\ ListsAreOfTopics'
      BY <1>0, <2>1, <2>2, <2>3, ScreenStep DEF OnceEach
    <2> QED  BY <1>2, <2>2, <2>4 DEF FaqTypeOK
  <1>5. ASSUME NEW s \in Screens, UpdatePosition(s)
        PROVE  FaqTypeOK' /\ ListsAreOfTopics' /\ LastReorderWins'
    <2> DEFINE x == [screen[s] EXCEPT !.written = screen[s].written + 1]
    <2>1. x \in Screen /\ x.list = screen[s].list
      BY ListOfTopics DEF Screen
    <2>2. screen' = [screen EXCEPT ![s] = x]
          /\ UNCHANGED <<faq, used, edits, upsets, reordered, current>>
      BY <1>5 DEF UpdatePosition, AfterUpdate
    <2> HIDE DEF x
    <2>3. /\ \A m, n \in DOMAIN x.list : x.list[m].id = x.list[n].id => m = n
          /\ \A n \in DOMAIN x.list : x.list[n].id \in used
          /\ s \in current => x.list = Listing
      BY <2>1, ListOfTopics DEF ListsAreOfTopics
    <2>4. screen' \in [Screens -> Screen] /\ current' \subseteq Screens /\ ListsAreOfTopics'
      BY <1>0, <2>1, <2>2, <2>3, ScreenStep DEF OnceEach
    <2> QED  BY <1>2, <2>2, <2>4 DEF FaqTypeOK
  <1>6. ASSUME NEW s \in Screens, CommitReorder(s)
        PROVE  FaqTypeOK' /\ ListsAreOfTopics' /\ LastReorderWins'
    <2> DEFINE asked == Asked(s)
    <2>1. /\ asked \in Seq(FaqIds) /\ OnceEach(asked) /\ Range(asked) \subseteq used
          /\ \A n \in DOMAIN asked : n \in Nat \ {0}
      BY ListOfTopics DEF ListsAreOfTopics
    <2>2. /\ reordered' = asked /\ UNCHANGED <<used, edits, upsets>>
          /\ current' = {} /\ Goes(s, "load")
      BY <1>6 DEF CommitReorder
    <2>3. faq' = [i \in DOMAIN faq |->
             IF \E n \in DOMAIN asked : asked[n] = i
             THEN [faq[i] EXCEPT !.position = (CHOOSE n \in DOMAIN asked : asked[n] = i) - 1]
             ELSE faq[i]]
      BY <1>6 DEF CommitReorder
    <2> HIDE DEF asked
    <2>4. \A n \in DOMAIN asked : asked[n] \in DOMAIN faq => faq'[asked[n]].position = n - 1
      <3> SUFFICES ASSUME NEW n \in DOMAIN asked, asked[n] \in DOMAIN faq
                   PROVE  faq'[asked[n]].position = n - 1
        OBVIOUS
      <3>1. (CHOOSE k \in DOMAIN asked : asked[k] = asked[n]) = n
        BY <2>1 DEF OnceEach
      <3>2. faq[asked[n]] \in FaqRow
        BY DEF FaqTypeOK
      <3>3. faq'[asked[n]] = [faq[asked[n]] EXCEPT !.position = n - 1]
        BY <2>3, <3>1
      <3> QED  BY <3>2, <3>3 DEF FaqRow
    <2>5. ASSUME NEW i \in DOMAIN faq
          PROVE  faq'[i] \in FaqRow
      <3>1. CASE \E n \in DOMAIN asked : asked[n] = i
        <4>1. PICK n \in DOMAIN asked : n = CHOOSE k \in DOMAIN asked : asked[k] = i
          BY <3>1
        <4>2. faq'[i] = [faq[i] EXCEPT !.position = n - 1]
          BY <2>3, <3>1, <4>1
        <4>3. n - 1 \in Nat /\ faq[i] \in FaqRow
          BY <2>1 DEF FaqTypeOK
        <4> QED  BY <4>2, <4>3 DEF FaqRow
      <3>2. CASE ~\E n \in DOMAIN asked : asked[n] = i
        BY <2>3, <3>2 DEF FaqTypeOK
      <3> QED  BY <3>1, <3>2
    <2>6. screen' \in [Screens -> Screen] /\ current' \subseteq Screens /\ ListsAreOfTopics'
      BY <1>0, <2>1, <2>2, GoesOn DEF OnceEach
    <2>7. DOMAIN faq' = DOMAIN faq
      BY <2>3
    <2>8. FaqTypeOK'
      BY <2>1, <2>2, <2>3, <2>5, <2>6, <2>7 DEF FaqTypeOK
    <2>9. LastReorderWins'
      BY <2>1, <2>2, <2>4, <2>7 DEF LastReorderWins, Precedes
    <2> QED  BY <2>6, <2>8, <2>9
  <1>7. ASSUME NEW s \in Screens, RunFails(s)
        PROVE  FaqTypeOK' /\ ListsAreOfTopics' /\ LastReorderWins'
    <2>1. screen' \in [Screens -> Screen] /\ current' \subseteq Screens /\ ListsAreOfTopics'
      BY <1>0, <1>7, GoesOn DEF RunFails, OnceEach
    <2>2. upsets' \in 0..MaxUpsets
      BY <1>7 DEF RunFails, FaqTypeOK
    <2> QED  BY <1>2, <1>7, <2>1, <2>2 DEF RunFails, FaqTypeOK
  <1>8. ASSUME NEW s \in Screens, NEW i \in FaqIds, CreateFaq(s, i)
        PROVE  FaqTypeOK' /\ ListsAreOfTopics' /\ LastReorderWins'
    <2>1. i \notin used /\ used' = used \cup {i} /\ edits' \in 0..MaxEdits
          /\ Goes(s, "load") /\ current' = {} /\ UNCHANGED <<upsets, reordered>>
      BY <1>8, FaqIdsAssumption DEF CreateFaq, Asks, Committed, FaqTypeOK
    <2>2. IsFiniteSet(used')
      BY <1>0, <2>1, FS_AddElement
    <2>3. screen' \in [Screens -> Screen] /\ current' \subseteq Screens /\ ListsAreOfTopics'
      BY <1>0, <2>1, <2>2, GoesOn DEF OnceEach
    <2>4. /\ DOMAIN faq' = DOMAIN faq \cup {i} /\ faq'[i].position = LastPosition
          /\ faq'[i].active = TRUE /\ faq' = [j \in DOMAIN faq' |-> faq'[j]]
          /\ faq'[i] = [position |-> LastPosition, active |-> TRUE]
          /\ \A j \in DOMAIN faq : faq'[j] = faq[j]
      BY <1>8, <2>1 DEF CreateFaq, FaqTypeOK
    <2>5. faq'[i] \in FaqRow
      BY <1>0, <2>4, LastPositionType DEF FaqRow
    <2>6. FaqTypeOK'
      BY <2>1, <2>3, <2>4, <2>5 DEF FaqTypeOK
    <2>7. LastReorderWins'
      BY <1>0, <2>1, <2>4 DEF LastReorderWins, Precedes, Range
    <2> QED  BY <2>3, <2>6, <2>7
  <1>9. ASSUME NEW s \in Screens, NEW n \in FaqIds, ChangeFaq(s, n)
        PROVE  FaqTypeOK' /\ ListsAreOfTopics' /\ LastReorderWins'
    <2> DEFINE i == screen[s].list[n].id
               now == ~screen[s].list[n].active
    <2>1. /\ edits' \in 0..MaxEdits /\ n \in DOMAIN screen[s].list /\ i \in DOMAIN faq
          /\ Goes(s, "load") /\ current' = {} /\ UNCHANGED <<used, upsets, reordered>>
      BY <1>9 DEF ChangeFaq, Asks, Committed, FaqTypeOK
    <2>2. screen' \in [Screens -> Screen] /\ current' \subseteq Screens /\ ListsAreOfTopics'
      BY <1>0, <2>1, GoesOn DEF OnceEach
    <2>3. now \in BOOLEAN
      OBVIOUS
    <2>4. \/ faq' = [faq EXCEPT ![i].active = now]
          \/ faq' = [j \in DOMAIN faq \ {i} |-> faq[j]]
      BY <1>9 DEF ChangeFaq
    <2> HIDE DEF i, now
    <2>5. DOMAIN faq' \subseteq DOMAIN faq /\ faq' \in [DOMAIN faq' -> FaqRow]
          /\ \A j \in DOMAIN faq' : faq'[j].position = faq[j].position
      <3>1. CASE faq' = [faq EXCEPT ![i].active = now]
        <4>1. /\ faq'[i] = [faq[i] EXCEPT !.active = now] /\ faq[i] \in FaqRow
              /\ \A j \in DOMAIN faq : j # i => faq'[j] = faq[j]
              /\ DOMAIN faq' = DOMAIN faq
          BY <2>1, <3>1 DEF FaqTypeOK
        <4>2. faq'[i] \in FaqRow /\ faq'[i].position = faq[i].position
          BY <2>3, <4>1 DEF FaqRow
        <4> QED  BY <3>1, <4>1, <4>2 DEF FaqTypeOK
      <3>2. CASE faq' = [j \in DOMAIN faq \ {i} |-> faq[j]]
        BY <3>2 DEF FaqTypeOK
      <3> QED  BY <2>4, <3>1, <3>2
    <2>6. FaqTypeOK'
      BY <2>1, <2>2, <2>5 DEF FaqTypeOK
    <2>7. LastReorderWins'
      BY <2>1, <2>5 DEF LastReorderWins, Precedes
    <2> QED  BY <2>2, <2>6, <2>7
  <1>10. ASSUME NEW s \in Screens, NEW n \in FaqIds, Move(s, n)
         PROVE  FaqTypeOK' /\ ListsAreOfTopics' /\ LastReorderWins'
    <2> DEFINE list == screen[s].list
               swapped == Swapped(list, n, n + 1)
               x == [list |-> swapped, at |-> "reorder", written |-> 0]
    <2>1. /\ edits' \in 0..MaxEdits /\ {n, n + 1} \subseteq DOMAIN list
          /\ UNCHANGED <<faq, used, upsets, reordered>>
          /\ screen' = [screen EXCEPT ![s] = x] /\ current' = current \ {s}
      BY <1>10 DEF Move, Asks, FaqTypeOK
    <2>2. list \in Seq(Topic)
          /\ \A m \in DOMAIN list : list[m].id \in used
          /\ \A k, l \in DOMAIN list : list[k].id = list[l].id => k = l
      BY ListOfTopics
    <2> HIDE DEF list
    <2>3. DOMAIN swapped = DOMAIN list /\ swapped \in Seq(Topic)
          /\ swapped[n] = list[n + 1] /\ swapped[n + 1] = list[n]
          /\ \A m \in DOMAIN list : m \notin {n, n + 1} => swapped[m] = list[m]
      BY <2>1, <2>2 DEF Swapped
    <2> HIDE DEF swapped
    <2>4. x \in Screen /\ x.list = swapped
      BY <2>3 DEF Screen
    <2> HIDE DEF x
    <2>5. \A l, m \in DOMAIN swapped : swapped[l].id = swapped[m].id => l = m
      BY <2>1, <2>2, <2>3
    <2>6. \A m \in DOMAIN swapped : swapped[m].id \in used
      BY <2>1, <2>2, <2>3
    <2>7. screen' \in [Screens -> Screen] /\ current' \subseteq Screens /\ ListsAreOfTopics'
      BY <1>0, <2>1, <2>4, <2>5, <2>6, ScreenStep DEF OnceEach
    <2> QED  BY <1>2, <2>1, <2>7 DEF FaqTypeOK
  <1> QED  BY <1>1, <1>3, <1>4, <1>5, <1>6, <1>7, <1>8, <1>9, <1>10 DEF FaqNext

LEMMA FaqInvariant == FaqSpec => [](FaqTypeOK /\ ListsAreOfTopics /\ LastReorderWins)
  BY FaqStart, FaqStep, PTL DEF FaqSpec

\* The last committed reorder decides, for any number of dashboards and topics,
\* any requests beside it and any failures.
THEOREM LastReorderWinsCorrect == FaqSpec => []LastReorderWins
  BY FaqInvariant, PTL

\* The n-th topic of the list, if active, is among the active ones the one whose
\* number is counted by the mark.
LEMMA PlaceAmongActive ==
    ASSUME FaqTypeOK, IsFiniteSet(DOMAIN faq), NEW n \in DOMAIN Listing, Listing[n].active,
           NEW A, A = {i \in DOMAIN faq : faq[i].active},
           NEW k, k = Cardinality({m \in 1..n : Listing[m].active})
    PROVE  k \in 1..Cardinality(A) /\ Sorted(A)[k] = Listing[n].id
  <1> DEFINE N == Cardinality(DOMAIN faq)
             id(m) == Listing[m].id
             upto == {m \in 1..n : Listing[m].active}
             before == {j \in A : Precedes(j, id(n))}
             f == [m \in upto \ {n} |-> id(m)]
  <1>1. /\ N \in Nat /\ n \in 1..N /\ DOMAIN Listing = 1..N
        /\ \A m \in 1..N : /\ id(m) = Sorted(DOMAIN faq)[m] /\ id(m) \in DOMAIN faq
                           /\ Listing[m].active = faq[id(m)].active
        /\ \A l, m \in 1..N : id(l) = id(m) => l = m
    BY ListingProperties, SortedProperties
  <1>2. A \subseteq DOMAIN faq /\ IsFiniteSet(A) /\ id(n) \in A
    BY <1>1, FS_Subset
  <1>3. \A l, m \in 1..N : l < m => Precedes(id(l), id(m))
    BY <1>1, SortedInOrder
  <1>4. \A i \in DOMAIN faq : \E m \in 1..N : id(m) = i
    <2>1. ASSUME NEW i \in DOMAIN faq PROVE \E m \in 1..N : Sorted(DOMAIN faq)[m] = i
      <3>1. DOMAIN faq \in SUBSET DOMAIN faq
        OBVIOUS
      <3>2. /\ Rank(DOMAIN faq, i) + 1 \in 1..N
            /\ Sorted(DOMAIN faq)[Rank(DOMAIN faq, i) + 1] = i
        BY <3>1, SortedProperties
      <3> QED  BY <3>2
    <2>2. \A m \in 1..N : id(m) = Sorted(DOMAIN faq)[m]
      BY <1>1
    <2> HIDE DEF id
    <2> QED  BY <2>1, <2>2
  <1>5. upto \subseteq 1..n /\ n \in upto /\ IsFiniteSet(upto)
    <2>1. upto \subseteq 1..n /\ n \in upto /\ n \in Int
      BY <1>1
    <2> QED  BY <2>1, FS_Interval, FS_Subset
  <1>6. \A m \in upto \ {n} : m \in 1..N /\ m < n /\ id(m) \in before
    <2> SUFFICES ASSUME NEW m \in upto \ {n} PROVE m \in 1..N /\ m < n /\ id(m) \in before
      OBVIOUS
    <2>1. m \in 1..N /\ m < n /\ Listing[m].active
      BY <1>1
    <2> QED  BY <1>1, <1>3, <2>1
  <1>7. \A j \in before : \E m \in upto \ {n} : id(m) = j
    <2> SUFFICES ASSUME NEW j \in before PROVE \E m \in upto \ {n} : id(m) = j
      OBVIOUS
    <2>1. j \in DOMAIN faq /\ faq[j].active /\ Precedes(j, id(n))
      BY <1>2
    <2>2. PICK m \in 1..N : id(m) = j
      BY <1>4, <2>1
    <2>3. ~Precedes(id(n), j) /\ m # n
      BY <1>1, <2>1, <2>2, TotalOrder
    <2>4. m < n
      BY <1>1, <1>3, <2>2, <2>3
    <2> QED  BY <1>1, <2>1, <2>2, <2>4
  <1> HIDE DEF id, upto, before, N
  <1>8. f \in Bijection(upto \ {n}, before)
    <2>1. f \in [upto \ {n} -> before]
      BY <1>6
    <2>2. \A l, m \in upto \ {n} : f[l] = f[m] => l = m
      BY <1>1, <1>6
    <2>3. \A j \in before : \E m \in upto \ {n} : f[m] = j
      BY <1>7
    <2> HIDE DEF f
    <2> QED  BY <2>1, <2>2, <2>3 DEF Bijection, Injection, Surjection, IsInjective
  <1>9. Cardinality(before) = Cardinality(upto) - 1 /\ Cardinality(upto) \in Nat
    <2>1. IsFiniteSet(upto \ {n}) /\ Cardinality(upto \ {n}) = Cardinality(upto) - 1
      BY <1>5, FS_RemoveElement
    <2> QED  BY <1>5, <1>8, <2>1, FS_Bijection, FS_CardinalityType DEF ExistsBijection
  <1>10. Rank(A, id(n)) + 1 = Cardinality(upto)
    BY <1>9 DEF Rank, before
  <1>11. Rank(A, id(n)) + 1 \in 1..Cardinality(A) /\ Sorted(A)[Rank(A, id(n)) + 1] = id(n)
    BY <1>2, SortedProperties
  <1> QED  BY <1>10, <1>11 DEF upto, id

\* The badges of an up-to-date list tell which topics the bot shows and where,
\* whatever the positions in the table are.
THEOREM BadgesMatchBotCorrect == FaqSpec => []BadgesMatchBot
  <1>1. ASSUME FaqTypeOK, ListsAreOfTopics PROVE BadgesMatchBot
    <2> DEFINE A == {i \in DOMAIN faq : faq[i].active}
               shown == IF Cardinality(A) < MAX_FAQ_ITEMS THEN Cardinality(A) ELSE MAX_FAQ_ITEMS
               Count(n) == Cardinality({m \in 1..n : Listing[m].active})
    <2>1. IsFiniteSet(DOMAIN faq)
      BY <1>1, FS_Subset DEF FaqTypeOK, ListsAreOfTopics
    <2>2. A \subseteq DOMAIN faq /\ IsFiniteSet(A)
      BY <2>1, FS_Subset
    <2>3. /\ Cardinality(A) \in Nat
          /\ Sorted(A) \in [1..Cardinality(A) -> A]
          /\ \A k \in 1..Cardinality(A) : Rank(A, Sorted(A)[k]) = k - 1
      BY <1>1, <2>2, SortedProperties
    <2>4. Sorted(A) \in Seq(A) /\ Len(Sorted(A)) = Cardinality(A)
      BY <2>3, SeqDef
    <2>5. shown \in Nat /\ shown <= Cardinality(A) /\ shown <= MAX_FAQ_ITEMS
          /\ \A k \in 1..Cardinality(A) : k <= MAX_FAQ_ITEMS => k <= shown
      BY <2>3, VisibleAssumption
    <2>6. FaqList = SubSeq(Sorted(A), 1, shown)
      BY <2>4 DEF FaqList
    <2>7. \A n \in DOMAIN Listing : Listing[n].active =>
             Count(n) \in 1..Cardinality(A) /\ Sorted(A)[Count(n)] = Listing[n].id
      <3> SUFFICES ASSUME NEW n \in DOMAIN Listing, Listing[n].active
                   PROVE  Count(n) \in 1..Cardinality(A) /\ Sorted(A)[Count(n)] = Listing[n].id
        OBVIOUS
      <3>1. /\ A = {i \in DOMAIN faq : faq[i].active}
            /\ Count(n) = Cardinality({m \in 1..n : Listing[m].active})
        OBVIOUS
      <3> HIDE DEF A, Count
      <3> QED  BY <1>1, <2>1, <3>1, PlaceAmongActive
    <2>8. /\ \A n \in DOMAIN Listing : Listing[n].id \in DOMAIN faq
                /\ Listing[n] = [id |-> Listing[n].id, active |-> faq[Listing[n].id].active]
          /\ \A i \in DOMAIN faq : \E n \in DOMAIN Listing : Listing[n].id = i
      <3>1. DOMAIN Listing = 1..Cardinality(DOMAIN faq)
            /\ \A n \in DOMAIN Listing : Listing[n].id = Sorted(DOMAIN faq)[n]
                  /\ Listing[n].id \in DOMAIN faq
                  /\ Listing[n] = [id |-> Listing[n].id, active |-> faq[Listing[n].id].active]
        BY <1>1, <2>1, ListingProperties DEF Listing
      <3>2. ASSUME NEW i \in DOMAIN faq PROVE \E n \in DOMAIN Listing : Listing[n].id = i
        <4> DEFINE n == Rank(DOMAIN faq, i) + 1
        <4>1. n \in 1..Cardinality(DOMAIN faq) /\ Sorted(DOMAIN faq)[n] = i
          BY <1>1, <2>1, SortedProperties
        <4> HIDE DEF n
        <4> QED  BY <3>1, <4>1
      <3> QED  BY <3>1, <3>2
    <2> HIDE DEF A, Count, shown
    <2>9. /\ DOMAIN FaqList = 1..shown
          /\ \A b \in 1..shown : FaqList[b] = Sorted(A)[b]
      <3>1. \A k \in 1..shown : Sorted(A)[k] \in A
        BY <2>3, <2>5
      <3>2. /\ FaqList \in Seq(A) /\ Len(FaqList) = shown
            /\ \A k \in 1..(shown - 1 + 1) : FaqList[k] = Sorted(A)[1 + k - 1]
        BY <2>5, <2>6, <3>1, SubSeqProperties
      <3> QED  BY <2>5, <3>2
    <2>10. \A k, l \in 1..Cardinality(A) : Sorted(A)[k] = Sorted(A)[l] => k = l
      BY <2>3
    <2>11. ASSUME NEW n \in DOMAIN Listing, Listing[n].active
           PROVE  BeyondBot(Listing, n) <=> Listing[n].id \notin Range(FaqList)
      <3>1. Count(n) \in 1..Cardinality(A) /\ Sorted(A)[Count(n)] = Listing[n].id
        BY <2>7, <2>11
      <3>2. BeyondBot(Listing, n) <=> Count(n) > MAX_FAQ_ITEMS
        BY VisibleAssumption DEF BeyondBot, Count
      <3>3. CASE Count(n) > MAX_FAQ_ITEMS
        <4>1. \A b \in 1..shown : b \in 1..Cardinality(A) /\ b # Count(n)
          BY <2>3, <2>5, <3>1, <3>3, VisibleAssumption
        <4>2. \A b \in 1..shown : FaqList[b] # Listing[n].id
          BY <2>9, <2>10, <3>1, <4>1
        <4> QED  BY <2>9, <3>2, <3>3, <4>2 DEF Range
      <3>4. CASE ~(Count(n) > MAX_FAQ_ITEMS)
        <4>1. Count(n) \in 1..shown
          BY <2>3, <2>5, <3>1, <3>4, VisibleAssumption
        <4> QED  BY <2>9, <3>1, <3>2, <3>4, <4>1 DEF Range
      <3> QED  BY <3>3, <3>4
    <2>12. ASSUME NEW b \in DOMAIN FaqList
           PROVE  \E n \in DOMAIN Listing :
                     /\ Listing[n] = [id |-> FaqList[b], active |-> TRUE]
                     /\ b = Cardinality({m \in 1..n : Listing[m].active})
      <3>1. b \in 1..Cardinality(A) /\ FaqList[b] = Sorted(A)[b] /\ Sorted(A)[b] \in A
        BY <2>3, <2>5, <2>9, <2>12
      <3>2. FaqList[b] \in DOMAIN faq /\ faq[FaqList[b]].active
        BY <3>1 DEF A
      <3>3. PICK n \in DOMAIN Listing : Listing[n].id = FaqList[b]
        BY <2>8, <3>2
      <3>4. faq[FaqList[b]].active = TRUE
        BY <1>1, <3>2 DEF FaqTypeOK, FaqRow
      <3>5. Listing[n] = [id |-> FaqList[b], active |-> TRUE]
        BY <2>8, <3>3, <3>4
      <3>6. Listing[n].active
        BY <3>5
      <3>7. b = Count(n)
        BY <2>7, <2>10, <3>1, <3>3, <3>6
      <3> QED  BY <3>5, <3>7 DEF Count
    <2> DEFINE Matches(list) ==
                 /\ \A n \in DOMAIN list : list[n].active =>
                       (BeyondBot(list, n) <=> list[n].id \notin Range(FaqList))
                 /\ \A b \in DOMAIN FaqList : \E n \in DOMAIN list :
                       /\ list[n] = [id |-> FaqList[b], active |-> TRUE]
                       /\ b = Cardinality({m \in 1..n : list[m].active})
    <2>13. Matches(Listing)
      BY <2>11, <2>12
    <2>14. \A s \in current : screen[s].list = Listing
      BY <1>1 DEF ListsAreOfTopics
    <2>15. \A s \in current : Matches(screen[s].list)
      <3> HIDE DEF Matches
      <3> QED  BY <2>13, <2>14
    <2> QED  BY <2>15 DEF BadgesMatchBot
  <1> QED  BY <1>1, FaqInvariant, PTL

-----------------------------------------------------------------------------
(* The parts beside each other.                                            *)

\* In the service every part behaves as it does alone, so that what is proved of
\* a part holds of the service.
THEOREM PartsBehave ==
    ServiceSpec => /\ Spec /\ LimiterSpec /\ FaqSpec
                   /\ AttachmentSpec /\ MigrationSpec /\ HoursSpec
  <1>1. ServiceInit => /\ Init /\ LimiterInit /\ FaqInit
                       /\ AttachmentInit /\ MigrationInit /\ HoursInit
    BY DEF ServiceInit
  <1>2. [ServiceNext]_serviceVars =>
           /\ [Next]_vars /\ [LimiterNext]_limiterVars /\ [FaqNext]_faqVars
           /\ [AttachmentNext]_attachmentVars /\ [MigrationNext]_migrationVars
           /\ [HoursNext]_hoursVars
    BY DEF ServiceNext, serviceVars
  <1> QED  BY <1>1, <1>2, PTL
           DEF ServiceSpec, Spec, LimiterSpec, FaqSpec, AttachmentSpec, MigrationSpec, HoursSpec

\* Every part keeps its types, for every value of the constants.
THEOREM ServiceTypeCorrect == ServiceSpec => []ServiceTypeOK
  BY PartsBehave, TypeCorrect, LimiterTypeCorrect, FaqInvariant, AttachmentsInvariant,
     MigrationsInvariant, HoursInvariant, PTL DEF ServiceTypeOK
=============================================================================

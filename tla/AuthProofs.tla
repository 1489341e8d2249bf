----------------------------- MODULE AuthProofs -----------------------------
(***************************************************************************)
(* Links, challenges and sessions are used as promised, for any number of  *)
(* them, of keys and of tabs, wherever ceremonies end.                     *)
(***************************************************************************)
EXTENDS Auth, TLAPS, FiniteSetTheorems

\* What a ceremony knows at each label: with it TypeOK is inductive.
CeremonyOK ==
    \A b \in Tabs :
       /\ tab[b].at # "free" =>
             \/ tab[b].purpose = "register" /\ tab[b].link \in Links
             \/ tab[b].purpose = "login"
       /\ tab[b].at \in {"offered", "asked"} => tab[b].challenge \in Challenges
       /\ tab[b].at \in {"burn", "insert"} => tab[b].purpose = "register"
       /\ tab[b].at \in {"find", "count"} => tab[b].purpose = "login"

Typed == TypeOK /\ CeremonyOK
IInv == Typed /\ Inv

\* A free tab knows nothing.
LEMMA NoTabType ==
    /\ NoTab \in Tab /\ NoTab.at = "free" /\ NoTab.purpose = Null
    /\ Null \notin Purpose
  BY NullAssumption DEF NoTab, Tab, Label

-----------------------------------------------------------------------------
\* The initial state satisfies the inductive invariant.
LEMMA InitIInv == Init => IInv
  <1> SUFFICES ASSUME Init PROVE IInv
    OBVIOUS
  <1>1. \A b \in Tabs : tab[b] = NoTab
    BY DEF Init
  <1>2. Registered = {}
    BY DEF Init, Registered
  <1>3. TypeOK
    BY NoTabType DEF Init, TypeOK, RowStatus
  <1>4. CeremonyOK
    BY <1>1, NoTabType DEF CeremonyOK
  <1>5. ChallengesAreHeldOnce
    BY <1>1, NoTabType DEF ChallengesAreHeldOnce, HasChallenge, Init
  <1>6. LinksAreHeldOnce
    BY <1>1, <1>2, NoTabType DEF LinksAreHeldOnce, HasLink
  <1>7. KeysAreHeld
    BY <1>1, <1>2, NoTabType DEF KeysAreHeld, Brings, Purpose
  <1>8. OneKeyPerLink /\ OneSessionPerChallenge /\ SessionHasKey
    BY <1>2 DEF Init, OneKeyPerLink, OneSessionPerChallenge, SessionHasKey
  <1> QED  BY <1>3, <1>4, <1>5, <1>6, <1>7, <1>8 DEF IInv, Typed, Inv

-----------------------------------------------------------------------------
\* A step that changes one tab to a well-formed ceremony keeps them all.
WellFormed(t) ==
    /\ t \in Tab
    /\ t.at # "free" =>
          \/ t.purpose = "register" /\ t.link \in Links
          \/ t.purpose = "login"
    /\ t.at \in {"offered", "asked"} => t.challenge \in Challenges
    /\ t.at \in {"burn", "insert"} => t.purpose = "register"
    /\ t.at \in {"find", "count"} => t.purpose = "login"

LEMMA TabUpdate ==
    ASSUME Typed, NEW b \in Tabs, NEW t, WellFormed(t), tab' = [tab EXCEPT ![b] = t]
    PROVE  tab' \in [Tabs -> Tab] /\ CeremonyOK'
  <1>1. tab \in [Tabs -> Tab]
    BY DEF Typed, TypeOK
  <1>2. \A a \in Tabs : tab'[a] = IF a = b THEN t ELSE tab[a]
    BY <1>1
  <1>3. CeremonyOK'
    BY <1>2 DEF Typed, CeremonyOK, WellFormed
  <1> QED  BY <1>1, <1>3 DEF WellFormed

LEMMA NoTabWellFormed == WellFormed(NoTab)
  BY NoTabType DEF WellFormed

\* The ceremony in a tab is well formed.
LEMMA TabWellFormed == ASSUME Typed, NEW b \in Tabs PROVE WellFormed(tab[b])
  BY DEF Typed, TypeOK, CeremonyOK, WellFormed

\* The types and what each label knows are preserved: the requests for options.
LEMMA OptionsTyped ==
    ASSUME IInv, NEW b \in Tabs, Options(b)
    PROVE  Typed'
  <1> USE DEF IInv
  <1>1. ASSUME NEW l \in Links, RegisterOptions(b, l) PROVE Typed'
    <2> DEFINE t == [NoTab EXCEPT !.at = "issue", !.purpose = "register", !.link = l]
    <2>1. WellFormed(t)
      BY DEF WellFormed, NoTab, Tab, Label, Purpose
    <2>2. tab' = [tab EXCEPT ![b] = t]
      BY <1>1 DEF RegisterOptions, Start
    <2> HIDE DEF t
    <2>3. tab' \in [Tabs -> Tab] /\ CeremonyOK'
      BY <2>1, <2>2, TabUpdate
    <2> QED  BY <1>1, <2>3 DEF RegisterOptions, tables, Typed, TypeOK
  <1>2. ASSUME NEW k \in Keys, LoginOptions(b, k) PROVE Typed'
    <2> DEFINE t == [NoTab EXCEPT !.at = "issue", !.purpose = "login", !.key = k]
    <2>1. WellFormed(t)
      BY DEF WellFormed, NoTab, Tab, Label, Purpose
    <2>2. tab' = [tab EXCEPT ![b] = t]
      BY <1>2 DEF LoginOptions, Start
    <2> HIDE DEF t
    <2>3. tab' \in [Tabs -> Tab] /\ CeremonyOK'
      BY <2>1, <2>2, TabUpdate
    <2> QED  BY <1>2, <2>3 DEF LoginOptions, tables, Typed, TypeOK
  <1>3. ASSUME IssueChallenge(b) PROVE Typed'
    <2>1. PICK c \in Challenges :
             /\ challenge' = [challenge EXCEPT
                                ![c] = [status |-> "fresh", purpose |-> tab[b].purpose]]
             /\ tab' = [tab EXCEPT ![b].challenge = c, ![b].at = "offered"]
      BY <1>3 DEF IssueChallenge
    <2> DEFINE t == [tab[b] EXCEPT !.challenge = c, !.at = "offered"]
    <2>2. WellFormed(tab[b])
      BY TabWellFormed
    <2>3. WellFormed(t)
      BY <2>2, <1>3 DEF WellFormed, Tab, Label, IssueChallenge
    <2>4. tab' = [tab EXCEPT ![b] = t]
      BY <2>1 DEF Typed, TypeOK
    <2>5. challenge' \in [Challenges -> [status : RowStatus, purpose : Purpose \cup {Null}]]
      BY <2>1, <2>2 DEF Typed, TypeOK, RowStatus, WellFormed, Tab
    <2> HIDE DEF t
    <2>6. tab' \in [Tabs -> Tab] /\ CeremonyOK'
      BY <2>3, <2>4, TabUpdate
    <2> QED  BY <1>3, <2>5, <2>6 DEF IssueChallenge, Typed, TypeOK
  <1> QED  BY <1>1, <1>2, <1>3 DEF Options, Registered

\* The same for what the browser and the network do.
LEMMA BrowserTyped ==
    ASSUME IInv, NEW b \in Tabs, Browser(b)
    PROVE  Typed'
  <1> USE DEF IInv
  <1>0. WellFormed(tab[b])
    BY TabWellFormed
  <1>1. ASSUME ReceiveOptions(b) PROVE Typed'
    <2> DEFINE t == [tab[b] EXCEPT !.at = "asked"]
    <2>1. WellFormed(t)
      BY <1>0, <1>1 DEF WellFormed, Tab, Label, ReceiveOptions
    <2>2. tab' = [tab EXCEPT ![b] = t]
      BY <1>1 DEF ReceiveOptions, Goto
    <2>3. cookie' \in Challenges
      BY <1>0, <1>1 DEF WellFormed, ReceiveOptions
    <2> HIDE DEF t
    <2>4. tab' \in [Tabs -> Tab] /\ CeremonyOK'
      BY <2>1, <2>2, TabUpdate
    <2> QED  BY <1>1, <2>3, <2>4 DEF ReceiveOptions, tables, Typed, TypeOK
  <1>2. ASSUME CreateKey(b) PROVE Typed'
    <2>1. PICK k \in Keys :
             /\ signed' = [signed EXCEPT ![k] = 0]
             /\ tab' = [tab EXCEPT ![b].key = k, ![b].sent = cookie, ![b].at = "consume"]
      BY <1>2 DEF CreateKey
    <2> DEFINE t == [tab[b] EXCEPT !.key = k, !.sent = cookie, !.at = "consume"]
    <2>2. cookie \in Challenges \cup {Null}
      BY DEF Typed, TypeOK
    <2>3. WellFormed(t)
      BY <1>0, <1>2, <2>2 DEF WellFormed, Tab, Label, CreateKey
    <2>4. tab' = [tab EXCEPT ![b] = t]
      BY <2>1 DEF Typed, TypeOK
    <2>5. signed' \in [Keys -> 0..MaxCount \cup {Null}]
      BY <2>1, BoundAssumption DEF Typed, TypeOK
    <2> HIDE DEF t
    <2>6. tab' \in [Tabs -> Tab] /\ CeremonyOK'
      BY <2>3, <2>4, TabUpdate
    <2> QED  BY <1>2, <2>5, <2>6 DEF CreateKey, tables, Typed, TypeOK
  <1>3. ASSUME SignChallenge(b) PROVE Typed'
    <2> DEFINE k == tab[b].key
               n == IF k \in Counting THEN signed[k] + 1 ELSE 0
               t == [tab[b] EXCEPT !.count = n, !.sent = cookie, !.at = "consume"]
    <2>1. /\ tab[b].at = "asked" /\ tab[b].purpose = "login" /\ n <= MaxCount
          /\ signed' = [signed EXCEPT ![k] = n]
          /\ tab' = [tab EXCEPT ![b].count = n, ![b].sent = cookie, ![b].at = "consume"]
          /\ UNCHANGED <<tables, expired, cookie, opened>>
      BY <1>3 DEF SignChallenge
    <2>2. k \in Keys /\ signed[k] \in 0..MaxCount
      BY <2>1 DEF Inv, KeysAreHeld, Registered, Typed, TypeOK
    <2>3. n \in 0..MaxCount /\ n \in Nat
      BY <2>1, <2>2, BoundAssumption
    <2>4. tab' = [tab EXCEPT ![b] = t]
      BY <2>1 DEF Typed, TypeOK
    <2>5. cookie \in Challenges \cup {Null}
      BY DEF Typed, TypeOK
    <2> HIDE DEF n, k
    <2>6. WellFormed(t)
      BY <1>0, <2>1, <2>3, <2>5 DEF WellFormed, Tab, Label
    <2>7. signed' \in [Keys -> 0..MaxCount \cup {Null}]
      BY <2>1, <2>2, <2>3 DEF Typed, TypeOK
    <2> HIDE DEF t
    <2>8. tab' \in [Tabs -> Tab] /\ CeremonyOK'
      BY <2>4, <2>6, TabUpdate
    <2> QED  BY <2>1, <2>7, <2>8 DEF tables, Typed, TypeOK
  <1>4. ASSUME NEW a \in Tabs, Repeat(a, b) PROVE Typed'
    <2>1. WellFormed(tab[a]) /\ tab' = [tab EXCEPT ![b] = tab[a]]
      BY <1>4, TabWellFormed DEF Repeat, Start
    <2>2. tab' \in [Tabs -> Tab] /\ CeremonyOK'
      BY <2>1, TabUpdate
    <2> QED  BY <1>4, <2>2 DEF Repeat, tables, Typed, TypeOK
  <1> QED  BY <1>1, <1>2, <1>3, <1>4 DEF Browser

\* Giving up, and a step to another label.
LEMMA EndTyped ==
    ASSUME Typed, NEW b \in Tabs, End(b)
    PROVE  tab' \in [Tabs -> Tab] /\ CeremonyOK'
  BY NoTabWellFormed, TabUpdate DEF End

LEMMA GotoTyped ==
    ASSUME Typed, NEW b \in Tabs, NEW label \in HasChallenge, Goto(b, label),
           tab[b].at # "free",
           label \in {"burn", "insert"} => tab[b].purpose = "register",
           label \in {"find", "count"} => tab[b].purpose = "login"
    PROVE  tab' \in [Tabs -> Tab] /\ CeremonyOK'
  <1> DEFINE t == [tab[b] EXCEPT !.at = label]
  <1>1. WellFormed(tab[b])
    BY TabWellFormed
  <1>2. WellFormed(t)
    BY <1>1 DEF WellFormed, Tab, Label, HasChallenge
  <1>3. tab' = [tab EXCEPT ![b] = t]
    BY DEF Goto
  <1> HIDE DEF t
  <1> QED  BY <1>2, <1>3, TabUpdate

\* The same for the statements of the two verify requests.
LEMMA VerifyTyped ==
    ASSUME IInv, NEW b \in Tabs, Verify(b)
    PROVE  Typed'
  <1> USE DEF IInv
  <1>0. WellFormed(tab[b])
    BY TabWellFormed
  <1>1. ASSUME ConsumeChallenge(b) PROVE Typed'
    <2>1. tab' \in [Tabs -> Tab] /\ CeremonyOK'
      BY <1>1, EndTyped, GotoTyped DEF ConsumeChallenge, HasChallenge
    <2>2. challenge' \in [Challenges -> [status : RowStatus, purpose : Purpose \cup {Null}]]
      BY <1>0, <1>1 DEF ConsumeChallenge, Typed, TypeOK, RowStatus, Outstanding,
         WellFormed, Tab
    <2> QED  BY <1>1, <2>1, <2>2 DEF ConsumeChallenge, Typed, TypeOK
  <1>2. ASSUME BurnLink(b) PROVE Typed'
    <2>1. tab' \in [Tabs -> Tab] /\ CeremonyOK'
      BY <1>0, <1>2, EndTyped, GotoTyped DEF BurnLink, AfterBurn, HasChallenge, WellFormed
    <2>2. link' \in [Links -> RowStatus]
      BY <1>2 DEF BurnLink, Typed, TypeOK, RowStatus
    <2> QED  BY <1>2, <2>1, <2>2 DEF BurnLink, Typed, TypeOK
  <1>3. ASSUME InsertCredential(b) PROVE Typed'
    <2>1. tab' \in [Tabs -> Tab] /\ CeremonyOK'
      BY <1>3, GotoTyped DEF InsertCredential, HasChallenge
    <2>2. tab[b].link \in Links
      BY <1>3 DEF InsertCredential, Inv, LinksAreHeldOnce, HasLink
    <2>3. credential' \in [Keys -> Credential \cup {Null}]
      BY <1>3, <2>2 DEF InsertCredential, Typed, TypeOK, Credential
    <2> QED  BY <1>3, <2>1, <2>3 DEF InsertCredential, Typed, TypeOK
  <1>4. ASSUME FindCredential(b) PROVE Typed'
    <2>1. tab' \in [Tabs -> Tab] /\ CeremonyOK'
      BY <1>0, <1>4, EndTyped, GotoTyped DEF FindCredential, HasChallenge, WellFormed
    <2> QED  BY <1>4, <2>1 DEF FindCredential, tables, Typed, TypeOK
  <1>5. ASSUME UpdateSignCount(b) PROVE Typed'
    <2>1. tab' \in [Tabs -> Tab] /\ CeremonyOK'
      BY <1>5, GotoTyped DEF UpdateSignCount, HasChallenge
    <2>2. tab[b].key \in Registered /\ tab[b].count \in Nat
      BY <1>0, <1>5 DEF UpdateSignCount, Inv, KeysAreHeld, WellFormed, Tab
    <2>3. credential[tab[b].key] \in Credential
      BY <2>2 DEF Registered, Typed, TypeOK
    <2>4. StoredCount(tab[b].key, tab[b].count) \in Credential
      BY <2>2, <2>3 DEF StoredCount, Credential
    <2>5. credential' \in [Keys -> Credential \cup {Null}]
      BY <1>5, <2>4 DEF UpdateSignCount, Typed, TypeOK
    <2> QED  BY <1>5, <2>1, <2>5 DEF UpdateSignCount, Typed, TypeOK
  <1>6. ASSUME OpenSession(b) PROVE Typed'
    <2>1. tab' \in [Tabs -> Tab] /\ CeremonyOK'
      BY <1>6, EndTyped DEF OpenSession
    <2>2. PICK s \in Sessions : session' = [session EXCEPT ![s] = tab[b].key]
      BY <1>6 DEF OpenSession
    <2>3. tab[b].sent \in Challenges /\ tab[b].key \in Keys \cup {Null}
      BY <1>0, <1>6 DEF OpenSession, Inv, ChallengesAreHeldOnce, HasChallenge,
         WellFormed, Tab
    <2>4. session' \in [Sessions -> Keys \cup {Null}]
      BY <2>2, <2>3 DEF Typed, TypeOK
    <2>5. opened' \in [Challenges -> Nat]
      BY <1>6, <2>3 DEF OpenSession, Typed, TypeOK
    <2>6. cookie' \in Challenges \cup {Null}
      BY <1>6 DEF OpenSession, Typed, TypeOK
    <2> QED  BY <1>6, <2>1, <2>4, <2>5, <2>6 DEF OpenSession, Typed, TypeOK
  <1> QED  BY <1>1, <1>2, <1>3, <1>4, <1>5, <1>6 DEF Verify

\* The same for every step.
LEMMA NextTyped == ASSUME IInv, [Next]_vars PROVE Typed'
  <1> USE DEF IInv
  <1>1. ASSUME NEW l \in Links, SendSetupLink(l) PROVE Typed'
    BY <1>1 DEF SendSetupLink, Typed, TypeOK, RowStatus, CeremonyOK
  <1>2. ASSUME NEW b \in Tabs, GiveUp(b) PROVE Typed'
    BY <1>2, EndTyped DEF GiveUp, tables, Typed, TypeOK
  <1>3. ASSUME NEW s \in Sessions, Logout(s) PROVE Typed'
    BY <1>3 DEF Logout, Typed, TypeOK, CeremonyOK
  <1>4. ASSUME Expire PROVE Typed'
    BY <1>4 DEF Expire, tables, Typed, TypeOK, CeremonyOK
  <1>5. ASSUME PurgeTokens PROVE Typed'
    BY <1>5 DEF PurgeTokens, Purged, Typed, TypeOK, RowStatus, CeremonyOK
  <1>6. ASSUME PurgeSessions PROVE Typed'
    BY <1>6 DEF PurgeSessions, Typed, TypeOK, CeremonyOK
  <1>7. ASSUME PurgeChallenges PROVE Typed'
    <2>1. challenge' \in [Challenges -> [status : RowStatus, purpose : Purpose \cup {Null}]]
      BY <1>7 DEF PurgeChallenges, Purged, Typed, TypeOK, RowStatus
    <2> QED  BY <1>7, <2>1 DEF PurgeChallenges, Typed, TypeOK, CeremonyOK
  <1>8. CASE UNCHANGED vars
    BY <1>8 DEF vars, Typed, TypeOK, CeremonyOK
  <1> QED
    BY <1>1, <1>2, <1>3, <1>4, <1>5, <1>6, <1>7, <1>8, OptionsTyped, BrowserTyped,
       VerifyTyped DEF Next, Housekeeping

-----------------------------------------------------------------------------
(***************************************************************************)
(* Most steps are quiet: used rows stay used, keys and their links stay,   *)
(* and a tab that changes gives up what it held, or goes on with a login.  *)
(***************************************************************************)
Quiet ==
    /\ \A c \in Challenges : challenge[c].status = "used" => challenge'[c] = challenge[c]
    /\ \A l \in Links : link[l] = "used" => link'[l] = "used"
    /\ Registered' = Registered
    /\ \A k \in Registered : credential'[k].link = credential[k].link
    /\ \A s \in Sessions : session'[s] \in {session[s], Null}
    /\ \A k \in Keys : signed[k] # Null => signed'[k] # Null
    /\ opened' = opened
    /\ \A b \in Tabs :
          \/ tab'[b] = tab[b]
          \/ /\ tab'[b].at \notin HasChallenge
             /\ tab'[b].purpose = "register" => tab'[b].at # "consume"
             /\ tab'[b].purpose = "login" => tab'[b].key \in Registered
          \/ /\ tab[b].at \in {"find", "count"}
             /\ \E label \in {"count", "open"} : tab'[b] = [tab[b] EXCEPT !.at = label]

LEMMA QuietKeepsInv == ASSUME IInv, Typed', Quiet PROVE Inv'
  <1> USE DEF IInv, Inv
  <1>0. \A b \in Tabs :
          /\ tab[b].at \in {"find", "count"} => tab[b].purpose = "login"
          /\ tab[b] \in Tab
    BY DEF Typed, TypeOK, CeremonyOK
  <1>1. \A b \in Tabs : tab'[b].at \in HasChallenge =>
          /\ tab[b].at \in HasChallenge
          /\ tab'[b].sent = tab[b].sent /\ tab'[b].purpose = tab[b].purpose
    <2>1. SUFFICES ASSUME NEW b \in Tabs, tab'[b].at \in HasChallenge,
                          NEW label \in {"count", "open"}, tab[b].at \in {"find", "count"},
                          tab'[b] = [tab[b] EXCEPT !.at = label]
                   PROVE  /\ tab[b].at \in HasChallenge
                          /\ tab'[b].sent = tab[b].sent /\ tab'[b].purpose = tab[b].purpose
      BY DEF Quiet
    <2>2. tab[b] \in Tab
      BY <1>0
    <2>3. tab'[b].sent = tab[b].sent /\ tab'[b].purpose = tab[b].purpose
      BY <2>1, <2>2 DEF Tab
    <2> QED  BY <2>1, <2>3 DEF HasChallenge
  <1>2. \A b \in Tabs : HasLink(b)' =>
          tab'[b] = tab[b] /\ HasLink(b)
    BY <1>0 DEF Quiet, HasLink, HasChallenge, Tab
  <1>3. \A b \in Tabs : Brings(b)' => tab'[b] = tab[b] /\ Brings(b)
    BY <1>0 DEF Quiet, Brings, HasChallenge, Tab
  <1>4. \A b \in Tabs : tab'[b].purpose = "login" \/ tab'[b].at = "open" =>
          tab'[b].key \in Registered
    <2> SUFFICES ASSUME NEW b \in Tabs, tab'[b].purpose = "login" \/ tab'[b].at = "open"
                 PROVE  tab'[b].key \in Registered
      OBVIOUS
    <2>1. CASE tab'[b] = tab[b]
      BY <2>1 DEF KeysAreHeld
    <2>2. CASE /\ tab'[b].at \notin HasChallenge
               /\ tab'[b].purpose = "login" => tab'[b].key \in Registered
      BY <2>2 DEF HasChallenge
    <2>3. ASSUME NEW label \in {"count", "open"}, tab[b].at \in {"find", "count"},
                 tab'[b] = [tab[b] EXCEPT !.at = label]
          PROVE  tab'[b].key \in Registered
      <3>1. tab[b] \in Tab /\ tab[b].purpose = "login"
        BY <1>0, <2>3
      <3>2. tab'[b].key = tab[b].key
        BY <2>3, <3>1 DEF Tab
      <3> QED  BY <3>1, <3>2 DEF KeysAreHeld
    <2> QED  BY <2>1, <2>2, <2>3 DEF Quiet
  <1>5. ChallengesAreHeldOnce'
    BY <1>1 DEF ChallengesAreHeldOnce, Quiet
  <1>6. LinksAreHeldOnce'
    <2>1. \A b \in Tabs : HasLink(b)' => tab'[b].link \in Links /\ link'[tab'[b].link] = "used"
      BY <1>2 DEF LinksAreHeldOnce, Quiet
    <2>2. \A a, b \in Tabs : HasLink(a)' /\ HasLink(b)' /\ tab'[a].link = tab'[b].link => a = b
      BY <1>2 DEF LinksAreHeldOnce
    <2>3. \A k \in Registered : credential[k].link \in Links
      BY DEF Typed, TypeOK, Registered, Credential
    <2>4. \A k \in Registered' : link'[credential'[k].link] = "used"
      BY <2>3 DEF LinksAreHeldOnce, Quiet
    <2>5. \A b \in Tabs : tab'[b].at = "insert" => tab'[b] = tab[b]
      BY <1>2 DEF HasLink
    <2>6. \A b \in Tabs : tab'[b].at = "insert" =>
            \A k \in Registered' : credential'[k].link # tab'[b].link
      BY <2>5 DEF LinksAreHeldOnce, Quiet
    <2> QED  BY <2>1, <2>2, <2>4, <2>6 DEF LinksAreHeldOnce
  <1>7. KeysAreHeld'
    <2>1. \A k \in Registered' : signed'[k] # Null
      BY DEF KeysAreHeld, Quiet, Registered
    <2>2. ASSUME NEW b \in Tabs, Brings(b)'
          PROVE  /\ tab'[b].key \in Keys /\ signed'[tab'[b].key] # Null
                 /\ tab'[b].key \notin Registered'
                      \/ (/\ tab'[b].at = "consume"
                          /\ tab'[b].sent \in Challenges
                          /\ challenge'[tab'[b].sent].status = "used")
      <3>1. tab'[b] = tab[b] /\ Brings(b)
        BY <1>3, <2>2
      <3>2. /\ tab[b].key \in Keys /\ signed[tab[b].key] # Null
            /\ tab[b].key \notin Registered
                 \/ (/\ tab[b].at = "consume"
                     /\ tab[b].sent \in Challenges
                     /\ challenge[tab[b].sent].status = "used")
        BY <3>1 DEF KeysAreHeld, New
      <3> QED  BY <3>1, <3>2 DEF Quiet
    <2>3. \A a, b \in Tabs : Brings(a)' /\ Brings(b)' /\ tab'[a].key = tab'[b].key =>
            tab'[a].sent = tab'[b].sent
      BY <1>3 DEF KeysAreHeld
    <2>4. \A b \in Tabs : tab'[b].purpose = "login" \/ tab'[b].at = "open" =>
            tab'[b].key \in Registered'
      BY <1>4 DEF Quiet
    <2> QED  BY <2>1, <2>2, <2>3, <2>4 DEF KeysAreHeld, New
  <1>8. OneKeyPerLink'
    BY DEF OneKeyPerLink, Quiet
  <1>9. OneSessionPerChallenge' /\ SessionHasKey'
    BY DEF OneSessionPerChallenge, SessionHasKey, Quiet
  <1> QED  BY <1>5, <1>6, <1>7, <1>8, <1>9

\* The steps that are quiet.
LEMMA QuietTabs ==
    ASSUME IInv, NEW b \in Tabs, NEW t, tab' = [tab EXCEPT ![b] = t],
           t.at \notin HasChallenge,
           t.purpose = "register" => t.at # "consume",
           t.purpose = "login" => t.key \in Registered,
           UNCHANGED <<credential, session, signed, opened>>,
           \A c \in Challenges : challenge[c].status = "used" => challenge'[c] = challenge[c],
           \A l \in Links : link[l] = "used" => link'[l] = "used"
    PROVE  Quiet
  <1>1. \A a \in Tabs : tab'[a] = IF a = b THEN t ELSE tab[a]
    BY DEF IInv, Typed, TypeOK
  <1> QED  BY <1>1 DEF Quiet, Registered

LEMMA NoTabIsQuiet ==
    /\ NoTab.at \notin HasChallenge /\ NoTab.at # "consume"
    /\ NoTab.purpose # "login" /\ NoTab.purpose # "register"
  BY NoTabType DEF NoTab, HasChallenge, Purpose

LEMMA EndIsQuiet ==
    ASSUME IInv, NEW b \in Tabs, End(b),
           UNCHANGED <<challenge, credential, session, signed, opened>>,
           \A l \in Links : link[l] = "used" => link'[l] = "used"
    PROVE  Quiet
  BY QuietTabs, NoTabIsQuiet DEF End

LEMMA OptionsQuiet == ASSUME IInv, NEW b \in Tabs, Options(b) PROVE Quiet
  <1>1. ASSUME NEW l \in Links, RegisterOptions(b, l) PROVE Quiet
    <2> DEFINE t == [NoTab EXCEPT !.at = "issue", !.purpose = "register", !.link = l]
    <2>1. t.at \notin HasChallenge /\ t.at # "consume" /\ t.purpose # "login"
      BY DEF NoTab, HasChallenge
    <2>2. tab' = [tab EXCEPT ![b] = t] /\ UNCHANGED <<tables, signed, opened>>
      BY <1>1 DEF RegisterOptions, Start
    <2> HIDE DEF t
    <2> QED  BY <2>1, <2>2, QuietTabs DEF tables
  <1>2. ASSUME NEW k \in Keys, LoginOptions(b, k) PROVE Quiet
    <2> DEFINE t == [NoTab EXCEPT !.at = "issue", !.purpose = "login", !.key = k]
    <2>1. t.at \notin HasChallenge /\ t.at # "consume" /\ t.key = k
      BY DEF NoTab, HasChallenge
    <2>2. tab' = [tab EXCEPT ![b] = t] /\ UNCHANGED <<tables, signed, opened>>
      BY <1>2 DEF LoginOptions, Start
    <2>3. k \in Registered
      BY <1>2 DEF LoginOptions
    <2> HIDE DEF t
    <2> QED  BY <2>1, <2>2, <2>3, QuietTabs DEF tables
  <1>3. ASSUME IssueChallenge(b) PROVE Quiet
    <2>1. PICK c \in Challenges :
             /\ challenge[c].status = "none"
             /\ challenge' = [challenge EXCEPT
                                ![c] = [status |-> "fresh", purpose |-> tab[b].purpose]]
             /\ tab' = [tab EXCEPT ![b].challenge = c, ![b].at = "offered"]
      BY <1>3 DEF IssueChallenge
    <2> DEFINE t == [tab[b] EXCEPT !.challenge = c, !.at = "offered"]
    <2>2. tab' = [tab EXCEPT ![b] = t]
      BY <2>1 DEF IInv, Typed, TypeOK
    <2>3. /\ t.at = "offered" /\ t.purpose = tab[b].purpose /\ t.key = tab[b].key
      BY DEF IInv, Typed, TypeOK, Tab
    <2>4. \A d \in Challenges : challenge[d].status = "used" => challenge'[d] = challenge[d]
      BY <2>1 DEF IInv, Typed, TypeOK
    <2>5. t.purpose = "login" => t.key \in Registered
      BY <2>3 DEF IInv, Inv, KeysAreHeld
    <2>6. t.at \notin HasChallenge /\ t.at # "consume"
      BY <2>3 DEF HasChallenge
    <2> HIDE DEF t
    <2> QED  BY <1>3, <2>2, <2>4, <2>5, <2>6, QuietTabs DEF IssueChallenge
  <1> QED  BY <1>1, <1>2, <1>3 DEF Options, Registered

LEMMA ReceiveQuiet == ASSUME IInv, NEW b \in Tabs, ReceiveOptions(b) PROVE Quiet
  <1> DEFINE t == [tab[b] EXCEPT !.at = "asked"]
  <1>1. t.at = "asked" /\ t.purpose = tab[b].purpose /\ t.key = tab[b].key
    BY DEF IInv, Typed, TypeOK, Tab
  <1>2. t.at \notin HasChallenge /\ t.at # "consume"
    BY <1>1 DEF HasChallenge
  <1>3. t.purpose = "login" => t.key \in Registered
    BY <1>1 DEF IInv, Inv, KeysAreHeld
  <1>4. tab' = [tab EXCEPT ![b] = t] /\ UNCHANGED <<tables, signed, opened>>
    BY DEF ReceiveOptions, Goto
  <1> HIDE DEF t
  <1> QED  BY <1>2, <1>3, <1>4, QuietTabs DEF tables

LEMMA SignQuiet == ASSUME IInv, NEW b \in Tabs, SignChallenge(b) PROVE Quiet
  <1> DEFINE k == tab[b].key
             n == IF k \in Counting THEN signed[k] + 1 ELSE 0
             t == [tab[b] EXCEPT !.count = n, !.sent = cookie, !.at = "consume"]
  <1>1. /\ tab[b].at = "asked" /\ tab[b].purpose = "login" /\ n <= MaxCount
        /\ signed' = [signed EXCEPT ![k] = n]
        /\ tab' = [tab EXCEPT ![b].count = n, ![b].sent = cookie, ![b].at = "consume"]
        /\ UNCHANGED <<tables, expired, cookie, opened>>
    BY DEF SignChallenge
  <1>2. k \in Registered /\ k \in Keys /\ signed[k] \in 0..MaxCount
    BY <1>1 DEF IInv, Inv, KeysAreHeld, Registered, Typed, TypeOK
  <1>3. n \in Nat
    BY <1>2, BoundAssumption
  <1>4. n # Null
    BY <1>3, NullAssumption
  <1> HIDE DEF n
  <1>5. \A a \in Tabs : tab'[a] = IF a = b THEN t ELSE tab[a]
    BY <1>1 DEF IInv, Typed, TypeOK
  <1>6. t.at = "consume" /\ t.purpose = "login" /\ t.key = k
    BY <1>1 DEF IInv, Typed, TypeOK, Tab
  <1>7. \A j \in Keys : signed[j] # Null => signed'[j] # Null
    BY <1>1, <1>2, <1>4 DEF IInv, Typed, TypeOK
  <1> HIDE DEF t, k
  <1> QED  BY <1>1, <1>2, <1>5, <1>6, <1>7 DEF Quiet, tables, Registered, HasChallenge

LEMMA FindQuiet == ASSUME IInv, NEW b \in Tabs, FindCredential(b) PROVE Quiet
  <1>1. CASE End(b)
    BY <1>1, EndIsQuiet DEF FindCredential, tables
  <1>2. CASE Goto(b, "count")
    <2>1. \A a \in Tabs : tab'[a] = IF a = b THEN [tab[b] EXCEPT !.at = "count"] ELSE tab[a]
      BY <1>2 DEF Goto, IInv, Typed, TypeOK
    <2> QED  BY <2>1 DEF FindCredential, Quiet, tables, Registered
  <1> QED  BY <1>1, <1>2 DEF FindCredential

LEMMA UpdateQuiet == ASSUME IInv, NEW b \in Tabs, UpdateSignCount(b) PROVE Quiet
  <1>1. \A a \in Tabs : tab'[a] = IF a = b THEN [tab[b] EXCEPT !.at = "open"] ELSE tab[a]
    BY DEF UpdateSignCount, Goto, IInv, Typed, TypeOK
  <1> DEFINE k == tab[b].key
             n == tab[b].count
  <1>2. k \in Registered /\ n \in Nat
    BY DEF UpdateSignCount, IInv, Inv, KeysAreHeld, Typed, TypeOK, CeremonyOK, Tab
  <1>3. credential[k] \in Credential
    BY <1>2 DEF Registered, IInv, Typed, TypeOK
  <1>4. StoredCount(k, n) \in Credential /\ StoredCount(k, n).link = credential[k].link
    BY <1>2, <1>3 DEF StoredCount, Credential
  <1>5. StoredCount(k, n) # Null
    BY <1>4, NullAssumption
  <1>6. \A j \in Keys : credential'[j] = IF j = k THEN StoredCount(k, n) ELSE credential[j]
    BY DEF UpdateSignCount, IInv, Typed, TypeOK
  <1>7. /\ Registered' = Registered
        /\ \A j \in Registered : credential'[j].link = credential[j].link
    BY <1>2, <1>4, <1>5, <1>6 DEF Registered
  <1> QED  BY <1>1, <1>7 DEF UpdateSignCount, Quiet

\* The steps outside a ceremony are quiet.
LEMMA OtherQuiet ==
    ASSUME IInv,
           \/ \E l \in Links : SendSetupLink(l)
           \/ \E s \in Sessions : Logout(s)
           \/ Expire \/ Housekeeping \/ UNCHANGED vars
    PROVE  Quiet
  <1> USE DEF IInv, Typed, TypeOK
  <1>1. ASSUME NEW l \in Links, SendSetupLink(l) PROVE Quiet
    BY <1>1 DEF SendSetupLink, Quiet, Registered
  <1>2. ASSUME NEW s \in Sessions, Logout(s) PROVE Quiet
    BY <1>2 DEF Logout, Quiet, Registered
  <1>3. ASSUME Expire PROVE Quiet
    BY <1>3 DEF Expire, Quiet, tables, Registered
  <1>4. ASSUME PurgeTokens PROVE Quiet
    BY <1>4 DEF PurgeTokens, Purged, Quiet, Registered
  <1>5. ASSUME PurgeSessions PROVE Quiet
    BY <1>5 DEF PurgeSessions, Quiet, Registered
  <1>6. ASSUME PurgeChallenges PROVE Quiet
    <2>1. \A c \in Challenges : challenge[c].status = "used" => challenge'[c] = challenge[c]
      BY <1>6 DEF PurgeChallenges, Purged
    <2> QED  BY <1>6, <2>1 DEF PurgeChallenges, Quiet, Registered
  <1>7. ASSUME UNCHANGED vars PROVE Quiet
    BY <1>7 DEF vars, Quiet, Registered
  <1> QED  BY <1>1, <1>2, <1>3, <1>4, <1>5, <1>6, <1>7 DEF Housekeeping

-----------------------------------------------------------------------------
(* The six steps that are not quiet.                                       *)

\* A step that only fills one tab, with an answer that is on its way, changes
\* nothing of what is held.
LEMMA AnswerKeepsHeld ==
    ASSUME IInv, NEW b \in Tabs, NEW t, tab' = [tab EXCEPT ![b] = t],
           t.at = "consume", UNCHANGED <<tables, opened>>
    PROVE  /\ ChallengesAreHeldOnce' /\ LinksAreHeldOnce'
           /\ OneKeyPerLink' /\ OneSessionPerChallenge' /\ SessionHasKey'
  <1> USE DEF IInv, Inv
  <1>1. \A a \in Tabs : tab'[a] = IF a = b THEN t ELSE tab[a]
    BY DEF Typed, TypeOK
  <1>2. Registered' = Registered
    BY DEF tables, Registered
  <1>3. ChallengesAreHeldOnce'
    BY <1>1 DEF ChallengesAreHeldOnce, HasChallenge, tables
  <1>4. LinksAreHeldOnce'
    BY <1>1, <1>2 DEF LinksAreHeldOnce, HasLink, tables
  <1>5. OneKeyPerLink' /\ OneSessionPerChallenge' /\ SessionHasKey'
    BY <1>2 DEF OneKeyPerLink, OneSessionPerChallenge, SessionHasKey, tables
  <1> QED  BY <1>3, <1>4, <1>5

LEMMA CreateKeyInv == ASSUME IInv, NEW b \in Tabs, CreateKey(b) PROVE Inv'
  <1> USE DEF IInv, Inv
  <1>1. PICK k \in Keys :
           /\ signed[k] = Null
           /\ signed' = [signed EXCEPT ![k] = 0]
           /\ tab' = [tab EXCEPT ![b].key = k, ![b].sent = cookie, ![b].at = "consume"]
    BY DEF CreateKey
  <1>2. tab[b].purpose = "register" /\ UNCHANGED <<tables, opened>>
    BY DEF CreateKey
  <1> DEFINE t == [tab[b] EXCEPT !.key = k, !.sent = cookie, !.at = "consume"]
  <1>3. tab' = [tab EXCEPT ![b] = t] /\ (\A a \in Tabs : tab'[a] = IF a = b THEN t ELSE tab[a])
    BY <1>1 DEF Typed, TypeOK
  <1>4. t.at = "consume" /\ t.key = k /\ t.purpose = "register"
    BY <1>2 DEF Typed, TypeOK, Tab
  <1>5. Registered' = Registered /\ k \notin Registered
    BY <1>1, <1>2 DEF tables, Registered, KeysAreHeld
  <1>6. \A j \in Keys : signed'[j] = IF j = k THEN 0 ELSE signed[j]
    BY <1>1 DEF Typed, TypeOK
  <1>7. 0 # Null
    BY NullAssumption
  <1> HIDE DEF t
  <1>8. KeysAreHeld'
    <2>1. \A a \in Tabs : Brings(a)' => a = b \/ (a # b /\ Brings(a))
      BY <1>3 DEF Brings
    <2>2. \A a \in Tabs : Brings(a) => tab[a].key # k
      BY <1>1 DEF KeysAreHeld
    <2>3. \A a \in Tabs : tab'[a].purpose = "login" \/ tab'[a].at = "open" =>
            tab'[a].key \in Registered'
      BY <1>3, <1>4, <1>5 DEF KeysAreHeld
    <2>4. \A j \in Registered' : signed'[j] # Null
      BY <1>5, <1>6, <1>7 DEF KeysAreHeld, Registered
    <2>5. ASSUME NEW a \in Tabs, Brings(a)'
          PROVE  /\ tab'[a].key \in Keys /\ signed'[tab'[a].key] # Null
                 /\ tab'[a].key \notin Registered'
                      \/ (/\ tab'[a].at = "consume"
                          /\ tab'[a].sent \in Challenges
                          /\ challenge'[tab'[a].sent].status = "used")
      <3>1. CASE a = b
        BY <3>1, <1>3, <1>4, <1>5, <1>6, <1>7
      <3>2. CASE a # b
        <4>1. tab'[a] = tab[a] /\ Brings(a)
          BY <2>1, <2>5, <3>2, <1>3
        <4>2. /\ tab[a].key \in Keys /\ signed[tab[a].key] # Null
              /\ tab[a].key \notin Registered
                   \/ (/\ tab[a].at = "consume"
                       /\ tab[a].sent \in Challenges
                       /\ challenge[tab[a].sent].status = "used")
          BY <4>1 DEF KeysAreHeld, New
        <4> QED  BY <4>1, <4>2, <1>2, <1>5, <1>6, <1>7 DEF tables
      <3> QED  BY <3>1, <3>2
    <2>6. \A a, d \in Tabs : Brings(a)' /\ Brings(d)' /\ tab'[a].key = tab'[d].key =>
            tab'[a].sent = tab'[d].sent
      BY <2>1, <2>2, <1>3, <1>4 DEF KeysAreHeld
    <2> QED  BY <2>3, <2>4, <2>5, <2>6 DEF KeysAreHeld, New
  <1> QED  BY <1>2, <1>3, <1>4, <1>8, AnswerKeepsHeld

LEMMA RepeatInv == ASSUME IInv, NEW a \in Tabs, NEW b \in Tabs, Repeat(a, b) PROVE Inv'
  <1> USE DEF IInv, Inv
  <1>1. /\ tab[a].at = "consume" /\ tab' = [tab EXCEPT ![b] = tab[a]]
        /\ UNCHANGED <<tables, signed, opened>>
    BY DEF Repeat, Start
  <1>2. \A d \in Tabs : \E o \in Tabs : tab'[d] = tab[o]
    BY <1>1 DEF Typed, TypeOK
  <1>3. Registered' = Registered
    BY <1>1 DEF tables, Registered
  <1>4. KeysAreHeld'
    <2>1. \A d, o \in Tabs : tab'[d] = tab[o] => (Brings(d)' <=> Brings(o))
      BY DEF Brings
    <2>2. \A d \in Tabs : tab'[d].purpose = "login" \/ tab'[d].at = "open" =>
            tab'[d].key \in Registered'
      BY <1>2, <1>3 DEF KeysAreHeld
    <2>3. \A j \in Registered' : signed'[j] # Null
      BY <1>1, <1>3 DEF KeysAreHeld
    <2>4. ASSUME NEW d \in Tabs, Brings(d)'
          PROVE  /\ tab'[d].key \in Keys /\ signed'[tab'[d].key] # Null
                 /\ tab'[d].key \notin Registered'
                      \/ (/\ tab'[d].at = "consume"
                          /\ tab'[d].sent \in Challenges
                          /\ challenge'[tab'[d].sent].status = "used")
      <3>1. PICK o \in Tabs : tab'[d] = tab[o] /\ Brings(o)
        BY <1>2, <2>1, <2>4
      <3>2. /\ tab[o].key \in Keys /\ signed[tab[o].key] # Null
            /\ tab[o].key \notin Registered
                 \/ (/\ tab[o].at = "consume"
                     /\ tab[o].sent \in Challenges
                     /\ challenge[tab[o].sent].status = "used")
        BY <3>1 DEF KeysAreHeld, New
      <3> QED  BY <3>1, <3>2, <1>1, <1>3 DEF tables
    <2>5. \A d, e \in Tabs : Brings(d)' /\ Brings(e)' /\ tab'[d].key = tab'[e].key =>
            tab'[d].sent = tab'[e].sent
      BY <1>2, <2>1 DEF KeysAreHeld
    <2> QED  BY <2>2, <2>3, <2>4, <2>5 DEF KeysAreHeld, New
  <1>5. UNCHANGED <<tables, opened>>
    BY <1>1
  <1> QED  BY <1>1, <1>4, <1>5, AnswerKeepsHeld

\* The challenge is consumed: nobody else holds it, and it has opened nothing.
LEMMA ConsumeInv == ASSUME IInv, NEW b \in Tabs, ConsumeChallenge(b) PROVE Inv'
  <1> USE DEF IInv, Inv
  <1> DEFINE c == tab[b].sent
  <1>1. CASE ~Outstanding(c, tab[b].purpose)
    <2>1. Quiet
      BY <1>1, EndIsQuiet DEF ConsumeChallenge
    <2>2. Typed'
      BY NextTyped DEF Next, Verify
    <2> QED  BY <2>1, <2>2, QuietKeepsInv
  <1>2. CASE Outstanding(c, tab[b].purpose)
    <2>1. PICK label \in {"burn", "find"} :
             /\ tab' = [tab EXCEPT ![b].at = label]
             /\ label = "burn" => tab[b].purpose = "register"
             /\ label = "find" => tab[b].purpose = "login"
      BY <1>2 DEF ConsumeChallenge, Goto
    <2>2. /\ challenge' = [challenge EXCEPT ![c].status = "used"]
          /\ UNCHANGED <<link, credential, session, signed, opened>>
      BY <1>2 DEF ConsumeChallenge
    <2>3. /\ tab[b].at = "consume" /\ c \in Challenges
          /\ challenge[c] = [status |-> "fresh", purpose |-> tab[b].purpose]
      BY <1>2 DEF ConsumeChallenge, Outstanding, Typed, TypeOK, Tab
    <2>4. /\ \A a \in Tabs \ {b} : tab'[a] = tab[a]
          /\ tab'[b].at = label /\ tab'[b].sent = c /\ tab'[b].key = tab[b].key
          /\ tab'[b].purpose = tab[b].purpose /\ tab'[b].link = tab[b].link
      BY <2>1 DEF Typed, TypeOK, Tab
    <2>5. /\ challenge'[c] = [status |-> "used", purpose |-> tab[b].purpose]
          /\ \A d \in Challenges \ {c} : challenge'[d] = challenge[d]
      BY <2>2, <2>3 DEF Typed, TypeOK
    <2>6. Registered' = Registered
      BY <2>2 DEF Registered
    <2> HIDE DEF c
    <2>7. ChallengesAreHeldOnce'
      <3>1. opened[c] = 0
        BY <2>3 DEF ChallengesAreHeldOnce
      <3>2. \A a \in Tabs : tab[a].at \in HasChallenge => tab[a].sent # c
        <4>1. challenge[c].status = "fresh"
          BY <2>3
        <4>2. ASSUME NEW a \in Tabs, tab[a].at \in HasChallenge
              PROVE  challenge[tab[a].sent].status = "used"
          <5>1. challenge[tab[a].sent] = [status |-> "used", purpose |-> tab[a].purpose]
            BY <4>2 DEF ChallengesAreHeldOnce
          <5> QED  BY <5>1
        <4> QED  BY <4>1, <4>2
      <3>3. \A a \in Tabs : tab'[a].at \in HasChallenge =>
               a = b \/ (a # b /\ tab[a].at \in HasChallenge)
        BY <2>4
      <3>4. \A a \in Tabs : tab'[a].at \in HasChallenge =>
              /\ tab'[a].sent \in Challenges
              /\ challenge'[tab'[a].sent] = [status |-> "used", purpose |-> tab'[a].purpose]
              /\ opened'[tab'[a].sent] = 0
        BY <2>2, <2>3, <2>4, <2>5, <3>1, <3>2, <3>3 DEF ChallengesAreHeldOnce
      <3>5. \A a, d \in Tabs :
              /\ tab'[a].at \in HasChallenge /\ tab'[d].at \in HasChallenge
              /\ tab'[a].sent = tab'[d].sent
              => a = d
        BY <2>4, <3>2, <3>3 DEF ChallengesAreHeldOnce
      <3>6. \A d \in Challenges : opened'[d] # 0 => challenge'[d].status = "used"
        BY <2>2, <2>5 DEF ChallengesAreHeldOnce
      <3> QED  BY <3>4, <3>5, <3>6 DEF ChallengesAreHeldOnce
    <2>8. LinksAreHeldOnce'
      <3>1. ~HasLink(b)' /\ tab'[b].at # "insert"
        BY <2>4 DEF HasLink
      <3>2. \A a \in Tabs : HasLink(a)' => a # b /\ HasLink(a)
        BY <2>4, <3>1 DEF HasLink
      <3> QED  BY <2>2, <2>4, <2>6, <3>1, <3>2 DEF LinksAreHeldOnce
    <2>9. KeysAreHeld'
      <3>1. \A a \in Tabs : Brings(a)' => Brings(a) /\ tab'[a].key = tab[a].key
                                          /\ tab'[a].sent = tab[a].sent
        BY <2>1, <2>3, <2>4 DEF Brings, c
      <3>2. \A a \in Tabs : tab'[a].purpose = "login" \/ tab'[a].at = "open" =>
              tab'[a].key \in Registered'
        BY <2>4, <2>6 DEF KeysAreHeld
      <3>3. \A j \in Registered' : signed'[j] # Null
        BY <2>2, <2>6 DEF KeysAreHeld
      <3>4. ASSUME NEW a \in Tabs, Brings(a)'
            PROVE  /\ tab'[a].key \in Keys /\ signed'[tab'[a].key] # Null
                   /\ tab'[a].key \notin Registered'
                        \/ (/\ tab'[a].at = "consume"
                            /\ tab'[a].sent \in Challenges
                            /\ challenge'[tab'[a].sent].status = "used")
        <4>1. /\ tab[a].key \in Keys /\ signed[tab[a].key] # Null
              /\ tab[a].key \notin Registered
                   \/ (/\ tab[a].at = "consume"
                       /\ tab[a].sent \in Challenges
                       /\ challenge[tab[a].sent].status = "used")
          BY <3>1, <3>4 DEF KeysAreHeld, New
        <4>2. tab[b].sent = c
          BY DEF c
        <4>3. CASE a = b
          <5>1. challenge[tab[a].sent].status = "fresh"
            BY <4>2, <4>3, <2>3
          <5>2. tab[a].key \notin Registered
            BY <4>1, <5>1
          <5> QED  BY <4>1, <5>2, <3>1, <3>4, <2>2, <2>6
        <4>4. CASE a # b
          BY <4>1, <4>4, <2>2, <2>4, <2>5, <2>6
        <4> QED  BY <4>3, <4>4
      <3>5. \A a, d \in Tabs : Brings(a)' /\ Brings(d)' /\ tab'[a].key = tab'[d].key =>
              tab'[a].sent = tab'[d].sent
        BY <3>1 DEF KeysAreHeld
      <3> QED  BY <3>2, <3>3, <3>4, <3>5 DEF KeysAreHeld, New
    <2>10. OneKeyPerLink' /\ OneSessionPerChallenge' /\ SessionHasKey'
      BY <2>2, <2>6 DEF OneKeyPerLink, OneSessionPerChallenge, SessionHasKey
    <2> QED  BY <2>7, <2>8, <2>9, <2>10
  <1> QED  BY <1>1, <1>2

\* The link is burnt: nobody else holds it, and no key was registered with it.
LEMMA BurnInv == ASSUME IInv, NEW b \in Tabs, BurnLink(b) PROVE Inv'
  <1> USE DEF IInv, Inv
  <1> DEFINE l == tab[b].link
  <1>1. CASE End(b)
    <2>1. Quiet
      BY <1>1, EndIsQuiet DEF BurnLink, Usable, Typed, TypeOK
    <2>2. Typed'
      BY NextTyped DEF Next, Verify
    <2> QED  BY <2>1, <2>2, QuietKeepsInv
  <1>2. CASE Usable(l) /\ link' = [link EXCEPT ![l] = "used"] /\ Goto(b, "insert")
    <2>1. /\ tab[b].at = "burn" /\ tab[b].purpose = "register" /\ l \in Links
          /\ UNCHANGED <<challenge, credential, session, signed, opened>>
      BY DEF BurnLink, Typed, CeremonyOK
    <2>2. /\ \A a \in Tabs \ {b} : tab'[a] = tab[a]
          /\ tab'[b].at = "insert" /\ tab'[b].sent = tab[b].sent
          /\ tab'[b].key = tab[b].key /\ tab'[b].purpose = tab[b].purpose
          /\ tab'[b].link = l
      BY <1>2 DEF Goto, Typed, TypeOK, Tab
    <2>3. Registered' = Registered
      BY <2>1 DEF Registered
    <2>4. link[l] # "used" /\ link'[l] = "used" /\ \A m \in Links \ {l} : link'[m] = link[m]
      BY <1>2, <2>1 DEF Usable, Typed, TypeOK
    <2> HIDE DEF l
    <2>5. ChallengesAreHeldOnce'
      <3>1. \A a \in Tabs : tab'[a].at \in HasChallenge <=> tab[a].at \in HasChallenge
        BY <2>1, <2>2 DEF HasChallenge
      <3>2. \A a \in Tabs : tab'[a].sent = tab[a].sent /\ tab'[a].purpose = tab[a].purpose
        BY <2>2
      <3> QED  BY <2>1, <3>1, <3>2 DEF ChallengesAreHeldOnce
    <2>6. LinksAreHeldOnce'
      <3>1. \A a \in Tabs : HasLink(a)' => a = b \/ (a # b /\ HasLink(a) /\ tab[a].link # l)
        BY <2>2, <2>4 DEF HasLink, LinksAreHeldOnce
      <3>2. \A k \in Registered : credential[k].link \in Links /\ credential[k].link # l
        BY <2>4 DEF LinksAreHeldOnce, Registered, Typed, TypeOK, Credential
      <3>3. \A a \in Tabs : HasLink(a)' => tab'[a].link \in Links /\ link'[tab'[a].link] = "used"
        BY <3>1, <2>1, <2>2, <2>4 DEF LinksAreHeldOnce
      <3>4. \A a, d \in Tabs : HasLink(a)' /\ HasLink(d)' /\ tab'[a].link = tab'[d].link => a = d
        BY <3>1, <2>2 DEF LinksAreHeldOnce
      <3>5. \A k \in Registered' : link'[credential'[k].link] = "used"
        BY <3>2, <2>1, <2>3, <2>4 DEF LinksAreHeldOnce
      <3>6. \A a \in Tabs : tab'[a].at = "insert" =>
              \A k \in Registered' : credential'[k].link # tab'[a].link
        BY <3>2, <2>1, <2>2, <2>3 DEF LinksAreHeldOnce
      <3> QED  BY <3>3, <3>4, <3>5, <3>6 DEF LinksAreHeldOnce
    <2>7. KeysAreHeld'
      <3>1. \A a \in Tabs : Brings(a)' <=> Brings(a)
        BY <2>1, <2>2 DEF Brings
      <3>2. \A a \in Tabs : tab'[a].key = tab[a].key /\ tab'[a].sent = tab[a].sent
                            /\ tab'[a].purpose = tab[a].purpose
                            /\ (tab'[a].at = "open" <=> tab[a].at = "open")
                            /\ (tab'[a].at = "consume" <=> tab[a].at = "consume")
        BY <2>1, <2>2
      <3>3. \A a \in Tabs : tab'[a].purpose = "login" \/ tab'[a].at = "open" =>
              tab'[a].key \in Registered'
        BY <2>3, <3>2 DEF KeysAreHeld
      <3>4. \A j \in Registered' : signed'[j] # Null
        BY <2>1, <2>3 DEF KeysAreHeld
      <3>5. ASSUME NEW a \in Tabs, Brings(a)'
            PROVE  /\ tab'[a].key \in Keys /\ signed'[tab'[a].key] # Null
                   /\ tab'[a].key \notin Registered'
                        \/ (/\ tab'[a].at = "consume"
                            /\ tab'[a].sent \in Challenges
                            /\ challenge'[tab'[a].sent].status = "used")
        <4>1. Brings(a)
          BY <3>1, <3>5
        <4>2. /\ tab[a].key \in Keys /\ signed[tab[a].key] # Null
              /\ tab[a].key \notin Registered
                   \/ (/\ tab[a].at = "consume"
                       /\ tab[a].sent \in Challenges
                       /\ challenge[tab[a].sent].status = "used")
          BY <4>1 DEF KeysAreHeld, New
        <4> QED  BY <4>2, <3>2, <2>1, <2>3
      <3>6. \A a, d \in Tabs : Brings(a)' /\ Brings(d)' /\ tab'[a].key = tab'[d].key =>
              tab'[a].sent = tab'[d].sent
        BY <3>1, <3>2 DEF KeysAreHeld
      <3> QED  BY <3>3, <3>4, <3>5, <3>6 DEF KeysAreHeld, New
    <2>8. OneKeyPerLink' /\ OneSessionPerChallenge' /\ SessionHasKey'
      BY <2>1, <2>3 DEF OneKeyPerLink, OneSessionPerChallenge, SessionHasKey
    <2> QED  BY <2>5, <2>6, <2>7, <2>8
  <1> QED  BY <1>1, <1>2 DEF BurnLink, AfterBurn

\* The key is stored: it is the first with its link, and no other answer that
\* brings it can still be accepted.
LEMMA InsertInv == ASSUME IInv, NEW b \in Tabs, InsertCredential(b) PROVE Inv'
  <1> USE DEF IInv, Inv
  <1> DEFINE l == tab[b].link
             k == tab[b].key
  <1>1. /\ tab[b].at = "insert" /\ tab[b].purpose = "register"
        /\ UNCHANGED <<link, challenge, session, signed, opened>>
    BY DEF InsertCredential, Typed, CeremonyOK
  <1>2. /\ \A a \in Tabs \ {b} : tab'[a] = tab[a]
        /\ tab'[b].at = "open" /\ tab'[b].sent = tab[b].sent
        /\ tab'[b].key = k /\ tab'[b].purpose = "register" /\ tab'[b].link = l
    BY <1>1 DEF InsertCredential, Goto, Typed, TypeOK, Tab
  <1>3. l \in Links /\ link[l] = "used"
    BY <1>1 DEF LinksAreHeldOnce, HasLink
  <1>4. Brings(b)
    BY <1>1 DEF Brings
  <1>5. k \in Keys /\ k \notin Registered /\ signed[k] # Null
    BY <1>1, <1>4 DEF KeysAreHeld, New
  <1>6. [count |-> 0, link |-> l] # Null
    BY <1>3, NullAssumption DEF Credential
  <1>7. /\ credential'[k] = [count |-> 0, link |-> l]
        /\ \A j \in Keys \ {k} : credential'[j] = credential[j]
    BY <1>5 DEF InsertCredential, Typed, TypeOK
  <1>8. Registered' = Registered \cup {k}
    BY <1>5, <1>6, <1>7 DEF Registered
  <1>9. credential'[k].link = l /\ \A j \in Registered : credential'[j] = credential[j]
    BY <1>5, <1>7 DEF Registered
  <1>10. tab[b].sent \in Challenges /\ challenge[tab[b].sent].status = "used"
    <2>1. challenge[tab[b].sent] = [status |-> "used", purpose |-> tab[b].purpose]
      BY <1>1 DEF ChallengesAreHeldOnce, HasChallenge
    <2> QED  BY <1>1, <2>1 DEF ChallengesAreHeldOnce, HasChallenge
  <1> HIDE DEF k, l
  <1>11. ChallengesAreHeldOnce'
    <2>1. \A a \in Tabs : tab'[a].at \in HasChallenge <=> tab[a].at \in HasChallenge
      BY <1>1, <1>2 DEF HasChallenge
    <2>2. \A a \in Tabs : tab'[a].sent = tab[a].sent /\ tab'[a].purpose = tab[a].purpose
      BY <1>1, <1>2
    <2> QED  BY <1>1, <2>1, <2>2 DEF ChallengesAreHeldOnce
  <1>12. LinksAreHeldOnce'
    <2>1. \A a \in Tabs : (HasLink(a)' <=> HasLink(a)) /\ tab'[a].link = tab[a].link
      BY <1>1, <1>2 DEF HasLink, l
    <2>2. \A a \in Tabs : HasLink(a)' => tab'[a].link \in Links /\ link'[tab'[a].link] = "used"
      BY <1>1, <2>1 DEF LinksAreHeldOnce
    <2>3. \A a, d \in Tabs : HasLink(a)' /\ HasLink(d)' /\ tab'[a].link = tab'[d].link => a = d
      BY <2>1 DEF LinksAreHeldOnce
    <2>4. \A j \in Registered' : link'[credential'[j].link] = "used"
      BY <1>1, <1>3, <1>8, <1>9 DEF LinksAreHeldOnce
    <2>5. ASSUME NEW a \in Tabs, tab'[a].at = "insert", NEW j \in Registered'
          PROVE  credential'[j].link # tab'[a].link
      <3>1. a # b /\ tab'[a] = tab[a] /\ tab[a].at = "insert"
        BY <1>2, <2>5
      <3>2. tab[a].link # l
        BY <1>1, <3>1 DEF LinksAreHeldOnce, HasLink, l
      <3>3. j \in Registered => credential[j].link # tab[a].link
        BY <3>1 DEF LinksAreHeldOnce
      <3> QED  BY <1>8, <1>9, <2>5, <3>1, <3>2, <3>3
    <2> QED  BY <2>2, <2>3, <2>4, <2>5 DEF LinksAreHeldOnce
  <1>13. KeysAreHeld'
    <2>1. \A a \in Tabs : Brings(a)' => a # b /\ tab'[a] = tab[a] /\ Brings(a)
      BY <1>2 DEF Brings
    <2>2. \A a \in Tabs : tab'[a].purpose = "login" \/ tab'[a].at = "open" =>
            tab'[a].key \in Registered'
      BY <1>2, <1>8 DEF KeysAreHeld
    <2>3. \A j \in Registered' : signed'[j] # Null
      BY <1>1, <1>5, <1>8 DEF KeysAreHeld
    <2>4. ASSUME NEW a \in Tabs, Brings(a)'
          PROVE  /\ tab'[a].key \in Keys /\ signed'[tab'[a].key] # Null
                 /\ tab'[a].key \notin Registered'
                      \/ (/\ tab'[a].at = "consume"
                          /\ tab'[a].sent \in Challenges
                          /\ challenge'[tab'[a].sent].status = "used")
      <3>1. a # b /\ tab'[a] = tab[a] /\ Brings(a)
        BY <2>1, <2>4
      <3>2. /\ tab[a].key \in Keys /\ signed[tab[a].key] # Null
            /\ tab[a].key \notin Registered
                 \/ (/\ tab[a].at = "consume"
                     /\ tab[a].sent \in Challenges
                     /\ challenge[tab[a].sent].status = "used")
        BY <3>1 DEF KeysAreHeld, New
      <3>3. CASE tab[a].key = k
        \* The other answer brings the same challenge, which is used.
        <4>1. tab[a].sent = tab[b].sent
          BY <1>4, <3>1, <3>3 DEF KeysAreHeld, k
        <4>2. tab[a].at = "consume"
          <5>1. tab[a].at \notin HasChallenge
            BY <1>1, <3>1, <4>1 DEF ChallengesAreHeldOnce, HasChallenge
          <5> QED  BY <3>1, <5>1 DEF Brings, HasChallenge
        <4> QED  BY <1>1, <1>10, <3>1, <3>2, <4>1, <4>2
      <3>4. CASE tab[a].key # k
        BY <1>1, <1>8, <3>1, <3>2, <3>4
      <3> QED  BY <3>3, <3>4
    <2>5. \A a, d \in Tabs : Brings(a)' /\ Brings(d)' /\ tab'[a].key = tab'[d].key =>
            tab'[a].sent = tab'[d].sent
      BY <2>1 DEF KeysAreHeld
    <2> QED  BY <2>2, <2>3, <2>4, <2>5 DEF KeysAreHeld, New
  <1>14. OneKeyPerLink'
    <2>1. \A j \in Registered : credential[j].link # l
      BY <1>1 DEF LinksAreHeldOnce, l
    <2> QED  BY <2>1, <1>8, <1>9 DEF OneKeyPerLink
  <1>15. OneSessionPerChallenge' /\ SessionHasKey'
    BY <1>1, <1>8 DEF OneSessionPerChallenge, SessionHasKey
  <1> QED  BY <1>11, <1>12, <1>13, <1>14, <1>15

\* The session is opened: the first of its challenge, for a stored key.
LEMMA OpenInv == ASSUME IInv, NEW b \in Tabs, OpenSession(b) PROVE Inv'
  <1> USE DEF IInv, Inv
  <1> DEFINE c == tab[b].sent
  <1>1. PICK s \in Sessions : session' = [session EXCEPT ![s] = tab[b].key]
    BY DEF OpenSession
  <1>2. /\ tab[b].at = "open" /\ opened' = [opened EXCEPT ![c] = @ + 1]
        /\ UNCHANGED <<link, challenge, credential, signed>>
        /\ tab' = [tab EXCEPT ![b] = NoTab]
    BY DEF OpenSession, End
  <1>3. /\ \A a \in Tabs \ {b} : tab'[a] = tab[a]
        /\ tab'[b] = NoTab
    BY <1>2 DEF Typed, TypeOK
  <1>4. c \in Challenges /\ opened[c] = 0 /\ challenge[c].status = "used"
    <2>1. challenge[c] = [status |-> "used", purpose |-> tab[b].purpose]
      BY <1>2 DEF ChallengesAreHeldOnce, HasChallenge
    <2> QED  BY <1>2, <2>1 DEF ChallengesAreHeldOnce, HasChallenge
  <1>5. opened'[c] = 1 /\ \A d \in Challenges \ {c} : opened'[d] = opened[d]
    BY <1>2, <1>4 DEF Typed, TypeOK
  <1>6. Registered' = Registered
    BY <1>2 DEF Registered
  <1>7. tab[b].key \in Registered
    BY <1>2 DEF KeysAreHeld
  <1>8. /\ tab'[b].at \notin HasChallenge /\ ~HasLink(b)' /\ ~Brings(b)'
        /\ tab'[b].at # "insert" /\ tab'[b].at # "open" /\ tab'[b].purpose # "login"
    BY <1>3, NoTabType, NoTabIsQuiet DEF HasLink, Brings
  <1> HIDE DEF c
  <1>9. ChallengesAreHeldOnce'
    <2>1. \A a \in Tabs : tab'[a].at \in HasChallenge =>
             tab'[a] = tab[a] /\ tab[a].sent # c
      BY <1>2, <1>3, <1>8 DEF ChallengesAreHeldOnce, HasChallenge, c
    <2>2. \A a \in Tabs : tab'[a].at \in HasChallenge =>
            /\ tab'[a].sent \in Challenges
            /\ challenge'[tab'[a].sent] = [status |-> "used", purpose |-> tab'[a].purpose]
            /\ opened'[tab'[a].sent] = 0
      BY <1>2, <1>5, <2>1 DEF ChallengesAreHeldOnce
    <2>3. \A a, d \in Tabs :
            /\ tab'[a].at \in HasChallenge /\ tab'[d].at \in HasChallenge
            /\ tab'[a].sent = tab'[d].sent
            => a = d
      BY <2>1 DEF ChallengesAreHeldOnce
    <2>4. \A d \in Challenges : opened'[d] # 0 => challenge'[d].status = "used"
      BY <1>2, <1>4, <1>5 DEF ChallengesAreHeldOnce
    <2> QED  BY <2>2, <2>3, <2>4 DEF ChallengesAreHeldOnce
  <1>10. LinksAreHeldOnce'
    <2>1. \A a \in Tabs : HasLink(a)' => tab'[a] = tab[a] /\ HasLink(a)
      BY <1>3, <1>8 DEF HasLink
    <2>2. \A a \in Tabs : tab'[a].at = "insert" => tab'[a] = tab[a]
      BY <1>3, <1>8
    <2> QED  BY <1>2, <1>6, <2>1, <2>2 DEF LinksAreHeldOnce
  <1>11. KeysAreHeld'
    <2>1. \A a \in Tabs : Brings(a)' => tab'[a] = tab[a] /\ Brings(a)
      BY <1>3, <1>8 DEF Brings
    <2>2. \A a \in Tabs : tab'[a].purpose = "login" \/ tab'[a].at = "open" =>
            tab'[a].key \in Registered'
      BY <1>3, <1>6, <1>8 DEF KeysAreHeld
    <2>3. \A j \in Registered' : signed'[j] # Null
      BY <1>2, <1>6 DEF KeysAreHeld
    <2>4. \A a \in Tabs : Brings(a)' =>
            /\ tab'[a].key \in Keys /\ signed'[tab'[a].key] # Null
            /\ tab'[a].key \notin Registered'
                 \/ (/\ tab'[a].at = "consume"
                     /\ tab'[a].sent \in Challenges
                     /\ challenge'[tab'[a].sent].status = "used")
      BY <1>2, <1>6, <2>1 DEF KeysAreHeld, New
    <2>5. \A a, d \in Tabs : Brings(a)' /\ Brings(d)' /\ tab'[a].key = tab'[d].key =>
            tab'[a].sent = tab'[d].sent
      BY <2>1 DEF KeysAreHeld
    <2> QED  BY <2>2, <2>3, <2>4, <2>5 DEF KeysAreHeld, New
  <1>12. OneKeyPerLink' /\ OneSessionPerChallenge'
    BY <1>2, <1>5, <1>6 DEF OneKeyPerLink, OneSessionPerChallenge
  <1>13. SessionHasKey'
    BY <1>1, <1>6, <1>7 DEF SessionHasKey, Typed, TypeOK
  <1> QED  BY <1>9, <1>10, <1>11, <1>12, <1>13

-----------------------------------------------------------------------------
\* Every step preserves the inductive invariant.
LEMMA NextIInv == ASSUME IInv, [Next]_vars PROVE IInv'
  <1>1. Typed'
    BY NextTyped
  <1>2. ASSUME NEW b \in Tabs, Options(b) PROVE Inv'
    BY <1>1, <1>2, OptionsQuiet, QuietKeepsInv
  <1>3. ASSUME NEW b \in Tabs, Browser(b) PROVE Inv'
    <2>1. CASE ReceiveOptions(b) \/ SignChallenge(b)
      <3>1. Quiet
        BY <2>1, ReceiveQuiet, SignQuiet
      <3> QED  BY <1>1, <3>1, QuietKeepsInv
    <2>2. CASE CreateKey(b)
      BY <2>2, CreateKeyInv
    <2>3. CASE \E a \in Tabs : Repeat(a, b)
      BY <2>3, RepeatInv
    <2> QED  BY <1>3, <2>1, <2>2, <2>3 DEF Browser
  <1>4. ASSUME NEW b \in Tabs, Verify(b) PROVE Inv'
    <2>1. CASE FindCredential(b) \/ UpdateSignCount(b)
      <3>1. Quiet
        BY <2>1, FindQuiet, UpdateQuiet
      <3> QED  BY <1>1, <3>1, QuietKeepsInv
    <2>2. CASE ConsumeChallenge(b)
      BY <2>2, ConsumeInv
    <2>3. CASE BurnLink(b)
      BY <2>3, BurnInv
    <2>4. CASE InsertCredential(b)
      BY <2>4, InsertInv
    <2>5. CASE OpenSession(b)
      BY <2>5, OpenInv
    <2> QED  BY <1>4, <2>1, <2>2, <2>3, <2>4, <2>5 DEF Verify
  <1>5. ASSUME NEW b \in Tabs, GiveUp(b) PROVE Inv'
    <2>1. Quiet
      BY <1>5, EndIsQuiet DEF GiveUp, tables
    <2> QED  BY <1>1, <2>1, QuietKeepsInv
  <1>6. ASSUME \/ \E l \in Links : SendSetupLink(l)
               \/ \E s \in Sessions : Logout(s)
               \/ Expire \/ Housekeeping \/ UNCHANGED vars
        PROVE  Inv'
    <2>1. Quiet
      BY <1>6, OtherQuiet
    <2> QED  BY <1>1, <2>1, QuietKeepsInv
  <1>7. Inv'
    <2>1. CASE Next
      BY <2>1, <1>2, <1>3, <1>4, <1>5, <1>6 DEF Next
    <2>2. CASE UNCHANGED vars
      BY <2>2, <1>6
    <2> QED  BY <2>1, <2>2
  <1> QED  BY <1>1, <1>7 DEF IInv

\* The inductive invariant: what ceremonies hold and what the tables say agree,
\* however they overlap, repeat and end.
THEOREM InvCorrect == Spec => [](TypeOK /\ Inv)
  <1>1. IInv => TypeOK /\ Inv
    BY DEF IInv, Typed
  <1> QED  BY InitIInv, NextIInv, <1>1, PTL DEF Spec

\* A link registers at most one key.
THEOREM OneKeyPerLinkCorrect == Spec => []OneKeyPerLink
  <1>1. Inv => OneKeyPerLink
    BY DEF Inv
  <1> QED  BY InvCorrect, <1>1, PTL

\* A challenge opens at most one session.
THEOREM OneSessionPerChallengeCorrect == Spec => []OneSessionPerChallenge
  <1>1. Inv => OneSessionPerChallenge
    BY DEF Inv
  <1> QED  BY InvCorrect, <1>1, PTL

\* Nobody is let in without a stored key.
THEOREM SessionHasKeyCorrect == Spec => []SessionHasKey
  <1>1. Inv => SessionHasKey
    BY DEF Inv
  <1> QED  BY InvCorrect, <1>1, PTL

\* Every row is what the type invariant says, and every ceremony.
THEOREM TypeCorrect == Spec => []TypeOK
  BY InvCorrect, PTL

-----------------------------------------------------------------------------
(* Links burnt, and answers to challenges of registrations.                *)

\* Only BurnLink burns, only ConsumeChallenge answers, and nothing is undone.
LEMMA OthersBurnNothing ==
    ASSUME IInv, [Next]_vars
    PROVE  /\ (\A b \in Tabs : ~BurnLink(b)) => Burnt' = Burnt
           /\ (\A b \in Tabs : ~ConsumeChallenge(b)) => Answered' = Answered
  <1> USE DEF IInv, Typed, TypeOK
  <1>1. CASE UNCHANGED <<link, challenge>>
    BY <1>1 DEF Burnt, Answered
  <1>2. ASSUME NEW l \in Links, SendSetupLink(l)
        PROVE  Burnt' = Burnt /\ Answered' = Answered
    BY <1>2 DEF SendSetupLink, Burnt, Answered
  <1>3. ASSUME NEW b \in Tabs, IssueChallenge(b)
        PROVE  Burnt' = Burnt /\ Answered' = Answered
    <2>1. PICK c \in Challenges :
             /\ challenge[c].status = "none"
             /\ challenge' = [challenge EXCEPT
                                ![c] = [status |-> "fresh", purpose |-> tab[b].purpose]]
      BY <1>3 DEF IssueChallenge
    <2>2. /\ c \notin Answered /\ challenge'[c].status = "fresh"
          /\ \A d \in Challenges \ {c} : challenge'[d] = challenge[d]
      BY <2>1 DEF Answered
    <2>3. Answered' = Answered
      BY <2>2 DEF Answered
    <2> QED  BY <1>3, <2>3 DEF IssueChallenge, Burnt
  <1>4. CASE PurgeTokens
    BY <1>4 DEF PurgeTokens, Purged, Burnt, Answered
  <1>5. CASE PurgeChallenges
    <2>1. \A c \in Challenges :
             /\ challenge[c].status = "used" => challenge'[c] = challenge[c]
             /\ challenge'[c].status = "used" => challenge[c].status = "used"
      BY <1>5 DEF PurgeChallenges, Purged
    <2>2. Answered' = Answered
      BY <2>1 DEF Answered
    <2> QED  BY <1>5, <2>2 DEF PurgeChallenges, Burnt
  <1>6. ASSUME NEW b \in Tabs, ConsumeChallenge(b) PROVE Burnt' = Burnt
    BY <1>6 DEF ConsumeChallenge, Burnt
  <1>7. ASSUME NEW b \in Tabs, BurnLink(b) PROVE Answered' = Answered
    BY <1>7 DEF BurnLink, Answered
  <1>8. CASE \E s \in Sessions : Logout(s)
    BY <1>1, <1>8 DEF Logout
  <1>9. CASE Expire \/ PurgeSessions
    BY <1>1, <1>9 DEF Expire, PurgeSessions, tables
  <1>10. ASSUME NEW b \in Tabs, Options(b) \/ Browser(b) \/ Verify(b) \/ GiveUp(b)
         PROVE  \/ UNCHANGED <<link, challenge>>
                \/ IssueChallenge(b) \/ ConsumeChallenge(b) \/ BurnLink(b)
    BY <1>10 DEF Options, Browser, Verify, GiveUp, RegisterOptions, LoginOptions,
       ReceiveOptions, CreateKey, SignChallenge, Repeat, InsertCredential,
       FindCredential, UpdateSignCount, OpenSession, tables
  <1>11. CASE UNCHANGED vars
    BY <1>1, <1>11 DEF vars
  <1> QED  BY <1>1, <1>2, <1>3, <1>4, <1>5, <1>6, <1>7, <1>8, <1>9, <1>10, <1>11
           DEF Next, Housekeeping

LEMMA QuietBurning == ASSUME IInv, Quiet PROVE Burning' \subseteq Burning
  <1> SUFFICES ASSUME NEW b \in Tabs, tab'[b].at = "burn" PROVE tab[b].at = "burn"
    BY DEF Burning
  <1>1. tab[b] \in Tab
    BY DEF IInv, Typed, TypeOK
  <1>2. CASE \E label \in {"count", "open"} : tab'[b] = [tab[b] EXCEPT !.at = label]
    BY <1>1, <1>2 DEF Tab
  <1> QED  BY <1>2 DEF Quiet, HasChallenge

\* A tab that goes on to another step than burning.
LEMMA NotBurning ==
    ASSUME IInv, NEW b \in Tabs, NEW t, tab' = [tab EXCEPT ![b] = t], t.at # "burn"
    PROVE  Burning' = Burning \ {b}
  <1>1. \A a \in Tabs : tab'[a] = IF a = b THEN t ELSE tab[a]
    BY DEF IInv, Typed, TypeOK
  <1> QED  BY <1>1 DEF Burning

LEMMA GotoNotBurning ==
    ASSUME IInv, NEW b \in Tabs, NEW label, label # "burn",
           Goto(b, label) \/ End(b)
    PROVE  Burning' = Burning \ {b}
  <1> DEFINE t == [tab[b] EXCEPT !.at = label]
  <1>1. tab[b] \in Tab
    BY DEF IInv, Typed, TypeOK
  <1>2. t.at = label
    BY <1>1 DEF Tab
  <1>3. Goto(b, label) => tab' = [tab EXCEPT ![b] = t]
    BY DEF Goto, IInv, Typed, TypeOK
  <1> HIDE DEF t
  <1>4. CASE Goto(b, label)
    BY <1>2, <1>3, <1>4, NotBurning
  <1>5. CASE End(b)
    BY <1>5, NotBurning, NoTabType DEF End
  <1> QED  BY <1>4, <1>5

LEMMA OthersStartNoBurning ==
    ASSUME IInv, [Next]_vars, \A b \in Tabs : ~ConsumeChallenge(b)
    PROVE  Burning' \subseteq Burning
  <1>1. ASSUME NEW b \in Tabs, CreateKey(b) PROVE Burning' \subseteq Burning
    <2>1. PICK k \in Keys :
             tab' = [tab EXCEPT ![b].key = k, ![b].sent = cookie, ![b].at = "consume"]
      BY <1>1 DEF CreateKey
    <2> DEFINE t == [tab[b] EXCEPT !.key = k, !.sent = cookie, !.at = "consume"]
    <2>2. tab[b] \in Tab
      BY DEF IInv, Typed, TypeOK
    <2>3. t.at = "consume" /\ tab' = [tab EXCEPT ![b] = t]
      BY <2>1, <2>2 DEF Tab, IInv, Typed, TypeOK
    <2> HIDE DEF t
    <2> QED  BY <2>3, NotBurning
  <1>2. ASSUME NEW a \in Tabs, NEW b \in Tabs, Repeat(a, b) PROVE Burning' \subseteq Burning
    BY <1>2, NotBurning DEF Repeat, Start
  <1>3. ASSUME NEW b \in Tabs, BurnLink(b) PROVE Burning' \subseteq Burning
    BY <1>3, GotoNotBurning DEF BurnLink, AfterBurn
  <1>4. ASSUME NEW b \in Tabs, InsertCredential(b) \/ OpenSession(b)
        PROVE  Burning' \subseteq Burning
    BY <1>4, GotoNotBurning DEF InsertCredential, OpenSession
  <1>5. ASSUME NEW b \in Tabs,
               \/ Options(b) \/ ReceiveOptions(b) \/ SignChallenge(b)
               \/ FindCredential(b) \/ UpdateSignCount(b)
        PROVE  Burning' \subseteq Burning
    BY <1>5, OptionsQuiet, ReceiveQuiet, SignQuiet, FindQuiet, UpdateQuiet, QuietBurning
  <1>6. ASSUME NEW b \in Tabs, GiveUp(b) PROVE Burning' \subseteq Burning
    BY <1>6, GotoNotBurning DEF GiveUp
  <1>7. CASE \/ \E l \in Links : SendSetupLink(l)
             \/ \E s \in Sessions : Logout(s)
             \/ Expire \/ Housekeeping \/ UNCHANGED vars
    BY <1>7, OtherQuiet, QuietBurning
  <1> QED  BY <1>1, <1>2, <1>3, <1>4, <1>5, <1>6, <1>7 DEF Next, Browser, Verify

LEMMA AnswersSufficeStep ==
    ASSUME IInv, AnswersSuffice, [Next]_vars
    PROVE  AnswersSuffice'
  <1> DEFINE B == Cardinality(Burnt)
             A == Cardinality(Answered)
             G == Cardinality(Burning)
  <1>0. B \in Nat /\ A \in Nat /\ G \in Nat /\ B + G <= A
        /\ IsFiniteSet(Burnt) /\ IsFiniteSet(Answered) /\ IsFiniteSet(Burning)
    BY FS_CardinalityType DEF AnswersSuffice
  <1>1. ASSUME NEW b \in Tabs, ConsumeChallenge(b) PROVE AnswersSuffice'
    <2> DEFINE c == tab[b].sent
    <2>1. Burnt' = Burnt
      <3>1. \A a \in Tabs : ~BurnLink(a)
        <4> SUFFICES ASSUME NEW a \in Tabs, BurnLink(a) PROVE FALSE
          OBVIOUS
        <4>1. tab[b].at = "consume" /\ tab[a].at = "burn" /\ a # b
          BY <1>1 DEF ConsumeChallenge, BurnLink
        <4>2. tab'[a] = tab[a]
          BY <1>1, <4>1 DEF ConsumeChallenge, Goto, End, IInv, Typed, TypeOK
        <4>3. tab'[a].at # "burn"
          <5>1. Burning' = Burning \ {a}
            BY GotoNotBurning DEF BurnLink, AfterBurn
          <5> QED  BY <5>1 DEF Burning
        <4> QED  BY <4>1, <4>2, <4>3
      <3> QED  BY <3>1, OthersBurnNothing
    <2>2. CASE UNCHANGED challenge /\ End(b)
      <3>1. Answered' = Answered /\ Burning' = Burning \ {b}
        BY <2>2, GotoNotBurning DEF Answered
      <3>2. Cardinality(Burning') <= G /\ Cardinality(Burning') \in Nat /\ IsFiniteSet(Burning')
        BY <1>0, <3>1, FS_Subset, FS_CardinalityType
      <3> QED  BY <1>0, <2>1, <3>1, <3>2 DEF AnswersSuffice
    <2>3. CASE /\ Outstanding(c, tab[b].purpose)
               /\ challenge' = [challenge EXCEPT ![c].status = "used"]
      <3>1. c \in Challenges /\ challenge[c] = [status |-> "fresh", purpose |-> tab[b].purpose]
        BY <2>3 DEF Outstanding, IInv, Typed, TypeOK, Tab
      <3>2. /\ challenge'[c] = [status |-> "used", purpose |-> tab[b].purpose]
            /\ \A d \in Challenges \ {c} : challenge'[d] = challenge[d]
        BY <2>3, <3>1 DEF IInv, Typed, TypeOK
      <3>3. c \notin Answered
        BY <3>1 DEF Answered
      <3>4. CASE tab[b].purpose = "register" /\ Goto(b, "burn")
        <4>1. Answered' = Answered \cup {c}
          BY <3>1, <3>2, <3>4 DEF Answered
        <4>2. Burning' = Burning \cup {b} /\ b \notin Burning
          <5>1. \A a \in Tabs : tab'[a].at = IF a = b THEN "burn" ELSE tab[a].at
            BY <3>4 DEF Goto, IInv, Typed, TypeOK, Tab
          <5>2. tab[b].at = "consume"
            BY <1>1 DEF ConsumeChallenge
          <5> QED  BY <5>1, <5>2 DEF Burning
        <4>3. IsFiniteSet(Answered') /\ Cardinality(Answered') = A + 1
          BY <1>0, <3>3, <4>1, FS_AddElement
        <4>4. IsFiniteSet(Burning') /\ Cardinality(Burning') = G + 1
          BY <1>0, <4>2, FS_AddElement
        <4> QED  BY <1>0, <2>1, <4>3, <4>4 DEF AnswersSuffice
      <3>5. CASE tab[b].purpose = "login" /\ Goto(b, "find")
        <4>1. Answered' = Answered
          BY <3>1, <3>2, <3>3, <3>5 DEF Answered
        <4>2. Burning' = Burning \ {b}
          BY <3>5, GotoNotBurning
        <4>3. Cardinality(Burning') <= G /\ Cardinality(Burning') \in Nat
              /\ IsFiniteSet(Burning')
          BY <1>0, <4>2, FS_Subset, FS_CardinalityType
        <4> QED  BY <1>0, <2>1, <4>1, <4>3 DEF AnswersSuffice
      <3> QED  BY <1>1, <2>3, <3>4, <3>5 DEF ConsumeChallenge
    <2> QED  BY <1>1, <2>2, <2>3 DEF ConsumeChallenge
  <1>2. CASE \A b \in Tabs : ~ConsumeChallenge(b)
    <2>1. Answered' = Answered /\ Burning' \subseteq Burning
      BY <1>2, OthersBurnNothing, OthersStartNoBurning
    <2>2. Cardinality(Burning') <= G /\ Cardinality(Burning') \in Nat
          /\ IsFiniteSet(Burning')
      BY <1>0, <2>1, FS_Subset, FS_CardinalityType
    <2>3. CASE Burnt' = Burnt
      BY <1>0, <2>1, <2>2, <2>3 DEF AnswersSuffice
    <2>4. ASSUME NEW b \in Tabs, BurnLink(b), Burnt' # Burnt
          PROVE  AnswersSuffice'
      <3> DEFINE l == tab[b].link
      <3>1. b \in Burning /\ Burning' = Burning \ {b}
        BY <2>4, GotoNotBurning DEF BurnLink, AfterBurn, Burning
      <3>2. link' = [link EXCEPT ![l] = "used"]
        BY <2>4 DEF BurnLink, Burnt
      <3>3. Burnt' \subseteq Burnt \cup {l}
        BY <3>2 DEF Burnt, IInv, Typed, TypeOK
      <3> HIDE DEF l
      <3>4. IsFiniteSet(Burnt \cup {l}) /\ Cardinality(Burnt \cup {l}) <= B + 1
        <4>1. /\ IsFiniteSet(Burnt \cup {l})
              /\ Cardinality(Burnt \cup {l}) = IF l \in Burnt THEN B ELSE B + 1
          BY <1>0, FS_AddElement
        <4> QED  BY <1>0, <4>1
      <3>5. IsFiniteSet(Burnt') /\ Cardinality(Burnt') <= Cardinality(Burnt \cup {l})
            /\ Cardinality(Burnt') \in Nat /\ Cardinality(Burnt \cup {l}) \in Nat
        BY <3>3, <3>4, FS_Subset, FS_CardinalityType
      <3>6. Cardinality(Burning') = G - 1
        BY <1>0, <3>1, FS_RemoveElement
      <3> QED  BY <1>0, <2>1, <2>2, <3>4, <3>5, <3>6 DEF AnswersSuffice
    <2> QED  BY <2>3, <2>4, OthersBurnNothing
  <1> QED  BY <1>1, <1>2

\* Every link that is burnt has an answer to a challenge of a registration
\* behind it, one answer each.
THEOREM LinkNeedsAnswerCorrect == Spec => []LinkNeedsAnswer
  <1>1. Init => AnswersSuffice
    <2> SUFFICES ASSUME Init PROVE AnswersSuffice
      OBVIOUS
    <2>1. Burnt = {} /\ Answered = {} /\ Burning = {}
      BY NoTabType DEF Init, Burnt, Answered, Burning
    <2> QED  BY <2>1, FS_EmptySet DEF AnswersSuffice
  <1>2. AnswersSuffice => LinkNeedsAnswer
    BY FS_CardinalityType DEF AnswersSuffice, LinkNeedsAnswer
  <1> QED  BY <1>1, <1>2, InitIInv, NextIInv, AnswersSufficeStep, PTL DEF Spec
=============================================================================

-------------------------------- MODULE Auth --------------------------------
(***************************************************************************)
(* Entry to the dashboard by passkey: set-up links, registration, login,   *)
(* sessions and their clean-up (src/app/web/auth.py, challenges.py,        *)
(* sessions.py, setup_tokens.py, maintenance.py), with the operator's      *)
(* browser, in which several tabs share one cookie jar.                    *)
(*                                                                         *)
(* A ceremony is two requests: the first hands out a challenge, the second *)
(* brings it back signed.  Every SQL statement is a step; between two of   *)
(* them other requests run, time passes, or the ceremony is given up (the  *)
(* tab is closed, the process ends).  A request refused at its first       *)
(* statement changes nothing and is no step.                               *)
(*                                                                         *)
(* Abstractions: hashes, names of keys and user agents are left out; what  *)
(* the webauthn library verifies is that the challenge is the one expected *)
(* and that the counter of the authenticator has grown (modelled from how  *)
(* auth.py uses it); a key belongs to the device that made it.             *)
(***************************************************************************)
EXTENDS Naturals, FiniteSets

CONSTANTS
    Links,       \* tokens of setup_tokens
    Challenges,  \* ids of webauthn_challenges
    Keys,        \* passkeys that devices can make
    Counting,    \* those whose authenticator counts signatures
    Sessions,    \* ids of sessions
    Tabs,        \* ceremonies that can run at one time
    Null,        \* SQL NULL, a missing cookie
    MaxCount     \* bound: signatures of one authenticator

Purpose == {"register", "login"}

\* A key's row: sign_count, and the link it was registered with.
Credential == [count : Nat, link : Links]

ASSUME CountingAssumption == Counting \subseteq Keys
ASSUME BoundAssumption == MaxCount \in Nat
ASSUME NullAssumption ==
    Null \notin Links \cup Challenges \cup Keys \cup Sessions \cup Purpose
                 \cup Credential \cup Nat

VARIABLES
    link,        \* table setup_tokens
    challenge,   \* table webauthn_challenges
    credential,  \* table admin_credentials
    session,     \* table sessions: the key that opened it; Null: no such row
    expired,     \* the fresh links and challenges, and the sessions, that are too old
    tab,         \* the ceremonies that are running
    cookie,      \* the challenge cookie of the browser
    signed,      \* signatures each authenticator has made; Null: no such key yet
    opened       \* sessions each challenge has opened

tables == <<link, challenge, credential, session>>
vars == <<link, challenge, credential, session, expired, tab, cookie, signed, opened>>

\* used_at is NULL in a fresh row; "gone" is a row that was deleted.
RowStatus == {"none", "fresh", "used", "gone"}

Label == {"free", "issue", "offered", "asked", "consume", "burn", "insert",
          "find", "count", "open"}

(***************************************************************************)
(* What a ceremony remembers: its purpose, the link of the page, the       *)
(* challenge in the options it got, the challenge cookie it sent, its key, *)
(* and the counter in the signature.                                       *)
(***************************************************************************)
Tab == [at : Label, purpose : Purpose \cup {Null}, link : Links \cup {Null},
        challenge : Challenges \cup {Null}, sent : Challenges \cup {Null},
        key : Keys \cup {Null}, count : Nat]

NoTab == [at |-> "free", purpose |-> Null, link |-> Null, challenge |-> Null,
          sent |-> Null, key |-> Null, count |-> 0]

TypeOK ==
    /\ link \in [Links -> RowStatus]
    /\ challenge \in [Challenges -> [status : RowStatus, purpose : Purpose \cup {Null}]]
    /\ credential \in [Keys -> Credential \cup {Null}]
    /\ session \in [Sessions -> Keys \cup {Null}]
    /\ expired \subseteq Links \cup Challenges \cup Sessions
    /\ tab \in [Tabs -> Tab]
    /\ cookie \in Challenges \cup {Null}
    /\ signed \in [Keys -> 0..MaxCount \cup {Null}]
    /\ opened \in [Challenges -> Nat]

Init ==
    /\ link = [l \in Links |-> "none"]
    /\ challenge = [c \in Challenges |-> [status |-> "none", purpose |-> Null]]
    /\ credential = [k \in Keys |-> Null]
    /\ session = [s \in Sessions |-> Null]
    /\ expired = {}
    /\ tab = [b \in Tabs |-> NoTab]
    /\ cookie = Null
    /\ signed = [k \in Keys |-> Null]
    /\ opened = [c \in Challenges |-> 0]

-----------------------------------------------------------------------------
Registered == {k \in Keys : credential[k] # Null}

\* Seeded bugs: the condition used_at IS NULL is left out; the purpose is.
UsableAgain(l) == link[l] \in {"fresh", "used"} /\ l \notin expired
OutstandingAgain(c, purpose) ==
    c # Null /\ challenge[c] \in [status : {"fresh", "used"}, purpose : {purpose}]
OutstandingForAny(c, purpose) ==
    c # Null /\ challenge[c].status = "fresh" /\ c \notin expired

\* The WHERE clauses of the two functions consume, and of register_options.
Usable(l) == link[l] = "fresh" /\ l \notin expired

Outstanding(c, purpose) ==
    /\ c # Null
    /\ challenge[c] = [status |-> "fresh", purpose |-> purpose]
    /\ c \notin expired

Start(b, locals) == tab[b].at = "free" /\ tab' = [tab EXCEPT ![b] = locals]
Goto(b, label) == tab' = [tab EXCEPT ![b].at = label]
End(b) == tab' = [tab EXCEPT ![b] = NoTab]

-----------------------------------------------------------------------------
(* Both ceremonies: the options.                                           *)

\* _send_setup_link: the bot writes a link to the owner.
SendSetupLink(l) ==
    /\ link[l] = "none"
    /\ link' = [link EXCEPT ![l] = "fresh"]
    /\ UNCHANGED <<challenge, credential, session, expired, tab, cookie, signed, opened>>

\* register_options looks at the link and leaves it alone.
RegisterOptions(b, l) ==
    /\ Usable(l)
    /\ Start(b, [NoTab EXCEPT !.at = "issue", !.purpose = "register", !.link = l])
    /\ UNCHANGED <<tables, expired, cookie, signed, opened>>

\* login_options lists the keys; the user will pick one of them.
LoginOptions(b, k) ==
    /\ k \in Registered
    /\ Start(b, [NoTab EXCEPT !.at = "issue", !.purpose = "login", !.key = k])
    /\ UNCHANGED <<tables, expired, cookie, signed, opened>>

IssueChallenge(b) ==
    /\ tab[b].at = "issue"
    /\ \E c \in Challenges :
         /\ challenge[c].status = "none"
         /\ challenge' = [challenge EXCEPT
                            ![c] = [status |-> "fresh", purpose |-> tab[b].purpose]]
         /\ tab' = [tab EXCEPT ![b].challenge = c, ![b].at = "offered"]
    /\ UNCHANGED <<link, credential, session, expired, cookie, signed, opened>>

\* The answer arrives and replaces the cookie of the whole browser.
ReceiveOptions(b) ==
    /\ tab[b].at = "offered"
    /\ cookie' = tab[b].challenge
    /\ Goto(b, "asked")
    /\ UNCHANGED <<tables, expired, signed, opened>>

\* navigator.credentials.create: a new key, counted from 0.
CreateKey(b) ==
    /\ tab[b].at = "asked"
    /\ tab[b].purpose = "register"
    /\ \E k \in Keys :
         /\ signed[k] = Null
         /\ signed' = [signed EXCEPT ![k] = 0]
         /\ tab' = [tab EXCEPT ![b].key = k, ![b].sent = cookie, ![b].at = "consume"]
    /\ UNCHANGED <<tables, expired, cookie, opened>>

\* navigator.credentials.get: a signature, counted if the authenticator counts.
SignChallenge(b) ==
    /\ tab[b].at = "asked"
    /\ tab[b].purpose = "login"
    /\ LET k == tab[b].key
           n == IF k \in Counting THEN signed[k] + 1 ELSE 0
       IN  /\ n <= MaxCount
           /\ signed' = [signed EXCEPT ![k] = n]
           /\ tab' = [tab EXCEPT ![b].count = n, ![b].sent = cookie, ![b].at = "consume"]
    /\ UNCHANGED <<tables, expired, cookie, opened>>

\* The network delivers an answer a second time.
Repeat(a, b) ==
    /\ tab[a].at = "consume"
    /\ Start(b, tab[a])
    /\ UNCHANGED <<tables, expired, cookie, signed, opened>>

-----------------------------------------------------------------------------
(* register_verify and login_verify.                                       *)

ConsumeChallenge(b) ==
    LET c == tab[b].sent
    IN  /\ tab[b].at = "consume"
        /\ \/ /\ Outstanding(c, tab[b].purpose)
              /\ challenge' = [challenge EXCEPT ![c].status = "used"]
              /\ \/ tab[b].purpose = "register" /\ Goto(b, "burn")
                 \/ tab[b].purpose = "login" /\ Goto(b, "find")
           \/ /\ ~Outstanding(c, tab[b].purpose)
              /\ End(b)
              /\ UNCHANGED challenge
        /\ UNCHANGED <<link, credential, session, expired, cookie, signed, opened>>

\* What the library checks of the challenge: the cookie may be another tab's.
ChallengeMatches(b) == tab[b].challenge = tab[b].sent

\* Seeded bug: the session is opened before the key is stored.
AfterBurnOpen == "open"
AfterBurn == "insert"

\* The link is burnt before the key is looked at.
BurnLink(b) ==
    LET l == tab[b].link
    IN  /\ tab[b].at = "burn"
        /\ \/ /\ Usable(l)
              /\ link' = [link EXCEPT ![l] = "used"]
              /\ \/ ChallengeMatches(b) /\ Goto(b, AfterBurn)
                 \/ ~ChallengeMatches(b) /\ End(b)
           \/ /\ ~Usable(l)
              /\ End(b)
              /\ UNCHANGED link
        /\ UNCHANGED <<challenge, credential, session, expired, cookie, signed, opened>>

InsertCredential(b) ==
    /\ tab[b].at = "insert"
    /\ credential' = [credential EXCEPT
                        ![tab[b].key] = [count |-> 0, link |-> tab[b].link]]
    /\ Goto(b, "open")
    /\ UNCHANGED <<link, challenge, session, expired, cookie, signed, opened>>

\* The library wants a counter that has grown, unless none counts.
CounterGrown(stored, count) == count > stored \/ (count = 0 /\ stored = 0)

\* _find_credential and the verification against the row it read.
FindCredential(b) ==
    /\ tab[b].at = "find"
    /\ \/ /\ ChallengeMatches(b)
          /\ CounterGrown(credential[tab[b].key].count, tab[b].count)
          /\ Goto(b, "count")
       \/ /\ ~(ChallengeMatches(b)
               /\ CounterGrown(credential[tab[b].key].count, tab[b].count))
          /\ End(b)
    /\ UNCHANGED <<tables, expired, cookie, signed, opened>>

\* Seeded bug: the counter is written as NULL.
StoredCountUnset(k, n) == [credential[k] EXCEPT !.count = Null]
StoredCount(k, n) == [credential[k] EXCEPT !.count = n]

UpdateSignCount(b) ==
    /\ tab[b].at = "count"
    /\ credential' = [credential EXCEPT
                        ![tab[b].key] = StoredCount(tab[b].key, tab[b].count)]
    /\ Goto(b, "open")
    /\ UNCHANGED <<link, challenge, session, expired, cookie, signed, opened>>

\* The answer, if it is not lost, sets the session and deletes the challenge cookie.
OpenSession(b) ==
    /\ tab[b].at = "open"
    /\ \E s \in Sessions :
         /\ session[s] = Null
         /\ session' = [session EXCEPT ![s] = tab[b].key]
    /\ opened' = [opened EXCEPT ![tab[b].sent] = @ + 1]
    /\ cookie' \in {cookie, Null}
    /\ End(b)
    /\ UNCHANGED <<link, challenge, credential, expired, signed>>

\* The tab is closed, the request or the answer is lost, the process ends.
GiveUp(b) ==
    /\ tab[b].at # "free"
    /\ End(b)
    /\ UNCHANGED <<tables, expired, cookie, signed, opened>>

-----------------------------------------------------------------------------
(* Sessions end, time passes, rows are swept.                              *)

Logout(s) ==
    /\ session[s] # Null
    /\ session' = [session EXCEPT ![s] = Null]
    /\ expired' = expired \ {s}
    /\ UNCHANGED <<link, challenge, credential, tab, cookie, signed, opened>>

\* The time-to-live of a row runs out (that of a used row is never read).
Expire ==
    /\ \/ \E l \in Links \ expired : link[l] = "fresh" /\ expired' = expired \cup {l}
       \/ \E c \in Challenges \ expired :
            challenge[c].status = "fresh" /\ expired' = expired \cup {c}
       \/ \E s \in Sessions \ expired : session[s] # Null /\ expired' = expired \cup {s}
    /\ UNCHANGED <<tables, tab, cookie, signed, opened>>

\* The statements of run_housekeeping work on a table each and a failure skips
\* some: they are steps of their own.  Used links and challenges stay for ever.
Purged(status, id) == IF status = "fresh" /\ id \in expired THEN "gone" ELSE status

PurgeTokens ==
    /\ link' = [l \in Links |-> Purged(link[l], l)]
    /\ expired' = expired \ Links
    /\ UNCHANGED <<challenge, credential, session, tab, cookie, signed, opened>>

PurgeSessions ==
    /\ session' = [s \in Sessions |->
                     IF s \in expired THEN Null ELSE session[s]]
    /\ expired' = expired \ Sessions
    /\ UNCHANGED <<link, challenge, credential, tab, cookie, signed, opened>>

PurgeChallenges ==
    /\ challenge' = [c \in Challenges |->
                       [challenge[c] EXCEPT !.status = Purged(@, c)]]
    /\ expired' = expired \ Challenges
    /\ UNCHANGED <<link, credential, session, tab, cookie, signed, opened>>

Options(b) ==
    \/ \E l \in Links : RegisterOptions(b, l)
    \/ \E k \in Keys : LoginOptions(b, k)
    \/ IssueChallenge(b)

Browser(b) ==
    \/ ReceiveOptions(b) \/ CreateKey(b) \/ SignChallenge(b)
    \/ \E a \in Tabs : Repeat(a, b)

Verify(b) ==
    \/ ConsumeChallenge(b) \/ BurnLink(b) \/ InsertCredential(b)
    \/ FindCredential(b) \/ UpdateSignCount(b) \/ OpenSession(b)

Housekeeping == PurgeTokens \/ PurgeSessions \/ PurgeChallenges

Next ==
    \/ \E l \in Links : SendSetupLink(l)
    \/ \E b \in Tabs : Options(b) \/ Browser(b) \/ Verify(b) \/ GiveUp(b)
    \/ \E s \in Sessions : Logout(s)
    \/ Expire
    \/ Housekeeping

Spec == Init /\ [][Next]_vars

-----------------------------------------------------------------------------
(* Properties.                                                             *)

\* A set-up link registers at most one key, also when two tabs answer with it
\* at one time and when it expires in between.
OneKeyPerLink ==
    \A j, k \in Registered : credential[j].link = credential[k].link => j = k

\* A challenge opens at most one session, also when its answer arrives twice.
OneSessionPerChallenge == \A c \in Challenges : opened[c] <= 1

\* A session is opened only once its key is stored: whoever gets in by a link
\* can get in again without it, wherever the registration ends.
SessionHasKey == \A s \in Sessions : session[s] # Null => session[s] \in Registered

\* A link is burnt only by an answer to a challenge of a registration: what is
\* given up in the browser costs no link (the comment in register_options).
Burnt == {l \in Links : link[l] = "used"}
Answered ==
    {c \in Challenges : challenge[c] = [status |-> "used", purpose |-> "register"]}

LinkNeedsAnswer == Cardinality(Burnt) <= Cardinality(Answered)

-----------------------------------------------------------------------------
(* Why they hold: the inductive invariant.                                 *)

\* The labels at which a ceremony has consumed its challenge, and its link.
HasChallenge == {"burn", "insert", "find", "count", "open"}
HasLink(b) ==
    tab[b].at = "insert" \/ (tab[b].at = "open" /\ tab[b].purpose = "register")

\* A consumed challenge belongs to one ceremony and has opened no session yet.
ChallengesAreHeldOnce ==
    /\ \A b \in Tabs : tab[b].at \in HasChallenge =>
          /\ tab[b].sent \in Challenges
          /\ challenge[tab[b].sent] = [status |-> "used", purpose |-> tab[b].purpose]
          /\ opened[tab[b].sent] = 0
    /\ \A a, b \in Tabs :
          /\ tab[a].at \in HasChallenge /\ tab[b].at \in HasChallenge
          /\ tab[a].sent = tab[b].sent
          => a = b
    /\ \A c \in Challenges : opened[c] # 0 => challenge[c].status = "used"

\* A burnt link belongs to one ceremony or to the key it has registered.
LinksAreHeldOnce ==
    /\ \A b \in Tabs : HasLink(b) => tab[b].link \in Links /\ link[tab[b].link] = "used"
    /\ \A a, b \in Tabs : HasLink(a) /\ HasLink(b) /\ tab[a].link = tab[b].link => a = b
    /\ \A k \in Registered : link[credential[k].link] = "used"
    /\ \A b \in Tabs : tab[b].at = "insert" =>
          \A k \in Registered : credential[k].link # tab[b].link

\* A key that is new, and the labels of a registration that brings it.
New(k) == k \in Keys \ Registered
Brings(b) == tab[b].purpose = "register" /\ tab[b].at \in {"consume", "burn", "insert"}

\* A login has a stored key; a new key comes with one challenge, and once it is
\* stored no answer that brings it can be accepted.
KeysAreHeld ==
    /\ \A b \in Tabs : tab[b].purpose = "login" \/ tab[b].at = "open" =>
          tab[b].key \in Registered
    /\ \A k \in Registered : signed[k] # Null
    /\ \A b \in Tabs : Brings(b) =>
          /\ tab[b].key \in Keys /\ signed[tab[b].key] # Null
          /\ New(tab[b].key) \/ (/\ tab[b].at = "consume"
                                 /\ tab[b].sent \in Challenges
                                 /\ challenge[tab[b].sent].status = "used")
    /\ \A a, b \in Tabs : Brings(a) /\ Brings(b) /\ tab[a].key = tab[b].key =>
          tab[a].sent = tab[b].sent

Inv ==
    /\ ChallengesAreHeldOnce /\ LinksAreHeldOnce /\ KeysAreHeld
    /\ OneKeyPerLink /\ OneSessionPerChallenge /\ SessionHasKey

\* Why a link needs an answer: the registrations that are about to burn one have
\* an answer each that burns no other.
Burning == {b \in Tabs : tab[b].at = "burn"}

AnswersSuffice ==
    /\ IsFiniteSet(Burnt) /\ IsFiniteSet(Answered) /\ IsFiniteSet(Burning)
    /\ Cardinality(Burnt) + Cardinality(Burning) <= Cardinality(Answered)
=============================================================================

---------------------------- MODULE ContentLocks ----------------------------
(***************************************************************************)
(* The pessimistic edit lock of the admin editor on the SQLite backend.    *)
(*                                                                         *)
(* Server: sqlite-runtime/locks.ts.  acquireLock runs in one BEGIN         *)
(* IMMEDIATE transaction and refreshLock and releaseLock are one statement *)
(* each, so every request is one atomic step on content_locks.             *)
(*                                                                         *)
(* Client: the <ap-lock-indicator> element.  It posts an acquire when it   *)
(* is connected, beats on a timer once it was granted a token, and posts a *)
(* release when it is disconnected.  Requests and answers travel in msgs:  *)
(* they are reordered, and lost when the network is not reliable.          *)
(*                                                                         *)
(* Time is relative: a row stores the time it has left and a timer the     *)
(* time to its next beat, so no clock has to be bounded.  `left = 0' is    *)
(* the code's `expires_at <= now'.                                         *)
(***************************************************************************)
EXTENDS Naturals, FiniteSets

CONSTANTS
    Slugs,      \* content slugs
    Users,      \* e-mail addresses of editors
    Tabs,       \* browser tabs, each with one lock indicator
    UserOf,     \* the user signed in to a tab
    Tokens,     \* lock tokens: the random UUIDs
    NoToken,    \* `_lockToken === null', and the token of an absent row
    NoOne,      \* the owner of an absent row
    Nobody,     \* the addressee of a request whose page is gone
    TTL,        \* LOCK_TTL_MINUTES
    Beat,       \* the period of the heartbeat timer
    Latency,    \* the longest a message travels while the network is reliable
    Reliable,   \* TRUE: no message is lost or late, and timers fire on time
    MaxInFlight \* bound: a page is opened only while fewer messages travel

ASSUME ConstantsAssumption ==
    /\ UserOf \in [Tabs -> Users]
    /\ NoToken \notin Tokens
    /\ NoOne \notin Users
    /\ Nobody \notin Tabs
    /\ TTL \in Nat \ {0}
    /\ Beat \in Nat \ {0}
    /\ Latency \in Nat
    /\ Reliable \in BOOLEAN
    /\ MaxInFlight \in Nat

VARIABLES
    locks,      \* the table content_locks: slug -> row
    elem,       \* the lock indicator of each tab
    msgs,       \* requests and answers in flight
    superseded  \* history: tokens replaced by the same user's later acquire

vars == <<locks, elem, msgs, superseded>>

-----------------------------------------------------------------------------
(* Types *)

Row     == [owner : Users \cup {NoOne}, token : Tokens \cup {NoToken}, left : 0..TTL]
NoRow   == [owner |-> NoOne, token |-> NoToken, left |-> 0]

\* beat = Beat + 1 stands for `_heartbeatTimer === null'.
Off     == Beat + 1
Element == [page : {"none", "connected", "removed"}, slug : Slugs,
            token : Tokens \cup {NoToken}, beat : 0..Off]

Requests == {"acquire", "refresh", "release"}
Answers  == {"granted", "conflict"}
Message  == [type : Requests \cup Answers, user : Users, tab : Tabs \cup {Nobody},
             slug : Slugs, token : Tokens \cup {NoToken}, age : 0..Latency]

TypeOK ==
    /\ locks \in [Slugs -> Row]
    /\ elem \in [Tabs -> Element]
    /\ msgs \subseteq Message
    /\ superseded \subseteq Tokens

Msg(type, user, tab, slug, token) ==
    [type |-> type, user |-> user, tab |-> tab, slug |-> slug, token |-> token, age |-> 0]

InUse == {locks[s].token : s \in Slugs} \cup {elem[t].token : t \in Tabs}
            \cup {m.token : m \in msgs}

\* crypto.randomUUID(): a token that nobody knows, no matter which.
NewToken == CHOOSE fresh \in Tokens : fresh \notin InUse

-----------------------------------------------------------------------------
(* Server *)

Live(row) == row.owner # NoOne /\ row.left > 0

\* DELETE FROM content_locks WHERE expires_at <= now
Purged == [s \in Slugs |-> IF Live(locks[s]) THEN locks[s] ELSE NoRow]

\* What the acquiring page, if it is still there, is told.
Answer(m, type, token) ==
    IF m.tab = Nobody THEN {} ELSE {Msg(type, m.user, m.tab, m.slug, token)}

\* acquireLock, another user's row found: the transaction is rolled back, so
\* the expired rows it deleted are back as well.
AcquireConflict(m) ==
    /\ m.type = "acquire"
    /\ Purged[m.slug].owner \notin {NoOne, m.user}
    /\ msgs' = (msgs \ {m}) \cup Answer(m, "conflict", NoToken)
    /\ UNCHANGED <<locks, elem, superseded>>

\* Mutant: the SELECT's answer is not looked at.
AcquireGrant_unchecked(m) ==
    /\ m.type = "acquire"
    /\ \E fresh \in Tokens : fresh \notin InUse
    /\ locks' = [Purged EXCEPT ![m.slug] =
                    [owner |-> m.user, token |-> NewToken, left |-> TTL]]
    /\ msgs' = (msgs \ {m}) \cup Answer(m, "granted", NewToken)
    /\ superseded' = superseded \cap InUse
    /\ UNCHANGED elem

\* Mutant: a user's second acquire is given the token the row has.
AcquireGrant_sameToken(m) ==
    /\ m.type = "acquire"
    /\ Purged[m.slug].owner \in {NoOne, m.user}
    /\ \E fresh \in Tokens : fresh \notin InUse
    /\ LET token == IF Purged[m.slug] = NoRow THEN NewToken ELSE Purged[m.slug].token
       IN /\ locks' = [Purged EXCEPT ![m.slug] =
                          [owner |-> m.user, token |-> token, left |-> TTL]]
          /\ msgs' = (msgs \ {m}) \cup Answer(m, "granted", token)
    /\ UNCHANGED <<elem, superseded>>

\* acquireLock, no row or the user's own: upsert with a token nobody has seen.
AcquireGrant(m) ==
    /\ m.type = "acquire"
    /\ Purged[m.slug].owner \in {NoOne, m.user}
    /\ \E fresh \in Tokens : fresh \notin InUse
    /\ locks' = [Purged EXCEPT ![m.slug] =
                    [owner |-> m.user, token |-> NewToken, left |-> TTL]]
    /\ msgs' = (msgs \ {m}) \cup Answer(m, "granted", NewToken)
    /\ superseded' = (superseded \cup {Purged[m.slug].token}) \cap (InUse \ {NoToken})
    /\ UNCHANGED elem

\* Mutant: WHERE slug = ?, the token is not compared.
Refresh_anyToken(m) ==
    /\ m.type = "refresh"
    /\ locks' = IF locks[m.slug] # NoRow
                  THEN [locks EXCEPT ![m.slug].left = TTL] ELSE locks
    /\ msgs' = msgs \ {m}
    /\ UNCHANGED <<elem, superseded>>

\* refreshLock: WHERE slug = ? AND lock_token = ?.  It looks neither at the
\* expiry nor at who asks, and the client ignores the answer.
Refresh(m) ==
    /\ m.type = "refresh"
    /\ locks' = IF locks[m.slug].token = m.token
                  THEN [locks EXCEPT ![m.slug].left = TTL] ELSE locks
    /\ msgs' = msgs \ {m}
    /\ UNCHANGED <<elem, superseded>>

\* Mutant: the same for the DELETE.
Release_anyToken(m) ==
    /\ m.type = "release"
    /\ locks' = [locks EXCEPT ![m.slug] = NoRow]
    /\ msgs' = msgs \ {m}
    /\ UNCHANGED <<elem, superseded>>

\* releaseLock: DELETE ... WHERE slug = ? AND lock_token = ?
Release(m) ==
    /\ m.type = "release"
    /\ locks' = IF locks[m.slug].token = m.token
                  THEN [locks EXCEPT ![m.slug] = NoRow] ELSE locks
    /\ msgs' = msgs \ {m}
    /\ UNCHANGED <<elem, superseded>>

-----------------------------------------------------------------------------
(* Client: <ap-lock-indicator> *)

\* connectedCallback up to its await: the acquire is posted.
Connect(t, s) ==
    /\ elem[t].page = "none"
    /\ Cardinality(msgs) < MaxInFlight
    /\ elem' = [elem EXCEPT ![t] =
                  [page |-> "connected", slug |-> s, token |-> NoToken, beat |-> Off]]
    /\ msgs' = msgs \cup {Msg("acquire", UserOf[t], t, s, NoToken)}
    /\ UNCHANGED <<locks, superseded>>

\* connectedCallback resumes with ok: the token is kept and the timer started,
\* whether or not the element is still in the document.
ReceiveGrant(m) ==
    /\ m.type = "granted"
    /\ elem' = [elem EXCEPT ![m.tab].token = m.token, ![m.tab].beat = Beat]
    /\ msgs' = msgs \ {m}
    /\ UNCHANGED <<locks, superseded>>

\* connectedCallback resumes with a conflict: only the banner is shown.
ReceiveConflict(m) ==
    /\ m.type = "conflict"
    /\ msgs' = msgs \ {m}
    /\ UNCHANGED <<locks, elem, superseded>>

\* Mutant: setTimeout in place of setInterval.
Heartbeat_once(t) ==
    /\ elem[t].beat = 0
    /\ elem' = [elem EXCEPT ![t].beat = Off]
    /\ msgs' = msgs \cup {Msg("refresh", UserOf[t], t, elem[t].slug, elem[t].token)}
    /\ UNCHANGED <<locks, superseded>>

\* The timer fires: the refresh is posted and the timer runs on.
Heartbeat(t) ==
    /\ elem[t].beat = 0
    /\ elem' = [elem EXCEPT ![t].beat = Beat]
    /\ msgs' = msgs \cup {Msg("refresh", UserOf[t], t, elem[t].slug, elem[t].token)}
    /\ UNCHANGED <<locks, superseded>>

\* disconnectedCallback: the timer is stopped, and a token that was received
\* is released (the field itself is not cleared).
Disconnect(t) ==
    /\ elem[t].page = "connected"
    /\ elem' = [elem EXCEPT ![t].page = "removed", ![t].beat = Off]
    /\ msgs' = IF elem[t].token = NoToken THEN msgs
               ELSE msgs \cup {Msg("release", UserOf[t], t, elem[t].slug, elem[t].token)}
    /\ UNCHANGED <<locks, superseded>>

\* The page goes away without disconnectedCallback (closed, reloaded, crashed):
\* what it posted is still on its way, but nobody waits for the answers.
Unload(t) ==
    /\ elem[t].page # "none"
    /\ elem' = [elem EXCEPT ![t] =
                  [page |-> "none", slug |-> elem[t].slug, token |-> NoToken, beat |-> Off]]
    /\ msgs' = {m \in msgs : m.tab # t}
                  \cup {[m EXCEPT !.tab = Nobody] :
                          m \in {r \in msgs : r.tab = t /\ r.type \in Requests}}
    /\ UNCHANGED <<locks, superseded>>

-----------------------------------------------------------------------------
(* Network and time *)

Lose(m) ==
    /\ ~Reliable
    /\ msgs' = msgs \ {m}
    /\ UNCHANGED <<locks, elem, superseded>>

\* Mutant: time below zero.
Tick_noFloor ==
    /\ Reliable => /\ \A m \in msgs : m.age < Latency
                   /\ \A t \in Tabs : elem[t].beat # 0
    /\ locks' = [s \in Slugs |-> [locks[s] EXCEPT !.left = @ - 1]]
    /\ UNCHANGED <<elem, msgs, superseded>>

\* One unit of time passes.  While the network is reliable no message is older
\* than Latency and no timer that is due is held up.
Tick ==
    /\ Reliable => /\ \A m \in msgs : m.age < Latency
                   /\ \A t \in Tabs : elem[t].beat # 0
    /\ locks' = [s \in Slugs |-> [locks[s] EXCEPT
                    !.left = IF @ = 0 THEN 0 ELSE @ - 1]]
    /\ elem' = [t \in Tabs |-> [elem[t] EXCEPT
                    !.beat = IF @ \in {0, Off} THEN @ ELSE @ - 1]]
    /\ msgs' = {[m EXCEPT !.age = IF @ < Latency THEN @ + 1 ELSE @] : m \in msgs}
    /\ UNCHANGED superseded

Serve(m)   == AcquireConflict(m) \/ AcquireGrant(m) \/ Refresh(m) \/ Release(m)
Receive(m) == ReceiveGrant(m) \/ ReceiveConflict(m)

Init ==
    /\ locks = [s \in Slugs |-> NoRow]
    /\ \E slug \in [Tabs -> Slugs] :
         elem = [t \in Tabs |-> [page |-> "none", slug |-> slug[t],
                                 token |-> NoToken, beat |-> Off]]
    /\ msgs = {}
    /\ superseded = {}

Next ==
    \/ \E m \in msgs : Serve(m) \/ Receive(m) \/ Lose(m)
    \/ \E t \in Tabs : Heartbeat(t) \/ Disconnect(t) \/ Unload(t)
    \/ \E t \in Tabs, s \in Slugs : Connect(t, s)
    \/ Tick

Spec == Init /\ [][Next]_vars

\* Time passes, the server answers, the browser delivers answers and fires
\* timers.  No fairness for what a user does: nobody has to close a page.
Fairness ==
    /\ WF_vars(Tick)
    /\ WF_vars(\E m \in msgs : Serve(m))
    /\ WF_vars(\E m \in msgs : Receive(m))
    /\ \A t \in Tabs : WF_vars(Heartbeat(t))

FairSpec == Spec /\ Fairness

-----------------------------------------------------------------------------
(* Properties *)

\* What the lock promises an editor: while the element is in the page and holds
\* the token it was granted, the row is its own and has not expired, unless the
\* same user took the lock again from elsewhere.  It needs a round trip and the
\* heartbeat period to fit into the time to live (4 minutes against 5).
HeartbeatKeepsLock ==
    \A t \in Tabs :
        /\ elem[t].page = "connected"
        /\ elem[t].token \notin superseded \cup {NoToken}
        => /\ locks[elem[t].slug].token = elem[t].token
           /\ locks[elem[t].slug].owner = UserOf[t]
           /\ Live(locks[elem[t].slug])

\* Two different users never edit the same slug with tokens that both were
\* granted and neither of which was superseded.
ExclusiveEditing ==
    \A t, u \in Tabs :
        /\ elem[t].page = "connected" /\ elem[u].page = "connected"
        /\ elem[t].slug = elem[u].slug
        /\ elem[t].token \notin superseded \cup {NoToken}
        /\ elem[u].token \notin superseded \cup {NoToken}
        => UserOf[t] = UserOf[u]

\* A live lock changes hands only by a request of its owner: releaseLock and
\* refreshLock compare tokens and never the actor, so this rests on a token
\* never being known to, or left over in a late message of, another user.
OnlyOwnerEndsLock ==
    [][\A s \in Slugs :
         /\ Live(locks[s])
         /\ locks'[s].token # locks[s].token
         => \E m \in msgs \ msgs' :
              /\ m.type \in {"acquire", "release"}
              /\ m.slug = s
              /\ m.user = locks[s].owner]_vars

\* A live lock with a token that no page knows and no message carries.
Abandoned(s, k) ==
    /\ locks[s].token = k /\ Live(locks[s])
    /\ \A t \in Tabs : elem[t].token # k
    /\ \A m \in msgs : m.token # k

\* A lock whose holder went away without a release runs out or is replaced, whatever
\* becomes of the messages in flight: nobody will ever know its token again.
AbandonedLockLapses == \A s \in Slugs, k \in Tokens : []<>~Abandoned(s, k)

-----------------------------------------------------------------------------
(* The inductive invariant behind the properties. *)

\* A row is absent or complete.
RowShape ==
    \A s \in Slugs :
        /\ locks[s].owner = NoOne <=> locks[s].token = NoToken
        /\ locks[s].owner = NoOne => locks[s].left = 0

\* An element knows a token only while its page lives, and runs the timer only
\* with a token.
ElementShape ==
    \A t \in Tabs :
        /\ elem[t].page = "none" => elem[t].token = NoToken
        /\ elem[t].token = NoToken => elem[t].beat = Off
        /\ elem[t].page = "connected" /\ elem[t].token # NoToken => elem[t].beat <= Beat

\* What a message in flight says about the page that waits for its answer.
MessageShape ==
    \A m \in msgs :
        /\ m.type \in {"granted", "refresh", "release"} <=> m.token # NoToken
        /\ m.type \in Answers => m.tab # Nobody
        /\ m.tab # Nobody => m.user = UserOf[m.tab] /\ elem[m.tab].page # "none"
        /\ m.tab # Nobody /\ m.type \in {"acquire", "granted"} =>
              /\ elem[m.tab].token = NoToken
              /\ elem[m.tab].slug = m.slug

\* A page waits for one answer, and a token is known to one page.
OneWaits ==
    \A m, n \in msgs :
        /\ m.type \in {"acquire", "granted"} /\ n.type \in {"acquire", "granted"}
        /\ m.tab # Nobody
        => /\ m.tab = n.tab => m = n
           /\ m.type = "granted" /\ m.token = n.token => m = n

OneKnows ==
    \A t, u \in Tabs :
        elem[t].token = elem[u].token /\ elem[t].token # NoToken => t = u

GrantUnknown ==
    \A m \in msgs : m.type = "granted" => \A t \in Tabs : elem[t].token # m.token

\* A release in flight is for a token that no page will use again.
ReleaseIsFinal ==
    \A m \in msgs : m.type = "release" =>
        /\ \A t \in Tabs : elem[t].page = "connected" => elem[t].token # m.token
        /\ \A n \in msgs : n.type = "granted" => n.token # m.token

\* Whoever knows the token of a row is its owner.
TokensAreSecret ==
    \A s \in Slugs : locks[s].token # NoToken =>
        /\ \A m \in msgs : m.token = locks[s].token => m.user = locks[s].owner
        /\ \A t \in Tabs : elem[t].token = locks[s].token => UserOf[t] = locks[s].owner

Knowledge ==
    /\ TypeOK /\ RowShape /\ ElementShape /\ MessageShape
    /\ OneWaits /\ OneKnows /\ GrantUnknown /\ ReleaseIsFinal /\ TokensAreSecret

\* A row with a token and at least so much time left.
Holds(s, token, user, left) ==
    /\ locks[s].token = token
    /\ locks[s].owner = user
    /\ locks[s].left >= left

\* A grant on its way has cost at most its age.
GrantFresh ==
    \A m \in msgs : m.type = "granted" /\ m.token \notin superseded =>
        Holds(m.slug, m.token, m.user, TTL - m.age)

\* Since the last beat a row has lost at most the latency of what renewed it;
\* or the beat is still on its way, and the row has one period less.
BeatKeeps(t) ==
    LET since == Beat - elem[t].beat
    IN \/ Holds(elem[t].slug, elem[t].token, UserOf[t], TTL - (Latency + since))
       \/ /\ Holds(elem[t].slug, elem[t].token, UserOf[t], TTL - (Latency + Beat + since))
          /\ \E m \in msgs :
               /\ m.type = "refresh" /\ m.slug = elem[t].slug
               /\ m.token = elem[t].token /\ m.age = since

Beating ==
    \A t \in Tabs :
        elem[t].page = "connected" /\ elem[t].token \notin superseded \cup {NoToken}
            => BeatKeeps(t)

\* The timing under which the heartbeat keeps the lock: two trips and a period
\* fit into the time to live.
Timing == Reliable /\ 2 * Latency + Beat < TTL /\ Latency < Beat

KeepInv == Knowledge /\ (Timing => GrantFresh /\ Beating)

-----------------------------------------------------------------------------
(* The lease every backend should implement. *)

Lease == INSTANCE EditLease WITH
    lease <- [s \in Slugs |-> IF Live(locks[s])
                                THEN [owner |-> locks[s].owner, left |-> locks[s].left]
                                ELSE [owner |-> NoOne, left |-> 0]]

ImplementsLease == Lease!Spec
=============================================================================

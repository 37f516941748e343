------------------------- MODULE ContentLocks_proofs -------------------------
(***************************************************************************)
(* Theorems about the edit lock: who may end it, that the heartbeat keeps  *)
(* it, and that it implements the lease of EditLease.  Knowledge (who      *)
(* knows which token) is inductive for every network; GrantFresh and       *)
(* Beating account for the time a row has left and need Timing.            *)
(***************************************************************************)
EXTENDS ContentLocks, TLAPS

-----------------------------------------------------------------------------
(* Type correctness *)

\* A message put together from well-typed parts is well typed.
LEMMA MsgType ==
    ASSUME NEW type \in Requests \cup Answers, NEW user \in Users,
           NEW tab \in Tabs \cup {Nobody}, NEW slug \in Slugs,
           NEW token \in Tokens \cup {NoToken}
    PROVE  Msg(type, user, tab, slug, token) \in Message
  BY ConstantsAssumption DEF Msg, Message

\* The empty table and the closed tabs are well typed.
LEMMA TypeInit == Init => TypeOK
  BY ConstantsAssumption
     DEF Init, TypeOK, Row, NoRow, Element, Off, Message

\* The purge keeps live rows and drops the others.
LEMMA PurgedType == TypeOK => Purged \in [Slugs -> Row]
  BY ConstantsAssumption DEF TypeOK, Purged, Row, NoRow

\* crypto.randomUUID returns a token that nobody knows.
LEMMA NewTokenIsFresh ==
    (\E fresh \in Tokens : fresh \notin InUse) => NewToken \in Tokens /\ NewToken \notin InUse
  BY DEF NewToken

\* The answer to an acquire, if there is one, is a message.
LEMMA AnswerType ==
    ASSUME NEW m \in Message, NEW type \in Answers, NEW token \in Tokens \cup {NoToken}
    PROVE  Answer(m, type, token) \subseteq Message
<1>1. m.user \in Users /\ m.tab \in Tabs \cup {Nobody} /\ m.slug \in Slugs
  BY DEF Message
<1>2. Msg(type, m.user, m.tab, m.slug, token) \in Message
  BY <1>1, MsgType
<1> QED
  BY <1>2 DEF Answer

\* Every request, answer, user action and tick keeps the types.
LEMMA TypeStep == TypeOK /\ [Next]_vars => TypeOK'
<1> SUFFICES ASSUME TypeOK, [Next]_vars PROVE TypeOK'
  OBVIOUS
<1>1. ASSUME NEW m \in msgs, AcquireConflict(m) PROVE TypeOK'
  <2>1. Answer(m, "conflict", NoToken) \subseteq Message
    BY AnswerType DEF TypeOK, Answers
  <2> QED
    BY <1>1, <2>1 DEF TypeOK, AcquireConflict
<1>2. ASSUME NEW m \in msgs, AcquireGrant(m) PROVE TypeOK'
  <2>1. NewToken \in Tokens
    BY <1>2, NewTokenIsFresh DEF AcquireGrant
  <2>2. m \in Message
    BY DEF TypeOK
  <2>3. locks' \in [Slugs -> Row]
    <3>1. [owner |-> m.user, token |-> NewToken, left |-> TTL] \in Row
      BY <2>1, <2>2, ConstantsAssumption DEF Row, Message
    <3> QED
      BY <1>2, <3>1, PurgedType DEF AcquireGrant
  <2>4. msgs' \subseteq Message
    <3>1. Answer(m, "granted", NewToken) \subseteq Message
      BY <2>1, <2>2, AnswerType DEF Answers
    <3> QED
      BY <1>2, <3>1 DEF AcquireGrant, TypeOK
  <2>5. superseded' \subseteq Tokens
    BY <1>2 DEF AcquireGrant, TypeOK, InUse, Row, Element, Message
  <2> QED
    BY <1>2, <2>3, <2>4, <2>5 DEF AcquireGrant, TypeOK
<1>3. ASSUME NEW m \in msgs, Refresh(m) PROVE TypeOK'
  <2>1. m.slug \in Slugs
    BY DEF TypeOK, Message
  <2>2. \A r \in Row : [r EXCEPT !.left = TTL] \in Row
    BY ConstantsAssumption DEF Row
  <2> QED
    BY <1>3, <2>1, <2>2 DEF TypeOK, Refresh
<1>4. ASSUME NEW m \in msgs, Release(m) PROVE TypeOK'
  <2>1. NoRow \in Row
    BY ConstantsAssumption DEF Row, NoRow
  <2> QED
    BY <1>4, <2>1 DEF TypeOK, Release
<1>5. ASSUME NEW m \in msgs, ReceiveGrant(m) PROVE TypeOK'
  <2>1. /\ \A e \in Element, k \in Tokens \cup {NoToken} : [e EXCEPT !.token = k] \in Element
        /\ \A e \in Element : [e EXCEPT !.beat = Beat] \in Element
    BY ConstantsAssumption DEF Element, Off
  <2>2. m.token \in Tokens \cup {NoToken}
    BY DEF TypeOK, Message
  <2>3. elem' \in [Tabs -> Element]
    BY <1>5, <2>1, <2>2 DEF TypeOK, ReceiveGrant
  <2> QED
    BY <1>5, <2>3 DEF TypeOK, ReceiveGrant
<1>6. ASSUME NEW m \in msgs, ReceiveConflict(m) \/ Lose(m) PROVE TypeOK'
  BY <1>6 DEF TypeOK, ReceiveConflict, Lose
<1>7. ASSUME NEW t \in Tabs, NEW s \in Slugs, Connect(t, s) PROVE TypeOK'
  <2>1. Msg("acquire", UserOf[t], t, s, NoToken) \in Message
    BY MsgType, ConstantsAssumption DEF Requests
  <2>2. [page |-> "connected", slug |-> s, token |-> NoToken, beat |-> Off] \in Element
    BY ConstantsAssumption DEF Element, Off
  <2> QED
    BY <1>7, <2>1, <2>2 DEF TypeOK, Connect
<1>8. ASSUME NEW t \in Tabs, Heartbeat(t) PROVE TypeOK'
  <2>1. elem[t].slug \in Slugs /\ elem[t].token \in Tokens \cup {NoToken}
    BY DEF TypeOK, Element
  <2>2. Msg("refresh", UserOf[t], t, elem[t].slug, elem[t].token) \in Message
    BY <2>1, MsgType, ConstantsAssumption DEF Requests
  <2>3. \A e \in Element : [e EXCEPT !.beat = Beat] \in Element
    BY ConstantsAssumption DEF Element, Off
  <2> QED
    BY <1>8, <2>2, <2>3 DEF TypeOK, Heartbeat
<1>9. ASSUME NEW t \in Tabs, Disconnect(t) PROVE TypeOK'
  <2>1. elem[t].slug \in Slugs /\ elem[t].token \in Tokens \cup {NoToken}
    BY DEF TypeOK, Element
  <2>2. Msg("release", UserOf[t], t, elem[t].slug, elem[t].token) \in Message
    BY <2>1, MsgType, ConstantsAssumption DEF Requests
  <2>3. /\ \A e \in Element : [e EXCEPT !.page = "removed"] \in Element
        /\ \A e \in Element : [e EXCEPT !.beat = Off] \in Element
    BY ConstantsAssumption DEF Element, Off
  <2> QED
    BY <1>9, <2>2, <2>3 DEF TypeOK, Disconnect
<1>10. ASSUME NEW t \in Tabs, Unload(t) PROVE TypeOK'
  <2>1. [page |-> "none", slug |-> elem[t].slug, token |-> NoToken, beat |-> Off] \in Element
    BY ConstantsAssumption DEF TypeOK, Element, Off
  <2>2. \A m \in Message : [m EXCEPT !.tab = Nobody] \in Message
    BY DEF Message
  <2> QED
    BY <1>10, <2>1, <2>2 DEF TypeOK, Unload
<1>11. ASSUME Tick PROVE TypeOK'
  <2>1. \A r \in Row : [r EXCEPT !.left = IF @ = 0 THEN 0 ELSE @ - 1] \in Row
    BY ConstantsAssumption DEF Row
  <2>2. \A e \in Element :
          [e EXCEPT !.beat = IF @ \in {0, Off} THEN @ ELSE @ - 1] \in Element
    BY ConstantsAssumption DEF Element, Off
  <2>3. \A m \in Message :
          [m EXCEPT !.age = IF @ < Latency THEN @ + 1 ELSE @] \in Message
    BY ConstantsAssumption DEF Message
  <2> QED
    BY <1>11, <2>1, <2>2, <2>3 DEF TypeOK, Tick
<1>12. CASE UNCHANGED vars
  BY <1>12 DEF TypeOK, vars
<1> QED
  BY <1>1, <1>2, <1>3, <1>4, <1>5, <1>6, <1>7, <1>8, <1>9, <1>10, <1>11, <1>12
     DEF Next, Serve, Receive

-----------------------------------------------------------------------------
(* Who knows which token *)

\* At the start nobody knows a token.
LEMMA KnowledgeInit == Init => Knowledge
<1> SUFFICES ASSUME Init PROVE Knowledge
  OBVIOUS
<1>1. TypeOK
  BY TypeInit
<1> QED
  BY <1>1, ConstantsAssumption
     DEF Init, NoRow, Off, Knowledge, RowShape, ElementShape, MessageShape, OneWaits,
         OneKnows, GrantUnknown, ReleaseIsFinal, TokensAreSecret

\* Fewer messages: nothing else has changed.
LEMMA KnowledgeDrop ==
    ASSUME Knowledge, TypeOK', msgs' \subseteq msgs, UNCHANGED <<locks, elem>>
    PROVE  Knowledge'
  BY DEF Knowledge, RowShape, ElementShape, MessageShape, OneWaits, OneKnows,
         GrantUnknown, ReleaseIsFinal, TokensAreSecret

\* An acquire that meets another user's row only posts an answer without a token.
LEMMA KnowledgeConflict ==
    ASSUME Knowledge, TypeOK', NEW m \in msgs, AcquireConflict(m)
    PROVE  Knowledge'
<1>1. \A n \in msgs' :
        \/ n \in msgs
        \/ n.type = "conflict" /\ n.token = NoToken /\ n.tab = m.tab /\ m.tab # Nobody
             /\ n.user = m.user
  BY DEF AcquireConflict, Answer, Msg
<1>2. UNCHANGED <<locks, elem>>
  BY DEF AcquireConflict
<1>3. RowShape' /\ ElementShape' /\ OneKnows'
  BY <1>2 DEF Knowledge, RowShape, ElementShape, OneKnows
<1>4. MessageShape'
  BY <1>1, <1>2 DEF Knowledge, MessageShape, Answers
<1>5. OneWaits' /\ GrantUnknown' /\ ReleaseIsFinal'
  BY <1>1, <1>2 DEF Knowledge, OneWaits, GrantUnknown, ReleaseIsFinal
<1>6. TokensAreSecret'
  BY <1>1, <1>2 DEF Knowledge, TokensAreSecret
<1> QED
  BY <1>3, <1>4, <1>5, <1>6 DEF Knowledge

\* A granted acquire gives a fresh token to the row and to one answer.
LEMMA KnowledgeGrant ==
    ASSUME Knowledge, TypeOK', NEW m \in msgs, AcquireGrant(m)
    PROVE  Knowledge'
<1>1. /\ NewToken \in Tokens /\ NewToken # NoToken
      /\ \A s \in Slugs : locks[s].token # NewToken
      /\ \A t \in Tabs : elem[t].token # NewToken
      /\ \A n \in msgs : n.token # NewToken
  BY NewTokenIsFresh, ConstantsAssumption DEF AcquireGrant, InUse
<1>2. /\ m.type = "acquire" /\ m.user \in Users /\ m.slug \in Slugs
      /\ elem' = elem
  BY DEF AcquireGrant, Knowledge, TypeOK, Message
<1>3. \A n \in msgs' :
        \/ n \in msgs /\ n # m
        \/ /\ n.type = "granted" /\ n.token = NewToken /\ n.tab = m.tab
           /\ m.tab # Nobody /\ n.user = m.user /\ n.slug = m.slug
           /\ n = Msg("granted", m.user, m.tab, m.slug, NewToken)
  BY DEF AcquireGrant, Answer, Msg
<1>4. /\ locks'[m.slug].owner = m.user /\ locks'[m.slug].token = NewToken
      /\ locks'[m.slug].left = TTL
      /\ \A s \in Slugs : s # m.slug => locks'[s] = locks[s] \/ locks'[s] = NoRow
  <2>1. \A s \in Slugs : Purged[s] = locks[s] \/ Purged[s] = NoRow
    BY DEF Purged
  <2>2. m.slug \in DOMAIN Purged
    BY <1>2 DEF Purged
  <2> QED
    BY <1>2, <2>1, <2>2 DEF AcquireGrant, Purged
<1>5. RowShape'
  BY <1>1, <1>2, <1>4, ConstantsAssumption DEF Knowledge, RowShape, NoRow
<1>6. ElementShape' /\ OneKnows'
  BY <1>2 DEF Knowledge, ElementShape, OneKnows
<1>7. MessageShape'
  BY <1>1, <1>2, <1>3 DEF Knowledge, MessageShape, Answers
<1>8. OneWaits'
  BY <1>1, <1>2, <1>3 DEF Knowledge, OneWaits
<1>9. GrantUnknown' /\ ReleaseIsFinal'
  BY <1>1, <1>2, <1>3 DEF Knowledge, GrantUnknown, ReleaseIsFinal
<1>10. TokensAreSecret'
  BY <1>1, <1>2, <1>3, <1>4 DEF Knowledge, TokensAreSecret, NoRow
<1> QED
  BY <1>5, <1>6, <1>7, <1>8, <1>9, <1>10 DEF Knowledge

\* A refresh or a release changes one row, and only its time or its absence.
LEMMA KnowledgeRenewOrEnd ==
    ASSUME Knowledge, TypeOK', NEW m \in msgs, Refresh(m) \/ Release(m)
    PROVE  Knowledge'
<1>1. m.slug \in Slugs /\ m.token # NoToken
  BY DEF Refresh, Release, Knowledge, TypeOK, Message, MessageShape
<1>2. \A s \in Slugs :
        \/ locks'[s] = locks[s]
        \/ locks'[s] = NoRow
        \/ /\ locks[s].token # NoToken
           /\ locks'[s].token = locks[s].token /\ locks'[s].owner = locks[s].owner
  BY <1>1 DEF Refresh, Release, Knowledge, TypeOK, Row
<1>3. elem' = elem /\ msgs' \subseteq msgs
  BY DEF Refresh, Release
<1>4. RowShape'
  BY <1>2 DEF Knowledge, RowShape, NoRow
<1>5. TokensAreSecret'
  BY <1>2, <1>3 DEF Knowledge, TokensAreSecret, NoRow
<1> QED
  BY <1>3, <1>4, <1>5
     DEF Knowledge, ElementShape, MessageShape, OneWaits, OneKnows, GrantUnknown,
         ReleaseIsFinal

\* The token moves from the answer to the page that waited for it.
LEMMA KnowledgeReceiveGrant ==
    ASSUME Knowledge, TypeOK', NEW m \in msgs, ReceiveGrant(m)
    PROVE  Knowledge'
<1>1. /\ m.type = "granted" /\ m.tab \in Tabs /\ m.token # NoToken
      /\ m.user = UserOf[m.tab] /\ elem[m.tab].page # "none"
      /\ elem[m.tab].token = NoToken
  BY DEF ReceiveGrant, Knowledge, TypeOK, Message, MessageShape, Answers
<1>2. /\ elem'[m.tab].token = m.token /\ elem'[m.tab].beat = Beat
      /\ elem'[m.tab].page = elem[m.tab].page /\ elem'[m.tab].slug = elem[m.tab].slug
      /\ \A t \in Tabs : t # m.tab => elem'[t] = elem[t]
  BY <1>1 DEF ReceiveGrant, Knowledge, TypeOK, Element
<1>3. locks' = locks /\ msgs' = msgs \ {m}
  BY DEF ReceiveGrant
<1>4. RowShape' /\ ElementShape'
  BY <1>1, <1>2, <1>3, ConstantsAssumption DEF Knowledge, RowShape, ElementShape
<1>5. \A n \in msgs' : n.tab = m.tab => n.type \notin {"acquire", "granted"}
  BY <1>1, <1>3, ConstantsAssumption DEF Knowledge, OneWaits
<1>6. MessageShape'
  BY <1>1, <1>2, <1>3, <1>5, ConstantsAssumption
     DEF Knowledge, MessageShape, TypeOK, Message
<1>7. OneWaits' /\ OneKnows'
  BY <1>1, <1>2, <1>3 DEF Knowledge, OneWaits, OneKnows, GrantUnknown
<1>8. GrantUnknown'
  BY <1>1, <1>2, <1>3, ConstantsAssumption DEF Knowledge, GrantUnknown, OneWaits
<1>9. ReleaseIsFinal'
  BY <1>1, <1>2, <1>3 DEF Knowledge, ReleaseIsFinal
<1>10. TokensAreSecret'
  BY <1>1, <1>2, <1>3 DEF Knowledge, TokensAreSecret
<1> QED
  BY <1>4, <1>6, <1>7, <1>8, <1>9, <1>10 DEF Knowledge

\* A page that opens knows no token and waits for one answer.
LEMMA KnowledgeConnect ==
    ASSUME Knowledge, TypeOK', NEW t \in Tabs, NEW s \in Slugs, Connect(t, s)
    PROVE  Knowledge'
<1>1. /\ elem'[t] = [page |-> "connected", slug |-> s, token |-> NoToken, beat |-> Off]
      /\ \A u \in Tabs : u # t => elem'[u] = elem[u]
      /\ elem[t].page = "none" /\ t # Nobody
  BY ConstantsAssumption DEF Connect, Knowledge, TypeOK
<1>2. \A n \in msgs' :
        \/ n \in msgs
        \/ n = Msg("acquire", UserOf[t], t, s, NoToken)
  BY DEF Connect
<1>3. \A n \in msgs : n.tab # t
  BY <1>1 DEF Knowledge, MessageShape, TypeOK, Message
<1>4. locks' = locks
  BY DEF Connect
<1>5. RowShape' /\ ElementShape' /\ OneKnows'
  BY <1>1, <1>4 DEF Knowledge, RowShape, ElementShape, OneKnows
<1>6. MessageShape'
  BY <1>1, <1>2, <1>3, ConstantsAssumption
     DEF Knowledge, MessageShape, Msg, Answers, TypeOK, Message
<1>7. OneWaits'
  BY <1>2, <1>3 DEF Knowledge, OneWaits, MessageShape, Msg
<1>8. GrantUnknown'
  BY <1>1, <1>2, <1>3, ConstantsAssumption
     DEF Knowledge, GrantUnknown, MessageShape, Msg
<1>9. ReleaseIsFinal'
  BY <1>1, <1>2 DEF Knowledge, ReleaseIsFinal, MessageShape, Msg
<1>10. TokensAreSecret'
  BY <1>1, <1>2, <1>4 DEF Knowledge, TokensAreSecret, Msg
<1> QED
  BY <1>5, <1>6, <1>7, <1>8, <1>9, <1>10 DEF Knowledge

\* A beat carries the token of the page that posts it.
LEMMA KnowledgeHeartbeat ==
    ASSUME Knowledge, TypeOK', NEW t \in Tabs, Heartbeat(t)
    PROVE  Knowledge'
<1>1. /\ elem[t].beat = 0 /\ elem[t].token # NoToken /\ elem[t].page # "none"
      /\ t # Nobody
  BY ConstantsAssumption DEF Heartbeat, Knowledge, ElementShape, Off
<1>2. /\ \A u \in Tabs : /\ elem'[u].page = elem[u].page
                         /\ elem'[u].slug = elem[u].slug
                         /\ elem'[u].token = elem[u].token
                         /\ u # t => elem'[u].beat = elem[u].beat
      /\ elem'[t].beat = Beat
  BY DEF Heartbeat, Knowledge, TypeOK, Element
<1>3. \A n \in msgs' :
        \/ n \in msgs
        \/ n = Msg("refresh", UserOf[t], t, elem[t].slug, elem[t].token)
  BY DEF Heartbeat
<1>4. locks' = locks
  BY DEF Heartbeat
<1>5. RowShape' /\ ElementShape' /\ OneKnows'
  BY <1>1, <1>2, <1>4, ConstantsAssumption DEF Knowledge, RowShape, ElementShape, OneKnows
<1>6. MessageShape'
  BY <1>1, <1>2, <1>3 DEF Knowledge, MessageShape, Msg, Answers, TypeOK, Message
<1>7. OneWaits' /\ GrantUnknown' /\ ReleaseIsFinal'
  BY <1>2, <1>3 DEF Knowledge, OneWaits, GrantUnknown, ReleaseIsFinal, Msg
<1>8. TokensAreSecret'
  BY <1>2, <1>3, <1>4 DEF Knowledge, TokensAreSecret, Msg
<1> QED
  BY <1>5, <1>6, <1>7, <1>8 DEF Knowledge

\* A release carries the token of an element that has left the page.
LEMMA KnowledgeDisconnect ==
    ASSUME Knowledge, TypeOK', NEW t \in Tabs, Disconnect(t)
    PROVE  Knowledge'
<1>1. /\ \A u \in Tabs : /\ elem'[u].slug = elem[u].slug
                         /\ elem'[u].token = elem[u].token
                         /\ u # t => elem'[u] = elem[u]
      /\ elem'[t].page = "removed" /\ elem'[t].beat = Off
      /\ t # Nobody
  BY ConstantsAssumption DEF Disconnect, Knowledge, TypeOK, Element
<1>2. \A n \in msgs' :
        \/ n \in msgs
        \/ /\ n = Msg("release", UserOf[t], t, elem[t].slug, elem[t].token)
           /\ elem[t].token # NoToken
  BY DEF Disconnect
<1>3. locks' = locks
  BY DEF Disconnect
<1>4. RowShape' /\ ElementShape' /\ OneKnows'
  BY <1>1, <1>3 DEF Knowledge, RowShape, ElementShape, OneKnows
<1>5. MessageShape'
  BY <1>1, <1>2 DEF Knowledge, MessageShape, Msg, Answers, TypeOK, Message
<1>6. OneWaits' /\ GrantUnknown'
  BY <1>1, <1>2 DEF Knowledge, OneWaits, GrantUnknown, Msg
<1>7. ReleaseIsFinal'
  BY <1>1, <1>2 DEF Knowledge, ReleaseIsFinal, GrantUnknown, OneKnows, Msg
<1>8. TokensAreSecret'
  BY <1>1, <1>2, <1>3 DEF Knowledge, TokensAreSecret, Msg
<1> QED
  BY <1>4, <1>5, <1>6, <1>7, <1>8 DEF Knowledge

\* A page that goes away takes its token and its answers with it.
LEMMA KnowledgeUnload ==
    ASSUME Knowledge, TypeOK', NEW t \in Tabs, Unload(t)
    PROVE  Knowledge'
<1>1. /\ elem'[t].page = "none" /\ elem'[t].token = NoToken /\ elem'[t].beat = Off
      /\ \A u \in Tabs : u # t => elem'[u] = elem[u]
      /\ t # Nobody
  BY ConstantsAssumption DEF Unload, Knowledge, TypeOK
\* Every message that is left says what one said before, perhaps to nobody.
<1>2. \A n \in msgs' :
        \/ n \in msgs /\ n.tab # t
        \/ /\ n.tab = Nobody /\ n.type \in Requests
           /\ \E r \in msgs : /\ n.type = r.type /\ n.user = r.user
                              /\ n.slug = r.slug /\ n.token = r.token
  BY DEF Unload, Knowledge, TypeOK, Message
<1>3. locks' = locks
  BY DEF Unload
<1>4. RowShape' /\ ElementShape' /\ OneKnows'
  BY <1>1, <1>3 DEF Knowledge, RowShape, ElementShape, OneKnows
<1>5. MessageShape'
  BY <1>1, <1>2 DEF Knowledge, MessageShape, Requests, Answers, TypeOK, Message
<1>6. OneWaits'
  BY <1>1, <1>2 DEF Knowledge, OneWaits, Requests
<1>7. GrantUnknown'
  BY <1>1, <1>2 DEF Knowledge, GrantUnknown, MessageShape, Requests
<1>8. ReleaseIsFinal'
  BY <1>1, <1>2 DEF Knowledge, ReleaseIsFinal, MessageShape, Requests
<1>9. TokensAreSecret'
  BY <1>1, <1>2, <1>3 DEF Knowledge, TokensAreSecret
<1> QED
  BY <1>4, <1>5, <1>6, <1>7, <1>8, <1>9 DEF Knowledge

\* Time changes neither tokens nor owners.
LEMMA KnowledgeTick ==
    ASSUME Knowledge, TypeOK', Tick
    PROVE  Knowledge'
<1>1. \A t \in Tabs :
        /\ elem'[t].page = elem[t].page /\ elem'[t].slug = elem[t].slug
        /\ elem'[t].token = elem[t].token
        /\ elem[t].beat = Off => elem'[t].beat = Off
        /\ elem[t].beat <= Beat => elem'[t].beat <= Beat
  BY ConstantsAssumption DEF Tick, Knowledge, TypeOK, Element, Off
<1>2. \A s \in Slugs :
        /\ locks'[s].owner = locks[s].owner /\ locks'[s].token = locks[s].token
        /\ locks[s].left = 0 => locks'[s].left = 0
  BY DEF Tick, Knowledge, TypeOK, Row
<1>3. \A n \in msgs' : \E r \in msgs :
        n = [r EXCEPT !.age = IF @ < Latency THEN @ + 1 ELSE @]
  BY DEF Tick
<1>4. \A n \in msgs' : \E r \in msgs :
        /\ n.type = r.type /\ n.user = r.user /\ n.tab = r.tab
        /\ n.slug = r.slug /\ n.token = r.token
  BY <1>3 DEF Knowledge, TypeOK, Message
<1>5. RowShape' /\ ElementShape' /\ OneKnows'
  BY <1>1, <1>2 DEF Knowledge, RowShape, ElementShape, OneKnows
<1>6. MessageShape'
  BY <1>1, <1>4 DEF Knowledge, MessageShape, TypeOK, Message
<1>7. OneWaits'
  <2> SUFFICES ASSUME NEW a \in msgs', NEW b \in msgs',
                      a.type \in {"acquire", "granted"}, b.type \in {"acquire", "granted"},
                      a.tab # Nobody
               PROVE  /\ a.tab = b.tab => a = b
                      /\ a.type = "granted" /\ a.token = b.token => a = b
    BY DEF OneWaits
  <2>1. PICK r \in msgs : a = [r EXCEPT !.age = IF @ < Latency THEN @ + 1 ELSE @]
    BY <1>3
  <2>2. PICK q \in msgs : b = [q EXCEPT !.age = IF @ < Latency THEN @ + 1 ELSE @]
    BY <1>3
  <2>3. /\ a.type = r.type /\ a.tab = r.tab /\ a.token = r.token
        /\ b.type = q.type /\ b.tab = q.tab /\ b.token = q.token
    BY <2>1, <2>2 DEF Knowledge, TypeOK, Message
  <2>4. /\ r.tab = q.tab => r = q
        /\ r.type = "granted" /\ r.token = q.token => r = q
    BY <2>3 DEF Knowledge, OneWaits
  <2> QED
    BY <2>1, <2>2, <2>3, <2>4
<1>8. GrantUnknown' /\ ReleaseIsFinal'
  BY <1>1, <1>4 DEF Knowledge, GrantUnknown, ReleaseIsFinal
<1>9. TokensAreSecret'
  BY <1>1, <1>2, <1>4 DEF Knowledge, TokensAreSecret
<1> QED
  BY <1>5, <1>6, <1>7, <1>8, <1>9 DEF Knowledge

\* Every step preserves who knows which token.
LEMMA KnowledgeStep == Knowledge /\ [Next]_vars => Knowledge'
<1> SUFFICES ASSUME Knowledge, [Next]_vars PROVE Knowledge'
  OBVIOUS
<1>1. TypeOK'
  BY TypeStep DEF Knowledge
<1>2. ASSUME NEW m \in msgs, Serve(m) PROVE Knowledge'
  BY <1>1, <1>2, KnowledgeConflict, KnowledgeGrant, KnowledgeRenewOrEnd DEF Serve
<1>3. ASSUME NEW m \in msgs, Receive(m) \/ Lose(m) PROVE Knowledge'
  <2>1. CASE ReceiveGrant(m)
    BY <1>1, <2>1, KnowledgeReceiveGrant
  <2>2. CASE ReceiveConflict(m) \/ Lose(m)
    BY <1>1, <2>2, KnowledgeDrop DEF ReceiveConflict, Lose
  <2> QED
    BY <1>3, <2>1, <2>2 DEF Receive
<1>4. ASSUME NEW t \in Tabs, Heartbeat(t) \/ Disconnect(t) \/ Unload(t) PROVE Knowledge'
  BY <1>1, <1>4, KnowledgeHeartbeat, KnowledgeDisconnect, KnowledgeUnload
<1>5. ASSUME NEW t \in Tabs, NEW s \in Slugs, Connect(t, s) PROVE Knowledge'
  BY <1>1, <1>5, KnowledgeConnect
<1>6. CASE Tick
  BY <1>1, <1>6, KnowledgeTick
<1>7. CASE UNCHANGED vars
  BY <1>1, <1>7, KnowledgeDrop DEF vars
<1> QED
  BY <1>2, <1>3, <1>4, <1>5, <1>6, <1>7 DEF Next

\* The type invariant and who knows which token, for every network.
THEOREM KnowledgeInvariant == Spec => []Knowledge
  BY KnowledgeInit, KnowledgeStep, PTL DEF Spec

-----------------------------------------------------------------------------
(* Who ends a live lock *)

\* A step that takes a live lock from a token is an acquire or a release that
\* the owner posted for this slug.
LEMMA OwnerEndsStep ==
    ASSUME Knowledge, Knowledge', [Next]_vars, NEW s \in Slugs,
           Live(locks[s]), locks'[s].token # locks[s].token
    PROVE  \E m \in msgs \ msgs' : /\ m.type \in {"acquire", "release"}
                                   /\ m.slug = s
                                   /\ m.user = locks[s].owner
<1>1. ASSUME NEW m \in msgs, AcquireConflict(m) PROVE FALSE
  BY <1>1 DEF AcquireConflict
<1>2. ASSUME NEW m \in msgs, AcquireGrant(m)
      PROVE  m \notin msgs' /\ m.type = "acquire" /\ m.slug = s /\ m.user = locks[s].owner
  <2>1. m.slug \in Slugs
    BY DEF Knowledge, TypeOK, Message
  <2>2. m.slug = s
    BY <1>2, <2>1 DEF AcquireGrant, Purged
  <2>3. m.user = locks[s].owner
    BY <1>2, <2>1, <2>2 DEF AcquireGrant, Purged, Live
  <2>4. m \notin msgs'
    BY <1>2 DEF AcquireGrant, Answer, Msg
  <2> QED
    BY <1>2, <2>2, <2>3, <2>4 DEF AcquireGrant
<1>3. ASSUME NEW m \in msgs, Refresh(m) PROVE FALSE
  <2>1. locks[s].token = locks'[s].token
    BY <1>3 DEF Refresh, Knowledge, TypeOK, Row
  <2> QED
    BY <2>1
<1>4. ASSUME NEW m \in msgs, Release(m)
      PROVE  m \notin msgs' /\ m.type = "release" /\ m.slug = s /\ m.user = locks[s].owner
  <2>1. m.slug = s /\ m.token = locks[s].token /\ m.token # NoToken
    BY <1>4 DEF Release, Knowledge, TypeOK, MessageShape
  <2> QED
    BY <1>4, <2>1 DEF Release, Knowledge, TokensAreSecret
<1>5. ASSUME NEW m \in msgs, Receive(m) \/ Lose(m) PROVE FALSE
  BY <1>5 DEF Receive, ReceiveGrant, ReceiveConflict, Lose
<1>6. ASSUME NEW t \in Tabs, Heartbeat(t) \/ Disconnect(t) \/ Unload(t) PROVE FALSE
  BY <1>6 DEF Heartbeat, Disconnect, Unload
<1>7. ASSUME NEW t \in Tabs, NEW r \in Slugs, Connect(t, r) PROVE FALSE
  BY <1>7 DEF Connect
<1>8. CASE Tick
  <2>1. locks'[s].token = locks[s].token
    BY <1>8 DEF Tick, Knowledge, TypeOK, Row
  <2> QED
    BY <2>1
<1>9. CASE UNCHANGED vars
  BY <1>9 DEF vars
<1> QED
  BY <1>1, <1>2, <1>3, <1>4, <1>5, <1>6, <1>7, <1>8, <1>9 DEF Next, Serve

\* A live lock changes hands only by a request of its owner, whatever is lost,
\* late or reordered.
THEOREM LockEndedByOwner == Spec => OnlyOwnerEndsLock
<1>1. Knowledge /\ Knowledge' /\ [Next]_vars
        => [\A s \in Slugs :
              /\ Live(locks[s])
              /\ locks'[s].token # locks[s].token
              => \E m \in msgs \ msgs' :
                   /\ m.type \in {"acquire", "release"}
                   /\ m.slug = s
                   /\ m.user = locks[s].owner]_vars
  BY OwnerEndsStep
<1> QED
  BY <1>1, KnowledgeInvariant, PTL DEF Spec, OnlyOwnerEndsLock

-----------------------------------------------------------------------------
(* The lease *)

\* No row is no lease.
LEMMA LeaseInit == Init => Lease!Init
  BY DEF Init, Lease!Init, Lease!Free, Live, NoRow

\* Every step is a step of the lease or leaves it as it is.
LEMMA LeaseStep ==
    ASSUME Knowledge, Knowledge', [Next]_vars
    PROVE  [Lease!Next]_([s \in Slugs |-> IF Live(locks[s])
                            THEN [owner |-> locks[s].owner, left |-> locks[s].left]
                            ELSE [owner |-> NoOne, left |-> 0]])
<1> DEFINE lease == [s \in Slugs |-> IF Live(locks[s])
                       THEN [owner |-> locks[s].owner, left |-> locks[s].left]
                       ELSE [owner |-> NoOne, left |-> 0]]
<1>0. /\ lease = [s \in Slugs |-> lease[s]]
      /\ lease' = [s \in Slugs |-> lease'[s]]
  OBVIOUS
<1>1. ASSUME NEW m \in msgs, AcquireGrant(m) PROVE Lease!Take(m.slug, m.user)
  <2>1. m.slug \in Slugs /\ m.user \in Users
    BY DEF Knowledge, TypeOK, Message
  <2>2. lease[m.slug].owner \in {NoOne, m.user}
    BY <1>1, <2>1 DEF AcquireGrant, Purged, NoRow, Live
  <2>3. locks'[m.slug] = [owner |-> m.user, token |-> NewToken, left |-> TTL]
    BY <1>1, <2>1 DEF AcquireGrant, Purged
  <2>4. \A s \in Slugs : s # m.slug => locks'[s] = IF Live(locks[s]) THEN locks[s] ELSE NoRow
    BY <1>1, <2>1 DEF AcquireGrant, Purged
  <2>5. lease' = [lease EXCEPT ![m.slug] = [owner |-> m.user, left |-> TTL]]
    <3>1. Live(locks'[m.slug])
      BY <2>1, <2>3, ConstantsAssumption DEF Live
    <3>2. \A s \in Slugs : s # m.slug => lease'[s] = lease[s]
      BY <2>4 DEF Live, NoRow
    <3>3. lease'[m.slug] = [owner |-> m.user, left |-> TTL]
      BY <2>1, <2>3, <3>1
    <3> HIDE DEF lease
    <3> QED
      BY <1>0, <2>1, <3>2, <3>3
  <2> QED
    BY <2>2, <2>5 DEF Lease!Take
<1>2. ASSUME NEW m \in msgs, Refresh(m)
      PROVE  \/ lease' = lease
             \/ \E u \in Users : Lease!Take(m.slug, u)
  <2>1. m.slug \in Slugs /\ m.token # NoToken
    BY <1>2 DEF Refresh, Knowledge, TypeOK, Message, MessageShape
  <2>2. CASE locks[m.slug].token = m.token
    <3>1. locks[m.slug].owner \in Users
      BY <2>1, <2>2 DEF Knowledge, RowShape, TypeOK, Row
    <3>2. lease' = [lease EXCEPT ![m.slug] = [owner |-> locks[m.slug].owner, left |-> TTL]]
      <4>1. /\ \A s \in Slugs : s # m.slug => locks'[s] = locks[s]
            /\ locks'[m.slug] = [locks[m.slug] EXCEPT !.left = TTL]
        BY <1>2, <2>1, <2>2 DEF Refresh, Knowledge, TypeOK
      <4>2. locks'[m.slug].owner = locks[m.slug].owner /\ locks'[m.slug].left = TTL
        BY <2>1, <4>1 DEF Knowledge, TypeOK, Row
      <4>3. Live(locks'[m.slug])
        BY <3>1, <4>2, ConstantsAssumption DEF Live
      <4>4. lease'[m.slug] = [owner |-> locks[m.slug].owner, left |-> TTL]
        BY <2>1, <4>2, <4>3
      <4>5. \A s \in Slugs : s # m.slug => lease'[s] = lease[s]
        BY <4>1
      <4> HIDE DEF lease
      <4> QED
        BY <1>0, <2>1, <4>4, <4>5
    <3>3. lease[m.slug].owner \in {NoOne, locks[m.slug].owner}
      BY <2>1
    <3> QED
      BY <3>1, <3>2, <3>3 DEF Lease!Take
  <2>3. CASE locks[m.slug].token # m.token
    BY <1>2, <2>3 DEF Refresh
  <2> QED
    BY <2>2, <2>3
<1>3. ASSUME NEW m \in msgs, Release(m) PROVE lease' = lease \/ Lease!GiveUp(m.slug)
  <2>1. m.slug \in Slugs
    BY DEF Knowledge, TypeOK, Message
  <2>2. CASE Live(locks[m.slug]) /\ locks[m.slug].token = m.token
    BY <1>3, <2>1, <2>2 DEF Release, Live, NoRow, Lease!GiveUp, Lease!Free, Knowledge, TypeOK
  <2>3. CASE ~Live(locks[m.slug]) \/ locks[m.slug].token # m.token
    BY <1>3, <2>1, <2>3 DEF Release, Live, NoRow, Knowledge, TypeOK
  <2> QED
    BY <2>2, <2>3
<1>4. CASE Tick
  <2>1. \A s \in Slugs : /\ locks'[s].owner = locks[s].owner
                         /\ locks[s].left \in Nat
                         /\ locks'[s].left = IF locks[s].left = 0 THEN 0 ELSE locks[s].left - 1
    BY <1>4, ConstantsAssumption DEF Tick, Knowledge, TypeOK, Row
  <2>2. \A s \in Slugs : lease'[s] = IF lease[s].left <= 1 THEN Lease!Free
                                     ELSE [lease[s] EXCEPT !.left = @ - 1]
    BY <2>1 DEF Live, Lease!Free
  <2>3. lease' = [s \in Slugs |-> IF lease[s].left <= 1 THEN Lease!Free
                                  ELSE [lease[s] EXCEPT !.left = @ - 1]]
    BY <2>2
  <2> QED
    BY <2>3 DEF Lease!Next, Lease!Pass
<1>5. ASSUME locks' = locks PROVE lease' = lease
  BY <1>5
<1>6. CASE /\ \A m \in msgs : ~AcquireGrant(m) /\ ~Refresh(m) /\ ~Release(m)
           /\ ~Tick
  <2>1. locks' = locks
    BY <1>6 DEF Next, vars, Serve, Receive, AcquireConflict, ReceiveGrant, ReceiveConflict,
                Lose, Heartbeat, Disconnect, Unload, Connect
  <2> QED
    BY <1>5, <2>1
<1>7. \A m \in msgs : m.slug \in Slugs /\ m.user \in Users
  BY DEF Knowledge, TypeOK, Message
<1>8. Lease!Next \/ lease' = lease
  BY <1>1, <1>2, <1>3, <1>4, <1>6, <1>7 DEF Lease!Next
<1> QED
  BY <1>8

\* The SQLite lock with its clients implements the abstract lease: nobody takes
\* a running lease from another user, and time alone ends one after TTL.
THEOREM LocksImplementLease == Spec => ImplementsLease
<1>1. Knowledge /\ Knowledge' /\ [Next]_vars
        => [Lease!Next]_([s \in Slugs |-> IF Live(locks[s])
                           THEN [owner |-> locks[s].owner, left |-> locks[s].left]
                           ELSE [owner |-> NoOne, left |-> 0]])
  BY LeaseStep
<1> QED
  BY <1>1, LeaseInit, KnowledgeInvariant, PTL DEF Spec, ImplementsLease, Lease!Spec

-----------------------------------------------------------------------------
(* The heartbeat keeps the lock *)

KeepTime == GrantFresh /\ Beating

\* At the start no element beats and no grant is on its way.
LEMMA KeepInit == Init => KeepTime
  BY DEF Init, KeepTime, GrantFresh, Beating

\* A row that is held with time left is live.
\* Under Timing an element that beats has its row, with time left.
LEMMA BeatingIsLive ==
    ASSUME Knowledge, Timing, Beating, NEW t \in Tabs,
           elem[t].page = "connected", elem[t].token \notin superseded \cup {NoToken}
    PROVE  /\ locks[elem[t].slug].token = elem[t].token
           /\ locks[elem[t].slug].owner = UserOf[t]
           /\ Live(locks[elem[t].slug])
<1>1. BeatKeeps(t)
  BY DEF Beating
<1>2. /\ elem[t].beat \in 0..Beat /\ elem[t].slug \in Slugs
      /\ \A m \in msgs : m.age \in 0..Latency
  BY ConstantsAssumption DEF Knowledge, ElementShape, TypeOK, Element, Message
<1>3. locks[elem[t].slug].left \in Nat
  BY <1>2, ConstantsAssumption DEF Knowledge, TypeOK, Row
<1>4. locks[elem[t].slug].left > 0
  BY <1>1, <1>2, <1>3, ConstantsAssumption DEF BeatKeeps, Holds, Timing
<1>5. locks[elem[t].slug].token = elem[t].token /\ locks[elem[t].slug].owner = UserOf[t]
  BY <1>1 DEF BeatKeeps, Holds
<1> QED
  BY <1>4, <1>5, ConstantsAssumption DEF Live

\* Under Timing a grant on its way has its row, with time left.
LEMMA GrantIsLive ==
    ASSUME Knowledge, Timing, GrantFresh, NEW m \in msgs,
           m.type = "granted", m.token \notin superseded
    PROVE  /\ locks[m.slug].token = m.token
           /\ Live(locks[m.slug])
<1>1. Holds(m.slug, m.token, m.user, TTL - m.age)
  BY DEF GrantFresh
<1>2. m \in Message /\ m.age \in 0..Latency /\ m.user \in Users /\ m.slug \in Slugs
  BY DEF Knowledge, TypeOK, Message
<1>3. locks[m.slug].left \in Nat
  BY <1>2, ConstantsAssumption DEF Knowledge, TypeOK, Row
<1> QED
  BY <1>1, <1>2, <1>3, ConstantsAssumption DEF Holds, Live, Timing

\* An element keeps what it has if its row and the beat on its way are kept.
LEMMA BeatKept ==
    ASSUME NEW t \in Tabs, BeatKeeps(t), elem'[t] = elem[t],
           locks'[elem[t].slug] = locks[elem[t].slug],
           \A m \in msgs : m.type = "refresh" /\ m.token = elem[t].token =>
             \E n \in msgs' : /\ n.type = "refresh" /\ n.slug = m.slug
                              /\ n.token = m.token /\ n.age = m.age
    PROVE  BeatKeeps(t)'
  BY DEF BeatKeeps, Holds

\* The same for a step that leaves the table and the history alone.
LEMMA KeepClient ==
    ASSUME Knowledge, KeepTime, UNCHANGED <<locks, superseded>>,
           \A m \in msgs' : m.type = "granted" => m \in msgs,
           \A t \in Tabs :
             elem'[t].page = "connected" /\ elem'[t].token # NoToken => elem'[t] = elem[t],
           \A m \in msgs : m.type = "refresh" =>
             \E n \in msgs' : /\ n.type = "refresh" /\ n.slug = m.slug
                              /\ n.token = m.token /\ n.age = m.age
    PROVE  KeepTime'
<1>1. GrantFresh'
  BY DEF KeepTime, GrantFresh, Holds
<1>2. Beating'
  <2> SUFFICES ASSUME NEW t \in Tabs, elem'[t].page = "connected",
                      elem'[t].token \notin superseded \cup {NoToken}
               PROVE  BeatKeeps(t)'
    BY DEF Beating
  <2>1. BeatKeeps(t) /\ elem'[t] = elem[t]
    BY DEF KeepTime, Beating
  <2> QED
    BY <2>1, BeatKept
<1> QED
  BY <1>1, <1>2 DEF KeepTime

\* A grant starts with the whole time to live and disturbs no other user's row.
LEMMA KeepGrant ==
    ASSUME Knowledge, KeepTime, Timing, NEW m \in msgs, AcquireGrant(m)
    PROVE  KeepTime'
<1>1. /\ m.slug \in Slugs /\ m.user \in Users /\ m.type = "acquire"
      /\ elem' = elem
      /\ NewToken \notin InUse
  BY NewTokenIsFresh DEF AcquireGrant, Knowledge, TypeOK, Message
<1>2. /\ locks'[m.slug] = [owner |-> m.user, token |-> NewToken, left |-> TTL]
      /\ \A s \in Slugs : s # m.slug /\ Live(locks[s]) => locks'[s] = locks[s]
      /\ Live(locks[m.slug]) => Purged[m.slug] = locks[m.slug]
  BY <1>1 DEF AcquireGrant, Purged
\* A token in use that is not superseded now was not before, and is not the one
\* that this step replaces.
<1>3. ASSUME NEW k \in InUse, k # NoToken, k \notin superseded'
      PROVE  k \notin superseded /\ k # Purged[m.slug].token
  BY <1>3 DEF AcquireGrant
<1>4. GrantFresh'
  <2> SUFFICES ASSUME NEW n \in msgs', n.type = "granted", n.token \notin superseded'
               PROVE  Holds(n.slug, n.token, n.user, TTL - n.age)'
    BY DEF GrantFresh
  <2>1. CASE n \in msgs
    <3>1. n.token \notin superseded /\ n.token # Purged[m.slug].token /\ n.slug \in Slugs
      BY <1>3, <2>1 DEF InUse, Knowledge, MessageShape, TypeOK, Message
    <3>2. locks[n.slug].token = n.token /\ Live(locks[n.slug])
      BY <2>1, <3>1, GrantIsLive DEF KeepTime
    <3>3. locks'[n.slug] = locks[n.slug]
      BY <1>2, <3>1, <3>2
    <3>4. Holds(n.slug, n.token, n.user, TTL - n.age)
      BY <2>1, <3>1 DEF KeepTime, GrantFresh
    <3> QED
      BY <3>3, <3>4 DEF Holds
  <2>2. CASE n = Msg("granted", m.user, m.tab, m.slug, NewToken)
    BY <1>2, <2>2, ConstantsAssumption DEF Holds, Msg
  <2> QED
    BY <2>1, <2>2 DEF AcquireGrant, Answer
<1>5. Beating'
  <2> SUFFICES ASSUME NEW t \in Tabs, elem[t].page = "connected",
                      elem[t].token \notin superseded' \cup {NoToken}
               PROVE  BeatKeeps(t)'
    BY <1>1 DEF Beating
  <2>1. /\ elem[t].token \notin superseded /\ elem[t].token # Purged[m.slug].token
        /\ elem[t].slug \in Slugs
    BY <1>3 DEF InUse, Knowledge, TypeOK, Element
  <2>2. BeatKeeps(t)
    BY <2>1 DEF KeepTime, Beating
  <2>3. locks[elem[t].slug].token = elem[t].token /\ Live(locks[elem[t].slug])
    BY <2>1, BeatingIsLive DEF KeepTime
  <2>4. locks'[elem[t].slug] = locks[elem[t].slug]
    BY <1>2, <2>1, <2>3
  <2>5. \A n \in msgs : n.type = "refresh" => n \in msgs'
    BY <1>1 DEF AcquireGrant
  <2> QED
    BY <1>1, <2>2, <2>4, <2>5, BeatKept
<1> QED
  BY <1>4, <1>5 DEF KeepTime

\* A beat that arrives renews the row for as long as Beating asks.
LEMMA KeepRefresh ==
    ASSUME Knowledge, KeepTime, Timing, NEW m \in msgs, Refresh(m)
    PROVE  KeepTime'
<1>1. elem' = elem /\ superseded' = superseded /\ msgs' = msgs \ {m}
  BY DEF Refresh
<1>2. \A s \in Slugs :
        \/ locks'[s] = locks[s] /\ (m.slug = s => locks[s].token # m.token)
        \/ /\ locks'[s].token = locks[s].token /\ locks'[s].owner = locks[s].owner
           /\ locks'[s].left = TTL
  BY DEF Refresh, Knowledge, TypeOK, Row
<1>3. GrantFresh'
  <2> SUFFICES ASSUME NEW n \in msgs, n.type = "granted", n.token \notin superseded
               PROVE  Holds(n.slug, n.token, n.user, TTL - n.age)'
    BY <1>1 DEF GrantFresh
  <2>1. Holds(n.slug, n.token, n.user, TTL - n.age) /\ n.slug \in Slugs /\ n.age \in Nat
    BY ConstantsAssumption DEF KeepTime, GrantFresh, Knowledge, TypeOK, Message
  <2> QED
    BY <1>2, <2>1, ConstantsAssumption DEF Holds
<1>4. Beating'
  <2> SUFFICES ASSUME NEW t \in Tabs, elem[t].page = "connected",
                      elem[t].token \notin superseded \cup {NoToken}
               PROVE  BeatKeeps(t)'
    BY <1>1 DEF Beating
  <2>1. BeatKeeps(t) /\ elem[t].slug \in Slugs /\ elem[t].beat \in 0..Beat
    BY ConstantsAssumption DEF KeepTime, Beating, Knowledge, TypeOK, Element, ElementShape
  <2>2. CASE /\ locks'[elem[t].slug] = locks[elem[t].slug]
             /\ m.slug = elem[t].slug => locks[elem[t].slug].token # m.token
    <3>1. locks[elem[t].slug].token = elem[t].token
      BY <2>1 DEF BeatKeeps, Holds
    <3>2. ~(m.slug = elem[t].slug /\ m.token = elem[t].token)
      BY <2>2, <3>1
    <3> QED
      BY <1>1, <2>1, <2>2, <3>2 DEF BeatKeeps, Holds
  <2>3. CASE /\ locks'[elem[t].slug].token = locks[elem[t].slug].token
             /\ locks'[elem[t].slug].owner = locks[elem[t].slug].owner
             /\ locks'[elem[t].slug].left = TTL
    BY <1>1, <2>1, <2>3, ConstantsAssumption DEF BeatKeeps, Holds
  <2> QED
    BY <1>2, <2>1, <2>2, <2>3
<1> QED
  BY <1>3, <1>4 DEF KeepTime

\* A release ends no row that an element or a grant still counts on.
LEMMA KeepRelease ==
    ASSUME Knowledge, KeepTime, Timing, NEW m \in msgs, Release(m)
    PROVE  KeepTime'
<1>1. elem' = elem /\ superseded' = superseded /\ msgs' = msgs \ {m} /\ m.type = "release"
  BY DEF Release
<1>2. \A s \in Slugs : locks[s].token # m.token => locks'[s] = locks[s]
  BY DEF Release, Knowledge, TypeOK
<1>3. GrantFresh'
  <2> SUFFICES ASSUME NEW n \in msgs, n.type = "granted", n.token \notin superseded
               PROVE  Holds(n.slug, n.token, n.user, TTL - n.age)'
    BY <1>1 DEF GrantFresh
  <2>1. n.token # m.token /\ n.slug \in Slugs
    BY <1>1 DEF Knowledge, ReleaseIsFinal, TypeOK, Message
  <2>2. Holds(n.slug, n.token, n.user, TTL - n.age)
    BY DEF KeepTime, GrantFresh
  <2> QED
    BY <1>2, <2>1, <2>2 DEF Holds
<1>4. Beating'
  <2> SUFFICES ASSUME NEW t \in Tabs, elem[t].page = "connected",
                      elem[t].token \notin superseded \cup {NoToken}
               PROVE  BeatKeeps(t)'
    BY <1>1 DEF Beating
  <2>1. BeatKeeps(t) /\ elem[t].slug \in Slugs /\ elem[t].token # m.token
    BY <1>1 DEF KeepTime, Beating, Knowledge, TypeOK, Element, ReleaseIsFinal
  <2>2. locks'[elem[t].slug] = locks[elem[t].slug]
    BY <1>2, <2>1 DEF BeatKeeps, Holds
  <2> QED
    BY <1>1, <2>1, <2>2, BeatKept
<1> QED
  BY <1>3, <1>4 DEF KeepTime

\* What a grant had left is what its element starts with.
LEMMA KeepReceiveGrant ==
    ASSUME Knowledge, KeepTime, Timing, NEW m \in msgs, ReceiveGrant(m)
    PROVE  KeepTime'
<1>1. /\ m.tab \in Tabs /\ m.type = "granted" /\ m.age \in 0..Latency
      /\ elem[m.tab].slug = m.slug /\ m.slug \in Slugs /\ m.user = UserOf[m.tab]
  BY DEF ReceiveGrant, Knowledge, TypeOK, Message, MessageShape, Answers
<1>2. /\ elem'[m.tab].token = m.token /\ elem'[m.tab].beat = Beat
      /\ elem'[m.tab].slug = m.slug
      /\ \A t \in Tabs : t # m.tab => elem'[t] = elem[t]
  BY <1>1 DEF ReceiveGrant, Knowledge, TypeOK, Element
<1>3. locks' = locks /\ superseded' = superseded /\ msgs' = msgs \ {m}
  BY DEF ReceiveGrant
<1>4. GrantFresh'
  BY <1>3 DEF KeepTime, GrantFresh, Holds
<1>5. Beating'
  <2> SUFFICES ASSUME NEW t \in Tabs, elem'[t].page = "connected",
                      elem'[t].token \notin superseded \cup {NoToken}
               PROVE  BeatKeeps(t)'
    BY <1>3 DEF Beating
  <2>1. CASE t = m.tab
    <3>1. Holds(m.slug, m.token, m.user, TTL - m.age)
      BY <1>1, <1>2, <2>1 DEF KeepTime, GrantFresh
    <3>2. locks[m.slug].left \in Nat
      BY <1>1 DEF Knowledge, TypeOK, Row
    <3> QED
      BY <1>1, <1>2, <1>3, <2>1, <3>1, <3>2, ConstantsAssumption DEF BeatKeeps, Holds
  <2>2. CASE t # m.tab
    <3>1. BeatKeeps(t) /\ elem'[t] = elem[t]
      BY <1>2, <2>2 DEF KeepTime, Beating
    <3> QED
      BY <1>1, <1>3, <3>1, BeatKept
  <2> QED
    BY <2>1, <2>2
<1> QED
  BY <1>4, <1>5 DEF KeepTime

\* The beat that is posted is the one on its way.
LEMMA KeepHeartbeat ==
    ASSUME Knowledge, KeepTime, Timing, NEW t \in Tabs, Heartbeat(t)
    PROVE  KeepTime'
<1> DEFINE beat == Msg("refresh", UserOf[t], t, elem[t].slug, elem[t].token)
<1>1. /\ elem'[t].page = elem[t].page /\ elem'[t].slug = elem[t].slug
      /\ elem'[t].token = elem[t].token /\ elem'[t].beat = Beat
      /\ \A u \in Tabs : u # t => elem'[u] = elem[u]
      /\ elem[t].beat = 0
  BY DEF Heartbeat, Knowledge, TypeOK, Element
<1>2. /\ locks' = locks /\ superseded' = superseded /\ msgs' = msgs \cup {beat}
      /\ beat.type = "refresh" /\ beat.slug = elem[t].slug
      /\ beat.token = elem[t].token /\ beat.age = 0
  BY DEF Heartbeat, Msg
<1>3. GrantFresh'
  BY <1>2 DEF KeepTime, GrantFresh, Holds
<1>4. Beating'
  <2> SUFFICES ASSUME NEW u \in Tabs, elem'[u].page = "connected",
                      elem'[u].token \notin superseded \cup {NoToken}
               PROVE  BeatKeeps(u)'
    BY <1>2 DEF Beating
  <2>1. BeatKeeps(u)
    BY <1>1 DEF KeepTime, Beating
  <2>2. CASE u = t
    \* The beat before has been served: it would be older than Latency.
    <3>1. Holds(elem[t].slug, elem[t].token, UserOf[t], TTL - (Latency + Beat))
      <4>1. \A m \in msgs : m.age # Beat - elem[t].beat
        BY <1>1, ConstantsAssumption DEF Knowledge, TypeOK, Message, Timing
      <4>2. Holds(elem[t].slug, elem[t].token, UserOf[t],
                  TTL - (Latency + (Beat - elem[t].beat)))
        BY <2>1, <2>2, <4>1 DEF BeatKeeps
      <4> QED
        BY <1>1, <4>2, ConstantsAssumption DEF Holds
    <3>2. Holds(elem[t].slug, elem[t].token, UserOf[t], TTL - (Latency + Beat + (Beat - Beat)))
      BY <3>1, ConstantsAssumption DEF Holds
    <3>3. beat \in msgs' /\ beat.age = Beat - Beat
      BY <1>2, ConstantsAssumption
    <3> HIDE DEF beat
    <3> QED
      BY <1>1, <1>2, <2>2, <3>2, <3>3 DEF BeatKeeps, Holds
  <2>3. CASE u # t
    <3>1. elem'[u] = elem[u]
      BY <1>1, <2>3
    <3> QED
      BY <1>2, <2>1, <3>1, BeatKept
  <2> QED
    BY <2>2, <2>3
<1> QED
  BY <1>3, <1>4 DEF KeepTime

\* A unit of time costs the row what it costs the timer and the messages.
LEMMA KeepTick ==
    ASSUME Knowledge, KeepTime, Timing, Tick
    PROVE  KeepTime'
<1>1. \A s \in Slugs :
        /\ locks'[s].token = locks[s].token /\ locks'[s].owner = locks[s].owner
        /\ locks[s].left \in Nat
        /\ locks[s].left > 0 => locks'[s].left = locks[s].left - 1
  BY DEF Tick, Knowledge, TypeOK, Row
<1>2. \A m \in msgs : LET n == [m EXCEPT !.age = IF @ < Latency THEN @ + 1 ELSE @]
                      IN  /\ n \in msgs' /\ n.age = m.age + 1 /\ n.type = m.type
                          /\ n.user = m.user /\ n.slug = m.slug /\ n.token = m.token
  BY DEF Tick, Timing, Knowledge, TypeOK, Message
<1>3. \A n \in msgs' : \E m \in msgs :
        n = [m EXCEPT !.age = IF @ < Latency THEN @ + 1 ELSE @]
  BY DEF Tick
<1>4. superseded' = superseded
  BY DEF Tick
<1>5. GrantFresh'
  <2> SUFFICES ASSUME NEW n \in msgs', n.type = "granted", n.token \notin superseded
               PROVE  Holds(n.slug, n.token, n.user, TTL - n.age)'
    BY <1>4 DEF GrantFresh
  <2>1. PICK m \in msgs : n = [m EXCEPT !.age = IF @ < Latency THEN @ + 1 ELSE @]
    BY <1>3
  <2>2. /\ n.age = m.age + 1 /\ n.type = m.type /\ n.user = m.user
        /\ n.slug = m.slug /\ n.token = m.token /\ m.age \in Nat /\ m.slug \in Slugs
    BY <1>2, <2>1, ConstantsAssumption DEF Knowledge, TypeOK, Message
  <2>3. Holds(m.slug, m.token, m.user, TTL - m.age)
    BY <2>2 DEF KeepTime, GrantFresh
  <2>4. locks[m.slug].left > 0
    BY <2>2, GrantIsLive DEF KeepTime, Live
  <2> QED
    BY <1>1, <2>2, <2>3, <2>4, ConstantsAssumption DEF Holds
<1>6. Beating'
  <2> SUFFICES ASSUME NEW t \in Tabs, elem'[t].page = "connected",
                      elem'[t].token \notin superseded \cup {NoToken}
               PROVE  BeatKeeps(t)'
    BY <1>4 DEF Beating
  <2>1. /\ elem'[t].page = elem[t].page /\ elem'[t].slug = elem[t].slug
        /\ elem'[t].token = elem[t].token
        /\ elem[t].beat # 0
        /\ elem[t].beat \in Nat
        /\ elem[t].beat # Off => elem'[t].beat = elem[t].beat - 1
    BY ConstantsAssumption DEF Tick, Timing, Knowledge, TypeOK, Element, Off
  <2>2. elem[t].beat \in 1..Beat /\ elem'[t].beat = elem[t].beat - 1
        /\ elem[t].slug \in Slugs
    BY <2>1, ConstantsAssumption DEF Knowledge, ElementShape, TypeOK, Element, Off
  <2>3. BeatKeeps(t)
    BY <2>1 DEF KeepTime, Beating
  <2>4. locks[elem[t].slug].left > 0
    BY <2>1, BeatingIsLive DEF KeepTime, Live
  <2> DEFINE since == Beat - elem[t].beat
  <2>5. Beat - elem'[t].beat = since + 1 /\ since \in Nat
    BY <2>2, ConstantsAssumption
  <2>6. CASE Holds(elem[t].slug, elem[t].token, UserOf[t], TTL - (Latency + since))
    <3>1. locks'[elem[t].slug].left >= TTL - (Latency + (since + 1))
      BY <1>1, <2>2, <2>4, <2>5, <2>6, ConstantsAssumption DEF Holds
    <3> HIDE DEF since
    <3>2. locks'[elem[t].slug].left >= TTL - (Latency + (Beat - elem'[t].beat))
      BY <2>5, <3>1
    <3> QED
      BY <1>1, <2>1, <2>2, <2>6, <3>2 DEF BeatKeeps, Holds
  <2>7. CASE /\ Holds(elem[t].slug, elem[t].token, UserOf[t], TTL - (Latency + Beat + since))
             /\ \E m \in msgs :
                  /\ m.type = "refresh" /\ m.slug = elem[t].slug
                  /\ m.token = elem[t].token /\ m.age = since
    <3>1. locks'[elem[t].slug].left >= TTL - (Latency + Beat + (since + 1))
      BY <1>1, <2>2, <2>4, <2>5, <2>7, ConstantsAssumption DEF Holds
    <3>2. PICK m \in msgs : /\ m.type = "refresh" /\ m.slug = elem[t].slug
                            /\ m.token = elem[t].token /\ m.age = since
      BY <2>7
    <3> HIDE DEF since
    <3>3. \E n \in msgs' : /\ n.type = "refresh" /\ n.slug = elem[t].slug
                           /\ n.token = elem[t].token /\ n.age = Beat - elem'[t].beat
      BY <1>2, <2>5, <3>2
    <3>4. locks'[elem[t].slug].left >= TTL - (Latency + Beat + (Beat - elem'[t].beat))
      BY <2>5, <3>1
    <3> QED
      BY <1>1, <2>1, <2>2, <2>7, <3>3, <3>4 DEF BeatKeeps, Holds
  <2> QED
    BY <2>3, <2>6, <2>7 DEF BeatKeeps
<1> QED
  BY <1>5, <1>6 DEF KeepTime

\* Every step preserves the accounting of time.
LEMMA KeepStep == Timing /\ Knowledge /\ KeepTime /\ [Next]_vars => KeepTime'
<1> SUFFICES ASSUME Timing, Knowledge, KeepTime, [Next]_vars PROVE KeepTime'
  OBVIOUS
<1>1. ASSUME NEW m \in msgs, Serve(m) PROVE KeepTime'
  <2>1. CASE AcquireConflict(m)
    <3>1. /\ UNCHANGED <<locks, superseded, elem>>
          /\ \A n \in msgs' : n.type = "granted" => n \in msgs
          /\ \A n \in msgs : n.type = "refresh" => n \in msgs'
      BY <2>1 DEF AcquireConflict, Answer, Msg
    <3> QED
      BY <3>1, KeepClient
  <2> QED
    BY <1>1, <2>1, KeepGrant, KeepRefresh, KeepRelease DEF Serve
<1>2. ASSUME NEW m \in msgs, Receive(m) PROVE KeepTime'
  <2>1. CASE ReceiveConflict(m)
    <3>1. /\ UNCHANGED <<locks, superseded, elem>>
          /\ \A n \in msgs' : n.type = "granted" => n \in msgs
          /\ \A n \in msgs : n.type = "refresh" => n \in msgs'
      BY <2>1 DEF ReceiveConflict
    <3> QED
      BY <3>1, KeepClient
  <2> QED
    BY <1>2, <2>1, KeepReceiveGrant DEF Receive
<1>3. ASSUME NEW t \in Tabs, NEW s \in Slugs, Connect(t, s) PROVE KeepTime'
  <2>1. /\ UNCHANGED <<locks, superseded>>
        /\ \A n \in msgs' : n.type = "granted" => n \in msgs
        /\ \A n \in msgs : n \in msgs'
        /\ elem'[t].token = NoToken
        /\ \A u \in Tabs : u # t => elem'[u] = elem[u]
    BY <1>3 DEF Connect, Msg, Knowledge, TypeOK
  <2> QED
    BY <2>1, KeepClient
<1>4. ASSUME NEW t \in Tabs, Disconnect(t) PROVE KeepTime'
  <2>1. /\ UNCHANGED <<locks, superseded>>
        /\ \A n \in msgs' : n.type = "granted" => n \in msgs
        /\ \A n \in msgs : n \in msgs'
        /\ elem'[t].page = "removed"
        /\ \A u \in Tabs : u # t => elem'[u] = elem[u]
    BY <1>4 DEF Disconnect, Msg, Knowledge, TypeOK, Element
  <2> QED
    BY <2>1, KeepClient
<1>5. ASSUME NEW t \in Tabs, Unload(t) PROVE KeepTime'
  <2>1. /\ UNCHANGED <<locks, superseded>>
        /\ elem'[t].page = "none"
        /\ \A u \in Tabs : u # t => elem'[u] = elem[u]
    BY <1>5 DEF Unload, Knowledge, TypeOK
  <2>2. \A n \in msgs' : n.type = "granted" => n \in msgs
    BY <1>5 DEF Unload, Requests, Knowledge, TypeOK, Message
  <2>3. ASSUME NEW m \in msgs, m.type = "refresh"
        PROVE  \E n \in msgs' : /\ n.type = "refresh" /\ n.slug = m.slug
                                /\ n.token = m.token /\ n.age = m.age
    <3>1. CASE m.tab = t
      <4>1. [m EXCEPT !.tab = Nobody] \in msgs'
        BY <1>5, <2>3, <3>1 DEF Unload, Requests
      <4> QED
        BY <2>3, <4>1 DEF Knowledge, TypeOK, Message
    <3>2. CASE m.tab # t
      BY <1>5, <2>3, <3>2 DEF Unload
    <3> QED
      BY <3>1, <3>2
  <2> QED
    BY <2>1, <2>2, <2>3, KeepClient
<1>6. CASE UNCHANGED vars
  BY <1>6, KeepClient DEF vars
<1> QED
  BY <1>1, <1>2, <1>3, <1>4, <1>5, <1>6, KeepHeartbeat, KeepTick DEF Next, Lose, Timing

\* While messages travel at most Latency, timers are punctual and two trips and
\* a period fit into the TTL, an editor's lock is its own until the same user
\* takes it again: for any number of editors, tabs and slugs.
THEOREM HeartbeatKeeps ==
    ASSUME Timing
    PROVE  Spec => []HeartbeatKeepsLock
<1>1. Init => KeepTime
  BY KeepInit
<1>2. Knowledge /\ KeepTime /\ [Next]_vars => KeepTime'
  BY KeepStep
<1>3. Knowledge /\ KeepTime => HeartbeatKeepsLock
  BY BeatingIsLive DEF KeepTime, HeartbeatKeepsLock
<1> QED
  BY <1>1, <1>2, <1>3, KnowledgeInvariant, PTL DEF Spec

\* Under the same timing two users never edit one slug with valid tokens.
THEOREM EditingIsExclusive ==
    ASSUME Timing
    PROVE  Spec => []ExclusiveEditing
<1>1. HeartbeatKeepsLock => ExclusiveEditing
  BY DEF HeartbeatKeepsLock, ExclusiveEditing
<1> QED
  BY <1>1, HeartbeatKeeps, PTL

\* What the run checks of the lock, under any timing: its rows, elements and messages are
\* of their types ...
THEOREM LocksTyped == Spec => []TypeOK
<1>1. Knowledge => TypeOK
  BY DEF Knowledge
<1> QED
  BY <1>1, KnowledgeInvariant, PTL

\* ... and the invariant the argument needs holds on every network, its part about time
\* where Timing does.
THEOREM KeepInvariant == Spec => []KeepInv
<1>1. CASE Timing
  <2>1. Init => KeepTime
    BY KeepInit
  <2>2. Knowledge /\ KeepTime /\ [Next]_vars => KeepTime'
    BY <1>1, KeepStep
  <2>3. Knowledge /\ KeepTime => KeepInv
    BY DEF KeepTime, KeepInv
  <2> QED
    BY <2>1, <2>2, <2>3, KnowledgeInvariant, PTL DEF Spec
<1>2. CASE ~Timing
  <2>1. Knowledge => KeepInv
    BY <1>2 DEF KeepInv
  <2> QED
    BY <2>1, KnowledgeInvariant, PTL
<1> QED
  BY <1>1, <1>2
=============================================================================

-------------------------- MODULE Accounts_proofs --------------------------
(***************************************************************************)
(* Theorems about accounts for any number of addresses, requests, sessions *)
(* and links, on both backends: a replaced password and a suspension end   *)
(* the sessions they should, an account has one open reset link, a link    *)
(* sets one password, and suspensions leave somebody active; each up to    *)
(* the overlaps and deaths its statement names.                            *)
(***************************************************************************)
EXTENDS Accounts, TLAPS

-----------------------------------------------------------------------------
(* Steps and records *)

LEMMA BusyTyped ==
    ASSUME TypeOK, NEW r \in Requests, Busy(r)
    PROVE  /\ req[r] \in Request
           /\ Of(r) = <<req[r].email, req[r].n>>
           /\ Of(r)[1] = req[r].email
BY DEF TypeOK, Busy, Idle, Steps, Of

LEMMA RequestUpdates ==
    ASSUME NEW q \in Request
    PROVE  /\ \A at \in Steps : [q EXCEPT !.at = at] \in Request
           /\ \A at \in Steps, n \in 0..MaxRow : [q EXCEPT !.at = at, !.n = n] \in Request
           /\ \A b \in BOOLEAN : [q EXCEPT !.raced = b] \in Request
BY DEF Request

LEMMA UnusedIsNoRow ==
    /\ Unused \notin Session /\ Unused \notin Link
    /\ Unused.of \notin Account
<1>1. <<>> \notin Account
  BY DEF Account
<1> QED
  BY <1>1 DEF Unused, Session, Link

LEMMA MovedWithId ==
    ASSUME TypeOK, NEW r \in Requests, req[r] \in Request, NEW at \in Steps, NEW n \in 0..MaxRow,
           req' = [req EXCEPT ![r].at = at, ![r].n = n]
    PROVE  /\ req' \in [Requests -> Request \cup {Idle}]
           /\ req'[r] = [req[r] EXCEPT !.at = at, !.n = n]
           /\ \A q \in Requests \ {r} : req'[q] = req[q]
<1> DEFINE new == [req[r] EXCEPT !.at = at, !.n = n]
<1>1. new \in Request
  BY RequestUpdates
<1>2. req' = [req EXCEPT ![r] = new]
  BY DEF TypeOK
<1> HIDE DEF new
<1>3. /\ req' \in [Requests -> Request \cup {Idle}]
      /\ req'[r] = new
      /\ \A q \in Requests \ {r} : req'[q] = req[q]
  BY <1>1, <1>2 DEF TypeOK
<1> QED
  BY <1>3 DEF new

\* What a step does to the requests: it begins r, or it moves r.
Same(q) == /\ req'[q].at = req[q].at /\ req'[q].op = req[q].op /\ req'[q].email = req[q].email
           /\ req'[q].n = req[q].n /\ req'[q].pw = req[q].pw /\ req'[q].link = req[q].link
           /\ req'[q].actor = req[q].actor

LEMMA BeginFacts ==
    ASSUME TypeOK, NEW r \in Requests, NEW new \in Request, Begin(r, new)
    PROVE  /\ req' \in [Requests -> Request \cup {Idle}]
           /\ \A q \in Requests \ {r} :
                 /\ Same(q)
                 /\ Busy(q) => (req[q].raced => req'[q].raced)
                 /\ Busy(q) /\ req[q].email = new.email => req'[q].raced /\ req'[r].raced
           /\ ~Busy(r) /\ MayRun(r) /\ new.op \in ops
           /\ req'[r] \in Request
           /\ req'[r].at = new.at /\ req'[r].op = new.op /\ req'[r].email = new.email
           /\ req'[r].n = new.n /\ req'[r].pw = new.pw /\ req'[r].link = new.link
           /\ req'[r].actor = new.actor
<1> DEFINE others == {q \in Requests \ {r} : Busy(q) /\ req[q].email = new.email}
<1>1. /\ req' = [q \in Requests |->
                    IF q = r THEN [new EXCEPT !.raced = others # {}]
                    ELSE IF q \in others THEN [req[q] EXCEPT !.raced = TRUE] ELSE req[q]]
      /\ ~Busy(r) /\ MayRun(r) /\ new.op \in ops
  BY DEF Begin
<1>2. \A q \in others : req[q] \in Request
  BY BusyTyped
<1>3. /\ [new EXCEPT !.raced = others # {}] \in Request
      /\ \A q \in others : [req[q] EXCEPT !.raced = TRUE] \in Request
  BY <1>2, RequestUpdates
<1>4. req' \in [Requests -> Request \cup {Idle}]
  BY <1>1, <1>3 DEF TypeOK
<1>5. ASSUME NEW q \in Requests \ {r}
      PROVE  /\ Same(q)
             /\ Busy(q) => (req[q].raced => req'[q].raced)
             /\ Busy(q) /\ req[q].email = new.email => req'[q].raced /\ req'[r].raced
  <2>1. CASE q \in others
    <3>1. req'[q] = [req[q] EXCEPT !.raced = TRUE] /\ req[q] \in Request
      BY <1>1, <1>2, <2>1
    <3>2. req'[r] = [new EXCEPT !.raced = TRUE]
      BY <1>1, <2>1
    <3> QED
      BY <3>1, <3>2 DEF Same, Request
  <2>2. CASE q \notin others
    <3>1. req'[q] = req[q]
      BY <1>1, <2>2
    <3> QED
      BY <3>1, <2>2 DEF Same
  <2> QED
    BY <2>1, <2>2
<1>6. req'[r] = [new EXCEPT !.raced = others # {}]
  BY <1>1
<1> QED
  BY <1>1, <1>3, <1>4, <1>5, <1>6 DEF Request

\* A statement moves its own request.
LEMMA StatementMoves ==
    ASSUME NEW r \in Requests, Statement(r), TypeOK
    PROVE  /\ Busy(r) /\ req[r] \in Request
           /\ \A q \in Requests \ {r} : req'[q] = req[q]
<1>1. Busy(r)
  BY DEF Statement, OpenSession, RetireLinks, SetPassword, CloseLink, RevokeSessions, Seek,
         Deactivate, Activate, CreateAccount, PurgeSessions, EraseAccount, Die, InsertSession,
         IssueLink, InviteLink, At, Busy, Steps
<1>2. \A q \in Requests \ {r} : req'[q] = req[q]
  BY DEF Statement, OpenSession, RetireLinks, SetPassword, CloseLink, RevokeSessions, Seek,
         Deactivate, Activate, CreateAccount, PurgeSessions, EraseAccount, Die, InsertSession,
         IssueLink, InviteLink, NewLink, Goto, End, TypeOK
<1> QED
  BY <1>1, <1>2, BusyTyped

-----------------------------------------------------------------------------
(* Types *)

LEMMA TypeInit == Init => TypeOK
<1> SUFFICES ASSUME Init PROVE TypeOK
  OBVIOUS
<1>1. [n |-> 1, pw |-> 0, active |-> TRUE] \in Row
  BY AccountsAssumption DEF Row
<1> QED
  BY <1>1, AccountsAssumption DEF Init, TypeOK, NoRow

LEMMA RowUpdates ==
    ASSUME NEW w \in Row
    PROVE  /\ \A b \in BOOLEAN : [w EXCEPT !.active = b] \in Row
           /\ \A k \in 0..MaxPw : [w EXCEPT !.pw = k] \in Row
           /\ w # NoRow
BY DEF Row, NoRow

LEMMA KilledTyped ==
    ASSUME TypeOK, NEW ids
    PROVE  Killed(ids) \in [SessionIds -> Session \cup {Unused}]
BY DEF Killed, TypeOK

LEMMA ClosedTyped ==
    ASSUME TypeOK, NEW id, NEW kind
    PROVE  Closed(id, kind) \in [LinkIds -> Link \cup {Unused}]
BY DEF Closed, TypeOK

LEMMA MarkedTyped ==
    ASSUME TypeOK, NEW ls, NEW used \in {"no", "yes", "torn"}
    PROVE  Marked(ls, used) \in [LinkIds -> Link \cup {Unused}]
<1>1. \A w \in Link : [w EXCEPT !.used = used] \in Link
  BY DEF Link
<1> QED
  BY <1>1 DEF Marked, TypeOK

LEMMA TypeStatement ==
    ASSUME TypeOK, NEW r \in Requests, Statement(r)
    PROVE  TypeOK'
<1>1. req[r] \in Request /\ Of(r) \in Emails \X (0..MaxRow)
  BY StatementMoves, BusyTyped DEF Request
<1>2. \A at \in Steps : Goto(r, at) => req' \in [Requests -> Request \cup {Idle}]
  BY <1>1, RequestUpdates DEF Goto, TypeOK
<1>3. End(r) => req' \in [Requests -> Request \cup {Idle}]
  BY DEF End, TypeOK
<1>4. Exists(Of(r)) => Of(r) \in Account /\ accounts[req[r].email] \in Row
  BY <1>1, BusyTyped, StatementMoves DEF Exists, Has, TypeOK, Account, Row, NoRow
<1>5. \A k \in {"reset", "invite"}, b \in BOOLEAN : Exists(Of(r)) =>
         [kind |-> k, of |-> Of(r), used |-> "no", raced |-> b] \in Link
  BY <1>4 DEF Link
<1>6. CASE OpenSession(r)
  <2>1. \A n \in 0..MaxRow : req' = [req EXCEPT ![r].at = "insert", ![r].n = n]
          => req' \in [Requests -> Request \cup {Idle}]
    BY <1>1, MovedWithId DEF Steps
  <2>2. accounts[req[r].email].n \in 0..MaxRow
    BY <1>1, AccountsAssumption DEF TypeOK, Request, Row, NoRow
  <2> QED
    BY <1>6, <1>3, <2>1, <2>2 DEF OpenSession, TypeOK
<1>7. CASE RetireLinks(r)
  BY <1>7, <1>2, ClosedTyped DEF RetireLinks, TypeOK, Steps
<1>8. CASE SetPassword(r)
  <2>1. links' \in [LinkIds -> Link \cup {Unused}]
    BY <1>8, MarkedTyped DEF SetPassword
  <2>2. req' \in [Requests -> Request \cup {Idle}]
    BY <1>8, <1>2 DEF SetPassword, Steps
  <2>3. /\ accounts' \in [Emails -> Row \cup {NoRow}]
        /\ \A e \in Emails : accounts'[e] # NoRow => accounts'[e].n = rows[e]
        /\ cut' \subseteq Emails \X (0..MaxRow)
    <3>1. CASE Exists(Of(r))
      <4> DEFINE w == accounts[req[r].email]
                 k == IF w.pw < MaxPw THEN w.pw + 1 ELSE w.pw
      <4>1. w \in Row /\ k \in 0..MaxPw
        BY <1>4, <3>1, AccountsAssumption DEF Row
      <4>2. accounts' = [accounts EXCEPT ![req[r].email] = [w EXCEPT !.pw = k]]
        BY <1>8, <3>1 DEF SetPassword
      <4>3. [w EXCEPT !.pw = k] \in Row /\ [w EXCEPT !.pw = k].n = w.n
        BY <4>1, RowUpdates DEF Row
      <4> HIDE DEF k
      <4>4. w = accounts[req[r].email] /\ w # NoRow /\ req[r].email \in Emails
        BY <1>1, <4>1, RowUpdates DEF Request
      <4>5. cut' \subseteq Emails \X (0..MaxRow)
        BY <1>8, <3>1, <1>1 DEF SetPassword, TypeOK
      <4> QED
        BY <4>2, <4>3, <4>4, <4>5 DEF TypeOK
    <3>2. CASE ~Exists(Of(r))
      BY <1>8, <3>2 DEF SetPassword, TypeOK
    <3> QED
      BY <3>1, <3>2
  <2> QED
    BY <1>8, <2>1, <2>2, <2>3 DEF SetPassword, TypeOK
<1>9. CASE CloseLink(r)
  BY <1>9, <1>2, <1>3, ClosedTyped DEF CloseLink, TypeOK, Steps
<1>10. CASE RevokeSessions(r)
  BY <1>10, <1>3, KilledTyped DEF RevokeSessions, TypeOK
<1>11. CASE Seek(r)
  <2>1. \A n \in 0..MaxRow, at \in Steps : req' = [req EXCEPT ![r].at = at, ![r].n = n]
          => req' \in [Requests -> Request \cup {Idle}]
    BY <1>1, MovedWithId
  <2>2. accounts[req[r].email].n \in 0..MaxRow
    BY <1>1, AccountsAssumption DEF TypeOK, Request, Row, NoRow
  <2>3. \/ End(r)
        \/ \E at \in {"deactivate", "activate", "create", "purge"} :
              req' = [req EXCEPT ![r].at = at, ![r].n = accounts[req[r].email].n]
    BY <1>11 DEF Seek
  <2>4. req' \in [Requests -> Request \cup {Idle}]
    BY <1>3, <2>1, <2>2, <2>3 DEF Steps
  <2> QED
    BY <1>11, <2>4 DEF Seek, TypeOK
<1>12. CASE Deactivate(r) \/ Activate(r)
  <2>1. PICK b \in BOOLEAN : SetActive(Of(r), b)
    BY <1>12 DEF Deactivate, Activate
  <2>2. /\ accounts' \in [Emails -> Row \cup {NoRow}]
        /\ \A e \in Emails : accounts'[e] # NoRow => accounts'[e].n = rows[e]
    <3>1. CASE Exists(Of(r))
      <4> DEFINE w == accounts[req[r].email]
      <4>1. w \in Row /\ Of(r)[1] = req[r].email
        BY <1>4, <3>1, BusyTyped, StatementMoves
      <4>2. accounts' = [accounts EXCEPT ![req[r].email] = [w EXCEPT !.active = b]]
        BY <2>1, <3>1, <4>1 DEF SetActive
      <4>3. [w EXCEPT !.active = b] \in Row /\ [w EXCEPT !.active = b].n = w.n
        BY <4>1, RowUpdates DEF Row
      <4>4. w # NoRow /\ req[r].email \in Emails
        BY <1>1, <4>1, RowUpdates DEF Request
      <4> QED
        BY <4>2, <4>3, <4>4 DEF TypeOK
    <3>2. CASE ~Exists(Of(r))
      BY <2>1, <3>2 DEF SetActive, TypeOK
    <3> QED
      BY <3>1, <3>2
  <2> QED
    BY <1>12, <1>2, <1>3, <2>2 DEF Deactivate, Activate, TypeOK, Steps
<1>13. CASE CreateAccount(r)
  <2>1. CASE Has(req[r].email)
    BY <1>13, <1>3, <2>1 DEF CreateAccount, TypeOK
  <2>2. CASE ~Has(req[r].email)
    <3> DEFINE e == req[r].email
               w == [n |-> rows[e] + 1, pw |-> 0, active |-> TRUE]
    <3>1. /\ rows[e] < MaxRow
          /\ rows' = [rows EXCEPT ![e] = rows[e] + 1]
          /\ accounts' = [accounts EXCEPT ![e] = w]
          /\ req' = [req EXCEPT ![r].at = "invite", ![r].n = rows[e] + 1]
          /\ UNCHANGED <<backend, ops, sessions, links, cut>>
      BY <1>13, <2>2 DEF CreateAccount
    <3>2. e \in Emails /\ rows[e] \in 0..MaxRow
      BY <1>1 DEF TypeOK, Request
    <3>3. rows[e] + 1 \in 1..MaxRow
      BY <3>1, <3>2, AccountsAssumption
    <3>4. w \in Row /\ w.n = rows[e] + 1
      BY <3>3, AccountsAssumption DEF Row
    <3> HIDE DEF e, w
    <3>5. req' \in [Requests -> Request \cup {Idle}]
      <4>1. rows[e] + 1 \in 0..MaxRow /\ "invite" \in Steps
        BY <3>3, AccountsAssumption DEF Steps
      <4> QED
        BY <3>1, <4>1, <1>1, MovedWithId
    <3> QED
      BY <3>1, <3>2, <3>3, <3>4, <3>5 DEF TypeOK
  <2> QED
    BY <2>1, <2>2
<1>14. CASE PurgeSessions(r)
  BY <1>14, <1>2, KilledTyped DEF PurgeSessions, TypeOK, Steps
<1>15. CASE EraseAccount(r)
  <2> DEFINE e == req[r].email
  <2>1. /\ accounts' \in [Emails -> Row \cup {NoRow}]
        /\ \A f \in Emails : accounts'[f] # NoRow => accounts'[f].n = rows[f]
    <3>1. \A w \in Row : [w EXCEPT !.active = FALSE] \in Row /\ [w EXCEPT !.active = FALSE].n = w.n
      BY DEF Row
    <3>2. e \in Emails /\ (Has(e) => accounts[e] \in Row)
      BY <1>1 DEF Request, Has, TypeOK
    <3> QED
      BY <1>15, <3>1, <3>2 DEF EraseAccount, TypeOK, Has
  <2>2. sessions' \in [SessionIds -> Session \cup {Unused}]
    BY <1>15, KilledTyped DEF EraseAccount
  <2> QED
    BY <1>15, <1>3, <2>1, <2>2 DEF EraseAccount, TypeOK
<1>16. CASE Die(r)
  <2>1. links' \in [LinkIds -> Link \cup {Unused}]
    BY <1>16, MarkedTyped DEF Die, TypeOK
  <2>2. cut' \subseteq Emails \X (0..MaxRow)
    BY <1>1, <1>16 DEF Die, TypeOK
  <2> QED
    BY <1>16, <1>3, <2>1, <2>2 DEF Die, TypeOK
<1>17. CASE \E s \in SessionIds : InsertSession(r, s)
  <2>1. Exists(Of(r)) => [of |-> Of(r), pw |-> req[r].pw, raced |-> req[r].raced] \in Session
    BY <1>1, <1>4 DEF Session, Request
  <2> QED
    BY <1>17, <1>3, <2>1 DEF InsertSession, TypeOK
<1>18. CASE \E l \in LinkIds : IssueLink(r, l) \/ InviteLink(r, l)
  <2>1. (backend = "d1" /\ req[r].raced) \in BOOLEAN
    OBVIOUS
  <2> QED
    BY <1>18, <1>3, <1>5, <2>1 DEF IssueLink, InviteLink, NewLink, TypeOK
<1> QED
  BY <1>6, <1>7, <1>8, <1>9, <1>10, <1>11, <1>12, <1>13, <1>14, <1>15, <1>16, <1>17, <1>18
     DEF Statement

\* What the four ways to begin a request have in common.
Begins(r, new) ==
    /\ new \in Request /\ Begin(r, new)
    /\ new.at \in {"open", "retire", "password", "seek"}
    /\ new.at = "open" => Active(new.email) /\ new.pw = accounts[new.email].pw
    /\ new.at = "seek" /\ new.op = "suspend" => new.actor # new.email
    /\ new.at = "password" => \E l \in LinkIds :
          /\ Usable(l) /\ new.link = {l} /\ links[l].of = <<new.email, new.n>>
          /\ links[l].kind = IF new.op = "accept" THEN "invite" ELSE "reset"
    /\ UNCHANGED <<backend, ops, accounts, rows, sessions, links, cut>>

LEMMA BeginCases ==
    ASSUME TypeOK, NEW r \in Requests,
           \/ \E e \in Emails : BeginLogin(r, e) \/ BeginIssue(r, e)
           \/ \E l \in LinkIds : BeginUse(r, l)
           \/ \E s \in SessionIds, op \in Manage, e \in Emails : BeginManage(r, s, op, e)
    PROVE  \E new : Begins(r, new)
<1>0. 0 \in 0..MaxRow /\ 0 \in 0..MaxPw /\ {} \subseteq LinkIds
  BY AccountsAssumption
<1>1. \A e \in Emails : Active(e) => /\ accounts[e].n \in 0..MaxRow
                                    /\ accounts[e].pw \in 0..MaxPw
  BY AccountsAssumption DEF Active, Has, TypeOK, Row, NoRow
<1>2. ASSUME NEW e \in Emails, BeginLogin(r, e)
      PROVE  \E new : Begins(r, new)
  <2> DEFINE new == [op |-> "login", at |-> "open", email |-> e, n |-> 0, pw |-> accounts[e].pw,
                     link |-> {}, actor |-> e, raced |-> FALSE]
  <2>1. new \in Request
    BY <1>0, <1>1, <1>2 DEF Request, Steps, BeginLogin
  <2> QED
    BY <1>2, <2>1 DEF BeginLogin, Begins
<1>3. ASSUME NEW e \in Emails, BeginIssue(r, e)
      PROVE  \E new : Begins(r, new)
  <2> DEFINE new == [op |-> "issue", at |-> "retire", email |-> e, n |-> accounts[e].n, pw |-> 0,
                     link |-> {}, actor |-> e, raced |-> FALSE]
  <2>1. new \in Request
    BY <1>0, <1>1, <1>3 DEF Request, Steps, BeginIssue
  <2> QED
    BY <1>3, <2>1 DEF BeginIssue, Begins
<1>4. ASSUME NEW l \in LinkIds, BeginUse(r, l)
      PROVE  \E new : Begins(r, new)
  <2> DEFINE new == [op |-> IF links[l].kind = "invite" THEN "accept" ELSE "reset",
                     at |-> "password", email |-> links[l].of[1], n |-> links[l].of[2], pw |-> 0,
                     link |-> {l}, actor |-> links[l].of[1], raced |-> FALSE]
  <2>1. links[l] \in Link
    BY <1>4 DEF BeginUse, Usable, TypeOK
  <2>2. /\ links[l].of[1] \in Emails /\ links[l].of[2] \in 0..MaxRow
        /\ links[l].of = <<links[l].of[1], links[l].of[2]>>
        /\ links[l].kind \in {"reset", "invite"}
    BY <2>1 DEF Link, Account
  <2>3. new \in Request
    BY <1>0, <2>2 DEF Request, Steps
  <2> QED
    BY <1>4, <2>2, <2>3 DEF BeginUse, Begins
<1>5. ASSUME NEW s \in SessionIds, NEW op \in Manage, NEW e \in Emails, BeginManage(r, s, op, e)
      PROVE  \E new : Begins(r, new)
  <2> DEFINE new == [op |-> op, at |-> "seek", email |-> e, n |-> 0, pw |-> 0, link |-> {},
                     actor |-> IF op = "suspend" THEN sessions[s].of[1] ELSE e, raced |-> FALSE]
  <2>1. sessions[s].of[1] \in Emails
    BY <1>5 DEF BeginManage, Signed, TypeOK, Session, Account
  <2>2. new \in Request
    BY <1>0, <2>1 DEF Request, Steps, Manage
  <2> QED
    BY <1>5, <2>2 DEF BeginManage, Begins
<1> QED
  BY <1>2, <1>3, <1>4, <1>5

\* What the steps of no request have in common: rows disappear.
Drops ==
    /\ UNCHANGED <<backend, ops, accounts, rows, req>>
    /\ sessions' \in [SessionIds -> Session \cup {Unused}]
    /\ links' \in [LinkIds -> Link \cup {Unused}]
    /\ cut' \subseteq cut
    /\ \A s \in SessionIds : sessions'[s] # Unused =>
          /\ sessions'[s] = sessions[s]
          /\ sessions[s].of \in cut => sessions[s].of \in cut'
    /\ \A l \in LinkIds : links'[l] = links[l] \/ (links'[l] = Unused /\ ~Held(l))

LEMMA DropCases ==
    ASSUME TypeOK,
           \/ \E s \in SessionIds : Lapse(s) \/ Logout(s)
           \/ \E emails \in SUBSET Emails : EmergencyRevoke(emails)
           \/ \E l \in LinkIds : Expire(l)
    PROVE  Drops
<1>1. ASSUME NEW s \in SessionIds, Lapse(s) \/ Logout(s)
      PROVE  Drops
  BY <1>1 DEF Lapse, Logout, Drops, TypeOK
<1>2. ASSUME NEW emails \in SUBSET Emails, EmergencyRevoke(emails)
      PROVE  Drops
  <2> DEFINE ids == {id \in Account : id[1] \in emails /\ Exists(id)}
  <2>1. sessions' = Killed(ids) /\ cut' = {id \in cut : ~(id[1] \in emails /\ Exists(id))}
    BY <1>2 DEF EmergencyRevoke
  <2>2. \A s \in SessionIds : sessions'[s] # Unused =>
           /\ sessions'[s] = sessions[s]
           /\ sessions[s].of \in cut => sessions[s].of \in cut'
    BY <2>1 DEF Killed, TypeOK, Session
  <2>3. sessions' \in [SessionIds -> Session \cup {Unused}]
    BY <2>1, KilledTyped
  <2> QED
    BY <1>2, <2>1, <2>2, <2>3 DEF EmergencyRevoke, Drops, TypeOK
<1>3. ASSUME NEW l \in LinkIds, Expire(l)
      PROVE  Drops
  BY <1>3 DEF Expire, Drops, TypeOK
<1> QED
  BY <1>1, <1>2, <1>3

LEMMA StepCases ==
    ASSUME TypeOK, Next
    PROVE  \/ \E r \in Requests : Statement(r)
           \/ \E r \in Requests : \E new : Begins(r, new)
           \/ Drops
           \/ \E e \in Bootstrap : Reseed(e)
<1>1. CASE \E r \in Requests : Statement(r)
  BY <1>1
<1>2. CASE \E r \in Requests :
             \/ \E e \in Emails : BeginLogin(r, e) \/ BeginIssue(r, e)
             \/ \E l \in LinkIds : BeginUse(r, l)
             \/ \E s \in SessionIds, op \in Manage, e \in Emails : BeginManage(r, s, op, e)
  BY <1>2, BeginCases
<1>3. CASE \/ \E s \in SessionIds : Lapse(s) \/ Logout(s)
           \/ \E emails \in SUBSET Emails : EmergencyRevoke(emails)
           \/ \E l \in LinkIds : Expire(l)
  BY <1>3, DropCases
<1> QED
  BY <1>1, <1>2, <1>3 DEF Next

\* What the start of a process does: the account e is there and active, nothing else moves.
LEMMA ReseedFacts ==
    ASSUME TypeOK, NEW e \in Bootstrap, Reseed(e)
    PROVE  /\ e \in Emails
           /\ UNCHANGED <<backend, ops, sessions, links, req>>
           /\ \A r \in Requests : ~Busy(r)
           /\ rows' \in [Emails -> 0..MaxRow]
           /\ accounts' \in [Emails -> Row \cup {NoRow}]
           /\ accounts'[e] # NoRow /\ accounts'[e].n = rows'[e] /\ accounts'[e].active
           /\ \A d \in Emails \ {e} : accounts'[d] = accounts[d] /\ rows'[d] = rows[d]
           /\ Has(e) => accounts'[e].n = accounts[e].n /\ cut' = cut \cup {Id(e)}
           /\ ~Has(e) => cut' = cut
<1>1. e \in Emails /\ MaxRow \in Nat /\ MaxPw \in Nat
  BY AccountsAssumption
<1>2. /\ UNCHANGED <<backend, ops, sessions, links, req>>
      /\ \A r \in Requests : ~Busy(r)
  BY DEF Reseed
<1>3. CASE Has(e)
  <2> DEFINE pw  == IF accounts[e].pw < MaxPw THEN accounts[e].pw + 1 ELSE accounts[e].pw
             row == [accounts[e] EXCEPT !.pw = pw, !.active = TRUE]
  <2>1. accounts[e] \in Row
    BY <1>1, <1>3 DEF TypeOK, Has
  <2>2. pw \in 0..MaxPw
    BY <1>1, <2>1 DEF Row
  <2>3. row \in Row /\ row.n = accounts[e].n /\ row.active
    BY <2>1, <2>2 DEF Row
  <2>4. accounts' = [accounts EXCEPT ![e] = row] /\ rows' = rows /\ cut' = cut \cup {Id(e)}
    BY <1>1, <1>3 DEF Reseed, TypeOK
  <2> HIDE DEF row
  <2>5. row # NoRow
    BY <2>3 DEF Row, NoRow
  <2> QED
    BY <1>1, <1>2, <1>3, <2>3, <2>4, <2>5 DEF TypeOK, Has
<1>4. CASE ~Has(e)
  <2> DEFINE row == [n |-> rows[e] + 1, pw |-> 0, active |-> TRUE]
  <2>1. /\ rows[e] < MaxRow /\ rows' = [rows EXCEPT ![e] = rows[e] + 1]
        /\ accounts' = [accounts EXCEPT ![e] = row] /\ cut' = cut
    BY <1>1, <1>4 DEF Reseed, TypeOK
  <2>2. rows[e] + 1 \in 1..MaxRow
    BY <1>1, <2>1 DEF TypeOK
  <2>3. row \in Row /\ row.n = rows[e] + 1 /\ row.active
    BY <1>1, <2>2 DEF Row
  <2> HIDE DEF row
  <2>4. row # NoRow
    BY <2>3 DEF Row, NoRow
  <2> QED
    BY <1>1, <1>2, <1>4, <2>1, <2>2, <2>3, <2>4 DEF TypeOK
<1> QED
  BY <1>3, <1>4

LEMMA TypeReseed ==
    ASSUME TypeOK, NEW e \in Bootstrap, Reseed(e)
    PROVE  TypeOK'
<1>1. \A d \in Emails : accounts'[d] # NoRow => accounts'[d].n = rows'[d]
  BY ReseedFacts DEF TypeOK
<1>2. cut' \subseteq Emails \X (0..MaxRow)
  <2>1. Has(e) => Id(e) \in Emails \X (0..MaxRow)
    BY ReseedFacts DEF TypeOK, Id, Has
  <2> QED
    BY <2>1, ReseedFacts DEF TypeOK
<1> QED
  BY <1>1, <1>2, ReseedFacts DEF TypeOK

LEMMA TypeStep == TypeOK /\ [Next]_vars => TypeOK'
<1> SUFFICES ASSUME TypeOK, [Next]_vars PROVE TypeOK'
  OBVIOUS
<1>1. ASSUME NEW r \in Requests, NEW new, Begins(r, new)
      PROVE  TypeOK'
  BY <1>1, BeginFacts DEF Begins, TypeOK
<1>2. CASE Drops
  BY <1>2 DEF Drops, TypeOK
<1>3. CASE UNCHANGED vars
  BY <1>3 DEF vars, TypeOK
<1> QED
  BY <1>1, <1>2, <1>3, TypeStatement, TypeReseed, StepCases

-----------------------------------------------------------------------------
(* What a statement does *)

LEMMA MovedAt ==
    ASSUME TypeOK, NEW r \in Requests, req[r] \in Request, NEW at \in Steps, Goto(r, at)
    PROVE  req'[r] = [req[r] EXCEPT !.at = at]
BY DEF Goto, TypeOK

\* It ends its request or moves it on.
Moved(q) == /\ req'[q].op = req[q].op /\ req'[q].email = req[q].email
            /\ req'[q].pw = req[q].pw /\ req'[q].link = req[q].link
            /\ req'[q].actor = req[q].actor /\ req'[q].raced = req[q].raced

LEMMA MovedOn ==
    ASSUME TypeOK, NEW r \in Requests, req[r] \in Request, NEW at \in Steps, NEW n \in 0..MaxRow,
           \/ req' = [req EXCEPT ![r].at = at, ![r].n = n]
           \/ Goto(r, at) /\ n = req[r].n
    PROVE  Moved(r) /\ req'[r].at = at /\ req'[r].n = n
<1> DEFINE p == req'[r]
           q == req[r]
<1>1. q \in Request
  OBVIOUS
<1>2. p = [q EXCEPT !.at = at, !.n = n]
  <2>1. CASE req' = [req EXCEPT ![r].at = at, ![r].n = n]
    BY <2>1, MovedWithId
  <2>2. CASE Goto(r, at) /\ n = req[r].n
    <3>1. req'[r] = [req[r] EXCEPT !.at = at]
      BY <2>2, MovedAt
    <3> QED
      BY <2>2, <3>1 DEF Request
  <2> QED
    BY <2>1, <2>2
<1> HIDE DEF p, q
<1>3. /\ p.op = q.op /\ p.email = q.email /\ p.pw = q.pw /\ p.link = q.link
      /\ p.actor = q.actor /\ p.raced = q.raced /\ p.at = at /\ p.n = n
  BY <1>1, <1>2 DEF Request
<1> QED
  BY <1>3, Zenon DEF p, q, Moved

LEMMA Ended ==
    ASSUME TypeOK, NEW r \in Requests, End(r)
    PROVE  req'[r] = Idle /\ ~Busy(r)'
BY DEF End, TypeOK, Idle, Busy, Steps

\* The order of the statements.
Goes(r) ==
    LET to == req'[r].at
        kept == req'[r].n = req[r].n
        read == req'[r].n = accounts[req[r].email].n
    IN \/ OpenSession(r) /\ to = "insert" /\ read /\ Active(req[r].email)
       \/ RetireLinks(r) /\ to = "issue" /\ kept
       \/ SetPassword(r) /\ to = "close" /\ kept
       \/ CloseLink(r) /\ to = "revoke" /\ kept
       \/ Deactivate(r) /\ to = "revoke" /\ kept
       \/ PurgeSessions(r) /\ to = "erase" /\ kept
       \/ Seek(r) /\ read /\ to \in {"deactivate", "activate", "create", "purge"}
            /\ (to = "deactivate" => req[r].op = "suspend")
       \/ CreateAccount(r) /\ to = "invite"

LEMMA StatementRequest ==
    ASSUME TypeOK, NEW r \in Requests, Statement(r)
    PROVE  \/ req'[r] = Idle /\ ~Busy(r)'
           \/ Moved(r) /\ Busy(r)' /\ Goes(r)
<1>1. req[r] \in Request /\ req[r].n \in 0..MaxRow
  BY StatementMoves DEF Request
<1>2. \A at \in Steps : Goto(r, at) => Moved(r) /\ req'[r].at = at /\ req'[r].n = req[r].n
  BY <1>1, MovedOn
<1>3. \A at \in Steps, n \in 0..MaxRow :
         req' = [req EXCEPT ![r].at = at, ![r].n = n]
            => Moved(r) /\ req'[r].at = at /\ req'[r].n = n
  BY <1>1, MovedOn
<1>4. accounts[req[r].email].n \in 0..MaxRow
  BY <1>1, AccountsAssumption DEF TypeOK, Request, Row, NoRow
<1>5. CASE OpenSession(r)
  <2>1. End(r) \/ (Active(req[r].email) /\
           req' = [req EXCEPT ![r].at = "insert", ![r].n = accounts[req[r].email].n])
    BY <1>5 DEF OpenSession
  <2> QED
    BY <1>3, <1>4, <1>5, <2>1, Ended DEF Goes, Steps, Busy
<1>6. CASE Seek(r)
  <2>1. End(r) \/ \E at \in {"deactivate", "activate", "create", "purge"} :
           /\ req' = [req EXCEPT ![r].at = at, ![r].n = accounts[req[r].email].n]
           /\ at = "deactivate" => req[r].op = "suspend"
    BY <1>6 DEF Seek
  <2> QED
    BY <1>3, <1>4, <1>6, <2>1, Ended DEF Goes, Steps, Busy
<1>7. CASE CreateAccount(r)
  <2>1. CASE Has(req[r].email)
    BY <2>1, Ended, <1>7 DEF CreateAccount
  <2>2. CASE ~Has(req[r].email)
    <3>1. /\ rows[req[r].email] < MaxRow
          /\ req' = [req EXCEPT ![r].at = "invite", ![r].n = rows[req[r].email] + 1]
      BY <1>7, <2>2 DEF CreateAccount
    <3>2. rows[req[r].email] + 1 \in 0..MaxRow
      BY <1>1, <3>1, AccountsAssumption DEF TypeOK, Request
    <3> QED
      BY <3>1, <3>2, <1>3, <1>7 DEF Goes, Steps, Busy
  <2> QED
    BY <2>1, <2>2
<1>8. CASE RetireLinks(r)
  BY <1>2, <1>8 DEF RetireLinks, Goes, Steps, Busy
<1>9. CASE SetPassword(r)
  BY <1>2, <1>9 DEF SetPassword, Goes, Steps, Busy
<1>10. CASE CloseLink(r)
  <2>1. End(r) \/ Goto(r, "revoke")
    BY <1>10 DEF CloseLink
  <2> QED
    BY <1>2, <1>10, <2>1, Ended DEF Goes, Steps, Busy
<1>11. CASE Deactivate(r)
  BY <1>2, <1>11 DEF Deactivate, Goes, Steps, Busy
<1>12. CASE PurgeSessions(r)
  BY <1>2, <1>12 DEF PurgeSessions, Goes, Steps, Busy
<1>13. CASE \/ RevokeSessions(r) \/ Activate(r) \/ EraseAccount(r) \/ Die(r)
            \/ \E s \in SessionIds : InsertSession(r, s)
            \/ \E l \in LinkIds : IssueLink(r, l) \/ InviteLink(r, l)
  BY <1>13, Ended DEF RevokeSessions, Activate, EraseAccount, Die, InsertSession, IssueLink,
     InviteLink, NewLink
<1> QED
  BY <1>5, <1>6, <1>7, <1>8, <1>9, <1>10, <1>11, <1>12, <1>13 DEF Statement

\* Only the account of its address changes.
LEMMA StatementAccounts ==
    ASSUME TypeOK, NEW r \in Requests, Statement(r)
    PROVE  /\ backend' = backend
           /\ \A e \in Emails : e # req[r].email => accounts'[e] = accounts[e]
<1>1. req[r] \in Request /\ Of(r)[1] = req[r].email
  BY StatementMoves, BusyTyped
<1> QED
  BY <1>1 DEF Statement, OpenSession, RetireLinks, SetPassword, CloseLink, RevokeSessions, Seek,
         Deactivate, Activate, CreateAccount, PurgeSessions, EraseAccount, Die, InsertSession,
         IssueLink, InviteLink, SetActive, TypeOK, Request

\* A session stays as it is, or is closed, or is opened by a login.
Opened(r, s) ==
    /\ sessions[s] = Unused /\ req[r].at = "insert" /\ accounts' = accounts /\ Exists(Of(r))
    /\ sessions'[s] = [of |-> Of(r), pw |-> req[r].pw, raced |-> req[r].raced]

LEMMA StatementSessions ==
    ASSUME TypeOK, NEW r \in Requests, Statement(r), NEW s \in SessionIds, sessions'[s] # Unused
    PROVE  (sessions[s] # Unused /\ sessions'[s] = sessions[s]) \/ Opened(r, s)
<1>1. ASSUME NEW t \in SessionIds, InsertSession(r, t)
      PROVE  sessions'[s] = sessions[s] \/ Opened(r, s)
  BY <1>1 DEF InsertSession, Opened, At, TypeOK
<1>2. \A ids : sessions' = Killed(ids) => sessions'[s] = sessions[s]
  BY DEF Killed
<1>3. CASE PurgeSessions(r) \/ RevokeSessions(r) \/ EraseAccount(r)
  BY <1>2, <1>3 DEF PurgeSessions, RevokeSessions, EraseAccount
<1>4. CASE \/ OpenSession(r) \/ RetireLinks(r) \/ SetPassword(r) \/ CloseLink(r)
           \/ Seek(r) \/ Deactivate(r) \/ Activate(r) \/ CreateAccount(r) \/ Die(r)
           \/ \E l \in LinkIds : IssueLink(r, l) \/ InviteLink(r, l)
  BY <1>4 DEF OpenSession, RetireLinks, SetPassword, CloseLink, Seek,
         Deactivate, Activate, CreateAccount, Die, IssueLink, InviteLink
<1> QED
  BY <1>1, <1>3, <1>4 DEF Statement

\* A link keeps its account and its kind until it is closed, or is issued.
Kept(l) ==
    /\ links[l] # Unused /\ links'[l].of = links[l].of /\ links'[l].kind = links[l].kind
    /\ links'[l].raced = links[l].raced
Issued(r, l) ==
    /\ links[l] = Unused /\ ~Held(l) /\ Exists(Of(r)) /\ accounts' = accounts /\ req'[r] = Idle
    /\ links'[l].of = Of(r) /\ links'[l].used = "no"
    /\ links'[l].raced = (backend = "d1" /\ req[r].raced)
    /\ \/ req[r].at = "invite" /\ links'[l].kind = "invite"
       \/ req[r].at = "issue" /\ links'[l].kind = "reset" /\ MayRun(r)

LEMMA MarkedKeeps ==
    ASSUME TypeOK, NEW ls, NEW used, links' = Marked(ls, used), NEW l \in LinkIds,
           links'[l] # Unused
    PROVE  /\ Kept(l)
           /\ l \in ls => links'[l].used = used
           /\ l \notin ls => links'[l] = links[l]
<1>1. CASE l \in ls /\ links[l] # Unused
  <2>1. links[l] \in Link /\ links'[l] = [links[l] EXCEPT !.used = used]
    BY <1>1 DEF Marked, TypeOK
  <2> QED
    BY <1>1, <2>1 DEF Kept, Link
<1>2. CASE ~(l \in ls /\ links[l] # Unused)
  BY <1>2 DEF Marked, Kept
<1> QED
  BY <1>1, <1>2

LEMMA StatementLinks ==
    ASSUME TypeOK, NEW r \in Requests, Statement(r), NEW l \in LinkIds, links'[l] # Unused
    PROVE  \/ Kept(l) /\ links'[l] = links[l]
           \/ Kept(l) /\ SetPassword(r) /\ l \in req[r].link /\ links'[l].used = "yes"
           \/ Kept(l) /\ Die(r) /\ l \in req[r].link /\ links'[l].used = "torn"
           \/ Issued(r, l)
<1>1. ASSUME NEW k \in LinkIds, NEW kind, NewLink(r, k, kind)
      PROVE  \/ links'[l] = links[l]
             \/ /\ links[l] = Unused /\ ~Held(l) /\ Exists(Of(r)) /\ req'[r] = Idle
                /\ links'[l].of = Of(r) /\ links'[l].used = "no" /\ links'[l].kind = kind
                /\ links'[l].raced = (backend = "d1" /\ req[r].raced)
  <2>1. CASE Exists(Of(r)) /\ l = k
    <3> DEFINE b == backend = "d1" /\ req[r].raced
    <3>1. links'[l] = [kind |-> kind, of |-> Of(r), used |-> "no", raced |-> b]
      BY <1>1, <2>1 DEF NewLink, TypeOK
    <3>2. links[l] = Unused /\ ~Held(l) /\ req'[r] = Idle
      BY <1>1, <2>1 DEF NewLink, End, TypeOK
    <3> HIDE DEF b
    <3>3. links'[l].raced = b
      BY <3>1
    <3>4. links'[l].raced = (backend = "d1" /\ req[r].raced)
      BY <3>3, Zenon DEF b
    <3> QED
      BY <2>1, <3>1, <3>2, <3>4
  <2>2. CASE ~(Exists(Of(r)) /\ l = k)
    BY <1>1, <2>2 DEF NewLink, TypeOK
  <2> QED
    BY <2>1, <2>2
<1>2. CASE \E k \in LinkIds : IssueLink(r, k)
  <2>1. PICK k \in LinkIds : IssueLink(r, k)
    BY <1>2
  <2>2. NewLink(r, k, "reset") /\ At(r, "issue") /\ accounts' = accounts
    BY <2>1 DEF IssueLink
  <2> QED
    BY <1>1, <2>2 DEF At, Issued, Kept
<1>3. CASE \E k \in LinkIds : InviteLink(r, k)
  <2>1. PICK k \in LinkIds : InviteLink(r, k)
    BY <1>3
  <2>2. NewLink(r, k, "invite") /\ At(r, "invite") /\ accounts' = accounts
    BY <2>1 DEF InviteLink
  <2> QED
    BY <1>1, <2>2 DEF At, Issued, Kept
<1>4. CASE SetPassword(r)
  BY <1>4, MarkedKeeps DEF SetPassword
<1>5. CASE Die(r)
  <2>1. CASE req[r].at = "close"
    BY <1>5, <2>1, MarkedKeeps DEF Die
  <2>2. CASE req[r].at # "close"
    BY <1>5, <2>2 DEF Die, Kept
  <2> QED
    BY <2>1, <2>2
<1>6. CASE RetireLinks(r) \/ CloseLink(r) \/ EraseAccount(r)
  BY <1>6 DEF RetireLinks, CloseLink, EraseAccount, Closed, Kept
<1>7. CASE \/ OpenSession(r) \/ RevokeSessions(r)
           \/ Seek(r) \/ Deactivate(r) \/ Activate(r) \/ CreateAccount(r)
           \/ PurgeSessions(r) \/ \E s \in SessionIds : InsertSession(r, s)
  BY <1>7 DEF OpenSession, RevokeSessions, Seek, Deactivate, Activate, CreateAccount,
     PurgeSessions, InsertSession, Kept
<1> QED
  BY <1>2, <1>3, <1>4, <1>5, <1>6, <1>7 DEF Statement

-----------------------------------------------------------------------------
(* Beginning a request, and rows that disappear, preserve the invariant *)

LEMMA BeginKeepsBlocks ==
    ASSUME TypeOK, AccountsInv, NEW r \in Requests, NEW new, Begins(r, new)
    PROVE  /\ OverlapSeen' /\ LoginFresh' /\ ErasureSweeps' /\ IssueAlone' /\ NotOneself'
<1>1. new \in Request /\ Begin(r, new) /\ new.at \in {"open", "retire", "password", "seek"}
  BY DEF Begins
<1>2. UNCHANGED <<backend, ops, accounts, rows, sessions, links, cut>>
  BY DEF Begins
<1>3. /\ \A q \in Requests \ {r} :
            /\ Same(q)
            /\ Busy(q) => (req[q].raced => req'[q].raced)
            /\ Busy(q) /\ req[q].email = new.email => req'[q].raced /\ req'[r].raced
      /\ ~Busy(r)
      /\ req'[r].at = new.at /\ req'[r].op = new.op /\ req'[r].email = new.email
      /\ req'[r].n = new.n /\ req'[r].pw = new.pw /\ req'[r].link = new.link
      /\ req'[r].actor = new.actor
  BY <1>1, BeginFacts
<1>4. OverlapSeen'
  <2> SUFFICES ASSUME NEW q \in Requests, NEW t \in Requests, q # t, Busy(q)', Busy(t)',
                      req'[q].email = req'[t].email
               PROVE  req'[t].raced
    BY DEF OverlapSeen
  <2>1. CASE q # r /\ t # r
    BY <1>3, <2>1 DEF AccountsInv, OverlapSeen, Same, Busy
  <2>2. CASE q = r
    BY <1>3, <2>2 DEF Same, Busy
  <2>3. CASE t = r
    BY <1>3, <2>3 DEF Same, Busy
  <2> QED
    BY <2>1, <2>2, <2>3
<1>5. LoginFresh'
  <2> SUFFICES ASSUME NEW q \in Requests, req'[q].at \in {"open", "insert"}, ~req'[q].raced
               PROVE  /\ Active(req[q].email)' /\ accounts'[req'[q].email].pw = req'[q].pw
                      /\ req'[q].at = "insert" => Of(q)' = Id(req[q].email)'
    BY DEF LoginFresh
  <2>1. CASE q # r
    <3>1. Same(q) /\ ~req[q].raced
      BY <1>3, <2>1 DEF Same, Busy, Steps
    <3> QED
      BY <1>2, <3>1 DEF AccountsInv, LoginFresh, Same, Of, Id, Active, Has
  <2>2. CASE q = r
    <3>1. new.at = "open"
      BY <1>1, <1>3, <2>2
    <3> QED
      BY <1>2, <1>3, <2>2, <3>1 DEF Begins, Active, Has
  <2> QED
    BY <2>1, <2>2
<1>6. ErasureSweeps'
  BY <1>1, <1>2, <1>3 DEF AccountsInv, ErasureSweeps, Same, Of
<1>7. IssueAlone'
  <2> SUFFICES ASSUME NEW q \in Requests, NEW l \in LinkIds, req'[q].at = "issue",
                      backend' = "d1" => ~req'[q].raced,
                      links'[l] # Unused, links'[l].kind = "reset"
               PROVE  links'[l].of # Of(q)'
    BY DEF IssueAlone
  <2>1. q # r
    BY <1>1, <1>3
  <2>2. Same(q) /\ (backend = "d1" => ~req[q].raced)
    BY <1>2, <1>3, <2>1 DEF Same, Busy, Steps
  <2> QED
    BY <1>2, <2>2 DEF AccountsInv, IssueAlone, Same, Of
<1>8. NotOneself'
  <2> SUFFICES ASSUME NEW q \in Requests,
                      \/ req'[q].at = "seek" /\ req'[q].op = "suspend"
                      \/ req'[q].at = "deactivate"
               PROVE  req'[q].actor # req'[q].email
    BY DEF NotOneself
  <2>1. CASE q # r
    BY <1>3, <2>1 DEF AccountsInv, NotOneself, Same
  <2>2. CASE q = r
    BY <1>1, <1>3, <2>2 DEF Begins
  <2> QED
    BY <2>1, <2>2
<1> QED
  BY <1>4, <1>5, <1>6, <1>7, <1>8

LEMMA BeginKeepsRows ==
    ASSUME TypeOK, AccountsInv, NEW r \in Requests, NEW new, Begins(r, new)
    PROVE  /\ Owned' /\ LinkUses' /\ OldPasswordOut' /\ SuspendedOut' /\ OneResetLink'
<1>1. new \in Request /\ Begin(r, new) /\ new.at \in {"open", "retire", "password", "seek"}
  BY DEF Begins
<1>2. UNCHANGED <<backend, ops, accounts, rows, sessions, links, cut>>
  BY DEF Begins
<1>3. /\ \A q \in Requests \ {r} :
            /\ Same(q)
            /\ Busy(q) => (req[q].raced => req'[q].raced)
            /\ Busy(q) /\ req[q].email = new.email => req'[q].raced /\ req'[r].raced
      /\ ~Busy(r) /\ MayRun(r)
      /\ req'[r].at = new.at /\ req'[r].op = new.op /\ req'[r].email = new.email
      /\ req'[r].n = new.n /\ req'[r].link = new.link
  BY <1>1, BeginFacts
<1>4. Owned' /\ OneResetLink'
  BY <1>2 DEF AccountsInv, Owned, OneResetLink, Exists, Has
<1>5. \A id : Unfinished(id) => Unfinished(id)'
  BY <1>2, <1>3 DEF Unfinished, Revoking, Busy, Same, Of
<1>6. OldPasswordOut' /\ SuspendedOut'
  BY <1>2, <1>5 DEF AccountsInv, OldPasswordOut, SuspendedOut, Active, Has
<1>7. LinkUses'
  <2>1. ASSUME NEW q \in Requests, NEW l \in LinkIds, Using(q, l)'
        PROVE  /\ links'[l] # Unused =>
                     /\ links'[l].of = Of(q)'
                     /\ links'[l].kind = IF req'[q].op = "accept" THEN "invite" ELSE "reset"
               /\ req'[q].at = "password" =>
                     \/ links'[l] # Unused /\ links'[l].used # "yes"
                     \/ backend' = "d1" /\ req'[q].raced
    <3>1. CASE q # r
      <4>1. Same(q) /\ Using(q, l) /\ (req[q].raced => req'[q].raced)
        BY <1>3, <2>1, <3>1 DEF Same, Using, Busy, Steps
      <4> QED
        BY <1>2, <4>1 DEF AccountsInv, LinkUses, Same, Of
    <3>2. CASE q = r
      <4>1. /\ new.at = "password" /\ Usable(l) /\ links[l].of = <<new.email, new.n>>
            /\ links[l].kind = IF new.op = "accept" THEN "invite" ELSE "reset"
        BY <1>1, <1>3, <2>1, <3>2 DEF Begins, Using
      <4>2. links[l] # Unused
        BY <4>1 DEF Usable
      <4>3. links[l].used # "yes" \/ (backend = "d1" /\ req'[r].raced)
        <5> SUFFICES ASSUME links[l].used = "yes"
                     PROVE  backend = "d1" /\ req'[r].raced
          OBVIOUS
        <5>1. PICK t \in Requests : Using(t, l) /\ req[t].at = "close"
          BY <4>2 DEF AccountsInv, LinkUses
        <5>2. t # r /\ Busy(t)
          BY <1>3, <5>1 DEF Busy, Steps
        <5>3. links[l].of = Of(t)
          BY <4>2, <5>1 DEF AccountsInv, LinkUses
        <5>4. req[t].email = new.email
          BY <4>1, <5>3 DEF Of
        <5>5. req'[r].raced
          BY <1>3, <5>2, <5>4
        <5>6. backend = "d1"
          BY <1>3, <5>1, <5>2 DEF MayRun, Yields
        <5> QED
          BY <5>5, <5>6
      <4> QED
        BY <1>2, <1>3, <3>2, <4>1, <4>2, <4>3 DEF Of
    <3> QED
      BY <3>1, <3>2
  <2>2. ASSUME NEW l \in LinkIds, links'[l] # Unused, links'[l].used = "yes"
        PROVE  \E q \in Requests : (Using(q, l) /\ req[q].at = "close")'
    <3>1. PICK q \in Requests : Using(q, l) /\ req[q].at = "close"
      BY <1>2, <2>2 DEF AccountsInv, LinkUses
    <3>2. q # r
      BY <1>3, <3>1 DEF Busy, Steps
    <3> QED
      BY <1>3, <3>1, <3>2 DEF Same, Using
  <2> QED
    BY <2>1, <2>2 DEF LinkUses
<1> QED
  BY <1>4, <1>6, <1>7

LEMMA DropsKeep ==
    ASSUME TypeOK, AccountsInv, Drops
    PROVE  AccountsInv'
<1>1. /\ UNCHANGED <<backend, ops, accounts, rows, req>>
      /\ \A s \in SessionIds : sessions'[s] # Unused =>
            /\ sessions'[s] = sessions[s]
            /\ sessions[s].of \in cut => sessions[s].of \in cut'
      /\ \A l \in LinkIds : links'[l] = links[l] \/ (links'[l] = Unused /\ ~Held(l))
  BY DEF Drops
<1>2. Owned' /\ OneResetLink'
  BY <1>1 DEF AccountsInv, Owned, OneResetLink, Exists, Has
<1>3. OverlapSeen' /\ LoginFresh' /\ NotOneself'
  BY <1>1 DEF AccountsInv, OverlapSeen, LoginFresh, NotOneself, Busy, Active, Has, Of, Id
<1>4. ErasureSweeps' /\ IssueAlone'
  BY <1>1 DEF AccountsInv, ErasureSweeps, IssueAlone, Of
<1>5. LinkUses'
  <2>1. \A r \in Requests, l \in LinkIds : Using(r, l) => links'[l] = links[l]
    BY <1>1 DEF Using, Held, Busy, Steps
  <2>2. \A r \in Requests, l \in LinkIds : Using(r, l)' = Using(r, l)
    BY <1>1 DEF Using
  <2> QED
    BY <1>1, <2>1, <2>2 DEF AccountsInv, LinkUses, Of
<1>6. \A s \in SessionIds : sessions'[s] # Unused =>
         (Unfinished(sessions[s].of) => Unfinished(sessions[s].of)')
  <2> SUFFICES ASSUME NEW s \in SessionIds, sessions'[s] # Unused, Unfinished(sessions[s].of)
               PROVE  Unfinished(sessions[s].of)'
    OBVIOUS
  <2>2. sessions'[s].of = sessions[s].of
    BY <1>1
  <2>3. CASE sessions[s].of \in cut
    BY <1>1, <2>2, <2>3 DEF Unfinished
  <2>4. CASE \E q \in Requests : Revoking(q, sessions[s].of)
    <3>1. PICK q \in Requests : Revoking(q, sessions[s].of)
      BY <2>4
    <3>2. Revoking(q, sessions[s].of)'
      BY <1>1, <2>2, <3>1 DEF Revoking, Busy, Of
    <3> QED
      BY <3>2 DEF Unfinished
  <2> QED
    BY <2>3, <2>4 DEF Unfinished
<1>7. OldPasswordOut' /\ SuspendedOut'
  <2> SUFFICES ASSUME NEW s \in SessionIds, sessions'[s] # Unused,
                      \/ sessions'[s].pw # accounts'[sessions'[s].of[1]].pw
                      \/ ~Active(sessions[s].of[1])'
               PROVE  Unfinished(sessions[s].of)' \/ sessions'[s].raced
    BY <1>1 DEF OldPasswordOut, SuspendedOut
  <2>1. sessions'[s] = sessions[s] /\ sessions[s] # Unused /\ accounts' = accounts
    BY <1>1
  <2>2. Unfinished(sessions[s].of) \/ sessions[s].raced
    BY <2>1 DEF AccountsInv, OldPasswordOut, SuspendedOut, Active, Has
  <2> QED
    BY <1>6, <2>1, <2>2
<1> QED
  BY <1>2, <1>3, <1>4, <1>5, <1>7 DEF AccountsInv

LEMMA ReseedKeeps ==
    ASSUME TypeOK, AccountsInv, NEW e \in Bootstrap, Reseed(e)
    PROVE  AccountsInv'
<1>1. /\ UNCHANGED <<backend, ops, sessions, links, req>>
      /\ \A r \in Requests : req[r].at \notin Steps
      /\ cut \subseteq cut'
  BY ReseedFacts DEF Busy
<1>2. \A id \in Account : Exists(id) => Exists(id)'
  BY ReseedFacts DEF Exists, Has, Account
<1>3. \A s \in SessionIds : sessions[s] # Unused => sessions[s].of \in Account
  BY DEF TypeOK, Session
<1>4. \A l \in LinkIds : links[l] # Unused => links[l].of \in Account
  BY DEF TypeOK, Link
<1>5. Owned' /\ OneResetLink'
  BY <1>1, <1>2, <1>3, <1>4 DEF AccountsInv, Owned, OneResetLink
<1>6. OverlapSeen' /\ LoginFresh' /\ ErasureSweeps' /\ IssueAlone' /\ NotOneself'
  BY <1>1 DEF OverlapSeen, LoginFresh, ErasureSweeps, IssueAlone, NotOneself, Busy, Steps
<1>7. LinkUses'
  <2>1. \A r \in Requests, l \in LinkIds : ~Using(r, l) /\ ~Using(r, l)'
    BY <1>1 DEF Using, Steps
  <2> QED
    BY <1>1, <2>1 DEF AccountsInv, LinkUses
<1>8. ASSUME NEW s \in SessionIds, sessions[s] # Unused, sessions[s].of[1] = e
      PROVE  sessions[s].of \in cut'
  <2>1. Exists(sessions[s].of) /\ sessions[s].of \in Account
    BY <1>3, <1>8 DEF AccountsInv, Owned
  <2>2. Has(e) /\ sessions[s].of = Id(e)
    BY <1>8, <2>1 DEF Exists, Id, Account
  <2> QED
    BY <2>2, ReseedFacts
<1>9. ASSUME NEW s \in SessionIds, sessions[s] # Unused, sessions[s].of[1] # e,
             Unfinished(sessions[s].of) \/ sessions[s].raced
      PROVE  Unfinished(sessions[s].of)' \/ sessions'[s].raced
  BY <1>1, <1>9 DEF Unfinished, Revoking, Busy
<1>10. OldPasswordOut' /\ SuspendedOut'
  <2> SUFFICES ASSUME NEW s \in SessionIds, sessions[s] # Unused,
                      \/ sessions[s].pw # accounts'[sessions[s].of[1]].pw
                      \/ ~Active(sessions[s].of[1])'
               PROVE  Unfinished(sessions[s].of)' \/ sessions'[s].raced
    BY <1>1 DEF OldPasswordOut, SuspendedOut
  <2>1. CASE sessions[s].of[1] = e
    BY <1>1, <1>8, <2>1 DEF Unfinished
  <2>2. CASE sessions[s].of[1] # e
    <3>1. accounts'[sessions[s].of[1]] = accounts[sessions[s].of[1]]
      BY <1>3, <2>2, ReseedFacts DEF Account
    <3>2. Unfinished(sessions[s].of) \/ sessions[s].raced
      BY <1>1, <3>1 DEF AccountsInv, OldPasswordOut, SuspendedOut, Active, Has
    <3> QED
      BY <1>9, <2>2, <3>2
  <2> QED
    BY <2>1, <2>2
<1> QED
  BY <1>5, <1>6, <1>7, <1>10 DEF AccountsInv

-----------------------------------------------------------------------------
(* Statements preserve the invariant *)

\* An account goes only with its deletion, which takes its rows along.
LEMMA ExistsStays ==
    ASSUME TypeOK, NEW r \in Requests, Statement(r), NEW id, id[1] \in Emails, Exists(id)
    PROVE  \/ Exists(id)'
           \/ EraseAccount(r) /\ req[r].op = "delete" /\ id[1] = req[r].email
<1>1. CASE id[1] # req[r].email
  BY <1>1, StatementAccounts DEF Exists, Has
<1>2. CASE id[1] = req[r].email
  <2>1. accounts[id[1]] \in Row /\ Of(r)[1] = id[1]
    BY <1>2, StatementMoves, BusyTyped DEF Exists, Has, TypeOK
  <2>2. CASE SetPassword(r) \/ Deactivate(r) \/ Activate(r)
    <3> DEFINE w == accounts[id[1]]
    <3>1. \A a, b : [w EXCEPT !.pw = a].n = w.n /\ [w EXCEPT !.active = b].n = w.n
      BY <2>1 DEF Row
    <3>2. \A a, b : [w EXCEPT !.pw = a] # NoRow /\ [w EXCEPT !.active = b] # NoRow
      BY <2>1 DEF Row, NoRow
    <3>3. \/ accounts' = accounts
          \/ \E a : accounts' = [accounts EXCEPT ![id[1]] = [w EXCEPT !.pw = a]]
          \/ \E b : accounts' = [accounts EXCEPT ![id[1]] = [w EXCEPT !.active = b]]
      BY <1>2, <2>1, <2>2 DEF SetPassword, Deactivate, Activate, SetActive
    <3> HIDE DEF w
    <3>4. \A v : accounts' = [accounts EXCEPT ![id[1]] = v] => accounts'[id[1]] = v
      BY DEF TypeOK
    <3>5. accounts'[id[1]] # NoRow /\ accounts'[id[1]].n = accounts[id[1]].n
      BY <3>1, <3>2, <3>3, <3>4 DEF Exists, Has, w
    <3> QED
      BY <3>5 DEF Exists, Has
  <2>3. CASE EraseAccount(r)
    <3>1. [accounts[id[1]] EXCEPT !.active = FALSE] # NoRow
      BY <2>1 DEF Row, NoRow
    <3>2. [accounts[id[1]] EXCEPT !.active = FALSE].n = accounts[id[1]].n
      BY <2>1 DEF Row
    <3> QED
      BY <1>2, <2>3, <3>1, <3>2 DEF EraseAccount, Exists, Has, TypeOK
  <2>4. CASE CreateAccount(r)
    BY <1>2, <2>4 DEF CreateAccount, Exists, Has
  <2>5. CASE \/ OpenSession(r) \/ RetireLinks(r) \/ CloseLink(r)
             \/ RevokeSessions(r) \/ Seek(r) \/ PurgeSessions(r) \/ Die(r)
             \/ \E s \in SessionIds : InsertSession(r, s)
             \/ \E l \in LinkIds : IssueLink(r, l) \/ InviteLink(r, l)
    BY <2>5 DEF OpenSession, RetireLinks, CloseLink, RevokeSessions, Seek, PurgeSessions, Die,
       InsertSession, IssueLink, InviteLink, Exists, Has
  <2> QED
    BY <2>2, <2>3, <2>4, <2>5 DEF Statement
<1> QED
  BY <1>1, <1>2

LEMMA DeletedTakesAlong ==
    ASSUME TypeOK, NEW r \in Requests, EraseAccount(r), req[r].op = "delete"
    PROVE  /\ \A s \in SessionIds : sessions'[s] # Unused => sessions'[s].of[1] # req[r].email
           /\ \A l \in LinkIds : links'[l] # Unused => links'[l].of[1] # req[r].email
BY DEF EraseAccount, Killed, TypeOK, Session, Link

LEMMA StatementOwned ==
    ASSUME TypeOK, AccountsInv, NEW r \in Requests, Statement(r)
    PROVE  Owned'
<1>1. ASSUME NEW s \in SessionIds, sessions'[s] # Unused
      PROVE  Exists(sessions[s].of)'
  <2>1. CASE sessions[s] # Unused /\ sessions'[s] = sessions[s]
    <3>1. Exists(sessions[s].of) /\ sessions[s].of[1] \in Emails
      BY <2>1 DEF AccountsInv, Owned, TypeOK, Session, Account
    <3>2. \/ Exists(sessions[s].of)'
          \/ EraseAccount(r) /\ req[r].op = "delete" /\ sessions'[s].of[1] = req[r].email
      BY <2>1, <3>1, ExistsStays DEF Exists, Has
    <3> QED
      BY <1>1, <3>2, DeletedTakesAlong
  <2>2. CASE Opened(r, s)
    BY <2>2 DEF Opened, Exists, Has
  <2> QED
    BY <1>1, <2>1, <2>2, StatementSessions
<1>2. ASSUME NEW l \in LinkIds, links'[l] # Unused
      PROVE  Exists(links[l].of)'
  <2>1. CASE Kept(l)
    <3>1. Exists(links[l].of) /\ links[l].of[1] \in Emails
      BY <2>1 DEF AccountsInv, Owned, TypeOK, Link, Account, Kept
    <3>2. \/ Exists(links[l].of)'
          \/ EraseAccount(r) /\ req[r].op = "delete" /\ links'[l].of[1] = req[r].email
      BY <2>1, <3>1, ExistsStays DEF Kept, Exists, Has
    <3> QED
      BY <1>2, <3>2, DeletedTakesAlong
  <2>2. CASE Issued(r, l)
    BY <2>2 DEF Issued, Exists, Has
  <2> QED
    BY <1>2, <2>1, <2>2, StatementLinks
<1> QED
  BY <1>1, <1>2 DEF Owned

LEMMA StatementOverlap ==
    ASSUME TypeOK, AccountsInv, NEW r \in Requests, Statement(r)
    PROVE  OverlapSeen'
<1>1. \A q \in Requests : Busy(q)' => Busy(q) /\ req'[q].email = req[q].email
                                              /\ req'[q].raced = req[q].raced
  BY StatementMoves, StatementRequest DEF Moved, Busy
<1> QED
  BY <1>1 DEF AccountsInv, OverlapSeen

LEMMA StatementLogin ==
    ASSUME TypeOK, AccountsInv, NEW r \in Requests, Statement(r)
    PROVE  LoginFresh'
<1> SUFFICES ASSUME NEW q \in Requests, req'[q].at \in {"open", "insert"}, ~req'[q].raced
             PROVE  /\ Active(req[q].email)' /\ accounts'[req'[q].email].pw = req'[q].pw
                    /\ req'[q].at = "insert" => Of(q)' = Id(req[q].email)'
  BY DEF LoginFresh
<1>1. Busy(q)' /\ Busy(q)
  BY StatementMoves DEF Busy, Steps
<1>2. CASE q # r
  <2>1. req'[q] = req[q] /\ req[q].email # req[r].email
    BY <1>1, <1>2, StatementMoves DEF AccountsInv, OverlapSeen
  <2>2. accounts'[req[q].email] = accounts[req[q].email] /\ req[q].email \in Emails
    BY <1>1, <2>1, StatementAccounts, BusyTyped DEF Request
  <2> QED
    BY <2>1, <2>2 DEF AccountsInv, LoginFresh, Of, Id, Active, Has
<1>3. CASE q = r
  <2>1. Moved(r) /\ Goes(r)
    BY <1>1, <1>3, StatementRequest
  <2>2. /\ OpenSession(r) /\ req'[r].at = "insert" /\ Active(req[r].email)
        /\ req'[r].n = accounts[req[r].email].n
    BY <1>3, <2>1 DEF Goes
  <2>3. req[r].at = "open" /\ ~req[r].raced /\ accounts' = accounts
    BY <1>3, <2>1, <2>2 DEF OpenSession, At, Moved
  <2>4. accounts[req[r].email].pw = req[r].pw
    BY <2>3 DEF AccountsInv, LoginFresh
  <2> QED
    BY <1>3, <2>1, <2>2, <2>3, <2>4 DEF Moved, Of, Id, Active, Has
<1> QED
  BY <1>2, <1>3

LEMMA StatementErasure ==
    ASSUME TypeOK, AccountsInv, NEW r \in Requests, Statement(r)
    PROVE  ErasureSweeps'
<1> SUFFICES ASSUME NEW q \in Requests, NEW s \in SessionIds,
                    req'[q].at \in {"purge", "erase"},
                    sessions'[s] # Unused, sessions'[s].of[1] = req'[q].email,
                    req'[q].at = "purge" => sessions'[s].of # Of(q)'
             PROVE  sessions'[s].raced
  BY DEF ErasureSweeps
<1>1. Busy(q)' /\ Busy(q) /\ req[r] \in Request
  BY StatementMoves DEF Busy, Steps
<1>2. CASE q # r
  <2>1. req'[q] = req[q] /\ Of(q)' = Of(q)
    BY <1>2, StatementMoves DEF Of
  <2>2. CASE sessions[s] # Unused /\ sessions'[s] = sessions[s]
    BY <2>1, <2>2 DEF AccountsInv, ErasureSweeps
  <2>3. CASE Opened(r, s)
    <3>1. sessions'[s].raced = req[r].raced /\ sessions'[s].of[1] = req[r].email
      BY <2>3 DEF Opened, Of
    <3>2. Busy(r) /\ req[r].email = req[q].email
      BY <2>1, <3>1, StatementMoves
    <3> QED
      BY <1>1, <1>2, <3>1, <3>2 DEF AccountsInv, OverlapSeen
  <2> QED
    BY <2>2, <2>3, StatementSessions
<1>3. CASE q = r
  <2>1. Moved(r) /\ Goes(r)
    BY <1>1, <1>3, StatementRequest
  <2>2. \/ Seek(r) /\ req'[r].at = "purge" /\ req'[r].n = accounts[req[r].email].n
        \/ PurgeSessions(r) /\ req'[r].at = "erase"
    BY <1>3, <2>1 DEF Goes
  <2>6. CASE Seek(r)
    <3>1. sessions' = sessions /\ req'[r].n = accounts[req[r].email].n /\ req'[r].at = "purge"
      BY <2>2, <2>6 DEF Seek, PurgeSessions, At
    <3>2. sessions[s] \in Session /\ Exists(sessions[s].of)
      BY <1>1, <3>1 DEF AccountsInv, Owned, TypeOK
    <3>3. sessions[s].of = <<req[r].email, accounts[req[r].email].n>>
      BY <1>3, <2>1, <3>1, <3>2 DEF Moved, Session, Account, Exists
    <3> QED
      BY <1>3, <2>1, <3>1, <3>3 DEF Moved, Of
  <2>7. CASE PurgeSessions(r)
    <3>1. /\ req[r].at = "purge" /\ sessions' = Killed({Of(r)})
      BY <2>7 DEF PurgeSessions, At
    <3>2. sessions[s].of # Of(r) /\ sessions'[s] = sessions[s]
      BY <3>1 DEF Killed
    <3> QED
      BY <1>3, <2>1, <3>1, <3>2 DEF AccountsInv, ErasureSweeps, Moved
  <2> QED
    BY <2>2, <2>6, <2>7
<1> QED
  BY <1>2, <1>3

LEMMA StatementIssuesOne ==
    ASSUME TypeOK, NEW r \in Requests, Statement(r), NEW k \in LinkIds, NEW l \in LinkIds,
           links[k] = Unused, links[l] = Unused, links'[k] # Unused, links'[l] # Unused
    PROVE  k = l
<1>1. ASSUME NEW j \in LinkIds, NEW kind, NewLink(r, j, kind)
      PROVE  k = l
  BY <1>1 DEF NewLink, TypeOK
<1>2. CASE \E j \in LinkIds : IssueLink(r, j) \/ InviteLink(r, j)
  BY <1>1, <1>2 DEF IssueLink, InviteLink
<1>3. CASE RetireLinks(r) \/ CloseLink(r) \/ EraseAccount(r) \/ SetPassword(r) \/ Die(r)
  BY <1>3 DEF RetireLinks, CloseLink, EraseAccount, SetPassword, Die, Closed, Marked
<1>4. CASE \/ OpenSession(r) \/ RevokeSessions(r)
           \/ Seek(r) \/ Deactivate(r) \/ Activate(r) \/ CreateAccount(r)
           \/ PurgeSessions(r) \/ \E s \in SessionIds : InsertSession(r, s)
  BY <1>4 DEF OpenSession, RevokeSessions, Seek, Deactivate, Activate, CreateAccount,
     PurgeSessions, InsertSession
<1> QED
  BY <1>2, <1>3, <1>4 DEF Statement

LEMMA StatementIssue ==
    ASSUME TypeOK, AccountsInv, NEW r \in Requests, Statement(r)
    PROVE  IssueAlone' /\ OneResetLink'
<1>1. \A l \in LinkIds : links'[l] # Unused => Kept(l) \/ Issued(r, l)
  BY StatementLinks
<1>2. IssueAlone'
  <2> SUFFICES ASSUME NEW q \in Requests, NEW l \in LinkIds, req'[q].at = "issue",
                      backend' = "d1" => ~req'[q].raced,
                      links'[l] # Unused, links'[l].kind = "reset"
               PROVE  links'[l].of # Of(q)'
    BY DEF IssueAlone
  <2>1. Busy(q)' /\ Busy(q) /\ Busy(r) /\ backend' = backend
    BY StatementMoves, StatementAccounts DEF Busy, Steps
  <2>2. CASE q # r
    <3>1. req'[q] = req[q] /\ Of(q)' = Of(q)
      BY <2>2, StatementMoves DEF Of
    <3>2. CASE Kept(l)
      BY <2>1, <3>1, <3>2 DEF AccountsInv, IssueAlone, Kept
    <3>3. CASE Issued(r, l)
      <4>1. req[r].at = "issue" /\ MayRun(r) /\ links'[l].of = Of(r)
        BY <3>3 DEF Issued
      <4>2. backend = "d1"
        BY <2>1, <2>2, <3>1, <4>1 DEF MayRun, Yields
      <4>3. req[q].email # req[r].email
        BY <2>1, <2>2, <3>1, <4>2 DEF AccountsInv, OverlapSeen
      <4> QED
        BY <3>1, <4>1, <4>3 DEF Of
    <3> QED
      BY <1>1, <3>2, <3>3
  <2>3. CASE q = r
    <3>1. Moved(r) /\ RetireLinks(r) /\ req'[r].n = req[r].n
      BY <2>1, <2>3, StatementRequest DEF Goes
    <3>2. links' = Closed(Of(r), "reset") /\ Of(r)' = Of(r)
      BY <3>1 DEF RetireLinks, Moved, Of
    <3> QED
      BY <2>3, <3>2 DEF Closed
  <2> QED
    BY <2>2, <2>3
<1>3. OneResetLink'
  <2> SUFFICES ASSUME NEW k \in LinkIds, NEW l \in LinkIds, k # l,
                      links'[k] # Unused, links'[l] # Unused, links'[k].of = links'[l].of,
                      links'[k].kind = "reset", links'[l].kind = "reset"
               PROVE  links'[k].raced \/ links'[l].raced
    BY DEF OneResetLink
  <2>1. ASSUME NEW i \in LinkIds, NEW j \in LinkIds, Kept(i), Issued(r, j),
               links'[i].of = links'[j].of, links'[i].kind = "reset", links'[j].kind = "reset"
        PROVE  links'[j].raced
    <3>1. links[i].of = Of(r) /\ links[i].kind = "reset" /\ links[i] # Unused /\ req[r].at = "issue"
      BY <2>1 DEF Kept, Issued
    <3>2. backend = "d1" /\ req[r].raced
      BY <3>1 DEF AccountsInv, IssueAlone
    <3>3. links'[j].raced = (backend = "d1" /\ req[r].raced)
      BY <2>1 DEF Issued
    <3> QED
      BY <3>2, <3>3, Zenon
  <2>2. CASE Kept(k) /\ Kept(l)
    BY <2>2 DEF AccountsInv, OneResetLink, Kept
  <2>3. ~(Issued(r, k) /\ Issued(r, l))
    BY StatementIssuesOne DEF Issued
  <2> QED
    BY <1>1, <2>1, <2>2, <2>3
<1> QED
  BY <1>2, <1>3

LEMMA StatementLinkUses ==
    ASSUME TypeOK, AccountsInv, NEW r \in Requests, Statement(r)
    PROVE  LinkUses'
<1>0. /\ Busy(r) /\ backend' = backend
      /\ \A q \in Requests \ {r} : req'[q] = req[q]
  BY StatementMoves, StatementAccounts
<1>1. ASSUME NEW q \in Requests, NEW l \in LinkIds, Using(q, l)'
      PROVE  /\ links'[l] # Unused =>
                   /\ links'[l].of = Of(q)'
                   /\ links'[l].kind = IF req'[q].op = "accept" THEN "invite" ELSE "reset"
             /\ req'[q].at = "password" =>
                   \/ links'[l] # Unused /\ links'[l].used # "yes"
                   \/ backend' = "d1" /\ req'[q].raced
  <2>1. CASE q = r
    <3>1. Moved(r) /\ SetPassword(r) /\ req'[r].at = "close" /\ req'[r].n = req[r].n
      BY <1>1, <2>1, StatementRequest DEF Using, Goes, Busy, Steps
    <3>2. Using(r, l) /\ Of(r)' = Of(r) /\ req'[r].op = req[r].op
      BY <1>1, <2>1, <3>1 DEF SetPassword, At, Using, Moved, Of
    <3>3. links'[l] # Unused => Kept(l)
      BY <3>1, MarkedKeeps DEF SetPassword
    <3> QED
      BY <2>1, <3>1, <3>2, <3>3 DEF AccountsInv, LinkUses, Kept
  <2>2. CASE q # r
    <3>1. req'[q] = req[q] /\ Using(q, l) /\ Of(q)' = Of(q) /\ Busy(q) /\ Held(l)
      BY <1>0, <1>1, <2>2 DEF Using, Of, Busy, Steps, Held
    <3>2. links'[l] # Unused => Kept(l)
      BY <3>1, StatementLinks DEF Issued
    <3>3. ASSUME req[q].at = "password", ~(backend = "d1" /\ req[q].raced)
          PROVE  links'[l] # Unused /\ links'[l].used # "yes"
      <4>1. links[l] # Unused /\ links[l].used # "yes" /\ links[l].of = Of(q)
        BY <3>1, <3>3 DEF AccountsInv, LinkUses
      <4>2. MayRun(r) => Of(r) # links[l].of /\ req[r].email # req[q].email
        <5> SUFFICES ASSUME MayRun(r)
                     PROVE  req[r].email # req[q].email
          BY <4>1 DEF Of
        <5>1. backend = "d1"
          BY <2>2, <3>1, <3>3 DEF MayRun, Yields
        <5> QED
          BY <1>0, <2>2, <3>1, <3>3, <5>1 DEF AccountsInv, OverlapSeen
      <4>3. ASSUME MayRun(r), req[r].at \in {"password", "close"}
            PROVE  l \notin req[r].link
        BY <4>1, <4>2, <4>3 DEF AccountsInv, LinkUses, Using
      <4>4. CASE Die(r)
        <5>1. CASE req[r].at = "close"
          <6>1. links' = Marked(req[r].link, "torn") /\ links'[l] # Unused
            <7>1. links' = Marked(req[r].link, "torn")
              BY <4>4, <5>1 DEF Die
            <7>2. [links[l] EXCEPT !.used = "torn"].of = links[l].of
              BY <4>1 DEF TypeOK, Link
            <7> QED
              BY <4>1, <7>1, <7>2, UnusedIsNoRow DEF Marked, TypeOK, Link
          <6> QED
            BY <4>1, <6>1, MarkedKeeps
        <5>2. CASE req[r].at # "close"
          BY <4>1, <4>4, <5>2 DEF Die
        <5> QED
          BY <5>1, <5>2
      <4>5. CASE SetPassword(r)
        BY <4>1, <4>3, <4>5 DEF SetPassword, At, Marked
      <4>6. CASE CloseLink(r)
        BY <4>1, <4>2, <4>3, <4>6 DEF CloseLink, At, Closed
      <4>7. CASE RetireLinks(r)
        BY <4>1, <4>2, <4>7 DEF RetireLinks, At, Closed
      <4>8. CASE EraseAccount(r)
        BY <4>1, <4>2, <4>8 DEF EraseAccount, At, Of
      <4>9. CASE \E k \in LinkIds : IssueLink(r, k) \/ InviteLink(r, k)
        BY <4>1, <4>9 DEF IssueLink, InviteLink, NewLink, TypeOK
      <4>10. CASE \/ OpenSession(r) \/ RevokeSessions(r)
                  \/ Seek(r) \/ Deactivate(r) \/ Activate(r) \/ CreateAccount(r)
                  \/ PurgeSessions(r) \/ \E s \in SessionIds : InsertSession(r, s)
        BY <4>1, <4>10 DEF OpenSession, RevokeSessions, Seek, Deactivate, Activate,
           CreateAccount, PurgeSessions, InsertSession
      <4> QED
        BY <4>4, <4>5, <4>6, <4>7, <4>8, <4>9, <4>10 DEF Statement
    <3> QED
      BY <1>0, <3>1, <3>2, <3>3 DEF AccountsInv, LinkUses, Kept
  <2> QED
    BY <2>1, <2>2
<1>2. ASSUME NEW l \in LinkIds, links'[l] # Unused, links'[l].used = "yes"
      PROVE  \E q \in Requests : (Using(q, l) /\ req[q].at = "close")'
  <2>1. CASE SetPassword(r) /\ l \in req[r].link
    <3>1. Goto(r, "close") /\ req[r] \in Request
      BY <2>1, StatementMoves DEF SetPassword
    <3>2. Moved(r) /\ req'[r].at = "close"
      BY <3>1, MovedOn DEF Steps, Request
    <3> QED
      BY <2>1, <3>2 DEF Using, Moved
  <2>2. CASE Kept(l) /\ links'[l] = links[l] /\ ~(SetPassword(r) /\ l \in req[r].link)
    <3>1. PICK q \in Requests : Using(q, l) /\ req[q].at = "close"
      BY <1>2, <2>2 DEF AccountsInv, LinkUses, Kept
    <3>2. q # r
      <4> SUFFICES ASSUME q = r PROVE FALSE
        OBVIOUS
      <4>1. l \in req[r].link /\ req[r].at = "close" /\ links[l] # Unused
        BY <2>2, <3>1 DEF Using, Kept
      <4>2. /\ links[l].of = Of(r)
            /\ links[l].kind = IF req[r].op = "accept" THEN "invite" ELSE "reset"
        BY <3>1, <4>1 DEF AccountsInv, LinkUses
      <4>3. CloseLink(r) \/ Die(r)
        BY <4>1 DEF Statement, OpenSession, RetireLinks, SetPassword, RevokeSessions, Seek,
           Deactivate, Activate, CreateAccount, PurgeSessions, EraseAccount, InsertSession,
           IssueLink, InviteLink, At
      <4>4. CASE CloseLink(r)
        BY <1>2, <4>1, <4>2, <4>4 DEF CloseLink, Closed
      <4>5. CASE Die(r)
        <5>1. links' = Marked(req[r].link, "torn")
          BY <4>1, <4>5 DEF Die
        <5> QED
          BY <1>2, <4>1, <5>1, MarkedKeeps
      <4> QED
        BY <4>3, <4>4, <4>5
    <3> QED
      BY <1>0, <3>1, <3>2 DEF Using
  <2>3. CASE ~Kept(l) \/ links'[l] # links[l]
    BY <1>2, <2>1, <2>3, StatementLinks DEF Issued
  <2> QED
    BY <2>1, <2>2, <2>3
<1> QED
  BY <1>1, <1>2 DEF LinkUses

LEMMA StatementOneself ==
    ASSUME TypeOK, AccountsInv, NEW r \in Requests, Statement(r)
    PROVE  NotOneself'
<1> SUFFICES ASSUME NEW q \in Requests,
                    \/ req'[q].at = "seek" /\ req'[q].op = "suspend"
                    \/ req'[q].at = "deactivate"
             PROVE  req'[q].actor # req'[q].email
  BY DEF NotOneself
<1>1. CASE q # r
  BY <1>1, StatementMoves DEF AccountsInv, NotOneself
<1>2. CASE q = r
  <2>1. Moved(r) /\ Goes(r)
    BY <1>2, StatementRequest DEF Idle
  <2>2. Seek(r) /\ req[r].op = "suspend"
    BY <1>2, <2>1 DEF Goes
  <2> QED
    BY <1>2, <2>1, <2>2 DEF Seek, At, Moved, AccountsInv, NotOneself
<1> QED
  BY <1>1, <1>2

\* A change that still has to revoke goes on having to, until it does or dies.
LEMMA UnfinishedStays ==
    ASSUME TypeOK, AccountsInv, NEW r \in Requests, Statement(r),
           NEW s \in SessionIds, sessions[s] # Unused, sessions'[s] = sessions[s],
           NEW id, id = sessions[s].of, Unfinished(id)
    PROVE  Unfinished(id)'
<1>0. sessions[s] \in Session /\ Exists(id)
  BY DEF AccountsInv, Owned, TypeOK
<1>1. ASSUME id \in cut
      PROVE  id \in cut'
  <2>1. RevokeSessions(r) \/ PurgeSessions(r) => id # Of(r)
    BY <1>0 DEF RevokeSessions, PurgeSessions, Killed
  <2>2. EraseAccount(r) => ~(id \in Account /\ id[1] = req[r].email /\ req[r].op = "delete")
    BY <1>0 DEF EraseAccount, Killed
  <2> QED
    BY <1>1, <2>1, <2>2 DEF Statement, OpenSession, RetireLinks, SetPassword, CloseLink,
       RevokeSessions, Seek, Deactivate, Activate, CreateAccount, PurgeSessions, EraseAccount,
       Die, InsertSession, IssueLink, InviteLink
<1>2. ASSUME NEW q \in Requests, Revoking(q, id), q # r
      PROVE  Revoking(q, id)'
  BY <1>2, StatementMoves DEF Revoking, Busy, Of
<1>3. ASSUME Revoking(r, id)
      PROVE  Unfinished(id)'
  <2>1. CloseLink(r) \/ RevokeSessions(r) \/ Die(r)
    BY <1>3 DEF Revoking, Statement, OpenSession, RetireLinks, SetPassword, Seek,
       Deactivate, Activate, CreateAccount, PurgeSessions, EraseAccount, InsertSession,
       IssueLink, InviteLink, At
  <2>2. CASE CloseLink(r)
    <3>1. Goto(r, "revoke") /\ req[r] \in Request /\ req[r].n \in 0..MaxRow
      BY <1>3, <2>2, StatementMoves DEF CloseLink, Revoking, At, Request
    <3>2. Moved(r) /\ req'[r].at = "revoke" /\ req'[r].n = req[r].n
      BY <3>1, MovedOn DEF Steps
    <3> QED
      BY <1>3, <3>2 DEF Revoking, Unfinished, Moved, Busy, Of, Steps
  <2>3. CASE RevokeSessions(r)
    BY <1>0, <1>3, <2>3 DEF RevokeSessions, Killed, Revoking
  <2>4. CASE Die(r)
    BY <1>3, <2>4 DEF Die, Revoking, Unfinished
  <2> QED
    BY <2>1, <2>2, <2>3, <2>4
<1> QED
  BY <1>1, <1>2, <1>3 DEF Unfinished

\* What happens to the account of a session that lives on.
LEMMA AccountOfSession ==
    ASSUME TypeOK, AccountsInv, NEW r \in Requests, Statement(r),
           NEW s \in SessionIds, sessions[s] # Unused, sessions'[s] = sessions[s],
           NEW e, e = sessions[s].of[1]
    PROVE  /\ \/ accounts'[e].pw = accounts[e].pw
              \/ SetPassword(r) /\ sessions[s].of = Of(r) /\ Exists(Of(r))
           /\ Active(e) => \/ Active(e)'
                           \/ Deactivate(r) /\ sessions[s].of = Of(r)
                           \/ EraseAccount(r) /\ req[r].email = e
<1>0. /\ sessions[s] \in Session /\ Exists(sessions[s].of) /\ accounts[e] \in Row
      /\ sessions[s].of = <<e, accounts[e].n>> /\ e \in Emails
  BY DEF AccountsInv, Owned, TypeOK, Session, Account, Exists, Has
<1>1. CASE e # req[r].email
  BY <1>0, <1>1, StatementAccounts DEF Active, Has
<1>2. CASE e = req[r].email
  <2>0. Exists(Of(r)) => sessions[s].of = Of(r)
    BY <1>0, <1>2 DEF Exists, Of
  <2>1. \A v : accounts' = [accounts EXCEPT ![e] = v] => accounts'[e] = v
    BY <1>0 DEF TypeOK
  <2>4. CASE SetPassword(r)
    <3>1. CASE Exists(Of(r))
      <4>1. PICK a : accounts' = [accounts EXCEPT ![e] = [accounts[e] EXCEPT !.pw = a]]
        BY <1>2, <2>4, <3>1 DEF SetPassword
      <4> DEFINE v == [accounts[e] EXCEPT !.pw = a]
      <4>2. v.active = accounts[e].active /\ v # NoRow
        BY <1>0 DEF Row, NoRow
      <4>3. accounts' = [accounts EXCEPT ![e] = v]
        BY <4>1
      <4> HIDE DEF v
      <4>4. accounts'[e].active = accounts[e].active /\ accounts'[e] # NoRow
        BY <2>1, <4>2, <4>3
      <4> QED
        BY <2>0, <2>4, <3>1, <4>4 DEF Active, Has
    <3>2. CASE ~Exists(Of(r))
      BY <2>4, <3>2 DEF SetPassword, Active, Has
    <3> QED
      BY <3>1, <3>2
  <2>5. CASE Deactivate(r) \/ Activate(r)
    <3>1. PICK b \in BOOLEAN : SetActive(Of(r), b) /\ (Activate(r) => b = TRUE)
      BY <2>5 DEF Deactivate, Activate
    <3>2. CASE Exists(Of(r))
      <4>1. accounts' = [accounts EXCEPT ![e] = [accounts[e] EXCEPT !.active = b]]
        BY <1>2, <3>1, <3>2 DEF SetActive, Of
      <4> DEFINE v == [accounts[e] EXCEPT !.active = b]
      <4>2. v.pw = accounts[e].pw /\ v.active = b /\ v # NoRow
        BY <1>0 DEF Row, NoRow
      <4>3. accounts' = [accounts EXCEPT ![e] = v]
        BY <4>1
      <4> HIDE DEF v
      <4>4. accounts'[e].pw = accounts[e].pw /\ accounts'[e].active = b /\ accounts'[e] # NoRow
        BY <2>1, <4>2, <4>3
      <4> QED
        BY <2>0, <2>5, <3>1, <3>2, <4>4 DEF Active, Has
    <3>3. CASE ~Exists(Of(r))
      BY <3>1, <3>3 DEF SetActive, Active, Has
    <3> QED
      BY <3>2, <3>3
  <2>6. CASE EraseAccount(r)
    <3>1. req[r].op # "delete"
      BY <1>0, <1>2, <2>6, UnusedIsNoRow DEF EraseAccount, Killed, Session
    <3>2. accounts' = [accounts EXCEPT ![e] = [accounts[e] EXCEPT !.active = FALSE]]
      BY <1>0, <1>2, <2>6, <3>1 DEF EraseAccount, Exists
    <3>3. [accounts[e] EXCEPT !.active = FALSE].pw = accounts[e].pw
      BY <1>0 DEF Row
    <3>4. accounts'[e].pw = accounts[e].pw
      BY <2>1, <3>2, <3>3
    <3> QED
      BY <1>2, <2>6, <3>4
  <2>7. CASE CreateAccount(r)
    BY <1>0, <1>2, <2>7 DEF CreateAccount, Exists, Active, Has
  <2>8. CASE \/ OpenSession(r) \/ RetireLinks(r) \/ CloseLink(r)
             \/ RevokeSessions(r) \/ Seek(r) \/ PurgeSessions(r) \/ Die(r)
             \/ \E t \in SessionIds : InsertSession(r, t)
             \/ \E l \in LinkIds : IssueLink(r, l) \/ InviteLink(r, l)
    BY <2>8 DEF OpenSession, RetireLinks, CloseLink, RevokeSessions, Seek, PurgeSessions, Die,
       InsertSession, IssueLink, InviteLink, Active, Has
  <2> QED
    BY <2>4, <2>5, <2>6, <2>7, <2>8 DEF Statement
<1> QED
  BY <1>1, <1>2

LEMMA StatementSessionsOut ==
    ASSUME TypeOK, AccountsInv, NEW r \in Requests, Statement(r)
    PROVE  OldPasswordOut' /\ SuspendedOut'
<1> SUFFICES ASSUME NEW s \in SessionIds, sessions'[s] # Unused,
                    \/ sessions'[s].pw # accounts'[sessions'[s].of[1]].pw
                    \/ ~Active(sessions[s].of[1])'
             PROVE  Unfinished(sessions[s].of)' \/ sessions'[s].raced
  BY DEF OldPasswordOut, SuspendedOut
<1>1. CASE Opened(r, s)
  <2>1. /\ req[r].at = "insert" /\ accounts' = accounts
        /\ sessions'[s].of[1] = req[r].email /\ sessions'[s].pw = req[r].pw
        /\ sessions'[s].raced = req[r].raced
    BY <1>1 DEF Opened, Of
  <2>2. req[r].raced \/ (Active(req[r].email) /\ accounts[req[r].email].pw = req[r].pw)
    BY <2>1 DEF AccountsInv, LoginFresh
  <2> QED
    BY <2>1, <2>2 DEF Active, Has
<1>2. CASE sessions[s] # Unused /\ sessions'[s] = sessions[s]
  <2> DEFINE id == sessions[s].of
             e == id[1]
  <2>0. sessions'[s].of = id
    BY <1>2
  <2>1. CASE sessions[s].pw # accounts[e].pw \/ ~Active(e)
    <3>1. Unfinished(id) \/ sessions[s].raced
      BY <1>2, <2>1 DEF AccountsInv, OldPasswordOut, SuspendedOut
    <3>2. ASSUME Unfinished(id)
          PROVE  Unfinished(sessions[s].of)'
      <4>1. \A i : i = id => (Unfinished(i) => Unfinished(i)')
        BY <1>2, UnfinishedStays
      <4> QED
        BY <2>0, <3>2, <4>1 DEF Unfinished, Revoking
    <3> QED
      BY <1>2, <3>1, <3>2
  <2>2. CASE sessions[s].pw = accounts[e].pw /\ Active(e)
    <3>1. /\ \/ accounts'[e].pw = accounts[e].pw
             \/ SetPassword(r) /\ id = Of(r) /\ Exists(Of(r))
          /\ \/ accounts'[e] # NoRow /\ accounts'[e].active
             \/ Deactivate(r) /\ id = Of(r)
             \/ EraseAccount(r) /\ req[r].email = e
      BY <1>2, <2>2, AccountOfSession DEF Active, Has
    <3>2. CASE EraseAccount(r) /\ req[r].email = e
      BY <1>2, <3>2 DEF EraseAccount, At, AccountsInv, ErasureSweeps
    <3>3. CASE Deactivate(r) /\ id = Of(r)
      <4>1. Moved(r) /\ req'[r].at = "revoke" /\ req'[r].n = req[r].n
        BY <3>3, StatementMoves, MovedOn DEF Deactivate, Steps, Request
      <4> QED
        BY <2>0, <3>3, <4>1 DEF Unfinished, Revoking, Of, Moved, Busy, Steps
    <3>4. CASE SetPassword(r) /\ id = Of(r) /\ Exists(Of(r))
      <4>1. Moved(r) /\ req'[r].at = "close" /\ req'[r].n = req[r].n
        BY <3>4, StatementMoves, MovedOn DEF SetPassword, Steps, Request
      <4>2. CASE req[r].op = "accept"
        BY <2>0, <3>4, <4>2 DEF SetPassword, Unfinished
      <4>3. CASE req[r].op # "accept"
        BY <2>0, <3>4, <4>1, <4>3 DEF Unfinished, Revoking, Of, Moved, Busy, Steps
      <4> QED
        BY <4>2, <4>3
    <3>5. CASE accounts'[e].pw = accounts[e].pw /\ accounts'[e] # NoRow /\ accounts'[e].active
      BY <1>2, <2>0, <2>2, <3>5 DEF Active, Has
    <3> QED
      BY <3>1, <3>2, <3>3, <3>4, <3>5
  <2> QED
    BY <2>1, <2>2
<1> QED
  BY <1>1, <1>2, StatementSessions

-----------------------------------------------------------------------------
(* The theorems *)

LEMMA InvInit == Init => AccountsInv
<1> SUFFICES ASSUME Init PROVE AccountsInv
  OBVIOUS
<1>1. /\ \A s \in SessionIds : sessions[s] = Unused
      /\ \A l \in LinkIds : links[l] = Unused
      /\ \A r \in Requests : req[r] = Idle
  BY DEF Init
<1>2. Owned /\ OldPasswordOut /\ SuspendedOut /\ OneResetLink
  BY <1>1 DEF Owned, OldPasswordOut, SuspendedOut, OneResetLink
<1>3. OverlapSeen /\ LoginFresh /\ ErasureSweeps /\ IssueAlone /\ LinkUses /\ NotOneself
  BY <1>1 DEF OverlapSeen, LoginFresh, ErasureSweeps, IssueAlone, LinkUses, NotOneself, Using,
     Busy, Idle, Steps
<1> QED
  BY <1>2, <1>3 DEF AccountsInv

LEMMA InvStep == TypeOK /\ AccountsInv /\ [Next]_vars => AccountsInv'
<1> SUFFICES ASSUME TypeOK, AccountsInv, [Next]_vars PROVE AccountsInv'
  OBVIOUS
<1>1. ASSUME NEW r \in Requests, Statement(r)
      PROVE  AccountsInv'
  BY <1>1, StatementOwned, StatementOverlap, StatementLogin, StatementErasure, StatementIssue,
     StatementLinkUses, StatementOneself, StatementSessionsOut DEF AccountsInv
<1>2. ASSUME NEW r \in Requests, NEW new, Begins(r, new)
      PROVE  AccountsInv'
  BY <1>2, BeginKeepsBlocks, BeginKeepsRows DEF AccountsInv
<1>3. CASE Drops
  BY <1>3, DropsKeep
<1>4. CASE UNCHANGED vars
  BY <1>4 DEF vars, AccountsInv, Owned, OverlapSeen, LoginFresh, ErasureSweeps, IssueAlone,
     LinkUses, NotOneself, OldPasswordOut, SuspendedOut, OneResetLink, Exists, Has, Busy,
     Active, Of, Id, Using, Unfinished, Revoking
<1> QED
  BY <1>1, <1>2, <1>3, <1>4, ReseedKeeps, StepCases

\* Every state is of the types of the tables and requests (sqlite-schema.sql).
THEOREM AccountsTyped == Spec => []TypeOK
BY TypeInit, TypeStep, PTL DEF Spec

\* The inductive invariant: who owns the rows, and what overlaps what.
THEOREM AccountsHold == Spec => [](TypeOK /\ AccountsInv)
BY TypeInit, TypeStep, InvInit, InvStep, PTL DEF Spec

\* A replaced password leaves no session that was opened with it, up to overlap, death
\* and acceptance of an invitation (consumePasswordResetToken).
THEOREM PasswordReplaced == Spec => []OldPasswordOut
<1>1. AccountsInv => OldPasswordOut
  BY DEF AccountsInv
<1> QED
  BY <1>1, AccountsHold, PTL

\* A suspended account has no session, up to overlap and death (suspendAdminUser,
\* purgeUserData).
THEOREM SuspensionHolds == Spec => []SuspendedOut
<1>1. AccountsInv => SuspendedOut
  BY DEF AccountsInv
<1> QED
  BY <1>1, AccountsHold, PTL

\* An account has one open reset link, up to overlap on D1 (issuePasswordResetToken).
THEOREM OneLinkOpen == Spec => []OneResetLink
<1>1. AccountsInv => OneResetLink
  BY DEF AccountsInv
<1> QED
  BY <1>1, AccountsHold, PTL

\* A link sets one password, up to overlap on D1 (consumePasswordResetToken,
\* consumeInviteToken).
THEOREM LinkOnce == Spec => LinkSetsOnce
<1>1. ASSUME AccountsInv
      PROVE  \A r \in Requests :
               req[r].at = "password" /\ req'[r].at = "close"
                   => \A l \in req[r].link : l \in LinkIds =>
                        \/ links[l] # Unused /\ links[l].used # "yes"
                        \/ backend = "d1" /\ req[r].raced
  BY <1>1 DEF AccountsInv, LinkUses, Using
<1>2. ASSUME TypeOK, AccountsInv
      PROVE  \A r \in Requests :
               req[r].at = "password" /\ req'[r].at = "close"
                   => \A l \in req[r].link : \/ links[l] # Unused /\ links[l].used # "yes"
                                             \/ backend = "d1" /\ req[r].raced
  <2> SUFFICES ASSUME NEW r \in Requests, req[r].at = "password", req'[r].at = "close",
                      NEW l \in req[r].link
               PROVE  \/ links[l] # Unused /\ links[l].used # "yes"
                      \/ backend = "d1" /\ req[r].raced
    OBVIOUS
  <2>1. l \in LinkIds
    BY <1>2, BusyTyped DEF Busy, Steps, Request
  <2> QED
    BY <1>1, <1>2, <2>1
<1>3. TypeOK /\ AccountsInv => [\A r \in Requests :
         req[r].at = "password" /\ req'[r].at = "close"
             => \A l \in req[r].link : \/ links[l] # Unused /\ links[l].used # "yes"
                                       \/ backend = "d1" /\ req[r].raced]_vars
  BY <1>2
<1> QED
  BY <1>3, AccountsHold, PTL DEF LinkSetsOnce

\* Whoever suspends the last active account is not active himself any more
\* (suspendAdminUser).
THEOREM SomebodyStays == Spec => LastOneStays
<1>1. ASSUME TypeOK, AccountsInv, [Next]_vars
      PROVE  [\A r \in Requests :
         req[r].at = "deactivate" /\ req'[r].at = "revoke" /\ (\A e \in Emails : ~Active(e)')
             => ~Active(req[r].actor) \/ ~Active(req[r].email)]_vars
  <2> SUFFICES ASSUME ~UNCHANGED vars, NEW r \in Requests,
                      req[r].at = "deactivate", req'[r].at = "revoke",
                      \A e \in Emails : ~Active(e)'
               PROVE  ~Active(req[r].actor)
    OBVIOUS
  <2>1. Busy(r) /\ req[r] \in Request /\ req[r].actor \in Emails
    BY <1>1, BusyTyped DEF Busy, Steps, Request
  <2>2. req[r].actor # req[r].email
    BY <1>1 DEF AccountsInv, NotOneself
  <2>3. Statement(r)
    <3>1. ASSUME NEW q \in Requests, Statement(q)
          PROVE  q = r
      BY <1>1, <3>1, StatementMoves
    <3>2. ASSUME NEW q \in Requests, NEW new, Begins(q, new)
          PROVE  FALSE
      <4>1. /\ \A t \in Requests \ {q} : req'[t].at = req[t].at
            /\ ~Busy(q)
        BY <1>1, <3>2, BeginFacts DEF Begins, Same
      <4> QED
        BY <2>1, <4>1
    <3>3. ~Drops
      BY DEF Drops
    <3>4. \A e \in Bootstrap : ~Reseed(e)
      BY <2>1 DEF Reseed
    <3> QED
      BY <1>1, <3>1, <3>2, <3>3, <3>4, StepCases
  <2>4. accounts'[req[r].actor] = accounts[req[r].actor]
    BY <1>1, <2>1, <2>2, <2>3, StatementAccounts
  <2> QED
    BY <2>1, <2>4 DEF Active, Has
<1> QED
  BY <1>1, AccountsHold, PTL DEF LastOneStays, Spec
=============================================================================

------------------------------ MODULE Accounts ------------------------------
(***************************************************************************)
(* Accounts of the admin panel: invitations, password resets, sessions,    *)
(* suspension and erasure (auth-repository-factory.ts and                  *)
(* user-repository-factory.ts on node:sqlite; runtime-admin-auth.ts,       *)
(* runtime-actions-users.ts, runtime-actions-password-reset.ts and         *)
(* d1-purge.ts on Cloudflare D1).                                          *)
(*                                                                         *)
(* A handler is a sequence of statements, each committed by itself, and    *)
(* may be cut off after any of them.  On D1 every statement is awaited and *)
(* the statements of different handlers interleave; on SQLite a handler    *)
(* gives way only where it awaits: a login between verifying the password  *)
(* and creating the session, an administrator's action between its guard   *)
(* and its first statement.                                                *)
(*                                                                         *)
(* A row of admin_users is the e-mail address and how many rows that       *)
(* address has had (ids are AUTOINCREMENT and never used again); its       *)
(* password is how often it has been set.  Two requests overlap when both  *)
(* are under way for the same address.                                     *)
(***************************************************************************)
EXTENDS Naturals, FiniteSets

CONSTANTS
    Emails,
    Admins,      \* addresses whose account may manage users
    Bootstrap,   \* addresses of loadBootstrapUsers, administrators and editors
    Requests,    \* HTTP requests, one under way each
    SessionIds,
    LinkIds,     \* reset and invitation links
    Backends,    \* the backends to look at
    Mixes,       \* the sets of operations to look at together
    MaxRow,      \* bound: rows an address ever has
    MaxPw        \* bound: passwords of a row; from then on it is set to the last again

ASSUME AccountsAssumption ==
    /\ Admins \subseteq Emails /\ Bootstrap \subseteq Emails
    /\ Backends \subseteq {"sqlite", "d1"}
    /\ Mixes \subseteq SUBSET {"login", "issue", "reset", "accept", "suspend", "restore",
                               "invite", "erase", "delete"}
    /\ MaxRow \in Nat \ {0}
    /\ MaxPw \in Nat

VARIABLES
    backend,
    ops,       \* the operations this run of the system sees
    accounts,  \* admin_users: address -> row
    rows,      \* address -> rows it has had
    sessions,  \* admin_sessions: id -> row that is not revoked
    links,     \* password_reset_tokens and user_invites: id -> row that can be used
    req,       \* the requests under way
    cut        \* history: accounts that were changed, and whose sessions were not
               \* revoked after it because the handler died or does not do that

vars == <<backend, ops, accounts, rows, sessions, links, req, cut>>

-----------------------------------------------------------------------------
(* Types *)

Account   == Emails \X (1..MaxRow)     \* user_id
Row       == [n : 1..MaxRow, pw : 0..MaxPw, active : BOOLEAN]
NoRow     == [n |-> 0]

\* A session that is neither revoked nor deleted; nothing looks at the others again.
\* pw, raced: history, the password it was opened with and whether the login overlapped.
Session   == [of : Account, pw : 0..MaxPw, raced : BOOLEAN]
\* A link that is neither used up nor expired.  used, raced: history, whether it has
\* set a password although it is still open, whether it was issued during an overlap.
Link      == [kind : {"reset", "invite"}, of : Account, used : {"no", "yes", "torn"},
              raced : BOOLEAN]
Unused    == [of |-> <<>>]

Steps == {"open", "insert", "retire", "issue", "password", "close", "revoke",
          "seek", "deactivate", "activate", "create", "invite", "purge", "erase"}
Request == [op : {"login", "issue", "reset", "accept", "suspend", "restore", "invite", "erase", "delete"},
            at : Steps, email : Emails, n : 0..MaxRow, pw : 0..MaxPw,
            link : SUBSET LinkIds, actor : Emails, raced : BOOLEAN]
Idle    == [at |-> "idle"]

TypeOK ==
    /\ backend \in Backends /\ ops \in Mixes
    /\ accounts \in [Emails -> Row \cup {NoRow}]
    /\ \A e \in Emails : accounts[e] # NoRow => accounts[e].n = rows[e]
    /\ rows \in [Emails -> 0..MaxRow]
    /\ sessions \in [SessionIds -> Session \cup {Unused}]
    /\ links \in [LinkIds -> Link \cup {Unused}]
    /\ req \in [Requests -> Request \cup {Idle}]
    /\ cut \subseteq Emails \X (0..MaxRow)

-----------------------------------------------------------------------------
(* What the queries see *)

Has(e)     == accounts[e] # NoRow
Active(e)  == Has(e) /\ accounts[e].active
Id(e)      == <<e, accounts[e].n>>
Exists(id) == Has(id[1]) /\ accounts[id[1]].n = id[2]     \* WHERE id = ?, or a foreign key

\* SQL_FIND_LIVE_SESSION.
Signed(s) == /\ sessions[s] # Unused
             /\ Exists(sessions[s].of) /\ Active(sessions[s].of[1])

\* isUsableToken.
Usable(l) == /\ links[l] # Unused
             /\ Exists(links[l].of) /\ Active(links[l].of[1])

\* UPDATE admin_sessions SET revoked_at, or DELETE FROM admin_sessions.
Killed(ids) == [s \in SessionIds |-> IF sessions[s].of \in ids THEN Unused ELSE sessions[s]]
Closed(id, kind) ==
    [l \in LinkIds |-> IF links[l].of = id /\ links[l].kind = kind THEN Unused ELSE links[l]]

-----------------------------------------------------------------------------
(* Requests *)

Busy(r)  == req[r].at \in Steps
Of(r)    == <<req[r].email, req[r].n>>    \* the user_id the handler has read
Yields   == {"open", "seek"}              \* where a SQLite handler awaits
MayRun(r) == backend = "d1" \/ \A q \in Requests \ {r} : Busy(q) => req[q].at \in Yields

Begin(r, new) ==
    LET others == {q \in Requests \ {r} : Busy(q) /\ req[q].email = new.email}
    IN /\ new.op \in ops /\ ~Busy(r) /\ MayRun(r)
       /\ req' = [q \in Requests |->
                    IF q = r THEN [new EXCEPT !.raced = others # {}]
                    ELSE IF q \in others THEN [req[q] EXCEPT !.raced = TRUE] ELSE req[q]]

Goto(r, at) == req' = [req EXCEPT ![r].at = at]
End(r)      == req' = [req EXCEPT ![r] = Idle]
At(r, at)   == req[r].at = at /\ MayRun(r)

-----------------------------------------------------------------------------
(* Signing in and out *)

\* authenticatePersistedAdminUser: right password, active account.
BeginLogin(r, e) ==
    /\ Active(e)
    /\ Begin(r, [op |-> "login", at |-> "open", email |-> e, n |-> 0, pw |-> accounts[e].pw,
                 link |-> {}, actor |-> e, raced |-> FALSE])
    /\ UNCHANGED <<backend, ops, accounts, rows, sessions, links, cut>>

\* createSession looks the address up again, and throws if it is not active.
OpenSession(r) ==
    LET e == req[r].email
    IN /\ At(r, "open")
       /\ IF Active(e)
          THEN req' = [req EXCEPT ![r].at = "insert", ![r].n = accounts[e].n]
          ELSE End(r)
       /\ UNCHANGED <<backend, ops, accounts, rows, sessions, links, cut>>

\* INSERT INTO admin_sessions; the foreign key refuses a user_id that is gone.
InsertSession(r, s) ==
    /\ At(r, "insert") /\ sessions[s] = Unused
    /\ sessions' = IF Exists(Of(r))
                   THEN [sessions EXCEPT ![s] = [of |-> Of(r), pw |-> req[r].pw,
                                                 raced |-> req[r].raced]]
                   ELSE sessions
    /\ End(r)
    /\ UNCHANGED <<backend, ops, accounts, rows, links, cut>>

\* SESSION_TTL_MS passes without a request of the session: the next request of anybody
\* sweeps it, and its own finds it too old.
Lapse(s) ==
    /\ sessions[s] # Unused
    /\ sessions' = [sessions EXCEPT ![s] = Unused]
    /\ UNCHANGED <<backend, ops, accounts, rows, links, req, cut>>

\* session.ts?logout=1.
Logout(s) ==
    /\ \A q \in Requests : MayRun(q)
    /\ Signed(s)
    /\ sessions' = [sessions EXCEPT ![s] = Unused]
    /\ UNCHANGED <<backend, ops, accounts, rows, links, req, cut>>

\* astropress auth emergency-revoke: one statement, from another process.
EmergencyRevoke(emails) ==
    /\ backend = "sqlite"
    /\ sessions' = Killed({id \in Account : id[1] \in emails /\ Exists(id)})
    /\ cut' = {id \in cut : ~(id[1] \in emails /\ Exists(id))}
    /\ UNCHANGED <<backend, ops, accounts, rows, links, req>>

-----------------------------------------------------------------------------
(* Reset and invitation links *)

\* issuePasswordResetToken, for anyone who names the address of an active account.
BeginIssue(r, e) ==
    /\ Active(e)
    /\ Begin(r, [op |-> "issue", at |-> "retire", email |-> e, n |-> accounts[e].n, pw |-> 0,
                 link |-> {}, actor |-> e, raced |-> FALSE])
    /\ UNCHANGED <<backend, ops, accounts, rows, sessions, links, cut>>

\* Mutant: the old links stay.
RetireLinks_none(r) ==
    /\ At(r, "retire")
    /\ Goto(r, "issue")
    /\ UNCHANGED <<backend, ops, accounts, rows, sessions, links, cut>>

RetireLinks(r) ==
    /\ At(r, "retire")
    /\ links' = Closed(Of(r), "reset")
    /\ Goto(r, "issue")
    /\ UNCHANGED <<backend, ops, accounts, rows, sessions, cut>>

Held(l) == \E q \in Requests : Busy(q) /\ l \in req[q].link

NewLink(r, l, kind) ==
    /\ links[l] = Unused /\ ~Held(l)
    /\ links' = IF Exists(Of(r))
                THEN [links EXCEPT ![l] = [kind |-> kind, of |-> Of(r), used |-> "no",
                                           raced |-> backend = "d1" /\ req[r].raced]]
                ELSE links
    /\ End(r)

IssueLink(r, l) ==
    /\ At(r, "issue")
    /\ NewLink(r, l, "reset")
    /\ UNCHANGED <<backend, ops, accounts, rows, sessions, cut>>

\* An hour, or seven days, have passed; not while a request is on its way from the
\* check to the password.
Expire(l) ==
    /\ links[l] # Unused /\ ~Held(l)
    /\ links' = [links EXCEPT ![l] = Unused]
    /\ UNCHANGED <<backend, ops, accounts, rows, sessions, req, cut>>

\* resolveUsablePasswordResetToken, resolveUsableInviteToken.
BeginUse(r, l) ==
    /\ Usable(l)
    /\ Begin(r, [op |-> IF links[l].kind = "invite" THEN "accept" ELSE "reset", at |-> "password",
                 email |-> links[l].of[1], n |-> links[l].of[2], pw |-> 0,
                 link |-> {l}, actor |-> links[l].of[1], raced |-> FALSE])
    /\ UNCHANGED <<backend, ops, accounts, rows, sessions, links, cut>>

Marked(ls, used) ==
    [l \in LinkIds |-> IF l \in ls /\ links[l] # Unused THEN [links[l] EXCEPT !.used = used]
                       ELSE links[l]]

SetPassword(r) ==
    /\ At(r, "password")
    /\ IF Exists(Of(r))
       THEN /\ accounts' = [accounts EXCEPT ![req[r].email].pw = IF @ < MaxPw THEN @ + 1 ELSE @]
            /\ cut' = IF req[r].op = "accept" THEN cut \cup {Of(r)} ELSE cut
       ELSE UNCHANGED <<accounts, cut>>
    /\ links' = Marked(req[r].link, "yes")
    /\ Goto(r, "close")
    /\ UNCHANGED <<backend, ops, rows, sessions>>

\* Mutants: the sessions live on; the link stays open.
CloseLink_keepsSessions(r) ==
    /\ At(r, "close")
    /\ links' = [l \in LinkIds |-> IF l \in req[r].link THEN Unused ELSE links[l]]
    /\ End(r)
    /\ UNCHANGED <<backend, ops, accounts, rows, sessions, cut>>
CloseLink_leavesOpen(r) ==
    /\ At(r, "close")
    /\ IF req[r].op = "accept" THEN End(r) ELSE Goto(r, "revoke")
    /\ UNCHANGED <<backend, ops, accounts, rows, sessions, links, cut>>

\* markPasswordResetTokenConsumed(row.id); acceptInvitesForUser(row.userId), the
\* last statement of an acceptance.
CloseLink(r) ==
    /\ At(r, "close")
    /\ IF req[r].op = "accept"
       THEN /\ links' = Closed(Of(r), "invite")
            /\ End(r)
       ELSE /\ links' = [l \in LinkIds |-> IF l \in req[r].link THEN Unused ELSE links[l]]
            /\ Goto(r, "revoke")
    /\ UNCHANGED <<backend, ops, accounts, rows, sessions, cut>>

\* The last statement of a reset and of a suspension.
RevokeSessions(r) ==
    /\ At(r, "revoke")
    /\ sessions' = Killed({Of(r)})
    /\ cut' = cut \ {Of(r)}
    /\ End(r)
    /\ UNCHANGED <<backend, ops, accounts, rows, links>>

-----------------------------------------------------------------------------
(* Managing users *)

Manage == {"suspend", "restore", "invite", "erase", "delete"}

\* Mutant: one may suspend oneself.
BeginManage_self(r, s, op, e) ==
    /\ Signed(s) /\ sessions[s].of[1] \in Admins
    /\ Begin(r, [op |-> op, at |-> "seek", email |-> e, n |-> 0, pw |-> 0, link |-> {},
                 actor |-> IF op = "suspend" THEN sessions[s].of[1] ELSE e, raced |-> FALSE])
    /\ UNCHANGED <<backend, ops, accounts, rows, sessions, links, cut>>

\* requireAdminFormAction: the session is read, for the user and again for the CSRF
\* token, and not looked at any more.  Nobody may suspend himself.
BeginManage(r, s, op, e) ==
    /\ Signed(s) /\ sessions[s].of[1] \in Admins
    /\ op = "suspend" => e # sessions[s].of[1]
    /\ Begin(r, [op |-> op, at |-> "seek", email |-> e, n |-> 0, pw |-> 0, link |-> {},
                 actor |-> IF op = "suspend" THEN sessions[s].of[1] ELSE e, raced |-> FALSE])
    /\ UNCHANGED <<backend, ops, accounts, rows, sessions, links, cut>>

\* The first SELECT of the action, or the WHERE of SQLite's conditional UPDATE.
Seek(r) ==
    LET e     == req[r].email
        found == CASE req[r].op = "suspend" -> Active(e)
                   [] req[r].op = "restore" -> Has(e) /\ ~Active(e)
                   [] req[r].op = "invite"  -> ~Has(e)
                   [] OTHER -> Has(e)
        next  == CASE req[r].op = "suspend" -> "deactivate"
                   [] req[r].op = "restore" -> "activate"
                   [] req[r].op = "invite"  -> "create"
                   [] OTHER -> "purge"
    IN /\ At(r, "seek")
       /\ IF found THEN req' = [req EXCEPT ![r].at = next, ![r].n = accounts[e].n]
          ELSE End(r)
       /\ UNCHANGED <<backend, ops, accounts, rows, sessions, links, cut>>

SetActive(id, to) ==
    accounts' = IF Exists(id) THEN [accounts EXCEPT ![id[1]].active = to] ELSE accounts

\* Mutant: the sessions wait for the account to come back.
Deactivate_keepsSessions(r) ==
    /\ At(r, "deactivate")
    /\ SetActive(Of(r), FALSE)
    /\ End(r)
    /\ UNCHANGED <<backend, ops, rows, sessions, links, cut>>

Deactivate(r) ==
    /\ At(r, "deactivate")
    /\ SetActive(Of(r), FALSE)
    /\ Goto(r, "revoke")
    /\ UNCHANGED <<backend, ops, rows, sessions, links, cut>>

Activate(r) ==
    /\ At(r, "activate")
    /\ SetActive(Of(r), TRUE)
    /\ End(r)
    /\ UNCHANGED <<backend, ops, rows, sessions, links, cut>>

\* Mutant: an id is used again.
CreateAccount_sameId(r) ==
    LET e == req[r].email
    IN /\ At(r, "create") /\ ~Has(e)
       /\ accounts' = [accounts EXCEPT ![e] = [n |-> 1, pw |-> 0, active |-> TRUE]]
       /\ req' = [req EXCEPT ![r].at = "invite", ![r].n = 1]
       /\ UNCHANGED <<backend, ops, rows, sessions, links, cut>>

\* createInvitedAdminUser, with a password nobody knows; the address is UNIQUE.
CreateAccount(r) ==
    LET e == req[r].email
    IN /\ At(r, "create")
       /\ IF Has(e) THEN End(r) /\ UNCHANGED <<accounts, rows>>
          ELSE /\ rows[e] < MaxRow
               /\ rows' = [rows EXCEPT ![e] = @ + 1]
               /\ accounts' = [accounts EXCEPT ![e] =
                                 [n |-> rows[e] + 1, pw |-> 0, active |-> TRUE]]
               /\ req' = [req EXCEPT ![r].at = "invite", ![r].n = rows[e] + 1]
       /\ UNCHANGED <<backend, ops, sessions, links, cut>>

InviteLink(r, l) ==
    /\ At(r, "invite")
    /\ NewLink(r, l, "invite")
    /\ UNCHANGED <<backend, ops, accounts, rows, sessions, cut>>

\* purgeUserData: the sessions first, comments and submissions, the account last.
PurgeSessions(r) ==
    /\ At(r, "purge")
    /\ sessions' = Killed({Of(r)})
    /\ cut' = cut \ {Of(r)}
    /\ Goto(r, "erase")
    /\ UNCHANGED <<backend, ops, accounts, rows, links>>

\* WHERE email = ?; a deleted row takes its sessions and links along (ON DELETE CASCADE).
EraseAccount(r) ==
    LET e    == req[r].email
        gone == {id \in Account : id[1] = e /\ req[r].op = "delete"}
    IN /\ At(r, "erase")
       /\ accounts' = IF ~Has(e) THEN accounts
                      ELSE IF req[r].op = "delete" THEN [accounts EXCEPT ![e] = NoRow]
                      ELSE [accounts EXCEPT ![e].active = FALSE]
       /\ sessions' = Killed(gone)
       /\ links' = [l \in LinkIds |-> IF links[l].of \in gone THEN Unused ELSE links[l]]
       /\ cut' = cut \ gone
       /\ End(r)
       /\ UNCHANGED <<backend, ops, rows>>

\* seedBootstrapUsers, when a process starts on SQLite: ON CONFLICT(email) the password
\* and active = 1 are set again; the sessions stay.
Reseed(e) ==
    /\ backend = "sqlite" /\ \A r \in Requests : ~Busy(r)
    /\ IF Has(e)
       THEN /\ accounts' = [accounts EXCEPT ![e].pw = IF @ < MaxPw THEN @ + 1 ELSE @,
                                            ![e].active = TRUE]
            /\ cut' = cut \cup {Id(e)}
            /\ UNCHANGED rows
       ELSE /\ rows[e] < MaxRow
            /\ rows' = [rows EXCEPT ![e] = @ + 1]
            /\ accounts' = [accounts EXCEPT ![e] = [n |-> rows[e] + 1, pw |-> 0, active |-> TRUE]]
            /\ UNCHANGED cut
    /\ UNCHANGED <<backend, ops, sessions, links, req>>

\* A worker or a process dies, or a statement fails, between two statements.
Die(r) ==
    /\ Busy(r)
    /\ links' = IF req[r].at = "close" THEN Marked(req[r].link, "torn") ELSE links
    /\ cut' = IF req[r].at \in {"close", "revoke"} THEN cut \cup {Of(r)} ELSE cut
    /\ End(r)
    /\ UNCHANGED <<backend, ops, accounts, rows, sessions>>

-----------------------------------------------------------------------------
(* The specification *)

\* The seeded administrators, and addresses not invited yet.
Init ==
    /\ backend \in Backends /\ ops \in Mixes
    /\ \E seeded \in SUBSET Admins :
         /\ accounts = [e \in Emails |-> IF e \in seeded
                          THEN [n |-> 1, pw |-> 0, active |-> TRUE] ELSE NoRow]
         /\ rows = [e \in Emails |-> IF e \in seeded THEN 1 ELSE 0]
    /\ sessions = [s \in SessionIds |-> Unused]
    /\ links = [l \in LinkIds |-> Unused]
    /\ req = [r \in Requests |-> Idle]
    /\ cut = {}

Statement(r) ==
    \/ OpenSession(r) \/ RetireLinks(r) \/ SetPassword(r) \/ CloseLink(r)
    \/ RevokeSessions(r) \/ Seek(r) \/ Deactivate(r) \/ Activate(r) \/ CreateAccount(r)
    \/ PurgeSessions(r) \/ EraseAccount(r) \/ Die(r)
    \/ \E s \in SessionIds : InsertSession(r, s)
    \/ \E l \in LinkIds : IssueLink(r, l) \/ InviteLink(r, l)

Next ==
    \/ \E r \in Requests :
         \/ Statement(r)
         \/ \E e \in Emails : BeginLogin(r, e) \/ BeginIssue(r, e)
         \/ \E l \in LinkIds : BeginUse(r, l)
         \/ \E s \in SessionIds, op \in Manage, e \in Emails : BeginManage(r, s, op, e)
    \/ \E s \in SessionIds : Lapse(s) \/ Logout(s)
    \/ \E emails \in SUBSET Emails : EmergencyRevoke(emails)
    \/ \E l \in LinkIds : Expire(l)
    \/ \E e \in Bootstrap : Reseed(e)

Spec == Init /\ [][Next]_vars

-----------------------------------------------------------------------------
(* Correctness *)

\* The password or the state of the account was changed, and its sessions are still to
\* be revoked, or were not: the handler died, or an invitation or a start changed it.
Revoking(r, id)  == /\ Busy(r) /\ Of(r) = id
                    /\ req[r].at = "revoke" \/ (req[r].at = "close" /\ req[r].op # "accept")
Unfinished(id)   == id \in cut \/ \E r \in Requests : Revoking(r, id)

\* A new password locks the old one out.  A session that was opened with a password
\* which has been replaced since is revoked (consumePasswordResetToken), except: the
\* login overlapped the change; the change died before it revoked, or is about to; or
\* the password was set through an invitation, or by the start of a process, which
\* revoke nothing.
OldPasswordOut ==
    \A s \in SessionIds :
        sessions[s] # Unused /\ sessions[s].pw # accounts[sessions[s].of[1]].pw
            => Unfinished(sessions[s].of) \/ sessions[s].raced

\* A suspension outlives itself: no session of a suspended account is left for the
\* moment the suspension is lifted (suspendAdminUser, purgeUserData), except a login
\* overlapped it or it died before it revoked, or is about to.
SuspendedOut ==
    \A s \in SessionIds :
        sessions[s] # Unused /\ ~Active(sessions[s].of[1])
            => Unfinished(sessions[s].of) \/ sessions[s].raced

\* An account has one open reset link, the last that was issued
\* (issuePasswordResetToken retires the others); two only on D1, by overlap.
OneResetLink ==
    \A k, l \in LinkIds :
        /\ k # l /\ links[k] # Unused /\ links[l] # Unused
        /\ links[k].of = links[l].of /\ links[k].kind = "reset" /\ links[l].kind = "reset"
        => links[k].raced \/ links[l].raced

\* A link sets a password once (consumePasswordResetToken, consumeInviteToken), and no
\* link that is closed sets one; except on D1, where uses overlap between the check and
\* the password, and after a use that died before it closed the link.
LinkSetsOnce ==
    [][\A r \in Requests :
         req[r].at = "password" /\ req'[r].at = "close"
             => \A l \in req[r].link : \/ links[l] # Unused /\ links[l].used # "yes"
                                       \/ backend = "d1" /\ req[r].raced]_vars

\* Suspensions lock everybody out only by crossing each other: the last active account
\* is never suspended by someone who is still active himself (suspendAdminUser's refusal
\* to suspend one's own account is the only guard against it).
LastOneStays ==
    [][\A r \in Requests :
         req[r].at = "deactivate" /\ req'[r].at = "revoke" /\ (\A e \in Emails : ~Active(e)')
             => ~Active(req[r].actor) \/ ~Active(req[r].email)]_vars

-----------------------------------------------------------------------------
(* The inductive invariant behind them *)

\* ON DELETE CASCADE: rows belong to the account the address has now.
Owned ==
    /\ \A s \in SessionIds : sessions[s] # Unused => Exists(sessions[s].of)
    /\ \A l \in LinkIds : links[l] # Unused => Exists(links[l].of)

OverlapSeen ==
    \A q, r \in Requests :
        q # r /\ Busy(q) /\ Busy(r) /\ req[q].email = req[r].email => req[r].raced

\* Nothing has happened to the account of a login that no other request overlapped.
LoginFresh ==
    \A r \in Requests :
        req[r].at \in {"open", "insert"} /\ ~req[r].raced =>
            /\ Active(req[r].email) /\ accounts[req[r].email].pw = req[r].pw
            /\ req[r].at = "insert" => Of(r) = Id(req[r].email)

\* The sessions an erasure leaves were opened while it ran.
ErasureSweeps ==
    \A r \in Requests, s \in SessionIds :
        /\ req[r].at \in {"purge", "erase"}
        /\ sessions[s] # Unused /\ sessions[s].of[1] = req[r].email
        /\ req[r].at = "purge" => sessions[s].of # Of(r)
        => sessions[s].raced

\* Between retiring the old links and issuing the new one there is none.
IssueAlone ==
    \A r \in Requests, l \in LinkIds :
        /\ req[r].at = "issue" /\ (backend = "d1" => ~req[r].raced)
        /\ links[l] # Unused /\ links[l].kind = "reset"
        => links[l].of # Of(r)

\* A request uses a link of its account; the link is open and unused until another
\* use overlaps; one that has set a password is being closed, or its use died.
Using(r, l) == req[r].at \in {"password", "close"} /\ l \in req[r].link

LinkUses ==
    /\ \A r \in Requests, l \in LinkIds : Using(r, l) =>
          /\ links[l] # Unused =>
                /\ links[l].of = Of(r)
                /\ links[l].kind = IF req[r].op = "accept" THEN "invite" ELSE "reset"
          /\ req[r].at = "password" =>
                \/ links[l] # Unused /\ links[l].used # "yes"
                \/ backend = "d1" /\ req[r].raced
    /\ \A l \in LinkIds : links[l] # Unused /\ links[l].used = "yes" =>
          \E r \in Requests : Using(r, l) /\ req[r].at = "close"

\* Nobody is about to suspend himself.
NotOneself ==
    \A r \in Requests :
        \/ req[r].at = "seek" /\ req[r].op = "suspend"
        \/ req[r].at = "deactivate"
        => req[r].actor # req[r].email

AccountsInv ==
    /\ Owned /\ OverlapSeen /\ LoginFresh /\ ErasureSweeps /\ IssueAlone /\ LinkUses /\ NotOneself
    /\ OldPasswordOut /\ SuspendedOut /\ OneResetLink
=============================================================================

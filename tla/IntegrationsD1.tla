--------------------------- MODULE IntegrationsD1 ---------------------------
(***************************************************************************)
(* Connected integrations on Cloudflare D1 (sqlite-runtime/                *)
(* integrations-d1.ts).  The tables and the verification are those of      *)
(* Integrations; here every statement is awaited, only connect's batch is  *)
(* atomic, and a worker may die at any await.  The root secrets are set by *)
(* a deploy here too, but the rotation script opens a SQLite file only.    *)
(***************************************************************************)
EXTENDS Integrations

Request1 == Request \cup [op : {"count", "mark"}, provider : Providers]

TypeOK1 ==
    /\ status \in [Providers -> StatusRow]
    /\ secret \in [Providers -> SecretRow]
    /\ req \in [Requests -> Request1]
    /\ env \in [current : 1..MaxRoot, previous : 0..MaxRoot, confirmed : BOOLEAN]
    /\ latest \in [Providers -> Fields \cup {NoFields}]

Await(c, op, p) == req' = [req EXCEPT ![c] = [op |-> op, provider |-> p]]
Done(c)         == req' = [req EXCEPT ![c] = Idle]

\* Mutant: the INSERT of the secret has no ON CONFLICT DO UPDATE but DO NOTHING.
ConnectBatch_keepsSecret(c, fields) ==
    /\ req[c].op = "connect"
    /\ LET p == req[c].provider
       IN /\ status' = Connected(p)
          /\ secret' = IF secret[p] = NoSecret
                         THEN [secret EXCEPT ![p] = Sealed(fields)] ELSE secret
          /\ latest' = [latest EXCEPT ![p] = fields]
          /\ Await(c, "count", p)
    /\ UNCHANGED env

\* connect: db.batch of the two upserts.
ConnectBatch(c, fields) ==
    /\ req[c].op = "connect"
    /\ \E fresh \in Seals : fresh \notin SealsInUse
    /\ LET p == req[c].provider
       IN /\ status' = Connected(p)
          /\ secret' = [secret EXCEPT ![p] = Sealed(fields)]
          /\ latest' = [latest EXCEPT ![p] = fields]
          /\ Await(c, "count", p)
    /\ UNCHANGED env

\* connect: await hasActiveProvider.
CountActive(c) ==
    /\ req[c].op = "count"
    /\ LET p == req[c].provider
       IN IF ActiveIn(status, DomainOf[p]) = {} THEN Await(c, "mark", p) ELSE Done(c)
    /\ UNCHANGED <<status, secret, env, latest>>

\* SQL_MARK_ACTIVE, the last statement of connect and of setActiveProvider.
MarkActive(c) ==
    /\ req[c].op = "mark"
    /\ LET p == req[c].provider
       IN status' = IF status[p].state = "connected"
                      THEN [status EXCEPT ![p].active = TRUE] ELSE status
    /\ Done(c)
    /\ UNCHANGED <<secret, env, latest>>

\* setActiveProvider: SQL_CLEAR_ACTIVE_IN_DOMAIN.
ClearActive(c, p) ==
    /\ req[c] = Idle
    /\ status' = [q \in Providers |-> IF DomainOf[q] = DomainOf[p]
                    THEN [status[q] EXCEPT !.active = FALSE] ELSE status[q]]
    /\ Await(c, "mark", p)
    /\ UNCHANGED <<secret, env, latest>>

\* Mutant: updateStatus inserts the row when it is gone.
Reverified1_upsert(c, state) ==
    /\ req[c].op = "reverify"
    /\ status' = [status EXCEPT ![req[c].provider].state = state]
    /\ Done(c)
    /\ UNCHANGED <<secret, env, latest>>

\* Mutant: a provider that does not answer is paused.
Reverified1_pauses(c, state) == Reverified_pauses(c, state)

\* updateStatus: one statement, as on SQLite.
Reverified1(c, state) == Reverified(c, state)

\* findSecret: await SQL_FIND_SECRET.
FindSecret(c, p) ==
    /\ req[c] = Idle
    /\ secret[p] # NoSecret
    /\ req' = [req EXCEPT ![c] = [op |-> "read", provider |-> p, row |-> secret[p]]]
    /\ UNCHANGED <<status, secret, env, latest>>

\* The worker dies at an await: what is committed stays.
WorkerDies(c) ==
    /\ req[c] # Idle
    /\ Done(c)
    /\ UNCHANGED <<status, secret, env, latest>>

Next1 ==
    \/ \E p \in Providers : Disconnect(p)
    \/ \E c \in Requests, p \in Providers :
         \/ Begin(c, "connect", p) \/ Begin(c, "reverify", p)
         \/ ClearActive(c, p) \/ FindSecret(c, p)
    \/ \E c \in Requests, fields \in Fields : ConnectBatch(c, fields)
    \/ \E c \in Requests, state \in {"connected", "error"} : Reverified1(c, state)
    \/ \E c \in Requests :
         \/ ConnectRejected(c) \/ CountActive(c) \/ MarkActive(c)
         \/ EndRead(c) \/ EndReadReseal(c) \/ WorkerDies(c)
    \/ Rotate

Spec1 == Init /\ [][Next1]_vars

-----------------------------------------------------------------------------
(* Properties *)

\* integrations-d1.ts: "we never want a window where it shows 'connected' while
\* the secret is still missing (or, worse, vice-versa)", for any interleaving of
\* connects, reverifications and disconnects and any death of a worker.
ConnectedHasSecret ==
    \A p \in Providers :
        /\ status[p].state = "connected" => secret[p] # NoSecret
        /\ secret[p] # NoSecret => status[p] # NoRow
=============================================================================
